SPECIFICATION Spec
CONSTANTS
    Written <- MCWritten
    Album <- MCAlbum
    AlbumArtists <- MCAlbumArtists
    DefaultPlayMs = 180000
    DefaultFadeMs = 8000
    MaxPlayMs = 1200000
    MaxFadeMs = 60000
    SampleRate = 1000
    Channels = 2
    MaxBinaryPlaySec = 8191
    MaxBinaryFadeMs = 99999
    Nil = Nil
INVARIANTS
    ReadsBack
    NameLegal
    WavReadable
CHECK_DEADLOCK FALSE
