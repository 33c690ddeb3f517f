SPECIFICATION Spec
CONSTANTS
    Trees <- MCTrees
    Stem <- MCStem
    Fallback <- MCFallback
    FileName <- MCFileName
    NoName = ""
    Unreadable = Unreadable
INVARIANTS
    TypeOK
    MirrorsSource
    FoldersNamed
    OneAlbumArtist
    EveryTrackListed
CHECK_DEADLOCK FALSE
