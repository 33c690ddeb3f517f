SPECIFICATION FairSpec
CONSTANTS
    Ms <- MCMs
    MaxPlayMs = 4
    MaxFadeMs = 3
    BuiltInPlayMs = 3
    BuiltInFadeMs = 1
    SampleRate = 2500
    Channels = 2
    ChunkLen = 5
    NoAudio = NoAudio
INVARIANTS
    TypeOK
    HandleReleased
    BufferBounded
    NotCutShort
PROPERTIES
    ImplementsRenderer
    RenderEnds
CHECK_DEADLOCK FALSE
