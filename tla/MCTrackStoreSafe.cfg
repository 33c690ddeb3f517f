SPECIFICATION SpecHistory
CONSTANTS
    r1 = r1
    r2 = r2
    r3 = r3
    t1 = t1
    t2 = t2
    s1 = s1
    Free = Free
    Nil = Nil
    EIO = EIO
    HeaderOnly = HeaderOnly
    Readers <- MCReaders
    Tracks <- MCTracks
    Sources <- MCSources
    SourceOf <- MCSourceOf
    Bytes <- MCBytes
    MaxBytes = 4
    MaxVersion = 1
SYMMETRY MCSymmetry
INVARIANTS
    TypeOK
    OneRenderPerTrack
    FlightHasLeader
    NoRedundantRender
    RightTrack
PROPERTIES
    ImplementsMonotonicReads
