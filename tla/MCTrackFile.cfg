SPECIFICATION FairSpecFile
CONSTANTS
    r1 = r1
    r2 = r2
    t1 = t1
    t2 = t2
    s1 = s1
    Free = Free
    Nil = Nil
    EIO = EIO
    HeaderOnly = HeaderOnly
    Readers <- MCReaders
    Tracks <- MCTracks
    Sources <- MCSources
    SourceOf <- MCSourceOf
    Bytes <- MCBytes
    HeaderLen <- MCHeaderLen
    ReadSizes = {1, 3}
    MaxBytes = 4
    MaxVersion = 0
INVARIANTS
    TypeOKFile
    HeaderNeverRenders
PROPERTIES
    ImplementsVirtualFile
    ReadingEnds
