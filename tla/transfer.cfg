SPECIFICATION Spec
CONSTANTS
    CHUNK_SIZE = 3
    Half = 8
    Window = 2
    MaxLength = 17
    LeftOver = {9}
    None = None
CHECK_DEADLOCK FALSE
INVARIANTS
    TypeOK
    ChunksSound
    PublishedWhole
    CountHonest
    FetchExact
PROPERTY
    TransferEnds
