CONSTANTS
    Modulus = 8
    Chunk = 2
    MaxRequests = 2
    Requests <- SomeRequests
    FileSizes <- SomeSizes
SPECIFICATION FairSpec
INVARIANTS TypeOK OneResponseEach ReachesEnd
PROPERTIES Framed StreamEnds
CHECK_DEADLOCK FALSE
