CONSTANTS
    Modulus = 8
    Chunk = 2
    MaxRequests = 2
    Requests <- HeadRequests
    FileSizes <- SomeSizes
SPECIFICATION Spec
INVARIANTS HeadHasNoBody
CHECK_DEADLOCK FALSE
