SPECIFICATION Spec
CONSTANTS
    W = 8
    LANE = 16
    BUFFER_SIZE = 16
    Hosts = {1, 2}
    FifoDepth = 1
    Jobs <- MCJobs
    Strays <- MCStrays
    Faults = 1
    WireDepth = 1
INVARIANTS
    DeliveredExactly
    Drained
    
    MissesAskedFor
