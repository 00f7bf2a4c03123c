CONSTANTS
    a = a
    b = b
    Host <- Hosts
    ISN <- FirstNumbers
    TotalBytes <- OneByte
    SeqSpace = 8
    BUFFER_SIZE = 4
    AdvertMod = 4
    WINDOW_SCALE_BITS = 0
    MSS = 1
    CongInit = 2
    CongStep = 1
    CONGESTION_WINDOW_MAX = 2
    SsthreshInit = 2
    MaxRetries = 1
    ProbeLength = 1
    Listening = {b}
    Opener = {a}
    Closer = {a}
    WriteLength = {1,2}
    RxRoom = 1
    MaxNet = 3
    MaxEvents = 2
    MaxOpens = 1
    Faults = 1
    Reorder = FALSE
    CalmClose = FALSE
SPECIFICATION Spec
CHECK_DEADLOCK FALSE
INVARIANTS
    NothingInvented
