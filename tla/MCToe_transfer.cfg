CONSTANTS
    a = a
    b = b
    Host <- Hosts
    ISN <- FirstNumbers
    TotalBytes <- TwoBytes
    SeqSpace = 8
    BUFFER_SIZE = 4
    AdvertMod = 2
    WINDOW_SCALE_BITS = 1
    MSS = 1
    CongInit = 2
    CongStep = 1
    CONGESTION_WINDOW_MAX = 2
    SsthreshInit = 2
    MaxRetries = 1
    ProbeLength = 1
    Listening = {b}
    Opener = {a}
    Closer = {}
    WriteLength = {1,2}
    RxRoom = 2
    MaxNet = 2
    MaxEvents = 2
    MaxOpens = 1
    Faults = 1
    Reorder = TRUE
    CalmClose = TRUE
SPECIFICATION Spec
CHECK_DEADLOCK FALSE
INVARIANTS
    DeliveredInOrder
    
    AcknowledgedReceivedSent
    OutstandingIsTimed
