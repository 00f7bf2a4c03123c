SPECIFICATION Spec
CONSTANTS
    Server <- OneServer
    Key <- MCKey
    HashValue <- MCHashValue
    NUM_TABLES = 2
    TABLE_SIZE = 2
    MAX_TRIALS = 3
    MAX_SESSIONS = 3
    PortCache = 1
    MaxOpens = 1
    MaxChecks = 2
    MaxReleases = 1
    ListenPort <- PortAndHigh
    SegmentPort <- TwoPorts
INVARIANTS IdsConserved TablesAgree CheckAnswersInOrder
PROPERTIES  ReleasedBecomesFree
CHECK_DEADLOCK FALSE
