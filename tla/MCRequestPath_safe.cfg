CONSTANTS
  Workloads = {"echo", "norm", "reconf"}
  RECONF_APP = "reconf"
  DispDepth = 12
  QUEUE_NUM = 2
  Conns = {1, 2}
  Free = 0
  QueueDepth = 4
  Plans <- SafePlans
SPECIFICATION FairPathSpec
INVARIANTS
  BeatsExact
  WholeBeforeLeaving
  CreditsAreRequests
PROPERTIES
  RequestsLeave
