SPECIFICATION Spec
CONSTANTS
  useConn = 2
  pkgWordCount = 2
  expWords = 4
  Depth = 2
  WIDTH = 3
  MaxCut = 2
  Refusals = 1
CHECK_DEADLOCK FALSE
INVARIANT CollectiveExact
 
