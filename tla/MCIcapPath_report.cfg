CONSTANTS
  WordBytes = 2
  WordsPerBeat = 2
  AddrBeats = 4
  SlotCount = 2
  MaxCommands = 3
  CycleCap = 1
  PipeDepth = 3
  Builds = {"simulation", "pulse"}
  Commands <- LoadCommands
  Lines <- MCLines
  HbmContents <- MCHbm
SPECIFICATION FairPathSpec
INVARIANTS
  AnswerIsEngines
PROPERTIES
  LoadAnswered
