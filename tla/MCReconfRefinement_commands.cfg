CONSTANTS
  WordBytes = 2
  WordsPerBeat = 2
  AddrBeats = 4
  SlotCount = 2
  MaxCommands = 2
  CycleCap = 2
  Commands <- AllCommands
  Lines <- MCLines
  HbmContents <- MCHbm
SPECIFICATION FairSpec
INVARIANTS
  TypeOK
  BytesExact
  LoadsSafe
PROPERTIES
  WriteConfined
  ReconnectAfterWholeStream
  CommandAnswered
  ImplementsService
