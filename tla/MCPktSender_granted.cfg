CONSTANTS
  PayloadDepth = 4
  MetaDepth = 2
  MaxBeats = 3
  MaxResponses = 4
  Verdicts <- ShortMayClose
SPECIFICATION FairSenderSpec
CHECK_DEADLOCK FALSE
INVARIANTS
  AnnouncedWhole
PROPERTIES
  BeatsUnderTheirMetadata
  ResponsesLeave
