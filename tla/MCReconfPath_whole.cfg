CONSTANTS
  SlotIds = {0}
  NoSlot = 1
  Sessions = {1, 2}
  MaxRequests = 3
  Shapes <- OnePacket
SPECIFICATION FairPathSpec
INVARIANTS
  AnswerToItsSession
PROPERTIES
  LinesInPlace
  AllAnswered
