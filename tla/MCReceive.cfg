SPECIFICATION ReceiveSpec
CONSTANTS
  Messages <- MCMessages
  Responses <- MCResponses
  Large <- MCLarge
  Wire <- MCWire
  MAX_FRAGMENTS_PER_PACKET = 3
  LruSize = 2
INVARIANTS
  OwnMessagesAreRead
  HistoryFree
  OnlyWholeIsRead
  OnlyTheseRaise
