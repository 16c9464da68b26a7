SPECIFICATION TransferSpec
CONSTANTS
  split_size = 1200
  header_size = 12
  Lengths <- MCLengths
  MAX_FRAGMENTS_PER_PACKET = 3
  LruSize = 2
  MaxPackets = 3
INVARIANTS
  DatagramsFit
  CacheConsistent
  ReceivedIsSent
  MixedOnlyBySharedId
\* The packets are all sent and received: nothing else is to happen.
CHECK_DEADLOCK FALSE
