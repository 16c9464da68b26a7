SPECIFICATION FailedRequestsSpec
CONSTANTS
  fails_threshold = 2
  MaxTime = 1
  MaxFails = 3
  no_a2s_rules = TRUE
  Forms = {"response", "raises"}
  NoEntry = NoEntry
  MaxVersion = 1
  MaxInFlight = 2
  Clients = {c1, c2, c0}
  ZeroPort = {c0}
  our_a2s_challenge = ours
  OtherChallenges = {empty}
  NoOne = NoOne
INVARIANTS
  ProxyTypeOK
  StatusFollowsCount
  OnlineMeansServable
  DownOnlyAfterFails
PROPERTIES
  CacheNeverRegresses
  ServedNeverRegresses
  ImplementsAvailability
