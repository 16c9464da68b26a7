SPECIFICATION FairClientsSpec
CONSTANTS
  fails_threshold = 2
  MaxTime = 0
  MaxFails = 2
  no_a2s_rules = TRUE
  Forms = {"response", "raises"}
  NoEntry = NoEntry
  MaxVersion = 0
  MaxInFlight = 1
  Clients = {c1}
  ZeroPort = {}
  our_a2s_challenge = ours
  OtherChallenges = {empty}
  NoOne = NoOne
PROPERTIES
  DownDetected
  UpDetected
  EveryTaskKeepsAsking
  ClientsGetInfo
  HandshakeCompletes
