SPECIFICATION FairWaitSpec
CONSTANTS
  Keys = {a2s_info, a2s_players, a2s_rules}
  Waited = {a2s_info, a2s_players}
  Values = {v1, v2}
  NoEntry = NoEntry
INVARIANTS
  WaitTypeOK
  FuturesConsistent
  ReadyMeansFilled
PROPERTIES
  ImplementsResponseCache
  WaitReadyReturns
