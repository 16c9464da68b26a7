SPECIFICATION FairExchangeSpec
CONSTANTS
  RequestChallenge = empty
  Numbers = {n1, n2}
  ServerChecks = TRUE
  timeout = 2
  MaxVersion = 1
  MaxRotations = 2
  MaxCopies = 2
INVARIANTS
  ExchangeTypeOK
  RoundsBounded
PROPERTIES
  ImplementsContract
  RoundEndsEventually
