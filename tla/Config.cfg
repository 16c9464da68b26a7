SPECIFICATION ConfigSpec
CONSTANTS
  Names <- MCNames
  Options = {"entrypoint"}
  Entrypoint <- MCEntrypoint
  Contents <- MCContents
  MaxFiles = 3
  Missing = Missing
  Null = Null
INVARIANTS
  ConfigTypeOK
  EffectiveValues
  ForeignConfdirIsShared
CHECK_DEADLOCK FALSE
