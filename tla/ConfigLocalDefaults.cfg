SPECIFICATION ConfigSpec
CONSTANTS
  Names <- MCNames
  Options = {"entrypoint"}
  Entrypoint <- MCEntrypoint
  Contents <- MCContents
  MaxFiles = 3
  Missing = Missing
  Null = Null
INVARIANT GlobalsCanBeOverridden
CHECK_DEADLOCK FALSE
