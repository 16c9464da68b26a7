SPECIFICATION FairStartupSpec
CONSTANTS
  eth0 = eth0
  eth1 = eth1
  ServerPort <- MCServerPort
  Interfaces <- MCInterfaces
  Wide = Wide
  Unknown = Unknown
  BindPorts = {0, 27815}
  Ephemeral = {49152}
  ExitCodes = {0, 1}
INVARIANTS
  StartupTypeOK
  RedirectionWaits
  RedirectsReachListeners
  RedirectsGoTogether
PROPERTIES
  RedirectionStarts
  FailureIsNoticed
CHECK_DEADLOCK FALSE
