SPECIFICATION Spec
INVARIANTS
  HostIsRestored
  RestartReconnects
  KillSwitchHolds
  ConnectCanBeRetried
  EndingEndsTheTunnel
  PacketsAreKept
  ProfilesSurvive
PROPERTY ReconnectsOnlyWhenSilent
CHECK_DEADLOCK FALSE
