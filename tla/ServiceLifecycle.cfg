SPECIFICATION Spec
CONSTANTS
  Sessions = {"p1", "p2", "p3"}
  NoSession = "null"
  Plugins = {"xray", "naive"}
  VpnMode = TRUE
  MaxStarts = 3
INVARIANTS
  StoppedIsClean
  LiveIsCurrent
  ConnectedIsComplete
  TransientHasOwner
  NoStalePlugins
PROPERTIES CancelledNeverConnects StopCompletes RestartIsDelivered
