SPECIFICATION HelpersSpec
CONSTANTS
  Guards = {g1, g2, g3}
  MaxRestarts = 1
  Services = {s1, s2}
  Networks = {n1, n2}
  None = None
  MaxQueue = 4
INVARIANTS NoRestartAfterClose DownIsNoticed UnderlyingFollowsDefault
PROPERTY CloseKillsAll
CHECK_DEADLOCK FALSE
