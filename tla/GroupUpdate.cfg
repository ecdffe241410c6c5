SPECIFICATION GroupSpec
CONSTANTS
  MainTasks = {m1, m2, m3}
  BgTasks = {b1, b2}
  Titles = {a}
  Hosts = {x, y}
  Ip = ip
  Blank = blank
  MaxLen = 2
  MaxUpdates = 2
  MaxEdits = 2
INVARIANTS NothingLeftBehind NoOrphans
PROPERTIES ImplementsExclusion MarkerReturns MergeExact OthersWritesStay
CHECK_DEADLOCK FALSE
