SPECIFICATION SessionSpec
CONSTANTS
  Nodes = {n1, n2}
  Main = n1
  None = None
  Calls = {c1, c2}
  MaxPicks = 3
  MaxSent = 1
  MaxSwitches = 2
INVARIANTS LastPickWins LooperFollows Conservation FinalTotals ClearHolds
CHECK_DEADLOCK FALSE
