SPECIFICATION Spec
CONSTANTS
  Nodes = {n1, n2}
  Main = n1
  None = None
  MaxSent = 1
  MaxSwitches = 1
INVARIANT ClearIsFinal
CHECK_DEADLOCK FALSE
