SPECIFICATION Spec
CONSTANTS
  Calls = {"c1", "c2", "c3"}
  Outer = "c1"
  Nested = "c3"
  Environments = {1, 2}
  MaxChanges = 2
  MaxAges = 1
INVARIANTS SingleFlight NoForeignAnswer
PROPERTY CallsReturn
CHECK_DEADLOCK FALSE
