SPECIFICATION Spec
CONSTANTS
  InitFiles = {i1}
  LaunchFiles = {l1, l2}
INVARIANTS NothingLingers FilesGoneUnlessCancelled
PROPERTY TestEnds
CHECK_DEADLOCK FALSE
