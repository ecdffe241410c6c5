SPECIFICATION WalkSpec
CONSTANTS
  s1 = s1
  s2 = s2
  fake = fake
  Servers = {s1, s2, fake}
  Default = s2
  FakeIP = {fake}
  Tags = {"a"}
  MaxRules = 3
  Lists <- MCLists
INVARIANTS OrderedOutcome NoWastedQuery
PROPERTY QueryReturns
CHECK_DEADLOCK FALSE
