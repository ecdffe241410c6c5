SPECIFICATION WalkSpec
CONSTANTS
  s1 = s1
  s2 = s2
  fake = fake
  Servers = {s1, s2, fake}
  Default = s2
  FakeIP = {fake}
  Tags = {"a"}
  MaxRules = 2
  Lists <- MCLists
INVARIANT FallbackInOrder
CHECK_DEADLOCK FALSE
