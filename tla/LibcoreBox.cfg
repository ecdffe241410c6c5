SPECIFICATION Spec
CONSTANTS
  Threads = {svc, t1, t2}
  Svc = svc
  NoThread = NoThread
  ServiceBoxes = {s1}
  TestBoxes = {x1}
  NoBox = NoBox
INVARIANTS MainFollowsSession
PROPERTIES AccessSerialises CallsReturn
