SPECIFICATION Spec
CONSTANTS
  b1 = b1
  b2 = b2
  n1 = n1
  w1 = w1
  w2 = w2
  w3 = w3
  Kinds = {"async", "delivery"}
  Tasks = {b1, b2, n1}
  Blocking = {b1, b2}
  Threads = {w1, w2, w3}
  Control = Control
  Health = Health
  Admin = Admin
  NoTask = NoTask
  Configured = 2
  Requests = {0, 4}
  MaxThreads = 2
  Reserved = 1
  MaxStarts = 2
INVARIANTS
  QueueTypeOK
  EachTaskOnce
  CountersExact
  NothingParked
  OneThreadFree
PROPERTIES
  StallIsReal
CHECK_DEADLOCK FALSE
