SPECIFICATION FairSpec
CONSTANTS
  b1 = b1
  b2 = b2
  n1 = n1
  w1 = w1
  w2 = w2
  w3 = w3
  Kinds = {"async"}
  Tasks = {b1, b2, n1}
  Blocking = {b1, b2}
  Threads = {w1, w2}
  Control = Control
  Health = Health
  Admin = Admin
  NoTask = NoTask
  Configured = 2
  Requests = {}
  MaxThreads = 2
  Reserved = 1
  MaxStarts = 1
PROPERTIES
  NormalTaskStarts
  StallIsReported
CHECK_DEADLOCK FALSE
