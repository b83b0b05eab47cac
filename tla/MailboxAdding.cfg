SPECIFICATION Spec
CONSTANTS
  d1 = d1
  None = None
  s1 = s1
  s2 = s2
  Sessions = {s1, s2}
  Deliveries = {d1}
  Pop3Sessions = {}
  Ops <- AddingOps
  InitialMail = 1
  MaxUid = 3
  MaxCommands = 3
  MaxCached = 2
  MaxFaults = 1
  FaultKinds = {"save", "refresh"}
  MaxExpiries = 0
CHECK_DEADLOCK FALSE
INVARIANTS
  ClientAgrees
  DeletionPending
  NewMailPending
PROPERTY
  UidsAscend
  KeepsPromise
