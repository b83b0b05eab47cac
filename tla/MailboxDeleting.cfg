SPECIFICATION Spec
CONSTANTS
  p1 = p1
  None = None
  s1 = s1
  s2 = s2
  Sessions = {s1, s2}
  Deliveries = {}
  Pop3Sessions = {p1}
  Ops <- DeletingOps
  InitialMail = 2
  MaxUid = 2
  MaxCommands = 4
  MaxCached = 2
  MaxFaults = 1
  FaultKinds = {"row","file"}
  MaxExpiries = 1
CHECK_DEADLOCK FALSE
INVARIANTS
  MailboxTypeOK
  ClientAgrees
  ActsOnWhatWasMeant
  DeletionPending
PROPERTY
  KeepsPromise
