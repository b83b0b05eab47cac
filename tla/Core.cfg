SPECIFICATION Spec
CONSTANTS
  m1 = m1
  m2 = m2
  m3 = m3
  w1 = w1
  w2 = w2
  l1 = l1
  l2 = l2
  e1 = e1
  e2 = e2
  NoMsg = NoMsg
  Msgs = {m1, m2}
  Workers = {w1, w2}
  LocalRcpts = {l1}
  ExternalRcpts = {e1}
  Silent = {}
  EtrnRcpts = {}
  MaxNoOfRetries = 1
  AVFailAction = FALSE
  AVFailMaxHolds = 1
  MaxTrackedAvHolds = 1
  HardLinks = FALSE
  MaxFaults = 0
  CacheLimit = 1
  Ops = {}
  MaxCrashes = 0
  EarlySessions = FALSE
SYMMETRY Symmetry
INVARIANTS
  TypeOK
  OneDeliverer
  LockInv
  CompleteWhenTaken
  AtMostOnce
  SignedOnce
  NoStranding
