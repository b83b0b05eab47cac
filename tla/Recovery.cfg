SPECIFICATION Spec
CONSTANTS
  m1 = m1
  m2 = m2
  m3 = m3
  w1 = w1
  w2 = w2
  l1 = l1
  l2 = l2
  e1 = e1
  e2 = e2
  NoMsg = NoMsg
  Msgs = {m1}
  Workers = {w1}
  LocalRcpts = {l1, l2}
  ExternalRcpts = {e1}
  Silent = {l2}
  EtrnRcpts = {}
  MaxNoOfRetries = 1
  AVFailAction = TRUE
  AVFailMaxHolds = 1
  MaxTrackedAvHolds = 1
  HardLinks = TRUE
  MaxFaults = 1
  CacheLimit = 1
  Ops = {}
  MaxCrashes = 1
  EarlySessions = FALSE
SYMMETRY Symmetry
INVARIANTS
  NoMailLost
  RetryBound
