SPECIFICATION FairSpec
CONSTANTS
  acceptor = acceptor
  other = other
  finisher = finisher
  Callers = {acceptor, other, finisher}
  Finisher = finisher
  Profiles <- AllClasses
  MaxOps = 6
INVARIANTS
  ConnectionTypeOK
  PopFinds
  HandshakeAlone
  NothingStranded
  ReadRetired
PROPERTIES
  DisconnectWaits
  EventuallyDisconnected
CHECK_DEADLOCK FALSE
