SPECIFICATION Spec
CONSTANTS
  Node = {n1, n2, n3}
  NoNode = NoNode
  Payload = {v}
  NilData = NilData
  NotifyCap = 1
  MaxTerm = 1
  MaxIndex = 1
  MaxSnapshot = 1
  MaxInFlight = 1
  Contender = {n1}
  Poller = {}
  Applier = {n1, n2, n3}
INVARIANTS AppliedIsInWal
CHECK_DEADLOCK FALSE
