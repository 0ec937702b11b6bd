SPECIFICATION Spec
CONSTANTS
  Node = {n1, n2, n3}
  NoNode = NoNode
  Payload = {v}
  NilData = NilData
  NotifyCap = 1
  MaxTerm = 2
  MaxIndex = 2
  MaxSnapshot = 2
  MaxInFlight = 1
  Contender = {n1, n2}
  Poller = {}
  Applier = {}
VIEW LiveView
SYMMETRY Symmetric
INVARIANTS TypeOK PositionsOrdered CommittedPrefixesAgree
CHECK_DEADLOCK FALSE
