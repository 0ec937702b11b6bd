SPECIFICATION Spec
CONSTANTS
  Node = {n1, n2, n3}
  NoNode = NoNode
  Payload = {v}
  NilData = NilData
  NotifyCap = 1
  MaxTerm = 2
  MaxIndex = 0
  MaxSnapshot = 0
  MaxInFlight = 2
  Contender = {n1, n2, n3}
  Poller = {n1, n2, n3}
  Applier = {}
VIEW LiveView
SYMMETRY Symmetric
INVARIANTS ElectionSafety VotesAreBinding
CHECK_DEADLOCK FALSE
