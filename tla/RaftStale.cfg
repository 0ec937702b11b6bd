SPECIFICATION Spec
CONSTANTS
  Node = {n1, n2, n3}
  NoNode = NoNode
  Payload = {v}
  NilData = NilData
  NotifyCap = 1
  MaxTerm = 2
  MaxIndex = 1
  MaxSnapshot = 1
  MaxInFlight = 2
  Contender = {n1, n2}
  Poller = {}
  Applier = {}
VIEW LiveView
SYMMETRY Symmetric
INVARIANTS MatchIndexSound
PROPERTIES CommitsAreFinal
CHECK_DEADLOCK FALSE
