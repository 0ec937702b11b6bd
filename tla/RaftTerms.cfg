SPECIFICATION Spec
CONSTANTS
  Node = {n1, n2, n3}
  NoNode = NoNode
  Payload = {v}
  NilData = NilData
  NotifyCap = 1
  MaxTerm = 4
  MaxIndex = 2
  MaxSnapshot = 0
  MaxInFlight = 1
  Contender = {n1, n2}
  Poller = {}
  Applier = {}
VIEW LogView
SYMMETRY Symmetric
INVARIANTS AckedWritesSurvive CommittedPrefixesAgree LogMatching
CHECK_DEADLOCK FALSE
