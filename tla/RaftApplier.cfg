SPECIFICATION Spec
CONSTANTS
  Node = {n1, n2, n3}
  NoNode = NoNode
  Payload = {v, w}
  NilData = NilData
  NotifyCap = 1
  MaxTerm = 2
  MaxIndex = 2
  MaxSnapshot = 0
  MaxInFlight = 1
  Contender = {n1, n2}
  Poller = {}
  Applier = {n1, n2}
VIEW LiveView
SYMMETRY Symmetric
INVARIANTS WalsAgree NoLostWakeup
PROPERTIES IsReplicatedLog
CHECK_DEADLOCK FALSE
