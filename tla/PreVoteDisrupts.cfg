SPECIFICATION TimedSpec
CONSTANTS
  Node = {n1, n2, n3}
  NoNode = NoNode
  Payload = {v}
  NilData = NilData
  NotifyCap = 1
  MaxTerm = 2
  MaxIndex = 0
  MaxSnapshot = 0
  MaxInFlight = 1
  Contender = {n1, n2}
  Poller = {n1, n2}
  Applier = {}
  ElectionMin = 2
PROPERTIES SettledLeaderUndisturbed
CHECK_DEADLOCK FALSE
