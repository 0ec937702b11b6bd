SPECIFICATION CrashSpec
CONSTANTS
  Node = {n1, n2, n3}
  NoNode = NoNode
  Payload = {v}
  NilData = NilData
  NotifyCap = 1
  MaxTerm = 2
  MaxIndex = 1
  MaxSnapshot = 0
  MaxInFlight = 1
  Contender = {n1, n2}
  Poller = {}
  Applier = {}
  CanRestart = {n3}
INVARIANTS AckedWritesSurvive
CHECK_DEADLOCK FALSE
