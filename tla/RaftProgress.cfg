SPECIFICATION FairSpec
CONSTANTS
  Node = {n1, n2, n3}
  NoNode = NoNode
  Payload = {v}
  NilData = NilData
  NotifyCap = 1
  MaxTerm = 2
  MaxIndex = 1
  MaxSnapshot = 1
  MaxInFlight = 1
  Contender = {n1, n3}
  Poller = {}
  Applier = {}
  Hub = n1
  Reached = {n2}
PROPERTIES EntriesCommit FollowersCatchUp
CHECK_DEADLOCK FALSE
