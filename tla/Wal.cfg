SPECIFICATION Spec
CONSTANTS
  e = e
  a = a
  big = big
  Payload = {e, a, big}
  SizeOf <- Sizes
  Empty = e
  MaxPayloadSize = 9
  MaxSegmentBytes = 6
  IndexInterval = 3
  MaxEntries = 3
  PageBytes = 3
  NotFound = NotFound
  MaxRecords = 5
  MaxClosed = 3
  Faults = {}
INVARIANTS TypeOK IndexPointsAtFrames ReadersSeeAll
PROPERTIES IsALog
