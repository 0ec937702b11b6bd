SPECIFICATION Spec
CONSTANTS
  c1 = c1
  c2 = c2
  c3 = c3
  p1 = p1
  p2 = p2
  p3 = p3
  Group = {g1}
  Member = {c1}
  Partition = {p1}
  Lists <- OneList
  MemberOrder <- OneMember
  NoOffset = NoOffset
  MaxOffset = 1
  Consumed = {p1}
  Cuts = {"nothing", "part", "unterminated", "whole"}
INVARIANTS OffsetsSurvive
