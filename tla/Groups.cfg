SPECIFICATION FairSpec
CONSTANTS
  c1 = c1
  c2 = c2
  c3 = c3
  p1 = p1
  p2 = p2
  p3 = p3
  Group = {g1}
  Member = {c1, c2, c3}
  Partition = {p1, p2, p3}
  Lists <- TwoLists
  MemberOrder <- ThreeMembers
  NoOffset = NoOffset
  MaxOffset = 1
  Consumed = {p1, p2}
  Cuts = {"nothing", "whole"}
INVARIANTS TypeOK SharesAreFair OffsetsSurvive
PROPERTIES LivePartitionsStayHeld SilentMembersGo
