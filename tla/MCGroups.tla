------------------------------ MODULE MCGroups ------------------------------
(* ConsumerGroups for TLC: the lists callers pass, of model values.        *)
EXTENDS ConsumerGroups

CONSTANTS c1, c2, c3, p1, p2, p3

OneMember == <<c1>>
TwoMembers == <<c1, c2>>
ThreeMembers == <<c1, c2, c3>>
OneList == {<<p1>>}
TwoLists == {<<p1, p2, p3>>, <<p3, p1>>}
=============================================================================
