------------------------ MODULE ConsumerGroupsProofs ------------------------
(***************************************************************************)
(* The consumer group coordinator, as theorems of ConsumerGroups!Spec: the *)
(* shape of its state, fair shares after every rebalance, partitions that  *)
(* keep an owner, and offsets that survive a restart.                      *)
(***************************************************************************)
EXTENDS ConsumerGroups, SelectionProofs, FunctionTheorems

-----------------------------------------------------------------------------
(* Types.                                                                  *)

(* What is read back from the file are offsets.                            *)
LEMMA RecoveredTyped ==
  ASSUME NEW d \in [Key -> Offset \cup {NoOffset}], NEW t \in FileTail
  PROVE  Recovered(d, t) \in [Key -> Offset \cup {NoOffset}]
<1>1. CASE t.kind = "record"
  <2>1. \E k \in Key, o \in Offset : t = Unterminated(k, o)
    BY <1>1 DEF FileTail, NoTail, Torn
  <2>2. PICK o \in Offset : t.offset = o
    BY <2>1 DEF Unterminated
  <2> QED BY <1>1, <2>2 DEF Recovered
<1>2. CASE t.kind # "record"
  BY <1>2 DEF Recovered
<1> QED BY <1>1, <1>2

(* A line that is appended leaves a file of the same shape.                *)
LEMMA AppendTyped ==
  ASSUME disk \in [Key -> Offset \cup {NoOffset}], tail \in FileTail,
         NEW k \in Key, NEW o \in Offset, NEW cut, AppendLine(k, o, cut)
  PROVE  disk' \in [Key -> Offset \cup {NoOffset}] /\ tail' \in FileTail
<1>1. LastWins(k, o) \in [Key -> Offset \cup {NoOffset}]
  BY DEF LastWins
<1>2. NoTail \in FileTail /\ Torn \in FileTail /\ Unterminated(k, o) \in FileTail
  BY DEF FileTail
<1> QED BY <1>1, <1>2 DEF AppendLine

(* Shares are sets of partitions.                                          *)
LEMMA RebalancedTyped ==
  ASSUME NEW g, NEW S, NEW list \in Lists
  PROVE  Rebalanced(g, S, list) \in [Member -> SUBSET Partition]
<1>1. \A i \in 1..Len(list) : list[i] \in Partition
  BY ListAssumption, ElementOfSeq
<1> QED BY <1>1 DEF Rebalanced

(* A coordinator that has just been opened knows the groups of the offsets *)
(* it has read.                                                            *)
LEMMA ReopenTyped ==
  ASSUME disk' \in [Key -> Offset \cup {NoOffset}], tail' \in FileTail, Reopen
  PROVE  /\ groups' \subseteq Group
         /\ members' \in [Group -> SUBSET Member]
         /\ stale' \in [Group -> SUBSET Member] /\ \A g \in Group : stale'[g] \subseteq members'[g]
         /\ assigned' \in [Group -> [Member -> SUBSET Partition]]
         /\ offsets' \in [Key -> Offset \cup {NoOffset}]
         /\ \A g \in Group \ groups' :
              members'[g] = {} /\ \A p \in Consumed : offsets'[<<g, p>>] = NoOffset
         /\ broken' \in BOOLEAN
<1>1. offsets' \in [Key -> Offset \cup {NoOffset}]
  BY RecoveredTyped DEF Reopen
<1>2. ASSUME NEW g \in Group \ groups', NEW p \in Consumed PROVE offsets'[<<g, p>>] = NoOffset
  <2>1. <<g, p>> \in Key /\ <<g, p>>[1] = g
    BY DEF Key
  <2> QED BY <1>2, <2>1 DEF Reopen
<1>3. /\ members' = [g \in Group |-> {}] /\ stale' = [g \in Group |-> {}]
      /\ assigned' = [g \in Group |-> [m \in Member |-> {}]] /\ broken' = FALSE
      /\ groups' \subseteq Group
  BY DEF Reopen
<1> QED BY <1>1, <1>2, <1>3

(* The shape of the state; a group the coordinator does not know has       *)
(* neither members nor offsets.                                            *)
THEOREM GroupTypes == Spec => []TypeOK
<1>1. Init => TypeOK
  <2>1. NoTail \in FileTail
    BY DEF FileTail
  <2>2. \A g \in Group, p \in Consumed : <<g, p>> \in Key
    BY DEF Key
  <2> SUFFICES ASSUME Init PROVE TypeOK
    OBVIOUS
  <2>3. /\ groups \subseteq Group /\ members \in [Group -> SUBSET Member]
        /\ stale \in [Group -> SUBSET Member] /\ \A g \in Group : stale[g] = {} /\ members[g] = {}
        /\ tail \in FileTail /\ broken \in BOOLEAN
    BY <2>1 DEF Init
  <2>4. assigned \in [Group -> [Member -> SUBSET Partition]]
    BY DEF Init
  <2>5. /\ offsets \in [Key -> Offset \cup {NoOffset}] /\ disk \in [Key -> Offset \cup {NoOffset}]
        /\ acked \in [Key -> Offset \cup {NoOffset}] /\ inDoubt \in [Key -> SUBSET Offset]
    BY DEF Init
  <2>6. \A g \in Group, p \in Consumed : offsets[<<g, p>>] = NoOffset
    BY <2>2 DEF Init
  <2> QED BY <2>3, <2>4, <2>5, <2>6 DEF TypeOK
<1>2. TypeOK /\ [Next]_vars => TypeOK'
  <2> SUFFICES ASSUME TypeOK, [Next]_vars PROVE TypeOK'
    OBVIOUS
  <2> USE DEF TypeOK
  <2>1. CASE UNCHANGED vars
    BY <2>1 DEF vars, groupVars, offsetVars
  <2>2. ASSUME NEW g \in Group, NEW m \in Member, NEW list \in Lists, JoinGroup(g, m, list)
       PROVE  TypeOK'
    <3>1. Rebalanced(g, members[g] \cup {m}, list) \in [Member -> SUBSET Partition]
      BY RebalancedTyped
    <3> QED BY <2>2, <3>1 DEF JoinGroup, offsetVars
  <2>3. ASSUME NEW g \in Group, NEW m \in Member, NEW list \in Lists, LeaveGroup(g, m, list)
       PROVE  TypeOK'
    <3>1. Rebalanced(g, members[g] \ {m}, list) \in [Member -> SUBSET Partition]
      BY RebalancedTyped
    <3> QED BY <2>3, <3>1 DEF LeaveGroup, offsetVars
  <2>4. ASSUME NEW g \in Group, NEW m \in Member, SessionExpires(g, m) PROVE TypeOK'
    BY <2>4 DEF SessionExpires, offsetVars
  <2>5. ASSUME NEW g \in Group, NEW m \in Member, Heartbeat(g, m) PROVE TypeOK'
    BY <2>5 DEF Heartbeat, offsetVars
  <2>6. CASE EvictionTick
    BY <2>6 DEF EvictionTick, Expired, offsetVars
  <2>7. ASSUME NEW k \in Key, k[1] \in Group, groups' = groups \cup {k[1]}, UNCHANGED groupVars,
               NEW x, offsets' = [offsets EXCEPT ![k] = x]
        PROVE  /\ groups' \subseteq Group
               /\ \A g \in Group \ groups' :
                    members'[g] = {} /\ \A p \in Consumed : offsets'[<<g, p>>] = NoOffset
    <3>1. ASSUME NEW g \in Group \ groups', NEW p \in Consumed PROVE offsets'[<<g, p>>] = NoOffset
      <4>1. <<g, p>> \in Key /\ <<g, p>> # k /\ g \in Group \ groups
        BY <2>7, <3>1 DEF Key
      <4> QED BY <2>7, <3>1, <4>1
    <3> QED BY <2>7, <3>1 DEF groupVars
  <2>8. \A k \in Key : k[1] \in Group
    BY DEF Key
  <2>9. ASSUME NEW k \in Key, NEW o \in Offset, CommitOffset(k, o) PROVE TypeOK'
    <3>1. disk' \in [Key -> Offset \cup {NoOffset}] /\ tail' \in FileTail
      BY <2>9, AppendTyped DEF CommitOffset
    <3>2. /\ groups' \subseteq Group
          /\ \A g \in Group \ groups' :
               members'[g] = {} /\ \A p \in Consumed : offsets'[<<g, p>>] = NoOffset
      BY <2>7, <2>8, <2>9 DEF CommitOffset
    <3> QED BY <2>9, <3>1, <3>2 DEF CommitOffset, groupVars
  <2>10. ASSUME NEW k \in Key, NEW o \in Offset, CommitFails(k, o) PROVE TypeOK'
    <3>1. /\ disk' \in [Key -> Offset \cup {NoOffset}] /\ tail' \in FileTail
          /\ broken' \in BOOLEAN
      BY <2>10, AppendTyped DEF CommitFails
    <3>2. offsets' = [offsets EXCEPT ![k] = offsets[k]]
      BY <2>10 DEF CommitFails
    <3>3. /\ groups' \subseteq Group
          /\ \A g \in Group \ groups' :
               members'[g] = {} /\ \A p \in Consumed : offsets'[<<g, p>>] = NoOffset
      BY <2>7, <2>8, <2>10, <3>2 DEF CommitFails
    <3> QED BY <2>10, <3>1, <3>3 DEF CommitFails, groupVars
  <2>11. ASSUME NEW k \in Key, NEW o \in Offset, CommitCutShort(k, o) PROVE TypeOK'
    <3>1. disk' \in [Key -> Offset \cup {NoOffset}] /\ tail' \in FileTail
      BY <2>11, AppendTyped DEF CommitCutShort
    <3>2. /\ acked' \in [Key -> Offset \cup {NoOffset}] /\ inDoubt' \in [Key -> SUBSET Offset]
      BY <2>11 DEF CommitCutShort
    <3> QED BY <2>11, <3>1, <3>2, ReopenTyped DEF CommitCutShort
  <2>12. CASE Restart
    <3>1. /\ disk' \in [Key -> Offset \cup {NoOffset}] /\ tail' \in FileTail
          /\ acked' \in [Key -> Offset \cup {NoOffset}] /\ inDoubt' \in [Key -> SUBSET Offset]
      BY <2>12 DEF Restart
    <3> QED BY <2>12, <3>1, ReopenTyped DEF Restart
  <2> QED BY <2>1, <2>2, <2>3, <2>4, <2>5, <2>6, <2>9, <2>10, <2>11, <2>12 DEF Next
<1> QED BY <1>1, <1>2, PTL DEF Spec

-----------------------------------------------------------------------------
(* Offsets.                                                                *)

\* Nothing follows the last newline, and what is in the file and in memory is an
\* offset the caller may expect.
OffsetInv ==
  /\ tail = NoTail
  /\ \A k \in Key : disk[k] \in {acked[k]} \cup inDoubt[k] /\ offsets[k] \in {acked[k]} \cup inDoubt[k]

(* FetchOffset never forgets a commit, now or after a restart, as long as  *)
(* a write that is cut off leaves all of its line in the file or nothing.  *)
(* GroupsTorn shows that it does when a line is torn.                      *)
THEOREM OffsetsOutlive ==
  ASSUME Cuts \subseteq {"nothing", "whole"}
  PROVE  Spec => []OffsetsSurvive
<1>1. Init => OffsetInv
  BY DEF Init, OffsetInv
<1>2. TypeOK /\ OffsetInv /\ [Next]_vars => OffsetInv'
  <2> SUFFICES ASSUME TypeOK, OffsetInv, [Next]_vars PROVE OffsetInv'
    OBVIOUS
  <2>1. CASE UNCHANGED offsetVars
    BY <2>1 DEF offsetVars, OffsetInv
  <2>2. ASSUME NEW k, NEW o, NEW cut \in {"nothing", "whole"}, AppendLine(k, o, cut)
        PROVE  /\ tail' = NoTail
               /\ disk' = disk \/ disk' = [disk EXCEPT ![k] = o]
    BY <2>2 DEF AppendLine, LastWins, OffsetInv
  <2>3. /\ Recovered(disk, NoTail) = disk /\ Recovered(disk', NoTail) = disk'
    BY DEF Recovered, NoTail
  <2>4. ASSUME NEW k \in Key, NEW o \in Offset, CommitOffset(k, o) PROVE OffsetInv'
    <3>1. tail' = NoTail /\ disk' = [disk EXCEPT ![k] = o]
      BY <2>4 DEF CommitOffset, AppendLine, LastWins, OffsetInv
    <3>2. /\ offsets' = [offsets EXCEPT ![k] = o] /\ acked' = [acked EXCEPT ![k] = o]
          /\ inDoubt' = [inDoubt EXCEPT ![k] = {}]
      BY <2>4 DEF CommitOffset
    <3> QED BY <3>1, <3>2 DEF OffsetInv, TypeOK
  <2>5. ASSUME NEW k \in Key, NEW o \in Offset, CommitFails(k, o) PROVE OffsetInv'
    <3>1. tail' = NoTail /\ (disk' = disk \/ disk' = [disk EXCEPT ![k] = o])
      BY <2>2, <2>5 DEF CommitFails, OffsetInv
    <3>2. /\ offsets' = offsets /\ acked' = acked
          /\ inDoubt' = [inDoubt EXCEPT ![k] = @ \cup {o}]
      BY <2>5 DEF CommitFails
    <3> QED BY <3>1, <3>2 DEF OffsetInv, TypeOK
  <2>6. ASSUME NEW k \in Key, NEW o \in Offset, CommitCutShort(k, o) PROVE OffsetInv'
    <3>1. tail' = NoTail /\ (disk' = disk \/ disk' = [disk EXCEPT ![k] = o])
      BY <2>2, <2>6 DEF CommitCutShort
    <3>2. /\ offsets' = disk' /\ acked' = acked
          /\ inDoubt' = [inDoubt EXCEPT ![k] = @ \cup {o}]
      BY <2>3, <2>6, <3>1 DEF CommitCutShort, Reopen
    <3> QED BY <3>1, <3>2 DEF OffsetInv, TypeOK
  <2>7. CASE Restart
    BY <2>3, <2>7 DEF Restart, Reopen, OffsetInv
  <2> QED BY <2>1, <2>4, <2>5, <2>6, <2>7
       DEF Next, vars, JoinGroup, LeaveGroup, SessionExpires, Heartbeat, EvictionTick
<1>3. TypeOK /\ OffsetInv => OffsetsSurvive
  <2> SUFFICES ASSUME TypeOK, OffsetInv, NEW k \in Key
               PROVE  {FetchOffset(k), Recovered(disk, tail)[k]} \subseteq {acked[k]} \cup inDoubt[k]
    BY DEF OffsetsSurvive
  <2>1. FetchOffset(k) = offsets[k]
    <3>1. PICK g \in Group, p \in Consumed : k = <<g, p>>
      BY DEF Key
    <3> QED BY <3>1 DEF FetchOffset, TypeOK
  <2>2. Recovered(disk, tail) = disk
    BY DEF OffsetInv, Recovered, NoTail
  <2> QED BY <2>1, <2>2 DEF OffsetInv
<1> QED BY <1>1, <1>2, <1>3, GroupTypes, PTL DEF Spec

-----------------------------------------------------------------------------
(* Taking turns.                                                           *)

(* Dividing by the number of members.                                      *)
LEMMA Division ==
  ASSUME NEW a \in Nat, NEW c \in Nat \ {0}
  PROVE  /\ a % c \in 0 .. c - 1
         /\ \E q \in Nat : a = q * c + (a % c)
<1>1. PICK q : q = a \div c
  OBVIOUS
<1>2. q \in Nat /\ a % c \in 0 .. c - 1
  BY <1>1
<1>3. a = q * c + (a % c)
  BY <1>1, SMT
<1> QED BY <1>2, <1>3

(* What is left of a multiple of the number of members and a smaller rest.  *)
LEMMA Remainder ==
  ASSUME NEW q \in Nat, NEW r \in Nat, NEW c \in Nat \ {0}, r < c
  PROVE  ((q * c) + r) % c = r
BY SMT

\* The places in a list of L partitions where it is the turn of the r-th of c members.
Turns(c, L, r) == {i \in 1..L : ((i - 1) % c) + 1 = r}

\* How far it is back from a place of member r to the place of member s before it.
Back(c, r, s) == IF r > s THEN r - s ELSE (c + r) - s

(* Before every turn of a member, but perhaps its first, it is every other *)
(* member's turn.                                                          *)
LEMMA TurnBefore ==
  ASSUME NEW c \in Nat \ {0}, NEW L \in Nat, NEW r \in 1..c, NEW s \in 1..c, r # s,
         NEW i \in Turns(c, L, r), i # r
  PROVE  i - Back(c, r, s) \in Turns(c, L, s)
<1>1. i \in 1..L /\ i - 1 \in Nat /\ (i - 1) % c = r - 1
  <2>1. i \in 1..L /\ ((i - 1) % c) + 1 = r
    BY DEF Turns
  <2>2. i - 1 \in Nat
    BY <2>1
  <2>3. (i - 1) % c \in 0 .. c - 1
    BY <2>2, Division
  <2> QED BY <2>1, <2>2, <2>3
<1>2. PICK q \in Nat : i - 1 = q * c + (r - 1)
  BY <1>1, Division
<1>3. q # 0
  BY <1>1, <1>2
<1>4. PICK p \in Nat : p = q - 1
  BY <1>3
<1>5. q * c = p * c + c /\ p * c \in Nat /\ q * c \in Nat
  BY <1>4
<1>6. PICK x, y : x = q * c /\ y = p * c
  OBVIOUS
<1>7. s - 1 \in Nat /\ s - 1 < c /\ i \in Nat /\ i <= L
  BY <1>1
<1>8. CASE r > s
  <2>1. i - Back(c, r, s) - 1 = x + (s - 1)
    BY <1>1, <1>2, <1>5, <1>6, <1>8 DEF Back
  <2>2. (x + (s - 1)) % c = s - 1
    BY <1>6, <1>7, Remainder
  <2>3. i - Back(c, r, s) \in 1..L
    BY <1>1, <1>2, <1>5, <1>6, <1>8 DEF Back
  <2>4. ((i - Back(c, r, s) - 1) % c) + 1 = s
    BY <2>1, <2>2
  <2> QED BY <2>3, <2>4 DEF Turns
<1>9. CASE ~(r > s)
  <2>1. i - Back(c, r, s) - 1 = y + (s - 1)
    BY <1>1, <1>2, <1>5, <1>6, <1>9 DEF Back
  <2>2. (y + (s - 1)) % c = s - 1
    BY <1>4, <1>6, <1>7, Remainder
  <2>3. i - Back(c, r, s) \in 1..L
    BY <1>1, <1>2, <1>5, <1>6, <1>9 DEF Back
  <2>4. ((i - Back(c, r, s) - 1) % c) + 1 = s
    BY <2>1, <2>2
  <2> QED BY <2>3, <2>4 DEF Turns
<1> QED BY <1>8, <1>9

(* So no member has two turns more than another.                           *)
LEMMA TurnsAreFair ==
  ASSUME NEW c \in Nat \ {0}, NEW L \in Nat, NEW r \in 1..c, NEW s \in 1..c, r # s
  PROVE  /\ IsFiniteSet(Turns(c, L, r)) /\ IsFiniteSet(Turns(c, L, s))
         /\ Cardinality(Turns(c, L, r)) <= Cardinality(Turns(c, L, s)) + 1
<1>1. PICK A, B, C : A = Turns(c, L, r) /\ B = Turns(c, L, s) /\ C = A \ {r}
  OBVIOUS
<1>2. A \in SUBSET (1..L) /\ B \in SUBSET (1..L)
  BY <1>1 DEF Turns
<1>3. IsFiniteSet(A) /\ IsFiniteSet(B)
  <2>1. IsFiniteSet(1..L)
    BY FS_Interval
  <2> QED BY <1>2, <2>1, FS_Subset
<1>4. Cardinality(A) \in Nat /\ Cardinality(B) \in Nat /\ Cardinality(C) \in Nat
      /\ Cardinality(A) <= Cardinality(C) + 1
  <2>1. /\ IsFiniteSet(C)
        /\ Cardinality(C) = IF r \in A THEN Cardinality(A) - 1 ELSE Cardinality(A)
    BY <1>1, <1>3, FS_RemoveElement
  <2>2. Cardinality(A) \in Nat /\ Cardinality(B) \in Nat /\ Cardinality(C) \in Nat
    BY <1>3, <2>1, FS_CardinalityType
  <2> QED BY <2>1, <2>2
<1>5. Cardinality(C) <= Cardinality(B)
  <2>1. PICK b, f : b = Back(c, r, s) /\ f = [i \in C |-> i - b]
    OBVIOUS
  <2>2. b \in Int
    BY <2>1 DEF Back
  <2>3. \A i \in C : i - b \in B
    BY <1>1, <2>1, TurnBefore
  <2>4. f \in [C -> B]
    BY <2>1, <2>3
  <2>5. \A i, j \in C : f[i] = f[j] => i = j
    <3>1. \A i \in C : i \in Int
      BY <1>1, <1>2
    <3> QED BY <2>1, <2>2, <3>1
  <2>6. f \in Injection(C, B)
    BY <2>4, <2>5, Fun_IsInj
  <2> QED BY <1>3, <2>6, FS_Injection
<1> QED BY <1>1, <1>3, <1>4, <1>5

(* Distinct places of a list without duplicates hold as many elements.     *)
LEMMA ElementsAt ==
  ASSUME NEW T, NEW s \in Seq(T), IsInjective(s), NEW I \in SUBSET (1..Len(s))
  PROVE  IsFiniteSet(I) /\ Cardinality({s[i] : i \in I}) = Cardinality(I)
<1>1. PICK N \in Nat : N = Len(s) /\ DOMAIN s = 1..N
  BY LenProperties
<1>2. IsFiniteSet(I)
  <2>1. IsFiniteSet(1..N)
    BY FS_Interval
  <2> QED BY <1>1, <2>1, FS_Subset
<1>3. PICK E, f : E = {s[i] : i \in I} /\ f = [i \in I |-> s[i]]
  OBVIOUS
<1>4. f \in [I -> E] /\ \A e \in E : \E i \in I : f[i] = e
  BY <1>3
<1>5. \A a, b \in I : f[a] = f[b] => a = b
  <2>1. \A a, b \in 1..N : s[a] = s[b] => a = b
    BY <1>1 DEF IsInjective
  <2> QED BY <1>1, <1>3, <2>1
<1>6. f \in Bijection(I, E)
  BY <1>4, <1>5, Fun_IsBij
<1>7. ExistsBijection(I, E)
  BY <1>6 DEF ExistsBijection
<1> QED BY <1>2, <1>3, <1>7, FS_Bijection

-----------------------------------------------------------------------------
(* Shares.                                                                 *)

\* Where the members of S are in MemberOrder, and their sorted list.
Places(S) == {j \in 1..Len(MemberOrder) : MemberOrder[j] \in S}
MemberIDs(S) == Select(MemberOrder, Places(S))

(* The sorted list of a group has every member once.                       *)
LEMMA MembersListed ==
  ASSUME NEW S \in SUBSET Member
  PROVE  /\ Cardinality(S) \in Nat /\ (S # {} => Cardinality(S) # 0)
         /\ \A x \in 1..Cardinality(S) : MemberIDs(S)[x] \in S
         /\ \A m \in S : \E r \in 1..Cardinality(S) :
              \A x \in 1..Cardinality(S) : MemberIDs(S)[x] = m <=> x = r
<1>1. PICK N, keep : N = Len(MemberOrder) /\ keep = Places(S)
  OBVIOUS
<1>2. /\ N \in Nat /\ keep \in SUBSET (1..N) /\ MemberOrder \in Seq(Member)
      /\ \A j \in keep : MemberOrder[j] \in S
      /\ \A m \in S : \E j \in keep : MemberOrder[j] = m
  <2>1. N \in Nat /\ MemberOrder \in Seq(Member)
    BY <1>1, ListAssumption, LenProperties
  <2>2. \A m \in S : \E j \in 1..N : MemberOrder[j] = m
    BY <1>1, ListAssumption
  <2> QED BY <1>1, <2>1, <2>2 DEF Places
<1>3. PICK c : c = Cardinality(keep)
  OBVIOUS
<1>4. c \in Nat /\ \A x \in 1..c : Nth(keep, x) \in keep /\ MemberIDs(S)[x] = MemberOrder[Nth(keep, x)]
  <2>1. keep \in SUBSET (1..Len(MemberOrder))
    BY <1>1, <1>2
  <2>2. /\ Cardinality(keep) \in Nat
        /\ \A k \in 1..Cardinality(keep) :
             Nth(keep, k) \in keep /\ Select(MemberOrder, keep)[k] = MemberOrder[Nth(keep, k)]
    BY <1>2, <2>1, SelectShape
  <2> QED BY <1>1, <1>3, <2>2 DEF MemberIDs
<1>5. Cardinality(S) = c /\ IsFiniteSet(S)
  <2>1. S = {MemberOrder[j] : j \in keep}
    BY <1>2
  <2>2. keep \in SUBSET (1..Len(MemberOrder)) /\ IsInjective(MemberOrder)
    BY <1>1, <1>2, ListAssumption
  <2>3. IsFiniteSet(keep) /\ Cardinality({MemberOrder[j] : j \in keep}) = Cardinality(keep)
    BY <1>2, <2>2, ElementsAt
  <2>4. IsFiniteSet(S)
    <3>1. PICK f : f = [j \in keep |-> MemberOrder[j]]
      OBVIOUS
    <3>2. f \in [keep -> S] /\ \A m \in S : \E j \in keep : f[j] = m
      BY <1>2, <3>1
    <3>3. f \in Surjection(keep, S)
      BY <3>2, Fun_IsSurj
    <3> QED BY <2>3, <3>3, FS_Surjection
  <2> QED BY <1>3, <2>1, <2>3, <2>4
<1>6. S # {} => c # 0
  BY <1>5, FS_EmptySet
<1>7. \A j \in keep, i \in keep : MemberOrder[i] = MemberOrder[j] => i = j
  <2>1. DOMAIN MemberOrder = 1..N
    BY <1>1, <1>2, LenProperties
  <2>2. \A a, b \in 1..N : MemberOrder[a] = MemberOrder[b] => a = b
    BY <2>1, ListAssumption DEF IsInjective
  <2> QED BY <1>2, <2>2
<1>8. ASSUME NEW m \in S
      PROVE  \E r \in 1..c : \A x \in 1..c : MemberIDs(S)[x] = m <=> x = r
  <2>1. PICK j \in keep : MemberOrder[j] = m
    BY <1>2
  <2>2. PICK r : r = Rank(keep, j)
    OBVIOUS
  <2>3. r \in 1..c /\ Nth(keep, r) = j
    <3>1. keep \in SUBSET (0..N)
      BY <1>2
    <3> QED BY <1>2, <1>3, <2>1, <2>2, <3>1, NthOfRank
  <2>4. MemberIDs(S)[r] = m
    BY <1>4, <2>1, <2>3
  <2>5. ASSUME NEW x \in 1..c, MemberIDs(S)[x] = m PROVE x = r
    <3>1. Nth(keep, x) = j
      BY <1>4, <1>7, <2>1, <2>5
    <3>2. Rank(keep, Nth(keep, x)) = x
      <4>1. keep \in SUBSET (0..N)
        BY <1>2
      <4> QED BY <1>2, <1>3, <4>1, NthExists
    <3> QED BY <2>2, <3>1, <3>2
  <2> QED BY <2>3, <2>4, <2>5
<1>9. \A x \in 1..c : MemberIDs(S)[x] \in S
  BY <1>2, <1>4
<1> QED BY <1>4, <1>5, <1>6, <1>8, <1>9

\* The partitions at the turns of the r-th of c members.
Share(list, c, r) == {list[i] : i \in Turns(c, Len(list), r)}

(* A share is what is at the member's turns in the list of partitions.     *)
LEMMA ShareOf ==
  ASSUME NEW g, NEW S \in SUBSET Member, NEW m \in S, NEW list \in Lists
  PROVE  \E r \in 1..Cardinality(S) :
           /\ MemberIDs(S)[r] = m
           /\ Rebalanced(g, S, list)[m] = Share(list, Cardinality(S), r)
<1>1. PICK c, L : c = Cardinality(S) /\ L = Len(list)
  OBVIOUS
<1>2. c \in Nat \ {0} /\ L \in Nat
  BY <1>1, MembersListed, ListAssumption, LenProperties
<1>3. PICK r \in 1..c : \A x \in 1..c : MemberIDs(S)[x] = m <=> x = r
  BY <1>1, MembersListed
<1>4. ASSUME NEW j \in 1..L PROVE Turn(S, j) = m <=> ((j - 1) % c) + 1 = r
  <2>1. Turn(S, j) = MemberIDs(S)[((j - 1) % c) + 1]
    BY <1>1 DEF Turn, MemberIDs, Places
  <2>2. j - 1 \in Nat
    BY <1>2
  <2>3. (j - 1) % c \in 0 .. c - 1
    BY <1>2, <2>2, Division
  <2>4. ((j - 1) % c) + 1 \in 1..c
    BY <1>2, <2>3
  <2> QED BY <1>3, <2>1, <2>4
<1>5. {j \in 1..Len(list) : Turn(S, j) = m} = Turns(c, L, r)
  BY <1>1, <1>4 DEF Turns
<1>6. Rebalanced(g, S, list)[m] =
        {list[i] : i \in {j \in 1..Len(list) : Turn(S, j) = m}}
  BY DEF Rebalanced
<1>7. MemberIDs(S)[r] = m
  BY <1>3
<1> QED BY <1>1, <1>5, <1>6, <1>7 DEF Share

\* The shares of a group's members are disjoint, and none is two partitions larger
\* than another.
Fair(shares, S) ==
  \A a, b \in S : a # b =>
    /\ shares[a] \cap shares[b] = {}
    /\ Cardinality(shares[a]) <= Cardinality(shares[b]) + 1

(* A rebalance is fair.                                                    *)
LEMMA RebalancedFair ==
  ASSUME NEW g, NEW S \in SUBSET Member, NEW list \in Lists
  PROVE  Fair(Rebalanced(g, S, list), S)
<1> SUFFICES ASSUME NEW a \in S, NEW b \in S, a # b
             PROVE  /\ Rebalanced(g, S, list)[a] \cap Rebalanced(g, S, list)[b] = {}
                    /\ Cardinality(Rebalanced(g, S, list)[a]) <= Cardinality(Rebalanced(g, S, list)[b]) + 1
  BY DEF Fair
<1>1. PICK c, L : c = Cardinality(S) /\ L = Len(list)
  OBVIOUS
<1>2. c \in Nat \ {0} /\ L \in Nat /\ list \in Seq(Partition) /\ IsInjective(list)
  BY <1>1, MembersListed, ListAssumption, LenProperties
<1>3. PICK r \in 1..c : /\ MemberIDs(S)[r] = a
                        /\ Rebalanced(g, S, list)[a] = {list[i] : i \in Turns(c, L, r)}
  <2>1. \E r \in 1..Cardinality(S) :
          /\ MemberIDs(S)[r] = a
          /\ Rebalanced(g, S, list)[a] = Share(list, Cardinality(S), r)
    BY ShareOf
  <2> QED BY <1>1, <2>1 DEF Share
<1>4. PICK s \in 1..c : /\ MemberIDs(S)[s] = b
                        /\ Rebalanced(g, S, list)[b] = {list[i] : i \in Turns(c, L, s)}
  <2>1. \E s \in 1..Cardinality(S) :
          /\ MemberIDs(S)[s] = b
          /\ Rebalanced(g, S, list)[b] = Share(list, Cardinality(S), s)
    BY ShareOf
  <2> QED BY <1>1, <2>1 DEF Share
<1>5. r # s
  BY <1>3, <1>4
<1>6. PICK A, B : A = Turns(c, L, r) /\ B = Turns(c, L, s)
  OBVIOUS
<1>7. A \in SUBSET (1..Len(list)) /\ B \in SUBSET (1..Len(list)) /\ A \cap B = {}
  BY <1>1, <1>5, <1>6 DEF Turns
<1>8. \A i \in A, j \in B : list[i] # list[j]
  <2>1. DOMAIN list = 1..Len(list)
    BY <1>2, LenProperties
  <2>2. \A i, j \in 1..Len(list) : list[i] = list[j] => i = j
    BY <1>2, <2>1 DEF IsInjective
  <2> QED BY <1>7, <2>2
<1>9. Cardinality(A) <= Cardinality(B) + 1
  BY <1>2, <1>5, <1>6, TurnsAreFair
<1>10. \A I \in SUBSET (1..Len(list)) :
         Cardinality({list[i] : i \in I}) = Cardinality(I)
  <2> SUFFICES ASSUME NEW I \in SUBSET (1..Len(list))
               PROVE  Cardinality({list[i] : i \in I}) = Cardinality(I)
    OBVIOUS
  <2> QED BY <1>2, ElementsAt
<1>11. /\ Cardinality({list[i] : i \in A}) = Cardinality(A)
       /\ Cardinality({list[i] : i \in B}) = Cardinality(B)
  BY <1>7, <1>10
<1> QED BY <1>3, <1>4, <1>6, <1>8, <1>9, <1>11

(* No partition of a group is assigned to two of its members, and their    *)
(* shares differ by one partition at most, evictions included: a member    *)
(* that goes takes its share with it and leaves the others theirs.         *)
THEOREM SharesStayFair == Spec => []SharesAreFair
<1>1. SharesAreFair <=> \A g \in Group : Fair(assigned[g], members[g])
  BY DEF SharesAreFair, Fair
<1>2. Init => SharesAreFair
  BY DEF Init, SharesAreFair
<1>3. TypeOK /\ SharesAreFair /\ [Next]_vars => SharesAreFair'
  <2> SUFFICES ASSUME TypeOK, SharesAreFair, [Next]_vars,
                      NEW g \in Group
               PROVE  Fair(assigned'[g], members'[g])
    BY DEF SharesAreFair, Fair
  <2>1. Fair(assigned[g], members[g])
    BY <1>1
  <2>2. CASE assigned'[g] = assigned[g] /\ members'[g] \subseteq members[g]
    BY <2>1, <2>2 DEF Fair
  <2>3. ASSUME NEW h \in Group, NEW S \in SUBSET Member, NEW list \in Lists,
               members' = [members EXCEPT ![h] = S],
               assigned' = [assigned EXCEPT ![h] = Rebalanced(h, S, list)]
        PROVE  Fair(assigned'[g], members'[g])
    <3>1. CASE g = h
      <4>1. assigned'[g] = Rebalanced(h, S, list) /\ members'[g] = S
        BY <2>3, <3>1 DEF TypeOK
      <4> QED BY <4>1, RebalancedFair
    <3>2. CASE g # h
      <4>1. assigned'[g] = assigned[g] /\ members'[g] = members[g]
        BY <2>3, <3>2 DEF TypeOK
      <4> QED BY <2>2, <4>1
    <3> QED BY <3>1, <3>2
  <2>4. CASE \E h \in Group, m \in Member, list \in Lists : JoinGroup(h, m, list)
    <3>1. PICK h \in Group, m \in Member, list \in Lists : JoinGroup(h, m, list)
      BY <2>4
    <3>2. members[h] \cup {m} \in SUBSET Member
      BY DEF TypeOK
    <3> QED BY <2>3, <3>1, <3>2 DEF JoinGroup
  <2>5. CASE \E h \in Group, m \in Member, list \in Lists : LeaveGroup(h, m, list)
    <3>1. PICK h \in Group, m \in Member, list \in Lists : LeaveGroup(h, m, list)
      BY <2>5
    <3>2. members[h] \ {m} \in SUBSET Member
      BY DEF TypeOK
    <3> QED BY <2>3, <3>1, <3>2 DEF LeaveGroup
  <2>6. CASE EvictionTick
    <3>1. /\ members'[g] \subseteq members[g]
          /\ \A m \in members'[g] : assigned'[g][m] = assigned[g][m]
      BY <2>6 DEF EvictionTick, Expired, TypeOK
    <3> QED BY <2>1, <3>1 DEF Fair
  <2>7. CASE UNCHANGED <<members, assigned>>
    BY <2>2, <2>7
  <2>8. CASE Reopen
    BY <2>8 DEF Reopen, Fair
  <2> QED BY <2>4, <2>5, <2>6, <2>7, <2>8
       DEF Next, vars, groupVars, SessionExpires, Heartbeat, CommitOffset, CommitFails,
           CommitCutShort, Restart
<1> QED BY <1>2, <1>3, GroupTypes, PTL DEF Spec

-----------------------------------------------------------------------------
(* Owners.                                                                 *)

(* A rebalance gives every partition of the list to a member, if there is   *)
(* one.                                                                    *)
LEMMA RebalancedHolds ==
  ASSUME NEW g, NEW S \in SUBSET Member, S # {},
         NEW list \in Lists, NEW p \in Range(list)
  PROVE  \E m \in S : p \in Rebalanced(g, S, list)[m]
<1>1. PICK j \in 1..Len(list) : list[j] = p
  <2>1. list \in Seq(Partition)
    BY ListAssumption
  <2> QED BY <2>1, LenProperties DEF Range
<1>2. PICK c : c = Cardinality(S)
  OBVIOUS
<1>3. c \in Nat \ {0} /\ j - 1 \in Nat
  <2>1. Len(list) \in Nat
    BY ListAssumption, LenProperties
  <2> QED BY <1>2, <2>1, MembersListed
<1>4. ((j - 1) % c) + 1 \in 1..c
  <2>1. (j - 1) % c \in 0 .. c - 1
    BY <1>3, Division
  <2> QED BY <1>3, <2>1
<1>5. Turn(S, j) = MemberIDs(S)[((j - 1) % c) + 1]
  BY <1>2 DEF Turn, MemberIDs, Places
<1>6. Turn(S, j) \in S
  BY <1>2, <1>4, <1>5, MembersListed
<1>7. p \in Rebalanced(g, S, list)[Turn(S, j)]
  BY <1>1, <1>6 DEF Rebalanced
<1> QED BY <1>6, <1>7

\* A step leaves every partition of a live owner with an owner.
KeepsOwners ==
  \A g \in Group, p \in Partition :
    (\E m \in members[g] \ stale[g] : p \in assigned[g][m])
      => Held(g, p)' \/ members'[g] = {} \/ Withdraws(g, p)

(* A partition whose owner is alive keeps an owner as members join, leave  *)
(* and are evicted, as long as the group has members at all and the caller *)
(* that joins or leaves lists it among the available ones.                 *)
THEOREM LivePartitionsHeld == Spec => LivePartitionsStayHeld
<1>1. TypeOK /\ [Next]_vars => [KeepsOwners]_vars
  <2> SUFFICES ASSUME TypeOK, Next PROVE KeepsOwners
    OBVIOUS
  <2> SUFFICES ASSUME NEW g \in Group, NEW p \in Partition, NEW m \in members[g] \ stale[g],
                      p \in assigned[g][m], members'[g] # {}, ~Withdraws(g, p)
               PROVE  \E n \in members'[g] : p \in assigned'[g][n]
    BY DEF KeepsOwners, Held
  <2>1. ASSUME NEW h \in Group, NEW S \in SUBSET Member, NEW list \in Lists,
               g = h => p \in Range(list),
               members' = [members EXCEPT ![h] = S],
               assigned' = [assigned EXCEPT ![h] = Rebalanced(h, S, list)]
        PROVE  \E n \in members'[g] : p \in assigned'[g][n]
    <3>1. CASE g = h
      <4>1. assigned'[g] = Rebalanced(h, S, list) /\ members'[g] = S
        BY <2>1, <3>1 DEF TypeOK
      <4> QED BY <2>1, <3>1, <4>1, RebalancedHolds
    <3>2. CASE g # h
      BY <2>1, <3>2 DEF TypeOK
    <3> QED BY <3>1, <3>2
  <2>2. CASE \E h \in Group, n \in Member, list \in Lists : JoinGroup(h, n, list)
    <3>1. PICK h \in Group, n \in Member, list \in Lists : JoinGroup(h, n, list)
      BY <2>2
    <3>2. members[h] \cup {n} \in SUBSET Member
      BY DEF TypeOK
    <3>3. g = h => p \in Range(list)
      BY <3>1 DEF Withdraws
    <3> QED BY <2>1, <3>1, <3>2, <3>3 DEF JoinGroup
  <2>3. CASE \E h \in Group, n \in Member, list \in Lists : LeaveGroup(h, n, list)
    <3>1. PICK h \in Group, n \in Member, list \in Lists : LeaveGroup(h, n, list)
      BY <2>3
    <3>2. members[h] \ {n} \in SUBSET Member
      BY DEF TypeOK
    <3>3. g = h => p \in Range(list)
      BY <3>1 DEF Withdraws
    <3> QED BY <2>1, <3>1, <3>2, <3>3 DEF LeaveGroup
  <2>4. CASE EvictionTick
    <3>1. m \in members'[g] /\ assigned'[g][m] = assigned[g][m]
      BY <2>4 DEF EvictionTick, Expired, TypeOK
    <3> QED BY <3>1
  <2>5. CASE UNCHANGED <<members, assigned>>
    BY <2>5
  <2>6. CASE Reopen
    BY <2>6 DEF Reopen
  <2> QED BY <2>2, <2>3, <2>4, <2>5, <2>6
       DEF Next, groupVars, SessionExpires, Heartbeat, CommitOffset, CommitFails,
           CommitCutShort, Restart
<1>2. Spec => [][KeepsOwners]_vars
  BY <1>1, GroupTypes, PTL DEF Spec
<1> QED BY <1>2 DEF LivePartitionsStayHeld, KeepsOwners
=============================================================================
