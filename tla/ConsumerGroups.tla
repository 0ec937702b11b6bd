--------------------------- MODULE ConsumerGroups ---------------------------
(***************************************************************************)
(* consumer.Coordinator (src/consumer/group_coordinator.go): the members   *)
(* of the consumer groups and the partitions they are assigned, the loop   *)
(* that evicts silent members, and the offsets the groups commit to the    *)
(* file offsets.checkpoint, across failed writes, crashes and restarts.    *)
(*                                                                         *)
(* Every method holds c.mu or g.mu and is one step.  Time is abstracted:   *)
(* a member's heartbeat may become older than sessionTimeout at any moment.*)
(* ConsumerGroup.Generation is written and never read: it is left out.     *)
(***************************************************************************)
EXTENDS Naturals, Sequences, FiniteSets, Functions, Selection

CONSTANTS
  Group, Member, Partition,
  Lists,         \* the lists callers pass as availablePartitions, no partition twice
  MemberOrder,   \* Member in the order of sort.Strings
  NoOffset,      \* no entry in ConsumerGroup.Offsets
  MaxOffset,     \* bound: the offsets consumers commit
  Consumed,      \* bound: the partitions consumers commit offsets of
  Cuts           \* how much of a line an interrupted write may leave in the file

ASSUME ListAssumption ==
  /\ Lists \subseteq Seq(Partition) /\ \A list \in Lists : IsInjective(list)
  /\ MemberOrder \in Seq(Member) /\ IsInjective(MemberOrder)
  /\ \A m \in Member : \E i \in 1..Len(MemberOrder) : MemberOrder[i] = m
ASSUME OffsetAssumption == MaxOffset \in Nat /\ NoOffset \notin Nat /\ Consumed \subseteq Partition
ASSUME CutAssumption == Cuts \subseteq {"nothing", "part", "unterminated", "whole"}

VARIABLES
  groups,        \* the groups c.groups knows
  members,       \* the keys of each group's Members
  stale,         \* members whose LastHeartbeat is older than sessionTimeout
  assigned,      \* AssignedParts of each member
  offsets,       \* each group's Offsets
  disk,          \* the last terminated, readable line of each key in the file
  tail,          \* what follows the last newline in the file
  broken,        \* offsetWriter has met an error, which bufio never forgets
  acked,         \* the last offset whose CommitOffset returned nil
  inDoubt        \* the offsets of commits since then that returned an error or
                 \* were cut off

groupVars  == <<members, stale, assigned>>
offsetVars == <<offsets, disk, tail, broken, acked, inDoubt>>
vars == <<groups, groupVars, offsetVars>>

Key == Group \X Consumed
Offset == 0..MaxOffset

\* The bytes after the last newline: none, a fragment, or a whole record whose
\* newline is missing.
NoTail == [kind |-> "none"]
Torn   == [kind |-> "torn"]
Unterminated(k, o) == [kind |-> "record", key |-> k, offset |-> o]
FileTail == {NoTail, Torn} \cup {Unterminated(k, o) : k \in Key, o \in Offset}

Init ==
  /\ groups = {}
  /\ members = [g \in Group |-> {}]
  /\ stale = [g \in Group |-> {}]
  /\ assigned = [g \in Group |-> [m \in Member |-> {}]]
  /\ offsets = [k \in Key |-> NoOffset]
  /\ disk = [k \in Key |-> NoOffset]
  /\ tail = NoTail
  /\ broken = FALSE
  /\ acked = [k \in Key |-> NoOffset]
  /\ inDoubt = [k \in Key |-> {}]

(* The shape of the state; a group the coordinator does not know has neither *)
(* members nor offsets.                                                     *)
TypeOK ==
  /\ groups \subseteq Group
  /\ members \in [Group -> SUBSET Member]
  /\ stale \in [Group -> SUBSET Member] /\ \A g \in Group : stale[g] \subseteq members[g]
  /\ assigned \in [Group -> [Member -> SUBSET Partition]]
  /\ offsets \in [Key -> Offset \cup {NoOffset}]
  /\ \A g \in Group \ groups :
       members[g] = {} /\ \A p \in Consumed : offsets[<<g, p>>] = NoOffset
  /\ disk \in [Key -> Offset \cup {NoOffset}]
  /\ tail \in FileTail
  /\ broken \in BOOLEAN
  /\ acked \in [Key -> Offset \cup {NoOffset}]
  /\ inDoubt \in [Key -> SUBSET Offset]

-----------------------------------------------------------------------------
(* Membership.                                                             *)

\* Who the i-th partition of the list goes to when the group consists of S.
Turn(S, i) ==
  LET memberIDs == Select(MemberOrder, {j \in 1..Len(MemberOrder) : MemberOrder[j] \in S})
  IN memberIDs[((i - 1) % Cardinality(S)) + 1]

\* Mutant: the shares of an earlier round are not reset.
RebalancedOnTop(g, S, list) ==
  IF S = {} THEN [m \in Member |-> {}]
  ELSE [m \in Member |-> assigned[g][m] \cup
          {list[i] : i \in {j \in 1..Len(list) : Turn(S, j) = m}}]

\* Mutant: the loop runs over the members and gives each one partition.
RebalancedOneEach(g, S, list) ==
  IF S = {} THEN [m \in Member |-> {}]
  ELSE [m \in Member |->
          {list[i] : i \in {j \in 1..Len(list) :
             j <= Cardinality(S) /\ Turn(S, j) = m}}]

\* rebalanceGroup: round robin over the sorted members.  A member that is deleted
\* takes its AssignedParts with it.
Rebalanced(g, S, list) ==
  IF S = {} THEN [m \in Member |-> {}]
  ELSE [m \in Member |->
          {list[i] : i \in {j \in 1..Len(list) : Turn(S, j) = m}}]

JoinGroup(g, m, list) ==
  /\ groups' = groups \cup {g}
  /\ members' = [members EXCEPT ![g] = @ \cup {m}]
  /\ stale' = [stale EXCEPT ![g] = @ \ {m}]
  /\ assigned' = [assigned EXCEPT ![g] = Rebalanced(g, members[g] \cup {m}, list)]
  /\ UNCHANGED offsetVars

\* delete is a no-op for a stranger, and the group is rebalanced all the same.
LeaveGroup(g, m, list) ==
  /\ g \in groups
  /\ members' = [members EXCEPT ![g] = @ \ {m}]
  /\ stale' = [stale EXCEPT ![g] = @ \ {m}]
  /\ assigned' = [assigned EXCEPT ![g] = Rebalanced(g, members[g] \ {m}, list)]
  /\ UNCHANGED <<groups, offsetVars>>

\* sessionTimeout passes without a heartbeat of m.
SessionExpires(g, m) ==
  /\ m \in members[g] \ stale[g]
  /\ stale' = [stale EXCEPT ![g] = @ \cup {m}]
  /\ UNCHANGED <<groups, members, assigned, offsetVars>>

\* A heartbeat of a member that is not evicted yet; any other returns an error.
Heartbeat(g, m) ==
  /\ m \in members[g]
  /\ stale' = [stale EXCEPT ![g] = @ \ {m}]
  /\ UNCHANGED <<groups, members, assigned, offsetVars>>

\* Mutant: the last member of a group is never evicted.
ExpiredButLast(g) == IF stale[g] = members[g] THEN {} ELSE stale[g]

\* The members the eviction loop deletes.
Expired(g) == stale[g]

\* A tick of rebalanceEvictionLoop that finds something.  What the deleted members
\* were assigned goes with them; the others' shares stay.
EvictionTick ==
  /\ \E g \in Group : Expired(g) # {}
  /\ members' = [g \in Group |-> members[g] \ Expired(g)]
  /\ stale' = [g \in Group |-> stale[g] \ Expired(g)]
  /\ assigned' = [g \in Group |->
       [m \in Member |-> IF m \in Expired(g) THEN {} ELSE assigned[g][m]]]
  /\ UNCHANGED <<groups, offsetVars>>

-----------------------------------------------------------------------------
(* Offsets.  A line is appended to the file and flushed before the offset   *)
(* is taken into memory.                                                   *)

\* Mutant: the highest offset of a key wins when the file is read back.
HighestWins(k, o) == [disk EXCEPT ![k] = IF @ # NoOffset /\ @ > o THEN @ ELSE o]

\* The last readable line of a key wins.
LastWins(k, o) == [disk EXCEPT ![k] = o]

\* The file after as much of the line (k, o) as cut says.  The line continues an
\* unterminated one, and what comes of that is not JSON.
AppendLine(k, o, cut) ==
  \/ cut = "nothing" /\ UNCHANGED <<disk, tail>>
  \/ /\ cut = "whole"
     /\ disk' = IF tail = NoTail THEN LastWins(k, o) ELSE disk
     /\ tail' = NoTail
  \/ /\ cut = "unterminated"
     /\ tail' = IF tail = NoTail THEN Unterminated(k, o) ELSE Torn
     /\ UNCHANGED disk
  \/ cut = "part" /\ tail' = Torn /\ UNCHANGED disk

\* CommitOffset, when the disk takes it.
CommitOffset(k, o) ==
  /\ ~broken
  /\ groups' = groups \cup {k[1]}
  /\ AppendLine(k, o, "whole")
  /\ offsets' = [offsets EXCEPT ![k] = o]
  /\ acked' = [acked EXCEPT ![k] = o]
  /\ inDoubt' = [inDoubt EXCEPT ![k] = {}]
  /\ UNCHANGED <<groupVars, broken>>

\* CommitOffset returns an error: of an earlier write, of Flush, which leaves part of
\* the line and breaks the writer, or of Sync, which leaves the line in the file.
CommitFails(k, o) ==
  /\ groups' = groups \cup {k[1]}
  /\ \/ broken /\ UNCHANGED <<disk, tail, broken>>
     \/ \E cut \in Cuts \ {"whole"} : ~broken /\ AppendLine(k, o, cut) /\ broken' = TRUE
     \/ ~broken /\ AppendLine(k, o, "whole") /\ UNCHANGED broken
  /\ inDoubt' = [inDoubt EXCEPT ![k] = @ \cup {o}]
  /\ UNCHANGED <<groupVars, offsets, acked>>

\* What recoverOffsets makes of the file: the scanner hands out the bytes after the
\* last newline as a line too.
Recovered(d, t) == IF t.kind = "record" THEN [d EXCEPT ![t.key] = t.offset] ELSE d

\* Mutant: a recovered offset does not create its group.
ReopenWithoutGroups ==
  /\ offsets' = Recovered(disk', tail')
  /\ groups' = {}
  /\ members' = [g \in Group |-> {}]
  /\ stale' = [g \in Group |-> {}]
  /\ assigned' = [g \in Group |-> [m \in Member |-> {}]]
  /\ broken' = FALSE

\* NewCoordinator over the file as it is then.
Reopen ==
  /\ offsets' = Recovered(disk', tail')
  /\ groups' = {g \in Group : \E k \in Key : k[1] = g /\ offsets'[k] # NoOffset}
  /\ members' = [g \in Group |-> {}]
  /\ stale' = [g \in Group |-> {}]
  /\ assigned' = [g \in Group |-> [m \in Member |-> {}]]
  /\ broken' = FALSE

\* Close, or the process is killed between two calls, and a new one starts.
Restart ==
  /\ UNCHANGED <<disk, tail, acked, inDoubt>>
  /\ Reopen

\* The process ends inside CommitOffset, before its caller has an answer.
CommitCutShort(k, o) ==
  /\ ~broken
  /\ \E cut \in Cuts : AppendLine(k, o, cut)
  /\ inDoubt' = [inDoubt EXCEPT ![k] = @ \cup {o}]
  /\ UNCHANGED acked
  /\ Reopen

\* FetchOffset; NoOffset stands for its two errors.
FetchOffset(k) == IF k[1] \in groups THEN offsets[k] ELSE NoOffset

-----------------------------------------------------------------------------
Next ==
  \/ \E g \in Group, m \in Member, list \in Lists : JoinGroup(g, m, list)
  \/ \E g \in Group, m \in Member, list \in Lists : LeaveGroup(g, m, list)
  \/ \E g \in Group, m \in Member : SessionExpires(g, m)
  \/ \E g \in Group, m \in Member : Heartbeat(g, m)
  \/ EvictionTick
  \/ \E k \in Key, o \in Offset : CommitOffset(k, o)
  \/ \E k \in Key, o \in Offset : CommitFails(k, o)
  \/ \E k \in Key, o \in Offset : CommitCutShort(k, o)
  \/ Restart

Spec == Init /\ [][Next]_vars

\* The ticker of rebalanceEvictionLoop does not stop while the process runs.
FairSpec == Spec /\ WF_vars(EvictionTick)

-----------------------------------------------------------------------------
(* No partition of a group is assigned to two of its members, and their     *)
(* shares differ by one partition at most, evictions included.             *)
SharesAreFair ==
  \A g \in Group : \A a, b \in members[g] : a # b =>
    /\ assigned[g][a] \cap assigned[g][b] = {}
    /\ Cardinality(assigned[g][a]) <= Cardinality(assigned[g][b]) + 1

Held(g, p) == \E m \in members[g] : p \in assigned[g][m]

\* A call that rebalances g over a list without p.
Withdraws(g, p) ==
  \E m \in Member, list \in Lists :
    (JoinGroup(g, m, list) \/ LeaveGroup(g, m, list)) /\ p \notin Range(list)

(* A partition whose owner is alive keeps an owner as members join, leave   *)
(* and are evicted, as long as the group has members at all and the caller *)
(* that joins or leaves lists it among the available ones.                 *)
LivePartitionsStayHeld ==
  [][\A g \in Group, p \in Partition :
       (\E m \in members[g] \ stale[g] : p \in assigned[g][m])
         => Held(g, p)' \/ members'[g] = {} \/ Withdraws(g, p)]_vars

(* FetchOffset never forgets a commit: now and after a restart it gives     *)
(* the offset of the last CommitOffset that returned nil, or one of the    *)
(* commits since then of which the caller does not know.                   *)
OffsetsSurvive ==
  \A k \in Key : {FetchOffset(k), Recovered(disk, tail)[k]} \subseteq {acked[k]} \cup inDoubt[k]

(* A member that stays silent is evicted: it is gone or heard of again.     *)
SilentMembersGo ==
  \A g \in Group, m \in Member : m \in stale[g] ~> m \notin stale[g]
=============================================================================
