------------------------- MODULE RaftConsensusProofs -------------------------
(***************************************************************************)
(* Theorems about RaftConsensus for every cluster, payload set and bound:  *)
(* type correctness, election safety and the wake-ups of the applier.      *)
(* Crashes (CrashSpec) are left out: a node that has forgotten its vote    *)
(* may vote again.                                                         *)
(***************************************************************************)
EXTENDS RaftConsensus, SelectionProofs

-----------------------------------------------------------------------------
(* Updating one node's value keeps a function's type.                      *)
LEMMA ExceptTyped ==
  ASSUME NEW S, NEW T, NEW f \in [S -> T], NEW x, NEW y \in T
  PROVE  [f EXCEPT ![x] = y] \in [S -> T]
OBVIOUS

-----------------------------------------------------------------------------
(* The network.                                                            *)

(* Consuming messages and sending others leaves a bag that holds nothing    *)
(* but the old messages and those sent: the network invents no RPC.        *)
LEMMA ExchangeMessages ==
  ASSUME IsABag(msgs), NEW read, NEW sent, Exchange(read, sent)
  PROVE  IsABag(msgs') /\ BagToSet(msgs') \subseteq BagToSet(msgs) \cup sent
<1> DEFINE B == msgs (-) SetToBag(read)
<1>1. IsABag(B) /\ DOMAIN B \subseteq DOMAIN msgs
  BY DEF IsABag, SetToBag, (-)
<1>2. IsABag(B (+) SetToBag(sent)) /\ DOMAIN (B (+) SetToBag(sent)) = DOMAIN B \cup sent
  <2> HIDE DEF B
  <2> QED BY <1>1 DEF IsABag, SetToBag, (+)
<1> QED BY <1>1, <1>2 DEF Exchange, BagToSet

(* If all messages in flight and all that are sent are RPCs, all stay RPCs. *)
LEMMA ExchangeTyped ==
  ASSUME IsABag(msgs), BagToSet(msgs) \subseteq Message,
         NEW read, NEW sent, sent \subseteq Message, Exchange(read, sent)
  PROVE  IsABag(msgs') /\ BagToSet(msgs') \subseteq Message
BY ExchangeMessages

-----------------------------------------------------------------------------
(* The log.                                                                *)

(* Positions and terms of a well-typed log are numbers.                    *)
LEMMA LogTypes ==
  ASSUME NodeTypeOK, NEW n \in Node
  PROVE  /\ LastLogIndex(n) \in Nat
         /\ LastLogTerm(n) \in Nat
         /\ \A lg \in Seq(Entry), i \in Nat : LogTermIn(n, lg, i) \in Nat
         /\ \A i \in Nat : LogTerm(n, i) \in Nat
<1>1. log[n] \in Seq(Entry) /\ snapIndex[n] \in Nat /\ snapTerm[n] \in Nat
  BY DEF NodeTypeOK
<1>2. LastLogIndex(n) \in Nat
  BY <1>1 DEF LastLogIndex
<1>3. LastLogTerm(n) \in Nat
  <2>1. CASE log[n] = <<>>
    BY <1>1, <2>1 DEF LastLogTerm
  <2>2. CASE log[n] # <<>>
    <3>1. Len(log[n]) \in 1..Len(log[n])
      BY <1>1, <2>2, EmptySeq, LenProperties
    <3>2. log[n][Len(log[n])] \in Entry
      BY <1>1, <3>1, ElementOfSeq
    <3> QED BY <2>2, <3>2 DEF LastLogTerm, Entry
  <2> QED BY <2>1, <2>2
<1>4. ASSUME NEW lg \in Seq(Entry), NEW i \in Nat
      PROVE  LogTermIn(n, lg, i) \in Nat
  <2>1. CASE i > snapIndex[n] /\ i - snapIndex[n] <= Len(lg)
    <3>1. lg[i - snapIndex[n]] \in Entry
      BY <1>1, <2>1, ElementOfSeq
    <3> QED BY <1>1, <2>1, <3>1 DEF LogTermIn, Entry
  <2>2. CASE ~(i > snapIndex[n] /\ i - snapIndex[n] <= Len(lg))
    BY <1>1, <2>2 DEF LogTermIn
  <2> QED BY <2>1, <2>2
<1> QED BY <1>1, <1>2, <1>3, <1>4 DEF LogTerm

(* A slice that starts inside the sequence is made of its entries.         *)
LEMMA SliceTyped ==
  ASSUME NEW S, NEW s \in Seq(S), NEW a \in Nat \ {0}, NEW b \in Nat, b <= Len(s)
  PROVE  SubSeq(s, a, b) \in Seq(S)
BY SubSeqProperties

(* The RPCs of a campaign are RPCs.                                        *)
LEMMA SolicitTyped ==
  ASSUME NodeTypeOK, NEW n \in Node, NEW reached \in SUBSET Node,
         NEW term \in Nat, NEW pre \in BOOLEAN
  PROVE  Solicit(n, reached, term, pre) \subseteq Message
<1>1. LastLogIndex(n) \in Nat /\ LastLogTerm(n) \in Nat
  BY LogTypes
<1> QED BY <1>1 DEF Solicit, Message, VoteRequest

(* The RPCs of a broadcast are RPCs.                                       *)
LEMMA BroadcastTyped ==
  ASSUME NodeTypeOK, NEW n \in Node, NEW reached \in SUBSET Node,
         NEW lg \in Seq(Entry), NEW commit \in Nat, NEW nexts \in [Node -> Nat]
  PROVE  BroadcastRpcs(n, reached, lg, commit, nexts) \subseteq Message
<1>1. currentTerm[n] \in Nat /\ snapIndex[n] \in Nat /\ snapTerm[n] \in Nat
  BY DEF NodeTypeOK
<1>2. ASSUME NEW p \in reached PROVE SnapshotRpc(n, p) \in Message
  BY <1>1, <1>2 DEF SnapshotRpc, Message, SnapshotRequest
<1>3. ASSUME NEW p \in reached, NEW next \in Nat \ {0}
      PROVE  AppendRpc(n, p, lg, commit, next) \in Message
  <2>1. next - 1 \in Nat
    OBVIOUS
  <2>2. LogTermIn(n, lg, next - 1) \in Nat
    BY <2>1, LogTypes
  <2>3. LogSliceIn(n, lg, next) \in Seq(Entry)
    BY <1>1, SliceTyped, LenProperties, EmptySeq DEF LogSliceIn
  <2> QED BY <1>1, <2>1, <2>2, <2>3 DEF AppendRpc, Message, AppendRequest
<1>4. \A p \in reached : Larger(nexts[p], 1) \in Nat \ {0}
  BY DEF Larger
<1> QED BY <1>2, <1>3, <1>4 DEF BroadcastRpcs

(* The log after the merge of a consistent AppendEntries is a log.         *)
LEMMA MergeTyped ==
  ASSUME NodeTypeOK, NEW n \in Node, NEW prev \in Nat, NEW entries \in Seq(Entry),
         snapIndex[n] <= prev, prev <= LastLogIndex(n)
  PROVE  Merge(n, prev, entries) \in Seq(Entry)
<1> DEFINE k == prev - snapIndex[n]
           differs == {i \in 1..Len(entries) :
                         \/ k + i > Len(log[n])
                         \/ log[n][k + i].term # entries[i].term}
<1>1. log[n] \in Seq(Entry) /\ snapIndex[n] \in Nat /\ Len(log[n]) \in Nat
  BY LenProperties DEF NodeTypeOK
<1>2. k \in Nat /\ k <= Len(log[n])
  BY <1>1 DEF LastLogIndex
<1>3. CASE differs = {}
  BY <1>1, <1>3 DEF Merge
<1>4. CASE differs # {}
  <2>1. differs \in SUBSET Nat /\ \A i \in differs : i \in 1..Len(entries)
    BY LenProperties
  <2>2. Min(differs) \in differs /\ \A i \in differs : Min(differs) <= i
    BY <1>4, <2>1, MinOfNats
  <2> DEFINE first == Min(differs)
  <2>3. first \in 1..Len(entries)
    BY <2>1, <2>2
  <2>4. Len(entries) \in Nat
    BY LenProperties
  <2>5. k + first - 1 <= Len(log[n])
    <3>1. CASE first = 1
      BY <1>1, <1>2, <3>1
    <3>2. CASE first # 1
      <4>1. first - 1 \in 1..Len(entries) /\ first - 1 \notin differs
        <5> HIDE DEF differs
        <5> QED BY <2>2, <2>3, <2>4, <3>2
      <4>2. ~(k + (first - 1) > Len(log[n]))
        <5>1. \A i \in 1..Len(entries) : i \notin differs => ~(k + i > Len(log[n]))
          OBVIOUS
        <5> HIDE DEF differs, k, first
        <5> QED BY <4>1, <5>1
      <4> HIDE DEF first, k
      <4> QED BY <1>1, <1>2, <2>3, <2>4, <4>2
    <3> QED BY <3>1, <3>2
  <2>6. SubSeq(log[n], 1, k + first - 1) \in Seq(Entry)
    <3> HIDE DEF first, k
    <3> QED BY <1>1, <1>2, <2>3, <2>4, <2>5, SliceTyped
  <2>7. SubSeq(entries, first, Len(entries)) \in Seq(Entry)
    <3> HIDE DEF first
    <3> QED BY <2>3, <2>4, SliceTyped
  <2> QED BY <1>4, <2>6, <2>7, ConcatProperties DEF Merge
<1> QED BY <1>3, <1>4

(* What stays behind a new anchor is a log.                                *)
LEMMA LogAfterTyped ==
  ASSUME NodeTypeOK, NEW n \in Node, NEW index \in Nat, snapIndex[n] < index
  PROVE  LogAfter(n, index) \in Seq(Entry)
<1>1. log[n] \in Seq(Entry) /\ snapIndex[n] \in Nat /\ Len(log[n]) \in Nat
  BY LenProperties DEF NodeTypeOK
<1>2. index - snapIndex[n] + 1 \in Nat \ {0}
  BY <1>1
<1> QED BY <1>1, <1>2, SliceTyped DEF LogAfter

-----------------------------------------------------------------------------
(* Type correctness.                                                       *)

ElectionTypeOK ==
  /\ currentTerm \in [Node -> Nat]
  /\ votedFor \in [Node -> Node \cup {NoNode}]
  /\ role \in [Node -> {Follower, Candidate, Leader}]
  /\ leaderID \in [Node -> Node \cup {NoNode}]

(* Stepping down before a later term, or for its leader, keeps the types.  *)
LEMMA TermTyped ==
  ASSUME NodeTypeOK, NEW n \in Node, NEW t \in Nat, NEW l \in Node,
         \/ StepDown(n, t)
         \/ FollowLeader(n, t, l)
         \/ UNCHANGED <<currentTerm, votedFor, role, leaderID>>
  PROVE  ElectionTypeOK'
<1>1. ElectionTypeOK
  BY DEF NodeTypeOK, ElectionTypeOK
<1>2. CASE StepDown(n, t)
  BY <1>1, <1>2 DEF ElectionTypeOK, StepDown
<1>3. CASE FollowLeader(n, t, l)
  <2>1. (IF t > currentTerm[n] THEN NoNode ELSE votedFor[n]) \in Node \cup {NoNode}
    BY <1>1 DEF ElectionTypeOK
  <2>2. votedFor' = [votedFor EXCEPT ![n] = IF t > currentTerm[n] THEN NoNode ELSE votedFor[n]]
    BY <1>3 DEF FollowLeader
  <2>3. votedFor' \in [Node -> Node \cup {NoNode}]
    BY <1>1, <2>1, <2>2, ExceptTyped DEF ElectionTypeOK
  <2> QED BY <1>1, <1>3, <2>3 DEF ElectionTypeOK, FollowLeader
<1>4. CASE UNCHANGED <<currentTerm, votedFor, role, leaderID>>
  BY <1>1, <1>4 DEF ElectionTypeOK
<1> QED BY <1>2, <1>3, <1>4

(* Every step of an election keeps every field in its type.                *)
LEMMA ElectionTypes ==
  ASSUME NodeTypeOK, ElectionNext
  PROVE  NodeTypeOK'
<1> USE DEF electionVars, logVars, applyVars, leaderVars, clientVars, electionFrame
<1>0. IsABag(msgs) /\ BagToSet(msgs) \subseteq Message
  BY DEF NodeTypeOK
<1>t. \A n \in Node : currentTerm[n] \in Nat /\ LastLogIndex(n) + 1 \in Nat
  <2>1. \A n \in Node : LastLogIndex(n) \in Nat
    BY LogTypes
  <2> QED BY <2>1 DEF NodeTypeOK
<1>p. \A n \in Node : Peers(n) \subseteq Node
  BY DEF Peers
<1>1. ASSUME NEW n \in Node, NEW read, NEW reached \in SUBSET Peers(n),
             StartElection(n, read, reached)
      PROVE  /\ currentTerm' \in [Node -> Nat]
             /\ votedFor' \in [Node -> Node \cup {NoNode}]
             /\ role' \in [Node -> {Follower, Candidate, Leader}]
             /\ leaderID' \in [Node -> Node \cup {NoNode}]
             /\ votes' \in [Node -> SUBSET Node]
             /\ nextIndex' \in [Node -> [Node -> Nat]]
             /\ matchIndex' \in [Node -> [Node -> Nat]]
             /\ IsABag(msgs') /\ BagToSet(msgs') \subseteq Message
  <2>1. reached \in SUBSET Node /\ currentTerm[n] + 1 \in Nat /\ LastLogIndex(n) + 1 \in Nat
    BY <1>t, <1>p
  <2>2. Solicit(n, reached, currentTerm[n] + 1, FALSE) \subseteq Message
    BY <2>1, SolicitTyped
  <2>3. IsABag(msgs') /\ BagToSet(msgs') \subseteq Message
    BY <1>0, <1>1, <2>2, ExchangeTyped DEF StartElection
  <2>4. /\ nextIndex' \in [Node -> [Node -> Nat]]
        /\ matchIndex' \in [Node -> [Node -> Nat]]
    <3>1. FreshNext(n) \in [Node -> Nat]
      BY <2>1 DEF FreshNext
    <3>2. ResetProgress(n) \/ UNCHANGED <<nextIndex, matchIndex>>
      BY <1>1 DEF StartElection
    <3>3. /\ nextIndex \in [Node -> [Node -> Nat]] /\ matchIndex \in [Node -> [Node -> Nat]]
          /\ [p \in Node |-> 0] \in [Node -> Nat]
      BY DEF NodeTypeOK
    <3>4. CASE ResetProgress(n)
      <4>1. nextIndex' \in [Node -> [Node -> Nat]]
        BY <3>1, <3>3, <3>4, ExceptTyped DEF ResetProgress
      <4>2. matchIndex' \in [Node -> [Node -> Nat]]
        BY <3>3, <3>4, ExceptTyped DEF ResetProgress
      <4> QED BY <4>1, <4>2
    <3>5. CASE UNCHANGED <<nextIndex, matchIndex>>
      BY <3>3, <3>5
    <3> QED BY <3>2, <3>4, <3>5
  <2>5. /\ currentTerm' \in [Node -> Nat]
        /\ votedFor' \in [Node -> Node \cup {NoNode}]
        /\ votes' \in [Node -> SUBSET Node]
    BY <1>1, <2>1 DEF StartElection, NodeTypeOK
  <2>6. /\ role' \in [Node -> {Follower, Candidate, Leader}]
        /\ leaderID' \in [Node -> Node \cup {NoNode}]
    <3>1. /\ role \in [Node -> {Follower, Candidate, Leader}]
          /\ leaderID \in [Node -> Node \cup {NoNode}]
      BY DEF NodeTypeOK
    <3>2. \/ /\ role' = [role EXCEPT ![n] = Leader]
             /\ leaderID' = [leaderID EXCEPT ![n] = n]
          \/ /\ role' = [role EXCEPT ![n] = Candidate]
             /\ leaderID' = [leaderID EXCEPT ![n] = NoNode]
      BY <1>1 DEF StartElection
    <3> QED BY <3>1, <3>2, ExceptTyped
  <2> QED BY <2>3, <2>4, <2>5, <2>6
<1>2. ASSUME NEW n \in Node, ElectionTimeout(n)
      PROVE  NodeTypeOK'
  <2>1. PICK reached \in SUBSET Peers(n) :
          Exchange(OwnPreVotes(n), Solicit(n, reached, currentTerm[n] + 1, TRUE))
    BY <1>2 DEF ElectionTimeout
  <2>2. Solicit(n, reached, currentTerm[n] + 1, TRUE) \subseteq Message
    <3>1. reached \in SUBSET Node /\ currentTerm[n] + 1 \in Nat
      BY <1>t, <1>p
    <3> QED BY <3>1, SolicitTyped
  <2>3. IsABag(msgs') /\ BagToSet(msgs') \subseteq Message
    BY <1>0, <2>1, <2>2, ExchangeTyped
  <2> QED BY <1>2, <2>3 DEF ElectionTimeout, NodeTypeOK
<1>3. ASSUME NEW n \in Node, ElectionTimeoutUnopposed(n)
      PROVE  NodeTypeOK'
  BY <1>1, <1>3 DEF ElectionTimeoutUnopposed, NodeTypeOK
<1>4. ASSUME NEW n \in Node, PreVoteWon(n)
      PROVE  NodeTypeOK'
  BY <1>1, <1>4 DEF PreVoteWon, NodeTypeOK
<1>5. ASSUME NEW n \in Node, PreVoteEnds(n)
      PROVE  NodeTypeOK'
  BY <1>5 DEF PreVoteEnds, NodeTypeOK
<1>6. ASSUME NEW m \in InFlight("VoteRequest"), HandleRequestVote(m)
      PROVE  NodeTypeOK'
  <2>1. m \in VoteRequest
    BY <1>0 DEF InFlight, Message, VoteReply, AppendRequest, AppendReply, SnapshotRequest,
                SnapshotReply
  <2>2. \A t \in Nat, g \in BOOLEAN : {VoteReplyTo(m, t, g)} \subseteq Message
    BY <2>1 DEF VoteReplyTo, Message, VoteReply, VoteRequest
  <2>3. m.dst \in Node /\ m.src \in Node /\ m.term \in Nat
    BY <2>1 DEF VoteRequest
  <2>4. CASE HandlePreVote(m)
    <3>1. PICK g \in BOOLEAN : Exchange({m}, {VoteReplyTo(m, currentTerm[m.dst], g)})
      BY <2>4 DEF HandlePreVote, AnswerPreVote
    <3>2. IsABag(msgs') /\ BagToSet(msgs') \subseteq Message
      BY <1>0, <1>t, <2>2, <2>3, <3>1, ExchangeTyped
    <3> QED BY <2>4, <3>2 DEF HandlePreVote, AnswerPreVote, NodeTypeOK, ballotVars
  <2>5. CASE HandleVote(m)
    <3>1. Larger(currentTerm[m.dst], m.term) \in Nat
      BY <2>3 DEF Larger, NodeTypeOK
    <3>2. PICK g \in BOOLEAN :
            Exchange({m}, {VoteReplyTo(m, Larger(currentTerm[m.dst], m.term), g)})
      BY <2>5 DEF HandleVote, Grants
    <3>3. IsABag(msgs') /\ BagToSet(msgs') \subseteq Message
      BY <1>0, <2>2, <3>1, <3>2, ExchangeTyped
    <3> QED BY <2>3, <2>5, <3>1, <3>3 DEF HandleVote, NodeTypeOK, ballotVars
  <2> QED BY <1>6, <2>4, <2>5 DEF HandleRequestVote
<1>7. ASSUME NEW m \in InFlight("VoteReply"), HandleVoteReply(m)
      PROVE  NodeTypeOK'
  <2>1. m \in VoteReply
    BY <1>0 DEF InFlight, Message, VoteRequest, AppendRequest, AppendReply, SnapshotRequest,
                SnapshotReply
  <2>2. m.dst \in Node /\ m.src \in Node /\ m.term \in Nat
    BY <2>1 DEF VoteReply
  <2>3. Exchange({m}, {}) => IsABag(msgs') /\ BagToSet(msgs') \subseteq Message
    BY <1>0, ExchangeTyped
  <2>4. CASE ReceivePreVote(m)
    <3>1. IsABag(msgs') /\ BagToSet(msgs') \subseteq Message
      BY <2>3, <2>4 DEF ReceivePreVote
    <3>p. preVotes' \in [Node -> SUBSET Node]
      <4>1. preVotes \in [Node -> SUBSET Node]
        BY DEF NodeTypeOK
      <4>2. preVotes' = [preVotes EXCEPT ![m.dst] =
                          IF m.granted /\ polling[m.dst] THEN @ \cup {m.src} ELSE @]
        BY <2>4 DEF ReceivePreVote
      <4> QED BY <2>2, <4>1, <4>2
    <3>2. /\ currentTerm' \in [Node -> Nat]
          /\ votedFor' \in [Node -> Node \cup {NoNode}]
          /\ role' \in [Node -> {Follower, Candidate, Leader}]
          /\ leaderID' \in [Node -> Node \cup {NoNode}]
      <4>1. CASE StepDown(m.dst, m.term)
        BY <2>2, <4>1 DEF StepDown, NodeTypeOK
      <4>2. CASE UNCHANGED electionVars
        BY <4>2 DEF electionVars, NodeTypeOK
      <4> QED BY <2>4, <4>1, <4>2 DEF ReceivePreVote
    <3>3. UNCHANGED <<votes, polling, leaderVars, electionFrame>>
      BY <2>4 DEF ReceivePreVote
    <3> QED BY <3>1, <3>p, <3>2, <3>3 DEF NodeTypeOK, electionFrame, logVars, applyVars, clientVars,
                                    leaderVars
  <2>5. CASE ReceiveVote(m)
    <3>1. CASE BecomeLeader(m.dst, m)
      <4>1. LastLogIndex(m.dst) + 1 \in Nat
        BY <1>t, <2>2
      <4>2. FreshNext(m.dst) \in [Node -> Nat]
        BY <4>1 DEF FreshNext
      <4>3. PICK reached \in SUBSET Peers(m.dst) :
              Exchange({m}, BroadcastRpcs(m.dst, reached, log[m.dst], commitIndex[m.dst],
                                          FreshNext(m.dst)))
        BY <3>1 DEF BecomeLeader
      <4>4. BroadcastRpcs(m.dst, reached, log[m.dst], commitIndex[m.dst], FreshNext(m.dst))
              \subseteq Message
        <5>1. log[m.dst] \in Seq(Entry) /\ commitIndex[m.dst] \in Nat
          BY <2>2 DEF NodeTypeOK
        <5> QED BY <1>p, <2>2, <4>2, <5>1, BroadcastTyped
      <4>5. IsABag(msgs') /\ BagToSet(msgs') \subseteq Message
        BY <1>0, <4>3, <4>4, ExchangeTyped
      <4>6. votes' \in [Node -> SUBSET Node]
        <5>1. \/ UNCHANGED votes
              \/ votes' = [votes EXCEPT ![m.dst] = votes[m.dst] \cup {m.src}]
          BY <2>5 DEF ReceiveVote
        <5>2. votes \in [Node -> SUBSET Node] /\ votes[m.dst] \cup {m.src} \in SUBSET Node
          BY <2>2 DEF NodeTypeOK
        <5> QED BY <5>1, <5>2, ExceptTyped
      <4> QED BY <2>2, <2>5, <3>1, <4>2, <4>5, <4>6
            DEF ReceiveVote, BecomeLeader, ResetProgress, NodeTypeOK
    <3>2. CASE ~BecomeLeader(m.dst, m)
      <4>1. /\ \/ StepDown(m.dst, m.term)
               \/ UNCHANGED electionVars
            /\ \/ UNCHANGED votes
               \/ votes' = [votes EXCEPT ![m.dst] = votes[m.dst] \cup {m.src}]
            /\ Exchange({m}, {})
            /\ UNCHANGED <<polling, preVotes, leaderVars, electionFrame>>
        BY <2>5, <3>2 DEF ReceiveVote
      <4>2. votes' \in [Node -> SUBSET Node]
        <5>1. votes \in [Node -> SUBSET Node] /\ votes[m.dst] \cup {m.src} \in SUBSET Node
          BY <2>2 DEF NodeTypeOK
        <5> QED BY <4>1, <5>1, ExceptTyped
      <4>3. ElectionTypeOK'
        BY <2>2, <4>1, TermTyped
      <4> QED BY <2>3, <4>1, <4>2, <4>3 DEF NodeTypeOK, ElectionTypeOK
    <3> QED BY <3>1, <3>2
  <2> QED BY <1>7, <2>4, <2>5 DEF HandleVoteReply
<1> QED BY <1>2, <1>3, <1>4, <1>5, <1>6, <1>7 DEF ElectionNext

(* Every step of the replication keeps every field in its type.            *)
LEMMA ReplicationTypes ==
  ASSUME NodeTypeOK, ReplicationNext
  PROVE  NodeTypeOK'
<1> USE DEF electionVars, ballotVars, logVars, applyVars, leaderVars, clientVars,
            replicationFrame
<1>0. IsABag(msgs) /\ BagToSet(msgs) \subseteq Message
  BY DEF NodeTypeOK
<1>t. \A n \in Node : /\ currentTerm[n] \in Nat /\ snapIndex[n] \in Nat
                      /\ commitIndex[n] \in Nat /\ lastApplied[n] \in Nat
                      /\ log[n] \in Seq(Entry) /\ nextIndex[n] \in [Node -> Nat]
                      /\ matchIndex[n] \in [Node -> Nat]
  BY DEF NodeTypeOK
<1>l. \A n \in Node : LastLogIndex(n) \in Nat
  BY LogTypes
<1>p. \A n \in Node : Peers(n) \subseteq Node
  BY DEF Peers
<1>s. ASSUME NEW m, Exchange({m}, {})
      PROVE  IsABag(msgs') /\ BagToSet(msgs') \subseteq Message
  BY <1>0, <1>s, ExchangeTyped
<1>w. ASSUME NEW n \in Node, Wake(n)
      PROVE  notify' \in [Node -> 0..NotifyCap]
  <2>1. notify \in [Node -> 0..NotifyCap] /\ NotifyCap \in Nat
    BY BoundAssumption DEF NodeTypeOK
  <2>2. Smaller(notify[n] + 1, NotifyCap) \in 0..NotifyCap
    BY <2>1 DEF Smaller
  <2> QED BY <1>w, <2>1, <2>2, ExceptTyped DEF Wake
<1>1. ASSUME NEW n \in Node, Heartbeat(n)
      PROVE  NodeTypeOK'
  <2>1. PICK reached \in SUBSET Peers(n) :
          Exchange({}, BroadcastRpcs(n, reached, log[n], commitIndex[n], nextIndex[n]))
    BY <1>1 DEF Heartbeat
  <2>2. BroadcastRpcs(n, reached, log[n], commitIndex[n], nextIndex[n]) \subseteq Message
    <3>1. reached \in SUBSET Node
      BY <1>p
    <3> QED BY <1>t, <3>1, BroadcastTyped
  <2>3. IsABag(msgs') /\ BagToSet(msgs') \subseteq Message
    BY <1>0, <2>1, <2>2, ExchangeTyped
  <2> QED BY <1>1, <2>3 DEF Heartbeat, NodeTypeOK
<1>2. ASSUME NEW n \in Node, NEW data \in Payload, Propose(n, data)
      PROVE  NodeTypeOK'
  <2> DEFINE lg == Append(log[n], [term |-> currentTerm[n], data |-> data])
  <2>1. lg \in Seq(Entry)
    <3>1. [term |-> currentTerm[n], data |-> data] \in Entry
      BY <1>t DEF Entry
    <3> QED BY <1>t, <3>1, AppendProperties
  <2>2. PICK reached \in SUBSET Peers(n) :
          Exchange({}, BroadcastRpcs(n, reached, lg, commitIndex[n], nextIndex[n]))
    BY <1>2 DEF Propose
  <2>3. BroadcastRpcs(n, reached, lg, commitIndex[n], nextIndex[n]) \subseteq Message
    <3>1. reached \in SUBSET Node
      BY <1>p
    <3> HIDE DEF lg
    <3> QED BY <1>t, <2>1, <3>1, BroadcastTyped
  <2>4. IsABag(msgs') /\ BagToSet(msgs') \subseteq Message
    <3> HIDE DEF lg
    <3> QED BY <1>0, <2>2, <2>3, ExchangeTyped
  <2>5. log' \in [Node -> Seq(Entry)]
    <3>1. log \in [Node -> Seq(Entry)] /\ log' = [log EXCEPT ![n] = lg]
      BY <1>2 DEF Propose, NodeTypeOK
    <3> HIDE DEF lg
    <3> QED BY <2>1, <3>1, ExceptTyped
  <2>6. proposals' \subseteq [node : Node, index : Nat, term : Nat, data : Payload]
    <3>1. LastLogIndex(n) + 1 \in Nat
      BY <1>l
    <3> QED BY <1>2, <1>t, <3>1 DEF Propose, NodeTypeOK
  <2> QED BY <1>2, <2>4, <2>5, <2>6 DEF Propose, NodeTypeOK
<1>3. ASSUME NEW q \in proposals, ProposeReturns(q) \/ ProposeFails(q)
      PROVE  NodeTypeOK'
  BY <1>3 DEF ProposeReturns, ProposeFails, NodeTypeOK
<1>4. ASSUME NEW m \in InFlight("AppendRequest"), HandleAppendEntries(m)
      PROVE  NodeTypeOK'
  <2>1. m \in AppendRequest
    BY <1>0 DEF InFlight, Message, VoteRequest, VoteReply, AppendReply, SnapshotRequest,
                SnapshotReply
  <2>2. /\ m.dst \in Node /\ m.src \in Node /\ m.term \in Nat /\ m.prevIndex \in Nat
        /\ m.prevTerm \in Nat /\ m.entries \in Seq(Entry) /\ m.commit \in Nat
        /\ Len(m.entries) \in Nat
    BY <2>1, LenProperties DEF AppendRequest
  <2>3. ASSUME NEW t \in Nat, NEW ok \in BOOLEAN, NEW i \in Nat,
               Exchange({m}, {AppendReplyTo(m, t, ok, i)})
        PROVE  IsABag(msgs') /\ BagToSet(msgs') \subseteq Message
    <3>1. {AppendReplyTo(m, t, ok, i)} \subseteq Message
      BY <2>2 DEF AppendReplyTo, Message, AppendReply
    <3> QED BY <1>0, <2>3, <3>1, ExchangeTyped
  <2>4. CASE RejectStaleAppend(m)
    <3>1. IsABag(msgs') /\ BagToSet(msgs') \subseteq Message
      BY <1>t, <2>2, <2>3, <2>4 DEF RejectStaleAppend
    <3> QED BY <2>4, <3>1 DEF RejectStaleAppend, NodeTypeOK
  <2>5. CASE AppendCompacted(m)
    <3>1. IsABag(msgs') /\ BagToSet(msgs') \subseteq Message
      BY <1>t, <2>2, <2>3, <2>5 DEF AppendCompacted
    <3>2. ElectionTypeOK'
      BY <2>2, <2>5, TermTyped DEF AppendCompacted
    <3> QED BY <2>5, <3>1, <3>2 DEF AppendCompacted, NodeTypeOK, ElectionTypeOK
  <2>6. CASE HandleCurrentAppend(m)
    <3> DEFINE n == m.dst
               a == Trimmed(n, m)
               lastNew == a.prev + Len(a.entries)
    <3>1. /\ a.prev \in Nat /\ snapIndex[n] <= a.prev
          /\ a.entries \in Seq(Entry) /\ Len(a.entries) \in Nat
      <4>1. CASE m.prevIndex < snapIndex[n]
        <5>1. snapIndex[n] - m.prevIndex + 1 \in Nat \ {0}
          BY <1>t, <2>2, <4>1
        <5>2. SubSeq(m.entries, snapIndex[n] - m.prevIndex + 1, Len(m.entries)) \in Seq(Entry)
          BY <2>2, <5>1, SliceTyped
        <5>3. /\ a.prev = snapIndex[n]
              /\ a.entries = SubSeq(m.entries, snapIndex[n] - m.prevIndex + 1, Len(m.entries))
          BY <4>1 DEF Trimmed
        <5> HIDE DEF a
        <5> QED BY <1>t, <2>2, <5>2, <5>3, LenProperties
      <4>2. CASE ~(m.prevIndex < snapIndex[n])
        <5>1. a.prev = m.prevIndex /\ a.entries = m.entries
          BY <4>2 DEF Trimmed
        <5> HIDE DEF a
        <5> QED BY <1>t, <2>2, <4>2, <5>1
      <4> QED BY <4>1, <4>2
    <3>2. lastNew \in Nat
      <4> HIDE DEF a
      <4> QED BY <3>1
    <3>3. ElectionTypeOK'
      BY <2>2, <2>6, TermTyped DEF HandleCurrentAppend
    <3>4. IsABag(msgs') /\ BagToSet(msgs') \subseteq Message
      <4>1. \/ Exchange({m}, {AppendReplyTo(m, m.term, FALSE, 0)})
            \/ Exchange({m}, {AppendReplyTo(m, m.term, TRUE, lastNew)})
        BY <2>6 DEF HandleCurrentAppend
      <4> HIDE DEF lastNew
      <4> QED BY <2>2, <2>3, <3>2, <4>1
    <3>5. log' \in [Node -> Seq(Entry)] /\ commitIndex' \in [Node -> Nat]
          /\ notify' \in [Node -> 0..NotifyCap]
      <4>1. /\ log \in [Node -> Seq(Entry)] /\ commitIndex \in [Node -> Nat]
            /\ notify \in [Node -> 0..NotifyCap]
        BY DEF NodeTypeOK
      <4>2. CASE UNCHANGED <<log, applyVars>>
        BY <4>1, <4>2
      <4>3. CASE /\ PrevMatches(n, a)
                 /\ log' = [log EXCEPT ![n] = Merge(n, a.prev, a.entries)]
                 /\ commitIndex' = [commitIndex EXCEPT ![n] = CommitAfter(n, m.commit, lastNew)]
                 /\ Wake(n) \/ UNCHANGED notify
        <5>1. Merge(n, a.prev, a.entries) \in Seq(Entry)
          <6>1. a.prev <= LastLogIndex(n)
            BY <4>3 DEF PrevMatches
          <6> HIDE DEF a, n
          <6>2. n \in Node
            BY <2>2 DEF n
          <6> QED BY <3>1, <6>1, <6>2, MergeTyped
        <5>2. CommitAfter(n, m.commit, lastNew) \in Nat
          <6> HIDE DEF lastNew
          <6> QED BY <1>t, <2>2, <3>2 DEF CommitAfter, Smaller
        <5>3. log' \in [Node -> Seq(Entry)]
          BY <4>1, <4>3, <5>1, ExceptTyped
        <5>4. commitIndex' \in [Node -> Nat]
          BY <4>1, <4>3, <5>2, ExceptTyped
        <5>5. notify' \in [Node -> 0..NotifyCap]
          BY <1>w, <2>2, <4>1, <4>3
        <5> QED BY <5>3, <5>4, <5>5
      <4>4. \/ UNCHANGED <<log, applyVars>>
            \/ /\ PrevMatches(n, a)
               /\ log' = [log EXCEPT ![n] = Merge(n, a.prev, a.entries)]
               /\ commitIndex' = [commitIndex EXCEPT ![n] = CommitAfter(n, m.commit, lastNew)]
               /\ Wake(n) \/ UNCHANGED notify
        BY <2>6 DEF HandleCurrentAppend
      <4> QED BY <4>2, <4>3, <4>4
    <3>6. UNCHANGED <<lastApplied, snapIndex, snapTerm, leaderVars, replicationFrame>>
      BY <2>6 DEF HandleCurrentAppend
    <3> QED BY <3>3, <3>4, <3>5, <3>6 DEF NodeTypeOK, ElectionTypeOK
  <2> QED BY <1>4, <2>4, <2>5, <2>6 DEF HandleAppendEntries
<1>r. ASSUME NEW m, ReplyIgnored(m), m.dst \in Node, m.term \in Nat
      PROVE  NodeTypeOK'
  <2>1. ElectionTypeOK'
    BY <1>r, TermTyped DEF ReplyIgnored
  <2>2. IsABag(msgs') /\ BagToSet(msgs') \subseteq Message
    BY <1>r, <1>s DEF ReplyIgnored
  <2> QED BY <1>r, <2>1, <2>2 DEF ReplyIgnored, NodeTypeOK, ElectionTypeOK
<1>5. ASSUME NEW m \in InFlight("AppendReply"), HandleAppendReply(m)
      PROVE  NodeTypeOK'
  <2>1. m \in AppendReply
    BY <1>0 DEF InFlight, Message, VoteRequest, VoteReply, AppendRequest, SnapshotRequest,
                SnapshotReply
  <2>2. m.dst \in Node /\ m.src \in Node /\ m.term \in Nat /\ m.match \in Nat
    BY <2>1 DEF AppendReply
  <2> DEFINE n == m.dst
  <2>3. CASE AppendSucceeded(m)
    <3> DEFINE next == [nextIndex[n] EXCEPT ![m.src] = Acknowledged(n, m) + 1]
               match == [matchIndex[n] EXCEPT ![m.src] = Acknowledged(n, m)]
    <3>1. next \in [Node -> Nat] /\ match \in [Node -> Nat]
      BY <1>t, <2>2 DEF Acknowledged
    <3>2. nextIndex' \in [Node -> [Node -> Nat]] /\ matchIndex' \in [Node -> [Node -> Nat]]
      <4>1. /\ nextIndex \in [Node -> [Node -> Nat]] /\ matchIndex \in [Node -> [Node -> Nat]]
            /\ nextIndex' = [nextIndex EXCEPT ![n] = next]
            /\ matchIndex' = [matchIndex EXCEPT ![n] = match]
        BY <2>3 DEF AppendSucceeded, NodeTypeOK
      <4> HIDE DEF next, match
      <4> QED BY <3>1, <4>1, ExceptTyped
    <3>3. AdvanceCommit(n, m, next, match)
      BY <2>3 DEF AppendSucceeded
    <3>4. /\ IsABag(msgs') /\ BagToSet(msgs') \subseteq Message
          /\ commitIndex' \in [Node -> Nat] /\ notify' \in [Node -> 0..NotifyCap]
          /\ UNCHANGED lastApplied
      <4> HIDE DEF next, match
      <4>1. CASE Committable(n, match) = {}
        BY <1>s, <3>3, <4>1 DEF AdvanceCommit, NodeTypeOK
      <4>2. CASE Committable(n, match) # {}
        <5> DEFINE index == Max(Committable(n, match))
        <5>1. index \in Nat
          <6>1. Committable(n, match) \in SUBSET Nat
            BY <1>l, <1>t, <2>2 DEF Committable
          <6>2. \A i \in Committable(n, match) : i <= LastLogIndex(n)
            BY <1>l, <1>t, <2>2 DEF Committable
          <6>3. LastLogIndex(n) \in Nat
            BY <1>l, <2>2
          <6> QED BY <4>2, <6>1, <6>2, <6>3, MaxOfNats
        <5>2. /\ commitIndex' = [commitIndex EXCEPT ![n] = index]
              /\ Wake(n)
              /\ UNCHANGED lastApplied
          BY <3>3, <4>2 DEF AdvanceCommit
        <5>3. PICK reached \in SUBSET Peers(n) :
                Exchange({m}, BroadcastRpcs(n, reached, log[n], index, next))
          BY <3>3, <4>2 DEF AdvanceCommit
        <5> HIDE DEF index, n
        <5>4. n \in Node
          BY <2>2 DEF n
        <5>5. BroadcastRpcs(n, reached, log[n], index, next) \subseteq Message
          <6>1. reached \in SUBSET Node /\ log[n] \in Seq(Entry)
            BY <1>p, <1>t, <5>4
          <6> QED BY <3>1, <5>1, <5>4, <6>1, BroadcastTyped
        <5>6. IsABag(msgs') /\ BagToSet(msgs') \subseteq Message
          BY <1>0, <5>3, <5>5, ExchangeTyped
        <5>7. commitIndex' \in [Node -> Nat]
          BY <5>1, <5>2 DEF NodeTypeOK
        <5>8. notify' \in [Node -> 0..NotifyCap]
          BY <1>w, <5>2, <5>4
        <5> QED BY <5>2, <5>6, <5>7, <5>8
      <4> QED BY <4>1, <4>2
    <3>5. UNCHANGED <<electionVars, logVars, replicationFrame>>
      BY <2>3 DEF AppendSucceeded
    <3> QED BY <3>2, <3>4, <3>5 DEF NodeTypeOK
  <2>4. CASE AppendRefused(m)
    <3>1. IsABag(msgs') /\ BagToSet(msgs') \subseteq Message
      BY <1>s, <2>4 DEF AppendRefused
    <3>2. nextIndex' \in [Node -> [Node -> Nat]]
      <4> DEFINE back == NextAfterRefusal(n, nextIndex[n][m.src])
      <4>1. nextIndex \in [Node -> [Node -> Nat]] /\ snapIndex[n] \in Nat
        BY <2>2 DEF NodeTypeOK
      <4>2. back \in Nat
        BY <2>2, <4>1 DEF NextAfterRefusal
      <4>3. nextIndex' = [nextIndex EXCEPT ![n] = [nextIndex[n] EXCEPT ![m.src] = back]]
        BY <2>2, <2>4, <4>1 DEF AppendRefused
      <4> HIDE DEF back
      <4>4. [nextIndex[n] EXCEPT ![m.src] = back] \in [Node -> Nat]
        BY <2>2, <4>1, <4>2
      <4> QED BY <4>1, <4>3, <4>4, ExceptTyped
    <3> QED BY <2>4, <3>1, <3>2 DEF AppendRefused, NodeTypeOK
  <2> QED BY <1>5, <1>r, <2>2, <2>3, <2>4 DEF HandleAppendReply
<1>6. ASSUME NEW m \in InFlight("SnapshotRequest"), HandleInstallSnapshot(m)
      PROVE  NodeTypeOK'
  <2>1. m \in SnapshotRequest
    BY <1>0 DEF InFlight, Message, VoteRequest, VoteReply, AppendRequest, AppendReply,
                SnapshotReply
  <2>2. /\ m.dst \in Node /\ m.src \in Node /\ m.term \in Nat
        /\ m.lastIndex \in Nat /\ m.lastTerm \in Nat
    BY <2>1 DEF SnapshotRequest
  <2> DEFINE n == m.dst
  <2>3. IsABag(msgs') /\ BagToSet(msgs') \subseteq Message
    <3>1. {SnapshotReplyTo(m)} \subseteq Message
      BY <1>t, <2>2 DEF SnapshotReplyTo, Message, SnapshotReply
    <3>2. Exchange({m}, {SnapshotReplyTo(m)})
      BY <1>6 DEF HandleInstallSnapshot
    <3> QED BY <1>0, <3>1, <3>2, ExchangeTyped
  <2>4. ElectionTypeOK'
    BY <1>6, <2>2, TermTyped DEF HandleInstallSnapshot
  <2>5. UNCHANGED <<leaderVars, replicationFrame>>
    BY <1>6 DEF HandleInstallSnapshot
  <2>6. CASE m.term >= currentTerm[n] /\ NewerSnapshot(n, m)
    <3>1. TailKept(n, m) \in Seq(Entry)
      <4>1. n \in Node /\ m.lastIndex \in Nat /\ snapIndex[n] < m.lastIndex
        BY <1>t, <2>2, <2>6 DEF NewerSnapshot
      <4>2. LogAfter(n, m.lastIndex) \in Seq(Entry)
        BY <4>1, LogAfterTyped
      <4> QED BY <4>2, EmptySeq DEF TailKept
    <3>2. Larger(commitIndex[n], m.lastIndex) \in Nat /\ Larger(lastApplied[n], m.lastIndex) \in Nat
      BY <1>t, <2>2 DEF Larger
    <3>3. /\ log' = [log EXCEPT ![n] = TailKept(n, m)]
          /\ snapIndex' = [snapIndex EXCEPT ![n] = m.lastIndex]
          /\ snapTerm' = [snapTerm EXCEPT ![n] = m.lastTerm]
          /\ commitIndex' = [commitIndex EXCEPT ![n] = Larger(commitIndex[n], m.lastIndex)]
          /\ lastApplied' = [lastApplied EXCEPT ![n] = Larger(lastApplied[n], m.lastIndex)]
          /\ UNCHANGED notify
      BY <1>6, <2>6 DEF HandleInstallSnapshot
    <3>4. log' \in [Node -> Seq(Entry)]
      BY <3>1, <3>3, ExceptTyped DEF NodeTypeOK
    <3>5. /\ snapIndex' \in [Node -> Nat] /\ snapTerm' \in [Node -> Nat]
          /\ commitIndex' \in [Node -> Nat] /\ lastApplied' \in [Node -> Nat]
      BY <2>2, <3>2, <3>3 DEF NodeTypeOK
    <3> QED BY <2>3, <2>4, <2>5, <3>3, <3>4, <3>5 DEF NodeTypeOK, ElectionTypeOK
  <2>7. CASE ~(m.term >= currentTerm[n] /\ NewerSnapshot(n, m))
    <3>1. UNCHANGED <<logVars, applyVars>>
      BY <1>6, <2>7 DEF HandleInstallSnapshot
    <3> QED BY <2>3, <2>4, <2>5, <3>1 DEF NodeTypeOK, ElectionTypeOK
  <2> QED BY <2>6, <2>7
<1>7. ASSUME NEW m \in InFlight("SnapshotReply"), HandleSnapshotReply(m)
      PROVE  NodeTypeOK'
  <2>1. m \in SnapshotReply
    BY <1>0 DEF InFlight, Message, VoteRequest, VoteReply, AppendRequest, AppendReply,
                SnapshotRequest
  <2>2. m.dst \in Node /\ m.src \in Node /\ m.term \in Nat /\ m.index \in Nat
    BY <2>1 DEF SnapshotReply
  <2>3. CASE SnapshotInstalled(m)
    <3>1. IsABag(msgs') /\ BagToSet(msgs') \subseteq Message
      BY <1>s, <2>3 DEF SnapshotInstalled
    <3>2. /\ nextIndex' \in [Node -> [Node -> Nat]]
          /\ matchIndex' \in [Node -> [Node -> Nat]]
      <4>1. nextIndex \in [Node -> [Node -> Nat]] /\ matchIndex \in [Node -> [Node -> Nat]]
        BY DEF NodeTypeOK
      <4>2. CASE UNCHANGED leaderVars
        BY <4>1, <4>2
      <4>3. CASE /\ nextIndex' = [nextIndex EXCEPT ![m.dst][m.src] = m.index + 1]
                 /\ matchIndex' = [matchIndex EXCEPT ![m.dst][m.src] = m.index]
        <5>1. /\ [nextIndex[m.dst] EXCEPT ![m.src] = m.index + 1] \in [Node -> Nat]
              /\ [matchIndex[m.dst] EXCEPT ![m.src] = m.index] \in [Node -> Nat]
          BY <2>2, <4>1
        <5> QED BY <4>1, <4>3, <5>1, ExceptTyped
      <4> QED BY <2>3, <4>2, <4>3 DEF SnapshotInstalled
    <3> QED BY <2>3, <3>1, <3>2 DEF SnapshotInstalled, NodeTypeOK
  <2> QED BY <1>7, <1>r, <2>2, <2>3 DEF HandleSnapshotReply
<1>8. ASSUME NEW n \in Node, NEW index \in 1..MaxSnapshot, TakeSnapshot(n, index)
      PROVE  NodeTypeOK'
  <2>1. index \in Nat /\ snapIndex[n] < index
    BY <1>8, <1>t, BoundAssumption DEF TakeSnapshot, SnapshotAllowed
  <2>2. LogAfter(n, index) \in Seq(Entry)
    BY <2>1, LogAfterTyped
  <2>3. LogTerm(n, index) \in Nat
    BY <2>1, LogTypes
  <2>4. Larger(lastApplied[n], index) \in Nat
    BY <1>t, <2>1 DEF Larger
  <2>5. log' \in [Node -> Seq(Entry)]
    BY <1>8, <2>2, ExceptTyped DEF TakeSnapshot, NodeTypeOK
  <2>6. /\ snapIndex' \in [Node -> Nat] /\ snapTerm' \in [Node -> Nat]
        /\ lastApplied' \in [Node -> Nat]
    BY <1>8, <2>1, <2>3, <2>4 DEF TakeSnapshot, NodeTypeOK
  <2> QED BY <1>8, <2>5, <2>6 DEF TakeSnapshot, NodeTypeOK
<1>9. ASSUME NEW n \in Node, Apply(n)
      PROVE  NodeTypeOK'
  <2>1. Larger(lastApplied[n], ApplyUpTo(n)) \in Nat
    BY <1>t DEF Larger, ApplyUpTo
  <2>2. notify[n] - 1 \in 0..NotifyCap
    BY <1>9, BoundAssumption DEF Apply, NodeTypeOK
  <2>3. notify' \in [Node -> 0..NotifyCap] /\ lastApplied' \in [Node -> Nat]
    BY <1>9, <2>1, <2>2, ExceptTyped DEF Apply, NodeTypeOK
  <2> QED BY <1>9, <2>3 DEF Apply, NodeTypeOK
<1> QED BY <1>1, <1>2, <1>3, <1>4, <1>5, <1>6, <1>7, <1>8, <1>9 DEF ReplicationNext

(* Terms, votes, logs, positions and RPCs keep their types in every        *)
(* reachable state, for every cluster and every bound.                     *)
THEOREM TypeCorrectness == Spec => []NodeTypeOK
<1>1. Init => NodeTypeOK
  <2> SUFFICES ASSUME Init PROVE NodeTypeOK
    OBVIOUS
  <2>1. IsABag(msgs) /\ BagToSet(msgs) = {}
    BY DEF Init, EmptyBag, SetToBag, IsABag, BagToSet
  <2>2. /\ \A n \in Node : log[n] \in Seq(Entry)
        /\ notify \in [Node -> 0..NotifyCap]
    BY BoundAssumption, EmptySeq DEF Init
  <2>3. [p \in Node |-> 0] \in [Node -> Nat]
    OBVIOUS
  <2> QED BY <2>1, <2>2, <2>3 DEF Init, NodeTypeOK
<1>2. NodeTypeOK /\ [Next]_vars => NodeTypeOK'
  <2> SUFFICES ASSUME NodeTypeOK, [Next]_vars PROVE NodeTypeOK'
    OBVIOUS
  <2>1. CASE ElectionNext
    BY <2>1, ElectionTypes
  <2>2. CASE ReplicationNext
    BY <2>2, ReplicationTypes
  <2>3. ASSUME NEW m \in BagToSet(msgs), LoseRpc(m)
        PROVE  NodeTypeOK'
    <3>1. IsABag(msgs') /\ BagToSet(msgs') \subseteq Message
      BY <2>3, ExchangeTyped DEF LoseRpc, NodeTypeOK
    <3> QED BY <2>3, <3>1 DEF LoseRpc, NodeTypeOK, electionVars, ballotVars, logVars,
                              applyVars, leaderVars, clientVars
  <2>4. CASE UNCHANGED vars
    BY <2>4 DEF vars, NodeTypeOK, electionVars, ballotVars, logVars, applyVars, leaderVars,
                clientVars
  <2> QED BY <2>1, <2>2, <2>3, <2>4 DEF Next
<1> QED BY <1>1, <1>2, PTL DEF Spec

-----------------------------------------------------------------------------
(* Election safety.  VotesAreBinding is the inductive invariant: a state of *)
(* ElectionSafety alone does not say that the votes behind two leaders     *)
(* cannot be the same node's.                                              *)

NoGrant(sent) == \A m \in sent : m.type = "VoteReply" => m.pre \/ ~m.granted

(* The voters and candidates of the evidence are nodes, its terms numbers. *)
LEMMA ClaimTypes ==
  ASSUME NodeTypeOK, NEW x \in Claims
  PROVE  x.voter \in Node /\ x.candidate \in Node /\ x.term \in Nat
<1>1. CASE x \in Granted
  <2>1. PICK m \in InFlight("VoteReply") :
          x = [voter |-> m.src, term |-> m.election, candidate |-> m.dst]
    BY <1>1 DEF Granted
  <2>2. m \in VoteReply
    BY DEF NodeTypeOK, InFlight, Message, VoteRequest, AppendRequest, AppendReply,
           SnapshotRequest, SnapshotReply
  <2> QED BY <2>1, <2>2 DEF VoteReply
<1>2. CASE x \in Counted
  <2>1. PICK c \in {n \in Node : role[n] # Follower} :
          x \in {[voter |-> v, term |-> currentTerm[c], candidate |-> c] : v \in votes[c]}
    BY <1>2 DEF Counted
  <2>2. PICK v \in votes[c] : x = [voter |-> v, term |-> currentTerm[c], candidate |-> c]
    BY <2>1
  <2>3. c \in Node /\ votes[c] \subseteq Node /\ currentTerm[c] \in Nat
    BY DEF NodeTypeOK
  <2> QED BY <2>2, <2>3
<1> QED BY <1>1, <1>2 DEF Claims

(* A step that sends no granted vote leaves no new evidence in flight.     *)
LEMMA GrantedShrinks ==
  ASSUME NodeTypeOK, NEW read, NEW sent, Exchange(read, sent), NoGrant(sent)
  PROVE  Granted' \subseteq Granted
<1>1. BagToSet(msgs)' \subseteq BagToSet(msgs) \cup sent
  BY ExchangeMessages DEF NodeTypeOK
<1>2. \A r \in BagToSet(msgs)' : r.type = "VoteReply" /\ ~r.pre /\ r.granted => r \in BagToSet(msgs)
  BY <1>1 DEF NoGrant
<1> QED BY <1>2 DEF Granted, InFlight

(* Nor is a vote counted anew when every node keeps its term and votes or   *)
(* becomes a follower.                                                     *)
LEMMA CountedShrinks ==
  ASSUME \A c \in Node : \/ role'[c] = Follower
                         \/ /\ role[c] # Follower
                            /\ currentTerm'[c] = currentTerm[c]
                            /\ votes'[c] = votes[c]
  PROVE  Counted' \subseteq Counted
BY DEF Counted

(* Evidence that only shrinks stays binding, as long as a node changes its  *)
(* vote only with its term.                                                *)
LEMMA BindingPreserved ==
  ASSUME NodeTypeOK, NodeTypeOK', VotesAreBinding, Claims' \subseteq Claims,
         \A v \in Node : \/ currentTerm'[v] = currentTerm[v] /\ votedFor'[v] = votedFor[v]
                        \/ currentTerm'[v] > currentTerm[v],
         \A n \in Node : role'[n] = Leader => Cardinality(votes'[n]) >= Quorum
  PROVE  VotesAreBinding'
<1>1. \A v \in Node : currentTerm[v] \in Nat /\ currentTerm'[v] \in Nat
  BY DEF NodeTypeOK
<1>2. ASSUME NEW x \in Claims'
      PROVE  /\ x.term <= currentTerm'[x.voter]
             /\ x.term = currentTerm'[x.voter] => votedFor'[x.voter] = x.candidate
  <2>1. /\ x.term <= currentTerm[x.voter]
        /\ x.term = currentTerm[x.voter] => votedFor[x.voter] = x.candidate
    BY DEF VotesAreBinding
  <2>2. x.voter \in Node /\ x.term \in Nat
    BY ClaimTypes
  <2> QED BY <1>1, <2>1, <2>2
<1>3. \A x, y \in Claims' :
        x.voter = y.voter /\ x.term = y.term => x.candidate = y.candidate
  BY DEF VotesAreBinding
<1>4. \A n \in Node : role'[n] = Leader => Cardinality(votes'[n]) >= Quorum'
  BY DEF Quorum
<1> QED BY <1>2, <1>3, <1>4 DEF VotesAreBinding

(* Steps that touch neither terms, votes nor roles and send no vote.       *)
LEMMA BindingUntouched ==
  ASSUME NodeTypeOK, NodeTypeOK', VotesAreBinding,
         UNCHANGED <<currentTerm, votedFor, role, votes>>,
         NEW read, NEW sent, NoGrant(sent), Exchange(read, sent) \/ UNCHANGED msgs
  PROVE  VotesAreBinding'
<1>1. Granted' \subseteq Granted
  <2>1. CASE Exchange(read, sent)
    BY <2>1, GrantedShrinks
  <2>2. CASE UNCHANGED msgs
    BY <2>2 DEF Granted, InFlight
  <2> QED BY <2>1, <2>2
<1>2. Counted' = Counted
  BY DEF Counted
<1>3. Claims' \subseteq Claims
  BY <1>1, <1>2 DEF Claims
<1>4. \A n \in Node : role'[n] = Leader => Cardinality(votes'[n]) >= Quorum
  BY DEF VotesAreBinding
<1> QED BY <1>3, <1>4, BindingPreserved

(* A node that hears of a later term or of its leader gives up its office   *)
(* and keeps its vote unless the term is new.                              *)
LEMMA BindingOnFollowing ==
  ASSUME NodeTypeOK, NodeTypeOK', VotesAreBinding, UNCHANGED votes,
         NEW n \in Node, NEW t \in Nat, NEW l,
         \/ StepDown(n, t) /\ t > currentTerm[n]
         \/ FollowLeader(n, t, l) /\ t >= currentTerm[n]
         \/ UNCHANGED <<currentTerm, votedFor, role, leaderID>>,
         NEW read, NEW sent, NoGrant(sent), Exchange(read, sent)
  PROVE  VotesAreBinding'
<1>1. CASE UNCHANGED <<currentTerm, votedFor, role, leaderID>>
  BY <1>1, BindingUntouched
<1>2. CASE \/ StepDown(n, t) /\ t > currentTerm[n]
           \/ FollowLeader(n, t, l) /\ t >= currentTerm[n]
  <2>1. /\ role' = [role EXCEPT ![n] = Follower]
        /\ currentTerm' = [currentTerm EXCEPT ![n] = t]
    BY <1>2 DEF StepDown, FollowLeader
  <2>2. \/ currentTerm'[n] = currentTerm[n] /\ votedFor'[n] = votedFor[n]
        \/ currentTerm'[n] > currentTerm[n]
    BY <1>2, <2>1 DEF StepDown, FollowLeader, NodeTypeOK
  <2>3. \A v \in Node \ {n} : currentTerm'[v] = currentTerm[v] /\ votedFor'[v] = votedFor[v]
    BY <1>2 DEF StepDown, FollowLeader, NodeTypeOK
  <2>4. \A c \in Node : \/ role'[c] = Follower
                       \/ /\ role'[c] = role[c]
                          /\ currentTerm'[c] = currentTerm[c]
                          /\ votes'[c] = votes[c]
    BY <2>1 DEF NodeTypeOK
  <2>5. Counted' \subseteq Counted
    BY <2>4, CountedShrinks
  <2>6. Claims' \subseteq Claims
    BY <2>5, GrantedShrinks DEF Claims
  <2>7. \A c \in Node : role'[c] = Leader => Cardinality(votes'[c]) >= Quorum
    BY <2>4 DEF VotesAreBinding, Follower, Leader
  <2> QED BY <2>2, <2>3, <2>6, <2>7, BindingPreserved
<1> QED BY <1>1, <1>2

(* A vote given in the current or a later term agrees with every vote the   *)
(* node has given in that term, the only evidence there is of it.          *)
LEMMA BindingWithVote ==
  ASSUME NodeTypeOK, NodeTypeOK', VotesAreBinding,
         NEW n \in Node, NEW t \in Nat, NEW c \in Node, NEW given,
         given = [voter |-> n, term |-> t, candidate |-> c],
         Claims' \subseteq Claims \cup {given},
         currentTerm'[n] = t, votedFor'[n] = c,
         \/ t > currentTerm[n]
         \/ t = currentTerm[n] /\ votedFor[n] \in {NoNode, c},
         \A v \in Node \ {n} : currentTerm'[v] = currentTerm[v] /\ votedFor'[v] = votedFor[v],
         \A v \in Node : role'[v] = Leader => Cardinality(votes'[v]) >= Quorum
  PROVE  VotesAreBinding'
<1>1. given.voter = n /\ given.term = t /\ given.candidate = c
  OBVIOUS
<1>2. currentTerm[n] \in Nat /\ NoNode \notin Node
  BY NodeAssumption DEF NodeTypeOK
<1>3. ASSUME NEW x \in Claims
      PROVE  /\ x.voter \in Node /\ x.candidate \in Node /\ x.term \in Nat
             /\ currentTerm[x.voter] \in Nat
             /\ x.term <= currentTerm[x.voter]
             /\ x.term = currentTerm[x.voter] => votedFor[x.voter] = x.candidate
  <2>1. x.voter \in Node /\ x.candidate \in Node /\ x.term \in Nat
    BY ClaimTypes
  <2>2. currentTerm[x.voter] \in Nat
    BY <2>1 DEF NodeTypeOK
  <2> QED BY <2>1, <2>2 DEF VotesAreBinding
<1>4. ASSUME NEW x \in Claims, x.voter = n
      PROVE  x.term <= t /\ (x.term = t => x.candidate = c)
  <2>1. /\ x.candidate \in Node /\ x.term \in Nat
        /\ x.term <= currentTerm[n]
        /\ x.term = currentTerm[n] => votedFor[n] = x.candidate
    BY <1>3, <1>4
  <2>2. CASE t > currentTerm[n]
    BY <1>2, <2>1, <2>2
  <2>3. CASE t = currentTerm[n] /\ votedFor[n] \in {NoNode, c}
    BY <1>2, <2>1, <2>3
  <2> QED BY <2>2, <2>3
<1>5. ASSUME NEW x \in Claims'
      PROVE  /\ x.term <= currentTerm'[x.voter]
             /\ x.term = currentTerm'[x.voter] => votedFor'[x.voter] = x.candidate
  <2>1. CASE x = given
    BY <1>1, <2>1
  <2>2. CASE x \in Claims /\ x.voter = n
    BY <1>4, <2>2
  <2>3. CASE x \in Claims /\ x.voter # n
    <3>1. x.voter \in Node \ {n}
      BY <1>3, <2>3
    <3>2. /\ currentTerm'[x.voter] = currentTerm[x.voter]
          /\ votedFor'[x.voter] = votedFor[x.voter]
      BY <3>1
    <3>3. /\ x.term <= currentTerm[x.voter]
          /\ x.term = currentTerm[x.voter] => votedFor[x.voter] = x.candidate
      BY <1>3, <2>3
    <3> QED BY <3>2, <3>3
  <2> QED BY <2>1, <2>2, <2>3
<1>6. ASSUME NEW x \in Claims', NEW y \in Claims', x.voter = y.voter, x.term = y.term
      PROVE  x.candidate = y.candidate
  <2>1. CASE x \in Claims /\ y \in Claims
    BY <1>6, <2>1 DEF VotesAreBinding
  <2>2. CASE x = given
    <3>1. CASE y = given
      BY <2>2, <3>1
    <3>2. CASE y \in Claims
      BY <1>1, <1>4, <1>6, <2>2, <3>2
    <3> QED BY <3>1, <3>2
  <2>3. CASE y = given /\ x \in Claims
    BY <1>1, <1>4, <1>6, <2>3
  <2> QED BY <2>1, <2>2, <2>3
<1>7. \A v \in Node : role'[v] = Leader => Cardinality(votes'[v]) >= Quorum'
  BY DEF Quorum
<1> QED BY <1>5, <1>6, <1>7 DEF VotesAreBinding

(* A new election touches only the candidate.                              *)
LEMMA CampaignFields ==
  ASSUME NodeTypeOK, NEW n \in Node, NEW read, NEW reached, StartElection(n, read, reached)
  PROVE  /\ \A c \in Node :
              /\ currentTerm[c] \in Nat
              /\ currentTerm'[c] = IF c = n THEN currentTerm[n] + 1 ELSE currentTerm[c]
              /\ votedFor'[c] = IF c = n THEN n ELSE votedFor[c]
              /\ votes'[c] = IF c = n THEN {n} ELSE votes[c]
         /\ \A c \in Node \ {n} : role'[c] = role[c]
<1>1. \A c \in Node : /\ currentTerm[c] \in Nat
                      /\ currentTerm'[c] = IF c = n THEN currentTerm[n] + 1 ELSE currentTerm[c]
                      /\ votedFor'[c] = IF c = n THEN n ELSE votedFor[c]
                      /\ votes'[c] = IF c = n THEN {n} ELSE votes[c]
  BY DEF StartElection, NodeTypeOK
<1>2. \A c \in Node \ {n} : role'[c] = role[c]
  <2>1. \/ role' = [role EXCEPT ![n] = Leader]
        \/ role' = [role EXCEPT ![n] = Candidate]
    BY DEF StartElection
  <2> QED BY <2>1 DEF NodeTypeOK
<1> QED BY <1>1, <1>2

(* Its own vote is the only new evidence.                                  *)
LEMMA EvidenceOfCampaign ==
  ASSUME NodeTypeOK, NodeTypeOK', NEW n \in Node, NEW read, NEW reached, StartElection(n, read, reached)
  PROVE  Claims' \subseteq
           Claims \cup {[voter |-> n, term |-> currentTerm[n] + 1, candidate |-> n]}
<1> DEFINE t == currentTerm[n] + 1
           own == [voter |-> n, term |-> t, candidate |-> n]
<1>1. /\ \A c \in Node : /\ currentTerm[c] \in Nat
                         /\ currentTerm'[c] = IF c = n THEN t ELSE currentTerm[c]
                         /\ votes'[c] = IF c = n THEN {n} ELSE votes[c]
      /\ \A c \in Node \ {n} : role'[c] = role[c]
  BY CampaignFields
<1>3. Granted' \subseteq Granted
  <2>1. NoGrant({}) /\ NoGrant(Solicit(n, reached, t, FALSE))
    BY DEF NoGrant, Solicit
  <2>2. Exchange(read, {}) \/ Exchange(read, Solicit(n, reached, t, FALSE))
    BY DEF StartElection
  <2> QED BY <2>1, <2>2, GrantedShrinks
<1>4. Counted' \subseteq Counted \cup {own}
  <2> SUFFICES ASSUME NEW x \in Counted' PROVE x \in Counted \cup {own}
    OBVIOUS
  <2>1. PICK c \in Node, v \in Node :
          /\ role'[c] # Follower /\ v \in votes'[c]
          /\ x = [voter |-> v, term |-> currentTerm'[c], candidate |-> c]
    BY DEF Counted, NodeTypeOK
  <2>2. CASE c = n
    <3>1. v = n /\ currentTerm'[c] = t
      BY <1>1, <2>1, <2>2
    <3> QED BY <2>1, <2>2, <3>1
  <2>3. CASE c # n
    <3>1. v \in votes[c] /\ currentTerm'[c] = currentTerm[c] /\ role[c] # Follower
      BY <1>1, <2>1, <2>3
    <3> QED BY <2>1, <3>1 DEF Counted
  <2> QED BY <2>2, <2>3
<1>5. Claims' \subseteq Claims \cup {own}
  BY <1>3, <1>4 DEF Claims
<1> QED BY <1>5

(* A new election: the candidate's own vote is the first of its new term.  *)
LEMMA BindingOnElection ==
  ASSUME NodeTypeOK, NodeTypeOK', VotesAreBinding,
         NEW n \in Node, NEW read, NEW reached, StartElection(n, read, reached)
  PROVE  VotesAreBinding'
<1> DEFINE t == currentTerm[n] + 1
           own == [voter |-> n, term |-> t, candidate |-> n]
<1>1. \A c \in Node : /\ currentTerm[c] \in Nat
                      /\ currentTerm'[c] = IF c = n THEN t ELSE currentTerm[c]
                      /\ votedFor'[c] = IF c = n THEN n ELSE votedFor[c]
                      /\ votes'[c] = IF c = n THEN {n} ELSE votes[c]
  BY CampaignFields
<1>2. \A c \in Node \ {n} : role'[c] = role[c]
  BY CampaignFields
<1>5. Claims' \subseteq Claims \cup {own}
  BY EvidenceOfCampaign
<1>6. ASSUME NEW c \in Node, role'[c] = Leader
      PROVE  Cardinality(votes'[c]) >= Quorum
  <2>1. CASE c # n
    BY <1>1, <1>2, <1>6, <2>1 DEF VotesAreBinding
  <2>2. CASE c = n
    <3>1. Quorum <= 1
      <4>1. Quorum <= 1 \/ role' = [role EXCEPT ![n] = Candidate]
        BY DEF StartElection
      <4> QED BY <1>6, <2>2, <4>1 DEF NodeTypeOK, Candidate, Leader
    <3>2. votes'[n] = {n} /\ Cardinality({n}) = 1
      BY <1>1, FS_Singleton
    <3>3. Quorum \in Nat
      BY NodeAssumption, FS_CardinalityType DEF Quorum
    <3> QED BY <2>2, <3>1, <3>2, <3>3
  <2> QED BY <2>1, <2>2
<1>7. /\ t \in Nat /\ t > currentTerm[n] /\ currentTerm'[n] = t /\ votedFor'[n] = n
      /\ \A v \in Node \ {n} : currentTerm'[v] = currentTerm[v] /\ votedFor'[v] = votedFor[v]
  BY <1>1
<1>8. own = [voter |-> n, term |-> t, candidate |-> n]
  OBVIOUS
<1> HIDE DEF t, own
<1> QED BY <1>5, <1>6, <1>7, <1>8, BindingWithVote

(* A real vote request touches only the voter.                             *)
LEMMA VoteFields ==
  ASSUME NodeTypeOK, NEW m \in VoteRequest, HandleVote(m)
  PROVE  /\ \A c \in Node \ {m.dst} :
              currentTerm'[c] = currentTerm[c] /\ votedFor'[c] = votedFor[c] /\ role'[c] = role[c]
         /\ currentTerm'[m.dst] = Larger(currentTerm[m.dst], m.term)
         /\ role'[m.dst] = IF m.term > currentTerm[m.dst] THEN Follower ELSE role[m.dst]
         /\ votedFor'[m.dst] =
              IF Grants(m.dst, m) THEN m.src
              ELSE IF m.term > currentTerm[m.dst] THEN NoNode ELSE votedFor[m.dst]
<1> DEFINE n == m.dst
           t == Larger(currentTerm[n], m.term)
           grant == Grants(n, m)
<1>1. /\ n \in Node /\ m.src \in Node /\ m.term \in Nat /\ currentTerm[n] \in Nat
  BY DEF VoteRequest, NodeTypeOK
<1>2. /\ t \in Nat /\ t >= currentTerm[n] /\ t >= m.term
      /\ m.term >= currentTerm[n] => t = m.term
      /\ m.term <= currentTerm[n] => t = currentTerm[n]
  BY <1>1 DEF Larger
<1>3. /\ currentTerm' = [currentTerm EXCEPT ![n] = t]
      /\ role' = [role EXCEPT ![n] = IF m.term > currentTerm[n] THEN Follower ELSE role[n]]
      /\ votedFor' = [votedFor EXCEPT ![n] =
           IF grant THEN m.src ELSE IF m.term > currentTerm[n] THEN NoNode ELSE votedFor[n]]
      /\ Exchange({m}, {VoteReplyTo(m, t, grant)})
      /\ UNCHANGED votes
  BY DEF HandleVote, ballotVars
<1> HIDE DEF t, grant
<1>6. /\ \A c \in Node \ {n} : /\ currentTerm'[c] = currentTerm[c]
                               /\ votedFor'[c] = votedFor[c] /\ role'[c] = role[c]
      /\ currentTerm'[n] = t
      /\ role'[n] = IF m.term > currentTerm[n] THEN Follower ELSE role[n]
      /\ votedFor'[n] =
           IF grant THEN m.src ELSE IF m.term > currentTerm[n] THEN NoNode ELSE votedFor[n]
  <2>1. /\ currentTerm \in [Node -> Nat] /\ votedFor \in [Node -> Node \cup {NoNode}]
        /\ role \in [Node -> {Follower, Candidate, Leader}]
    BY DEF NodeTypeOK
  <2> HIDE DEF n
  <2>2. ASSUME NEW c \in Node \ {n}
        PROVE  currentTerm'[c] = currentTerm[c] /\ votedFor'[c] = votedFor[c] /\ role'[c] = role[c]
    BY <1>3, <2>1
  <2>3. currentTerm'[n] = t
    BY <1>1, <1>3, <2>1
  <2>4. role'[n] = IF m.term > currentTerm[n] THEN Follower ELSE role[n]
    BY <1>1, <1>3, <2>1
  <2>5. votedFor'[n] =
          IF grant THEN m.src ELSE IF m.term > currentTerm[n] THEN NoNode ELSE votedFor[n]
    BY <1>1, <1>3, <2>1
  <2> QED BY <2>2, <2>3, <2>4, <2>5
<1> QED BY <1>6 DEF n, t, grant

(* The vote it grants is the only new evidence.                            *)
LEMMA EvidenceOfVote ==
  ASSUME NodeTypeOK, NEW m \in VoteRequest, HandleVote(m)
  PROVE  Claims' \subseteq
           Claims \cup (IF Grants(m.dst, m)
                       THEN {[voter |-> m.dst, term |-> m.term, candidate |-> m.src]} ELSE {})
<1> DEFINE n == m.dst
           t == Larger(currentTerm[n], m.term)
           grant == Grants(n, m)
           given == [voter |-> n, term |-> m.term, candidate |-> m.src]
<1>1. /\ n \in Node /\ m.src \in Node /\ m.term \in Nat /\ currentTerm[n] \in Nat
  BY DEF VoteRequest, NodeTypeOK
<1>2. /\ t \in Nat /\ t >= currentTerm[n] /\ t >= m.term
      /\ m.term >= currentTerm[n] => t = m.term
      /\ m.term <= currentTerm[n] => t = currentTerm[n]
  BY <1>1 DEF Larger
<1>3. /\ currentTerm' = [currentTerm EXCEPT ![n] = t]
      /\ role' = [role EXCEPT ![n] = IF m.term > currentTerm[n] THEN Follower ELSE role[n]]
      /\ votedFor' = [votedFor EXCEPT ![n] =
           IF grant THEN m.src ELSE IF m.term > currentTerm[n] THEN NoNode ELSE votedFor[n]]
      /\ Exchange({m}, {VoteReplyTo(m, t, grant)})
      /\ UNCHANGED votes
  BY DEF HandleVote, ballotVars
<1>4. given.voter = n /\ given.term = m.term /\ given.candidate = m.src
  OBVIOUS
<1>5. /\ VoteReplyTo(m, t, grant).src = n /\ VoteReplyTo(m, t, grant).election = m.term
      /\ VoteReplyTo(m, t, grant).dst = m.src /\ VoteReplyTo(m, t, grant).granted = grant
  BY DEF VoteReplyTo
<1> HIDE DEF t, grant
<1>6. /\ \A c \in Node \ {n} : /\ currentTerm'[c] = currentTerm[c]
                               /\ votedFor'[c] = votedFor[c] /\ role'[c] = role[c]
      /\ currentTerm'[n] = t
      /\ role'[n] = IF m.term > currentTerm[n] THEN Follower ELSE role[n]
  BY VoteFields DEF t
<1>7. Granted' \subseteq Granted \cup (IF grant THEN {given} ELSE {})
  <2>1. BagToSet(msgs)' \subseteq BagToSet(msgs) \cup {VoteReplyTo(m, t, grant)}
    BY <1>3, ExchangeMessages DEF NodeTypeOK
  <2>2. ASSUME NEW r \in BagToSet(msgs)', r.granted, r \notin BagToSet(msgs)
        PROVE  grant /\ [voter |-> r.src, term |-> r.election, candidate |-> r.dst] = given
    <3>1. r = VoteReplyTo(m, t, grant)
      BY <2>1, <2>2
    <3> QED BY <1>5, <2>2, <3>1
  <2> HIDE DEF given
  <2> QED BY <2>2 DEF Granted, InFlight
<1>8. Counted' \subseteq Counted
  <2>1. ASSUME NEW c \in Node, role'[c] # Follower
        PROVE  role[c] # Follower /\ currentTerm'[c] = currentTerm[c] /\ votes'[c] = votes[c]
    <3>1. CASE c = n
      BY <1>1, <1>2, <1>3, <1>6, <2>1, <3>1
    <3>2. CASE c # n
      BY <1>3, <1>6, <2>1, <3>2
    <3> QED BY <3>1, <3>2
  <2> QED BY <2>1, CountedShrinks
<1> QED BY <1>7, <1>8 DEF Claims, grant

(* A granted vote is the first of its term or repeats the one given in it. *)
LEMMA BindingOnVote ==
  ASSUME NodeTypeOK, NodeTypeOK', VotesAreBinding, NEW m \in VoteRequest, HandleVote(m)
  PROVE  VotesAreBinding'
<1> DEFINE n == m.dst
           t == Larger(currentTerm[n], m.term)
           grant == Grants(n, m)
           given == [voter |-> n, term |-> m.term, candidate |-> m.src]
<1>1. /\ n \in Node /\ m.src \in Node /\ m.term \in Nat /\ currentTerm[n] \in Nat
  BY DEF VoteRequest, NodeTypeOK
<1>2. /\ t \in Nat /\ t >= currentTerm[n] /\ t >= m.term
      /\ m.term >= currentTerm[n] => t = m.term
      /\ m.term <= currentTerm[n] => t = currentTerm[n]
  BY <1>1 DEF Larger
<1>3. UNCHANGED votes
  BY DEF HandleVote, ballotVars
<1>6. /\ \A c \in Node \ {n} : /\ currentTerm'[c] = currentTerm[c]
                               /\ votedFor'[c] = votedFor[c] /\ role'[c] = role[c]
      /\ currentTerm'[n] = t
      /\ role'[n] = IF m.term > currentTerm[n] THEN Follower ELSE role[n]
      /\ votedFor'[n] =
           IF grant THEN m.src ELSE IF m.term > currentTerm[n] THEN NoNode ELSE votedFor[n]
  BY VoteFields
<1>7. Claims' \subseteq Claims \cup (IF grant THEN {given} ELSE {})
  BY EvidenceOfVote
<1> HIDE DEF t, grant
<1>9. \A c \in Node : role'[c] = Leader => Cardinality(votes'[c]) >= Quorum
  <2>1. \A c \in Node : role'[c] = Leader => role[c] = Leader
    BY <1>1, <1>6 DEF Follower, Leader
  <2> QED BY <1>3, <2>1 DEF VotesAreBinding
<1>10. CASE ~grant
  <2>1. \/ currentTerm'[n] = currentTerm[n] /\ votedFor'[n] = votedFor[n]
        \/ currentTerm'[n] > currentTerm[n]
    BY <1>1, <1>2, <1>6, <1>10
  <2>2. Claims' \subseteq Claims
    BY <1>7, <1>10
  <2> QED BY <1>6, <1>9, <2>1, <2>2, BindingPreserved
<1>11. CASE grant
  <2>1. Claims' \subseteq Claims \cup {given}
    BY <1>7, <1>11
  <2>2. m.term >= currentTerm[n] /\ MayVote(n, m)
    BY <1>11 DEF grant, Grants
  <2>3. /\ currentTerm'[n] = m.term /\ votedFor'[n] = m.src
        /\ \/ m.term > currentTerm[n]
           \/ m.term = currentTerm[n] /\ votedFor[n] \in {NoNode, m.src}
    BY <1>1, <1>2, <1>6, <1>11, <2>2 DEF MayVote
  <2>4. given = [voter |-> n, term |-> m.term, candidate |-> m.src]
    OBVIOUS
  <2> HIDE DEF given, n
  <2> QED BY <1>1, <1>6, <1>9, <2>1, <2>3, <2>4, BindingWithVote
<1> QED BY <1>10, <1>11

(* Counting a vote moves evidence from the wire to the candidate, and       *)
(* touches only the candidate.                                             *)
LEMMA EvidenceOfCount ==
  ASSUME NodeTypeOK, NodeTypeOK', NEW m \in VoteReply, ~m.pre, m \in InFlight("VoteReply"),
         NEW n, n = m.dst, NEW counted, counted = votes[n] \cup {m.src},
         StillCampaigning(n, m), votes' = [votes EXCEPT ![n] = counted],
         IF Cardinality(counted) >= Quorum
         THEN BecomeLeader(n, m)
         ELSE Exchange({m}, {}) /\ UNCHANGED <<electionVars, leaderVars>>
  PROVE  /\ currentTerm' = currentTerm /\ votedFor' = votedFor
         /\ \A c \in Node \ {n} : role'[c] = role[c]
         /\ role'[n] = Leader => Cardinality(counted) >= Quorum
         /\ role[n] = Candidate
         /\ Claims' \subseteq Claims
<1>a. n \in Node /\ m.src \in Node /\ m.term \in Nat
  BY DEF VoteReply
<1>b. NoGrant({})
  BY DEF NoGrant
<1>1. /\ currentTerm' = currentTerm /\ votedFor' = votedFor
      /\ \A c \in Node \ {n} : role'[c] = role[c]
      /\ role'[n] = Leader => Cardinality(counted) >= Quorum
      /\ role[n] = Candidate
  <2>1. role[n] = Candidate
    BY DEF StillCampaigning
  <2>2. CASE Cardinality(counted) >= Quorum
    <3>1. /\ role' = [role EXCEPT ![n] = Leader]
          /\ UNCHANGED <<currentTerm, votedFor>>
      BY <2>2 DEF BecomeLeader
    <3>2. \A c \in Node \ {n} : role'[c] = role[c]
      BY <3>1 DEF NodeTypeOK
    <3> QED BY <2>1, <2>2, <3>1, <3>2
  <2>3. CASE ~(Cardinality(counted) >= Quorum)
    BY <2>1, <2>3 DEF electionVars, Candidate, Leader
  <2> QED BY <2>2, <2>3, <2>1
<1>2. Granted' \subseteq Granted
  <2>1. CASE Exchange({m}, {})
    BY <1>b, <2>1, GrantedShrinks
  <2>2. CASE BecomeLeader(n, m)
    <3>1. PICK reached : Exchange({m}, BroadcastRpcs(n, reached, log[n], commitIndex[n], FreshNext(n)))
      BY <2>2 DEF BecomeLeader
    <3>2. NoGrant(BroadcastRpcs(n, reached, log[n], commitIndex[n], FreshNext(n)))
      BY DEF NoGrant, BroadcastRpcs, SnapshotRpc, AppendRpc
    <3> QED BY <3>1, <3>2, GrantedShrinks
  <2> QED BY <2>1, <2>2
<1>3. [voter |-> m.src, term |-> currentTerm[n], candidate |-> n] \in Granted
  BY DEF StillCampaigning, Granted, InFlight
<1>4. Counted' \subseteq Claims
  <2> SUFFICES ASSUME NEW x \in Counted' PROVE x \in Claims
    OBVIOUS
  <2>1. PICK c \in Node, v \in Node :
          /\ role'[c] # Follower /\ v \in votes'[c]
          /\ x = [voter |-> v, term |-> currentTerm'[c], candidate |-> c]
    BY DEF Counted, NodeTypeOK
  <2>2. CASE c = n /\ v = m.src
    BY <1>1, <1>3, <2>1, <2>2 DEF Claims
  <2>3. CASE ~(c = n /\ v = m.src)
    <3>1. v \in votes[c]
      BY <1>a, <2>1, <2>3 DEF NodeTypeOK
    <3>2. role[c] # Follower
      BY <1>1, <2>1 DEF Follower, Candidate
    <3> QED BY <1>1, <2>1, <3>1, <3>2 DEF Claims, Counted
  <2> QED BY <2>2, <2>3
<1>5. Claims' \subseteq Claims
  BY <1>2, <1>4 DEF Claims
<1> QED BY <1>1, <1>5

(* Counting a vote keeps the evidence, and a leader has counted a quorum.   *)
LEMMA BindingOnCount ==
  ASSUME NodeTypeOK, NodeTypeOK', VotesAreBinding, NEW m \in VoteReply, ~m.pre,
         m \in InFlight("VoteReply"), ReceiveVote(m)
  PROVE  VotesAreBinding'
<1> DEFINE n == m.dst
           counted == votes[n] \cup {m.src}
<1>1. n \in Node /\ m.src \in Node /\ m.term \in Nat
  BY DEF VoteReply
<1>2. NoGrant({})
  BY DEF NoGrant
<1>3. CASE m.term > currentTerm[n] /\ StepDown(n, m.term) /\ Exchange({m}, {}) /\ UNCHANGED votes
  BY <1>1, <1>2, <1>3, BindingOnFollowing
<1>4. CASE Exchange({m}, {}) /\ UNCHANGED <<electionVars, votes>>
  BY <1>2, <1>4, BindingUntouched DEF electionVars
<1>5. CASE /\ StillCampaigning(n, m)
           /\ votes' = [votes EXCEPT ![n] = counted]
           /\ IF Cardinality(counted) >= Quorum
              THEN BecomeLeader(n, m)
              ELSE Exchange({m}, {}) /\ UNCHANGED <<electionVars, leaderVars>>
  <2>1. /\ currentTerm' = currentTerm /\ votedFor' = votedFor
        /\ \A c \in Node \ {n} : role'[c] = role[c]
        /\ role'[n] = Leader => Cardinality(counted) >= Quorum
        /\ Claims' \subseteq Claims
    BY <1>5, EvidenceOfCount
  <2>2. \A c \in Node : role'[c] = Leader => Cardinality(votes'[c]) >= Quorum
    <3>1. votes'[n] = counted /\ \A c \in Node \ {n} : votes'[c] = votes[c]
      BY <1>1, <1>5 DEF NodeTypeOK
    <3> QED BY <2>1, <3>1 DEF VotesAreBinding
  <2> QED BY <2>1, <2>2, BindingPreserved
<1> QED BY <1>3, <1>4, <1>5 DEF ReceiveVote

(* The steps of elections keep the evidence of votes binding.              *)
LEMMA BindingElectionStep ==
  ASSUME NodeTypeOK, NodeTypeOK', VotesAreBinding, ElectionNext
  PROVE  VotesAreBinding'
<1>0. \A n \in Node : \A reached, t :
       NoGrant(Solicit(n, reached, t, TRUE)) /\ NoGrant({})
  BY DEF NoGrant, Solicit
<1>1. ASSUME NEW n \in Node, ElectionTimeout(n)
      PROVE  VotesAreBinding'
  <2>1. PICK reached \in SUBSET Peers(n) :
          Exchange(OwnPreVotes(n), Solicit(n, reached, currentTerm[n] + 1, TRUE))
    BY <1>1 DEF ElectionTimeout
  <2>2. UNCHANGED <<currentTerm, votedFor, role, votes>>
    BY <1>1 DEF ElectionTimeout, electionVars
  <2> QED BY <1>0, <2>1, <2>2, BindingUntouched
<1>2. ASSUME NEW n \in Node, ElectionTimeoutUnopposed(n)
      PROVE  VotesAreBinding'
  BY <1>2, BindingOnElection DEF ElectionTimeoutUnopposed
<1>3. ASSUME NEW n \in Node, PreVoteWon(n)
      PROVE  VotesAreBinding'
  BY <1>3, BindingOnElection DEF PreVoteWon
<1>4. ASSUME NEW n \in Node, PreVoteEnds(n)
      PROVE  VotesAreBinding'
  <2>1. UNCHANGED <<currentTerm, votedFor, role, votes>> /\ UNCHANGED msgs
    BY <1>4 DEF PreVoteEnds, electionVars
  <2>2. NoGrant({})
    BY DEF NoGrant
  <2> QED BY <2>1, <2>2, BindingUntouched
<1>5. ASSUME NEW m \in InFlight("VoteRequest"), HandleRequestVote(m)
      PROVE  VotesAreBinding'
  <2>1. m \in VoteRequest
    BY DEF NodeTypeOK, InFlight, Message, VoteReply, AppendRequest, AppendReply,
           SnapshotRequest, SnapshotReply
  <2>2. CASE m.pre /\ HandlePreVote(m)
    <3>1. PICK granted : Exchange({m}, {VoteReplyTo(m, currentTerm[m.dst], granted)})
      BY <2>2 DEF HandlePreVote, AnswerPreVote
    <3>2. NoGrant({VoteReplyTo(m, currentTerm[m.dst], granted)})
      BY <2>2 DEF NoGrant, VoteReplyTo
    <3>3. UNCHANGED <<currentTerm, votedFor, role, votes>>
      BY <2>2 DEF HandlePreVote, AnswerPreVote, electionVars, ballotVars
    <3> QED BY <3>1, <3>2, <3>3, BindingUntouched
  <2>3. CASE ~m.pre /\ HandleVote(m)
    BY <2>1, <2>3, BindingOnVote
  <2> QED BY <1>5, <2>2, <2>3 DEF HandleRequestVote
<1>6. ASSUME NEW m \in InFlight("VoteReply"), HandleVoteReply(m)
      PROVE  VotesAreBinding'
  <2>1. m \in VoteReply
    BY DEF NodeTypeOK, InFlight, Message, VoteRequest, AppendRequest, AppendReply,
           SnapshotRequest, SnapshotReply
  <2>2. CASE ReceivePreVote(m)
    <3>1. m.dst \in Node /\ m.term \in Nat /\ NoGrant({})
      BY <2>1 DEF VoteReply, NoGrant
    <3>2. /\ UNCHANGED votes /\ Exchange({m}, {})
          /\ \/ StepDown(m.dst, m.term) /\ m.term > currentTerm[m.dst]
             \/ UNCHANGED <<currentTerm, votedFor, role, leaderID>>
      BY <2>2 DEF ReceivePreVote, electionVars
    <3> QED BY <3>1, <3>2, BindingOnFollowing
  <2>3. CASE ~m.pre /\ ReceiveVote(m)
    BY <2>1, <2>3, BindingOnCount
  <2> QED BY <1>6, <2>2, <2>3 DEF HandleVoteReply
<1> QED BY <1>1, <1>2, <1>3, <1>4, <1>5, <1>6 DEF ElectionNext

(* Replication sends no vote, and a node's office and vote change only as   *)
(* it hears of a later term or of its leader.                              *)
LEMMA BindingReplicationStep ==
  ASSUME NodeTypeOK, NodeTypeOK', VotesAreBinding, ReplicationNext
  PROVE  VotesAreBinding'
<1> USE DEF electionVars, ballotVars, replicationFrame
<1>0. /\ NoGrant({})
      /\ \A n, reached, lg, commit, nexts : NoGrant(BroadcastRpcs(n, reached, lg, commit, nexts))
      /\ \A m, t, s, k : NoGrant({AppendReplyTo(m, t, s, k)})
      /\ \A m : NoGrant({SnapshotReplyTo(m)})
  BY DEF NoGrant, BroadcastRpcs, AppendRpc, SnapshotRpc, AppendReplyTo, SnapshotReplyTo
<1>1. ASSUME UNCHANGED <<currentTerm, votedFor, role, votes>>,
             \/ UNCHANGED msgs
             \/ \E read, sent : NoGrant(sent) /\ Exchange(read, sent)
      PROVE  VotesAreBinding'
  BY <1>0, <1>1, BindingUntouched
<1>2. ASSUME NEW n \in Node, Heartbeat(n)
      PROVE  VotesAreBinding'
  BY <1>0, <1>1, <1>2 DEF Heartbeat
<1>3. ASSUME NEW n \in Node, NEW data \in Payload, Propose(n, data)
      PROVE  VotesAreBinding'
  BY <1>0, <1>1, <1>3 DEF Propose
<1>4. ASSUME NEW p \in proposals, ProposeReturns(p) \/ ProposeFails(p)
      PROVE  VotesAreBinding'
  BY <1>1, <1>4 DEF ProposeReturns, ProposeFails
<1>5. ASSUME NEW m \in InFlight("AppendRequest"), HandleAppendEntries(m)
      PROVE  VotesAreBinding'
  <2>1. m.dst \in Node /\ m.term \in Nat
    BY DEF NodeTypeOK, InFlight, Message, VoteRequest, VoteReply, AppendRequest, AppendReply,
           SnapshotRequest, SnapshotReply
  <2>2. CASE RejectStaleAppend(m)
    BY <1>0, <1>1, <2>2 DEF RejectStaleAppend
  <2>3. ASSUME AppendCompacted(m) \/ HandleCurrentAppend(m)
        PROVE  VotesAreBinding'
    <3>1. m.term >= currentTerm[m.dst] /\ FollowLeader(m.dst, m.term, m.src) /\ UNCHANGED votes
      BY <2>3 DEF AppendCompacted, HandleCurrentAppend
    <3>2. PICK sent : NoGrant(sent) /\ Exchange({m}, sent)
      BY <1>0, <2>3 DEF AppendCompacted, HandleCurrentAppend
    <3> QED BY <2>1, <3>1, <3>2, BindingOnFollowing
  <2> QED BY <1>5, <2>2, <2>3 DEF HandleAppendEntries
<1>6. ASSUME NEW m \in BagToSet(msgs), m.dst \in Node, m.term \in Nat, ReplyIgnored(m)
      PROVE  VotesAreBinding'
  <2>1. /\ UNCHANGED votes /\ Exchange({m}, {})
        /\ \/ StepDown(m.dst, m.term) /\ m.term > currentTerm[m.dst]
           \/ UNCHANGED <<currentTerm, votedFor, role, leaderID>>
    BY <1>6 DEF ReplyIgnored
  <2> QED BY <1>0, <1>6, <2>1, BindingOnFollowing
<1>7. ASSUME NEW m \in InFlight("AppendReply"), HandleAppendReply(m)
      PROVE  VotesAreBinding'
  <2>1. m \in BagToSet(msgs) /\ m.dst \in Node /\ m.term \in Nat
    BY DEF NodeTypeOK, InFlight, Message, VoteRequest, VoteReply, AppendRequest, AppendReply,
           SnapshotRequest, SnapshotReply
  <2>2. CASE AppendSucceeded(m)
    BY <1>0, <1>1, <2>2 DEF AppendSucceeded, AdvanceCommit
  <2>3. CASE AppendRefused(m)
    BY <1>0, <1>1, <2>3 DEF AppendRefused
  <2> QED BY <1>6, <1>7, <2>1, <2>2, <2>3 DEF HandleAppendReply
<1>8. ASSUME NEW m \in InFlight("SnapshotRequest"), HandleInstallSnapshot(m)
      PROVE  VotesAreBinding'
  <2>1. m.dst \in Node /\ m.term \in Nat /\ currentTerm[m.dst] \in Nat
    BY DEF NodeTypeOK, InFlight, Message, VoteRequest, VoteReply, AppendRequest, AppendReply,
           SnapshotRequest, SnapshotReply
  <2>2. /\ UNCHANGED votes /\ Exchange({m}, {SnapshotReplyTo(m)})
        /\ \/ FollowLeader(m.dst, m.term, m.src) /\ m.term >= currentTerm[m.dst]
           \/ UNCHANGED <<currentTerm, votedFor, role, leaderID>>
    BY <1>8, <2>1 DEF HandleInstallSnapshot
  <2> QED BY <1>0, <2>1, <2>2, BindingOnFollowing
<1>9. ASSUME NEW m \in InFlight("SnapshotReply"), HandleSnapshotReply(m)
      PROVE  VotesAreBinding'
  <2>1. m \in BagToSet(msgs) /\ m.dst \in Node /\ m.term \in Nat
    BY DEF NodeTypeOK, InFlight, Message, VoteRequest, VoteReply, AppendRequest, AppendReply,
           SnapshotRequest, SnapshotReply
  <2>2. CASE SnapshotInstalled(m)
    BY <1>0, <1>1, <2>2 DEF SnapshotInstalled
  <2> QED BY <1>6, <1>9, <2>1, <2>2 DEF HandleSnapshotReply
<1>10. ASSUME NEW n \in Node, NEW index \in 1..MaxSnapshot, TakeSnapshot(n, index)
       PROVE  VotesAreBinding'
  BY <1>1, <1>10 DEF TakeSnapshot
<1>11. ASSUME NEW n \in Node, Apply(n)
       PROVE  VotesAreBinding'
  BY <1>1, <1>11 DEF Apply
<1> QED BY <1>2, <1>3, <1>4, <1>5, <1>7, <1>8, <1>9, <1>10, <1>11 DEF ReplicationNext

(* Votes are binding: whatever requests and replies are lost, late or       *)
(* reordered, no node's vote of a term is ever evidence for two candidates, *)
(* in flight or counted (HandleRequestVote, startElection).                *)
THEOREM VotesBind == Spec => []VotesAreBinding
<1>1. Init => VotesAreBinding
  <2> SUFFICES ASSUME Init PROVE VotesAreBinding
    OBVIOUS
  <2>1. BagToSet(msgs) = {}
    BY DEF Init, EmptyBag, SetToBag, BagToSet
  <2>2. Claims = {}
    BY <2>1 DEF Init, Claims, Granted, Counted, InFlight
  <2> QED BY <2>2 DEF Init, VotesAreBinding, Follower, Leader
<1>2. NodeTypeOK /\ NodeTypeOK' /\ VotesAreBinding /\ [Next]_vars => VotesAreBinding'
  <2> SUFFICES ASSUME NodeTypeOK, NodeTypeOK', VotesAreBinding, [Next]_vars
               PROVE  VotesAreBinding'
    OBVIOUS
  <2>0. NoGrant({})
    BY DEF NoGrant
  <2>1. CASE ElectionNext
    BY <2>1, BindingElectionStep
  <2>2. CASE ReplicationNext
    BY <2>2, BindingReplicationStep
  <2>3. ASSUME NEW m \in BagToSet(msgs), LoseRpc(m)
        PROVE  VotesAreBinding'
    BY <2>0, <2>3, BindingUntouched DEF LoseRpc, electionVars, ballotVars
  <2>4. CASE UNCHANGED vars
    BY <2>0, <2>4, BindingUntouched DEF vars, electionVars, ballotVars
  <2> QED BY <2>1, <2>2, <2>3, <2>4 DEF Next
<1> QED BY <1>1, <1>2, TypeCorrectness, PTL DEF Spec

(* Election safety: two nodes are never leader of the same term.  A leader  *)
(* has counted a quorum, two quorums share a voter, and its vote binds.    *)
THEOREM ElectionIsSafe == Spec => []ElectionSafety
<1>1. NodeTypeOK /\ VotesAreBinding => ElectionSafety
  <2> SUFFICES ASSUME NodeTypeOK, VotesAreBinding,
                      NEW a \in Node, NEW b \in Node, role[a] = Leader, role[b] = Leader,
                      currentTerm[a] = currentTerm[b]
               PROVE  a = b
    BY DEF ElectionSafety
  <2>1. /\ votes[a] \subseteq Node /\ votes[b] \subseteq Node
        /\ Cardinality(votes[a]) >= Quorum /\ Cardinality(votes[b]) >= Quorum
    BY DEF NodeTypeOK, VotesAreBinding
  <2>2. votes[a] \cap votes[b] # {}
    <3>1. IsFiniteSet(Node) /\ Cardinality(Node) \in Nat
      BY NodeAssumption, FS_CardinalityType
    <3>2. Cardinality(votes[a]) \in Nat /\ Cardinality(votes[b]) \in Nat
      BY <2>1, <3>1, FS_Subset, FS_CardinalityType
    <3>3. Cardinality(votes[a]) + Cardinality(votes[b]) > Cardinality(Node)
      BY <2>1, <3>1, <3>2 DEF Quorum
    <3> QED BY <2>1, <3>1, <3>3, FS_MajoritiesIntersect
  <2>3. PICK v \in Node : v \in votes[a] /\ v \in votes[b]
    BY <2>1, <2>2
  <2>4. /\ [voter |-> v, term |-> currentTerm[a], candidate |-> a] \in Claims
        /\ [voter |-> v, term |-> currentTerm[b], candidate |-> b] \in Claims
    BY <2>3 DEF Claims, Counted, Follower, Leader
  <2> QED BY <2>4 DEF VotesAreBinding
<1> QED BY <1>1, TypeCorrectness, VotesBind, PTL

-----------------------------------------------------------------------------
(* No lost wake-up.  NoLostWakeup is inductive as it stands.               *)

(* What commits more wakes the applier: afterwards the channel is not empty. *)
LEMMA Woken ==
  ASSUME NodeTypeOK, NEW n \in Node, Wake(n)
  PROVE  notify'[n] > 0 /\ \A p \in Node \ {n} : notify'[p] = notify[p]
<1>1. notify \in [Node -> 0..NotifyCap] /\ NotifyCap \in Nat \ {0}
  BY BoundAssumption DEF NodeTypeOK
<1>2. Smaller(notify[n] + 1, NotifyCap) > 0
  BY <1>1 DEF Smaller
<1> QED BY <1>1, <1>2 DEF Wake

(* A step that moves the positions of one node is safe if it wakes the      *)
(* node, or leaves its applier nothing it had not before.                  *)
LEMMA WakeupKept ==
  ASSUME NoLostWakeup, NEW n \in Node,
         \A p \in Node \ {n} : /\ commitIndex'[p] = commitIndex[p]
                               /\ lastApplied'[p] = lastApplied[p]
                               /\ notify'[p] = notify[p],
         \/ notify'[n] > 0
         \/ ~(commitIndex'[n] > lastApplied'[n])
         \/ commitIndex[n] > lastApplied[n] /\ notify'[n] = notify[n]
  PROVE  NoLostWakeup'
BY DEF NoLostWakeup

(* The steps of replication keep the wake-ups.                             *)
LEMMA WakeupReplicationStep ==
  ASSUME NodeTypeOK, NodeTypeOK', NoLostWakeup, ReplicationNext
  PROVE  NoLostWakeup'
<1>0. \A n \in Node : /\ commitIndex[n] \in Nat /\ lastApplied[n] \in Nat
                      /\ snapIndex[n] \in Nat /\ notify[n] \in Nat
  BY DEF NodeTypeOK
<1>1. ASSUME UNCHANGED <<commitIndex, lastApplied, notify>>
      PROVE  NoLostWakeup'
  BY <1>1 DEF NoLostWakeup
<1>2. ASSUME NEW n \in Node, NEW i, commitIndex' = [commitIndex EXCEPT ![n] = i],
             Wake(n), UNCHANGED lastApplied
      PROVE  NoLostWakeup'
  <2>1. notify'[n] > 0 /\ \A p \in Node \ {n} : notify'[p] = notify[p]
    BY <1>2, Woken
  <2>2. \A p \in Node \ {n} : commitIndex'[p] = commitIndex[p] /\ lastApplied'[p] = lastApplied[p]
    BY <1>2 DEF NodeTypeOK
  <2> QED BY <2>1, <2>2, WakeupKept
<1>3. ASSUME NEW n \in Node, Heartbeat(n)
      PROVE  NoLostWakeup'
  BY <1>1, <1>3 DEF Heartbeat, applyVars
<1>4. ASSUME NEW n \in Node, NEW data \in Payload, Propose(n, data)
      PROVE  NoLostWakeup'
  BY <1>1, <1>4 DEF Propose, applyVars
<1>5. ASSUME NEW p \in proposals, ProposeReturns(p) \/ ProposeFails(p)
      PROVE  NoLostWakeup'
  BY <1>1, <1>5 DEF ProposeReturns, ProposeFails, applyVars
<1>6. ASSUME NEW m \in InFlight("AppendRequest"), HandleAppendEntries(m)
      PROVE  NoLostWakeup'
  <2>1. m.dst \in Node
    BY DEF NodeTypeOK, InFlight, Message, VoteRequest, VoteReply, AppendRequest, AppendReply,
           SnapshotRequest, SnapshotReply
  <2>2. CASE RejectStaleAppend(m) \/ AppendCompacted(m)
    BY <1>1, <2>2 DEF RejectStaleAppend, AppendCompacted, applyVars
  <2>3. CASE HandleCurrentAppend(m)
    <3>1. CASE UNCHANGED applyVars
      BY <1>1, <3>1 DEF applyVars
    <3>2. CASE ~ UNCHANGED applyVars
      <4>1. PICK lastNew :
              /\ commitIndex' = [commitIndex EXCEPT ![m.dst] = CommitAfter(m.dst, m.commit, lastNew)]
              /\ IF m.commit > commitIndex[m.dst] THEN Wake(m.dst) ELSE UNCHANGED notify
              /\ UNCHANGED lastApplied
        BY <2>3, <3>2 DEF HandleCurrentAppend
      <4>2. CASE m.commit > commitIndex[m.dst]
        BY <1>2, <2>1, <4>1, <4>2
      <4>3. CASE ~(m.commit > commitIndex[m.dst])
        <5>1. commitIndex' = commitIndex
          BY <4>1, <4>3 DEF CommitAfter, NodeTypeOK
        <5> QED BY <1>1, <4>1, <4>3, <5>1
      <4> QED BY <4>2, <4>3
    <3> QED BY <3>1, <3>2
  <2> QED BY <1>6, <2>2, <2>3 DEF HandleAppendEntries
<1>7. ASSUME NEW m \in InFlight("AppendReply"), HandleAppendReply(m)
      PROVE  NoLostWakeup'
  <2>1. m.dst \in Node
    BY DEF NodeTypeOK, InFlight, Message, VoteRequest, VoteReply, AppendRequest, AppendReply,
           SnapshotRequest, SnapshotReply
  <2>2. CASE ReplyIgnored(m) \/ AppendRefused(m)
    BY <1>1, <2>2 DEF ReplyIgnored, AppendRefused, applyVars
  <2>3. CASE AppendSucceeded(m)
    <3>1. PICK next, match : AdvanceCommit(m.dst, m, next, match)
      BY <2>3 DEF AppendSucceeded
    <3>2. CASE UNCHANGED applyVars
      BY <1>1, <3>2 DEF applyVars
    <3>3. CASE ~ UNCHANGED applyVars
      <4>1. PICK i : /\ commitIndex' = [commitIndex EXCEPT ![m.dst] = i]
                     /\ Wake(m.dst) /\ UNCHANGED lastApplied
        BY <3>1, <3>3 DEF AdvanceCommit
      <4> QED BY <1>2, <2>1, <4>1
    <3> QED BY <3>2, <3>3
  <2> QED BY <1>7, <2>2, <2>3 DEF HandleAppendReply
<1>8. ASSUME NEW m \in InFlight("SnapshotRequest"), HandleInstallSnapshot(m)
      PROVE  NoLostWakeup'
  <2> DEFINE n == m.dst
  <2>1. n \in Node /\ m.lastIndex \in Nat
    BY DEF NodeTypeOK, InFlight, Message, VoteRequest, VoteReply, AppendRequest, AppendReply,
           SnapshotRequest, SnapshotReply
  <2>2. CASE UNCHANGED applyVars
    BY <1>1, <2>2 DEF applyVars
  <2>3. CASE ~ UNCHANGED applyVars
    <3>1. /\ commitIndex' = [commitIndex EXCEPT ![n] = Larger(commitIndex[n], m.lastIndex)]
          /\ lastApplied' = [lastApplied EXCEPT ![n] = Larger(lastApplied[n], m.lastIndex)]
          /\ notify' = notify
      BY <1>8, <2>3 DEF HandleInstallSnapshot
    <3>2. /\ commitIndex'[n] = Larger(commitIndex[n], m.lastIndex)
          /\ lastApplied'[n] = Larger(lastApplied[n], m.lastIndex)
          /\ \A p \in Node \ {n} : /\ commitIndex'[p] = commitIndex[p]
                                   /\ lastApplied'[p] = lastApplied[p]
      BY <2>1, <3>1 DEF NodeTypeOK
    <3>3. \/ ~(commitIndex'[n] > lastApplied'[n])
          \/ commitIndex[n] > lastApplied[n]
      BY <1>0, <2>1, <3>2 DEF Larger
    <3> QED BY <2>1, <3>1, <3>2, <3>3, WakeupKept
  <2> QED BY <2>2, <2>3
<1>9. ASSUME NEW m \in InFlight("SnapshotReply"), HandleSnapshotReply(m)
      PROVE  NoLostWakeup'
  BY <1>1, <1>9 DEF HandleSnapshotReply, ReplyIgnored, SnapshotInstalled, applyVars
<1>10. ASSUME NEW n \in Node, NEW index \in 1..MaxSnapshot, TakeSnapshot(n, index)
       PROVE  NoLostWakeup'
  <2>1. /\ lastApplied' = [lastApplied EXCEPT ![n] = Larger(lastApplied[n], index)]
        /\ commitIndex' = commitIndex /\ notify' = notify
    BY <1>10 DEF TakeSnapshot
  <2>2. /\ lastApplied'[n] >= lastApplied[n]
        /\ \A p \in Node \ {n} : lastApplied'[p] = lastApplied[p]
    BY <1>0, <2>1, BoundAssumption DEF NodeTypeOK, Larger
  <2>3. lastApplied'[n] \in Nat
    BY DEF NodeTypeOK
  <2>4. \/ ~(commitIndex'[n] > lastApplied'[n])
        \/ commitIndex[n] > lastApplied[n]
    BY <1>0, <2>1, <2>2, <2>3
  <2> QED BY <2>1, <2>2, <2>4, WakeupKept
<1>11. ASSUME NEW n \in Node, Apply(n)
       PROVE  NoLostWakeup'
  <2>1. /\ lastApplied' = [lastApplied EXCEPT ![n] = Larger(lastApplied[n], commitIndex[n])]
        /\ notify' = [notify EXCEPT ![n] = notify[n] - 1]
        /\ commitIndex' = commitIndex
    BY <1>11 DEF Apply, ApplyUpTo
  <2>2. /\ lastApplied'[n] = Larger(lastApplied[n], commitIndex[n])
        /\ \A p \in Node \ {n} : lastApplied'[p] = lastApplied[p] /\ notify'[p] = notify[p]
    BY <2>1 DEF NodeTypeOK
  <2>3. ~(commitIndex'[n] > lastApplied'[n])
    BY <1>0, <2>1, <2>2 DEF Larger
  <2> QED BY <2>1, <2>2, <2>3, WakeupKept
<1> QED BY <1>3, <1>4, <1>5, <1>6, <1>7, <1>8, <1>9, <1>10, <1>11 DEF ReplicationNext

(* Dropping the send on a full commitNotifyCh never leaves a committed entry *)
(* unapplied with nobody told of it, for every capacity of the channel     *)
(* (checkAndUpdateCommitIndex, HandleAppendEntries, runApplierLoop).       *)
THEOREM WakeupsSuffice == Spec => []NoLostWakeup
<1>1. Init => NoLostWakeup
  BY DEF Init, NoLostWakeup
<1>2. NodeTypeOK /\ NodeTypeOK' /\ NoLostWakeup /\ [Next]_vars => NoLostWakeup'
  <2> SUFFICES ASSUME NodeTypeOK, NodeTypeOK', NoLostWakeup, [Next]_vars
               PROVE  NoLostWakeup'
    OBVIOUS
  <2>1. ASSUME UNCHANGED applyVars
        PROVE  NoLostWakeup'
    BY <2>1 DEF applyVars, NoLostWakeup
  <2>2. CASE ElectionNext
    BY <2>1, <2>2 DEF ElectionNext, ElectionTimeout, ElectionTimeoutUnopposed, PreVoteWon,
       PreVoteEnds, HandleRequestVote, HandlePreVote, AnswerPreVote, HandleVote, HandleVoteReply,
       ReceivePreVote, ReceiveVote, electionFrame
  <2>3. CASE ReplicationNext
    BY <2>3, WakeupReplicationStep
  <2>4. ASSUME NEW m \in BagToSet(msgs), LoseRpc(m)
        PROVE  NoLostWakeup'
    BY <2>1, <2>4 DEF LoseRpc
  <2>5. CASE UNCHANGED vars
    BY <2>1, <2>5 DEF vars
  <2> QED BY <2>2, <2>3, <2>4, <2>5 DEF Next
<1> QED BY <1>1, <1>2, TypeCorrectness, PTL DEF Spec
=============================================================================
