-------------------------- MODULE RaftSafetyProofs --------------------------
(***************************************************************************)
(* The safety of the replicated log, as theorems of Spec: every reachable  *)
(* state has a history, and a state with a history has the properties of   *)
(* RaftConsensus.                                                          *)
(***************************************************************************)
EXTENDS RaftReplicationProofs

-----------------------------------------------------------------------------
(* The inductive invariant.                                                *)

(* In the beginning nobody was elected and nothing was stored.             *)
LEMMA InitExplained ==
  ASSUME Init
  PROVE  LogInv
<1> DEFINE h == [leader |-> [t \in Nat |-> NoNode], quorum |-> [t \in Nat |-> {}],
                 log |-> [t \in Nat |-> <<>>], stored |-> [t \in Nat |-> [v \in Node |-> 0]],
                 whole |-> [n \in Node |-> <<>>]]
<1>1. <<>> \in Seq(Entry) /\ Len(<<>>) = 0
  BY EmptySeq
<1>2. h \in History
  BY <1>1 DEF History
<1>3. /\ \A t \in Nat : h.leader[t] = NoNode /\ h.log[t] = <<>> /\ \A v \in Node : h.stored[t][v] = 0
      /\ \A n \in Node : h.whole[n] = <<>>
  OBVIOUS
<1> HIDE DEF h
<1>4. Agree(<<>>, <<>>, 0) /\ Chain(h, <<>>) /\ NoNil(<<>>) /\ TermAt(<<>>, 0) = 0
  BY <1>1 DEF Agree, Chain, NoNil, TermAt
<1>5. \A t \in Nat : ~Elected(h, t)
  BY <1>3 DEF Elected
<1>6. HistoryOK(h)
  BY <1>1, <1>3, <1>4, <1>5 DEF HistoryOK
<1>7. ASSUME NEW n \in Node PROVE NodeOK(h, n) /\ LeaderOK(h, n) /\ CommitOK(h, n)
  <2>1. /\ currentTerm[n] = 0 /\ log[n] = <<>> /\ snapIndex[n] = 0 /\ snapTerm[n] = 0
        /\ commitIndex[n] = 0 /\ lastApplied[n] = 0 /\ role[n] = Follower
    BY DEF Init
  <2>2. Represents(h, n)
    BY <1>1, <1>3, <1>4, <2>1 DEF Represents, LastLogIndex
  <2>3. \A t \in 0 .. 0 - 1 : FALSE
    OBVIOUS
  <2>4. NodeOK(h, n)
    BY <1>1, <1>3, <1>4, <2>1, <2>2, <2>3 DEF NodeOK
  <2> QED BY <2>1, <2>4 DEF LeaderOK, CommitOK, Safe, Follower, Leader
<1>8. BagToSet(msgs) = {} /\ proposals = {} /\ acked = {}
  BY DEF Init, EmptyBag, SetToBag, BagToSet
<1>9. Claims = {}
  BY <1>8 DEF Init, Claims, Granted, Counted, InFlight
<1>10. \A t \in Nat : ElectionOK(h, t)
  BY <1>5 DEF ElectionOK
<1>11. Explains(h)
  BY <1>6, <1>7, <1>8, <1>9, <1>10 DEF Explains
<1> QED BY <1>2, <1>11 DEF LogInv

(* A step that changes nothing keeps its explanation.                      *)
LEMMA StutterExplained ==
  ASSUME NEW h \in History, Explains(h), UNCHANGED vars
  PROVE  Explains(h)'
<1>1. UNCHANGED <<currentTerm, votedFor, role, votes, log, snapIndex, snapTerm, commitIndex,
                  lastApplied, nextIndex, matchIndex, msgs, proposals, acked>>
  BY DEF vars, electionVars, ballotVars, logVars, applyVars, leaderVars, clientVars
<1>2. Claims' = Claims
  BY <1>1 DEF Claims, Granted, Counted, InFlight
<1>3. ASSUME NEW n \in Node PROVE (NodeOK(h, n) /\ LeaderOK(h, n) /\ CommitOK(h, n))'
  <2>1. NodeOK(h, n) /\ LeaderOK(h, n) /\ CommitOK(h, n)
    BY DEF Explains
  <2> QED BY <1>1, <2>1 DEF NodeOK, Represents, LastLogIndex, LeaderOK, CommitOK
<1>4. ASSUME NEW t \in Nat PROVE ElectionOK(h, t)'
  <2>1. ElectionOK(h, t)
    BY DEF Explains
  <2> QED BY <1>1, <2>1 DEF ElectionOK
<1>5. ASSUME NEW x \in Claims PROVE ClaimOK(h, x)'
  <2>1. ClaimOK(h, x)
    BY DEF Explains
  <2> QED BY <1>1, <2>1 DEF ClaimOK
<1>6. ASSUME NEW m \in BagToSet(msgs) PROVE SolicitationOK(m)' /\ MessageOK(h, m)
  <2>1. SolicitationOK(m) /\ MessageOK(h, m)
    BY DEF Explains
  <2> QED BY <1>1, <2>1 DEF SolicitationOK, LastLogIndex, LastLogTerm
<1> QED BY <1>1, <1>2, <1>3, <1>4, <1>5, <1>6 DEF Explains

(* Every reachable state has a history that explains it: who led every     *)
(* term, with which log, and how much of it every node has stored.  This   *)
(* is the inductive invariant all the theorems below come from.            *)
THEOREM HistoryExists == Spec => []LogInv
<1>1. Init => LogInv
  BY InitExplained
<1>2. NodeTypeOK /\ NodeTypeOK' /\ VotesAreBinding /\ LogInv /\ [Next]_vars => LogInv'
  <2> SUFFICES ASSUME NodeTypeOK, NodeTypeOK', VotesAreBinding, LogInv, [Next]_vars PROVE LogInv'
    OBVIOUS
  <2>1. PICK h \in History : Explains(h)
    BY DEF LogInv
  <2>2. CASE UNCHANGED vars
    <3>1. Explains(h)'
      BY <2>1, <2>2, StutterExplained
    <3> QED BY <3>1 DEF LogInv, History, Entry
  <2>3. CASE Next
    <3>1. PICK g \in History : Explains(g)'
      BY <2>1, <2>3, StepContinues DEF Continues
    <3> QED BY <3>1 DEF LogInv, History, Entry
  <2> QED BY <2>2, <2>3
<1> QED BY <1>1, <1>2, TypeCorrectness, VotesBind, PTL DEF Spec

-----------------------------------------------------------------------------
(* What a history says about a state.                                      *)

(* The entries a node holds are those of its whole log.                    *)
LEMMA HeldEntry ==
  ASSUME NodeTypeOK, NEW h \in History, Explains(h), NEW n \in Node, NEW i, Holds(n, i)
  PROVE  /\ i \in Nat /\ i \in 1..Len(h.whole[n])
         /\ EntryAt(n, i) = h.whole[n][i] /\ LogTerm(n, i) = h.whole[n][i].term
<1>1. /\ LastLogIndex(n) = Len(h.whole[n]) /\ snapIndex[n] \in 0..Len(h.whole[n])
      /\ \A j \in snapIndex[n] .. Len(h.whole[n]) : LogTerm(n, j) = TermAt(h.whole[n], j)
      /\ \A j \in snapIndex[n] + 1 .. Len(h.whole[n]) :
           log[n][j - snapIndex[n]] = h.whole[n][j]
  BY Representation DEF Explains, NodeOK
<1>2. snapIndex[n] \in Nat /\ Len(h.whole[n]) \in Nat
  BY HistoryTypes, EntriesTyped DEF NodeTypeOK
<1>3. i \in snapIndex[n] + 1 .. Len(h.whole[n])
  BY <1>1 DEF Holds
<1>4. i \in Nat /\ i \in 1..Len(h.whole[n]) /\ i \in snapIndex[n] .. Len(h.whole[n])
  BY <1>2, <1>3
<1> QED BY <1>1, <1>3, <1>4 DEF EntryAt, TermAt

(* Log Matching, for HandleAppendEntries' consistency check and merge:     *)
(* nodes that agree on the term at an index agree on all before it.        *)
THEOREM LogsMatch == Spec => []LogMatching
<1>1. NodeTypeOK /\ LogInv => LogMatching
  <2> SUFFICES ASSUME NodeTypeOK, LogInv, NEW a \in Node, NEW b \in Node,
                      NEW i \in Larger(snapIndex[a], snapIndex[b])
                               .. Smaller(LastLogIndex(a), LastLogIndex(b)),
                      LogTerm(a, i) = LogTerm(b, i),
                      NEW j \in Larger(snapIndex[a], snapIndex[b]) + 1 .. i
               PROVE  EntryAt(a, j) = EntryAt(b, j)
    BY DEF LogMatching
  <2>1. PICK h \in History : Explains(h)
    BY DEF LogInv
  <2>2. /\ snapIndex[a] \in Nat /\ snapIndex[b] \in Nat
        /\ LastLogIndex(a) \in Nat /\ LastLogIndex(b) \in Nat
    BY LogTypes DEF NodeTypeOK
  <2>3. Holds(a, i) /\ Holds(b, i) /\ Holds(a, j) /\ Holds(b, j) /\ j <= i
    BY <2>2 DEF Holds, Larger, Smaller
  <2>4. /\ i \in 1..Len(h.whole[a]) /\ i \in 1..Len(h.whole[b])
        /\ h.whole[a][i].term = h.whole[b][i].term
        /\ j \in 1..Len(h.whole[a])
        /\ EntryAt(a, j) = h.whole[a][j] /\ EntryAt(b, j) = h.whole[b][j]
    BY <2>1, <2>3, HeldEntry
  <2>5. Agree(h.whole[a], h.whole[b], i)
    <3>1. Chain(h, h.whole[a]) /\ Chain(h, h.whole[b])
      BY <2>1 DEF Explains, NodeOK
    <3> QED BY <2>4, <3>1, ChainsMeet DEF HasIn
  <2>6. j \in 1..i
    BY <2>2, <2>3, <2>4
  <2> QED BY <2>4, <2>5, <2>6 DEF Agree
<1> QED BY <1>1, HistoryExists, TypeCorrectness, PTL

(* Two nodes never hold different entries as committed at the same index.  *)
THEOREM CommitsAgree == Spec => []CommittedPrefixesAgree
<1>1. NodeTypeOK /\ LogInv => CommittedPrefixesAgree
  <2> SUFFICES ASSUME NodeTypeOK, LogInv, NEW a \in Node, NEW b \in Node,
                      NEW i \in Larger(snapIndex[a], snapIndex[b])
                               .. Smaller(commitIndex[a], commitIndex[b])
               PROVE  /\ LogTerm(a, i) = LogTerm(b, i)
                      /\ Holds(a, i) /\ Holds(b, i) => EntryAt(a, i) = EntryAt(b, i)
    BY DEF CommittedPrefixesAgree
  <2>1. PICK h \in History : Explains(h)
    BY DEF LogInv
  <2>2. \A n \in Node : /\ NodeOK(h, n) /\ CommitOK(h, n)
                        /\ snapIndex[n] \in Nat /\ commitIndex[n] \in Nat /\ currentTerm[n] \in Nat
                        /\ h.whole[n] \in Seq(Entry) /\ Len(h.whole[n]) \in Nat
    BY <2>1, HistoryTypes, EntriesTyped DEF Explains, NodeTypeOK
  <2>3. /\ i \in Nat /\ snapIndex[a] <= i /\ snapIndex[b] <= i
        /\ i <= commitIndex[a] /\ i <= commitIndex[b]
    BY <2>2 DEF Larger, Smaller
  <2>4. Agree(h.whole[a], h.whole[b], i)
    <3>1. HistoryOK(h)
      BY <2>1 DEF Explains
    <3>2. /\ Safe(h, currentTerm[a], h.whole[a], commitIndex[a])
          /\ Safe(h, currentTerm[b], h.whole[b], commitIndex[b])
      BY <2>2 DEF CommitOK
    <3>3. CASE commitIndex[a] <= commitIndex[b]
      <4>1. Agree(h.whole[a], h.whole[b], commitIndex[a])
        BY <2>2, <3>1, <3>2, <3>3, SafePrefixesAgree
      <4> QED BY <2>2, <2>3, <4>1, AgreeBelow
    <3>4. CASE commitIndex[b] <= commitIndex[a]
      <4>1. Agree(h.whole[b], h.whole[a], commitIndex[b])
        BY <2>2, <3>1, <3>2, <3>4, SafePrefixesAgree
      <4>2. Agree(h.whole[b], h.whole[a], i)
        BY <2>2, <2>3, <4>1, AgreeBelow
      <4> QED BY <4>2, AgreeSwapped
    <3> QED BY <2>2, <3>3, <3>4
  <2>5. i <= Len(h.whole[a]) /\ i <= Len(h.whole[b]) /\ \A j \in 1..i : h.whole[a][j] = h.whole[b][j]
    BY <2>4 DEF Agree
  <2>6. LogTerm(a, i) = TermAt(h.whole[a], i) /\ LogTerm(b, i) = TermAt(h.whole[b], i)
    <3>1. i \in snapIndex[a] .. Len(h.whole[a]) /\ i \in snapIndex[b] .. Len(h.whole[b])
      BY <2>2, <2>3, <2>5
    <3> QED BY <2>1, <2>2, <3>1, Representation DEF NodeOK
  <2>7. TermAt(h.whole[a], i) = TermAt(h.whole[b], i)
    <3>1. i = 0 \/ i \in 1..i
      BY <2>3
    <3> QED BY <2>2, <2>3, <2>5, <3>1 DEF TermAt
  <2>8. ASSUME Holds(a, i), Holds(b, i) PROVE EntryAt(a, i) = EntryAt(b, i)
    <3>1. /\ EntryAt(a, i) = h.whole[a][i] /\ EntryAt(b, i) = h.whole[b][i]
          /\ i \in 1..Len(h.whole[a])
      BY <2>1, <2>8, HeldEntry
    <3>2. i \in 1..i
      BY <2>3, <3>1
    <3> QED BY <2>5, <3>1, <3>2
  <2> QED BY <2>6, <2>7, <2>8
<1> QED BY <1>1, HistoryExists, TypeCorrectness, PTL

(* An index Propose has returned holds its entry in the log of every       *)
(* leader of that or a later term, unless compacted away.                  *)
THEOREM AckedSurvive == Spec => []AckedWritesSurvive
<1>1. NodeTypeOK /\ LogInv => AckedWritesSurvive
  <2> SUFFICES ASSUME NodeTypeOK, LogInv, NEW p \in acked, NEW l \in Node,
                      role[l] = Leader, currentTerm[l] >= p.term
               PROVE  /\ p.index <= LastLogIndex(l)
                      /\ Holds(l, p.index) => EntryAt(l, p.index) = [term |-> p.term, data |-> p.data]
    BY DEF AckedWritesSurvive
  <2>1. PICK h \in History : Explains(h)
    BY DEF LogInv
  <2>2. PICK t, u, k, e : /\ t = p.term /\ u = currentTerm[l] /\ k = p.index
                          /\ e = [term |-> p.term, data |-> p.data]
    OBVIOUS
  <2>3. /\ HistoryOK(h) /\ NodeOK(h, l) /\ LeaderOK(h, l) /\ ProposalOK(h, p) /\ AnswerOK(h, p)
        /\ t \in Nat /\ u \in Nat /\ k \in Nat /\ t <= u
    <3>1. HistoryOK(h) /\ NodeOK(h, l) /\ LeaderOK(h, l) /\ ProposalOK(h, p) /\ AnswerOK(h, p)
      BY <2>1 DEF Explains
    <3>2. t \in Nat /\ u \in Nat /\ k \in Nat
      BY <2>2 DEF NodeTypeOK
    <3> QED BY <2>2, <3>1, <3>2
  <2>4. h.leader[u] = l /\ h.whole[l] = h.log[u] /\ Elected(h, u)
    BY <2>2, <2>3, NodeAssumption DEF LeaderOK, Elected
  <2>5. PICK i \in Nat : k <= i /\ Chosen(h, t, i)
    BY <2>2, <2>3 DEF AnswerOK
  <2>6. Agree(h.log[u], h.log[t], i)
    BY <2>3, <2>4, <2>5, CommitsMeet
  <2>7. k \in 1..i /\ h.log[t][k] = e
    BY <2>2, <2>3, <2>5 DEF ProposalOK
  <2>8. h.whole[l][k] = e /\ i <= Len(h.whole[l])
    BY <2>4, <2>6, <2>7 DEF Agree
  <2>9. LastLogIndex(l) = Len(h.whole[l]) /\ Len(h.whole[l]) \in Nat
    BY <2>3, HistoryTypes, EntriesTyped DEF NodeOK, Represents
  <2>10. k <= LastLogIndex(l)
    BY <2>3, <2>5, <2>8, <2>9
  <2> QED BY <2>1, <2>2, <2>8, <2>10, HeldEntry
<1> QED BY <1>1, HistoryExists, TypeCorrectness, PTL

(* What a leader counts for a peer of its term, the peer holds.            *)
THEOREM MatchIsSound == Spec => []MatchIndexSound
<1>1. NodeTypeOK /\ LogInv => MatchIndexSound
  <2> SUFFICES ASSUME NodeTypeOK, LogInv, NEW l \in Node, role[l] = Leader, NEW p \in Peers(l),
                      currentTerm[p] = currentTerm[l]
               PROVE  /\ matchIndex[l][p] <= LastLogIndex(p)
                      /\ \A i \in 1..matchIndex[l][p] :
                           Holds(l, i) /\ Holds(p, i) => EntryAt(l, i) = EntryAt(p, i)
    BY DEF MatchIndexSound
  <2>1. PICK h \in History : Explains(h)
    BY DEF LogInv
  <2>2. PICK T, k, c : T = currentTerm[l] /\ k = matchIndex[l][p] /\ c = h.stored[T][p]
    OBVIOUS
  <2>3. p \in Node /\ T \in Nat /\ k \in Nat /\ c \in Nat
    <3>1. p \in Node
      BY DEF Peers
    <3>2. T \in Nat /\ matchIndex[l] \in [Node -> Nat]
      BY <2>2 DEF NodeTypeOK
    <3> QED BY <2>2, <3>1, <3>2, HistoryTypes
  <2>4. NodeOK(h, p) /\ LeaderOK(h, l)
    BY <2>1, <2>3 DEF Explains
  <2>5. h.whole[l] = h.log[T] /\ k <= c
    BY <2>2, <2>3, <2>4 DEF LeaderOK
  <2>6. Agree(h.whole[p], h.whole[l], c)
    BY <2>2, <2>4, <2>5 DEF NodeOK
  <2>7. /\ LastLogIndex(p) = Len(h.whole[p]) /\ Len(h.whole[p]) \in Nat
        /\ c <= Len(h.whole[p]) /\ \A i \in 1..c : h.whole[p][i] = h.whole[l][i]
    BY <2>3, <2>4, <2>6, HistoryTypes, EntriesTyped DEF NodeOK, Represents, Agree
  <2>8. k <= LastLogIndex(p)
    BY <2>3, <2>5, <2>7
  <2>9. ASSUME NEW i \in 1..k, Holds(l, i), Holds(p, i) PROVE EntryAt(l, i) = EntryAt(p, i)
    <3>1. EntryAt(l, i) = h.whole[l][i] /\ EntryAt(p, i) = h.whole[p][i]
      BY <2>1, <2>3, <2>9, HeldEntry
    <3>2. i \in 1..c
      BY <2>3, <2>5
    <3> QED BY <2>7, <3>1, <3>2
  <2> QED BY <2>2, <2>8, <2>9
<1> QED BY <1>1, HistoryExists, TypeCorrectness, PTL

(* Snapshot, applier, commit index and log end keep their order.           *)
THEOREM PositionsKeepOrder == Spec => []PositionsOrdered
<1>1. NodeTypeOK /\ LogInv => PositionsOrdered
  <2> SUFFICES ASSUME NodeTypeOK, LogInv, NEW n \in Node
               PROVE  /\ snapIndex[n] <= lastApplied[n] /\ lastApplied[n] <= commitIndex[n]
                      /\ commitIndex[n] <= LastLogIndex(n)
    BY DEF PositionsOrdered
  <2>1. PICK h \in History : Explains(h)
    BY DEF LogInv
  <2>2. NodeOK(h, n) /\ CommitOK(h, n)
    BY <2>1 DEF Explains
  <2>3. h.whole[n] \in Seq(Entry) /\ commitIndex[n] \in Nat /\ currentTerm[n] \in Nat
    BY HistoryTypes DEF NodeTypeOK
  <2>4. commitIndex[n] <= Len(h.whole[n])
    BY <2>2, <2>3, SafeInside DEF CommitOK
  <2> QED BY <2>2, <2>4 DEF CommitOK, NodeOK, Represents
<1> QED BY <1>1, HistoryExists, TypeCorrectness, PTL

-----------------------------------------------------------------------------
(* Commits are final.                                                      *)

(* No commit index moves back: the leader commits beyond its own, and the  *)
(* follower of a request has, when it has merged it, all the leader says   *)
(* is committed.                                                           *)
LEMMA CommitsOnlyGrow ==
  ASSUME NodeTypeOK, NEW h \in History, Explains(h), Next, NEW n \in Node
  PROVE  commitIndex'[n] >= commitIndex[n]
<1>0. commitIndex \in [Node -> Nat] /\ commitIndex[n] \in Nat
  BY DEF NodeTypeOK
<1>1. commitIndex' = commitIndex => commitIndex'[n] >= commitIndex[n]
  BY <1>0
<1>2. CASE ElectionNext
  <2>1. UNCHANGED electionFrame
    <3>1. CASE \E p \in Node : \/ ElectionTimeout(p) \/ ElectionTimeoutUnopposed(p)
                               \/ PreVoteWon(p) \/ PreVoteEnds(p)
      BY <3>1 DEF ElectionTimeout, ElectionTimeoutUnopposed, PreVoteWon, PreVoteEnds
    <3>2. CASE \E m \in InFlight("VoteRequest") : HandleRequestVote(m)
      BY <3>2 DEF HandleRequestVote, HandlePreVote, AnswerPreVote, HandleVote
    <3>3. CASE \E m \in InFlight("VoteReply") : HandleVoteReply(m)
      BY <3>3 DEF HandleVoteReply, ReceivePreVote, ReceiveVote
    <3> QED BY <1>2, <3>1, <3>2, <3>3 DEF ElectionNext
  <2>2. commitIndex' = commitIndex
    BY <2>1 DEF electionFrame, applyVars
  <2> QED BY <1>1, <2>2
<1>3. CASE ReplicationNext
  <2>1. ASSUME NEW m \in InFlight("AppendRequest"), HandleAppendEntries(m)
        PROVE  commitIndex'[n] >= commitIndex[n]
    <3>1. CASE RejectStaleAppend(m) \/ AppendCompacted(m)
      BY <1>1, <3>1 DEF RejectStaleAppend, AppendCompacted, applyVars
    <3>2. CASE HandleCurrentAppend(m)
      <4>1. CASE ~PrevMatches(m.dst, Trimmed(m.dst, m))
        BY <1>1, <3>2, <4>1 DEF HandleCurrentAppend, applyVars
      <4>2. CASE PrevMatches(m.dst, Trimmed(m.dst, m))
        <5>1. PICK a, k : a = Trimmed(m.dst, m) /\ k = a.prev + Len(a.entries)
          OBVIOUS
        <5>2. /\ commitIndex' = [commitIndex EXCEPT ![m.dst] = CommitAfter(m.dst, m.commit, k)]
              /\ m.term >= currentTerm[m.dst]
              /\ m.prevIndex >= snapIndex[m.dst] \/ Len(m.entries) > snapIndex[m.dst] - m.prevIndex
          BY <3>2, <4>2, <5>1 DEF HandleCurrentAppend
        <5>3. k = m.prevIndex + Len(m.entries)
          BY <4>2, <5>1, <5>2, TrimmedTrue
        <5>4. m \in AppendRequest /\ m.dst \in Node /\ AppendOK(h, m)
          BY MessageKinds DEF InFlight, NodeTypeOK, Explains, MessageOK
        <5>5. m.commit \in Nat /\ k \in Nat /\ m.commit <= k
          <6>1. m.commit \in Nat /\ m.prevIndex \in Nat /\ Len(m.entries) \in Nat
            BY <5>4, EntriesTyped DEF AppendRequest
          <6> QED BY <5>3, <5>4, <6>1 DEF AppendOK
        <5>6. CASE n = m.dst
          <6>1. commitIndex'[n] = CommitAfter(n, m.commit, k)
            BY <1>0, <5>2, <5>6
          <6> QED BY <1>0, <5>5, <6>1 DEF CommitAfter, Smaller
        <5>7. CASE n # m.dst
          BY <1>0, <5>2, <5>7
        <5> QED BY <5>6, <5>7
      <4> QED BY <4>1, <4>2
    <3> QED BY <2>1, <3>1, <3>2 DEF HandleAppendEntries
  <2>2. ASSUME NEW m \in InFlight("AppendReply"), HandleAppendReply(m)
        PROVE  commitIndex'[n] >= commitIndex[n]
    <3>1. CASE ReplyIgnored(m) \/ AppendRefused(m)
      BY <1>1, <3>1 DEF ReplyIgnored, AppendRefused, applyVars
    <3>2. CASE AppendSucceeded(m)
      <4>1. PICK match, next : AdvanceCommit(m.dst, m, next, match)
        BY <3>2 DEF AppendSucceeded
      <4>2. CASE Committable(m.dst, match) = {}
        BY <1>1, <4>1, <4>2 DEF AdvanceCommit, applyVars
      <4>3. CASE Committable(m.dst, match) # {}
        <5>1. m.dst \in Node
          BY MessageKinds DEF InFlight, NodeTypeOK
        <5>2. PICK index : index = Max(Committable(m.dst, match))
          OBVIOUS
        <5>3. commitIndex' = [commitIndex EXCEPT ![m.dst] = index]
          BY <4>1, <4>3, <5>2 DEF AdvanceCommit
        <5>4. index \in Committable(m.dst, match)
          <6>1. commitIndex[m.dst] \in Nat /\ LastLogIndex(m.dst) \in Nat
            BY <5>1, LogTypes DEF NodeTypeOK
          <6>2. /\ Committable(m.dst, match) \in SUBSET Nat
                /\ \A i \in Committable(m.dst, match) : i <= LastLogIndex(m.dst)
            BY <6>1 DEF Committable
          <6> QED BY <4>3, <5>2, <6>1, <6>2, MaxOfNats
        <5>5. index >= commitIndex[m.dst]
          <6>1. commitIndex[m.dst] \in Nat /\ LastLogIndex(m.dst) \in Nat
            BY <5>1, LogTypes DEF NodeTypeOK
          <6> QED BY <5>4, <6>1 DEF Committable
        <5> QED BY <1>0, <5>1, <5>3, <5>5
      <4> QED BY <4>2, <4>3
    <3> QED BY <2>2, <3>1, <3>2 DEF HandleAppendReply
  <2>3. ASSUME NEW m \in InFlight("SnapshotRequest"), HandleInstallSnapshot(m)
        PROVE  commitIndex'[n] >= commitIndex[n]
    <3>1. CASE UNCHANGED applyVars
      BY <1>1, <3>1 DEF applyVars
    <3>2. CASE commitIndex' = [commitIndex EXCEPT ![m.dst] = Larger(@, m.lastIndex)]
      <4>1. m \in SnapshotRequest /\ m.lastIndex \in Nat
        BY MessageKinds DEF InFlight, NodeTypeOK, SnapshotRequest
      <4> QED BY <1>0, <3>2, <4>1 DEF Larger
    <3> QED BY <2>3, <3>1, <3>2 DEF HandleInstallSnapshot
  <2>4. CASE \E m \in InFlight("SnapshotReply") : HandleSnapshotReply(m)
    BY <1>1, <2>4 DEF HandleSnapshotReply, ReplyIgnored, SnapshotInstalled, applyVars
  <2>5. CASE \/ \E p \in Node : Heartbeat(p) \/ Apply(p)
             \/ \E p \in Node, data \in Payload : Propose(p, data)
             \/ \E p \in proposals : ProposeReturns(p) \/ ProposeFails(p)
             \/ \E p \in Node, index \in 1..MaxSnapshot : TakeSnapshot(p, index)
    BY <1>1, <2>5 DEF Heartbeat, Apply, Propose, ProposeReturns, ProposeFails, TakeSnapshot, applyVars
  <2> QED BY <1>3, <2>1, <2>2, <2>3, <2>4, <2>5 DEF ReplicationNext
<1>4. CASE \E m \in BagToSet(msgs) : LoseRpc(m)
  BY <1>1, <1>4 DEF LoseRpc, applyVars
<1> QED BY <1>2, <1>3, <1>4 DEF Next

\* No commit is taken back and no committed entry that stays is rewritten.
CommitsStay ==
  \A n \in Node :
    /\ commitIndex'[n] >= commitIndex[n]
    /\ \A i \in 1..commitIndex[n] :
         Holds(n, i) /\ Holds(n, i)' => EntryAt(n, i)' = EntryAt(n, i)

(* What the history before a step and the one after it commit are prefixes *)
(* of one another.                                                         *)
LEMMA StepKeepsCommits ==
  ASSUME NodeTypeOK, NodeTypeOK', VotesAreBinding, LogInv, Next
  PROVE  CommitsStay
<1> SUFFICES ASSUME NEW n \in Node
             PROVE  /\ commitIndex'[n] >= commitIndex[n]
                    /\ \A i \in 1..commitIndex[n] :
                         Holds(n, i) /\ Holds(n, i)' => EntryAt(n, i)' = EntryAt(n, i)
  BY DEF CommitsStay
<1>1. PICK h \in History : Explains(h)
  BY DEF LogInv
<1>2. PICK g \in History : (\E p \in Node, T \in Nat : Grows(h, g, p, T)) /\ Explains(g)'
  BY <1>1, StepContinues DEF Continues
<1>3. commitIndex'[n] >= commitIndex[n]
  BY <1>1, CommitsOnlyGrow
<1>4. PICK s, r, c, d, t, u : /\ s = h.whole[n] /\ r = g.whole[n]
                              /\ c = commitIndex[n] /\ d = commitIndex'[n]
                              /\ t = currentTerm[n] /\ u = currentTerm'[n]
  OBVIOUS
<1>5. /\ s \in Seq(Entry) /\ r \in Seq(Entry) /\ Len(s) \in Nat /\ Len(r) \in Nat
      /\ c \in Nat /\ d \in Nat /\ c <= d /\ t \in Nat /\ u \in Nat
  <2>1. s \in Seq(Entry) /\ r \in Seq(Entry) /\ c \in Nat /\ d \in Nat /\ t \in Nat /\ u \in Nat
    BY <1>4, HistoryTypes DEF NodeTypeOK
  <2> QED BY <1>3, <1>4, <2>1, EntriesTyped
<1>6. HistoryOK(g) /\ NodeOK(g, n)' /\ CommitOK(g, n)' /\ CommitOK(h, n)
  BY <1>1, <1>2 DEF Explains
<1>7. Agree(s, r, c)
  <2>1. Safe(h, t, s, c)
    BY <1>4, <1>6 DEF CommitOK
  <2>2. Safe(g, t, s, c)
    BY <1>2, <1>5, <2>1, SafeGrows
  <2>3. Safe(g, u, r, d)
    BY <1>4, <1>6 DEF CommitOK
  <2> QED BY <1>5, <1>6, <2>2, <2>3, SafePrefixesAgree
<1>8. ASSUME NEW i \in 1..c, Holds(n, i), Holds(n, i)' PROVE EntryAt(n, i)' = EntryAt(n, i)
  <2>1. EntryAt(n, i) = s[i]
    BY <1>1, <1>4, <1>8, HeldEntry
  <2>2. EntryAt(n, i)' = r[i]
    <3>0. PICK a, lg : a = snapIndex'[n] /\ lg = log'[n]
      OBVIOUS
    <3>1. a \in Nat /\ lg \in Seq(Entry) /\ Len(lg) \in Nat
      BY <3>0, EntriesTyped DEF NodeTypeOK
    <3>2. i \in a + 1 .. a + Len(lg)
      BY <1>8, <3>0 DEF Holds, LastLogIndex
    <3>3. \A j \in 1..Len(lg) : lg[j] = r[a + j]
      BY <1>4, <1>6, <3>0 DEF NodeOK, Represents
    <3>4. i - a \in 1..Len(lg) /\ a + (i - a) = i
      BY <3>1, <3>2
    <3>5. lg[i - a] = r[i]
      BY <3>3, <3>4
    <3> QED BY <3>0, <3>5 DEF EntryAt
  <2> QED BY <1>7, <2>1, <2>2 DEF Agree
<1> QED BY <1>3, <1>4, <1>8

(* No step takes back a commit or rewrites a committed entry, late and     *)
(* reordered AppendEntries and snapshots included.                         *)
THEOREM CommitsFinal == Spec => CommitsAreFinal
<1>1. NodeTypeOK /\ NodeTypeOK' /\ VotesAreBinding /\ LogInv /\ [Next]_vars => [CommitsStay]_vars
  BY StepKeepsCommits
<1>2. Spec => [][CommitsStay]_vars
  BY <1>1, TypeCorrectness, VotesBind, HistoryExists, PTL DEF Spec
<1> QED BY <1>2 DEF CommitsAreFinal, CommitsStay

-----------------------------------------------------------------------------
(* The WALs.                                                               *)

(* Only the applier appends to a WAL; apart from it only a snapshot moves  *)
(* lastApplied.                                                            *)
LEMMA WalWriters ==
  ASSUME Next
  PROVE  \/ \E n \in Node : Apply(n)
         \/ UNCHANGED <<wal, lastApplied>>
         \/ /\ UNCHANGED wal
            /\ \/ \E m \in InFlight("SnapshotRequest") : HandleInstallSnapshot(m)
               \/ \E n \in Node, index \in 1..MaxSnapshot : TakeSnapshot(n, index)
<1> USE DEF electionFrame, applyVars
<1>1. CASE \E n \in Node : \/ ElectionTimeout(n) \/ ElectionTimeoutUnopposed(n)
                           \/ PreVoteWon(n) \/ PreVoteEnds(n)
  BY <1>1 DEF ElectionTimeout, ElectionTimeoutUnopposed, PreVoteWon, PreVoteEnds
<1>2. CASE \E m \in InFlight("VoteRequest") : HandleRequestVote(m)
  BY <1>2 DEF HandleRequestVote, HandlePreVote, AnswerPreVote, HandleVote
<1>3. CASE \E m \in InFlight("VoteReply") : HandleVoteReply(m)
  BY <1>3 DEF HandleVoteReply, ReceivePreVote, ReceiveVote
<1>4. CASE \E n \in Node : Heartbeat(n)
  BY <1>4 DEF Heartbeat
<1>5. CASE \E n \in Node, data \in Payload : Propose(n, data)
  BY <1>5 DEF Propose
<1>6. CASE \E p \in proposals : ProposeReturns(p) \/ ProposeFails(p)
  BY <1>6 DEF ProposeReturns, ProposeFails
<1>7. CASE \E m \in InFlight("AppendRequest") : HandleAppendEntries(m)
  BY <1>7 DEF HandleAppendEntries, RejectStaleAppend, AppendCompacted, HandleCurrentAppend
<1>8. CASE \E m \in InFlight("AppendReply") : HandleAppendReply(m)
  BY <1>8 DEF HandleAppendReply, ReplyIgnored, AppendSucceeded, AppendRefused, AdvanceCommit
<1>9. CASE \E m \in InFlight("SnapshotRequest") : HandleInstallSnapshot(m)
  BY <1>9 DEF HandleInstallSnapshot
<1>10. CASE \E m \in InFlight("SnapshotReply") : HandleSnapshotReply(m)
  BY <1>10 DEF HandleSnapshotReply, ReplyIgnored, SnapshotInstalled
<1>11. CASE \E n \in Node, index \in 1..MaxSnapshot : TakeSnapshot(n, index)
  BY <1>11 DEF TakeSnapshot
<1>12. CASE \E n \in Node : Apply(n)
  BY <1>12
<1>13. CASE \E m \in BagToSet(msgs) : LoseRpc(m)
  BY <1>13 DEF LoseRpc
<1> QED BY <1>1, <1>2, <1>3, <1>4, <1>5, <1>6, <1>7, <1>8, <1>9, <1>10, <1>11, <1>12, <1>13
     DEF Next, ElectionNext, ReplicationNext

(* What the applier delivers is a sequence of payloads.                    *)
LEMMA DeliveredTyped ==
  ASSUME NodeTypeOK, NEW n \in Node, NEW index \in Nat, snapIndex[n] <= index
  PROVE  Delivered(n, index) \in Seq(Payload)
<1>1. PICK first, entries, data :
        /\ first = Larger(lastApplied[n], snapIndex[n]) + 1
        /\ entries = SubSeq(log[n], first - snapIndex[n], Smaller(index - snapIndex[n], Len(log[n])))
        /\ data = [i \in 1..Len(entries) |-> entries[i].data]
  OBVIOUS
<1>2. /\ log[n] \in Seq(Entry) /\ snapIndex[n] \in Nat /\ lastApplied[n] \in Nat
      /\ Len(log[n]) \in Nat
  BY EntriesTyped DEF NodeTypeOK
<1>3. entries \in Seq(Entry) /\ Len(entries) \in Nat
  <2>1. first - snapIndex[n] \in Nat \ {0}
    BY <1>1, <1>2 DEF Larger
  <2>2. /\ Smaller(index - snapIndex[n], Len(log[n])) \in Nat
        /\ Smaller(index - snapIndex[n], Len(log[n])) <= Len(log[n])
    BY <1>2 DEF Smaller
  <2> QED BY <1>1, <1>2, <2>1, <2>2, SliceTyped, EntriesTyped
<1>4. /\ data \in Seq(Payload \cup {NilData}) /\ Len(data) = Len(entries)
      /\ \A i \in 1..Len(data) : data[i] \in Payload \cup {NilData}
  <2>1. \A i \in 1..Len(entries) : entries[i] \in Entry
    BY <1>3, EntriesTyped
  <2>2. \A i \in 1..Len(entries) : entries[i].data \in Payload \cup {NilData}
    BY <2>1 DEF Entry
  <2>3. data \in [1..Len(entries) -> Payload \cup {NilData}]
    BY <1>1, <2>2
  <2>4. data \in Seq(Payload \cup {NilData})
    BY <1>3, <2>3
  <2> QED BY <1>3, <2>3, <2>4, LenProperties
<1>5. PICK keep : keep = {i \in 1..Len(data) : data[i] # NilData}
  OBVIOUS
<1>6. Select(data, keep) \in Seq({data[i] : i \in keep})
  BY <1>4, <1>5, SelectShape
<1>7. {data[i] : i \in keep} \subseteq Payload
  BY <1>4, <1>5
<1>8. Select(data, keep) \in Seq(Payload)
  BY <1>6, <1>7, SeqMonotonic
<1> QED BY <1>1, <1>5, <1>8 DEF Delivered

(* A leader keeps within its log what it knows of its peers: an entry a     *)
(* peer has stored is one of its own.                                      *)
LEMMA ProgressStaysInLog ==
  ASSUME NodeTypeOK, LogInv
  PROVE  ProgressInLog
<1> SUFFICES ASSUME NEW l \in Node, role[l] = Leader, NEW p \in Peers(l)
             PROVE  /\ nextIndex[l][p] <= LastLogIndex(l) + 1
                    /\ matchIndex[l][p] <= LastLogIndex(l)
  BY DEF ProgressInLog
<1>1. PICK h \in History : Explains(h)
  BY DEF LogInv
<1>2. p \in Node /\ currentTerm[l] \in Nat
  BY DEF Peers, NodeTypeOK
<1>3. /\ LastLogIndex(l) = Len(h.whole[l])
      /\ h.whole[l] = h.log[currentTerm[l]]
      /\ matchIndex[l][p] <= h.stored[currentTerm[l]][p]
      /\ nextIndex[l][p] <= Len(h.whole[l]) + 1
  BY <1>1, <1>2 DEF Explains, NodeOK, Represents, LeaderOK
<1>4. h.stored[currentTerm[l]][p] <= Len(h.log[currentTerm[l]])
  BY <1>1, <1>2 DEF Explains, HistoryOK
<1>5. /\ Len(h.whole[l]) \in Nat /\ h.stored[currentTerm[l]][p] \in Nat
      /\ matchIndex[l][p] \in Nat
  BY <1>1, <1>2, HistoryTypes, EntriesTyped DEF NodeTypeOK
<1> QED BY <1>3, <1>4, <1>5

(* The shape of the whole state: nil data never reaches a WAL, and a leader *)
(* never sends from, or counts a peer for, beyond its own log.             *)
THEOREM WholeTypeCorrectness == Spec => []TypeOK
<1> DEFINE WalOK == wal \in [Node -> Seq(Payload)]
<1>1. Init => WalOK
  <2>1. <<>> \in Seq(Payload)
    BY EmptySeq
  <2> QED BY <2>1 DEF Init
<1>2. NodeTypeOK /\ PositionsOrdered /\ WalOK /\ [Next]_vars => WalOK'
  <2> SUFFICES ASSUME NodeTypeOK, PositionsOrdered, WalOK, [Next]_vars PROVE WalOK'
    OBVIOUS
  <2>1. CASE UNCHANGED wal
    BY <2>1
  <2>2. CASE \E n \in Node : Apply(n)
    <3>1. PICK n \in Node : Apply(n)
      BY <2>2
    <3>2. /\ commitIndex[n] \in Nat /\ lastApplied[n] \in Nat /\ snapIndex[n] \in Nat
          /\ snapIndex[n] <= lastApplied[n] /\ lastApplied[n] <= commitIndex[n]
      BY DEF NodeTypeOK, PositionsOrdered
    <3>3. Delivered(n, ApplyUpTo(n)) \in Seq(Payload)
      BY <3>2, DeliveredTyped DEF ApplyUpTo
    <3>4. wal[n] \o Delivered(n, ApplyUpTo(n)) \in Seq(Payload)
      BY <3>3, ConcatProperties
    <3> QED BY <3>1, <3>4 DEF Apply
  <2> QED BY <2>1, <2>2, WalWriters DEF vars, applyVars
<1>3. Spec => []WalOK
  BY <1>1, <1>2, TypeCorrectness, PositionsKeepOrder, PTL DEF Spec
<1>4. NodeTypeOK /\ WalOK /\ LogInv => TypeOK
  BY ProgressStaysInLog DEF TypeOK
<1> QED BY <1>3, <1>4, TypeCorrectness, HistoryExists, PTL

-----------------------------------------------------------------------------
(* Clusters that take no snapshots.  SnapshotSkipsWal shows that the WALs  *)
(* come apart once a snapshot has been installed: what follows is about    *)
(* MaxSnapshot = 0, where TakeSnapshot is never called.                    *)

\* Every log starts at its first entry, and nobody is sent a snapshot.
Uncompacted ==
  /\ \A n \in Node : snapIndex[n] = 0
  /\ \A m \in BagToSet(msgs) : m.type # "SnapshotRequest"

\* No snapshot is among the messages of the set sent.
NoSnapshotIn(sent) == \A m \in sent : m.type # "SnapshotRequest"

(* A leader whose log starts at its first entry sends no snapshot.         *)
LEMMA BroadcastAppends ==
  ASSUME NEW n, snapIndex[n] = 0, NEW reached \in SUBSET Node,
         NEW lg, NEW commit, NEW nexts \in [Node -> Nat]
  PROVE  NoSnapshotIn(BroadcastRpcs(n, reached, lg, commit, nexts))
<1>1. \A p \in reached : ~(Larger(nexts[p], 1) <= snapIndex[n])
  BY DEF Larger
<1> QED BY <1>1 DEF NoSnapshotIn, BroadcastRpcs, AppendRpc

(* A step that moves no anchor and sends no snapshot keeps it that way.    *)
LEMMA SendsNoSnapshot ==
  ASSUME NodeTypeOK, Uncompacted, NEW read, NEW sent, Exchange(read, sent), NoSnapshotIn(sent),
         UNCHANGED snapIndex
  PROVE  Uncompacted'
BY ExchangeMessages DEF NodeTypeOK, Uncompacted, NoSnapshotIn

(* The steps of elections do: they send requests for votes, replies, and a *)
(* new leader's first broadcast.                                           *)
LEMMA ElectionUncompacted ==
  ASSUME NodeTypeOK, Uncompacted, ElectionNext
  PROVE  Uncompacted'
<1> USE DEF electionFrame, logVars
<1>1. NoSnapshotIn({})
  BY DEF NoSnapshotIn
<1>2. \A n \in Node : \A reached, term, pre : NoSnapshotIn(Solicit(n, reached, term, pre))
  BY DEF NoSnapshotIn, Solicit
<1>3. \A m, term, granted : NoSnapshotIn({VoteReplyTo(m, term, granted)})
  BY DEF NoSnapshotIn, VoteReplyTo
<1>4. ASSUME NEW n \in Node, NEW read, NEW reached, StartElection(n, read, reached),
             UNCHANGED snapIndex
      PROVE  Uncompacted'
  <2>1. \/ Exchange(read, {})
        \/ Exchange(read, Solicit(n, reached, currentTerm[n] + 1, FALSE))
    BY <1>4 DEF StartElection
  <2>2. CASE Exchange(read, {})
    BY <1>1, <1>4, <2>2, SendsNoSnapshot
  <2>3. CASE Exchange(read, Solicit(n, reached, currentTerm[n] + 1, FALSE))
    BY <1>2, <1>4, <2>3, SendsNoSnapshot
  <2> QED BY <2>1, <2>2, <2>3
<1>5. CASE \E n \in Node : ElectionTimeout(n)
  <2>1. \E n \in Node : \E reached :
          Exchange(OwnPreVotes(n), Solicit(n, reached, currentTerm[n] + 1, TRUE))
    BY <1>5 DEF ElectionTimeout
  <2>2. UNCHANGED snapIndex
    BY <1>5 DEF ElectionTimeout
  <2> QED BY <1>2, <2>1, <2>2, SendsNoSnapshot
<1>6. CASE \E n \in Node : ElectionTimeoutUnopposed(n) \/ PreVoteWon(n)
  <2>1. PICK n \in Node : ElectionTimeoutUnopposed(n) \/ PreVoteWon(n)
    BY <1>6
  <2>2. PICK reached : StartElection(n, {}, reached)
    BY <2>1 DEF ElectionTimeoutUnopposed, PreVoteWon
  <2>3. UNCHANGED snapIndex
    BY <2>1 DEF ElectionTimeoutUnopposed, PreVoteWon
  <2> QED BY <1>4, <2>2, <2>3
<1>7. CASE \E n \in Node : PreVoteEnds(n)
  BY <1>7 DEF PreVoteEnds, Uncompacted
<1>8. CASE \E m \in InFlight("VoteRequest") : HandleRequestVote(m)
  <2>1. PICK m \in InFlight("VoteRequest") : HandleRequestVote(m)
    BY <1>8
  <2>2. \E term, granted : Exchange({m}, {VoteReplyTo(m, term, granted)})
    BY <2>1 DEF HandleRequestVote, HandlePreVote, AnswerPreVote, HandleVote
  <2>3. UNCHANGED snapIndex
    BY <2>1 DEF HandleRequestVote, HandlePreVote, AnswerPreVote, HandleVote
  <2> QED BY <1>3, <2>2, <2>3, SendsNoSnapshot
<1>9. CASE \E m \in InFlight("VoteReply") : HandleVoteReply(m)
  <2>1. PICK m \in InFlight("VoteReply") : HandleVoteReply(m)
    BY <1>9
  <2>2. UNCHANGED snapIndex
    BY <2>1 DEF HandleVoteReply, ReceivePreVote, ReceiveVote
  <2>3. CASE Exchange({m}, {})
    BY <1>1, <2>2, <2>3, SendsNoSnapshot
  <2>4. CASE BecomeLeader(m.dst, m)
    <3>1. PICK n : n = m.dst /\ n \in Node /\ snapIndex[n] = 0
      BY MessageKinds DEF InFlight, NodeTypeOK, Uncompacted
    <3>2. PICK reached \in SUBSET Peers(n) :
            Exchange({m}, BroadcastRpcs(n, reached, log[n], commitIndex[n], FreshNext(n)))
      BY <2>4, <3>1 DEF BecomeLeader
    <3>3. FreshNext(n) \in [Node -> Nat] /\ reached \in SUBSET Node
      <4>1. LastLogIndex(n) + 1 \in Nat
        BY <3>1, LogTypes
      <4> QED BY <4>1 DEF FreshNext, Peers
    <3>4. NoSnapshotIn(BroadcastRpcs(n, reached, log[n], commitIndex[n], FreshNext(n)))
      BY <3>1, <3>3, BroadcastAppends
    <3> QED BY <2>2, <3>2, <3>4, SendsNoSnapshot
  <2> QED BY <2>1, <2>3, <2>4 DEF HandleVoteReply, ReceivePreVote, ReceiveVote
<1> QED BY <1>5, <1>6, <1>7, <1>8, <1>9 DEF ElectionNext

(* And so do the steps of replication.                                     *)
LEMMA ReplicationUncompacted ==
  ASSUME MaxSnapshot = 0, NodeTypeOK, Uncompacted, ReplicationNext
  PROVE  Uncompacted'
<1> USE DEF replicationFrame, logVars
<1>1. NoSnapshotIn({})
  BY DEF NoSnapshotIn
<1>2. \A m, term, success, match : NoSnapshotIn({AppendReplyTo(m, term, success, match)})
  BY DEF NoSnapshotIn, AppendReplyTo
<1>3. ASSUME NEW n \in Node, NEW reached \in SUBSET Peers(n), NEW lg, NEW commit,
             NEW nexts \in [Node -> Nat], NEW read,
             Exchange(read, BroadcastRpcs(n, reached, lg, commit, nexts)), UNCHANGED snapIndex
      PROVE  Uncompacted'
  <2>1. snapIndex[n] = 0 /\ reached \in SUBSET Node
    BY DEF Uncompacted, Peers
  <2>2. NoSnapshotIn(BroadcastRpcs(n, reached, lg, commit, nexts))
    BY <2>1, BroadcastAppends
  <2> QED BY <1>3, <2>2, SendsNoSnapshot
<1>4. \A n \in Node : nextIndex[n] \in [Node -> Nat]
  BY DEF NodeTypeOK
<1>5. CASE \E n \in Node : Heartbeat(n)
  BY <1>3, <1>4, <1>5 DEF Heartbeat
<1>6. CASE \E n \in Node, data \in Payload : Propose(n, data)
  BY <1>3, <1>4, <1>6 DEF Propose
<1>7. CASE \E p \in proposals : ProposeReturns(p) \/ ProposeFails(p)
  BY <1>7 DEF ProposeReturns, ProposeFails, Uncompacted
<1>8. CASE \E m \in InFlight("AppendRequest") : HandleAppendEntries(m)
  <2>1. PICK m \in InFlight("AppendRequest") : HandleAppendEntries(m)
    BY <1>8
  <2>2. \E term, success, match : Exchange({m}, {AppendReplyTo(m, term, success, match)})
    BY <2>1 DEF HandleAppendEntries, RejectStaleAppend, AppendCompacted, HandleCurrentAppend
  <2>3. UNCHANGED snapIndex
    BY <2>1 DEF HandleAppendEntries, RejectStaleAppend, AppendCompacted, HandleCurrentAppend
  <2> QED BY <1>2, <2>2, <2>3, SendsNoSnapshot
<1>9. CASE \E m \in InFlight("AppendReply") : HandleAppendReply(m)
  <2>1. PICK m \in InFlight("AppendReply") : HandleAppendReply(m)
    BY <1>9
  <2>2. UNCHANGED snapIndex
    BY <2>1 DEF HandleAppendReply, ReplyIgnored, AppendSucceeded, AppendRefused
  <2>3. CASE Exchange({m}, {})
    BY <1>1, <2>2, <2>3, SendsNoSnapshot
  <2>4. CASE AppendSucceeded(m) /\ ~Exchange({m}, {})
    <3>1. PICK n, next, match :
            /\ n = m.dst /\ next = [nextIndex[n] EXCEPT ![m.src] = m.match + 1]
            /\ AdvanceCommit(n, m, next, match)
      BY <2>4 DEF AppendSucceeded, Acknowledged
    <3>2. n \in Node /\ m.match \in Nat
      BY <3>1, MessageKinds DEF InFlight, NodeTypeOK, AppendReply
    <3>3. next \in [Node -> Nat]
      <4>1. nextIndex[n] \in [Node -> Nat] /\ m.match + 1 \in Nat
        BY <1>4, <3>2
      <4> QED BY <3>1, <4>1
    <3>4. \E reached \in SUBSET Peers(n) : \E index :
            Exchange({m}, BroadcastRpcs(n, reached, log[n], index, next))
      BY <2>4, <3>1 DEF AdvanceCommit
    <3> QED BY <1>3, <2>2, <3>2, <3>3, <3>4
  <2> QED BY <2>1, <2>3, <2>4 DEF HandleAppendReply, ReplyIgnored, AppendRefused
<1>10. CASE \E m \in InFlight("SnapshotRequest") : HandleInstallSnapshot(m)
  BY <1>10 DEF InFlight, Uncompacted
<1>11. CASE \E m \in InFlight("SnapshotReply") : HandleSnapshotReply(m)
  <2>1. PICK m \in InFlight("SnapshotReply") : HandleSnapshotReply(m)
    BY <1>11
  <2>2. Exchange({m}, {}) /\ UNCHANGED snapIndex
    BY <2>1 DEF HandleSnapshotReply, ReplyIgnored, SnapshotInstalled
  <2> QED BY <1>1, <2>2, SendsNoSnapshot
<1>12. CASE \E n \in Node, index \in 1..MaxSnapshot : TakeSnapshot(n, index)
  BY <1>12
<1>13. CASE \E n \in Node : Apply(n)
  BY <1>13 DEF Apply, Uncompacted
<1> QED BY <1>5, <1>6, <1>7, <1>8, <1>9, <1>10, <1>11, <1>12, <1>13 DEF ReplicationNext

(* So no log is ever compacted while nobody takes a snapshot.              *)
LEMMA StaysUncompacted ==
  ASSUME MaxSnapshot = 0
  PROVE  Spec => []Uncompacted
<1>1. Init => Uncompacted
  BY DEF Init, Uncompacted, EmptyBag, SetToBag, BagToSet
<1>2. NodeTypeOK /\ Uncompacted /\ [Next]_vars => Uncompacted'
  <2> SUFFICES ASSUME NodeTypeOK, Uncompacted, [Next]_vars PROVE Uncompacted'
    OBVIOUS
  <2>1. CASE UNCHANGED vars
    BY <2>1 DEF vars, logVars, Uncompacted
  <2>2. CASE \E m \in BagToSet(msgs) : LoseRpc(m)
    <3>1. NoSnapshotIn({})
      BY DEF NoSnapshotIn
    <3> QED BY <2>2, <3>1, SendsNoSnapshot DEF LoseRpc, logVars
  <2> QED BY <2>1, <2>2, ElectionUncompacted, ReplicationUncompacted DEF Next
<1> QED BY <1>1, <1>2, TypeCorrectness, PTL DEF Spec

-----------------------------------------------------------------------------
\* Without snapshots a WAL holds the data of every entry applied, in their order.
WalIsApplied ==
  \A n \in Node :
    /\ Len(wal[n]) = lastApplied[n]
    /\ \A i \in 1..lastApplied[n] : wal[n][i] = log[n][i].data

(* In an uncompacted log, entries are where the history has them.          *)
LEMMA UncompactedLog ==
  ASSUME NodeTypeOK, LogInv, PositionsOrdered, NEW n \in Node, snapIndex[n] = 0
  PROVE  /\ log[n] \in Seq(Entry) /\ Len(log[n]) \in Nat /\ LastLogIndex(n) = Len(log[n])
         /\ NoNil(log[n])
         /\ lastApplied[n] \in Nat /\ commitIndex[n] \in Nat
         /\ lastApplied[n] <= commitIndex[n] /\ commitIndex[n] <= Len(log[n])
<1>1. PICK h \in History : Explains(h)
  BY DEF LogInv
<1>2. PICK lg, s : lg = log[n] /\ s = h.whole[n]
  OBVIOUS
<1>3. /\ lg \in Seq(Entry) /\ s \in Seq(Entry) /\ Len(lg) \in Nat /\ Len(s) \in Nat
      /\ LastLogIndex(n) = Len(lg)
  BY <1>2, HistoryTypes, EntriesTyped DEF NodeTypeOK, LastLogIndex
<1>4. HistoryOK(h) /\ NodeOK(h, n)
  BY <1>1 DEF Explains
<1>5. NoNil(s)
  BY <1>2, <1>3, <1>4, ChainNoNil DEF NodeOK
<1>6. Len(lg) = Len(s) /\ \A i \in 1..Len(lg) : lg[i] = s[i]
  BY <1>2, <1>3, <1>4 DEF NodeOK, Represents
<1>7. NoNil(lg)
  BY <1>5, <1>6 DEF NoNil
<1>8. /\ lastApplied[n] \in Nat /\ commitIndex[n] \in Nat
      /\ lastApplied[n] <= commitIndex[n] /\ commitIndex[n] <= LastLogIndex(n)
  BY DEF NodeTypeOK, PositionsOrdered
<1> QED BY <1>2, <1>3, <1>7, <1>8

(* The applier delivers the data of what has been committed since.         *)
LEMMA DeliversCommitted ==
  ASSUME NodeTypeOK, LogInv, PositionsOrdered, NEW n \in Node, snapIndex[n] = 0
  PROVE  /\ Delivered(n, commitIndex[n]) \in Seq(Payload)
         /\ Len(Delivered(n, commitIndex[n])) = commitIndex[n] - lastApplied[n]
         /\ \A j \in 1 .. commitIndex[n] - lastApplied[n] :
              Delivered(n, commitIndex[n])[j] = log[n][lastApplied[n] + j].data
<1>1. PICK a, c, lg : a = lastApplied[n] /\ c = commitIndex[n] /\ lg = log[n]
  OBVIOUS
<1>2. /\ lg \in Seq(Entry) /\ Len(lg) \in Nat /\ NoNil(lg)
      /\ a \in Nat /\ c \in Nat /\ a <= c /\ c <= Len(lg)
  BY <1>1, UncompactedLog
<1>3. PICK first, es, data :
        /\ first = Larger(lastApplied[n], snapIndex[n]) + 1
        /\ es = SubSeq(log[n], first - snapIndex[n], Smaller(c - snapIndex[n], Len(log[n])))
        /\ data = [i \in 1..Len(es) |-> es[i].data]
  OBVIOUS
<1>4. es \in Seq(Entry) /\ Len(es) = c - a /\ \A j \in 1 .. c - a : es[j] = lg[a + j]
  <2>0. es = SubSeq(lg, a + 1, c)
    <3>1. first - snapIndex[n] = a + 1 /\ Smaller(c - snapIndex[n], Len(lg)) = c
      BY <1>1, <1>2, <1>3 DEF Larger, Smaller
    <3> QED BY <1>1, <1>3, <3>1
  <2>1. a + 1 \in Nat \ {0} /\ a + 1 <= c + 1 /\ c - (a + 1) + 1 = c - a
    BY <1>2
  <2>2. /\ es \in Seq(Entry) /\ Len(es) = c - (a + 1) + 1
        /\ \A j \in 1 .. c - (a + 1) + 1 : es[j] = lg[(a + 1) + j - 1]
    BY <1>2, <2>0, <2>1, Slice
  <2>3. \A j \in 1 .. c - a : (a + 1) + j - 1 = a + j
    BY <1>2
  <2> QED BY <2>1, <2>2, <2>3
<1>6. /\ data \in Seq(Payload) /\ Len(data) = c - a
      /\ \A j \in 1 .. c - a : data[j] = lg[a + j].data
      /\ {i \in 1..Len(data) : data[i] # NilData} = 1..Len(data)
  <2>1. c - a \in Nat /\ \A j \in 1 .. c - a : a + j \in 1..Len(lg)
    BY <1>2
  <2>2. \A j \in 1 .. c - a : lg[a + j] \in Entry /\ lg[a + j].data # NilData
    BY <1>2, <2>1, EntriesTyped DEF NoNil
  <2>3. \A j \in 1 .. c - a : lg[a + j].data \in Payload /\ lg[a + j].data # NilData
    BY <2>2 DEF Entry
  <2>4. data \in [1 .. c - a -> Payload] /\ \A j \in 1 .. c - a : data[j] = lg[a + j].data
    BY <1>3, <1>4, <2>3
  <2>5. data \in Seq(Payload)
    BY <2>1, <2>4
  <2>6. Len(data) = c - a
    BY <2>1, <2>4, <2>5, LenProperties
  <2> QED BY <2>3, <2>4, <2>5, <2>6
<1>7. Select(data, {i \in 1..Len(data) : data[i] # NilData}) = data
  BY <1>6, SelectAll
<1>8. Delivered(n, c) = data
  <2>1. Delivered(n, c) = Select(data, {i \in 1..Len(data) : data[i] # NilData})
    BY <1>3 DEF Delivered
  <2> QED BY <1>7, <2>1
<1> QED BY <1>1, <1>6, <1>8

(* What a node has applied stays where it is.                              *)
LEMMA AppliedStays ==
  ASSUME NodeTypeOK, NodeTypeOK', PositionsOrdered, PositionsOrdered', CommitsStay,
         NEW n \in Node, snapIndex[n] = 0, snapIndex'[n] = 0
  PROVE  \A i \in 1..commitIndex[n] : log'[n][i] = log[n][i]
<1>1. PICK c, d, l, m : /\ c = commitIndex[n] /\ d = commitIndex'[n]
                        /\ l = LastLogIndex(n) /\ m = LastLogIndex(n)'
  OBVIOUS
<1>2. c \in Nat /\ d \in Nat /\ l \in Nat /\ m \in Nat /\ c <= l /\ d <= m /\ c <= d
  <2>1. c \in Nat /\ d \in Nat
    BY <1>1 DEF NodeTypeOK
  <2>2. l \in Nat /\ m \in Nat
    <3>1. Len(log[n]) \in Nat /\ Len(log'[n]) \in Nat
      BY EntriesTyped DEF NodeTypeOK
    <3> QED BY <1>1, <3>1 DEF LastLogIndex
  <2>3. c <= l /\ d <= m
    BY <1>1 DEF PositionsOrdered
  <2> QED BY <1>1, <2>1, <2>2, <2>3 DEF CommitsStay
<1>3. ASSUME NEW i \in 1..c PROVE log'[n][i] = log[n][i]
  <2>1. i \in 0 + 1 .. l /\ i \in 0 + 1 .. m /\ i - 0 = i
    BY <1>2
  <2>2. Holds(n, i) /\ Holds(n, i)'
    BY <1>1, <2>1 DEF Holds
  <2>3. EntryAt(n, i)' = EntryAt(n, i)
    BY <1>1, <1>3, <2>2 DEF CommitsStay
  <2> QED BY <2>1, <2>3 DEF EntryAt
<1> QED BY <1>1, <1>3

(* So WALs follow their logs.                                              *)
LEMMA WalsFollow ==
  ASSUME MaxSnapshot = 0
  PROVE  Spec => []WalIsApplied
<1>1. Init => WalIsApplied
  BY DEF Init, WalIsApplied
<1>2. /\ TypeOK /\ TypeOK' /\ LogInv /\ PositionsOrdered /\ PositionsOrdered'
      /\ Uncompacted /\ Uncompacted' /\ VotesAreBinding /\ WalIsApplied /\ [Next]_vars
      => WalIsApplied'
  <2> SUFFICES ASSUME TypeOK, TypeOK', LogInv, PositionsOrdered, PositionsOrdered',
                      Uncompacted, Uncompacted', VotesAreBinding, WalIsApplied, [Next]_vars
               PROVE  WalIsApplied'
    OBVIOUS
  <2>1. CASE UNCHANGED vars
    BY <2>1 DEF vars, logVars, applyVars, WalIsApplied
  <2>2. CASE Next
    <3>0. NodeTypeOK /\ NodeTypeOK' /\ wal \in [Node -> Seq(Payload)]
      BY DEF TypeOK
    <3>1. CommitsStay
      BY <2>2, <3>0, StepKeepsCommits
    <3>2. ASSUME NEW n \in Node
          PROVE  /\ snapIndex[n] = 0 /\ lastApplied[n] \in Nat /\ commitIndex[n] \in Nat
                 /\ lastApplied[n] <= commitIndex[n]
                 /\ Len(wal[n]) = lastApplied[n]
                 /\ \A i \in 1..lastApplied[n] : wal[n][i] = log[n][i].data
                 /\ \A i \in 1..commitIndex[n] : log'[n][i] = log[n][i]
      <4>1. snapIndex[n] = 0 /\ snapIndex'[n] = 0
        BY DEF Uncompacted
      <4> QED BY <3>0, <3>1, <4>1, AppliedStays, UncompactedLog DEF WalIsApplied
    <3>3. ASSUME NEW n \in Node, wal'[n] = wal[n], lastApplied'[n] = lastApplied[n]
          PROVE  Len(wal'[n]) = lastApplied'[n]
                 /\ \A i \in 1..lastApplied'[n] : wal'[n][i] = log'[n][i].data
      <4>1. \A i \in 1..lastApplied[n] : i \in 1..commitIndex[n]
        BY <3>2
      <4> QED BY <3>2, <3>3, <4>1
    <3>4. CASE UNCHANGED <<wal, lastApplied>>
      BY <3>3, <3>4 DEF WalIsApplied
    <3>5. CASE \E p \in Node : Apply(p)
      <4>1. PICK p \in Node : Apply(p)
        BY <3>5
      <4>2. PICK a, c, w, d : /\ a = lastApplied[p] /\ c = commitIndex[p] /\ w = wal[p]
                              /\ d = Delivered(p, commitIndex[p])
        OBVIOUS
      <4>3. /\ a \in Nat /\ c \in Nat /\ a <= c /\ w \in Seq(Payload) /\ Len(w) = a
            /\ \A i \in 1..a : w[i] = log[p][i].data
        BY <3>0, <3>2, <4>2
      <4>4. d \in Seq(Payload) /\ Len(d) = c - a /\ \A j \in 1 .. c - a : d[j] = log[p][a + j].data
        BY <3>0, <3>2, <4>2, DeliversCommitted
      <4>5. lastApplied'[p] = c /\ wal'[p] = w \o d /\ log' = log
        <5>1. /\ lastApplied' = [lastApplied EXCEPT ![p] = Larger(a, c)]
              /\ wal' = [wal EXCEPT ![p] = w \o d] /\ log' = log
          BY <4>1, <4>2 DEF Apply, ApplyUpTo, logVars
        <5>2. Larger(a, c) = c
          BY <4>3 DEF Larger
        <5>3. lastApplied \in [Node -> Nat]
          BY <3>0 DEF NodeTypeOK
        <5> QED BY <3>0, <5>1, <5>2, <5>3
      <4>6. Len(w \o d) = c /\ \A i \in 1..c : (w \o d)[i] = log[p][i].data
        <5>1. Len(w \o d) = a + (c - a)
          BY <4>3, <4>4, ConcatProperties
        <5>2. \A i \in 1 .. a + (c - a) : (w \o d)[i] = IF i <= a THEN w[i] ELSE d[i - a]
          BY <4>3, <4>4, ConcatProperties
        <5>3. a + (c - a) = c
          BY <4>3
        <5>4. ASSUME NEW i \in 1..c PROVE (w \o d)[i] = log[p][i].data
          <6>1. CASE i <= a
            <7>1. i \in 1..a
              BY <4>3, <6>1
            <7> QED BY <4>3, <5>2, <5>3, <6>1, <7>1
          <6>2. CASE ~(i <= a)
            <7>1. i - a \in 1 .. c - a /\ a + (i - a) = i
              BY <4>3, <6>2
            <7>2. (w \o d)[i] = d[i - a]
              BY <5>2, <5>3, <6>2
            <7>3. d[i - a] = log[p][a + (i - a)].data
              BY <4>4, <7>1
            <7> QED BY <7>1, <7>2, <7>3
          <6> QED BY <6>1, <6>2
        <5> QED BY <5>1, <5>3, <5>4
      <4>7. ASSUME NEW n \in Node, n # p PROVE wal'[n] = wal[n] /\ lastApplied'[n] = lastApplied[n]
        <5>1. wal \in [Node -> Seq(Payload)] /\ lastApplied \in [Node -> Nat]
          BY <3>0 DEF NodeTypeOK
        <5> QED BY <4>1, <4>7, <5>1 DEF Apply
      <4>8. ASSUME NEW n \in Node
            PROVE  Len(wal'[n]) = lastApplied'[n]
                   /\ \A i \in 1..lastApplied'[n] : wal'[n][i] = log'[n][i].data
        <5>1. CASE n = p
          BY <4>5, <4>6, <5>1
        <5>2. CASE n # p
          BY <3>3, <4>7, <5>2
        <5> QED BY <5>1, <5>2
      <4> QED BY <4>8 DEF WalIsApplied
    <3>6. CASE \E m \in InFlight("SnapshotRequest") : HandleInstallSnapshot(m)
      BY <3>6 DEF InFlight, Uncompacted
    <3>7. CASE \E n \in Node, index \in 1..MaxSnapshot : TakeSnapshot(n, index)
      BY <3>7
    <3> QED BY <2>2, <3>4, <3>5, <3>6, <3>7, WalWriters
  <2> QED BY <2>1, <2>2
<1> QED BY <1>1, <1>2, WholeTypeCorrectness, HistoryExists, PositionsKeepOrder, StaysUncompacted,
       VotesBind, PTL DEF Spec

(* While no snapshot is taken every node's WAL is a copy of the same       *)
(* stream: what WALs hold is committed, and commits agree.                 *)
THEOREM WalsAreCopies ==
  ASSUME MaxSnapshot = 0
  PROVE  Spec => []WalsAgree
<1>1. TypeOK /\ LogInv /\ PositionsOrdered /\ Uncompacted /\ CommittedPrefixesAgree /\ WalIsApplied
      => WalsAgree
  <2> SUFFICES ASSUME TypeOK, LogInv, PositionsOrdered, Uncompacted, CommittedPrefixesAgree,
                      WalIsApplied, NEW a \in Node, NEW b \in Node,
                      NEW i \in 1..Smaller(Len(wal[a]), Len(wal[b]))
               PROVE  wal[a][i] = wal[b][i]
    BY DEF WalsAgree
  <2>1. \A n \in Node : /\ snapIndex[n] = 0 /\ LastLogIndex(n) = Len(log[n]) /\ Len(log[n]) \in Nat
                        /\ lastApplied[n] \in Nat /\ commitIndex[n] \in Nat
                        /\ lastApplied[n] <= commitIndex[n] /\ commitIndex[n] <= Len(log[n])
                        /\ Len(wal[n]) = lastApplied[n]
                        /\ \A j \in 1..lastApplied[n] : wal[n][j] = log[n][j].data
    BY UncompactedLog DEF TypeOK, Uncompacted, WalIsApplied
  <2>2. /\ i \in 1..lastApplied[a] /\ i \in 1..lastApplied[b] /\ i - 0 = i
        /\ i \in 0 + 1 .. Len(log[a]) /\ i \in 0 + 1 .. Len(log[b])
        /\ i \in Larger(0, 0) .. Smaller(commitIndex[a], commitIndex[b])
    BY SMTT(20), <2>1 DEF Smaller, Larger
  <2>3. Holds(a, i) /\ Holds(b, i)
    BY <2>1, <2>2 DEF Holds
  <2>4. EntryAt(a, i) = EntryAt(b, i)
    BY <2>1, <2>2, <2>3 DEF CommittedPrefixesAgree
  <2>5. log[a][i] = log[b][i]
    BY <2>1, <2>2, <2>4 DEF EntryAt
  <2> QED BY <2>1, <2>2, <2>5
<1> QED BY <1>1, WholeTypeCorrectness, HistoryExists, PositionsKeepOrder, StaysUncompacted,
       CommitsAgree, WalsFollow, PTL

(* And what the applier has moved past is in the WAL, one frame an index.  *)
THEOREM AppliedReachesWal ==
  ASSUME MaxSnapshot = 0
  PROVE  Spec => []AppliedIsInWal
<1>1. WalIsApplied => AppliedIsInWal
  BY DEF WalIsApplied, AppliedIsInWal
<1> QED BY <1>1, WalsFollow, PTL

-----------------------------------------------------------------------------
(* The cluster implements ReplicatedLog.                                   *)

\* The stream reaches as far as some commit index, and every node's committed
\* entries are its beginning.
StreamOK ==
  /\ Committed \in Seq(Payload)
  /\ \E n \in Node : Len(Committed) = commitIndex[n]
  /\ \A n \in Node :
       /\ commitIndex[n] <= Len(Committed)
       /\ \A i \in 1..commitIndex[n] : log[n][i].data = Committed[i]

(* What the node furthest ahead has committed, they all have as far as     *)
(* they are.                                                               *)
LEMMA StreamIsCommitted ==
  ASSUME NodeTypeOK, LogInv, PositionsOrdered, Uncompacted, CommittedPrefixesAgree
  PROVE  StreamOK
<1>1. \E n \in Node : \A p \in Node : commitIndex[p] <= commitIndex[n]
  BY FurthestExists, NodeAssumption DEF NodeTypeOK
<1>2. PICK ahead : ahead = CHOOSE n \in Node : \A p \in Node : commitIndex[p] <= commitIndex[n]
  OBVIOUS
<1>3. ahead \in Node /\ \A p \in Node : commitIndex[p] <= commitIndex[ahead]
  BY <1>1, <1>2
<1>4. \A n \in Node : /\ snapIndex[n] = 0 /\ log[n] \in Seq(Entry) /\ Len(log[n]) \in Nat
                      /\ NoNil(log[n]) /\ LastLogIndex(n) = Len(log[n])
                      /\ commitIndex[n] \in Nat /\ commitIndex[n] <= Len(log[n])
  BY UncompactedLog DEF Uncompacted
<1>5. PICK c, lg, s : /\ c = commitIndex[ahead] /\ lg = log[ahead]
                      /\ s = [i \in 1..commitIndex[ahead] |-> log[ahead][i].data]
  OBVIOUS
<1>6. Committed = s
  BY <1>2, <1>5 DEF Committed
<1>7. /\ c \in Nat /\ s \in Seq(Payload) /\ Len(s) = c
      /\ \A i \in 1..c : s[i] = lg[i].data
  <2>1. c \in Nat /\ c <= Len(lg) /\ lg \in Seq(Entry) /\ Len(lg) \in Nat /\ NoNil(lg)
    BY <1>3, <1>4, <1>5
  <2>2. \A i \in 1..c : i \in 1..Len(lg)
    BY <2>1
  <2>3. \A i \in 1..c : lg[i] \in Entry /\ lg[i].data # NilData
    BY <2>1, <2>2, EntriesTyped DEF NoNil
  <2>4. \A i \in 1..c : lg[i].data \in Payload
    BY <2>3 DEF Entry
  <2>5. s \in [1..c -> Payload] /\ \A i \in 1..c : s[i] = lg[i].data
    BY <1>5, <2>4
  <2>6. s \in Seq(Payload)
    BY <2>1, <2>5
  <2> QED BY <2>1, <2>5, <2>6, LenProperties
<1>8. ASSUME NEW n \in Node
      PROVE  commitIndex[n] <= c /\ \A i \in 1..commitIndex[n] : log[n][i].data = s[i]
  <2>1. commitIndex[n] <= c
    BY <1>3, <1>5
  <2>2. ASSUME NEW i \in 1..commitIndex[n] PROVE log[n][i].data = s[i]
    <3>1. /\ i \in Larger(0, 0) .. Smaller(commitIndex[n], commitIndex[ahead])
          /\ i \in 0 + 1 .. LastLogIndex(n) /\ i \in 0 + 1 .. LastLogIndex(ahead)
          /\ i - 0 = i /\ i \in 1..c
      BY <1>3, <1>4, <1>5, <2>1 DEF Larger, Smaller
    <3>2. snapIndex[n] = 0 /\ snapIndex[ahead] = 0
      BY <1>3, <1>4
    <3>3. Holds(n, i) /\ Holds(ahead, i)
      BY <3>1, <3>2 DEF Holds
    <3>4. EntryAt(n, i) = EntryAt(ahead, i)
      BY <1>3, <3>1, <3>2, <3>3 DEF CommittedPrefixesAgree
    <3>5. log[n][i] = lg[i]
      BY <1>5, <3>1, <3>2, <3>4 DEF EntryAt
    <3> QED BY <1>7, <3>1, <3>5
  <2> QED BY <2>1, <2>2
<1> QED BY <1>3, <1>5, <1>6, <1>7, <1>8 DEF StreamOK

(* A sequence that agrees with a longer one as far as it goes is its       *)
(* beginning.                                                              *)
LEMMA Beginning ==
  ASSUME NEW S, NEW s \in Seq(S), NEW r \in Seq(S), Len(s) <= Len(r),
         \A i \in 1..Len(s) : r[i] = s[i]
  PROVE  SubSeq(r, 1, Len(s)) = s
<1>1. Len(s) \in Nat /\ Len(r) \in Nat
  BY LenProperties
<1>2. \A i \in 1..Len(s) : r[i] \in S
  BY <1>1, ElementOfSeq
<1>3. PICK b : b = SubSeq(r, 1, Len(s))
  OBVIOUS
<1>4. /\ b \in Seq(S) /\ Len(b) = IF 1 <= Len(s) THEN Len(s) - 1 + 1 ELSE 0
      /\ \A i \in 1 .. Len(s) - 1 + 1 : b[i] = r[1 + i - 1]
  BY <1>1, <1>2, <1>3, SubSeqProperties
<1>5. Len(b) = Len(s) /\ \A i \in 1..Len(s) : b[i] = s[i]
  <2>1. Len(b) = Len(s) /\ Len(s) - 1 + 1 = Len(s)
    BY <1>1, <1>4
  <2>2. \A i \in 1..Len(s) : 1 + i - 1 = i
    BY <1>1
  <2> QED BY <1>4, <2>1, <2>2
<1> QED BY <1>3, <1>4, <1>5, SeqEqual

(* No step shortens or changes the stream.                                 *)
LEMMA StreamExtends ==
  ASSUME NodeTypeOK, NodeTypeOK', PositionsOrdered, PositionsOrdered', Uncompacted, Uncompacted',
         CommitsStay, StreamOK, StreamOK'
  PROVE  Replicated!Extends(Committed', Committed)
<1>1. PICK s, r : s = Committed /\ r = Committed'
  OBVIOUS
<1>2. PICK n \in Node : Len(s) = commitIndex[n]
  BY <1>1 DEF StreamOK
<1>3. PICK c, d : c = commitIndex[n] /\ d = commitIndex'[n]
  OBVIOUS
<1>4. /\ s \in Seq(Payload) /\ r \in Seq(Payload) /\ Len(s) = c /\ d <= Len(r)
      /\ \A i \in 1..c : log[n][i].data = s[i]
      /\ \A i \in 1..d : log'[n][i].data = r[i]
  BY <1>1, <1>2, <1>3 DEF StreamOK
<1>5. c \in Nat /\ d \in Nat /\ c <= d /\ Len(r) \in Nat
  <2>1. c \in Nat /\ d \in Nat
    BY <1>3 DEF NodeTypeOK
  <2> QED BY <1>3, <1>4, <2>1, LenProperties DEF CommitsStay
<1>6. \A i \in 1..c : log'[n][i] = log[n][i]
  <2>1. snapIndex[n] = 0 /\ snapIndex'[n] = 0
    BY DEF Uncompacted
  <2> QED BY <1>3, <2>1, AppliedStays
<1>7. \A i \in 1..c : i \in 1..d
  BY <1>5
<1>8. \A i \in 1..c : r[i] = s[i]
  BY <1>4, <1>6, <1>7
<1>9. SubSeq(r, 1, Len(s)) = s
  BY <1>4, <1>5, <1>8, Beginning
<1>10. Len(s) <= Len(r)
  BY <1>4, <1>5
<1> QED BY <1>1, <1>9, <1>10 DEF Replicated!Extends

(* Only the return of a Propose call adds to what was answered.            *)
LEMMA Answerers ==
  ASSUME Next
  PROVE  (\E p \in proposals : ProposeReturns(p)) \/ UNCHANGED acked
<1> USE DEF electionFrame, replicationFrame, clientVars
<1>1. CASE \E n \in Node : \/ ElectionTimeout(n) \/ ElectionTimeoutUnopposed(n)
                           \/ PreVoteWon(n) \/ PreVoteEnds(n)
  BY <1>1 DEF ElectionTimeout, ElectionTimeoutUnopposed, PreVoteWon, PreVoteEnds
<1>2. CASE \E m \in InFlight("VoteRequest") : HandleRequestVote(m)
  BY <1>2 DEF HandleRequestVote, HandlePreVote, AnswerPreVote, HandleVote
<1>3. CASE \E m \in InFlight("VoteReply") : HandleVoteReply(m)
  BY <1>3 DEF HandleVoteReply, ReceivePreVote, ReceiveVote
<1>4. CASE \E n \in Node : Heartbeat(n)
  BY <1>4 DEF Heartbeat
<1>5. CASE \E n \in Node, data \in Payload : Propose(n, data)
  BY <1>5 DEF Propose
<1>6. CASE \E p \in proposals : ProposeReturns(p) \/ ProposeFails(p)
  BY <1>6 DEF ProposeFails
<1>7. CASE \E m \in InFlight("AppendRequest") : HandleAppendEntries(m)
  BY <1>7 DEF HandleAppendEntries, RejectStaleAppend, AppendCompacted, HandleCurrentAppend
<1>8. CASE \E m \in InFlight("AppendReply") : HandleAppendReply(m)
  BY <1>8 DEF HandleAppendReply, ReplyIgnored, AppendSucceeded, AppendRefused
<1>9. CASE \E m \in InFlight("SnapshotRequest") : HandleInstallSnapshot(m)
  BY <1>9 DEF HandleInstallSnapshot
<1>10. CASE \E m \in InFlight("SnapshotReply") : HandleSnapshotReply(m)
  BY <1>10 DEF HandleSnapshotReply, ReplyIgnored, SnapshotInstalled
<1>11. CASE \E n \in Node, index \in 1..MaxSnapshot : TakeSnapshot(n, index)
  BY <1>11 DEF TakeSnapshot
<1>12. CASE \E n \in Node : Apply(n)
  BY <1>12 DEF Apply
<1>13. CASE \E m \in BagToSet(msgs) : LoseRpc(m)
  BY <1>13 DEF LoseRpc
<1> QED BY <1>1, <1>2, <1>3, <1>4, <1>5, <1>6, <1>7, <1>8, <1>9, <1>10, <1>11, <1>12, <1>13
     DEF Next, ElectionNext, ReplicationNext

\* The index and payload of every Propose call that succeeded.
Answered == {<<p.index, p.data>> : p \in acked}

(* The applier moves a WAL on along the stream.                            *)
LEMMA ApplyDelivers ==
  ASSUME TypeOK, NodeTypeOK', PositionsOrdered, WalIsApplied, WalIsApplied',
         StreamOK, NEW n \in Node, Apply(n), TypeOK'
  PROVE  /\ log' = log /\ commitIndex' = commitIndex /\ acked' = acked
         /\ \E k \in Len(wal[n]) .. Len(Committed) :
              wal' = [wal EXCEPT ![n] = SubSeq(Committed, 1, k)]
<1>1. log' = log /\ commitIndex' = commitIndex /\ acked' = acked
  BY DEF Apply, logVars, replicationFrame, clientVars
<1>2. PICK a, c, s, w : a = lastApplied[n] /\ c = commitIndex[n] /\ s = Committed /\ w = wal'[n]
  OBVIOUS
<1>3. a \in Nat /\ c \in Nat /\ a <= c /\ Len(wal[n]) = a
  BY <1>2 DEF TypeOK, NodeTypeOK, PositionsOrdered, WalIsApplied
<1>4. /\ s \in Seq(Payload) /\ Len(s) \in Nat /\ c <= Len(s)
      /\ \A i \in 1..c : log[n][i].data = s[i]
  BY <1>2, LenProperties DEF StreamOK
<1>5. lastApplied'[n] = c
  <2>1. lastApplied' = [lastApplied EXCEPT ![n] = Larger(a, c)]
    BY <1>2 DEF Apply, ApplyUpTo
  <2>2. lastApplied \in [Node -> Nat]
    BY DEF TypeOK, NodeTypeOK
  <2> QED BY <1>3, <2>1, <2>2 DEF Larger
<1>6. w \in Seq(Payload) /\ Len(w) = c /\ \A i \in 1..c : w[i] = log[n][i].data
  BY <1>1, <1>2, <1>5 DEF TypeOK, WalIsApplied
<1>7. SubSeq(s, 1, Len(w)) = w
  BY <1>4, <1>6, Beginning
<1>8. wal' = [wal EXCEPT ![n] = SubSeq(s, 1, c)]
  <2>1. PICK x : wal' = [wal EXCEPT ![n] = x]
    BY DEF Apply
  <2>2. wal'[n] = x
    BY <2>1 DEF TypeOK
  <2> QED BY <1>2, <1>6, <1>7, <2>1, <2>2
<1>9. c \in Len(wal[n]) .. Len(Committed)
  BY <1>2, <1>3, <1>4
<1> QED BY <1>1, <1>2, <1>8, <1>9

(* A Propose call returns an index that holds its payload in the stream.   *)
LEMMA ReturnAnswers ==
  ASSUME NodeTypeOK, LogInv, Uncompacted, StreamOK, NEW p \in proposals, ProposeReturns(p)
  PROVE  /\ log' = log /\ commitIndex' = commitIndex /\ wal' = wal
         /\ \E i \in 1..Len(Committed) : Answered' = Answered \cup {<<i, Committed[i]>>}
<1>1. log' = log /\ commitIndex' = commitIndex /\ wal' = wal /\ acked' = acked \cup {p}
  BY DEF ProposeReturns, logVars, applyVars
<1>2. PICK h \in History : Explains(h)
  BY DEF LogInv
<1>3. PICK n, i, t, s : n = p.node /\ i = p.index /\ t = p.term /\ s = Committed
  OBVIOUS
<1>4. n \in Node /\ i \in Nat /\ t \in Nat /\ role[n] = Leader /\ currentTerm[n] = t /\ i <= commitIndex[n]
  BY <1>3 DEF NodeTypeOK, ProposeReturns, ProposalCommitted
<1>5. ProposalOK(h, p) /\ LeaderOK(h, n) /\ NodeOK(h, n)
  BY <1>2, <1>4 DEF Explains
<1>6. /\ i \in 1..Len(h.log[t]) /\ h.log[t][i].data = p.data /\ h.whole[n] = h.log[t]
  BY <1>3, <1>4, <1>5 DEF ProposalOK, LeaderOK
<1>7. log[n][i].data = p.data
  <2>1. PICK lg, r : lg = log[n] /\ r = h.whole[n]
    OBVIOUS
  <2>2. Len(lg) = Len(r) /\ \A j \in 1..Len(lg) : lg[j] = r[j]
    <3>1. lg \in Seq(Entry) /\ r \in Seq(Entry) /\ Len(lg) \in Nat /\ snapIndex[n] = 0
      BY <1>4, <2>1, HistoryTypes, EntriesTyped DEF NodeTypeOK, Uncompacted
    <3>2. \A j \in 1..Len(lg) : 0 + j = j
      BY <3>1
    <3> QED BY <1>5, <2>1, <3>1, <3>2 DEF NodeOK, Represents, LastLogIndex
  <2> QED BY <1>6, <2>1, <2>2
<1>8. i \in 1..Len(s) /\ i \in 1..commitIndex[n]
  <2>1. commitIndex[n] \in Nat /\ Len(s) \in Nat /\ commitIndex[n] <= Len(s)
    BY <1>3, <1>4, LenProperties DEF StreamOK, NodeTypeOK
  <2>2. i >= 1
    <3>1. Len(h.log[t]) \in Nat
      BY <1>4, HistoryTypes, EntriesTyped
    <3> QED BY <1>4, <1>6, <3>1
  <2> QED BY <1>4, <2>1, <2>2
<1>9. s[i] = p.data
  BY <1>3, <1>4, <1>7, <1>8 DEF StreamOK
<1>10. Answered' = Answered \cup {<<i, s[i]>>}
  BY <1>1, <1>3, <1>9 DEF Answered
<1> QED BY <1>1, <1>3, <1>8, <1>10

(* Every step is one of ReplicatedLog's, or changes nothing that it sees.  *)
LEMMA StepImplements ==
  ASSUME TypeOK, TypeOK', LogInv, PositionsOrdered, PositionsOrdered', VotesAreBinding,
         Uncompacted, Uncompacted', WalIsApplied, WalIsApplied', StreamOK, StreamOK', Next
  PROVE  Replicated!Next \/ UNCHANGED <<Committed, wal, Answered>>
<1>0. NodeTypeOK /\ NodeTypeOK'
  BY DEF TypeOK
<1>1. log' = log /\ commitIndex' = commitIndex => Committed' = Committed
  BY DEF Committed
<1>2. CASE \E n \in Node : Apply(n)
  <2>1. PICK n \in Node : Apply(n)
    BY <1>2
  <2>2. /\ Committed' = Committed /\ acked' = acked
        /\ \E k \in Len(wal[n]) .. Len(Committed) :
             wal' = [wal EXCEPT ![n] = SubSeq(Committed, 1, k)]
    BY <1>0, <1>1, <2>1, ApplyDelivers
  <2> QED BY <2>2 DEF Replicated!Next, Replicated!Deliver
<1>3. CASE \E p \in proposals : ProposeReturns(p)
  <2>1. PICK p \in proposals : ProposeReturns(p)
    BY <1>3
  <2>2. /\ Committed' = Committed /\ wal' = wal
        /\ \E i \in 1..Len(Committed) : Answered' = Answered \cup {<<i, Committed[i]>>}
    BY <1>0, <1>1, <2>1, ReturnAnswers
  <2> QED BY <2>2 DEF Replicated!Next, Replicated!Answer, Answered
<1>4. CASE UNCHANGED <<wal, acked>>
  <2>1. Replicated!Extends(Committed', Committed)
    <3>1. CommitsStay
      BY <1>0, StepKeepsCommits
    <3> QED BY <1>0, <3>1, StreamExtends
  <2>2. Committed' \in Seq(Payload)
    BY DEF StreamOK
  <2> QED BY <1>4, <2>1, <2>2 DEF Replicated!Next, Replicated!Commit
<1>5. UNCHANGED wal \/ \E n \in Node : Apply(n)
  BY WalWriters
<1> QED BY <1>2, <1>3, <1>4, <1>5, Answerers

(* While no snapshot is taken the cluster implements the replicated log:   *)
(* through elections, lost RPCs and deposed leaders no committed payload   *)
(* is replaced, no WAL leaves the stream, and a Propose call returns an    *)
(* index that holds its payload.                                           *)
THEOREM ImplementsReplicatedLog ==
  ASSUME MaxSnapshot = 0
  PROVE  Spec => IsReplicatedLog
<1> DEFINE Inv == /\ TypeOK /\ LogInv /\ PositionsOrdered /\ VotesAreBinding
                  /\ Uncompacted /\ WalIsApplied /\ StreamOK
<1>1. Spec => []StreamOK
  <2>1. NodeTypeOK /\ LogInv /\ PositionsOrdered /\ Uncompacted /\ CommittedPrefixesAgree => StreamOK
    BY StreamIsCommitted
  <2> QED BY <2>1, TypeCorrectness, HistoryExists, PositionsKeepOrder, StaysUncompacted,
             CommitsAgree, PTL
<1>2. Spec => []Inv
  BY <1>1, WholeTypeCorrectness, HistoryExists, PositionsKeepOrder, VotesBind, StaysUncompacted,
     WalsFollow, PTL
<1>3. Init /\ Inv => Replicated!Init
  <2> SUFFICES ASSUME Init, StreamOK PROVE Replicated!Init
    BY DEF Inv
  <2>1. \A n \in Node : commitIndex[n] = 0
    BY DEF Init
  <2>2. Committed \in Seq(Payload) /\ Len(Committed) = 0
    BY <2>1 DEF StreamOK
  <2>3. Committed = <<>>
    BY <2>2, EmptySeq
  <2> QED BY <2>3 DEF Init, Replicated!Init
<1>4. Inv /\ Inv' /\ [Next]_vars => [Replicated!Next]_<<Committed, wal, {<<p.index, p.data>> : p \in acked}>>
  <2> SUFFICES ASSUME Inv, Inv', [Next]_vars
               PROVE  Replicated!Next \/ UNCHANGED <<Committed, wal, Answered>>
    BY DEF Answered
  <2>1. CASE UNCHANGED vars
    BY <2>1 DEF vars, logVars, applyVars, clientVars, Committed, Answered
  <2>2. CASE Next
    BY <2>2, StepImplements
  <2> QED BY <2>1, <2>2
<1> QED
  <2>1. Spec => Init /\ [][Next]_vars
    BY DEF Spec
  <2>2. Spec => Replicated!Init /\ [][Replicated!Next]_<<Committed, wal, {<<p.index, p.data>> : p \in acked}>>
    BY <1>2, <1>3, <1>4, <2>1, PTL
  <2> QED BY <2>2, PTL DEF IsReplicatedLog, Replicated!Spec
=============================================================================
