----------------------- MODULE RaftReplicationProofs -----------------------
(***************************************************************************)
(* The steps of replication that change logs, positions or a leader's      *)
(* bookkeeping continue the history of the cluster.                        *)
(***************************************************************************)
EXTENDS RaftStepProofs

-----------------------------------------------------------------------------
(* The leader appends.                                                     *)

(* A log with an entry of term T appended.                                 *)
LEMMA Appended ==
  ASSUME NEW s \in Seq(Entry), NEW T \in Nat, \A i \in 1..Len(s) : s[i].term <= T, NoNil(s),
         NEW e \in Entry, e.term = T, e.data # NilData
  PROVE  /\ Append(s, e) \in Seq(Entry) /\ Len(Append(s, e)) = Len(s) + 1
         /\ Agree(Append(s, e), s, Len(s)) /\ Append(s, e)[Len(s) + 1] = e
         /\ \A i \in 1..Len(s) + 1 : Append(s, e)[i].term <= T
         /\ NoNil(Append(s, e))
<1>0. PICK r : r = Append(s, e)
  OBVIOUS
<1>1. /\ r \in Seq(Entry) /\ Len(r) = Len(s) + 1 /\ Len(s) \in Nat
      /\ r[Len(s) + 1] = e /\ \A i \in 1..Len(s) : r[i] = s[i]
  BY <1>0, AppendProperties, EntriesTyped
<1>2. \A i \in 1..Len(r) : i \in 1..Len(s) \/ i = Len(s) + 1
  BY <1>1
<1>3. Agree(r, s, Len(s))
  BY <1>1 DEF Agree
<1>4. \A i \in 1..Len(r) : r[i].term <= T
  BY <1>1, <1>2
<1>5. NoNil(r)
  BY <1>1, <1>2 DEF NoNil
<1> QED BY <1>0, <1>1, <1>3, <1>4, <1>5

(* A chain with an entry of term T appended that the log of T has there,   *)
(* too, is a chain.                                                        *)
LEMMA ChainAppended ==
  ASSUME NEW g \in History, NEW s \in Seq(Entry), NEW r \in Seq(Entry), NEW T \in Nat,
         Chain(g, s), Agree(r, s, Len(s)), Len(r) = Len(s) + 1, r[Len(s) + 1].term = T,
         g.log[T] = r
  PROVE  Chain(g, r)
<1>1. Len(s) \in Nat /\ \A i \in 1..Len(s) : r[i] = s[i]
  BY EntriesTyped DEF Agree
<1>2. ASSUME NEW i \in 1..Len(r) PROVE Agree(r, g.log[r[i].term], i)
  <2>1. CASE i = Len(s) + 1
    <3>1. g.log[r[i].term] = r /\ i <= Len(r)
      BY <2>1
    <3> QED BY <3>1 DEF Agree
  <2>2. CASE i \in 1..Len(s)
    <3>1. r[i] = s[i] /\ Agree(s, g.log[s[i].term], i)
      BY <1>1, <2>2 DEF Chain
    <3>2. i \in Nat /\ i <= Len(s)
      BY <1>1, <2>2
    <3>3. Agree(r, s, i)
      BY <1>1, <3>2, AgreeBelow
    <3> QED BY <3>1, <3>3, AgreeThrough
  <2> QED BY <1>1, <2>1, <2>2
<1> QED BY <1>2 DEF Chain

(* What voters had stored is in any log that goes on where s ends.         *)
LEMMA KeptInLonger ==
  ASSUME NEW h \in History, NEW v \in Node, NEW t \in Nat, NEW u \in Nat,
         NEW s \in Seq(Entry), NEW r \in Seq(Entry), Agree(r, s, Len(s)), Kept(h, v, t, s, u)
  PROVE  Kept(h, v, t, r, u)
<1>1. ASSUME NEW i, HasIn(s, i, t) PROVE HasIn(r, i, t)
  <2>1. i \in 1..Len(s) /\ Len(s) \in Nat /\ Len(r) \in Nat /\ Len(s) <= Len(r) /\ r[i] = s[i]
    BY <1>1, EntriesTyped DEF HasIn, Agree
  <2> QED BY <1>1, <2>1 DEF HasIn
<1> QED BY <1>1 DEF Kept

(* Propose: the log of the leader is the log of its term, so the term's    *)
(* log gets the entry; the leader has stored it as soon as it has it.      *)
LEMMA ProposeExplained ==
  ASSUME NodeTypeOK, NodeTypeOK', VotesAreBinding, NEW h \in History, Explains(h),
         NEW n \in Node, NEW data \in Payload, Propose(n, data)
  PROVE  Continues(h)
<1>0. PICK T, s, e, lg, r : /\ T = currentTerm[n] /\ s = h.whole[n]
                            /\ e = [term |-> T, data |-> data]
                            /\ lg = Append(log[n], e) /\ r = Append(s, e)
  OBVIOUS
<1>1. /\ HistoryOK(h) /\ NodeOK(h, n) /\ LeaderOK(h, n) /\ CommitOK(h, n) /\ role[n] = Leader
      /\ T \in Nat /\ log[n] \in Seq(Entry) /\ commitIndex[n] \in Nat /\ snapIndex[n] \in Nat
      /\ lastApplied[n] \in Nat /\ nextIndex[n] \in [Node -> Nat] /\ currentTerm[n] <= T
  BY <1>0 DEF Explains, NodeTypeOK, Propose
<1>2. /\ h.leader[T] = n /\ s = h.log[T] /\ h.stored[T][n] = Len(s)
      /\ \A p \in Node : /\ matchIndex[n][p] <= h.stored[T][p]
                         /\ nextIndex[n][p] <= Len(s) + 1
  BY <1>0, <1>1 DEF LeaderOK
<1>3. Elected(h, T) /\ T >= 1
  <2>1. Elected(h, T)
    BY <1>2, NodeAssumption DEF Elected
  <2> QED BY <1>1, <2>1 DEF HistoryOK
<1>4. /\ s \in Seq(Entry) /\ Len(s) \in Nat /\ e \in Entry /\ e.term = T /\ e.data = data
      /\ e.data # NilData
  BY <1>0, <1>1, HistoryTypes, EntriesTyped, DataAssumption DEF Entry
<1>5. /\ r \in Seq(Entry) /\ Len(r) = Len(s) + 1 /\ Agree(r, s, Len(s)) /\ r[Len(r)] = e
      /\ \A i \in Len(s) + 1 .. Len(r) : r[i].term = T
      /\ \A i \in 1..Len(r) : r[i].term <= T
      /\ NoNil(r)
  <2>1. (\A i \in 1..Len(s) : s[i].term <= T) /\ NoNil(s)
    BY <1>1, <1>2 DEF HistoryOK
  <2>a. r = Append(s, e) /\ s \in Seq(Entry) /\ T \in Nat
    BY <1>0, <1>1, <1>4
  <2>b. e \in Entry /\ e.term = T /\ e.data # NilData
    BY <1>4
  <2>2. /\ r \in Seq(Entry) /\ Len(r) = Len(s) + 1 /\ Agree(r, s, Len(s)) /\ r[Len(s) + 1] = e
        /\ (\A i \in 1..Len(s) + 1 : r[i].term <= T) /\ NoNil(r)
    BY ONLY <2>a, <2>b, <2>1, Appended
  <2>3. \A i \in Len(s) + 1 .. Len(r) : i = Len(s) + 1
    BY <1>4, <2>2
  <2> QED BY <1>4, <2>2, <2>3
<1>6. PICK reached \in SUBSET Peers(n) :
        Exchange({}, BroadcastRpcs(n, reached, lg, commitIndex[n], nextIndex[n]))
  BY <1>0 DEF Propose
<1>7. /\ log'[n] = lg /\ \A p \in Node \ {n} : log'[p] = log[p]
      /\ UNCHANGED <<electionVars, votes, snapIndex, snapTerm, commitIndex, lastApplied, leaderVars, acked>>
      /\ proposals' = proposals \cup
           {[node |-> n, index |-> LastLogIndex(n) + 1, term |-> T, data |-> data]}
  BY <1>0 DEF Propose, NodeTypeOK, applyVars, ballotVars
<1>8. PICK g \in History : /\ Grows(h, g, n, T)
                           /\ g.leader[T] = n /\ g.quorum[T] = h.quorum[T] /\ g.log[T] = r
                           /\ g.stored[T][n] = Len(r) /\ g.whole[n] = r
  <2>1. PICK V \in SUBSET Node : V = h.quorum[T]
    BY <1>1, HistoryTypes
  <2>2. MayGrow(h, n, T, n, V, r, Len(r))
    BY <1>2, <1>4, <1>5, <2>1 DEF MayGrow
  <2>3. Len(r) \in Nat
    BY <1>4, <1>5
  <2>4. \E g \in History : /\ Grows(h, g, n, T)
                           /\ g.leader[T] = n /\ g.quorum[T] = V /\ g.log[T] = r
                           /\ g.stored[T][n] = Len(r) /\ g.whole[n] = r
    BY <1>1, <1>5, <2>2, <2>3, HistoryExtended
  <2> QED BY <2>1, <2>4
<1>9. Chain(g, r)
  <2>1. Chain(g, s)
    BY <1>1, <1>2, <1>4, <1>8, ChainGrows DEF HistoryOK
  <2>2. r[Len(s) + 1].term = T
    BY <1>4, <1>5
  <2> QED BY <1>1, <1>4, <1>5, <1>8, <2>1, <2>2, ChainAppended
<1>10. HistoryOK(g)
  <2>1. Elected(g, T) /\ Cardinality(g.quorum[T]) >= Quorum
    BY <1>1, <1>2, <1>3, <1>8 DEF HistoryOK, Elected
  <2>2. ASSUME NEW v \in g.quorum[T], NEW u \in 0..T - 1 PROVE Kept(h, v, u, g.log[T], T - 1)
    <3>1. v \in Node /\ u \in Nat /\ T - 1 \in Nat
      BY <1>1, <1>3, HistoryTypes
    <3>2. Kept(h, v, u, s, T - 1)
      BY <1>1, <1>2, <1>3, <1>8 DEF HistoryOK
    <3> QED BY <1>4, <1>5, <1>8, <3>1, <3>2, KeptInLonger
  <2>3. g.stored[T][n] <= Len(g.log[T]) /\ T # 0 /\ currentTerm[n] <= T
    BY <1>0, <1>1, <1>3, <1>4, <1>5, <1>8
  <2> QED BY <1>1, <1>5, <1>8, <1>9, <2>1, <2>2, <2>3, HistoryGrows
<1>11. /\ snapIndex[n] + Len(log[n]) = Len(s) /\ snapIndex[n] <= Len(s)
       /\ \A i \in 1..Len(log[n]) : log[n][i] = s[snapIndex[n] + i]
       /\ snapTerm[n] = TermAt(s, snapIndex[n])
  <2>1. Represents(h, n)
    BY <1>1 DEF NodeOK
  <2>2. snapIndex[n] <= Len(s)
    BY <1>0, <2>1, Representation
  <2> QED BY <1>0, <2>1, <2>2 DEF Represents, LastLogIndex
<1>12. /\ lg \in Seq(Entry) /\ snapIndex[n] + Len(lg) = Len(r)
       /\ \A i \in 1..Len(lg) : lg[i] = r[snapIndex[n] + i]
       /\ snapTerm[n] = TermAt(r, snapIndex[n])
  <2>1. /\ lg \in Seq(Entry) /\ Len(lg) = Len(log[n]) + 1 /\ Len(log[n]) \in Nat
        /\ \A i \in 1..Len(log[n]) : lg[i] = log[n][i]
        /\ lg[Len(log[n]) + 1] = e
    BY <1>0, <1>1, <1>4, AppendProperties
  <2>2. ASSUME NEW i \in 1..Len(lg) PROVE lg[i] = r[snapIndex[n] + i]
    <3>1. CASE i \in 1..Len(log[n])
      <4>1. snapIndex[n] + i \in 1..Len(s)
        BY <1>1, <1>4, <1>11, <2>1, <3>1
      <4>2. r[snapIndex[n] + i] = s[snapIndex[n] + i]
        BY <1>5, <4>1 DEF Agree
      <4> QED BY <1>11, <2>1, <3>1, <4>2
    <3>2. CASE i = Len(log[n]) + 1
      <4>1. snapIndex[n] + i = Len(r)
        BY <1>1, <1>4, <1>5, <1>11, <2>1, <3>2
      <4> QED BY <1>5, <2>1, <3>2, <4>1
    <3> QED BY <2>1, <3>1, <3>2
  <2>3. TermAt(r, snapIndex[n]) = TermAt(s, snapIndex[n])
    <3>1. snapIndex[n] \in 1..Len(r) <=> snapIndex[n] \in 1..Len(s)
      BY <1>1, <1>4, <1>5, <1>11
    <3>2. snapIndex[n] \in 1..Len(s) => r[snapIndex[n]] = s[snapIndex[n]]
      BY <1>5 DEF Agree
    <3> QED BY <3>1, <3>2 DEF TermAt
  <2>4. snapIndex[n] + Len(lg) = Len(r)
    <3>1. Len(r) = Len(s) + 1 /\ snapIndex[n] + Len(log[n]) = Len(s)
      BY <1>5, <1>11
    <3>2. snapIndex[n] \in Nat
      BY <1>1
    <3> QED BY <1>4, <2>1, <3>1, <3>2
  <2> QED BY <1>11, <2>1, <2>2, <2>3, <2>4
<1>13. NodeOK(g, n)'
  <2>1. Represents(g, n)'
    BY <1>7, <1>8, <1>12 DEF Represents, LastLogIndex
  <2>2. currentTerm'[n] = T
    BY <1>0, <1>7 DEF electionVars
  <2>3. ASSUME NEW t \in Nat, t > T PROVE g.stored[t][n] = 0
    <3>1. h.stored[t][n] = 0
      BY <1>0, <1>1, <2>3 DEF NodeOK
    <3>2. t # T
      BY <1>1, <2>3
    <3> QED BY <1>8, <3>1, <3>2 DEF Grows
  <2>4. Agree(r, r, Len(r))
    BY <1>4, <1>5 DEF Agree
  <2>5. ASSUME NEW t \in 0..T - 1 PROVE Kept(g, n, t, r, T)
    <3>1. Kept(h, n, t, s, T)
      BY <1>0, <1>1, KeptLater
    <3>2. t \in Nat /\ g.stored[t][n] = h.stored[t][n]
      BY <1>1, <1>8 DEF Grows
    <3>3. Kept(h, n, t, r, T)
      BY <1>1, <1>4, <1>5, <3>1, <3>2, KeptInLonger
    <3> QED BY <1>1, <1>8, <3>2, <3>3, KeptGrows
  <2> QED BY <1>5, <1>8, <1>9, <2>1, <2>2, <2>3, <2>4, <2>5 DEF NodeOK
<1>14. LeaderOK(g, n)'
  <2>1. ASSUME NEW p \in Node
        PROVE  matchIndex[n][p] <= g.stored[T][p] /\ nextIndex[n][p] <= Len(r) + 1
    <3>1. /\ h.stored[T][p] <= g.stored[T][p] /\ h.stored[T][p] \in Nat /\ g.stored[T][p] \in Nat
      BY <1>1, <1>8, StoredGrows
    <3>2. matchIndex[n][p] \in Nat /\ nextIndex[n][p] \in Nat
      BY DEF NodeTypeOK
    <3>3. matchIndex[n][p] <= h.stored[T][p] /\ nextIndex[n][p] <= Len(s) + 1
      BY <1>2
    <3> QED BY <1>4, <1>5, <3>1, <3>2, <3>3
  <2>2. /\ currentTerm'[n] = T /\ nextIndex'[n] = nextIndex[n] /\ matchIndex'[n] = matchIndex[n]
    BY <1>0, <1>7 DEF electionVars, leaderVars
  <2> QED BY <1>8, <2>1, <2>2 DEF LeaderOK
<1>15. Safe(g, T, r, commitIndex[n])
  <2>1. Safe(g, T, s, commitIndex[n])
    BY <1>0, <1>1, <1>8, SafeGrows DEF CommitOK
  <2>2. commitIndex[n] <= Len(s)
    BY <1>1, <1>4, <2>1, SafeInside
  <2>3. Agree(r, s, commitIndex[n])
    BY <1>1, <1>4, <1>5, <2>2, AgreeBelow
  <2> QED BY <1>1, <1>4, <1>5, <2>1, <2>3, SafeBelow
<1>16. CommitOK(g, n)'
  <2>1. /\ commitIndex'[n] = commitIndex[n] /\ snapIndex'[n] = snapIndex[n]
        /\ lastApplied'[n] = lastApplied[n] /\ currentTerm'[n] = T
    BY <1>0, <1>7 DEF electionVars
  <2> QED BY <1>1, <1>8, <1>15, <2>1 DEF CommitOK
<1>17. \A m \in BagToSet(msgs)' :
         m \in BagToSet(msgs) \/ (SolicitationOK(m)' /\ MessageOK(g, m))
  <2>1. /\ r = g.log[currentTerm[n]] /\ g.leader[currentTerm[n]] = n
        /\ Safe(g, currentTerm[n], r, commitIndex[n]) /\ snapIndex[n] <= commitIndex[n]
    BY <1>0, <1>1, <1>8, <1>15 DEF CommitOK
  <2>2. \A p \in Node : nextIndex[n][p] <= Len(r) + 1
    <3> SUFFICES ASSUME NEW p \in Node PROVE nextIndex[n][p] <= Len(r) + 1
      OBVIOUS
    <3>1. nextIndex[n][p] <= Len(s) + 1 /\ nextIndex[n][p] \in Nat
      BY <1>1, <1>2
    <3> QED BY <1>4, <1>5, <3>1
  <2>3. \A m \in BroadcastRpcs(n, reached, lg, commitIndex[n], nextIndex[n]) :
          SolicitationOK(m)' /\ MessageOK(g, m)
    BY <1>1, <1>12, <2>1, <2>2, BroadcastTrue
  <2> QED BY <1>6, <2>3, SentTrue
<1>18. /\ \A p \in Node \ {n} : Untouched(p)
       /\ KeepsTerm(n) /\ KeepsCampaign(n) /\ role'[n] # Candidate
  BY <1>0, <1>1, <1>7 DEF Untouched, KeepsTerm, KeepsCampaign, electionVars, leaderVars, Leader, Candidate
<1>19. Claims' \subseteq Claims
  <2>1. \A m \in BroadcastRpcs(n, reached, lg, commitIndex[n], nextIndex[n]) :
          m.type \in {"AppendRequest", "SnapshotRequest"}
    BY DEF BroadcastRpcs, AppendRpc, SnapshotRpc
  <2>2. NoGrant(BroadcastRpcs(n, reached, lg, commitIndex[n], nextIndex[n]))
    BY <2>1 DEF NoGrant
  <2> QED BY <1>6, <1>7, <2>2, ClaimsShrink DEF electionVars
<1>20. \A p \in proposals' \cup acked' : p \in proposals \cup acked \/ ProposalOK(g, p)
  <2> SUFFICES ASSUME NEW p, p = [node |-> n, index |-> LastLogIndex(n) + 1, term |-> T, data |-> data]
               PROVE  ProposalOK(g, p)
    BY <1>7
  <2>1. p.index = Len(r) /\ p.term = T /\ p.data = data
    BY <1>0, <1>1, <1>5 DEF NodeOK, Represents
  <2> QED BY <1>0, <1>4, <1>5, <1>8, <2>1 DEF ProposalOK
<1>21. /\ \A p \in acked' : p \in acked
       /\ currentTerm[n] <= T
  BY <1>0, <1>1, <1>7
<1>22. Explains(g)'
  BY <1>1, <1>3, <1>8, <1>10, <1>13, <1>14, <1>16, <1>17, <1>18, <1>19, <1>20, <1>21, Explained
<1> QED BY <1>1, <1>8, <1>22 DEF Continues

-----------------------------------------------------------------------------
(* A follower takes over its leader's log.                                 *)

\* The log r, of the leader of the follower's term, has replaced the follower's log s
\* up to where s2 ends: not at all, or from an index on where s differed.
Replaces(s2, s, r) ==
  \/ s2 = s
  \/ /\ Agree(s2, r, Len(s2))
     /\ \E d \in 1..Len(s2) : d > Len(s) \/ s[d] # r[d]

(* Whatever agreed in s with the leader's log is still in s2.              *)
LEMMA ReplacesKeeps ==
  ASSUME NEW s \in Seq(Entry), NEW s2 \in Seq(Entry), NEW r \in Seq(Entry), Replaces(s2, s, r),
         NEW k \in Nat, Agree(s, r, k)
  PROVE  Agree(s2, r, k) /\ Agree(s2, s, k)
<1>0. Len(s) \in Nat /\ Len(s2) \in Nat /\ Len(r) \in Nat
  BY EntriesTyped
<1>1. CASE s2 = s
  BY <1>0, <1>1 DEF Agree
<1>2. CASE s2 # s
  <2>1. Agree(s2, r, Len(s2)) /\ \E d \in 1..Len(s2) : d > Len(s) \/ s[d] # r[d]
    BY <1>2 DEF Replaces
  <2>2. PICK d \in 1..Len(s2) : d > Len(s) \/ s[d] # r[d]
    BY <2>1
  <2>3. k < d
    BY <1>0, <2>2 DEF Agree
  <2>4. Agree(s2, r, k)
    BY <1>0, <2>1, <2>3, AgreeBelow
  <2> QED BY <2>4, AgreeSwapped, AgreeThrough
<1> QED BY <1>1, <1>2

(* What the follower had stored of earlier terms is still in s2, or lacking *)
(* in its leader's log.                                                    *)
LEMMA ReplacesKept ==
  ASSUME NEW h \in History, HistoryOK(h), NEW T \in Nat, Elected(h, T), NEW v \in Node,
         NEW s \in Seq(Entry), Chain(h, s), NEW s2 \in Seq(Entry), Replaces(s2, s, h.log[T]),
         NEW t \in 0..T - 1, Kept(h, v, t, s, T)
  PROVE  Kept(h, v, t, s2, T)
<1> DEFINE r == h.log[T]
<1>1. r \in Seq(Entry) /\ Chain(h, r) /\ t \in Nat /\ T \in t + 1 .. T /\ h.stored[t][v] \in Nat
  BY HistoryTypes DEF HistoryOK
<1>2. ASSUME NEW i \in 1..h.stored[t][v], h.log[t][i].term = t, HasIn(s, i, t)
      PROVE  HasIn(s2, i, t) \/ \E w \in t + 1 .. T : Lacks(h, w, i, t)
  <2>1. CASE ~HasIn(r, i, t)
    BY <1>1, <2>1 DEF Lacks
  <2>2. CASE HasIn(r, i, t)
    <3>1. Agree(s, r, i)
      BY <1>1, <1>2, <2>2, ChainsMeet
    <3>2. Agree(s2, s, i) /\ i \in Nat
      BY <1>1, <3>1, ReplacesKeeps
    <3>3. i \in 1..Len(s2) /\ s2[i] = s[i]
      BY <1>2, <3>2, EntriesTyped DEF Agree, HasIn
    <3> QED BY <1>2, <3>3 DEF HasIn
  <2> QED BY <2>1, <2>2
<1> QED BY <1>2 DEF Kept

(* The history that differs only in what n has and has stored.             *)
LEMMA StoringMore ==
  ASSUME NEW h \in History, NEW n \in Node, NEW T \in Nat, NEW w \in Seq(Entry),
         NEW k \in Nat, h.stored[T][n] <= k
  PROVE  \E g \in History :
           /\ Grows(h, g, n, T)
           /\ g.leader[T] = h.leader[T] /\ g.quorum[T] = h.quorum[T]
           /\ g.log[T] = h.log[T] /\ g.stored[T][n] = k /\ g.whole[n] = w
<1>1. PICK V, l, r : V = h.quorum[T] /\ l = h.leader[T] /\ r = h.log[T]
  OBVIOUS
<1>a. V \in SUBSET Node /\ l \in Node \cup {NoNode} /\ r \in Seq(Entry)
  BY <1>1, HistoryTypes
<1>2. Agree(r, h.log[T], Len(h.log[T]))
  BY <1>1, <1>a, EntriesTyped DEF Agree
<1>3. \A i \in Len(h.log[T]) + 1 .. Len(r) : FALSE
  BY <1>1, <1>a, EntriesTyped
<1>4. MayGrow(h, n, T, l, V, r, k)
  BY <1>1, <1>a, <1>2, <1>3 DEF MayGrow
<1>5. \E g \in History : /\ Grows(h, g, n, T)
                         /\ g.leader[T] = l /\ g.quorum[T] = V /\ g.log[T] = r
                         /\ g.stored[T][n] = k /\ g.whole[n] = w
  BY <1>a, <1>4, HistoryExtended
<1> QED BY <1>1, <1>5

(* A follower that comes to agree with the leader of its term on k entries *)
(* has stored them in that term, and may commit what the leader committed. *)
LEMMA AdoptionExplained ==
  ASSUME NodeTypeOK, NodeTypeOK', VotesAreBinding, NEW h \in History, Explains(h),
         NEW n \in Node, NEW T \in Nat, currentTerm[n] <= T, Elected(h, T), h.leader[T] # n,
         NEW s2 \in Seq(Entry), NEW k \in Nat,
         Replaces(s2, h.whole[n], h.log[T]), Agree(s2, h.log[T], k),
         snapIndex'[n] + Len(log'[n]) = Len(s2),
         \A i \in 1..Len(log'[n]) : log'[n][i] = s2[snapIndex'[n] + i],
         snapTerm'[n] = TermAt(s2, snapIndex'[n]),
         \/ commitIndex'[n] = commitIndex[n]
         \/ commitIndex'[n] <= k /\ Safe(h, T, h.log[T], commitIndex'[n]),
         snapIndex'[n] <= lastApplied'[n], lastApplied'[n] <= commitIndex'[n],
         FollowLeader(n, T, h.leader[T]), \A p \in Node \ {n} : Untouched(p),
         UNCHANGED <<votes, clientVars>>,
         NEW read, NEW reply, Exchange(read, {reply}),
         reply.sent = T, reply.src = n,
         \/ reply.type = "AppendReply" /\ reply.match \in 0..k
         \/ reply.type = "SnapshotReply" /\ reply.index \in 0..k
  PROVE  Continues(h)
<1>0. PICK s, r, old, c : /\ s = h.whole[n] /\ r = h.log[T] /\ old = h.stored[T][n]
                          /\ c = commitIndex'[n]
  OBVIOUS
<1>1. /\ HistoryOK(h) /\ NodeOK(h, n) /\ CommitOK(h, n)
      /\ currentTerm[n] \in Nat /\ commitIndex[n] \in Nat /\ commitIndex'[n] \in Nat
      /\ c \in Nat /\ old \in Nat
  BY <1>0, HistoryTypes DEF Explains, NodeTypeOK
<1>2. /\ s \in Seq(Entry) /\ Chain(h, s) /\ r \in Seq(Entry) /\ Chain(h, r)
      /\ Replaces(s2, s, r) /\ Agree(s2, r, k)
      /\ Len(s2) \in Nat /\ Len(r) \in Nat /\ Len(s) \in Nat
  BY <1>0, <1>1, HistoryTypes, EntriesTyped DEF HistoryOK, NodeOK
<1>3. Agree(s, r, old)
  <2>1. CASE currentTerm[n] = T
    BY <1>0, <1>1, <2>1 DEF NodeOK
  <2>2. CASE currentTerm[n] < T
    <3>1. old = 0
      BY <1>0, <1>1, <2>2 DEF NodeOK
    <3> QED BY <1>2, <3>1 DEF Agree
  <2> QED BY <1>1, <2>1, <2>2
<1>4. PICK m \in Nat : m = Larger(old, k) /\ old <= m /\ k <= m /\ Agree(s2, r, m)
  <2>1. Agree(s2, r, old)
    BY <1>1, <1>2, <1>3, ReplacesKeeps
  <2>2. Larger(old, k) \in {old, k} /\ old <= Larger(old, k) /\ k <= Larger(old, k)
    BY <1>1 DEF Larger
  <2> QED BY <1>1, <1>2, <2>1, <2>2
<1>5. PICK g \in History : /\ Grows(h, g, n, T)
                           /\ g.leader[T] = h.leader[T] /\ g.quorum[T] = h.quorum[T]
                           /\ g.log[T] = r /\ g.stored[T][n] = m /\ g.whole[n] = s2
  BY <1>0, <1>4, StoringMore
<1>6. Elected(g, T) /\ T # 0 /\ Chain(g, r)
  BY <1>1, <1>2, <1>5, ChainGrows DEF Elected, HistoryOK
<1>7. HistoryOK(g)
  <2>1. \A i \in 1..Len(g.log[T]) : g.log[T][i].term <= T
    BY <1>0, <1>1, <1>5 DEF HistoryOK
  <2>2. /\ Cardinality(g.quorum[T]) >= Quorum
        /\ \A v \in g.quorum[T], u \in 0..T - 1 : Kept(h, v, u, g.log[T], T - 1)
    BY <1>0, <1>1, <1>5 DEF HistoryOK
  <2>3. g.stored[T][n] <= Len(g.log[T])
    BY <1>4, <1>5 DEF Agree
  <2>4. Chain(g, g.log[T]) /\ NoNil(g.log[T])
    BY <1>0, <1>1, <1>5, <1>6 DEF HistoryOK
  <2> QED BY <1>5, <1>6, <2>1, <2>2, <2>3, <2>4, HistoryGrows
<1>8. Chain(h, s2) /\ \A i \in 1..Len(s2) : s2[i].term <= T
  <2>1. CASE s2 = s
    <3>1. \A i \in 1..Len(s) : s[i].term <= currentTerm[n] /\ s[i].term \in Nat
      BY <1>0, <1>1, <1>2, EntriesTyped DEF NodeOK
    <3> QED BY <1>1, <1>2, <2>1, <3>1
  <2>2. CASE s2 # s
    <3>1. Agree(s2, r, Len(s2))
      BY <1>2, <2>2 DEF Replaces
    <3>2. \A i \in 1..Len(s2) : i \in 1..Len(r) /\ s2[i] = r[i]
      BY <1>2, <3>1 DEF Agree
    <3>3. \A i \in 1..Len(r) : r[i].term <= T
      BY <1>0, <1>1 DEF HistoryOK
    <3> QED BY <1>2, <3>1, <3>2, <3>3, PrefixOfChain
  <2> QED BY <2>1, <2>2
<1>9. /\ currentTerm'[n] = T /\ role'[n] = Follower
      /\ KeepsTerm(n)
      /\ \A p \in Node \ {n} : /\ currentTerm'[p] = currentTerm[p]
                               /\ votedFor'[p] = votedFor[p] /\ role'[p] = role[p]
  <2>1. h.leader[T] \in Node
    BY HistoryTypes DEF Elected
  <2>2. T = currentTerm[n] => role[n] # Leader
    BY <2>1, NotItsOwnLeader
  <2>3. currentTerm'[n] = T /\ role'[n] = Follower
    BY DEF FollowLeader, NodeTypeOK
  <2> QED BY <1>1, <2>1, <2>2, <2>3, Following
<1>10. NodeOK(g, n)'
  <2>1. Represents(g, n)'
    BY <1>5 DEF Represents, LastLogIndex
  <2>2. Chain(g, s2)
    BY <1>5, <1>8, ChainGrows
  <2>3. ASSUME NEW t \in Nat, t > T PROVE g.stored[t][n] = 0
    <3>1. h.stored[t][n] = 0
      BY <1>1, <2>3 DEF NodeOK
    <3>2. t # T
      BY <2>3
    <3> QED BY <1>5, <3>1, <3>2 DEF Grows
  <2>4. ASSUME NEW t \in 0..T - 1 PROVE Kept(g, n, t, s2, T)
    <3>1. Kept(h, n, t, s, T)
      BY <1>0, <1>1, KeptLater
    <3>2. Kept(h, n, t, s2, T)
      BY <1>0, <1>1, <1>2, <3>1, ReplacesKept
    <3>3. t \in Nat /\ t # T /\ g.stored[t][n] = h.stored[t][n]
      BY <1>5 DEF Grows
    <3> QED BY <1>1, <1>5, <3>2, <3>3, KeptGrows
  <2> QED BY <1>4, <1>5, <1>8, <1>9, <2>1, <2>2, <2>3, <2>4 DEF NodeOK
<1>11. LeaderOK(g, n)'
  BY <1>9 DEF LeaderOK, Follower, Leader
<1>12. Safe(h, T, s2, c)
  <2>1. CASE c = commitIndex[n]
    <3>1. Safe(h, T, s, c)
      BY <1>0, <1>1, <2>1, SafeLater DEF CommitOK
    <3>2. Agree(s, r, c)
      BY <1>0, <1>1, <1>2, <3>1, SafeInLog
    <3>3. Agree(s2, s, c)
      BY <1>1, <1>2, <3>2, ReplacesKeeps
    <3> QED BY <1>1, <1>2, <3>1, <3>3, SafeBelow
  <2>2. CASE c <= k /\ Safe(h, T, r, c)
    <3>1. Agree(s2, r, c)
      BY <1>1, <1>2, <2>2, AgreeBelow
    <3> QED BY <1>1, <1>2, <2>2, <3>1, SafeBelow
  <2> QED BY <1>0, <2>1, <2>2
<1>13. CommitOK(g, n)'
  <2>1. Safe(g, T, s2, c)
    BY <1>1, <1>5, <1>12, SafeGrows
  <2> QED BY <1>0, <1>5, <1>9, <2>1 DEF CommitOK
<1>14. \A x \in BagToSet(msgs)' :
         x \in BagToSet(msgs) \/ (SolicitationOK(x)' /\ MessageOK(g, x))
  <2>1. /\ reply.type = "AppendReply" => reply.match <= g.stored[T][n]
        /\ reply.type = "SnapshotReply" => reply.index <= g.stored[T][n]
    BY <1>4, <1>5
  <2>2. SolicitationOK(reply)' /\ MessageOK(g, reply)
    BY <2>1 DEF SolicitationOK, MessageOK
  <2> QED BY <2>2, SentTrue
<1>15. Claims' \subseteq Claims
  <2>1. NoGrant({reply})
    BY DEF NoGrant
  <2>2. \A p \in Node : role'[p] = Follower \/ (role'[p] = role[p] /\ currentTerm'[p] = currentTerm[p])
    BY <1>9
  <2>3. \A p \in Node : votes'[p] = votes[p]
    OBVIOUS
  <2> QED BY <2>1, <2>2, <2>3, ClaimsShrink
<1>16. KeepsCampaign(n) /\ role'[n] # Candidate
  BY <1>9 DEF KeepsCampaign, Follower, Candidate
<1>17. /\ \A p \in proposals' \cup acked' : p \in proposals \cup acked
       /\ \A p \in acked' : p \in acked
  BY DEF clientVars
<1>18. Explains(g)'
  BY <1>5, <1>7, <1>9, <1>10, <1>11, <1>13, <1>14, <1>15, <1>16, <1>17, Explained
<1> QED BY <1>5, <1>18 DEF Continues

-----------------------------------------------------------------------------
(* What a follower's handlers do to its log.                               *)

(* A slice of a log, entry by entry.                                       *)
LEMMA Slice ==
  ASSUME NEW s \in Seq(Entry), NEW a \in Nat \ {0}, NEW b \in Nat, a <= b + 1, b <= Len(s)
  PROVE  /\ SubSeq(s, a, b) \in Seq(Entry)
         /\ Len(SubSeq(s, a, b)) = b - a + 1
         /\ \A i \in 1 .. b - a + 1 : SubSeq(s, a, b)[i] = s[a + i - 1]
<1>1. \A i \in a..b : s[i] \in Entry
  <2>1. Len(s) \in Nat
    BY EntriesTyped
  <2>2. \A i \in a..b : i \in 1..Len(s)
    BY <2>1
  <2> QED BY <2>2, ElementOfSeq
<1>2. /\ SubSeq(s, a, b) \in Seq(Entry)
      /\ Len(SubSeq(s, a, b)) = IF a <= b THEN b - a + 1 ELSE 0
      /\ \A i \in 1 .. b - a + 1 : SubSeq(s, a, b)[i] = s[a + i - 1]
  BY <1>1, SubSeqProperties
<1> QED BY <1>2

\* lg is the log L with the entries e behind its index k: L itself when every entry is
\* there, and otherwise L up to the first that is missing or differs, and then e.
Merged(k, L, e, lg) ==
  \/ /\ lg = L
     /\ \A i \in 1..Len(e) : k + i <= Len(L) /\ L[k + i].term = e[i].term
  \/ \E d \in 1..Len(e) :
       /\ k + d > Len(L) \/ L[k + d].term # e[d].term
       /\ \A i \in 1 .. d - 1 : k + i <= Len(L) /\ L[k + i].term = e[i].term
       /\ Len(lg) = k + Len(e)
       /\ \A i \in 1 .. k + d - 1 : lg[i] = L[i]
       /\ \A i \in k + d .. k + Len(e) : lg[i] = e[i - k]

(* This is what the loop over the entries of a request makes of the log.   *)
LEMMA MergeShape ==
  ASSUME NodeTypeOK, NEW n \in Node, NEW e \in Seq(Entry), NEW p \in Nat,
         snapIndex[n] <= p, p <= LastLogIndex(n)
  PROVE  Merged(p - snapIndex[n], log[n], e, Merge(n, p, e))
<1>0. PICK k, L, lg : k = p - snapIndex[n] /\ L = log[n] /\ lg = Merge(n, p, e)
  OBVIOUS
<1> DEFINE differs == {i \in 1..Len(e) : k + i > Len(L) \/ L[k + i].term # e[i].term}
<1>1. /\ L \in Seq(Entry) /\ Len(L) \in Nat /\ k \in Nat /\ k <= Len(L) /\ Len(e) \in Nat
  <2>1. L \in Seq(Entry) /\ Len(L) \in Nat /\ snapIndex[n] \in Nat /\ Len(e) \in Nat
    BY <1>0, EntriesTyped DEF NodeTypeOK
  <2> QED BY <1>0, <2>1 DEF LastLogIndex
<1>2. lg = IF differs = {} THEN L
           ELSE SubSeq(L, 1, k + Min(differs) - 1) \o SubSeq(e, Min(differs), Len(e))
  BY <1>0 DEF Merge
<1>3. \A i \in 1..Len(e) : i \notin differs => k + i <= Len(L) /\ L[k + i].term = e[i].term
  BY <1>1
<1>4. CASE differs = {}
  BY <1>0, <1>2, <1>3, <1>4 DEF Merged
<1>5. CASE differs # {}
  <2>1. differs \in SUBSET Nat /\ \A i \in differs : i \in 1..Len(e)
    BY <1>1
  <2>2. PICK d : d = Min(differs) /\ d \in differs /\ \A i \in differs : d <= i
    BY <1>5, <2>1, MinOfNats
  <2>3. d \in 1..Len(e) /\ (k + d > Len(L) \/ L[k + d].term # e[d].term)
    BY <2>2
  <2>4. lg = SubSeq(L, 1, k + d - 1) \o SubSeq(e, d, Len(e))
    BY <1>2, <1>5, <2>2
  <2>5. \A i \in 1 .. d - 1 : i \in 1..Len(e) /\ i \notin differs
    <3> HIDE DEF differs
    <3> QED BY <1>1, <2>2, <2>3
  <2>6. \A i \in 1 .. d - 1 : k + i <= Len(L) /\ L[k + i].term = e[i].term
    BY <1>3, <2>5
  <2> HIDE DEF differs
  <2>7. k + d - 1 \in Nat /\ k + d - 1 <= Len(L)
    <3>1. CASE d = 1
      BY <1>1, <3>1
    <3>2. CASE d # 1
      <4>1. d - 1 \in 1 .. d - 1 /\ k + d - 1 = k + (d - 1)
        BY <1>1, <2>3, <3>2
      <4>2. k + (d - 1) <= Len(L)
        BY <2>6, <4>1
      <4> QED BY <1>1, <2>3, <4>2
    <3> QED BY <3>1, <3>2
  <2> DEFINE x == SubSeq(L, 1, k + d - 1)
             y == SubSeq(e, d, Len(e))
  <2>8. /\ x \in Seq(Entry) /\ Len(x) = k + d - 1
        /\ \A i \in 1 .. k + d - 1 : x[i] = L[i]
    <3>1. /\ x \in Seq(Entry) /\ Len(x) = (k + d - 1) - 1 + 1
          /\ \A i \in 1 .. (k + d - 1) - 1 + 1 : x[i] = L[1 + i - 1]
      BY <1>1, <2>7, Slice
    <3> HIDE DEF x
    <3>2. (k + d - 1) - 1 + 1 = k + d - 1 /\ \A i \in 1 .. k + d - 1 : 1 + i - 1 = i
      BY <2>7
    <3> QED BY <3>1, <3>2
  <2>9. /\ y \in Seq(Entry) /\ Len(y) = Len(e) - d + 1
        /\ \A i \in 1 .. Len(e) - d + 1 : y[i] = e[d + i - 1]
    <3>1. d \in Nat \ {0} /\ d <= Len(e) + 1 /\ Len(e) <= Len(e)
      BY <1>1, <2>3
    <3> QED BY <1>1, <3>1, Slice
  <2>10. /\ Len(lg) = Len(x) + Len(y)
         /\ \A i \in 1 .. Len(x) + Len(y) : lg[i] = IF i <= Len(x) THEN x[i] ELSE y[i - Len(x)]
    <3>1. lg = x \o y
      BY <2>4
    <3> HIDE DEF x, y
    <3> QED BY <2>8, <2>9, <3>1, ConcatProperties
  <2> HIDE DEF x, y
  <2>11. Len(x) + Len(y) = k + Len(e)
    BY <1>1, <2>3, <2>8, <2>9
  <2>12. ASSUME NEW i \in 1 .. k + d - 1 PROVE lg[i] = L[i]
    <3>1. i \in 1 .. Len(x) + Len(y) /\ i <= Len(x)
      BY <1>1, <2>3, <2>8, <2>11
    <3> QED BY <2>8, <2>10, <3>1
  <2>13. ASSUME NEW i \in k + d .. k + Len(e) PROVE lg[i] = e[i - k]
    <3>1. PICK lx : lx = Len(x) /\ lx = k + d - 1
      BY <2>8
    <3>2. d \in Nat /\ d >= 1 /\ k \in Nat /\ Len(e) \in Nat /\ i \in Nat /\ k + d <= i /\ i <= k + Len(e)
      BY <1>1, <2>3
    <3>3. ~(i <= lx) /\ i - lx \in 1 .. Len(e) - d + 1 /\ d + (i - lx) - 1 = i - k
      BY <3>1, <3>2
    <3>4. i \in 1 .. Len(x) + Len(y)
      BY <2>11, <3>2
    <3>5. lg[i] = y[i - lx]
      BY <2>10, <3>1, <3>3, <3>4
    <3>6. y[i - lx] = e[d + (i - lx) - 1]
      BY <2>9, <3>3
    <3> QED BY <3>3, <3>5, <3>6
  <2> QED BY <1>0, <2>3, <2>6, <2>10, <2>11, <2>12, <2>13 DEF Merged
<1> QED BY <1>4, <1>5

(* A log that agrees with the leader's up to p, and whose next entries have *)
(* the terms of the leader's, agrees with it on these.                     *)
LEMMA SameTermsAgree ==
  ASSUME NEW h \in History, HistoryOK(h), NEW s \in Seq(Entry), Chain(h, s),
         NEW r \in Seq(Entry), Chain(h, r), NEW p \in Nat, NEW j \in Nat, Agree(s, r, p),
         p + j <= Len(r), \A i \in 1..j : p + i <= Len(s) /\ s[p + i].term = r[p + i].term
  PROVE  Agree(s, r, p + j)
<1>1. CASE j = 0
  BY <1>1
<1>2. CASE j # 0
  <2>1. Len(s) \in Nat /\ Len(r) \in Nat /\ j \in 1..j
    BY <1>2, EntriesTyped
  <2>2. p + j \in 1..Len(s) /\ p + j \in 1..Len(r) /\ s[p + j].term = r[p + j].term
    BY <2>1
  <2> QED BY <2>2, ChainsMeet DEF HasIn
<1> QED BY <1>1, <1>2

\* lg is, from the anchor of n on, a log that has replaced s by r, up to k at least.
Adopts(n, lg, s, r, k) ==
  \E s2 \in Seq(Entry) :
    /\ Replaces(s2, s, r) /\ Agree(s2, r, k)
    /\ snapIndex[n] + Len(lg) = Len(s2)
    /\ \A i \in 1..Len(lg) : lg[i] = s2[snapIndex[n] + i]
    /\ snapTerm[n] = TermAt(s2, snapIndex[n])

(* So a consistent merge replaces the log by the leader's, up to the end   *)
(* of the entries.                                                         *)
LEMMA MergeReplaces ==
  ASSUME NodeTypeOK, NEW h \in History, HistoryOK(h), NEW n \in Node, NodeOK(h, n),
         NEW s, s = h.whole[n], NEW r \in Seq(Entry), Chain(h, r),
         NEW e \in Seq(Entry), NEW p \in Nat, snapIndex[n] <= p, p <= Len(s), Agree(s, r, p),
         p + Len(e) <= Len(r), \A i \in 1..Len(e) : e[i] = r[p + i],
         NEW lg, lg = Merge(n, p, e)
  PROVE  Adopts(n, lg, s, r, p + Len(e))
<1> USE DEF Adopts
<1>0. PICK a, k, L : a = snapIndex[n] /\ k = p - a /\ L = log[n]
  OBVIOUS
<1>1. /\ a + Len(L) = Len(s) /\ snapTerm[n] = TermAt(s, a) /\ LastLogIndex(n) = Len(s)
      /\ \A i \in 1..Len(L) : L[i] = s[a + i]
  BY <1>0 DEF NodeOK, Represents, LastLogIndex
<1>2. /\ s \in Seq(Entry) /\ Chain(h, s) /\ Len(s) \in Nat /\ Len(r) \in Nat /\ Len(e) \in Nat
      /\ a \in Nat /\ L \in Seq(Entry) /\ Len(L) \in Nat /\ k \in Nat /\ a + k = p /\ a <= p
  <2>1. s \in Seq(Entry) /\ Chain(h, s) /\ L \in Seq(Entry) /\ a \in Nat /\ a <= p
    BY <1>0, HistoryTypes DEF NodeOK, NodeTypeOK
  <2>2. Len(s) \in Nat /\ Len(r) \in Nat /\ Len(e) \in Nat /\ Len(L) \in Nat
    BY <2>1, EntriesTyped
  <2>3. k \in Nat /\ a + k = p
    BY <1>0, <2>1
  <2> QED BY <2>1, <2>2, <2>3
<1>3. ASSUME NEW i \in 1..Len(e), k + i <= Len(L)
      PROVE  p + i <= Len(s) /\ L[k + i] = s[p + i]
  <2>1. k + i \in 1..Len(L) /\ a + (k + i) = p + i /\ p + i <= Len(s)
    BY <1>1, <1>2, <1>3
  <2> QED BY <1>1, <2>1
<1>4. CASE /\ lg = L
           /\ \A i \in 1..Len(e) : k + i <= Len(L) /\ L[k + i].term = e[i].term
  <2>1. \A i \in 1..Len(e) : p + i <= Len(s) /\ s[p + i].term = r[p + i].term
    BY <1>3, <1>4
  <2>2. Agree(s, r, p + Len(e))
    BY <1>2, <2>1, SameTermsAgree
  <2> QED BY <1>0, <1>1, <1>2, <1>4, <2>2 DEF Replaces
<1>5. ASSUME NEW d \in 1..Len(e),
             k + d > Len(L) \/ L[k + d].term # e[d].term,
             \A i \in 1 .. d - 1 : k + i <= Len(L) /\ L[k + i].term = e[i].term,
             Len(lg) = k + Len(e),
             \A i \in 1 .. k + d - 1 : lg[i] = L[i],
             \A i \in k + d .. k + Len(e) : lg[i] = e[i - k]
      PROVE  \E s2 \in Seq(Entry) :
               /\ Replaces(s2, s, r) /\ Agree(s2, r, p + Len(e))
               /\ a + Len(lg) = Len(s2)
               /\ \A i \in 1..Len(lg) : lg[i] = s2[a + i]
               /\ snapTerm[n] = TermAt(s2, a)
  <2>1. PICK s2 \in Seq(Entry) : /\ Len(s2) = p + Len(e)
                                 /\ \A i \in 1 .. p + Len(e) : s2[i] = r[i]
    <3> DEFINE q == SubSeq(r, 1, p + Len(e))
    <3>1. /\ q \in Seq(Entry) /\ Len(q) = (p + Len(e)) - 1 + 1
          /\ \A i \in 1 .. (p + Len(e)) - 1 + 1 : q[i] = r[1 + i - 1]
      BY <1>2, Slice
    <3> HIDE DEF q
    <3>2. (p + Len(e)) - 1 + 1 = p + Len(e) /\ \A i \in 1 .. p + Len(e) : 1 + i - 1 = i
      BY <1>2
    <3> QED BY <3>1, <3>2
  <2>2. Agree(s2, r, p + Len(e))
    BY <1>2, <2>1 DEF Agree
  <2>3. Agree(s, r, p + (d - 1))
    <3>1. d - 1 \in Nat /\ p + (d - 1) <= Len(r)
      BY <1>2
    <3>2. ASSUME NEW i \in 1 .. d - 1 PROVE p + i <= Len(s) /\ s[p + i].term = r[p + i].term
      <4>1. i \in 1..Len(e) /\ k + i <= Len(L) /\ L[k + i].term = e[i].term
        BY <1>2, <1>5
      <4> QED BY <1>3, <4>1
    <3> QED BY <1>2, <3>1, <3>2, SameTermsAgree
  <2>4. Replaces(s2, s, r)
    <3>1. p + d \in 1..Len(s2)
      BY <1>2, <2>1
    <3>2. p + d > Len(s) \/ s[p + d] # r[p + d]
      <4>1. CASE k + d > Len(L)
        BY <1>1, <1>2, <4>1
      <4>2. CASE ~(k + d > Len(L))
        <5>1. L[k + d].term # e[d].term /\ L[k + d] = s[p + d] /\ e[d] = r[p + d]
          BY <1>2, <1>3, <1>5, <4>2
        <5> QED BY <5>1
      <4> QED BY <4>1, <4>2
    <3>3. Agree(s2, r, Len(s2))
      BY <2>1, <2>2
    <3> QED BY <3>1, <3>2, <3>3 DEF Replaces
  <2>5. ASSUME NEW i \in 1..Len(lg) PROVE lg[i] = s2[a + i]
    <3>1. CASE i \in 1 .. k + d - 1
      <4>1. lg[i] = L[i]
        BY <1>5, <3>1
      <4>2. i <= Len(L)
        <5>1. CASE d = 1
          <6>1. k <= Len(L)
            BY <1>1, <1>2
          <6> QED BY <1>2, <3>1, <5>1, <6>1
        <5>2. CASE d # 1
          <6>1. d - 1 \in 1 .. d - 1
            BY <1>2, <5>2
          <6>2. k + (d - 1) <= Len(L)
            BY <1>5, <6>1
          <6> QED BY <1>2, <3>1, <6>2
        <5> QED BY <5>1, <5>2
      <4>3. i \in 1..Len(L) /\ a + i \in 1 .. p + (d - 1) /\ a + i \in 1 .. p + Len(e)
        BY SMTT(20), <1>2, <3>1, <4>2
      <4>4. L[i] = s[a + i] /\ s[a + i] = r[a + i] /\ s2[a + i] = r[a + i]
        BY <1>1, <2>1, <2>3, <4>3 DEF Agree
      <4> QED BY <4>1, <4>4
    <3>2. CASE i \in k + d .. k + Len(e)
      <4>1. lg[i] = e[i - k]
        BY <1>5, <3>2
      <4>0. i \in Nat /\ k + d <= i /\ i <= k + Len(e) /\ d >= 1 /\ d \in Nat
        BY SMTT(20), <1>2, <3>2
      <4>2. i - k \in 1..Len(e) /\ p + (i - k) = a + i /\ a + i \in 1 .. p + Len(e)
        BY <1>2, <4>0
      <4>3. e[i - k] = r[a + i] /\ s2[a + i] = r[a + i]
        BY <2>1, <4>2
      <4> QED BY <4>1, <4>3
    <3>3. i \in 1 .. k + d - 1 \/ i \in k + d .. k + Len(e)
      BY <1>2, <1>5
    <3> QED BY <3>1, <3>2, <3>3
  <2>6. TermAt(s2, a) = TermAt(s, a)
    <3>1. CASE a = 0
      BY <3>1 DEF TermAt
    <3>2. CASE a # 0
      <4>1. a \in 1..Len(s) /\ a \in 1..Len(s2) /\ a \in 1 .. p + (d - 1) /\ a \in 1 .. p + Len(e)
        BY <1>1, <1>2, <2>1, <3>2
      <4>2. s[a] = r[a] /\ s2[a] = r[a]
        BY <2>1, <2>3, <4>1 DEF Agree
      <4> QED BY <4>1, <4>2 DEF TermAt
    <3> QED BY <3>1, <3>2
  <2>7. a + Len(lg) = Len(s2)
    BY <1>2, <1>5, <2>1
  <2> QED BY <1>1, <2>2, <2>4, <2>5, <2>6, <2>7
<1>6. Merged(k, L, e, lg)
  <2>1. p <= LastLogIndex(n)
    BY <1>1
  <2> QED BY <1>0, <2>1, MergeShape
<1> QED BY <1>0, <1>4, <1>5, <1>6 DEF Merged

-----------------------------------------------------------------------------
(* A follower's requests from its leader.                                  *)

(* What a node has committed is in the log of any leader of its term or a  *)
(* later one.                                                              *)
LEMMA CommittedInLeader ==
  ASSUME NodeTypeOK, NEW h \in History, Explains(h), NEW n \in Node,
         NEW T \in Nat, currentTerm[n] <= T, Elected(h, T)
  PROVE  /\ Agree(h.whole[n], h.log[T], commitIndex[n])
         /\ snapIndex[n] <= lastApplied[n] /\ lastApplied[n] <= commitIndex[n]
         /\ commitIndex[n] <= Len(h.whole[n]) /\ snapIndex[n] <= commitIndex[n]
<1>1. /\ HistoryOK(h) /\ CommitOK(h, n) /\ currentTerm[n] \in Nat /\ commitIndex[n] \in Nat
      /\ snapIndex[n] \in Nat /\ lastApplied[n] \in Nat /\ h.whole[n] \in Seq(Entry)
  BY HistoryTypes DEF Explains, NodeTypeOK
<1>2. Safe(h, T, h.whole[n], commitIndex[n])
  BY <1>1, SafeLater DEF CommitOK
<1>3. Agree(h.whole[n], h.log[T], commitIndex[n])
  BY <1>1, <1>2, SafeInLog
<1> QED BY <1>1, <1>3 DEF Agree, CommitOK

(* A request that passes the check at its previous index, trimmed by what  *)
(* the follower has compacted, is a slice of the leader's log that follows *)
(* on a prefix the two logs share.                                         *)
LEMMA TrimmedTrue ==
  ASSUME NodeTypeOK, NEW h \in History, Explains(h), NEW m \in InFlight("AppendRequest"),
         m.term >= currentTerm[m.dst],
         m.prevIndex >= snapIndex[m.dst] \/ Len(m.entries) > snapIndex[m.dst] - m.prevIndex,
         NEW a, a = Trimmed(m.dst, m), PrevMatches(m.dst, a)
  PROVE  /\ a.prev \in Nat /\ a.entries \in Seq(Entry)
         /\ snapIndex[m.dst] <= a.prev /\ a.prev <= Len(h.whole[m.dst])
         /\ Agree(h.whole[m.dst], h.log[m.term], a.prev)
         /\ a.prev + Len(a.entries) = m.prevIndex + Len(m.entries)
         /\ a.prev + Len(a.entries) <= Len(h.log[m.term])
         /\ \A i \in 1..Len(a.entries) : a.entries[i] = h.log[m.term][a.prev + i]
<1>0. PICK n, s, r, c : n = m.dst /\ s = h.whole[n] /\ r = h.log[m.term] /\ c = snapIndex[n]
  OBVIOUS
<1>1. /\ m \in AppendRequest /\ m \in BagToSet(msgs) /\ m.type = "AppendRequest"
  BY MessageKinds DEF InFlight, NodeTypeOK
<1>2. /\ AppendOK(h, m) /\ n \in Node /\ m.term \in Nat /\ m.src \in Node
      /\ m.prevIndex \in Nat /\ m.entries \in Seq(Entry) /\ Len(m.entries) \in Nat
  BY <1>0, <1>1, EntriesTyped DEF Explains, MessageOK, AppendRequest
<1>3. /\ Elected(h, m.term) /\ HistoryOK(h) /\ NodeOK(h, n) /\ c \in Nat
      /\ currentTerm[n] \in Nat /\ currentTerm[n] <= m.term
  BY <1>0, <1>2, NodeAssumption DEF AppendOK, Elected, Explains, NodeTypeOK
<1>4. /\ s \in Seq(Entry) /\ r \in Seq(Entry) /\ Chain(h, s) /\ Chain(h, r)
      /\ Len(s) \in Nat /\ Len(r) \in Nat
  BY <1>0, <1>2, <1>3, HistoryTypes, EntriesTyped DEF NodeOK, HistoryOK
<1>5. /\ LastLogIndex(n) = Len(s) /\ c \in 0..Len(s)
      /\ \A i \in c..Len(s) : LogTerm(n, i) = TermAt(s, i)
  BY <1>0, <1>2, <1>3, Representation DEF NodeOK
<1>6. /\ m.prevIndex + Len(m.entries) <= Len(r) /\ m.prevTerm = TermAt(r, m.prevIndex)
      /\ \A i \in 1..Len(m.entries) : m.entries[i] = r[m.prevIndex + i]
  BY <1>0, <1>2 DEF AppendOK
<1>7. CASE m.prevIndex < c
  <2>0. PICK b, l : b = c - m.prevIndex + 1 /\ l = Len(m.entries)
    OBVIOUS
  <2>1. a.prev = c /\ a.entries = SubSeq(m.entries, b, l)
    BY <1>0, <1>7, <2>0 DEF Trimmed
  <2>2. /\ b \in Nat \ {0} /\ l \in Nat /\ b <= l + 1 /\ l <= Len(m.entries)
        /\ c + (l - b + 1) = m.prevIndex + l /\ m.prevIndex + b = c + 1
    <3>1. l > c - m.prevIndex
      BY <1>0, <1>2, <1>3, <1>7, <2>0
    <3> QED BY <1>2, <1>3, <1>7, <2>0, <3>1
  <2>3. /\ a.entries \in Seq(Entry) /\ Len(a.entries) = l - b + 1
        /\ \A i \in 1 .. l - b + 1 : a.entries[i] = m.entries[b + i - 1]
    BY <1>2, <2>1, <2>2, Slice
  <2>4. ASSUME NEW i \in 1..Len(a.entries) PROVE a.entries[i] = r[c + i]
    <3>1. i \in Nat /\ 1 <= i /\ i <= l - b + 1
      BY <2>2, <2>3
    <3>2. PICK p : p = m.prevIndex /\ p \in Nat /\ p + b = c + 1
      BY <1>2, <2>2
    <3>3. b \in Nat /\ b >= 1 /\ l \in Nat /\ c \in Nat
      BY <1>3, <2>2
    <3>4. b + i - 1 \in 1..l /\ p + (b + i - 1) = c + i
      BY <3>1, <3>2, <3>3
    <3>5. m.entries[b + i - 1] = r[p + (b + i - 1)]
      BY <1>6, <2>0, <3>2, <3>4
    <3>6. a.entries[i] = m.entries[b + i - 1]
      BY <2>3
    <3> QED BY <3>4, <3>5, <3>6
  <2>5. Agree(s, r, c) /\ c <= Len(s)
    <3>1. Agree(s, r, commitIndex[n]) /\ c <= commitIndex[n] /\ commitIndex[n] \in Nat
      BY <1>0, <1>2, <1>3, CommittedInLeader DEF NodeTypeOK
    <3> QED BY <1>3, <1>4, <1>5, <3>1, AgreeBelow
  <2>6. c + Len(a.entries) = m.prevIndex + Len(m.entries)
    BY <2>0, <2>2, <2>3
  <2> QED BY <1>0, <1>3, <1>6, <2>1, <2>3, <2>4, <2>5, <2>6
<1>8. CASE m.prevIndex >= c
  <2>0. PICK p : p = m.prevIndex
    OBVIOUS
  <2>1. a.prev = p /\ a.prevTerm = m.prevTerm /\ a.entries = m.entries
    BY <1>0, <1>2, <1>3, <1>8, <2>0 DEF Trimmed
  <2>2. p <= Len(s) /\ TermAt(s, p) = TermAt(r, p) /\ p \in Nat /\ p <= Len(r) /\ c <= p
    <3>1. a.prev <= LastLogIndex(n) /\ LogTerm(n, a.prev) = a.prevTerm
      BY <1>0 DEF PrevMatches
    <3>2. p \in c..Len(s) /\ p <= Len(r)
      BY <1>2, <1>3, <1>4, <1>5, <1>6, <1>8, <2>0, <2>1, <3>1
    <3> QED BY <1>2, <1>5, <1>6, <1>8, <2>0, <2>1, <3>1, <3>2
  <2>3. Agree(s, r, p)
    <3>1. CASE p = 0
      BY <1>4, <3>1 DEF Agree
    <3>2. CASE p # 0
      <4>1. p \in 1..Len(s) /\ p \in 1..Len(r)
        BY <1>4, <2>2, <3>2
      <4>2. HasIn(s, p, s[p].term) /\ HasIn(r, p, s[p].term)
        BY <2>2, <4>1 DEF HasIn, TermAt
      <4> QED BY <1>4, <4>2, ChainsMeet
    <3> QED BY <3>1, <3>2
  <2> QED BY <1>0, <1>2, <1>6, <2>0, <2>1, <2>2, <2>3
<1> QED BY <1>2, <1>3, <1>7, <1>8

(* HandleAppendEntries when the previous entry matches: the follower's log *)
(* agrees with the leader's up to the last entry sent, which is what the   *)
(* reply says and how far it follows the leader's commit index.            *)
LEMMA MatchExplained ==
  ASSUME NodeTypeOK, NodeTypeOK', VotesAreBinding, NEW h \in History, Explains(h),
         NEW m \in InFlight("AppendRequest"), HandleCurrentAppend(m),
         PrevMatches(m.dst, Trimmed(m.dst, m))
  PROVE  Continues(h)
<1>0. PICK n, a, r, T, lg, k : /\ n = m.dst /\ a = Trimmed(n, m) /\ T = m.term /\ r = h.log[T]
                               /\ lg = Merge(n, a.prev, a.entries) /\ k = a.prev + Len(a.entries)
  OBVIOUS
<1>1. /\ m \in AppendRequest /\ m \in BagToSet(msgs) /\ m.type = "AppendRequest"
  BY MessageKinds DEF InFlight, NodeTypeOK
<1>2. /\ AppendOK(h, m) /\ n \in Node /\ T \in Nat /\ m.src \in Node /\ m.commit \in Nat
      /\ m.prevIndex \in Nat /\ Len(m.entries) \in Nat
  BY <1>0, <1>1, EntriesTyped DEF Explains, MessageOK, AppendRequest
<1>3. /\ T >= currentTerm[n] /\ FollowLeader(n, T, m.src) /\ log' = [log EXCEPT ![n] = lg]
      /\ commitIndex' = [commitIndex EXCEPT ![n] = CommitAfter(n, m.commit, k)]
      /\ Exchange({m}, {AppendReplyTo(m, T, TRUE, k)})
      /\ UNCHANGED <<lastApplied, snapIndex, snapTerm, leaderVars, replicationFrame>>
      /\ m.prevIndex >= snapIndex[n] \/ Len(m.entries) > snapIndex[n] - m.prevIndex
  BY <1>0 DEF HandleCurrentAppend
<1>4. /\ a.prev \in Nat /\ a.entries \in Seq(Entry)
      /\ snapIndex[n] <= a.prev /\ a.prev <= Len(h.whole[n])
      /\ Agree(h.whole[n], r, a.prev)
      /\ k = m.prevIndex + Len(m.entries) /\ k <= Len(r)
      /\ \A i \in 1..Len(a.entries) : a.entries[i] = r[a.prev + i]
  BY <1>0, <1>3, TrimmedTrue
<1>5. /\ HistoryOK(h) /\ NodeOK(h, n) /\ r \in Seq(Entry) /\ Chain(h, r)
      /\ Elected(h, T) /\ h.leader[T] = m.src /\ m.src # n /\ k \in Nat
      /\ currentTerm[n] <= T /\ commitIndex[n] \in Nat /\ m.commit <= k
      /\ Safe(h, T, r, m.commit)
  <2>1. HistoryOK(h) /\ NodeOK(h, n) /\ r \in Seq(Entry) /\ Chain(h, r) /\ commitIndex[n] \in Nat
    BY <1>0, <1>2, HistoryTypes DEF Explains, HistoryOK, NodeTypeOK
  <2>2. Elected(h, T) /\ h.leader[T] = m.src /\ m.src # n
    BY <1>0, <1>2, NodeAssumption DEF AppendOK, Elected
  <2>3. k \in Nat
    BY <1>2, <1>4
  <2>4. currentTerm[n] <= T
    BY <1>2, <1>3 DEF NodeTypeOK
  <2> QED BY <1>0, <1>2, <1>4, <2>1, <2>2, <2>3, <2>4 DEF AppendOK
<1>6. PICK s2 \in Seq(Entry) :
        /\ Replaces(s2, h.whole[n], r) /\ Agree(s2, r, k)
        /\ snapIndex[n] + Len(lg) = Len(s2)
        /\ \A i \in 1..Len(lg) : lg[i] = s2[snapIndex[n] + i]
        /\ snapTerm[n] = TermAt(s2, snapIndex[n])
  <2>1. PICK s, p, e : s = h.whole[n] /\ p = a.prev /\ e = a.entries
    OBVIOUS
  <2>2. /\ p \in Nat /\ e \in Seq(Entry) /\ snapIndex[n] <= p /\ p <= Len(s)
        /\ Agree(s, r, p) /\ p + Len(e) <= Len(r)
        /\ \A i \in 1..Len(e) : e[i] = r[p + i]
    BY <1>0, <1>4, <2>1
  <2>3. lg = Merge(n, p, e) /\ k = p + Len(e)
    BY <1>0, <2>1
  <2>4. /\ NodeTypeOK /\ HistoryOK(h) /\ n \in Node /\ NodeOK(h, n)
        /\ r \in Seq(Entry) /\ Chain(h, r)
    BY <1>2, <1>5
  <2>5. Adopts(n, lg, s, r, p + Len(e))
    BY ONLY h \in History, NodeTypeOK, <2>1, <2>2, <2>3, <2>4, MergeReplaces
  <2> QED BY <2>1, <2>3, <2>5 DEF Adopts
<1>7. /\ log'[n] = lg /\ snapIndex'[n] = snapIndex[n] /\ snapTerm'[n] = snapTerm[n]
      /\ lastApplied'[n] = lastApplied[n] /\ commitIndex'[n] = CommitAfter(n, m.commit, k)
      /\ \A p \in Node \ {n} : Untouched(p)
  BY <1>2, <1>3 DEF NodeTypeOK, FollowLeader, Untouched, leaderVars
<1>8. /\ commitIndex'[n] = commitIndex[n] \/ commitIndex'[n] = m.commit
      /\ commitIndex[n] <= commitIndex'[n]
  BY <1>2, <1>5, <1>7 DEF CommitAfter, Smaller
<1>9. commitIndex'[n] = commitIndex[n] \/ (commitIndex'[n] <= k /\ Safe(h, T, r, commitIndex'[n]))
  BY <1>5, <1>8
<1>10. snapIndex'[n] <= lastApplied'[n] /\ lastApplied'[n] <= commitIndex'[n]
  <2>1. snapIndex[n] <= lastApplied[n] /\ lastApplied[n] <= commitIndex[n]
    BY <1>2, <1>5, CommittedInLeader
  <2>2. /\ lastApplied[n] \in Nat /\ commitIndex[n] \in Nat /\ commitIndex'[n] \in Nat
    BY <1>2 DEF NodeTypeOK
  <2> QED BY <1>7, <1>8, <2>1, <2>2
<1>11. PICK reply : /\ reply = AppendReplyTo(m, T, TRUE, k) /\ Exchange({m}, {reply})
                    /\ reply.sent = T /\ reply.src = n
                    /\ reply.type = "AppendReply" /\ reply.match \in 0..k
  <2>1. PICK reply : reply = AppendReplyTo(m, T, TRUE, k)
    OBVIOUS
  <2>2. reply.sent = T /\ reply.src = n /\ reply.type = "AppendReply" /\ reply.match \in 0..k
    BY <1>0, <1>5, <2>1 DEF AppendReplyTo
  <2> QED BY <1>3, <2>1, <2>2
<1>12. UNCHANGED <<votes, clientVars>>
  BY <1>3 DEF replicationFrame, ballotVars
<1>13. /\ FollowLeader(n, T, h.leader[T]) /\ h.leader[T] # n
       /\ Replaces(s2, h.whole[n], h.log[T]) /\ Agree(s2, h.log[T], k)
       /\ commitIndex'[n] = commitIndex[n] \/ (commitIndex'[n] <= k /\ Safe(h, T, h.log[T], commitIndex'[n]))
       /\ snapIndex'[n] + Len(log'[n]) = Len(s2)
       /\ \A i \in 1..Len(log'[n]) : log'[n][i] = s2[snapIndex'[n] + i]
       /\ snapTerm'[n] = TermAt(s2, snapIndex'[n])
  BY <1>0, <1>3, <1>5, <1>6, <1>7, <1>9
<1> QED BY <1>2, <1>5, <1>7, <1>10, <1>11, <1>12, <1>13, AdoptionExplained

(* HandleAppendEntries when everything sent is behind the follower's own   *)
(* snapshot: the follower acknowledges what it has compacted, and that is  *)
(* committed.                                                              *)
LEMMA CompactedExplained ==
  ASSUME NodeTypeOK, NodeTypeOK', VotesAreBinding, NEW h \in History, Explains(h),
         NEW m \in InFlight("AppendRequest"), AppendCompacted(m)
  PROVE  Continues(h)
<1>0. PICK n, s, T, k : n = m.dst /\ T = m.term /\ s = h.whole[n] /\ k = snapIndex[n]
  OBVIOUS
<1>1. /\ m \in AppendRequest /\ m \in BagToSet(msgs) /\ m.type = "AppendRequest"
  BY MessageKinds DEF InFlight, NodeTypeOK
<1>2. AppendOK(h, m) /\ n \in Node /\ T \in Nat /\ m.src \in Node
  BY <1>0, <1>1 DEF Explains, MessageOK, AppendRequest
<1>3. /\ T >= currentTerm[n] /\ FollowLeader(n, T, m.src)
      /\ Exchange({m}, {AppendReplyTo(m, T, TRUE, k)})
      /\ UNCHANGED <<logVars, applyVars, leaderVars, replicationFrame>>
  BY <1>0 DEF AppendCompacted
<1>4. /\ HistoryOK(h) /\ NodeOK(h, n) /\ s \in Seq(Entry) /\ k \in Nat /\ commitIndex[n] \in Nat
      /\ Elected(h, T) /\ h.leader[T] = m.src /\ m.src # n /\ currentTerm[n] <= T
      /\ h.log[T] \in Seq(Entry)
  <2>1. HistoryOK(h) /\ NodeOK(h, n) /\ s \in Seq(Entry) /\ k \in Nat /\ h.log[T] \in Seq(Entry)
    BY <1>0, <1>2, HistoryTypes DEF Explains, NodeTypeOK
  <2>2. Elected(h, T) /\ h.leader[T] = m.src /\ m.src # n
    BY <1>0, <1>2, NodeAssumption DEF AppendOK, Elected
  <2> QED BY <1>2, <1>3, <2>1, <2>2 DEF NodeTypeOK
<1>5. /\ Agree(s, h.log[T], k)
      /\ snapIndex[n] <= lastApplied[n] /\ lastApplied[n] <= commitIndex[n]
  <2>1. /\ Agree(s, h.log[T], commitIndex[n]) /\ k <= commitIndex[n]
        /\ snapIndex[n] <= lastApplied[n] /\ lastApplied[n] <= commitIndex[n]
    BY <1>0, <1>2, <1>4, CommittedInLeader
  <2> QED BY <1>4, <2>1, AgreeBelow
<1>6. /\ log'[n] = log[n] /\ snapIndex'[n] = snapIndex[n] /\ snapTerm'[n] = snapTerm[n]
      /\ lastApplied'[n] = lastApplied[n] /\ commitIndex'[n] = commitIndex[n]
      /\ \A p \in Node \ {n} : Untouched(p)
      /\ UNCHANGED <<votes, clientVars>>
  BY <1>2, <1>3 DEF NodeTypeOK, FollowLeader, Untouched, logVars, applyVars, leaderVars,
                    replicationFrame, ballotVars
<1>7. PICK reply : /\ Exchange({m}, {reply})
                   /\ reply.sent = T /\ reply.src = n
                   /\ reply.type = "AppendReply" /\ reply.match \in 0..k
  <2>1. PICK reply : reply = AppendReplyTo(m, T, TRUE, k)
    OBVIOUS
  <2>2. reply.sent = T /\ reply.src = n /\ reply.type = "AppendReply" /\ reply.match \in 0..k
    BY <1>0, <1>4, <2>1 DEF AppendReplyTo
  <2> QED BY <1>3, <2>1, <2>2
<1>8. Replaces(s, s, h.log[T])
  BY DEF Replaces
<1>9. /\ FollowLeader(n, T, h.leader[T]) /\ h.leader[T] # n
      /\ Replaces(s, h.whole[n], h.log[T])
      /\ snapIndex'[n] + Len(log'[n]) = Len(s)
      /\ \A i \in 1..Len(log'[n]) : log'[n][i] = s[snapIndex'[n] + i]
      /\ snapTerm'[n] = TermAt(s, snapIndex'[n])
      /\ snapIndex'[n] <= lastApplied'[n] /\ lastApplied'[n] <= commitIndex'[n]
  BY <1>0, <1>3, <1>4, <1>5, <1>6, <1>8 DEF NodeOK, Represents, LastLogIndex
<1> QED BY <1>2, <1>4, <1>5, <1>6, <1>7, <1>9, AdoptionExplained

-----------------------------------------------------------------------------
(* Snapshots.                                                              *)

(* Moving the anchor leaves the rest of the log as it is.                  *)
LEMMA LogAfterShape ==
  ASSUME NodeTypeOK, NEW h \in History, NEW n \in Node, NodeOK(h, n),
         NEW index \in snapIndex[n] + 1 .. Len(h.whole[n])
  PROVE  /\ index + Len(LogAfter(n, index)) = Len(h.whole[n])
         /\ \A i \in 1..Len(LogAfter(n, index)) : LogAfter(n, index)[i] = h.whole[n][index + i]
<1>0. PICK s, c, L, lg : /\ s = h.whole[n] /\ c = snapIndex[n] /\ L = log[n]
                         /\ lg = LogAfter(n, index)
  OBVIOUS
<1>1. /\ c \in Nat /\ L \in Seq(Entry) /\ Len(L) \in Nat /\ Len(s) \in Nat /\ index \in Nat
      /\ c + Len(L) = Len(s) /\ c + 1 <= index /\ index <= Len(s)
      /\ \A i \in 1..Len(L) : L[i] = s[c + i]
  <2>1. c \in Nat /\ L \in Seq(Entry) /\ s \in Seq(Entry)
    BY <1>0, HistoryTypes DEF NodeTypeOK
  <2>2. c + Len(L) = Len(s) /\ \A i \in 1..Len(L) : L[i] = s[c + i]
    BY <1>0 DEF NodeOK, Represents, LastLogIndex
  <2> QED BY <1>0, <2>1, <2>2, EntriesTyped
<1>2. PICK b : b = index - c + 1 /\ b \in Nat \ {0} /\ b <= Len(L) + 1 /\ c + b = index + 1
  <2>1. index - c + 1 \in Nat \ {0} /\ index - c + 1 <= Len(L) + 1 /\ c + (index - c + 1) = index + 1
    BY <1>1
  <2> QED BY <2>1
<1>3. /\ Len(lg) = Len(L) - b + 1
      /\ \A i \in 1 .. Len(L) - b + 1 : lg[i] = L[b + i - 1]
  <2>1. lg = SubSeq(L, b, Len(L)) /\ Len(L) <= Len(L)
    BY <1>0, <1>1, <1>2 DEF LogAfter
  <2> QED BY <1>1, <1>2, <2>1, Slice
<1>4. index + Len(lg) = Len(s)
  BY <1>1, <1>2, <1>3
<1>5. ASSUME NEW i \in 1..Len(lg) PROVE lg[i] = s[index + i]
  <2>1. i \in Nat /\ 1 <= i /\ i <= Len(L) - b + 1
    BY <1>1, <1>2, <1>3
  <2>2. b + i - 1 \in 1..Len(L) /\ c + (b + i - 1) = index + i
    BY <1>1, <1>2, <2>1
  <2>3. L[b + i - 1] = s[c + (b + i - 1)]
    BY <1>1, <2>2
  <2>4. lg[i] = L[b + i - 1]
    BY <1>3
  <2> QED BY <2>2, <2>3, <2>4
<1> QED BY <1>0, <1>4, <1>5

(* TakeSnapshot: no log changes, the anchor moves within what is committed. *)
LEMMA CompactionExplained ==
  ASSUME NodeTypeOK, NodeTypeOK', VotesAreBinding, NEW h \in History, Explains(h),
         NEW n \in Node, NEW index, TakeSnapshot(n, index)
  PROVE  Explains(h)'
<1>0. PICK s, c : s = h.whole[n] /\ c = snapIndex[n]
  OBVIOUS
<1>1. /\ HistoryOK(h) /\ NodeOK(h, n) /\ LeaderOK(h, n) /\ CommitOK(h, n)
      /\ currentTerm[n] \in Nat /\ commitIndex[n] \in Nat /\ lastApplied[n] \in Nat
      /\ c \in Nat /\ s \in Seq(Entry) /\ Len(s) \in Nat /\ LastLogIndex(n) = Len(s)
  BY <1>0, HistoryTypes, EntriesTyped DEF Explains, NodeTypeOK, NodeOK, Represents
<1>2. index \in c + 1 .. Len(s) /\ index \in Nat /\ index <= commitIndex[n]
  <2>1. index \in c + 1 .. Smaller(commitIndex[n], Len(s))
    BY <1>0, <1>1 DEF TakeSnapshot, SnapshotAllowed
  <2> QED BY <1>1, <2>1 DEF Smaller
<1>3. /\ log'[n] = LogAfter(n, index) /\ snapIndex'[n] = index
      /\ snapTerm'[n] = LogTerm(n, index) /\ lastApplied'[n] = Larger(lastApplied[n], index)
      /\ \A p \in Node \ {n} : Untouched(p)
      /\ UNCHANGED <<electionVars, commitIndex, leaderVars, msgs, votes, clientVars>>
  BY DEF TakeSnapshot, NodeTypeOK, Untouched, electionVars, leaderVars, replicationFrame, ballotVars
<1>4. /\ index + Len(log'[n]) = Len(s)
      /\ \A i \in 1..Len(log'[n]) : log'[n][i] = s[index + i]
      /\ LogTerm(n, index) = TermAt(s, index)
  <2>1. index \in snapIndex[n] + 1 .. Len(h.whole[n]) /\ index \in snapIndex[n] .. Len(h.whole[n])
    BY <1>0, <1>1, <1>2
  <2>2. LogTerm(n, index) = TermAt(s, index)
    BY <1>0, <1>1, <2>1, Representation DEF NodeOK
  <2> QED BY <1>0, <1>1, <1>3, <2>1, <2>2, LogAfterShape
<1>5. Represents(h, n)'
  BY <1>0, <1>3, <1>4 DEF Represents, LastLogIndex
<1>6. NodeOK(h, n)'
  BY <1>1, <1>3, <1>5 DEF NodeOK, electionVars
<1>7. LeaderOK(h, n)'
  BY <1>1, <1>3 DEF LeaderOK, electionVars, leaderVars
<1>8. CommitOK(h, n)'
  <2>1. /\ snapIndex[n] <= lastApplied[n] /\ lastApplied[n] <= commitIndex[n]
        /\ Safe(h, currentTerm[n], s, commitIndex[n])
    BY <1>0, <1>1 DEF CommitOK
  <2>2. index <= Larger(lastApplied[n], index) /\ Larger(lastApplied[n], index) <= commitIndex[n]
    BY <1>1, <1>2, <2>1 DEF Larger
  <2> QED BY <1>0, <1>3, <2>1, <2>2 DEF CommitOK, electionVars
<1>9. KeepsTerm(n) /\ KeepsCampaign(n)
  <2>1. LastLogIndex(n)' = LastLogIndex(n) /\ LastLogTerm(n)' = LastLogTerm(n)
    <3>1. LastLogIndex(n)' = Len(s)
      BY <1>3, <1>4 DEF LastLogIndex
    <3>2. LastLogTerm(n)' = TermAt(s, Len(s))
      <4>1. log'[n] \in Seq(Entry)
        BY DEF NodeTypeOK
      <4>2. (IF log'[n] = <<>> THEN TermAt(s, index) ELSE log'[n][Len(log'[n])].term) = TermAt(s, Len(s))
        BY <1>1, <1>2, <1>4, <4>1, LastTerm
      <4> QED BY <1>3, <1>4, <4>2 DEF LastLogTerm
    <3> QED BY <1>0, <1>1, <3>1, <3>2, Representation DEF NodeOK
  <2> QED BY <1>1, <1>3, <2>1 DEF KeepsTerm, KeepsCampaign, electionVars
<1>10. Claims' \subseteq Claims
  <2>1. NoGrant({})
    BY DEF NoGrant
  <2> QED BY <1>3, <2>1, ClaimsShrink DEF electionVars
<1> QED BY <1>1, <1>3, <1>6, <1>7, <1>8, <1>9, <1>10, ExplainedAsBefore DEF clientVars

(* HandleInstallSnapshot with a current term: the snapshot is a prefix of  *)
(* the leader's log that is committed.  A follower that agrees with it at  *)
(* its end keeps its tail, any other has then no more than the snapshot.   *)
LEMMA InstallExplained ==
  ASSUME NodeTypeOK, NodeTypeOK', VotesAreBinding, NEW h \in History, Explains(h),
         NEW m \in InFlight("SnapshotRequest"), m.term >= currentTerm[m.dst],
         HandleInstallSnapshot(m)
  PROVE  Continues(h)
<1>0. PICK n, s, r, T, c, L, reply : /\ n = m.dst /\ T = m.term /\ r = h.log[T] /\ s = h.whole[n]
                                     /\ c = snapIndex[n] /\ L = m.lastIndex
                                     /\ reply = SnapshotReplyTo(m)
  OBVIOUS
<1>1. /\ m \in SnapshotRequest /\ m \in BagToSet(msgs) /\ m.type = "SnapshotRequest"
  BY MessageKinds DEF InFlight, NodeTypeOK
<1>2. /\ SnapshotOK(h, m) /\ n \in Node /\ T \in Nat /\ m.src \in Node /\ L \in Nat
  BY <1>0, <1>1 DEF Explains, MessageOK, SnapshotRequest
<1>3. /\ T >= currentTerm[n] /\ currentTerm[n] \in Nat /\ ~(T < currentTerm[n])
      /\ FollowLeader(n, T, m.src) /\ Exchange({m}, {reply})
      /\ UNCHANGED <<leaderVars, replicationFrame>>
      /\ reply.sent = T /\ reply.src = n /\ reply.type = "SnapshotReply" /\ reply.index = L
  <2>0. currentTerm[n] \in Nat /\ T >= currentTerm[n]
    BY <1>0, <1>2 DEF NodeTypeOK
  <2>1. T >= currentTerm[n] /\ currentTerm[n] \in Nat /\ ~(T < currentTerm[n])
    BY <1>2, <2>0
  <2>2. /\ FollowLeader(n, T, m.src) /\ Exchange({m}, {reply})
        /\ UNCHANGED <<leaderVars, replicationFrame>>
    BY <1>0, <2>1 DEF HandleInstallSnapshot
  <2> QED BY <1>0, <2>1, <2>2 DEF SnapshotReplyTo
<1>4. /\ HistoryOK(h) /\ NodeOK(h, n) /\ s \in Seq(Entry) /\ r \in Seq(Entry)
      /\ Chain(h, s) /\ Chain(h, r) /\ Len(s) \in Nat /\ Len(r) \in Nat
      /\ c \in Nat /\ commitIndex[n] \in Nat /\ lastApplied[n] \in Nat /\ log[n] \in Seq(Entry)
  BY <1>0, <1>2, HistoryTypes, EntriesTyped DEF Explains, HistoryOK, NodeOK, NodeTypeOK
<1>5. /\ Elected(h, T) /\ h.leader[T] = m.src /\ m.src # n /\ currentTerm[n] <= T
      /\ HasIn(r, L, m.lastTerm) /\ Safe(h, T, r, L) /\ L \in 1..Len(r)
  BY <1>0, <1>2, <1>3, NodeAssumption DEF SnapshotOK, Elected, HasIn
<1>6. /\ Agree(s, r, commitIndex[n]) /\ c <= lastApplied[n] /\ lastApplied[n] <= commitIndex[n]
      /\ c <= commitIndex[n]
  BY <1>0, <1>2, <1>5, CommittedInLeader
<1>7. /\ LastLogIndex(n) = Len(s) /\ c \in 0..Len(s)
      /\ \A i \in c..Len(s) : LogTerm(n, i) = TermAt(s, i)
  BY <1>0, <1>2, <1>4, Representation DEF NodeOK
<1>8. /\ UNCHANGED <<votes, clientVars>>
      /\ FollowLeader(n, T, h.leader[T]) /\ h.leader[T] # n
  BY <1>3, <1>5 DEF replicationFrame, ballotVars
<1>9. CASE ~NewerSnapshot(n, m)
  <2>1. UNCHANGED <<logVars, applyVars>>
    BY <1>0, <1>9 DEF HandleInstallSnapshot
  <2>2. /\ log'[n] = log[n] /\ snapIndex'[n] = snapIndex[n] /\ snapTerm'[n] = snapTerm[n]
        /\ lastApplied'[n] = lastApplied[n] /\ commitIndex'[n] = commitIndex[n]
        /\ \A p \in Node \ {n} : Untouched(p)
    BY <1>2, <1>3, <2>1 DEF NodeTypeOK, FollowLeader, Untouched, logVars, applyVars, leaderVars
  <2>3. Replaces(s, s, r) /\ Agree(s, r, c)
    BY <1>4, <1>6, AgreeBelow DEF Replaces
  <2>4. reply.index \in 0..c
    BY <1>0, <1>2, <1>3, <1>4, <1>9 DEF NewerSnapshot
  <2>5. /\ Replaces(s, h.whole[n], h.log[T]) /\ Agree(s, h.log[T], c)
        /\ snapIndex'[n] + Len(log'[n]) = Len(s)
        /\ \A i \in 1..Len(log'[n]) : log'[n][i] = s[snapIndex'[n] + i]
        /\ snapTerm'[n] = TermAt(s, snapIndex'[n])
        /\ snapIndex'[n] <= lastApplied'[n] /\ lastApplied'[n] <= commitIndex'[n]
    BY <1>0, <1>4, <1>6, <2>2, <2>3 DEF NodeOK, Represents, LastLogIndex
  <2> QED BY <1>2, <1>3, <1>4, <1>5, <1>8, <2>2, <2>4, <2>5, AdoptionExplained
<1>10. CASE NewerSnapshot(n, m)
  <2>1. /\ log'[n] = TailKept(n, m) /\ snapIndex'[n] = L /\ snapTerm'[n] = m.lastTerm
        /\ commitIndex'[n] = Larger(commitIndex[n], L)
        /\ lastApplied'[n] = Larger(lastApplied[n], L)
        /\ \A p \in Node \ {n} : Untouched(p)
    <3>1. /\ log' = [log EXCEPT ![n] = TailKept(n, m)]
          /\ snapIndex' = [snapIndex EXCEPT ![n] = L]
          /\ snapTerm' = [snapTerm EXCEPT ![n] = m.lastTerm]
          /\ commitIndex' = [commitIndex EXCEPT ![n] = Larger(@, L)]
          /\ lastApplied' = [lastApplied EXCEPT ![n] = Larger(@, L)]
      BY <1>0, <1>3, <1>10 DEF HandleInstallSnapshot
    <3> QED BY <1>2, <1>3, <3>1 DEF NodeTypeOK, FollowLeader, Untouched, leaderVars
  <2>2. /\ snapIndex'[n] <= lastApplied'[n] /\ lastApplied'[n] <= commitIndex'[n]
        /\ commitIndex'[n] = commitIndex[n] \/ commitIndex'[n] = L
    BY <1>2, <1>4, <1>6, <2>1 DEF Larger
  <2>3. \/ commitIndex'[n] = commitIndex[n]
        \/ commitIndex'[n] <= L /\ Safe(h, T, h.log[T], commitIndex'[n])
    BY <1>0, <1>2, <1>5, <2>2
  <2>4. reply.index \in 0..L /\ L \in c + 1 .. Len(r)
    BY <1>0, <1>2, <1>3, <1>4, <1>5, <1>10 DEF NewerSnapshot
  <2>5. \E s2 \in Seq(Entry) :
          /\ Replaces(s2, s, r) /\ Agree(s2, r, L)
          /\ L + Len(log'[n]) = Len(s2)
          /\ \A i \in 1..Len(log'[n]) : log'[n][i] = s2[L + i]
          /\ m.lastTerm = TermAt(s2, L)
    <3>1. CASE L <= Len(s) /\ LogTerm(n, L) = m.lastTerm
      <4>1. L \in c + 1 .. Len(s) /\ L \in c .. Len(s) /\ L \in 1..Len(s)
        BY <1>2, <1>4, <2>4, <3>1
      <4>2. TermAt(s, L) = m.lastTerm
        BY <1>7, <3>1, <4>1
      <4>3. Agree(s, r, L)
        <5>1. HasIn(s, L, m.lastTerm)
          BY <4>1, <4>2 DEF HasIn, TermAt
        <5> QED BY <1>4, <1>5, <5>1, ChainsMeet
      <4>4. log'[n] = LogAfter(n, L)
        BY <1>0, <1>7, <2>1, <3>1 DEF TailKept
      <4>5. /\ L + Len(log'[n]) = Len(s)
            /\ \A i \in 1..Len(log'[n]) : log'[n][i] = s[L + i]
        <5>1. L \in snapIndex[n] + 1 .. Len(h.whole[n]) /\ s = h.whole[n]
          BY <1>0, <1>4, <4>1
        <5>2. PICK lg : lg = LogAfter(n, L)
          OBVIOUS
        <5>3. /\ L + Len(lg) = Len(s)
              /\ \A i \in 1..Len(lg) : lg[i] = s[L + i]
          <6>1. NodeOK(h, n) /\ n \in Node
            BY Zenon, <1>2, <1>4
          <6>2. /\ L + Len(lg) = Len(h.whole[n])
                /\ \A i \in 1..Len(lg) : lg[i] = h.whole[n][L + i]
            BY ONLY <5>1, <5>2, <6>1, NodeTypeOK, h \in History, LogAfterShape
          <6> QED BY <5>1, <6>2
        <5> QED BY <4>4, <5>2, <5>3
      <4> QED BY <1>4, <4>2, <4>3, <4>5 DEF Replaces
    <3>2. CASE ~(L <= Len(s) /\ LogTerm(n, L) = m.lastTerm)
      <4>1. log'[n] = <<>>
        BY <1>0, <1>7, <2>1, <3>2 DEF TailKept
      <4>2. PICK s2 \in Seq(Entry) : Len(s2) = L /\ \A i \in 1..L : s2[i] = r[i]
        <5>1. L <= Len(r) /\ 1 <= L + 1 /\ 1 \in Nat \ {0}
          BY <1>2, <1>4, <2>4
        <5> DEFINE q == SubSeq(r, 1, L)
        <5>2. /\ q \in Seq(Entry) /\ Len(q) = L - 1 + 1
              /\ \A i \in 1 .. L - 1 + 1 : q[i] = r[1 + i - 1]
          BY <1>2, <1>4, <5>1, Slice
        <5> HIDE DEF q
        <5>3. L - 1 + 1 = L /\ \A i \in 1..L : 1 + i - 1 = i
          BY <1>2
        <5> QED BY <5>2, <5>3
      <4>3. Agree(s2, r, L)
        BY <1>2, <1>4, <2>4, <4>2 DEF Agree
      <4>4. L \in 1..Len(s2) /\ (L > Len(s) \/ s[L] # r[L])
        <5>1. L \in 1..Len(s2)
          BY <1>2, <1>4, <1>5, <4>2
        <5>2. CASE L <= Len(s)
          <6>1. L \in c..Len(s) /\ L \in 1..Len(s)
            BY <1>2, <1>4, <1>5, <2>4, <5>2
          <6>2. s[L].term # m.lastTerm
            BY <1>7, <3>2, <5>2, <6>1 DEF TermAt
          <6>3. r[L].term = m.lastTerm
            BY <1>5 DEF HasIn
          <6> QED BY <5>1, <6>2, <6>3
        <5>3. CASE ~(L <= Len(s))
          BY <1>2, <1>4, <5>1, <5>3
        <5> QED BY <5>2, <5>3
      <4>5. Replaces(s2, s, r)
        BY <4>2, <4>3, <4>4 DEF Replaces
      <4>6. Len(log'[n]) = 0 /\ L + 0 = L /\ \A i \in 1..0 : FALSE
        BY <1>2, <4>1, EmptySeq
      <4>7. m.lastTerm = TermAt(s2, L)
        BY <1>5, <4>2, <4>4 DEF HasIn, TermAt
      <4> QED BY <4>2, <4>3, <4>5, <4>6, <4>7
    <3> QED BY <3>1, <3>2
  <2>6. PICK s2 \in Seq(Entry) :
          /\ Replaces(s2, h.whole[n], h.log[T]) /\ Agree(s2, h.log[T], L)
          /\ snapIndex'[n] + Len(log'[n]) = Len(s2)
          /\ \A i \in 1..Len(log'[n]) : log'[n][i] = s2[snapIndex'[n] + i]
          /\ snapTerm'[n] = TermAt(s2, snapIndex'[n])
    BY <1>0, <2>1, <2>5
  <2> QED BY <1>2, <1>3, <1>4, <1>5, <1>8, <2>1, <2>2, <2>3, <2>4, <2>6, AdoptionExplained
<1> QED BY <1>9, <1>10

-----------------------------------------------------------------------------
(* The leader counts.                                                      *)

(* What checkAndUpdateCommitIndex may commit is chosen: the leader's own   *)
(* entry, stored by the followers it counts and by itself.                 *)
LEMMA CountedIsChosen ==
  ASSUME NodeTypeOK, NEW h \in History, Explains(h), NEW n \in Node, role[n] = Leader,
         NEW match \in [Node -> Nat], \A p \in Node : match[p] <= h.stored[currentTerm[n]][p],
         NEW i \in Committable(n, match)
  PROVE  /\ i \in Nat /\ commitIndex[n] < i
         /\ Chosen(h, currentTerm[n], i) /\ Safe(h, currentTerm[n], h.whole[n], i)
<1>0. PICK s, T, A, B : /\ s = h.whole[n] /\ T = currentTerm[n]
                        /\ A = {p \in Peers(n) : match[p] >= i}
                        /\ B = {v \in Node : h.stored[T][v] >= i}
  OBVIOUS
<1>1. /\ HistoryOK(h) /\ NodeOK(h, n) /\ LeaderOK(h, n) /\ CommitOK(h, n)
      /\ T \in Nat /\ commitIndex[n] \in Nat /\ snapIndex[n] \in Nat /\ lastApplied[n] \in Nat
      /\ s \in Seq(Entry) /\ Len(s) \in Nat
  BY <1>0, HistoryTypes, EntriesTyped DEF Explains, NodeTypeOK
<1>2. s = h.log[T] /\ h.leader[T] = n /\ h.stored[T][n] = Len(s)
  BY <1>0, <1>1 DEF LeaderOK
<1>3. Elected(h, T) /\ T >= 1
  <2>1. Elected(h, T)
    BY <1>2, NodeAssumption DEF Elected
  <2> QED BY <1>1, <2>1 DEF HistoryOK
<1>4. /\ snapIndex[n] <= commitIndex[n] /\ LastLogIndex(n) = Len(s)
      /\ \A j \in snapIndex[n] .. Len(s) : LogTerm(n, j) = TermAt(s, j)
  BY <1>0, <1>1, Representation DEF CommitOK, NodeOK
<1>5. /\ i \in commitIndex[n] + 1 .. Len(s) /\ LogTerm(n, i) = T
      /\ 1 + Cardinality(A) >= Quorum
  BY <1>0, <1>4 DEF Committable
<1>6. i \in Nat /\ commitIndex[n] < i /\ i \in 1..Len(s) /\ i \in snapIndex[n] .. Len(s)
  BY <1>1, <1>4, <1>5
<1>7. HasIn(h.log[T], i, T)
  <2>1. TermAt(s, i) = T
    BY <1>4, <1>5, <1>6
  <2> QED BY <1>2, <1>6, <2>1 DEF HasIn, TermAt
<1>8. Cardinality(B) >= Quorum
  <2>1. IsFiniteSet(A) /\ IsFiniteSet(B) /\ n \notin A
    <3>1. A \subseteq Node /\ B \subseteq Node /\ n \notin A
      BY <1>0 DEF Peers
    <3> QED BY <3>1, NodeAssumption, FS_Subset
  <2>2. Cardinality(A \cup {n}) = Cardinality(A) + 1 /\ IsFiniteSet(A \cup {n})
    BY <2>1, FS_AddElement
  <2>3. A \cup {n} \subseteq B
    <3>1. ASSUME NEW p \in A PROVE p \in B
      <4>1. p \in Node /\ match[p] >= i /\ match[p] \in Nat
        BY <1>0 DEF Peers
      <4>2. match[p] <= h.stored[T][p] /\ h.stored[T][p] \in Nat
        BY <1>0, <1>1, <4>1, HistoryTypes
      <4> QED BY <1>0, <1>6, <4>1, <4>2
    <3>2. n \in B
      BY <1>0, <1>1, <1>2, <1>6
    <3> QED BY <3>1, <3>2
  <2>4. Cardinality(A \cup {n}) <= Cardinality(B)
    BY <2>1, <2>3, FS_Subset
  <2>5. Cardinality(A) \in Nat /\ Cardinality(B) \in Nat /\ Quorum \in Nat
    BY <2>1, FS_CardinalityType, NodeAssumption DEF Quorum
  <2> QED BY <1>5, <2>2, <2>4, <2>5
<1>9. Chosen(h, T, i)
  BY <1>0, <1>7, <1>8 DEF Chosen
<1>10. Safe(h, T, s, i)
  <2>1. Agree(s, h.log[T], i) /\ T \in 1..T /\ i <= i
    BY <1>1, <1>2, <1>3, <1>6 DEF Agree
  <2> QED BY <1>6, <1>9, <2>1 DEF Safe
<1> QED BY <1>0, <1>6, <1>9, <1>10

(* A reply that reports no more than the follower has stored moves the     *)
(* leader's picture of it; what this lets the leader commit is chosen.     *)
LEMMA SuccessExplained ==
  ASSUME NodeTypeOK, NodeTypeOK', VotesAreBinding, NEW h \in History, Explains(h),
         NEW m \in InFlight("AppendReply"), AppendSucceeded(m)
  PROVE  Explains(h)'
<1>0. PICK n, s, T, k, match, next :
        /\ n = m.dst /\ T = currentTerm[n] /\ s = h.whole[n] /\ k = m.match
        /\ next = [nextIndex[n] EXCEPT ![m.src] = k + 1]
        /\ match = [matchIndex[n] EXCEPT ![m.src] = k]
  OBVIOUS
<1>1. /\ m \in AppendReply /\ m \in BagToSet(msgs) /\ m.type = "AppendReply"
  BY MessageKinds DEF InFlight, NodeTypeOK
<1>2. /\ n \in Node /\ m.src \in Node /\ k \in Nat
      /\ role[n] = Leader /\ T = m.sent /\ k <= h.stored[T][m.src]
  BY <1>0, <1>1 DEF Explains, MessageOK, AppendReply, AppendSucceeded, OfThisTerm
<1>3. /\ nextIndex' = [nextIndex EXCEPT ![n] = next]
      /\ matchIndex' = [matchIndex EXCEPT ![n] = match]
      /\ AdvanceCommit(n, m, next, match)
      /\ UNCHANGED <<electionVars, logVars, replicationFrame>>
  BY <1>0 DEF AppendSucceeded, Acknowledged
<1>4. /\ HistoryOK(h) /\ NodeOK(h, n) /\ LeaderOK(h, n) /\ CommitOK(h, n)
      /\ T \in Nat /\ commitIndex[n] \in Nat /\ snapIndex[n] \in Nat /\ lastApplied[n] \in Nat
      /\ s \in Seq(Entry) /\ Len(s) \in Nat /\ log[n] \in Seq(Entry)
      /\ nextIndex[n] \in [Node -> Nat] /\ matchIndex[n] \in [Node -> Nat]
      /\ \A p \in Node : h.stored[T][p] \in Nat
  <2>1. HistoryOK(h) /\ NodeOK(h, n) /\ LeaderOK(h, n) /\ CommitOK(h, n)
    BY <1>2 DEF Explains
  <2>a. /\ currentTerm[n] \in Nat /\ commitIndex[n] \in Nat /\ snapIndex[n] \in Nat
        /\ lastApplied[n] \in Nat
    BY <1>2 DEF NodeTypeOK
  <2>b. log[n] \in Seq(Entry) /\ nextIndex[n] \in [Node -> Nat] /\ matchIndex[n] \in [Node -> Nat]
    BY <1>2 DEF NodeTypeOK
  <2>2. /\ T \in Nat /\ commitIndex[n] \in Nat /\ snapIndex[n] \in Nat /\ lastApplied[n] \in Nat
        /\ log[n] \in Seq(Entry) /\ nextIndex[n] \in [Node -> Nat] /\ matchIndex[n] \in [Node -> Nat]
    BY <1>0, <2>a, <2>b
  <2>3. s \in Seq(Entry) /\ \A p \in Node : h.stored[T][p] \in Nat
    BY <1>0, <1>2, <2>2, HistoryTypes
  <2> QED BY <2>1, <2>2, <2>3, EntriesTyped
<1>5. /\ s = h.log[T] /\ h.leader[T] = n
      /\ \A p \in Node : matchIndex[n][p] <= h.stored[T][p] /\ nextIndex[n][p] <= Len(s) + 1
  BY <1>0, <1>2, <1>4 DEF LeaderOK
<1>6. /\ match \in [Node -> Nat] /\ next \in [Node -> Nat]
      /\ \A p \in Node : match[p] <= h.stored[T][p] /\ next[p] <= Len(s) + 1
  <2>1. k <= Len(s)
    <3>1. h.stored[T][m.src] <= Len(s)
      BY <1>2, <1>4, <1>5 DEF HistoryOK
    <3> QED BY <1>2, <1>4, <3>1
  <2>a. k \in Nat /\ k + 1 \in Nat /\ Len(s) \in Nat
    BY <1>2, <1>4
  <2>b. k + 1 <= Len(s) + 1
    BY ONLY <2>1, <2>a
  <2>c. match \in [Node -> Nat] /\ next \in [Node -> Nat]
    BY <1>0, <1>4, <2>a
  <2>2. match \in [Node -> Nat] /\ next \in [Node -> Nat] /\ k + 1 <= Len(s) + 1
    BY <2>b, <2>c
  <2>3. ASSUME NEW p \in Node PROVE match[p] <= h.stored[T][p] /\ next[p] <= Len(s) + 1
    BY <1>0, <1>2, <1>4, <1>5, <2>2
  <2> QED BY <2>2, <2>3
<1>7. \A i \in Committable(n, match) :
        i \in Nat /\ commitIndex[n] < i /\ Chosen(h, T, i) /\ Safe(h, T, s, i)
  <2> SUFFICES ASSUME NEW i \in Committable(n, match)
               PROVE  i \in Nat /\ commitIndex[n] < i /\ Chosen(h, T, i) /\ Safe(h, T, s, i)
    OBVIOUS
  <2>1. \A p \in Node : match[p] <= h.stored[currentTerm[n]][p]
    BY <1>0, <1>6
  <2>2. /\ i \in Nat /\ commitIndex[n] < i
        /\ Chosen(h, currentTerm[n], i) /\ Safe(h, currentTerm[n], h.whole[n], i)
    BY <1>2, <1>6, <2>1, CountedIsChosen
  <2> QED BY <1>0, <2>2
<1>8. /\ \A p \in Node \ {n} : matchIndex'[p] = matchIndex[p] /\ nextIndex'[p] = nextIndex[p]
      /\ matchIndex'[n] = match /\ nextIndex'[n] = next /\ role'[n] = Leader
      /\ currentTerm'[n] = T /\ snapIndex'[n] = snapIndex[n]
      /\ UNCHANGED <<currentTerm, votedFor, role, log, snapIndex, snapTerm, votes, clientVars>>
  <2>1. UNCHANGED <<currentTerm, votedFor, role, log, snapIndex, snapTerm, votes, clientVars>>
    BY <1>3 DEF electionVars, logVars, replicationFrame, ballotVars
  <2>2. /\ \A p \in Node \ {n} : matchIndex'[p] = matchIndex[p] /\ nextIndex'[p] = nextIndex[p]
        /\ matchIndex'[n] = match /\ nextIndex'[n] = next
    BY <1>2, <1>3 DEF NodeTypeOK
  <2>3. role'[n] = Leader /\ currentTerm'[n] = T /\ snapIndex'[n] = snapIndex[n]
    BY <1>0, <1>2, <2>1
  <2> QED BY <2>1, <2>2, <2>3
<1>9. NodeOK(h, n)'
  BY <1>4, <1>8 DEF NodeOK, Represents, LastLogIndex
<1>10. LeaderOK(h, n)'
  BY <1>0, <1>2, <1>4, <1>5, <1>6, <1>8 DEF LeaderOK
<1>11. /\ \A p \in Node \ {n} : commitIndex'[p] = commitIndex[p] /\ lastApplied'[p] = lastApplied[p]
       /\ CommitOK(h, n)'
       /\ \A x \in BagToSet(msgs)' :
            x \in BagToSet(msgs) \/ (SolicitationOK(x)' /\ MessageOK(h, x))
       /\ Claims' \subseteq Claims
  <2>1. CASE Committable(n, match) = {}
    <3>1. Exchange({m}, {}) /\ UNCHANGED applyVars
      BY <1>3, <2>1 DEF AdvanceCommit
    <3>2. CommitOK(h, n)'
      BY <1>0, <1>4, <1>8, <3>1 DEF CommitOK, applyVars
    <3>3. \A x \in BagToSet(msgs)' :
            x \in BagToSet(msgs) \/ (SolicitationOK(x)' /\ MessageOK(h, x))
      BY <3>1, SentTrue
    <3>4. Claims' \subseteq Claims
      <4>1. NoGrant({})
        BY DEF NoGrant
      <4> QED BY <1>8, <3>1, <4>1, ClaimsShrink
    <3> QED BY <3>1, <3>2, <3>3, <3>4 DEF applyVars
  <2>2. CASE Committable(n, match) # {}
    <3>1. PICK index : index = Max(Committable(n, match))
      OBVIOUS
    <3>2. index \in Committable(n, match)
      <4>1. Committable(n, match) \in SUBSET Nat
        BY <1>7
      <4>2. \A i \in Committable(n, match) : i <= LastLogIndex(n) /\ LastLogIndex(n) \in Nat
        BY <1>2, <1>4, LogTypes DEF Committable
      <4> QED BY <2>2, <3>1, <4>1, <4>2, MaxOfNats
    <3>3. index \in Nat /\ commitIndex[n] < index /\ Safe(h, T, s, index)
      BY <1>7, <3>2
    <3>4. /\ commitIndex' = [commitIndex EXCEPT ![n] = index] /\ lastApplied' = lastApplied
          /\ \E reached \in SUBSET Peers(n) :
               Exchange({m}, BroadcastRpcs(n, reached, log[n], index, next))
      BY <1>3, <2>2, <3>1 DEF AdvanceCommit
    <3>5. /\ \A p \in Node \ {n} : commitIndex'[p] = commitIndex[p]
          /\ commitIndex'[n] = index
      BY <1>2, <3>4 DEF NodeTypeOK
    <3>6. snapIndex[n] <= lastApplied[n] /\ lastApplied[n] <= index /\ snapIndex[n] <= index
      BY <1>4, <3>3 DEF CommitOK
    <3>7. CommitOK(h, n)'
      BY <1>0, <1>8, <3>3, <3>4, <3>5, <3>6 DEF CommitOK
    <3>8. PICK reached \in SUBSET Peers(n) :
            Exchange({m}, BroadcastRpcs(n, reached, log[n], index, next))
      BY <3>4
    <3>9. /\ s = h.log[currentTerm[n]] /\ h.leader[currentTerm[n]] = n
          /\ snapIndex[n] + Len(log[n]) = Len(s)
          /\ \A i \in 1..Len(log[n]) : log[n][i] = s[snapIndex[n] + i]
          /\ snapTerm[n] = TermAt(s, snapIndex[n])
          /\ Safe(h, currentTerm[n], s, index)
      BY <1>0, <1>4, <1>5, <3>3 DEF NodeOK, Represents, LastLogIndex
    <3>10. \A x \in BroadcastRpcs(n, reached, log[n], index, next) :
             SolicitationOK(x)' /\ MessageOK(h, x)
      BY <1>2, <1>4, <1>6, <3>3, <3>6, <3>9, BroadcastTrue
    <3>11. \A x \in BagToSet(msgs)' :
             x \in BagToSet(msgs) \/ (SolicitationOK(x)' /\ MessageOK(h, x))
      BY <3>8, <3>10, SentTrue
    <3>12. Claims' \subseteq Claims
      <4>1. NoGrant(BroadcastRpcs(n, reached, log[n], index, next))
        BY DEF NoGrant, BroadcastRpcs, AppendRpc, SnapshotRpc
      <4> QED BY <1>8, <3>8, <4>1, ClaimsShrink
    <3> QED BY <3>4, <3>5, <3>7, <3>11, <3>12
  <2> QED BY <2>1, <2>2
<1>12. \A p \in Node \ {n} : Untouched(p)
  BY <1>8, <1>11 DEF Untouched
<1>13. KeepsTerm(n) /\ KeepsCampaign(n)
  BY <1>0, <1>2, <1>4, <1>8 DEF KeepsTerm, KeepsCampaign, Leader, Candidate
<1> QED BY <1>2, <1>8, <1>9, <1>10, <1>11, <1>12, <1>13, ExplainedAsBefore DEF clientVars

(* A leader that changes only its picture of the followers, and thinks no  *)
(* better of them than they are.                                           *)
LEMMA PictureExplained ==
  ASSUME NodeTypeOK, NodeTypeOK', VotesAreBinding, NEW h \in History, Explains(h),
         NEW n \in Node, role[n] = Leader, NEW next \in [Node -> Nat], NEW match \in [Node -> Nat],
         \A p \in Node : /\ match[p] <= h.stored[currentTerm[n]][p]
                         /\ next[p] <= Len(h.whole[n]) + 1,
         nextIndex' = [nextIndex EXCEPT ![n] = next],
         matchIndex' = [matchIndex EXCEPT ![n] = match],
         NEW m, Exchange({m}, {}),
         UNCHANGED <<electionVars, logVars, applyVars, replicationFrame>>
  PROVE  Explains(h)'
<1>1. /\ NodeOK(h, n) /\ LeaderOK(h, n) /\ CommitOK(h, n) /\ currentTerm[n] \in Nat
  BY DEF Explains, NodeTypeOK
<1>2. UNCHANGED <<currentTerm, votedFor, role, log, snapIndex, snapTerm, commitIndex, lastApplied,
                  votes, proposals, acked>>
  BY DEF electionVars, logVars, applyVars, replicationFrame, ballotVars, clientVars
<1>3. /\ \A p \in Node \ {n} : matchIndex'[p] = matchIndex[p] /\ nextIndex'[p] = nextIndex[p]
      /\ matchIndex'[n] = match /\ nextIndex'[n] = next
  BY DEF NodeTypeOK
<1>4. NodeOK(h, n)' /\ CommitOK(h, n)'
  BY <1>1, <1>2 DEF NodeOK, Represents, LastLogIndex, CommitOK
<1>5. LeaderOK(h, n)'
  <2>1. /\ h.leader[currentTerm[n]] = n /\ h.whole[n] = h.log[currentTerm[n]]
        /\ h.stored[currentTerm[n]][n] = Len(h.whole[n])
    BY <1>1 DEF LeaderOK
  <2> QED BY <1>2, <1>3, <2>1 DEF LeaderOK
<1>6. /\ \A p \in Node \ {n} : Untouched(p)
      /\ KeepsTerm(n) /\ KeepsCampaign(n)
  BY <1>1, <1>2, <1>3 DEF Untouched, KeepsTerm, KeepsCampaign, Leader, Candidate
<1>7. Claims' \subseteq Claims
  <2>1. NoGrant({})
    BY DEF NoGrant
  <2> QED BY <1>2, <2>1, ClaimsShrink
<1>8. \A x \in BagToSet(msgs)' :
        x \in BagToSet(msgs) \/ (SolicitationOK(x)' /\ MessageOK(h, x))
  BY SentTrue
<1> QED BY <1>2, <1>4, <1>5, <1>6, <1>7, <1>8, ExplainedAsBefore

(* A refusal moves the leader's guess back, and a snapshot that is          *)
(* installed moves its picture to the snapshot's end.                      *)
LEMMA RepliesExplained ==
  ASSUME NodeTypeOK, NodeTypeOK', VotesAreBinding, NEW h \in History, Explains(h),
         NEW m, \/ m \in InFlight("AppendReply") /\ AppendRefused(m)
                \/ m \in InFlight("SnapshotReply") /\ SnapshotInstalled(m)
  PROVE  Explains(h)'
<1>0. PICK n, s, T : n = m.dst /\ T = currentTerm[n] /\ s = h.whole[n]
  OBVIOUS
<1>1. /\ m \in Message /\ m \in BagToSet(msgs) /\ n \in Node /\ m.src \in Node /\ m.term \in Nat
  BY <1>0, MessageKinds DEF InFlight, NodeTypeOK
<1>2. role[n] = Leader /\ T = m.sent /\ m.term <= T
  BY <1>0 DEF AppendRefused, SnapshotInstalled, OfThisTerm
<1>3. /\ HistoryOK(h) /\ NodeOK(h, n) /\ LeaderOK(h, n) /\ MessageOK(h, m)
  BY <1>1 DEF Explains
<1>4. /\ currentTerm[n] \in Nat /\ snapIndex[n] \in Nat
      /\ nextIndex[n] \in [Node -> Nat] /\ matchIndex[n] \in [Node -> Nat]
  BY <1>1 DEF NodeTypeOK
<1>5. /\ T \in Nat /\ s \in Seq(Entry) /\ Len(s) \in Nat /\ h.stored[T][m.src] \in Nat
  BY <1>0, <1>1, <1>4, HistoryTypes, EntriesTyped
<1>6. /\ s = h.log[T]
      /\ \A p \in Node : matchIndex[n][p] <= h.stored[T][p] /\ nextIndex[n][p] <= Len(s) + 1
  BY <1>0, <1>2, <1>3 DEF LeaderOK
<1>7. snapIndex[n] <= Len(s)
  BY <1>0, <1>1, <1>3, <1>4, Representation DEF NodeOK
<1>8. CASE AppendRefused(m)
  <2>0. PICK next : next = [nextIndex[n] EXCEPT ![m.src] = NextAfterRefusal(n, @)]
    OBVIOUS
  <2>1. /\ nextIndex' = [nextIndex EXCEPT ![n] = next] /\ matchIndex' = matchIndex
        /\ Exchange({m}, {})
        /\ UNCHANGED <<electionVars, logVars, applyVars, replicationFrame>>
    <3>1. nextIndex' = [nextIndex EXCEPT ![n][m.src] = NextAfterRefusal(n, @)]
      BY <1>0, <1>8 DEF AppendRefused
    <3>2. nextIndex' = [nextIndex EXCEPT ![n] = next]
      BY <1>1, <2>0, <3>1
    <3> QED BY <1>8, <3>2 DEF AppendRefused
  <2>2. matchIndex' = [matchIndex EXCEPT ![n] = matchIndex[n]]
    BY <2>1 DEF NodeTypeOK
  <2>3. /\ NextAfterRefusal(n, nextIndex[n][m.src]) \in Nat
        /\ NextAfterRefusal(n, nextIndex[n][m.src]) <= Len(s) + 1
    <3>1. nextIndex[n][m.src] \in Nat /\ nextIndex[n][m.src] <= Len(s) + 1
      BY <1>1, <1>4, <1>6
    <3> QED BY <1>4, <1>5, <1>7, <3>1 DEF NextAfterRefusal
  <2>4. next \in [Node -> Nat] /\ \A p \in Node : next[p] <= Len(s) + 1
    BY <1>1, <1>4, <1>6, <2>0, <2>3
  <2>5. \A p \in Node : /\ matchIndex[n][p] <= h.stored[currentTerm[n]][p]
                        /\ next[p] <= Len(h.whole[n]) + 1
    BY <1>0, <1>6, <2>4
  <2> QED BY <1>1, <1>2, <1>4, <2>1, <2>2, <2>4, <2>5, PictureExplained
<1>9. CASE m \in InFlight("SnapshotReply") /\ SnapshotInstalled(m)
  <2>0. PICK next, match : IF m.index >= nextIndex[n][m.src]
                           THEN /\ next = [nextIndex[n] EXCEPT ![m.src] = m.index + 1]
                                /\ match = [matchIndex[n] EXCEPT ![m.src] = m.index]
                           ELSE next = nextIndex[n] /\ match = matchIndex[n]
    OBVIOUS
  <2>1. m.index \in Nat /\ m.index <= h.stored[T][m.src]
    <3>1. m.type = "SnapshotReply" /\ m.index \in Nat
      BY <1>1, <1>9, MessageKinds DEF InFlight, SnapshotReply
    <3>2. m.term > T \/ m.index <= h.stored[T][m.src]
      BY <1>2, <1>3, <3>1 DEF MessageOK
    <3> QED BY <1>1, <1>2, <1>5, <3>1, <3>2
  <2>2. m.index + 1 \in Nat /\ m.index + 1 <= Len(s) + 1
    <3>1. h.stored[T][m.src] <= Len(s)
      BY <1>1, <1>3, <1>5, <1>6 DEF HistoryOK
    <3> QED BY <1>5, <2>1, <3>1
  <2>3. /\ next \in [Node -> Nat] /\ match \in [Node -> Nat]
        /\ \A p \in Node : match[p] <= h.stored[T][p] /\ next[p] <= Len(s) + 1
    <3>1. CASE m.index >= nextIndex[n][m.src]
      BY <1>1, <1>4, <1>6, <2>0, <2>1, <2>2, <3>1
    <3>2. CASE ~(m.index >= nextIndex[n][m.src])
      BY <1>4, <1>6, <2>0, <3>2
    <3> QED BY <3>1, <3>2
  <2>4. nextIndex' = [nextIndex EXCEPT ![n] = next] /\ matchIndex' = [matchIndex EXCEPT ![n] = match]
    <3>1. CASE m.index >= nextIndex[n][m.src]
      <4>1. /\ nextIndex' = [nextIndex EXCEPT ![n][m.src] = m.index + 1]
            /\ matchIndex' = [matchIndex EXCEPT ![n][m.src] = m.index]
        BY <1>0, <1>9, <3>1 DEF SnapshotInstalled
      <4> QED BY <2>0, <3>1, <4>1
    <3>2. CASE ~(m.index >= nextIndex[n][m.src])
      <4>1. UNCHANGED leaderVars
        BY <1>0, <1>9, <3>2 DEF SnapshotInstalled
      <4> QED BY <2>0, <3>2, <4>1 DEF leaderVars, NodeTypeOK
    <3> QED BY <3>1, <3>2
  <2>5. Exchange({m}, {}) /\ UNCHANGED <<electionVars, logVars, applyVars, replicationFrame>>
    BY <1>9 DEF SnapshotInstalled
  <2>6. \A p \in Node : /\ match[p] <= h.stored[currentTerm[n]][p]
                        /\ next[p] <= Len(h.whole[n]) + 1
    BY <1>0, <2>3
  <2> QED BY <1>1, <1>2, <2>3, <2>4, <2>5, <2>6, PictureExplained
<1> QED BY <1>8, <1>9

-----------------------------------------------------------------------------
(* The applier and the waiting Propose calls, and all of replication.      *)

(* The applier moves lastApplied, at most to the commit index.             *)
LEMMA ApplyExplained ==
  ASSUME NodeTypeOK, NodeTypeOK', VotesAreBinding, NEW h \in History, Explains(h),
         NEW n \in Node, Apply(n)
  PROVE  Explains(h)'
<1>1. /\ NodeOK(h, n) /\ LeaderOK(h, n) /\ CommitOK(h, n) /\ currentTerm[n] \in Nat
      /\ commitIndex[n] \in Nat /\ lastApplied[n] \in Nat /\ snapIndex[n] \in Nat
  BY DEF Explains, NodeTypeOK
<1>2. /\ UNCHANGED <<currentTerm, votedFor, role, log, snapIndex, snapTerm, commitIndex,
                     nextIndex, matchIndex, votes, msgs, proposals, acked>>
      /\ lastApplied' = [lastApplied EXCEPT ![n] = Larger(@, ApplyUpTo(n))]
  BY DEF Apply, electionVars, logVars, leaderVars, replicationFrame, ballotVars, clientVars
<1>3. /\ \A p \in Node \ {n} : lastApplied'[p] = lastApplied[p]
      /\ lastApplied'[n] = Larger(lastApplied[n], commitIndex[n])
  BY <1>2 DEF NodeTypeOK, ApplyUpTo
<1>4. NodeOK(h, n)'
  BY <1>1, <1>2 DEF NodeOK, Represents, LastLogIndex
<1>5. LeaderOK(h, n)'
  BY <1>1, <1>2 DEF LeaderOK
<1>6. CommitOK(h, n)'
  <2>1. snapIndex[n] <= lastApplied[n] /\ lastApplied[n] <= commitIndex[n]
    BY <1>1 DEF CommitOK
  <2>2. Larger(lastApplied[n], commitIndex[n]) = commitIndex[n] /\ snapIndex[n] <= commitIndex[n]
    BY <1>1, <2>1 DEF Larger
  <2> QED BY <1>1, <1>2, <1>3, <2>2 DEF CommitOK
<1>7. /\ \A p \in Node \ {n} : Untouched(p)
      /\ KeepsTerm(n) /\ KeepsCampaign(n)
  BY <1>1, <1>2, <1>3 DEF Untouched, KeepsTerm, KeepsCampaign, LastLogIndex, LastLogTerm
<1>8. Claims' \subseteq Claims
  <2>1. NoGrant({})
    BY DEF NoGrant
  <2> QED BY <1>2, <2>1, ClaimsShrink
<1> QED BY <1>2, <1>4, <1>5, <1>6, <1>7, <1>8, ExplainedAsBefore

(* A Propose call returns when its leader, still in the term of the entry, *)
(* has committed it: no leader of an earlier term can have committed an    *)
(* entry of this term, so it is chosen in this term.                       *)
LEMMA ReturnExplained ==
  ASSUME NodeTypeOK, NodeTypeOK', VotesAreBinding, NEW h \in History, Explains(h),
         NEW p, ProposeReturns(p)
  PROVE  Explains(h)'
<1>0. PICK n, s, T, c : n = p.node /\ T = p.term /\ s = h.whole[n] /\ c = commitIndex[n]
  OBVIOUS
<1>1. /\ p \in proposals /\ role[n] = Leader /\ currentTerm[n] = T /\ c >= p.index
      /\ proposals' = proposals \ {p} /\ acked' = acked \cup {p}
      /\ UNCHANGED <<currentTerm, votedFor, role, log, snapIndex, snapTerm, commitIndex, lastApplied,
                     nextIndex, matchIndex, votes, msgs>>
  BY <1>0 DEF ProposeReturns, ProposalCommitted, electionVars, ballotVars, logVars, applyVars, leaderVars
<1>2. /\ n \in Node /\ T \in Nat /\ p.index \in Nat
      /\ HistoryOK(h) /\ NodeOK(h, n) /\ LeaderOK(h, n) /\ CommitOK(h, n) /\ ProposalOK(h, p)
  <2>1. n \in Node /\ T \in Nat /\ p.index \in Nat
    BY <1>0, <1>1 DEF NodeTypeOK
  <2> QED BY <1>1, <2>1 DEF Explains
<1>3. /\ c \in Nat /\ s = h.log[T] /\ s \in Seq(Entry) /\ Len(s) \in Nat
      /\ p.index \in 1..Len(s) /\ s[p.index].term = T
      /\ Safe(h, T, s, c)
  <2>1. c \in Nat /\ s \in Seq(Entry) /\ Len(s) \in Nat
    BY <1>0, <1>2, HistoryTypes, EntriesTyped DEF NodeTypeOK
  <2>2. s = h.log[T] /\ Safe(h, T, s, c)
    BY <1>0, <1>1, <1>2 DEF LeaderOK, CommitOK
  <2> QED BY <1>0, <1>2, <2>1, <2>2 DEF ProposalOK
<1>4. AnswerOK(h, p)
  <2>1. p.index <= c /\ c # 0 /\ p.index \in 1..c
    BY <1>1, <1>2, <1>3
  <2>2. PICK u \in 1..T, i \in Nat : c <= i /\ Chosen(h, u, i) /\ Agree(s, h.log[u], c)
    BY <1>3, <2>1 DEF Safe
  <2>3. u \in Nat /\ u <= T
    BY <1>2
  <2>4. u = T
    <3>1. h.log[u] \in Seq(Entry) /\ Len(h.log[u]) \in Nat
      BY <2>3, HistoryTypes, EntriesTyped
    <3>2. p.index \in 1..Len(h.log[u]) /\ h.log[u][p.index].term = T
      BY <1>3, <2>1, <2>2, <3>1 DEF Agree
    <3>3. h.log[u][p.index].term <= u
      BY <1>2, <2>3, <3>2 DEF HistoryOK
    <3> QED BY <1>2, <2>3, <3>2, <3>3
  <2> QED BY <1>0, <1>2, <1>3, <2>1, <2>2, <2>4 DEF AnswerOK
<1>5. NodeOK(h, n)' /\ LeaderOK(h, n)' /\ CommitOK(h, n)'
  BY <1>1, <1>2 DEF NodeOK, Represents, LastLogIndex, LeaderOK, CommitOK
<1>6. /\ \A q \in Node \ {n} : Untouched(q)
      /\ KeepsTerm(n) /\ KeepsCampaign(n)
  BY <1>1, <1>2 DEF Untouched, KeepsTerm, KeepsCampaign, LastLogIndex, LastLogTerm
<1>7. Claims' \subseteq Claims
  <2>1. NoGrant({})
    BY DEF NoGrant
  <2> QED BY <1>1, <2>1, ClaimsShrink
<1> QED BY <1>1, <1>2, <1>4, <1>5, <1>6, <1>7, ExplainedAsBefore

(* A Propose call that gives up leaves its entry in the log, and nothing    *)
(* to answer for.                                                          *)
LEMMA FailureExplained ==
  ASSUME NodeTypeOK, NodeTypeOK', VotesAreBinding, NEW h \in History, Explains(h),
         NEW p, ProposeFails(p)
  PROVE  Explains(h)'
<1>0. PICK n : n = p.node
  OBVIOUS
<1>1. /\ p \in proposals /\ proposals' = proposals \ {p}
      /\ UNCHANGED <<currentTerm, votedFor, role, log, snapIndex, snapTerm, commitIndex, lastApplied,
                     nextIndex, matchIndex, votes, msgs, acked>>
  BY DEF ProposeFails, electionVars, ballotVars, logVars, applyVars, leaderVars
<1>2. n \in Node /\ currentTerm[n] \in Nat /\ NodeOK(h, n) /\ LeaderOK(h, n) /\ CommitOK(h, n)
  <2>1. n \in Node /\ currentTerm[n] \in Nat
    BY <1>0, <1>1 DEF NodeTypeOK
  <2> QED BY <2>1 DEF Explains
<1>3. NodeOK(h, n)' /\ LeaderOK(h, n)' /\ CommitOK(h, n)'
  BY <1>1, <1>2 DEF NodeOK, Represents, LastLogIndex, LeaderOK, CommitOK
<1>4. /\ \A q \in Node \ {n} : Untouched(q)
      /\ KeepsTerm(n) /\ KeepsCampaign(n)
  BY <1>1, <1>2 DEF Untouched, KeepsTerm, KeepsCampaign, LastLogIndex, LastLogTerm
<1>5. Claims' \subseteq Claims
  <2>1. NoGrant({})
    BY DEF NoGrant
  <2> QED BY <1>1, <2>1, ClaimsShrink
<1> QED BY <1>1, <1>2, <1>3, <1>4, <1>5, ExplainedAsBefore

(* Every step of replication continues the history.                        *)
LEMMA ReplicationContinues ==
  ASSUME NodeTypeOK, NodeTypeOK', VotesAreBinding, NEW h \in History, Explains(h),
         ReplicationNext
  PROVE  Continues(h)
<1>1. \A m \in BagToSet(msgs) : m \in Message /\ m.dst \in Node /\ m.term \in Nat
  BY MessageKinds DEF NodeTypeOK
<1>2. CASE \E n \in Node : Heartbeat(n)
  BY <1>2, HeartbeatExplained, ContinuesAsBefore
<1>3. CASE \E n \in Node, data \in Payload : Propose(n, data)
  BY <1>3, ProposeExplained
<1>4. CASE \E p \in proposals : ProposeReturns(p) \/ ProposeFails(p)
  <2>1. PICK p \in proposals : ProposeReturns(p) \/ ProposeFails(p)
    BY <1>4
  <2>2. p.node \in Node
    BY <2>1 DEF NodeTypeOK
  <2>3. Explains(h)'
    BY <2>1, ReturnExplained, FailureExplained
  <2> QED BY <2>2, <2>3, ContinuesAsBefore
<1>5. CASE \E m \in InFlight("AppendRequest") : HandleAppendEntries(m)
  <2>1. PICK m \in InFlight("AppendRequest") : HandleAppendEntries(m)
    BY <1>5
  <2>2. m \in BagToSet(msgs) /\ m.dst \in Node
    BY <1>1 DEF InFlight
  <2>3. CASE RejectStaleAppend(m)
    BY <2>2, <2>3, IgnoredExplained, ContinuesAsBefore
  <2>4. CASE AppendCompacted(m)
    BY <2>4, CompactedExplained
  <2>5. CASE HandleCurrentAppend(m) /\ PrevMatches(m.dst, Trimmed(m.dst, m))
    BY <2>5, MatchExplained
  <2>6. CASE HandleCurrentAppend(m) /\ ~PrevMatches(m.dst, Trimmed(m.dst, m))
    <3>1. /\ m.term >= currentTerm[m.dst] /\ FollowLeader(m.dst, m.term, m.src)
          /\ Exchange({m}, {AppendReplyTo(m, m.term, FALSE, 0)})
          /\ UNCHANGED <<logVars, applyVars, leaderVars, replicationFrame>>
      BY <2>6 DEF HandleCurrentAppend, logVars
    <3> QED BY <2>2, <3>1, RefusalExplained, ContinuesAsBefore
  <2> QED BY <2>1, <2>3, <2>4, <2>5, <2>6 DEF HandleAppendEntries
<1>6. CASE \E m \in InFlight("AppendReply") : HandleAppendReply(m)
  <2>1. PICK m \in InFlight("AppendReply") : HandleAppendReply(m)
    BY <1>6
  <2>2. m \in BagToSet(msgs) /\ m.dst \in Node
    BY <1>1 DEF InFlight
  <2>3. CASE ReplyIgnored(m)
    BY <2>2, <2>3, IgnoredExplained, ContinuesAsBefore
  <2>4. CASE AppendSucceeded(m)
    BY <2>2, <2>4, SuccessExplained, ContinuesAsBefore
  <2>5. CASE AppendRefused(m)
    BY <2>2, <2>5, RepliesExplained, ContinuesAsBefore
  <2> QED BY <2>1, <2>3, <2>4, <2>5 DEF HandleAppendReply
<1>7. CASE \E m \in InFlight("SnapshotRequest") : HandleInstallSnapshot(m)
  <2>1. PICK m \in InFlight("SnapshotRequest") : HandleInstallSnapshot(m)
    BY <1>7
  <2>2. m.dst \in Node /\ m.term \in Nat
    BY <1>1 DEF InFlight
  <2>a. currentTerm[m.dst] \in Nat
    BY <2>2 DEF NodeTypeOK
  <2>3. m.term < currentTerm[m.dst] \/ m.term >= currentTerm[m.dst]
    BY ONLY <2>2, <2>a
  <2>4. CASE m.term < currentTerm[m.dst]
    BY <2>1, <2>2, <2>4, StaleSnapshotExplained, ContinuesAsBefore
  <2>5. CASE m.term >= currentTerm[m.dst]
    BY <2>1, <2>5, InstallExplained
  <2> QED BY <2>3, <2>4, <2>5
<1>8. CASE \E m \in InFlight("SnapshotReply") : HandleSnapshotReply(m)
  <2>1. PICK m \in InFlight("SnapshotReply") : HandleSnapshotReply(m)
    BY <1>8
  <2>2. m \in BagToSet(msgs) /\ m.dst \in Node
    BY <1>1 DEF InFlight
  <2>3. CASE ReplyIgnored(m)
    BY <2>2, <2>3, IgnoredExplained, ContinuesAsBefore
  <2>4. CASE SnapshotInstalled(m)
    BY <2>2, <2>4, RepliesExplained, ContinuesAsBefore
  <2> QED BY <2>1, <2>3, <2>4 DEF HandleSnapshotReply
<1>9. CASE \E n \in Node, index \in 1..MaxSnapshot : TakeSnapshot(n, index)
  BY <1>9, CompactionExplained, ContinuesAsBefore
<1>10. CASE \E n \in Node : Apply(n)
  BY <1>10, ApplyExplained, ContinuesAsBefore
<1> QED BY <1>2, <1>3, <1>4, <1>5, <1>6, <1>7, <1>8, <1>9, <1>10 DEF ReplicationNext

(* Every step of the cluster continues the history.                        *)
LEMMA StepContinues ==
  ASSUME NodeTypeOK, NodeTypeOK', VotesAreBinding, NEW h \in History, Explains(h), Next
  PROVE  Continues(h)
<1>1. CASE \E m \in BagToSet(msgs) : LoseRpc(m)
  <2>1. PICK m \in BagToSet(msgs) : LoseRpc(m)
    BY <1>1
  <2>2. m.dst \in Node
    BY MessageKinds DEF NodeTypeOK
  <2> QED BY <2>1, <2>2, IgnoredExplained, ContinuesAsBefore
<1> QED BY <1>1, ElectionContinues, ReplicationContinues DEF Next
=============================================================================
