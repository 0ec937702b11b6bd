---------------------------- MODULE RaftHistory ----------------------------
(***************************************************************************)
(* The inductive invariant behind the safety of the log.  A state of the   *)
(* cluster does not say who led the terms that are over, with which log,   *)
(* and who had stored how much of it; the invariant says that there is a   *)
(* history h of these facts that explains the state.                       *)
(*                                                                         *)
(* With whole[n], the log n would have if it had never been compacted, the *)
(* history also makes snapshots plain: they move an anchor and change no   *)
(* log.                                                                    *)
(***************************************************************************)
EXTENDS RaftConsensus

History ==
  [leader : [Nat -> Node \cup {NoNode}],   \* who was elected in a term
   quorum : [Nat -> SUBSET Node],          \* by whose votes
   log    : [Nat -> Seq(Entry)],           \* the whole log of the term's leader
   stored : [Nat -> [Node -> Nat]],        \* how much of it a node has stored in that term
   whole  : [Node -> Seq(Entry)]]          \* every node's log, compacted entries included

Elected(h, t) == h.leader[t] # NoNode

\* Two logs agree on their first k entries.
Agree(s, r, k) ==
  /\ k <= Len(s) /\ k <= Len(r)
  /\ \A j \in 1..k : s[j] = r[j]

HasIn(s, i, t) == i \in 1..Len(s) /\ s[i].term = t
TermAt(s, i) == IF i \in 1..Len(s) THEN s[i].term ELSE 0

\* Every entry of the log came, with all before it, from the leader of its term.
Chain(h, s) == \A i \in 1..Len(s) : Agree(s, h.log[s[i].term], i)

\* Every entry has a client's payload: nil Data only comes with a restart.
NoNil(s) == \A i \in 1..Len(s) : s[i].data # NilData

\* The leader of u has no entry of term t at i.
Lacks(h, u, i, t) == Elected(h, u) /\ ~HasIn(h.log[u], i, t)

\* What v stored in term t of t's own entries is in s, unless the leader of a term after
\* t and up to u lacks it.
Kept(h, v, t, s, u) ==
  \A i \in 1..h.stored[t][v] :
    h.log[t][i].term = t => HasIn(s, i, t) \/ \E w \in t + 1 .. u : Lacks(h, w, i, t)

\* Index i is committed by the leader of t: its own entry, stored by a quorum.
Chosen(h, t, i) ==
  /\ HasIn(h.log[t], i, t)
  /\ Cardinality({v \in Node : h.stored[t][v] >= i}) >= Quorum

\* The first k entries of s are committed since some term up to t.
Safe(h, t, s, k) ==
  k = 0 \/ \E u \in 1..t, i \in Nat : k <= i /\ Chosen(h, u, i) /\ Agree(s, h.log[u], k)

-----------------------------------------------------------------------------
(* The history in itself: logs are chains of payloads, an elected node had a quorum, and *)
(* what its voters had stored is in its log or was lacking before.          *)
HistoryOK(h) ==
  /\ ~Elected(h, 0)
  /\ \A t \in Nat :
       /\ Chain(h, h.log[t]) /\ NoNil(h.log[t])
       /\ \A i \in 1..Len(h.log[t]) : h.log[t][i].term <= t
       /\ \A v \in Node : h.stored[t][v] <= Len(h.log[t])
       /\ ~Elected(h, t) => h.log[t] = <<>>
       /\ Elected(h, t) =>
            /\ Cardinality(h.quorum[t]) >= Quorum
            /\ \A v \in h.quorum[t], u \in 0..t - 1 : Kept(h, v, u, h.log[t], t - 1)

(* The compacted log of n, its anchor and its whole log.                    *)
Represents(h, n) ==
  /\ LastLogIndex(n) = Len(h.whole[n])
  /\ \A i \in 1..Len(log[n]) : log[n][i] = h.whole[n][snapIndex[n] + i]
  /\ snapTerm[n] = TermAt(h.whole[n], snapIndex[n])

(* A node's log is a chain, and what the node has stored of a leader's log  *)
(* stays in it for as long as the term lasts.                               *)
NodeOK(h, n) ==
  /\ Represents(h, n)
  /\ Chain(h, h.whole[n])
  /\ \A i \in 1..Len(h.whole[n]) : h.whole[n][i].term <= currentTerm[n]
  /\ \A t \in Nat : t > currentTerm[n] => h.stored[t][n] = 0
  /\ Agree(h.whole[n], h.log[currentTerm[n]], h.stored[currentTerm[n]][n])
  /\ \A t \in 0..currentTerm[n] - 1 : Kept(h, n, t, h.whole[n], currentTerm[n])

(* A leader is the one elected in its term, its log is the term's log, and  *)
(* it thinks no better of its followers than they are.                      *)
LeaderOK(h, n) ==
  role[n] = Leader =>
    /\ h.leader[currentTerm[n]] = n
    /\ h.whole[n] = h.log[currentTerm[n]]
    /\ h.stored[currentTerm[n]][n] = Len(h.whole[n])
    /\ \A p \in Node : /\ matchIndex[n][p] <= h.stored[currentTerm[n]][p]
                       /\ nextIndex[n][p] <= Len(h.whole[n]) + 1

(* Whoever was elected stays leader until its term is over, and its voters  *)
(* are bound by their votes.                                                *)
ElectionOK(h, t) ==
  Elected(h, t) =>
    /\ currentTerm[h.leader[t]] >= t
    /\ currentTerm[h.leader[t]] = t => role[h.leader[t]] = Leader
    /\ \A v \in h.quorum[t] :
         /\ currentTerm[v] >= t
         /\ currentTerm[v] = t => votedFor[v] = h.leader[t]

(* The evidence x of a vote: it is for the one who was elected, or while    *)
(* nobody is, for a candidate whose log holds what the voter has stored.    *)
ClaimOK(h, x) ==
  /\ x.term \in 1..currentTerm[x.candidate]
  /\ Elected(h, x.term) /\ x.voter \in h.quorum[x.term] => x.candidate = h.leader[x.term]
  /\ ~Elected(h, x.term) /\ role[x.candidate] = Candidate /\ currentTerm[x.candidate] = x.term =>
       \A t \in 0..x.term - 1 : Kept(h, x.voter, t, h.whole[x.candidate], x.term - 1)

SolicitationOK(m) ==
  m.type = "VoteRequest" /\ ~m.pre =>
    /\ m.term \in 1..currentTerm[m.src]
    /\ role[m.src] = Candidate /\ currentTerm[m.src] = m.term =>
         m.lastIndex = LastLogIndex(m.src) /\ m.lastTerm = LastLogTerm(m.src)

(* The four positions in order, and what is committed is committed for good. *)
CommitOK(h, n) ==
  /\ Safe(h, currentTerm[n], h.whole[n], commitIndex[n])
  /\ snapIndex[n] <= lastApplied[n] /\ lastApplied[n] <= commitIndex[n]

(* The RPCs of replication tell the truth about their term.                 *)
AppendOK(h, m) ==
  /\ h.leader[m.term] = m.src /\ m.src # m.dst
  /\ m.prevIndex + Len(m.entries) <= Len(h.log[m.term])
  /\ m.prevTerm = TermAt(h.log[m.term], m.prevIndex)
  /\ \A i \in 1..Len(m.entries) : m.entries[i] = h.log[m.term][m.prevIndex + i]
  /\ m.commit <= m.prevIndex + Len(m.entries)
  /\ Safe(h, m.term, h.log[m.term], m.commit)

SnapshotOK(h, m) ==
  /\ h.leader[m.term] = m.src /\ m.src # m.dst
  /\ HasIn(h.log[m.term], m.lastIndex, m.lastTerm)
  /\ Safe(h, m.term, h.log[m.term], m.lastIndex)

MessageOK(h, m) ==
  /\ m.type = "AppendRequest" => AppendOK(h, m)
  /\ m.type = "SnapshotRequest" => SnapshotOK(h, m)
  /\ m.type = "AppendReply" => (m.success => m.match <= h.stored[m.sent][m.src])
  /\ m.type = "SnapshotReply" => m.term > m.sent \/ m.index <= h.stored[m.sent][m.src]

(* A proposal is in the log of its term, and committed there once answered. *)
ProposalOK(h, p) ==
  p.index \in 1..Len(h.log[p.term]) /\ h.log[p.term][p.index] = [term |-> p.term, data |-> p.data]
AnswerOK(h, p) == \E i \in Nat : p.index <= i /\ Chosen(h, p.term, i)

Explains(h) ==
  /\ HistoryOK(h)
  /\ \A n \in Node : NodeOK(h, n) /\ LeaderOK(h, n) /\ CommitOK(h, n)
  /\ \A t \in Nat : ElectionOK(h, t)
  /\ \A x \in Claims : ClaimOK(h, x)
  /\ \A m \in BagToSet(msgs) : SolicitationOK(m) /\ MessageOK(h, m)
  /\ \A p \in proposals \cup acked : ProposalOK(h, p)
  /\ \A p \in acked : AnswerOK(h, p)

LogInv == \E h \in History : Explains(h)

-----------------------------------------------------------------------------
(* How a step of n in term T may change the history: it may be elected in T, *)
(* append to the log of T, which it leads, and store more of that log.      *)
Grows(h, g, n, T) ==
  /\ \A t \in Nat :
       /\ Elected(h, t) \/ t # T => g.leader[t] = h.leader[t] /\ g.quorum[t] = h.quorum[t]
       /\ t # T => g.log[t] = h.log[t]
       /\ \A v \in Node : t # T \/ v # n => g.stored[t][v] = h.stored[t][v]
  /\ Agree(g.log[T], h.log[T], Len(h.log[T]))
  /\ Elected(h, T) =>
       \A i \in Len(h.log[T]) + 1 .. Len(g.log[T]) : g.log[T][i].term = T
  /\ g.log[T] # h.log[T] => h.leader[T] \in {n, NoNode}
  /\ h.stored[T][n] <= g.stored[T][n]
  /\ \A p \in Node \ {n} : g.whole[p] = h.whole[p]
=============================================================================
