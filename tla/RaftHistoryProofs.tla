------------------------- MODULE RaftHistoryProofs -------------------------
(***************************************************************************)
(* What holds of every history, and of a state that one explains.          *)
(* Logs that are chains agree below a common entry, a committed entry is   *)
(* in the log of every later leader (leader completeness), and so the      *)
(* committed prefixes of any two logs agree.  The compacted log and the    *)
(* whole log are two pictures of the same thing, and the parts of Explains *)
(* go on holding when a step lets the history grow.                        *)
(***************************************************************************)
EXTENDS RaftHistory, RaftConsensusProofs

-----------------------------------------------------------------------------
(* Types.                                                                  *)

(* A log is a sequence of entries with numbers for terms.                  *)
LEMMA EntriesTyped ==
  ASSUME NEW s \in Seq(Entry)
  PROVE  /\ Len(s) \in Nat
         /\ \A i \in 1..Len(s) : s[i] \in Entry /\ s[i].term \in Nat
<1>1. Len(s) \in Nat
  BY LenProperties
<1>2. \A i \in 1..Len(s) : s[i] \in Entry
  BY ElementOfSeq
<1> QED BY <1>1, <1>2 DEF Entry

(* The parts of a history have their types.                                *)
LEMMA HistoryTypes ==
  ASSUME NEW h \in History
  PROVE  /\ \A t \in Nat : /\ h.leader[t] \in Node \cup {NoNode}
                           /\ h.quorum[t] \in SUBSET Node
                           /\ h.log[t] \in Seq(Entry)
         /\ \A t \in Nat, v \in Node : h.stored[t][v] \in Nat
         /\ \A n \in Node : h.whole[n] \in Seq(Entry)
BY DEF History

-----------------------------------------------------------------------------
(* Logs that agree.                                                        *)

(* Agreement on a prefix is symmetric.                                     *)
LEMMA AgreeSwapped ==
  ASSUME NEW s, NEW r, NEW k, Agree(s, r, k)
  PROVE  Agree(r, s, k)
BY DEF Agree

(* If s agrees with r and r with q on k entries, so do s and q.            *)
LEMMA AgreeThrough ==
  ASSUME NEW s, NEW r, NEW q, NEW k, Agree(s, r, k), Agree(r, q, k)
  PROVE  Agree(s, q, k)
BY DEF Agree

(* Agreement on k entries is agreement on any fewer.                       *)
LEMMA AgreeBelow ==
  ASSUME NEW s \in Seq(Entry), NEW r \in Seq(Entry), NEW k \in Nat, NEW j \in Nat, j <= k,
         Agree(s, r, k)
  PROVE  Agree(s, r, j)
BY EntriesTyped DEF Agree

(* Two chains with an entry of the same term at the same index agree up to *)
(* it: the Log Matching Property of Raft.                                  *)
LEMMA ChainsMeet ==
  ASSUME NEW h \in History, NEW s, NEW r, NEW u, NEW i,
         Chain(h, s), Chain(h, r), HasIn(s, i, u), HasIn(r, i, u)
  PROVE  Agree(s, r, i)
<1>1. Agree(s, h.log[u], i) /\ Agree(r, h.log[u], i)
  BY DEF Chain, HasIn
<1> QED BY <1>1, AgreeSwapped, AgreeThrough

(* A log all of which agrees with a chain is a chain.                      *)
LEMMA PrefixOfChain ==
  ASSUME NEW h \in History, NEW s \in Seq(Entry), NEW r \in Seq(Entry),
         Chain(h, r), Agree(s, r, Len(s))
  PROVE  Chain(h, s)
<1>1. ASSUME NEW i \in 1..Len(s) PROVE Agree(s, h.log[s[i].term], i)
  <2>1. i \in 1..Len(r) /\ s[i] = r[i] /\ i \in Nat /\ i <= Len(s)
    BY EntriesTyped DEF Agree
  <2>2. Agree(r, h.log[s[i].term], i)
    BY <2>1 DEF Chain
  <2>3. Agree(s, r, i)
    BY <2>1, AgreeBelow, EntriesTyped
  <2> QED BY <2>2, <2>3, AgreeThrough
<1> QED BY <1>1 DEF Chain

(* An entry of a chain is in the log of the leader of its term, so         *)
(* somebody was elected in that term, and it is not term 0.                *)
LEMMA EntryHasLeader ==
  ASSUME NEW h \in History, HistoryOK(h), NEW s \in Seq(Entry), Chain(h, s),
         NEW i \in 1..Len(s)
  PROVE  /\ s[i].term \in Nat \ {0}
         /\ Elected(h, s[i].term)
         /\ HasIn(h.log[s[i].term], i, s[i].term)
         /\ Agree(s, h.log[s[i].term], i)
<1>1. s[i].term \in Nat /\ i \in Nat /\ i >= 1
  BY EntriesTyped
<1>2. Agree(s, h.log[s[i].term], i)
  BY DEF Chain
<1>3. HasIn(h.log[s[i].term], i, s[i].term)
  BY <1>1, <1>2, EntriesTyped, HistoryTypes DEF Agree, HasIn
<1>4. Elected(h, s[i].term)
  <2> SUFFICES ASSUME ~Elected(h, s[i].term) PROVE FALSE
    OBVIOUS
  <2>1. h.log[s[i].term] = <<>>
    BY <1>1 DEF HistoryOK
  <2> QED BY <1>1, <1>3, <2>1, EmptySeq DEF HasIn
<1> QED BY <1>1, <1>2, <1>3, <1>4 DEF HistoryOK

(* A chain has no nil data, as the logs of the leaders have none.          *)
LEMMA ChainNoNil ==
  ASSUME NEW h \in History, HistoryOK(h), NEW s \in Seq(Entry), Chain(h, s)
  PROVE  NoNil(s)
<1>1. ASSUME NEW i \in 1..Len(s) PROVE s[i].data # NilData
  <2>1. PICK t : t = s[i].term
    OBVIOUS
  <2>2. t \in Nat /\ Agree(s, h.log[t], i) /\ i \in 1..i
    BY <2>1, EntryHasLeader, EntriesTyped
  <2>3. i \in 1..Len(h.log[t]) /\ s[i] = h.log[t][i]
    BY <2>2, EntriesTyped, HistoryTypes DEF Agree
  <2>4. NoNil(h.log[t])
    BY <2>2 DEF HistoryOK
  <2> QED BY <2>3, <2>4 DEF NoNil
<1> QED BY <1>1 DEF NoNil

(* The terms of a chain do not decrease.                                   *)
LEMMA TermsInOrder ==
  ASSUME NEW h \in History, HistoryOK(h), NEW s \in Seq(Entry), Chain(h, s),
         NEW i \in 1..Len(s), NEW j \in 1..Len(s), i <= j
  PROVE  s[i].term <= s[j].term
<1> DEFINE u == s[j].term
<1>1. u \in Nat /\ Agree(s, h.log[u], j)
  BY EntryHasLeader
<1>2. i \in 1..Len(h.log[u]) /\ s[i] = h.log[u][i]
  BY <1>1, EntriesTyped, HistoryTypes DEF Agree
<1> QED BY <1>1, <1>2 DEF HistoryOK

-----------------------------------------------------------------------------
(* Committed entries.                                                      *)

(* Two quorums have a member in common.                                    *)
LEMMA QuorumsMeet ==
  ASSUME NEW A \in SUBSET Node, NEW B \in SUBSET Node,
         Cardinality(A) >= Quorum, Cardinality(B) >= Quorum
  PROVE  \E v \in Node : v \in A /\ v \in B
<1>1. IsFiniteSet(Node) /\ Cardinality(Node) \in Nat
  BY NodeAssumption, FS_CardinalityType
<1>2. Cardinality(A) \in Nat /\ Cardinality(B) \in Nat
  BY <1>1, FS_Subset, FS_CardinalityType
<1>3. Cardinality(A) + Cardinality(B) > Cardinality(Node)
  BY <1>1, <1>2 DEF Quorum
<1>4. A \cap B # {}
  BY <1>1, <1>3, FS_MajoritiesIntersect
<1> QED BY <1>4

(* Leader completeness: the log of every later leader has a committed      *)
(* entry.  Of the terms whose leader lacks it the first would have a voter *)
(* that stored the entry and knew of no earlier leader that lacks it.      *)
LEMMA LeaderCompleteness ==
  ASSUME NEW h \in History, HistoryOK(h), NEW t \in Nat, NEW i \in Nat, Chosen(h, t, i),
         NEW u \in Nat, u > t, Elected(h, u)
  PROVE  HasIn(h.log[u], i, t)
<1> DEFINE lacking == {w \in Nat : w > t /\ Lacks(h, w, i, t)}
<1>1. SUFFICES ASSUME lacking # {} PROVE FALSE
  BY DEF Lacks
<1>2. PICK w \in lacking : \A x \in lacking : w <= x
  BY <1>1, MinOfNats
<1>3. w \in Nat /\ w > t /\ Elected(h, w) /\ ~HasIn(h.log[w], i, t)
  BY <1>2 DEF Lacks
<1>4. PICK v \in Node : v \in h.quorum[w] /\ h.stored[t][v] >= i
  <2>1. h.quorum[w] \in SUBSET Node /\ Cardinality(h.quorum[w]) >= Quorum
    BY <1>3, HistoryTypes DEF HistoryOK
  <2>2. Cardinality({v \in Node : h.stored[t][v] >= i}) >= Quorum
    BY DEF Chosen
  <2> QED BY <2>1, <2>2, QuorumsMeet
<1>5. Kept(h, v, t, h.log[w], w - 1)
  BY <1>3, <1>4 DEF HistoryOK
<1>6. i \in 1..h.stored[t][v] /\ h.log[t][i].term = t
  BY <1>4, HistoryTypes DEF Chosen, HasIn
<1>7. PICK x \in t + 1 .. w - 1 : Lacks(h, x, i, t)
  BY <1>3, <1>5, <1>6 DEF Kept
<1>8. x \in lacking /\ x < w
  BY <1>3, <1>7
<1> HIDE DEF lacking
<1> QED BY <1>2, <1>3, <1>8

(* What is committed in some term was elected in it.                       *)
LEMMA ChosenElected ==
  ASSUME NEW h \in History, HistoryOK(h), NEW t \in Nat, NEW i \in Nat, Chosen(h, t, i)
  PROVE  Elected(h, t) /\ i \in 1..Len(h.log[t])
<1>1. i \in 1..Len(h.log[t]) /\ h.log[t][i].term = t
  BY DEF Chosen, HasIn
<1>2. h.log[t] \in Seq(Entry) /\ Chain(h, h.log[t])
  BY HistoryTypes DEF HistoryOK
<1> QED BY <1>1, <1>2, EntryHasLeader

(* Two commits: the log of the later term has what the earlier committed.  *)
LEMMA CommitsMeet ==
  ASSUME NEW h \in History, HistoryOK(h), NEW t \in Nat, NEW u \in Nat, t <= u,
         NEW i \in Nat, Chosen(h, t, i), Elected(h, u)
  PROVE  Agree(h.log[u], h.log[t], i)
<1>1. /\ h.log[t] \in Seq(Entry) /\ Chain(h, h.log[t])
      /\ h.log[u] \in Seq(Entry) /\ Chain(h, h.log[u])
  BY HistoryTypes DEF HistoryOK
<1>2. HasIn(h.log[t], i, t)
  BY DEF Chosen
<1>3. HasIn(h.log[u], i, t)
  BY <1>2, LeaderCompleteness
<1> QED BY <1>1, <1>2, <1>3, ChainsMeet

(* A committed prefix of s is a prefix of the log of the term's leader.    *)
LEMMA SafeInLog ==
  ASSUME NEW h \in History, HistoryOK(h), NEW t \in Nat, Elected(h, t),
         NEW s \in Seq(Entry), NEW k \in Nat, Safe(h, t, s, k)
  PROVE  Agree(s, h.log[t], k)
<1>0. h.log[t] \in Seq(Entry)
  BY HistoryTypes
<1>1. CASE k = 0
  BY <1>0, <1>1, EntriesTyped DEF Agree
<1>2. CASE k # 0
  <2>1. PICK u \in 1..t, i \in Nat : k <= i /\ Chosen(h, u, i) /\ Agree(s, h.log[u], k)
    BY <1>2 DEF Safe
  <2>2. Agree(h.log[t], h.log[u], i)
    BY <2>1, CommitsMeet
  <2>3. Agree(h.log[t], h.log[u], k)
    BY <1>0, <2>1, <2>2, AgreeBelow, HistoryTypes
  <2> QED BY <2>1, <2>3, AgreeSwapped, AgreeThrough
<1> QED BY <1>1, <1>2

(* Two committed prefixes agree as far as both reach.                      *)
LEMMA SafePrefixesAgree ==
  ASSUME NEW h \in History, HistoryOK(h),
         NEW t \in Nat, NEW s \in Seq(Entry), NEW k \in Nat, Safe(h, t, s, k),
         NEW u \in Nat, NEW r \in Seq(Entry), NEW l \in Nat, Safe(h, u, r, l), k <= l
  PROVE  Agree(s, r, k)
<1>1. CASE k = 0
  BY <1>1, EntriesTyped DEF Agree
<1>2. CASE k # 0
  <2>1. PICK x \in 1..t, i \in Nat : k <= i /\ Chosen(h, x, i) /\ Agree(s, h.log[x], k)
    BY <1>2 DEF Safe
  <2>2. PICK y \in 1..u, j \in Nat : l <= j /\ Chosen(h, y, j) /\ Agree(r, h.log[y], l)
    BY <1>2 DEF Safe
  <2>3. /\ x \in Nat /\ y \in Nat /\ Elected(h, x) /\ Elected(h, y)
        /\ h.log[x] \in Seq(Entry) /\ h.log[y] \in Seq(Entry)
    BY <2>1, <2>2, ChosenElected, HistoryTypes
  <2>4. Agree(h.log[x], h.log[y], k)
    <3>1. CASE x <= y
      <4>1. Agree(h.log[y], h.log[x], i)
        BY <2>1, <2>3, <3>1, CommitsMeet
      <4> QED BY <2>1, <2>3, <4>1, AgreeBelow, AgreeSwapped
    <3>2. CASE y <= x
      <4>1. Agree(h.log[x], h.log[y], j)
        BY <2>2, <2>3, <3>2, CommitsMeet
      <4>2. k <= j
        BY <2>2
      <4> QED BY <2>2, <2>3, <4>1, <4>2, AgreeBelow
    <3> QED BY <2>3, <3>1, <3>2
  <2>5. Agree(h.log[y], r, k)
    BY <2>2, <2>3, AgreeBelow, AgreeSwapped
  <2> QED BY <2>1, <2>4, <2>5, AgreeThrough
<1> QED BY <1>1, <1>2

(* What is committed stays so in later terms, in a log that agrees on it,  *)
(* and in any shorter prefix.                                              *)
LEMMA SafeLater ==
  ASSUME NEW h \in History, NEW t \in Nat, NEW u \in Nat, t <= u, NEW s, NEW k, Safe(h, t, s, k)
  PROVE  Safe(h, u, s, k)
BY DEF Safe

(* What is committed for good is so below, in any log that agrees there.   *)
LEMMA SafeBelow ==
  ASSUME NEW h \in History, NEW t \in Nat, NEW s \in Seq(Entry), NEW r \in Seq(Entry),
         NEW k \in Nat, NEW j \in Nat, j <= k, Safe(h, t, s, k), Agree(r, s, j)
  PROVE  Safe(h, t, r, j)
<1>1. CASE j = 0
  BY <1>1 DEF Safe
<1>2. CASE j # 0
  <2>1. PICK u \in 1..t, i \in Nat : k <= i /\ Chosen(h, u, i) /\ Agree(s, h.log[u], k)
    BY <1>2 DEF Safe
  <2>2. Agree(s, h.log[u], j)
    BY <2>1, AgreeBelow, HistoryTypes
  <2>3. Agree(r, h.log[u], j) /\ j <= i
    BY <2>1, <2>2, AgreeThrough
  <2> QED BY <2>1, <2>3 DEF Safe
<1> QED BY <1>1, <1>2

(* A committed prefix lies inside its log.                                 *)
LEMMA SafeInside ==
  ASSUME NEW h \in History, NEW t \in Nat, NEW s \in Seq(Entry), NEW k \in Nat, Safe(h, t, s, k)
  PROVE  k <= Len(s)
BY EntriesTyped DEF Safe, Agree

(* A voter's vote tells of its log: when the candidate's log s is as up to *)
(* date as the voter's log r, every entry of r that the leader of its term *)
(* had the voter store is in s, or a later leader the candidate has heard  *)
(* of lacks it.                                                            *)
LEMMA UpToDate ==
  ASSUME NEW h \in History, HistoryOK(h),
         NEW s \in Seq(Entry), Chain(h, s), NEW r \in Seq(Entry), Chain(h, r),
         \/ TermAt(s, Len(s)) > TermAt(r, Len(r))
         \/ TermAt(s, Len(s)) = TermAt(r, Len(r)) /\ Len(s) >= Len(r),
         NEW t \in Nat, NEW i \in Nat, HasIn(r, i, t)
  PROVE  HasIn(s, i, t) \/ \E w \in t + 1 .. TermAt(s, Len(s)) : Lacks(h, w, i, t)
<1> DEFINE u == TermAt(s, Len(s))
<1>1. /\ i \in 1..Len(r) /\ r[i].term = t
      /\ Len(r) \in 1..Len(r) /\ r[Len(r)].term \in Nat /\ TermAt(r, Len(r)) = r[Len(r)].term
  BY EntriesTyped DEF HasIn, TermAt
<1>2. t <= TermAt(r, Len(r)) /\ i <= Len(r)
  BY <1>1, TermsInOrder
<1>3. TermAt(r, Len(r)) # 0
  BY <1>1, EntryHasLeader
<1>4. /\ Len(s) \in 1..Len(s) /\ u = s[Len(s)].term /\ u \in Nat
      /\ Agree(s, h.log[u], Len(s)) /\ Elected(h, u) /\ HasIn(h.log[u], Len(s), u)
  <2>1. u # 0
    BY <1>1, <1>2, <1>3, EntriesTyped DEF TermAt
  <2>2. Len(s) \in 1..Len(s) /\ u = s[Len(s)].term
    BY <2>1 DEF TermAt
  <2> QED BY <2>2, EntryHasLeader
<1>5. h.log[u] \in Seq(Entry) /\ Chain(h, h.log[u])
  BY <1>4, HistoryTypes DEF HistoryOK
<1>6. CASE u = TermAt(r, Len(r))
  <2>1. Len(s) >= Len(r)
    BY <1>1, <1>4, <1>6
  <2>2. Agree(r, h.log[u], Len(r))
    BY <1>1, <1>6, EntryHasLeader
  <2>3. i \in 1..Len(s) /\ s[i] = h.log[u][i] /\ r[i] = h.log[u][i]
    BY <1>1, <1>2, <1>4, <2>1, <2>2, EntriesTyped DEF Agree
  <2> QED BY <1>1, <2>3 DEF HasIn
<1>7. CASE u > TermAt(r, Len(r))
  <2>1. u \in t + 1 .. u
    BY <1>1, <1>2, <1>4, <1>7
  <2>2. CASE ~HasIn(h.log[u], i, t)
    BY <1>4, <2>1, <2>2 DEF Lacks
  <2>3. CASE HasIn(h.log[u], i, t)
    <3>1. i <= Len(s)
      <4> SUFFICES ASSUME Len(s) <= i PROVE i <= Len(s)
        BY <1>4, EntriesTyped
      <4>1. h.log[u][Len(s)].term <= h.log[u][i].term
        BY <1>4, <1>5, <2>3, TermsInOrder DEF HasIn
      <4> QED BY <1>4, <2>1, <2>3, <4>1 DEF HasIn
    <3>2. i \in 1..Len(s) /\ s[i] = h.log[u][i]
      BY <1>1, <1>4, <3>1, EntriesTyped DEF Agree
    <3> QED BY <2>3, <3>2 DEF HasIn
  <2> QED BY <2>2, <2>3
<1>8. u = TermAt(r, Len(r)) \/ u > TermAt(r, Len(r))
  OBVIOUS
<1> QED BY <1>6, <1>7, <1>8

-----------------------------------------------------------------------------
(* Histories that grow.                                                    *)

(* A history that does not change grows.                                   *)
LEMMA GrowsItself ==
  ASSUME NEW h \in History, NEW n \in Node, NEW T \in Nat
  PROVE  Grows(h, h, n, T)
<1>1. h.log[T] \in Seq(Entry) /\ h.stored[T][n] \in Nat
  BY HistoryTypes
<1> QED BY <1>1, EntriesTyped DEF Grows, Agree

(* Every log of the history is extended.                                   *)
LEMMA LogsGrow ==
  ASSUME NEW h \in History, NEW g \in History, NEW n \in Node, NEW T \in Nat, Grows(h, g, n, T),
         NEW t \in Nat
  PROVE  /\ Len(h.log[t]) <= Len(g.log[t])
         /\ \A i \in 1..Len(h.log[t]) : g.log[t][i] = h.log[t][i]
<1>1. Len(h.log[t]) \in Nat /\ Len(g.log[t]) \in Nat
  BY HistoryTypes, EntriesTyped
<1>2. Agree(g.log[t], h.log[t], Len(h.log[t]))
  BY <1>1 DEF Grows, Agree
<1>3. /\ Len(h.log[t]) <= Len(g.log[t])
      /\ \A i \in 1..Len(h.log[t]) : g.log[t][i] = h.log[t][i]
  BY <1>2 DEF Agree
<1> QED BY <1>3

(* What agrees with the log of a term goes on agreeing with it.            *)
LEMMA AgreeGrows ==
  ASSUME NEW h \in History, NEW g \in History, NEW n \in Node, NEW T \in Nat, Grows(h, g, n, T),
         NEW t \in Nat, NEW s, NEW k \in Nat, Agree(s, h.log[t], k)
  PROVE  Agree(s, g.log[t], k)
<1>1. Len(h.log[t]) \in Nat /\ Len(g.log[t]) \in Nat
  BY HistoryTypes, EntriesTyped
<1>2. /\ Len(h.log[t]) <= Len(g.log[t])
      /\ \A i \in 1..Len(h.log[t]) : g.log[t][i] = h.log[t][i]
  BY LogsGrow
<1> QED BY SMTT(20), <1>1, <1>2 DEF Agree

(* A chain stays a chain.                                                  *)
LEMMA ChainGrows ==
  ASSUME NEW h \in History, NEW g \in History, NEW n \in Node, NEW T \in Nat, Grows(h, g, n, T),
         NEW s \in Seq(Entry), Chain(h, s)
  PROVE  Chain(g, s)
<1>1. ASSUME NEW i \in 1..Len(s) PROVE Agree(s, g.log[s[i].term], i)
  <2>1. i \in Nat /\ s[i].term \in Nat
    BY EntriesTyped
  <2>2. Agree(s, h.log[s[i].term], i)
    BY DEF Chain
  <2> QED BY <2>1, <2>2, AgreeGrows
<1> QED BY <1>1 DEF Chain

(* A leader that lacks an entry of an earlier term never gets it.          *)
LEMMA LacksGrows ==
  ASSUME NEW h \in History, NEW g \in History, NEW n \in Node, NEW T \in Nat, Grows(h, g, n, T),
         NEW w \in Nat, NEW t \in Nat, t < w, NEW i, Lacks(h, w, i, t)
  PROVE  Lacks(g, w, i, t)
<1>1. h.log[w] \in Seq(Entry) /\ g.log[w] \in Seq(Entry)
  BY HistoryTypes
<1>2. /\ Elected(h, w) /\ ~HasIn(h.log[w], i, t)
      /\ Elected(g, w)
  BY DEF Lacks, Grows, Elected
<1>3. \A j \in Len(h.log[w]) + 1 .. Len(g.log[w]) : g.log[w][j].term = w
  BY <1>1, <1>2, EntriesTyped DEF Grows
<1>4. \A j \in 1..Len(h.log[w]) : g.log[w][j] = h.log[w][j]
  BY LogsGrow
<1>5. ~HasIn(g.log[w], i, t)
  BY SMTT(20), <1>1, <1>2, <1>3, <1>4, EntriesTyped DEF HasIn
<1> QED BY <1>2, <1>5 DEF Lacks

(* What a voter had stored of a term is kept as before, if it stores no    *)
(* more of that term now.                                                  *)
LEMMA KeptGrows ==
  ASSUME NEW h \in History, NEW g \in History, NEW n \in Node, NEW T \in Nat, Grows(h, g, n, T),
         HistoryOK(h), NEW v \in Node, NEW t \in Nat, g.stored[t][v] = h.stored[t][v],
         NEW s, NEW u \in Nat, Kept(h, v, t, s, u)
  PROVE  Kept(g, v, t, s, u)
<1>1. /\ g.stored[t][v] = h.stored[t][v] /\ h.stored[t][v] \in Nat
      /\ h.stored[t][v] <= Len(h.log[t]) /\ Len(h.log[t]) \in Nat
  BY HistoryTypes, EntriesTyped DEF HistoryOK
<1>2. ASSUME NEW i \in 1..h.stored[t][v], g.log[t][i].term = t
      PROVE  HasIn(s, i, t) \/ \E w \in t + 1 .. u : Lacks(g, w, i, t)
  <2>1. h.log[t][i].term = t
    <3>1. i \in 1..Len(h.log[t])
      BY <1>1
    <3>2. g.log[t][i] = h.log[t][i]
      BY <3>1, LogsGrow
    <3> QED BY <1>2, <3>2
  <2>2. CASE HasIn(s, i, t)
    BY <2>2
  <2>3. ASSUME NEW w \in t + 1 .. u, Lacks(h, w, i, t) PROVE Lacks(g, w, i, t)
    BY <2>3, LacksGrows
  <2> QED BY <2>1, <2>2, <2>3 DEF Kept
<1> QED BY <1>1, <1>2 DEF Kept

(* Nothing stored is forgotten.                                            *)
LEMMA StoredGrows ==
  ASSUME NEW h \in History, NEW g \in History, NEW n \in Node, NEW T \in Nat, Grows(h, g, n, T),
         NEW t \in Nat, NEW v \in Node
  PROVE  h.stored[t][v] <= g.stored[t][v] /\ h.stored[t][v] \in Nat /\ g.stored[t][v] \in Nat
<1>1. h.stored[t][v] \in Nat /\ g.stored[t][v] \in Nat
  BY HistoryTypes
<1>2. CASE t # T \/ v # n
  BY <1>1, <1>2 DEF Grows
<1>3. CASE t = T /\ v = n
  BY <1>1, <1>3 DEF Grows
<1> QED BY <1>1, <1>2, <1>3

(* Commits are for good.                                                   *)
LEMMA ChosenGrows ==
  ASSUME NEW h \in History, NEW g \in History, NEW n \in Node, NEW T \in Nat, Grows(h, g, n, T),
         NEW t \in Nat, NEW i \in Nat, Chosen(h, t, i)
  PROVE  Chosen(g, t, i)
<1> DEFINE old == {v \in Node : h.stored[t][v] >= i}
           new == {v \in Node : g.stored[t][v] >= i}
<1>1. \A v \in Node : h.stored[t][v] <= g.stored[t][v]
  BY StoredGrows
<1>2. old \subseteq new /\ new \subseteq Node
  BY SMTT(20), <1>1, HistoryTypes
<1>3. IsFiniteSet(new)
  BY <1>2, NodeAssumption, FS_Subset
<1>4. /\ Cardinality(old) <= Cardinality(new) /\ Cardinality(old) \in Nat /\ Cardinality(new) \in Nat
  BY <1>2, <1>3, FS_Subset, FS_CardinalityType
<1>5. Quorum \in Nat
  BY NodeAssumption, FS_CardinalityType DEF Quorum
<1>6. HasIn(g.log[t], i, t)
  <2>1. i \in 1..Len(h.log[t]) /\ h.log[t][i].term = t
    BY DEF Chosen, HasIn
  <2>2. Len(h.log[t]) <= Len(g.log[t]) /\ g.log[t][i] = h.log[t][i]
    BY <2>1, LogsGrow
  <2>3. Len(h.log[t]) \in Nat /\ Len(g.log[t]) \in Nat
    BY HistoryTypes, EntriesTyped
  <2> QED BY <2>1, <2>2, <2>3 DEF HasIn
<1> QED BY <1>4, <1>5, <1>6 DEF Chosen

(* What is committed for good stays so.                                    *)
LEMMA SafeGrows ==
  ASSUME NEW h \in History, NEW g \in History, NEW n \in Node, NEW T \in Nat, Grows(h, g, n, T),
         NEW t \in Nat, NEW s, NEW k \in Nat, Safe(h, t, s, k)
  PROVE  Safe(g, t, s, k)
<1>1. CASE k = 0
  BY <1>1 DEF Safe
<1>2. CASE k # 0
  <2>1. PICK u \in 1..t, i \in Nat : k <= i /\ Chosen(h, u, i) /\ Agree(s, h.log[u], k)
    BY <1>2 DEF Safe
  <2>2. Chosen(g, u, i) /\ Agree(s, g.log[u], k)
    BY <2>1, ChosenGrows, AgreeGrows
  <2> QED BY <2>1, <2>2 DEF Safe
<1> QED BY <1>1, <1>2

(* The type field tells the RPCs apart.                                    *)
LEMMA MessageKinds ==
  ASSUME NEW m \in Message
  PROVE  /\ m.type = "VoteRequest" => m \in VoteRequest
         /\ m.type = "VoteReply" => m \in VoteReply
         /\ m.type = "AppendRequest" => m \in AppendRequest
         /\ m.type = "AppendReply" => m \in AppendReply
         /\ m.type = "SnapshotRequest" => m \in SnapshotRequest
         /\ m.type = "SnapshotReply" => m \in SnapshotReply
         /\ m.type \in {"VoteRequest", "VoteReply", "AppendRequest", "AppendReply",
                        "SnapshotRequest", "SnapshotReply"}
         /\ m.src \in Node /\ m.dst \in Node /\ m.term \in Nat
BY DEF Message, VoteRequest, VoteReply, AppendRequest, AppendReply, SnapshotRequest, SnapshotReply

(* What an RPC, a proposal or an answer says of the history stays true.    *)
LEMMA MessageGrows ==
  ASSUME NEW h \in History, NEW g \in History, NEW n \in Node, NEW T \in Nat, Grows(h, g, n, T),
         NEW m \in Message, MessageOK(h, m)
  PROVE  MessageOK(g, m)
<1>0. /\ m.type = "AppendRequest" => m \in AppendRequest
      /\ m.type = "AppendReply" => m \in AppendReply
      /\ m.type = "SnapshotRequest" => m \in SnapshotRequest
      /\ m.type = "SnapshotReply" => m \in SnapshotReply
      /\ m.type \in {"VoteRequest", "VoteReply", "AppendRequest", "AppendReply",
                     "SnapshotRequest", "SnapshotReply"}
  BY MessageKinds
<1>1. ASSUME NEW t \in Nat, NEW v \in Node
      PROVE  h.stored[t][v] <= g.stored[t][v] /\ h.stored[t][v] \in Nat /\ g.stored[t][v] \in Nat
  BY StoredGrows
<1>2. ASSUME NEW t \in Nat, h.leader[t] \in Node PROVE g.leader[t] = h.leader[t]
  BY <1>2, NodeAssumption DEF Grows, Elected
<1>3. CASE m.type = "AppendRequest"
  <2>1. /\ m \in AppendRequest /\ AppendOK(h, m)
    BY <1>0, <1>3 DEF MessageOK
  <2>2. /\ m.term \in Nat /\ m.src \in Node /\ m.prevIndex \in Nat /\ m.commit \in Nat
        /\ m.entries \in Seq(Entry) /\ Len(m.entries) \in Nat
    BY <2>1, EntriesTyped DEF AppendRequest
  <2> DEFINE old == h.log[m.term]
             new == g.log[m.term]
  <2>3. /\ old \in Seq(Entry) /\ new \in Seq(Entry) /\ Len(old) \in Nat /\ Len(new) \in Nat
        /\ Len(old) <= Len(new) /\ \A i \in 1..Len(old) : new[i] = old[i]
    BY <2>2, HistoryTypes, EntriesTyped, LogsGrow
  <2>4. g.leader[m.term] = m.src /\ m.src # m.dst
    BY <1>2, <2>1, <2>2 DEF AppendOK
  <2>5. /\ m.prevIndex + Len(m.entries) <= Len(old)
        /\ m.prevTerm = TermAt(old, m.prevIndex)
        /\ \A i \in 1..Len(m.entries) : m.entries[i] = old[m.prevIndex + i]
        /\ m.commit <= m.prevIndex + Len(m.entries)
        /\ Safe(h, m.term, old, m.commit)
    BY <2>1 DEF AppendOK
  <2>6. Safe(g, m.term, old, m.commit)
    BY <2>2, <2>5, SafeGrows
  <2> HIDE DEF old, new
  <2>a. Safe(g, m.term, new, m.commit)
    <3>1. Agree(new, old, m.commit)
      BY <2>2, <2>3, <2>5 DEF Agree
    <3> QED BY <2>2, <2>3, <2>6, <3>1, SafeBelow
  <2>7. TermAt(new, m.prevIndex) = TermAt(old, m.prevIndex)
    BY <2>2, <2>3, <2>5 DEF TermAt
  <2>8. ASSUME NEW i \in 1..Len(m.entries) PROVE m.entries[i] = new[m.prevIndex + i]
    <3>1. m.prevIndex + i \in 1..Len(old)
      BY <2>2, <2>3, <2>5
    <3> QED BY <2>3, <2>5, <3>1
  <2>9. m.prevIndex + Len(m.entries) <= Len(new)
    BY <2>2, <2>3, <2>5
  <2> QED BY <1>3, <2>4, <2>5, <2>a, <2>7, <2>8, <2>9 DEF MessageOK, AppendOK, new
<1>4. CASE m.type = "SnapshotRequest"
  <2>1. m \in SnapshotRequest /\ SnapshotOK(h, m)
    BY <1>0, <1>4 DEF MessageOK
  <2>2. m.term \in Nat /\ m.src \in Node /\ m.lastIndex \in Nat
    BY <2>1 DEF SnapshotRequest
  <2> DEFINE old == h.log[m.term]
             new == g.log[m.term]
  <2>3. /\ old \in Seq(Entry) /\ new \in Seq(Entry) /\ Len(old) \in Nat /\ Len(new) \in Nat
        /\ Len(old) <= Len(new) /\ \A i \in 1..Len(old) : new[i] = old[i]
    BY <2>2, HistoryTypes, EntriesTyped, LogsGrow
  <2>4. g.leader[m.term] = m.src /\ m.src # m.dst
    BY <1>2, <2>1, <2>2 DEF SnapshotOK
  <2>5. HasIn(old, m.lastIndex, m.lastTerm) /\ Safe(h, m.term, old, m.lastIndex)
    BY <2>1 DEF SnapshotOK
  <2>6. Safe(g, m.term, old, m.lastIndex)
    BY <2>2, <2>5, SafeGrows
  <2> HIDE DEF old, new
  <2>7. HasIn(new, m.lastIndex, m.lastTerm) /\ Agree(new, old, m.lastIndex)
    BY <2>2, <2>3, <2>5 DEF HasIn, Agree
  <2>8. Safe(g, m.term, new, m.lastIndex)
    BY <2>2, <2>3, <2>6, <2>7, SafeBelow
  <2> QED BY <1>4, <2>4, <2>7, <2>8 DEF MessageOK, SnapshotOK, new
<1>5. CASE m.type = "AppendReply"
  <2>1. m \in AppendReply
    BY <1>0, <1>5
  <2>2. m.match \in Nat /\ m.sent \in Nat /\ m.src \in Node
    BY <2>1 DEF AppendReply
  <2> QED BY <1>1, <1>5, <2>2 DEF MessageOK
<1>6. CASE m.type = "SnapshotReply"
  <2>1. m \in SnapshotReply
    BY <1>0, <1>6
  <2>2. m.index \in Nat /\ m.sent \in Nat /\ m.src \in Node
    BY <2>1 DEF SnapshotReply
  <2> QED BY <1>1, <1>6, <2>2 DEF MessageOK
<1>7. CASE m.type \in {"VoteRequest", "VoteReply"}
  BY <1>7 DEF MessageOK
<1> QED BY <1>0, <1>3, <1>4, <1>5, <1>6, <1>7

(* What is known of a proposal and of its answer stays true.               *)
LEMMA ProposalGrows ==
  ASSUME NEW h \in History, NEW g \in History, NEW n \in Node, NEW T \in Nat, Grows(h, g, n, T),
         NEW p, p.term \in Nat, p.index \in Nat
  PROVE  /\ ProposalOK(h, p) => ProposalOK(g, p)
         /\ AnswerOK(h, p) => AnswerOK(g, p)
<1>1. ProposalOK(h, p) => ProposalOK(g, p)
  <2> SUFFICES ASSUME ProposalOK(h, p) PROVE ProposalOK(g, p)
    OBVIOUS
  <2>1. p.index \in 1..Len(h.log[p.term]) /\ Len(h.log[p.term]) <= Len(g.log[p.term])
    BY LogsGrow DEF ProposalOK
  <2>2. g.log[p.term][p.index] = h.log[p.term][p.index]
    BY <2>1, LogsGrow
  <2>3. Len(h.log[p.term]) \in Nat /\ Len(g.log[p.term]) \in Nat
    BY HistoryTypes, EntriesTyped
  <2> QED BY <2>1, <2>2, <2>3 DEF ProposalOK
<1>2. AnswerOK(h, p) => AnswerOK(g, p)
  BY ChosenGrows DEF AnswerOK
<1> QED BY <1>1, <1>2

-----------------------------------------------------------------------------
(* A node's compacted log and its whole log.                               *)

(* The term of a compacted log's last entry, or of its anchor.             *)
LEMMA LastTerm ==
  ASSUME NEW lg \in Seq(Entry), NEW a \in Nat, NEW s \in Seq(Entry),
         a + Len(lg) = Len(s), \A i \in 1..Len(lg) : lg[i] = s[a + i]
  PROVE  (IF lg = <<>> THEN TermAt(s, a) ELSE lg[Len(lg)].term) = TermAt(s, Len(s))
<1>1. Len(lg) \in Nat /\ Len(s) \in Nat
  BY EntriesTyped
<1>2. CASE lg = <<>>
  <2>1. Len(lg) = 0
    BY <1>2, EmptySeq
  <2>2. a = Len(s)
    BY <1>1, <2>1
  <2> QED BY <1>2, <2>2
<1>3. CASE lg # <<>>
  <2>1. Len(lg) \in 1..Len(lg)
    BY <1>1, <1>3, EmptySeq
  <2>2. lg[Len(lg)] = s[a + Len(lg)]
    BY <2>1
  <2>3. Len(s) \in 1..Len(s)
    BY <1>1, <2>1
  <2> QED BY <1>3, <2>2, <2>3 DEF TermAt
<1> QED BY <1>2, <1>3

(* Where the compacted log reaches, its terms and entries are those of the *)
(* whole log.                                                              *)
LEMMA Representation ==
  ASSUME NodeTypeOK, NEW h \in History, NEW n \in Node, Represents(h, n)
  PROVE  /\ LastLogIndex(n) = Len(h.whole[n])
         /\ snapIndex[n] \in 0..Len(h.whole[n])
         /\ LastLogTerm(n) = TermAt(h.whole[n], Len(h.whole[n]))
         /\ \A i \in snapIndex[n] .. Len(h.whole[n]) : LogTerm(n, i) = TermAt(h.whole[n], i)
         /\ \A i \in snapIndex[n] + 1 .. Len(h.whole[n]) :
              i - snapIndex[n] \in 1..Len(log[n]) /\ log[n][i - snapIndex[n]] = h.whole[n][i]
<1> DEFINE s == h.whole[n]
           a == snapIndex[n]
<1>1. /\ log[n] \in Seq(Entry) /\ Len(log[n]) \in Nat /\ a \in Nat
      /\ s \in Seq(Entry) /\ Len(s) \in Nat
  BY HistoryTypes, EntriesTyped DEF NodeTypeOK
<1>2. /\ a + Len(log[n]) = Len(s)
      /\ \A i \in 1..Len(log[n]) : log[n][i] = s[a + i]
      /\ snapTerm[n] = TermAt(s, a)
  BY DEF Represents, LastLogIndex
<1> HIDE DEF s, a
<1>3. ASSUME NEW i \in a + 1 .. Len(s)
      PROVE  i - a \in 1..Len(log[n]) /\ log[n][i - a] = s[i]
  <2>1. i - a \in 1..Len(log[n]) /\ a + (i - a) = i
    BY <1>1, <1>2
  <2> QED BY <1>2, <2>1
<1>4. ASSUME NEW i \in a .. Len(s)
      PROVE  LogTerm(n, i) = TermAt(s, i)
  <2>1. CASE i = a
    BY <1>2, <2>1 DEF LogTerm, LogTermIn, a
  <2>2. CASE i # a
    <3>1. i \in a + 1 .. Len(s) /\ i > a /\ i - a <= Len(log[n]) /\ i \in 1..Len(s)
      BY <1>1, <1>2, <2>2
    <3>2. log[n][i - a].term = s[i].term
      BY <1>3, <3>1
    <3> QED BY <2>2, <3>1, <3>2 DEF LogTerm, LogTermIn, TermAt, a
  <2> QED BY <2>1, <2>2
<1>5. LastLogTerm(n) = TermAt(s, Len(s))
  BY <1>1, <1>2, LastTerm DEF LastLogTerm
<1>6. LastLogIndex(n) = Len(s) /\ a \in 0..Len(s)
  BY <1>1, <1>2 DEF LastLogIndex, a
<1> QED BY <1>3, <1>4, <1>5, <1>6 DEF s, a

-----------------------------------------------------------------------------
(* Nodes that keep their log.                                              *)

(* A node keeps what it has stored, or knows of the leader that lacks it,  *)
(* in any later term.                                                      *)
LEMMA KeptLater ==
  ASSUME NodeTypeOK, NEW h \in History, NEW p \in Node, NodeOK(h, p),
         NEW u \in Nat, currentTerm[p] <= u, NEW t \in 0..u - 1
  PROVE  Kept(h, p, t, h.whole[p], u)
<1> DEFINE s == h.whole[p]
           old == currentTerm[p]
<1>1. old \in Nat /\ s \in Seq(Entry)
  BY HistoryTypes DEF NodeTypeOK
<1>2. CASE t < old
  <2>1. Kept(h, p, t, s, old)
    BY <1>1, <1>2 DEF NodeOK
  <2> QED BY <1>1, <2>1 DEF Kept
<1>3. CASE t = old
  <2>1. Agree(s, h.log[t], h.stored[t][p])
    BY <1>3 DEF NodeOK
  <2>2. Len(s) \in Nat /\ h.stored[t][p] \in Nat
    BY <1>1, EntriesTyped, HistoryTypes
  <2> QED BY SMTT(20), <2>1, <2>2 DEF Kept, Agree, HasIn
<1>4. CASE t > old
  <2>1. h.stored[t][p] = 0
    BY <1>1, <1>4 DEF NodeOK
  <2> QED BY <2>1 DEF Kept
<1> QED BY <1>1, <1>2, <1>3, <1>4

(* What the invariant says of a node holds in any later term, and after    *)
(* another node's step has made the history grow.                          *)
LEMMA NodeOnward ==
  ASSUME NodeTypeOK, NodeTypeOK', NEW h \in History, NEW g \in History, HistoryOK(h),
         NEW n \in Node, NEW T \in Nat, Grows(h, g, n, T),
         NEW p \in Node, p # n \/ g = h, NodeOK(h, p),
         currentTerm'[p] >= currentTerm[p],
         log'[p] = log[p], snapIndex'[p] = snapIndex[p], snapTerm'[p] = snapTerm[p]
  PROVE  NodeOK(g, p)'
<1> DEFINE s == h.whole[p]
           old == currentTerm[p]
           new == currentTerm'[p]
<1>1. old \in Nat /\ new \in Nat /\ old <= new /\ s \in Seq(Entry)
  BY HistoryTypes DEF NodeTypeOK
<1>2. g.whole[p] = s /\ \A t \in Nat : g.stored[t][p] = h.stored[t][p]
  BY DEF Grows
<1>3. Represents(g, p)'
  BY <1>2 DEF NodeOK, Represents, LastLogIndex
<1>4. Chain(g, s)
  BY <1>1, ChainGrows DEF NodeOK
<1>5. \A i \in 1..Len(s) : s[i].term <= new
  BY <1>1, EntriesTyped DEF NodeOK
<1>6. \A t \in Nat : t > new => g.stored[t][p] = 0
  BY <1>1, <1>2 DEF NodeOK
<1>7. Agree(s, g.log[new], g.stored[new][p])
  <2>1. CASE old = new
    <3>1. Agree(s, h.log[new], h.stored[new][p])
      BY <2>1 DEF NodeOK
    <3>2. g.stored[new][p] = h.stored[new][p] /\ h.stored[new][p] \in Nat
      BY <1>1, <1>2, HistoryTypes
    <3> QED BY <1>1, <3>1, <3>2, AgreeGrows
  <2>2. CASE old # new
    <3>1. g.stored[new][p] = 0
      BY <1>1, <1>2, <2>2 DEF NodeOK
    <3> QED BY <1>1, <3>1, EntriesTyped, HistoryTypes DEF Agree
  <2> QED BY <2>1, <2>2
<1>8. ASSUME NEW t \in 0..new - 1
      PROVE  Kept(g, p, t, s, new)
  <2>1. Kept(h, p, t, s, new)
    BY <1>1, KeptLater
  <2>2. t \in Nat /\ g.stored[t][p] = h.stored[t][p]
    BY <1>1, <1>2
  <2> QED BY <1>1, <2>1, <2>2, KeptGrows
<1> QED BY <1>2, <1>3, <1>4, <1>5, <1>6, <1>7, <1>8 DEF NodeOK

(* A leader that stays so keeps its bookkeeping.                           *)
LEMMA LeaderOnward ==
  ASSUME NodeTypeOK, NodeTypeOK', NEW h \in History, NEW g \in History,
         NEW n \in Node, NEW T \in Nat, Grows(h, g, n, T),
         NEW p \in Node, p # n \/ g = h, LeaderOK(h, p),
         \/ role'[p] # Leader
         \/ /\ role[p] = Leader /\ currentTerm'[p] = currentTerm[p]
            /\ nextIndex'[p] = nextIndex[p] /\ matchIndex'[p] = matchIndex[p]
  PROVE  LeaderOK(g, p)'
<1> DEFINE t == currentTerm[p]
<1>1. CASE role'[p] # Leader
  BY <1>1 DEF LeaderOK
<1>2. CASE /\ role[p] = Leader /\ currentTerm'[p] = t
           /\ nextIndex'[p] = nextIndex[p] /\ matchIndex'[p] = matchIndex[p]
  <2>1. /\ h.leader[t] = p /\ h.whole[p] = h.log[t]
        /\ h.stored[t][p] = Len(h.whole[p])
        /\ \A q \in Node : /\ matchIndex[p][q] <= h.stored[t][q]
                           /\ nextIndex[p][q] <= Len(h.whole[p]) + 1
    BY <1>2 DEF LeaderOK
  <2>2. t \in Nat /\ p # NoNode
    BY NodeAssumption DEF NodeTypeOK
  <2>3. g.leader[t] = p /\ g.whole[p] = h.whole[p] /\ g.stored[t][p] = h.stored[t][p]
    BY <2>1, <2>2 DEF Grows, Elected
  <2>4. g.log[t] = h.log[t]
    BY <2>1, <2>2 DEF Grows
  <2>5. \A q \in Node : matchIndex[p][q] <= g.stored[t][q]
    <3>1. \A q \in Node : /\ h.stored[t][q] <= g.stored[t][q]
                          /\ h.stored[t][q] \in Nat /\ g.stored[t][q] \in Nat
                          /\ matchIndex[p][q] \in Nat
      <4>1. \A q \in Node : matchIndex[p][q] \in Nat
        BY DEF NodeTypeOK
      <4>2. \A q \in Node : /\ h.stored[t][q] <= g.stored[t][q]
                            /\ h.stored[t][q] \in Nat /\ g.stored[t][q] \in Nat
        <5> HIDE DEF t
        <5> QED BY <2>2, StoredGrows
      <4> QED BY <4>1, <4>2
    <3> QED BY <2>1, <3>1
  <2> QED BY <1>2, <2>1, <2>3, <2>4, <2>5 DEF LeaderOK
<1> QED BY <1>1, <1>2

(* What a node has committed stays committed.                              *)
LEMMA CommitOnward ==
  ASSUME NodeTypeOK, NodeTypeOK', NEW h \in History, NEW g \in History,
         NEW n \in Node, NEW T \in Nat, Grows(h, g, n, T),
         NEW p \in Node, p # n \/ g = h, CommitOK(h, p),
         currentTerm'[p] >= currentTerm[p],
         commitIndex'[p] = commitIndex[p], snapIndex'[p] = snapIndex[p],
         lastApplied'[p] = lastApplied[p]
  PROVE  CommitOK(g, p)'
<1>1. /\ currentTerm[p] \in Nat /\ currentTerm'[p] \in Nat /\ commitIndex[p] \in Nat
      /\ g.whole[p] = h.whole[p]
  BY DEF NodeTypeOK, Grows
<1>2. Safe(h, currentTerm'[p], h.whole[p], commitIndex[p])
  BY <1>1, SafeLater DEF CommitOK
<1>3. Safe(g, currentTerm'[p], h.whole[p], commitIndex[p])
  BY <1>1, <1>2, SafeGrows
<1> QED BY <1>1, <1>3 DEF CommitOK

-----------------------------------------------------------------------------
(* A step of one node.                                                     *)

\* The step leaves p alone.
Untouched(p) ==
  /\ currentTerm'[p] = currentTerm[p] /\ votedFor'[p] = votedFor[p] /\ role'[p] = role[p]
  /\ log'[p] = log[p] /\ snapIndex'[p] = snapIndex[p] /\ snapTerm'[p] = snapTerm[p]
  /\ commitIndex'[p] = commitIndex[p] /\ lastApplied'[p] = lastApplied[p]
  /\ nextIndex'[p] = nextIndex[p] /\ matchIndex'[p] = matchIndex[p]

\* Terms only grow, and a node keeps its vote and its leadership as long as its term.
KeepsTerm(p) ==
  /\ currentTerm'[p] >= currentTerm[p]
  /\ currentTerm'[p] = currentTerm[p] =>
       /\ role[p] = Leader => role'[p] = Leader
       /\ votedFor[p] # NoNode => votedFor'[p] = votedFor[p]

\* A candidate does not change where its log ends, and campaigns once a term.
KeepsCampaign(p) ==
  role'[p] = Candidate =>
    /\ role[p] = Candidate \/ currentTerm'[p] > currentTerm[p]
    /\ LastLogIndex(p)' = LastLogIndex(p) /\ LastLogTerm(p)' = LastLogTerm(p)

(* Whoever was elected and its voters are bound by it ever after.          *)
LEMMA ElectionOnward ==
  ASSUME NodeTypeOK, NodeTypeOK', NEW h \in History, NEW g \in History,
         NEW n \in Node, NEW T \in Nat, Grows(h, g, n, T),
         \A p \in Node : KeepsTerm(p),
         NEW t \in Nat, ElectionOK(h, t), t # T \/ Elected(h, T) \/ ~Elected(g, T)
  PROVE  ElectionOK(g, t)'
<1> SUFFICES ASSUME Elected(g, t)
             PROVE  /\ currentTerm'[g.leader[t]] >= t
                    /\ currentTerm'[g.leader[t]] = t => role'[g.leader[t]] = Leader
                    /\ \A v \in g.quorum[t] :
                         /\ currentTerm'[v] >= t
                         /\ currentTerm'[v] = t => votedFor'[v] = g.leader[t]
  BY DEF ElectionOK
<1>1. /\ g.leader[t] = h.leader[t] /\ g.quorum[t] = h.quorum[t] /\ Elected(h, t)
  BY DEF Grows, Elected
<1>2. h.leader[t] \in Node /\ h.leader[t] # NoNode /\ h.quorum[t] \in SUBSET Node
  BY <1>1, HistoryTypes, NodeAssumption DEF Elected
<1>3. \A p \in Node : /\ currentTerm[p] \in Nat /\ currentTerm'[p] \in Nat
                      /\ currentTerm'[p] >= currentTerm[p]
  BY DEF KeepsTerm, NodeTypeOK
<1>4. /\ currentTerm[h.leader[t]] >= t
      /\ currentTerm[h.leader[t]] = t => role[h.leader[t]] = Leader
      /\ \A v \in h.quorum[t] : /\ currentTerm[v] >= t
                                /\ currentTerm[v] = t => votedFor[v] = h.leader[t]
  BY <1>1 DEF ElectionOK
<1>5. /\ currentTerm'[h.leader[t]] >= t
      /\ currentTerm'[h.leader[t]] = t => role'[h.leader[t]] = Leader
  BY <1>2, <1>3, <1>4 DEF KeepsTerm
<1>6. ASSUME NEW v \in h.quorum[t]
      PROVE  /\ currentTerm'[v] >= t
             /\ currentTerm'[v] = t => votedFor'[v] = h.leader[t]
  BY <1>2, <1>3, <1>4 DEF KeepsTerm
<1> QED BY <1>1, <1>5, <1>6

(* Evidence of a vote stays true, when an election the step decides is the *)
(* one its voters voted for.                                               *)
LEMMA ClaimOnward ==
  ASSUME NodeTypeOK, NodeTypeOK', VotesAreBinding, NEW h \in History, NEW g \in History,
         HistoryOK(h), NEW n \in Node, NEW T \in Nat, currentTerm[n] <= T, Grows(h, g, n, T),
         \A p \in Node : KeepsTerm(p) /\ KeepsCampaign(p),
         role'[n] = Candidate => g.whole[n] = h.whole[n],
         NEW x \in Claims, ClaimOK(h, x),
         \/ Elected(h, T) \/ ~Elected(g, T)
         \/ x.term = T /\ x.voter \in g.quorum[T] => x.candidate = g.leader[T]
  PROVE  ClaimOK(g, x)'
<1> DEFINE c == x.candidate
<1>1. x.voter \in Node /\ c \in Node /\ x.term \in Nat
  BY ClaimTypes
<1>2. \A p \in Node : /\ currentTerm[p] \in Nat /\ currentTerm'[p] \in Nat
                      /\ currentTerm'[p] >= currentTerm[p]
  BY DEF KeepsTerm, NodeTypeOK
<1>3. x.term >= 1 /\ x.term <= currentTerm[c] /\ x.term <= currentTerm'[c]
  BY <1>1, <1>2 DEF ClaimOK
<1>4. ASSUME Elected(g, x.term), x.voter \in g.quorum[x.term]
      PROVE  c = g.leader[x.term]
  <2>1. CASE Elected(h, x.term)
    BY <1>1, <1>4, <2>1 DEF Grows, ClaimOK
  <2>2. CASE ~Elected(h, x.term)
    <3>1. x.term = T
      BY <1>1, <1>4, <2>2 DEF Grows, Elected
    <3> QED BY <1>4, <2>2, <3>1
  <2> QED BY <2>1, <2>2
<1>5. ASSUME ~Elected(g, x.term), role'[c] = Candidate, currentTerm'[c] = x.term,
             NEW t \in 0..x.term - 1
      PROVE  Kept(g, x.voter, t, g.whole[c], x.term - 1)
  <2>1. role[c] = Candidate /\ currentTerm[c] = x.term
    BY <1>1, <1>2, <1>3, <1>5 DEF KeepsCampaign
  <2>2. ~Elected(h, x.term)
    BY <1>1, <1>5 DEF Grows, Elected
  <2>3. Kept(h, x.voter, t, h.whole[c], x.term - 1)
    BY <2>1, <2>2 DEF ClaimOK
  <2>4. x.term <= currentTerm[x.voter]
    BY DEF VotesAreBinding
  <2>5. t # T \/ x.voter # n
    BY <1>1, <1>2, <2>4
  <2>6. g.stored[t][x.voter] = h.stored[t][x.voter] /\ t \in Nat /\ x.term - 1 \in Nat
    BY <1>1, <2>5 DEF Grows
  <2>7. g.whole[c] = h.whole[c]
    BY <1>1, <1>5 DEF Grows
  <2> QED BY <1>1, <2>3, <2>6, <2>7, KeptGrows
<1>6. x.term \in 1..currentTerm'[c]
  BY <1>1, <1>2, <1>3
<1> QED BY <1>4, <1>5, <1>6 DEF ClaimOK

(* So does what a candidate's RPC says of its log.                         *)
LEMMA SolicitationOnward ==
  ASSUME NodeTypeOK, NodeTypeOK', \A p \in Node : KeepsTerm(p) /\ KeepsCampaign(p),
         NEW m \in Message, SolicitationOK(m)
  PROVE  SolicitationOK(m)'
<1> SUFFICES ASSUME m.type = "VoteRequest", ~m.pre
             PROVE  /\ m.term \in 1..currentTerm'[m.src]
                    /\ role'[m.src] = Candidate /\ currentTerm'[m.src] = m.term =>
                         m.lastIndex = LastLogIndex(m.src)' /\ m.lastTerm = LastLogTerm(m.src)'
  BY DEF SolicitationOK
<1>1. m.src \in Node /\ m.term \in Nat
  BY MessageKinds
<1>2. /\ currentTerm[m.src] \in Nat /\ currentTerm'[m.src] \in Nat
      /\ currentTerm'[m.src] >= currentTerm[m.src]
      /\ m.term >= 1 /\ m.term <= currentTerm[m.src]
  <2>1. currentTerm[m.src] \in Nat /\ currentTerm'[m.src] \in Nat
    BY <1>1 DEF NodeTypeOK
  <2>2. currentTerm'[m.src] >= currentTerm[m.src]
    BY <1>1 DEF KeepsTerm
  <2>3. m.term \in 1..currentTerm[m.src]
    BY DEF SolicitationOK
  <2> QED BY <1>1, <2>1, <2>2, <2>3
<1>3. ASSUME role'[m.src] = Candidate, currentTerm'[m.src] = m.term
      PROVE  m.lastIndex = LastLogIndex(m.src)' /\ m.lastTerm = LastLogTerm(m.src)'
  <2>1. /\ role[m.src] = Candidate /\ currentTerm[m.src] = m.term
        /\ LastLogIndex(m.src)' = LastLogIndex(m.src) /\ LastLogTerm(m.src)' = LastLogTerm(m.src)
    BY <1>1, <1>2, <1>3 DEF KeepsCampaign
  <2>2. m.lastIndex = LastLogIndex(m.src) /\ m.lastTerm = LastLogTerm(m.src)
    BY <2>1 DEF SolicitationOK
  <2> QED BY <2>1, <2>2
<1> QED BY <1>1, <1>2, <1>3

(* A step of n is explained by the history g, if what it does to n, what it *)
(* sends and the promises it makes to clients are.                         *)
LEMMA Explained ==
  ASSUME NodeTypeOK, NodeTypeOK', VotesAreBinding,
         NEW h \in History, NEW g \in History, Explains(h), HistoryOK(g),
         NEW n \in Node, NEW T \in Nat, currentTerm[n] <= T, Grows(h, g, n, T),
         \A p \in Node \ {n} : Untouched(p), KeepsTerm(n), KeepsCampaign(n),
         role'[n] = Candidate => g.whole[n] = h.whole[n],
         NodeOK(g, n)', LeaderOK(g, n)', CommitOK(g, n)',
         \/ Elected(h, T) \/ ~Elected(g, T)
         \/ /\ ElectionOK(g, T)'
            /\ \A x \in Claims :
                 x.term = T /\ x.voter \in g.quorum[T] => x.candidate = g.leader[T],
         \A x \in Claims' : x \in Claims \/ ClaimOK(g, x)',
         \A m \in BagToSet(msgs)' :
           m \in BagToSet(msgs) \/ (SolicitationOK(m)' /\ MessageOK(g, m)),
         \A p \in proposals' \cup acked' : p \in proposals \cup acked \/ ProposalOK(g, p),
         \A p \in acked' : p \in acked \/ AnswerOK(g, p)
  PROVE  Explains(g)'
<1>1. HistoryOK(h)
  BY DEF Explains
<1>2. \A p \in Node : KeepsTerm(p) /\ KeepsCampaign(p)
  <2> SUFFICES ASSUME NEW p \in Node, p # n PROVE KeepsTerm(p) /\ KeepsCampaign(p)
    OBVIOUS
  <2>1. Untouched(p) /\ currentTerm[p] \in Nat
    BY DEF NodeTypeOK
  <2>2. LastLogIndex(p)' = LastLogIndex(p) /\ LastLogTerm(p)' = LastLogTerm(p)
    BY <2>1 DEF Untouched, LastLogIndex, LastLogTerm
  <2> QED BY <2>1, <2>2 DEF Untouched, KeepsTerm, KeepsCampaign
<1>3. ASSUME NEW p \in Node
      PROVE  (NodeOK(g, p) /\ LeaderOK(g, p) /\ CommitOK(g, p))'
  <2>1. CASE p = n
    BY <2>1
  <2>2. CASE p # n
    <3>1. Untouched(p) /\ NodeOK(h, p) /\ LeaderOK(h, p) /\ CommitOK(h, p)
      BY <2>2 DEF Explains
    <3>2. currentTerm'[p] >= currentTerm[p]
      BY <1>2 DEF KeepsTerm
    <3>3. NodeOK(g, p)'
      BY <1>1, <2>2, <3>1, <3>2, NodeOnward DEF Untouched
    <3>4. LeaderOK(g, p)'
      BY <2>2, <3>1, LeaderOnward DEF Untouched
    <3>5. CommitOK(g, p)'
      BY <2>2, <3>1, <3>2, CommitOnward DEF Untouched
    <3> QED BY <3>3, <3>4, <3>5
  <2> QED BY <2>1, <2>2
<1>4. ASSUME NEW t \in Nat PROVE ElectionOK(g, t)'
  <2>1. CASE t # T \/ Elected(h, T) \/ ~Elected(g, T)
    BY <1>2, <2>1, ElectionOnward DEF Explains
  <2>2. CASE t = T /\ ~Elected(h, T) /\ Elected(g, T)
    BY <2>2
  <2> QED BY <2>1, <2>2
<1>5. ASSUME NEW x \in Claims' PROVE ClaimOK(g, x)'
  <2>1. CASE x \in Claims
    BY <1>1, <1>2, <2>1, ClaimOnward DEF Explains
  <2> QED BY <2>1
<1>6. ASSUME NEW m \in BagToSet(msgs)' PROVE SolicitationOK(m)' /\ MessageOK(g, m)
  <2>1. CASE m \in BagToSet(msgs)
    <3>1. m \in Message /\ SolicitationOK(m) /\ MessageOK(h, m)
      BY <2>1 DEF NodeTypeOK, Explains
    <3> QED BY <1>2, <3>1, SolicitationOnward, MessageGrows
  <2> QED BY <2>1
<1>7. ASSUME NEW p \in proposals' \cup acked'
      PROVE  ProposalOK(g, p) /\ (p \in acked' => AnswerOK(g, p))
  <2>1. p.term \in Nat /\ p.index \in Nat
    BY DEF NodeTypeOK
  <2>2. /\ p \in proposals \cup acked => ProposalOK(h, p)
        /\ p \in acked => AnswerOK(h, p)
    BY DEF Explains
  <2> QED BY <2>1, <2>2, ProposalGrows
<1>8. /\ \A m \in BagToSet(msgs)' : (SolicitationOK(m) /\ MessageOK(g, m))'
      /\ \A p \in (proposals \cup acked)' : ProposalOK(g, p)'
      /\ \A p \in acked' : AnswerOK(g, p)'
      /\ HistoryOK(g)'
  <2>1. \A m : MessageOK(g, m)' <=> MessageOK(g, m)
    BY DEF MessageOK, AppendOK, SnapshotOK
  <2> QED BY <1>6, <1>7, <2>1 DEF ProposalOK, AnswerOK
<1> QED BY <1>3, <1>4, <1>5, <1>8 DEF Explains

(* The steps that leave the history as it is.                              *)
LEMMA ExplainedAsBefore ==
  ASSUME NodeTypeOK, NodeTypeOK', VotesAreBinding, NEW h \in History, Explains(h),
         NEW n \in Node, \A p \in Node \ {n} : Untouched(p), KeepsTerm(n), KeepsCampaign(n),
         NodeOK(h, n)', LeaderOK(h, n)', CommitOK(h, n)',
         \A x \in Claims' : x \in Claims \/ ClaimOK(h, x)',
         \A m \in BagToSet(msgs)' :
           m \in BagToSet(msgs) \/ (SolicitationOK(m)' /\ MessageOK(h, m)),
         proposals' \cup acked' \subseteq proposals \cup acked,
         \A p \in acked' : p \in acked \/ AnswerOK(h, p)
  PROVE  Explains(h)'
<1>1. HistoryOK(h) /\ currentTerm[n] \in Nat /\ currentTerm[n] <= currentTerm[n]
  BY DEF Explains, NodeTypeOK
<1>2. Grows(h, h, n, currentTerm[n])
  BY <1>1, GrowsItself
<1> QED BY <1>1, <1>2, Explained

(* In particular those that change no log, no position and no leader's     *)
(* bookkeeping, and send nothing that the invariant is about.              *)
LEMMA LogsUntouched ==
  ASSUME NodeTypeOK, NodeTypeOK', VotesAreBinding, NEW h \in History, Explains(h),
         NEW n \in Node, \A p \in Node \ {n} : Untouched(p), KeepsTerm(n),
         log'[n] = log[n], snapIndex'[n] = snapIndex[n], snapTerm'[n] = snapTerm[n],
         commitIndex'[n] = commitIndex[n], lastApplied'[n] = lastApplied[n],
         role'[n] = Candidate => role[n] = Candidate \/ currentTerm'[n] > currentTerm[n],
         \/ role'[n] # Leader
         \/ /\ role[n] = Leader /\ currentTerm'[n] = currentTerm[n]
            /\ nextIndex'[n] = nextIndex[n] /\ matchIndex'[n] = matchIndex[n],
         \A x \in Claims' : x \in Claims \/ ClaimOK(h, x)',
         \A m \in BagToSet(msgs)' :
           m \in BagToSet(msgs) \/ (SolicitationOK(m)' /\ MessageOK(h, m)),
         UNCHANGED clientVars
  PROVE  Explains(h)'
<1>1. /\ HistoryOK(h) /\ NodeOK(h, n) /\ LeaderOK(h, n) /\ CommitOK(h, n)
      /\ currentTerm[n] \in Nat /\ currentTerm'[n] >= currentTerm[n]
  BY DEF Explains, NodeTypeOK, KeepsTerm
<1>2. Grows(h, h, n, currentTerm[n])
  BY <1>1, GrowsItself
<1>3. NodeOK(h, n)'
  BY <1>1, <1>2, NodeOnward
<1>4. LeaderOK(h, n)'
  BY <1>1, <1>2, LeaderOnward
<1>5. CommitOK(h, n)'
  BY <1>1, <1>2, CommitOnward
<1>6. KeepsCampaign(n)
  BY DEF KeepsCampaign, LastLogIndex, LastLogTerm
<1> QED BY <1>3, <1>4, <1>5, <1>6, ExplainedAsBefore DEF clientVars

-----------------------------------------------------------------------------
(* What the steps send.                                                    *)

\* Messages that the invariant says nothing about.
Harmless(m) ==
  \/ m.type = "VoteRequest" /\ m.pre
  \/ m.type = "VoteReply"
  \/ m.type = "AppendReply" /\ ~m.success

(* They satisfy it whatever the history.                                   *)
LEMMA HarmlessTrue ==
  ASSUME NEW h, NEW m, Harmless(m)
  PROVE  SolicitationOK(m)' /\ MessageOK(h, m)
BY DEF Harmless, SolicitationOK, MessageOK

(* An exchange that sends true messages leaves only true ones in flight.   *)
LEMMA SentTrue ==
  ASSUME NodeTypeOK, NEW h, NEW read, NEW sent, Exchange(read, sent),
         \A m \in sent : Harmless(m) \/ (SolicitationOK(m)' /\ MessageOK(h, m))
  PROVE  \A m \in BagToSet(msgs)' :
           m \in BagToSet(msgs) \/ (SolicitationOK(m)' /\ MessageOK(h, m))
<1>1. BagToSet(msgs)' \subseteq BagToSet(msgs) \cup sent
  BY ExchangeMessages DEF NodeTypeOK
<1> QED BY <1>1, HarmlessTrue

(* No new evidence of votes comes from a step that grants and counts none. *)
LEMMA ClaimsShrink ==
  ASSUME NodeTypeOK, NEW read, NEW sent, Exchange(read, sent) \/ UNCHANGED msgs, NoGrant(sent),
         \A c \in Node : \/ role'[c] = Follower
                         \/ /\ role[c] # Follower
                            /\ currentTerm'[c] = currentTerm[c] /\ votes'[c] = votes[c]
  PROVE  Claims' \subseteq Claims
<1>1. Granted' \subseteq Granted
  <2>1. CASE Exchange(read, sent)
    BY <2>1, GrantedShrinks
  <2>2. CASE UNCHANGED msgs
    BY <2>2 DEF Granted, InFlight
  <2> QED BY <2>1, <2>2
<1>2. Counted' \subseteq Counted
  BY CountedShrinks
<1> QED BY <1>1, <1>2 DEF Claims

(* The RPCs of a leader's broadcast tell the truth about its term's log.   *)
LEMMA BroadcastTrue ==
  ASSUME NodeTypeOK, NEW h \in History, NEW n \in Node, NEW reached \in SUBSET Peers(n),
         NEW lg \in Seq(Entry), NEW commit \in Nat, NEW nexts \in [Node -> Nat],
         NEW s, s = h.log[currentTerm[n]], h.leader[currentTerm[n]] = n,
         snapIndex[n] + Len(lg) = Len(s),
         \A i \in 1..Len(lg) : lg[i] = s[snapIndex[n] + i],
         snapTerm[n] = TermAt(s, snapIndex[n]),
         \A p \in Node : nexts[p] <= Len(s) + 1,
         snapIndex[n] <= commit, Safe(h, currentTerm[n], s, commit)
  PROVE  \A m \in BroadcastRpcs(n, reached, lg, commit, nexts) :
           SolicitationOK(m)' /\ MessageOK(h, m)
<1> DEFINE T == currentTerm[n]
           a == snapIndex[n]
<1>0. /\ T \in Nat /\ a \in Nat /\ s \in Seq(Entry) /\ Len(s) \in Nat /\ Len(lg) \in Nat
      /\ snapTerm[n] \in Nat /\ a <= commit
      /\ a + Len(lg) = Len(s) /\ \A i \in 1..Len(lg) : lg[i] = s[a + i]
  BY HistoryTypes, EntriesTyped DEF NodeTypeOK
<1>1. commit <= Len(s)
  BY <1>0, SafeInside
<1>2. ASSUME NEW p \in reached, NEW next \in Nat, next >= 1, next <= a
      PROVE  SnapshotOK(h, SnapshotRpc(n, p))
  <2>1. a \in 1..Len(s) /\ HasIn(s, a, snapTerm[n])
    BY <1>0, <1>1, <1>2 DEF TermAt, HasIn
  <2>2. Safe(h, T, s, a)
    <3>1. Agree(s, s, a)
      BY <1>0, <2>1 DEF Agree
    <3> QED BY <1>0, <3>1, SafeBelow
  <2> QED BY <2>1, <2>2 DEF SnapshotOK, SnapshotRpc, Peers
<1>3. ASSUME NEW p \in reached, NEW next \in Nat, next > a, next <= Len(s) + 1
      PROVE  AppendOK(h, AppendRpc(n, p, lg, commit, next))
  <2> DEFINE e == LogSliceIn(n, lg, next)
  <2>1. /\ Len(e) = Len(s) - (next - 1)
        /\ \A i \in 1..Len(e) : e[i] = lg[next - a + i - 1]
    <3>1. next - a \in Nat \ {0} /\ Len(lg) - (next - a) + 1 = Len(s) - (next - 1)
      <4>1. PICK q, j, k : q = a /\ j = Len(lg) /\ k = Len(s)
        OBVIOUS
      <4>2. q \in Nat /\ j \in Nat /\ k \in Nat /\ q + j = k /\ next \in Nat /\ next > q
        BY <1>0, <1>3, <4>1
      <4>3. next - q \in Nat \ {0} /\ j - (next - q) + 1 = k - (next - 1)
        BY ONLY <4>2
      <4> QED BY <4>1, <4>3
    <3>2. e = SubSeq(lg, next - a, Len(lg))
      <4>1. ~(next <= a)
        <5> HIDE DEF a
        <5> QED BY <1>0, <1>3
      <4> QED BY <4>1 DEF LogSliceIn
    <3>3. \A i \in next - a .. Len(lg) : lg[i] \in Entry
      BY <3>1, ElementOfSeq
    <3>4. /\ Len(e) = IF next - a <= Len(lg) THEN Len(lg) - (next - a) + 1 ELSE 0
          /\ \A i \in 1 .. Len(lg) - (next - a) + 1 : e[i] = lg[next - a + i - 1]
      <4>1. PICK i, j : i = next - a /\ j = Len(lg) /\ e = SubSeq(lg, i, j)
        BY <3>2
      <4>2. i \in Nat \ {0} /\ j \in Nat /\ \A k \in i..j : lg[k] \in Entry
        BY ONLY <1>0, <3>1, <3>3, <4>1
      <4>3. /\ Len(SubSeq(lg, i, j)) = IF i <= j THEN j - i + 1 ELSE 0
            /\ \A k \in 1 .. j - i + 1 : SubSeq(lg, i, j)[k] = lg[i + k - 1]
        <5>1. i \in Int /\ j \in Int
          BY ONLY <4>2
        <5> QED BY ONLY <4>2, <5>1, SubSeqProperties
      <4> QED BY <4>1, <4>3
    <3>5. Len(e) = Len(s) - (next - 1)
      <4>1. PICK i, j, k, l, q : i = next - a /\ j = Len(lg) /\ k = Len(s) /\ l = Len(e) /\ q = a
        OBVIOUS
      <4>2. /\ i \in Nat \ {0} /\ j \in Nat /\ k \in Nat /\ j - i + 1 = k - (next - 1)
            /\ q \in Nat /\ q + j = k /\ next <= k + 1 /\ i = next - q
        BY <1>0, <1>3, <3>1, <4>1
      <4>3. l = IF i <= j THEN j - i + 1 ELSE 0
        BY <3>4, <4>1
      <4>4. l = k - (next - 1)
        BY ONLY <1>3, <4>2, <4>3
      <4> QED BY <4>1, <4>4
    <3> QED BY <3>1, <3>4, <3>5
  <2>2. ASSUME NEW i \in 1..Len(e) PROVE e[i] = s[next - 1 + i]
    <3> HIDE DEF e, a
    <3>1. next - a + i - 1 \in 1..Len(lg) /\ a + (next - a + i - 1) = next - 1 + i
      BY <1>0, <1>3, <2>1
    <3> QED BY <1>0, <2>1, <3>1
  <2>3. LogTermIn(n, lg, next - 1) = TermAt(s, next - 1)
    <3>1. CASE next - 1 = a
      BY <3>1 DEF LogTermIn
    <3>2. CASE next - 1 # a
      <4>1. next - 1 - a \in 1..Len(lg) /\ a + (next - 1 - a) = next - 1 /\ next - 1 \in 1..Len(s)
        <5> HIDE DEF a
        <5> QED BY <1>0, <1>3, <3>2
      <4>2. lg[next - 1 - a] = s[next - 1]
        BY <1>0, <4>1
      <4> QED BY <1>0, <1>3, <3>2, <4>1, <4>2 DEF LogTermIn, TermAt
    <3> QED BY <3>1, <3>2
  <2>4. next - 1 + Len(e) = Len(s)
    <3> HIDE DEF e
    <3> QED BY SMTT(20), <1>0, <1>3, <2>1
  <2>5. PICK rpc : rpc = AppendRpc(n, p, lg, commit, next)
    OBVIOUS
  <2>6. /\ rpc.src = n /\ rpc.dst = p /\ rpc.term = T /\ rpc.entries = e /\ rpc.commit = commit
        /\ rpc.prevIndex = next - 1 /\ rpc.prevTerm = LogTermIn(n, lg, next - 1)
    <3> HIDE DEF e
    <3>1. rpc.entries = e
      BY <2>5 DEF AppendRpc, e
    <3> QED BY <2>5, <3>1 DEF AppendRpc
  <2>7. p # n
    BY DEF Peers
  <2> HIDE DEF e
  <2>8. rpc.prevIndex + Len(rpc.entries) = Len(s) /\ rpc.prevTerm = TermAt(s, rpc.prevIndex)
    BY <2>3, <2>4, <2>6
  <2>9. \A i \in 1..Len(rpc.entries) : rpc.entries[i] = s[rpc.prevIndex + i]
    BY <2>2, <2>6
  <2>10. /\ rpc.prevIndex + Len(rpc.entries) <= Len(s)
         /\ rpc.commit <= rpc.prevIndex + Len(rpc.entries)
    BY <1>0, <1>1, <2>6, <2>8
  <2>11. s = h.log[rpc.term] /\ h.leader[rpc.term] = rpc.src /\ rpc.src # rpc.dst
         /\ Safe(h, rpc.term, s, rpc.commit)
    BY <2>6, <2>7
  <2>12. AppendOK(h, rpc)
    BY ONLY <2>8, <2>9, <2>10, <2>11 DEF AppendOK
  <2> QED BY <2>5, <2>12
<1>4. ASSUME NEW p \in reached
      PROVE  Larger(nexts[p], 1) \in Nat /\ Larger(nexts[p], 1) >= 1
             /\ Larger(nexts[p], 1) <= Len(s) + 1
  BY <1>0 DEF Larger, Peers
<1>5. ASSUME NEW p \in reached, NEW next \in Nat, next >= 1, next <= Len(s) + 1,
             NEW m, m = IF next <= a THEN SnapshotRpc(n, p) ELSE AppendRpc(n, p, lg, commit, next)
      PROVE  SolicitationOK(m)' /\ MessageOK(h, m)
  <2>1. CASE next <= a
    <3>1. SnapshotOK(h, m) /\ m.type = "SnapshotRequest"
      BY <1>2, <1>5, <2>1 DEF SnapshotRpc
    <3> QED BY <3>1 DEF MessageOK, SolicitationOK
  <2>2. CASE ~(next <= a)
    <3>1. next > a
      BY <1>0, <2>2
    <3>2. AppendOK(h, m) /\ m.type = "AppendRequest"
      BY <1>3, <1>5, <2>2, <3>1 DEF AppendRpc
    <3> QED BY <3>2 DEF MessageOK, SolicitationOK
  <2> QED BY <2>1, <2>2
<1> QED BY <1>4, <1>5 DEF BroadcastRpcs

-----------------------------------------------------------------------------
(* Steps that leave logs and positions alone.                              *)

(* A node never hears of its own term from another leader.                 *)
LEMMA NotItsOwnLeader ==
  ASSUME NodeTypeOK, NEW h \in History, Explains(h), NEW n \in Node, NEW l \in Node, l # n,
         h.leader[currentTerm[n]] = l
  PROVE  role[n] # Leader
BY DEF Explains, LeaderOK

(* Stepping down or following a leader, a node gives up neither its vote    *)
(* nor its leadership within a term.                                       *)
LEMMA Following ==
  ASSUME NodeTypeOK, NEW n \in Node, NEW t \in Nat, NEW l,
         \/ StepDown(n, t) /\ t > currentTerm[n]
         \/ FollowLeader(n, t, l) /\ t >= currentTerm[n] /\ (t = currentTerm[n] => role[n] # Leader)
         \/ UNCHANGED electionVars
  PROVE  /\ KeepsTerm(n)
         /\ role'[n] = Follower \/ (role'[n] = role[n] /\ currentTerm'[n] = currentTerm[n])
         /\ \A p \in Node \ {n} : /\ currentTerm'[p] = currentTerm[p]
                                  /\ votedFor'[p] = votedFor[p] /\ role'[p] = role[p]
<1>1. /\ currentTerm \in [Node -> Nat] /\ votedFor \in [Node -> Node \cup {NoNode}]
      /\ role \in [Node -> {Follower, Candidate, Leader}]
  BY DEF NodeTypeOK
<1>2. CASE StepDown(n, t) /\ t > currentTerm[n]
  <2>1. /\ role' = [role EXCEPT ![n] = Follower] /\ currentTerm' = [currentTerm EXCEPT ![n] = t]
        /\ votedFor' = [votedFor EXCEPT ![n] = NoNode]
    BY <1>2 DEF StepDown
  <2>2. currentTerm'[n] > currentTerm[n] /\ currentTerm[n] \in Nat /\ currentTerm'[n] \in Nat
    BY <1>1, <1>2, <2>1
  <2> QED BY <1>1, <2>1, <2>2 DEF KeepsTerm
<1>3. CASE FollowLeader(n, t, l) /\ t >= currentTerm[n] /\ (t = currentTerm[n] => role[n] # Leader)
  <2>1. /\ role' = [role EXCEPT ![n] = Follower] /\ currentTerm' = [currentTerm EXCEPT ![n] = t]
        /\ votedFor' = [votedFor EXCEPT ![n] =
                          IF t > currentTerm[n] THEN NoNode ELSE votedFor[n]]
    BY <1>3 DEF FollowLeader
  <2>2. /\ currentTerm'[n] = t /\ currentTerm'[n] >= currentTerm[n] /\ role'[n] = Follower
        /\ currentTerm'[n] = currentTerm[n] => votedFor'[n] = votedFor[n] /\ role[n] # Leader
    BY <1>1, <1>3, <2>1
  <2> QED BY <1>1, <2>1, <2>2 DEF KeepsTerm
<1>4. CASE UNCHANGED electionVars
  BY <1>1, <1>4 DEF electionVars, KeepsTerm
<1> QED BY <1>2, <1>3, <1>4

(* Such a step, with whatever it sends, needs no new history.              *)
LEMMA FollowingExplained ==
  ASSUME NodeTypeOK, NodeTypeOK', VotesAreBinding, NEW h \in History, Explains(h),
         NEW n \in Node, NEW t \in Nat, NEW l,
         \/ StepDown(n, t) /\ t > currentTerm[n]
         \/ FollowLeader(n, t, l) /\ t >= currentTerm[n] /\ (t = currentTerm[n] => role[n] # Leader)
         \/ UNCHANGED electionVars,
         UNCHANGED <<logVars, commitIndex, lastApplied, leaderVars, votes, clientVars>>,
         NEW read, NEW sent, Exchange(read, sent) \/ (UNCHANGED msgs /\ sent = {}),
         NoGrant(sent), \A m \in sent : Harmless(m) \/ (SolicitationOK(m)' /\ MessageOK(h, m))
  PROVE  Explains(h)'
<1>1. /\ KeepsTerm(n)
      /\ role'[n] = Follower \/ (role'[n] = role[n] /\ currentTerm'[n] = currentTerm[n])
      /\ \A p \in Node \ {n} : /\ currentTerm'[p] = currentTerm[p]
                               /\ votedFor'[p] = votedFor[p] /\ role'[p] = role[p]
  BY Following
<1>2. \A p \in Node : /\ log'[p] = log[p] /\ snapIndex'[p] = snapIndex[p]
                      /\ snapTerm'[p] = snapTerm[p] /\ commitIndex'[p] = commitIndex[p]
                      /\ lastApplied'[p] = lastApplied[p] /\ votes'[p] = votes[p]
                      /\ nextIndex'[p] = nextIndex[p] /\ matchIndex'[p] = matchIndex[p]
  BY DEF logVars, leaderVars
<1>3. \A p \in Node \ {n} : Untouched(p)
  BY <1>1, <1>2 DEF Untouched
<1>4. Claims' \subseteq Claims
  <2>1. \A c \in Node : \/ role'[c] = Follower
                        \/ /\ role[c] # Follower
                           /\ currentTerm'[c] = currentTerm[c] /\ votes'[c] = votes[c]
    BY <1>1, <1>2
  <2> QED BY <2>1, ClaimsShrink
<1>5. \A m \in BagToSet(msgs)' :
        m \in BagToSet(msgs) \/ (SolicitationOK(m)' /\ MessageOK(h, m))
  <2>1. CASE Exchange(read, sent)
    BY <2>1, SentTrue
  <2>2. CASE UNCHANGED msgs
    BY <2>2
  <2> QED BY <2>1, <2>2
<1>6. /\ role'[n] = Candidate => role[n] = Candidate
      /\ \/ role'[n] # Leader
         \/ role[n] = Leader /\ currentTerm'[n] = currentTerm[n]
  BY <1>1 DEF Follower, Candidate, Leader
<1> QED BY <1>1, <1>2, <1>3, <1>4, <1>5, <1>6, LogsUntouched

(* The election's steps but those of a campaign, a vote or its count.      *)
LEMMA PollingExplained ==
  ASSUME NodeTypeOK, NodeTypeOK', VotesAreBinding, NEW h \in History, Explains(h),
         \/ \E n \in Node : ElectionTimeout(n) \/ PreVoteEnds(n)
         \/ \E m \in InFlight("VoteRequest") : m.pre /\ HandlePreVote(m)
         \/ \E m \in InFlight("VoteReply") : ReceivePreVote(m)
  PROVE  Explains(h)'
<1> USE DEF electionFrame, ballotVars, applyVars
<1>1. /\ NoGrant({})
      /\ \A n, reached, t : NoGrant(Solicit(n, reached, t, TRUE))
      /\ \A n, reached, t : \A m \in Solicit(n, reached, t, TRUE) : Harmless(m)
  BY DEF NoGrant, Solicit, Harmless
<1>2. ASSUME NEW n \in Node, ElectionTimeout(n) PROVE Explains(h)'
  <2>1. PICK reached : Exchange(OwnPreVotes(n), Solicit(n, reached, currentTerm[n] + 1, TRUE))
    BY <1>2 DEF ElectionTimeout
  <2>2. UNCHANGED <<electionVars, logVars, commitIndex, lastApplied, leaderVars, votes, clientVars>>
    BY <1>2 DEF ElectionTimeout
  <2>3. currentTerm[n] \in Nat
    BY DEF NodeTypeOK
  <2> QED BY <1>1, <2>1, <2>2, <2>3, FollowingExplained
<1>3. ASSUME NEW n \in Node, PreVoteEnds(n) PROVE Explains(h)'
  <2>1. UNCHANGED <<electionVars, logVars, commitIndex, lastApplied, leaderVars, votes, clientVars, msgs>>
    BY <1>3 DEF PreVoteEnds
  <2>2. currentTerm[n] \in Nat
    BY DEF NodeTypeOK
  <2> QED BY <1>1, <2>1, <2>2, FollowingExplained
<1>4. ASSUME NEW m \in InFlight("VoteRequest"), m.pre, HandlePreVote(m) PROVE Explains(h)'
  <2>1. PICK granted : Exchange({m}, {VoteReplyTo(m, currentTerm[m.dst], granted)})
    BY <1>4 DEF HandlePreVote, AnswerPreVote
  <2>2. UNCHANGED <<electionVars, logVars, commitIndex, lastApplied, leaderVars, votes, clientVars>>
    BY <1>4 DEF HandlePreVote, AnswerPreVote
  <2>3. LET r == VoteReplyTo(m, currentTerm[m.dst], granted) IN NoGrant({r}) /\ Harmless(r)
    BY <1>4 DEF VoteReplyTo, NoGrant, Harmless
  <2>4. m.dst \in Node /\ currentTerm[m.dst] \in Nat
    BY MessageKinds DEF NodeTypeOK, InFlight
  <2> QED BY <2>1, <2>2, <2>3, <2>4, FollowingExplained
<1>5. ASSUME NEW m \in InFlight("VoteReply"), ReceivePreVote(m) PROVE Explains(h)'
  <2>1. /\ Exchange({m}, {})
        /\ UNCHANGED <<logVars, commitIndex, lastApplied, leaderVars, votes, clientVars>>
        /\ \/ m.term > currentTerm[m.dst] /\ StepDown(m.dst, m.term)
           \/ UNCHANGED electionVars
    BY <1>5 DEF ReceivePreVote
  <2>2. m.dst \in Node /\ m.term \in Nat
    BY MessageKinds DEF NodeTypeOK, InFlight
  <2> QED BY <1>1, <2>1, <2>2, FollowingExplained
<1> QED BY <1>2, <1>3, <1>4, <1>5
=============================================================================
