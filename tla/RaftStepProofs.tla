--------------------------- MODULE RaftStepProofs ---------------------------
(***************************************************************************)
(* The steps of elections, and those that leave logs and positions alone,  *)
(* lead to a state that is explained by a history continuing the one       *)
(* before; the steps of replication are in RaftReplicationProofs.          *)
(***************************************************************************)
EXTENDS RaftHistoryProofs

-----------------------------------------------------------------------------
(* Steps that leave logs and positions alone.                              *)

(* A heartbeat sends the leader's log as it is.                            *)
LEMMA HeartbeatExplained ==
  ASSUME NodeTypeOK, NodeTypeOK', VotesAreBinding, NEW h \in History, Explains(h),
         NEW n \in Node, Heartbeat(n)
  PROVE  Explains(h)'
<1>1. PICK reached \in SUBSET Peers(n) :
        Exchange({}, BroadcastRpcs(n, reached, log[n], commitIndex[n], nextIndex[n]))
  BY DEF Heartbeat
<1>2. /\ NodeOK(h, n) /\ LeaderOK(h, n) /\ CommitOK(h, n) /\ role[n] = Leader
      /\ UNCHANGED <<electionVars, logVars, commitIndex, lastApplied, leaderVars, votes, clientVars>>
  BY DEF Heartbeat, Explains, applyVars, ballotVars, replicationFrame
<1>3. /\ currentTerm[n] \in Nat /\ log[n] \in Seq(Entry) /\ commitIndex[n] \in Nat
      /\ nextIndex[n] \in [Node -> Nat] /\ snapIndex[n] \in Nat /\ lastApplied[n] \in Nat
  BY DEF NodeTypeOK
<1> DEFINE s == h.whole[n]
<1>4. /\ s = h.log[currentTerm[n]] /\ h.leader[currentTerm[n]] = n
      /\ \A p \in Node : nextIndex[n][p] <= Len(s) + 1
  BY <1>2 DEF LeaderOK
<1>5. /\ snapIndex[n] + Len(log[n]) = Len(s)
      /\ \A i \in 1..Len(log[n]) : log[n][i] = s[snapIndex[n] + i]
      /\ snapTerm[n] = TermAt(s, snapIndex[n])
  BY <1>2 DEF NodeOK, Represents, LastLogIndex
<1>6. Safe(h, currentTerm[n], s, commitIndex[n]) /\ snapIndex[n] <= commitIndex[n]
  BY <1>2, <1>3 DEF CommitOK
<1> HIDE DEF s
<1>7. \A m \in BroadcastRpcs(n, reached, log[n], commitIndex[n], nextIndex[n]) :
        SolicitationOK(m)' /\ MessageOK(h, m)
  BY <1>3, <1>4, <1>5, <1>6, BroadcastTrue
<1>8. NoGrant(BroadcastRpcs(n, reached, log[n], commitIndex[n], nextIndex[n]))
  BY DEF NoGrant, BroadcastRpcs, AppendRpc, SnapshotRpc
<1> QED BY <1>1, <1>2, <1>3, <1>7, <1>8, FollowingExplained

(* Neither does the loss of an RPC, a reply that is ignored, or a refusal  *)
(* need a new history.                                                     *)
LEMMA IgnoredExplained ==
  ASSUME NodeTypeOK, NodeTypeOK', VotesAreBinding, NEW h \in History, Explains(h),
         NEW m \in BagToSet(msgs),
         LoseRpc(m) \/ ReplyIgnored(m) \/ (m \in InFlight("AppendRequest") /\ RejectStaleAppend(m))
  PROVE  Explains(h)'
<1> USE DEF applyVars, ballotVars, replicationFrame
<1>1. m \in Message /\ m.dst \in Node /\ m.term \in Nat /\ NoGrant({})
  BY MessageKinds DEF NodeTypeOK, NoGrant
<1>2. CASE LoseRpc(m)
  <2>1. /\ Exchange({m}, {})
        /\ UNCHANGED <<electionVars, logVars, commitIndex, lastApplied, leaderVars, votes, clientVars>>
    BY <1>2 DEF LoseRpc
  <2> QED BY <1>1, <2>1, FollowingExplained
<1>3. CASE ReplyIgnored(m)
  <2>1. /\ Exchange({m}, {})
        /\ UNCHANGED <<logVars, commitIndex, lastApplied, leaderVars, votes, clientVars>>
        /\ (m.term > currentTerm[m.dst] /\ StepDown(m.dst, m.term)) \/ UNCHANGED electionVars
    BY <1>3 DEF ReplyIgnored
  <2> QED BY <1>1, <2>1, FollowingExplained
<1>4. CASE m \in InFlight("AppendRequest") /\ RejectStaleAppend(m)
  <2> DEFINE r == AppendReplyTo(m, currentTerm[m.dst], FALSE, 0)
  <2>1. /\ Exchange({m}, {r})
        /\ UNCHANGED <<electionVars, logVars, commitIndex, lastApplied, leaderVars, votes, clientVars>>
    BY <1>4 DEF RejectStaleAppend
  <2>2. Harmless(r) /\ NoGrant({r})
    BY DEF AppendReplyTo, Harmless, NoGrant
  <2> HIDE DEF r
  <2> QED BY <1>1, <2>1, <2>2, FollowingExplained
<1> QED BY <1>2, <1>3, <1>4

(* A follower that refuses a leader's entries follows it all the same.     *)
LEMMA RefusalExplained ==
  ASSUME NodeTypeOK, NodeTypeOK', VotesAreBinding, NEW h \in History, Explains(h),
         NEW m \in InFlight("AppendRequest"), m.term >= currentTerm[m.dst],
         FollowLeader(m.dst, m.term, m.src),
         Exchange({m}, {AppendReplyTo(m, m.term, FALSE, 0)}),
         UNCHANGED <<logVars, applyVars, leaderVars, replicationFrame>>
  PROVE  Explains(h)'
<1> USE DEF applyVars, ballotVars, replicationFrame
<1> DEFINE r == AppendReplyTo(m, m.term, FALSE, 0)
<1>1. m \in BagToSet(msgs) /\ m \in Message /\ m.type = "AppendRequest"
  BY DEF InFlight, NodeTypeOK
<1>2. m.dst \in Node /\ m.src \in Node /\ m.term \in Nat /\ m.src # m.dst /\ h.leader[m.term] = m.src
  <2>1. AppendOK(h, m)
    BY <1>1 DEF Explains, MessageOK
  <2> QED BY <1>1, <2>1, MessageKinds DEF AppendOK
<1>3. m.term = currentTerm[m.dst] => role[m.dst] # Leader
  BY <1>2, NotItsOwnLeader
<1>4. Harmless(r) /\ NoGrant({r})
  BY DEF AppendReplyTo, Harmless, NoGrant
<1>5. /\ Exchange({m}, {r})
      /\ UNCHANGED <<logVars, commitIndex, lastApplied, leaderVars, votes, clientVars>>
  OBVIOUS
<1> HIDE DEF r
<1> QED BY <1>2, <1>3, <1>4, <1>5, FollowingExplained

(* A snapshot of a deposed leader changes nothing, and its reply says so   *)
(* by its term.                                                            *)
LEMMA StaleSnapshotExplained ==
  ASSUME NodeTypeOK, NodeTypeOK', VotesAreBinding, NEW h \in History, Explains(h),
         NEW m \in InFlight("SnapshotRequest"), m.term < currentTerm[m.dst],
         HandleInstallSnapshot(m)
  PROVE  Explains(h)'
<1> USE DEF applyVars, ballotVars, replicationFrame
<1>0. PICK r : r = SnapshotReplyTo(m)
  OBVIOUS
<1>1. m \in Message /\ m.dst \in Node /\ m.term \in Nat /\ currentTerm[m.dst] \in Nat
  BY MessageKinds DEF InFlight, NodeTypeOK
<1>2. /\ Exchange({m}, {r})
      /\ UNCHANGED <<electionVars, logVars, commitIndex, lastApplied, leaderVars, votes, clientVars>>
  BY <1>0, <1>1 DEF HandleInstallSnapshot
<1>3. NoGrant({r}) /\ r.type = "SnapshotReply" /\ r.term > r.sent
  BY <1>0, <1>1 DEF SnapshotReplyTo, NoGrant
<1>4. SolicitationOK(r)' /\ MessageOK(h, r)
  BY <1>3 DEF SolicitationOK, MessageOK
<1> QED BY <1>1, <1>2, <1>3, <1>4, FollowingExplained

-----------------------------------------------------------------------------
(* Elections.                                                              *)

(* A node that starts an election goes to a term for which it has not      *)
(* voted yet, and holds what it has stored itself.                         *)
LEMMA NewTerm ==
  ASSUME NodeTypeOK, NEW h \in History, Explains(h), NEW n \in Node, NEW T, T = currentTerm[n] + 1
  PROVE  /\ T \in Nat /\ T >= 1 /\ currentTerm[n] <= T
         /\ Elected(h, T) => n \notin h.quorum[T]
         /\ \A t \in 0..T - 1 : Kept(h, n, t, h.whole[n], T - 1)
<1> DEFINE c == currentTerm[n]
<1>0. c \in Nat /\ T = c + 1
  BY DEF NodeTypeOK
<1>1. c \in Nat /\ T \in Nat /\ T >= 1 /\ c <= T /\ T - 1 = c /\ c < T
  <2> HIDE DEF c
  <2> QED BY <1>0
<1>2. NodeOK(h, n)
  BY DEF Explains
<1>3. ASSUME NEW t \in 0..T - 1 PROVE Kept(h, n, t, h.whole[n], T - 1)
  <2>1. CASE t < c
    BY <1>1, <1>2, <2>1, KeptLater
  <2>2. CASE t = c
    <3>1. Agree(h.whole[n], h.log[t], h.stored[t][n])
      BY <1>2, <2>2 DEF NodeOK
    <3>2. Len(h.whole[n]) \in Nat /\ h.stored[t][n] \in Nat
      BY <1>1, EntriesTyped, HistoryTypes
    <3> QED BY SMTT(20), <3>1, <3>2 DEF Kept, Agree, HasIn
  <2> QED BY <1>1, <2>1, <2>2
<1>4. Elected(h, T) => n \notin h.quorum[T]
  <2> SUFFICES ASSUME Elected(h, T), n \in h.quorum[T] PROVE FALSE
    OBVIOUS
  <2>1. currentTerm[n] >= T
    BY <1>1 DEF Explains, ElectionOK
  <2> QED BY <1>1, <2>1
<1> QED BY <1>1, <1>3, <1>4

(* A campaign: the candidate's own vote and its requests speak of the log  *)
(* it has.                                                                 *)
LEMMA CampaignExplained ==
  ASSUME NodeTypeOK, NodeTypeOK', VotesAreBinding, NEW h \in History, Explains(h),
         NEW n \in Node, NEW read, NEW reached, StartElection(n, read, reached),
         Quorum > 1, UNCHANGED electionFrame
  PROVE  Explains(h)'
<1>0. PICK T, own, sent : /\ T = currentTerm[n] + 1
                          /\ own = [voter |-> n, term |-> T, candidate |-> n]
                          /\ sent = Solicit(n, reached, T, FALSE)
  OBVIOUS
<1>1. /\ T \in Nat /\ T >= 1
      /\ Elected(h, T) => n \notin h.quorum[T]
      /\ \A t \in 0..T - 1 : Kept(h, n, t, h.whole[n], T - 1)
  BY <1>0, NewTerm
<1>2. /\ role'[n] = Candidate /\ Exchange(read, sent)
      /\ UNCHANGED <<leaderVars, logVars, commitIndex, lastApplied, clientVars>>
  <2>1. ~(Quorum <= 1)
    BY NodeAssumption, FS_CardinalityType DEF Quorum
  <2>2. /\ role' = [role EXCEPT ![n] = Candidate]
        /\ Exchange(read, Solicit(n, reached, currentTerm[n] + 1, FALSE))
        /\ UNCHANGED leaderVars
    BY <2>1 DEF StartElection
  <2>3. role'[n] = Candidate
    BY <2>2 DEF NodeTypeOK
  <2> QED BY <1>0, <2>2, <2>3 DEF electionFrame, applyVars
<1>3. /\ currentTerm'[n] = T /\ currentTerm[n] \in Nat /\ T > currentTerm[n]
      /\ \A p \in Node \ {n} : /\ currentTerm'[p] = currentTerm[p]
                               /\ votedFor'[p] = votedFor[p] /\ role'[p] = role[p]
  <2>1. /\ \A c \in Node :
              /\ currentTerm[c] \in Nat
              /\ currentTerm'[c] = IF c = n THEN currentTerm[n] + 1 ELSE currentTerm[c]
              /\ votedFor'[c] = IF c = n THEN n ELSE votedFor[c]
        /\ \A c \in Node \ {n} : role'[c] = role[c]
    BY CampaignFields
  <2> QED BY <1>0, <2>1
<1>4. Claims' \subseteq Claims \cup {own}
  BY <1>0, EvidenceOfCampaign
<1>5. ClaimOK(h, own)'
  <2>1. own.term = T /\ own.voter = n /\ own.candidate = n /\ T \in 1..currentTerm'[n]
    BY <1>0, <1>1, <1>3
  <2> QED BY <1>1, <2>1 DEF ClaimOK
<1>6. ASSUME NEW m \in sent PROVE SolicitationOK(m)' /\ MessageOK(h, m)
  <2>1. /\ m.type = "VoteRequest" /\ m.src = n /\ m.term = T
        /\ m.lastIndex = LastLogIndex(n) /\ m.lastTerm = LastLogTerm(n)
    BY <1>0 DEF Solicit
  <2>2. LastLogIndex(n)' = LastLogIndex(n) /\ LastLogTerm(n)' = LastLogTerm(n)
    BY <1>2 DEF logVars, LastLogIndex, LastLogTerm
  <2>3. m.term \in 1..currentTerm'[n]
    BY <1>1, <1>3, <2>1
  <2> QED BY <2>1, <2>2, <2>3 DEF SolicitationOK, MessageOK
<1>7. \A p \in Node \ {n} : Untouched(p)
  BY <1>2, <1>3 DEF Untouched, logVars, leaderVars
<1>8. KeepsTerm(n)
  BY <1>1, <1>3 DEF KeepsTerm
<1>9. \A m \in BagToSet(msgs)' :
        m \in BagToSet(msgs) \/ (SolicitationOK(m)' /\ MessageOK(h, m))
  BY <1>2, <1>6, SentTrue
<1>10. \A x \in Claims' : x \in Claims \/ ClaimOK(h, x)'
  BY <1>4, <1>5
<1>11. /\ role'[n] # Leader
       /\ log'[n] = log[n] /\ snapIndex'[n] = snapIndex[n] /\ snapTerm'[n] = snapTerm[n]
       /\ commitIndex'[n] = commitIndex[n] /\ lastApplied'[n] = lastApplied[n]
       /\ currentTerm'[n] > currentTerm[n] /\ UNCHANGED clientVars
  BY <1>1, <1>2, <1>3 DEF Candidate, Leader, logVars
<1> QED BY <1>7, <1>8, <1>9, <1>10, <1>11, LogsUntouched

(* A vote: the candidate's log holds what the voter has stored, unless a   *)
(* leader before the candidate lacks it.                                   *)
LEMMA VoteKeeps ==
  ASSUME NodeTypeOK, NEW h \in History, Explains(h), NEW m \in VoteRequest,
         m \in BagToSet(msgs), ~m.pre, Grants(m.dst, m), ~Elected(h, m.term),
         role[m.src] = Candidate, currentTerm[m.src] = m.term, NEW t \in 0..m.term - 1
  PROVE  Kept(h, m.dst, t, h.whole[m.src], m.term - 1)
<1> DEFINE T == m.term
           v == m.dst
           s == h.whole[m.src]
           r == h.whole[v]
<1>1. /\ v \in Node /\ m.src \in Node /\ T \in Nat /\ m.type = "VoteRequest"
      /\ currentTerm[v] \in Nat /\ currentTerm[v] <= T /\ t \in Nat /\ t < T
  BY DEF VoteRequest, NodeTypeOK, Grants
<1>2. NodeOK(h, v) /\ NodeOK(h, m.src) /\ HistoryOK(h) /\ SolicitationOK(m)
  BY <1>1 DEF Explains
<1>3. s \in Seq(Entry) /\ Chain(h, s) /\ r \in Seq(Entry) /\ Chain(h, r)
  BY <1>1, <1>2, HistoryTypes DEF NodeOK
<1>4. \/ TermAt(s, Len(s)) > TermAt(r, Len(r))
      \/ TermAt(s, Len(s)) = TermAt(r, Len(r)) /\ Len(s) >= Len(r)
  <2>1. /\ LastLogIndex(m.src) = Len(s) /\ LastLogTerm(m.src) = TermAt(s, Len(s))
        /\ LastLogIndex(v) = Len(r) /\ LastLogTerm(v) = TermAt(r, Len(r))
    BY <1>1, <1>2, Representation DEF NodeOK
  <2>2. m.lastIndex = LastLogIndex(m.src) /\ m.lastTerm = LastLogTerm(m.src)
    BY <1>1, <1>2 DEF SolicitationOK
  <2> QED BY <2>1, <2>2 DEF Grants, LogUpToDate
<1>5. TermAt(s, Len(s)) \in 0..T - 1
  <2>1. CASE Len(s) \notin 1..Len(s)
    BY <1>1, <2>1 DEF TermAt
  <2>2. CASE Len(s) \in 1..Len(s)
    <3>1. /\ s[Len(s)].term \in Nat /\ s[Len(s)].term <= T /\ Elected(h, s[Len(s)].term)
      BY <1>2, <1>3, <2>2, EntryHasLeader DEF NodeOK
    <3> QED BY <1>1, <2>2, <3>1 DEF TermAt
  <2> QED BY <2>1, <2>2
<1>6. Kept(h, v, t, r, T)
  BY <1>1, <1>2, KeptLater
<1>7. ASSUME NEW i \in 1..h.stored[t][v], h.log[t][i].term = t
      PROVE  HasIn(s, i, t) \/ \E w \in t + 1 .. T - 1 : Lacks(h, w, i, t)
  <2>0. i \in Nat
    BY <1>1, HistoryTypes
  <2>1. CASE HasIn(r, i, t)
    <3>1. HasIn(s, i, t) \/ \E w \in t + 1 .. TermAt(s, Len(s)) : Lacks(h, w, i, t)
      BY <1>1, <1>2, <1>3, <1>4, <2>0, <2>1, UpToDate
    <3> QED BY <1>1, <1>5, <3>1
  <2>2. CASE ~HasIn(r, i, t)
    <3>1. PICK w \in t + 1 .. T : Lacks(h, w, i, t)
      BY <1>6, <1>7, <2>2 DEF Kept
    <3>2. w # T
      BY <3>1 DEF Lacks
    <3> QED BY <1>1, <3>1, <3>2
  <2> QED BY <2>1, <2>2
<1> QED BY <1>7 DEF Kept

(* Handling a vote request of a real election needs no new history: the    *)
(* only thing it adds is the evidence of the vote.                         *)
LEMMA VoteExplained ==
  ASSUME NodeTypeOK, NodeTypeOK', VotesAreBinding, NEW h \in History, Explains(h),
         NEW m \in InFlight("VoteRequest"), ~m.pre, HandleVote(m)
  PROVE  Explains(h)'
<1>0. PICK n, T, given, sent :
        /\ n = m.dst /\ T = m.term
        /\ given = [voter |-> n, term |-> T, candidate |-> m.src]
        /\ sent = {VoteReplyTo(m, Larger(currentTerm[n], m.term), Grants(n, m))}
  OBVIOUS
<1>1. /\ m \in BagToSet(msgs) /\ m \in VoteRequest /\ m.type = "VoteRequest"
      /\ n \in Node /\ m.src \in Node /\ T \in Nat /\ currentTerm[n] \in Nat
  BY <1>0, MessageKinds DEF InFlight, NodeTypeOK
<1>2. /\ \A c \in Node \ {n} :
           currentTerm'[c] = currentTerm[c] /\ votedFor'[c] = votedFor[c] /\ role'[c] = role[c]
      /\ currentTerm'[n] = Larger(currentTerm[n], T)
      /\ role'[n] = IF T > currentTerm[n] THEN Follower ELSE role[n]
      /\ votedFor'[n] = IF Grants(n, m) THEN m.src
                        ELSE IF T > currentTerm[n] THEN NoNode ELSE votedFor[n]
  BY <1>0, <1>1, VoteFields
<1>3. /\ Exchange({m}, sent)
      /\ UNCHANGED <<logVars, commitIndex, lastApplied, leaderVars, clientVars>>
  BY <1>0 DEF HandleVote, electionFrame, applyVars
<1>4. Claims' \subseteq Claims \cup (IF Grants(n, m) THEN {given} ELSE {})
  BY <1>0, <1>1, EvidenceOfVote
<1>5. /\ currentTerm'[n] \in Nat /\ currentTerm'[n] >= currentTerm[n]
      /\ currentTerm'[n] = currentTerm[n] => ~(T > currentTerm[n])
      /\ T > currentTerm[n] => currentTerm'[n] = T
  BY <1>1, <1>2 DEF Larger
<1>6. KeepsTerm(n)
  <2> SUFFICES ASSUME currentTerm'[n] = currentTerm[n]
               PROVE  /\ role[n] = Leader => role'[n] = Leader
                      /\ votedFor[n] # NoNode => votedFor'[n] = votedFor[n]
    BY <1>5 DEF KeepsTerm
  <2> QED BY <1>0, <1>2, <1>5 DEF Grants, MayVote
<1>7. \A p \in Node \ {n} : Untouched(p)
  BY <1>2, <1>3 DEF Untouched, logVars, leaderVars
<1>8. ASSUME Grants(n, m) PROVE ClaimOK(h, given)'
  <2>1. given.voter = n /\ given.term = T /\ given.candidate = m.src /\ T >= currentTerm[n]
    BY <1>0, <1>8 DEF Grants
  <2>2. /\ T >= 1 /\ T <= currentTerm[m.src] /\ currentTerm[m.src] \in Nat
        /\ currentTerm'[m.src] \in Nat /\ currentTerm'[m.src] >= currentTerm[m.src]
    <3>1. SolicitationOK(m) /\ currentTerm[m.src] \in Nat
      BY <1>1 DEF Explains, NodeTypeOK
    <3>2. currentTerm'[m.src] \in Nat /\ currentTerm'[m.src] >= currentTerm[m.src]
      BY <1>1, <1>2, <1>5, <3>1
    <3> QED BY <1>0, <1>1, <3>1, <3>2 DEF SolicitationOK
  <2>3. T \in 1..currentTerm'[m.src]
    BY <1>1, <2>2
  <2>4. ASSUME Elected(h, T), n \in h.quorum[T] PROVE m.src = h.leader[T]
    <3>1. currentTerm[n] >= T /\ (currentTerm[n] = T => votedFor[n] = h.leader[T])
      BY <1>1, <2>4 DEF Explains, ElectionOK
    <3>2. votedFor[n] = h.leader[T] /\ h.leader[T] # NoNode /\ ~(T > currentTerm[n])
      BY <1>1, <2>1, <2>4, <3>1 DEF Elected
    <3> QED BY <1>0, <1>8, <3>2 DEF Grants, MayVote
  <2>5. ASSUME ~Elected(h, T), role'[m.src] = Candidate, currentTerm'[m.src] = T, NEW t \in 0..T - 1
        PROVE  Kept(h, n, t, h.whole[m.src], T - 1)
    <3>1. role[m.src] = Candidate
      BY <1>1, <1>2, <2>5 DEF Follower, Candidate
    <3>2. currentTerm[m.src] = T
      BY <1>1, <2>2, <2>5
    <3> QED BY <1>0, <1>1, <1>8, <2>5, <3>1, <3>2, VoteKeeps
  <2> QED BY <2>1, <2>3, <2>4, <2>5 DEF ClaimOK
<1>9. \A x \in Claims' : x \in Claims \/ ClaimOK(h, x)'
  <2>1. CASE Grants(n, m)
    BY <1>4, <1>8, <2>1
  <2>2. CASE ~Grants(n, m)
    BY <1>4, <2>2
  <2> QED BY <2>1, <2>2
<1>10. \A x \in BagToSet(msgs)' :
         x \in BagToSet(msgs) \/ (SolicitationOK(x)' /\ MessageOK(h, x))
  <2>1. \A x \in sent : Harmless(x)
    BY <1>0 DEF VoteReplyTo, Harmless
  <2> QED BY <1>3, <2>1, SentTrue
<1>11. /\ role'[n] = Candidate => role[n] = Candidate
       /\ role'[n] # Leader \/ (role[n] = Leader /\ currentTerm'[n] = currentTerm[n])
  <2>1. CASE T > currentTerm[n]
    BY <1>2, <2>1 DEF Follower, Candidate, Leader
  <2>2. CASE ~(T > currentTerm[n])
    <3>1. currentTerm'[n] = currentTerm[n]
      BY <1>1, <1>2, <2>2 DEF Larger
    <3> QED BY <1>2, <2>2, <3>1
  <2> QED BY <2>1, <2>2
<1>12. /\ log'[n] = log[n] /\ snapIndex'[n] = snapIndex[n] /\ snapTerm'[n] = snapTerm[n]
       /\ commitIndex'[n] = commitIndex[n] /\ lastApplied'[n] = lastApplied[n]
       /\ nextIndex'[n] = nextIndex[n] /\ matchIndex'[n] = matchIndex[n] /\ UNCHANGED clientVars
  BY <1>3 DEF logVars, leaderVars
<1> QED BY <1>1, <1>6, <1>7, <1>9, <1>10, <1>11, <1>12, LogsUntouched

-----------------------------------------------------------------------------
(* Histories that grow stay histories.                                     *)

(* It is enough that the log of term T is a chain and holds what the voters *)
(* of T had stored: the step of n in term T concerns no voter of a later   *)
(* term, as n has not heard of one.                                        *)
LEMMA HistoryGrows ==
  ASSUME NodeTypeOK, NEW h \in History, NEW g \in History, Explains(h),
         NEW n \in Node, NEW T \in Nat, currentTerm[n] <= T, Grows(h, g, n, T),
         T = 0 => ~Elected(g, T), Chain(g, g.log[T]), NoNil(g.log[T]),
         \A i \in 1..Len(g.log[T]) : g.log[T][i].term <= T,
         g.stored[T][n] <= Len(g.log[T]), ~Elected(g, T) => g.log[T] = <<>>,
         Elected(g, T) =>
           /\ Cardinality(g.quorum[T]) >= Quorum
           /\ \A v \in g.quorum[T], u \in 0..T - 1 : Kept(h, v, u, g.log[T], T - 1)
  PROVE  HistoryOK(g)
<1>1. HistoryOK(h) /\ currentTerm[n] \in Nat
  BY DEF Explains, NodeTypeOK
<1>2. ~Elected(g, 0)
  BY <1>1 DEF HistoryOK, Grows, Elected
<1>3. ASSUME NEW t \in Nat
      PROVE  /\ Chain(g, g.log[t]) /\ NoNil(g.log[t])
             /\ \A i \in 1..Len(g.log[t]) : g.log[t][i].term <= t
             /\ ~Elected(g, t) => g.log[t] = <<>>
  <2>1. CASE t = T
    BY <2>1
  <2>2. CASE t # T
    <3>1. g.log[t] = h.log[t] /\ g.leader[t] = h.leader[t] /\ h.log[t] \in Seq(Entry)
      BY <2>2, HistoryTypes DEF Grows
    <3>2. Chain(g, h.log[t])
      BY <1>1, <3>1, ChainGrows DEF HistoryOK
    <3> QED BY <1>1, <3>1, <3>2 DEF HistoryOK, Elected
  <2> QED BY <2>1, <2>2
<1>4. ASSUME NEW t \in Nat, NEW v \in Node
      PROVE  g.stored[t][v] <= Len(g.log[t])
  <2>1. CASE t = T /\ v = n
    BY <2>1
  <2>2. CASE t # T \/ v # n
    <3>1. g.stored[t][v] = h.stored[t][v] /\ h.stored[t][v] \in Nat
      BY <2>2, HistoryTypes DEF Grows
    <3>2. h.stored[t][v] <= Len(h.log[t]) /\ Len(h.log[t]) <= Len(g.log[t])
      BY <1>1, LogsGrow DEF HistoryOK
    <3>3. Len(h.log[t]) \in Nat /\ Len(g.log[t]) \in Nat
      BY HistoryTypes, EntriesTyped
    <3> QED BY <3>1, <3>2, <3>3
  <2> QED BY <2>1, <2>2
<1>5. ASSUME NEW t \in Nat, Elected(g, t)
      PROVE  Cardinality(g.quorum[t]) >= Quorum
  <2>1. CASE t = T
    BY <1>5, <2>1
  <2>2. CASE t # T
    BY <1>1, <1>5, <2>2 DEF HistoryOK, Grows, Elected
  <2> QED BY <2>1, <2>2
<1>6. ASSUME NEW t \in Nat, Elected(g, t), NEW v \in g.quorum[t], NEW u \in 0..t - 1
      PROVE  Kept(g, v, u, g.log[t], t - 1)
  <2>1. v \in Node /\ u \in Nat /\ u < t /\ t - 1 \in Nat
    BY HistoryTypes
  <2>2. CASE t = T
    <3>1. Kept(h, v, u, g.log[t], t - 1)
      BY <1>6, <2>2
    <3>2. g.stored[u][v] = h.stored[u][v]
      BY <2>1, <2>2 DEF Grows
    <3> QED BY <1>1, <2>1, <3>1, <3>2, KeptGrows
  <2>3. CASE t # T
    <3>1. /\ g.log[t] = h.log[t] /\ g.leader[t] = h.leader[t] /\ g.quorum[t] = h.quorum[t]
          /\ Elected(h, t) /\ v \in h.quorum[t]
      BY <1>6, <2>3 DEF Grows, Elected
    <3>2. Kept(h, v, u, g.log[t], t - 1)
      BY <1>1, <3>1 DEF HistoryOK
    <3>3. currentTerm[v] >= t
      BY <3>1 DEF Explains, ElectionOK
    <3>4. u # T \/ v # n
      BY <1>1, <2>1, <3>3
    <3>5. g.stored[u][v] = h.stored[u][v]
      BY <2>1, <3>4 DEF Grows
    <3> QED BY <1>1, <2>1, <3>2, <3>5, KeptGrows
  <2> QED BY <2>2, <2>3
<1> QED BY <1>2, <1>3, <1>4, <1>5, <1>6 DEF HistoryOK

\* The step of n in term T may give the term the leader l elected by q with the log s,
\* of which n has stored k entries.
MayGrow(h, n, T, l, q, s, k) ==
  /\ l \in Node \cup {NoNode} /\ q \in SUBSET Node
  /\ Elected(h, T) =>
       /\ l = h.leader[T] /\ q = h.quorum[T]
       /\ \A i \in Len(h.log[T]) + 1 .. Len(s) : s[i].term = T
  /\ Agree(s, h.log[T], Len(h.log[T]))
  /\ s # h.log[T] => h.leader[T] \in {n, NoNode}
  /\ h.stored[T][n] <= k

(* Any such growth exists.                                                 *)
LEMMA HistoryExtended ==
  ASSUME NEW h \in History, NEW n \in Node, NEW T \in Nat,
         NEW l, NEW q, NEW s \in Seq(Entry), NEW k \in Nat, NEW w \in Seq(Entry),
         MayGrow(h, n, T, l, q, s, k)
  PROVE  \E g \in History :
           /\ Grows(h, g, n, T)
           /\ g.leader[T] = l /\ g.quorum[T] = q /\ g.log[T] = s
           /\ g.stored[T][n] = k /\ g.whole[n] = w
<1>1. PICK g : g = [leader |-> [h.leader EXCEPT ![T] = l], quorum |-> [h.quorum EXCEPT ![T] = q],
                    log |-> [h.log EXCEPT ![T] = s],
                    stored |-> [h.stored EXCEPT ![T] = [h.stored[T] EXCEPT ![n] = k]],
                    whole |-> [h.whole EXCEPT ![n] = w]]
  OBVIOUS
<1>2. /\ l \in Node \cup {NoNode} /\ q \in SUBSET Node
      /\ h.leader \in [Nat -> Node \cup {NoNode}] /\ h.quorum \in [Nat -> SUBSET Node]
      /\ h.log \in [Nat -> Seq(Entry)] /\ h.stored \in [Nat -> [Node -> Nat]]
      /\ h.whole \in [Node -> Seq(Entry)] /\ h.stored[T] \in [Node -> Nat]
  BY DEF History, MayGrow
<1>3. g \in History
  <2>1. [h.stored[T] EXCEPT ![n] = k] \in [Node -> Nat]
    BY <1>2
  <2>2. /\ g.leader \in [Nat -> Node \cup {NoNode}] /\ g.quorum \in [Nat -> SUBSET Node]
        /\ g.log \in [Nat -> Seq(Entry)] /\ g.whole \in [Node -> Seq(Entry)]
    BY <1>1, <1>2
  <2>3. g.stored \in [Nat -> [Node -> Nat]]
    BY <1>1, <1>2, <2>1
  <2> QED BY <1>1, <2>2, <2>3 DEF History
<1>4. /\ g.leader[T] = l /\ g.quorum[T] = q /\ g.log[T] = s /\ g.stored[T][n] = k /\ g.whole[n] = w
      /\ \A t \in Nat \ {T} : /\ g.leader[t] = h.leader[t] /\ g.quorum[t] = h.quorum[t]
                              /\ g.log[t] = h.log[t] /\ g.stored[t] = h.stored[t]
      /\ \A v \in Node \ {n} : g.stored[T][v] = h.stored[T][v] /\ g.whole[v] = h.whole[v]
  BY <1>1, <1>2
<1>5. Grows(h, g, n, T)
  BY <1>4 DEF Grows, MayGrow
<1> QED BY <1>3, <1>4, <1>5

\* The step leads to a state that a history explains which continues h.
Continues(h) ==
  \E g \in History : (\E n \in Node, T \in Nat : Grows(h, g, n, T)) /\ Explains(g)'

(* A step that needs no new history.                                       *)
LEMMA ContinuesAsBefore ==
  ASSUME NEW h \in History, NEW n \in Node, Explains(h)'
  PROVE  Continues(h)
<1>1. Grows(h, h, n, 0)
  BY GrowsItself
<1> QED BY <1>1 DEF Continues

-----------------------------------------------------------------------------
(* Winning an election.                                                    *)

(* A candidate with a quorum V of votes becomes leader of a term that has  *)
(* none: its log becomes the term's log.                                   *)
LEMMA WinExplained ==
  ASSUME NodeTypeOK, NodeTypeOK', VotesAreBinding, NEW h \in History, Explains(h),
         NEW n \in Node, NEW T \in Nat, T >= 1, currentTerm[n] <= T, ~Elected(h, T),
         currentTerm'[n] = T, role'[n] = Leader, KeepsTerm(n),
         nextIndex'[n] = FreshNext(n), matchIndex'[n] = [p \in Node |-> 0],
         \A p \in Node \ {n} : Untouched(p),
         UNCHANGED <<logVars, commitIndex, lastApplied, clientVars>>,
         NEW V \in SUBSET Node, Cardinality(V) >= Quorum,
         \A v \in V : currentTerm'[v] >= T /\ (currentTerm'[v] = T => votedFor'[v] = n),
         \A v \in V, t \in 0..T - 1 : Kept(h, v, t, h.whole[n], T - 1),
         \A x \in Claims : x.term = T /\ x.voter \in V => x.candidate = n,
         \A x \in Claims' : x \in Claims \/ (x.term = T /\ x.candidate = n),
         NEW read, NEW sent, Exchange(read, sent),
         \/ sent = {}
         \/ /\ currentTerm[n] = T
            /\ \E reached \in SUBSET Peers(n) :
                 sent = BroadcastRpcs(n, reached, log[n], commitIndex[n], FreshNext(n))
  PROVE  Continues(h)
<1>0. PICK s : s = h.whole[n]
  OBVIOUS
<1>1. /\ HistoryOK(h) /\ NodeOK(h, n) /\ CommitOK(h, n) /\ currentTerm[n] \in Nat
      /\ log[n] \in Seq(Entry) /\ commitIndex[n] \in Nat /\ snapIndex[n] \in Nat
      /\ lastApplied[n] \in Nat
  BY DEF Explains, NodeTypeOK
<1>2. /\ s \in Seq(Entry) /\ Len(s) \in Nat /\ Chain(h, s)
      /\ \A i \in 1..Len(s) : s[i].term <= T
  <2>1. s \in Seq(Entry) /\ Len(s) \in Nat /\ \A i \in 1..Len(s) : s[i].term \in Nat
    BY <1>0, HistoryTypes, EntriesTyped
  <2>2. Chain(h, s) /\ \A i \in 1..Len(s) : s[i].term <= currentTerm[n]
    BY <1>0, <1>1 DEF NodeOK
  <2> QED BY <1>1, <2>1, <2>2
<1>3. h.log[T] = <<>> /\ Len(h.log[T]) = 0 /\ h.stored[T][n] = 0
  <2>1. h.log[T] = <<>> /\ h.stored[T][n] <= Len(h.log[T])
    BY <1>1 DEF HistoryOK
  <2>2. Len(h.log[T]) = 0
    BY <2>1, EmptySeq
  <2> QED BY <2>1, <2>2, HistoryTypes
<1>4. PICK g \in History : /\ Grows(h, g, n, T)
                           /\ g.leader[T] = n /\ g.quorum[T] = V /\ g.log[T] = s
                           /\ g.stored[T][n] = Len(s) /\ g.whole[n] = s
  <2>1. Agree(s, h.log[T], Len(h.log[T])) /\ h.stored[T][n] <= Len(s)
    BY <1>2, <1>3 DEF Agree
  <2>2. h.leader[T] = NoNode
    BY DEF Elected
  <2>3. MayGrow(h, n, T, n, V, s, Len(s))
    BY <2>1, <2>2 DEF MayGrow
  <2> QED BY <1>2, <2>3, HistoryExtended
<1>5. Elected(g, T)
  BY <1>4, NodeAssumption DEF Elected
<1>6. Chain(g, s)
  BY <1>2, <1>4, ChainGrows
<1>7. HistoryOK(g)
  <2>1. \A v \in g.quorum[T], u \in 0..T - 1 : Kept(h, v, u, g.log[T], T - 1)
    BY <1>0, <1>4
  <2>2. Cardinality(g.quorum[T]) >= Quorum
    BY <1>4
  <2>3. g.stored[T][n] <= Len(g.log[T])
    BY <1>2, <1>4
  <2>4. T # 0
    OBVIOUS
  <2>5. NoNil(g.log[T])
    BY <1>1, <1>2, <1>4, ChainNoNil
  <2> QED BY <1>2, <1>4, <1>5, <1>6, <2>1, <2>2, <2>3, <2>4, <2>5, HistoryGrows
<1>8. /\ snapIndex[n] + Len(log[n]) = Len(s)
      /\ \A i \in 1..Len(log[n]) : log[n][i] = s[snapIndex[n] + i]
      /\ snapTerm[n] = TermAt(s, snapIndex[n])
  BY <1>0, <1>1 DEF NodeOK, Represents, LastLogIndex
<1>9. NodeOK(g, n)'
  <2>1. Represents(g, n)'
    BY <1>4, <1>8 DEF Represents, LastLogIndex, logVars
  <2>2. ASSUME NEW t \in Nat, t > T PROVE g.stored[t][n] = 0
    BY <1>1, <1>4, <2>2 DEF NodeOK, Grows
  <2>3. Agree(s, s, Len(s))
    BY <1>2 DEF Agree
  <2>4. ASSUME NEW t \in 0..T - 1 PROVE Kept(g, n, t, s, T)
    <3>1. Kept(h, n, t, s, T)
      BY <1>0, <1>1, KeptLater
    <3>2. t \in Nat /\ g.stored[t][n] = h.stored[t][n]
      BY <1>4 DEF Grows
    <3> QED BY <1>1, <1>4, <3>1, <3>2, KeptGrows
  <2> QED BY <1>2, <1>4, <1>6, <2>1, <2>2, <2>3, <2>4 DEF NodeOK
<1>10. \A p \in Node : FreshNext(n)[p] = Len(s) + 1
  BY <1>0, <1>1 DEF FreshNext, NodeOK, Represents
<1>11. LeaderOK(g, n)'
  <2>1. \A p \in Node : nextIndex'[n][p] <= Len(s) + 1
    BY <1>2, <1>10
  <2>2. \A p \in Node : matchIndex'[n][p] <= g.stored[T][p]
    BY <1>4, HistoryTypes
  <2> QED BY <1>4, <2>1, <2>2 DEF LeaderOK
<1>12. Safe(g, T, s, commitIndex[n])
  <2>1. Safe(h, T, s, commitIndex[n])
    BY <1>0, <1>1, SafeLater DEF CommitOK
  <2> QED BY <1>1, <1>4, <2>1, SafeGrows
<1>13. CommitOK(g, n)'
  <2>1. /\ commitIndex'[n] = commitIndex[n] /\ snapIndex'[n] = snapIndex[n]
        /\ lastApplied'[n] = lastApplied[n]
    BY DEF logVars
  <2> QED BY <1>1, <1>4, <1>12, <2>1 DEF CommitOK
<1>14. ElectionOK(g, T)'
  BY <1>1, <1>4 DEF ElectionOK
<1>15. \A x \in Claims' : x \in Claims \/ ClaimOK(g, x)'
  <2> SUFFICES ASSUME NEW x \in Claims', x.term = T, x.candidate = n PROVE ClaimOK(g, x)'
    OBVIOUS
  <2>1. x.term \in 1..currentTerm'[x.candidate]
    OBVIOUS
  <2> QED BY <1>4, <1>5, <2>1 DEF ClaimOK
<1>16. \A m \in BagToSet(msgs)' :
         m \in BagToSet(msgs) \/ (SolicitationOK(m)' /\ MessageOK(g, m))
  <2>1. \A m \in sent : SolicitationOK(m)' /\ MessageOK(g, m)
    <3>1. CASE sent = {}
      BY <3>1
    <3>2. CASE sent # {}
      <4>1. PICK reached \in SUBSET Peers(n) :
              sent = BroadcastRpcs(n, reached, log[n], commitIndex[n], FreshNext(n))
        BY <3>2
      <4>2. FreshNext(n) \in [Node -> Nat]
        BY <1>2, <1>10 DEF FreshNext
      <4>3. /\ s = g.log[currentTerm[n]] /\ g.leader[currentTerm[n]] = n
            /\ Safe(g, currentTerm[n], s, commitIndex[n])
        BY <1>4, <1>12, <3>2
      <4>4. snapIndex[n] <= commitIndex[n] /\ \A p \in Node : FreshNext(n)[p] <= Len(s) + 1
        BY <1>1, <1>2, <1>10 DEF CommitOK
      <4> QED BY <1>1, <1>8, <4>1, <4>2, <4>3, <4>4, BroadcastTrue
    <3> QED BY <3>1, <3>2
  <2> QED BY <2>1, SentTrue
<1>17. KeepsCampaign(n) /\ role'[n] # Candidate
  BY DEF KeepsCampaign, Leader, Candidate
<1>18. \A x \in Claims : x.term = T /\ x.voter \in g.quorum[T] => x.candidate = g.leader[T]
  BY <1>4
<1>19. Explains(g)'
  BY <1>4, <1>7, <1>9, <1>11, <1>13, <1>14, <1>15, <1>16, <1>17, <1>18, Explained DEF clientVars
<1> QED BY <1>4, <1>19 DEF Continues

(* The only node of a cluster wins its election with its own vote.         *)
LEMMA SoleWinExplained ==
  ASSUME NodeTypeOK, NodeTypeOK', VotesAreBinding, NEW h \in History, Explains(h),
         NEW n \in Node, NEW read, NEW reached, StartElection(n, read, reached),
         Quorum <= 1, UNCHANGED electionFrame
  PROVE  Continues(h)
<1>0. PICK T, own : T = currentTerm[n] + 1 /\ own = [voter |-> n, term |-> T, candidate |-> n]
  OBVIOUS
<1>1. /\ T \in Nat /\ T >= 1 /\ currentTerm[n] <= T
      /\ Elected(h, T) => n \notin h.quorum[T]
      /\ \A t \in 0..T - 1 : Kept(h, n, t, h.whole[n], T - 1)
  BY <1>0, NewTerm
<1>2. /\ \A c \in Node :
           /\ currentTerm[c] \in Nat
           /\ currentTerm'[c] = IF c = n THEN T ELSE currentTerm[c]
           /\ votedFor'[c] = IF c = n THEN n ELSE votedFor[c]
      /\ \A c \in Node \ {n} : role'[c] = role[c]
  BY <1>0, CampaignFields
<1>3. Claims' \subseteq Claims \cup {own}
  BY <1>0, EvidenceOfCampaign
<1>4. /\ role'[n] = Leader /\ Exchange(read, {})
      /\ nextIndex'[n] = FreshNext(n) /\ matchIndex'[n] = [p \in Node |-> 0]
      /\ \A p \in Node \ {n} : nextIndex'[p] = nextIndex[p] /\ matchIndex'[p] = matchIndex[p]
  <2>1. /\ role' = [role EXCEPT ![n] = Leader] /\ Exchange(read, {}) /\ ResetProgress(n)
    BY DEF StartElection
  <2>2. /\ role \in [Node -> {Follower, Candidate, Leader}]
        /\ nextIndex \in [Node -> [Node -> Nat]] /\ matchIndex \in [Node -> [Node -> Nat]]
    BY DEF NodeTypeOK
  <2> QED BY <2>1, <2>2 DEF ResetProgress
<1>5. UNCHANGED <<logVars, commitIndex, lastApplied, clientVars>>
  BY DEF electionFrame, applyVars
<1>6. \A p \in Node \ {n} : Untouched(p)
  BY <1>2, <1>4, <1>5 DEF Untouched, logVars
<1>7. Cardinality({n}) = 1 /\ {n} \in SUBSET Node /\ Cardinality({n}) >= Quorum
  BY FS_Singleton, NodeAssumption, FS_CardinalityType DEF Quorum
<1>8. ~Elected(h, T)
  <2> SUFFICES ASSUME Elected(h, T) PROVE FALSE
    OBVIOUS
  <2>1. h.quorum[T] \in SUBSET Node /\ Cardinality(h.quorum[T]) >= Quorum
    BY <1>1, HistoryTypes DEF Explains, HistoryOK
  <2>2. \E v \in Node : v \in h.quorum[T] /\ v \in {n}
    BY <1>7, <2>1, QuorumsMeet
  <2> QED BY <1>1, <2>2
<1>9. \A x \in Claims : x.term = T /\ x.voter \in {n} => x.candidate = n
  <2> SUFFICES ASSUME NEW x \in Claims, x.term = T, x.voter = n PROVE FALSE
    OBVIOUS
  <2>1. x.term <= currentTerm[n]
    BY DEF VotesAreBinding
  <2> QED BY <1>0, <1>2, <2>1
<1>10. /\ currentTerm'[n] = T /\ currentTerm'[n] > currentTerm[n] /\ KeepsTerm(n)
       /\ votedFor'[n] = n
  <2>1. currentTerm'[n] = T /\ currentTerm'[n] > currentTerm[n] /\ votedFor'[n] = n
    BY <1>0, <1>1, <1>2
  <2>2. currentTerm'[n] \in Nat /\ currentTerm[n] \in Nat
    BY <1>1, <1>2, <2>1
  <2> QED BY <2>1, <2>2 DEF KeepsTerm
<1>11. /\ \A v \in {n} : currentTerm'[v] >= T /\ (currentTerm'[v] = T => votedFor'[v] = n)
       /\ \A v \in {n}, t \in 0..T - 1 : Kept(h, v, t, h.whole[n], T - 1)
  BY <1>1, <1>10
<1>12. \A x \in Claims' : x \in Claims \/ (x.term = T /\ x.candidate = n)
  BY <1>0, <1>3
<1> QED BY <1>1, <1>4, <1>5, <1>6, <1>7, <1>8, <1>9, <1>10, <1>11, <1>12, WinExplained

(* Counting a vote: with a quorum the candidate becomes leader, for whom   *)
(* all that was asked of the evidence of its votes holds.                  *)
LEMMA CountExplained ==
  ASSUME NodeTypeOK, NodeTypeOK', VotesAreBinding, NEW h \in History, Explains(h),
         NEW m \in InFlight("VoteReply"), ~m.pre, StillCampaigning(m.dst, m),
         NEW counted, counted = votes[m.dst] \cup {m.src},
         votes' = [votes EXCEPT ![m.dst] = counted],
         IF Cardinality(counted) >= Quorum
         THEN BecomeLeader(m.dst, m)
         ELSE Exchange({m}, {}) /\ UNCHANGED <<electionVars, leaderVars>>,
         UNCHANGED electionFrame
  PROVE  Continues(h)
<1>0. PICK n, T : n = m.dst /\ T = currentTerm[n]
  OBVIOUS
<1>1. /\ m \in BagToSet(msgs) /\ m \in VoteReply /\ m.type = "VoteReply" /\ n \in Node
      /\ m.src \in Node /\ m.granted /\ m.election = T /\ T \in Nat /\ votes[n] \in SUBSET Node
  BY <1>0, MessageKinds DEF InFlight, NodeTypeOK, StillCampaigning
<1>2. /\ currentTerm' = currentTerm /\ votedFor' = votedFor
      /\ \A c \in Node \ {n} : role'[c] = role[c]
      /\ role'[n] = Leader => Cardinality(counted) >= Quorum
      /\ role[n] = Candidate /\ Claims' \subseteq Claims
  BY <1>0, <1>1, EvidenceOfCount
<1>3. UNCHANGED <<logVars, commitIndex, lastApplied, clientVars>>
  BY DEF electionFrame, applyVars
<1>4. KeepsTerm(n)
  BY <1>0, <1>1, <1>2 DEF KeepsTerm, Candidate, Leader
<1>5. CASE ~(Cardinality(counted) >= Quorum)
  <2>1. Exchange({m}, {}) /\ UNCHANGED <<electionVars, leaderVars>>
    BY <1>5
  <2>2. \A p \in Node \ {n} : Untouched(p)
    BY <1>2, <1>3, <2>1 DEF Untouched, logVars, leaderVars
  <2>3. \A x \in BagToSet(msgs)' :
          x \in BagToSet(msgs) \/ (SolicitationOK(x)' /\ MessageOK(h, x))
    BY <2>1, SentTrue
  <2>4. role'[n] = Candidate /\ role'[n] # Leader
    BY <1>2, <2>1 DEF electionVars, Candidate, Leader
  <2>5. /\ log'[n] = log[n] /\ snapIndex'[n] = snapIndex[n] /\ snapTerm'[n] = snapTerm[n]
        /\ commitIndex'[n] = commitIndex[n] /\ lastApplied'[n] = lastApplied[n]
        /\ UNCHANGED clientVars
    BY <1>3 DEF logVars
  <2>6. Explains(h)'
    BY <1>1, <1>2, <1>4, <2>2, <2>3, <2>4, <2>5, LogsUntouched
  <2> QED BY <1>1, <2>6, ContinuesAsBefore
<1>6. CASE Cardinality(counted) >= Quorum
  <2>1. BecomeLeader(n, m)
    BY <1>0, <1>6
  <2>2. ASSUME NEW v \in counted PROVE [voter |-> v, term |-> T, candidate |-> n] \in Claims
    <3>1. CASE v \in votes[n]
      BY <1>0, <1>1, <1>2, <3>1 DEF Claims, Counted, Candidate, Follower
    <3>2. CASE v = m.src
      BY <1>0, <1>1, <3>2 DEF Claims, Granted, InFlight
    <3> QED BY <1>0, <3>1, <3>2
  <2>3. ASSUME NEW v \in counted
        PROVE  /\ T >= 1 /\ currentTerm[v] >= T /\ (currentTerm[v] = T => votedFor[v] = n)
               /\ Elected(h, T) /\ v \in h.quorum[T] => n = h.leader[T]
               /\ ~Elected(h, T) => \A t \in 0..T - 1 : Kept(h, v, t, h.whole[n], T - 1)
    <3>1. PICK x \in Claims : x.voter = v /\ x.term = T /\ x.candidate = n
      BY <2>2
    <3>2. ClaimOK(h, x)
      BY DEF Explains
    <3>3. /\ T >= 1
          /\ Elected(h, T) /\ v \in h.quorum[T] => n = h.leader[T]
          /\ ~Elected(h, T) => \A t \in 0..T - 1 : Kept(h, v, t, h.whole[n], T - 1)
      BY <1>0, <1>1, <1>2, <3>1, <3>2 DEF ClaimOK
    <3>4. T <= currentTerm[v] /\ (T = currentTerm[v] => votedFor[v] = n)
      BY <3>1 DEF VotesAreBinding
    <3>5. currentTerm[v] \in Nat
      BY <1>0, <1>1 DEF NodeTypeOK
    <3> QED BY <1>1, <3>3, <3>4, <3>5
  <2>4. counted \in SUBSET Node /\ m.src \in counted
    BY <1>0, <1>1
  <2>5. ~Elected(h, T)
    <3> SUFFICES ASSUME Elected(h, T) PROVE FALSE
      OBVIOUS
    <3>1. h.quorum[T] \in SUBSET Node /\ Cardinality(h.quorum[T]) >= Quorum
      BY <1>1, HistoryTypes DEF Explains, HistoryOK
    <3>2. PICK v \in Node : v \in h.quorum[T] /\ v \in counted
      BY <1>6, <2>4, <3>1, QuorumsMeet
    <3>3. h.leader[T] = n
      BY <2>3, <3>2
    <3> QED BY <1>0, <1>1, <1>2, <3>3 DEF Explains, ElectionOK, Candidate, Leader
  <2>6. /\ role'[n] = Leader /\ nextIndex'[n] = FreshNext(n)
        /\ matchIndex'[n] = [p \in Node |-> 0]
        /\ \A p \in Node \ {n} : nextIndex'[p] = nextIndex[p] /\ matchIndex'[p] = matchIndex[p]
    <3>1. role' = [role EXCEPT ![n] = Leader] /\ ResetProgress(n)
      BY <2>1 DEF BecomeLeader
    <3>2. /\ role \in [Node -> {Follower, Candidate, Leader}]
          /\ nextIndex \in [Node -> [Node -> Nat]] /\ matchIndex \in [Node -> [Node -> Nat]]
      BY DEF NodeTypeOK
    <3> QED BY <1>1, <3>1, <3>2 DEF ResetProgress
  <2>7. \A p \in Node \ {n} : Untouched(p)
    BY <1>2, <1>3, <2>6 DEF Untouched, logVars
  <2>8. PICK reached \in SUBSET Peers(n) :
          Exchange({m}, BroadcastRpcs(n, reached, log[n], commitIndex[n], FreshNext(n)))
    BY <2>1 DEF BecomeLeader
  <2>9. \A x \in Claims : x.term = T /\ x.voter \in counted => x.candidate = n
    <3> SUFFICES ASSUME NEW x \in Claims, x.term = T, x.voter \in counted PROVE x.candidate = n
      OBVIOUS
    <3>1. PICK y \in Claims : y.voter = x.voter /\ y.term = T /\ y.candidate = n
      BY <2>2
    <3> QED BY <3>1 DEF VotesAreBinding
  <2>10. /\ \A v \in counted : currentTerm'[v] >= T /\ (currentTerm'[v] = T => votedFor'[v] = n)
         /\ \A v \in counted, t \in 0..T - 1 : Kept(h, v, t, h.whole[n], T - 1)
         /\ T >= 1 /\ currentTerm[n] = T /\ currentTerm[n] <= T /\ currentTerm'[n] = T
    BY <1>0, <1>1, <1>2, <2>3, <2>4, <2>5
  <2> QED BY <1>1, <1>2, <1>3, <1>4, <1>6, <2>4, <2>5, <2>6, <2>7, <2>8, <2>9, <2>10, WinExplained
<1> QED BY <1>5, <1>6

(* Every step of an election continues the history.                        *)
LEMMA ElectionContinues ==
  ASSUME NodeTypeOK, NodeTypeOK', VotesAreBinding, NEW h \in History, Explains(h), ElectionNext
  PROVE  Continues(h)
<1>1. ASSUME NEW n \in Node, NEW reached, StartElection(n, {}, reached), UNCHANGED electionFrame
      PROVE  Continues(h)
  <2>1. Quorum \in Nat
    BY NodeAssumption, FS_CardinalityType DEF Quorum
  <2>2. CASE Quorum <= 1
    BY <1>1, <2>2, SoleWinExplained
  <2>3. CASE Quorum > 1
    BY <1>1, <2>3, CampaignExplained, ContinuesAsBefore
  <2> QED BY <2>1, <2>2, <2>3
<1>2. ASSUME NEW n \in Node, ElectionTimeout(n) \/ PreVoteEnds(n) PROVE Continues(h)
  BY <1>2, PollingExplained, ContinuesAsBefore
<1>3. ASSUME NEW n \in Node, ElectionTimeoutUnopposed(n) \/ PreVoteWon(n) PROVE Continues(h)
  <2>1. /\ UNCHANGED electionFrame
        /\ \E reached \in SUBSET Peers(n) : StartElection(n, {}, reached)
    BY <1>3 DEF ElectionTimeoutUnopposed, PreVoteWon
  <2> QED BY <1>1, <2>1
<1>4. ASSUME NEW m \in InFlight("VoteRequest"), HandleRequestVote(m) PROVE Continues(h)
  <2>1. m.dst \in Node
    BY MessageKinds DEF InFlight, NodeTypeOK
  <2>2. CASE m.pre /\ HandlePreVote(m)
    BY <2>1, <2>2, PollingExplained, ContinuesAsBefore
  <2>3. CASE ~m.pre /\ HandleVote(m)
    BY <2>1, <2>3, VoteExplained, ContinuesAsBefore
  <2> QED BY <1>4, <2>2, <2>3 DEF HandleRequestVote
<1>5. ASSUME NEW m \in InFlight("VoteReply"), HandleVoteReply(m) PROVE Continues(h)
  <2>1. m.dst \in Node /\ m.src \in Node /\ m.term \in Nat
    BY MessageKinds DEF InFlight, NodeTypeOK
  <2>2. CASE m.pre /\ ReceivePreVote(m)
    BY <2>1, <2>2, PollingExplained, ContinuesAsBefore
  <2>3. CASE ~m.pre /\ ReceiveVote(m)
    <3>1. UNCHANGED electionFrame
      BY <2>3 DEF ReceiveVote
    <3>2. CASE /\ (m.term > currentTerm[m.dst] /\ StepDown(m.dst, m.term)) \/ UNCHANGED electionVars
               /\ Exchange({m}, {}) /\ UNCHANGED <<votes, leaderVars>>
      <4>1. NoGrant({})
        BY DEF NoGrant
      <4>2. UNCHANGED <<logVars, commitIndex, lastApplied, leaderVars, votes, clientVars>>
        BY <3>1, <3>2 DEF electionFrame, applyVars
      <4>3. Explains(h)'
        BY <2>1, <3>2, <4>1, <4>2, FollowingExplained
      <4> QED BY <2>1, <4>3, ContinuesAsBefore
    <3>3. PICK counted : counted = votes[m.dst] \cup {m.src}
      OBVIOUS
    <3>4. CASE /\ StillCampaigning(m.dst, m) /\ votes' = [votes EXCEPT ![m.dst] = counted]
               /\ IF Cardinality(counted) >= Quorum
                  THEN BecomeLeader(m.dst, m)
                  ELSE Exchange({m}, {}) /\ UNCHANGED <<electionVars, leaderVars>>
      BY <2>3, <3>1, <3>3, <3>4, CountExplained
    <3> QED BY <2>3, <3>2, <3>3, <3>4 DEF ReceiveVote
  <2> QED BY <1>5, <2>2, <2>3 DEF HandleVoteReply
<1> QED BY <1>2, <1>3, <1>4, <1>5 DEF ElectionNext
=============================================================================
