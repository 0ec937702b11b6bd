-------------------------- MODULE RaftReplication --------------------------
(***************************************************************************)
(* Log replication: Propose, broadcastAppendEntries and its reply          *)
(* goroutines, checkAndUpdateCommitIndex, HandleAppendEntries,             *)
(* HandleInstallSnapshot, TakeSnapshot and runApplierLoop with the         *)
(* OnCommit listener of src/cmd/node/main.go, which appends to the WAL.    *)
(***************************************************************************)
EXTENDS RaftNode, FiniteSetsExt, Selection

replicationFrame == <<ballotVars, clientVars>>

\* The non-blocking send on commitNotifyCh: nothing when the channel is full.
Wake(n) == notify' = [notify EXCEPT ![n] = Smaller(@ + 1, NotifyCap)]

-----------------------------------------------------------------------------
(* The leader's side.                                                      *)

\* runLeaderHeartbeat's tick.
Heartbeat(n) ==
  /\ role[n] = Leader
  /\ \E reached \in SUBSET Peers(n) \ {{}} :
       Exchange({}, BroadcastRpcs(n, reached, log[n], commitIndex[n], nextIndex[n]))
  /\ UNCHANGED <<electionVars, logVars, applyVars, leaderVars, replicationFrame>>

\* Propose up to the release of rn.mu: append, broadcast, start to wait.
Propose(n, data) ==
  /\ role[n] = Leader
  /\ LastLogIndex(n) < MaxIndex
  /\ LET lg == Append(log[n], [term |-> currentTerm[n], data |-> data]) IN
     /\ log' = [log EXCEPT ![n] = lg]
     /\ \E reached \in SUBSET Peers(n) :
          Exchange({}, BroadcastRpcs(n, reached, lg, commitIndex[n], nextIndex[n]))
  /\ proposals' = proposals \cup
       {[node |-> n, index |-> LastLogIndex(n) + 1, term |-> currentTerm[n], data |-> data]}
  /\ UNCHANGED <<electionVars, ballotVars, snapIndex, snapTerm, applyVars, leaderVars, acked>>

\* Mutant: the caller waits for the index alone, also when its term is over.
IndexCommitted(p) == commitIndex[p.node] >= p.index

\* The poll of a waiting Propose call that lets it return its index.
ProposalCommitted(p) ==
  /\ role[p.node] = Leader /\ currentTerm[p.node] = p.term
  /\ commitIndex[p.node] >= p.index

ProposeReturns(p) ==
  /\ p \in proposals /\ ProposalCommitted(p)
  /\ proposals' = proposals \ {p}
  /\ acked' = acked \cup {p}
  /\ UNCHANGED <<electionVars, ballotVars, logVars, applyVars, leaderVars, msgs>>

\* A waiting Propose call returns an error: after 2 s, whether or not the entry is
\* committed since, because the leadership is lost or because the node stops.  The
\* entry stays in the log, and may be committed after its caller was told it failed.
ProposeFails(p) ==
  /\ p \in proposals
  /\ proposals' = proposals \ {p}
  /\ UNCHANGED <<electionVars, ballotVars, logVars, applyVars, leaderVars, msgs, acked>>

\* Mutant: entries of earlier terms are committed by counting replicas.
CommittableAnyTerm(n, match) ==
  {i \in commitIndex[n] + 1 .. LastLogIndex(n) :
     1 + Cardinality({p \in Peers(n) : match[p] >= i}) >= Quorum}

\* Mutant: the leader does not count itself.
CommittableByOthers(n, match) ==
  {i \in commitIndex[n] + 1 .. LastLogIndex(n) :
     /\ LogTerm(n, i) = currentTerm[n]
     /\ Cardinality({p \in Peers(n) : match[p] >= i}) >= Quorum}

\* The indexes checkAndUpdateCommitIndex may commit: of the current term, and
\* stored by a quorum.
Committable(n, match) ==
  {i \in commitIndex[n] + 1 .. LastLogIndex(n) :
     /\ LogTerm(n, i) = currentTerm[n]
     /\ 1 + Cardinality({p \in Peers(n) : match[p] >= i}) >= Quorum}

\* checkAndUpdateCommitIndex after the reply m: the highest such index is
\* committed, the applier woken, and the followers told at once.
AdvanceCommit(n, m, next, match) ==
  IF Committable(n, match) = {}
  THEN Exchange({m}, {}) /\ UNCHANGED applyVars
  ELSE LET index == Max(Committable(n, match)) IN
       /\ commitIndex' = [commitIndex EXCEPT ![n] = index]
       /\ Wake(n)
       /\ \E reached \in SUBSET Peers(n) :
            Exchange({m}, BroadcastRpcs(n, reached, log[n], index, next))
       /\ UNCHANGED <<lastApplied, wal>>

\* rn.role = Leader and rn.currentTerm = term, the check before a reply counts.
OfThisTerm(n, m) == role[n] = Leader /\ currentTerm[n] = m.sent

\* A reply of an RPC that is not worth more than its term.
ReplyIgnored(m) ==
  /\ \/ m.term > currentTerm[m.dst] /\ StepDown(m.dst, m.term)
     \/ m.term <= currentTerm[m.dst] /\ ~OfThisTerm(m.dst, m) /\ UNCHANGED electionVars
  /\ Exchange({m}, {})
  /\ UNCHANGED <<logVars, applyVars, leaderVars, replicationFrame>>

\* Mutant: the MatchIndex of the reply is taken for the index to send next.
AcknowledgedNext(n, m) == m.match + 1

\* Mutant: the follower is taken to hold the log as it is when the reply arrives.
AcknowledgedEnd(n, m) == LastLogIndex(n)

\* What a successful reply says the follower holds.
Acknowledged(n, m) == m.match

AppendSucceeded(m) ==
  LET n == m.dst
      next == [nextIndex[n] EXCEPT ![m.src] = Acknowledged(n, m) + 1]
      match == [matchIndex[n] EXCEPT ![m.src] = Acknowledged(n, m)]
  IN
  /\ m.term <= currentTerm[n] /\ OfThisTerm(n, m) /\ m.success
  /\ nextIndex' = [nextIndex EXCEPT ![n] = next]
  /\ matchIndex' = [matchIndex EXCEPT ![n] = match]
  /\ AdvanceCommit(n, m, next, match)
  /\ UNCHANGED <<electionVars, logVars, replicationFrame>>

\* Mutant: the search for a common entry ends at the first entry of the log.
StopAtFirstEntry(n, next) == IF next > snapIndex[n] + 1 THEN next - 1 ELSE next

\* Where the leader tries next when a follower has refused: one entry earlier, and
\* below its first entry the snapshot.
NextAfterRefusal(n, next) == IF next > snapIndex[n] + 1 THEN next - 1 ELSE snapIndex[n]

AppendRefused(m) ==
  LET n == m.dst IN
  /\ m.term <= currentTerm[n] /\ OfThisTerm(n, m) /\ ~m.success
  /\ nextIndex' = [nextIndex EXCEPT ![n][m.src] = NextAfterRefusal(n, @)]
  /\ Exchange({m}, {})
  /\ UNCHANGED <<electionVars, logVars, applyVars, matchIndex, replicationFrame>>

SnapshotInstalled(m) ==
  LET n == m.dst IN
  /\ m.term <= currentTerm[n] /\ OfThisTerm(n, m)
  /\ IF m.index >= nextIndex[n][m.src]
     THEN /\ nextIndex' = [nextIndex EXCEPT ![n][m.src] = m.index + 1]
          /\ matchIndex' = [matchIndex EXCEPT ![n][m.src] = m.index]
     ELSE UNCHANGED leaderVars
  /\ Exchange({m}, {})
  /\ UNCHANGED <<electionVars, logVars, applyVars, replicationFrame>>

HandleAppendReply(m) == ReplyIgnored(m) \/ AppendSucceeded(m) \/ AppendRefused(m)
HandleSnapshotReply(m) == ReplyIgnored(m) \/ SnapshotInstalled(m)

-----------------------------------------------------------------------------
(* The follower's side.                                                    *)

\* The log after the loop over args.Entries: it keeps every entry whose term agrees
\* and from the first that differs, or is missing, takes the leader's.
Merge(n, prev, entries) ==
  LET k == prev - snapIndex[n]
      differs == {i \in 1..Len(entries) :
                    \/ k + i > Len(log[n])
                    \/ log[n][k + i].term # entries[i].term}
  IN IF differs = {} THEN log[n]
     ELSE SubSeq(log[n], 1, k + Min(differs) - 1)
            \o SubSeq(entries, Min(differs), Len(entries))

\* Mutant: the leader's commit index is taken over as it is.
CommitAsTold(n, leaderCommit, lastNew) == leaderCommit

\* commitIndex after a successful AppendEntries whose last entry is at lastNew.
CommitAfter(n, leaderCommit, lastNew) ==
  IF leaderCommit > commitIndex[n] THEN Smaller(leaderCommit, lastNew) ELSE commitIndex[n]

AppendReplyTo(m, term, success, match) ==
  [type |-> "AppendReply", src |-> m.dst, dst |-> m.src, term |-> term,
   success |-> success, match |-> match, sent |-> m.term]

\* args.Term < rn.currentTerm.
RejectStaleAppend(m) ==
  /\ m.term < currentTerm[m.dst]
  /\ Exchange({m}, {AppendReplyTo(m, currentTerm[m.dst], FALSE, 0)})
  /\ UNCHANGED <<electionVars, logVars, applyVars, leaderVars, replicationFrame>>

\* Every entry sent is behind the follower's own snapshot.
AppendCompacted(m) ==
  LET n == m.dst IN
  /\ m.term >= currentTerm[n]
  /\ m.prevIndex < snapIndex[n] /\ Len(m.entries) <= snapIndex[n] - m.prevIndex
  /\ FollowLeader(n, m.term, m.src)
  /\ Exchange({m}, {AppendReplyTo(m, m.term, TRUE, snapIndex[n])})
  /\ UNCHANGED <<logVars, applyVars, leaderVars, replicationFrame>>

\* The request with the entries the follower has compacted away trimmed off.
Trimmed(n, m) ==
  IF m.prevIndex < snapIndex[n]
  THEN [prev |-> snapIndex[n], prevTerm |-> snapTerm[n],
        entries |-> SubSeq(m.entries, snapIndex[n] - m.prevIndex + 1, Len(m.entries))]
  ELSE [prev |-> m.prevIndex, prevTerm |-> m.prevTerm, entries |-> m.entries]

\* Mutant: only the presence of the previous entry is verified, not its term.
PrevPresent(n, a) == a.prev <= LastLogIndex(n)

\* The consistency check at PrevLogIndex.
PrevMatches(n, a) == a.prev <= LastLogIndex(n) /\ LogTerm(n, a.prev) = a.prevTerm

\* All the rest of HandleAppendEntries: refuse on a mismatch, else merge the
\* entries and follow the leader's commit index.
HandleCurrentAppend(m) ==
  LET n == m.dst
      a == Trimmed(n, m)
      lastNew == a.prev + Len(a.entries)
  IN
  /\ m.term >= currentTerm[n]
  /\ m.prevIndex >= snapIndex[n] \/ Len(m.entries) > snapIndex[n] - m.prevIndex
  /\ FollowLeader(n, m.term, m.src)
  /\ \/ /\ ~PrevMatches(n, a)
        /\ Exchange({m}, {AppendReplyTo(m, m.term, FALSE, 0)})
        /\ UNCHANGED <<log, applyVars>>
     \/ /\ PrevMatches(n, a)
        /\ log' = [log EXCEPT ![n] = Merge(n, a.prev, a.entries)]
        /\ commitIndex' = [commitIndex EXCEPT ![n] = CommitAfter(n, m.commit, lastNew)]
        /\ IF m.commit > commitIndex[n] THEN Wake(n) ELSE UNCHANGED notify
        /\ Exchange({m}, {AppendReplyTo(m, m.term, TRUE, lastNew)})
        /\ UNCHANGED <<lastApplied, wal>>
  /\ UNCHANGED <<snapIndex, snapTerm, leaderVars, replicationFrame>>

HandleAppendEntries(m) ==
  RejectStaleAppend(m) \/ AppendCompacted(m) \/ HandleCurrentAppend(m)

-----------------------------------------------------------------------------
(* Snapshots.                                                              *)

\* The entries that stay when the anchor of n moves up to index.
LogAfter(n, index) == SubSeq(log[n], index - snapIndex[n] + 1, Len(log[n]))

\* Mutant: a snapshot always replaces the whole log.
TailKeptNever(n, m) == <<>>

\* The log after a snapshot is installed: the entries behind it stay if the log
\* agrees with the snapshot at its last index.
TailKept(n, m) ==
  IF m.lastIndex <= LastLogIndex(n) /\ LogTerm(n, m.lastIndex) = m.lastTerm
  THEN LogAfter(n, m.lastIndex) ELSE <<>>

\* The reply carries the term from before the step down.
SnapshotReplyTo(m) ==
  [type |-> "SnapshotReply", src |-> m.dst, dst |-> m.src, term |-> currentTerm[m.dst],
   index |-> m.lastIndex, sent |-> m.term]

\* A snapshot beyond the node's own.
NewerSnapshot(n, m) == m.lastIndex > snapIndex[n]

\* HandleInstallSnapshot.  The listener OnRestoreSnapshot writes a line to the
\* program's log: nothing reaches the WAL.
HandleInstallSnapshot(m) ==
  LET n == m.dst IN
  /\ Exchange({m}, {SnapshotReplyTo(m)})
  /\ IF m.term < currentTerm[n] THEN UNCHANGED electionVars ELSE FollowLeader(n, m.term, m.src)
  /\ IF m.term >= currentTerm[n] /\ NewerSnapshot(n, m)
     THEN /\ log' = [log EXCEPT ![n] = TailKept(n, m)]
          /\ snapIndex' = [snapIndex EXCEPT ![n] = m.lastIndex]
          /\ snapTerm' = [snapTerm EXCEPT ![n] = m.lastTerm]
          /\ commitIndex' = [commitIndex EXCEPT ![n] = Larger(@, m.lastIndex)]
          /\ lastApplied' = [lastApplied EXCEPT ![n] = Larger(@, m.lastIndex)]
          /\ UNCHANGED <<notify, wal>>
     ELSE UNCHANGED <<logVars, applyVars>>
  /\ UNCHANGED <<leaderVars, replicationFrame>>

\* Mutant: a snapshot may cover entries that are not committed yet.
SnapshotAllowedEarly(n, index) == index \in snapIndex[n] + 1 .. LastLogIndex(n)

\* TakeSnapshot's refusals.
SnapshotAllowed(n, index) ==
  index \in snapIndex[n] + 1 .. Smaller(commitIndex[n], LastLogIndex(n))

\* TakeSnapshot, called by the HTTP trigger with the commitIndex it read before.
TakeSnapshot(n, index) ==
  /\ index <= MaxSnapshot
  /\ SnapshotAllowed(n, index)
  /\ log' = [log EXCEPT ![n] = LogAfter(n, index)]
  /\ snapIndex' = [snapIndex EXCEPT ![n] = index]
  /\ snapTerm' = [snapTerm EXCEPT ![n] = LogTerm(n, index)]
  /\ lastApplied' = [lastApplied EXCEPT ![n] = Larger(@, index)]
  /\ UNCHANGED <<electionVars, commitIndex, notify, wal, leaderVars, msgs, replicationFrame>>

-----------------------------------------------------------------------------
(* The applier.                                                            *)

\* Mutant: one wake-up applies one entry.
ApplyUpToNext(n) == Smaller(lastApplied[n] + 1, commitIndex[n])

\* Mutant: the applier follows the log instead of the commit index.
ApplyToLogEnd(n) == LastLogIndex(n)

\* Where the applier's loop stops.
ApplyUpTo(n) == commitIndex[n]

\* The data OnCommit gets when lastApplied moves up to index: entries still in the
\* log, without those whose Data is nil.
Delivered(n, index) ==
  LET first == Larger(lastApplied[n], snapIndex[n]) + 1
      entries == SubSeq(log[n], first - snapIndex[n], Smaller(index - snapIndex[n], Len(log[n])))
      data == [i \in 1..Len(entries) |-> entries[i].data]
  IN Select(data, {i \in 1..Len(data) : data[i] # NilData})

\* One wake-up of runApplierLoop, which holds rn.mu until it has caught up.
Apply(n) ==
  /\ n \in Applier /\ notify[n] > 0
  /\ notify' = [notify EXCEPT ![n] = @ - 1]
  /\ lastApplied' = [lastApplied EXCEPT ![n] = Larger(@, ApplyUpTo(n))]
  /\ wal' = [wal EXCEPT ![n] = @ \o Delivered(n, ApplyUpTo(n))]
  /\ UNCHANGED <<electionVars, logVars, commitIndex, leaderVars, msgs, replicationFrame>>

-----------------------------------------------------------------------------
ReplicationNext ==
  \/ \E n \in Node : Heartbeat(n)
  \/ \E n \in Node, data \in Payload : Propose(n, data)
  \/ \E p \in proposals : ProposeReturns(p) \/ ProposeFails(p)
  \/ \E m \in InFlight("AppendRequest") : HandleAppendEntries(m)
  \/ \E m \in InFlight("AppendReply") : HandleAppendReply(m)
  \/ \E m \in InFlight("SnapshotRequest") : HandleInstallSnapshot(m)
  \/ \E m \in InFlight("SnapshotReply") : HandleSnapshotReply(m)
  \/ \E n \in Node, index \in 1..MaxSnapshot : TakeSnapshot(n, index)
  \/ \E n \in Node : Apply(n)
=============================================================================
