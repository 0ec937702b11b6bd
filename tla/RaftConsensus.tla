--------------------------- MODULE RaftConsensus ---------------------------
(***************************************************************************)
(* The cluster: elections, replication and lost RPCs, and what has to hold *)
(* of it.  RaftCrash adds nodes that stop and are started again.           *)
(***************************************************************************)
EXTENDS RaftElection, RaftReplication

Next ==
  \/ ElectionNext
  \/ ReplicationNext
  \/ \E m \in BagToSet(msgs) : LoseRpc(m)

Spec == Init /\ [][Next]_vars

-----------------------------------------------------------------------------
Holds(n, i) == i \in snapIndex[n] + 1 .. LastLogIndex(n)
EntryAt(n, i) == log[n][i - snapIndex[n]]

(* Two nodes are never leader of the same term, whatever RPCs are lost or   *)
(* late and however pre-votes, votes and new elections interleave.         *)
ElectionSafety ==
  \A a, b \in Node :
    role[a] = Leader /\ role[b] = Leader /\ currentTerm[a] = currentTerm[b] => a = b

(* The evidence of votes there is: granted replies in flight, and the votes *)
(* a candidate or leader has counted in its term.                          *)
Granted ==
  {[voter |-> m.src, term |-> m.election, candidate |-> m.dst] :
     m \in {r \in InFlight("VoteReply") : ~r.pre /\ r.granted}}
Counted ==
  UNION {{[voter |-> v, term |-> currentTerm[c], candidate |-> c] : v \in votes[c]} :
         c \in {n \in Node : role[n] # Follower}}
Claims == Granted \cup Counted

(* A vote is given once a term and stays binding: no evidence in flight or  *)
(* counted contradicts another or the voter's own term and votedFor, and a  *)
(* leader has counted a quorum.                                            *)
VotesAreBinding ==
  /\ \A x \in Claims :
       /\ x.term <= currentTerm[x.voter]
       /\ x.term = currentTerm[x.voter] => votedFor[x.voter] = x.candidate
  /\ \A x, y \in Claims :
       x.voter = y.voter /\ x.term = y.term => x.candidate = y.candidate
  /\ \A n \in Node : role[n] = Leader => Cardinality(votes[n]) >= Quorum

(* If two logs agree on the term at an index they agree on every entry up   *)
(* to it, as far down as both reach: HandleAppendEntries never joins a     *)
(* suffix of one leader's log to a prefix of another's.                    *)
LogMatching ==
  \A a, b \in Node :
    \A i \in Larger(snapIndex[a], snapIndex[b]) .. Smaller(LastLogIndex(a), LastLogIndex(b)) :
      LogTerm(a, i) = LogTerm(b, i) =>
        \A j \in Larger(snapIndex[a], snapIndex[b]) + 1 .. i : EntryAt(a, j) = EntryAt(b, j)

(* What two nodes hold as committed at the same index is the same entry:    *)
(* the terms of their anchors agree with it too.                           *)
CommittedPrefixesAgree ==
  \A a, b \in Node :
    \A i \in Larger(snapIndex[a], snapIndex[b]) .. Smaller(commitIndex[a], commitIndex[b]) :
      /\ LogTerm(a, i) = LogTerm(b, i)
      /\ Holds(a, i) /\ Holds(b, i) => EntryAt(a, i) = EntryAt(b, i)

(* Once Propose has returned an index to its caller, every leader of that   *)
(* or a later term has the entry at that index, or has compacted it away.  *)
AckedWritesSurvive ==
  \A p \in acked, l \in Node :
    role[l] = Leader /\ currentTerm[l] >= p.term =>
      /\ p.index <= LastLogIndex(l)
      /\ Holds(l, p.index) => EntryAt(l, p.index) = [term |-> p.term, data |-> p.data]

(* The progress a leader counts replicas by is never optimistic: a peer     *)
(* still in the leader's term holds what matchIndex says, late replies or   *)
(* not.                                                                    *)
MatchIndexSound ==
  \A l \in Node : role[l] = Leader =>
    \A p \in Peers(l) : currentTerm[p] = currentTerm[l] =>
      /\ matchIndex[l][p] <= LastLogIndex(p)
      /\ \A i \in 1..matchIndex[l][p] :
           Holds(l, i) /\ Holds(p, i) => EntryAt(l, i) = EntryAt(p, i)

(* The four positions of a log keep their order: a snapshot covers only     *)
(* what is committed and skips the applier past it, the applier never runs  *)
(* ahead of the commit index, nor that ahead of the log.                   *)
PositionsOrdered ==
  \A n \in Node :
    /\ snapIndex[n] <= lastApplied[n]
    /\ lastApplied[n] <= commitIndex[n]
    /\ commitIndex[n] <= LastLogIndex(n)

(* The non-blocking send on commitNotifyCh loses no work: while a committed *)
(* entry waits to be applied a wake-up is in the channel.                  *)
NoLostWakeup ==
  \A n \in Node : commitIndex[n] > lastApplied[n] => notify[n] > 0

(* No step takes back a commit or rewrites a committed entry, late or       *)
(* reordered AppendEntries and snapshots included.                         *)
CommitsAreFinal ==
  [][\A n \in Node :
       /\ commitIndex'[n] >= commitIndex[n]
       /\ \A i \in 1..commitIndex[n] :
            Holds(n, i) /\ Holds(n, i)' => EntryAt(n, i)' = EntryAt(n, i)]_vars

(* Every node's WAL is a copy of the same stream: of any two, one is a      *)
(* prefix of the other, so a consumer reads the same payload at an offset   *)
(* from every node.                                                        *)
WalsAgree ==
  \A a, b \in Node :
    \A i \in 1..Smaller(Len(wal[a]), Len(wal[b])) : wal[a][i] = wal[b][i]

-----------------------------------------------------------------------------
(* What clients see of the cluster, while no snapshot has compacted a log.  *)

\* The payloads that are committed somewhere.
Committed ==
  LET ahead == CHOOSE n \in Node : \A p \in Node : commitIndex[p] <= commitIndex[n]
  IN [i \in 1..commitIndex[ahead] |-> log[ahead][i].data]

Replicated == INSTANCE ReplicatedLog
  WITH Data <- Payload, stream <- Committed, answered <- {<<p.index, p.data>> : p \in acked}

(* The cluster implements the replicated log: through elections, lost RPCs  *)
(* and deposed leaders no committed payload is replaced, no WAL leaves the  *)
(* stream, and a Propose call returns an index that holds its payload.     *)
IsReplicatedLog == Replicated!Spec

(* "Quorum reached (2/3 ack) --> Commit applied to WAL": what the applier   *)
(* has moved past is in the WAL, one frame an index.                       *)
AppliedIsInWal ==
  \A n \in Node : Len(wal[n]) = lastApplied[n]
=============================================================================
