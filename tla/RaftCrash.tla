----------------------------- MODULE RaftCrash -----------------------------
(***************************************************************************)
(* Nodes that crash and are started again.  RaftNode writes nothing to     *)
(* disk: term, vote and log are gone, and main.go passes the number of     *)
(* frames in the WAL to NewRaftNode as InitialCommitIndex.                 *)
(***************************************************************************)
EXTENDS RaftConsensus

CONSTANT CanRestart   \* bound: the nodes that may crash

VARIABLE orphans      \* the RPCs whose sender's process is gone, a bag like msgs

crashVars == <<vars, orphans>>

\* The handlers of the peers, for the RPCs in orphans: a request that has left the
\* process is handled like any other, and nobody waits for the reply.
Orphan == INSTANCE RaftConsensus WITH msgs <- orphans

IsRequest(m) == m.type \in {"VoteRequest", "AppendRequest", "SnapshotRequest"}
NotTo(n, rpcs) == {m \in BagToSet(rpcs) : m.dst # n}

\* n crashes and starts again: the connections to it end, the goroutines that wait
\* for replies are gone, and the requests and replies it has sent are on their way.
Restart(n) ==
  LET sent == {m \in NotTo(n, msgs) : m.src = n /\ IsRequest(m)} IN
  /\ n \in CanRestart
  /\ currentTerm' = [currentTerm EXCEPT ![n] = 0]
  /\ votedFor' = [votedFor EXCEPT ![n] = NoNode]
  /\ role' = [role EXCEPT ![n] = Follower]
  /\ leaderID' = [leaderID EXCEPT ![n] = NoNode]
  /\ votes' = [votes EXCEPT ![n] = {}]
  /\ polling' = [polling EXCEPT ![n] = FALSE]
  /\ preVotes' = [preVotes EXCEPT ![n] = {}]
  /\ log' = [log EXCEPT ![n] = [i \in 1..Len(wal[n]) |-> [term |-> 0, data |-> NilData]]]
  /\ snapIndex' = [snapIndex EXCEPT ![n] = 0]
  /\ snapTerm' = [snapTerm EXCEPT ![n] = 0]
  /\ commitIndex' = [commitIndex EXCEPT ![n] = Len(wal[n])]
  /\ lastApplied' = [lastApplied EXCEPT ![n] = Len(wal[n])]
  /\ notify' = [notify EXCEPT ![n] = 0]
  /\ nextIndex' = [nextIndex EXCEPT ![n] = [p \in Node |-> 0]]
  /\ matchIndex' = [matchIndex EXCEPT ![n] = [p \in Node |-> 0]]
  /\ msgs' = [m \in NotTo(n, msgs) \ sent |-> msgs[m]]
  /\ orphans' = [m \in NotTo(n, orphans) |-> orphans[m]] (+) [m \in sent |-> msgs[m]]
  /\ proposals' = {p \in proposals : p.node # n}
  /\ UNCHANGED <<wal, acked>>

\* A peer handles an orphan, or it is lost.  Like any RPC it needs room in the bag.
OrphanStep ==
  /\ \/ \E m \in Orphan!InFlight("VoteRequest") : Orphan!HandleRequestVote(m)
     \/ \E m \in Orphan!InFlight("AppendRequest") : Orphan!HandleAppendEntries(m)
     \/ \E m \in Orphan!InFlight("SnapshotRequest") : Orphan!HandleInstallSnapshot(m)
     \/ \E m \in BagToSet(orphans) : Orphan!LoseRpc(m)
  /\ UNCHANGED msgs

CrashNext ==
  \/ Next /\ UNCHANGED orphans
  \/ \E n \in Node : Restart(n)
  \/ OrphanStep

CrashSpec == Init /\ orphans = EmptyBag /\ [][CrashNext]_crashVars
=============================================================================
