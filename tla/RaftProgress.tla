---------------------------- MODULE RaftProgress ----------------------------
(***************************************************************************)
(* Progress under a leader that reaches a bare quorum.  The links between  *)
(* Hub and the nodes of Reached lose any number of RPCs but not all of     *)
(* them; every other link may fail for ever.                               *)
(***************************************************************************)
EXTENDS RaftConsensus

CONSTANTS Hub, Reached
ASSUME LinkAssumption ==
  Hub \in Node /\ Reached \subseteq Peers(Hub) /\ Cardinality(Reached) + 1 >= Quorum

-----------------------------------------------------------------------------
(* Fairness.                                                               *)

\* The hub's heartbeat gets an RPC out to p.
HeartbeatTo(p) ==
  /\ role[Hub] = Leader
  /\ \E reached \in SUBSET Peers(Hub) :
       /\ p \in reached
       /\ Exchange({}, BroadcastRpcs(Hub, reached, log[Hub], commitIndex[Hub], nextIndex[Hub]))
  /\ UNCHANGED <<electionVars, logVars, applyVars, leaderVars, replicationFrame>>

\* p handles a request of the hub, and the hub the reply of p.
Serve(p) ==
  \/ \E m \in InFlight("AppendRequest") : m.src = Hub /\ m.dst = p /\ HandleAppendEntries(m)
  \/ \E m \in InFlight("SnapshotRequest") : m.src = Hub /\ m.dst = p /\ HandleInstallSnapshot(m)

TakeReply(p) ==
  \/ \E m \in InFlight("AppendReply") : m.src = p /\ m.dst = Hub /\ HandleAppendReply(m)
  \/ \E m \in InFlight("SnapshotReply") : m.src = p /\ m.dst = Hub /\ HandleSnapshotReply(m)

\* An RPC is over at its deadline at the latest.
RpcEnds == \E m \in BagToSet(msgs) : LoseRpc(m)

\* The heartbeat ticker goes on and its RPCs get through a working link time and again.
\* Nothing is assumed of the clients: a Propose call may always give up.
Fairness ==
  /\ WF_vars(RpcEnds)
  /\ \A p \in Reached : SF_vars(HeartbeatTo(p)) /\ SF_vars(Serve(p)) /\ SF_vars(TakeReply(p))

FairSpec == Spec /\ Fairness

-----------------------------------------------------------------------------
HubLeads(t) == role[Hub] = Leader /\ currentTerm[Hub] = t

(* "Propose [...] blocks until committed by quorum": while the hub stays    *)
(* leader an entry of its term is committed in the end, with the working   *)
(* links of a bare quorum, whatever the followers' logs hold and whether   *)
(* or not the Propose call that appended it still waits.                   *)
EntriesCommit ==
  \A i \in 1..MaxIndex, t \in 1..MaxTerm :
    HubLeads(t) /\ LogTerm(Hub, i) = t ~> commitIndex[Hub] >= i \/ ~HubLeads(t)

(* A follower the hub reaches gets all the hub's log holds, through refused *)
(* AppendEntries, a tail of another leader's and a snapshot of what the hub *)
(* has compacted away.                                                     *)
FollowersCatchUp ==
  \A p \in Reached, i \in 1..MaxIndex, t \in 1..MaxTerm :
    HubLeads(t) /\ i \in snapIndex[Hub] .. LastLogIndex(Hub)
      ~> \/ ~HubLeads(t)
         \/ i < snapIndex[Hub] \/ i <= snapIndex[p]
         \/ LogTerm(p, i) = LogTerm(Hub, i)
=============================================================================
