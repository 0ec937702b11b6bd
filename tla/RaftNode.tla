------------------------------ MODULE RaftNode ------------------------------
(***************************************************************************)
(* The state of a cluster of raft.RaftNode processes (src/raft/consensus.go)*)
(* and the helpers every handler uses: the log with its snapshot anchor,   *)
(* the quorum, the RPCs in flight and stepDown.  RaftElection and          *)
(* RaftReplication add the handlers, RaftConsensus puts them together.     *)
(*                                                                         *)
(* Every critical section under rn.mu is one step.  An RPC is a goroutine: *)
(* its request, then its reply, is a record in the bag msgs, and the reply *)
(* carries what the goroutine's closure remembers of the request.          *)
(***************************************************************************)
EXTENDS Naturals, Sequences, FiniteSets, Bags

CONSTANTS
  Node,          \* the cluster: Config.ID and Config.Peers of every process
  NoNode,        \* the empty string of votedFor and leaderID
  Payload,       \* the client payloads
  NilData,       \* LogEntry.Data = nil, the entries rebuilt by NewRaftNode
  NotifyCap,     \* capacity of commitNotifyCh, 100 in the code
  MaxTerm,       \* bound: no election starts at this term
  MaxIndex,      \* bound: no proposal goes beyond this log index
  MaxSnapshot,   \* bound: TakeSnapshot compacts at most up to this index
  MaxInFlight,   \* bound: RPCs in flight; sends beyond it fail at once
  Contender,     \* bound: the nodes whose election timer may expire
  Poller,        \* the nodes whose pre-vote rounds are modelled RPC by RPC
  Applier        \* bound: the nodes whose applier goroutine is scheduled

ASSUME NodeAssumption == IsFiniteSet(Node) /\ Node # {} /\ NoNode \notin Node
ASSUME DataAssumption == NilData \notin Payload
ASSUME BoundAssumption ==
  /\ NotifyCap \in Nat \ {0}
  /\ MaxTerm \in Nat /\ MaxIndex \in Nat /\ MaxSnapshot \in Nat
  /\ MaxInFlight \in Nat
  /\ Contender \subseteq Node /\ Poller \subseteq Node /\ Applier \subseteq Node

VARIABLES
  currentTerm, votedFor, role, leaderID,
  votes,         \* whose votes startElection's votesReceived has counted
  polling,       \* runElectionLoop is inside runPreVote, rn.mu released
  preVotes,      \* whose pre-votes preVotesReceived has counted
  log,           \* the entries after the anchor rn.log[0]
  snapIndex,     \* lastIncludedIndex, the index of the anchor
  snapTerm,      \* lastIncludedTerm, the term of the anchor
  commitIndex, lastApplied,
  notify,        \* wake-ups waiting in commitNotifyCh
  wal,           \* what OnCommit has appended to the node's WAL
  nextIndex, matchIndex,
  msgs,          \* the RPCs in flight, a bag: nothing orders them
  proposals,     \* entries accepted by a running Propose call
  acked          \* entries whose Propose call returned success

electionVars == <<currentTerm, votedFor, role, leaderID>>
ballotVars   == <<votes, polling, preVotes>>
logVars      == <<log, snapIndex, snapTerm>>
applyVars    == <<commitIndex, lastApplied, notify, wal>>
leaderVars   == <<nextIndex, matchIndex>>
clientVars   == <<proposals, acked>>
vars == <<electionVars, ballotVars, logVars, applyVars, leaderVars, msgs, clientVars>>

Follower  == "Follower"
Candidate == "Candidate"
Leader    == "Leader"

Entry == [term : Nat, data : Payload \cup {NilData}]
Peers(n) == Node \ {n}
Quorum == (Cardinality(Node) \div 2) + 1

Smaller(a, b) == IF a <= b THEN a ELSE b
Larger(a, b)  == IF a >= b THEN a ELSE b

-----------------------------------------------------------------------------
(* The log.  rn.log[0] is the anchor (snapIndex, snapTerm); the entry at    *)
(* logical index i is log[n][i - snapIndex[n]].                            *)

LastLogIndex(n) == snapIndex[n] + Len(log[n])
LastLogTerm(n)  == IF log[n] = <<>> THEN snapTerm[n] ELSE log[n][Len(log[n])].term

LogTermIn(n, lg, i) ==
  IF i = snapIndex[n] THEN snapTerm[n]
  ELSE IF i > snapIndex[n] /\ i - snapIndex[n] <= Len(lg) THEN lg[i - snapIndex[n]].term
  ELSE 0
LogTerm(n, i) == LogTermIn(n, log[n], i)

LogSliceIn(n, lg, start) ==
  IF start <= snapIndex[n] THEN <<>> ELSE SubSeq(lg, start - snapIndex[n], Len(lg))

-----------------------------------------------------------------------------
(* RPCs.  Every RPC has its own TCP connection and a deadline: it may be    *)
(* lost at any moment and overtaken by others, and is never duplicated.    *)

VoteRequest == [type : {"VoteRequest"}, src : Node, dst : Node, term : Nat,
                lastIndex : Nat, lastTerm : Nat, pre : BOOLEAN]
VoteReply == [type : {"VoteReply"}, src : Node, dst : Node, term : Nat,
              granted : BOOLEAN, pre : BOOLEAN, election : Nat]
AppendRequest == [type : {"AppendRequest"}, src : Node, dst : Node, term : Nat,
                  prevIndex : Nat, prevTerm : Nat, entries : Seq(Entry), commit : Nat]
AppendReply == [type : {"AppendReply"}, src : Node, dst : Node, term : Nat,
                success : BOOLEAN, match : Nat, sent : Nat]
SnapshotRequest == [type : {"SnapshotRequest"}, src : Node, dst : Node, term : Nat,
                    lastIndex : Nat, lastTerm : Nat]
SnapshotReply == [type : {"SnapshotReply"}, src : Node, dst : Node, term : Nat,
                  index : Nat, sent : Nat]
Message == VoteRequest \cup VoteReply \cup AppendRequest \cup AppendReply
             \cup SnapshotRequest \cup SnapshotReply

InFlight(type) == {m \in BagToSet(msgs) : m.type = type}

\* Consume the messages of the set read and put those of the set sent in flight.
Exchange(read, sent) ==
  /\ msgs' = (msgs (-) SetToBag(read)) (+) SetToBag(sent)
  /\ sent # {} => BagCardinality(msgs') <= MaxInFlight

\* The context's deadline, a partition hook or a broken connection ends an RPC:
\* its goroutine returns on err # nil, whether or not the peer handled the request.
LoseRpc(m) ==
  /\ Exchange({m}, {})
  /\ UNCHANGED <<electionVars, ballotVars, logVars, applyVars, leaderVars, clientVars>>

\* The RPCs broadcastAppendEntries sends from n to the peers reached, for its log,
\* commitIndex and nextIndex: the snapshot to a peer whose next entry is compacted
\* away, and to any other all the entries it is thought to miss.
AppendRpc(n, p, lg, commit, next) ==
  [type |-> "AppendRequest", src |-> n, dst |-> p, term |-> currentTerm[n],
   prevIndex |-> next - 1, prevTerm |-> LogTermIn(n, lg, next - 1),
   entries |-> LogSliceIn(n, lg, next), commit |-> commit]

SnapshotRpc(n, p) ==
  [type |-> "SnapshotRequest", src |-> n, dst |-> p, term |-> currentTerm[n],
   lastIndex |-> snapIndex[n], lastTerm |-> snapTerm[n]]

BroadcastRpcs(n, reached, lg, commit, nexts) ==
  LET next == [p \in reached |-> Larger(nexts[p], 1)] IN
  {IF next[p] <= snapIndex[n] THEN SnapshotRpc(n, p) ELSE AppendRpc(n, p, lg, commit, next[p])
     : p \in reached}

-----------------------------------------------------------------------------
(* stepDown, for a node that has just heard of the term t.                 *)

StepDown(n, t) ==
  /\ role' = [role EXCEPT ![n] = Follower]
  /\ currentTerm' = [currentTerm EXCEPT ![n] = t]
  /\ votedFor' = [votedFor EXCEPT ![n] = NoNode]
  /\ leaderID' = [leaderID EXCEPT ![n] = NoNode]

\* A leader's RPC of a term that is not stale: step down if the term is new,
\* become a follower in any case and remember the leader.
FollowLeader(n, t, leader) ==
  /\ role' = [role EXCEPT ![n] = Follower]
  /\ currentTerm' = [currentTerm EXCEPT ![n] = t]
  /\ votedFor' = [votedFor EXCEPT ![n] = IF t > currentTerm[n] THEN NoNode ELSE @]
  /\ leaderID' = [leaderID EXCEPT ![n] = leader]

Init ==
  /\ currentTerm = [n \in Node |-> 0]
  /\ votedFor = [n \in Node |-> NoNode]
  /\ role = [n \in Node |-> Follower]
  /\ leaderID = [n \in Node |-> NoNode]
  /\ votes = [n \in Node |-> {}]
  /\ polling = [n \in Node |-> FALSE]
  /\ preVotes = [n \in Node |-> {}]
  /\ log = [n \in Node |-> <<>>]
  /\ snapIndex = [n \in Node |-> 0]
  /\ snapTerm = [n \in Node |-> 0]
  /\ commitIndex = [n \in Node |-> 0]
  /\ lastApplied = [n \in Node |-> 0]
  /\ notify = [n \in Node |-> 0]
  /\ wal = [n \in Node |-> <<>>]
  /\ nextIndex = [n \in Node |-> [p \in Node |-> 0]]
  /\ matchIndex = [n \in Node |-> [p \in Node |-> 0]]
  /\ msgs = EmptyBag
  /\ proposals = {}
  /\ acked = {}

(* The shape of the state: what kind of value each field of RaftNode holds. *)
NodeTypeOK ==
  /\ currentTerm \in [Node -> Nat]
  /\ votedFor \in [Node -> Node \cup {NoNode}]
  /\ role \in [Node -> {Follower, Candidate, Leader}]
  /\ leaderID \in [Node -> Node \cup {NoNode}]
  /\ votes \in [Node -> SUBSET Node]
  /\ polling \in [Node -> BOOLEAN]
  /\ preVotes \in [Node -> SUBSET Node]
  /\ log \in [Node -> Seq(Entry)]
  /\ snapIndex \in [Node -> Nat]
  /\ snapTerm \in [Node -> Nat]
  /\ commitIndex \in [Node -> Nat]
  /\ lastApplied \in [Node -> Nat]
  /\ notify \in [Node -> 0..NotifyCap]
  /\ nextIndex \in [Node -> [Node -> Nat]]
  /\ matchIndex \in [Node -> [Node -> Nat]]
  /\ IsABag(msgs) /\ BagToSet(msgs) \subseteq Message
  /\ proposals \subseteq [node : Node, index : Nat, term : Nat, data : Payload]
  /\ acked \subseteq [node : Node, index : Nat, term : Nat, data : Payload]

(* What a leader keeps of its peers is about its own log: it never sends    *)
(* from beyond one past its last entry, where PrevLogIndex would name no   *)
(* entry, and never counts a peer for an entry it does not have itself.    *)
ProgressInLog ==
  \A l \in Node : role[l] = Leader =>
    \A p \in Peers(l) :
      /\ nextIndex[l][p] <= LastLogIndex(l) + 1
      /\ matchIndex[l][p] <= LastLogIndex(l)

TypeOK == NodeTypeOK /\ wal \in [Node -> Seq(Payload)] /\ ProgressInLog
=============================================================================
