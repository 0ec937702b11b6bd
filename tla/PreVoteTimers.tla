--------------------------- MODULE PreVoteTimers ---------------------------
(***************************************************************************)
(* Elections with clocks: what electionResetEvent does to pre-vote when a  *)
(* node is cut off and comes back.  A tick is the 200ms a pre-vote round   *)
(* may last.  Heartbeats, sent every 80ms, reach every connected node in   *)
(* each tick, and an RPC ends in the tick it began in: the network is at   *)
(* its best, and no snapshot or proposal is under way.                     *)
(***************************************************************************)
EXTENDS RaftConsensus

CONSTANT ElectionMin   \* ElectionMinMs in ticks: 350ms are two of them

VARIABLES
  age,   \* ticks since electionResetEvent, at most ElectionMin
  cut    \* the nodes that are cut off

timedVars == <<vars, age, cut>>

\* The links of a node that is cut off fail both ways, as those of the mock network in
\* src/tests/raft_test.go do.  The chaos switch of main.go is less of a partition: it
\* fails the RPCs the node sends, and still serves those it gets.
Reachable(m) == {m.src, m.dst} \cap cut = {}

\* electionResetEvent of the nodes of reset, and of those whose term has moved:
\* startElection and stepDown set it.
ResetsTimer(reset) ==
  age' = [n \in Node |-> IF n \in reset \/ currentTerm'[n] # currentTerm[n] THEN 0 ELSE age[n]]

\* The step of a node's own, and of the handler of a message.
Own(reset) == ResetsTimer(reset) /\ UNCHANGED cut
Handles(m, reset) == Reachable(m) /\ Own(reset)

-----------------------------------------------------------------------------
TimeoutExpires(n) ==
  /\ age[n] >= ElectionMin
  /\ ElectionTimeout(n) \/ ElectionTimeoutUnopposed(n)
  /\ Own({})

RoundEnds(n) == (PreVoteWon(n) \/ PreVoteEnds(n)) /\ Own({})

\* HandleRequestVote: a pre-vote reads the timer, a vote that is granted resets it.
TimedRequestVote(m) ==
  \/ m.pre /\ AnswerPreVote(m, age[m.dst] < ElectionMin) /\ Handles(m, {})
  \/ /\ ~m.pre /\ HandleVote(m)
     /\ Handles(m, {n \in {m.dst} : Grants(n, m)})

\* HandleAppendEntries resets the follower's timer, and nothing the leader's.
TimedAppendEntries(m) ==
  /\ HandleAppendEntries(m)
  /\ Handles(m, {n \in {m.dst} : m.term >= currentTerm[n]})

TimedReply(m) ==
  /\ \/ m.type = "VoteReply" /\ HandleVoteReply(m)
     \/ m.type = "AppendReply" /\ HandleAppendReply(m)
  /\ Handles(m, {})

-----------------------------------------------------------------------------
(* Time and the network.                                                   *)

\* Every connected node has heard from each connected leader in this tick.
HeartbeatsArrived ==
  \A l, n \in Node \ cut : role[l] = Leader /\ n # l => currentTerm[n] <= currentTerm[l] /\ age[n] = 0

Tick ==
  /\ msgs = EmptyBag /\ \A n \in Node : ~polling[n]
  /\ HeartbeatsArrived
  /\ age' = [n \in Node |-> Smaller(age[n] + 1, ElectionMin)]
  /\ UNCHANGED <<vars, cut>>

\* A follower or candidate is cut off, as in TestRaft_PreVotePartitionIsolation.
Disconnect(n) ==
  /\ role[n] # Leader /\ cut = {}
  /\ cut' = {n}
  /\ UNCHANGED <<vars, age>>

\* The RPCs it began meanwhile have failed.
Reconnect ==
  /\ cut # {} /\ \A m \in BagToSet(msgs) : Reachable(m)
  /\ cut' = {}
  /\ UNCHANGED <<vars, age>>

TimedNext ==
  \/ \E n \in Node : TimeoutExpires(n)
  \/ \E n \in Node : RoundEnds(n)
  \/ \E n \in Node : Heartbeat(n) /\ Own({})
  \/ \E m \in InFlight("VoteRequest") : TimedRequestVote(m)
  \/ \E m \in InFlight("AppendRequest") : TimedAppendEntries(m)
  \/ \E m \in InFlight("VoteReply") \cup InFlight("AppendReply") : TimedReply(m)
  \/ \E m \in BagToSet(msgs) : LoseRpc(m) /\ Own({})
  \/ Tick
  \/ \E n \in Node : Disconnect(n)
  \/ Reconnect

TimedSpec == Init /\ age = [n \in Node |-> 0] /\ cut = {} /\ [][TimedNext]_timedVars

-----------------------------------------------------------------------------
\* A leader of the newest term, elected longer ago than any round begun before it may
\* last, and heard of lately by a connected quorum.
Settled(l) ==
  /\ role[l] = Leader /\ l \notin cut /\ age[l] >= ElectionMin
  /\ \A n \in Node : currentTerm[n] <= currentTerm[l]
  /\ Cardinality({n \in Node \ cut : n = l \/ (leaderID[n] = l /\ age[n] < ElectionMin)}) >= Quorum

(* Pre-vote is there for "preventing isolated nodes from disrupting stable  *)
(* clusters upon reconnection": no node starts an election against a        *)
(* settled leader.                                                         *)
SettledLeaderUndisturbed ==
  [][\A l \in Node : Settled(l) => \A n \in Node : currentTerm'[n] <= currentTerm[l]]_timedVars
=============================================================================
