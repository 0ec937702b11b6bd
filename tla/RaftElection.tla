---------------------------- MODULE RaftElection ----------------------------
(***************************************************************************)
(* Leader election: runElectionLoop with its pre-vote round (runPreVote),  *)
(* startElection, becomeLeader, HandleRequestVote and the goroutines that  *)
(* count the replies.                                                      *)
(*                                                                         *)
(* Clocks are abstracted: an election timeout may expire at any moment     *)
(* while the node is not leader, and a comparison with electionResetEvent  *)
(* comes out either way.  Safety may not depend on them.                   *)
(***************************************************************************)
EXTENDS RaftNode

electionFrame == <<logVars, applyVars, clientVars>>

-----------------------------------------------------------------------------
(* Starting an election.                                                   *)

\* The requests runPreVote (pre) and startElection send for the given term.
Solicit(n, reached, term, pre) ==
  {[type |-> "VoteRequest", src |-> n, dst |-> p, term |-> term,
    lastIndex |-> LastLogIndex(n), lastTerm |-> LastLogTerm(n), pre |-> pre] : p \in reached}

\* becomeLeader's bookkeeping; its first broadcast is left to the caller.
FreshNext(n) == [p \in Node |-> LastLogIndex(n) + 1]
ResetProgress(n) ==
  /\ nextIndex' = [nextIndex EXCEPT ![n] = FreshNext(n)]
  /\ matchIndex' = [matchIndex EXCEPT ![n] = [p \in Node |-> 0]]

\* startElection.  In a cluster of one the node's own vote is a quorum: it is
\* leader at once, and its broadcast has nobody to reach.
StartElection(n, read, reached) ==
  /\ currentTerm[n] < MaxTerm
  /\ currentTerm' = [currentTerm EXCEPT ![n] = @ + 1]
  /\ votedFor' = [votedFor EXCEPT ![n] = n]
  /\ votes' = [votes EXCEPT ![n] = {n}]
  /\ IF Quorum <= 1
     THEN /\ role' = [role EXCEPT ![n] = Leader]
          /\ leaderID' = [leaderID EXCEPT ![n] = n]
          /\ ResetProgress(n)
          /\ Exchange(read, {})
     ELSE /\ role' = [role EXCEPT ![n] = Candidate]
          /\ leaderID' = [leaderID EXCEPT ![n] = NoNode]
          /\ Exchange(read, Solicit(n, reached, currentTerm[n] + 1, FALSE))
          /\ UNCHANGED leaderVars

-----------------------------------------------------------------------------
(* The election loop.                                                      *)

\* The pre-vote RPCs of n's rounds.  They live 200ms, less than the election
\* timeout that separates two rounds: none is left when a round begins, and a
\* reply that comes after its round ended is counted by nobody.
OwnPreVotes(n) ==
  {m \in BagToSet(msgs) : \/ m.type = "VoteRequest" /\ m.pre /\ m.src = n
                          \/ m.type = "VoteReply" /\ m.pre /\ m.dst = n}

\* The election timer fires on a node that is not leader: runPreVote releases
\* rn.mu and asks every peer.
ElectionTimeout(n) ==
  /\ n \in Contender \cap Poller
  /\ Quorum > 1
  /\ role[n] # Leader /\ ~polling[n] /\ currentTerm[n] < MaxTerm
  /\ polling' = [polling EXCEPT ![n] = TRUE]
  /\ preVotes' = [preVotes EXCEPT ![n] = {n}]
  /\ \E reached \in SUBSET Peers(n) :
       Exchange(OwnPreVotes(n), Solicit(n, reached, currentTerm[n] + 1, TRUE))
  /\ UNCHANGED <<electionVars, votes, leaderVars, electionFrame>>

\* The timer fires and the election starts in the same step: the case of a node
\* without peers, whose own pre-vote is a quorum.  For the nodes outside Poller it
\* stands for a whole round that was won: a round changes no other node, and the
\* node itself only by the news of a later term, which a vote reply brings as well.
ElectionTimeoutUnopposed(n) ==
  /\ n \in Contender
  /\ Quorum <= 1 \/ n \notin Poller
  /\ role[n] # Leader /\ ~polling[n]
  /\ \E reached \in SUBSET Peers(n) : StartElection(n, {}, reached)
  /\ UNCHANGED <<polling, preVotes, electionFrame>>

\* runPreVote has rn.mu again and found a quorum of pre-votes: startElection runs
\* in the same critical section, from the term the node has by now.
PreVoteWon(n) ==
  /\ polling[n] /\ role[n] # Leader
  /\ Cardinality(preVotes[n]) >= Quorum
  /\ polling' = [polling EXCEPT ![n] = FALSE]
  /\ preVotes' = [preVotes EXCEPT ![n] = {}]
  /\ \E reached \in SUBSET Peers(n) : StartElection(n, {}, reached)
  /\ UNCHANGED electionFrame

\* The 200ms are over without a quorum, or the node became leader meanwhile.
PreVoteEnds(n) ==
  /\ polling[n]
  /\ role[n] = Leader \/ Cardinality(preVotes[n]) < Quorum
  /\ polling' = [polling EXCEPT ![n] = FALSE]
  /\ preVotes' = [preVotes EXCEPT ![n] = {}]
  /\ UNCHANGED <<electionVars, votes, leaderVars, msgs, electionFrame>>

-----------------------------------------------------------------------------
(* Votes.                                                                  *)

\* Mutant: any longer log may win, whatever its last term.
LogLonger(n, m) == m.lastIndex >= LastLogIndex(n)

LogUpToDate(n, m) ==
  \/ m.lastTerm > LastLogTerm(n)
  \/ m.lastTerm = LastLogTerm(n) /\ m.lastIndex >= LastLogIndex(n)

\* Mutant: the follower forgets that it has voted in this term.
MayVoteAgain(n, m) == TRUE

\* canVote, after the stepDown that a higher term brings.
MayVote(n, m) == m.term > currentTerm[n] \/ votedFor[n] \in {NoNode, m.src}

VoteReplyTo(m, term, granted) ==
  [type |-> "VoteReply", src |-> m.dst, dst |-> m.src, term |-> term,
   granted |-> granted, pre |-> m.pre, election |-> m.term]

\* HandleRequestVote with IsPreVote: an answer, and nothing remembered of it.  The
\* node refuses when it knows a leader and heard from it lately.
AnswerPreVote(m, heardLately) ==
  LET n == m.dst IN
  /\ Exchange({m}, {VoteReplyTo(m, currentTerm[n],
       /\ m.term >= currentTerm[n]
       /\ ~(leaderID[n] # NoNode /\ heardLately)
       /\ LogUpToDate(n, m))})
  /\ UNCHANGED <<electionVars, ballotVars, leaderVars, electionFrame>>

HandlePreVote(m) == \E heardLately \in BOOLEAN : AnswerPreVote(m, heardLately)

\* The vote of a real election is granted.
Grants(n, m) == m.term >= currentTerm[n] /\ MayVote(n, m) /\ LogUpToDate(n, m)

\* HandleRequestVote of a real election.
HandleVote(m) ==
  LET n == m.dst
      newTerm == m.term > currentTerm[n]
  IN
  /\ currentTerm' = [currentTerm EXCEPT ![n] = Larger(@, m.term)]
  /\ role' = [role EXCEPT ![n] = IF newTerm THEN Follower ELSE @]
  /\ leaderID' = [leaderID EXCEPT ![n] = IF newTerm THEN NoNode ELSE @]
  /\ votedFor' = [votedFor EXCEPT ![n] =
       IF Grants(n, m) THEN m.src ELSE IF newTerm THEN NoNode ELSE @]
  /\ Exchange({m}, {VoteReplyTo(m, Larger(currentTerm[n], m.term), Grants(n, m))})
  /\ UNCHANGED <<ballotVars, leaderVars, electionFrame>>

HandleRequestVote(m) ==
  \/ m.pre /\ HandlePreVote(m)
  \/ ~m.pre /\ HandleVote(m)

-----------------------------------------------------------------------------
(* Counting the replies.                                                   *)

\* A pre-vote reply: step down before a higher term, and count a granted vote
\* in any case.
ReceivePreVote(m) ==
  LET n == m.dst IN
  /\ IF m.term > currentTerm[n] THEN StepDown(n, m.term) ELSE UNCHANGED electionVars
  /\ preVotes' = [preVotes EXCEPT ![n] = IF m.granted /\ polling[n] THEN @ \cup {m.src} ELSE @]
  /\ Exchange({m}, {})
  /\ UNCHANGED <<votes, polling, leaderVars, electionFrame>>

\* Mutant: votes of an earlier election of the same node count as well.
StillCampaigningStale(n, m) == role[n] = Candidate /\ m.granted

\* The election the reply belongs to is still the node's current one.
StillCampaigning(n, m) ==
  role[n] = Candidate /\ currentTerm[n] = m.election /\ m.granted

\* becomeLeader, with its first broadcast.
BecomeLeader(n, m) ==
  /\ role' = [role EXCEPT ![n] = Leader]
  /\ leaderID' = [leaderID EXCEPT ![n] = n]
  /\ ResetProgress(n)
  /\ \E reached \in SUBSET Peers(n) :
       Exchange({m}, BroadcastRpcs(n, reached, log[n], commitIndex[n], FreshNext(n)))
  /\ UNCHANGED <<currentTerm, votedFor>>

\* A vote reply: step down, ignore it, or count it; the vote that completes the
\* quorum makes the candidate leader.
ReceiveVote(m) ==
  LET n == m.dst
      counted == votes[n] \cup {m.src}
  IN
  /\ \/ /\ m.term > currentTerm[n]
        /\ StepDown(n, m.term)
        /\ Exchange({m}, {})
        /\ UNCHANGED <<votes, leaderVars>>
     \/ /\ m.term <= currentTerm[n] /\ ~StillCampaigning(n, m)
        /\ Exchange({m}, {})
        /\ UNCHANGED <<electionVars, votes, leaderVars>>
     \/ /\ m.term <= currentTerm[n] /\ StillCampaigning(n, m)
        /\ votes' = [votes EXCEPT ![n] = counted]
        /\ IF Cardinality(counted) >= Quorum
           THEN BecomeLeader(n, m)
           ELSE Exchange({m}, {}) /\ UNCHANGED <<electionVars, leaderVars>>
  /\ UNCHANGED <<polling, preVotes, electionFrame>>

HandleVoteReply(m) ==
  \/ m.pre /\ ReceivePreVote(m)
  \/ ~m.pre /\ ReceiveVote(m)

-----------------------------------------------------------------------------
ElectionNext ==
  \/ \E n \in Node : ElectionTimeout(n)
  \/ \E n \in Node : ElectionTimeoutUnopposed(n)
  \/ \E n \in Node : PreVoteWon(n)
  \/ \E n \in Node : PreVoteEnds(n)
  \/ \E m \in InFlight("VoteRequest") : HandleRequestVote(m)
  \/ \E m \in InFlight("VoteReply") : HandleVoteReply(m)
=============================================================================
