------------------------------- MODULE MCRaft -------------------------------
(* RaftConsensus for TLC: symmetry among interchangeable nodes, and a view  *)
(* that leaves out what no step reads again.                               *)
EXTENDS RaftConsensus, TLC

SymmetricNodes ==
  {p \in Permutations(Node) :
     \A n \in Node : \A S \in {Contender, Poller, Applier} : (n \in S) <=> (p[n] \in S)}
Symmetric == SymmetricNodes \cup Permutations(Payload)

\* A Propose call whose node has left the term can only fail: terms do not go back,
\* and a node leads a term once.
Answerable(p) == role[p.node] = Leader /\ currentTerm[p.node] = p.term
Progress(n) == IF role[n] = Leader THEN <<nextIndex[n], matchIndex[n]>> ELSE <<>>

\* A node that is not leader writes nextIndex and matchIndex before it reads them,
\* and a follower writes votes before it counts them; leaderID is read
\* by the pre-vote handler alone.
LiveView ==
  <<currentTerm, votedFor, role,
    IF Poller = {} THEN <<>> ELSE leaderID,
    [n \in Node |-> IF role[n] = Follower THEN {} ELSE votes[n]], polling, preVotes,
    logVars, applyVars, [n \in Node |-> Progress(n)],
    msgs, {p \in proposals : Answerable(p)}, acked>>

\* For a run without pollers and appliers whose invariants are about logs alone:
\* nobody reads a wake-up, and only a candidate reads the votes it has counted.
LogView ==
  <<currentTerm, votedFor, role, [n \in Node |-> IF role[n] = Candidate THEN votes[n] ELSE {}],
    logVars, commitIndex, [n \in Node |-> Progress(n)],
    msgs, {p \in proposals : Answerable(p)}, acked>>
=============================================================================
