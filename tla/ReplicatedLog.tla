--------------------------- MODULE ReplicatedLog ---------------------------
(***************************************************************************)
(* What the cluster promises its clients: one stream of committed payloads *)
(* that is only ever extended, of which every node's WAL holds a prefix,   *)
(* and in which a Propose call that has returned finds its payload at the  *)
(* index it was given.  RaftConsensus implements it.                       *)
(***************************************************************************)
EXTENDS Naturals, Sequences

CONSTANTS Node, Data

VARIABLES
  stream,     \* what is committed
  wal,        \* what each node has delivered of it
  answered    \* the index and payload of every Propose call that succeeded

Extends(longer, shorter) ==
  /\ Len(shorter) <= Len(longer)
  /\ SubSeq(longer, 1, Len(shorter)) = shorter

Init ==
  /\ stream = <<>>
  /\ wal = [n \in Node |-> <<>>]
  /\ answered = {}

Commit ==
  /\ stream' \in Seq(Data) /\ Extends(stream', stream)
  /\ UNCHANGED <<wal, answered>>

Deliver(n) ==
  /\ \E k \in Len(wal[n]) .. Len(stream) : wal' = [wal EXCEPT ![n] = SubSeq(stream, 1, k)]
  /\ UNCHANGED <<stream, answered>>

Answer(i) ==
  /\ answered' = answered \cup {<<i, stream[i]>>}
  /\ UNCHANGED <<stream, wal>>

Next ==
  \/ Commit
  \/ \E n \in Node : Deliver(n)
  \/ \E i \in 1..Len(stream) : Answer(i)

Spec == Init /\ [][Next]_<<stream, wal, answered>>
=============================================================================
