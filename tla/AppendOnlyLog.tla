--------------------------- MODULE AppendOnlyLog ---------------------------
(***************************************************************************)
(* What a write-ahead log promises: records get consecutive offsets and    *)
(* keep them, a process that dies takes at most the record it was just     *)
(* appending with it, and a power failure only what was not synced.        *)
(* WalStore implements it.                                                 *)
(***************************************************************************)
EXTENDS Naturals, Sequences

CONSTANT Record

VARIABLES
  records,   \* records[i + 1] is what a reader finds at offset i
  synced     \* how many of them are on disk for certain

Init == records = <<>> /\ synced = 0

\* The log may be written to disk at any time.
SyncGrows == synced' \in synced .. Len(records')

AppendRecord(d) ==
  /\ records' = Append(records, d)
  /\ SyncGrows

WriteBack ==
  /\ SyncGrows
  /\ UNCHANGED records

PowerFails ==
  /\ \E n \in synced .. Len(records) : records' = SubSeq(records, 1, n)
  /\ synced' = Len(records')

Next ==
  \/ \E d \in Record : AppendRecord(d)
  \/ WriteBack
  \/ PowerFails

Spec == Init /\ [][Next]_<<records, synced>>
=============================================================================
