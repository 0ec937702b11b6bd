---------------------------- MODULE SparseIndex ----------------------------
(***************************************************************************)
(* storage.SparseIndex (src/storage/index.go): the memory-mapped file of   *)
(* (relative offset, position) pairs beside every segment of the WAL.      *)
(* sort.Search is a real binary search here: the zeros behind the last     *)
(* entry of a reopened file are searched as well, and they are not sorted. *)
(***************************************************************************)
EXTENDS Naturals

CONSTANT MaxEntries

ASSUME EntriesAssumption == MaxEntries \in Nat \ {0}

IndexEntry == [rel : Nat, pos : Nat]
NoEntry == [rel |-> 0, pos |-> 0]
EmptyIndex == [i \in 0..MaxEntries - 1 |-> NoEntry]

\* entryCount after OpenSparseIndex: the file of an earlier life has its full size,
\* because Close's Truncate comes after the file is closed and fails in silence.
EntryCount(isNew) == IF isNew THEN 0 ELSE MaxEntries

\* Mutant: one entry more than the file has room for.
IndexOverfull(count) == count > MaxEntries

\* Append fails when the index is full.
IndexFull(count) == count >= MaxEntries

\* What it writes otherwise.
WithEntry(entries, count, rel, pos) == [entries EXCEPT ![count] = [rel |-> rel, pos |-> pos]]

\* sort.Search for the first of the count entries beyond the target.
FirstBeyond(entries, count, target) ==
  LET search[range \in (0..count) \X (0..count)] ==
        LET lo == range[1]
            hi == range[2]
            mid == (lo + hi) \div 2
        IN IF lo >= hi THEN lo
           ELSE IF entries[mid].rel > target THEN search[<<lo, mid>>] ELSE search[<<mid + 1, hi>>]
  IN search[<<0, count>>]

\* Where a scan for the relative offset target begins.
Lookup(entries, count, target) ==
  LET i == FirstBeyond(entries, count, target) IN
  IF i = 0 THEN 0 ELSE entries[i - 1].pos
=============================================================================
