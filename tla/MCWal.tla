------------------------------- MODULE MCWal -------------------------------
(* WalStore for TLC: an empty payload, one of one cell and one no segment   *)
(* takes.                                                                  *)
EXTENDS WalStore, TLC

CONSTANTS e, a, big

Sizes == (e :> 0) @@ (a :> 1) @@ (big :> MaxSegmentBytes)
=============================================================================
