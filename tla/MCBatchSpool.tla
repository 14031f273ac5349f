---------------------------- MODULE MCBatchSpool ----------------------------
(* Small instances of BatchSpool for TLC. *)
EXTENDS BatchSpool

CONSTANTS j1, j2

(* One job with a malformed line after a good one, one with a good line.  *)
MixedInput == [j \in Jobs |-> IF j = j1 THEN <<"good", "malformed">> ELSE <<"good">>]
=============================================================================
