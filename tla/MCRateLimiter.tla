--------------------------- MODULE MCRateLimiter ---------------------------
(* Small instances of RateLimiter for TLC. *)
EXTENDS RateLimiter, TLC

CONSTANTS k1, k2, k3

(* One key has a burst of two and regains a token at each tick. *)
Capacities == [k \in Keys |-> IF k = k1 THEN 2 ELSE 1]
Rates == [k \in Keys |-> IF k = k1 THEN 1 ELSE 0]

(* Requests are interchangeable, and so are the keys without an override. *)
ThreadSymmetry == Permutations(Threads) \cup Permutations({k2, k3})
=============================================================================
