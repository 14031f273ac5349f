---------------------------- MODULE MCModelPool ----------------------------
(* Small instances of ModelPool for TLC. *)
EXTENDS ModelPool, TLC

CONSTANTS m1, m2, m3

(* Two models fit the budget together, the large one only with one more.   *)
Sizes == [m \in Models |-> IF m = m1 THEN 3 ELSE IF m = m2 THEN 2 ELSE 1]

UserSymmetry == Permutations(Users)
=============================================================================
