-------------------------- MODULE MCAssistantRuns --------------------------
(* Small instances of AssistantRuns for TLC. *)
EXTENDS AssistantRuns

CONSTANTS t1, r1, r2, u1, u2

(* Everything happens on one thread. *)
OneThread == [m \in Messages |-> t1]
=============================================================================
