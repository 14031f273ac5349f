---------------------------- MODULE MCScheduler ----------------------------
(***************************************************************************)
(* The scheduler with three requests at a time, two of them active:        *)
(* prompts that need no, one or two chunks, limits below and above them.   *)
(***************************************************************************)
EXTENDS Scheduler

SmallRequests == {<<0, 1>>, <<1, 3>>, <<4, 5>>}
=============================================================================
