--------------------------- MODULE TargetDecoding ---------------------------
(***************************************************************************)
(* What speculative decoding promises: the output is produced one token at *)
(* a time, and each token is chosen by looking at the target model's       *)
(* prediction after exactly the prompt and the tokens before it, as the    *)
(* target would do alone.  Every call starts again from its own prompt.    *)
(***************************************************************************)
EXTENDS Integers, Sequences

CONSTANTS Tokens, Prompts, MaxTokens

VARIABLES
    prompt,   \* the prompt of the call
    out,      \* the tokens it has emitted
    seen,     \* what the prediction behind each of them was computed from
    running   \* the call has not returned

vars == <<prompt, out, seen, running>>

Init == prompt = <<>> /\ out = <<>> /\ seen = <<>> /\ running = FALSE

Call(p) ==
    /\ ~running
    /\ prompt' = p /\ out' = <<>> /\ seen' = <<>> /\ running' = TRUE

Emit(t) ==
    /\ running /\ Len(out) < MaxTokens
    /\ out' = Append(out, t)
    /\ seen' = Append(seen, prompt \o out)
    /\ UNCHANGED <<prompt, running>>

Return ==
    /\ running /\ running' = FALSE
    /\ UNCHANGED <<prompt, out, seen>>

Next == (\E p \in Prompts : Call(p)) \/ (\E t \in Tokens : Emit(t)) \/ Return

Spec == Init /\ [][Next]_vars
=============================================================================
