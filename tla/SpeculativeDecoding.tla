------------------------ MODULE SpeculativeDecoding ------------------------
(***************************************************************************)
(* SpeculativeEngine of oxillama-runtime (speculative.rs).  A draft model  *)
(* proposes tokens, the target model accepts a prefix of them, and one     *)
(* more token comes from the target.  Neither model is ever given a token  *)
(* twice: the draft's KV cache is rolled back to what was committed, and   *)
(* the predictions of both models are carried over from round to round.    *)
(*                                                                         *)
(* A KV cache is the sequence of tokens it was computed from, and a vector *)
(* of logits is the sequence it predicts the next token of.  Which token   *)
(* is sampled, and whether a draft token is accepted, is left open: what   *)
(* the module is about is what each decision was computed from.            *)
(***************************************************************************)
EXTENDS Integers, Sequences

CONSTANTS
    Tokens,
    DraftEos,     \* tokens that end a turn for the draft's tokenizer
    TargetEos,    \* tokens that end a turn for the target's
    Prompts,      \* the tokenised prompts of the calls
    NumSpec,      \* num_speculative
    MaxTokens,    \* max_tokens of a call
    Recurrent,    \* the draft keeps state of its own besides the KV cache
    None,
    MaxFaults     \* bound: failing forward passes and decodings

ASSUME SpeculationAssumption ==
    /\ DraftEos \subseteq Tokens /\ TargetEos \subseteq Tokens
    /\ Prompts \subseteq Seq(Tokens)
    /\ NumSpec \in Nat /\ MaxTokens \in Nat /\ MaxFaults \in Nat
    /\ Recurrent \in BOOLEAN
    /\ None \notin Tokens /\ None \notin Seq(Tokens)

VARIABLES
    pc,         \* where generate is
    prompt,
    out,        \* the tokens given to the callback
    draft,      \* the draft's KV cache
    target,     \* the target's KV cache
    draftNext,  \* what draft_next_logits was computed from, None if taken
    targetNext, \* what target_next_logits was computed from
    proposal,   \* draft_tokens
    accepted,   \* how many of them the target accepted
    bonus,      \* the token that follows them
    eos,        \* the target saw the end in the proposal
    committed,  \* committed_len
    seen,       \* history: what the prediction behind each token of out was
                \* computed from
    judged,     \* history: the same for the accepted tokens and the bonus
    faults

engineVars == <<draft, target, draftNext, targetNext>>
roundVars == <<proposal, accepted, bonus, eos, judged>>
outVars == <<prompt, out, seen, committed>>
vars == <<pc, outVars, engineVars, roundVars, faults>>

Goto(from, to) == pc = from /\ pc' = to

Init ==
    /\ pc = "idle" /\ prompt = <<>> /\ out = <<>> /\ seen = <<>> /\ committed = 0
    /\ draft = <<>> /\ target = <<>> /\ draftNext = None /\ targetNext = None
    /\ proposal = <<>> /\ accepted = 0 /\ bonus = None /\ eos = FALSE /\ judged = <<>>
    /\ faults = 0

NewRound == proposal' = <<>> /\ accepted' = 0 /\ bonus' = None /\ eos' = FALSE /\ judged' = <<>>

----------------------------------------------------------------------------
(* reset of both engines, and tokenisation. *)
Call(p) ==
    /\ pc = "idle"
    /\ prompt' = p /\ out' = <<>> /\ seen' = <<>>
    /\ draft' = <<>> /\ target' = <<>> /\ draftNext' = None /\ targetNext' = None
    /\ pc' = IF p = <<>> THEN "return" ELSE "prefill"
    /\ NewRound
    /\ UNCHANGED <<committed, faults>>

(* Prefill of all but the last prompt token, then one forward pass each.   *)
Prefill ==
    /\ Goto("prefill", "loop")
    /\ draft' = draft \o prompt /\ target' = target \o prompt
    /\ draftNext' = draft' /\ targetNext' = target'
    /\ committed' = Len(prompt)
    /\ UNCHANGED <<prompt, out, seen, roundVars, faults>>

(* The head of the loop. *)
Round ==
    /\ pc = "loop"
    /\ pc' = IF Len(out) < MaxTokens THEN "propose" ELSE "return"
    /\ NewRound
    /\ UNCHANGED <<outVars, engineVars, faults>>

----------------------------------------------------------------------------
(* The draft proposes up to k tokens, or stops at its own end of sequence. *)

K == IF NumSpec < MaxTokens - Len(out) THEN NumSpec ELSE MaxTokens - Len(out)

Propose(t) ==
    /\ pc = "propose" /\ Len(proposal) < K
    /\ t \notin DraftEos
    /\ proposal' = Append(proposal, t)
    /\ draft' = Append(draft, t) /\ draftNext' = draft'
    /\ UNCHANGED <<pc, outVars, target, targetNext, accepted, bonus, eos, judged, faults>>

(* draft_next_logits was taken; the sync computes it again. *)
ProposeDone ==
    /\ Goto("propose", "verify")
    /\ Len(proposal) = K \/ DraftEos # {}
    /\ draftNext' = None
    /\ UNCHANGED <<outVars, draft, target, targetNext, roundVars, faults>>

----------------------------------------------------------------------------
(* The target looks at one proposed token after the other. *)

(* Mutant: the target is not given the tokens it accepts. *)
AcceptUnforwarded ==
    /\ pc = "verify" /\ accepted < Len(proposal)
    /\ LET t == proposal[accepted + 1]
       IN  IF t \in TargetEos
           THEN eos' = TRUE /\ pc' = "commit" /\ UNCHANGED <<accepted, judged>>
           ELSE /\ accepted' = accepted + 1
                /\ judged' = Append(judged, targetNext)
                /\ UNCHANGED <<pc, eos>>
    /\ UNCHANGED <<outVars, engineVars, proposal, bonus, faults>>

Accept ==
    /\ pc = "verify" /\ accepted < Len(proposal)
    /\ LET t == proposal[accepted + 1]
       IN  IF t \in TargetEos
           THEN eos' = TRUE /\ pc' = "commit" /\ UNCHANGED <<accepted, judged, target, targetNext>>
           ELSE /\ accepted' = accepted + 1
                /\ judged' = Append(judged, targetNext)
                /\ target' = Append(target, t) /\ targetNext' = target'
                /\ UNCHANGED <<pc, eos>>
    /\ UNCHANGED <<outVars, draft, draftNext, proposal, bonus, faults>>

(* The bonus token comes from the residual distribution. *)
Reject(t) ==
    /\ Goto("verify", "commit") /\ accepted < Len(proposal)
    /\ bonus' = t
    /\ UNCHANGED <<outVars, engineVars, proposal, accepted, eos, judged, faults>>

VerifyDone ==
    /\ Goto("verify", "commit") /\ accepted = Len(proposal)
    /\ UNCHANGED <<outVars, engineVars, roundVars, faults>>

----------------------------------------------------------------------------
(* emit_token for each accepted token; committed_len counts them at the    *)
(* end.                                                                    *)

EmitAccepted ==
    /\ pc = "commit"
    /\ LET n == Len(prompt) + Len(out) - committed + 1
       IN  /\ n <= accepted
           /\ out' = Append(out, proposal[n]) /\ seen' = Append(seen, judged[n])
    /\ UNCHANGED <<pc, prompt, committed, engineVars, roundVars, faults>>

Commit ==
    /\ pc = "commit" /\ Len(prompt) + Len(out) - committed = accepted
    /\ committed' = committed + accepted
    /\ pc' = IF eos \/ Len(out) >= MaxTokens THEN "return" ELSE "bonus"
    /\ UNCHANGED <<prompt, out, seen, engineVars, roundVars, faults>>

(* Mutant: an end of sequence drawn from the target is skipped. *)
BonusSkipsEos(t) ==
    /\ pc = "bonus" /\ bonus \in {None, t}
    /\ IF t \in TargetEos
       THEN /\ pc' = "loop" /\ draft' = SubSeq(draft, 1, committed) /\ draftNext' = draft'
            /\ UNCHANGED <<bonus, judged, target, targetNext>>
       ELSE /\ pc' = "emit" /\ bonus' = t
            /\ judged' = Append(judged, targetNext)
            /\ target' = Append(target, t) /\ targetNext' = target'
            /\ UNCHANGED <<draft, draftNext>>
    /\ UNCHANGED <<outVars, proposal, accepted, eos, faults>>

(* The residual sample, or a fresh sample when nothing was rejected. *)
Bonus(t) ==
    /\ pc = "bonus" /\ bonus \in {None, t}
    /\ IF t \in TargetEos
       THEN pc' = "return" /\ UNCHANGED <<bonus, judged, target, targetNext>>
       ELSE /\ pc' = "emit" /\ bonus' = t
            /\ judged' = Append(judged, targetNext)
            /\ target' = Append(target, t) /\ targetNext' = target'
    /\ UNCHANGED <<outVars, draft, draftNext, proposal, accepted, eos, faults>>

EmitBonus ==
    /\ Goto("emit", "sync")
    /\ out' = Append(out, bonus) /\ seen' = Append(seen, judged[Len(judged)])
    /\ committed' = committed + 1
    /\ UNCHANGED <<prompt, engineVars, roundVars, faults>>

(* InferenceEngine::truncate cuts the KV cache and nothing else. *)
Truncate(kv, n) == IF Recurrent \/ Len(kv) <= n THEN kv ELSE SubSeq(kv, 1, n)

(* Mutant: the roll back keeps one token too many. *)
SyncKeepsOne ==
    /\ Goto("sync", "loop")
    /\ draft' = Append(Truncate(draft, committed), bonus) /\ draftNext' = draft'
    /\ UNCHANGED <<outVars, target, targetNext, roundVars, faults>>

(* The delta sync: roll the draft back, give it the bonus token. *)
Sync ==
    /\ Goto("sync", "loop")
    /\ draft' = Append(Truncate(draft, committed - 1), bonus) /\ draftNext' = draft'
    /\ UNCHANGED <<outVars, target, targetNext, roundVars, faults>>

----------------------------------------------------------------------------
(* generate returns. *)
Return ==
    /\ Goto("return", "idle")
    /\ UNCHANGED <<outVars, engineVars, roundVars, faults>>

(* A forward pass or a decoding fails and `?` returns the error.  A        *)
(* failing prefill may leave a part of the prompt in either cache.         *)
Fail ==
    /\ faults < MaxFaults /\ faults' = faults + 1
    /\ pc \in {"prefill", "propose", "verify", "commit", "bonus", "emit", "sync"} /\ pc' = "idle"
    /\ IF pc = "prefill"
       THEN \E i, j \in 0..Len(prompt) :
               draft' = SubSeq(prompt, 1, i) /\ target' = SubSeq(prompt, 1, j)
       ELSE UNCHANGED <<draft, target>>
    /\ UNCHANGED <<outVars, draftNext, targetNext, roundVars>>

Generate ==
    \/ Prefill \/ Round \/ ProposeDone \/ Accept \/ VerifyDone \/ EmitAccepted \/ Commit
    \/ EmitBonus \/ Sync \/ Return \/ Fail
    \/ \E t \in Tokens : Propose(t) \/ Reject(t) \/ Bonus(t)

Next == Generate \/ \E p \in Prompts : Call(p)

Spec == Init /\ [][Next]_vars

(* generate is one synchronous function: it keeps running. *)
FairSpec == Spec /\ WF_vars(Generate)

----------------------------------------------------------------------------
(* Properties. *)

Contexts == Seq(Tokens) \cup {None}

(* Every variable has its type, and no more than max_tokens are emitted.   *)
TypeOK ==
    /\ pc \in {"idle", "prefill", "loop", "propose", "verify", "commit", "bonus", "emit",
               "sync", "return"}
    /\ prompt \in Seq(Tokens) /\ out \in Seq(Tokens) /\ Len(out) <= MaxTokens
    /\ draft \in Seq(Tokens) /\ target \in Seq(Tokens)
    /\ draftNext \in Contexts /\ targetNext \in Contexts
    /\ proposal \in Seq(Tokens) /\ accepted \in 0..Len(proposal)
    /\ bonus \in Tokens \cup {None} /\ eos \in BOOLEAN
    /\ committed \in Nat /\ faults \in 0..MaxFaults
    /\ seen \in Seq(Contexts) /\ judged \in Seq(Contexts)

(* The invariant the delta sync depends on: at the top of every round both *)
(* caches hold exactly the prompt and the output, and both predictions are *)
(* for the token after them, whatever was proposed, accepted and rejected. *)
Aligned ==
    pc = "loop" =>
        /\ committed = Len(prompt) + Len(out)
        /\ draft = prompt \o out /\ target = prompt \o out
        /\ draftNext = draft /\ targetNext = target

(* Speculative decoding emits what plain decoding with the target might:   *)
(* no more than max_tokens, each token chosen by the target's prediction   *)
(* after exactly the prompt and the output before it.                      *)
Decoding == INSTANCE TargetDecoding WITH running <- pc # "idle"

ImplementsDecoding == Decoding!Spec

(* Every call returns, with or without an error. *)
CallsReturn == pc # "idle" ~> pc = "idle"
=============================================================================
