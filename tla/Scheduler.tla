----------------------------- MODULE Scheduler -----------------------------
(***************************************************************************)
(* The continuous-batching scheduler of oxillama-runtime (scheduler.rs)    *)
(* with the engine that drives it: schedule() picks a batch, the engine    *)
(* runs it through the model, appends the token it sampled for every       *)
(* sequence whose last position was fed, finishes those that ended, and    *)
(* drains.  Clients add, stop and cancel between any two of these steps.   *)
(*                                                                         *)
(* A token is its position in the sequence (prompt, then output), so a     *)
(* batch entry is the interval of positions it feeds.  Position 0 is no    *)
(* token of the sequence: it stands for the token 0 that is fed in its     *)
(* place when there is none yet.                                           *)
(***************************************************************************)
EXTENDS LruQueue, FiniteSetsExt

CONSTANTS
    Shapes,            \* prompt lengths and max_tokens clients submit
    Requests,          \* bound: the requests there can be at a time.  The code
                       \* counts ids up and only tests them for equality, so
                       \* an id that is gone stands for the next one
    MaxSequences,      \* SchedulerConfig, lines 183-192
    MaxBatchTokens,
    MaxBatchSequences,
    MaxPrefillTokens,
    None

(* SeqState; nothing in the runtime ever sets Preempted. *)
States == {"waiting", "prefilling", "decoding", "finished"}

(* Sequence *)
SequenceType ==
    [prompt : Nat, max : Nat, state : States, pos : Nat, out : Nat,
     stopped : BOOLEAN]

ASSUME SchedulerAssumption ==
    /\ Shapes \subseteq Nat \X Nat
    /\ {MaxSequences, MaxBatchTokens, MaxBatchSequences, MaxPrefillTokens}
           \subseteq Nat \ {0}
    /\ None \notin SequenceType

VARIABLES
    sequences,  \* the sequence of each id, None before it is added and
                \* after it is removed or drained
    waiting,    \* waiting_queue
    active,     \* active_ids
    batch,      \* the scheduled batch the engine has not finished, or <<>>
    kv          \* how many tokens of each sequence its KV cache holds,
                \* none once the sequence is gone

vars == <<sequences, waiting, active, batch, kv>>

Present(id) == sequences[id] # None

Sequence(p, m) ==
    [prompt |-> p, max |-> m, state |-> "waiting", pos |-> 0, out |-> 0,
     stopped |-> FALSE]

(* total_tokens, at_limit *)
Total(s) == s.prompt + s.out
AtLimit(s) == Total(s) >= s.max

(* The position that is fed first: an empty prompt starts with token 0. *)
First(s) == IF s.prompt = 0 THEN 0 ELSE 1

(* A batch entry: positions from..to of sequence id, none if to < from. *)
Entry(id, from, to, prefill) ==
    [id |-> id, from |-> from, to |-> to, prefill |-> prefill]

(* The sum of the first n of a list of sizes. *)
FirstSum(sizes, n) == LET Size(i) == sizes[i] IN MapThenSumSet(Size, 1 .. n)

(* ScheduledBatch::total_tokens *)
BatchTokens(b) == FirstSum([i \in DOMAIN b |-> b[i].to - b[i].from + 1], Len(b))
Scheduled(b, id) == \E i \in DOMAIN b : b[i].id = id

Init ==
    /\ sequences = [id \in Requests |-> None]
    /\ waiting = <<>> /\ active = <<>> /\ batch = <<>>
    /\ kv = [id \in Requests |-> 0]

----------------------------------------------------------------------------
(* schedule().  Its first phase takes waiting sequences while there is     *)
(* room, the second goes on with the prompts under way while the token     *)
(* budget lasts, the third decodes.                                        *)

(* The first n of a list, all of it when it is shorter. *)
Take(n, q) == SubSeq(q, 1, Min({n, Len(q)}))

(* Mutant: the room among the active sequences is not checked. *)
PromotedUnlimited == Take(MaxBatchSequences, waiting)

(* Phase 1: the sequences promoted. *)
Promoted == Take(Min({MaxSequences - Len(active), MaxBatchSequences}), waiting)

(* Mutant: those phase 1 has just scheduled are scheduled again. *)
ContinuingAgain ==
    Promoted \o Kept(active, {id \in Ids(active) : sequences[id].state = "prefilling"})

(* Phase 2: the active sequences still in their prompt. *)
Continuing == Kept(active, {id \in Ids(active) : sequences[id].state = "prefilling"})

(* The most a sequence prefills in one batch. *)
Chunk(id) == Min({sequences[id].prompt - sequences[id].pos, MaxPrefillTokens})

(* The chunks of phases 1 and 2, in order.  Phase 1 does not look at the   *)
(* budget; phase 2 gives each sequence what those before it left, and ends *)
(* where nothing is left.  A prompt under way has positions left, so only  *)
(* the chunk of an empty prompt is empty.                                  *)
PrefillEntries ==
    LET q        == Promoted \o Continuing
        chunks   == [i \in DOMAIN q |-> Chunk(q[i])]
        Left(i)  == MaxBatchTokens - FirstSum(chunks, i - 1)
        Share(i) == IF i <= Len(Promoted) THEN chunks[i] ELSE Min({chunks[i], Left(i)})
        Pos(i)   == sequences[q[i]].pos
        last     == Max({0} \cup {i \in DOMAIN q : i <= Len(Promoted) \/ Left(i) > 0})
    IN  [i \in 1 .. last |-> Entry(q[i], Pos(i) + 1, Pos(i) + Share(i), TRUE)]

(* The active sequences that decode. *)
Decoding ==
    {id \in Ids(active) : LET s == sequences[id]
                          IN  s.state = "decoding" /\ ~s.stopped /\ ~AtLimit(s)}

(* The decode entries of the sequences in a list: each feeds its last      *)
(* token, of the prompt while nothing is generated, and token 0 when the   *)
(* prompt is empty, too.                                                   *)
LastTokens(q) ==
    LET T(i) == Total(sequences[q[i]]) IN [i \in DOMAIN q |-> Entry(q[i], T(i), T(i), FALSE)]

(* Mutant: decoding does not look at the token budget. *)
DecodeEntriesUnbudgeted(prefills) ==
    LastTokens(Take(MaxBatchSequences - Len(prefills), Kept(active, Decoding)))

(* Phase 3: sequences decode in the order of the active list, as far as    *)
(* both limits go.                                                         *)
DecodeEntries(prefills) ==
    LET room == Min({MaxBatchSequences - Len(prefills),
                     MaxBatchTokens - BatchTokens(prefills)})
    IN  LastTokens(Take(room, Kept(active, Decoding)))

(* The prompt position moves to the end of the chunk; the last chunk ends  *)
(* the prefill.                                                            *)
Advance(s, to) ==
    [s EXCEPT !.pos = to, !.state = IF to >= s.prompt THEN "decoding" ELSE "prefilling"]

(* What schedule() leaves in active_ids. *)
Continues(s) == ~s.stopped /\ ~AtLimit(s) /\ s.state # "finished"

(* has_work *)
HasWork == waiting # <<>> \/ active # <<>>

Schedule ==
    /\ batch = <<>> /\ HasWork
    /\ waiting' = SubSeq(waiting, Len(Promoted) + 1, Len(waiting))
    /\ \E pre \in {PrefillEntries} :
       /\ batch' = pre \o DecodeEntries(pre)
       /\ sequences' = [id \in Requests |->
              IF Scheduled(pre, id)
              THEN Advance(sequences[id], pre[CHOOSE i \in DOMAIN pre : pre[i].id = id].to)
              ELSE sequences[id]]
    /\ LET running == active \o Promoted
       IN  active' = Kept(running, {id \in Ids(running) : Continues(sequences'[id])})
    /\ UNCHANGED kv

----------------------------------------------------------------------------
(* The other operations.                                                   *)

Without(q, id) == Kept(q, Requests \ {id})

(* An id that neither the scheduler nor the batch knows; which of them a   *)
(* new request gets makes no difference.                                   *)
Free(id) == ~Present(id) /\ ~Scheduled(batch, id)
NewId == CHOOSE id \in Requests : Free(id)

(* Mutant: new requests go to the head of the queue. *)
AddRequestFirst(id, shape) ==
    /\ Free(id) /\ id = NewId
    /\ sequences' = [sequences EXCEPT ![id] = Sequence(shape[1], shape[2])]
    /\ waiting' = <<id>> \o waiting
    /\ UNCHANGED <<active, batch, kv>>

(* add_request. *)
AddRequest(id, shape) ==
    /\ Free(id) /\ id = NewId
    /\ sequences' = [sequences EXCEPT ![id] = Sequence(shape[1], shape[2])]
    /\ waiting' = Append(waiting, id)
    /\ UNCHANGED <<active, batch, kv>>

(* Mutant: a cancelled sequence stays in active_ids. *)
RemoveSequenceKeepsActive(id) ==
    /\ Present(id)
    /\ sequences' = [sequences EXCEPT ![id] = None]
    /\ waiting' = Without(waiting, id)
    /\ kv' = [kv EXCEPT ![id] = 0]
    /\ UNCHANGED <<active, batch>>

(* remove_sequence: a client leaves, whatever its sequence is doing. *)
RemoveSequence(id) ==
    /\ Present(id)
    /\ sequences' = [sequences EXCEPT ![id] = None]
    /\ waiting' = Without(waiting, id) /\ active' = Without(active, id)
    /\ kv' = [kv EXCEPT ![id] = 0]
    /\ UNCHANGED batch

(* finish_sequence and append_token on one sequence. *)
Finished(s) == [s EXCEPT !.state = "finished", !.stopped = TRUE]
Appended(s) == [s EXCEPT !.out = @ + 1]

(* finish_sequence: the user stops a sequence, whatever it is doing.  One  *)
(* that waits stays in the waiting queue.                                  *)
FinishSequence(id) ==
    /\ Present(id)
    /\ sequences' = [sequences EXCEPT ![id] = Finished(@)]
    /\ active' = Without(active, id)
    /\ UNCHANGED <<waiting, batch, kv>>

(* The entries of the batch whose sequence is still there. *)
Live(b) == {i \in DOMAIN b : Present(b[i].id)}

(* The engine runs the batch.  Every sequence whose last token was fed     *)
(* gets a new one, also when it was stopped meanwhile; `ends` are those    *)
(* for which the engine sampled EOS and calls finish_sequence instead.     *)
RunBatch(ends) ==
    LET fed     == {batch[i].id : i \in Live(batch)}
        sampled == {batch[i].id : i \in {j \in Live(batch) :
                        /\ batch[j].from <= batch[j].to
                        /\ batch[j].to = Total(sequences[batch[j].id])}}
        FedTo(id) == LET e == batch[CHOOSE i \in Live(batch) : batch[i].id = id]
                     IN  kv[id] + (e.to - e.from + 1)
    IN  /\ batch # <<>> /\ batch' = <<>>
        /\ ends \subseteq sampled
        /\ sequences' = [id \in Requests |->
               IF id \in ends THEN Finished(sequences[id])
               ELSE IF id \in sampled THEN Appended(sequences[id])
               ELSE sequences[id]]
        /\ kv' = [id \in Requests |-> IF id \in fed THEN FedTo(id) ELSE kv[id]]
        /\ active' = Kept(active, Requests \ ends)
        /\ UNCHANGED waiting

(* drain_finished: what it takes out of the scheduler. *)
Done(s) == s # None /\ (s.state = "finished" \/ s.stopped \/ AtLimit(s))

DrainFinished ==
    /\ batch = <<>> /\ \E id \in Requests : Done(sequences[id])
    /\ sequences' = [id \in Requests |-> IF Done(sequences[id]) THEN None ELSE sequences[id]]
    /\ active' = Kept(active, {id \in Requests : ~Done(sequences[id])})
    /\ waiting' = Kept(waiting, {id \in Requests : ~Done(sequences[id])})
    /\ kv' = [id \in Requests |-> IF Done(sequences[id]) THEN 0 ELSE kv[id]]
    /\ UNCHANGED batch

Next ==
    \/ \E id \in Requests, shape \in Shapes : AddRequest(id, shape)
    \/ \E id \in Requests : RemoveSequence(id) \/ FinishSequence(id)
    \/ Schedule
    \/ \E ends \in SUBSET Requests : RunBatch(ends)
    \/ DrainFinished

Spec == Init /\ [][Next]_vars

(* The engine loop runs while there is work and drains what finished. *)
Fairness ==
    /\ WF_vars(Schedule)
    /\ WF_vars(\E ends \in SUBSET Requests : RunBatch(ends))
    /\ WF_vars(DrainFinished)

FairSpec == Spec /\ Fairness

----------------------------------------------------------------------------
(* Properties.                                                             *)

TypeOK ==
    /\ \A id \in Requests : Present(id) =>
           /\ DOMAIN sequences[id] = DOMAIN Sequence(1, 1)
           /\ sequences[id].state \in States
           /\ sequences[id].pos \in 0 .. sequences[id].prompt
           /\ sequences[id].state = "finished" => sequences[id].stopped
    /\ \A i \in DOMAIN batch : batch[i].id \in Requests
    /\ kv \in [Requests -> Nat]

(* Every variable has its type, and whatever is added, scheduled, stopped, *)
(* cancelled and drained in between, a sequence is in one list at most and *)
(* once: in the waiting queue every one that waits and else only those     *)
(* that were stopped there, which finish_sequence leaves in it; in         *)
(* active_ids every one under way that is neither stopped nor at its       *)
(* limit, never a stopped one, and at most MaxSequences.  One that was     *)
(* stopped while it waited has been fed nothing.                           *)
ListsMatchStates ==
    LET InState(S) == {id \in Requests : Present(id) /\ sequences[id].state \in S}
        Stopped == {id \in Requests : Present(id) /\ sequences[id].stopped}
    IN  /\ TypeOK
        /\ NoDuplicates(waiting \o active)
        /\ InState({"waiting"}) \subseteq Ids(waiting)
        /\ Ids(waiting) \subseteq InState({"waiting"}) \cup (InState({"finished"}) \cap Stopped)
        /\ \A id \in Ids(waiting) : kv[id] = 0 /\ sequences[id].pos = 0 /\ ~Scheduled(batch, id)
        /\ Ids(active) \subseteq InState({"prefilling", "decoding"}) \ Stopped
        /\ \A id \in InState({"prefilling", "decoding"}) \ Stopped :
               ~AtLimit(sequences[id]) => id \in Ids(active)
        /\ Len(active) <= MaxSequences

(* Whatever the interleaving of chunks, decodes, stops and cancellations,  *)
(* a batch feeds a sequence once, and every token of it that the model     *)
(* gets is the first it has not got yet; a token is sampled only when all  *)
(* before it were fed.  A sequence with an empty prompt has one token in   *)
(* its cache that is not its own, token 0 in front (scheduler.rs:410); no  *)
(* other sequence is ever fed one.                                         *)
FedOnce ==
    /\ \A i, j \in DOMAIN batch : batch[i].id = batch[j].id => i = j
    /\ \A i \in Live(batch) :
           LET s == sequences[batch[i].id]
           IN  batch[i].from <= batch[i].to =>
                   batch[i].from = First(s) + kv[batch[i].id] /\ batch[i].to <= Total(s)
    /\ \A id \in Requests : Present(id) /\ ~Scheduled(batch, id) =>
           LET s == sequences[id]
           IN  s.stopped \/ kv[id] = IF s.out = 0 THEN s.pos ELSE Total(s) - First(s)

(* What the limits of a batch really bound: new sequences and decodes      *)
(* together never exceed MaxBatchSequences, and the token budget is only   *)
(* ever overrun by first chunks, each within MaxPrefillTokens.             *)
BatchWithinLimits ==
    LET Fresh == {i \in DOMAIN batch : batch[i].prefill /\ batch[i].from = 1}
        Decodes == {i \in DOMAIN batch : ~batch[i].prefill}
    IN  /\ Cardinality(Fresh \cup Decodes) <= MaxBatchSequences
        /\ BatchTokens(batch) > MaxBatchTokens => Fresh = DOMAIN batch
        /\ \A i \in DOMAIN batch : batch[i].to - batch[i].from < MaxPrefillTokens

(* Clients may go on adding requests for ever.  The waiting queue is fair  *)
(* all the same: no newcomer keeps out one that came before it.  And what  *)
(* was let in leaves the scheduler, unless requests wait again and again:  *)
(* phase 1 may then fill every batch before phase 3 gets to decode.        *)
ServedInTurn ==
    \A id \in Requests :
        Present(id) ~> ~Present(id) \/ (id \notin Ids(waiting) /\ []<>(waiting # <<>>))
=============================================================================
