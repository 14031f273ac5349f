-------------------------- MODULE InferenceWorker --------------------------
(***************************************************************************)
(* The inference worker of oxillama-server (worker.rs) with everything it  *)
(* shares with the HTTP layer: the bounded request queue (queue.rs), the   *)
(* reply and token channels of the handlers (routes/chat.rs, ws.rs), the   *)
(* LoRA registry (admin/loras.rs) and the namespaced prefix-cache registry *)
(* (prefix_registry.rs).  One thread owns the engine and serves requests   *)
(* one at a time; a panic while it serves one is caught and the engine is  *)
(* reset.                                                                  *)
(*                                                                         *)
(* What the engine computes is abstracted to its provenance: a KV-cache    *)
(* position remembers the token it belongs to and the LoRA adapters that   *)
(* were attached to the model's layers when it was computed.  Two KV       *)
(* states are interchangeable exactly when their provenance is equal.      *)
(***************************************************************************)
EXTENDS Integers, Sequences, FiniteSets, LruQueue

CONSTANTS
    Requests,      \* one identifier per HTTP / WebSocket call
    Names,         \* LoRA adapter names clients and the admin use
    Weights,       \* contents of adapter files
    Scales,        \* adapter scales, in units of 10^-7
    UnitScale,     \* the scale 1.0, the default
    Tokens,        \* prompt tokens
    GenToken,      \* stands for every generated token
    None,          \* no value
    Shapes,        \* the calls clients make: [kind, prompt, lora, cache]
    InitLoras,     \* adapters registered before the first request
    Unsupported,   \* adapters apply_lora_scaled rejects on this architecture
    Composes,      \* TRUE: apply_lora_scaled pushes (mistral, granite, ...);
                   \* FALSE: it falls back to set_lora, which replaces (llama)
    QueueCap,      \* capacity of the BatchRequest channel
    ChanCap,       \* capacity of a token channel (32 in the code)
    MaxTokens,     \* max_tokens of every request
    MaxNamespaces, \* PrefixCacheRegistry::max_namespaces
    MaxEntries,    \* PrefixCacheConfig::max_entries
    MinPrefix,     \* PrefixCacheConfig::min_prefix_len
    MaxPanics,     \* bound: panics in a behaviour
    MaxAdmin       \* bound: admin operations in a behaviour

Kinds == {"generate", "sse", "ws", "embed"}
Prompts == Seq(Tokens)

ShapeType ==
    [kind : Kinds, prompt : Prompts, lora : Seq(Names \X Scales), cache : BOOLEAN]

(* An adapter as it sits on a stack or on a layer. *)
Adapters == Weights \X Scales

ASSUME ConstantsAssumption ==
    /\ None \notin Requests /\ None \notin Weights /\ None \notin ShapeType
    /\ GenToken \notin Tokens
    /\ Shapes \subseteq ShapeType
    /\ InitLoras \in [Names -> Weights \cup {None}]
    /\ Unsupported \subseteq Weights
    /\ Scales \subseteq Nat /\ UnitScale \in Scales
    /\ Composes \in BOOLEAN
    /\ QueueCap \in Nat \ {0} /\ ChanCap \in Nat \ {0}
    /\ MaxNamespaces \in Nat \ {0} /\ MaxEntries \in Nat \ {0}
    /\ MinPrefix \in Nat
    /\ MaxTokens \in Nat /\ MaxPanics \in Nat /\ MaxAdmin \in Nat

VARIABLES
    req,        \* the shape each submitted call was given
    outcome,    \* what the reply channel of each call holds
    gone,       \* the reply receiver was dropped
    cancel,     \* the CancellationToken of a streaming call
    rxopen,     \* the receiving end of the token channel is alive
    chan,       \* tokens waiting in the token channel
    lost,       \* some decoded text never entered the token channel
    finish,     \* the finish reason the handler reported to the client
    queue,      \* the BatchRequest channel
    qopen,      \* some sender of that channel is alive
    loras,      \* AppState::loras
    pc,         \* where the worker thread is
    cur,        \* the request it serves
    ns,         \* that request's prefix-cache namespace
    gen,        \* tokens generated for it so far
    li,         \* position in the request's lora_selection
    count,      \* lora_count: the adapters apply_lora_selection applied
    stack,      \* InferenceEngine::lora_stack
    layers,     \* adapters attached to the model's linear layers, with multiplicity
    kv,         \* the engine's KV cache
    caches,     \* RegistryInner::caches: namespace -> (key -> KV state)
    lru,        \* RegistryInner::lru
    panics,     \* panics so far
    admin       \* admin operations so far

clientVars == <<req, outcome, gone, cancel, rxopen, chan, lost, finish>>
queueVars  == <<queue, qopen>>
loraVars   == <<loras, admin>>
workerVars == <<pc, cur, ns, gen, li, count>>
modelVars  == <<stack, layers>>
cacheVars  == <<caches, lru>>
vars == <<clientVars, queueVars, loraVars, workerVars, modelVars, kv,
          cacheVars, panics>>

----------------------------------------------------------------------------
(* Data the engine and the caches hold. *)

NoLayers == [a \in Adapters |-> 0]

(* An empty prefix cache, and a registry with no namespace. *)
NoCache == [x \in {} |-> None]

(* A KV position: the token and the adapters it was computed under. *)
KvEntry == [tok : Tokens \cup {GenToken}, under : [Adapters -> Nat]]

(* ForwardPass::forward over a run of tokens with the present layers. *)
Forward(state, toks) ==
    state \o [i \in 1..Len(toks) |-> [tok |-> toks[i], under |-> layers]]

(* format!("{scale:.6}"): six decimals are printed. *)
Fixed6(scale) == (scale + 5) \div 10
Printed == {Fixed6(scale) : scale \in Scales}

(* What a namespace key tells apart: how often each printed (name, scale)  *)
(* pair occurs.  The model id is the same for every request of a worker.   *)
Namespaces == [Names \X Printed -> Nat]

(* Mutant: one cache for every selection, as before the D6 change. *)
CacheNamespaceShared(selection) == [p \in Names \X Printed |-> 0]

(* cache_namespace: the (name, scale) pairs that were REQUESTED, sorted    *)
(* and printed, so neither order nor registration matters.                 *)
CacheNamespace(selection) ==
    [p \in Names \X Printed |->
        Cardinality({i \in DOMAIN selection :
                        <<selection[i][1], Fixed6(selection[i][2])>> = p})]

IsPrefix(p, q) == Len(p) <= Len(q) /\ SubSeq(q, 1, Len(p)) = p

(* PrefixKvCache::lookup: the longest stored key that is a prefix of the   *)
(* prompt, or None.  PrefixCache.tla checks the radix tree against this.   *)
Lookup(cache, prompt) ==
    LET hits == {k \in DOMAIN cache : IsPrefix(k, prompt)}
    IN  IF prompt # <<>> /\ \E k \in hits : Len(k) >= MinPrefix
        THEN CHOOSE k \in hits : \A j \in hits : Len(j) <= Len(k)
        ELSE None

(* PrefixCacheRegistry::with_cache before it runs its closure: touch, then *)
(* evict the least recently used namespace when a new one does not fit.    *)
TouchedLru(n) ==
    LET touched == Touch(lru, n)
    IN  IF n \notin DOMAIN caches /\ Len(touched) > MaxNamespaces
        THEN Tail(touched) ELSE touched

(* Mutant: the evicted namespace leaves the queue but keeps its cache. *)
WithCacheKeepsEvicted(n) ==
    [m \in DOMAIN caches \cup {n} |-> IF m \in DOMAIN caches THEN caches[m] ELSE NoCache]

WithCache(n) ==
    LET touched == Touch(lru, n)
        kept == IF n \notin DOMAIN caches /\ Len(touched) > MaxNamespaces
                THEN DOMAIN caches \ {Head(touched)} ELSE DOMAIN caches
    IN  [m \in kept \cup {n} |-> IF m \in kept THEN caches[m] ELSE NoCache]

(* An entry apply_lora_scaled rejects; the default implementation, which   *)
(* calls apply_lora, has no way to honour a scale other than 1.0.          *)
Rejected(a) == a[1] \in Unsupported \/ (~Composes /\ a[2] # UnitScale)

(* ForwardPass::apply_lora_stack over the whole engine stack: every entry  *)
(* is pushed, or every entry replaces the previous one.                    *)
ApplyLoraStack(s) ==
    IF Composes
    THEN [a \in Adapters |->
            layers[a] + Cardinality({i \in DOMAIN s : s[i] = a})]
    ELSE [a \in Adapters |-> IF a = s[Len(s)] THEN 1 ELSE 0]

Prompt == req[cur].prompt

----------------------------------------------------------------------------
Init ==
    /\ req = [r \in Requests |-> None]
    /\ outcome = [r \in Requests |-> "new"]
    /\ gone = [r \in Requests |-> FALSE]
    /\ cancel = [r \in Requests |-> FALSE]
    /\ rxopen = [r \in Requests |-> TRUE]
    /\ chan = [r \in Requests |-> 0]
    /\ lost = [r \in Requests |-> FALSE]
    /\ finish = [r \in Requests |-> "none"]
    /\ queue = <<>> /\ qopen = TRUE
    /\ loras = InitLoras /\ admin = 0
    /\ pc = "idle" /\ cur = None /\ ns = None /\ gen = 0 /\ li = 1 /\ count = 0
    /\ stack = <<>> /\ layers = NoLayers /\ kv = <<>>
    /\ caches = NoCache /\ lru = <<>>
    /\ panics = 0

----------------------------------------------------------------------------
(* Clients and handlers. *)

Streams(r) == req[r].kind \in {"sse", "ws"}

(* Mutant: an unbounded channel. *)
EnqueueUnbounded(r) ==
    /\ outcome[r] = "new" /\ qopen
    /\ \E s \in Shapes : req' = [req EXCEPT ![r] = s]
    /\ outcome' = [outcome EXCEPT ![r] = "pending"]
    /\ queue' = Append(queue, r)
    /\ UNCHANGED <<gone, cancel, rxopen, chan, lost, finish, qopen, loraVars,
                   workerVars, modelVars, kv, cacheVars, panics>>

(* A handler's queue.try_send succeeds. *)
Enqueue(r) ==
    /\ outcome[r] = "new" /\ qopen /\ Len(queue) < QueueCap
    /\ \E s \in Shapes : req' = [req EXCEPT ![r] = s]
    /\ outcome' = [outcome EXCEPT ![r] = "pending"]
    /\ queue' = Append(queue, r)
    /\ UNCHANGED <<gone, cancel, rxopen, chan, lost, finish, qopen, loraVars,
                   workerVars, modelVars, kv, cacheVars, panics>>

(* TrySendError::Full becomes ServerError::QueueFull (429). *)
RejectFull(r) ==
    /\ outcome[r] = "new" /\ qopen /\ Len(queue) >= QueueCap
    /\ outcome' = [outcome EXCEPT ![r] = "full"]
    /\ UNCHANGED <<req, gone, cancel, rxopen, chan, lost, finish, queueVars,
                   loraVars, workerVars, modelVars, kv, cacheVars, panics>>

(* The client of a waiting call disconnects.  The handler of a plain call  *)
(* is dropped with its reply receiver.  An SSE stream only drops the token *)
(* receiver: the reply receiver lives on in the spawned finishing task.    *)
Disconnect(r) ==
    /\ outcome[r] = "pending"
    /\ \/ /\ req[r].kind \in {"generate", "embed"} /\ ~gone[r]
          /\ gone' = [gone EXCEPT ![r] = TRUE]
          /\ UNCHANGED rxopen
       \/ /\ req[r].kind = "sse" /\ rxopen[r]
          /\ rxopen' = [rxopen EXCEPT ![r] = FALSE]
          /\ UNCHANGED gone
    /\ UNCHANGED <<req, outcome, cancel, chan, lost, finish, queueVars, loraVars,
                   workerVars, modelVars, kv, cacheVars, panics>>

(* The client takes a token off its SSE or WebSocket channel. *)
ReadToken(r) ==
    /\ chan[r] > 0 /\ rxopen[r]
    /\ chan' = [chan EXCEPT ![r] = @ - 1]
    /\ UNCHANGED <<req, outcome, gone, cancel, rxopen, lost, finish, queueVars,
                   loraVars, workerVars, modelVars, kv, cacheVars, panics>>

(* A WebSocket write of a received token fails: handle_socket cancels the  *)
(* call and returns, dropping both receivers.                              *)
WsSendFails(r) ==
    /\ chan[r] > 0 /\ rxopen[r] /\ req[r].kind = "ws"
    /\ cancel' = [cancel EXCEPT ![r] = TRUE]
    /\ rxopen' = [rxopen EXCEPT ![r] = FALSE]
    /\ gone' = [gone EXCEPT ![r] = TRUE]
    /\ UNCHANGED <<req, outcome, chan, lost, finish, queueVars, loraVars,
                   workerVars, modelVars, kv, cacheVars, panics>>

(* The finishing task of a stream computes the reason it reports.  The     *)
(* WebSocket handler gets there once the token channel is drained.         *)
ReportFinish(r) ==
    /\ outcome[r] \in {"ok", "err", "dropped"} /\ finish[r] = "none"
    /\ \/ req[r].kind = "sse"
       \/ req[r].kind = "ws" /\ rxopen[r] /\ chan[r] = 0
    /\ finish' = [finish EXCEPT ![r] =
                    CASE outcome[r] = "ok" -> IF cancel[r] THEN "cancelled" ELSE "complete"
                      [] outcome[r] # "ok" /\ req[r].kind = "sse" /\ cancel[r] -> "cancelled"
                      [] OTHER -> "error"]
    /\ UNCHANGED <<req, outcome, gone, cancel, rxopen, chan, lost, queueVars,
                   loraVars, workerVars, modelVars, kv, cacheVars, panics>>

(* The server stops: the last AppState, and with it the last sender, is    *)
(* dropped.  Handlers of plain and WebSocket calls hold an AppState while  *)
(* they wait; the finishing task of an SSE stream does not.                *)
CloseQueue ==
    /\ qopen
    /\ \A r \in Requests : outcome[r] = "pending" => req[r].kind = "sse" \/ gone[r]
    /\ qopen' = FALSE
    /\ UNCHANGED <<clientVars, queue, loraVars, workerVars, modelVars, kv,
                   cacheVars, panics>>

----------------------------------------------------------------------------
(* The admin's LoRA registry.  apply_lora_selection holds the read lock    *)
(* while it pushes and applies, so a writer waits for it.                  *)

LorasUnlocked == pc \notin {"push", "apply"}

AdminRegister(n, w) ==
    /\ LorasUnlocked /\ admin < MaxAdmin
    /\ loras' = [loras EXCEPT ![n] = w]
    /\ admin' = admin + 1
    /\ UNCHANGED <<clientVars, queueVars, workerVars, modelVars, kv, cacheVars, panics>>

AdminUnregister(n) ==
    /\ LorasUnlocked /\ admin < MaxAdmin
    /\ loras[n] # None
    /\ loras' = [loras EXCEPT ![n] = None]
    /\ admin' = admin + 1
    /\ UNCHANGED <<clientVars, queueVars, workerVars, modelVars, kv, cacheVars, panics>>

----------------------------------------------------------------------------
(* The worker thread: run_worker, process_one_request, run_generate. *)

(* The worker leaves process_one_request; its locals go out of scope. *)
Idle == pc' = "idle" /\ cur' = None /\ ns' = None /\ gen' = 0 /\ li' = 1 /\ count' = 0

(* process_one_request's early return: the caller is gone, or the stream   *)
(* was cancelled.  A stream is told so, a plain reply sender is dropped.   *)
Shed ==
    /\ pc = "idle" /\ queue # <<>>
    /\ LET r == Head(queue)
       IN  /\ (gone[r] \/ (Streams(r) /\ cancel[r]))
           /\ outcome' = [outcome EXCEPT ![r] =
                            IF Streams(r) /\ ~gone[r] THEN "err" ELSE "dropped"]
    /\ queue' = Tail(queue)
    /\ UNCHANGED <<req, gone, cancel, rxopen, chan, lost, finish, qopen, loraVars,
                   workerVars, modelVars, kv, cacheVars, panics>>

(* The worker takes a request up and computes its namespace. *)
Start ==
    /\ pc = "idle" /\ queue # <<>>
    /\ LET r == Head(queue)
       IN  /\ ~gone[r] /\ ~(Streams(r) /\ cancel[r])
           /\ cur' = r
           /\ ns' = CacheNamespace(req[r].lora)
           /\ pc' = CASE req[r].kind = "embed" -> "embed"
                      [] req[r].kind # "embed" /\ req[r].lora # <<>> -> "push"
                      [] OTHER -> "run"
    /\ gen' = 0 /\ li' = 1 /\ count' = 0
    /\ queue' = Tail(queue)
    /\ UNCHANGED <<clientVars, qopen, loraVars, modelVars, kv, cacheVars, panics>>

(* One turn of apply_lora_selection's loop; an unknown name is skipped. *)
PushLora ==
    /\ pc = "push" /\ li <= Len(req[cur].lora)
    /\ LET entry == req[cur].lora[li]
           w == loras[entry[1]]
       IN  IF w = None
           THEN UNCHANGED <<stack, count>>
           ELSE stack' = Append(stack, <<w, entry[2]>>) /\ count' = count + 1
    /\ li' = li + 1
    /\ UNCHANGED <<clientVars, queueVars, loraVars, pc, cur, ns, gen, layers, kv,
                   cacheVars, panics>>

(* The end of apply_lora_selection: apply_lora_stack runs when something   *)
(* was pushed; when it fails everything is taken off again.                *)
ApplyLora ==
    /\ pc = "push" /\ li > Len(req[cur].lora)
    /\ \/ /\ count = 0
          /\ UNCHANGED <<stack, layers, count>>
       \/ /\ count > 0 /\ \A i \in DOMAIN stack : ~Rejected(stack[i])
          /\ layers' = ApplyLoraStack(stack)
          /\ UNCHANGED <<stack, count>>
       \/ /\ count > 0 /\ \E i \in DOMAIN stack : Rejected(stack[i])
          /\ stack' = <<>> /\ layers' = NoLayers /\ count' = 0
    /\ pc' = "run"
    /\ UNCHANGED <<clientVars, queueVars, loraVars, cur, ns, gen, li, kv,
                   cacheVars, panics>>

Cached == req[cur].cache /\ Prompt # <<>>

(* The key try_prefix_cache_hit finds, and how much of it is restored: at  *)
(* least the last prompt token is always computed afresh.                  *)
HitKey == Lookup(WithCache(ns)[ns], Prompt)
Effective(k) == IF Len(k) < Len(Prompt) THEN Len(k) ELSE Len(Prompt) - 1
IsHit == HitKey # None /\ Effective(HitKey) > 0

Restored == SubSeq(WithCache(ns)[ns][HitKey], 1, Effective(HitKey))

TouchRegistry == caches' = WithCache(ns) /\ lru' = TouchedLru(ns)

(* Hit: prime_with_prefix restores the prefix and prefills the suffix. *)
PrefixHit ==
    /\ pc = "run" /\ Cached /\ IsHit
    /\ TouchRegistry
    /\ kv' = Forward(Restored, SubSeq(Prompt, Effective(HitKey) + 1, Len(Prompt)))
    /\ pc' = "decode"
    /\ UNCHANGED <<clientVars, queueVars, loraVars, cur, ns, gen, li, count,
                   modelVars, panics>>

(* A hit whose suffix prefill fails falls through to the miss path. *)
PrimeFails ==
    /\ pc = "run" /\ Cached /\ IsHit
    /\ TouchRegistry
    /\ kv' = Restored
    /\ pc' = "prefill"
    /\ UNCHANGED <<clientVars, queueVars, loraVars, cur, ns, gen, li, count,
                   modelVars, panics>>

PrefixMiss ==
    /\ pc = "run" /\ Cached /\ ~IsHit
    /\ TouchRegistry
    /\ pc' = "prefill"
    /\ UNCHANGED <<clientVars, queueVars, loraVars, cur, ns, gen, li, count,
                   modelVars, kv, panics>>

Prefilling == pc = "prefill" \/ (pc = "run" /\ ~Cached)

(* Mutant: the miss path forgets engine.reset. *)
PrefillNoReset ==
    /\ Prefilling
    /\ kv' = Forward(kv, Prompt)
    /\ pc' = IF Prompt = <<>> THEN "store" ELSE "decode"
    /\ UNCHANGED <<clientVars, queueVars, loraVars, cur, ns, gen, li, count,
                   modelVars, cacheVars, panics>>

(* engine.reset, then generate_detailed's prefill.  An empty prompt ends   *)
(* the generation there and then.                                          *)
Prefill ==
    /\ Prefilling
    /\ kv' = Forward(<<>>, Prompt)
    /\ pc' = IF Prompt = <<>> THEN "store" ELSE "decode"
    /\ UNCHANGED <<clientVars, queueVars, loraVars, cur, ns, gen, li, count,
                   modelVars, cacheVars, panics>>

(* A chunk of the prefill fails; the chunks before it are in the cache. *)
PrefillFails ==
    /\ Prefilling
    /\ \E n \in 0..Len(Prompt) : kv' = Forward(<<>>, SubSeq(Prompt, 1, n))
    /\ pc' = "fail"
    /\ UNCHANGED <<clientVars, queueVars, loraVars, cur, ns, gen, li, count,
                   modelVars, cacheVars, panics>>

(* Mutant: a full channel drops the text and says nothing. *)
CallbackForgetsCancel ==
    IF rxopen[cur] /\ chan[cur] < ChanCap
    THEN chan' = [chan EXCEPT ![cur] = @ + 1] /\ UNCHANGED <<cancel, lost>>
    ELSE lost' = [lost EXCEPT ![cur] = TRUE] /\ UNCHANGED <<cancel, chan>>

(* The stream callback: try_send into the token channel, and cancel when   *)
(* it is full or closed.                                                   *)
Callback ==
    IF rxopen[cur] /\ chan[cur] < ChanCap
    THEN /\ chan' = [chan EXCEPT ![cur] = @ + 1]
         /\ UNCHANGED <<cancel, lost>>
    ELSE /\ cancel' = [cancel EXCEPT ![cur] = TRUE]
         /\ lost' = [lost EXCEPT ![cur] = TRUE]
         /\ UNCHANGED chan

(* What one turn of the decode loop emits: nothing (a partial character,   *)
(* text held back for a stop sequence, a plain call) or some text.         *)
Emit ==
    \/ UNCHANGED <<chan, cancel, lost>>
    \/ Streams(cur) /\ Callback

DecodeToken ==
    /\ pc = "decode" /\ gen < MaxTokens
    /\ Emit
    /\ kv' = Append(kv, [tok |-> GenToken, under |-> layers])
    /\ gen' = gen + 1
    /\ UNCHANGED <<req, outcome, gone, rxopen, finish, queueVars, loraVars, pc, cur,
                   ns, li, count, modelVars, cacheVars, panics>>

(* Sampling fails, or the forward pass of a token already emitted does. *)
DecodeFails ==
    /\ pc = "decode" /\ gen < MaxTokens
    /\ Emit
    /\ pc' = "fail"
    /\ UNCHANGED <<req, outcome, gone, rxopen, finish, queueVars, loraVars, cur, ns,
                   gen, li, count, modelVars, kv, cacheVars, panics>>

(* End of generation, max_tokens or a full context; held text is flushed. *)
DecodeDone ==
    /\ pc = "decode"
    /\ Emit
    /\ pc' = "store"
    /\ UNCHANGED <<req, outcome, gone, rxopen, finish, queueVars, loraVars, cur, ns,
                   gen, li, count, modelVars, kv, cacheVars, panics>>

(* Mutant: the snapshot keeps the completion decoded after the prompt. *)
StoredUntruncated(cache, key) ==
    IF Len(key) < MinPrefix \/ Len(kv) < Len(key)
    THEN {cache}
    ELSE {[k \in {key} |-> kv]}

(* PrefixKvCache::store under a key, cut to the key's length.  It refuses  *)
(* a short key, a short KV state and a layer it cannot read.  Entries are  *)
(* evicted to keep the entry and memory limits; which ones the memory      *)
(* limit costs is left open here, PrefixCache has the order.               *)
Stored(cache, key) ==
    IF Len(key) < MinPrefix \/ Len(kv) < Len(key)
    THEN {cache}
    ELSE {cache} \cup
         {[k \in kept |-> IF k = key THEN SubSeq(kv, 1, Len(key)) ELSE cache[k]] :
            kept \in {K \in SUBSET (DOMAIN cache \cup {key}) : Cardinality(K) <= MaxEntries}}

(* store_prefix_cache; a call with cache_prompt = false skips it. *)
StorePrefix ==
    /\ pc = "store"
    /\ IF req[cur].cache
       THEN /\ lru' = TouchedLru(ns)
            /\ \E c \in Stored(WithCache(ns)[ns], Prompt) :
                  caches' = [WithCache(ns) EXCEPT ![ns] = c]
       ELSE UNCHANGED cacheVars
    /\ pc' = "done"
    /\ UNCHANGED <<clientVars, queueVars, loraVars, cur, ns, gen, li, count,
                   modelVars, kv, panics>>

(* Mutant: an early return on error skips unapply_all_loras. *)
ReplyUnappliesOnSuccess ==
    /\ pc \in {"done", "fail"}
    /\ IF count > 0 /\ pc = "done"
       THEN stack' = <<>> /\ layers' = NoLayers ELSE UNCHANGED modelVars
    /\ outcome' = [outcome EXCEPT ![cur] =
                     IF gone[cur] THEN "dropped" ELSE IF pc = "done" THEN "ok" ELSE "err"]
    /\ Idle
    /\ UNCHANGED <<req, gone, cancel, rxopen, chan, lost, finish, queueVars, loraVars,
                   kv, cacheVars, panics>>

(* The tail of process_one_request: unapply what was applied, then reply. *)
Reply ==
    /\ pc \in {"done", "fail"}
    /\ IF count > 0 THEN stack' = <<>> /\ layers' = NoLayers ELSE UNCHANGED modelVars
    /\ outcome' = [outcome EXCEPT ![cur] =
                     IF gone[cur] THEN "dropped" ELSE IF pc = "done" THEN "ok" ELSE "err"]
    /\ Idle
    /\ UNCHANGED <<req, gone, cancel, rxopen, chan, lost, finish, queueVars, loraVars,
                   kv, cacheVars, panics>>

(* The whole of an embedding call: reset, run, reply. *)
Embed ==
    /\ pc = "embed"
    /\ \/ /\ kv' = Forward(<<>>, Prompt)
          /\ outcome' = [outcome EXCEPT ![cur] = IF gone[cur] THEN "dropped" ELSE "ok"]
       \/ /\ \E n \in 0..Len(Prompt) : kv' = Forward(<<>>, SubSeq(Prompt, 1, n))
          /\ outcome' = [outcome EXCEPT ![cur] = IF gone[cur] THEN "dropped" ELSE "err"]
    /\ Idle
    /\ UNCHANGED <<req, gone, cancel, rxopen, chan, lost, finish, queueVars, loraVars,
                   modelVars, cacheVars, panics>>

(* Mutant: without catch_unwind the panic ends the worker thread. *)
PanicUncaught ==
    /\ pc \in {"run", "prefill", "decode", "store", "embed"}
    /\ panics < MaxPanics
    /\ panics' = panics + 1
    /\ outcome' = [outcome EXCEPT ![cur] = "dropped"]
    /\ pc' = "stopped" /\ cur' = None
    /\ UNCHANGED <<req, gone, cancel, rxopen, chan, lost, finish, queueVars, loraVars,
                   ns, gen, li, count, modelVars, kv, cacheVars>>

(* process_one_request unwinds: the reply sender is dropped with the       *)
(* request, catch_unwind returns and the engine is reset.                  *)
Panic ==
    /\ pc \in {"run", "prefill", "decode", "store", "embed"}
    /\ panics < MaxPanics
    /\ panics' = panics + 1
    /\ outcome' = [outcome EXCEPT ![cur] = "dropped"]
    /\ kv' = <<>>
    /\ Idle
    /\ UNCHANGED <<req, gone, cancel, rxopen, chan, lost, finish, queueVars, loraVars,
                   modelVars, cacheVars>>

(* blocking_recv returns None: every sender is gone, the buffer is empty. *)
WorkerExit ==
    /\ pc = "idle" /\ queue = <<>> /\ ~qopen
    /\ pc' = "stopped"
    /\ UNCHANGED <<clientVars, queueVars, loraVars, cur, ns, gen, li, count,
                   modelVars, kv, cacheVars, panics>>

(* The server has stopped; nothing is left to do. *)
Stopped ==
    /\ pc = "stopped" /\ \A r \in Requests : outcome[r] # "pending"
    /\ UNCHANGED vars

Generation ==
    \/ PrefixHit \/ PrimeFails \/ PrefixMiss \/ Prefill \/ PrefillFails
    \/ DecodeToken \/ DecodeFails \/ DecodeDone \/ StorePrefix

Worker ==
    \/ Shed \/ Start \/ PushLora \/ ApplyLora \/ Generation
    \/ Reply \/ Embed \/ Panic \/ WorkerExit

Client(r) ==
    \/ Enqueue(r) \/ RejectFull(r) \/ Disconnect(r) \/ ReadToken(r)
    \/ WsSendFails(r) \/ ReportFinish(r)

Admin == \E n \in Names : AdminUnregister(n) \/ \E w \in Weights : AdminRegister(n, w)

Next == Worker \/ (\E r \in Requests : Client(r)) \/ Admin \/ CloseQueue \/ Stopped

Spec == Init /\ [][Next]_vars

(* The worker thread keeps running and every finishing task is polled.     *)
(* Nothing is assumed of clients: they need not read, nor disconnect.      *)
FairSpec ==
    /\ Spec
    /\ WF_vars(Worker)
    /\ \A r \in Requests : WF_vars(ReportFinish(r))

----------------------------------------------------------------------------
(* Properties. *)

KvState == Seq(KvEntry)

IsFunction(f) == f = [x \in DOMAIN f |-> f[x]]

IsPrefixCache(c) ==
    /\ IsFunction(c) /\ DOMAIN c \subseteq Prompts
    /\ \A k \in DOMAIN c : c[k] \in KvState

ClientTypeOK ==
    /\ req \in [Requests -> Shapes \cup {None}]
    /\ outcome \in [Requests -> {"new", "pending", "full", "ok", "err", "dropped"}]
    /\ \A r \in Requests : outcome[r] \notin {"new", "full"} => req[r] # None
    /\ gone \in [Requests -> BOOLEAN] /\ cancel \in [Requests -> BOOLEAN]
    /\ rxopen \in [Requests -> BOOLEAN] /\ lost \in [Requests -> BOOLEAN]
    /\ chan \in [Requests -> 0..ChanCap]
    /\ finish \in [Requests -> {"none", "complete", "cancelled", "error"}]

SharedTypeOK ==
    /\ queue \in Seq(Requests) /\ Len(queue) <= QueueCap /\ qopen \in BOOLEAN
    /\ loras \in [Names -> Weights \cup {None}] /\ admin \in 0..MaxAdmin

WorkerTypeOK ==
    /\ pc \in {"idle", "push", "run", "prefill", "decode", "store", "done", "fail",
               "embed", "stopped"}
    /\ cur \in Requests \cup {None} /\ (cur = None <=> pc \in {"idle", "stopped"})
    /\ cur # None => ns \in Namespaces
    /\ gen \in 0..MaxTokens /\ li \in Nat \ {0} /\ count \in Nat
    /\ panics \in 0..MaxPanics

EngineTypeOK ==
    /\ stack \in Seq(Adapters) /\ layers \in [Adapters -> Nat]
    /\ kv \in KvState

CacheTypeOK ==
    /\ IsFunction(caches) /\ DOMAIN caches \subseteq Namespaces
    /\ \A n \in DOMAIN caches : IsPrefixCache(caches[n])
    /\ lru \in Seq(Namespaces)

(* Every variable has its type; the queue and the token channels stay      *)
(* within their capacities, and only a call that was sent has a reply.     *)
TypeOK == ClientTypeOK /\ SharedTypeOK /\ WorkerTypeOK /\ EngineTypeOK /\ CacheTypeOK

(* The KV cache a request decodes on holds its own prompt and its own      *)
(* generated tokens, nothing of an earlier request: whatever the worker    *)
(* went through before (hits, failed primes, errors, panics), reset and    *)
(* prime_with_prefix leave no stale position behind.                       *)
KvIsOwn ==
    pc \in {"decode", "store", "done"} =>
        /\ Len(kv) = Len(Prompt) + gen
        /\ \A i \in DOMAIN kv :
              kv[i].tok = IF i <= Len(Prompt) THEN Prompt[i] ELSE GenToken

(* A cached KV state covers exactly the tokens of the key it is found      *)
(* under: the completion decoded after the prompt is never part of it.     *)
CacheMatchesKeys ==
    \A n \in DOMAIN caches : \A k \in DOMAIN caches[n] :
        /\ Len(caches[n][k]) = Len(k)
        /\ \A i \in DOMAIN k : caches[n][k][i].tok = k[i]

(* The registry keeps at most max_namespaces caches however many adapter   *)
(* combinations clients cycle through, and its recency queue tracks        *)
(* exactly the namespaces that have a cache, each once.                    *)
RegistryBounded ==
    /\ Ids(lru) = DOMAIN caches /\ NoDuplicates(lru)
    /\ Len(lru) <= MaxNamespaces

(* A stream reported as complete ("stop" or "length") lost none of its     *)
(* text on the way to a slow or vanished client: the callback never blocks *)
(* the worker, so the cancellation token must own up to what it dropped.   *)
NoSilentLoss == \A r \in Requests : finish[r] = "complete" => ~lost[r]

(* Attention never mixes: every position a request decodes on was computed *)
(* under the adapters that are attached now.  The D6 namespacing of the    *)
(* prefix cache exists for this.  It speaks of adapters by name, so it     *)
(* holds while no name is registered anew, and while no panic has left     *)
(* adapters behind.                                                        *)
HomogeneousKv ==
    panics = 0 /\ admin = 0 /\ pc \in {"decode", "store", "done"} =>
        \A i \in DOMAIN kv : kv[i].under = layers

(* Between two requests no adapter is left on the engine's stack or on the *)
(* model's layers ("the stack is always cleared even on error").           *)
StackCleared == pc = "idle" => stack = <<>> /\ layers = NoLayers

(* The error paths keep that promise; only a panic breaks it.              *)
StackClearedOnError == panics = 0 => StackCleared

(* Every call that entered the queue is answered or told that it was       *)
(* dropped, whatever other requests do: errors, panics, clients that       *)
(* neither read nor leave.                                                 *)
AllAnswered == \A r \in Requests : (outcome[r] = "pending") ~> (outcome[r] # "pending")
============================================================================
