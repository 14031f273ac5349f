----------------------- MODULE InferenceWorkerProofs -----------------------
(***************************************************************************)
(* Proofs about the inference worker: type correctness, isolation of the   *)
(* KV state between requests and between adapters, exactness of the prefix *)
(* caches, the bound on their registry, streams that lose nothing and a    *)
(* stack that errors leave empty, for every number of requests, adapters,  *)
(* tokens and every capacity.                                              *)
(***************************************************************************)
EXTENDS InferenceWorker, QueueAndSumProofs, FiniteSetTheorems, FunctionTheorems,
        WellFoundedInduction

----------------------------------------------------------------------------
(* The inductive invariant. *)

(* A call that is queued or being served was really sent. *)
Sent(r) == outcome[r] \notin {"new", "full"}
Served ==
    /\ cur # None => Sent(cur)
    /\ \A i \in 1..Len(queue) : Sent(queue[i])

(* Nothing is generated before the prompt is in the KV cache. *)
Fresh == pc \in {"push", "run", "prefill"} => gen = 0

CacheInv == CacheTypeOK /\ CacheMatchesKeys /\ RegistryBounded

IInv == ClientTypeOK /\ SharedTypeOK /\ WorkerTypeOK /\ EngineTypeOK
        /\ Served /\ Fresh /\ KvIsOwn /\ CacheInv

----------------------------------------------------------------------------
(* Lemmas about the operators of the model. *)

(* A non-empty set of sequences of bounded length has a longest member. *)
LEMMA LongestExists ==
    ASSUME NEW S, NEW T \in SUBSET Seq(S), T # {},
           NEW n \in Nat, \A s \in T : Len(s) <= n
    PROVE  \E k \in T : \A j \in T : Len(j) <= Len(k)
  <1> DEFINE Above(s) == (Len(s) + 1)..n
             D == {Above(s) : s \in T}
             R == StrictSubsetOrdering(Nat)
  <1>1. \A s \in T : Len(s) \in Nat /\ Len(s) <= n
    BY LenProperties
  <1>2. D \subseteq FiniteSubsetsOf(Nat) /\ D # {}
    <2>1. ASSUME NEW s \in T  PROVE  Above(s) \in FiniteSubsetsOf(Nat)
      <3>1. Len(s) + 1 \in Int /\ n \in Int  BY <1>1
      <3>2. IsFiniteSet(Above(s))  BY <3>1, FS_Interval
      <3>3. Above(s) \subseteq Nat  BY <1>1
      <3> QED  BY <3>2, <3>3 DEF FiniteSubsetsOf
    <2> QED  BY <2>1
  <1>3. PICK x \in D : \A y \in D : ~(<<y, x>> \in R)
    <2>1. IsWellFoundedOn(R, FiniteSubsetsOf(Nat))
      BY FS_StrictSubsetOrderingWellFounded
    <2> HIDE DEF D, R
    <2> QED  BY <1>2, <2>1, WFMin
  <1>4. PICK k \in T : x = Above(k)
    BY <1>3
  <1>5. ASSUME NEW j \in T, ~(Len(j) <= Len(k))  PROVE  FALSE
    <2>1. Above(j) \in D  OBVIOUS
    <2>2. Above(j) \subseteq Above(k)  BY <1>1, <1>5
    <2>3. Len(j) \in Above(k) /\ Len(j) \notin Above(j)  BY <1>1, <1>5
    <2>4. Above(j) # Above(k)  BY <2>3
    <2>5. Above(j) \in SUBSET Nat /\ Above(k) \in SUBSET Nat  BY <1>1
    <2> HIDE DEF Above
    <2>6. <<Above(j), Above(k)>> \in R
      BY <2>2, <2>4, <2>5 DEF StrictSubsetOrdering
    <2> QED  BY <2>1, <2>6, <1>3, <1>4
  <1> QED  BY <1>5

(* PrefixKvCache::lookup returns a stored key that is a prefix of the prompt. *)
LEMMA LookupLemma ==
    ASSUME NEW cache, DOMAIN cache \subseteq Prompts,
           NEW prompt \in Prompts,
           Lookup(cache, prompt) # None
    PROVE  /\ Lookup(cache, prompt) \in DOMAIN cache
           /\ Len(Lookup(cache, prompt)) \in Nat
           /\ Len(Lookup(cache, prompt)) <= Len(prompt)
           /\ \A i \in 1..Len(Lookup(cache, prompt)) : Lookup(cache, prompt)[i] = prompt[i]
  <1> DEFINE hits == {k \in DOMAIN cache : IsPrefix(k, prompt)}
             best == CHOOSE k \in hits : \A j \in hits : Len(j) <= Len(k)
  <1>1. hits # {} /\ Lookup(cache, prompt) = best
    BY DEF Lookup
  <1>2. \E k \in hits : \A j \in hits : Len(j) <= Len(k)
    <2>1. hits \in SUBSET Seq(Tokens)  BY DEF Prompts
    <2>2. \A s \in hits : Len(s) <= Len(prompt)  BY DEF IsPrefix
    <2>3. Len(prompt) \in Nat  BY LenProperties DEF Prompts
    <2> HIDE DEF hits
    <2> QED  BY <1>1, <2>1, <2>2, <2>3, LongestExists
  <1>3. best \in hits
    <2> HIDE DEF hits
    <2> QED  BY <1>2
  <1>4. best \in DOMAIN cache /\ IsPrefix(best, prompt) /\ best \in Seq(Tokens)
    <2> HIDE DEF best
    <2> QED  BY <1>3 DEF Prompts
  <1> HIDE DEF best, hits
  <1>5. Len(best) \in Nat /\ Len(best) <= Len(prompt) /\ Len(prompt) \in Nat
    BY <1>4, LenProperties DEF IsPrefix, Prompts
  <1>6. ASSUME NEW i \in 1..Len(best)  PROVE  best[i] = prompt[i]
    <2>1. \A j \in 1..Len(best) : prompt[j] \in Tokens
      BY <1>5, ElementOfSeq DEF Prompts
    <2>2. \A j \in 1..(Len(best) - 1 + 1) : SubSeq(prompt, 1, Len(best))[j] = prompt[1 + j - 1]
      BY <2>1, <1>5, SubSeqProperties
    <2>3. SubSeq(prompt, 1, Len(best))[i] = prompt[i]
      BY <2>2, <1>5
    <2> QED  BY <2>3, <1>4 DEF IsPrefix
  <1> QED  BY <1>1, <1>4, <1>5, <1>6

(* Forward appends one position per token, computed under the layers. *)
LEMMA ForwardLemma ==
    ASSUME layers \in [Adapters -> Nat],
           NEW state \in KvState, NEW toks \in Prompts
    PROVE  /\ Forward(state, toks) \in KvState
           /\ Len(Forward(state, toks)) = Len(state) + Len(toks)
           /\ \A i \in 1..Len(state) : Forward(state, toks)[i] = state[i]
           /\ \A i \in (Len(state) + 1)..(Len(state) + Len(toks)) :
                 /\ Forward(state, toks)[i].tok = toks[i - Len(state)]
                 /\ Forward(state, toks)[i].under = layers
  <1> DEFINE new == [i \in 1..Len(toks) |-> [tok |-> toks[i], under |-> layers]]
  <1>1. Len(toks) \in Nat /\ Len(state) \in Nat /\ \A i \in 1..Len(toks) : toks[i] \in Tokens
    BY LenProperties, ElementOfSeq DEF Prompts, KvState
  <1>2. new \in [1..Len(toks) -> KvEntry]
    BY <1>1 DEF KvEntry
  <1>3. new \in Seq(KvEntry)
    BY <1>1, <1>2, SeqDef
  <1>4. /\ Len(new) = Len(toks)
        /\ \A i \in 1..Len(toks) : new[i].tok = toks[i] /\ new[i].under = layers
    <2>1. DOMAIN new = 1..Len(toks)  OBVIOUS
    <2>2. DOMAIN new = 1..Len(new) /\ Len(new) \in Nat
      <3> HIDE DEF new
      <3> QED  BY <1>3, LenProperties
    <2>3. Len(new) = Len(toks)
      <3> HIDE DEF new
      <3> QED  BY <2>1, <2>2, <1>1
    <2> QED  BY <2>3
  <1> HIDE DEF new
  <1>5. Forward(state, toks) = state \o new
    BY DEF Forward, new
  <1>6. /\ state \o new \in Seq(KvEntry)
        /\ Len(state \o new) = Len(state) + Len(new)
        /\ \A i \in 1..(Len(state) + Len(new)) :
              (state \o new)[i] = IF i <= Len(state) THEN state[i] ELSE new[i - Len(state)]
    BY <1>3, ConcatProperties DEF KvState
  <1>7. ASSUME NEW i \in (Len(state) + 1)..(Len(state) + Len(toks))
        PROVE  /\ (state \o new)[i].tok = toks[i - Len(state)]
               /\ (state \o new)[i].under = layers
    <2>1. i - Len(state) \in 1..Len(toks) /\ ~(i <= Len(state)) /\ i \in 1..(Len(state) + Len(new))
      BY <1>1, <1>4
    <2> QED  BY <2>1, <1>4, <1>6
  <1>8. ASSUME NEW i \in 1..Len(state)  PROVE  (state \o new)[i] = state[i]
    BY <1>1, <1>4, <1>6
  <1> QED  BY <1>4, <1>5, <1>6, <1>7, <1>8 DEF KvState

(* A selection has a namespace. *)
LEMMA NamespaceLemma ==
    ASSUME ConstantsAssumption, NEW sel \in Seq(Names \X Scales)
    PROVE  CacheNamespace(sel) \in Namespaces
  <1> SUFFICES ASSUME NEW p \in Names \X Printed
               PROVE  Cardinality({i \in DOMAIN sel :
                         <<sel[i][1], Fixed6(sel[i][2])>> = p}) \in Nat
    BY DEF CacheNamespace, Namespaces
  <1> DEFINE I == {i \in DOMAIN sel : <<sel[i][1], Fixed6(sel[i][2])>> = p}
  <1>1. Len(sel) \in Nat /\ DOMAIN sel = 1..Len(sel)  BY LenProperties
  <1>2. IsFiniteSet(1..Len(sel))  BY <1>1, FS_Interval
  <1>3. I \in SUBSET (1..Len(sel))  BY <1>1
  <1> HIDE DEF I
  <1>4. IsFiniteSet(I)  BY <1>2, <1>3, FS_Subset
  <1>5. Cardinality(I) \in Nat  BY <1>4, FS_CardinalityType
  <1> QED  BY <1>5 DEF I

(* apply_lora_stack leaves a multiplicity on every layer. *)
LEMMA ApplyLemma ==
    ASSUME layers \in [Adapters -> Nat], NEW s \in Seq(Adapters)
    PROVE  ApplyLoraStack(s) \in [Adapters -> Nat]
  <1>1. ASSUME NEW a \in Adapters
        PROVE  Cardinality({i \in DOMAIN s : s[i] = a}) \in Nat
    <2> DEFINE I == {i \in DOMAIN s : s[i] = a}
    <2>1. Len(s) \in Nat /\ DOMAIN s = 1..Len(s)  BY LenProperties
    <2>2. IsFiniteSet(1..Len(s))  BY <2>1, FS_Interval
    <2>3. I \in SUBSET (1..Len(s))  BY <2>1
    <2> HIDE DEF I
    <2>4. IsFiniteSet(I)  BY <2>2, <2>3, FS_Subset
    <2>5. Cardinality(I) \in Nat  BY <2>4, FS_CardinalityType
    <2> QED  BY <2>5 DEF I
  <1> DEFINE c(a) == Cardinality({i \in DOMAIN s : s[i] = a})
  <1>2. \A a \in Adapters : c(a) \in Nat  BY <1>1
  <1> HIDE DEF c
  <1>3. [a \in Adapters |-> layers[a] + c(a)] \in [Adapters -> Nat]  BY <1>2
  <1>4. [a \in Adapters |-> IF a = s[Len(s)] THEN 1 ELSE 0] \in [Adapters -> Nat]  OBVIOUS
  <1> QED  BY <1>3, <1>4 DEF ApplyLoraStack, c

(* Every entry of a cache covers exactly its key. *)
ExactCache(c) ==
    /\ IsPrefixCache(c)
    /\ \A k \in DOMAIN c : /\ Len(c[k]) = Len(k)
                           /\ \A i \in DOMAIN k : c[k][i].tok = k[i]

(* PrefixCacheRegistry::with_cache keeps the registry exact, in step with  *)
(* its recency queue and within max_namespaces; n has a cache afterwards.  *)
LEMMA WithCacheLemma ==
    ASSUME ConstantsAssumption, CacheInv, NEW n \in Namespaces
    PROVE  /\ IsFunction(WithCache(n)) /\ n \in DOMAIN WithCache(n)
           /\ DOMAIN WithCache(n) \subseteq Namespaces
           /\ \A m \in DOMAIN WithCache(n) : ExactCache(WithCache(n)[m])
           /\ TouchedLru(n) \in Seq(Namespaces)
           /\ Ids(TouchedLru(n)) = DOMAIN WithCache(n)
           /\ NoDuplicates(TouchedLru(n))
           /\ Len(TouchedLru(n)) <= MaxNamespaces
  <1> DEFINE touched == Touch(lru, n)
             full == n \notin DOMAIN caches /\ Len(touched) > MaxNamespaces
             kept == IF full THEN DOMAIN caches \ {Head(touched)} ELSE DOMAIN caches
             wc == [m \in kept \cup {n} |-> IF m \in kept THEN caches[m] ELSE NoCache]
             tl == IF full THEN Tail(touched) ELSE touched
  <1>0. WithCache(n) = wc /\ TouchedLru(n) = tl
    BY DEF WithCache, TouchedLru
  <1>1. /\ lru \in Seq(Namespaces) /\ NoDuplicates(lru) /\ Ids(lru) = DOMAIN caches
        /\ Len(lru) <= MaxNamespaces /\ Len(lru) \in Nat
        /\ DOMAIN caches \subseteq Namespaces
        /\ \A m \in DOMAIN caches : ExactCache(caches[m])
        /\ MaxNamespaces \in Nat \ {0}
    BY LenProperties DEF CacheInv, CacheTypeOK, RegistryBounded, CacheMatchesKeys,
                         ExactCache, ConstantsAssumption
  <1>2. /\ touched \in Seq(Namespaces) /\ touched # <<>> /\ NoDuplicates(touched)
        /\ Ids(touched) = DOMAIN caches \cup {n}
        /\ Len(touched) = Len(lru) + (IF n \in DOMAIN caches THEN 0 ELSE 1)
        /\ touched[Len(touched)] = n
    BY <1>1, TouchLemma
  <1> HIDE DEF touched
  <1>3. /\ Tail(touched) \in Seq(Namespaces) /\ NoDuplicates(Tail(touched))
        /\ Ids(Tail(touched)) = Ids(touched) \ {Head(touched)}
        /\ Head(touched) = touched[1]
        /\ Len(Tail(touched)) = Len(touched) - 1 /\ Len(touched) \in Nat \ {0}
    BY <1>2, EvictLemma
  <1>4. ASSUME full  PROVE  Head(touched) # n
    <2>1. Len(touched) # 1 /\ 1 \in 1..Len(touched) /\ Len(touched) \in 1..Len(touched)
      BY <1>4, <1>1, <1>3, SMTT(30)
    <2>2. DOMAIN touched = 1..Len(touched)  BY <1>2, LenProperties
    <2> QED  BY <2>1, <2>2, <1>2, <1>3 DEF NoDuplicates
  <1>5. Ids(tl) = kept \cup {n}
    BY <1>2, <1>3, <1>4
  <1>6. tl \in Seq(Namespaces) /\ NoDuplicates(tl) /\ Len(tl) <= MaxNamespaces
    <2>1. CASE full  BY <2>1, <1>1, <1>2, <1>3
    <2>2. CASE ~full  BY <2>2, <1>1, <1>2, <1>3
    <2> QED  BY <2>1, <2>2
  <1>7. kept \subseteq DOMAIN caches  OBVIOUS
  <1> HIDE DEF kept, full, tl
  <1>8. ExactCache(NoCache)
    BY DEF ExactCache, NoCache, IsPrefixCache, IsFunction
  <1>9. /\ IsFunction(wc) /\ DOMAIN wc = kept \cup {n}
        /\ \A m \in DOMAIN wc : ExactCache(wc[m])
    <2>1. IsFunction(wc)  BY DEF IsFunction
    <2>2. DOMAIN wc = kept \cup {n}  OBVIOUS
    <2>3. ASSUME NEW m \in kept \cup {n}  PROVE  ExactCache(wc[m])
      <3>1. CASE m \in kept  BY <3>1, <1>1, <1>7
      <3>2. CASE m \notin kept  BY <3>2, <1>8
      <3> QED  BY <3>1, <3>2
    <2> QED  BY <2>1, <2>2, <2>3
  <1> HIDE DEF wc
  <1> QED  BY <1>0, <1>1, <1>5, <1>6, <1>7, <1>9

(* PrefixKvCache::store keeps every entry exact when the KV cache starts   *)
(* with the key's own tokens.                                              *)
LEMMA StoredLemma ==
    ASSUME NEW cache, ExactCache(cache), NEW key \in Prompts,
           kv \in KvState, Len(kv) >= Len(key),
           \A i \in 1..Len(key) : kv[i].tok = key[i],
           NEW c \in Stored(cache, key)
    PROVE  ExactCache(c)
  <1>1. CASE c = cache  BY <1>1
  <1>2. CASE c # cache
    <2> DEFINE snap == SubSeq(kv, 1, Len(key))
    <2>1. PICK kept \in SUBSET (DOMAIN cache \cup {key}) :
             c = [k \in kept |-> IF k = key THEN snap ELSE cache[k]]
      BY <1>2 DEF Stored
    <2>2. Len(key) \in Nat /\ DOMAIN key = 1..Len(key) /\ Len(kv) \in Nat
      BY LenProperties DEF Prompts, KvState
    <2>3. \A i \in 1..Len(key) : kv[i] \in KvEntry
      BY <2>2, ElementOfSeq DEF KvState
    <2>4. /\ snap \in Seq(KvEntry)
          /\ Len(snap) = IF 1 <= Len(key) THEN Len(key) - 1 + 1 ELSE 0
          /\ \A i \in 1..(Len(key) - 1 + 1) : snap[i] = kv[1 + i - 1]
      BY <2>2, <2>3, SubSeqProperties
    <2>5. /\ snap \in KvState /\ Len(snap) = Len(key)
          /\ \A i \in DOMAIN key : snap[i].tok = key[i]
      <3> HIDE DEF snap
      <3> QED  BY <2>2, <2>4 DEF KvState
    <2> HIDE DEF snap
    <2>6. DOMAIN c = kept /\ IsFunction(c)
      BY <2>1 DEF IsFunction
    <2>7. DOMAIN c \subseteq Prompts
      BY <2>6 DEF ExactCache, IsPrefixCache
    <2>8. ASSUME NEW k \in DOMAIN c
          PROVE  c[k] \in KvState /\ Len(c[k]) = Len(k)
                 /\ \A i \in DOMAIN k : c[k][i].tok = k[i]
      <3>1. CASE k = key  BY <3>1, <2>1, <2>5, <2>6
      <3>2. CASE k # key
        <4>1. c[k] = cache[k] /\ k \in DOMAIN cache  BY <3>2, <2>1, <2>6
        <4> QED  BY <4>1 DEF ExactCache, IsPrefixCache
      <3> QED  BY <3>1, <3>2
    <2> QED  BY <2>6, <2>7, <2>8 DEF ExactCache, IsPrefixCache
  <1> QED  BY <1>1, <1>2

(* What a hit restores: a proper prefix of the prompt, token by token. *)
LEMMA RestoredLemma ==
    ASSUME ConstantsAssumption, CacheInv, ns \in Namespaces, Prompt \in Prompts, IsHit
    PROVE  /\ Restored \in KvState /\ Len(Restored) = Effective(HitKey)
           /\ Effective(HitKey) \in Nat /\ Effective(HitKey) <= Len(Prompt)
           /\ \A i \in 1..Effective(HitKey) : Restored[i].tok = Prompt[i]
  <1> DEFINE c == WithCache(ns)[ns]
             k == HitKey
             e == Effective(k)
             full == c[k]
  <1>1. ExactCache(c)  BY WithCacheLemma
  <1>2. Lookup(c, Prompt) # None /\ k = Lookup(c, Prompt) /\ e > 0
    BY DEF IsHit, HitKey
  <1> HIDE DEF c, k
  <1>3. /\ k \in DOMAIN c /\ Len(k) \in Nat /\ Len(k) <= Len(Prompt)
        /\ \A i \in 1..Len(k) : k[i] = Prompt[i]
    BY <1>1, <1>2, LookupLemma DEF ExactCache, IsPrefixCache
  <1>4. Len(Prompt) \in Nat  BY LenProperties DEF Prompts
  <1>5. e \in Nat /\ e <= Len(k) /\ e <= Len(Prompt)
    BY <1>2, <1>3, <1>4 DEF Effective
  <1>6. /\ full \in KvState /\ Len(full) = Len(k)
        /\ \A i \in DOMAIN k : full[i].tok = k[i]
    BY <1>1, <1>3 DEF ExactCache, IsPrefixCache
  <1>7. DOMAIN k = 1..Len(k)
    BY <1>1, <1>3, LenProperties DEF ExactCache, IsPrefixCache, Prompts
  <1> HIDE DEF e, full
  <1>8. \A i \in 1..e : full[i] \in KvEntry
    BY <1>5, <1>6, <1>3, ElementOfSeq DEF KvState
  <1>9. /\ SubSeq(full, 1, e) \in Seq(KvEntry)
        /\ Len(SubSeq(full, 1, e)) = IF 1 <= e THEN e - 1 + 1 ELSE 0
        /\ \A i \in 1..(e - 1 + 1) : SubSeq(full, 1, e)[i] = full[1 + i - 1]
    BY <1>5, <1>8, SubSeqProperties
  <1>10. Restored = SubSeq(full, 1, e)
    BY DEF Restored, c, k, e, full
  <1>11. /\ Restored \in KvState /\ Len(Restored) = e
         /\ \A i \in 1..e : Restored[i].tok = Prompt[i]
    BY <1>3, <1>5, <1>6, <1>7, <1>9, <1>10, SMTT(30) DEF KvState
  <1> QED  BY <1>5, <1>11 DEF e, k

----------------------------------------------------------------------------
(* Each part of the invariant survives a step that leaves its state alone. *)

LEMMA CacheStable ==
    ASSUME CacheInv, UNCHANGED cacheVars
    PROVE  CacheInv'
  BY DEF CacheInv, CacheTypeOK, CacheMatchesKeys, RegistryBounded, cacheVars,
         IsPrefixCache, IsFunction, Ids, NoDuplicates

(* The worker, its engine and its KV cache, when only clients act. *)
LEMMA WorkerStable ==
    ASSUME WorkerTypeOK, EngineTypeOK, Fresh, KvIsOwn,
           UNCHANGED <<workerVars, modelVars, kv, panics>>,
           cur # None => req'[cur] = req[cur]
    PROVE  WorkerTypeOK' /\ EngineTypeOK' /\ Fresh' /\ KvIsOwn'
  <1>1. WorkerTypeOK' /\ EngineTypeOK' /\ Fresh'
    BY DEF WorkerTypeOK, EngineTypeOK, Fresh, workerVars, modelVars
  <1>2. KvIsOwn'
    BY DEF KvIsOwn, WorkerTypeOK, workerVars, Prompt
  <1> QED  BY <1>1, <1>2

(* The prompt and the adapters of the request that is being served. *)
LEMMA CurrentShape ==
    ASSUME ConstantsAssumption, IInv, cur # None
    PROVE  /\ cur \in Requests /\ req[cur] \in Shapes /\ Prompt \in Prompts
           /\ req[cur].lora \in Seq(Names \X Scales) /\ req[cur].cache \in BOOLEAN
           /\ ns \in Namespaces
           /\ Len(Prompt) \in Nat /\ \A i \in 1..Len(Prompt) : Prompt[i] \in Tokens
  <1>1. cur \in Requests /\ req[cur] \in Shapes /\ ns \in Namespaces
    BY DEF IInv, Served, Sent, ClientTypeOK, WorkerTypeOK
  <1>2. req[cur] \in ShapeType
    BY <1>1 DEF ConstantsAssumption
  <1>3. /\ Prompt \in Prompts /\ req[cur].lora \in Seq(Names \X Scales)
        /\ req[cur].cache \in BOOLEAN
    BY <1>2 DEF ShapeType, Prompt
  <1> QED  BY <1>1, <1>3, LenProperties, ElementOfSeq DEF Prompts

(* The same for the request at the head of the queue; the rest stays sent. *)
LEMMA HeadShape ==
    ASSUME ConstantsAssumption, IInv, queue # <<>>
    PROVE  /\ Head(queue) \in Requests /\ req[Head(queue)] \in ShapeType
           /\ Sent(Head(queue))
           /\ Tail(queue) \in Seq(Requests) /\ Len(Tail(queue)) <= QueueCap
           /\ \A i \in 1..Len(Tail(queue)) : Sent(Tail(queue)[i])
  <1>1. queue \in Seq(Requests) /\ Len(queue) <= QueueCap /\ QueueCap \in Nat
    BY DEF IInv, SharedTypeOK, ConstantsAssumption
  <1>2. /\ Head(queue) \in Requests /\ Tail(queue) \in Seq(Requests)
        /\ Len(Tail(queue)) = Len(queue) - 1
        /\ \A i \in 1..Len(Tail(queue)) : Tail(queue)[i] = queue[i + 1]
        /\ Len(queue) \in Nat \ {0} /\ Head(queue) = queue[1]
    BY <1>1, HeadTailProperties, EmptySeq
  <1>3. \A i \in 1..Len(queue) : Sent(queue[i])
    BY DEF IInv, Served
  <1>4. Sent(Head(queue))
    BY <1>2, <1>3
  <1>5. \A i \in 1..Len(Tail(queue)) : Sent(Tail(queue)[i])
    BY <1>2, <1>3
  <1>6. req[Head(queue)] \in ShapeType
    BY <1>2, <1>4 DEF IInv, ClientTypeOK, Sent, ConstantsAssumption
  <1> QED  BY <1>1, <1>2, <1>4, <1>5, <1>6

----------------------------------------------------------------------------
(* One lemma per action, or per group of actions with the same frame. *)

LEMMA InitInv ==
    ASSUME ConstantsAssumption, Init
    PROVE  IInv
  <1>1. ClientTypeOK
    BY DEF Init, ClientTypeOK, ConstantsAssumption
  <1>2. SharedTypeOK
    BY EmptySeq DEF Init, SharedTypeOK, ConstantsAssumption
  <1>3. WorkerTypeOK
    BY DEF Init, WorkerTypeOK, ConstantsAssumption
  <1>4. EngineTypeOK
    BY EmptySeq DEF Init, EngineTypeOK, NoLayers, KvState
  <1>5. Served /\ Fresh /\ KvIsOwn
    BY EmptySeq DEF Init, Served, Fresh, KvIsOwn
  <1>6. CacheInv
    <2>1. DOMAIN caches = {} /\ IsFunction(caches)
      BY DEF Init, NoCache, IsFunction
    <2>2. lru = <<>> /\ lru \in Seq(Namespaces) /\ Len(lru) = 0
      BY EmptySeq DEF Init
    <2>3. Ids(lru) = {} /\ NoDuplicates(lru)
      BY <2>2 DEF Ids, NoDuplicates
    <2> QED  BY <2>1, <2>2, <2>3
             DEF CacheInv, CacheTypeOK, CacheMatchesKeys, RegistryBounded, ConstantsAssumption
  <1> QED  BY <1>1, <1>2, <1>3, <1>4, <1>5, <1>6 DEF IInv

LEMMA EnqueueInv ==
    ASSUME ConstantsAssumption, IInv, NEW r \in Requests, Enqueue(r)
    PROVE  IInv'
  <1>1. PICK s \in Shapes : req' = [req EXCEPT ![r] = s]
    BY DEF Enqueue
  <1>2. ClientTypeOK'
    BY <1>1 DEF Enqueue, IInv, ClientTypeOK, ConstantsAssumption
  <1>3. /\ queue' \in Seq(Requests) /\ Len(queue') = Len(queue) + 1
        /\ \A i \in 1..Len(queue) : queue'[i] = queue[i]
        /\ queue'[Len(queue) + 1] = r /\ Len(queue) \in Nat
    BY AppendProperties, LenProperties DEF Enqueue, IInv, SharedTypeOK
  <1>4. SharedTypeOK'
    BY <1>3 DEF Enqueue, IInv, SharedTypeOK, ConstantsAssumption, loraVars
  <1>5. cur # None => cur # r
    BY DEF IInv, Served, Sent, Enqueue
  <1>6. WorkerTypeOK' /\ EngineTypeOK' /\ Fresh' /\ KvIsOwn'
    BY <1>1, <1>5, WorkerStable DEF IInv, Enqueue, ClientTypeOK, WorkerTypeOK
  <1>7. Served'
    <2>1. \A q \in Requests : Sent(q) => Sent(q)'
      BY DEF Sent, Enqueue, IInv, ClientTypeOK
    <2>2. cur' # None => Sent(cur)'
      BY <2>1 DEF Enqueue, IInv, Served, WorkerTypeOK, workerVars, Sent
    <2>3. ASSUME NEW i \in 1..Len(queue')  PROVE  Sent(queue[i])'
      <3>1. CASE i \in 1..Len(queue)
        <4>1. queue[i] \in Requests /\ Sent(queue[i]) /\ queue'[i] = queue[i]
          BY <3>1, <1>3, ElementOfSeq DEF IInv, SharedTypeOK, Served
        <4> QED  BY <4>1, <2>1 DEF Sent
      <3>2. CASE i = Len(queue) + 1
        BY <3>2, <1>3 DEF Sent, Enqueue, IInv, ClientTypeOK
      <3> QED  BY <3>1, <3>2, <1>3
    <2> QED  BY <2>2, <2>3 DEF Served, Sent
  <1>8. CacheInv'
    BY CacheStable DEF IInv, Enqueue
  <1> QED  BY <1>2, <1>4, <1>6, <1>7, <1>8 DEF IInv

(* Steps of clients and handlers that do not touch the queue. *)
LEMMA ClientInv ==
    ASSUME ConstantsAssumption, IInv, NEW r \in Requests,
           \/ RejectFull(r) \/ Disconnect(r) \/ ReadToken(r)
           \/ WsSendFails(r) \/ ReportFinish(r)
    PROVE  IInv'
  <1>1. UNCHANGED <<req, queueVars, loraVars, workerVars, modelVars, kv, cacheVars, panics>>
    BY DEF RejectFull, Disconnect, ReadToken, WsSendFails, ReportFinish
  <1>2. ClientTypeOK'
    <2>1. CASE RejectFull(r)
      BY <2>1 DEF RejectFull, IInv, ClientTypeOK
    <2>2. CASE Disconnect(r)
      BY <2>2 DEF Disconnect, IInv, ClientTypeOK
    <2>3. CASE ReadToken(r)
      <3>1. chan' \in [Requests -> 0..ChanCap]
        BY <2>3 DEF ReadToken, IInv, ClientTypeOK, ConstantsAssumption
      <3> QED  BY <2>3, <3>1 DEF ReadToken, IInv, ClientTypeOK
    <2>4. CASE WsSendFails(r)
      BY <2>4 DEF WsSendFails, IInv, ClientTypeOK
    <2>5. CASE ReportFinish(r)
      <3>1. finish' \in [Requests -> {"none", "complete", "cancelled", "error"}]
        BY <2>5 DEF ReportFinish, IInv, ClientTypeOK
      <3> QED  BY <2>5, <3>1 DEF ReportFinish, IInv, ClientTypeOK
    <2> QED  BY <2>1, <2>2, <2>3, <2>4, <2>5
  <1>3. SharedTypeOK'
    BY <1>1 DEF IInv, SharedTypeOK, queueVars, loraVars
  <1>4. WorkerTypeOK' /\ EngineTypeOK' /\ Fresh' /\ KvIsOwn'
    BY <1>1, WorkerStable DEF IInv
  <1>5. Served'
    <2>1. ASSUME NEW q \in Requests, Sent(q)  PROVE  Sent(q)'
      BY <2>1 DEF Sent, RejectFull, Disconnect, ReadToken, WsSendFails, ReportFinish,
                  IInv, ClientTypeOK
    <2>2. cur # None => cur \in Requests
      BY DEF IInv, WorkerTypeOK
    <2>3. \A i \in 1..Len(queue) : queue[i] \in Requests
      BY ElementOfSeq DEF IInv, SharedTypeOK
    <2> QED  BY <1>1, <2>1, <2>2, <2>3 DEF IInv, Served, Sent, queueVars, workerVars
  <1>6. CacheInv'
    BY <1>1, CacheStable DEF IInv
  <1> QED  BY <1>2, <1>3, <1>4, <1>5, <1>6 DEF IInv

(* Steps that leave the clients, the worker and the caches alone. *)
LEMMA ServerInv ==
    ASSUME ConstantsAssumption, IInv,
           \/ CloseQueue \/ Stopped
           \/ \E n \in Names : AdminUnregister(n) \/ \E w \in Weights : AdminRegister(n, w)
    PROVE  IInv'
  <1>1. UNCHANGED <<clientVars, queue, workerVars, modelVars, kv, cacheVars, panics>>
    BY DEF CloseQueue, Stopped, AdminUnregister, AdminRegister, vars, queueVars
  <1>2. ClientTypeOK'
    BY <1>1 DEF IInv, ClientTypeOK, clientVars
  <1>3. SharedTypeOK'
    <2>1. CASE CloseQueue \/ Stopped
      BY <2>1 DEF IInv, SharedTypeOK, CloseQueue, Stopped, vars, queueVars, loraVars
    <2>2. ASSUME NEW n \in Names,
                 AdminUnregister(n) \/ \E w \in Weights : AdminRegister(n, w)
          PROVE  SharedTypeOK'
      <3>1. loras' \in [Names -> Weights \cup {None}]
        BY <2>2 DEF IInv, SharedTypeOK, AdminUnregister, AdminRegister
      <3>2. admin' \in 0..MaxAdmin
        BY <2>2 DEF IInv, SharedTypeOK, AdminUnregister, AdminRegister, ConstantsAssumption
      <3> QED  BY <2>2, <3>1, <3>2
               DEF IInv, SharedTypeOK, AdminUnregister, AdminRegister, queueVars
    <2> QED  BY <2>1, <2>2
  <1>4. WorkerTypeOK' /\ EngineTypeOK' /\ Fresh' /\ KvIsOwn'
    BY <1>1, WorkerStable DEF IInv, clientVars
  <1>5. Served'
    BY <1>1 DEF IInv, Served, Sent, clientVars, workerVars
  <1>6. CacheInv'
    BY <1>1, CacheStable DEF IInv
  <1> QED  BY <1>2, <1>3, <1>4, <1>5, <1>6 DEF IInv

(* What a worker step leaves alone of the clients and of the queue. *)
LEMMA SharedStable ==
    ASSUME IInv, UNCHANGED <<queueVars, loraVars>>
    PROVE  SharedTypeOK'
  BY DEF IInv, SharedTypeOK, queueVars, loraVars

LEMMA ClientStable ==
    ASSUME IInv, UNCHANGED clientVars
    PROVE  ClientTypeOK' /\ \A r \in Requests : Sent(r) => Sent(r)'
  BY DEF IInv, ClientTypeOK, Sent, clientVars

(* A reply to r changes one outcome, and r was sent. *)
LEMMA ReplyStable ==
    ASSUME IInv, NEW r \in Requests, Sent(r), NEW o \in {"ok", "err", "dropped"},
           outcome' = [outcome EXCEPT ![r] = o],
           UNCHANGED <<req, gone, cancel, rxopen, chan, lost, finish>>
    PROVE  ClientTypeOK' /\ \A q \in Requests : Sent(q) => Sent(q)'
  BY DEF IInv, ClientTypeOK, Sent

(* Requests that stay queued or current stay sent. *)
LEMMA ServedStable ==
    ASSUME IInv, \A r \in Requests : Sent(r) => Sent(r)',
           queue' = queue, cur' \in {cur, None}
    PROVE  Served'
  <1>1. cur # None => cur \in Requests /\ Sent(cur)
    BY DEF IInv, WorkerTypeOK, Served
  <1>2. \A i \in 1..Len(queue) : queue[i] \in Requests /\ Sent(queue[i])
    BY ElementOfSeq DEF IInv, SharedTypeOK, Served
  <1> QED  BY <1>1, <1>2 DEF Served, Sent

LEMMA ShedInv ==
    ASSUME ConstantsAssumption, IInv, Shed
    PROVE  IInv'
  <1> DEFINE h == Head(queue)
  <1>1. /\ h \in Requests /\ Sent(h)
        /\ Tail(queue) \in Seq(Requests) /\ Len(Tail(queue)) <= QueueCap
        /\ \A i \in 1..Len(Tail(queue)) : Sent(Tail(queue)[i])
    BY HeadShape DEF Shed
  <1> HIDE DEF h
  <1>2. PICK o \in {"err", "dropped"} : outcome' = [outcome EXCEPT ![h] = o]
    BY DEF Shed, h
  <1>3. ClientTypeOK' /\ \A q \in Requests : Sent(q) => Sent(q)'
    <2>1. UNCHANGED <<req, gone, cancel, rxopen, chan, lost, finish>>  BY DEF Shed
    <2> QED  BY <1>1, <1>2, <2>1, ReplyStable
  <1>4. SharedTypeOK'
    BY <1>1 DEF IInv, SharedTypeOK, Shed, loraVars
  <1>5. WorkerTypeOK' /\ EngineTypeOK' /\ Fresh' /\ KvIsOwn'
    BY WorkerStable DEF IInv, Shed
  <1>6. Served'
    <2>1. cur' = None
      BY DEF Shed, IInv, WorkerTypeOK, workerVars
    <2>2. \A i \in 1..Len(Tail(queue)) : Tail(queue)[i] \in Requests
      BY <1>1, ElementOfSeq
    <2>3. queue' = Tail(queue)  BY DEF Shed
    <2> QED  BY <1>1, <1>3, <2>1, <2>2, <2>3 DEF Served, Sent
  <1>7. CacheInv'
    BY CacheStable DEF IInv, Shed
  <1> QED  BY <1>3, <1>4, <1>5, <1>6, <1>7 DEF IInv

LEMMA StartInv ==
    ASSUME ConstantsAssumption, IInv, Start
    PROVE  IInv'
  <1> DEFINE h == Head(queue)
  <1>1. /\ h \in Requests /\ Sent(h) /\ req[h] \in ShapeType
        /\ Tail(queue) \in Seq(Requests) /\ Len(Tail(queue)) <= QueueCap
        /\ \A i \in 1..Len(Tail(queue)) : Sent(Tail(queue)[i])
    BY HeadShape DEF Start
  <1>2. /\ cur' = h /\ ns' = CacheNamespace(req[h].lora)
        /\ pc' \in {"embed", "push", "run"}
        /\ gen' = 0 /\ li' = 1 /\ count' = 0 /\ queue' = Tail(queue)
        /\ UNCHANGED <<clientVars, qopen, loraVars, modelVars, kv, cacheVars, panics>>
    BY DEF Start
  <1> HIDE DEF h
  <1>3. ns' \in Namespaces
    BY <1>1, <1>2, NamespaceLemma DEF ShapeType
  <1>4. ClientTypeOK' /\ \A q \in Requests : Sent(q) => Sent(q)'
    BY <1>2, ClientStable
  <1>5. SharedTypeOK'
    BY <1>1, <1>2 DEF IInv, SharedTypeOK, loraVars
  <1>6. WorkerTypeOK'
    BY <1>1, <1>2, <1>3 DEF IInv, WorkerTypeOK, ConstantsAssumption
  <1>7. EngineTypeOK' /\ Fresh' /\ KvIsOwn'
    BY <1>2 DEF IInv, EngineTypeOK, Fresh, KvIsOwn, modelVars
  <1>8. Served'
    BY <1>1, <1>2 DEF Served, Sent, clientVars
  <1>9. CacheInv'
    BY <1>2, CacheStable DEF IInv
  <1> QED  BY <1>4, <1>5, <1>6, <1>7, <1>8, <1>9 DEF IInv

LEMMA LoraInv ==
    ASSUME ConstantsAssumption, IInv, PushLora \/ ApplyLora
    PROVE  IInv'
  <1>1. UNCHANGED <<clientVars, queueVars, loraVars, cur, ns, gen, kv, cacheVars, panics>>
    BY DEF PushLora, ApplyLora
  <1>2. pc = "push" /\ pc' \in {"push", "run"}
    BY DEF PushLora, ApplyLora
  <1>3. cur # None /\ cur \in Requests
    BY <1>2 DEF IInv, WorkerTypeOK
  <1>4. li' \in Nat \ {0} /\ count' \in Nat
    <2>1. li \in Nat \ {0} /\ count \in Nat  BY DEF IInv, WorkerTypeOK
    <2>2. CASE PushLora
      BY <2>1, <2>2 DEF PushLora
    <2>3. CASE ApplyLora
      BY <2>1, <2>3 DEF ApplyLora
    <2> QED  BY <2>2, <2>3
  <1>5. stack' \in Seq(Adapters) /\ layers' \in [Adapters -> Nat]
    <2>1. stack \in Seq(Adapters) /\ layers \in [Adapters -> Nat]
      BY DEF IInv, EngineTypeOK
    <2>2. CASE PushLora
      <3> DEFINE entry == req[cur].lora[li]
                 w == loras[entry[1]]
      <3>1. entry \in Names \X Scales
        <4>1. req[cur].lora \in Seq(Names \X Scales)  BY <1>3, CurrentShape
        <4>2. li \in 1..Len(req[cur].lora)
          BY <2>2, <4>1, LenProperties DEF PushLora, IInv, WorkerTypeOK
        <4> QED  BY <4>1, <4>2, ElementOfSeq
      <3>2. w \in Weights \cup {None} /\ entry[2] \in Scales
        BY <3>1 DEF IInv, SharedTypeOK
      <3> HIDE DEF entry, w
      <3>3. CASE w = None
        BY <2>1, <2>2, <3>3 DEF PushLora, w, entry
      <3>4. CASE w # None
        <4>1. stack' = Append(stack, <<w, entry[2]>>) /\ layers' = layers
          BY <2>2, <3>4 DEF PushLora, w, entry
        <4>2. <<w, entry[2]>> \in Adapters  BY <3>2, <3>4 DEF Adapters
        <4> QED  BY <2>1, <4>1, <4>2, AppendProperties
      <3> QED  BY <3>3, <3>4
    <2>3. CASE ApplyLora
      <3>1. ApplyLoraStack(stack) \in [Adapters -> Nat]  BY <2>1, ApplyLemma
      <3>2. NoLayers \in [Adapters -> Nat] /\ <<>> \in Seq(Adapters)
        BY EmptySeq DEF NoLayers
      <3> QED  BY <2>1, <2>3, <3>1, <3>2 DEF ApplyLora
    <2> QED  BY <2>2, <2>3
  <1>6. ClientTypeOK' /\ SharedTypeOK' /\ Served'
    BY <1>1, ClientStable, SharedStable, ServedStable DEF queueVars
  <1>7. WorkerTypeOK'
    BY <1>1, <1>2, <1>3, <1>4 DEF IInv, WorkerTypeOK
  <1>8. EngineTypeOK' /\ Fresh' /\ KvIsOwn'
    BY <1>1, <1>2, <1>5 DEF IInv, EngineTypeOK, Fresh, KvIsOwn
  <1>9. CacheInv'
    BY <1>1, CacheStable DEF IInv
  <1> QED  BY <1>6, <1>7, <1>8, <1>9 DEF IInv

(* Touching the registry for the current namespace keeps it sound. *)
LEMMA TouchInv ==
    ASSUME ConstantsAssumption, CacheInv, ns \in Namespaces, TouchRegistry
    PROVE  CacheInv'
  <1>1. caches' = WithCache(ns) /\ lru' = TouchedLru(ns)
    BY DEF TouchRegistry
  <1> DEFINE wc == WithCache(ns)
             tl == TouchedLru(ns)
  <1>2. /\ IsFunction(wc) /\ DOMAIN wc \subseteq Namespaces
        /\ \A m \in DOMAIN wc : ExactCache(wc[m])
        /\ tl \in Seq(Namespaces) /\ Ids(tl) = DOMAIN wc
        /\ NoDuplicates(tl) /\ Len(tl) <= MaxNamespaces
    BY WithCacheLemma
  <1> HIDE DEF wc, tl
  <1>3. caches' = wc /\ lru' = tl  BY <1>1 DEF wc, tl
  <1>4. CacheTypeOK'
    BY <1>2, <1>3 DEF CacheTypeOK, ExactCache, IsFunction, IsPrefixCache
  <1>5. CacheMatchesKeys'
    BY <1>2, <1>3 DEF CacheMatchesKeys, ExactCache
  <1>6. RegistryBounded'
    BY <1>2, <1>3 DEF RegistryBounded, Ids, NoDuplicates
  <1> QED  BY <1>4, <1>5, <1>6 DEF CacheInv

(* A step that leaves the KV cache holding the prompt, nothing generated. *)
LEMMA PrimedInv ==
    ASSUME IInv, cur # None, UNCHANGED <<req, cur, gen>>, gen = 0,
           Len(Prompt) \in Nat, kv' \in KvState,
           Len(kv') = Len(Prompt), \A i \in 1..Len(Prompt) : kv'[i].tok = Prompt[i]
    PROVE  KvIsOwn'
  <1>1. Prompt' = Prompt  BY DEF Prompt
  <1>2. DOMAIN kv' = 1..Len(Prompt)  BY LenProperties DEF KvState
  <1> QED  BY <1>1, <1>2 DEF KvIsOwn

LEMMA PrefixInv ==
    ASSUME ConstantsAssumption, IInv, PrefixHit \/ PrimeFails \/ PrefixMiss
    PROVE  IInv'
  <1>1. /\ UNCHANGED <<clientVars, queueVars, loraVars, cur, ns, gen, li, count,
                       modelVars, panics>>
        /\ TouchRegistry /\ pc = "run" /\ pc' \in {"decode", "prefill"}
    BY DEF PrefixHit, PrimeFails, PrefixMiss
  <1>2. cur # None
    BY <1>1 DEF IInv, WorkerTypeOK
  <1>3. /\ Prompt \in Prompts /\ ns \in Namespaces /\ Len(Prompt) \in Nat
        /\ \A i \in 1..Len(Prompt) : Prompt[i] \in Tokens
    BY <1>2, CurrentShape
  <1>4. gen = 0 /\ layers \in [Adapters -> Nat] /\ kv \in KvState
    BY <1>1 DEF IInv, Fresh, EngineTypeOK
  <1>5. ClientTypeOK' /\ SharedTypeOK' /\ Served'
    BY <1>1, ClientStable, SharedStable, ServedStable DEF queueVars
  <1>6. WorkerTypeOK' /\ Fresh'
    BY <1>1, <1>2, <1>4 DEF IInv, WorkerTypeOK, Fresh
  <1>7. CacheInv'
    BY <1>1, <1>3, TouchInv DEF IInv
  <1>8. kv' \in KvState /\ KvIsOwn'
    <2>1. CASE PrefixHit
      <3> DEFINE e == Effective(HitKey)
                 suffix == SubSeq(Prompt, e + 1, Len(Prompt))
      <3>1. /\ Restored \in KvState /\ Len(Restored) = e /\ e \in Nat /\ e <= Len(Prompt)
            /\ \A i \in 1..e : Restored[i].tok = Prompt[i]
        BY <1>3, <2>1, RestoredLemma DEF IInv, PrefixHit
      <3>2. kv' = Forward(Restored, suffix)
        BY <2>1 DEF PrefixHit
      <3> HIDE DEF e
      <3>3. /\ suffix \in Seq(Tokens)
            /\ Len(suffix) = IF e + 1 <= Len(Prompt) THEN Len(Prompt) - (e + 1) + 1 ELSE 0
            /\ \A i \in 1..(Len(Prompt) - (e + 1) + 1) : suffix[i] = Prompt[(e + 1) + i - 1]
        <4>1. \A i \in (e + 1)..Len(Prompt) : Prompt[i] \in Tokens  BY <1>3, <3>1
        <4> QED  BY <4>1, <1>3, <3>1, SubSeqProperties
      <3>4. suffix \in Prompts /\ Len(suffix) = Len(Prompt) - e
        BY <1>3, <3>1, <3>3 DEF Prompts
      <3>5. \A i \in 1..(Len(Prompt) - e) : suffix[i] = Prompt[e + i]
        BY <1>3, <3>1, <3>3
      <3> HIDE DEF suffix
      <3>6. /\ kv' \in KvState /\ Len(kv') = Len(Restored) + Len(suffix)
            /\ \A i \in 1..Len(Restored) : kv'[i] = Restored[i]
            /\ \A i \in (Len(Restored) + 1)..(Len(Restored) + Len(suffix)) :
                  kv'[i].tok = suffix[i - Len(Restored)]
        BY <1>4, <3>1, <3>2, <3>4, ForwardLemma
      <3>7. Len(kv') = Len(Prompt)
        BY <1>3, <3>1, <3>4, <3>6
      <3>8. ASSUME NEW i \in 1..Len(Prompt)  PROVE  kv'[i].tok = Prompt[i]
        <4>1. CASE i <= e
          BY <4>1, <3>1, <3>6
        <4>2. CASE ~(i <= e)
          <5>1. /\ i \in (Len(Restored) + 1)..(Len(Restored) + Len(suffix))
                /\ i - e \in 1..(Len(Prompt) - e) /\ e + (i - e) = i
            BY <4>2, <1>3, <3>1, <3>4
          <5>2. kv'[i].tok = suffix[i - e]  BY <5>1, <3>6, <3>1
          <5>3. suffix[i - e] = Prompt[e + (i - e)]  BY <5>1, <3>5
          <5> QED  BY <5>1, <5>2, <5>3
        <4> QED  BY <4>1, <4>2
      <3> QED  BY <1>1, <1>2, <1>3, <1>4, <3>6, <3>7, <3>8, PrimedInv DEF clientVars
    <2>2. CASE PrimeFails
      <3>1. Restored \in KvState
        BY <1>3, <2>2, RestoredLemma DEF IInv, PrimeFails
      <3> QED  BY <2>2, <3>1 DEF PrimeFails, KvIsOwn
    <2>3. CASE PrefixMiss
      BY <1>4, <2>3 DEF PrefixMiss, KvIsOwn
    <2> QED  BY <2>1, <2>2, <2>3
  <1>9. EngineTypeOK'
    BY <1>1, <1>8 DEF IInv, EngineTypeOK, modelVars
  <1> QED  BY <1>5, <1>6, <1>7, <1>8, <1>9 DEF IInv

(* The KV cache after a prefill of some of the prompt, from an empty cache. *)
LEMMA PrefillLemma ==
    ASSUME layers \in [Adapters -> Nat], NEW toks \in Prompts
    PROVE  /\ Forward(<<>>, toks) \in KvState /\ Len(Forward(<<>>, toks)) = Len(toks)
           /\ \A i \in 1..Len(toks) : Forward(<<>>, toks)[i].tok = toks[i]
  <1>1. <<>> \in KvState /\ Len(<<>>) = 0  BY EmptySeq DEF KvState
  <1>2. Len(toks) \in Nat  BY LenProperties DEF Prompts
  <1>3. /\ Forward(<<>>, toks) \in KvState
        /\ Len(Forward(<<>>, toks)) = Len(<<>>) + Len(toks)
        /\ \A i \in (Len(<<>>) + 1)..(Len(<<>>) + Len(toks)) :
              Forward(<<>>, toks)[i].tok = toks[i - Len(<<>>)]
    BY <1>1, ForwardLemma
  <1> QED  BY <1>1, <1>2, <1>3

LEMMA ChunkLemma ==
    ASSUME layers \in [Adapters -> Nat], NEW p \in Prompts, NEW n \in 0..Len(p)
    PROVE  Forward(<<>>, SubSeq(p, 1, n)) \in KvState
  <1>1. Len(p) \in Nat /\ \A i \in 1..n : p[i] \in Tokens
    BY LenProperties, ElementOfSeq DEF Prompts
  <1>2. SubSeq(p, 1, n) \in Prompts
    BY <1>1, SubSeqProperties DEF Prompts
  <1> QED  BY <1>2, PrefillLemma

LEMMA PrefillInv ==
    ASSUME ConstantsAssumption, IInv, Prefill \/ PrefillFails
    PROVE  IInv'
  <1>1. /\ UNCHANGED <<clientVars, queueVars, loraVars, cur, ns, gen, li, count,
                       modelVars, cacheVars, panics>>
        /\ pc \in {"run", "prefill"} /\ pc' \in {"store", "decode", "fail"}
    BY DEF Prefill, PrefillFails, Prefilling
  <1>2. cur # None
    BY <1>1 DEF IInv, WorkerTypeOK
  <1>3. /\ Prompt \in Prompts /\ Len(Prompt) \in Nat
        /\ gen = 0 /\ layers \in [Adapters -> Nat]
    BY <1>1, <1>2, CurrentShape DEF IInv, Fresh, EngineTypeOK
  <1>4. ClientTypeOK' /\ SharedTypeOK' /\ Served'
    BY <1>1, ClientStable, SharedStable, ServedStable DEF queueVars
  <1>5. WorkerTypeOK' /\ Fresh'
    BY <1>1, <1>2 DEF IInv, WorkerTypeOK, Fresh
  <1>6. CacheInv'
    BY <1>1, CacheStable DEF IInv
  <1>7. kv' \in KvState /\ KvIsOwn'
    <2>1. CASE Prefill
      <3>1. kv' = Forward(<<>>, Prompt)  BY <2>1 DEF Prefill
      <3>2. /\ kv' \in KvState /\ Len(kv') = Len(Prompt)
            /\ \A i \in 1..Len(Prompt) : kv'[i].tok = Prompt[i]
        BY <3>1, <1>3, PrefillLemma
      <3> QED  BY <1>1, <1>2, <1>3, <3>2, PrimedInv DEF clientVars
    <2>2. CASE PrefillFails
      BY <2>2, <1>3, ChunkLemma DEF PrefillFails, KvIsOwn
    <2> QED  BY <2>1, <2>2
  <1>8. EngineTypeOK'
    BY <1>1, <1>7 DEF IInv, EngineTypeOK, modelVars
  <1> QED  BY <1>4, <1>5, <1>6, <1>7, <1>8 DEF IInv

(* What the decode loop hands to the client keeps the channel types. *)
LEMMA EmitLemma ==
    ASSUME ConstantsAssumption, IInv, cur \in Requests, Emit,
           UNCHANGED <<req, outcome, gone, rxopen, finish>>
    PROVE  ClientTypeOK' /\ \A r \in Requests : Sent(r) => Sent(r)'
  <1>1. /\ chan \in [Requests -> 0..ChanCap] /\ cancel \in [Requests -> BOOLEAN]
        /\ lost \in [Requests -> BOOLEAN] /\ ChanCap \in Nat
    BY DEF IInv, ClientTypeOK, ConstantsAssumption
  <1>2. chan' \in [Requests -> 0..ChanCap]
    <2>1. CASE chan' = chan  BY <1>1, <2>1
    <2>2. CASE chan[cur] < ChanCap /\ chan' = [chan EXCEPT ![cur] = @ + 1]
      BY <1>1, <2>2
    <2> QED  BY <2>1, <2>2 DEF Emit, Callback
  <1>3. cancel' \in [Requests -> BOOLEAN] /\ lost' \in [Requests -> BOOLEAN]
    BY <1>1 DEF Emit, Callback
  <1> QED  BY <1>2, <1>3 DEF IInv, ClientTypeOK, Sent

LEMMA DecodeInv ==
    ASSUME ConstantsAssumption, IInv, DecodeToken \/ DecodeFails \/ DecodeDone
    PROVE  IInv'
  <1>1. /\ UNCHANGED <<req, outcome, gone, rxopen, finish, queueVars, loraVars, cur, ns,
                       li, count, modelVars, cacheVars, panics>>
        /\ Emit /\ pc = "decode" /\ pc' \in {"decode", "fail", "store"}
    BY DEF DecodeToken, DecodeFails, DecodeDone
  <1>2. cur # None /\ cur \in Requests
    BY <1>1 DEF IInv, WorkerTypeOK
  <1>3. /\ Len(Prompt) \in Nat /\ gen \in 0..MaxTokens /\ MaxTokens \in Nat
        /\ layers \in [Adapters -> Nat] /\ kv \in KvState
    BY <1>2, CurrentShape DEF IInv, WorkerTypeOK, EngineTypeOK, ConstantsAssumption
  <1>4. ClientTypeOK' /\ \A r \in Requests : Sent(r) => Sent(r)'
    BY <1>1, <1>2, EmitLemma
  <1>5. SharedTypeOK' /\ Served'
    BY <1>1, <1>4, SharedStable, ServedStable DEF queueVars
  <1>6. gen' \in 0..MaxTokens
    BY <1>3 DEF DecodeToken, DecodeFails, DecodeDone
  <1>7. WorkerTypeOK' /\ Fresh'
    BY <1>1, <1>2, <1>6 DEF IInv, WorkerTypeOK, Fresh
  <1>8. CacheInv'
    BY <1>1, CacheStable DEF IInv
  <1>9. kv' \in KvState /\ KvIsOwn'
    <2>0. /\ Len(kv) = Len(Prompt) + gen /\ Prompt' = Prompt /\ DOMAIN kv = 1..Len(kv)
          /\ \A i \in DOMAIN kv :
                kv[i].tok = IF i <= Len(Prompt) THEN Prompt[i] ELSE GenToken
      BY <1>1, <1>3, LenProperties DEF IInv, KvIsOwn, Prompt, KvState
    <2>1. CASE DecodeToken
      <3> DEFINE new == [tok |-> GenToken, under |-> layers]
      <3>1. new \in KvEntry  BY <1>3 DEF KvEntry
      <3>2. new.tok = GenToken  OBVIOUS
      <3>3. kv' = Append(kv, new) /\ gen' = gen + 1  BY <2>1 DEF DecodeToken
      <3> HIDE DEF new
      <3>4. /\ kv' \in Seq(KvEntry) /\ Len(kv') = Len(kv) + 1
            /\ \A i \in 1..Len(kv) : kv'[i] = kv[i]
            /\ kv'[Len(kv) + 1] = new
        BY <1>3, <3>1, <3>3, AppendProperties DEF KvState
      <3>5. DOMAIN kv' = 1..(Len(kv) + 1)
        BY <3>4, LenProperties
      <3>6. ASSUME NEW i \in 1..(Len(kv) + 1)
            PROVE  kv'[i].tok = IF i <= Len(Prompt) THEN Prompt[i] ELSE GenToken
        <4>1. CASE i \in 1..Len(kv)  BY <4>1, <2>0, <3>4
        <4>2. CASE i = Len(kv) + 1
          <5>1. ~(i <= Len(Prompt))  BY <4>2, <2>0, <1>3
          <5> QED  BY <5>1, <4>2, <3>2, <3>4
        <4> QED  BY <4>1, <4>2, <2>0, <1>3
      <3> QED  BY <1>3, <2>0, <3>3, <3>4, <3>5, <3>6 DEF KvIsOwn, KvState
    <2>2. CASE DecodeFails
      BY <1>3, <2>2 DEF DecodeFails, KvIsOwn
    <2>3. CASE DecodeDone
      <3>1. kv' = kv /\ gen' = gen  BY <2>3 DEF DecodeDone
      <3> QED  BY <1>3, <2>0, <3>1 DEF KvIsOwn
    <2> QED  BY <2>1, <2>2, <2>3
  <1>10. EngineTypeOK'
    BY <1>1, <1>9 DEF IInv, EngineTypeOK, modelVars
  <1> QED  BY <1>4, <1>5, <1>7, <1>8, <1>9, <1>10 DEF IInv

LEMMA StorePrefixInv ==
    ASSUME ConstantsAssumption, IInv, StorePrefix
    PROVE  IInv'
  <1>1. /\ UNCHANGED <<clientVars, queueVars, loraVars, cur, ns, gen, li, count,
                       modelVars, kv, panics>>
        /\ pc = "store" /\ pc' = "done"
    BY DEF StorePrefix
  <1>2. cur # None
    BY <1>1 DEF IInv, WorkerTypeOK
  <1>3. Prompt \in Prompts /\ ns \in Namespaces /\ Len(Prompt) \in Nat
    BY <1>2, CurrentShape
  <1>4. ClientTypeOK' /\ SharedTypeOK' /\ Served'
    BY <1>1, ClientStable, SharedStable, ServedStable DEF queueVars
  <1>5. WorkerTypeOK' /\ Fresh' /\ EngineTypeOK'
    BY <1>1, <1>2 DEF IInv, WorkerTypeOK, Fresh, EngineTypeOK, modelVars
  <1>6. KvIsOwn'
    BY <1>1 DEF IInv, KvIsOwn, Prompt, clientVars
  <1>7. CacheInv'
    <2>1. CASE ~req[cur].cache
      BY <2>1, CacheStable DEF IInv, StorePrefix
    <2>2. CASE req[cur].cache
      <3> DEFINE wc == WithCache(ns)
                 tl == TouchedLru(ns)
      <3>1. lru' = tl /\ \E c \in Stored(wc[ns], Prompt) : caches' = [wc EXCEPT ![ns] = c]
        BY <2>2 DEF StorePrefix
      <3>2. /\ IsFunction(wc) /\ DOMAIN wc \subseteq Namespaces /\ ns \in DOMAIN wc
            /\ \A m \in DOMAIN wc : ExactCache(wc[m])
            /\ tl \in Seq(Namespaces) /\ Ids(tl) = DOMAIN wc
            /\ NoDuplicates(tl) /\ Len(tl) <= MaxNamespaces
        BY <1>3, WithCacheLemma DEF IInv
      <3> HIDE DEF wc, tl
      <3>3. PICK c \in Stored(wc[ns], Prompt) : caches' = [wc EXCEPT ![ns] = c]
        BY <3>1
      <3>4. /\ kv \in KvState /\ Len(kv) >= Len(Prompt)
            /\ \A i \in 1..Len(Prompt) : kv[i].tok = Prompt[i]
        <4>1. kv \in KvState /\ gen \in Nat
          BY DEF IInv, EngineTypeOK, WorkerTypeOK, ConstantsAssumption
        <4>2. DOMAIN kv = 1..Len(kv)  BY <4>1, LenProperties DEF KvState
        <4>3. /\ Len(kv) = Len(Prompt) + gen
              /\ \A i \in DOMAIN kv :
                    kv[i].tok = IF i <= Len(Prompt) THEN Prompt[i] ELSE GenToken
          BY <1>1 DEF IInv, KvIsOwn
        <4> QED  BY <1>3, <4>1, <4>2, <4>3
      <3>5. ExactCache(c)
        BY <1>3, <3>2, <3>3, <3>4, StoredLemma
      <3>6. DOMAIN caches' = DOMAIN wc /\ caches' = [x \in DOMAIN caches' |-> caches'[x]]
        BY <3>3
      <3>7. ASSUME NEW m \in DOMAIN caches'  PROVE  ExactCache(caches'[m])
        <4>1. CASE m = ns  BY <4>1, <3>2, <3>3, <3>5
        <4>2. CASE m # ns  BY <4>2, <3>2, <3>3, <3>6
        <4> QED  BY <4>1, <4>2
      <3>8. CacheTypeOK'
        BY <3>1, <3>2, <3>6, <3>7 DEF CacheTypeOK, ExactCache, IsFunction, IsPrefixCache
      <3>9. CacheMatchesKeys'
        BY <3>7 DEF CacheMatchesKeys, ExactCache
      <3>10. RegistryBounded'
        BY <3>1, <3>2, <3>6 DEF RegistryBounded, Ids, NoDuplicates
      <3> QED  BY <3>8, <3>9, <3>10 DEF CacheInv
    <2> QED  BY <2>1, <2>2
  <1> QED  BY <1>4, <1>5, <1>6, <1>7 DEF IInv

(* The worker goes back to its loop with a reply sent or dropped. *)
LEMMA EndInv ==
    ASSUME ConstantsAssumption, IInv, Reply \/ Embed \/ Panic
    PROVE  IInv'
  <1>1. /\ UNCHANGED <<req, gone, cancel, rxopen, chan, lost, finish, queueVars, loraVars,
                       cacheVars>>
        /\ Idle /\ pc \in {"done", "fail", "embed", "run", "prefill", "decode", "store"}
    BY DEF Reply, Embed, Panic
  <1>2. cur # None /\ cur \in Requests /\ Sent(cur) /\ Prompt \in Prompts
    BY <1>1, CurrentShape DEF IInv, WorkerTypeOK, Served
  <1>3. PICK o \in {"ok", "err", "dropped"} : outcome' = [outcome EXCEPT ![cur] = o]
    BY DEF Reply, Embed, Panic
  <1>4. ClientTypeOK' /\ \A q \in Requests : Sent(q) => Sent(q)'
    BY <1>1, <1>2, <1>3, ReplyStable
  <1>5. SharedTypeOK' /\ Served'
    BY <1>1, <1>4, SharedStable, ServedStable DEF queueVars, Idle
  <1>6. panics' \in 0..MaxPanics
    BY DEF IInv, WorkerTypeOK, Reply, Embed, Panic, ConstantsAssumption
  <1>7. WorkerTypeOK' /\ Fresh' /\ KvIsOwn'
    BY <1>1, <1>6 DEF Idle, WorkerTypeOK, Fresh, KvIsOwn, ConstantsAssumption
  <1>8. EngineTypeOK'
    <2>1. stack \in Seq(Adapters) /\ layers \in [Adapters -> Nat] /\ kv \in KvState
      BY DEF IInv, EngineTypeOK
    <2>2. stack' \in Seq(Adapters) /\ layers' \in [Adapters -> Nat]
      <3>1. <<>> \in Seq(Adapters) /\ NoLayers \in [Adapters -> Nat]
        BY EmptySeq DEF NoLayers
      <3> QED  BY <2>1, <3>1 DEF Reply, Embed, Panic, modelVars
    <2>3. kv' \in KvState
      <3>1. CASE Reply  BY <2>1, <3>1 DEF Reply
      <3>2. CASE Embed
        <4>1. Forward(<<>>, Prompt) \in KvState  BY <1>2, <2>1, PrefillLemma
        <4>2. \A n \in 0..Len(Prompt) : Forward(<<>>, SubSeq(Prompt, 1, n)) \in KvState
          BY <1>2, <2>1, ChunkLemma
        <4> QED  BY <3>2, <4>1, <4>2 DEF Embed
      <3>3. CASE Panic  BY <3>3, EmptySeq DEF Panic, KvState
      <3> QED  BY <3>1, <3>2, <3>3
    <2> QED  BY <2>2, <2>3 DEF EngineTypeOK
  <1>9. CacheInv'
    BY <1>1, CacheStable DEF IInv
  <1> QED  BY <1>4, <1>5, <1>7, <1>8, <1>9 DEF IInv

LEMMA ExitInv ==
    ASSUME IInv, WorkerExit
    PROVE  IInv'
  <1>1. ClientTypeOK' /\ SharedTypeOK' /\ Served'
    BY ClientStable, SharedStable, ServedStable DEF WorkerExit, queueVars
  <1>2. WorkerTypeOK' /\ EngineTypeOK' /\ Fresh' /\ KvIsOwn'
    BY DEF IInv, WorkerExit, WorkerTypeOK, EngineTypeOK, Fresh, KvIsOwn, modelVars
  <1>3. CacheInv'
    BY CacheStable DEF IInv, WorkerExit
  <1> QED  BY <1>1, <1>2, <1>3 DEF IInv

LEMMA StutterInv ==
    ASSUME IInv, UNCHANGED vars
    PROVE  IInv'
  <1>1. ClientTypeOK' /\ SharedTypeOK' /\ Served'
    BY ClientStable, SharedStable, ServedStable DEF vars, workerVars, queueVars
  <1>2. WorkerTypeOK' /\ EngineTypeOK' /\ Fresh' /\ KvIsOwn'
    BY WorkerStable DEF IInv, vars, clientVars
  <1>3. CacheInv'
    BY CacheStable DEF IInv, vars
  <1> QED  BY <1>1, <1>2, <1>3 DEF IInv

----------------------------------------------------------------------------
(* Whatever clients, the admin and the worker do, in any order, the        *)
(* inductive invariant holds.                                              *)
THEOREM Invariance == Spec => []IInv
  <1>1. Init => IInv
    BY ConstantsAssumption, InitInv
  <1>2. IInv /\ [Next]_vars => IInv'
    <2> SUFFICES ASSUME IInv, [Next]_vars  PROVE  IInv'
      OBVIOUS
    <2>1. CASE Worker
      BY <2>1, ConstantsAssumption, ShedInv, StartInv, LoraInv, PrefixInv, PrefillInv, DecodeInv,
         StorePrefixInv, EndInv, ExitInv DEF Worker, Generation
    <2>2. ASSUME NEW r \in Requests, Client(r)  PROVE  IInv'
      BY <2>2, ConstantsAssumption, EnqueueInv, ClientInv DEF Client
    <2>3. CASE Admin \/ CloseQueue \/ Stopped
      BY <2>3, ConstantsAssumption, ServerInv DEF Admin
    <2>4. CASE UNCHANGED vars
      BY <2>4, StutterInv
    <2> QED  BY <2>1, <2>2, <2>3, <2>4 DEF Next
  <1> QED  BY <1>1, <1>2, PTL DEF Spec

(* Type correctness: the bounded queue and the token channels never exceed *)
(* their capacities, the worker is never without the request it serves,    *)
(* and every cache and KV position is well formed (queue.rs, worker.rs).   *)
THEOREM TypeCorrect == Spec => []TypeOK
  <1>1. IInv => TypeOK
    BY DEF IInv, TypeOK, CacheInv
  <1> QED  BY <1>1, Invariance, PTL

(* Isolation: the KV cache a request decodes on is its own prompt and its  *)
(* own completion, whatever earlier requests left behind: hits, primes     *)
(* that failed half way, errors, panics (run_generate, prime_with_prefix). *)
THEOREM KvIsolation == Spec => []KvIsOwn
  <1>1. IInv => KvIsOwn
    BY DEF IInv
  <1> QED  BY <1>1, Invariance, PTL

(* Exactness: no cached KV state covers more, less or other tokens than    *)
(* its key (store_kv_in_prefix_cache truncates to the prompt).             *)
THEOREM CacheExactness == Spec => []CacheMatchesKeys
  <1>1. IInv => CacheMatchesKeys
    BY DEF IInv, CacheInv
  <1> QED  BY <1>1, Invariance, PTL

(* Boundedness: PrefixCacheRegistry never holds more than max_namespaces   *)
(* caches, and its recency queue lists exactly those.                      *)
THEOREM RegistryBound == Spec => []RegistryBounded
  <1>1. IInv => RegistryBounded
    BY DEF IInv, CacheInv
  <1> QED  BY <1>1, Invariance, PTL
----------------------------------------------------------------------------
(* No text is lost silently: a call is queued or served only while nobody  *)
(* has answered it, and text is dropped only while it is served.           *)

Waiting ==
    /\ \A i \in 1..Len(queue) : outcome[queue[i]] = "pending" /\ queue[i] # cur
    /\ \A i, k \in 1..Len(queue) : queue[i] = queue[k] => i = k
    /\ cur # None => outcome[cur] = "pending"

Owned ==
    /\ \A r \in Requests : lost[r] => cancel[r]
    /\ \A r \in Requests : finish[r] = "complete" => outcome[r] = "ok" /\ ~lost[r]

LossInv == Waiting /\ Owned

(* Nothing of it moves while the worker computes. *)
LEMMA LossKept ==
    ASSUME LossInv, UNCHANGED <<outcome, cancel, lost, finish, queue, cur>>
    PROVE  LossInv'
  BY DEF LossInv, Waiting, Owned

(* The head of the queue leaves it, to be served or to be shed. *)
LEMMA LossHead ==
    ASSUME IInv, LossInv, queue # <<>>, queue' = Tail(queue)
    PROVE  /\ Head(queue) \in Requests /\ outcome[Head(queue)] = "pending"
           /\ \A i \in 1..Len(queue') :
                 /\ outcome[queue'[i]] = "pending" /\ queue'[i] # cur
                 /\ queue'[i] # Head(queue) /\ queue'[i] \in Requests
           /\ \A i, k \in 1..Len(queue') : queue'[i] = queue'[k] => i = k
  <1>1. queue \in Seq(Requests)
    BY DEF IInv, SharedTypeOK
  <1>2. /\ Head(queue) = queue[1] /\ Len(queue) \in Nat \ {0} /\ Len(queue') = Len(queue) - 1
        /\ \A i \in 1..Len(queue) : queue[i] \in Requests
        /\ \A i \in 1..Len(queue') : queue'[i] = queue[i + 1]
    BY <1>1, HeadTailProperties, EmptySeq, ElementOfSeq, LenProperties
  <1>3. \A i \in 1..Len(queue') : i + 1 \in 1..Len(queue) /\ i + 1 # 1
    BY <1>2
  <1> QED
    BY <1>2, <1>3 DEF LossInv, Waiting

LEMMA LossEnqueue ==
    ASSUME IInv, LossInv, NEW r \in Requests, Enqueue(r)
    PROVE  LossInv'
  <1>1. queue \in Seq(Requests) /\ outcome \in [Requests -> {"new", "pending", "full", "ok",
                                                              "err", "dropped"}]
    BY DEF IInv, SharedTypeOK, ClientTypeOK
  <1>2. /\ outcome[r] = "new" /\ outcome' = [outcome EXCEPT ![r] = "pending"]
        /\ queue' = Append(queue, r) /\ UNCHANGED <<cancel, lost, finish, cur>>
    BY DEF Enqueue, workerVars
  <1>3. /\ Len(queue) \in Nat /\ Len(queue') = Len(queue) + 1 /\ queue'[Len(queue) + 1] = r
        /\ \A i \in 1..Len(queue) : queue'[i] = queue[i] /\ queue[i] \in Requests
    BY <1>1, <1>2, AppendProperties, LenProperties, ElementOfSeq
  <1>4. r # cur /\ \A i \in 1..Len(queue) : queue[i] # r
    BY <1>2, ConstantsAssumption DEF LossInv, Waiting, IInv, WorkerTypeOK, ConstantsAssumption
  <1>5. cur \in Requests \cup {None} /\ \A q \in Requests : q # r => outcome'[q] = outcome[q]
    BY <1>1, <1>2 DEF IInv, WorkerTypeOK
  <1>6. Waiting'
    BY <1>1, <1>2, <1>3, <1>4, <1>5 DEF LossInv, Waiting
  <1>7. Owned'
    BY <1>1, <1>2, <1>5 DEF LossInv, Owned
  <1> QED
    BY <1>6, <1>7 DEF LossInv

LEMMA LossClient ==
    ASSUME IInv, LossInv, NEW r \in Requests, Client(r)
    PROVE  LossInv'
  <1>0. /\ outcome \in [Requests -> {"new", "pending", "full", "ok", "err", "dropped"}]
        /\ finish \in [Requests -> {"none", "complete", "cancelled", "error"}]
        /\ cancel \in [Requests -> BOOLEAN] /\ lost \in [Requests -> BOOLEAN]
        /\ cur \in Requests \cup {None}
        /\ \A i \in 1..Len(queue) : queue[i] \in Requests
    BY ElementOfSeq DEF IInv, ClientTypeOK, WorkerTypeOK, SharedTypeOK
  <1>1. CASE Enqueue(r)
    BY <1>1, LossEnqueue
  <1>2. CASE RejectFull(r)
    <2>1. /\ outcome[r] = "new" /\ outcome' = [outcome EXCEPT ![r] = "full"]
          /\ UNCHANGED <<cancel, lost, finish, queue, cur>>
      BY <1>2 DEF RejectFull, queueVars, workerVars
    <2> QED
      BY <1>0, <2>1 DEF LossInv, Waiting, Owned
  <1>3. CASE Disconnect(r) \/ ReadToken(r)
    BY <1>3, LossKept DEF Disconnect, ReadToken, queueVars, workerVars
  <1>4. CASE WsSendFails(r)
    <2>1. /\ cancel' = [cancel EXCEPT ![r] = TRUE]
          /\ UNCHANGED <<outcome, lost, finish, queue, cur>>
      BY <1>4 DEF WsSendFails, queueVars, workerVars
    <2> QED
      BY <1>0, <2>1 DEF LossInv, Waiting, Owned
  <1>5. CASE ReportFinish(r)
    <2>1. UNCHANGED <<outcome, cancel, lost, queue, cur>>
      BY <1>5 DEF ReportFinish, queueVars, workerVars
    <2>2. finish'[r] = "complete" => outcome[r] = "ok" /\ ~cancel[r]
      BY <1>0, <1>5 DEF ReportFinish
    <2>3. \A q \in Requests : q # r => finish'[q] = finish[q]
      BY <1>0, <1>5 DEF ReportFinish
    <2> QED
      BY <1>0, <2>1, <2>2, <2>3 DEF LossInv, Waiting, Owned
  <1> QED
    BY <1>1, <1>2, <1>3, <1>4, <1>5 DEF Client

(* Text is dropped for the call that is served, and its token is set. *)
LEMMA LossEmit ==
    ASSUME IInv, LossInv, cur \in Requests, Emit,
           UNCHANGED <<outcome, finish, queue, cur>>
    PROVE  LossInv'
  <1>1. /\ cancel \in [Requests -> BOOLEAN] /\ lost \in [Requests -> BOOLEAN]
        /\ outcome[cur] = "pending"
    BY ConstantsAssumption DEF IInv, ClientTypeOK, WorkerTypeOK, LossInv, Waiting,
                               ConstantsAssumption
  <1>2. \/ UNCHANGED <<cancel, lost>>
        \/ /\ cancel' = [cancel EXCEPT ![cur] = TRUE]
           /\ lost' = [lost EXCEPT ![cur] = TRUE]
    BY DEF Emit, Callback
  <1>3. Waiting'
    BY DEF LossInv, Waiting
  <1>4. Owned'
    BY <1>1, <1>2 DEF LossInv, Owned
  <1> QED
    BY <1>3, <1>4 DEF LossInv

LEMMA LossWorker ==
    ASSUME IInv, LossInv, Worker
    PROVE  LossInv'
  <1>0. /\ outcome \in [Requests -> {"new", "pending", "full", "ok", "err", "dropped"}]
        /\ cur \in Requests \cup {None} /\ None \notin Requests
        /\ \A i \in 1..Len(queue) : queue[i] \in Requests
    BY ElementOfSeq, ConstantsAssumption DEF IInv, ClientTypeOK, WorkerTypeOK, SharedTypeOK,
                                            ConstantsAssumption
  <1>1. CASE Shed
    <2>1. PICK o \in {"err", "dropped"} : outcome' = [outcome EXCEPT ![Head(queue)] = o]
      BY <1>1 DEF Shed
    <2>2. /\ queue # <<>> /\ queue' = Tail(queue) /\ cur = None /\ cur' = cur
          /\ UNCHANGED <<cancel, lost, finish>>
      BY <1>1 DEF Shed, workerVars, IInv, WorkerTypeOK
    <2>3. Waiting'
      BY <1>0, <2>1, <2>2, LossHead DEF Waiting
    <2>4. Owned'
      BY <1>0, <2>1, <2>2, LossHead DEF LossInv, Owned
    <2> QED
      BY <2>3, <2>4 DEF LossInv
  <1>2. CASE Start
    <2>1. /\ queue # <<>> /\ queue' = Tail(queue) /\ cur' = Head(queue)
          /\ UNCHANGED <<outcome, cancel, lost, finish>>
      BY <1>2 DEF Start, clientVars
    <2>2. Waiting'
      BY <2>1, LossHead DEF Waiting
    <2>3. Owned'
      BY <2>1 DEF LossInv, Owned
    <2> QED
      BY <2>2, <2>3 DEF LossInv
  <1>3. CASE PushLora \/ ApplyLora
    BY <1>3, LossKept DEF PushLora, ApplyLora, clientVars, queueVars
  <1>4. CASE Generation
    <2>1. CASE DecodeToken \/ DecodeFails \/ DecodeDone
      <3>1. /\ Emit /\ cur \in Requests
            /\ UNCHANGED <<outcome, finish, queue, cur>>
        BY <2>1, <1>0 DEF DecodeToken, DecodeFails, DecodeDone, queueVars, IInv, WorkerTypeOK
      <3> QED
        BY <3>1, LossEmit
    <2>2. CASE PrefixHit \/ PrimeFails \/ PrefixMiss \/ Prefill \/ PrefillFails \/ StorePrefix
      BY <2>2, LossKept DEF PrefixHit, PrimeFails, PrefixMiss, Prefill, PrefillFails,
                            StorePrefix, clientVars, queueVars
    <2> QED
      BY <1>4, <2>1, <2>2 DEF Generation
  <1>5. CASE Reply \/ Embed \/ Panic
    <2>1. PICK o \in {"ok", "err", "dropped"} : outcome' = [outcome EXCEPT ![cur] = o]
      BY <1>5 DEF Reply, Embed, Panic
    <2>2. /\ cur \in Requests /\ cur' = None
          /\ UNCHANGED <<cancel, lost, finish, queue>>
      BY <1>0, <1>5 DEF Reply, Embed, Panic, Idle, queueVars, IInv, WorkerTypeOK
    <2>3. Waiting'
      BY <1>0, <2>1, <2>2 DEF LossInv, Waiting
    <2>4. Owned'
      BY <1>0, <2>1, <2>2 DEF LossInv, Waiting, Owned
    <2> QED
      BY <2>3, <2>4 DEF LossInv
  <1>6. CASE WorkerExit
    BY <1>6, LossKept DEF WorkerExit, clientVars, queueVars
  <1> QED
    BY <1>1, <1>2, <1>3, <1>4, <1>5, <1>6 DEF Worker

(* Cancellation owns up to loss: a stream the handler reports as complete  *)
(* has put all of its text into the token channel (the stream callback of  *)
(* run_generate, the finishing tasks of chat.rs and ws.rs).                *)
THEOREM CompleteStreams == Spec => []NoSilentLoss
  <1>1. Init => LossInv
    BY ConstantsAssumption, EmptySeq
    DEF Init, LossInv, Waiting, Owned, ConstantsAssumption
  <1>2. IInv /\ LossInv /\ [Next]_vars => LossInv'
    <2> SUFFICES ASSUME IInv, LossInv, [Next]_vars  PROVE  LossInv'
      OBVIOUS
    <2>1. ASSUME NEW r \in Requests, Client(r)  PROVE  LossInv'
      BY <2>1, LossClient
    <2>2. CASE Admin \/ CloseQueue \/ Stopped \/ UNCHANGED vars
      BY <2>2, LossKept DEF Admin, AdminRegister, AdminUnregister, CloseQueue, Stopped, vars,
                            clientVars, queueVars, workerVars
    <2> QED
      BY <2>1, <2>2, LossWorker DEF Next
  <1>3. LossInv => NoSilentLoss
    BY DEF LossInv, Owned, NoSilentLoss
  <1> QED
    BY <1>1, <1>2, <1>3, Invariance, PTL DEF Spec

----------------------------------------------------------------------------
(* The adapters of a request are counted while they are on the stack, and  *)
(* nothing reaches the layers before the whole stack is applied.           *)
StackInv ==
    panics = 0 =>
        /\ pc \in {"idle", "embed", "stopped"} => count = 0
        /\ count = 0 => stack = <<>>
        /\ count = 0 \/ pc = "push" => layers = NoLayers

LEMMA StackKept ==
    ASSUME StackInv, UNCHANGED <<panics, pc, count, stack, layers>>
    PROVE  StackInv'
  BY DEF StackInv

LEMMA StackWorker ==
    ASSUME IInv, StackInv, Worker
    PROVE  StackInv'
  <1>0. count \in Nat /\ panics \in Nat
    BY ConstantsAssumption DEF IInv, WorkerTypeOK, ConstantsAssumption
  <1>1. CASE Shed
    BY <1>1, StackKept DEF Shed, workerVars, modelVars
  <1>2. CASE Start
    BY <1>2 DEF Start, modelVars, StackInv
  <1>3. CASE PushLora
    <2>1. CASE UNCHANGED <<stack, count>>
      BY <1>3, <2>1, StackKept DEF PushLora
    <2>2. CASE count' = count + 1
      <3>1. pc = "push" /\ UNCHANGED <<panics, pc, layers>> /\ count' # 0
        BY <1>0, <1>3, <2>2 DEF PushLora
      <3> QED
        BY <3>1 DEF StackInv
    <2> QED
      BY <1>3, <2>1, <2>2 DEF PushLora
  <1>4. CASE ApplyLora
    <2>1. /\ pc = "push" /\ pc' = "run" /\ panics' = panics
          /\ \/ UNCHANGED <<stack, layers, count>>
             \/ count # 0 /\ UNCHANGED <<stack, count>>
             \/ stack' = <<>> /\ layers' = NoLayers
      BY <1>0, <1>4 DEF ApplyLora
    <2> QED
      BY <2>1 DEF StackInv
  <1>5. CASE Generation
    <2>1. /\ UNCHANGED <<panics, count, stack, layers>>
          /\ pc \notin {"push"} /\ pc' \notin {"idle", "embed", "stopped", "push"}
      BY <1>5 DEF Generation, PrefixHit, PrimeFails, PrefixMiss, Prefill, PrefillFails,
                  DecodeToken, DecodeFails, DecodeDone, StorePrefix, modelVars, Prefilling
    <2> QED
      BY <2>1 DEF StackInv
  <1>6. CASE Reply
    <2>1. /\ pc' = "idle" /\ count' = 0 /\ panics' = panics
          /\ \/ stack' = <<>> /\ layers' = NoLayers
             \/ count = 0 /\ UNCHANGED <<stack, layers>>
      BY <1>0, <1>6 DEF Reply, Idle, modelVars
    <2> QED
      BY <2>1 DEF StackInv
  <1>7. CASE Embed
    BY <1>7 DEF Embed, Idle, modelVars, StackInv
  <1>8. CASE Panic
    BY <1>0, <1>8 DEF Panic, StackInv
  <1>9. CASE WorkerExit
    BY <1>9 DEF WorkerExit, modelVars, StackInv
  <1> QED
    BY <1>1, <1>2, <1>3, <1>4, <1>5, <1>6, <1>7, <1>8, <1>9 DEF Worker

(* Clients and the admin do not touch the engine. *)
LEMMA StackStep ==
    ASSUME IInv, StackInv, [Next]_vars
    PROVE  StackInv'
  <1>1. ASSUME NEW r \in Requests, Client(r)  PROVE  StackInv'
    BY <1>1, StackKept DEF Client, Enqueue, RejectFull, Disconnect, ReadToken, WsSendFails,
                           ReportFinish, workerVars, modelVars
  <1>2. CASE Admin \/ CloseQueue \/ Stopped \/ UNCHANGED vars
    BY <1>2, StackKept DEF Admin, AdminRegister, AdminUnregister, CloseQueue, Stopped, vars,
                           workerVars, modelVars
  <1> QED
    BY <1>1, <1>2, StackWorker DEF Next

(* The error paths of apply_lora_selection and process_one_request leave   *)
(* no adapter on the engine's stack or on the layers: only a panic does.   *)
THEOREM ErrorsClearTheStack == Spec => []StackClearedOnError
  <1>1. Init => StackInv
    BY DEF Init, StackInv
  <1>2. IInv /\ StackInv /\ [Next]_vars => StackInv'
    BY StackStep
  <1>3. StackInv => StackClearedOnError
    BY DEF StackInv, StackClearedOnError, StackCleared
  <1> QED
    BY <1>1, <1>2, <1>3, Invariance, PTL DEF Spec

----------------------------------------------------------------------------
(* One namespace, one way to adapt the model.  A selection is attached     *)
(* entry by entry, unless one of them is rejected.                         *)

Entries(sel) == [i \in 1..Len(sel) |-> <<InitLoras[sel[i][1]], sel[i][2]>>]

Occurrences(f, n, a) == {i \in 1..n : f[i] = a}

Refused(sel) == \E i \in 1..Len(sel) : Entries(sel)[i] \in Adapters /\ Rejected(Entries(sel)[i])

Attached(sel) ==
    IF Refused(sel) THEN NoLayers
    ELSE [a \in Adapters |-> Cardinality(Occurrences(Entries(sel), Len(sel), a))]

Selections == Seq(Names \X Scales)

(* What the namespaces need: no two scales are printed alike, and adapters *)
(* add up on the layers, or never come more than one at a time.            *)
NamespacesTell ==
    /\ \A s, t \in Scales : Fixed6(s) = Fixed6(t) => s = t
    /\ Composes \/ \A s \in Shapes : Len(s.lora) <= 1

LEMMA OccurrencesLemma ==
    ASSUME NEW f, NEW a, NEW n \in Nat
    PROVE  /\ IsFiniteSet(Occurrences(f, n, a))
           /\ Cardinality(Occurrences(f, n, a)) \in Nat
           /\ Cardinality(Occurrences(f, n, a)) = 0 <=> \A i \in 1..n : f[i] # a
           /\ Occurrences(f, 0, a) = {}
           /\ Cardinality(Occurrences(f, n + 1, a)) =
                 Cardinality(Occurrences(f, n, a)) + (IF f[n + 1] = a THEN 1 ELSE 0)
  <1>1. IsFiniteSet(Occurrences(f, n, a)) /\ Cardinality(Occurrences(f, n, a)) \in Nat
    <2>1. IsFiniteSet(1..n)
      BY FS_Interval
    <2>2. Occurrences(f, n, a) \in SUBSET (1..n)
      BY DEF Occurrences
    <2> QED
      BY <2>1, <2>2, FS_Subset, FS_CardinalityType
  <1>2. Occurrences(f, n, a) = {} <=> \A i \in 1..n : f[i] # a
    BY DEF Occurrences
  <1>3. Occurrences(f, 0, a) = {}
    BY DEF Occurrences
  <1>4. Occurrences(f, n + 1, a) =
           IF f[n + 1] = a THEN Occurrences(f, n, a) \cup {n + 1} ELSE Occurrences(f, n, a)
    BY DEF Occurrences
  <1>5. n + 1 \notin Occurrences(f, n, a)
    BY DEF Occurrences
  <1> DEFINE S == Occurrences(f, n, a)
  <1>6. Cardinality(S) = 0 <=> S = {}
    BY <1>1, FS_EmptySet
  <1>7. Cardinality(S \cup {n + 1}) = Cardinality(S) + 1
    BY <1>1, <1>5, FS_AddElement
  <1>8. Cardinality(Occurrences(f, n + 1, a)) = Cardinality(S) + (IF f[n + 1] = a THEN 1 ELSE 0)
    <2> HIDE DEF S
    <2>1. Occurrences(f, n + 1, a) = IF f[n + 1] = a THEN S \cup {n + 1} ELSE S
      BY <1>4 DEF S
    <2>2. Cardinality(S) \in Nat
      BY <1>1 DEF S
    <2> QED
      BY <1>7, <2>1, <2>2
  <1> QED
    BY <1>1, <1>2, <1>3, <1>6, <1>8

(* s2 has the entries of s1 in another order: entry i at F[i]. *)
Rearranges(F, s1, s2) ==
    /\ F \in [1..Len(s1) -> 1..Len(s2)]
    /\ \A i \in 1..Len(s1) : s2[F[i]] = s1[i]
    /\ \A i, j \in 1..Len(s1) : F[i] = F[j] => i = j
    /\ \A m \in 1..Len(s2) : \E i \in 1..Len(s1) : F[i] = m

(* Selections of one namespace are the same entries in another order. *)
LEMMA RearrangedLemma ==
    ASSUME NamespacesTell, NEW s1 \in Selections, NEW s2 \in Selections,
           CacheNamespace(s1) = CacheNamespace(s2)
    PROVE  \E F : Rearranges(F, s1, s2)
  <1> DEFINE Pairs == Names \X Scales
             At(s, p) == Occurrences(s, Len(s), p)
             b(p) == CHOOSE f : f \in Bijection(At(s1, p), At(s2, p))
             F == [i \in 1..Len(s1) |-> b(s1[i])[i]]
  <1>1. ASSUME NEW s \in Selections, NEW p \in Pairs
        PROVE  CacheNamespace(s)[<<p[1], Fixed6(p[2])>>] = Cardinality(At(s, p))
    <2>1. <<p[1], Fixed6(p[2])>> \in Names \X Printed
      BY DEF Printed
    <2>2. DOMAIN s = 1..Len(s) /\ \A i \in 1..Len(s) : s[i] \in Pairs
      BY LenProperties, ElementOfSeq DEF Selections
    <2>3. {i \in DOMAIN s : <<s[i][1], Fixed6(s[i][2])>> = <<p[1], Fixed6(p[2])>>} = At(s, p)
      <3>1. ASSUME NEW q \in Pairs
            PROVE  <<q[1], Fixed6(q[2])>> = <<p[1], Fixed6(p[2])>> <=> q = p
        BY DEF NamespacesTell
      <3> QED
        BY <2>2, <3>1 DEF Occurrences
    <2> QED
      BY <2>1, <2>3 DEF CacheNamespace
  <1>2. ASSUME NEW p \in Pairs
        PROVE  b(p) \in Bijection(At(s1, p), At(s2, p))
    <2>1. Len(s1) \in Nat /\ Len(s2) \in Nat
      BY LenProperties DEF Selections
    <2>2. IsFiniteSet(At(s1, p)) /\ IsFiniteSet(At(s2, p))
      BY <2>1, OccurrencesLemma
    <2>3. Cardinality(At(s1, p)) = Cardinality(At(s2, p))
      BY <1>1
    <2> HIDE DEF At
    <2>4. ExistsBijection(At(s1, p), At(s2, p))
      BY <2>2, <2>3, FS_SameCardinalityBij
    <2> QED
      BY <2>4, Fun_ExistsBij
  <1> HIDE DEF b
  <1>3. ASSUME NEW p \in Pairs
        PROVE  /\ b(p) \in [At(s1, p) -> At(s2, p)]
               /\ \A i, j \in At(s1, p) : b(p)[i] = b(p)[j] => i = j
               /\ \A m \in At(s2, p) : \E i \in At(s1, p) : b(p)[i] = m
    <2> HIDE DEF At
    <2> QED
      BY <1>2, Fun_BijectionProperties
  <1>4. \A i \in 1..Len(s1) : s1[i] \in Pairs /\ i \in At(s1, s1[i])
    BY LenProperties, ElementOfSeq DEF Selections, Occurrences
  <1>5. \A i \in 1..Len(s2) : s2[i] \in Pairs /\ i \in At(s2, s2[i])
    BY LenProperties, ElementOfSeq DEF Selections, Occurrences
  <1>6. ASSUME NEW i \in 1..Len(s1)
        PROVE  F[i] \in 1..Len(s2) /\ s2[F[i]] = s1[i] /\ F[i] = b(s1[i])[i]
    <2>1. b(s1[i])[i] \in At(s2, s1[i])
      BY <1>3, <1>4
    <2> QED
      BY <2>1 DEF Occurrences
  <1>7. ASSUME NEW i \in 1..Len(s1), NEW j \in 1..Len(s1), F[i] = F[j]
        PROVE  i = j
    <2>1. s1[i] = s1[j]
      BY <1>6, <1>7
    <2>2. b(s1[i])[i] = b(s1[i])[j] /\ i \in At(s1, s1[i]) /\ j \in At(s1, s1[i])
      BY <1>4, <1>6, <1>7, <2>1
    <2> QED
      BY <1>3, <1>4, <2>2
  <1>8. ASSUME NEW m \in 1..Len(s2)
        PROVE  \E i \in 1..Len(s1) : F[i] = m
    <2>1. PICK i \in At(s1, s2[m]) : b(s2[m])[i] = m
      BY <1>3, <1>5
    <2>2. i \in 1..Len(s1) /\ s1[i] = s2[m]
      BY DEF Occurrences
    <2> QED
      BY <1>6, <2>1, <2>2
  <1>9. F \in [1..Len(s1) -> 1..Len(s2)]
    BY <1>6
  <1> HIDE DEF F
  <1>10. Rearranges(F, s1, s2)
    BY <1>6, <1>7, <1>8, <1>9 DEF Rearranges
  <1> QED
    BY <1>10

(* So they leave the same on the layers. *)
LEMMA AttachedLemma ==
    ASSUME NamespacesTell, NEW s1 \in Selections, NEW s2 \in Selections,
           CacheNamespace(s1) = CacheNamespace(s2)
    PROVE  Attached(s1) = Attached(s2)
  <1>0. PICK F : Rearranges(F, s1, s2)
    BY RearrangedLemma
  <1>1. /\ F \in [1..Len(s1) -> 1..Len(s2)]
        /\ \A i \in 1..Len(s1) : s2[F[i]] = s1[i]
        /\ \A i, j \in 1..Len(s1) : F[i] = F[j] => i = j
        /\ \A m \in 1..Len(s2) : \E i \in 1..Len(s1) : F[i] = m
    BY <1>0 DEF Rearranges
  <1>2. \A i \in 1..Len(s1) : Entries(s2)[F[i]] = Entries(s1)[i]
    BY <1>1 DEF Entries
  <1>3. Refused(s1) <=> Refused(s2)
    <2>1. ASSUME NEW i \in 1..Len(s1) PROVE F[i] \in 1..Len(s2)
      BY <1>1
    <2>2. ASSUME NEW m \in 1..Len(s2)
          PROVE  \E i \in 1..Len(s1) : Entries(s2)[m] = Entries(s1)[i]
      <3>1. PICK i \in 1..Len(s1) : F[i] = m
        BY <1>1
      <3> QED
        BY <1>2, <3>1
    <2>3. Refused(s1) => Refused(s2)
      BY <1>2, <2>1 DEF Refused
    <2>4. Refused(s2) => Refused(s1)
      BY <2>2 DEF Refused
    <2> QED
      BY <2>3, <2>4
  <1>4. ASSUME NEW a
        PROVE  Cardinality(Occurrences(Entries(s1), Len(s1), a)) =
               Cardinality(Occurrences(Entries(s2), Len(s2), a))
    <2> DEFINE A1 == Occurrences(Entries(s1), Len(s1), a)
               A2 == Occurrences(Entries(s2), Len(s2), a)
               G == [i \in A1 |-> F[i]]
    <2>1. IsFiniteSet(A1)
      <3>1. Len(s1) \in Nat
        BY LenProperties DEF Selections
      <3> QED
        BY <3>1, OccurrencesLemma
    <2>2. \A i \in A1 : i \in 1..Len(s1) /\ F[i] \in A2
      BY <1>1, <1>2 DEF Occurrences
    <2>3. G \in [A1 -> A2] /\ \A i, j \in A1 : G[i] = G[j] => i = j
      <3> HIDE DEF A1, A2
      <3> QED
        BY <1>1, <2>2
    <2>4. ASSUME NEW m \in A2 PROVE \E i \in A1 : G[i] = m
      <3>1. m \in 1..Len(s2) /\ Entries(s2)[m] = a
        BY DEF Occurrences
      <3>2. PICK i \in 1..Len(s1) : F[i] = m
        BY <1>1, <3>1
      <3>3. i \in A1
        BY <1>2, <3>1, <3>2 DEF Occurrences
      <3> QED
        BY <3>2, <3>3
    <2> HIDE DEF A1, A2, G
    <2>5. G \in Bijection(A1, A2)
      BY <2>3, <2>4, Fun_IsBij
    <2>6. ExistsBijection(A1, A2)
      BY <2>5, Fun_ExistsBij
    <2>7. Cardinality(A1) = Cardinality(A2)
      BY <2>1, <2>6, FS_Bijection
    <2> QED
      BY <2>7 DEF A1, A2
  <1> QED
    BY <1>3, <1>4 DEF Attached

----------------------------------------------------------------------------
(* What is attached follows from the namespace, and so does what a cached  *)
(* position was computed under.                                            *)

Undisturbed == panics = 0 /\ admin = 0

Selection == req[cur].lora

(* While the stack is built it holds what the selection's entries so far   *)
(* name, each as often as they name it.                                    *)
Gathered ==
    /\ li <= Len(Selection) + 1
    /\ count = Len(stack) /\ count <= li - 1
    /\ \A a \in Adapters :
          Cardinality(Occurrences(stack, Len(stack), a)) =
          Cardinality(Occurrences(Entries(Selection), li - 1, a))

Under(state, u) == \A i \in DOMAIN state : state[i].under = u

CacheUnder(c, n) ==
    \A k \in DOMAIN c : \A sel \in Selections :
        CacheNamespace(sel) = n => Under(c[k], Attached(sel))

AdaptInv ==
    /\ cur # None => ns = CacheNamespace(Selection)
    /\ Undisturbed =>
          /\ loras = InitLoras
          /\ pc = "push" => Gathered
          /\ pc \in {"run", "prefill", "decode", "store", "done"} =>
                layers = Attached(Selection)

UnderInv ==
    Undisturbed =>
        /\ pc \in {"decode", "store", "done"} => Under(kv, layers)
        /\ \A n \in DOMAIN caches : CacheUnder(caches[n], n)

LEMMA AdaptKept ==
    ASSUME IInv, AdaptInv, UNCHANGED <<pc, cur, ns, li, count, stack, layers>>,
           cur # None => req'[cur] = req[cur],
           Undisturbed' => Undisturbed /\ loras' = loras
    PROVE  AdaptInv'
  <1>1. cur # None => Selection' = Selection
    BY DEF Selection
  <1>2. pc = "push" /\ Gathered /\ cur # None => Gathered'
    BY <1>1 DEF Gathered
  <1>3. cur = None => pc \in {"idle", "stopped"}
    BY DEF IInv, WorkerTypeOK
  <1> QED
    BY <1>1, <1>2, <1>3 DEF AdaptInv

LEMMA UnderKept ==
    ASSUME UnderInv, UNCHANGED <<pc, layers, kv, caches>>, Undisturbed' => Undisturbed
    PROVE  UnderInv'
  BY DEF UnderInv, Under, CacheUnder

(* A loop turn of apply_lora_selection pushes what its entry names. *)
LEMMA PushGathers ==
    ASSUME IInv, Gathered, loras = InitLoras, PushLora
    PROVE  Gathered'
  <1> DEFINE sel == Selection
             entry == sel[li]
             w == InitLoras[entry[1]]
             e == Entries(sel)
  <1>1. cur # None /\ sel \in Selections /\ Len(sel) \in Nat
    <2>1. cur # None
      BY DEF PushLora, IInv, WorkerTypeOK
    <2> QED
      BY <2>1, CurrentShape, ConstantsAssumption, LenProperties DEF Selection, Selections
  <1>2. /\ li \in 1..Len(sel) /\ li' = li + 1 /\ count \in Nat /\ stack \in Seq(Adapters)
        /\ Selection' = sel
    BY <1>1 DEF PushLora, IInv, WorkerTypeOK, EngineTypeOK, Selection, clientVars
  <1>3. entry \in Names \X Scales /\ w \in Weights \cup {None} /\ e[li] = <<w, entry[2]>>
    <2>1. entry \in Names \X Scales
      BY <1>1, <1>2, ElementOfSeq DEF Selections
    <2>2. w \in Weights \cup {None}
      BY <2>1, ConstantsAssumption DEF ConstantsAssumption
    <2> QED
      BY <1>2, <2>1, <2>2 DEF Entries
  <1>4. \A a \in Adapters :
           Cardinality(Occurrences(e, li, a)) =
           Cardinality(Occurrences(e, li - 1, a)) + (IF e[li] = a THEN 1 ELSE 0)
    <2>1. li - 1 \in Nat /\ (li - 1) + 1 = li
      BY <1>1, <1>2
    <2> HIDE DEF e
    <2> QED
      BY <2>1, OccurrencesLemma
  <1>5. \A a \in Adapters :
           Cardinality(Occurrences(stack, Len(stack), a)) =
           Cardinality(Occurrences(e, li - 1, a))
    BY DEF Gathered
  <1>6. Len(stack) \in Nat /\ count = Len(stack) /\ count <= li - 1
    BY <1>2, LenProperties DEF Gathered
  <1>7. CASE w = None
    <2>1. stack' = stack /\ count' = count
      BY <1>7 DEF PushLora, Selection
    <2>2. \A a \in Adapters : e[li] # a
      BY <1>3, <1>7, ConstantsAssumption DEF Adapters, ConstantsAssumption
    <2>3. \A a \in Adapters :
             Cardinality(Occurrences(stack, Len(stack), a)) =
             Cardinality(Occurrences(e, li, a))
      <3> HIDE DEF e
      <3>1. \A a \in Adapters : Cardinality(Occurrences(e, li - 1, a)) \in Nat
        BY <1>1, <1>2, OccurrencesLemma
      <3> QED
        BY <1>4, <1>5, <2>2, <3>1
    <2>4. li' - 1 = li
      BY <1>1, <1>2
    <2> QED
      BY <1>1, <1>2, <1>6, <2>1, <2>3, <2>4 DEF Gathered
  <1>8. CASE w # None
    <2> DEFINE x == <<w, entry[2]>>
    <2>1. stack' = Append(stack, x) /\ count' = count + 1
      BY <1>8 DEF PushLora, Selection
    <2>2. x \in Adapters /\ e[li] = x
      BY <1>3, <1>8 DEF Adapters
    <2> HIDE DEF x, e
    <2>3. /\ Len(stack') = Len(stack) + 1 /\ stack'[Len(stack) + 1] = x
          /\ \A i \in 1..Len(stack) : stack'[i] = stack[i]
      BY <1>2, <2>1, <2>2, AppendProperties
    <2>4. ASSUME NEW a \in Adapters
          PROVE  Cardinality(Occurrences(stack', Len(stack'), a)) =
                 Cardinality(Occurrences(e, li, a))
      <3>1. Occurrences(stack', Len(stack), a) = Occurrences(stack, Len(stack), a)
        BY <2>3 DEF Occurrences
      <3>2. Cardinality(Occurrences(stack', Len(stack) + 1, a)) =
            Cardinality(Occurrences(stack', Len(stack), a))
              + (IF stack'[Len(stack) + 1] = a THEN 1 ELSE 0)
        <4> DEFINE f == stack'
                   n == Len(stack)
        <4>1. n \in Nat
          BY <1>6
        <4> HIDE DEF f, n
        <4>2. Cardinality(Occurrences(f, n + 1, a)) =
              Cardinality(Occurrences(f, n, a)) + (IF f[n + 1] = a THEN 1 ELSE 0)
          BY <4>1, OccurrencesLemma
        <4> QED
          BY <4>2, Zenon DEF f, n
      <3> QED
        BY <1>4, <1>5, <2>2, <2>3, <3>1, <3>2
    <2>5. li' - 1 = li
      BY <1>1, <1>2
    <2> QED
      BY <1>1, <1>2, <1>6, <2>1, <2>3, <2>4, <2>5 DEF Gathered, e
  <1> QED
    BY <1>7, <1>8

(* At its end the whole selection is on the layers, or nothing is. *)
LEMMA ApplyAttaches ==
    ASSUME NamespacesTell, IInv, Gathered, loras = InitLoras, ApplyLora,
           layers = NoLayers, count = 0 => stack = <<>>
    PROVE  layers' = Attached(Selection)
  <1> DEFINE sel == Selection
             e == Entries(sel)
             n == Len(sel)
  <1>1. /\ cur # None /\ sel \in Selections /\ n \in Nat /\ req[cur] \in Shapes
        /\ stack \in Seq(Adapters) /\ DOMAIN stack = 1..Len(stack) /\ Len(stack) \in Nat
        /\ \A i \in 1..Len(stack) : stack[i] \in Adapters
    <2>1. cur # None
      BY DEF ApplyLora, IInv, WorkerTypeOK
    <2>2. stack \in Seq(Adapters)
      BY DEF IInv, EngineTypeOK
    <2> QED
      BY <2>1, <2>2, CurrentShape, ConstantsAssumption, LenProperties, ElementOfSeq
      DEF Selection, Selections
  <1>2. li - 1 = n /\ count = Len(stack) /\ count <= n
    BY <1>1 DEF ApplyLora, Gathered, IInv, WorkerTypeOK, Selection
  <1> HIDE DEF e, n
  <1>3. \A a \in Adapters :
           /\ Cardinality(Occurrences(stack, Len(stack), a)) = Cardinality(Occurrences(e, n, a))
           /\ Cardinality(Occurrences(e, n, a)) \in Nat
    BY <1>1, <1>2, OccurrencesLemma DEF Gathered, e
  <1>4. \A a \in Adapters :
           (\E i \in 1..Len(stack) : stack[i] = a) <=> (\E i \in 1..n : e[i] = a)
    <2> SUFFICES ASSUME NEW a \in Adapters
                 PROVE  (\E i \in 1..Len(stack) : stack[i] = a) <=> (\E i \in 1..n : e[i] = a)
      OBVIOUS
    <2>1. Cardinality(Occurrences(stack, Len(stack), a)) = 0
             <=> \A i \in 1..Len(stack) : stack[i] # a
      <3>1. Len(stack) \in Nat
        BY <1>1
      <3> QED
        BY <3>1, OccurrencesLemma
    <2>2. Cardinality(Occurrences(e, n, a)) = 0 <=> \A i \in 1..n : e[i] # a
      <3>1. n \in Nat
        BY <1>1
      <3> QED
        BY <3>1, OccurrencesLemma
    <2> QED
      BY <1>3, <2>1, <2>2
  <1>5. (\E i \in DOMAIN stack : Rejected(stack[i])) <=> Refused(sel)
    <2>1. Refused(sel) <=> \E i \in 1..n : e[i] \in Adapters /\ Rejected(e[i])
      BY DEF Refused, e, n
    <2> QED
      BY <1>1, <1>4, <2>1
  <1>6. CASE count = 0
    <2>1. stack = <<>> /\ Len(stack) = 0 /\ layers' = NoLayers
      BY <1>1, <1>2, <1>6 DEF ApplyLora
    <2>2. \A i \in 1..n : e[i] \notin Adapters
      BY <1>4, <2>1
    <2>3. ASSUME NEW a \in Adapters PROVE Cardinality(Occurrences(e, n, a)) = 0
      <3>1. \A i \in 1..n : e[i] # a
        BY <2>2
      <3> QED
        BY <1>1, <3>1, OccurrencesLemma
    <2> QED
      BY <2>1, <2>3 DEF Attached, NoLayers, e, n
  <1>7. CASE count # 0 /\ Refused(sel)
    BY <1>5, <1>7 DEF ApplyLora, Attached
  <1>8. CASE count # 0 /\ ~Refused(sel)
    <2>1. layers' = ApplyLoraStack(stack)
      BY <1>5, <1>8 DEF ApplyLora
    <2>2. Attached(sel) = [a \in Adapters |-> Cardinality(Occurrences(stack, Len(stack), a))]
      BY <1>3, <1>8 DEF Attached, e, n
    <2>3. CASE Composes
      <3>1. \A a \in Adapters : {i \in DOMAIN stack : stack[i] = a}
                                = Occurrences(stack, Len(stack), a)
        BY <1>1 DEF Occurrences
      <3>2. \A a \in Adapters : Cardinality(Occurrences(stack, Len(stack), a)) \in Nat
        BY <1>3
      <3> QED
        BY <2>1, <2>2, <2>3, <3>1, <3>2 DEF ApplyLoraStack, NoLayers
    <2>4. CASE ~Composes
      <3>1. Len(stack) = 1
        BY <1>1, <1>2, <1>8, <2>4 DEF NamespacesTell, Selection, n
      <3>2. ASSUME NEW a \in Adapters
            PROVE  Cardinality(Occurrences(stack, Len(stack), a)) =
                   IF a = stack[Len(stack)] THEN 1 ELSE 0
        <4>1. Cardinality(Occurrences(stack, 0 + 1, a)) =
              Cardinality(Occurrences(stack, 0, a)) + (IF stack[0 + 1] = a THEN 1 ELSE 0)
          BY OccurrencesLemma
        <4>2. Cardinality(Occurrences(stack, 0, a)) = 0
          BY OccurrencesLemma
        <4> QED
          BY <3>1, <4>1, <4>2
      <3> QED
        BY <2>1, <2>2, <2>4, <3>2 DEF ApplyLoraStack
    <2> QED
      BY <2>3, <2>4
  <1> QED
    BY <1>6, <1>7, <1>8

----------------------------------------------------------------------------
LEMMA AdaptWorker ==
    ASSUME NamespacesTell, IInv, StackInv, AdaptInv, Worker
    PROVE  AdaptInv'
  <1>0. /\ panics \in Nat /\ count \in Nat
        /\ cur = None <=> pc \in {"idle", "stopped"}
    BY ConstantsAssumption DEF IInv, WorkerTypeOK, ConstantsAssumption
  <1>1. CASE Shed
    BY <1>1, AdaptKept DEF Shed, workerVars, modelVars, loraVars, Undisturbed
  <1>2. CASE Start
    <2> DEFINE h == Head(queue)
    <2>1. /\ cur' = h /\ ns' = CacheNamespace(req[h].lora) /\ req' = req
          /\ pc = "idle" /\ li' = 1 /\ count' = 0
          /\ UNCHANGED <<stack, layers, loras, admin, panics>>
          /\ pc' \in {"embed", "push", "run"}
          /\ pc' = "run" => req[h].lora = <<>>
      BY <1>2 DEF Start, clientVars, loraVars, modelVars
    <2>2. req[h].lora \in Selections
      BY <1>2, HeadShape, ConstantsAssumption DEF Start, ShapeType, Selections
    <2> HIDE DEF h
    <2>3. Selection' = req[h].lora /\ Len(req[h].lora) \in Nat
      BY <2>1, <2>2, LenProperties DEF Selection, Selections
    <2>4. Undisturbed => stack = <<>> /\ Len(stack) = 0 /\ layers = NoLayers
      BY <2>1, EmptySeq DEF StackInv, Undisturbed
    <2>5. \A f : \A a \in Adapters : Occurrences(f, 0, a) = {}
      BY DEF Occurrences
    <2>6. ASSUME Undisturbed PROVE Gathered'
      <3>1. Len(stack') = 0 /\ li' - 1 = 0 /\ count' = 0 /\ li' <= Len(Selection') + 1
        BY <2>1, <2>3, <2>4, <2>6
      <3>2. \A a \in Adapters : Occurrences(stack', Len(stack'), a)
                                = Occurrences(Entries(Selection'), li' - 1, a)
        BY <2>5, <3>1
      <3> QED
        BY <3>1, <3>2 DEF Gathered
    <2>7. pc' = "run" => Attached(req[h].lora) = NoLayers
      <3>1. Len(<<>>) = 0
        BY EmptySeq
      <3>2. ~Refused(<<>>)
        BY <3>1 DEF Refused
      <3>3. \A a \in Adapters : Cardinality(Occurrences(Entries(<<>>), 0, a)) = 0
        BY <2>5, FS_EmptySet
      <3>4. Attached(<<>>) = NoLayers
        BY <3>1, <3>2, <3>3 DEF Attached, NoLayers
      <3> QED
        BY <2>1, <3>4
    <2> QED
      BY <2>1, <2>3, <2>4, <2>6, <2>7 DEF AdaptInv, Undisturbed
  <1>3. CASE PushLora
    <2>1. /\ pc = "push" /\ UNCHANGED <<req, pc, cur, ns, loras, admin, panics>>
      BY <1>3 DEF PushLora, clientVars, loraVars
    <2> QED
      BY <1>3, <2>1, PushGathers DEF AdaptInv, Undisturbed, Selection
  <1>4. CASE ApplyLora
    <2>1. pc = "push" /\ pc' = "run" /\ UNCHANGED <<req, cur, ns, loras, admin, panics>>
      BY <1>4 DEF ApplyLora, clientVars, loraVars
    <2>2. Undisturbed => layers' = Attached(Selection)
      BY <1>4, <2>1, ApplyAttaches DEF AdaptInv, StackInv, Undisturbed
    <2> QED
      BY <2>1, <2>2 DEF AdaptInv, Undisturbed, Selection
  <1>5. CASE Generation
    <2>1. /\ UNCHANGED <<req, cur, ns, loras, admin, panics, layers>>
          /\ pc \in {"run", "prefill", "decode", "store"} /\ pc' # "push"
      BY <1>5 DEF Generation, PrefixHit, PrimeFails, PrefixMiss, Prefill, PrefillFails,
                  DecodeToken, DecodeFails, DecodeDone, StorePrefix, modelVars, loraVars,
                  clientVars, Prefilling
    <2> QED
      BY <2>1 DEF AdaptInv, Undisturbed, Selection
  <1>6. CASE Reply \/ Embed \/ Panic
    <2>1. /\ cur' = None /\ pc' = "idle" /\ UNCHANGED <<loras, admin>>
          /\ panics' = panics \/ panics' = panics + 1
      BY <1>6 DEF Reply, Embed, Panic, Idle, loraVars
    <2> QED
      BY <1>0, <2>1 DEF AdaptInv, Undisturbed
  <1>7. CASE WorkerExit
    <2>1. pc = "idle" /\ pc' = "stopped" /\ UNCHANGED <<cur, loras, admin, panics>>
      BY <1>7 DEF WorkerExit, loraVars
    <2> QED
      BY <1>0, <2>1 DEF AdaptInv, Undisturbed
  <1> QED
    BY <1>1, <1>2, <1>3, <1>4, <1>5, <1>6, <1>7 DEF Worker

----------------------------------------------------------------------------
LEMMA ForwardUnder ==
    ASSUME layers \in [Adapters -> Nat],
           NEW state \in KvState, NEW toks \in Prompts, Under(state, layers)
    PROVE  Under(Forward(state, toks), layers)
  <1> DEFINE f == Forward(state, toks)
  <1>1. /\ f \in KvState /\ Len(f) = Len(state) + Len(toks)
        /\ \A i \in 1..Len(state) : f[i] = state[i]
        /\ \A i \in (Len(state) + 1)..(Len(state) + Len(toks)) : f[i].under = layers
    BY ForwardLemma
  <1> HIDE DEF f
  <1>2. /\ Len(state) \in Nat /\ Len(toks) \in Nat
        /\ DOMAIN f = 1..Len(f) /\ DOMAIN state = 1..Len(state)
    BY <1>1, LenProperties DEF KvState, Prompts
  <1>3. ASSUME NEW i \in 1..Len(f) PROVE f[i].under = layers
    <2>1. CASE i <= Len(state)
      BY <1>1, <1>2, <2>1 DEF Under
    <2>2. CASE ~(i <= Len(state))
      BY <1>1, <1>2, <2>2
    <2> QED
      BY <2>1, <2>2
  <1> QED
    BY <1>2, <1>3 DEF Under, f

LEMMA SubUnder ==
    ASSUME NEW state \in KvState, NEW m \in 0..Len(state), NEW u, Under(state, u)
    PROVE  Under(SubSeq(state, 1, m), u)
  <1>1. Len(state) \in Nat /\ DOMAIN state = 1..Len(state)
    BY LenProperties DEF KvState
  <1>2. \A i \in 1..m : state[i] \in KvEntry
    BY <1>1, ElementOfSeq DEF KvState
  <1>3. /\ SubSeq(state, 1, m) \in Seq(KvEntry)
        /\ Len(SubSeq(state, 1, m)) = IF 1 <= m THEN m - 1 + 1 ELSE 0
        /\ \A i \in 1..(m - 1 + 1) : SubSeq(state, 1, m)[i] = state[1 + i - 1]
    BY <1>1, <1>2, SubSeqProperties
  <1>4. DOMAIN SubSeq(state, 1, m) = 1..m
    BY <1>1, <1>3, LenProperties
  <1> QED
    BY <1>1, <1>3, <1>4 DEF Under

(* with_cache moves caches, and a fresh one is empty. *)
LEMMA WithCacheUnder ==
    ASSUME NEW n, \A m \in DOMAIN caches : CacheUnder(caches[m], m)
    PROVE  \A m \in DOMAIN WithCache(n) : CacheUnder(WithCache(n)[m], m)
  <1>1. \A m : CacheUnder(NoCache, m)
    BY DEF CacheUnder, NoCache
  <1>2. \A m \in DOMAIN WithCache(n) :
           \/ m \in DOMAIN caches /\ WithCache(n)[m] = caches[m]
           \/ WithCache(n)[m] = NoCache
    BY DEF WithCache
  <1> QED
    BY <1>1, <1>2

(* What is stored in a namespace was computed under what it names. *)
LEMMA StoredUnder ==
    ASSUME NamespacesTell, NEW cache, NEW key \in Prompts, NEW n,
           CacheUnder(cache, n), kv \in KvState, Len(kv) >= Len(key),
           NEW sel \in Selections, CacheNamespace(sel) = n, Under(kv, Attached(sel)),
           NEW c \in Stored(cache, key)
    PROVE  CacheUnder(c, n)
  <1> DEFINE snapshot == SubSeq(kv, 1, Len(key))
  <1>1. Under(snapshot, Attached(sel))
    <2>1. Len(key) \in 0..Len(kv)
      BY LenProperties DEF KvState, Prompts
    <2> QED
      BY <2>1, SubUnder
  <1>2. \A other \in Selections : CacheNamespace(other) = n => Attached(other) = Attached(sel)
    BY AttachedLemma
  <1> HIDE DEF snapshot
  <1>3. \A k \in DOMAIN c : c[k] = snapshot \/ (k \in DOMAIN cache /\ c[k] = cache[k])
    BY DEF Stored, snapshot
  <1> QED
    BY <1>1, <1>2, <1>3 DEF CacheUnder

(* Hits restore, prefills compute and decoding adds positions under what   *)
(* is attached now.                                                        *)
LEMMA UnderGeneration ==
    ASSUME NamespacesTell, IInv, AdaptInv, UnderInv, Generation
    PROVE  UnderInv'
  <1>1. /\ UNCHANGED <<panics, admin, layers, req, cur, ns>>
        /\ pc \in {"run", "prefill", "decode", "store"}
    BY DEF Generation, PrefixHit, PrimeFails, PrefixMiss, Prefill, PrefillFails, DecodeToken,
           DecodeFails, DecodeDone, StorePrefix, modelVars, loraVars, clientVars, Prefilling
  <1> SUFFICES ASSUME Undisturbed
               PROVE  /\ pc' \in {"decode", "store", "done"} => Under(kv', layers)
                      /\ \A n \in DOMAIN caches' : CacheUnder(caches'[n], n)
    BY <1>1 DEF UnderInv, Undisturbed, Under, CacheUnder
  <1>2. /\ cur # None /\ Prompt \in Prompts /\ ns \in Namespaces /\ Len(Prompt) \in Nat
        /\ Selection \in Selections /\ ns = CacheNamespace(Selection)
        /\ layers = Attached(Selection)
    <2>1. cur # None
      BY <1>1 DEF IInv, WorkerTypeOK
    <2> QED
      BY <1>1, <2>1, CurrentShape, ConstantsAssumption DEF AdaptInv, Selection, Selections
  <1>3. /\ layers \in [Adapters -> Nat] /\ kv \in KvState
        /\ \A n \in DOMAIN caches : CacheUnder(caches[n], n)
        /\ pc \in {"decode", "store", "done"} => Under(kv, layers)
    BY DEF IInv, EngineTypeOK, UnderInv
  <1>4. \A n \in DOMAIN WithCache(ns) : CacheUnder(WithCache(ns)[n], n)
    BY <1>3, WithCacheUnder
  <1>5. /\ ns \in DOMAIN WithCache(ns)
        /\ \A n \in DOMAIN WithCache(ns) : ExactCache(WithCache(ns)[n])
    BY <1>2, WithCacheLemma, ConstantsAssumption DEF IInv
  <1>6. CASE PrefixHit \/ PrimeFails \/ PrefixMiss
    <2>1. \A n \in DOMAIN caches' : CacheUnder(caches'[n], n)
      BY <1>4, <1>6 DEF PrefixHit, PrimeFails, PrefixMiss, TouchRegistry
    <2>2. ASSUME PrefixHit PROVE Under(kv', layers)
      <3> DEFINE c == WithCache(ns)[ns]
                 suffix == SubSeq(Prompt, Effective(HitKey) + 1, Len(Prompt))
      <3>1. /\ kv' = Forward(Restored, suffix) /\ IsHit
            /\ Restored = SubSeq(c[HitKey], 1, Effective(HitKey))
        BY <2>2 DEF PrefixHit, Restored
      <3>2. Restored \in KvState /\ Effective(HitKey) \in Nat
        BY <1>2, <3>1, RestoredLemma, ConstantsAssumption DEF IInv
      <3>3. HitKey \in DOMAIN c /\ Len(HitKey) \in Nat /\ Len(HitKey) <= Len(Prompt)
        BY <1>2, <1>5, <3>1, LookupLemma DEF ExactCache, IsPrefixCache, IsHit, HitKey
      <3>4. c[HitKey] \in KvState /\ Len(c[HitKey]) = Len(HitKey)
        BY <1>5, <3>3 DEF ExactCache, IsPrefixCache
      <3>5. Effective(HitKey) \in 0..Len(c[HitKey])
        BY <1>2, <3>2, <3>3, <3>4 DEF Effective
      <3>6. Under(c[HitKey], layers)
        BY <1>2, <1>4, <1>5, <3>3 DEF CacheUnder
      <3>7. Under(Restored, layers)
        BY <3>1, <3>4, <3>5, <3>6, SubUnder
      <3>8. suffix \in Prompts
        <4>1. \A i \in (Effective(HitKey) + 1)..Len(Prompt) : Prompt[i] \in Tokens
          BY <1>2, <3>2, ElementOfSeq DEF Prompts
        <4> QED
          BY <4>1, <1>2, <3>2, SubSeqProperties DEF Prompts
      <3> HIDE DEF suffix, c
      <3> QED
        BY <1>3, <3>1, <3>2, <3>7, <3>8, ForwardUnder
    <2>3. CASE PrefixHit
      BY <2>1, <2>2, <2>3
    <2>4. CASE PrimeFails \/ PrefixMiss
      BY <2>1, <2>4 DEF PrimeFails, PrefixMiss
    <2> QED
      BY <1>6, <2>3, <2>4
  <1>7. CASE Prefill
    <2>1. <<>> \in KvState /\ Under(<<>>, layers)
      BY EmptySeq DEF KvState, Under
    <2>2. kv' = Forward(<<>>, Prompt) /\ caches' = caches
      BY <1>7 DEF Prefill, cacheVars
    <2> QED
      BY <1>2, <1>3, <2>1, <2>2, ForwardUnder
  <1>8. CASE PrefillFails
    BY <1>3, <1>8 DEF PrefillFails, cacheVars
  <1>9. CASE DecodeToken
    <2> DEFINE new == [tok |-> GenToken, under |-> layers]
    <2>1. new \in KvEntry /\ new.under = layers
      BY <1>3 DEF KvEntry
    <2>2. pc = "decode" /\ kv' = Append(kv, new) /\ caches' = caches
      BY <1>9 DEF DecodeToken, cacheVars
    <2> HIDE DEF new
    <2>3. /\ kv' \in Seq(KvEntry) /\ Len(kv') = Len(kv) + 1 /\ kv'[Len(kv) + 1] = new
          /\ \A i \in 1..Len(kv) : kv'[i] = kv[i]
      BY <1>3, <2>1, <2>2, AppendProperties DEF KvState
    <2>4. DOMAIN kv = 1..Len(kv) /\ DOMAIN kv' = 1..(Len(kv) + 1) /\ Len(kv) \in Nat
      BY <1>3, <2>3, LenProperties DEF KvState
    <2>5. Under(kv', layers)
      BY <1>3, <2>1, <2>2, <2>3, <2>4 DEF Under
    <2> QED
      BY <1>3, <2>2, <2>5
  <1>10. CASE DecodeFails \/ DecodeDone
    BY <1>3, <1>10 DEF DecodeFails, DecodeDone, cacheVars
  <1>11. CASE StorePrefix
    <2>1. kv' = kv /\ Under(kv, layers)
      BY <1>3, <1>11 DEF StorePrefix
    <2>2. CASE ~req[cur].cache
      BY <1>3, <1>11, <2>1, <2>2 DEF StorePrefix, cacheVars
    <2>3. CASE req[cur].cache
      <3>1. PICK c \in Stored(WithCache(ns)[ns], Prompt) :
               caches' = [WithCache(ns) EXCEPT ![ns] = c]
        BY <1>11, <2>3 DEF StorePrefix
      <3>2. Len(kv) >= Len(Prompt)
        BY <1>2, <1>11, ConstantsAssumption
        DEF StorePrefix, IInv, KvIsOwn, WorkerTypeOK, ConstantsAssumption
      <3>3. CacheUnder(c, ns)
        BY <1>2, <1>3, <1>4, <1>5, <2>1, <3>1, <3>2, StoredUnder
      <3>4. \A n \in DOMAIN caches' : CacheUnder(caches'[n], n)
        BY <1>4, <1>5, <3>1, <3>3
      <3> QED
        BY <2>1, <3>4
    <2> QED
      BY <2>2, <2>3
  <1> QED
    BY <1>6, <1>7, <1>8, <1>9, <1>10, <1>11 DEF Generation

LEMMA UnderWorker ==
    ASSUME NamespacesTell, IInv, AdaptInv, UnderInv, Worker
    PROVE  UnderInv'
  <1>1. CASE Generation
    BY <1>1, UnderGeneration
  <1>2. CASE ~Generation
    <2>1. panics \in Nat
      BY ConstantsAssumption DEF IInv, WorkerTypeOK, ConstantsAssumption
    <2>2. /\ UNCHANGED <<admin, caches>>
          /\ panics' = panics \/ panics' = panics + 1
          /\ pc' \notin {"decode", "store", "done"}
      BY <1>2 DEF Worker, Shed, Start, PushLora, ApplyLora, Reply, Embed, Panic, WorkerExit,
                  Idle, loraVars, cacheVars, workerVars
    <2> QED
      BY <2>1, <2>2 DEF UnderInv, Undisturbed, CacheUnder
  <1> QED
    BY <1>1, <1>2

(* Attention never mixes positions computed under different adapters: what *)
(* the D6 namespaces of the prefix cache are for (cache_namespace and      *)
(* run_generate in worker.rs, prime_with_prefix in the engine).  It rests  *)
(* on the six printed decimals telling the scales apart, and on adapters   *)
(* that add up, or come one at a time.                                     *)
THEOREM HomogeneousAttention ==
    ASSUME NamespacesTell
    PROVE  Spec => []HomogeneousKv
  <1>1. Init => StackInv /\ AdaptInv /\ UnderInv
    BY DEF Init, StackInv, AdaptInv, UnderInv, NoCache, CacheUnder
  <1>2. /\ IInv /\ StackInv /\ AdaptInv /\ UnderInv /\ [Next]_vars
        => StackInv' /\ AdaptInv' /\ UnderInv'
    <2> SUFFICES ASSUME IInv, StackInv, AdaptInv, UnderInv, [Next]_vars
                 PROVE  StackInv' /\ AdaptInv' /\ UnderInv'
      OBVIOUS
    <2>1. StackInv'
      BY StackStep
    <2>2. CASE Worker
      BY <2>1, <2>2, AdaptWorker, UnderWorker
    <2>3. ASSUME NEW r \in Requests, Client(r) PROVE AdaptInv' /\ UnderInv'
      <3>1. UNCHANGED <<loraVars, workerVars, modelVars, kv, cacheVars, panics>>
        BY <2>3 DEF Client, Enqueue, RejectFull, Disconnect, ReadToken, WsSendFails, ReportFinish
      <3>2. cur # None => req'[cur] = req[cur]
        <4>1. cur # None => cur \in Requests /\ outcome[cur] # "new"
          BY DEF IInv, WorkerTypeOK, Served, Sent
        <4>2. req' = req \/ (outcome[r] = "new" /\ \E s \in Shapes : req' = [req EXCEPT ![r] = s])
          BY <2>3 DEF Client, Enqueue, RejectFull, Disconnect, ReadToken, WsSendFails,
                      ReportFinish
        <4> QED
          BY <4>1, <4>2 DEF IInv, ClientTypeOK
      <3> QED
        BY <3>1, <3>2, AdaptKept, UnderKept
        DEF loraVars, workerVars, modelVars, cacheVars, Undisturbed
    <2>4. CASE Admin \/ CloseQueue \/ Stopped \/ UNCHANGED vars
      <3>1. /\ UNCHANGED <<req, workerVars, modelVars, kv, cacheVars, panics>>
            /\ UNCHANGED loraVars \/ admin' = admin + 1
        BY <2>4 DEF Admin, AdminRegister, AdminUnregister, CloseQueue, Stopped, vars, clientVars
      <3>2. admin \in Nat
        BY ConstantsAssumption DEF IInv, SharedTypeOK, ConstantsAssumption
      <3>3. Undisturbed' => Undisturbed /\ loras' = loras
        BY <3>1, <3>2 DEF Undisturbed, loraVars
      <3>4. AdaptInv'
        BY <3>1, <3>3, AdaptKept DEF workerVars, modelVars
      <3>5. UnderInv'
        BY <3>1, <3>3, UnderKept DEF workerVars, modelVars, cacheVars
      <3> QED
        BY <2>1, <3>4, <3>5
    <2> QED
      BY <2>1, <2>2, <2>3, <2>4 DEF Next
  <1>3. UnderInv => HomogeneousKv
    BY DEF UnderInv, Undisturbed, HomogeneousKv, Under
  <1> QED
    BY <1>1, <1>2, <1>3, Invariance, PTL DEF Spec
============================================================================
