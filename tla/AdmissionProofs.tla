-------------------------- MODULE AdmissionProofs --------------------------
(***************************************************************************)
(* Proofs about the two components that decide who is let in: the          *)
(* Scheduler, for any prompts, empty ones included, limits of requests and *)
(* limits of batches, and the RateLimiter, for any keys, capacities,       *)
(* rates, number of parallel requests and limit.  The two share no state,  *)
(* and no theorem about one speaks of the other.                           *)
(*                                                                         *)
(* ListsMatchStates and FedOnce are not inductive as they stand: that a    *)
(* batch feeds a sequence from its first missing token on needs that the   *)
(* prompt position, the state and the cache of every sequence fit together *)
(* between any two batches.  IInv adds that, sequence by sequence.         *)
(***************************************************************************)
EXTENDS Scheduler, RateLimiter, QueueAndSumProofs

----------------------------------------------------------------------------
(* The inductive invariant of the scheduler.                               *)

(* An entry of ScheduledBatch: prefill or decode. *)
EntryType == [id : Requests, from : Nat, to : Nat, prefill : BOOLEAN]

(* The states of a sequence that schedule() took out of the queue. *)
UnderWay == {"prefilling", "decoding"}

(* What holds of sequence s with n tokens in its KV cache between two      *)
(* batches and during one.                                                 *)
WellFormed(s, n) ==
    /\ s \in SequenceType
    /\ s.pos <= s.prompt
    /\ s.state = "finished" => s.stopped
    /\ s.state = "waiting" => s.pos = 0 /\ s.out = 0 /\ n = 0
    /\ s.state = "prefilling" => 1 <= s.pos /\ s.pos < s.prompt /\ s.out = 0
    /\ s.state = "decoding" => s.pos = s.prompt

(* The entry e that feeds sequence s, whose cache holds n tokens.  Between *)
(* schedule() and the run of the batch a client may stop the sequence.     *)
Feeds(e, s, n) ==
    /\ s.state # "waiting"
    /\ IF e.prefill
       THEN /\ s.out = 0 /\ e.from = n + 1 /\ e.to = s.pos
            /\ e.from <= e.to \/ s.prompt = 0
       ELSE /\ s.state \in {"decoding", "finished"}
            /\ e.from = First(s) + n /\ e.from = Total(s) /\ e.to = Total(s)

(* A sequence that no entry feeds: its cache holds all that was scheduled, *)
(* but for the token sampled last.  Only an empty prompt decodes before a  *)
(* token was sampled.                                                      *)
Rests(s, n) ==
    s.stopped \/ /\ n = IF s.out = 0 THEN s.pos ELSE Total(s) - First(s)
                 /\ s.state = "decoding" => s.out >= 1 \/ s.prompt = 0

(* The sequences map: every sequence that was added and not yet removed is *)
(* well formed, and nothing is cached of any other.                        *)
SeqInv ==
    /\ sequences = [id \in Requests |-> sequences[id]]
    /\ kv \in [Requests -> Nat]
    /\ \A id \in Requests :
          IF Present(id) THEN WellFormed(sequences[id], kv[id]) ELSE kv[id] = 0

(* waiting_queue and active_ids list each sequence where its state says,   *)
(* once.  One that was stopped while it waited is still in the queue; one  *)
(* at its limit may have left the active list before it is drained:        *)
(* schedule() keeps only those that go on.                                 *)
Queued(id) ==
    /\ Present(id) /\ sequences[id].state \in {"waiting", "finished"}
    /\ sequences[id].pos = 0 /\ sequences[id].out = 0 /\ kv[id] = 0
    /\ ~Scheduled(batch, id)

ListedRight(id) ==
    /\ id \in Ids(waiting) => Queued(id)
    /\ Present(id) /\ sequences[id].state = "waiting" => id \in Ids(waiting)
    /\ id \in Ids(active) =>
          Present(id) /\ sequences[id].state \in UnderWay /\ ~sequences[id].stopped
    /\ Present(id) /\ sequences[id].state \in UnderWay /\ ~sequences[id].stopped
          /\ ~AtLimit(sequences[id]) => id \in Ids(active)

ListInv ==
    /\ waiting \in Seq(Requests) /\ active \in Seq(Requests)
    /\ NoDuplicates(waiting) /\ NoDuplicates(active)
    /\ \A id \in Requests : ListedRight(id)
    /\ Len(active) <= MaxSequences

(* The batch feeds a sequence at most once, from where its cache ends to   *)
(* where its state says; what it does not feed rests.  Between schedule()  *)
(* and the run of the batch a client may remove a fed sequence.            *)
BatchInv ==
    /\ batch \in Seq(EntryType)
    /\ \A i \in 1 .. Len(batch) :
          /\ batch[i].from <= batch[i].to + 1
          /\ \A j \in 1 .. Len(batch) : batch[i].id = batch[j].id => i = j
          /\ Present(batch[i].id) =>
                Feeds(batch[i], sequences[batch[i].id], kv[batch[i].id])
    /\ \A id \in Requests : Present(id) /\ ~Scheduled(batch, id) =>
          Rests(sequences[id], kv[id])

(* All of it, with the limits of the batch. *)
IInv == SeqInv /\ ListInv /\ BatchInv /\ BatchWithinLimits

----------------------------------------------------------------------------
(* The operators of the model.                                             *)

(* Taking from a list without duplicates. *)
LEMMA TakeLemma ==
    ASSUME NEW S, NEW q \in Seq(S), NoDuplicates(q), NEW n \in Int
    PROVE  /\ Take(n, q) \in Seq(S) /\ NoDuplicates(Take(n, q))
           /\ Ids(Take(n, q)) \subseteq Ids(q)
           /\ Len(Take(n, q)) = IF n < 0 THEN 0 ELSE IF n <= Len(q) THEN n ELSE Len(q)
<1>0. Len(q) \in Nat
  BY LenProperties
<1> DEFINE k == IF n <= Len(q) THEN n ELSE Len(q)
<1>1. Take(n, q) = SubSeq(q, 1, k)
  BY <1>0, MinTwo DEF Take
<1>2. CASE n < 0
  <2>1. SubSeq(q, 1, k) = <<>>
    <3>1. \A i \in 1..k : q[i] \in S
      BY <1>0, <1>2
    <3>2. 1 \in Int /\ k \in Int /\ ~(1 <= k)
      BY <1>0, <1>2
    <3> HIDE DEF k
    <3> QED
      BY <3>1, <3>2, SubSeqProperties, EmptySeq
  <2>2. <<>> \in Seq(S) /\ NoDuplicates(<<>>) /\ Ids(<<>>) = {} /\ Len(<<>>) = 0
    BY EmptySeq DEF NoDuplicates, Ids
  <2> QED
    BY <1>1, <1>2, <2>1, <2>2
<1>3. CASE ~(n < 0)
  <2>1. k \in 0..Len(q) /\ k = IF n <= Len(q) THEN n ELSE Len(q)
    BY <1>0, <1>3
  <2> HIDE DEF k
  <2> DEFINE a == SubSeq(q, 1, k)
             b == SubSeq(q, k + 1, Len(q))
  <2>2. a \in Seq(S) /\ b \in Seq(S) /\ Len(a) = k /\ q = a \o b
    BY <2>1, SplitLemma
  <2> HIDE DEF a, b
  <2>3. NoDuplicates(a) /\ Ids(a) \subseteq Ids(q)
    BY <2>2, ConcatLemma
  <2> QED
    BY <1>1, <1>3, <2>1, <2>2, <2>3 DEF a
<1> QED
  BY <1>2, <1>3

(* Sizes of the first n entries of a list. *)
Sizes(v, n) == n \in Nat /\ \A i \in 1..n : v[i] \in Nat

(* The model's sum is the sum the lemmas of QueueAndSumProofs speak of. *)
LEMMA FirstSumWeight == \A v, n : FirstSum(v, n) = Weight(v, 1..n)
BY DEF FirstSum, Weight

(* Sums of sizes are naturals and grow with the list. *)
LEMMA FirstSumNat ==
    ASSUME NEW v, NEW n, Sizes(v, n), NEW k \in 0..n
    PROVE  /\ FirstSum(v, k) \in Nat /\ FirstSum(v, 0) = 0
           /\ FirstSum(v, k) <= FirstSum(v, n) /\ FirstSum(v, n) \in Nat
<1>1. IsFiniteSet(1..n) /\ (\A i \in 1..n : v[i] \in Nat) /\ 1..k \in SUBSET (1..n)
  BY FS_Interval DEF Sizes
<1>2. Weight(v, 1..k) \in Nat /\ Weight(v, 1..n) \in Nat /\ Weight(v, 1..k) <= Weight(v, 1..n)
  BY <1>1, WeightMono
<1>3. Weight(v, {}) = 0
  BY <1>1, WeightRec
<1>4. 1..0 = {}
  OBVIOUS
<1> QED
  BY <1>2, <1>3, <1>4, FirstSumWeight

(* One more entry adds its size. *)
LEMMA FirstSumStep ==
    ASSUME NEW v, NEW n, Sizes(v, n), NEW k \in 1..n
    PROVE  FirstSum(v, k) = FirstSum(v, k - 1) + v[k]
<1>1. /\ IsFiniteSet(1..(k - 1)) /\ k \notin 1..(k - 1)
      /\ 1..k = 1..(k - 1) \cup {k} /\ \A i \in 1..k : v[i] \in Nat
  BY FS_Interval DEF Sizes
<1>2. Weight(v, 1..(k - 1) \cup {k}) = v[k] + Weight(v, 1..(k - 1)) /\ Weight(v, 1..(k - 1)) \in Nat
  <2> DEFINE S == 1..(k - 1)
  <2>1. IsFiniteSet(S) /\ k \notin S /\ \A i \in S \cup {k} : v[i] \in Nat
    BY <1>1
  <2> HIDE DEF S
  <2>2. Weight(v, S \cup {k}) = v[k] + Weight(v, S) /\ Weight(v, S) \in Nat
    BY <2>1, WeightAdd
  <2> QED
    BY <2>2 DEF S
<1>3. v[k] \in Nat
  BY DEF Sizes
<1>4. FirstSum(v, k) = Weight(v, 1..k) /\ FirstSum(v, k - 1) = Weight(v, 1..(k - 1))
  BY FirstSumWeight
<1>5. Weight(v, 1..k) = v[k] + Weight(v, 1..(k - 1))
  BY <1>1, <1>2
<1> QED
  BY <1>2, <1>3, <1>4, <1>5

(* The sum of the first n depends on these only. *)
LEMMA FirstSumSame ==
    ASSUME NEW n \in Nat, NEW v, NEW w, \A i \in 1..n : v[i] = w[i]
    PROVE  FirstSum(v, n) = FirstSum(w, n)
<1>1. IsFiniteSet(1..n)
  BY FS_Interval
<1>2. Weight(v, 1..n) = Weight(w, 1..n)
  BY <1>1, WeightSame
<1> QED
  BY <1>2, FirstSumWeight

(* Entries of size one add their number. *)
LEMMA FirstSumOnes ==
    ASSUME NEW v, NEW n, Sizes(v, n), NEW k \in 0..n, \A i \in (k + 1)..n : v[i] = 1
    PROVE  FirstSum(v, n) = FirstSum(v, k) + (n - k)
<1> DEFINE C == {j \in k..n : FirstSum(v, j) # FirstSum(v, k) + (j - k)}
<1>0. n \in Nat /\ FirstSum(v, k) \in Nat
  BY FirstSumNat DEF Sizes
<1>1. ASSUME C # {} PROVE FALSE
  <2>1. PICK m \in C : \A j \in C : m <= j
    <3>1. C \in SUBSET Nat
      BY <1>0
    <3> HIDE DEF C
    <3> QED
      BY <1>1, <3>1, MinNat
  <2>2. m # k
    BY <1>0
  <2>3. m - 1 \in k..n /\ m \in 1..n /\ m \in (k + 1)..n /\ ~(m <= m - 1)
    BY <1>0, <2>2
  <2>4. m - 1 \notin C
    BY <2>1, <2>3
  <2>5. FirstSum(v, m - 1) = FirstSum(v, k) + (m - 1 - k)
    BY <2>3, <2>4
  <2>6. FirstSum(v, m) = FirstSum(v, m - 1) + 1
    BY <2>3, FirstSumStep
  <2>7. FirstSum(v, m) = FirstSum(v, k) + (m - k)
    BY <1>0, <2>3, <2>5, <2>6
  <2> QED
    BY <2>7
<1>2. n \in k..n /\ n \notin C
  BY <1>0, <1>1
<1> QED
  BY <1>2

----------------------------------------------------------------------------
(* The invariant.                                                          *)

(* BatchWithinLimits of the batch b. *)
LimitsHold(b) ==
    LET Fresh == {i \in DOMAIN b : b[i].prefill /\ b[i].from = 1}
        Decodes == {i \in DOMAIN b : ~b[i].prefill}
    IN  /\ Cardinality(Fresh \cup Decodes) <= MaxBatchSequences
        /\ BatchTokens(b) > MaxBatchTokens => Fresh = DOMAIN b
        /\ \A i \in DOMAIN b : b[i].to - b[i].from < MaxPrefillTokens

(* The limits of SchedulerConfig. *)
LEMMA Bounds ==
    /\ MaxSequences \in Nat \ {0} /\ MaxBatchTokens \in Nat \ {0}
    /\ MaxBatchSequences \in Nat \ {0} /\ MaxPrefillTokens \in Nat \ {0}
BY SchedulerAssumption

(* The empty batch keeps every limit. *)
LEMMA EmptyLimits == LimitsHold(<<>>)
<1>1. DOMAIN <<>> = {}
  OBVIOUS
<1>2. Cardinality({}) = 0
  BY FS_EmptySet
<1>3. {i \in DOMAIN <<>> : <<>>[i].prefill /\ <<>>[i].from = 1} = {}
      /\ {i \in DOMAIN <<>> : ~<<>>[i].prefill} = {}
  BY <1>1
<1> QED
  BY <1>1, <1>2, <1>3, Bounds DEF LimitsHold

(* The inductive invariant implies the properties that the run checks. *)
LEMMA Implied == IInv => ListsMatchStates /\ FedOnce /\ BatchWithinLimits
<1> SUFFICES ASSUME IInv PROVE ListsMatchStates /\ FedOnce /\ BatchWithinLimits
  OBVIOUS
<1>1. DOMAIN batch = 1..Len(batch) /\ \A i \in 1..Len(batch) : batch[i] \in EntryType
  BY IdsIndexed DEF IInv, BatchInv
<1>2. ASSUME NEW id \in Requests, Present(id)
      PROVE  WellFormed(sequences[id], kv[id]) /\ kv[id] \in Nat
  BY <1>2 DEF IInv, SeqInv
<1>3. TypeOK
  <2>1. ASSUME NEW id \in Requests, Present(id)
        PROVE  /\ DOMAIN sequences[id] = DOMAIN Sequence(1, 1)
               /\ sequences[id].state \in States
               /\ sequences[id].pos \in 0 .. sequences[id].prompt
               /\ sequences[id].state = "finished" => sequences[id].stopped
    <3>1. WellFormed(sequences[id], kv[id])
      BY <1>2, <2>1
    <3>2. sequences[id] \in SequenceType
      BY <3>1 DEF WellFormed
    <3>3. DOMAIN sequences[id] = DOMAIN Sequence(1, 1)
      BY <3>2 DEF SequenceType, Sequence
    <3> QED
      BY <3>1, <3>2, <3>3 DEF SequenceType, WellFormed
  <2>2. \A i \in DOMAIN batch : batch[i].id \in Requests
    BY <1>1 DEF EntryType
  <2> QED
    BY <2>1, <2>2 DEF IInv, SeqInv, TypeOK
<1>4. ListsMatchStates
  <2> DEFINE InState(S) == {id \in Requests : Present(id) /\ sequences[id].state \in S}
             Stopped == {id \in Requests : Present(id) /\ sequences[id].stopped}
  <2>1. /\ waiting \in Seq(Requests) /\ active \in Seq(Requests)
        /\ NoDuplicates(waiting) /\ NoDuplicates(active) /\ Len(active) <= MaxSequences
        /\ Ids(waiting) \subseteq Requests /\ Ids(active) \subseteq Requests
    BY IdsIndexed DEF IInv, ListInv
  <2>2. Ids(waiting) \cap Ids(active) = {}
    BY <2>1 DEF IInv, ListInv, ListedRight, Queued, UnderWay
  <2>3. NoDuplicates(waiting \o active)
    BY <2>1, <2>2, ConcatLemma
  <2>4. InState({"waiting"}) \subseteq Ids(waiting)
    BY DEF IInv, ListInv, ListedRight
  <2>5. Ids(waiting) \subseteq InState({"waiting"}) \cup (InState({"finished"}) \cap Stopped)
    <3> SUFFICES ASSUME NEW id \in Ids(waiting)
                 PROVE  /\ id \in Requests /\ Present(id)
                        /\ \/ sequences[id].state = "waiting"
                           \/ sequences[id].state = "finished" /\ sequences[id].stopped
      OBVIOUS
    <3>1. id \in Requests /\ Queued(id)
      BY <2>1 DEF IInv, ListInv, ListedRight
    <3> QED
      BY <1>2, <3>1 DEF Queued, WellFormed
  <2>6. \A id \in Ids(waiting) : kv[id] = 0 /\ sequences[id].pos = 0 /\ ~Scheduled(batch, id)
    BY <2>1 DEF IInv, ListInv, ListedRight, Queued
  <2>7. Ids(active) \subseteq InState({"prefilling", "decoding"}) \ Stopped
    BY <2>1 DEF IInv, ListInv, ListedRight, UnderWay
  <2>8. \A id \in InState({"prefilling", "decoding"}) \ Stopped :
            ~AtLimit(sequences[id]) => id \in Ids(active)
    BY DEF IInv, ListInv, ListedRight, UnderWay
  <2> HIDE DEF InState, Stopped
  <2>9. /\ TypeOK /\ NoDuplicates(waiting \o active) /\ InState({"waiting"}) \subseteq Ids(waiting)
        /\ Ids(waiting) \subseteq InState({"waiting"}) \cup (InState({"finished"}) \cap Stopped)
        /\ \A id \in Ids(waiting) : kv[id] = 0 /\ sequences[id].pos = 0 /\ ~Scheduled(batch, id)
        /\ Ids(active) \subseteq InState({"prefilling", "decoding"}) \ Stopped
        /\ \A id \in InState({"prefilling", "decoding"}) \ Stopped :
               ~AtLimit(sequences[id]) => id \in Ids(active)
        /\ Len(active) <= MaxSequences
    BY <1>3, <2>1, <2>3, <2>4, <2>5, <2>6, <2>7, <2>8
  <2> QED
    BY <2>9 DEF ListsMatchStates, InState, Stopped
<1>5. FedOnce
  <2>1. \A i, j \in DOMAIN batch : batch[i].id = batch[j].id => i = j
    BY <1>1 DEF IInv, BatchInv
  <2>2. ASSUME NEW i \in Live(batch), batch[i].from <= batch[i].to
        PROVE  LET s == sequences[batch[i].id]
               IN  batch[i].from = First(s) + kv[batch[i].id] /\ batch[i].to <= Total(s)
    <3> DEFINE e == batch[i]
               s == sequences[e.id]
               n == kv[e.id]
    <3>1. e \in EntryType /\ Present(e.id) /\ i \in 1..Len(batch)
      BY <1>1 DEF Live
    <3>2. Feeds(e, s, n) /\ WellFormed(s, n) /\ n \in Nat /\ e.from <= e.to
      BY <1>2, <2>2, <3>1 DEF IInv, BatchInv, EntryType
    <3> HIDE DEF e, s, n
    <3>3. s.prompt \in Nat /\ s.pos \in Nat /\ s.out \in Nat /\ s.pos <= s.prompt
      BY <3>2 DEF WellFormed, SequenceType
    <3>4. e.from = First(s) + n /\ e.to <= Total(s)
      <4>1. CASE e.prefill
        BY <3>2, <3>3, <4>1 DEF Feeds, First, Total
      <4>2. CASE ~e.prefill
        BY <3>2, <3>3, <4>2 DEF Feeds, Total
      <4> QED
        BY <4>1, <4>2
    <3> QED
      BY <3>4 DEF e, s, n
  <2>3. \A id \in Requests : Present(id) /\ ~Scheduled(batch, id) =>
           LET s == sequences[id]
           IN  s.stopped \/ kv[id] = IF s.out = 0 THEN s.pos ELSE Total(s) - First(s)
    BY DEF IInv, BatchInv, Rests
  <2> QED
    BY <2>1, <2>2, <2>3 DEF FedOnce
<1> QED
  BY <1>4, <1>5 DEF IInv

(* A batch that is being run keeps its limits, and so does one that ended. *)
LEMMA LimitsStep ==
    ASSUME BatchWithinLimits, batch' = batch \/ batch' = <<>>
    PROVE  BatchWithinLimits'
<1>1. BatchWithinLimits' <=> LimitsHold(batch')
  BY DEF BatchWithinLimits, LimitsHold
<1>2. BatchWithinLimits <=> LimitsHold(batch)
  BY DEF BatchWithinLimits, LimitsHold
<1> QED
  BY <1>1, <1>2, EmptyLimits

(* It holds of the scheduler that was just built. *)
LEMMA InitIInv == Init => IInv
<1> SUFFICES ASSUME Init PROVE IInv
  OBVIOUS
<1>1. /\ sequences = [id \in Requests |-> None] /\ waiting = <<>>
      /\ active = <<>> /\ batch = <<>> /\ kv = [id \in Requests |-> 0]
  BY DEF Init
<1>2. SeqInv
  BY <1>1 DEF SeqInv, Present
<1>3. <<>> \in Seq(Requests) /\ <<>> \in Seq(EntryType) /\ Len(<<>>) = 0
      /\ NoDuplicates(<<>>) /\ Ids(<<>>) = {}
  BY EmptySeq DEF NoDuplicates, Ids
<1>4. ListInv
  BY <1>1, <1>3, Bounds DEF ListInv, ListedRight, Present
<1>5. BatchInv
  <2>1. \A id \in Requests : ~Present(id)
    BY <1>1 DEF Present
  <2> QED
    BY <1>1, <1>3, <2>1 DEF BatchInv
<1>6. BatchWithinLimits
  BY <1>1, EmptyLimits DEF BatchWithinLimits, LimitsHold
<1> QED
  BY <1>2, <1>4, <1>5, <1>6 DEF IInv

(* A new sequence waits; neither list nor the batch knows its identifier.  *)
LEMMA AddStep ==
    ASSUME IInv, NEW id \in Requests, NEW shape \in Shapes, AddRequest(id, shape)
    PROVE  IInv'
<1> DEFINE new == Sequence(shape[1], shape[2])
<1>1. /\ ~Present(id) /\ ~Scheduled(batch, id)
      /\ sequences' = [sequences EXCEPT ![id] = new] /\ waiting' = Append(waiting, id)
      /\ active' = active /\ batch' = batch /\ kv' = kv
  BY DEF AddRequest, Free
<1>2. /\ new \in SequenceType /\ new # None /\ new.state = "waiting" /\ new.pos = 0
      /\ new.out = 0
  <2>1. shape[1] \in Nat /\ shape[2] \in Nat
    BY SchedulerAssumption
  <2>2. new \in SequenceType
    BY <2>1 DEF Sequence, SequenceType, States
  <2> QED
    BY <2>2, SchedulerAssumption DEF Sequence
<1> HIDE DEF new
<1>3. /\ sequences' = [x \in Requests |-> sequences'[x]]
      /\ sequences'[id] = new
      /\ \A x \in Requests \ {id} : sequences'[x] = sequences[x]
  BY <1>1 DEF IInv, SeqInv
<1>4. kv[id] = 0
  BY <1>1 DEF IInv, SeqInv
<1>5. SeqInv'
  <2>1. WellFormed(new, 0)
    BY <1>2 DEF WellFormed, SequenceType
  <2>2. ASSUME NEW x \in Requests
        PROVE  IF sequences'[x] # None THEN WellFormed(sequences'[x], kv'[x]) ELSE kv'[x] = 0
    <3>1. CASE x = id
      BY <1>1, <1>2, <1>3, <1>4, <2>1, <3>1
    <3>2. CASE x # id
      BY <1>1, <1>3, <3>2 DEF IInv, SeqInv, Present
    <3> QED
      BY <3>1, <3>2
  <2>3. kv' \in [Requests -> Nat]
    BY <1>1 DEF IInv, SeqInv
  <2> QED
    BY <1>3, <2>2, <2>3 DEF SeqInv, Present
<1>6. ListInv'
  <2>1. id \notin Ids(waiting) /\ id \notin Ids(active)
    BY <1>1 DEF IInv, ListInv, ListedRight, Queued
  <2>2. /\ waiting' \in Seq(Requests) /\ Ids(waiting') = Ids(waiting) \cup {id}
        /\ NoDuplicates(waiting')
    BY <1>1, <2>1, AppendLemma DEF IInv, ListInv
  <2>3. ASSUME NEW x \in Requests
        PROVE  ListedRight(x)'
    <3>1. CASE x = id
      BY <1>1, <1>2, <1>3, <1>4, <2>1, <2>2, <3>1
         DEF ListedRight, Present, Queued, Scheduled, UnderWay
    <3>2. CASE x # id
      <4>1. ListedRight(x)
        BY DEF IInv, ListInv
      <4> QED
        BY <1>1, <1>3, <2>2, <3>2, <4>1
           DEF ListedRight, Present, Queued, Scheduled, AtLimit, Total
    <3> QED
      BY <3>1, <3>2
  <2>4. active' \in Seq(Requests) /\ NoDuplicates(active') /\ Len(active') <= MaxSequences
    BY <1>1 DEF IInv, ListInv
  <2> QED
    BY <2>2, <2>3, <2>4 DEF ListInv
<1>7. BatchInv'
  <2>1. \A i \in 1..Len(batch) : batch[i] \in EntryType
    BY IdsIndexed DEF IInv, BatchInv
  <2>2. ASSUME NEW i \in 1..Len(batch)
        PROVE  sequences'[batch[i].id] = sequences[batch[i].id]
    <3>1. batch[i].id \in Requests
      BY <2>1 DEF EntryType
    <3>2. batch[i].id # id
      BY <1>1, IdsIndexed DEF IInv, BatchInv, Scheduled
    <3> QED
      BY <1>3, <3>1, <3>2
  <2>3. \A i \in 1 .. Len(batch) :
          /\ batch[i].from <= batch[i].to + 1
          /\ \A j \in 1 .. Len(batch) : batch[i].id = batch[j].id => i = j
          /\ sequences'[batch[i].id] # None =>
                Feeds(batch[i], sequences'[batch[i].id], kv[batch[i].id])
    BY <2>2 DEF IInv, BatchInv, Present
  <2>4. ASSUME NEW x \in Requests, sequences'[x] # None, ~Scheduled(batch, x)
        PROVE  Rests(sequences'[x], kv[x])
    <3>1. CASE x = id
      BY <1>2, <1>3, <1>4, <3>1 DEF Rests
    <3>2. CASE x # id
      BY <1>3, <2>4, <3>2 DEF IInv, BatchInv, Present
    <3> QED
      BY <3>1, <3>2
  <2>5. batch \in Seq(EntryType)
    BY DEF IInv, BatchInv
  <2> QED
    BY <1>1, <2>3, <2>4, <2>5 DEF BatchInv, Present, Scheduled
<1>8. BatchWithinLimits'
  BY <1>1, LimitsStep DEF IInv
<1> QED
  BY <1>5, <1>6, <1>7, <1>8 DEF IInv

(* Taking sequences out of the map, of both lists and of the cache. *)
LEMMA RemoveMany ==
    ASSUME IInv, NEW D \in SUBSET Requests,
           sequences' = [id \in Requests |-> IF id \in D THEN None ELSE sequences[id]],
           waiting' = Kept(waiting, Requests \ D), active' = Kept(active, Requests \ D),
           kv' = [id \in Requests |-> IF id \in D THEN 0 ELSE kv[id]],
           batch' = batch
    PROVE  IInv'
<1>1. \A id \in Requests : /\ sequences'[id] = IF id \in D THEN None ELSE sequences[id]
                           /\ kv'[id] = IF id \in D THEN 0 ELSE kv[id]
  OBVIOUS
<1>2. SeqInv'
  BY <1>1 DEF IInv, SeqInv, Present
<1>3. ListInv'
  <2>1. /\ waiting \in Seq(Requests) /\ active \in Seq(Requests) /\ NoDuplicates(waiting)
        /\ NoDuplicates(active) /\ Len(active) <= MaxSequences /\ Len(active) \in Nat
    BY LenProperties DEF IInv, ListInv
  <2>2. /\ waiting' \in Seq(Requests) /\ NoDuplicates(waiting')
        /\ Ids(waiting') = Ids(waiting) \cap (Requests \ D)
    BY <2>1, KeptLemma
  <2>3. /\ active' \in Seq(Requests) /\ NoDuplicates(active')
        /\ Ids(active') = Ids(active) \cap (Requests \ D) /\ Len(active') \in 0..Len(active)
    BY <2>1, KeptLemma
  <2>4. Len(active') <= MaxSequences
    BY <2>1, <2>3, Bounds
  <2>5. ASSUME NEW id \in Requests PROVE ListedRight(id)'
    <3>1. CASE id \in D
      BY <1>1, <2>2, <2>3, <3>1 DEF ListedRight, Present
    <3>2. CASE id \notin D
      <4>1. ListedRight(id)
        BY DEF IInv, ListInv
      <4> QED
        BY <1>1, <2>2, <2>3, <3>2, <4>1
           DEF ListedRight, Queued, Present, Scheduled, AtLimit, Total
    <3> QED
      BY <3>1, <3>2
  <2> QED
    BY <2>2, <2>3, <2>4, <2>5 DEF ListInv
<1>4. BatchInv'
  <2>1. \A i \in 1..Len(batch) : batch[i] \in EntryType
    BY IdsIndexed DEF IInv, BatchInv
  <2>2. \A i \in 1 .. Len(batch) :
          /\ batch[i].from <= batch[i].to + 1
          /\ \A j \in 1 .. Len(batch) : batch[i].id = batch[j].id => i = j
          /\ sequences'[batch[i].id] # None =>
                Feeds(batch[i], sequences'[batch[i].id], kv'[batch[i].id])
    BY <1>1, <2>1 DEF IInv, BatchInv, Present, EntryType
  <2>3. \A id \in Requests : sequences'[id] # None /\ ~Scheduled(batch, id) =>
            Rests(sequences'[id], kv'[id])
    BY <1>1 DEF IInv, BatchInv, Present
  <2>4. batch \in Seq(EntryType)
    BY DEF IInv, BatchInv
  <2> QED
    BY <2>2, <2>3, <2>4 DEF BatchInv, Present, Scheduled
<1>5. BatchWithinLimits'
  BY LimitsStep DEF IInv
<1> QED
  BY <1>2, <1>3, <1>4, <1>5 DEF IInv

(* remove_sequence *)
LEMMA RemoveStep ==
    ASSUME IInv, NEW id \in Requests, RemoveSequence(id)
    PROVE  IInv'
<1>1. /\ sequences' = [sequences EXCEPT ![id] = None]
      /\ waiting' = Kept(waiting, Requests \ {id}) /\ active' = Kept(active, Requests \ {id})
      /\ kv' = [kv EXCEPT ![id] = 0] /\ batch' = batch
  BY DEF RemoveSequence, Without
<1>2. /\ sequences' = [x \in Requests |-> IF x \in {id} THEN None ELSE sequences[x]]
      /\ kv' = [x \in Requests |-> IF x \in {id} THEN 0 ELSE kv[x]]
  BY <1>1 DEF IInv, SeqInv
<1> QED
  BY <1>1, <1>2, RemoveMany

(* drain_finished *)
LEMMA DrainStep ==
    ASSUME IInv, DrainFinished
    PROVE  IInv'
<1> DEFINE D == {id \in Requests : Done(sequences[id])}
<1>1. /\ sequences' = [id \in Requests |-> IF id \in D THEN None ELSE sequences[id]]
      /\ kv' = [id \in Requests |-> IF id \in D THEN 0 ELSE kv[id]]
  BY DEF DrainFinished
<1>2. Requests \ D = {id \in Requests : ~Done(sequences[id])}
  OBVIOUS
<1>3. waiting' = Kept(waiting, Requests \ D) /\ active' = Kept(active, Requests \ D)
      /\ batch' = batch
  BY <1>2 DEF DrainFinished
<1> HIDE DEF D
<1>4. D \in SUBSET Requests
  BY DEF D
<1> QED
  BY <1>1, <1>3, <1>4, RemoveMany

(* A sequence that is stopped. *)
LEMMA FinishedLemma ==
    ASSUME NEW s \in SequenceType
    PROVE  /\ Finished(s) \in SequenceType /\ Finished(s) # None
           /\ Finished(s).state = "finished" /\ Finished(s).stopped
           /\ Finished(s).pos = s.pos /\ Finished(s).prompt = s.prompt
           /\ Finished(s).out = s.out
<1>1. Finished(s) \in SequenceType
  BY DEF Finished, SequenceType, States
<1> QED
  BY <1>1, SchedulerAssumption DEF Finished, SequenceType

(* finish_sequence: the entry that feeds the sequence, if there is one,    *)
(* still fits it, and so does its place in the waiting queue.              *)
LEMMA FinishStep ==
    ASSUME IInv, NEW id \in Requests, FinishSequence(id)
    PROVE  IInv'
<1> DEFINE s == sequences[id]
           t == Finished(s)
           n == kv[id]
<1>1. /\ Present(id) /\ sequences' = [sequences EXCEPT ![id] = t]
      /\ active' = Kept(active, Requests \ {id})
      /\ waiting' = waiting /\ batch' = batch /\ kv' = kv
  BY DEF FinishSequence, Without
<1>2. WellFormed(s, n) /\ n \in Nat
  BY <1>1 DEF IInv, SeqInv
<1>3. /\ t \in SequenceType /\ t # None /\ t.state = "finished" /\ t.stopped
      /\ t.pos = s.pos /\ t.prompt = s.prompt /\ t.out = s.out
  BY <1>2, FinishedLemma DEF WellFormed
<1>4. /\ sequences' = [x \in Requests |-> sequences'[x]]
      /\ sequences'[id] = t
      /\ \A x \in Requests \ {id} : sequences'[x] = sequences[x]
  BY <1>1 DEF IInv, SeqInv
<1>5. /\ WellFormed(t, n) /\ Rests(t, n)
      /\ \A e : Feeds(e, s, n) => Feeds(e, t, n)
  <2>1. WellFormed(t, n) /\ Rests(t, n)
    BY <1>2, <1>3 DEF WellFormed, Rests
  <2>2. ASSUME NEW e, Feeds(e, s, n) PROVE Feeds(e, t, n)
    BY <1>3, <2>2 DEF Feeds, Total, First
  <2> QED
    BY <2>1, <2>2
<1> HIDE DEF t
<1>6. SeqInv'
  <2>1. ASSUME NEW x \in Requests
        PROVE  IF sequences'[x] # None THEN WellFormed(sequences'[x], kv[x]) ELSE kv[x] = 0
    <3>1. CASE x = id
      BY <1>3, <1>4, <1>5, <3>1
    <3>2. CASE x # id
      BY <1>4, <3>2 DEF IInv, SeqInv, Present
    <3> QED
      BY <3>1, <3>2
  <2> QED
    BY <1>1, <1>4, <2>1 DEF IInv, SeqInv, Present
<1>7. ListInv'
  <2>1. /\ waiting \in Seq(Requests) /\ active \in Seq(Requests) /\ NoDuplicates(waiting)
        /\ NoDuplicates(active) /\ Len(active) <= MaxSequences /\ Len(active) \in Nat
    BY LenProperties DEF IInv, ListInv
  <2>2. /\ active' \in Seq(Requests) /\ NoDuplicates(active')
        /\ Ids(active') = Ids(active) \cap (Requests \ {id}) /\ Len(active') \in 0..Len(active)
    BY <1>1, <2>1, KeptLemma
  <2>3. Len(active') <= MaxSequences
    BY <2>1, <2>2, Bounds
  <2>4. ASSUME NEW x \in Requests PROVE ListedRight(x)'
    <3>1. ListedRight(x)
      BY DEF IInv, ListInv
    <3>2. CASE x = id
      BY <1>1, <1>3, <1>4, <2>2, <3>1, <3>2
         DEF ListedRight, Queued, Present, Scheduled, UnderWay
    <3>3. CASE x # id
      BY <1>1, <1>4, <2>2, <3>1, <3>3
         DEF ListedRight, Queued, Present, Scheduled, AtLimit, Total
    <3> QED
      BY <3>2, <3>3
  <2> QED
    BY <1>1, <2>1, <2>2, <2>3, <2>4 DEF ListInv
<1>8. BatchInv'
  <2>1. \A i \in 1..Len(batch) : batch[i] \in EntryType
    BY IdsIndexed DEF IInv, BatchInv
  <2>2. ASSUME NEW i \in 1 .. Len(batch)
        PROVE  /\ batch[i].from <= batch[i].to + 1
               /\ \A j \in 1 .. Len(batch) : batch[i].id = batch[j].id => i = j
               /\ sequences'[batch[i].id] # None =>
                     Feeds(batch[i], sequences'[batch[i].id], kv[batch[i].id])
    <3>1. /\ batch[i].from <= batch[i].to + 1
          /\ \A j \in 1 .. Len(batch) : batch[i].id = batch[j].id => i = j
          /\ Present(batch[i].id) => Feeds(batch[i], sequences[batch[i].id], kv[batch[i].id])
          /\ batch[i].id \in Requests
      BY <2>1 DEF IInv, BatchInv, EntryType
    <3>2. CASE batch[i].id = id
      BY <1>1, <1>4, <1>5, <3>1, <3>2
    <3>3. CASE batch[i].id # id
      BY <1>4, <3>1, <3>3 DEF Present
    <3> QED
      BY <3>1, <3>2, <3>3
  <2>3. ASSUME NEW x \in Requests, sequences'[x] # None, ~Scheduled(batch, x)
        PROVE  Rests(sequences'[x], kv[x])
    <3>1. CASE x = id
      BY <1>4, <1>5, <3>1
    <3>2. CASE x # id
      BY <1>4, <2>3, <3>2 DEF IInv, BatchInv, Present
    <3> QED
      BY <3>1, <3>2
  <2>4. batch \in Seq(EntryType)
    BY DEF IInv, BatchInv
  <2> QED
    BY <1>1, <2>2, <2>3, <2>4 DEF BatchInv, Present, Scheduled
<1>9. BatchWithinLimits'
  BY <1>1, LimitsStep DEF IInv
<1> QED
  BY <1>6, <1>7, <1>8, <1>9 DEF IInv

(* The entry e feeds the last token that sequence s has. *)
FeedsLast(e, s) == e.from <= e.to /\ e.to = Total(s)

(* What the run of its entry makes of a sequence, whose cache then holds m *)
(* tokens: one token more if its last was fed, or the end, or nothing.     *)
LEMMA FedSequence ==
    ASSUME NEW s, NEW n \in Nat, NEW e \in EntryType, e.from <= e.to + 1,
           WellFormed(s, n), Feeds(e, s, n)
    PROVE  LET m == n + (e.to - e.from + 1)
           IN  /\ s.state # "waiting" /\ m \in Nat
               /\ WellFormed(Finished(s), m) /\ Rests(Finished(s), m)
               /\ Finished(s).state = "finished" /\ Finished(s).stopped
               /\ FeedsLast(e, s) => WellFormed(Appended(s), m) /\ Rests(Appended(s), m)
               /\ Appended(s).state = s.state /\ Appended(s).stopped = s.stopped
               /\ AtLimit(s) => AtLimit(Appended(s))
               /\ ~FeedsLast(e, s) => WellFormed(s, m) /\ Rests(s, m)
<1> DEFINE m == n + (e.to - e.from + 1)
<1>0. s.state # "waiting"
  BY DEF Feeds
<1>1. s \in SequenceType
  BY DEF WellFormed
<1>2. /\ s.prompt \in Nat /\ s.max \in Nat /\ s.pos \in Nat /\ s.out \in Nat
      /\ s.pos <= s.prompt /\ s.state \in States /\ s.stopped \in BOOLEAN
  BY <1>1 DEF SequenceType, WellFormed
<1>3. e.from \in Nat /\ e.to \in Nat
  BY DEF EntryType
<1>4. m \in Nat /\ (e.prefill => m = e.to) /\ (~e.prefill => m = n + 1)
  BY <1>3, <1>2 DEF Feeds
<1> HIDE DEF m
<1>5. /\ Finished(s) \in SequenceType /\ Finished(s).state = "finished" /\ Finished(s).stopped
      /\ Finished(s).pos = s.pos /\ Finished(s).prompt = s.prompt
  BY <1>1, FinishedLemma
<1>6. /\ Appended(s) \in SequenceType /\ Appended(s).state = s.state
      /\ Appended(s).stopped = s.stopped /\ Appended(s).pos = s.pos
      /\ Appended(s).prompt = s.prompt /\ Appended(s).out = s.out + 1
      /\ Appended(s).max = s.max
  BY <1>1 DEF Appended, SequenceType
<1>7. WellFormed(Finished(s), m) /\ Rests(Finished(s), m)
  BY <1>2, <1>5 DEF WellFormed, Rests
<1>8. AtLimit(s) => AtLimit(Appended(s))
  BY <1>2, <1>6 DEF AtLimit, Total
<1>9. ASSUME FeedsLast(e, s) PROVE WellFormed(Appended(s), m) /\ Rests(Appended(s), m)
  <2>1. e.from <= e.to /\ e.to = s.prompt + s.out
    BY <1>9 DEF FeedsLast, Total
  <2>2. /\ s.state # "prefilling"
        /\ m = s.prompt + s.out + 1 - First(s)
    <3>1. CASE e.prefill
      <4>1. s.out = 0 /\ e.to = s.pos /\ e.from = n + 1
        BY <3>1 DEF Feeds
      <4>2. s.pos = s.prompt /\ s.prompt # 0
        BY <1>2, <1>3, <2>1, <4>1
      <4> QED
        BY <1>2, <1>4, <2>1, <3>1, <4>1, <4>2 DEF WellFormed, First
    <3>2. CASE ~e.prefill
      <4>1. s.state \in {"decoding", "finished"} /\ s.prompt + s.out = First(s) + n
        BY <3>2 DEF Feeds, Total
      <4>2. First(s) \in {0, 1}
        BY DEF First
      <4> QED
        BY <1>2, <1>4, <3>2, <4>1, <4>2
    <3> QED
      BY <3>1, <3>2
  <2>3. WellFormed(Appended(s), m)
    BY <1>0, <1>2, <1>6, <2>2 DEF WellFormed
  <2>4. Rests(Appended(s), m)
    <3>1. First(Appended(s)) = First(s) /\ Total(Appended(s)) = s.prompt + (s.out + 1)
      BY <1>6 DEF First, Total
    <3>2. s.out + 1 # 0 /\ s.out + 1 >= 1
      BY <1>2
    <3>3. m = Total(Appended(s)) - First(Appended(s))
      <4>1. First(s) \in {0, 1}
        BY DEF First
      <4> QED
        BY <1>2, <2>2, <3>1, <4>1
    <3> QED
      BY <1>6, <3>2, <3>3 DEF Rests
  <2> QED
    BY <2>3, <2>4
<1>10. ASSUME ~FeedsLast(e, s) PROVE WellFormed(s, m) /\ Rests(s, m)
  <2>1. e.prefill
    <3> SUFFICES ASSUME ~e.prefill PROVE FALSE
      OBVIOUS
    <3>1. e.from = e.to /\ e.to = Total(s)
      BY DEF Feeds
    <3> QED
      BY <1>3, <1>10, <3>1 DEF FeedsLast
  <2>2. s.out = 0 /\ e.to = s.pos /\ m = s.pos /\ (e.from <= e.to \/ s.prompt = 0)
    BY <1>4, <2>1 DEF Feeds
  <2>3. s.state = "decoding" => s.prompt = 0
    BY <1>2, <1>10, <2>2 DEF FeedsLast, WellFormed, Total
  <2>4. WellFormed(s, m)
    BY <1>0 DEF WellFormed
  <2> QED
    BY <2>2, <2>3, <2>4 DEF Rests
<1> QED
  BY <1>0, <1>4, <1>5, <1>6, <1>7, <1>8, <1>9, <1>10 DEF m

(* The entry e of the batch feeds sequence id in the step. *)
Runs(e, id, ends) ==
    LET s == sequences[id]
        m == kv[id] + (e.to - e.from + 1)
    IN  /\ e \in EntryType /\ e.id = id /\ e.from <= e.to + 1 /\ Feeds(e, s, kv[id])
        /\ Present(id) /\ WellFormed(s, kv[id]) /\ kv[id] \in Nat
        /\ kv'[id] = m
        /\ sequences'[id] = IF id \in ends THEN Finished(s)
                            ELSE IF FeedsLast(e, s) THEN Appended(s) ELSE s

(* What RunBatch does to one sequence. *)
LEMMA RunOne ==
    ASSUME IInv, NEW ends \in SUBSET Requests, RunBatch(ends), NEW id \in Requests
    PROVE  \/ \E i \in 1..Len(batch) : Runs(batch[i], id, ends)
           \/ /\ sequences'[id] = sequences[id] /\ kv'[id] = kv[id] /\ id \notin ends
              /\ Present(id) => ~Scheduled(batch, id)
<1> DEFINE fed      == {batch[i].id : i \in Live(batch)}
           sampled  == {batch[i].id : i \in {j \in Live(batch) :
                            /\ batch[j].from <= batch[j].to
                            /\ batch[j].to = Total(sequences[batch[j].id])}}
           FedTo(x) == LET e == batch[CHOOSE i \in Live(batch) : batch[i].id = x]
                       IN  kv[x] + (e.to - e.from + 1)
<1>1. /\ ends \subseteq sampled
      /\ sequences' = [x \in Requests |->
             IF x \in ends THEN Finished(sequences[x])
             ELSE IF x \in sampled THEN Appended(sequences[x])
             ELSE sequences[x]]
      /\ kv' = [x \in Requests |-> IF x \in fed THEN FedTo(x) ELSE kv[x]]
  BY DEF RunBatch
<1>2. DOMAIN batch = 1..Len(batch) /\ \A i \in 1..Len(batch) : batch[i] \in EntryType
  BY IdsIndexed DEF IInv, BatchInv
<1>3. sampled \subseteq fed
  OBVIOUS
<1>4. CASE id \notin fed
  <2>1. id \notin ends /\ id \notin sampled
    BY <1>1, <1>3, <1>4
  <2>2. Present(id) => ~Scheduled(batch, id)
    BY <1>4 DEF Live, Scheduled
  <2> HIDE DEF fed, sampled, FedTo
  <2> QED
    BY <1>1, <1>4, <2>1, <2>2
<1>5. CASE id \in fed
  <2>1. PICK i \in Live(batch) : batch[i].id = id
    BY <1>5
  <2>2. i \in 1..Len(batch) /\ Present(id)
    BY <1>2, <2>1 DEF Live
  <2>3. \A j \in Live(batch) : batch[j].id = id => j = i
    BY <1>2, <2>1, <2>2 DEF IInv, BatchInv, Live
  <2>4. FedTo(id) = kv[id] + (batch[i].to - batch[i].from + 1)
    <3> DEFINE k == CHOOSE j \in Live(batch) : batch[j].id = id
    <3>1. k \in Live(batch) /\ batch[k].id = id
      BY <2>1
    <3>2. k = i
      BY <2>3, <3>1
    <3> QED
      BY <3>2
  <2>5. id \in sampled <=> FeedsLast(batch[i], sequences[id])
    BY <2>1, <2>3 DEF FeedsLast
  <2>6. /\ batch[i] \in EntryType /\ batch[i].from <= batch[i].to + 1
        /\ Feeds(batch[i], sequences[id], kv[id])
    BY <1>2, <2>1, <2>2 DEF IInv, BatchInv
  <2>7. WellFormed(sequences[id], kv[id]) /\ kv[id] \in Nat
    BY <2>2 DEF IInv, SeqInv
  <2>8. kv'[id] = kv[id] + (batch[i].to - batch[i].from + 1)
    <3> HIDE DEF fed, sampled, FedTo
    <3> QED
      BY <1>1, <1>5, <2>4
  <2>9. sequences'[id] = IF id \in ends THEN Finished(sequences[id])
                         ELSE IF id \in sampled THEN Appended(sequences[id])
                         ELSE sequences[id]
    <3> HIDE DEF fed, sampled, FedTo
    <3> QED
      BY <1>1
  <2> HIDE DEF fed, sampled, FedTo
  <2>10. Runs(batch[i], id, ends)
    BY <2>1, <2>2, <2>5, <2>6, <2>7, <2>8, <2>9 DEF Runs
  <2> QED
    BY <2>2, <2>10
<1> QED
  BY <1>4, <1>5

(* The engine runs the batch, which a client may have thinned out. *)
LEMMA RunStep ==
    ASSUME IInv, NEW ends \in SUBSET Requests, RunBatch(ends)
    PROVE  IInv'
<1>1. /\ active' = Kept(active, Requests \ ends) /\ batch' = <<>>
      /\ waiting' = waiting
      /\ sequences' = [id \in Requests |-> sequences'[id]]
      /\ kv' = [id \in Requests |-> kv'[id]]
  BY DEF RunBatch
<1> DEFINE s(id) == sequences[id]
           t(id) == sequences'[id]
<1>2. ASSUME NEW id \in Requests
      PROVE  /\ t(id) # None <=> s(id) # None
             /\ IF s(id) # None
                THEN /\ WellFormed(t(id), kv'[id]) /\ Rests(t(id), kv'[id])
                     /\ t(id).state = IF id \in ends THEN "finished" ELSE s(id).state
                     /\ id \notin ends => t(id).stopped = s(id).stopped
                     /\ id \notin ends /\ AtLimit(s(id)) => AtLimit(t(id))
                     /\ id \in ends => s(id).state # "waiting"
                ELSE kv'[id] = 0
             /\ kv'[id] \in Nat
             /\ s(id) # None /\ ~Scheduled(batch, id) => t(id) = s(id) /\ kv'[id] = kv[id]
  <2>1. CASE \E i \in 1..Len(batch) : Runs(batch[i], id, ends)
    <3>1. PICK i \in 1..Len(batch) : Runs(batch[i], id, ends)
      BY <2>1
    <3> DEFINE e == batch[i]
               n == kv[id]
               m == n + (e.to - e.from + 1)
    <3>2. /\ e \in EntryType /\ e.from <= e.to + 1 /\ Feeds(e, s(id), n)
          /\ s(id) # None /\ WellFormed(s(id), n) /\ n \in Nat /\ kv'[id] = m
          /\ t(id) = IF id \in ends THEN Finished(s(id))
                     ELSE IF FeedsLast(e, s(id)) THEN Appended(s(id)) ELSE s(id)
      BY <3>1 DEF Runs, Present
    <3> HIDE DEF s, t, e, n
    <3>3. /\ s(id).state # "waiting" /\ m \in Nat
          /\ WellFormed(Finished(s(id)), m) /\ Rests(Finished(s(id)), m)
          /\ Finished(s(id)).state = "finished" /\ Finished(s(id)).stopped
          /\ FeedsLast(e, s(id)) => WellFormed(Appended(s(id)), m) /\ Rests(Appended(s(id)), m)
          /\ Appended(s(id)).state = s(id).state /\ Appended(s(id)).stopped = s(id).stopped
          /\ AtLimit(s(id)) => AtLimit(Appended(s(id)))
          /\ ~FeedsLast(e, s(id)) => WellFormed(s(id), m) /\ Rests(s(id), m)
      BY <3>2, FedSequence
    <3> HIDE DEF m
    <3>4. t(id) # None
      <4>1. t(id) \in SequenceType
        BY <3>2, <3>3 DEF WellFormed
      <4> QED
        BY <4>1, SchedulerAssumption
    <3>5. Scheduled(batch, id)
      BY <3>1, IdsIndexed DEF Runs, Scheduled, IInv, BatchInv
    <3> QED
      BY <3>2, <3>3, <3>4, <3>5
  <2>2. CASE /\ sequences'[id] = sequences[id] /\ kv'[id] = kv[id] /\ id \notin ends
             /\ Present(id) => ~Scheduled(batch, id)
    BY <2>2 DEF IInv, SeqInv, BatchInv, Present
  <2> QED
    BY <2>1, <2>2, RunOne
<1>3. SeqInv'
  <2>1. \A id \in Requests :
            IF t(id) # None THEN WellFormed(t(id), kv'[id]) ELSE kv'[id] = 0
    BY <1>2
  <2> QED
    BY <1>1, <1>2, <2>1 DEF SeqInv, Present
<1>4. ListInv'
  <2>1. /\ waiting \in Seq(Requests) /\ active \in Seq(Requests) /\ NoDuplicates(waiting)
        /\ NoDuplicates(active) /\ Len(active) <= MaxSequences /\ Len(active) \in Nat
    BY LenProperties DEF IInv, ListInv
  <2>2. /\ active' \in Seq(Requests) /\ NoDuplicates(active')
        /\ Ids(active') = Ids(active) \cap (Requests \ ends) /\ Len(active') \in 0..Len(active)
    BY <1>1, <2>1, KeptLemma
  <2>3. Len(active') <= MaxSequences
    BY <2>1, <2>2, Bounds
  <2>4. ASSUME NEW id \in Requests PROVE ListedRight(id)'
    <3>1. ListedRight(id)
      BY DEF IInv, ListInv
    <3>2. id \in Ids(waiting') => Queued(id)'
      <4> SUFFICES ASSUME id \in Ids(waiting) PROVE Queued(id)'
        BY <1>1
      <4>1. Queued(id) /\ t(id) = s(id) /\ kv'[id] = kv[id]
        BY <1>2, <3>1 DEF ListedRight, Queued, Present
      <4>2. ~Scheduled(batch', id)
        BY <1>1 DEF Scheduled
      <4> QED
        BY <4>1, <4>2 DEF Queued, Present
    <3>3. /\ id \in Ids(waiting') <=> id \in Ids(waiting)
          /\ id \in Ids(active') <=> id \in Ids(active) /\ id \notin ends
      BY <1>1, <2>2
    <3>4. /\ s(id) # None /\ s(id).state = "waiting" => id \in Ids(waiting)
          /\ id \in Ids(active) => s(id) # None /\ s(id).state \in UnderWay /\ ~s(id).stopped
          /\ s(id) # None /\ s(id).state \in UnderWay /\ ~s(id).stopped
                /\ ~AtLimit(s(id)) => id \in Ids(active)
      BY <3>1 DEF ListedRight, Present
    <3>5. "finished" \notin UnderWay
      BY DEF UnderWay
    <3> HIDE DEF s, t
    <3>6. /\ t(id) # None /\ t(id).state = "waiting" => id \in Ids(waiting')
          /\ id \in Ids(active') => t(id) # None /\ t(id).state \in UnderWay /\ ~t(id).stopped
          /\ t(id) # None /\ t(id).state \in UnderWay /\ ~t(id).stopped
                /\ ~AtLimit(t(id)) => id \in Ids(active')
      BY <1>2, <3>3, <3>4, <3>5
    <3> QED
      BY <3>2, <3>6 DEF ListedRight, Present, AtLimit, Total, t
  <2>5. waiting' \in Seq(Requests) /\ NoDuplicates(waiting')
    BY <1>1, <2>1
  <2> QED
    BY <2>2, <2>3, <2>4, <2>5 DEF ListInv
<1>5. BatchInv'
  <2>1. batch' \in Seq(EntryType) /\ Len(batch') = 0
    BY <1>1, EmptySeq
  <2> QED
    BY <1>2, <2>1 DEF BatchInv, Present
<1>6. BatchWithinLimits'
  BY <1>1, LimitsStep DEF IInv
<1> QED
  BY <1>3, <1>4, <1>5, <1>6 DEF IInv

----------------------------------------------------------------------------
(* schedule().                                                             *)

(* Phase 1 takes a front of the queue, as long as there is room for. *)
LEMMA PromotedFacts ==
    ASSUME IInv
    PROVE  LET rest == SubSeq(waiting, Len(Promoted) + 1, Len(waiting))
           IN  /\ Promoted \in Seq(Requests) /\ rest \in Seq(Requests)
               /\ NoDuplicates(Promoted) /\ NoDuplicates(rest)
               /\ Ids(waiting) = Ids(Promoted) \cup Ids(rest)
               /\ Ids(Promoted) \cap Ids(rest) = {}
               /\ Len(Promoted) \in Nat /\ Len(Promoted) <= MaxBatchSequences
               /\ Len(active) + Len(Promoted) <= MaxSequences
<1>1. /\ waiting \in Seq(Requests) /\ NoDuplicates(waiting) /\ Len(waiting) \in Nat
      /\ Len(active) \in Nat /\ Len(active) <= MaxSequences
  BY LenProperties DEF IInv, ListInv
<1> DEFINE a == MaxSequences - Len(active)
           k == IF a <= MaxBatchSequences THEN a ELSE MaxBatchSequences
           n == IF k <= Len(waiting) THEN k ELSE Len(waiting)
           rest == SubSeq(waiting, n + 1, Len(waiting))
<1>2. a \in Int /\ a >= 0 /\ MaxBatchSequences \in Int /\ MaxBatchSequences >= 0
  BY <1>1, Bounds
<1>3. Min({a, MaxBatchSequences}) = k
  BY <1>2, MinTwo
<1>4. Promoted = SubSeq(waiting, 1, n)
  <2>1. k \in Int /\ Len(waiting) \in Int
    BY <1>1, <1>2
  <2>2. Promoted = Take(k, waiting)
    BY <1>3 DEF Promoted
  <2> HIDE DEF k
  <2>3. Min({k, Len(waiting)}) = n
    BY <2>1, MinTwo
  <2> QED
    BY <2>2, <2>3 DEF Take
<1>5. n \in 0..Len(waiting) /\ n <= MaxBatchSequences /\ Len(active) + n <= MaxSequences
  BY <1>1, <1>2, Bounds
<1> HIDE DEF n
<1>6. /\ Promoted \in Seq(Requests) /\ rest \in Seq(Requests) /\ Len(Promoted) = n
      /\ waiting = Promoted \o rest
  BY <1>1, <1>4, <1>5, SplitLemma
<1> HIDE DEF rest
<1>7. /\ NoDuplicates(Promoted) /\ NoDuplicates(rest)
      /\ Ids(waiting) = Ids(Promoted) \cup Ids(rest)
      /\ Ids(Promoted) \cap Ids(rest) = {}
  BY <1>1, <1>6, ConcatLemma
<1> QED
  BY <1>5, <1>6, <1>7 DEF rest

(* Phase 2 goes on with active sequences in their prompt. *)
LEMMA ContinuingFacts ==
    ASSUME IInv
    PROVE  /\ Continuing \in Seq(Requests) /\ NoDuplicates(Continuing)
           /\ Ids(Continuing) = {id \in Ids(active) : sequences[id].state = "prefilling"}
<1>1. active \in Seq(Requests) /\ NoDuplicates(active)
  BY DEF IInv, ListInv
<1> DEFINE K == {id \in Ids(active) : sequences[id].state = "prefilling"}
<1>2. Continuing = Kept(active, K)
  BY DEF Continuing
<1>3. Ids(active) \cap K = K
  OBVIOUS
<1> HIDE DEF K
<1>4. Continuing \in Seq(Requests) /\ NoDuplicates(Continuing) /\ Ids(Continuing) = K
  BY <1>1, <1>2, <1>3, KeptLemma
<1> QED
  BY <1>4 DEF K

(* The sequences of phases 1 and 2, in order. *)
Prefilled == Promoted \o Continuing

(* They are queued and prefilling sequences, each once, the queued first.  *)
LEMMA PrefilledFacts ==
    ASSUME IInv
    PROVE  /\ Prefilled \in Seq(Requests) /\ NoDuplicates(Prefilled)
           /\ Len(Prefilled) \in Nat /\ DOMAIN Prefilled = 1..Len(Prefilled)
           /\ Len(Promoted) \in 0..Len(Prefilled)
           /\ \A i \in 1..Len(Prefilled) :
                 /\ Prefilled[i] \in Requests /\ Present(Prefilled[i])
                 /\ i <= Len(Promoted) => Prefilled[i] = Promoted[i] /\ Queued(Prefilled[i])
                 /\ i > Len(Promoted) =>
                       /\ Prefilled[i] \in Ids(active)
                       /\ sequences[Prefilled[i]].state = "prefilling"
<1>1. /\ Promoted \in Seq(Requests) /\ NoDuplicates(Promoted)
      /\ Ids(Promoted) \subseteq Ids(waiting)
      /\ Continuing \in Seq(Requests) /\ NoDuplicates(Continuing)
      /\ Ids(Continuing) = {id \in Ids(active) : sequences[id].state = "prefilling"}
  BY PromotedFacts, ContinuingFacts
<1>2. /\ \A id \in Ids(waiting) : id \in Requests /\ Queued(id)
      /\ \A id \in Ids(active) : id \in Requests /\ Present(id)
  BY IdsIndexed DEF IInv, ListInv, ListedRight
<1>3. Ids(Promoted) \cap Ids(Continuing) = {}
  BY <1>1, <1>2 DEF Queued
<1>4. /\ Prefilled \in Seq(Requests) /\ NoDuplicates(Prefilled)
      /\ Len(Prefilled) = Len(Promoted) + Len(Continuing)
  BY <1>1, <1>3, ConcatLemma DEF Prefilled
<1>5. /\ Len(Promoted) \in Nat /\ Len(Continuing) \in Nat
      /\ \A i \in 1..Len(Promoted) : Promoted[i] \in Ids(Promoted)
      /\ \A i \in 1..Len(Continuing) : Continuing[i] \in Ids(Continuing)
  BY <1>1, IdsIndexed
<1>6. \A i \in 1..(Len(Promoted) + Len(Continuing)) :
          Prefilled[i] = IF i <= Len(Promoted) THEN Promoted[i] ELSE Continuing[i - Len(Promoted)]
  BY <1>1, ConcatProperties DEF Prefilled
<1>7. ASSUME NEW i \in 1..Len(Prefilled)
      PROVE  /\ Prefilled[i] \in Requests /\ Present(Prefilled[i])
             /\ i <= Len(Promoted) => Prefilled[i] = Promoted[i] /\ Queued(Prefilled[i])
             /\ i > Len(Promoted) =>
                   /\ Prefilled[i] \in Ids(active)
                   /\ sequences[Prefilled[i]].state = "prefilling"
  <2>1. CASE i <= Len(Promoted)
    <3>1. Prefilled[i] = Promoted[i] /\ Promoted[i] \in Ids(Promoted)
      BY <1>4, <1>5, <1>6, <2>1
    <3>2. Prefilled[i] \in Requests /\ Queued(Prefilled[i])
      BY <1>1, <1>2, <3>1
    <3> QED
      BY <1>5, <2>1, <3>1, <3>2 DEF Queued
  <2>2. CASE ~(i <= Len(Promoted))
    <3>1. i - Len(Promoted) \in 1..Len(Continuing)
      BY <1>4, <1>5, <2>2
    <3>2. Prefilled[i] = Continuing[i - Len(Promoted)]
      BY <1>4, <1>6, <2>2
    <3>3. Prefilled[i] \in Ids(Continuing)
      BY <1>5, <3>1, <3>2
    <3> QED
      BY <1>1, <1>2, <2>2, <3>3
  <2> QED
    BY <2>1, <2>2
<1> QED
  BY <1>4, <1>5, <1>7, LenProperties

(* No chunk passes the end of the prompt, and only at its end is one empty. *)
LEMMA ChunkLemma ==
    ASSUME NEW id \in Requests, WellFormed(sequences[id], kv[id])
    PROVE  /\ Chunk(id) \in 0..MaxPrefillTokens
           /\ Chunk(id) = 0 => sequences[id].pos = sequences[id].prompt
           /\ sequences[id].pos + Chunk(id) <= sequences[id].prompt
           /\ sequences[id].pos \in Nat /\ sequences[id].prompt \in Nat
<1>1. /\ sequences[id].prompt \in Nat /\ sequences[id].pos \in Nat
      /\ sequences[id].pos <= sequences[id].prompt
  BY DEF WellFormed, SequenceType
<1> DEFINE left == sequences[id].prompt - sequences[id].pos
<1>2. left \in Int /\ left >= 0 /\ MaxPrefillTokens \in Int /\ MaxPrefillTokens >= 1
  BY <1>1, Bounds
<1>3. Chunk(id) = IF left <= MaxPrefillTokens THEN left ELSE MaxPrefillTokens
  BY <1>2, MinTwo DEF Chunk
<1> QED
  BY <1>1, <1>2, <1>3

(* The parts of PrefillEntries. *)
Chunks   == [i \in DOMAIN Prefilled |-> Chunk(Prefilled[i])]
Left(i)  == MaxBatchTokens - FirstSum(Chunks, i - 1)
Share(i) == IF i <= Len(Promoted) THEN Chunks[i] ELSE Min({Chunks[i], Left(i)})
Reached  == {i \in DOMAIN Prefilled : i <= Len(Promoted) \/ Left(i) > 0}
Last     == Max({0} \cup Reached)
PosOf(i) == sequences[Prefilled[i]].pos

(* PrefillEntries is made of them. *)
LEMMA PrefillParts ==
    PrefillEntries =
        [i \in 1 .. Last |-> Entry(Prefilled[i], PosOf(i) + 1, PosOf(i) + Share(i), TRUE)]
BY DEF PrefillEntries, Prefilled, Chunks, Left, Share, Reached, Last, PosOf

(* Every chunk ends within its prompt, and is empty only if the prompt is. *)
LEMMA ChunksFacts ==
    ASSUME IInv
    PROVE  /\ \A i \in 1..Len(Prefilled) :
                 /\ Chunks[i] \in 0..MaxPrefillTokens
                 /\ PosOf(i) \in Nat /\ sequences[Prefilled[i]].prompt \in Nat
                 /\ PosOf(i) + Chunks[i] <= sequences[Prefilled[i]].prompt
                 /\ Chunks[i] = 0 => /\ i <= Len(Promoted)
                                     /\ sequences[Prefilled[i]].prompt = 0
                 /\ Left(i) \in Int
           /\ \A i \in 0..Len(Prefilled) : Sizes(Chunks, i) /\ FirstSum(Chunks, i) \in Nat
<1>0. /\ Len(Prefilled) \in Nat /\ DOMAIN Prefilled = 1..Len(Prefilled)
      /\ Len(Promoted) \in Nat
      /\ \A i \in 1..Len(Prefilled) : Prefilled[i] \in Requests /\ Present(Prefilled[i])
  BY PrefilledFacts
<1>1. ASSUME NEW i \in 1..Len(Prefilled)
      PROVE  /\ Chunks[i] \in 0..MaxPrefillTokens
             /\ PosOf(i) \in Nat /\ sequences[Prefilled[i]].prompt \in Nat
             /\ PosOf(i) + Chunks[i] <= sequences[Prefilled[i]].prompt
             /\ Chunks[i] = 0 => i <= Len(Promoted) /\ sequences[Prefilled[i]].prompt = 0
  <2>1. Chunks[i] = Chunk(Prefilled[i])
    BY <1>0 DEF Chunks
  <2>2. WellFormed(sequences[Prefilled[i]], kv[Prefilled[i]])
    BY <1>0 DEF IInv, SeqInv
  <2>3. /\ Chunks[i] \in 0..MaxPrefillTokens
        /\ PosOf(i) \in Nat /\ sequences[Prefilled[i]].prompt \in Nat
        /\ PosOf(i) + Chunks[i] <= sequences[Prefilled[i]].prompt
        /\ Chunks[i] = 0 => PosOf(i) = sequences[Prefilled[i]].prompt
    BY <1>0, <2>1, <2>2, ChunkLemma DEF PosOf
  <2>4. ASSUME Chunks[i] = 0
        PROVE  i <= Len(Promoted) /\ sequences[Prefilled[i]].prompt = 0
    <3>1. PosOf(i) = sequences[Prefilled[i]].prompt
      BY <2>3, <2>4
    <3>2. CASE i <= Len(Promoted)
      <4>1. PosOf(i) = 0
        BY <3>2, PrefilledFacts DEF Queued, PosOf
      <4> QED
        BY <3>1, <3>2, <4>1
    <3>3. CASE ~(i <= Len(Promoted))
      <4>1. sequences[Prefilled[i]].state = "prefilling"
        BY <1>0, <3>3, PrefilledFacts
      <4>2. PosOf(i) < sequences[Prefilled[i]].prompt
        BY <2>2, <4>1 DEF WellFormed, PosOf
      <4> QED
        BY <2>3, <3>1, <4>2
    <3> QED
      BY <3>2, <3>3
  <2> QED
    BY <2>3, <2>4
<1>2. ASSUME NEW i \in 0..Len(Prefilled)
      PROVE  Sizes(Chunks, i) /\ FirstSum(Chunks, i) \in Nat
  <2>1. i \in Nat /\ \A j \in 1..i : j \in 1..Len(Prefilled)
    BY <1>0
  <2>2. \A j \in 1..Len(Prefilled) : Chunks[j] \in Nat
    BY <1>1, Bounds
  <2>3. Sizes(Chunks, i)
    BY <2>1, <2>2 DEF Sizes
  <2>4. i \in 0..i
    BY <2>1
  <2> QED
    BY <2>3, <2>4, FirstSumNat
<1>3. ASSUME NEW i \in 1..Len(Prefilled) PROVE Left(i) \in Int
  <2>1. i - 1 \in 0..Len(Prefilled)
    BY <1>0
  <2>2. FirstSum(Chunks, i - 1) \in Nat
    BY <1>2, <2>1
  <2> QED
    BY <2>2, Bounds DEF Left
<1> QED
  BY <1>1, <1>2, <1>3

(* The budget falls by each chunk. *)
LEMMA LeftFalls ==
    ASSUME IInv, NEW i \in 1..Len(Prefilled), NEW j \in i..Len(Prefilled)
    PROVE  /\ Left(j) <= Left(i)
           /\ i < j => Left(j) <= Left(i) - Chunks[i]
<1>0. Len(Prefilled) \in Nat
  BY PrefilledFacts
<1>1. /\ i - 1 \in 0..(j - 1) /\ j - 1 \in 0..Len(Prefilled)
      /\ i < j => i \in 0..(j - 1) /\ i \in 0..Len(Prefilled)
  BY <1>0
<1>2. Sizes(Chunks, j - 1)
  BY <1>1, ChunksFacts
<1>3. /\ FirstSum(Chunks, i - 1) \in Nat /\ FirstSum(Chunks, j - 1) \in Nat
      /\ FirstSum(Chunks, i - 1) <= FirstSum(Chunks, j - 1)
  BY <1>1, <1>2, FirstSumNat
<1>4. ASSUME i < j
      PROVE  FirstSum(Chunks, i - 1) + Chunks[i] <= FirstSum(Chunks, j - 1)
  <2>1. FirstSum(Chunks, i) <= FirstSum(Chunks, j - 1)
    BY <1>1, <1>2, <1>4, FirstSumNat
  <2>2. i \in 1..(j - 1)
    BY <1>0, <1>4
  <2>3. FirstSum(Chunks, i) = FirstSum(Chunks, i - 1) + Chunks[i]
    BY <1>2, <2>2, FirstSumStep
  <2> QED
    BY <2>1, <2>3
<1>5. Chunks[i] \in Nat
  BY ChunksFacts, Bounds
<1> QED
  BY <1>3, <1>4, <1>5, Bounds DEF Left

(* All of phase 1 is scheduled, and of phase 2 what finds budget left. *)
LEMMA LastFacts ==
    ASSUME IInv
    PROVE  /\ Last \in 0..Len(Prefilled) /\ Len(Promoted) \in 0..Last
           /\ \A i \in 1..Last : i > Len(Promoted) => Left(i) > 0
<1>0. /\ Len(Prefilled) \in Nat /\ DOMAIN Prefilled = 1..Len(Prefilled)
      /\ Len(Promoted) \in 0..Len(Prefilled)
  BY PrefilledFacts
<1> DEFINE C == {0} \cup Reached
<1>1. C \in SUBSET (0..Len(Prefilled)) /\ C # {}
  BY <1>0 DEF Reached
<1>2. Len(Promoted) \in C
  BY <1>0 DEF Reached
<1> HIDE DEF C
<1>3. Max(C) \in C /\ \A y \in C : Max(C) >= y
  BY <1>0, <1>1, MaxNat
<1>4. Last = Max(C)
  BY DEF Last, C
<1>5. Last \in 0..Len(Prefilled) /\ Last >= Len(Promoted)
  BY <1>1, <1>2, <1>3, <1>4
<1>6. ASSUME NEW i \in 1..Last, i > Len(Promoted) PROVE Left(i) > 0
  <2>1. Last # 0 /\ Last > Len(Promoted) /\ Last \in Reached
    BY <1>0, <1>3, <1>4, <1>5, <1>6 DEF C
  <2>2. Left(Last) > 0
    BY <1>0, <1>5, <2>1 DEF Reached
  <2>3. i \in 1..Len(Prefilled) /\ Last \in i..Len(Prefilled) /\ Last \in 1..Len(Prefilled)
    BY <1>0, <1>5
  <2>4. Left(Last) <= Left(i) /\ Left(i) \in Int /\ Left(Last) \in Int
    BY <2>3, LeftFalls, ChunksFacts
  <2> QED
    BY <2>2, <2>4
<1> QED
  BY <1>0, <1>5, <1>6

(* Only the last entry may get less than its chunk. *)
LEMMA ShareFacts ==
    ASSUME IInv, NEW i \in 1..Last
    PROVE  /\ i \in 1..Len(Prefilled) /\ Share(i) \in 0..Chunks[i]
           /\ Share(i) = 0 => Chunks[i] = 0
           /\ i < Last => Share(i) = Chunks[i]
           /\ i > Len(Promoted) => Share(i) <= Left(i)
<1>0. /\ Len(Prefilled) \in Nat /\ Last \in 0..Len(Prefilled) /\ Len(Promoted) \in Nat
      /\ i > Len(Promoted) => Left(i) > 0
  BY PrefilledFacts, LastFacts
<1>1. i \in 1..Len(Prefilled) /\ Last \in 1..Len(Prefilled)
  BY <1>0
<1>2. Chunks[i] \in Nat /\ Left(i) \in Int
  BY <1>1, ChunksFacts, Bounds
<1>3. CASE i <= Len(Promoted)
  BY <1>0, <1>1, <1>2, <1>3 DEF Share
<1>4. CASE ~(i <= Len(Promoted))
  <2>1. Share(i) = IF Chunks[i] <= Left(i) THEN Chunks[i] ELSE Left(i)
    BY <1>2, <1>4, MinTwo DEF Share
  <2>2. Left(i) > 0
    BY <1>0, <1>4
  <2>3. ASSUME i < Last PROVE Chunks[i] <= Left(i)
    <3>1. Last \in i..Len(Prefilled)
      BY <1>0, <2>3
    <3>2. Left(Last) <= Left(i) - Chunks[i]
      BY <1>1, <2>3, <3>1, LeftFalls
    <3>3. Last > Len(Promoted) /\ Last \in 1..Last
      BY <1>0, <1>1, <1>4, <2>3
    <3>4. Left(Last) > 0
      BY <3>3, LastFacts
    <3>5. Left(Last) \in Int
      BY <1>1, ChunksFacts
    <3> QED
      BY <1>2, <3>2, <3>4, <3>5
  <2> QED
    BY <1>1, <1>2, <2>1, <2>2, <2>3
<1> QED
  BY <1>3, <1>4

(* The tokens of each entry of a batch. *)
SizesOf(b) == [i \in DOMAIN b |-> b[i].to - b[i].from + 1]

(* total_tokens is their sum. *)
LEMMA TokensOf == \A b : BatchTokens(b) = FirstSum(SizesOf(b), Len(b))
BY DEF BatchTokens, SizesOf

(* An entry of phase 1 or 2: a first or a further chunk of a prompt. *)
PrefillEntry(e, first) ==
    LET s == sequences[e.id]
    IN  /\ e \in EntryType /\ Present(e.id) /\ e.prefill
        /\ e.from = s.pos + 1 /\ e.from <= e.to + 1 /\ e.to <= s.prompt
        /\ e.from <= e.to \/ s.prompt = 0
        /\ e.to - e.from < MaxPrefillTokens
        /\ IF first THEN e.id \in Ids(Promoted) /\ Queued(e.id)
           ELSE e.id \in Ids(active) /\ s.state = "prefilling"

(* Phases 1 and 2 schedule an entry for each, from its prompt position on. *)
LEMMA PrefillFacts ==
    ASSUME IInv
    PROVE  /\ PrefillEntries \in Seq(EntryType) /\ Len(PrefillEntries) = Last
           /\ \A i \in 1..Last :
                 /\ PrefillEntries[i].id = Prefilled[i]
                 /\ PrefillEntries[i].to - PrefillEntries[i].from + 1 = Share(i)
                 /\ PrefillEntry(PrefillEntries[i], i <= Len(Promoted))
                 /\ \A j \in 1..Last : PrefillEntries[i].id = PrefillEntries[j].id => i = j
<1>0. /\ Last \in Nat /\ Last <= Len(Prefilled) /\ Len(Prefilled) \in Nat
      /\ DOMAIN Prefilled = 1..Len(Prefilled) /\ NoDuplicates(Prefilled)
      /\ Len(Promoted) \in Nat
  BY PrefilledFacts, LastFacts
<1> DEFINE e(i) == Entry(Prefilled[i], PosOf(i) + 1, PosOf(i) + Share(i), TRUE)
<1>1. PrefillEntries = [i \in 1..Last |-> e(i)]
  BY PrefillParts
<1>2. ASSUME NEW i \in 1..Last
      PROVE  /\ e(i).id = Prefilled[i] /\ e(i).to - e(i).from + 1 = Share(i)
             /\ PrefillEntry(e(i), i <= Len(Promoted))
  <2>1. /\ i \in 1..Len(Prefilled) /\ Share(i) \in 0..Chunks[i]
        /\ Share(i) = 0 => Chunks[i] = 0
    BY ShareFacts
  <2>2. /\ PosOf(i) \in Nat /\ Chunks[i] \in 0..MaxPrefillTokens
        /\ PosOf(i) + Chunks[i] <= sequences[Prefilled[i]].prompt
        /\ Chunks[i] = 0 => sequences[Prefilled[i]].prompt = 0
        /\ sequences[Prefilled[i]].prompt \in Nat
    BY <2>1, ChunksFacts
  <2>3. /\ Share(i) \in Nat /\ Share(i) <= MaxPrefillTokens
        /\ Share(i) <= Chunks[i] /\ Chunks[i] \in Nat /\ MaxPrefillTokens \in Nat
    BY <2>1, <2>2, Bounds
  <2>4. Prefilled[i] \in Requests /\ Present(Prefilled[i])
    BY <2>1, PrefilledFacts
  <2>5. /\ e(i).id = Prefilled[i] /\ e(i).from = PosOf(i) + 1 /\ e(i).to = PosOf(i) + Share(i)
        /\ e(i).prefill = TRUE /\ e(i) \in EntryType
    BY <2>2, <2>3, <2>4 DEF Entry, EntryType
  <2> HIDE DEF e
  <2>6. /\ e(i).to - e(i).from + 1 = Share(i) /\ e(i).from <= e(i).to + 1
        /\ e(i).from <= e(i).to \/ sequences[Prefilled[i]].prompt = 0
        /\ e(i).to <= sequences[Prefilled[i]].prompt
        /\ e(i).to - e(i).from < MaxPrefillTokens
    BY <2>1, <2>2, <2>3, <2>5
  <2>7. IF i <= Len(Promoted)
        THEN Prefilled[i] \in Ids(Promoted) /\ Queued(Prefilled[i])
        ELSE Prefilled[i] \in Ids(active) /\ sequences[Prefilled[i]].state = "prefilling"
    <3>1. CASE i <= Len(Promoted)
      <4>1. i \in 1..Len(Promoted) /\ Prefilled[i] = Promoted[i] /\ Queued(Prefilled[i])
        BY <1>0, <2>1, <3>1, PrefilledFacts
      <4>2. Promoted[i] \in Ids(Promoted)
        BY <4>1, PromotedFacts, IdsIndexed
      <4> QED
        BY <3>1, <4>1, <4>2
    <3>2. CASE ~(i <= Len(Promoted))
      BY <1>0, <2>1, <3>2, PrefilledFacts
    <3> QED
      BY <3>1, <3>2
  <2> QED
    BY <2>4, <2>5, <2>6, <2>7 DEF PrefillEntry, PosOf
<1>3. ASSUME NEW i \in 1..Last PROVE e(i) \in EntryType
  BY <1>2 DEF PrefillEntry
<1>4. ASSUME NEW i \in 1..Last, NEW j \in 1..Last, e(i).id = e(j).id PROVE i = j
  <2>1. i \in 1..Len(Prefilled) /\ j \in 1..Len(Prefilled)
    BY <1>0
  <2>2. e(i).id = Prefilled[i] /\ e(j).id = Prefilled[j]
    BY <1>2
  <2> HIDE DEF e
  <2>3. Prefilled[i] = Prefilled[j]
    BY <1>4, <2>2
  <2> QED
    BY <1>0, <2>1, <2>3 DEF NoDuplicates
<1> HIDE DEF e
<1>5. PrefillEntries \in Seq(EntryType) /\ Len(PrefillEntries) = Last
  BY <1>0, <1>1, <1>3, IsASeq, LenProperties
<1> QED
  BY <1>1, <1>2, <1>4, <1>5

(* Unless all are first chunks, the budget is kept. *)
LEMMA PrefillTokens ==
    ASSUME IInv
    PROVE  /\ Sizes(SizesOf(PrefillEntries), Last) /\ BatchTokens(PrefillEntries) \in Nat
           /\ Last > Len(Promoted) => BatchTokens(PrefillEntries) <= MaxBatchTokens
<1>0. /\ Last \in Nat /\ Last <= Len(Prefilled) /\ Len(Prefilled) \in Nat /\ Len(Promoted) \in Nat
  BY PrefilledFacts, LastFacts
<1> DEFINE sizes == SizesOf(PrefillEntries)
<1>1. \A i \in 1..Last : sizes[i] = Share(i)
  <2>1. DOMAIN PrefillEntries = 1..Last
    BY PrefillFacts, LenProperties
  <2> QED
    BY <2>1, PrefillFacts DEF SizesOf
<1>2. BatchTokens(PrefillEntries) = FirstSum(sizes, Last)
  BY PrefillFacts, TokensOf
<1> HIDE DEF sizes
<1>3. ASSUME NEW i \in 1..Last
      PROVE  /\ Share(i) \in Nat /\ i \in 1..Len(Prefilled)
             /\ i < Last => Share(i) = Chunks[i]
  BY ShareFacts, ChunksFacts, Bounds
<1>4. Sizes(sizes, Last) /\ FirstSum(sizes, Last) \in Nat
  <2>1. Sizes(sizes, Last)
    BY <1>0, <1>1, <1>3 DEF Sizes
  <2>2. Last \in 0..Last
    BY <1>0
  <2> QED
    BY <2>1, <2>2, FirstSumNat
<1>5. ASSUME Last > Len(Promoted) PROVE FirstSum(sizes, Last) <= MaxBatchTokens
  <2>1. Last \in 1..Last /\ Last - 1 \in Nat /\ Last - 1 \in 0..Len(Prefilled)
    BY <1>0, <1>5
  <2>2. FirstSum(sizes, Last) = FirstSum(sizes, Last - 1) + Share(Last)
    BY <1>1, <1>4, <2>1, FirstSumStep
  <2>3. \A i \in 1..(Last - 1) : sizes[i] = Chunks[i]
    <3> SUFFICES ASSUME NEW i \in 1..(Last - 1) PROVE sizes[i] = Chunks[i]
      OBVIOUS
    <3>1. i \in 1..Last /\ i < Last
      BY <1>0
    <3> QED
      BY <1>1, <1>3, <3>1
  <2>4. FirstSum(sizes, Last - 1) = FirstSum(Chunks, Last - 1)
    BY <2>1, <2>3, FirstSumSame
  <2>5. FirstSum(Chunks, Last - 1) \in Nat
    BY <2>1, ChunksFacts
  <2>6. Share(Last) <= Left(Last) /\ Share(Last) \in Nat
    BY <1>3, <1>5, <2>1, ShareFacts
  <2> QED
    BY <2>2, <2>4, <2>5, <2>6, Bounds DEF Left
<1> QED
  BY <1>2, <1>4, <1>5 DEF sizes

(* An entry of phase 3: the last position of a sequence that decodes. *)
DecodeEntry(e) ==
    LET s == sequences[e.id]
    IN  /\ e \in EntryType /\ Present(e.id) /\ ~e.prefill
        /\ e.from = Total(s) /\ e.to = Total(s)
        /\ e.id \in Ids(active) /\ s.state = "decoding" /\ ~s.stopped

(* Phase 3 keeps both limits, if it schedules anything. *)
LEMMA DecodeFacts ==
    ASSUME IInv, NEW pre, Len(pre) \in Nat, BatchTokens(pre) \in Nat
    PROVE  LET dec == DecodeEntries(pre)
           IN  /\ dec \in Seq(EntryType) /\ Len(dec) \in Nat
               /\ \A i \in 1..Len(dec) :
                     /\ DecodeEntry(dec[i])
                     /\ \A j \in 1..Len(dec) : dec[i].id = dec[j].id => i = j
               /\ Len(dec) > 0 => /\ Len(pre) + Len(dec) <= MaxBatchSequences
                                  /\ BatchTokens(pre) + Len(dec) <= MaxBatchTokens
<1> DEFINE a == MaxBatchSequences - Len(pre)
           b == MaxBatchTokens - BatchTokens(pre)
           room == IF a <= b THEN a ELSE b
           all == Kept(active, Decoding)
           q == Take(room, all)
           e(i) == Entry(q[i], Total(sequences[q[i]]), Total(sequences[q[i]]), FALSE)
<1>1. a \in Int /\ b \in Int /\ room \in Int
  BY Bounds
<1>2. DecodeEntries(pre) = [i \in DOMAIN q |-> e(i)]
  <2>1. Min({a, b}) = room
    BY <1>1, MinTwo
  <2> QED
    BY <2>1 DEF DecodeEntries, LastTokens
<1>3. /\ all \in Seq(Requests) /\ NoDuplicates(all)
      /\ \A id \in Ids(all) : /\ id \in Ids(active)
                              /\ sequences[id].state = "decoding" /\ ~sequences[id].stopped
  <2>1. active \in Seq(Requests) /\ NoDuplicates(active)
    BY DEF IInv, ListInv
  <2>2. /\ all \in Seq(Requests) /\ NoDuplicates(all) /\ Ids(all) = Ids(active) \cap Decoding
    BY <2>1, KeptLemma
  <2> HIDE DEF all
  <2> QED
    BY <2>2 DEF Decoding
<1> HIDE DEF all
<1>4. /\ q \in Seq(Requests) /\ NoDuplicates(q) /\ Ids(q) \subseteq Ids(all)
      /\ Len(q) = IF room < 0 THEN 0 ELSE IF room <= Len(all) THEN room ELSE Len(all)
  <2> HIDE DEF room
  <2> QED
    BY <1>1, <1>3, TakeLemma
<1> HIDE DEF q
<1>5. /\ Len(q) \in Nat /\ DOMAIN q = 1..Len(q)
      /\ \A i \in 1..Len(q) : q[i] \in Ids(q) /\ q[i] \in Requests
  BY <1>4, IdsIndexed
<1>6. Len(q) > 0 => /\ Len(pre) + Len(q) <= MaxBatchSequences
                    /\ BatchTokens(pre) + Len(q) <= MaxBatchTokens
  <2> SUFFICES ASSUME Len(q) > 0
               PROVE  /\ Len(pre) + Len(q) <= MaxBatchSequences
                      /\ BatchTokens(pre) + Len(q) <= MaxBatchTokens
    OBVIOUS
  <2>1. Len(q) <= room
    <3> HIDE DEF room
    <3>1. Len(all) \in Nat
      BY <1>3, LenProperties
    <3> QED
      BY <3>1, <1>1, <1>4
  <2>2. room <= a /\ room <= b
    BY <1>1
  <2> HIDE DEF room
  <2>3. Len(q) <= a /\ Len(q) <= b
    <3> HIDE DEF a, b
    <3> QED
      BY <2>1, <2>2, <1>1, <1>5
  <2> QED
    BY <2>3, <1>5, Bounds
<1>7. ASSUME NEW i \in 1..Len(q) PROVE DecodeEntry(e(i)) /\ e(i).id = q[i]
  <2>1. /\ q[i] \in Requests /\ q[i] \in Ids(active) /\ sequences[q[i]].state = "decoding"
        /\ ~sequences[q[i]].stopped
    BY <1>3, <1>4, <1>5
  <2>2. Present(q[i]) /\ WellFormed(sequences[q[i]], kv[q[i]])
    BY <2>1 DEF IInv, ListInv, ListedRight, SeqInv
  <2>3. Total(sequences[q[i]]) \in Nat
    BY <2>2 DEF WellFormed, SequenceType, Total
  <2>4. e(i) \in EntryType
    BY <2>1, <2>3 DEF Entry, EntryType
  <2> QED
    BY <2>1, <2>2, <2>4 DEF DecodeEntry, Entry
<1>8. \A i \in 1..Len(q) : e(i) \in EntryType
  BY <1>7 DEF DecodeEntry
<1>9. \A i, j \in 1..Len(q) : e(i).id = e(j).id => i = j
  BY <1>4, <1>5, <1>7 DEF NoDuplicates
<1> DEFINE dec == DecodeEntries(pre)
<1>10. dec = [i \in 1..Len(q) |-> e(i)]
  BY <1>2, <1>5
<1> HIDE DEF e, dec, room, a, b
<1>11. dec \in Seq(EntryType) /\ Len(dec) = Len(q)
  BY <1>5, <1>8, <1>10, IsASeq, LenProperties
<1>12. \A i \in 1..Len(dec) : /\ DecodeEntry(dec[i])
                              /\ \A j \in 1..Len(dec) : dec[i].id = dec[j].id => i = j
  BY <1>7, <1>9, <1>10, <1>11
<1> QED
  BY <1>5, <1>6, <1>11, <1>12 DEF dec

(* The whole batch: its prefill entries, then its decode entries. *)
NewBatch == PrefillEntries \o DecodeEntries(PrefillEntries)

(* A sequence is in one state, so no two entries of the batch feed it. *)
LEMMA BatchFacts ==
    ASSUME IInv
    PROVE  LET n == Len(NewBatch)
           IN  /\ NewBatch \in Seq(EntryType) /\ n \in Nat /\ Last \in 0..n
               /\ DOMAIN NewBatch = 1..n
               /\ \A i \in 1..n :
                     /\ i <= Last => NewBatch[i] = PrefillEntries[i]
                     /\ i <= Last => PrefillEntry(NewBatch[i], i <= Len(Promoted))
                     /\ ~(i <= Last) => DecodeEntry(NewBatch[i])
                     /\ \A j \in 1..n : NewBatch[i].id = NewBatch[j].id => i = j
               /\ n > Last => /\ n <= MaxBatchSequences
                              /\ BatchTokens(NewBatch) <= MaxBatchTokens
               /\ BatchTokens(NewBatch) \in Nat
               /\ n = Last => BatchTokens(NewBatch) = BatchTokens(PrefillEntries)
<1> DEFINE pre == PrefillEntries
           dec == DecodeEntries(pre)
           n   == Len(NewBatch)
<1>1. /\ pre \in Seq(EntryType) /\ Len(pre) = Last /\ Last \in Nat
      /\ \A i \in 1..Last : /\ PrefillEntry(pre[i], i <= Len(Promoted))
                            /\ \A j \in 1..Last : pre[i].id = pre[j].id => i = j
  BY PrefillFacts, LastFacts, PrefilledFacts
<1>2. Sizes(SizesOf(pre), Last) /\ BatchTokens(pre) \in Nat
  BY PrefillTokens
<1>3. NewBatch = pre \o dec
  BY DEF NewBatch
<1> HIDE DEF pre
<1>4. /\ dec \in Seq(EntryType) /\ Len(dec) \in Nat
      /\ \A i \in 1..Len(dec) : /\ DecodeEntry(dec[i])
                                /\ \A j \in 1..Len(dec) : dec[i].id = dec[j].id => i = j
      /\ Len(dec) > 0 => /\ Len(pre) + Len(dec) <= MaxBatchSequences
                         /\ BatchTokens(pre) + Len(dec) <= MaxBatchTokens
  BY <1>1, <1>2, DecodeFacts
<1> HIDE DEF dec
<1>5. /\ NewBatch \in Seq(EntryType) /\ n = Last + Len(dec)
      /\ \A i \in 1..(Last + Len(dec)) : NewBatch[i] = IF i <= Last THEN pre[i] ELSE dec[i - Last]
  <2>1. /\ pre \o dec \in Seq(EntryType) /\ Len(pre \o dec) = Len(pre) + Len(dec)
        /\ \A i \in 1..(Len(pre) + Len(dec)) :
               (pre \o dec)[i] = IF i <= Len(pre) THEN pre[i] ELSE dec[i - Len(pre)]
    <3>1. pre \in Seq(EntryType) /\ dec \in Seq(EntryType)
      BY <1>1, <1>4
    <3> QED
      BY <3>1, ConcatProperties
  <2> QED
    BY <1>1, <1>3, <2>1
<1> HIDE DEF n
<1>6. /\ n \in Nat /\ Last \in 0..n
      /\ \A i \in 1..n : /\ i <= Last => NewBatch[i] = pre[i] /\ i \in 1..Last
                         /\ ~(i <= Last) => NewBatch[i] = dec[i - Last] /\ i - Last \in 1..Len(dec)
  BY <1>1, <1>4, <1>5
<1>7. ASSUME NEW i \in 1..n
      PROVE  /\ i <= Last => NewBatch[i] = pre[i]
             /\ i <= Last => PrefillEntry(NewBatch[i], i <= Len(Promoted))
             /\ ~(i <= Last) => DecodeEntry(NewBatch[i])
  BY <1>1, <1>4, <1>6
<1>8. ASSUME NEW i \in 1..n, NEW j \in 1..n, NewBatch[i].id = NewBatch[j].id PROVE i = j
  <2>1. CASE i <= Last /\ j <= Last
    BY <1>1, <1>6, <1>8, <2>1
  <2>2. CASE ~(i <= Last) /\ ~(j <= Last)
    <3>1. /\ i - Last \in 1..Len(dec) /\ j - Last \in 1..Len(dec)
          /\ NewBatch[i] = dec[i - Last] /\ NewBatch[j] = dec[j - Last]
      BY <1>6, <2>2
    <3>2. i - Last = j - Last
      BY <1>4, <1>8, <3>1
    <3> QED
      BY <1>1, <3>2
  <2>3. CASE (i <= Last) # (j <= Last)
    <3>1. \A k \in 1..n :
             /\ k <= Last => sequences[NewBatch[k].id].state # "decoding"
             /\ ~(k <= Last) => sequences[NewBatch[k].id].state = "decoding"
      BY <1>7 DEF PrefillEntry, DecodeEntry, Queued
    <3> QED
      BY <1>8, <2>3, <3>1
  <2> QED
    BY <2>1, <2>2, <2>3
<1>9. DOMAIN NewBatch = 1..n
  BY <1>5, LenProperties DEF n
<1>10. /\ n > Last => n <= MaxBatchSequences /\ BatchTokens(NewBatch) <= MaxBatchTokens
       /\ n = Last => BatchTokens(NewBatch) = BatchTokens(pre)
       /\ BatchTokens(NewBatch) \in Nat
  <2> DEFINE v == SizesOf(NewBatch)
             w == SizesOf(pre)
  <2>1. BatchTokens(NewBatch) = FirstSum(v, n) /\ BatchTokens(pre) = FirstSum(w, Last)
    BY <1>1, TokensOf DEF n
  <2>2. \A i \in 1..Last : v[i] = w[i]
    <3>1. DOMAIN pre = 1..Last
      BY <1>1, LenProperties
    <3>2. \A i \in 1..Last : i \in 1..n /\ i <= Last
      BY <1>1, <1>6
    <3> QED
      BY <3>1, <3>2, <1>6, <1>9 DEF SizesOf
  <2>3. \A i \in (Last + 1)..n : v[i] = 1
    <3> SUFFICES ASSUME NEW i \in (Last + 1)..n PROVE v[i] = 1
      OBVIOUS
    <3>1. i \in 1..n /\ ~(i <= Last)
      BY <1>1, <1>6
    <3>2. /\ NewBatch[i].from = Total(sequences[NewBatch[i].id])
          /\ NewBatch[i].to = Total(sequences[NewBatch[i].id]) /\ NewBatch[i] \in EntryType
      BY <1>7, <3>1 DEF DecodeEntry
    <3>3. NewBatch[i].to - NewBatch[i].from + 1 = 1
      BY <3>2 DEF EntryType
    <3> QED
      BY <1>9, <3>1, <3>3 DEF SizesOf
  <2> HIDE DEF v, w
  <2>4. FirstSum(v, Last) = FirstSum(w, Last)
    BY <1>1, <2>2, FirstSumSame
  <2>5. Sizes(v, n)
    <3> SUFFICES ASSUME NEW i \in 1..n PROVE v[i] \in Nat
      BY <1>6 DEF Sizes
    <3>1. CASE i <= Last
      BY <1>2, <1>6, <2>2, <3>1 DEF Sizes, w
    <3>2. CASE ~(i <= Last)
      <4>1. i \in (Last + 1)..n
        BY <1>1, <3>2
      <4> QED
        BY <2>3, <4>1
    <3> QED
      BY <3>1, <3>2
  <2>6. FirstSum(v, n) = FirstSum(v, Last) + (n - Last)
    BY <1>6, <2>3, <2>5, FirstSumOnes
  <2> QED
    BY <1>1, <1>2, <1>4, <1>5, <1>6, <2>1, <2>4, <2>6 DEF n
<1> QED
  BY <1>5, <1>6, <1>7, <1>8, <1>9, <1>10 DEF n, pre

(* The limits of the new batch. *)
LEMMA NewBatchLimits ==
    ASSUME IInv
    PROVE  LimitsHold(NewBatch)
<1> DEFINE n == Len(NewBatch)
           p == Len(Promoted)
           Fresh == {i \in DOMAIN NewBatch : NewBatch[i].prefill /\ NewBatch[i].from = 1}
           Decodes == {i \in DOMAIN NewBatch : ~NewBatch[i].prefill}
<1>1. /\ n \in Nat /\ Last \in Nat /\ Last <= n /\ p \in Nat /\ p <= Last
      /\ p <= MaxBatchSequences /\ DOMAIN NewBatch = 1..n
  BY BatchFacts, LastFacts, PrefilledFacts, PromotedFacts
<1>2. ASSUME NEW i \in 1..n
      PROVE  /\ NewBatch[i].prefill <=> i <= Last
             /\ i <= p => NewBatch[i].from = 1
             /\ i <= Last /\ i > p => NewBatch[i].from # 1
             /\ NewBatch[i].to - NewBatch[i].from < MaxPrefillTokens
  <2>1. CASE i <= Last
    <3>1. PrefillEntry(NewBatch[i], i <= p)
      BY <2>1, BatchFacts
    <3> DEFINE s == sequences[NewBatch[i].id]
    <3>2. /\ NewBatch[i].prefill /\ NewBatch[i].to - NewBatch[i].from < MaxPrefillTokens
          /\ NewBatch[i].from = s.pos + 1 /\ NewBatch[i].id \in Requests
          /\ Present(NewBatch[i].id)
          /\ i <= p => s.pos = 0
          /\ ~(i <= p) => s.state = "prefilling"
      BY <3>1 DEF PrefillEntry, EntryType, Queued
    <3>3. WellFormed(s, kv[NewBatch[i].id])
      BY <3>2 DEF IInv, SeqInv
    <3>4. /\ i <= p => s.pos = 0
          /\ ~(i <= p) => s.pos >= 1
          /\ s.pos \in Nat
      BY <3>2, <3>3 DEF WellFormed, SequenceType
    <3> HIDE DEF s, p
    <3> QED
      BY <1>1, <2>1, <3>2, <3>4
  <2>2. CASE ~(i <= Last)
    <3>1. /\ ~NewBatch[i].prefill /\ NewBatch[i].from = NewBatch[i].to
          /\ NewBatch[i] \in EntryType
      BY <2>2, BatchFacts DEF DecodeEntry
    <3>2. NewBatch[i].to - NewBatch[i].from = 0
      BY <3>1 DEF EntryType
    <3> QED
      BY <1>1, <2>2, <3>1, <3>2, Bounds
  <2> QED
    BY <2>1, <2>2
<1>3. Fresh = 1..p
  <2>1. \A i \in 1..n : (NewBatch[i].prefill /\ NewBatch[i].from = 1) <=> i \in 1..p
    BY <1>1, <1>2
  <2>2. \A i \in 1..p : i \in 1..n
    BY <1>1
  <2> HIDE DEF n, p
  <2> QED
    BY <1>1, <2>1, <2>2
<1>4. Decodes = (Last + 1)..n
  <2>1. \A i \in 1..n : ~NewBatch[i].prefill <=> i \in (Last + 1)..n
    BY <1>1, <1>2
  <2>2. \A i \in (Last + 1)..n : i \in 1..n
    BY <1>1
  <2> HIDE DEF n, p
  <2> QED
    BY <1>1, <2>1, <2>2
<1>5. Cardinality(Fresh \cup Decodes) <= MaxBatchSequences
  <2>1. CASE n = Last
    <3>1. Decodes = {}
      BY <1>1, <1>4, <2>1
    <3>2. Fresh \cup Decodes = 1..p
      BY <1>3, <3>1
    <3>3. Cardinality(1..p) = p
      <4>1. p \in Int /\ 1 \in Int
        BY <1>1
      <4>2. Cardinality(1..p) = IF 1 > p THEN 0 ELSE p - 1 + 1
        BY <4>1, FS_Interval
      <4> QED
        BY <1>1, <4>2
    <3> QED
      BY <1>1, <3>2, <3>3
  <2>2. CASE n # Last
    <3>0. n > Last
      <4> HIDE DEF n, p, Fresh, Decodes
      <4> QED
        BY <1>1, <2>2
    <3>1. n <= MaxBatchSequences
      BY <3>0, BatchFacts
    <3>2. Fresh \cup Decodes \subseteq 1..n
      BY <1>1
    <3>3. IsFiniteSet(1..n) /\ Cardinality(1..n) = n
      <4>1. n \in Int /\ 1 \in Int
        BY <1>1
      <4>2. IsFiniteSet(1..n) /\ Cardinality(1..n) = IF 1 > n THEN 0 ELSE n - 1 + 1
        BY <4>1, FS_Interval
      <4> QED
        BY <1>1, <4>2
    <3> HIDE DEF Fresh, Decodes
    <3>4. /\ Cardinality(Fresh \cup Decodes) <= Cardinality(1..n)
          /\ Cardinality(Fresh \cup Decodes) \in Nat
      BY <3>2, <3>3, FS_Subset, FS_CardinalityType
    <3> QED
      BY <1>1, <3>1, <3>3, <3>4, Bounds
  <2> QED
    BY <2>1, <2>2
<1>6. ASSUME BatchTokens(NewBatch) > MaxBatchTokens
      PROVE  Fresh = DOMAIN NewBatch
  <2>0. BatchTokens(NewBatch) \in Int /\ MaxBatchTokens \in Nat =>
            ~(BatchTokens(NewBatch) <= MaxBatchTokens)
    BY <1>6
  <2>1. BatchTokens(PrefillEntries) \in Nat /\ MaxBatchTokens \in Nat
    BY PrefillTokens, Bounds
  <2>2. n = Last
    <3> SUFFICES ASSUME n # Last PROVE FALSE
      OBVIOUS
    <3>1. n > Last
      <4> HIDE DEF n, p, Fresh, Decodes
      <4> QED
        BY <1>1
    <3>2. BatchTokens(NewBatch) <= MaxBatchTokens
      BY <3>1, BatchFacts
    <3>3. BatchTokens(NewBatch) \in Int
      BY BatchFacts
    <3> QED
      BY <2>0, <2>1, <3>2, <3>3
  <2>3. BatchTokens(NewBatch) = BatchTokens(PrefillEntries)
    BY <2>2, BatchFacts
  <2>4. p = Last
    BY <1>1, <2>0, <2>1, <2>3, PrefillTokens
  <2> QED
    BY <1>1, <1>3, <2>2, <2>4
<1> HIDE DEF Fresh, Decodes
<1>7. \A i \in DOMAIN NewBatch : NewBatch[i].to - NewBatch[i].from < MaxPrefillTokens
  BY <1>1, <1>2
<1> QED
  BY <1>5, <1>6, <1>7 DEF LimitsHold, Fresh, Decodes

(* What scheduling a chunk makes of a sequence. *)
LEMMA AdvanceLemma ==
    ASSUME NEW s, NEW n \in Nat, NEW e, WellFormed(s, n), n = s.pos, s.out = 0,
           e.prefill, e.from = s.pos + 1, e.to \in Nat, e.to <= s.prompt,
           e.from <= e.to \/ s.prompt = 0
    PROVE  LET t == Advance(s, e.to)
           IN  /\ WellFormed(t, n) /\ Feeds(e, t, n)
               /\ t.state \in UnderWay /\ t.stopped = s.stopped
               /\ AtLimit(t) <=> AtLimit(s)
<1> DEFINE t == Advance(s, e.to)
<1>1. s \in SequenceType
  BY DEF WellFormed
<1>2. /\ s.prompt \in Nat /\ s.max \in Nat /\ s.pos \in Nat /\ s.out \in Nat
      /\ s.state \in States /\ s.stopped \in BOOLEAN
  BY <1>1 DEF SequenceType
<1>3. /\ t \in SequenceType /\ t.prompt = s.prompt /\ t.max = s.max /\ t.out = s.out
      /\ t.stopped = s.stopped /\ t.pos = e.to
      /\ t.state = IF e.to >= s.prompt THEN "decoding" ELSE "prefilling"
  BY <1>1 DEF Advance, SequenceType, States
<1> HIDE DEF t
<1>4. WellFormed(t, n)
  BY <1>2, <1>3 DEF WellFormed
<1>5. Feeds(e, t, n)
  BY <1>2, <1>3 DEF Feeds
<1>6. AtLimit(t) <=> AtLimit(s)
  BY <1>3 DEF AtLimit, Total
<1> QED
  BY <1>2, <1>3, <1>4, <1>5, <1>6 DEF t, UnderWay

(* What Schedule does to one sequence. *)
LEMMA ScheduleOne ==
    ASSUME IInv, Schedule, NEW id \in Requests
    PROVE  \/ /\ \E i \in 1..Last : /\ NewBatch[i].id = id /\ i \in 1..Len(NewBatch)
                                    /\ sequences'[id] = Advance(sequences[id], NewBatch[i].to)
           \/ /\ sequences'[id] = sequences[id]
              /\ \A i \in 1..Len(NewBatch) : i <= Last => NewBatch[i].id # id
<1> DEFINE pre == PrefillEntries
<1>1. sequences'[id] = IF Scheduled(pre, id)
                       THEN Advance(sequences[id], pre[CHOOSE i \in DOMAIN pre : pre[i].id = id].to)
                       ELSE sequences[id]
  BY DEF Schedule
<1>2. DOMAIN pre = 1..Last
  BY PrefillFacts, LenProperties
<1>3. /\ \A i \in 1..Last : i \in 1..Len(NewBatch) /\ i <= Last /\ NewBatch[i] = pre[i]
      /\ \A i \in 1..Len(NewBatch) : i <= Last => i \in 1..Last
  <2>1. Last \in 0..Len(NewBatch) /\ Len(NewBatch) \in Nat
    BY BatchFacts
  <2>2. \A i \in 1..Last : i \in 1..Len(NewBatch) /\ i <= Last
    BY <2>1
  <2>3. \A i \in 1..Len(NewBatch) : i <= Last => NewBatch[i] = pre[i]
    BY BatchFacts
  <2> HIDE DEF pre
  <2> QED
    BY <2>1, <2>2, <2>3
<1> HIDE DEF pre
<1>4. CASE Scheduled(pre, id)
  <2> DEFINE i == CHOOSE i \in DOMAIN pre : pre[i].id = id
  <2>1. i \in 1..Last /\ pre[i].id = id
    BY <1>2, <1>4 DEF Scheduled
  <2> HIDE DEF i
  <2>2. sequences'[id] = Advance(sequences[id], pre[i].to)
    BY <1>1, <1>4 DEF i
  <2> QED
    BY <1>3, <2>1, <2>2
<1>5. CASE ~Scheduled(pre, id)
  <2>1. \A i \in 1..Last : pre[i].id # id
    BY <1>2, <1>5 DEF Scheduled
  <2> QED
    BY <1>1, <1>3, <1>5, <2>1
<1> QED
  BY <1>4, <1>5

(* One sequence after schedule(): what feeds it, and where it is listed. *)
LEMMA ScheduleSequence ==
    ASSUME IInv, Schedule, NEW id \in Requests
    PROVE  LET s == sequences[id]
               t == sequences'[id]
           IN  /\ t # None <=> s # None
               /\ s # None =>
                     /\ WellFormed(t, kv[id])
                     /\ AtLimit(t) <=> AtLimit(s)
                     /\ t.stopped = s.stopped
                     /\ IF id \in Ids(Promoted) \/ s.state = "prefilling"
                        THEN t = s \/ t.state \in UnderWay
                        ELSE t = s
                     /\ id \in Ids(Promoted) => t.state \in UnderWay
                     /\ \A i \in 1..Len(NewBatch) : NewBatch[i].id = id =>
                            /\ Feeds(NewBatch[i], t, kv[id])
                            /\ id \in Ids(Promoted) \/ id \in Ids(active)
                     /\ (\A i \in 1..Len(NewBatch) : NewBatch[i].id # id) => Rests(t, kv[id])
<1> DEFINE s == sequences[id]
           t == sequences'[id]
<1>0. batch = <<>>
  BY DEF Schedule
<1>1. ~Scheduled(batch, id)
  BY <1>0 DEF Scheduled
<1>2. s # None => WellFormed(s, kv[id]) /\ Rests(s, kv[id]) /\ kv[id] \in Nat
  BY <1>1 DEF IInv, SeqInv, BatchInv, Present
<1>3. CASE \E i \in 1..Last : /\ NewBatch[i].id = id /\ i \in 1..Len(NewBatch)
                              /\ sequences'[id] = Advance(sequences[id], NewBatch[i].to)
  <2>1. PICK i \in 1..Last : /\ NewBatch[i].id = id /\ i \in 1..Len(NewBatch)
                             /\ sequences'[id] = Advance(sequences[id], NewBatch[i].to)
    BY <1>3
  <2>2. PrefillEntry(NewBatch[i], i <= Len(Promoted))
    <3>1. i <= Last
      BY LastFacts, PrefilledFacts
    <3> QED
      BY <2>1, <3>1, BatchFacts
  <2> DEFINE e == NewBatch[i]
             n == kv[id]
  <2>3. /\ e \in EntryType /\ s # None /\ e.prefill /\ e.from = s.pos + 1
        /\ e.from <= e.to \/ s.prompt = 0
        /\ e.to <= s.prompt
        /\ IF i <= Len(Promoted) THEN id \in Ids(Promoted) /\ Queued(id)
           ELSE id \in Ids(active) /\ s.state = "prefilling"
    BY <2>1, <2>2 DEF PrefillEntry, Present
  <2>4. e.to \in Nat /\ WellFormed(s, n) /\ Rests(s, n) /\ n \in Nat
    BY <1>2, <2>3 DEF EntryType
  <2>5. n = s.pos /\ s.out = 0 /\ (id \in Ids(Promoted) \/ s.state = "prefilling")
        /\ (id \in Ids(Promoted) \/ id \in Ids(active))
    <3>1. CASE i <= Len(Promoted)
      BY <2>3, <3>1 DEF Queued
    <3>2. CASE ~(i <= Len(Promoted))
      <4>1. ~s.stopped
        BY <2>3, <3>2 DEF IInv, ListInv, ListedRight
      <4> HIDE DEF s, n
      <4> QED
        BY <2>3, <2>4, <3>2, <4>1 DEF WellFormed, Rests
    <3> QED
      BY <3>1, <3>2
  <2>6. t = Advance(s, e.to)
    BY <2>1
  <2>7. \A j \in 1..Len(NewBatch) : NewBatch[j].id = id => j = i
    BY <2>1, BatchFacts
  <2> HIDE DEF s, t, e, n
  <2>8. /\ WellFormed(t, n) /\ Feeds(e, t, n)
        /\ t.state \in UnderWay /\ t.stopped = s.stopped
        /\ AtLimit(t) <=> AtLimit(s)
    BY <2>3, <2>4, <2>5, <2>6, AdvanceLemma
  <2>9. t # None
    BY <2>8, SchedulerAssumption DEF WellFormed
  <2>10. \A j \in 1..Len(NewBatch) : NewBatch[j].id = id => Feeds(NewBatch[j], t, n)
    BY <2>7, <2>8 DEF e
  <2>11. ~(\A j \in 1..Len(NewBatch) : NewBatch[j].id # id)
    BY <2>1
  <2> QED
    BY <2>3, <2>5, <2>8, <2>9, <2>10, <2>11 DEF s, t, n
<1>4. CASE /\ sequences'[id] = sequences[id]
           /\ \A i \in 1..Len(NewBatch) : i <= Last => NewBatch[i].id # id
  <2>1. t = s
    BY <1>4
  <2>2. id \notin Ids(Promoted)
    <3> SUFFICES ASSUME id \in Ids(Promoted) PROVE FALSE
      OBVIOUS
    <3>1. PICK k \in 1..Len(Promoted) : Promoted[k] = id
      BY PromotedFacts, IdsIndexed
    <3>2. /\ k \in 1..Last /\ k <= Last /\ k \in 1..Len(NewBatch)
          /\ k <= Len(Promoted) /\ k \in 1..Len(Prefilled)
      <4>1. /\ Last \in Nat /\ Len(Promoted) \in Nat /\ Len(Promoted) <= Last
            /\ Last <= Len(Prefilled) /\ Len(Prefilled) \in Nat
        BY LastFacts, PrefilledFacts
      <4>2. Last \in 0..Len(NewBatch) /\ Len(NewBatch) \in Nat
        BY BatchFacts
      <4>3. Last <= Len(NewBatch)
        BY <4>2
      <4> QED
        BY <4>1, <4>2, <4>3
    <3>3. NewBatch[k].id = Prefilled[k]
      BY <3>2, BatchFacts, PrefillFacts
    <3>4. Prefilled[k] = Promoted[k]
      BY <3>2, PrefilledFacts
    <3> QED
      BY <1>4, <3>1, <3>2, <3>3, <3>4
  <2>3. ASSUME s # None, NEW i \in 1..Len(NewBatch), NewBatch[i].id = id
        PROVE  Feeds(NewBatch[i], t, kv[id]) /\ id \in Ids(active)
    <3>1. ~(i <= Last)
      BY <1>4, <2>3
    <3>2. DecodeEntry(NewBatch[i])
      BY <3>1, BatchFacts
    <3>3. /\ ~NewBatch[i].prefill /\ NewBatch[i].from = Total(s) /\ NewBatch[i].to = Total(s)
          /\ s.state = "decoding" /\ ~s.stopped /\ id \in Ids(active)
      BY <2>3, <3>2 DEF DecodeEntry
    <3>4. /\ WellFormed(s, kv[id]) /\ Rests(s, kv[id]) /\ kv[id] \in Nat
      BY <1>2, <2>3
    <3> HIDE DEF s, t
    <3>5. /\ s.out \in Nat /\ s.prompt \in Nat /\ s.pos = s.prompt
          /\ s.out >= 1 \/ s.prompt = 0
      BY <3>3, <3>4 DEF WellFormed, Rests, SequenceType
    <3>6. Total(s) = First(s) + kv[id]
      BY <3>3, <3>4, <3>5 DEF Rests, Total, First
    <3> QED
      BY <2>1, <3>3, <3>6 DEF Feeds
  <2> HIDE DEF s, t
  <2> QED
    BY <1>2, <2>1, <2>2, <2>3 DEF s, t
<1> QED
  BY <1>3, <1>4, ScheduleOne

(* schedule() *)
LEMMA ScheduleStep ==
    ASSUME IInv, Schedule
    PROVE  IInv'
<1> DEFINE rest == SubSeq(waiting, Len(Promoted) + 1, Len(waiting))
           running == active \o Promoted
           K == {id \in Ids(running) : Continues(sequences'[id])}
<1>1. /\ batch = <<>> /\ batch' = NewBatch /\ waiting' = rest /\ active' = Kept(running, K)
      /\ kv' = kv
      /\ sequences' = [id \in Requests |-> sequences'[id]]
  BY DEF Schedule, NewBatch
<1>2. /\ Promoted \in Seq(Requests) /\ rest \in Seq(Requests)
      /\ NoDuplicates(Promoted) /\ NoDuplicates(rest)
      /\ Ids(waiting) = Ids(Promoted) \cup Ids(rest)
      /\ Ids(Promoted) \cap Ids(rest) = {}
      /\ Len(Promoted) \in Nat
      /\ Len(active) + Len(Promoted) <= MaxSequences
  BY PromotedFacts
<1> HIDE DEF rest
<1>3. /\ active \in Seq(Requests) /\ NoDuplicates(active) /\ Len(active) \in Nat
      /\ Ids(active) \subseteq Requests /\ Ids(Promoted) \subseteq Requests
      /\ \A id \in Requests : ListedRight(id)
      /\ Ids(active) \cap Ids(waiting) = {}
  <2>1. active \in Seq(Requests) /\ NoDuplicates(active) /\ \A id \in Requests : ListedRight(id)
    BY DEF IInv, ListInv
  <2>2. /\ Len(active) \in Nat /\ Ids(active) \subseteq Requests
        /\ Ids(Promoted) \subseteq Requests
    BY <1>2, <2>1, IdsIndexed
  <2>3. Ids(active) \cap Ids(waiting) = {}
    BY <2>1, <2>2 DEF ListedRight, Queued, UnderWay
  <2> QED
    BY <2>1, <2>2, <2>3
<1>4. /\ running \in Seq(Requests) /\ NoDuplicates(running)
      /\ Ids(running) = Ids(active) \cup Ids(Promoted)
      /\ Len(running) = Len(active) + Len(Promoted)
  <2>1. Ids(active) \cap Ids(Promoted) = {}
    BY <1>2, <1>3
  <2> QED
    BY <1>2, <1>3, <2>1, ConcatLemma
<1> HIDE DEF running
<1>5. /\ active' \in Seq(Requests) /\ NoDuplicates(active')
      /\ Ids(active') = {id \in Ids(active) \cup Ids(Promoted) : Continues(sequences'[id])}
      /\ Len(active') <= MaxSequences
  <2>1. /\ Kept(running, K) \in Seq(Requests) /\ NoDuplicates(Kept(running, K))
        /\ Ids(Kept(running, K)) = Ids(running) \cap K
        /\ Len(Kept(running, K)) \in 0..Len(running)
    <3> HIDE DEF K
    <3> QED
      BY <1>4, KeptLemma
  <2>2. Ids(running) \cap K = {id \in Ids(active) \cup Ids(Promoted) : Continues(sequences'[id])}
    BY <1>4
  <2>3. Len(Kept(running, K)) <= MaxSequences
    <3> HIDE DEF K
    <3> QED
      BY <1>2, <1>3, <1>4, <2>1, Bounds
  <2> HIDE DEF K
  <2> QED
    BY <1>1, <2>1, <2>2, <2>3
<1> HIDE DEF K
<1>6. ASSUME NEW id \in Requests
      PROVE  /\ sequences'[id] # None <=> sequences[id] # None
             /\ sequences[id] # None =>
                   /\ WellFormed(sequences'[id], kv[id])
                   /\ AtLimit(sequences'[id]) <=> AtLimit(sequences[id])
                   /\ sequences'[id].stopped = sequences[id].stopped
                   /\ IF id \in Ids(Promoted) \/ sequences[id].state = "prefilling"
                      THEN \/ sequences'[id] = sequences[id]
                           \/ sequences'[id].state \in UnderWay
                      ELSE sequences'[id] = sequences[id]
                   /\ id \in Ids(Promoted) => sequences'[id].state \in UnderWay
  BY ScheduleSequence
<1>7. SeqInv'
  <2>1. /\ kv \in [Requests -> Nat]
        /\ \A id \in Requests : sequences[id] = None => kv[id] = 0
    BY DEF IInv, SeqInv, Present
  <2>2. \A id \in Requests :
            IF sequences'[id] # None THEN WellFormed(sequences'[id], kv[id]) ELSE kv[id] = 0
    BY <1>6, <2>1
  <2> QED
    BY <1>1, <2>1, <2>2 DEF SeqInv, Present
<1>8. ListInv'
  <2>1. ASSUME NEW id \in Requests PROVE ListedRight(id)'
    <3> DEFINE s == sequences[id]
               t == sequences'[id]
    <3>1. id \in Ids(waiting') <=> id \in Ids(waiting) /\ id \notin Ids(Promoted)
      BY <1>1, <1>2
    <3>2. id \in Ids(active') <=> (id \in Ids(active) \/ id \in Ids(Promoted)) /\ Continues(t)
      BY <1>5
    <3>3. /\ id \in Ids(waiting) => Queued(id)
          /\ s # None /\ s.state = "waiting" => id \in Ids(waiting)
          /\ id \in Ids(active) => s # None /\ s.state \in UnderWay /\ ~s.stopped
          /\ s # None /\ s.state \in UnderWay /\ ~s.stopped /\ ~AtLimit(s) => id \in Ids(active)
      BY <1>3 DEF ListedRight, Present
    <3>4. id \in Ids(Promoted) => s # None
      BY <1>2, <3>3 DEF Queued, Present
    <3>5. "waiting" \notin UnderWay /\ "finished" \notin UnderWay /\ "prefilling" \in UnderWay
      BY DEF UnderWay
    <3>6. /\ t # None <=> s # None
          /\ s # None =>
                /\ AtLimit(t) <=> AtLimit(s)
                /\ t.stopped = s.stopped
                /\ IF id \in Ids(Promoted) \/ s.state = "prefilling"
                   THEN t = s \/ t.state \in UnderWay
                   ELSE t = s
                /\ id \in Ids(Promoted) => t.state \in UnderWay
      BY <1>6
    <3>7. id \in Ids(waiting') => Queued(id)'
      <4> SUFFICES ASSUME id \in Ids(waiting), id \notin Ids(Promoted) PROVE Queued(id)'
        BY <3>1
      <4>1. Queued(id) /\ t = s /\ id \notin Ids(active)
        BY <1>3, <3>3, <3>6 DEF Queued, Present
      <4>2. ~Scheduled(NewBatch, id)
        <5>1. DOMAIN NewBatch = 1..Len(NewBatch)
          BY BatchFacts
        <5>2. \A i \in 1..Len(NewBatch) : NewBatch[i].id # id
          BY <4>1, ScheduleSequence DEF Queued, Present
        <5> QED
          BY <5>1, <5>2 DEF Scheduled
      <4> QED
        BY <1>1, <4>1, <4>2 DEF Queued, Present
    <3> HIDE DEF s, t
    <3>8. t # None /\ t.state = "waiting" => id \in Ids(waiting')
      BY <3>1, <3>3, <3>5, <3>6
    <3>9. id \in Ids(active') => t # None /\ t.state \in UnderWay /\ ~t.stopped
      BY <3>2, <3>3, <3>4, <3>5, <3>6 DEF Continues
    <3>10. /\ t # None /\ t.state \in UnderWay /\ ~t.stopped
                /\ ~AtLimit(t) => id \in Ids(active')
      BY <3>2, <3>3, <3>5, <3>6 DEF Continues
    <3> QED
      BY <3>7, <3>8, <3>9, <3>10 DEF t, ListedRight, Present, AtLimit, Total
  <2>2. waiting' \in Seq(Requests) /\ NoDuplicates(waiting')
    BY <1>1, <1>2
  <2> QED
    BY <1>5, <2>1, <2>2 DEF ListInv
<1>9. BatchInv'
  <2> DEFINE n == Len(NewBatch)
  <2>1. NewBatch \in Seq(EntryType) /\ DOMAIN NewBatch = 1..n
    BY BatchFacts
  <2>2. ASSUME NEW i \in 1..n
        PROVE  /\ NewBatch[i].from <= NewBatch[i].to + 1
               /\ \A j \in 1..n : NewBatch[i].id = NewBatch[j].id => i = j
               /\ sequences'[NewBatch[i].id] # None =>
                     Feeds(NewBatch[i], sequences'[NewBatch[i].id], kv[NewBatch[i].id])
    <3>1. /\ NewBatch[i] \in EntryType /\ Present(NewBatch[i].id)
          /\ NewBatch[i].from <= NewBatch[i].to + 1
      <4>1. CASE i <= Last
        BY <4>1, BatchFacts DEF PrefillEntry
      <4>2. CASE ~(i <= Last)
        <5>1. DecodeEntry(NewBatch[i])
          BY <4>2, BatchFacts
        <5>2. /\ NewBatch[i] \in EntryType /\ Present(NewBatch[i].id)
              /\ NewBatch[i].from = NewBatch[i].to
          BY <5>1 DEF DecodeEntry
        <5>3. NewBatch[i].from <= NewBatch[i].to + 1
          BY <5>2 DEF EntryType
        <5> QED
          BY <5>2, <5>3
      <4> QED
        BY <4>1, <4>2
    <3>2. NewBatch[i].id \in Requests
      BY <3>1 DEF EntryType
    <3>3. \A j \in 1..n : NewBatch[i].id = NewBatch[j].id => i = j
      BY BatchFacts
    <3>4. Feeds(NewBatch[i], sequences'[NewBatch[i].id], kv[NewBatch[i].id])
      BY <3>1, <3>2, ScheduleSequence DEF Present
    <3> QED
      BY <3>1, <3>3, <3>4
  <2>3. ASSUME NEW id \in Requests, sequences'[id] # None, ~Scheduled(NewBatch, id)
        PROVE  Rests(sequences'[id], kv[id])
    <3>1. \A i \in 1..n : NewBatch[i].id # id
      BY <2>1, <2>3 DEF Scheduled
    <3>2. sequences[id] # None
      BY <1>6, <2>3
    <3> QED
      BY <3>1, <3>2, ScheduleSequence
  <2> QED
    BY <1>1, <2>1, <2>2, <2>3 DEF BatchInv, Present, Scheduled
<1>10. BatchWithinLimits'
  <2>1. BatchWithinLimits' <=> LimitsHold(batch')
    BY DEF BatchWithinLimits, LimitsHold
  <2> QED
    BY <1>1, <2>1, NewBatchLimits
<1> QED
  BY <1>7, <1>8, <1>9, <1>10 DEF IInv

(* Every step keeps the invariant. *)
LEMMA StepIInv == IInv /\ [Next]_vars => IInv'
<1> SUFFICES ASSUME IInv, [Next]_vars PROVE IInv'
  OBVIOUS
<1>1. ASSUME NEW id \in Requests, NEW shape \in Shapes, AddRequest(id, shape) PROVE IInv'
  BY <1>1, AddStep
<1>2. ASSUME NEW id \in Requests, RemoveSequence(id) PROVE IInv'
  BY <1>2, RemoveStep
<1>3. ASSUME NEW id \in Requests, FinishSequence(id) PROVE IInv'
  BY <1>3, FinishStep
<1>4. CASE Schedule
  BY <1>4, ScheduleStep
<1>5. ASSUME NEW ends \in SUBSET Requests, RunBatch(ends) PROVE IInv'
  BY <1>5, RunStep
<1>6. CASE DrainFinished
  BY <1>6, DrainStep
<1>7. CASE UNCHANGED vars
  <2>1. SeqInv'
    BY <1>7 DEF IInv, SeqInv, Present, vars
  <2>2. ListInv'
    BY <1>7 DEF IInv, ListInv, ListedRight, Queued, Present, Scheduled, AtLimit, Total, vars
  <2>3. BatchInv'
    BY <1>7 DEF IInv, BatchInv, Present, Scheduled, vars
  <2>4. BatchWithinLimits'
    BY <1>7, LimitsStep DEF IInv, vars
  <2> QED
    BY <2>1, <2>2, <2>3, <2>4 DEF IInv
<1> QED
  BY <1>1, <1>2, <1>3, <1>4, <1>5, <1>6, <1>7 DEF Next

(* The inductive invariant holds always. *)
THEOREM SchedulerInvariant == Spec => []IInv
  BY InitIInv, StepIInv, PTL DEF Spec

(* However additions, stops, cancellations, batches and drains interleave, *)
(* the sequences map, waiting_queue and active_ids agree (the queue may    *)
(* still hold what was stopped in it, and nothing else), no identifier is  *)
(* listed twice, and at most max_sequences are active.                     *)
THEOREM ListsAlwaysMatch == Spec => []ListsMatchStates
  BY Implied, SchedulerInvariant, PTL

(* schedule() feeds every token of a sequence to the model once and in     *)
(* order, over chunks, decodes, stops and cancellations between schedule() *)
(* and the run of its batch; before the first token of an empty prompt it  *)
(* feeds token 0, and no other token that is not of the sequence.          *)
THEOREM FedExactlyOnce == Spec => []FedOnce
  BY Implied, SchedulerInvariant, PTL

(* The limits of SchedulerConfig as schedule() keeps them: the number of   *)
(* new and decoding sequences, the size of a chunk, and the token budget,  *)
(* which only a batch of first chunks overruns.                            *)
THEOREM BatchesKeepLimits == Spec => []BatchWithinLimits
  BY Implied, SchedulerInvariant, PTL

----------------------------------------------------------------------------
(* The rate limiter.  Its type invariant carries the shape of the queue;   *)
(* the other three invariants are inductive with it.                       *)

(* Where a request stands once its key was looked up. *)
PCs == {"touch", "insert"}

(* Refilling keeps a bucket within its capacity and adds no more than the  *)
(* rate allows for the time since the last refill.                         *)
LEMMA RefillLemma ==
    ASSUME now \in Nat, NEW k \in Keys, NEW b \in Bucket, b.last <= now
    PROVE  /\ Refill(k, b) \in Bucket /\ Refill(k, b).last = now
           /\ Refill(k, b).tokens <= CapacityOf[k]
           /\ Refill(k, b).tokens <= Replenished(k, b)
           /\ Replenished(k, b) \in Nat
<1> DEFINE sum == Replenished(k, b)
           cap == CapacityOf[k]
<1>1. cap \in Nat /\ RateOf[k] \in Nat /\ b.tokens \in Nat /\ b.last \in Nat
  BY LimiterAssumption DEF Bucket
<1>2. (now - b.last) \in Nat
  BY <1>1
<1>3. (now - b.last) * RateOf[k] \in Nat
  BY <1>1, <1>2
<1>4. sum \in Nat
  BY <1>1, <1>3 DEF Replenished
<1>5. Refill(k, b) = [tokens |-> Capped(sum, cap), last |-> now]
  BY DEF Refill
<1> HIDE DEF sum, cap
<1>6. Capped(sum, cap) \in Nat /\ Capped(sum, cap) <= cap /\ Capped(sum, cap) <= sum
  BY <1>1, <1>4 DEF Capped
<1>7. /\ Refill(k, b) \in Bucket /\ Refill(k, b).last = now
      /\ Refill(k, b).tokens <= cap /\ Refill(k, b).tokens <= sum
  BY <1>5, <1>6 DEF Bucket
<1> QED
  BY <1>4, <1>7 DEF sum, cap

(* A request takes its token out of the refilled bucket, or nothing.       *)
LEMMA AcquireLemma ==
    ASSUME now \in Nat, NEW k \in Keys, NEW b \in Bucket, b.last <= now
    PROVE  /\ Acquired(k, b) \in Bucket /\ Acquired(k, b).last = now
           /\ Acquired(k, b).tokens <= CapacityOf[k]
           /\ Grants(k, b) \in {0, 1}
           /\ Acquired(k, b).tokens + Grants(k, b) <= Replenished(k, b)
           /\ Replenished(k, b) \in Nat
<1> DEFINE r == Refill(k, b)
           sum == Replenished(k, b)
<1>1. r \in Bucket /\ r.last = now /\ r.tokens <= CapacityOf[k] /\ r.tokens <= sum
  BY RefillLemma
<1>2. r.tokens \in Nat /\ CapacityOf[k] \in Nat
  BY <1>1, LimiterAssumption DEF Bucket
<1>4. sum \in Nat
  BY RefillLemma
<1>5. Acquired(k, b) = IF r.tokens >= 1 THEN [r EXCEPT !.tokens = r.tokens - 1] ELSE r
  BY DEF Acquired
<1>6. Grants(k, b) = IF r.tokens >= 1 THEN 1 ELSE 0
  BY DEF Grants
<1> HIDE DEF r, sum
<1>7. CASE r.tokens >= 1
  <2>1. Acquired(k, b) = [r EXCEPT !.tokens = r.tokens - 1] /\ Grants(k, b) = 1
    BY <1>5, <1>6, <1>7
  <2>2. Acquired(k, b) \in Bucket /\ Acquired(k, b).last = now
        /\ Acquired(k, b).tokens = r.tokens - 1
    BY <2>1, <1>1, <1>2, <1>7 DEF Bucket
  <2>3. Acquired(k, b).tokens <= CapacityOf[k] /\ Acquired(k, b).tokens + 1 <= sum
    BY <2>2, <1>1, <1>2, <1>4
  <2> QED
    BY <1>4, <2>1, <2>2, <2>3 DEF sum
<1>8. CASE ~(r.tokens >= 1)
  <2>1. Acquired(k, b) = r /\ Grants(k, b) = 0
    BY <1>5, <1>6, <1>8
  <2> QED
    BY <2>1, <1>1, <1>2, <1>4 DEF sum
<1> QED
  BY <1>7, <1>8

----------------------------------------------------------------------------
(* The terms of the bound are naturals. *)
LEMMA NatProducts ==
    ASSUME NEW a \in Nat, NEW b \in Nat, NEW c \in Nat, NEW d \in Nat
    PROVE  a * b + c * d \in Nat
<1>1. a * b \in Nat /\ c * d \in Nat
  OBVIOUS
<1> QED
  BY <1>1

(* What a step may use of the type invariant. *)
LEMMA LimiterTypeFacts ==
    ASSUME LimiterTypeOK
    PROVE  /\ now \in Nat /\ lru \in Seq(Keys) /\ NoDuplicates(lru) /\ races \in Nat
           /\ \A k \in Keys : /\ admitted[k] \in Nat /\ inserted[k] \in Nat
                              /\ CapacityOf[k] \in Nat /\ RateOf[k] \in Nat
                              /\ buckets[k] # Absent =>
                                    /\ buckets[k] \in Bucket
                                    /\ buckets[k].tokens <= CapacityOf[k]
                                    /\ buckets[k].last <= now
           /\ \A t \in Threads : thread[t].pc \in PCs => thread[t].key \in Keys
<1>1. \A t \in Threads : thread[t] = Idle \/ thread[t] \in [pc : PCs, key : Keys]
  BY DEF LimiterTypeOK, PCs
<1>2. \A t \in Threads : thread[t].pc \in PCs => thread[t].key \in Keys
  BY <1>1 DEF Idle, At, PCs
<1>3. \A k \in Keys : buckets[k] # Absent =>
        /\ buckets[k] \in Bucket
        /\ buckets[k].tokens <= CapacityOf[k] /\ buckets[k].last <= now
  BY DEF LimiterTypeOK, Tracked
<1>4. \A k \in Keys : /\ admitted[k] \in Nat /\ inserted[k] \in Nat
                      /\ CapacityOf[k] \in Nat /\ RateOf[k] \in Nat
  BY LimiterAssumption DEF LimiterTypeOK
<1> QED
  BY <1>2, <1>3, <1>4 DEF LimiterTypeOK

(* Changing one thread keeps the threads well formed. *)
LEMMA ThreadStep ==
    ASSUME LimiterTypeOK, NEW t \in Threads, NEW x,
           x = Idle \/ \E k \in Keys : x = At("touch", k) \/ x = At("insert", k),
           thread' = [thread EXCEPT ![t] = x]
    PROVE  thread' \in [Threads -> {Idle} \cup [pc : {"touch", "insert"}, key : Keys]]
<1>1. x \in {Idle} \cup [pc : {"touch", "insert"}, key : Keys]
  BY DEF At
<1> QED
  BY <1>1 DEF LimiterTypeOK

(* The part of the invariant that speaks of the buckets, as a step that    *)
(* sets key k's bucket to Acquired(k, b), evicts some others and leaves    *)
(* the rest alone establishes it: inserted grows by n for key k, and what  *)
(* b holds is covered by the bound.                                        *)
LEMMA BucketStep ==
    ASSUME LimiterTypeOK, AdmissionBound, NEW k \in Keys, NEW b \in Bucket, b.last <= now,
           NEW n \in {0, 1},
           admitted[k] + Replenished(k, b)
               <= CapacityOf[k] * (inserted[k] + n) + RateOf[k] * now,
           now' = now,
           buckets' \in [Keys -> Bucket \cup {Absent}],
           buckets'[k] = Acquired(k, b),
           \A j \in Keys \ {k} : buckets'[j] \in {buckets[j], Absent},
           admitted' = [admitted EXCEPT ![k] = admitted[k] + Grants(k, b)],
           inserted' = [inserted EXCEPT ![k] = inserted[k] + n]
    PROVE  /\ \A j \in Tracked' : buckets'[j].tokens <= CapacityOf[j] /\ buckets'[j].last <= now'
           /\ admitted' \in [Keys -> Nat] /\ inserted' \in [Keys -> Nat]
           /\ AdmissionBound'
<1>1. /\ Acquired(k, b) \in Bucket /\ Acquired(k, b).last = now
      /\ Acquired(k, b).tokens <= CapacityOf[k] /\ Grants(k, b) \in {0, 1}
      /\ Acquired(k, b).tokens + Grants(k, b) <= Replenished(k, b)
      /\ Replenished(k, b) \in Nat
  BY LimiterTypeFacts, AcquireLemma
<1>2. \A j \in Tracked' : buckets'[j].tokens <= CapacityOf[j] /\ buckets'[j].last <= now'
  <2> SUFFICES ASSUME NEW j \in Keys, buckets'[j] # Absent
               PROVE  buckets'[j].tokens <= CapacityOf[j] /\ buckets'[j].last <= now
    BY DEF Tracked
  <2>1. CASE j = k
    BY <2>1, <1>1, LimiterTypeFacts
  <2>2. CASE j # k
    BY <2>2, LimiterTypeFacts
  <2> QED
    BY <2>1, <2>2
<1>3. admitted' \in [Keys -> Nat] /\ inserted' \in [Keys -> Nat]
  <2>1. admitted[k] \in Nat /\ inserted[k] \in Nat /\ Grants(k, b) \in Nat
    BY <1>1, LimiterTypeFacts
  <2>2. admitted[k] + Grants(k, b) \in Nat /\ inserted[k] + n \in Nat
    BY <2>1
  <2> QED
    BY <2>2 DEF LimiterTypeOK
<1>4. ASSUME NEW j \in Keys
      PROVE  admitted'[j] + (IF buckets'[j] = Absent THEN 0 ELSE Replenished(j, buckets[j])')
                 <= CapacityOf[j] * inserted'[j] + RateOf[j] * now
  <2>1. CASE j = k
    <3>1. Acquired(k, b) # Absent
      BY <1>1, LimiterAssumption
    <3>2. Acquired(k, b).tokens \in Nat
      BY <1>1 DEF Bucket
    <3>3. Replenished(k, buckets[k])' = Acquired(k, b).tokens
      <4>1. Replenished(k, buckets[k])' = Acquired(k, b).tokens + (now - now) * RateOf[k]
        BY <1>1 DEF Replenished
      <4> QED
        BY <4>1, <3>2, LimiterTypeFacts
    <3>4. admitted'[k] = admitted[k] + Grants(k, b) /\ inserted'[k] = inserted[k] + n
      BY DEF LimiterTypeOK
    <3>5. CapacityOf[k] * (inserted[k] + n) + RateOf[k] * now \in Nat
      <4>1. inserted[k] + n \in Nat
        BY LimiterTypeFacts
      <4> QED
        BY <4>1, NatProducts, LimiterTypeFacts
    <3>6. admitted'[k] + Acquired(k, b).tokens
              <= CapacityOf[k] * (inserted[k] + n) + RateOf[k] * now
      BY <3>2, <3>4, <3>5, <1>1, LimiterTypeFacts, SMTT(30)
    <3> QED
      BY <2>1, <3>1, <3>3, <3>4, <3>6
  <2>2. CASE j # k
    <3>1. admitted'[j] = admitted[j] /\ inserted'[j] = inserted[j]
      BY <2>2 DEF LimiterTypeOK
    <3>2. admitted[j] + (IF buckets[j] = Absent THEN 0 ELSE Replenished(j, buckets[j]))
              <= CapacityOf[j] * inserted[j] + RateOf[j] * now
      BY DEF AdmissionBound
    <3>3. CASE buckets'[j] = buckets[j]
      BY <3>1, <3>2, <3>3 DEF Replenished
    <3>4. CASE buckets'[j] = Absent
      <4>1. buckets[j] # Absent => Replenished(j, buckets[j]) \in Nat
        BY LimiterTypeFacts, RefillLemma
      <4>2. CapacityOf[j] * inserted[j] + RateOf[j] * now \in Nat
        BY NatProducts, LimiterTypeFacts
      <4> QED
        BY <3>1, <3>2, <3>4, <4>1, <4>2, LimiterTypeFacts
    <3> QED
      BY <2>2, <3>3, <3>4
  <2> QED
    BY <2>1, <2>2
<1>5. AdmissionBound'
  BY <1>4 DEF AdmissionBound
<1> QED
  BY <1>2, <1>3, <1>5

----------------------------------------------------------------------------
(* Its inductive invariant: the properties themselves, taken together. *)
LimiterInv == LimiterTypeOK /\ AdmissionBound /\ TrackedInQueue /\ GrowthNeedsRace

(* The request of thread t takes its token from the bucket its key has. *)
LEMMA OwnBucketStep ==
    ASSUME LimiterInv, NEW t \in Threads, NEW k \in Keys, buckets[k] # Absent,
           TryAcquire(k, buckets[k]),
           NEW x, x = Idle \/ \E j \in Keys : x = At("touch", j) \/ x = At("insert", j),
           thread' = [thread EXCEPT ![t] = x],
           UNCHANGED <<now, lru, inserted, races>>
    PROVE  LimiterInv'
<1> DEFINE b == buckets[k]
<1>1. b \in Bucket /\ b.last <= now /\ inserted[k] \in Nat
  BY LimiterTypeFacts DEF LimiterInv
<1>2. Acquired(k, b) \in Bucket
  BY <1>1, LimiterTypeFacts, AcquireLemma DEF LimiterInv
<1>3. buckets' = [buckets EXCEPT ![k] = Acquired(k, b)]
  BY DEF TryAcquire
<1>4. /\ buckets' \in [Keys -> Bucket \cup {Absent}] /\ buckets'[k] = Acquired(k, b)
      /\ \A j \in Keys \ {k} : buckets'[j] = buckets[j]
  BY <1>2, <1>3 DEF LimiterInv, LimiterTypeOK
<1>5. admitted[k] + Replenished(k, b)
          <= CapacityOf[k] * (inserted[k] + 0) + RateOf[k] * now
  BY <1>1 DEF LimiterInv, AdmissionBound
<1>6. inserted' = [inserted EXCEPT ![k] = inserted[k] + 0]
  BY <1>1 DEF LimiterInv, LimiterTypeOK
<1>7. admitted' = [admitted EXCEPT ![k] = admitted[k] + Grants(k, b)]
  BY DEF TryAcquire
<1> HIDE DEF b
<1>8. /\ \A j \in Tracked' : buckets'[j].tokens <= CapacityOf[j] /\ buckets'[j].last <= now'
      /\ admitted' \in [Keys -> Nat] /\ inserted' \in [Keys -> Nat]
      /\ AdmissionBound'
  BY <1>1, <1>4, <1>5, <1>6, <1>7, BucketStep DEF LimiterInv
<1>9. LimiterTypeOK'
  BY <1>4, <1>8, ThreadStep DEF LimiterInv, LimiterTypeOK
<1>10. Tracked' = Tracked
  <2>1. Acquired(k, b) # Absent
    BY <1>2, LimiterAssumption
  <2> QED
    BY <2>1, <1>4 DEF Tracked
<1>11. TrackedInQueue' /\ GrowthNeedsRace'
  BY <1>10 DEF LimiterInv, TrackedInQueue, GrowthNeedsRace
<1> QED
  BY <1>8, <1>9, <1>11 DEF LimiterInv

(* The fast path of check_key. *)
LEMMA CheckTrackedStep ==
    ASSUME LimiterInv, NEW t \in Threads, NEW k \in Keys, CheckTracked(t, k)
    PROVE  LimiterInv'
BY OwnBucketStep DEF CheckTracked

(* The slow path of check_key when another request inserted the key first. *)
LEMMA InsertBeatenStep ==
    ASSUME LimiterInv, NEW t \in Threads, InsertBeaten(t)
    PROVE  LimiterInv'
<1>1. thread[t].key \in Keys
  BY LimiterTypeFacts DEF LimiterInv, InsertBeaten, PCs
<1> QED
  BY <1>1, OwnBucketStep DEF InsertBeaten

(* Nothing but a thread moves. *)
LEMMA CheckUntrackedStep ==
    ASSUME LimiterInv, NEW t \in Threads, NEW k \in Keys, CheckUntracked(t, k)
    PROVE  LimiterInv'
<1>1. LimiterTypeOK'
  BY ThreadStep DEF LimiterInv, LimiterTypeOK, CheckUntracked, Tracked
<1>2. AdmissionBound' /\ TrackedInQueue' /\ GrowthNeedsRace'
  BY DEF LimiterInv, AdmissionBound, Replenished, TrackedInQueue, GrowthNeedsRace, Tracked,
         CheckUntracked
<1> QED
  BY <1>1, <1>2 DEF LimiterInv

(* The queue grows by one only if the key had left it, which races counts. *)
LEMMA TouchLruStep ==
    ASSUME LimiterInv, NEW t \in Threads, TouchLru(t)
    PROVE  LimiterInv'
<1> DEFINE k == thread[t].key
<1>1. k \in Keys
  BY LimiterTypeFacts DEF LimiterInv, TouchLru, PCs
<1>2. /\ lru' = Touch(lru, k) /\ races' = races + IF k \in Ids(lru) THEN 0 ELSE 1
      /\ thread' = [thread EXCEPT ![t] = Idle]
      /\ UNCHANGED <<now, buckets, admitted, inserted>>
  BY DEF TouchLru
<1> HIDE DEF k
<1>3. /\ lru' \in Seq(Keys) /\ NoDuplicates(lru') /\ Ids(lru') = Ids(lru) \cup {k}
      /\ Len(lru') = Len(lru) + (IF k \in Ids(lru) THEN 0 ELSE 1)
  <2>1. lru \in Seq(Keys) /\ NoDuplicates(lru)
    BY LimiterTypeFacts DEF LimiterInv
  <2>2. /\ Touch(lru, k) \in Seq(Keys) /\ NoDuplicates(Touch(lru, k))
        /\ Ids(Touch(lru, k)) = Ids(lru) \cup {k}
        /\ Len(Touch(lru, k)) = Len(lru) + (IF k \in Ids(lru) THEN 0 ELSE 1)
    BY <1>1, <2>1, TouchLemma
  <2> QED
    BY <1>2, <2>2 DEF NoDuplicates
<1>4. races' \in Nat
  BY <1>2, LimiterTypeFacts DEF LimiterInv
<1>5. LimiterTypeOK'
  BY <1>2, <1>3, <1>4, ThreadStep DEF LimiterInv, LimiterTypeOK, Tracked
<1>6. AdmissionBound'
  BY <1>2 DEF LimiterInv, AdmissionBound, Replenished
<1>7. TrackedInQueue'
  BY <1>2, <1>3 DEF LimiterInv, TrackedInQueue, Tracked
<1>8. GrowthNeedsRace'
  BY <1>2, <1>3, LimiterTypeFacts, LenProperties, LimiterAssumption DEF LimiterInv, GrowthNeedsRace
<1> QED
  BY <1>5, <1>6, <1>7, <1>8 DEF LimiterInv

(* The new key stands at the end of a queue longer than max_entries, so    *)
(* the victim at its front is another one.                                 *)
LEMMA InsertStep ==
    ASSUME LimiterInv, NEW t \in Threads, Insert(t)
    PROVE  LimiterInv'
<1> DEFINE k == thread[t].key
           q == Touch(lru, k)
           b == FullBucket(k)
<1>1. k \in Keys
  BY LimiterTypeFacts DEF LimiterInv, Insert, PCs
<1>2. /\ buckets[k] = Absent
      /\ lru' = IF Victims(q) = {} THEN q ELSE Tail(q)
      /\ buckets' = [j \in Keys |-> IF j = k THEN Acquired(k, b)
                                    ELSE IF j \in Victims(q) THEN Absent ELSE buckets[j]]
      /\ admitted' = [admitted EXCEPT ![k] = admitted[k] + Grants(k, b)]
      /\ inserted' = [inserted EXCEPT ![k] = inserted[k] + 1]
      /\ thread' = [thread EXCEPT ![t] = Idle]
      /\ now' = now /\ races' = races
  BY DEF Insert
<1>3. b \in Bucket /\ b.last <= now /\ Replenished(k, b) = CapacityOf[k]
  BY <1>1, LimiterTypeFacts DEF LimiterInv, FullBucket, Bucket, Replenished
<1> HIDE DEF k, b
<1>4. /\ q \in Seq(Keys) /\ q # <<>> /\ NoDuplicates(q) /\ Ids(q) = Ids(lru) \cup {k}
      /\ Len(q) = Len(lru) + (IF k \in Ids(lru) THEN 0 ELSE 1) /\ q[Len(q)] = k
  BY <1>1, LimiterTypeFacts, TouchLemma DEF LimiterInv
<1> HIDE DEF q
<1>5. /\ Tail(q) \in Seq(Keys) /\ NoDuplicates(Tail(q)) /\ Ids(Tail(q)) = Ids(q) \ {Head(q)}
      /\ Head(q) = q[1] /\ Len(Tail(q)) = Len(q) - 1 /\ Len(q) \in Nat \ {0}
  BY <1>4, EvictLemma
<1>6. Victims(q) # {} => Head(q) # k
  <2> SUFFICES ASSUME Len(q) > MaxEntries PROVE Head(q) # k
    BY DEF Victims
  <2>1. 1 \in DOMAIN q /\ Len(q) \in DOMAIN q /\ 1 # Len(q)
    BY <1>4, <1>5, LenProperties, LimiterAssumption
  <2> QED
    BY <2>1, <1>4, <1>5 DEF NoDuplicates
<1>7. Acquired(k, b) \in Bucket /\ Acquired(k, b) # Absent
  BY <1>1, <1>3, LimiterTypeFacts, AcquireLemma, LimiterAssumption DEF LimiterInv
<1>8. /\ buckets' \in [Keys -> Bucket \cup {Absent}] /\ buckets'[k] = Acquired(k, b)
      /\ \A j \in Keys \ {k} : buckets'[j] \in {buckets[j], Absent}
  BY <1>1, <1>2, <1>7 DEF LimiterInv, LimiterTypeOK
<1>9. admitted[k] + Replenished(k, b)
          <= CapacityOf[k] * (inserted[k] + 1) + RateOf[k] * now
  <2>1. admitted[k] + 0 <= CapacityOf[k] * inserted[k] + RateOf[k] * now
    BY <1>1, <1>2 DEF LimiterInv, AdmissionBound
  <2>2. /\ CapacityOf[k] \in Nat /\ RateOf[k] \in Nat /\ inserted[k] \in Nat
        /\ admitted[k] \in Nat /\ now \in Nat
    BY <1>1, LimiterTypeFacts DEF LimiterInv
  <2>3. CapacityOf[k] * (inserted[k] + 1) = CapacityOf[k] * inserted[k] + CapacityOf[k]
    BY <2>2
  <2>4. CapacityOf[k] * inserted[k] \in Nat /\ RateOf[k] * now \in Nat
    BY <2>2
  <2> QED
    BY <2>1, <2>2, <2>3, <2>4, <1>3
<1>10. /\ \A j \in Tracked' : buckets'[j].tokens <= CapacityOf[j] /\ buckets'[j].last <= now'
       /\ admitted' \in [Keys -> Nat] /\ inserted' \in [Keys -> Nat]
       /\ AdmissionBound'
  BY <1>1, <1>2, <1>3, <1>8, <1>9, BucketStep DEF LimiterInv
<1>11. lru' \in Seq(Keys) /\ NoDuplicates(lru')
  BY <1>2, <1>4, <1>5
<1>12. LimiterTypeOK'
  BY <1>2, <1>8, <1>10, <1>11, ThreadStep DEF LimiterInv, LimiterTypeOK
<1>13. TrackedInQueue'
  <2> SUFFICES ASSUME NEW j \in Keys, buckets'[j] # Absent PROVE j \in Ids(lru')
    BY DEF TrackedInQueue, Tracked
  <2>1. CASE j = k
    BY <2>1, <1>2, <1>4, <1>5, <1>6
  <2>2. CASE j # k
    <3>1. j \notin Victims(q) /\ buckets[j] # Absent
      BY <2>2, <1>2
    <3>2. j \in Ids(q)
      BY <3>1, <1>4 DEF LimiterInv, TrackedInQueue, Tracked
    <3>3. Victims(q) # {} => j # Head(q)
      BY <3>1 DEF Victims
    <3> QED
      BY <3>2, <3>3, <1>2, <1>5
  <2> QED
    BY <2>1, <2>2
<1>14. GrowthNeedsRace'
  <2>1. Len(lru) \in Nat /\ Len(lru) <= MaxEntries + races /\ races \in Nat
    BY LimiterTypeFacts, LenProperties DEF LimiterInv, GrowthNeedsRace
  <2>2. CASE Len(q) > MaxEntries
    <3>1. lru' = Tail(q)
      BY <2>2, <1>2 DEF Victims
    <3>2. Len(q) <= Len(lru) + 1 /\ Len(Tail(q)) = Len(q) - 1 /\ Len(q) \in Nat
      BY <2>1, <1>4, <1>5
    <3> QED
      BY <2>1, <3>1, <3>2, <1>2, LimiterAssumption DEF GrowthNeedsRace
  <2>3. CASE ~(Len(q) > MaxEntries)
    BY <2>1, <2>3, <1>2, <1>4, <1>5, LimiterAssumption, SMTT(30) DEF Victims, GrowthNeedsRace
  <2> QED
    BY <2>2, <2>3
<1> QED
  BY <1>10, <1>12, <1>13, <1>14 DEF LimiterInv

(* A tick brings as much to a bucket's account as to the bound. *)
LEMMA TickStep ==
    ASSUME LimiterInv, Tick
    PROVE  LimiterInv'
<1>1. now' = now + 1 /\ UNCHANGED <<buckets, lru, thread, admitted, inserted, races>>
  BY DEF Tick
<1>2. now \in Nat
  BY LimiterTypeFacts DEF LimiterInv
<1>3. LimiterTypeOK'
  <2>1. \A k \in Tracked' : buckets'[k].tokens <= CapacityOf[k] /\ buckets'[k].last <= now'
    <3> SUFFICES ASSUME NEW k \in Keys, buckets[k] # Absent
                 PROVE  buckets[k].tokens <= CapacityOf[k] /\ buckets[k].last <= now + 1
      BY <1>1 DEF Tracked
    <3>1. /\ buckets[k] \in Bucket
          /\ buckets[k].tokens <= CapacityOf[k] /\ buckets[k].last <= now
      BY LimiterTypeFacts DEF LimiterInv
    <3> QED
      BY <3>1, <1>2 DEF Bucket
  <2> QED
    BY <1>1, <1>2, <2>1 DEF LimiterInv, LimiterTypeOK
<1>4. AdmissionBound'
  <2> SUFFICES ASSUME NEW k \in Keys
               PROVE  admitted[k] + (IF buckets[k] = Absent THEN 0
                                     ELSE Replenished(k, buckets[k])')
                          <= CapacityOf[k] * inserted[k] + RateOf[k] * (now + 1)
    BY <1>1 DEF AdmissionBound
  <2> DEFINE R == RateOf[k]
             c == CapacityOf[k] * inserted[k]
  <2>1. R \in Nat /\ admitted[k] \in Nat /\ c \in Nat /\ R * now \in Nat
    <3>1. CapacityOf[k] \in Nat /\ inserted[k] \in Nat /\ R \in Nat /\ admitted[k] \in Nat
      BY LimiterTypeFacts DEF LimiterInv
    <3> QED
      BY <3>1, <1>2
  <2>2. R * (now + 1) = R * now + R
    BY <2>1, <1>2
  <2>3. admitted[k] + (IF buckets[k] = Absent THEN 0
                       ELSE buckets[k].tokens + (now - buckets[k].last) * R)
            <= c + R * now
    BY DEF LimiterInv, AdmissionBound, Replenished
  <2> HIDE DEF R, c
  <2>4. CASE buckets[k] = Absent
    BY <2>1, <2>2, <2>3, <2>4 DEF R, c
  <2>5. CASE buckets[k] # Absent
    <3> DEFINE d == now - buckets[k].last
    <3>1. buckets[k].tokens \in Nat /\ d \in Nat /\ now + 1 - buckets[k].last = d + 1
      BY <2>5, <1>2, LimiterTypeFacts DEF LimiterInv, Bucket
    <3> HIDE DEF d
    <3>2. (d + 1) * R = d * R + R /\ d * R \in Nat
      BY <3>1, <2>1
    <3>3. admitted[k] + (buckets[k].tokens + d * R) <= c + R * now
      BY <2>3, <2>5 DEF d
    <3>4. admitted[k] + (buckets[k].tokens + (d * R + R)) <= c + (R * now + R)
      BY <3>1, <3>2, <3>3, <2>1
    <3>5. admitted[k] + (buckets[k].tokens + (now + 1 - buckets[k].last) * R) <= c + R * (now + 1)
      BY <3>1, <3>2, <3>4, <2>2
    <3>6. Replenished(k, buckets[k])' = buckets[k].tokens + (now + 1 - buckets[k].last) * R
      <4>1. Replenished(k, buckets[k])' = buckets'[k].tokens + (now' - buckets'[k].last) * RateOf[k]
        BY DEF Replenished
      <4>2. now' = now + 1 /\ buckets' = buckets
        BY <1>1
      <4>3. now' - buckets'[k].last = now + 1 - buckets[k].last
        <5>1. buckets'[k].last = buckets[k].last /\ buckets[k].last \in Nat
          BY <4>2, <2>5, LimiterTypeFacts DEF LimiterInv, Bucket
        <5> QED
          BY <4>2, <5>1, <1>2
      <4> QED
        BY <4>1, <4>2, <4>3 DEF R
    <3> QED
      BY <3>5, <3>6, <2>5 DEF R, c
  <2> QED
    BY <2>4, <2>5
<1>5. TrackedInQueue' /\ GrowthNeedsRace'
  BY <1>1 DEF LimiterInv, TrackedInQueue, Tracked, GrowthNeedsRace
<1> QED
  BY <1>3, <1>4, <1>5 DEF LimiterInv

(* The invariant holds of a limiter that tracks nothing. *)
LEMMA InitLimiterInv == LimiterInit => LimiterInv
<1> SUFFICES ASSUME LimiterInit PROVE LimiterInv
  OBVIOUS
<1>1. lru = <<>> /\ lru \in Seq(Keys) /\ Len(lru) = 0 /\ NoDuplicates(lru)
  BY EmptySeq DEF LimiterInit, NoDuplicates
<1>2. Tracked = {}
  BY DEF LimiterInit, Tracked
<1>3. LimiterTypeOK
  BY <1>1, <1>2 DEF LimiterInit, LimiterTypeOK
<1>4. AdmissionBound
  <2> SUFFICES ASSUME NEW k \in Keys
               PROVE  0 + 0 <= CapacityOf[k] * 0 + RateOf[k] * 0
    BY DEF LimiterInit, AdmissionBound
  <2>1. CapacityOf[k] \in Nat /\ RateOf[k] \in Nat
    BY LimiterAssumption
  <2> QED
    BY <2>1
<1>5. TrackedInQueue /\ GrowthNeedsRace
  BY <1>1, <1>2, LimiterAssumption DEF LimiterInit, TrackedInQueue, GrowthNeedsRace
<1> QED
  BY <1>3, <1>4, <1>5 DEF LimiterInv

(* Every step keeps it. *)
LEMMA StepLimiterInv == LimiterInv /\ [LimiterNext]_limiterVars => LimiterInv'
<1> SUFFICES ASSUME LimiterInv, [LimiterNext]_limiterVars PROVE LimiterInv'
  OBVIOUS
<1>1. ASSUME NEW t \in Threads, NEW k \in Keys, CheckTracked(t, k) \/ CheckUntracked(t, k)
      PROVE  LimiterInv'
  BY <1>1, CheckTrackedStep, CheckUntrackedStep
<1>2. ASSUME NEW t \in Threads, TouchLru(t) \/ InsertBeaten(t) \/ Insert(t)
      PROVE  LimiterInv'
  BY <1>2, TouchLruStep, InsertBeatenStep, InsertStep
<1>3. CASE Tick
  BY <1>3, TickStep
<1>4. CASE UNCHANGED limiterVars
  BY <1>4 DEF limiterVars, LimiterInv, LimiterTypeOK, AdmissionBound, Replenished, TrackedInQueue,
              GrowthNeedsRace, Tracked
<1> QED
  BY <1>1, <1>2, <1>3, <1>4 DEF LimiterNext

(* The invariant of the limiter holds always. *)
THEOREM LimiterInvariant == LimiterSpec => []LimiterInv
  BY InitLimiterInv, StepLimiterInv, PTL DEF LimiterSpec

(* The state keeps its type: no bucket holds more than its capacity or was *)
(* refilled in the future, and the queue names no key twice.               *)
THEOREM LimiterTypeCorrect == LimiterSpec => []LimiterTypeOK
<1>1. LimiterInv => LimiterTypeOK
  BY DEF LimiterInv
<1> QED
  BY <1>1, LimiterInvariant, PTL

(* check_key never lets a key through more often than its bursts and its   *)
(* rate allow, whatever else is checked, inserted or evicted meanwhile.    *)
THEOREM AdmissionIsBounded == LimiterSpec => []AdmissionBound
<1>1. LimiterInv => AdmissionBound
  BY DEF LimiterInv
<1> QED
  BY <1>1, LimiterInvariant, PTL

(* No tracked key escapes eviction: touch_lru_and_evict_if_full takes a    *)
(* key out of the queue and its bucket out of the map together.            *)
THEOREM EveryBucketIsQueued == LimiterSpec => []TrackedInQueue
<1>1. LimiterInv => TrackedInQueue
  BY DEF LimiterInv
<1> QED
  BY <1>1, LimiterInvariant, PTL

(* The queue passes max_entries only by the number of late touches.        *)
THEOREM GrowthIsRacy == LimiterSpec => []GrowthNeedsRace
<1>1. LimiterInv => GrowthNeedsRace
  BY DEF LimiterInv
<1> QED
  BY <1>1, LimiterInvariant, PTL
=============================================================================
