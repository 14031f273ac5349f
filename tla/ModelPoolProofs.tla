-------------------------- MODULE ModelPoolProofs --------------------------
(***************************************************************************)
(* Proofs about ModelPool for any models, callers, capacity and budget.    *)
(* An eviction, however far it gets, leaves a pool whose queue tracks its  *)
(* map and which lacks nothing but idle models; the theorems follow from   *)
(* that and from what each method inserts afterwards.                      *)
(***************************************************************************)
EXTENDS ModelPool, QueueAndSumProofs

----------------------------------------------------------------------------
(* What evictions leave. *)

(* A map of handles and a queue that agree. *)
Pool(l, q) ==
    /\ l \in [Models -> Handle \cup {None}] /\ q \in Seq(Models)
    /\ NoDuplicates(q) /\ Ids(q) = Loaded(l)

(* The map l without some idle models. *)
Shrunk(l, r) == \A m \in Models : r[m] = l[m] \/ (r[m] = None /\ Idle(l, m))

LEMMA ShrunkTwice ==
    ASSUME NEW k, NEW l, NEW r, Shrunk(k, l), Shrunk(l, r)
    PROVE  Shrunk(k, r) /\ Loaded(r) \subseteq Loaded(k)
<1>1. ASSUME NEW m \in Models PROVE r[m] = k[m] \/ (r[m] = None /\ Idle(k, m))
  BY DEF Shrunk, Idle
<1> QED
  BY <1>1 DEF Shrunk, Loaded

(* evict_one leaves a pool, whether it succeeds or not; if it does there   *)
(* is one model less.                                                      *)
LEMMA EvictOneFacts ==
    ASSUME NEW l, NEW q, Pool(l, q)
    PROVE  /\ Pool(EvictOne(l, q).loaded, EvictOne(l, q).lru)
           /\ Shrunk(l, EvictOne(l, q).loaded)
           /\ EvictOne(l, q).ok =>
                 \E m \in Loaded(l) : Loaded(EvictOne(l, q).loaded) = Loaded(l) \ {m}
<1>0. /\ l \in [Models -> Handle \cup {None}] /\ q \in Seq(Models)
      /\ NoDuplicates(q) /\ Ids(q) = Loaded(l)
  BY DEF Pool
<1> DEFINE e == EvictOne(l, q)
<1>1. CASE q = <<>>
  <2>1. e.loaded = l /\ e.lru = q /\ e.ok = FALSE
    BY <1>1 DEF EvictOne, Result
  <2> QED
    BY <2>1 DEF Shrunk, Idle
<1>2. ASSUME q # <<>> PROVE /\ Tail(q) \in Seq(Models) /\ NoDuplicates(Tail(q))
                            /\ Ids(Tail(q)) = Loaded(l) \ {Head(q)}
                            /\ Head(q) \in Loaded(l) /\ Head(q) \in Models
  BY <1>0, <1>2, EvictLemma DEF Loaded
<1>3. CASE q # <<>> /\ Idle(l, Head(q))
  <2> DEFINE r == [l EXCEPT ![Head(q)] = None]
  <2>1. e.loaded = r /\ e.lru = Tail(q)
    BY <1>3 DEF EvictOne, Result
  <2>2a. r \in [Models -> Handle \cup {None}]
    BY <1>0, <1>2, <1>3
  <2>2b. \A m \in Models : r[m] = IF m = Head(q) THEN None ELSE l[m]
    BY <1>0
  <2> HIDE DEF r
  <2>2. Loaded(r) = Loaded(l) \ {Head(q)}
    BY <1>2, <1>3, <2>2b DEF Loaded
  <2>3. Shrunk(l, r)
    BY <1>3, <2>2b DEF Shrunk, Idle
  <2>4. Pool(e.loaded, e.lru)
    BY <1>2, <1>3, <2>2a, <2>1, <2>2 DEF Pool
  <2> QED
    BY <1>2, <1>3, <2>1, <2>2, <2>3, <2>4
<1>4. CASE q # <<>> /\ ~Idle(l, Head(q))
  <2> DEFINE t == Touch(Tail(q), Head(q))
  <2>1. e.loaded = l /\ e.lru = t /\ e.ok = FALSE
    BY <1>4 DEF EvictOne, Result
  <2>2. t \in Seq(Models) /\ NoDuplicates(t) /\ Ids(t) = Ids(Tail(q)) \cup {Head(q)}
    BY <1>2, <1>4, TouchLemma, ZenonT(40)
  <2>3. Ids(t) = Loaded(l)
    BY <1>2, <1>4, <2>2
  <2> HIDE DEF t
  <2>4. Pool(e.loaded, e.lru)
    BY <1>0, <2>1, <2>2, <2>3 DEF Pool
  <2> QED
    BY <2>1, <2>4 DEF Shrunk, Idle
<1> QED
  BY <1>1, <1>3, <1>4

(* The front of the queue may go as far as it is idle. *)
LEMMA DropFacts ==
    ASSUME NEW l, NEW q, Pool(l, q), NEW k \in 0..Len(q), \A i \in 1..k : Idle(l, q[i])
    PROVE  Pool(Drop(l, q, k), Rest(q, k)) /\ Shrunk(l, Drop(l, q, k))
<1> DEFINE d == Drop(l, q, k)
           r == Rest(q, k)
<1>0. /\ l \in [Models -> Handle \cup {None}] /\ q \in Seq(Models)
      /\ NoDuplicates(q) /\ Ids(q) = Loaded(l)
  BY DEF Pool
<1>1. Len(q) \in Nat /\ DOMAIN q = 1..Len(q) /\ \A i \in 1..Len(q) : q[i] \in Models
  BY <1>0, IdsIndexed
<1>2. /\ r \in Seq(Models) /\ Len(r) = Len(q) - k
      /\ \A i \in 1..(Len(q) - k) : r[i] = q[k + i]
  <2>1. \A i \in (k + 1)..Len(q) : q[i] \in Models
    BY <1>1
  <2>0. Len(q) \in Nat /\ k \in Nat /\ k <= Len(q)
    BY <1>1
  <2>2. /\ r \in Seq(Models)
        /\ Len(r) = IF k + 1 <= Len(q) THEN Len(q) - (k + 1) + 1 ELSE 0
        /\ \A i \in 1..(Len(q) - (k + 1) + 1) : r[i] = q[(k + 1) + i - 1]
    BY <1>0, <1>1, <2>1, SubSeqProperties DEF Rest
  <2>3. Len(r) = Len(q) - k
    <3>1. CASE k = Len(q)
      BY <3>1, <2>2, <1>1
    <3>2. CASE k # Len(q)
      <4>1. k + 1 <= Len(q) /\ Len(q) - (k + 1) + 1 = Len(q) - k
        BY <3>2, <2>0
      <4> QED
        BY <4>1, <2>2
    <3> QED
      BY <3>1, <3>2
  <2>4. \A i \in 1..(Len(q) - k) : i \in 1..(Len(q) - (k + 1) + 1) /\ (k + 1) + i - 1 = k + i
    BY <1>1
  <2>5. ASSUME NEW i \in 1..(Len(q) - k) PROVE r[i] = q[k + i]
    <3>1. r[i] = q[(k + 1) + i - 1]
      BY <2>2, <2>4
    <3> QED
      BY <3>1, <2>4
  <2> QED
    BY <2>2, <2>3, <2>5
<1>3. DOMAIN r = 1..(Len(q) - k)
  BY <1>2, LenProperties
<1>4. /\ d \in [Models -> Handle \cup {None}]
      /\ \A m \in Models : d[m] = IF \E i \in 1..k : q[i] = m THEN None ELSE l[m]
  BY <1>0 DEF Drop
<1> HIDE DEF d, r
<1>5. Shrunk(l, d)
  <2> SUFFICES ASSUME NEW m \in Models PROVE d[m] = l[m] \/ (d[m] = None /\ Idle(l, m))
    BY DEF Shrunk
  <2>1. CASE \E i \in 1..k : q[i] = m
    BY <2>1, <1>4
  <2>2. CASE ~\E i \in 1..k : q[i] = m
    <3>1. d[m] = l[m]
      BY <2>2, <1>4
    <3> QED
      BY <3>1
  <2> QED
    BY <2>1, <2>2
<1>6. \A i, j \in 1..Len(q) : q[i] = q[j] => i = j
  BY <1>0, <1>1 DEF NoDuplicates
<1>7. NoDuplicates(r)
  <2> SUFFICES ASSUME NEW i \in 1..(Len(q) - k), NEW j \in 1..(Len(q) - k), r[i] = r[j]
               PROVE  i = j
    BY <1>3 DEF NoDuplicates
  <2>1. k + i \in 1..Len(q) /\ k + j \in 1..Len(q) /\ q[k + i] = q[k + j]
    BY <1>1, <1>2
  <2>2. k + i = k + j
    BY <2>1, <1>6
  <2> QED
    BY <2>2, <1>1
<1>8. ASSUME NEW m \in Ids(r) PROVE m \in Loaded(d)
  <2>1. PICK i \in 1..(Len(q) - k) : r[i] = m
    BY <1>3 DEF Ids
  <2>2. k + i \in 1..Len(q) /\ q[k + i] = m /\ k + i > k
    BY <2>1, <1>1, <1>2
  <2>3. m \in Models /\ l[m] # None
    BY <2>2, <1>0, <1>1 DEF Ids, Loaded
  <2>4. \A j \in 1..k : j \in 1..Len(q) /\ j # k + i
    BY <2>2, <1>1
  <2>5. ~\E j \in 1..k : q[j] = m
    BY <2>2, <2>4, <1>6
  <2> QED
    BY <2>3, <2>5, <1>4 DEF Loaded
<1>9. ASSUME NEW m \in Loaded(d) PROVE m \in Ids(r)
  <2>1. m \in Models /\ l[m] # None /\ ~\E i \in 1..k : q[i] = m
    BY <1>4 DEF Loaded
  <2>2. PICK i \in 1..Len(q) : q[i] = m
    BY <2>1, <1>0, <1>1 DEF Ids, Loaded
  <2>3. ~(i \in 1..k)
    BY <2>1, <2>2
  <2>4. i - k \in 1..(Len(q) - k) /\ k + (i - k) = i
    BY <2>3, <1>1
  <2>5. r[i - k] = q[k + (i - k)]
    BY <2>4, <1>2
  <2> QED
    BY <2>2, <2>4, <2>5, <1>3 DEF Ids
<1>10. Pool(d, r)
  BY <1>2, <1>4, <1>7, <1>8, <1>9 DEF Pool
<1> QED
  BY <1>5, <1>10 DEF d, r

(* evict_until_budget leaves a pool, however far it got. *)
LEMMA EvictUntilBudgetFacts ==
    ASSUME NEW l, NEW q, NEW needed, Pool(l, q)
    PROVE  /\ Pool(EvictUntilBudget(l, q, needed).loaded, EvictUntilBudget(l, q, needed).lru)
           /\ Shrunk(l, EvictUntilBudget(l, q, needed).loaded)
<1> DEFINE front  == {k \in 0..Len(q) : \A i \in 1..k : Idle(l, q[i])}
           enough == {k \in front : Budget = 0 \/ MemBytes(Drop(l, q, k)) + needed <= Budget}
           e      == EvictUntilBudget(l, q, needed)
<1>1. Len(q) \in Nat
  BY LenProperties DEF Pool
<1>2. ASSUME NEW k \in front
      PROVE  Pool(Drop(l, q, k), Rest(q, k)) /\ Shrunk(l, Drop(l, q, k))
  BY <1>2, DropFacts
<1>3. e = IF enough # {}
          THEN Result(Drop(l, q, Min(enough)), Rest(q, Min(enough)), TRUE)
          ELSE EvictOne(Drop(l, q, Max(front)), Rest(q, Max(front)))
  BY DEF EvictUntilBudget
<1>4. 0 \in front /\ front \in SUBSET (0..Len(q)) /\ enough \in SUBSET front
  <2>1. 0 \in 0..Len(q) /\ 1..0 = {}
    BY <1>1
  <2> QED
    BY <2>1
<1> HIDE DEF front, enough, e
<1>5. CASE enough # {}
  <2>1. enough \in SUBSET Nat
    BY <1>1, <1>4
  <2>2. Min(enough) \in front
    BY <1>4, <1>5, <2>1, MinNat
  <2>3. e.loaded = Drop(l, q, Min(enough)) /\ e.lru = Rest(q, Min(enough))
    BY <1>3, <1>5 DEF Result
  <2> QED
    BY <1>2, <2>2, <2>3 DEF e
<1>6. CASE enough = {}
  <2> DEFINE d == Drop(l, q, Max(front))
             r == Rest(q, Max(front))
  <2>1. Max(front) \in front
    BY <1>1, <1>4, MaxNat
  <2>2. Pool(d, r) /\ Shrunk(l, d)
    BY <1>2, <2>1
  <2>3. e = EvictOne(d, r)
    BY <1>3, <1>6
  <2> HIDE DEF d, r
  <2>4. Pool(e.loaded, e.lru) /\ Shrunk(d, e.loaded)
    BY <2>2, <2>3, EvictOneFacts
  <2> QED
    BY <2>2, <2>4, ShrunkTwice DEF e
<1> QED
  BY <1>5, <1>6

(* MakeRoom leaves a pool, and if it succeeds one with room for another    *)
(* model.                                                                  *)
LEMMA MakeRoomFacts ==
    ASSUME NEW l, NEW q, NEW needed, Pool(l, q), Cardinality(Loaded(l)) <= Capacity
    PROVE  /\ Pool(MakeRoom(l, q, needed).loaded, MakeRoom(l, q, needed).lru)
           /\ Shrunk(l, MakeRoom(l, q, needed).loaded)
           /\ Cardinality(Loaded(MakeRoom(l, q, needed).loaded)) <= Capacity
           /\ MakeRoom(l, q, needed).ok =>
                 Cardinality(Loaded(MakeRoom(l, q, needed).loaded)) < Capacity
<1> DEFINE b == EvictUntilBudget(l, q, needed)
           r == MakeRoom(l, q, needed)
<1>1. Pool(b.loaded, b.lru) /\ Shrunk(l, b.loaded)
  BY EvictUntilBudgetFacts
<1>2. r = IF b.ok /\ Cardinality(Loaded(b.loaded)) >= Capacity THEN EvictOne(b.loaded, b.lru) ELSE b
  BY DEF MakeRoom
<1> HIDE DEF b, r
<1>3. ASSUME NEW d, NEW e, Shrunk(d, e)
      PROVE  /\ Loaded(e) \subseteq Loaded(d) /\ IsFiniteSet(Loaded(d)) /\ IsFiniteSet(Loaded(e))
             /\ Cardinality(Loaded(d)) \in Nat /\ Cardinality(Loaded(e)) \in Nat
             /\ Cardinality(Loaded(e)) <= Cardinality(Loaded(d))
  <2>1. Loaded(e) \in SUBSET Loaded(d) /\ Loaded(d) \in SUBSET Models
    BY <1>3 DEF Shrunk, Loaded
  <2>2. IsFiniteSet(Loaded(d))
    BY <2>1, PoolAssumption, FS_Subset
  <2> QED
    BY <2>1, <2>2, FS_Subset, FS_CardinalityType
<1>4. /\ Cardinality(Loaded(b.loaded)) \in Nat /\ Cardinality(Loaded(b.loaded)) <= Capacity
      /\ IsFiniteSet(Loaded(b.loaded))
  <2>1. /\ IsFiniteSet(Loaded(b.loaded)) /\ Cardinality(Loaded(l)) \in Nat
        /\ Cardinality(Loaded(b.loaded)) \in Nat
        /\ Cardinality(Loaded(b.loaded)) <= Cardinality(Loaded(l))
    BY <1>1, <1>3
  <2> QED
    BY <2>1, PoolAssumption
<1>5. CASE b.ok /\ Cardinality(Loaded(b.loaded)) >= Capacity
  <2>1. r = EvictOne(b.loaded, b.lru)
    BY <1>2, <1>5
  <2>2. /\ Pool(r.loaded, r.lru) /\ Shrunk(b.loaded, r.loaded)
        /\ r.ok => \E m \in Loaded(b.loaded) : Loaded(r.loaded) = Loaded(b.loaded) \ {m}
    BY <1>1, <2>1, EvictOneFacts
  <2>3. Shrunk(l, r.loaded)
    BY <1>1, <2>2, ShrunkTwice
  <2>4. /\ Cardinality(Loaded(r.loaded)) \in Nat
        /\ Cardinality(Loaded(r.loaded)) <= Cardinality(Loaded(b.loaded))
    BY <2>2, <1>3
  <2>5. Cardinality(Loaded(r.loaded)) <= Capacity
    BY <2>4, <1>4, PoolAssumption
  <2>6. ASSUME r.ok PROVE Cardinality(Loaded(r.loaded)) < Capacity
    <3>1. PICK m \in Loaded(b.loaded) : Loaded(r.loaded) = Loaded(b.loaded) \ {m}
      BY <2>2, <2>6
    <3>2. Cardinality(Loaded(r.loaded)) = Cardinality(Loaded(b.loaded)) - 1
      BY <3>1, <1>4, FS_RemoveElement
    <3> QED
      BY <3>2, <1>4, PoolAssumption
  <2> QED
    BY <2>2, <2>3, <2>5, <2>6 DEF r
<1>6. CASE ~(b.ok /\ Cardinality(Loaded(b.loaded)) >= Capacity)
  <2>1. r = b
    BY <1>2, <1>6
  <2>2. b.ok => Cardinality(Loaded(b.loaded)) < Capacity
    BY <1>4, <1>6, PoolAssumption
  <2> QED
    BY <1>1, <1>4, <2>1, <2>2 DEF r
<1> QED
  BY <1>5, <1>6

(* A model that is inserted where there is room for it. *)
LEMMA InsertFacts ==
    ASSUME NEW l, NEW q, Pool(l, q), NEW m \in Models, NEW h \in Handle,
           Cardinality(Loaded(l)) < Capacity \/ (m \in Loaded(l) /\ Cardinality(Loaded(l)) <= Capacity)
    PROVE  /\ Pool([l EXCEPT ![m] = h], Touch(q, m))
           /\ Cardinality(Loaded([l EXCEPT ![m] = h])) <= Capacity
           /\ \A n \in Models : [l EXCEPT ![m] = h][n] = IF n = m THEN h ELSE l[n]
<1> DEFINE i == [l EXCEPT ![m] = h]
           t == Touch(q, m)
<1>0. l \in [Models -> Handle \cup {None}] /\ q \in Seq(Models) /\ NoDuplicates(q) /\ Ids(q) = Loaded(l)
  BY DEF Pool
<1>1. t \in Seq(Models) /\ NoDuplicates(t) /\ Ids(t) = Ids(q) \cup {m}
  BY <1>0, TouchLemma
<1>2. /\ i \in [Models -> Handle \cup {None}]
      /\ \A n \in Models : i[n] = IF n = m THEN h ELSE l[n]
  BY <1>0
<1> HIDE DEF i, t
<1>3. h # None
  BY PoolAssumption
<1>4. Loaded(i) = Loaded(l) \cup {m}
  BY <1>2, <1>3 DEF Loaded
<1>5. IsFiniteSet(Loaded(l)) /\ Cardinality(Loaded(l)) \in Nat
  <2>1. Loaded(l) \in SUBSET Models
    BY DEF Loaded
  <2> QED
    BY <2>1, PoolAssumption, FS_Subset, FS_CardinalityType
<1>6. Cardinality(Loaded(i)) = IF m \in Loaded(l) THEN Cardinality(Loaded(l)) ELSE Cardinality(Loaded(l)) + 1
  BY <1>4, <1>5, FS_AddElement
<1>7. Cardinality(Loaded(i)) <= Capacity
  BY <1>5, <1>6, PoolAssumption
<1>8. Pool(i, t)
  BY <1>0, <1>1, <1>2, <1>4 DEF Pool
<1> QED
  BY <1>2, <1>7, <1>8 DEF i, t

----------------------------------------------------------------------------
(* The memory of a pool. *)

Held(l) == [m \in Models |-> l[m].mem]

(* current_mem_bytes is the sum of what the loaded models hold. *)
LEMMA MemIsWeight ==
    ASSUME NEW l, l \in [Models -> Handle \cup {None}]
    PROVE  /\ MemBytes(l) = Weight(Held(l), Loaded(l))
           /\ IsFiniteSet(Loaded(l)) /\ \A m \in Loaded(l) : Held(l)[m] \in Nat
<1> DEFINE S    == Loaded(l)
           P(g) == g = [s \in SUBSET S |-> IF s = {} THEN 0
                            ELSE l[Pick1(s)].mem + g[s \ {Pick1(s)}]]
           h    == CHOOSE g : P(g)
<1>1. S \in SUBSET Models /\ IsFiniteSet(S)
  <2>1. S \in SUBSET Models
    BY DEF Loaded
  <2> QED
    BY <2>1, PoolAssumption, FS_Subset
<1>2. \A m \in S : Held(l)[m] = l[m].mem /\ l[m].mem \in Nat
  <2> SUFFICES ASSUME NEW m \in S PROVE Held(l)[m] = l[m].mem /\ l[m].mem \in Nat
    OBVIOUS
  <2>1. m \in Models /\ l[m] \in Handle
    BY DEF Loaded
  <2> QED
    BY <2>1 DEF Held, Handle
<1>3. MemBytes(l) = h[S]
  BY DEF MemBytes, MapThenSumSet, MapThenFoldSet, Pick1
<1> HIDE DEF S
<1>4. ASSUME NEW g PROVE Summing(Held(l), S, g) <=> P(g)
  <2>1. ASSUME NEW s \in SUBSET S, s # {}
        PROVE  Held(l)[Pick1(s)] = l[Pick1(s)].mem
    BY <1>2, <2>1, Pick1In
  <2>2. [s \in SUBSET S |-> IF s = {} THEN 0 ELSE Held(l)[Pick1(s)] + g[s \ {Pick1(s)}]]
          = [s \in SUBSET S |-> IF s = {} THEN 0 ELSE l[Pick1(s)].mem + g[s \ {Pick1(s)}]]
    BY <2>1
  <2> QED
    BY <2>2 DEF Summing
<1>5. \E g : P(g)
  BY <1>1, <1>4, SummingExists
<1> HIDE DEF P
<1>6. P(h)
  BY <1>5
<1> HIDE DEF h
<1>7. Weight(Held(l), S) = h[S]
  <2>1. Summing(Held(l), S, h) /\ S \in SUBSET S
    BY <1>4, <1>6
  <2> QED
    BY <2>1, <1>1, WeightSumming
<1> QED
  BY <1>1, <1>2, <1>3, <1>7 DEF S

(* A pool with no more models, each holding what it held, needs no more.   *)
LEMMA MemOfLess ==
    ASSUME NEW l, NEW r, l \in [Models -> Handle \cup {None}], r \in [Models -> Handle \cup {None}],
           \A m \in Loaded(r) : m \in Loaded(l) /\ r[m].mem = l[m].mem
    PROVE  MemBytes(l) \in Nat /\ MemBytes(r) \in Nat /\ MemBytes(r) <= MemBytes(l)
<1>1. /\ MemBytes(l) = Weight(Held(l), Loaded(l)) /\ MemBytes(r) = Weight(Held(r), Loaded(r))
      /\ IsFiniteSet(Loaded(l)) /\ IsFiniteSet(Loaded(r))
      /\ \A m \in Loaded(l) : Held(l)[m] \in Nat
  BY MemIsWeight
<1>2. \A m \in Loaded(r) : Held(r)[m] = Held(l)[m]
  BY DEF Held, Loaded
<1>3. Weight(Held(r), Loaded(r)) = Weight(Held(l), Loaded(r))
  BY <1>1, <1>2, WeightSame
<1>4. Loaded(r) \in SUBSET Loaded(l)
  OBVIOUS
<1>5. /\ Weight(Held(l), Loaded(r)) \in Nat /\ Weight(Held(l), Loaded(l)) \in Nat
      /\ Weight(Held(l), Loaded(r)) <= Weight(Held(l), Loaded(l))
  BY <1>1, <1>4, WeightMono
<1> QED
  BY <1>1, <1>3, <1>5

(* A model that is inserted or replaced adds at most what it holds. *)
LEMMA MemOfMore ==
    ASSUME NEW l, l \in [Models -> Handle \cup {None}], NEW m \in Models, NEW h \in Handle
    PROVE  /\ MemBytes(l) \in Nat /\ MemBytes([l EXCEPT ![m] = h]) \in Nat
           /\ MemBytes([l EXCEPT ![m] = h]) <= MemBytes(l) + h.mem
<1> DEFINE i == [l EXCEPT ![m] = h]
<1>1. i \in [Models -> Handle \cup {None}] /\ \A n \in Models : i[n] = IF n = m THEN h ELSE l[n]
  OBVIOUS
<1>2. h # None /\ h.mem \in Nat
  BY PoolAssumption DEF Handle
<1> HIDE DEF i
<1>3. /\ MemBytes(l) = Weight(Held(l), Loaded(l)) /\ MemBytes(i) = Weight(Held(i), Loaded(i))
      /\ IsFiniteSet(Loaded(l)) /\ IsFiniteSet(Loaded(i))
      /\ \A n \in Loaded(l) : Held(l)[n] \in Nat
      /\ \A n \in Loaded(i) : Held(i)[n] \in Nat
  BY <1>1, MemIsWeight
<1> DEFINE rest == Loaded(i) \ {m}
<1>4. m \in Loaded(i) /\ rest \in SUBSET Loaded(l)
  BY <1>1, <1>2 DEF Loaded
<1>5. \A n \in rest : Held(i)[n] = Held(l)[n]
  BY <1>1 DEF Held, Loaded
<1>6. Held(i)[m] = h.mem
  BY <1>1 DEF Held
<1>7. /\ Weight(Held(i), Loaded(i)) = Held(i)[m] + Weight(Held(i), rest)
      /\ Weight(Held(i), Loaded(i)) \in Nat
  BY <1>3, <1>4, WeightRemove
<1> HIDE DEF rest
<1>8. Weight(Held(i), rest) = Weight(Held(l), rest)
  <2>1. IsFiniteSet(rest)
    BY <1>3, <1>4, FS_Subset
  <2> QED
    BY <2>1, <1>5, WeightSame
<1>9. /\ Weight(Held(l), rest) \in Nat /\ Weight(Held(l), Loaded(l)) \in Nat
      /\ Weight(Held(l), rest) <= Weight(Held(l), Loaded(l))
  BY <1>3, <1>4, WeightMono
<1>10. MemBytes(i) \in Nat /\ MemBytes(l) \in Nat /\ MemBytes(i) <= MemBytes(l) + h.mem
  BY <1>2, <1>3, <1>6, <1>7, <1>8, <1>9
<1> QED
  BY <1>10 DEF i

LEMMA MemShrunk ==
    ASSUME NEW l, NEW r, l \in [Models -> Handle \cup {None}], r \in [Models -> Handle \cup {None}],
           Shrunk(l, r)
    PROVE  MemBytes(l) \in Nat /\ MemBytes(r) \in Nat /\ MemBytes(r) <= MemBytes(l)
<1>1. \A m \in Loaded(r) : m \in Loaded(l) /\ r[m].mem = l[m].mem
  BY DEF Shrunk, Loaded
<1> QED
  BY <1>1, MemOfLess

(* An eviction until the budget is met does meet it when it succeeds: the  *)
(* last eviction, if one is tried in vain, fails.                          *)
LEMMA EvictionFits ==
    ASSUME NEW l, NEW q, NEW needed, Pool(l, q), EvictUntilBudget(l, q, needed).ok
    PROVE  Budget = 0 \/ MemBytes(EvictUntilBudget(l, q, needed).loaded) + needed <= Budget
<1> DEFINE front  == {k \in 0..Len(q) : \A i \in 1..k : Idle(l, q[i])}
           enough == {k \in front : Budget = 0 \/ MemBytes(Drop(l, q, k)) + needed <= Budget}
           e      == EvictUntilBudget(l, q, needed)
<1>1. /\ Len(q) \in Nat /\ DOMAIN q = 1..Len(q) /\ \A i \in 1..Len(q) : q[i] \in Models
      /\ q \in Seq(Models)
  BY IdsIndexed DEF Pool
<1>2. e = IF enough # {}
          THEN Result(Drop(l, q, Min(enough)), Rest(q, Min(enough)), TRUE)
          ELSE EvictOne(Drop(l, q, Max(front)), Rest(q, Max(front)))
  BY DEF EvictUntilBudget
<1>3. 0 \in front /\ front \in SUBSET (0..Len(q)) /\ enough \in SUBSET front
  <2>1. 0 \in 0..Len(q) /\ 1..0 = {}
    BY <1>1
  <2> QED
    BY <2>1
<1>4. CASE enough # {}
  <2>1. Min(enough) \in enough
    <3>1. enough \in SUBSET Nat
      BY <1>1
    <3> HIDE DEF enough
    <3> QED
      BY <1>4, <3>1, MinNat
  <2>2. e.loaded = Drop(l, q, Min(enough))
    <3> HIDE DEF e, enough
    <3> QED
      BY <1>2, <1>4 DEF Result
  <2> QED
    BY <2>1, <2>2
<1>5. CASE enough = {}
  <2> DEFINE k == Max(front)
             d == Drop(l, q, k)
             r == Rest(q, k)
  <2>1. k \in front /\ \A j \in front : k >= j
    <3> HIDE DEF front
    <3> QED
      BY <1>1, <1>3, MaxNat
  <2> HIDE DEF k
  <2>2. k \in 0..Len(q) /\ \A i \in 1..k : Idle(l, q[i])
    BY <2>1
  <2>3. e = EvictOne(d, r)
    <3> HIDE DEF e, enough, front, d, r
    <3> QED
      BY <1>2, <1>5 DEF d, r, k
  <2>4. Pool(d, r)
    BY <2>2, DropFacts
  <2>5. ~EvictOne(d, r).ok
    <3>1. CASE r = <<>>
      <4> HIDE DEF d, r
      <4> QED
        BY <3>1 DEF EvictOne, Result
    <3>2. CASE r # <<>>
      <4>1. k < Len(q) /\ Head(r) = q[k + 1]
        <5>1. Len(r) # 0
          BY <2>4, <3>2, EmptySeq DEF Pool
        <5>2. \A i \in (k + 1)..Len(q) : q[i] \in Models
          BY <1>1, <2>2
        <5>3. /\ Len(r) = IF k + 1 <= Len(q) THEN Len(q) - (k + 1) + 1 ELSE 0
              /\ \A i \in 1..(Len(q) - (k + 1) + 1) : r[i] = q[(k + 1) + i - 1]
          BY <1>1, <2>2, <5>2, SubSeqProperties DEF Rest
        <5>4. k + 1 <= Len(q) /\ k \in Nat
          BY <5>1, <5>3, <2>2
        <5>5. r[1] = q[(k + 1) + 1 - 1]
          BY <1>1, <5>3, <5>4
        <5>6. Head(r) = r[1]
          BY <2>4, <3>2, HeadTailProperties DEF Pool
        <5> QED
          BY <1>1, <5>4, <5>5, <5>6
      <4>2. ~Idle(l, q[k + 1])
        <5>1. k + 1 \in 0..Len(q) /\ ~(k + 1 \in front)
          BY <1>1, <2>1, <2>2, <4>1
        <5>2. \E i \in 1..(k + 1) : ~Idle(l, q[i])
          BY <5>1
        <5>3. \A i \in 1..(k + 1) : i \in 1..k \/ i = k + 1
          BY <2>2
        <5> QED
          BY <2>2, <5>2, <5>3
      <4>3. d[q[k + 1]] = l[q[k + 1]]
        <5>1. k + 1 \in 1..Len(q) /\ q[k + 1] \in Models /\ k \in Nat
          BY <1>1, <2>2, <4>1
        <5>2. \A i \in 1..k : q[i] # q[k + 1]
          <6>1. \A i \in 1..k : i \in 1..Len(q) /\ i # k + 1
            BY <1>1, <5>1
          <6> QED
            BY <1>1, <5>1, <6>1 DEF Pool, NoDuplicates
        <5> QED
          BY <5>1, <5>2 DEF Drop
      <4>4. ~Idle(d, Head(r))
        <5> HIDE DEF d, r
        <5> QED
          BY <4>1, <4>2, <4>3 DEF Idle
      <4> HIDE DEF d, r
      <4> QED
        BY <3>2, <4>4 DEF EvictOne, Result
    <3> QED
      BY <3>1, <3>2
  <2> QED
    BY <2>3, <2>5
<1> QED
  BY <1>4, <1>5

(* MakeRoom leaves room in the budget, too, if it succeeds. *)
LEMMA RoomFits ==
    ASSUME NEW l, NEW q, NEW needed \in Nat, Pool(l, q), MakeRoom(l, q, needed).ok
    PROVE  Budget = 0 \/ MemBytes(MakeRoom(l, q, needed).loaded) + needed <= Budget
<1> DEFINE b == EvictUntilBudget(l, q, needed)
           r == MakeRoom(l, q, needed)
<1>1. Pool(b.loaded, b.lru)
  BY EvictUntilBudgetFacts
<1>2. r = IF b.ok /\ Cardinality(Loaded(b.loaded)) >= Capacity THEN EvictOne(b.loaded, b.lru) ELSE b
  BY DEF MakeRoom
<1>3. b.ok => Budget = 0 \/ MemBytes(b.loaded) + needed <= Budget
  BY EvictionFits
<1> HIDE DEF b, r
<1>4. CASE b.ok /\ Cardinality(Loaded(b.loaded)) >= Capacity
  <2>1. r = EvictOne(b.loaded, b.lru)
    BY <1>2, <1>4
  <2>2. Shrunk(b.loaded, r.loaded) /\ Pool(r.loaded, r.lru)
    BY <1>1, <2>1, EvictOneFacts
  <2>3. /\ MemBytes(b.loaded) \in Nat /\ MemBytes(r.loaded) \in Nat
        /\ MemBytes(r.loaded) <= MemBytes(b.loaded)
    BY <1>1, <2>2, MemShrunk DEF Pool
  <2>4. Budget = 0 \/ MemBytes(r.loaded) + needed <= Budget
    BY <1>3, <1>4, <2>3, PoolAssumption
  <2> QED
    BY <2>4 DEF r
<1>5. CASE ~(b.ok /\ Cardinality(Loaded(b.loaded)) >= Capacity)
  <2>1. r = b /\ r.ok
    BY <1>2, <1>5 DEF r
  <2>2. Budget = 0 \/ MemBytes(r.loaded) + needed <= Budget
    BY <1>3, <2>1
  <2> QED
    BY <2>2 DEF r
<1> QED
  BY <1>4, <1>5

----------------------------------------------------------------------------
(* The inductive invariant.                                                *)

(* Map, queue and limits, which evictions and insertions work on. *)
PoolInv ==
    /\ Pool(loaded, lru) /\ Cardinality(Loaded(loaded)) <= Capacity
    /\ registry \subseteq Models /\ orphaned \subseteq Models
    /\ pending \in [Models -> {None, "loading", "failed"}]
    /\ loads \in [Models -> 0..MaxLoads]
    /\ using \in [Users -> Models \cup {None}]

(* The count of a handle never exceeds the callers that may release it,    *)
(* and counts exactly those unless the handle was taken from under one.    *)
Counted(m) ==
    /\ loaded[m] # None => loaded[m].inflight <= Cardinality(UsersOf(m))
    /\ m \notin orphaned =>
          IF loaded[m] = None THEN UsersOf(m) = {}
          ELSE loaded[m].inflight = Cardinality(UsersOf(m))

IInv == PoolInv /\ \A m \in Models : Counted(m)

LEMMA InitIInv == Init => IInv
<1> SUFFICES ASSUME Init PROVE IInv
  OBVIOUS
<1>1. /\ loaded = [m \in Models |-> None] /\ lru = <<>> /\ registry = {} /\ orphaned = {}
      /\ pending = [m \in Models |-> None] /\ loads = [m \in Models |-> 0]
      /\ using = [u \in Users |-> None]
  BY DEF Init
<1>2. Loaded(loaded) = {} /\ \A m \in Models : loaded[m] = None
  BY <1>1 DEF Loaded
<1>3. lru \in Seq(Models) /\ Ids(lru) = {} /\ NoDuplicates(lru)
  <2>1. lru \in Seq(Models) /\ Len(lru) = 0
    BY <1>1, EmptySeq
  <2>2. DOMAIN lru = 1..0
    BY <2>1, LenProperties
  <2> QED
    BY <2>1, <2>2 DEF Ids, NoDuplicates
<1>4. Pool(loaded, lru)
  BY <1>1, <1>2, <1>3 DEF Pool
<1>5. Cardinality(Loaded(loaded)) <= Capacity
  BY <1>2, FS_EmptySet, PoolAssumption
<1>6. 0 \in 0..MaxLoads
  BY PoolAssumption
<1>7. PoolInv
  BY <1>1, <1>4, <1>5, <1>6 DEF PoolInv
<1>8. \A m \in Models : UsersOf(m) = {}
  BY <1>1, PoolAssumption DEF UsersOf
<1> QED
  BY <1>2, <1>7, <1>8 DEF IInv, Counted

LEMMA UsersFinite ==
    ASSUME NEW m
    PROVE  /\ IsFiniteSet(UsersOf(m)) /\ Cardinality(UsersOf(m)) \in Nat
           /\ Cardinality(UsersOf(m)) = 0 <=> UsersOf(m) = {}
<1>1. UsersOf(m) \in SUBSET Users
  BY DEF UsersOf
<1>2. IsFiniteSet(UsersOf(m))
  BY <1>1, PoolAssumption, FS_Subset
<1> QED
  BY <1>2, FS_CardinalityType, FS_EmptySet

(* One more caller, or one less. *)
LEMMA UsersGrow ==
    ASSUME PoolInv, NEW u \in Users, NEW m \in Models, using[u] = None,
           using' = [using EXCEPT ![u] = m]
    PROVE  /\ using' \in [Users -> Models \cup {None}]
           /\ Cardinality(UsersOf(m)') = Cardinality(UsersOf(m)) + 1
           /\ \A n \in Models : n # m => UsersOf(n)' = UsersOf(n)
<1>1. using \in [Users -> Models \cup {None}] /\ None \notin Models
  BY PoolAssumption DEF PoolInv
<1>2. using' \in [Users -> Models \cup {None}]
  BY <1>1
<1>3. \A v \in Users : using'[v] = IF v = u THEN m ELSE using[v]
  BY <1>1
<1>4. UsersOf(m)' = UsersOf(m) \cup {u} /\ u \notin UsersOf(m)
  BY <1>1, <1>3 DEF UsersOf
<1>5. \A n \in Models : n # m => UsersOf(n)' = UsersOf(n)
  BY <1>1, <1>3 DEF UsersOf
<1>6. Cardinality(UsersOf(m) \cup {u}) = Cardinality(UsersOf(m)) + 1
  BY <1>4, UsersFinite, FS_AddElement
<1> QED
  BY <1>2, <1>4, <1>5, <1>6

LEMMA UsersShrink ==
    ASSUME PoolInv, NEW u \in Users, using[u] # None, using' = [using EXCEPT ![u] = None]
    PROVE  /\ using' \in [Users -> Models \cup {None}] /\ using[u] \in Models
           /\ u \in UsersOf(using[u])
           /\ {v \in Users : using'[v] = using[u]} = UsersOf(using[u]) \ {u}
           /\ Cardinality(UsersOf(using[u]) \ {u}) = Cardinality(UsersOf(using[u])) - 1
           /\ \A n \in Models : n # using[u] => UsersOf(n)' = UsersOf(n)
<1>1. using \in [Users -> Models \cup {None}] /\ None \notin Models
  BY PoolAssumption DEF PoolInv
<1>2. using' \in [Users -> Models \cup {None}] /\ using[u] \in Models
  BY <1>1
<1>3. \A v \in Users : using'[v] = IF v = u THEN None ELSE using[v]
  BY <1>1
<1>4. u \in UsersOf(using[u])
  BY DEF UsersOf
<1>5. {v \in Users : using'[v] = using[u]} = UsersOf(using[u]) \ {u}
  BY <1>1, <1>2, <1>3 DEF UsersOf
<1>6. \A n \in Models : n # using[u] => UsersOf(n)' = UsersOf(n)
  BY <1>1, <1>3 DEF UsersOf
<1>7. Cardinality(UsersOf(using[u]) \ {u}) = Cardinality(UsersOf(using[u])) - 1
  BY <1>4, UsersFinite, FS_RemoveElement
<1> QED
  BY <1>2, <1>4, <1>5, <1>6, <1>7

(* Evicting an idle model disturbs no count. *)
LEMMA CountKept ==
    ASSUME NEW m \in Models, Counted(m), UsersOf(m)' = UsersOf(m),
           m \in orphaned => m \in orphaned',
           loaded'[m] = loaded[m] \/ (loaded'[m] = None /\ Idle(loaded, m))
    PROVE  Counted(m)'
<1>1. CASE loaded'[m] = loaded[m]
  BY <1>1 DEF Counted
<1>2. CASE loaded'[m] = None /\ Idle(loaded, m)
  <2>1. m \notin orphaned' => UsersOf(m) = {}
    BY <1>2, UsersFinite DEF Counted, Idle
  <2> QED
    BY <1>2, <2>1 DEF Counted
<1> QED
  BY <1>1, <1>2

----------------------------------------------------------------------------
(* One lemma for each action.                                              *)

(* What making room for a model leaves. *)
LEMMA RoomFacts ==
    ASSUME PoolInv, NEW needed
    PROVE  LET r == MakeRoom(loaded, lru, needed)
           IN  /\ Pool(r.loaded, r.lru) /\ Cardinality(Loaded(r.loaded)) <= Capacity
               /\ r.ok => Cardinality(Loaded(r.loaded)) < Capacity
               /\ \A n \in Models : r.loaded[n] = loaded[n] \/ (r.loaded[n] = None /\ Idle(loaded, n))
BY MakeRoomFacts DEF PoolInv, Shrunk

LEMMA HandleFacts ==
    ASSUME PoolInv, NEW m \in Models, loaded[m] # None
    PROVE  /\ loaded[m].inflight \in Nat
           /\ \A k \in Nat : [loaded[m] EXCEPT !.inflight = k] \in Handle
           /\ \A k \in Nat : [loaded EXCEPT ![m].inflight = k]
                                = [loaded EXCEPT ![m] = [loaded[m] EXCEPT !.inflight = k]]
<1>1. loaded[m] \in [mem : Nat, inflight : Nat]
  BY DEF PoolInv, Pool, Handle
<1> QED
  BY <1>1 DEF Handle

LEMMA AcquireLoadedStep ==
    ASSUME IInv, NEW u \in Users, NEW m \in Models, AcquireLoaded(u, m)
    PROVE  IInv'
<1> DEFINE k == loaded[m].inflight + 1
           h == [loaded[m] EXCEPT !.inflight = k]
<1>0. PoolInv /\ \A n \in Models : Counted(n)
  BY DEF IInv
<1>1. /\ using[u] = None /\ loaded[m] # None
      /\ loaded' = [loaded EXCEPT ![m].inflight = k] /\ lru' = Touch(lru, m)
      /\ using' = [using EXCEPT ![u] = m]
      /\ UNCHANGED <<registry, pending, loads, orphaned>>
  BY DEF AcquireLoaded
<1>2. loaded[m].inflight \in Nat /\ k \in Nat /\ h \in Handle /\ loaded' = [loaded EXCEPT ![m] = h]
  BY <1>0, <1>1, HandleFacts
<1>3. h.inflight = k
  <2>1. loaded[m] \in [mem : Nat, inflight : Nat]
    BY <1>0, <1>1 DEF PoolInv, Pool, Handle
  <2> QED
    BY <2>1
<1> HIDE DEF h
<1>4. /\ Pool(loaded', lru') /\ Cardinality(Loaded(loaded')) <= Capacity
      /\ \A n \in Models : loaded'[n] = IF n = m THEN h ELSE loaded[n]
  <2>1. Pool(loaded, lru) /\ m \in Loaded(loaded) /\ Cardinality(Loaded(loaded)) <= Capacity
    BY <1>0, <1>1 DEF PoolInv, Loaded
  <2>2. h \in Handle
    BY <1>2
  <2>3. /\ Pool([loaded EXCEPT ![m] = h], Touch(lru, m))
        /\ Cardinality(Loaded([loaded EXCEPT ![m] = h])) <= Capacity
        /\ \A n \in Models : [loaded EXCEPT ![m] = h][n] = IF n = m THEN h ELSE loaded[n]
    BY <2>1, <2>2, InsertFacts
  <2> QED
    BY <1>1, <1>2, <2>3
<1>5. /\ using' \in [Users -> Models \cup {None}]
      /\ Cardinality(UsersOf(m)') = Cardinality(UsersOf(m)) + 1
      /\ \A n \in Models : n # m => UsersOf(n)' = UsersOf(n)
  BY <1>0, <1>1, UsersGrow
<1>6. PoolInv'
  BY <1>0, <1>1, <1>4, <1>5 DEF PoolInv
<1>7. Counted(m)'
  <2>1. /\ loaded[m].inflight <= Cardinality(UsersOf(m))
        /\ m \notin orphaned => loaded[m].inflight = Cardinality(UsersOf(m))
        /\ Cardinality(UsersOf(m)) \in Nat
    BY <1>0, <1>1, UsersFinite DEF Counted
  <2>2. /\ k <= Cardinality(UsersOf(m)')
        /\ m \notin orphaned => k = Cardinality(UsersOf(m)')
    BY <1>2, <1>5, <2>1
  <2>3. loaded'[m] = h /\ h # None
    BY <1>2, <1>4, PoolAssumption
  <2> QED
    BY <1>1, <1>3, <2>2, <2>3 DEF Counted
<1>8. ASSUME NEW n \in Models, n # m PROVE Counted(n)'
  <2>1. Counted(n) /\ UsersOf(n)' = UsersOf(n) /\ loaded'[n] = loaded[n] /\ orphaned' = orphaned
    BY <1>0, <1>1, <1>4, <1>5, <1>8
  <2> QED
    BY <2>1, CountKept
<1> QED
  BY <1>6, <1>7, <1>8 DEF IInv

LEMMA AcquireLoadsStep ==
    ASSUME IInv, NEW u \in Users, NEW m \in Models, AcquireLoads(u, m)
    PROVE  IInv'
<1> DEFINE r == MakeRoom(loaded, lru, MemOf[m])
           h == [mem |-> MemOf[m], inflight |-> 1]
<1>0. PoolInv /\ \A n \in Models : Counted(n)
  BY DEF IInv
<1>1. /\ using[u] = None /\ loaded[m] = None /\ r.ok
      /\ loaded' = [r.loaded EXCEPT ![m] = h] /\ lru' = Touch(r.lru, m)
      /\ using' = [using EXCEPT ![u] = m]
      /\ UNCHANGED <<registry, pending, loads, orphaned>>
  BY DEF AcquireLoads
<1>2. h \in Handle /\ h.inflight = 1 /\ h # None
  BY PoolAssumption DEF Handle
<1>3. /\ Pool(r.loaded, r.lru) /\ Cardinality(Loaded(r.loaded)) < Capacity
      /\ \A n \in Models : r.loaded[n] = loaded[n] \/ (r.loaded[n] = None /\ Idle(loaded, n))
  BY <1>0, <1>1, RoomFacts
<1> HIDE DEF r, h
<1>4. /\ Pool(loaded', lru') /\ Cardinality(Loaded(loaded')) <= Capacity
      /\ \A n \in Models : loaded'[n] = IF n = m THEN h ELSE r.loaded[n]
  BY <1>1, <1>2, <1>3, InsertFacts
<1>5. /\ using' \in [Users -> Models \cup {None}]
      /\ Cardinality(UsersOf(m)') = Cardinality(UsersOf(m)) + 1
      /\ \A n \in Models : n # m => UsersOf(n)' = UsersOf(n)
  BY <1>0, <1>1, UsersGrow
<1>6. PoolInv'
  BY <1>0, <1>1, <1>4, <1>5 DEF PoolInv
<1>7. Counted(m)'
  <2>1. Cardinality(UsersOf(m)) \in Nat /\ (m \notin orphaned => Cardinality(UsersOf(m)) = 0)
    BY <1>0, <1>1, UsersFinite DEF Counted
  <2>2. 1 <= Cardinality(UsersOf(m)') /\ (m \notin orphaned => Cardinality(UsersOf(m)') = 1)
    BY <1>5, <2>1
  <2>3. loaded'[m] = h
    BY <1>4
  <2> QED
    BY <1>1, <1>2, <2>2, <2>3 DEF Counted
<1>8. ASSUME NEW n \in Models, n # m PROVE Counted(n)'
  <2>1. /\ Counted(n) /\ UsersOf(n)' = UsersOf(n) /\ orphaned' = orphaned
        /\ loaded'[n] = loaded[n] \/ (loaded'[n] = None /\ Idle(loaded, n))
    BY <1>0, <1>1, <1>3, <1>4, <1>5, <1>8
  <2> QED
    BY <2>1, CountKept
<1> QED
  BY <1>6, <1>7, <1>8 DEF IInv

(* Evictions without an insertion: a failing acquire, a dropped load.      *)
LEMMA EvictionsOnly ==
    ASSUME IInv, NEW needed,
           loaded' = MakeRoom(loaded, lru, needed).loaded, lru' = MakeRoom(loaded, lru, needed).lru,
           loads' \in [Models -> 0..MaxLoads], UNCHANGED <<registry, pending, using, orphaned>>
    PROVE  IInv'
<1>0. PoolInv /\ \A n \in Models : Counted(n)
  BY DEF IInv
<1>1. /\ Pool(loaded', lru') /\ Cardinality(Loaded(loaded')) <= Capacity
      /\ \A n \in Models : loaded'[n] = loaded[n] \/ (loaded'[n] = None /\ Idle(loaded, n))
  BY <1>0, RoomFacts
<1>2. PoolInv'
  BY <1>0, <1>1 DEF PoolInv
<1>3. ASSUME NEW n \in Models PROVE Counted(n)'
  <2>1. UsersOf(n)' = UsersOf(n)
    BY DEF UsersOf
  <2> QED
    BY <1>0, <1>1, <2>1, CountKept
<1> QED
  BY <1>2, <1>3 DEF IInv

LEMMA ReleaseStep ==
    ASSUME IInv, NEW u \in Users, Release(u)
    PROVE  IInv'
<1>0. PoolInv /\ \A n \in Models : Counted(n)
  BY DEF IInv
<1>1. using[u] # None /\ using' = [using EXCEPT ![u] = None] /\ UNCHANGED <<registry, pending, lru, loads>>
  BY DEF Release
<1>2. PICK m \in Models : m = using[u]
  BY <1>0, <1>1, UsersShrink
<1>3. /\ loaded' = IF loaded[m] = None \/ loaded[m].inflight = 0 THEN loaded
                   ELSE [loaded EXCEPT ![m].inflight = loaded[m].inflight - 1]
      /\ orphaned' = IF UsersOf(m) = {u} THEN orphaned \ {m} ELSE orphaned
  BY <1>2 DEF Release
<1>4. /\ using' \in [Users -> Models \cup {None}] /\ u \in UsersOf(m)
      /\ UsersOf(m)' = UsersOf(m) \ {u}
      /\ Cardinality(UsersOf(m) \ {u}) = Cardinality(UsersOf(m)) - 1
      /\ \A n \in Models : n # m => UsersOf(n)' = UsersOf(n)
  BY <1>0, <1>1, <1>2, UsersShrink, ZenonT(40) DEF UsersOf
<1>5. Cardinality(UsersOf(m)) \in Nat \ {0}
  BY <1>4, UsersFinite
<1>6. CASE loaded[m] = None \/ loaded[m].inflight = 0
  <2>1. loaded' = loaded
    BY <1>3, <1>6
  <2>2. PoolInv'
    BY <1>0, <1>1, <1>3, <1>4, <2>1 DEF PoolInv
  <2>3. Counted(m)'
    <3>1. m \in orphaned
      BY <1>0, <1>4, <1>5, <1>6 DEF Counted
    <3>2. m \notin orphaned' => UsersOf(m)' = {}
      BY <1>3, <1>4, <3>1
    <3>3. 0 <= Cardinality(UsersOf(m)') /\ (UsersOf(m)' = {} => Cardinality(UsersOf(m)') = 0)
      BY <1>4, <1>5, FS_EmptySet
    <3> QED
      BY <1>6, <2>1, <3>2, <3>3 DEF Counted
  <2>4. ASSUME NEW n \in Models, n # m PROVE Counted(n)'
    <3>1. /\ Counted(n) /\ UsersOf(n)' = UsersOf(n) /\ loaded'[n] = loaded[n]
          /\ (n \in orphaned => n \in orphaned')
      BY <1>0, <1>3, <1>4, <2>1, <2>4
    <3> QED
      BY <3>1, CountKept
  <2> QED
    BY <2>2, <2>3, <2>4 DEF IInv
<1>7. CASE ~(loaded[m] = None \/ loaded[m].inflight = 0)
  <2> DEFINE k == loaded[m].inflight - 1
             h == [loaded[m] EXCEPT !.inflight = k]
  <2>0. loaded[m].inflight \in Nat \ {0} /\ k \in Nat
    BY <1>0, <1>7, HandleFacts
  <2>1. h \in Handle /\ loaded' = [loaded EXCEPT ![m] = h]
    BY <1>0, <1>3, <1>7, <2>0, HandleFacts
  <2>2. loaded[m] \in [mem : Nat, inflight : Nat] /\ loaded \in [Models -> Handle \cup {None}]
    BY <1>0, <1>7 DEF PoolInv, Pool, Handle
  <2>3. h.inflight = k /\ h # None
    BY <2>1, <2>2, PoolAssumption
  <2> HIDE DEF h
  <2>4. \A n \in Models : loaded'[n] = IF n = m THEN h ELSE loaded[n]
    BY <2>1, <2>2
  <2>5. loaded' \in [Models -> Handle \cup {None}] /\ Loaded(loaded') = Loaded(loaded)
    BY <1>7, <2>1, <2>2, <2>3, <2>4 DEF Loaded
  <2>6. PoolInv'
    BY <1>0, <1>1, <1>3, <1>4, <2>5 DEF PoolInv, Pool
  <2>7. Counted(m)'
    <3>1. /\ loaded[m].inflight <= Cardinality(UsersOf(m))
          /\ m \notin orphaned => loaded[m].inflight = Cardinality(UsersOf(m))
      BY <1>0, <1>7 DEF Counted
    <3>2. /\ k <= Cardinality(UsersOf(m)')
          /\ m \notin orphaned => k = Cardinality(UsersOf(m)')
      BY <1>4, <1>5, <2>0, <3>1
    <3>3. m \in orphaned /\ m \notin orphaned' => Cardinality(UsersOf(m)') = 0
      BY <1>3, <1>4, FS_EmptySet
    <3>4. Cardinality(UsersOf(m)') = 0 => k = Cardinality(UsersOf(m)')
      BY <2>0, <3>2
    <3> QED
      BY <2>3, <2>4, <3>2, <3>3, <3>4 DEF Counted
  <2>8. ASSUME NEW n \in Models, n # m PROVE Counted(n)'
    <3>1. /\ Counted(n) /\ UsersOf(n)' = UsersOf(n) /\ loaded'[n] = loaded[n]
          /\ (n \in orphaned => n \in orphaned')
      BY <1>0, <1>3, <1>4, <2>4, <2>8
    <3> QED
      BY <3>1, CountKept
  <2> QED
    BY <2>6, <2>7, <2>8 DEF IInv
<1> QED
  BY <1>6, <1>7

LEMMA UnloadStep ==
    ASSUME IInv, NEW m \in Models, Unload(m)
    PROVE  IInv'
<1>0. PoolInv /\ \A n \in Models : Counted(n)
  BY DEF IInv
<1>1. /\ loaded[m] # None /\ loaded' = [loaded EXCEPT ![m] = None] /\ lru' = Remove(lru, m)
      /\ pending' = [pending EXCEPT ![m] = None]
      /\ orphaned' = IF UsersOf(m) # {} THEN orphaned \cup {m} ELSE orphaned
      /\ UNCHANGED <<registry, loads, using>>
  BY DEF Unload
<1>2. /\ loaded \in [Models -> Handle \cup {None}] /\ lru \in Seq(Models) /\ NoDuplicates(lru)
      /\ Ids(lru) = Loaded(loaded) /\ Cardinality(Loaded(loaded)) <= Capacity
  BY <1>0 DEF PoolInv, Pool
<1>3. /\ loaded' \in [Models -> Handle \cup {None}]
      /\ \A n \in Models : loaded'[n] = IF n = m THEN None ELSE loaded[n]
  BY <1>1, <1>2
<1>4. Loaded(loaded') = Loaded(loaded) \ {m}
  BY <1>3 DEF Loaded
<1>5. lru' \in Seq(Models) /\ NoDuplicates(lru') /\ Ids(lru') = Loaded(loaded')
  <2>1. /\ Remove(lru, m) \in Seq(Models) /\ NoDuplicates(Remove(lru, m))
        /\ Ids(Remove(lru, m)) = Ids(lru) \ {m}
    BY <1>2, RemoveLemma
  <2> QED
    BY <1>1, <1>2, <1>4, <2>1
<1>6. Cardinality(Loaded(loaded')) <= Capacity
  <2>1. Loaded(loaded) \in SUBSET Models
    BY DEF Loaded
  <2>2. IsFiniteSet(Loaded(loaded)) /\ Cardinality(Loaded(loaded)) \in Nat
    BY <2>1, PoolAssumption, FS_Subset, FS_CardinalityType
  <2>3. Cardinality(Loaded(loaded) \ {m}) \in {Cardinality(Loaded(loaded)), Cardinality(Loaded(loaded)) - 1}
    BY <2>2, FS_RemoveElement
  <2> QED
    BY <1>2, <1>4, <2>2, <2>3, PoolAssumption
<1>7. pending' \in [Models -> {None, "loading", "failed"}]
  BY <1>0, <1>1 DEF PoolInv
<1>8. PoolInv'
  BY <1>0, <1>1, <1>3, <1>5, <1>6, <1>7 DEF PoolInv, Pool
<1>9. ASSUME NEW n \in Models PROVE Counted(n)'
  <2>1. UsersOf(n)' = UsersOf(n) /\ Counted(n)
    BY <1>0, <1>1 DEF UsersOf
  <2>2. CASE n = m
    <3>1. n \notin orphaned' => UsersOf(n) = {}
      BY <1>1, <2>2
    <3> QED
      BY <1>3, <2>1, <2>2, <3>1 DEF Counted
  <2>3. CASE n # m
    <3>1. loaded'[n] = loaded[n] /\ (n \in orphaned => n \in orphaned')
      BY <1>1, <1>3, <2>3
    <3> QED
      BY <2>1, <3>1, CountKept
  <2> QED
    BY <2>2, <2>3
<1> QED
  BY <1>8, <1>9 DEF IInv

LEMMA LoadReadyStep ==
    ASSUME IInv, NEW m \in Models, LoadReady(m)
    PROVE  IInv'
<1> DEFINE r == MakeRoom(loaded, lru, 0)
           h == [mem |-> 0, inflight |-> 0]
<1>0. PoolInv /\ \A n \in Models : Counted(n)
  BY DEF IInv
<1>1. /\ loads[m] > 0 /\ r.ok
      /\ loaded' = [r.loaded EXCEPT ![m] = h] /\ lru' = Touch(r.lru, m)
      /\ orphaned' = IF UsersOf(m) # {} THEN orphaned \cup {m} ELSE orphaned
      /\ pending' = [pending EXCEPT ![m] = None]
      /\ loads' = [loads EXCEPT ![m] = loads[m] - 1]
      /\ UNCHANGED <<registry, using>>
  BY DEF LoadReady
<1>2. h \in Handle /\ h.inflight = 0 /\ h # None
  BY PoolAssumption DEF Handle
<1>3. /\ Pool(r.loaded, r.lru) /\ Cardinality(Loaded(r.loaded)) < Capacity
      /\ \A n \in Models : r.loaded[n] = loaded[n] \/ (r.loaded[n] = None /\ Idle(loaded, n))
  BY <1>0, <1>1, RoomFacts
<1> HIDE DEF r, h
<1>4. /\ Pool(loaded', lru') /\ Cardinality(Loaded(loaded')) <= Capacity
      /\ \A n \in Models : loaded'[n] = IF n = m THEN h ELSE r.loaded[n]
  BY <1>1, <1>2, <1>3, InsertFacts
<1>5. pending' \in [Models -> {None, "loading", "failed"}]
  BY <1>0, <1>1 DEF PoolInv
<1>6. loads' \in [Models -> 0..MaxLoads]
  <2>1. loads \in [Models -> 0..MaxLoads] /\ MaxLoads \in Nat
    BY <1>0, PoolAssumption DEF PoolInv
  <2>2. loads[m] - 1 \in 0..MaxLoads
    BY <2>1, <1>1
  <2> QED
    BY <2>1, <2>2, <1>1
<1>7. PoolInv'
  BY <1>0, <1>1, <1>4, <1>5, <1>6 DEF PoolInv
<1>8. ASSUME NEW n \in Models PROVE Counted(n)'
  <2>1. UsersOf(n)' = UsersOf(n) /\ Counted(n)
    BY <1>0, <1>1 DEF UsersOf
  <2>2. CASE n = m
    <3>1. loaded'[n] = h /\ 0 <= Cardinality(UsersOf(n))
      BY <1>4, <2>2, UsersFinite
    <3>2. n \notin orphaned' => Cardinality(UsersOf(n)) = 0
      BY <1>1, <2>2, UsersFinite
    <3> QED
      BY <1>2, <2>1, <3>1, <3>2 DEF Counted
  <2>3. CASE n # m
    <3>1. /\ loaded'[n] = loaded[n] \/ (loaded'[n] = None /\ Idle(loaded, n))
          /\ n \in orphaned => n \in orphaned'
      BY <1>1, <1>3, <1>4, <2>3
    <3> QED
      BY <2>1, <3>1, CountKept
  <2> QED
    BY <2>2, <2>3
<1> QED
  BY <1>7, <1>8 DEF IInv

(* Steps that touch no handle and no caller. *)
LEMMA BookkeepingStep ==
    ASSUME IInv, UNCHANGED <<loaded, lru, using, orphaned>>,
           registry' \subseteq Models, pending' \in [Models -> {None, "loading", "failed"}],
           loads' \in [Models -> 0..MaxLoads]
    PROVE  IInv'
<1>1. PoolInv /\ \A n \in Models : Counted(n)
  BY DEF IInv
<1>2. PoolInv'
  BY <1>1 DEF PoolInv
<1>3. ASSUME NEW n \in Models PROVE Counted(n)'
  BY <1>1 DEF Counted, UsersOf
<1> QED
  BY <1>2, <1>3 DEF IInv

LEMMA StepIInv ==
    ASSUME IInv, [Next]_vars
    PROVE  IInv'
<1>0. /\ registry \subseteq Models /\ pending \in [Models -> {None, "loading", "failed"}]
      /\ loads \in [Models -> 0..MaxLoads] /\ MaxLoads \in Nat
  BY PoolAssumption DEF IInv, PoolInv
<1>1. ASSUME NEW u \in Users, NEW m \in Models, AcquireLoaded(u, m) PROVE IInv'
  BY <1>1, AcquireLoadedStep
<1>2. ASSUME NEW u \in Users, NEW m \in Models, AcquireLoads(u, m) PROVE IInv'
  BY <1>2, AcquireLoadsStep
<1>3. ASSUME NEW u \in Users, NEW m \in Models, AcquireFails(u, m) PROVE IInv'
  BY <1>0, <1>3, EvictionsOnly DEF AcquireFails
<1>4. ASSUME NEW u \in Users, Release(u) PROVE IInv'
  BY <1>4, ReleaseStep
<1>5. ASSUME NEW m \in Models, Unload(m) PROVE IInv'
  BY <1>5, UnloadStep
<1>6. ASSUME NEW m \in Models, Register(m) PROVE IInv'
  <2>1. registry' \subseteq Models /\ UNCHANGED <<loaded, pending, lru, loads, using, orphaned>>
    BY <1>0, <1>6 DEF Register
  <2> QED
    BY <1>0, <2>1, BookkeepingStep
<1>7. ASSUME NEW m \in Models, LoadRequest(m) PROVE IInv'
  <2>1. registry' \subseteq Models /\ UNCHANGED <<loaded, lru, using, orphaned>>
    BY <1>0, <1>7 DEF LoadRequest
  <2>2. pending' \in [Models -> {None, "loading", "failed"}]
    BY <1>0, <1>7 DEF LoadRequest
  <2>3. loads' \in [Models -> 0..MaxLoads]
    <3>1. loads[m] + 1 \in 0..MaxLoads /\ loads' = [loads EXCEPT ![m] = loads[m] + 1]
      BY <1>0, <1>7 DEF LoadRequest
    <3> QED
      BY <1>0, <3>1
  <2> QED
    BY <2>1, <2>2, <2>3, BookkeepingStep
<1>8. ASSUME NEW m \in Models, LoadReady(m) PROVE IInv'
  BY <1>8, LoadReadyStep
<1>9. ASSUME NEW m \in Models, LoadDropped(m) PROVE IInv'
  <2>1. loads[m] - 1 \in 0..MaxLoads /\ loads' = [loads EXCEPT ![m] = loads[m] - 1]
    BY <1>0, <1>9 DEF LoadDropped
  <2>2. loads' \in [Models -> 0..MaxLoads]
    BY <1>0, <2>1
  <2> QED
    BY <2>2, <1>9, EvictionsOnly DEF LoadDropped
<1>10. ASSUME NEW m \in Models, LoadFailed(m) PROVE IInv'
  <2>1. loads[m] - 1 \in 0..MaxLoads /\ loads' = [loads EXCEPT ![m] = loads[m] - 1]
    BY <1>0, <1>10 DEF LoadFailed
  <2>2. loads' \in [Models -> 0..MaxLoads]
    BY <1>0, <2>1
  <2>3. pending' \in [Models -> {None, "loading", "failed"}]
    BY <1>0, <1>10 DEF LoadFailed
  <2>4. registry' \subseteq Models /\ UNCHANGED <<loaded, lru, using, orphaned>>
    BY <1>0, <1>10 DEF LoadFailed
  <2> QED
    BY <2>2, <2>3, <2>4, BookkeepingStep
<1>11. CASE UNCHANGED vars
  BY <1>0, <1>11, BookkeepingStep DEF vars
<1> QED
  BY <1>1, <1>2, <1>3, <1>4, <1>5, <1>6, <1>7, <1>8, <1>9, <1>10, <1>11 DEF Next

----------------------------------------------------------------------------
(* The memory budget, in the pools of the inductive invariant.             *)

Fits(l) == Budget = 0 \/ MemBytes(l) <= Budget

(* Changing a count changes no memory. *)
LEMMA CountHoldsNothing ==
    ASSUME NEW l, l \in [Models -> Handle \cup {None}], NEW m \in Models, l[m] # None,
           NEW k \in Nat, Fits(l)
    PROVE  Fits([l EXCEPT ![m].inflight = k])
<1> DEFINE h == [l[m] EXCEPT !.inflight = k]
           r == [l EXCEPT ![m] = h]
<1>1. l[m] \in [mem : Nat, inflight : Nat]
  BY DEF Handle
<1>2. h \in Handle /\ h.mem = l[m].mem /\ r = [l EXCEPT ![m].inflight = k]
  BY <1>1 DEF Handle
<1> HIDE DEF h
<1>3. r \in [Models -> Handle \cup {None}] /\ \A n \in Models : r[n] = IF n = m THEN h ELSE l[n]
  BY <1>2
<1> HIDE DEF r
<1>4. \A n \in Loaded(r) : n \in Loaded(l) /\ r[n].mem = l[n].mem
  BY <1>2, <1>3 DEF Loaded
<1>5. MemBytes(l) \in Nat /\ MemBytes(r) \in Nat /\ MemBytes(r) <= MemBytes(l)
  BY <1>3, <1>4, MemOfLess
<1>6. Fits(r)
  BY <1>5, PoolAssumption DEF Fits
<1> QED
  BY <1>2, <1>6

(* A model inserted where MakeRoom succeeded, with the memory it was asked *)
(* to make room for.                                                       *)
LEMMA InsertionFits ==
    ASSUME PoolInv, NEW needed \in Nat, MakeRoom(loaded, lru, needed).ok,
           NEW m \in Models, NEW k \in Nat
    PROVE  Fits([MakeRoom(loaded, lru, needed).loaded EXCEPT ![m] = [mem |-> needed, inflight |-> k]])
<1> DEFINE r == MakeRoom(loaded, lru, needed).loaded
           h == [mem |-> needed, inflight |-> k]
           i == [r EXCEPT ![m] = h]
<1>1. r \in [Models -> Handle \cup {None}]
  BY RoomFacts DEF Pool
<1>2. Budget = 0 \/ MemBytes(r) + needed <= Budget
  BY RoomFits DEF PoolInv
<1>3. h \in Handle /\ h.mem = needed
  BY DEF Handle
<1> HIDE DEF r, h
<1>4. MemBytes(r) \in Nat /\ MemBytes(i) \in Nat /\ MemBytes(i) <= MemBytes(r) + h.mem
  BY <1>1, <1>3, MemOfMore
<1> HIDE DEF i
<1>5. Fits(i)
  BY <1>2, <1>3, <1>4, PoolAssumption DEF Fits
<1> QED
  BY <1>5 DEF i, r, h

(* A pool that lost idle models, or one that an administrator unloaded.    *)
LEMMA LessFits ==
    ASSUME PoolInv, Fits(loaded), NEW r, r \in [Models -> Handle \cup {None}],
           \A m \in Models : r[m] = loaded[m] \/ r[m] = None
    PROVE  Fits(r)
<1>1. loaded \in [Models -> Handle \cup {None}]
  BY DEF PoolInv, Pool
<1>2. \A m \in Loaded(r) : m \in Loaded(loaded) /\ r[m].mem = loaded[m].mem
  BY DEF Loaded
<1>3. MemBytes(loaded) \in Nat /\ MemBytes(r) \in Nat /\ MemBytes(r) <= MemBytes(loaded)
  BY <1>1, <1>2, MemOfLess
<1> QED
  BY <1>3, PoolAssumption DEF Fits

LEMMA StepFits ==
    ASSUME IInv, Fits(loaded), [Next]_vars
    PROVE  Fits(loaded')
<1>0. PoolInv /\ loaded \in [Models -> Handle \cup {None}]
  BY DEF IInv, PoolInv, Pool
<1>1. ASSUME NEW u \in Users, NEW m \in Models, AcquireLoaded(u, m) PROVE Fits(loaded')
  <2>1. loaded[m] # None /\ loaded' = [loaded EXCEPT ![m].inflight = loaded[m].inflight + 1]
    BY <1>1 DEF AcquireLoaded
  <2>2. loaded[m].inflight + 1 \in Nat
    BY <1>0, <2>1, HandleFacts
  <2> QED
    BY <1>0, <2>1, <2>2, CountHoldsNothing
<1>2. ASSUME NEW u \in Users, NEW m \in Models, AcquireLoads(u, m) PROVE Fits(loaded')
  <2>1. /\ MakeRoom(loaded, lru, MemOf[m]).ok
        /\ loaded' = [MakeRoom(loaded, lru, MemOf[m]).loaded EXCEPT
                          ![m] = [mem |-> MemOf[m], inflight |-> 1]]
    BY <1>2 DEF AcquireLoads
  <2>2. MemOf[m] \in Nat /\ 1 \in Nat
    BY PoolAssumption
  <2> QED
    BY <1>0, <2>1, <2>2, InsertionFits
<1>3. ASSUME NEW needed, loaded' = MakeRoom(loaded, lru, needed).loaded PROVE Fits(loaded')
  <2>1. loaded' \in [Models -> Handle \cup {None}] /\ \A m \in Models : loaded'[m] = loaded[m] \/ loaded'[m] = None
    BY <1>0, <1>3, RoomFacts DEF Pool
  <2> QED
    BY <1>0, <2>1, LessFits
<1>4. ASSUME NEW u \in Users, Release(u) PROVE Fits(loaded')
  <2>1. PICK m \in Models : m = using[u]
    BY <1>0, <1>4, PoolAssumption DEF Release, PoolInv
  <2>2. loaded' = IF loaded[m] = None \/ loaded[m].inflight = 0 THEN loaded
                  ELSE [loaded EXCEPT ![m].inflight = loaded[m].inflight - 1]
    BY <1>4, <2>1 DEF Release
  <2>3. CASE loaded[m] = None \/ loaded[m].inflight = 0
    BY <2>2, <2>3
  <2>4. CASE ~(loaded[m] = None \/ loaded[m].inflight = 0)
    <3>1. loaded[m] # None /\ loaded[m].inflight - 1 \in Nat
      BY <1>0, <2>4, HandleFacts
    <3> QED
      BY <1>0, <2>2, <2>4, <3>1, CountHoldsNothing
  <2> QED
    BY <2>3, <2>4
<1>5. ASSUME NEW m \in Models, Unload(m) PROVE Fits(loaded')
  <2>1. loaded' = [loaded EXCEPT ![m] = None]
    BY <1>5 DEF Unload
  <2>2. /\ loaded' \in [Models -> Handle \cup {None}]
        /\ \A n \in Models : loaded'[n] = loaded[n] \/ loaded'[n] = None
    BY <1>0, <2>1
  <2> QED
    BY <1>0, <2>2, LessFits
<1>6. ASSUME NEW m \in Models, LoadReady(m) PROVE Fits(loaded')
  <2>1. /\ MakeRoom(loaded, lru, 0).ok
        /\ loaded' = [MakeRoom(loaded, lru, 0).loaded EXCEPT ![m] = [mem |-> 0, inflight |-> 0]]
    BY <1>6 DEF LoadReady
  <2> QED
    BY <1>0, <2>1, InsertionFits
<1>7. ASSUME UNCHANGED loaded PROVE Fits(loaded')
  BY <1>7
<1> QED
  <2>1. CASE UNCHANGED vars
    BY <1>7, <2>1 DEF vars
  <2>2. ASSUME NEW u \in Users, NEW m \in Models, AcquireFails(u, m) PROVE Fits(loaded')
    BY <1>3, <2>2 DEF AcquireFails
  <2>3. ASSUME NEW m \in Models, LoadDropped(m) PROVE Fits(loaded')
    BY <1>3, <2>3 DEF LoadDropped
  <2>4. ASSUME NEW m \in Models, Register(m) \/ LoadRequest(m) \/ LoadFailed(m) PROVE Fits(loaded')
    BY <1>7, <2>4 DEF Register, LoadRequest, LoadFailed
  <2> QED
    BY <1>1, <1>2, <1>4, <1>5, <1>6, <2>1, <2>2, <2>3, <2>4 DEF Next

----------------------------------------------------------------------------
(* The theorems.                                                           *)

(* Every variable keeps its type; a count of callers never goes below zero *)
(* although release may find a handle its caller never acquired.           *)
THEOREM TypeCorrect == Spec => []TypeOK
<1>1. Init => IInv
  BY InitIInv
<1>2. IInv /\ [Next]_vars => IInv'
  BY StepIInv
<1>3. IInv => TypeOK
  BY DEF IInv, PoolInv, Pool, TypeOK
<1> QED
  BY <1>1, <1>2, <1>3, PTL DEF Spec

(* The recency queue tracks exactly the loaded models, each once, however  *)
(* evictions, insertions and unloads follow each other or fail half way.   *)
THEOREM QueueIsExact == Spec => []QueueMatchesMap
<1>1. Init => IInv
  BY InitIInv
<1>2. IInv /\ [Next]_vars => IInv'
  BY StepIInv
<1>3. IInv => QueueMatchesMap
  BY DEF IInv, PoolInv, Pool, QueueMatchesMap
<1> QED
  BY <1>1, <1>2, <1>3, PTL DEF Spec

(* No model is evicted under a caller, and the count that protects it is   *)
(* the number of its callers, unless the administrator took it from one.   *)
THEOREM NotEvictedInUse == Spec => []InUseStaysLoaded
<1>1. Init => IInv
  BY InitIInv
<1>2. IInv /\ [Next]_vars => IInv'
  BY StepIInv
<1>3. IInv => InUseStaysLoaded
  BY DEF IInv, Counted, InUseStaysLoaded
<1> QED
  BY <1>1, <1>2, <1>3, PTL DEF Spec

(* Neither the capacity nor the memory budget is ever exceeded, also while *)
(* background loads replace what is loaded and evictions fail half way.    *)
THEOREM LimitsAreHeld == Spec => []WithinLimits
<1>1. Init => IInv /\ Fits(loaded)
  <2> SUFFICES ASSUME Init PROVE Fits(loaded)
    BY InitIInv
  <2>1. Loaded(loaded) = {}
    BY DEF Init, Loaded
  <2>2. MemBytes(loaded) = 0
    <3>1. loaded \in [Models -> Handle \cup {None}]
      BY DEF Init
    <3>2. Weight(Held(loaded), {}) = 0
      BY FS_EmptySet, WeightRec
    <3> QED
      BY <2>1, <3>1, <3>2, MemIsWeight
  <2> QED
    BY <2>2, PoolAssumption DEF Fits
<1>2. IInv /\ Fits(loaded) /\ [Next]_vars => (IInv /\ Fits(loaded))'
  BY StepIInv, StepFits
<1>3. IInv /\ Fits(loaded) => WithinLimits
  BY DEF IInv, PoolInv, Fits, WithinLimits
<1> QED
  BY <1>1, <1>2, <1>3, PTL DEF Spec
=============================================================================
