-------------------------- MODULE LayerPagerProofs --------------------------
(***************************************************************************)
(* Proofs about LayerPager for any tensors, threads, budget and counter    *)
(* width.  The counter is a sum over the map and over what each thread has *)
(* under way (Accounted), and no interleaving disturbs it.  While no two   *)
(* threads clash over a tensor, each finds the map as it left it, which    *)
(* keeps the queue (Orderly) and, with the counter, the budget (RoomInv).  *)
(***************************************************************************)
EXTENDS LayerPager, QueueAndSumProofs

(* retain takes every occurrence of x out and keeps the others once.       *)
LEMMA WithoutLemma ==
    ASSUME NEW S, NEW q \in Seq(S), NEW x
    PROVE  /\ Without(q, x) \in Seq(S)
           /\ Ids(Without(q, x)) = Ids(q) \ {x}
           /\ NoDuplicates(q) => NoDuplicates(Without(q, x))
BY KeptLemma DEF Without

(* bump_lru takes out the only occurrence when there is one at most.       *)
LEMMA RemoveOneLemma ==
    ASSUME NEW S, NEW q \in Seq(S), NEW x
    PROVE  /\ RemoveOne(q, x) \in Seq(S)
           /\ NoDuplicates(q) => /\ NoDuplicates(RemoveOne(q, x))
                                 /\ Ids(RemoveOne(q, x)) = Ids(q) \ {x}
  <1>0. Len(q) \in Nat /\ DOMAIN q = 1..Len(q) /\ \A i \in 1..Len(q) : q[i] \in S
    BY IdsIndexed
  <1>1. CASE x \notin Ids(q)
    BY <1>1 DEF RemoveOne
  <1>2. CASE x \in Ids(q)
    <2> DEFINE First(i) == q[i] = x /\ \A j \in 1..(i - 1) : q[j] # x
               i == CHOOSE i \in DOMAIN q : First(i)
    <2>1. \E k \in DOMAIN q : First(k)
      <3> DEFINE C == {k \in DOMAIN q : q[k] = x}
      <3>1. C \in SUBSET Nat /\ C # {}
        BY <1>0, <1>2 DEF Ids
      <3>2. PICK m \in C : \A k \in C : m <= k
        <4> HIDE DEF C
        <4> QED
          BY <3>1, MinNat
      <3>3. \A j \in 1..(m - 1) : j \in DOMAIN q /\ ~(m <= j)
        BY <1>0, <3>2
      <3>4. First(m)
        BY <3>2, <3>3
      <3> QED
        BY <3>4
    <2>2. i \in 1..Len(q) /\ First(i)
      BY <1>0, <2>1
    <2>3. RemoveOne(q, x) = SubSeq(q, 1, i - 1) \o SubSeq(q, i + 1, Len(q))
      BY <1>2 DEF RemoveOne
    <2> HIDE DEF i
    <2>4. RemoveOne(q, x) \in Seq(S)
      <3>1. \A j \in 1..(i - 1) : q[j] \in S
        BY <1>0, <2>2
      <3>2. \A j \in (i + 1)..Len(q) : q[j] \in S
        BY <1>0, <2>2
      <3>3. SubSeq(q, 1, i - 1) \in Seq(S)
        BY <1>0, <2>2, <3>1, SubSeqProperties
      <3>4. SubSeq(q, i + 1, Len(q)) \in Seq(S)
        BY <1>0, <2>2, <3>2, SubSeqProperties
      <3> QED
        BY <2>3, <3>3, <3>4, ConcatProperties
    <2>5. ASSUME NoDuplicates(q) PROVE RemoveOne(q, x) = Remove(q, x)
      <3> DEFINE k == CHOOSE k \in DOMAIN q : q[k] = x
      <3>1. k \in DOMAIN q /\ q[k] = x
        BY <1>2 DEF Ids
      <3>2. k = i
        <4> HIDE DEF k
        <4> QED
          BY <1>0, <2>2, <2>5, <3>1 DEF NoDuplicates
      <3>3. Remove(q, x) = SubSeq(q, 1, k - 1) \o SubSeq(q, k + 1, Len(q))
        BY <1>2 DEF Remove
      <3> QED
        BY <2>3, <3>2, <3>3
    <2> QED
      BY <2>4, <2>5, RemoveLemma
  <1> QED
    BY <1>1, <1>2

----------------------------------------------------------------------------
(* The counter's arithmetic: a modulus may be taken before or after.       *)

LEMMA ModProperties ==
    ASSUME NEW M \in Nat \ {0}, NEW a \in Int
    PROVE  a % M \in 0..(M - 1) /\ a \div M \in Int /\ a = M * (a \div M) + (a % M)
  <1>1. a % M \in 0..(M - 1)
    OBVIOUS
  <1>2. a \div M \in Int
    OBVIOUS
  <1>3. a = M * (a \div M) + (a % M)
    OBVIOUS
  <1> QED
    BY <1>1, <1>2, <1>3

LEMMA ModUnique ==
    ASSUME NEW M \in Nat \ {0}, NEW k \in Int, NEW r \in 0..(M - 1)
    PROVE  (M * k + r) % M = r
  OBVIOUS

LEMMA ModAdd ==
    ASSUME NEW M \in Nat \ {0}, NEW a \in Int, NEW b \in Int
    PROVE  ((a % M) + b) % M = (a + b) % M
  <1> DEFINE q == a \div M
             r == a % M
             p == (r + b) \div M
             s == (r + b) % M
  <1>1. a = M * q + r /\ r \in 0..(M - 1) /\ q \in Int
    BY ModProperties
  <1>2. r + b = M * p + s /\ s \in 0..(M - 1) /\ p \in Int
    <2>1. r + b \in Int
      BY <1>1
    <2> HIDE DEF r
    <2> QED
      BY <2>1, ModProperties
  <1> HIDE DEF q, r, p, s
  <1>3. a + b = M * (q + p) + s
    <2>1. M * (q + p) = M * q + M * p
      BY <1>1, <1>2
    <2>2. M * q \in Int /\ M * p \in Int
      BY <1>1, <1>2
    <2> QED
      BY <1>1, <1>2, <2>1, <2>2
  <1>4. q + p \in Int
    BY <1>1, <1>2
  <1>5. (a + b) % M = s
    BY <1>2, <1>3, <1>4, ModUnique
  <1> QED
    BY <1>5 DEF r, s

----------------------------------------------------------------------------
(* Types.                                                                  *)

Evicting == {"remove", "subtract", "retain"}

Place == [pc : {"idle", "bump", "reread"} \cup Loading,
          target : Tensors \cup {None},
          victim : (Tensors \ Pinned) \cup {None}]

(* A thread that is not idle has a tensor, and one that evicts a victim.   *)
Placed(p) ==
    /\ p \in Place
    /\ p.target = None <=> p = Idle
    /\ p.victim = None <=> p.pc \notin Evicting

TypeInv ==
    /\ resident \subseteq Tensors /\ lru \in Seq(Tensors)
    /\ bytes \in 0..(Modulus - 1) /\ calls \in 0..MaxCalls /\ leaked \in Nat
    /\ clashed \in BOOLEAN
    /\ thread \in [Threads -> Place] /\ \A t \in Threads : Placed(thread[t])

LEMMA AtPlaced ==
    ASSUME NEW x \in Tensors
    PROVE  /\ \A pc \in {"bump", "reread", "fit", "pick", "read", "push", "add"} : Placed(At(pc, x, None))
           /\ \A pc \in Evicting : \A v \in Tensors \ Pinned : Placed(At(pc, x, v))
           /\ Placed(Idle)
  BY PagerAssumption DEF Placed, Place, Evicting, Loading, At, Idle

LEMMA IdlePlaced == Placed(Idle)
  BY DEF Placed, Place, Evicting, Loading, At, Idle

(* What a place says of a thread. *)
LEMMA PlacedFacts ==
    ASSUME NEW p, Placed(p)
    PROVE  /\ p.pc # "idle" => p.target \in Tensors
           /\ p.pc \in Evicting => p.victim \in Tensors /\ p.victim \notin Pinned
           /\ p.pc \notin Evicting => p.victim = None
           /\ p = At(p.pc, p.target, p.victim)
  BY DEF Placed, Place, Evicting, At, Idle

LEMMA GotoTypes ==
    ASSUME TypeInv, NEW t \in Threads, NEW p, Placed(p), Goto(t, p)
    PROVE  /\ thread' \in [Threads -> Place] /\ clashed' \in BOOLEAN
           /\ \A u \in Threads : thread'[u] = IF u = t THEN p ELSE thread[u]
           /\ \A u \in Threads : Placed(thread'[u])
  <1>1. thread' = [thread EXCEPT ![t] = p] /\ clashed' = (clashed \/ Clash(thread'))
    BY DEF Goto
  <1>2. p \in Place /\ thread \in [Threads -> Place] /\ clashed \in BOOLEAN
    BY DEF Placed, TypeInv
  <1>3. thread' \in [Threads -> Place] /\ \A u \in Threads : thread'[u] = IF u = t THEN p ELSE thread[u]
    BY <1>1, <1>2
  <1>4. clashed' \in BOOLEAN
    BY <1>1
  <1>5. \A u \in Threads : Placed(thread'[u])
    BY <1>3 DEF TypeInv
  <1> QED
    BY <1>3, <1>4, <1>5

(* The place each action leaves its thread at. *)
LEMMA StepPlaces ==
    ASSUME TypeInv, NEW t \in Threads
    PROVE  /\ \A x \in Tensors : Acquire(t, x) =>
                 Placed(At(IF x \in resident THEN "bump" ELSE "fit", x, None))
           /\ BumpLru(t) => Placed(At("reread", thread[t].target, None))
           /\ Reread(t) => Placed(At("fit", thread[t].target, None))
           /\ CheckBudget(t) => /\ Placed(At("read", thread[t].target, None))
                                /\ Placed(At("pick", thread[t].target, None))
           /\ Pick(t) => /\ Placed(At("read", thread[t].target, None))
                         /\ Candidates # {} => Placed(At("remove", thread[t].target, lru[Min(Candidates)]))
           /\ RemoveVictim(t) => /\ Placed(At("fit", thread[t].target, None))
                                 /\ Placed(At("subtract", thread[t].target, thread[t].victim))
           /\ Subtract(t) => /\ Placed([thread[t] EXCEPT !.pc = "retain"])
                             /\ [thread[t] EXCEPT !.pc = "retain"]
                                   = At("retain", thread[t].target, thread[t].victim)
           /\ Retain(t) => Placed(At("fit", thread[t].target, None))
           /\ Insert(t) => Placed(At("push", thread[t].target, None))
           /\ Push(t) => Placed(At("add", thread[t].target, None))
           /\ thread[t].pc # "idle" => thread[t].target \in Tensors
           /\ thread[t].pc \in Evicting => thread[t].victim \in Tensors \ Pinned
  <1> DEFINE x == thread[t].target
             v == thread[t].victim
  <1>1. Placed(thread[t]) /\ thread[t] \in Place
    BY DEF TypeInv, Placed
  <1>2. thread[t].pc # "idle" => x \in Tensors
    BY <1>1, PlacedFacts
  <1>3. thread[t].pc \in Evicting => v \in Tensors \ Pinned
    BY <1>1, PlacedFacts
  <1> HIDE DEF x, v
  <1>4. ASSUME NEW y \in Tensors PROVE Placed(At(IF y \in resident THEN "bump" ELSE "fit", y, None))
    BY AtPlaced
  <1>5. x \in Tensors => \A pc \in {"reread", "fit", "pick", "read", "push", "add"} : Placed(At(pc, x, None))
    BY AtPlaced
  <1>6. x \in Tensors /\ v \in Tensors \ Pinned => \A pc \in Evicting : Placed(At(pc, x, v))
    BY AtPlaced
  <1>7. BumpLru(t) => Placed(At("reread", x, None))
    BY <1>2, <1>5 DEF BumpLru
  <1>8. Reread(t) => Placed(At("fit", x, None))
    BY <1>2, <1>5 DEF Reread
  <1>9. CheckBudget(t) => Placed(At("read", x, None)) /\ Placed(At("pick", x, None))
    BY <1>2, <1>5 DEF CheckBudget
  <1>10. ASSUME Pick(t)
         PROVE  /\ Placed(At("read", x, None))
                /\ Candidates # {} => Placed(At("remove", x, lru[Min(Candidates)]))
    <2>1. x \in Tensors
      BY <1>2, <1>10 DEF Pick
    <2>2. ASSUME Candidates # {} PROVE lru[Min(Candidates)] \in Tensors \ Pinned
      <3>1. DOMAIN lru = 1..Len(lru) /\ Len(lru) \in Nat /\ \A i \in 1..Len(lru) : lru[i] \in Tensors
        BY IdsIndexed DEF TypeInv
      <3>2. Candidates \in SUBSET Nat
        BY <3>1 DEF Candidates
      <3>3. Min(Candidates) \in Candidates
        BY <2>2, <3>2, MinNat
      <3> QED
        BY <3>1, <3>3 DEF Candidates
    <2>3. Candidates # {} => Placed(At("remove", x, lru[Min(Candidates)]))
      BY <2>1, <2>2, AtPlaced DEF Evicting
    <2> QED
      BY <2>1, <2>3, <1>5
  <1>11. RemoveVictim(t) => Placed(At("fit", x, None)) /\ Placed(At("subtract", x, v))
    BY <1>2, <1>3, <1>5, <1>6 DEF RemoveVictim, Evicting
  <1>12. ASSUME Subtract(t)
         PROVE  /\ Placed([thread[t] EXCEPT !.pc = "retain"])
                /\ [thread[t] EXCEPT !.pc = "retain"] = At("retain", x, v)
    <2>1. [thread[t] EXCEPT !.pc = "retain"] = At("retain", x, v)
      BY <1>1 DEF At, Place, x, v
    <2>2. Placed(At("retain", x, v))
      BY <1>2, <1>3, <1>6, <1>12 DEF Subtract, Evicting
    <2> QED
      BY <2>1, <2>2
  <1>13. Retain(t) => Placed(At("fit", x, None))
    BY <1>2, <1>5 DEF Retain
  <1>14. Insert(t) => Placed(At("push", x, None))
    BY <1>2, <1>5 DEF Insert
  <1>15. Push(t) => Placed(At("add", x, None))
    BY <1>2, <1>5 DEF Push
  <1> QED
    BY <1>2, <1>3, <1>4, <1>7, <1>8, <1>9, <1>10, <1>11, <1>12, <1>13, <1>14, <1>15 DEF x, v

LEMMA InitTypes == Init => TypeInv
  <1> SUFFICES ASSUME Init PROVE TypeInv
    OBVIOUS
  <1>1. /\ resident = {} /\ lru = <<>> /\ bytes = 0 /\ calls = 0 /\ leaked = 0 /\ clashed = FALSE
        /\ thread = [t \in Threads |-> Idle]
    BY DEF Init
  <1>2. Idle \in Place /\ Placed(Idle)
    BY IdlePlaced DEF Placed
  <1>3. thread \in [Threads -> Place] /\ \A t \in Threads : Placed(thread[t])
    BY <1>1, <1>2
  <1>4. bytes \in 0..(Modulus - 1) /\ calls \in 0..MaxCalls /\ leaked \in Nat
    BY <1>1, PagerAssumption
  <1>5. lru \in Seq(Tensors)
    BY <1>1, EmptySeq
  <1>6. resident \subseteq Tensors /\ clashed \in BOOLEAN
    BY <1>1
  <1> QED
    BY <1>3, <1>4, <1>5, <1>6 DEF TypeInv

LEMMA StepTypes ==
    ASSUME TypeInv, [Next]_vars
    PROVE  TypeInv'
  <1>0. /\ resident \subseteq Tensors /\ lru \in Seq(Tensors) /\ bytes \in 0..(Modulus - 1)
        /\ calls \in 0..MaxCalls /\ leaked \in Nat
        /\ Modulus \in Nat \ {0} /\ MaxCalls \in Nat /\ SizeOf \in [Tensors -> Nat]
    BY PagerAssumption DEF TypeInv
  <1>1. ASSUME NEW t \in Threads, NEW p, Placed(p), Goto(t, p),
               resident' \subseteq Tensors, lru' \in Seq(Tensors), bytes' \in 0..(Modulus - 1),
               calls' \in 0..MaxCalls, leaked' \in Nat
        PROVE  TypeInv'
    BY <1>1, GotoTypes DEF TypeInv
  <1>2. ASSUME NEW t \in Threads, NEW x \in Tensors, Acquire(t, x) PROVE TypeInv'
    <2>1. calls' \in 0..MaxCalls
      BY <1>0, <1>2 DEF Acquire
    <2>2. /\ Goto(t, At(IF x \in resident THEN "bump" ELSE "fit", x, None))
          /\ UNCHANGED <<resident, lru, bytes, leaked>>
      BY <1>2 DEF Acquire
    <2>3. Placed(At(IF x \in resident THEN "bump" ELSE "fit", x, None))
      BY <1>2, StepPlaces
    <2> QED
      BY <1>0, <1>1, <2>1, <2>2, <2>3
  <1>3. ASSUME NEW t \in Threads, BumpLru(t) PROVE TypeInv'
    <2>1. thread[t].target \in Tensors /\ Placed(At("reread", thread[t].target, None))
      BY <1>3, StepPlaces DEF BumpLru
    <2>2. /\ lru' = Append(RemoveOne(lru, thread[t].target), thread[t].target)
          /\ Goto(t, At("reread", thread[t].target, None))
          /\ UNCHANGED <<resident, bytes, calls, leaked>>
      BY <1>3 DEF BumpLru
    <2>3. lru' \in Seq(Tensors)
      BY <1>0, <2>1, <2>2, RemoveOneLemma, AppendLemma
    <2> QED
      BY <1>0, <1>1, <2>1, <2>2, <2>3
  <1>4. ASSUME NEW t \in Threads, Reread(t) PROVE TypeInv'
    BY <1>0, <1>1, <1>4, StepPlaces, IdlePlaced DEF Reread
  <1>5. ASSUME NEW t \in Threads, CheckBudget(t) PROVE TypeInv'
    BY <1>0, <1>1, <1>5, StepPlaces DEF CheckBudget
  <1>6. ASSUME NEW t \in Threads, Pick(t) PROVE TypeInv'
    BY <1>0, <1>1, <1>6, StepPlaces DEF Pick
  <1>7. ASSUME NEW t \in Threads, RemoveVictim(t) PROVE TypeInv'
    <2>1. resident' \subseteq Tensors
      BY <1>0, <1>7 DEF RemoveVictim
    <2> QED
      BY <1>0, <1>1, <1>7, <2>1, StepPlaces DEF RemoveVictim
  <1>8. ASSUME NEW t \in Threads, Subtract(t) PROVE TypeInv'
    <2>1. thread[t].victim \in Tensors
      BY <1>8, StepPlaces DEF Subtract, Evicting
    <2>2. bytes' = (bytes - SizeOf[thread[t].victim]) % Modulus
      BY <1>8 DEF Subtract
    <2>3. bytes - SizeOf[thread[t].victim] \in Int
      BY <1>0, <2>1
    <2>4. bytes' \in 0..(Modulus - 1)
      BY <1>0, <2>2, <2>3, ModProperties
    <2> QED
      BY <1>0, <1>1, <1>8, <2>4, StepPlaces DEF Subtract
  <1>9. ASSUME NEW t \in Threads, Retain(t) PROVE TypeInv'
    <2>1. lru' \in Seq(Tensors)
      BY <1>0, <1>9, WithoutLemma DEF Retain
    <2> QED
      BY <1>0, <1>1, <1>9, <2>1, StepPlaces DEF Retain
  <1>10. ASSUME NEW t \in Threads, ReadFails(t) PROVE TypeInv'
    BY <1>0, <1>1, <1>10, IdlePlaced DEF ReadFails
  <1>11. ASSUME NEW t \in Threads, Insert(t) PROVE TypeInv'
    <2>1. thread[t].target \in Tensors
      BY <1>11, StepPlaces DEF Insert
    <2>2. resident' \subseteq Tensors /\ leaked' \in Nat
      BY <1>0, <1>11, <2>1 DEF Insert
    <2> QED
      BY <1>0, <1>1, <1>11, <2>2, StepPlaces DEF Insert
  <1>12. ASSUME NEW t \in Threads, Push(t) PROVE TypeInv'
    <2>1. thread[t].target \in Tensors
      BY <1>12, StepPlaces DEF Push
    <2>2. lru' \in Seq(Tensors)
      BY <1>0, <1>12, <2>1, AppendLemma DEF Push
    <2> QED
      BY <1>0, <1>1, <1>12, <2>2, StepPlaces DEF Push
  <1>13. ASSUME NEW t \in Threads, Add(t) PROVE TypeInv'
    <2>1. thread[t].target \in Tensors
      BY <1>13, StepPlaces DEF Add
    <2>2. bytes' = (bytes + SizeOf[thread[t].target]) % Modulus
      BY <1>13 DEF Add
    <2>3. bytes + SizeOf[thread[t].target] \in Int
      BY <1>0, <2>1
    <2>4. bytes' \in 0..(Modulus - 1)
      BY <1>0, <2>2, <2>3, ModProperties
    <2> QED
      BY <1>0, <1>1, <1>13, <2>4, IdlePlaced DEF Add
  <1>14. CASE UNCHANGED vars
    BY <1>14 DEF TypeInv, vars
  <1> QED
    BY <1>2, <1>3, <1>4, <1>5, <1>6, <1>7, <1>8, <1>9, <1>10, <1>11, <1>12, <1>13, <1>14
    DEF Next, Step

----------------------------------------------------------------------------
(* The byte counter.                                                       *)

(* What each thread has inserted and not added, or removed and not         *)
(* subtracted.                                                             *)
InsertedIn(th) == [t \in Threads |-> IF th[t].pc \in {"push", "add"} THEN SizeOf[th[t].target] ELSE 0]
RemovedIn(th) == [t \in Threads |-> IF th[t].pc = "subtract" THEN SizeOf[th[t].victim] ELSE 0]

Balance == Weight(SizeOf, resident) + leaked + Weight(RemovedIn(thread), Threads)
             - Weight(InsertedIn(thread), Threads)

Accounted == bytes = Balance % Modulus

LEMMA SumsTyped ==
    ASSUME TypeInv
    PROVE  /\ \A t \in Threads : InsertedIn(thread)[t] \in Nat /\ RemovedIn(thread)[t] \in Nat
           /\ Weight(InsertedIn(thread), Threads) \in Nat /\ Weight(RemovedIn(thread), Threads) \in Nat
           /\ Weight(SizeOf, resident) \in Nat /\ IsFiniteSet(resident)
           /\ \A x \in Tensors : SizeOf[x] \in Nat
           /\ leaked \in Nat /\ Balance \in Int
  <1>1. ASSUME NEW t \in Threads PROVE InsertedIn(thread)[t] \in Nat /\ RemovedIn(thread)[t] \in Nat
    <2>1. Placed(thread[t])
      BY DEF TypeInv
    <2>2. thread[t].pc \in {"push", "add"} => thread[t].target \in Tensors
      BY <2>1, PlacedFacts
    <2>3. thread[t].pc = "subtract" => thread[t].victim \in Tensors
      BY <2>1, PlacedFacts DEF Evicting
    <2> QED
      BY <2>2, <2>3, PagerAssumption DEF InsertedIn, RemovedIn
  <1>2. Weight(InsertedIn(thread), Threads) \in Nat /\ Weight(RemovedIn(thread), Threads) \in Nat
    <2>1. IsFiniteSet(Threads) /\ Threads \in SUBSET Threads
      BY PagerAssumption
    <2>2. Weight(InsertedIn(thread), Threads) \in Nat
      BY <1>1, <2>1, WeightNat
    <2>3. Weight(RemovedIn(thread), Threads) \in Nat
      BY <1>1, <2>1, WeightNat
    <2> QED
      BY <2>2, <2>3
  <1>3. Weight(SizeOf, resident) \in Nat /\ IsFiniteSet(resident) /\ \A x \in Tensors : SizeOf[x] \in Nat
    <2>1. resident \in SUBSET Tensors /\ IsFiniteSet(Tensors) /\ \A x \in Tensors : SizeOf[x] \in Nat
      BY PagerAssumption DEF TypeInv
    <2> QED
      BY <2>1, WeightNat, FS_Subset
  <1>4. leaked \in Nat
    BY DEF TypeInv
  <1> QED
    BY <1>1, <1>2, <1>3, <1>4 DEF Balance

(* One thread moves; the sums change by what that thread has under way.    *)
LEMMA SumsMove ==
    ASSUME TypeInv, NEW t \in Threads, NEW p, Placed(p), Goto(t, p), TypeInv'
    PROVE  LET i == InsertedIn(thread)[t]
               j == IF p.pc \in {"push", "add"} THEN SizeOf[p.target] ELSE 0
               r == RemovedIn(thread)[t]
               s == IF p.pc = "subtract" THEN SizeOf[p.victim] ELSE 0
           IN  /\ i \in Nat /\ j \in Nat /\ r \in Nat /\ s \in Nat
               /\ Weight(InsertedIn(thread'), Threads) = Weight(InsertedIn(thread), Threads) - i + j
               /\ Weight(RemovedIn(thread'), Threads) = Weight(RemovedIn(thread), Threads) - r + s
  <1> DEFINE i == InsertedIn(thread)[t]
             j == IF p.pc \in {"push", "add"} THEN SizeOf[p.target] ELSE 0
             r == RemovedIn(thread)[t]
             s == IF p.pc = "subtract" THEN SizeOf[p.victim] ELSE 0
  <1>1. \A u \in Threads : thread'[u] = IF u = t THEN p ELSE thread[u]
    BY GotoTypes
  <1>2. /\ InsertedIn(thread')[t] = j /\ RemovedIn(thread')[t] = s
        /\ \A u \in Threads : u # t => /\ InsertedIn(thread')[u] = InsertedIn(thread)[u]
                                       /\ RemovedIn(thread')[u] = RemovedIn(thread)[u]
    BY <1>1 DEF InsertedIn, RemovedIn
  <1>3. \A u \in Threads : InsertedIn(thread)[u] \in Nat /\ RemovedIn(thread)[u] \in Nat
    BY SumsTyped
  <1>4. j \in Nat /\ s \in Nat
    <2>1. p.pc \in {"push", "add"} => p.target \in Tensors
      BY PlacedFacts
    <2>2. p.pc = "subtract" => p.victim \in Tensors
      BY PlacedFacts DEF Evicting
    <2> QED
      BY <2>1, <2>2, PagerAssumption
  <1> HIDE DEF j, s
  <1>5. IsFiniteSet(Threads)
    BY PagerAssumption
  <1>6. Weight(InsertedIn(thread'), Threads) = Weight(InsertedIn(thread), Threads) - i + j
    <2>1. InsertedIn(thread')[t] \in Nat
      BY <1>2, <1>4
    <2>2. \A u \in Threads : InsertedIn(thread)[u] \in Nat
      BY <1>3
    <2>3. \A u \in Threads : u # t => InsertedIn(thread')[u] = InsertedIn(thread)[u]
      BY <1>2
    <2> QED
      BY <1>2, <1>5, <2>1, <2>2, <2>3, WeightUpdate
  <1>7. Weight(RemovedIn(thread'), Threads) = Weight(RemovedIn(thread), Threads) - r + s
    <2>1. RemovedIn(thread')[t] \in Nat
      BY <1>2, <1>4
    <2>2. \A u \in Threads : RemovedIn(thread)[u] \in Nat
      BY <1>3
    <2>3. \A u \in Threads : u # t => RemovedIn(thread')[u] = RemovedIn(thread)[u]
      BY <1>2
    <2>4. Weight(RemovedIn(thread'), Threads)
            = Weight(RemovedIn(thread), Threads) - RemovedIn(thread)[t] + RemovedIn(thread')[t]
      BY <1>5, <2>1, <2>2, <2>3, WeightUpdate
    <2> QED
      BY <1>2, <2>4
  <1>8. i \in Nat /\ r \in Nat
    BY <1>3
  <1> QED
    BY <1>4, <1>6, <1>7, <1>8 DEF j, s

(* The updates under way of a thread that has none, before and after.      *)
LEMMA NothingUnderWay ==
    ASSUME TypeInv, NEW t \in Threads, thread[t].pc \notin {"push", "add", "subtract"},
           NEW p, Placed(p), p.pc \notin {"push", "add", "subtract"}, Goto(t, p), TypeInv',
           UNCHANGED <<bytes, resident, leaked>>
    PROVE  Accounted => Accounted'
  <1>1. InsertedIn(thread)[t] = 0 /\ RemovedIn(thread)[t] = 0
    BY DEF InsertedIn, RemovedIn
  <1>2. /\ Weight(InsertedIn(thread'), Threads) = Weight(InsertedIn(thread), Threads)
        /\ Weight(RemovedIn(thread'), Threads) = Weight(RemovedIn(thread), Threads)
    BY <1>1, SumsMove, SumsTyped
  <1> QED
    BY <1>2 DEF Accounted, Balance

LEMMA StepAccounted ==
    ASSUME TypeInv, Accounted, [Next]_vars, TypeInv'
    PROVE  Accounted'
  <1> DEFINE B == Weight(SizeOf, resident)
             I == Weight(InsertedIn(thread), Threads)
             R == Weight(RemovedIn(thread), Threads)
  <1>0. /\ Modulus \in Nat \ {0} /\ B \in Nat /\ I \in Nat /\ R \in Nat /\ leaked \in Nat
        /\ IsFiniteSet(resident) /\ resident \subseteq Tensors /\ \A x \in Tensors : SizeOf[x] \in Nat
        /\ bytes = (B + leaked + R - I) % Modulus
    BY SumsTyped, PagerAssumption DEF TypeInv, Accounted, Balance
  <1> HIDE DEF B, I, R
  <1>1. ASSUME NEW t \in Threads, NEW x \in Tensors, Acquire(t, x) PROVE Accounted'
    <2> DEFINE p == At(IF x \in resident THEN "bump" ELSE "fit", x, None)
    <2>1. /\ thread[t] = Idle /\ Placed(p) /\ Goto(t, p) /\ UNCHANGED <<bytes, resident, leaked>>
      BY <1>1, StepPlaces DEF Acquire
    <2>2. thread[t].pc = "idle" /\ p.pc \in {"bump", "fit"}
      BY <2>1 DEF Idle, At
    <2> HIDE DEF p
    <2> QED
      BY <2>1, <2>2, NothingUnderWay
  <1>2. ASSUME NEW t \in Threads, BumpLru(t) PROVE Accounted'
    <2> DEFINE p == At("reread", thread[t].target, None)
    <2>1. Placed(p) /\ Goto(t, p) /\ UNCHANGED <<bytes, resident, leaked>> /\ thread[t].pc = "bump"
      BY <1>2, StepPlaces DEF BumpLru
    <2>2. p.pc = "reread"
      BY DEF At
    <2> HIDE DEF p
    <2> QED
      BY <2>1, <2>2, NothingUnderWay
  <1>3. ASSUME NEW t \in Threads, Reread(t) PROVE Accounted'
    <2> DEFINE p == IF thread[t].target \in resident THEN Idle ELSE At("fit", thread[t].target, None)
    <2>1. Placed(p) /\ Goto(t, p) /\ UNCHANGED <<bytes, resident, leaked>> /\ thread[t].pc = "reread"
      BY <1>3, StepPlaces, IdlePlaced DEF Reread
    <2>2. p.pc \in {"idle", "fit"}
      BY DEF At, Idle
    <2> HIDE DEF p
    <2> QED
      BY <2>1, <2>2, NothingUnderWay
  <1>4. ASSUME NEW t \in Threads, CheckBudget(t) PROVE Accounted'
    <2> DEFINE p == At(IF SaturatingAdd(bytes, SizeOf[thread[t].target]) <= Budget
                       THEN "read" ELSE "pick", thread[t].target, None)
    <2>1. Placed(p) /\ Goto(t, p) /\ UNCHANGED <<bytes, resident, leaked>> /\ thread[t].pc = "fit"
      BY <1>4, StepPlaces DEF CheckBudget
    <2>2. p.pc \in {"read", "pick"}
      BY DEF At
    <2> HIDE DEF p
    <2> QED
      BY <2>1, <2>2, NothingUnderWay
  <1>5. ASSUME NEW t \in Threads, Pick(t) PROVE Accounted'
    <2> DEFINE p == IF Candidates = {} THEN At("read", thread[t].target, None)
                    ELSE At("remove", thread[t].target, lru[Min(Candidates)])
    <2>1. Placed(p) /\ Goto(t, p) /\ UNCHANGED <<bytes, resident, leaked>> /\ thread[t].pc = "pick"
      BY <1>5, StepPlaces DEF Pick
    <2>2. p.pc \in {"read", "remove"}
      BY DEF At
    <2> HIDE DEF p
    <2> QED
      BY <2>1, <2>2, NothingUnderWay
  <1>6. ASSUME NEW t \in Threads, RemoveVictim(t) PROVE Accounted'
    <2> DEFINE x == thread[t].target
               v == thread[t].victim
    <2>1. /\ thread[t].pc = "remove" /\ resident' = resident \ {v} /\ UNCHANGED <<bytes, leaked>>
          /\ Goto(t, IF v \in resident THEN At("subtract", x, v) ELSE At("fit", x, None))
          /\ Placed(At("fit", x, None)) /\ Placed(At("subtract", x, v))
          /\ v \in Tensors
      BY <1>6, StepPlaces DEF RemoveVictim, Evicting
    <2> HIDE DEF x, v
    <2>2. CASE v \notin resident
      <3>1. resident' = resident /\ Goto(t, At("fit", x, None)) /\ At("fit", x, None).pc = "fit"
        BY <2>1, <2>2 DEF At
      <3> QED
        BY <2>1, <3>1, NothingUnderWay
    <2>3. CASE v \in resident
      <3> DEFINE p == At("subtract", x, v)
      <3>1. Goto(t, p) /\ p.pc = "subtract" /\ p.victim = v
        BY <2>1, <2>3 DEF At
      <3> HIDE DEF p
      <3>2. InsertedIn(thread)[t] = 0 /\ RemovedIn(thread)[t] = 0
        BY <2>1 DEF InsertedIn, RemovedIn
      <3>3. /\ Weight(InsertedIn(thread'), Threads) = I
            /\ Weight(RemovedIn(thread'), Threads) = R + SizeOf[v]
        BY <1>0, <2>1, <3>1, <3>2, SumsMove DEF I, R, p
      <3>4. B = SizeOf[v] + Weight(SizeOf, resident \ {v}) /\ Weight(SizeOf, resident \ {v}) \in Nat
        BY <1>0, <2>3, WeightRemove DEF B
      <3>5. Weight(SizeOf, resident') + leaked' + Weight(RemovedIn(thread'), Threads)
              - Weight(InsertedIn(thread'), Threads) = B + leaked + R - I
        BY <1>0, <2>1, <3>3, <3>4
      <3> QED
        BY <1>0, <2>1, <3>5 DEF Accounted, Balance
    <2> QED
      BY <2>2, <2>3
  <1>7. ASSUME NEW t \in Threads, Subtract(t) PROVE Accounted'
    <2> DEFINE v == thread[t].victim
               p == [thread[t] EXCEPT !.pc = "retain"]
    <2>1. /\ thread[t].pc = "subtract" /\ Goto(t, p) /\ Placed(p) /\ UNCHANGED <<resident, leaked>>
          /\ bytes' = (bytes - SizeOf[v]) % Modulus /\ v \in Tensors
          /\ p = At("retain", thread[t].target, v)
      BY <1>7, StepPlaces DEF Subtract, Evicting
    <2>2. p.pc = "retain"
      BY <2>1 DEF At
    <2> HIDE DEF p
    <2>3. InsertedIn(thread)[t] = 0 /\ RemovedIn(thread)[t] = SizeOf[v]
      BY <2>1 DEF InsertedIn, RemovedIn
    <2>4. Weight(InsertedIn(thread'), Threads) = I /\ Weight(RemovedIn(thread'), Threads) = R - SizeOf[v]
      BY <1>0, <2>1, <2>2, <2>3, SumsMove DEF I, R
    <2> HIDE DEF v
    <2> DEFINE D == B + leaked + R - I
               n == SizeOf[v]
    <2>5. D \in Int /\ -n \in Int /\ n \in Nat /\ D + (-n) = B + leaked + (R - n) - I
      <3>1. n \in Nat /\ B \in Nat /\ leaked \in Nat /\ R \in Nat /\ I \in Nat
        BY <1>0, <2>1
      <3> HIDE DEF n
      <3> QED
        BY <3>1
    <2>6. bytes \in Int /\ bytes = D % Modulus
      BY <1>0 DEF TypeInv
    <2> HIDE DEF D, n
    <2>7. ((D % Modulus) + (-n)) % Modulus = (D + (-n)) % Modulus
      BY <1>0, <2>5, ModAdd
    <2>8. bytes' = (B + leaked + (R - SizeOf[v]) - I) % Modulus
      <3>1. bytes - n = (D % Modulus) + (-n)
        BY <2>5, <2>6
      <3>2. bytes' = (bytes - n) % Modulus
        BY <2>1 DEF n
      <3> QED
        BY <2>5, <2>7, <3>1, <3>2 DEF n
    <2> QED
      BY <2>1, <2>4, <2>8 DEF Accounted, Balance, B
  <1>8. ASSUME NEW t \in Threads, Retain(t) PROVE Accounted'
    <2> DEFINE p == At("fit", thread[t].target, None)
    <2>1. Placed(p) /\ Goto(t, p) /\ UNCHANGED <<bytes, resident, leaked>> /\ thread[t].pc = "retain"
      BY <1>8, StepPlaces DEF Retain
    <2>2. p.pc = "fit"
      BY DEF At
    <2> HIDE DEF p
    <2> QED
      BY <2>1, <2>2, NothingUnderWay
  <1>9. ASSUME NEW t \in Threads, ReadFails(t) PROVE Accounted'
    <2>1. Placed(Idle) /\ Goto(t, Idle) /\ UNCHANGED <<bytes, resident, leaked>> /\ thread[t].pc = "read"
      BY <1>9, IdlePlaced DEF ReadFails
    <2>2. Idle.pc = "idle"
      BY DEF At, Idle
    <2> QED
      BY <2>1, <2>2, NothingUnderWay
  <1>10. ASSUME NEW t \in Threads, Insert(t) PROVE Accounted'
    <2> DEFINE x == thread[t].target
               p == At("push", x, None)
    <2>1. /\ thread[t].pc = "read" /\ Goto(t, p) /\ Placed(p) /\ UNCHANGED bytes
          /\ resident' = resident \cup {x} /\ x \in Tensors
          /\ leaked' = leaked + IF x \in resident THEN SizeOf[x] ELSE 0
      BY <1>10, StepPlaces DEF Insert
    <2>2. p.pc = "push" /\ p.target = x
      BY DEF At
    <2> HIDE DEF p
    <2>3. InsertedIn(thread)[t] = 0 /\ RemovedIn(thread)[t] = 0
      BY <2>1 DEF InsertedIn, RemovedIn
    <2> HIDE DEF x
    <2>4. Weight(InsertedIn(thread'), Threads) = I + SizeOf[x] /\ Weight(RemovedIn(thread'), Threads) = R
      BY <1>0, <2>1, <2>2, <2>3, SumsMove DEF I, R
    <2>5. Weight(SizeOf, resident') + leaked' = B + leaked + SizeOf[x]
      <3>1. CASE x \in resident
        <4>1. resident' = resident
          BY <2>1, <3>1
        <4>2. leaked' = leaked + SizeOf[x] /\ SizeOf[x] \in Nat /\ Weight(SizeOf, resident') = B
          BY <1>0, <2>1, <3>1, <4>1 DEF B
        <4>3. B \in Nat /\ leaked \in Nat
          BY <1>0
        <4> QED
          BY <4>2, <4>3
      <3>2. CASE x \notin resident
        <4>1. \A y \in resident \cup {x} : SizeOf[y] \in Nat
          BY <1>0, <2>1
        <4>2. Weight(SizeOf, resident \cup {x}) = SizeOf[x] + B
          BY <1>0, <3>2, <4>1, WeightAdd DEF B
        <4> QED
          BY <1>0, <2>1, <3>2, <4>2
      <3> QED
        BY <3>1, <3>2
    <2>6. Weight(SizeOf, resident') + leaked' + R - (I + SizeOf[x]) = B + leaked + R - I
      BY <1>0, <2>1, <2>5
    <2> QED
      BY <1>0, <2>1, <2>4, <2>6 DEF Accounted, Balance
  <1>11. ASSUME NEW t \in Threads, Push(t) PROVE Accounted'
    <2> DEFINE x == thread[t].target
               p == At("add", x, None)
    <2>1. /\ thread[t].pc = "push" /\ Goto(t, p) /\ Placed(p) /\ UNCHANGED <<bytes, resident, leaked>>
          /\ x \in Tensors
      BY <1>11, StepPlaces DEF Push
    <2>2. p.pc = "add" /\ p.target = x
      BY DEF At
    <2> HIDE DEF p
    <2>3. InsertedIn(thread)[t] = SizeOf[x] /\ RemovedIn(thread)[t] = 0
      BY <2>1 DEF InsertedIn, RemovedIn
    <2> HIDE DEF x
    <2>4. Weight(InsertedIn(thread'), Threads) = I /\ Weight(RemovedIn(thread'), Threads) = R
      BY <1>0, <2>1, <2>2, <2>3, SumsMove DEF I, R
    <2> QED
      BY <1>0, <2>1, <2>4 DEF Accounted, Balance, B
  <1>12. ASSUME NEW t \in Threads, Add(t) PROVE Accounted'
    <2> DEFINE x == thread[t].target
    <2>1. /\ thread[t].pc = "add" /\ Goto(t, Idle) /\ Placed(Idle) /\ UNCHANGED <<resident, leaked>>
          /\ bytes' = (bytes + SizeOf[x]) % Modulus /\ x \in Tensors
      BY <1>12, StepPlaces, IdlePlaced DEF Add
    <2>2. Idle.pc = "idle"
      BY DEF At, Idle
    <2>3. InsertedIn(thread)[t] = SizeOf[x] /\ RemovedIn(thread)[t] = 0
      BY <2>1 DEF InsertedIn, RemovedIn
    <2> HIDE DEF x
    <2>4. Weight(InsertedIn(thread'), Threads) = I - SizeOf[x] /\ Weight(RemovedIn(thread'), Threads) = R
      BY <1>0, <2>1, <2>2, <2>3, SumsMove DEF I, R
    <2> DEFINE D == B + leaked + R - I
               n == SizeOf[x]
    <2>5. D \in Int /\ n \in Int /\ D + n = B + leaked + R - (I - n)
      <3>1. n \in Nat /\ B \in Nat /\ leaked \in Nat /\ R \in Nat /\ I \in Nat
        BY <1>0, <2>1
      <3> HIDE DEF n
      <3> QED
        BY <3>1
    <2>6. bytes = D % Modulus
      BY <1>0
    <2> HIDE DEF D
    <2>7. bytes' = (B + leaked + R - (I - SizeOf[x])) % Modulus
      <3> HIDE DEF n
      <3>1. ((D % Modulus) + n) % Modulus = (D + n) % Modulus
        BY <1>0, <2>5, ModAdd
      <3>2. bytes' = (bytes + n) % Modulus
        BY <2>1 DEF n
      <3>3. bytes' = (B + leaked + R - (I - n)) % Modulus
        BY <2>5, <2>6, <3>1, <3>2
      <3> QED
        BY <3>3 DEF n
    <2> QED
      BY <2>1, <2>4, <2>7 DEF Accounted, Balance, B
  <1>13. CASE UNCHANGED vars
    BY <1>13 DEF vars, Accounted, Balance
  <1> QED
    BY <1>1, <1>2, <1>3, <1>4, <1>5, <1>6, <1>7, <1>8, <1>9, <1>10, <1>11, <1>12, <1>13
    DEF Next, Step

(* The sums of the properties are these sums. *)
LEMMA InsertedIsWeight == MapThenSumSet(InsertedNotAdded, Threads) = Weight(InsertedIn(thread), Threads)
  <1> DEFINE P(g) == g = [s \in SUBSET Threads |-> IF s = {} THEN 0
                             ELSE (IF thread[Pick1(s)].pc \in {"push", "add"} THEN SizeOf[thread[Pick1(s)].target] ELSE 0) + g[s \ {Pick1(s)}]]
             h    == CHOOSE g : P(g)
  <1>1. MapThenSumSet(InsertedNotAdded, Threads) = h[Threads]
    BY DEF MapThenSumSet, MapThenFoldSet, Pick1, InsertedNotAdded
  <1>2. ASSUME NEW g PROVE Summing(InsertedIn(thread), Threads, g) <=> P(g)
    <2>1. ASSUME NEW s \in SUBSET Threads, s # {}
          PROVE  InsertedIn(thread)[Pick1(s)] = (IF thread[Pick1(s)].pc \in {"push", "add"} THEN SizeOf[thread[Pick1(s)].target] ELSE 0)
      BY <2>1, Pick1In DEF InsertedIn
    <2>2. [s \in SUBSET Threads |-> IF s = {} THEN 0
               ELSE InsertedIn(thread)[Pick1(s)] + g[s \ {Pick1(s)}]]
            = [s \in SUBSET Threads |-> IF s = {} THEN 0 ELSE (IF thread[Pick1(s)].pc \in {"push", "add"} THEN SizeOf[thread[Pick1(s)].target] ELSE 0) + g[s \ {Pick1(s)}]]
      BY <2>1
    <2> QED
      BY <2>2 DEF Summing
  <1>3. IsFiniteSet(Threads)
    BY PagerAssumption
  <1>4. \E g : P(g)
    BY <1>2, <1>3, SummingExists
  <1> HIDE DEF P
  <1>5. P(h)
    BY <1>4
  <1> HIDE DEF h
  <1>6. Summing(InsertedIn(thread), Threads, h) /\ Threads \in SUBSET Threads
    BY <1>2, <1>5
  <1>7. Weight(InsertedIn(thread), Threads) = h[Threads]
    BY <1>3, <1>6, WeightSumming
  <1> QED
    BY <1>1, <1>7


LEMMA RemovedIsWeight == MapThenSumSet(RemovedNotSubtracted, Threads) = Weight(RemovedIn(thread), Threads)
  <1> DEFINE P(g) == g = [s \in SUBSET Threads |-> IF s = {} THEN 0
                             ELSE (IF thread[Pick1(s)].pc = "subtract" THEN SizeOf[thread[Pick1(s)].victim] ELSE 0) + g[s \ {Pick1(s)}]]
             h    == CHOOSE g : P(g)
  <1>1. MapThenSumSet(RemovedNotSubtracted, Threads) = h[Threads]
    BY DEF MapThenSumSet, MapThenFoldSet, Pick1, RemovedNotSubtracted
  <1>2. ASSUME NEW g PROVE Summing(RemovedIn(thread), Threads, g) <=> P(g)
    <2>1. ASSUME NEW s \in SUBSET Threads, s # {}
          PROVE  RemovedIn(thread)[Pick1(s)] = (IF thread[Pick1(s)].pc = "subtract" THEN SizeOf[thread[Pick1(s)].victim] ELSE 0)
      BY <2>1, Pick1In DEF RemovedIn
    <2>2. [s \in SUBSET Threads |-> IF s = {} THEN 0
               ELSE RemovedIn(thread)[Pick1(s)] + g[s \ {Pick1(s)}]]
            = [s \in SUBSET Threads |-> IF s = {} THEN 0 ELSE (IF thread[Pick1(s)].pc = "subtract" THEN SizeOf[thread[Pick1(s)].victim] ELSE 0) + g[s \ {Pick1(s)}]]
      BY <2>1
    <2> QED
      BY <2>2 DEF Summing
  <1>3. IsFiniteSet(Threads)
    BY PagerAssumption
  <1>4. \E g : P(g)
    BY <1>2, <1>3, SummingExists
  <1> HIDE DEF P
  <1>5. P(h)
    BY <1>4
  <1> HIDE DEF h
  <1>6. Summing(RemovedIn(thread), Threads, h) /\ Threads \in SUBSET Threads
    BY <1>2, <1>5
  <1>7. Weight(RemovedIn(thread), Threads) = h[Threads]
    BY <1>3, <1>6, WeightSumming
  <1> QED
    BY <1>1, <1>7

LEMMA BytesIsWeight ==
    ASSUME NEW xs
    PROVE  Bytes(xs) = Weight(SizeOf, xs)
  BY DEF Bytes, Weight, Size, MapThenSumSet, MapThenFoldSet

LEMMA InitAccounted == Init => Accounted
  <1> SUFFICES ASSUME Init PROVE Accounted
    OBVIOUS
  <1>1. /\ resident = {} /\ bytes = 0 /\ leaked = 0 /\ thread = [t \in Threads |-> Idle]
        /\ Modulus \in Nat \ {0} /\ IsFiniteSet(Threads)
    BY PagerAssumption DEF Init
  <1>2. Idle.pc = "idle"
    BY DEF Idle, At
  <1>3. \A t \in Threads : InsertedIn(thread)[t] \in 0..0 /\ RemovedIn(thread)[t] \in 0..0
    BY <1>1, <1>2 DEF InsertedIn, RemovedIn
  <1>4. /\ Weight(InsertedIn(thread), Threads) \in Nat /\ Cardinality(Threads) \in Nat
        /\ Weight(InsertedIn(thread), Threads) <= Cardinality(Threads) * 0
    BY <1>1, <1>3, WeightBound
  <1>5. /\ Weight(RemovedIn(thread), Threads) \in Nat
        /\ Weight(RemovedIn(thread), Threads) <= Cardinality(Threads) * 0
    BY <1>1, <1>3, WeightBound
  <1>6. Weight(InsertedIn(thread), Threads) = 0 /\ Weight(RemovedIn(thread), Threads) = 0
    BY <1>4, <1>5
  <1>7. Weight(SizeOf, resident) = 0
    BY <1>1, FS_EmptySet, WeightRec
  <1>8. Balance = 0
    BY <1>1, <1>6, <1>7 DEF Balance
  <1>9. 0 % Modulus = 0
    BY <1>1
  <1> QED
    BY <1>1, <1>8, <1>9 DEF Accounted

(* Whatever the interleaving of its locks and its atomic counter, what the *)
(* pager has counted is what it holds, up to the updates under way.        *)
THEOREM CounterIsExact == Spec => []BytesAccounted
  <1>1. Init => TypeInv /\ Accounted
    BY InitTypes, InitAccounted
  <1>2. TypeInv /\ Accounted /\ [Next]_vars => (TypeInv /\ Accounted)'
    BY StepTypes, StepAccounted
  <1>3. TypeInv /\ Accounted => BytesAccounted
    BY InsertedIsWeight, RemovedIsWeight, BytesIsWeight DEF Accounted, Balance, BytesAccounted
  <1> QED
    BY <1>1, <1>2, <1>3, PTL DEF Spec

----------------------------------------------------------------------------
(* The recency queue.                                                      *)

Out == {"subtract", "retain"}

(* The tensors that are in the map and not yet in the queue, and the       *)
(* victims that are in the queue still, of some threads.                   *)
PushedBy(th, ts) == {th[u].target : u \in {w \in ts : th[w].pc = "push"}}
LeftBy(th, ts) == {th[u].victim : u \in {w \in ts : th[w].pc \in Out}}

(* What a thread that no other one clashes with knows of the map.          *)
InPlace(r, p) ==
    /\ p.pc \in {"bump", "push"} => p.target \in r
    /\ p.pc \in {"fit", "pick", "remove", "subtract", "retain", "read"} => p.target \notin r
    /\ p.pc \in Out => p.victim \notin r

(* While no two threads have clashed, nothing is counted twice, each thread *)
(* finds the map as it left it, and no two threads see a victim out.        *)
Orderly ==
    /\ ~clashed /\ ~Clash(thread) /\ leaked = 0
    /\ NoDuplicates(lru)
    /\ Ids(lru) = (resident \ PushedBy(thread, Threads)) \cup LeftBy(thread, Threads)
    /\ \A t \in Threads : InPlace(resident, thread[t])
    /\ \A t, u \in Threads : t # u /\ thread[t].pc \in Out /\ thread[u].pc \in Out
                                => thread[t].victim # thread[u].victim

QueueInv == ~clashed => Orderly

(* What the others push or leave out is apart from t's own tensor and      *)
(* victim, before t moves and after.                                       *)
Apart(t, p) ==
    /\ p.target # None =>
          /\ p.target \notin PushedBy(thread, Threads \ {t})
          /\ p.target \notin LeftBy(thread, Threads \ {t})
          /\ \A u \in Threads \ {t} :
                /\ thread[u].pc \in Loading => thread[u].target # p.target
                /\ thread[u].victim # p.target
    /\ p.victim # None =>
          /\ p.victim \notin PushedBy(thread, Threads \ {t})
          /\ \A u \in Threads \ {t} : thread[u].target # p.victim

LEMMA NoClashApart ==
    ASSUME TypeInv, NEW t \in Threads, NEW p, NEW th,
           th[t] = p, \A u \in Threads \ {t} : th[u] = thread[u], ~Clash(th)
    PROVE  Apart(t, p)
  <1>1. \A u \in Threads \ {t} : p.target # None =>
            /\ thread[u].victim # p.target
            /\ thread[u].pc \in Loading => thread[u].target # p.target
    BY DEF Clash
  <1>2. \A u \in Threads \ {t} : p.victim # None => thread[u].target # p.victim
    BY DEF Clash
  <1>3. "push" \in Loading
    BY DEF Loading
  <1> QED
    BY <1>1, <1>2, <1>3 DEF Apart, PushedBy, LeftBy

LEMMA Moved ==
    ASSUME TypeInv, QueueInv, NEW t \in Threads, NEW p, Placed(p), Goto(t, p), ~clashed'
    PROVE  /\ Orderly /\ ~Clash(thread')
           /\ Apart(t, thread[t]) /\ Apart(t, p)
           /\ PushedBy(thread, Threads) = PushedBy(thread, Threads \ {t})
                 \cup (IF thread[t].pc = "push" THEN {thread[t].target} ELSE {})
           /\ LeftBy(thread, Threads) = LeftBy(thread, Threads \ {t})
                 \cup (IF thread[t].pc \in Out THEN {thread[t].victim} ELSE {})
           /\ PushedBy(thread', Threads) = PushedBy(thread, Threads \ {t})
                 \cup (IF p.pc = "push" THEN {p.target} ELSE {})
           /\ LeftBy(thread', Threads) = LeftBy(thread, Threads \ {t})
                 \cup (IF p.pc \in Out THEN {p.victim} ELSE {})
           /\ thread'[t] = p /\ \A u \in Threads \ {t} : thread'[u] = thread[u]
           /\ thread[t].pc \in Out => thread[t].victim \notin LeftBy(thread, Threads \ {t})
  <1>1. clashed' = (clashed \/ Clash(thread'))
    BY DEF Goto
  <1>2. ~clashed /\ ~Clash(thread')
    BY <1>1
  <1>3. Orderly
    BY <1>2 DEF QueueInv
  <1>4. \A u \in Threads : thread'[u] = IF u = t THEN p ELSE thread[u]
    BY GotoTypes
  <1>5. thread'[t] = p /\ \A u \in Threads \ {t} : thread'[u] = thread[u]
    BY <1>4
  <1>6. Apart(t, thread[t])
    BY <1>3, NoClashApart DEF Orderly
  <1>7. Apart(t, p)
    BY <1>2, <1>5, NoClashApart
  <1>8. /\ PushedBy(thread, Threads) = PushedBy(thread, Threads \ {t})
              \cup (IF thread[t].pc = "push" THEN {thread[t].target} ELSE {})
        /\ LeftBy(thread, Threads) = LeftBy(thread, Threads \ {t})
              \cup (IF thread[t].pc \in Out THEN {thread[t].victim} ELSE {})
    BY DEF PushedBy, LeftBy
  <1>9. PushedBy(thread', Threads) = PushedBy(thread, Threads \ {t})
              \cup (IF p.pc = "push" THEN {p.target} ELSE {})
    BY <1>5 DEF PushedBy
  <1>10. LeftBy(thread', Threads) = LeftBy(thread, Threads \ {t})
              \cup (IF p.pc \in Out THEN {p.victim} ELSE {})
    BY <1>5 DEF LeftBy
  <1>11. thread[t].pc \in Out => thread[t].victim \notin LeftBy(thread, Threads \ {t})
    BY <1>3 DEF Orderly, LeftBy
  <1> QED
    BY <1>2, <1>3, <1>5, <1>6, <1>7, <1>8, <1>9, <1>10, <1>11

LEMMA Before ==
    ASSUME TypeInv, Orderly, NEW t \in Threads
    PROVE  LET PO == PushedBy(thread, Threads \ {t})
               LO == LeftBy(thread, Threads \ {t})
           IN  /\ Apart(t, thread[t])
               /\ thread[t].pc = "push" => PushedBy(thread, Threads) = PO \cup {thread[t].target}
               /\ thread[t].pc # "push" => PushedBy(thread, Threads) = PO
               /\ thread[t].pc \in Out => /\ LeftBy(thread, Threads) = LO \cup {thread[t].victim}
                                          /\ thread[t].victim \notin LO
               /\ thread[t].pc \notin Out => LeftBy(thread, Threads) = LO
  <1>1. Apart(t, thread[t])
    BY NoClashApart DEF Orderly
  <1>2. thread[t].pc = "push" => PushedBy(thread, Threads) = PushedBy(thread, Threads \ {t}) \cup {thread[t].target}
    BY DEF PushedBy
  <1>3. thread[t].pc # "push" => PushedBy(thread, Threads) = PushedBy(thread, Threads \ {t})
    BY DEF PushedBy
  <1>4. thread[t].pc \in Out => LeftBy(thread, Threads) = LeftBy(thread, Threads \ {t}) \cup {thread[t].victim}
    BY DEF LeftBy
  <1>5. thread[t].pc \notin Out => LeftBy(thread, Threads) = LeftBy(thread, Threads \ {t})
    BY DEF LeftBy
  <1>6. thread[t].pc \in Out => thread[t].victim \notin LeftBy(thread, Threads \ {t})
    BY DEF Orderly, LeftBy
  <1> QED
    BY <1>1, <1>2, <1>3, <1>4, <1>5, <1>6

(* A move that leaves the queue with exactly what the new places ask for.  *)
LEMMA Settled ==
    ASSUME TypeInv, QueueInv, NEW t \in Threads, NEW p, Placed(p), Goto(t, p), ~clashed',
           NoDuplicates(lru'), leaked' = 0,
           Ids(lru') = (resident' \ (PushedBy(thread, Threads \ {t})
                                        \cup (IF p.pc = "push" THEN {p.target} ELSE {})))
                         \cup LeftBy(thread, Threads \ {t})
                         \cup (IF p.pc \in Out THEN {p.victim} ELSE {}),
           InPlace(resident', p), \A u \in Threads \ {t} : InPlace(resident', thread[u]),
           p.pc \in Out => \A u \in Threads \ {t} : thread[u].pc \in Out => thread[u].victim # p.victim
    PROVE  Orderly'
  <1>1. /\ Orderly /\ ~Clash(thread')
        /\ PushedBy(thread', Threads) = PushedBy(thread, Threads \ {t})
                 \cup (IF p.pc = "push" THEN {p.target} ELSE {})
        /\ LeftBy(thread', Threads) = LeftBy(thread, Threads \ {t})
                 \cup (IF p.pc \in Out THEN {p.victim} ELSE {})
        /\ thread'[t] = p /\ \A u \in Threads \ {t} : thread'[u] = thread[u]
    BY Moved
  <1>2. Ids(lru') = (resident' \ PushedBy(thread', Threads)) \cup LeftBy(thread', Threads)
    BY <1>1
  <1>3. \A u \in Threads : InPlace(resident', thread'[u])
    BY <1>1
  <1>4. \A u, w \in Threads : u # w /\ thread'[u].pc \in Out /\ thread'[w].pc \in Out
                                => thread'[u].victim # thread'[w].victim
    BY <1>1 DEF Orderly
  <1> QED
    BY <1>1, <1>2, <1>3, <1>4 DEF Orderly

(* A move that touches neither map nor queue.                              *)
LEMMA OnlyMoved ==
    ASSUME TypeInv, QueueInv, NEW t \in Threads, NEW p, Placed(p), Goto(t, p), ~clashed',
           UNCHANGED <<resident, lru, leaked>>, thread[t].pc # "push", p.pc # "push",
           \/ thread[t].pc \notin Out /\ p.pc \notin Out
           \/ thread[t].pc \in Out /\ p.pc \in Out /\ p.victim = thread[t].victim,
           Orderly => InPlace(resident, p)
    PROVE  Orderly'
  <1>1. /\ Orderly
        /\ PushedBy(thread, Threads) = PushedBy(thread, Threads \ {t})
                 \cup (IF thread[t].pc = "push" THEN {thread[t].target} ELSE {})
        /\ LeftBy(thread, Threads) = LeftBy(thread, Threads \ {t})
                 \cup (IF thread[t].pc \in Out THEN {thread[t].victim} ELSE {})
    BY Moved
  <1>2. /\ NoDuplicates(lru) /\ leaked = 0
        /\ Ids(lru) = (resident \ PushedBy(thread, Threads)) \cup LeftBy(thread, Threads)
        /\ \A u \in Threads : InPlace(resident, thread[u])
        /\ \A u \in Threads \ {t} : thread[t].pc \in Out /\ thread[u].pc \in Out
                                       => thread[u].victim # thread[t].victim
    BY <1>1 DEF Orderly
  <1>3. (IF p.pc \in Out THEN {p.victim} ELSE {}) = (IF thread[t].pc \in Out THEN {thread[t].victim} ELSE {})
    OBVIOUS
  <1>4. Ids(lru') = (resident' \ (PushedBy(thread, Threads \ {t})
                                        \cup (IF p.pc = "push" THEN {p.target} ELSE {})))
                         \cup LeftBy(thread, Threads \ {t})
                         \cup (IF p.pc \in Out THEN {p.victim} ELSE {})
    BY <1>1, <1>2, <1>3
  <1>5. InPlace(resident', p) /\ \A u \in Threads \ {t} : InPlace(resident', thread[u])
    BY <1>1, <1>2
  <1>6. NoDuplicates(lru') /\ leaked' = 0
    BY <1>2
  <1>7. p.pc \in Out => \A u \in Threads \ {t} : thread[u].pc \in Out => thread[u].victim # p.victim
    BY <1>2
  <1> QED
    BY <1>4, <1>5, <1>6, <1>7, Settled

LEMMA StepOrderly ==
    ASSUME TypeInv, QueueInv, [Next]_vars, ~clashed'
    PROVE  Orderly'
  <1>0. ASSUME NEW t \in Threads, NEW p, Goto(t, p) PROVE Orderly
    BY <1>0 DEF Goto, QueueInv
  <1>1. ASSUME NEW t \in Threads, NEW x \in Tensors, Acquire(t, x) PROVE Orderly'
    <2> DEFINE p == At(IF x \in resident THEN "bump" ELSE "fit", x, None)
    <2>1. /\ thread[t] = Idle /\ Placed(p) /\ Goto(t, p) /\ UNCHANGED <<resident, lru, leaked>>
      BY <1>1, StepPlaces DEF Acquire
    <2>2. /\ thread[t].pc = "idle" /\ p.pc \in {"bump", "fit"} /\ InPlace(resident, p)
      BY <2>1 DEF Idle, At, InPlace, Out
    <2> HIDE DEF p
    <2>3. thread[t].pc \notin Out /\ p.pc \notin Out /\ thread[t].pc # "push" /\ p.pc # "push"
      BY <2>2 DEF Out
    <2> QED
      BY <2>1, <2>2, <2>3, OnlyMoved
  <1>2. ASSUME NEW t \in Threads, BumpLru(t) PROVE Orderly'
    <2> DEFINE x == thread[t].target
               p == At("reread", x, None)
               PO == PushedBy(thread, Threads \ {t})
               LO == LeftBy(thread, Threads \ {t})
    <2>1. /\ Placed(p) /\ Goto(t, p) /\ UNCHANGED <<resident, leaked>> /\ thread[t].pc = "bump"
          /\ lru' = Append(RemoveOne(lru, x), x) /\ x \in Tensors
      BY <1>2, StepPlaces DEF BumpLru
    <2>2. p.pc = "reread"
      BY DEF At
    <2> HIDE DEF p, x
    <2>3. /\ Orderly /\ Apart(t, thread[t])
          /\ PushedBy(thread, Threads) = PO /\ LeftBy(thread, Threads) = LO
      <3>1. Orderly
        BY <1>0, <2>1
      <3> QED
        BY <2>1, <3>1, Before DEF Out, x, PO, LO
    <2>4. x \in resident /\ x \notin PO
      BY <2>1, <2>3, PagerAssumption DEF Orderly, InPlace, Apart, x
    <2>5. lru \in Seq(Tensors) /\ NoDuplicates(lru) /\ Ids(lru) = (resident \ PO) \cup LO /\ leaked = 0
      BY <2>3 DEF TypeInv, Orderly
    <2>6. RemoveOne(lru, x) \in Seq(Tensors) /\ NoDuplicates(RemoveOne(lru, x))
          /\ Ids(RemoveOne(lru, x)) = Ids(lru) \ {x}
      BY <2>5, RemoveOneLemma
    <2>7. NoDuplicates(lru') /\ Ids(lru') = (Ids(lru) \ {x}) \cup {x}
      BY <2>1, <2>6, AppendLemma
    <2>8. Ids(lru') = (resident' \ (PO \cup (IF p.pc = "push" THEN {p.target} ELSE {})))
                        \cup LO \cup (IF p.pc \in Out THEN {p.victim} ELSE {})
      BY <2>1, <2>2, <2>4, <2>5, <2>7 DEF Out
    <2>9. InPlace(resident', p) /\ \A u \in Threads \ {t} : InPlace(resident', thread[u])
      BY <2>1, <2>2, <2>3 DEF InPlace, Orderly, Out
    <2>10. leaked' = 0 /\ p.pc \notin Out
      BY <2>1, <2>2, <2>5 DEF Out
    <2> QED
      BY <2>1, <2>7, <2>8, <2>9, <2>10, Settled
  <1>3. ASSUME NEW t \in Threads, Reread(t) PROVE Orderly'
    <2> DEFINE p == IF thread[t].target \in resident THEN Idle ELSE At("fit", thread[t].target, None)
    <2>1. /\ Placed(p) /\ Goto(t, p) /\ UNCHANGED <<resident, lru, leaked>> /\ thread[t].pc = "reread"
      BY <1>3, StepPlaces, IdlePlaced DEF Reread
    <2>2. p.pc \in {"idle", "fit"} /\ InPlace(resident, p)
      BY DEF At, Idle, InPlace, Out
    <2> HIDE DEF p
    <2>3. thread[t].pc \notin Out /\ p.pc \notin Out /\ thread[t].pc # "push" /\ p.pc # "push"
      BY <2>1, <2>2 DEF Out
    <2> QED
      BY <2>1, <2>2, <2>3, OnlyMoved
  <1>4. ASSUME NEW t \in Threads, CheckBudget(t) PROVE Orderly'
    <2> DEFINE p == At(IF SaturatingAdd(bytes, SizeOf[thread[t].target]) <= Budget
                       THEN "read" ELSE "pick", thread[t].target, None)
    <2>1. Placed(p) /\ Goto(t, p) /\ UNCHANGED <<resident, lru, leaked>> /\ thread[t].pc = "fit"
      BY <1>4, StepPlaces DEF CheckBudget
    <2>2. p.pc \in {"read", "pick"} /\ p.target = thread[t].target
      BY DEF At
    <2> HIDE DEF p
    <2>3. Orderly => InPlace(resident, p)
      BY <2>1, <2>2 DEF Orderly, InPlace, Out
    <2>4. thread[t].pc \notin Out /\ p.pc \notin Out /\ thread[t].pc # "push" /\ p.pc # "push"
      BY <2>1, <2>2 DEF Out
    <2> QED
      BY <2>1, <2>3, <2>4, OnlyMoved
  <1>5. ASSUME NEW t \in Threads, Pick(t) PROVE Orderly'
    <2> DEFINE p == IF Candidates = {} THEN At("read", thread[t].target, None)
                    ELSE At("remove", thread[t].target, lru[Min(Candidates)])
    <2>1. Placed(p) /\ Goto(t, p) /\ UNCHANGED <<resident, lru, leaked>> /\ thread[t].pc = "pick"
      BY <1>5, StepPlaces DEF Pick
    <2>2. p.pc \in {"read", "remove"} /\ p.target = thread[t].target
      BY DEF At
    <2> HIDE DEF p
    <2>3. Orderly => InPlace(resident, p)
      BY <2>1, <2>2 DEF Orderly, InPlace, Out
    <2>4. thread[t].pc \notin Out /\ p.pc \notin Out /\ thread[t].pc # "push" /\ p.pc # "push"
      BY <2>1, <2>2 DEF Out
    <2> QED
      BY <2>1, <2>3, <2>4, OnlyMoved
  <1>6. ASSUME NEW t \in Threads, RemoveVictim(t) PROVE Orderly'
    <2> DEFINE x == thread[t].target
               v == thread[t].victim
               PO == PushedBy(thread, Threads \ {t})
               LO == LeftBy(thread, Threads \ {t})
    <2>1. /\ thread[t].pc = "remove" /\ resident' = resident \ {v} /\ UNCHANGED <<lru, leaked>>
          /\ Goto(t, IF v \in resident THEN At("subtract", x, v) ELSE At("fit", x, None))
          /\ Placed(At("fit", x, None)) /\ Placed(At("subtract", x, v))
          /\ x \in Tensors /\ v \in Tensors
      BY <1>6, StepPlaces DEF RemoveVictim, Evicting
    <2>2. CASE v \notin resident
      <3> DEFINE p == At("fit", x, None)
      <3>1. Goto(t, p) /\ Placed(p) /\ UNCHANGED <<resident, lru, leaked>>
        BY <2>1, <2>2
      <3>2. p.pc = "fit" /\ p.target = thread[t].target
        BY DEF At
      <3> HIDE DEF p
      <3>3. Orderly => InPlace(resident, p)
        BY <2>1, <3>2 DEF Orderly, InPlace, Out
      <3>4. thread[t].pc \notin Out /\ p.pc \notin Out /\ thread[t].pc # "push" /\ p.pc # "push"
        BY <2>1, <3>2 DEF Out
      <3> QED
        BY <3>1, <3>3, <3>4, OnlyMoved
    <2>3. CASE v \in resident
      <3> DEFINE p == At("subtract", x, v)
      <3>1. Goto(t, p) /\ Placed(p) /\ p.pc = "subtract" /\ p.victim = v /\ p.target = x
        BY <2>1, <2>3 DEF At
      <3> HIDE DEF p
      <3>2. /\ Orderly /\ Apart(t, thread[t])
            /\ PushedBy(thread, Threads) = PO /\ LeftBy(thread, Threads) = LO
        <4>1. Orderly
          BY <1>0, <2>1, <3>1
        <4> QED
          BY <2>1, <3>1, <4>1, Before DEF Out, x, v, PO, LO
      <3>3. v # None /\ v \notin PO /\ \A u \in Threads \ {t} : thread[u].target # v
        BY <2>1, <3>2, PagerAssumption DEF Apart
      <3>4. /\ \A u \in Threads : InPlace(resident, thread[u])
            /\ NoDuplicates(lru) /\ leaked = 0 /\ Ids(lru) = (resident \ PO) \cup LO
        BY <3>2 DEF Orderly
      <3>5. Ids(lru') = (resident' \ (PO \cup (IF p.pc = "push" THEN {p.target} ELSE {})))
                          \cup LO \cup (IF p.pc \in Out THEN {p.victim} ELSE {})
        BY <2>1, <2>3, <3>1, <3>3, <3>4 DEF Out
      <3>6. \A u \in Threads \ {t} : thread[u].pc \in Out => thread[u].victim # p.victim
        BY <2>3, <3>1, <3>4 DEF InPlace
      <3>7. \A u \in Threads \ {t} : InPlace(resident', thread[u])
        BY <2>1, <3>3, <3>4 DEF InPlace
      <3>8. InPlace(resident', p)
        <4>1. InPlace(resident, thread[t])
          BY <3>4
        <4>2. x \notin resident
          BY <2>1, <4>1 DEF InPlace
        <4> QED
          BY <2>1, <3>1, <4>2 DEF InPlace
      <3> HIDE DEF x, v, PO, LO
      <3>9. NoDuplicates(lru') /\ leaked' = 0
        BY <2>1, <3>4
      <3> QED
        BY <3>1, <3>5, <3>6, <3>7, <3>8, <3>9, Settled DEF PO, LO
    <2> QED
      BY <2>2, <2>3
  <1>7. ASSUME NEW t \in Threads, Subtract(t) PROVE Orderly'
    <2> DEFINE p == [thread[t] EXCEPT !.pc = "retain"]
    <2>1. /\ thread[t].pc = "subtract" /\ Goto(t, p) /\ Placed(p) /\ UNCHANGED <<resident, lru, leaked>>
          /\ p = At("retain", thread[t].target, thread[t].victim)
      BY <1>7, StepPlaces DEF Subtract
    <2>2. p.pc = "retain" /\ p.target = thread[t].target /\ p.victim = thread[t].victim
      BY <2>1 DEF At
    <2> HIDE DEF p
    <2>3. Orderly => InPlace(resident, p)
      BY <2>1, <2>2 DEF Orderly, InPlace, Out
    <2>4. thread[t].pc \in Out /\ p.pc \in Out /\ thread[t].pc # "push" /\ p.pc # "push"
      BY <2>1, <2>2 DEF Out
    <2> QED
      BY <2>1, <2>2, <2>3, <2>4, OnlyMoved
  <1>8. ASSUME NEW t \in Threads, Retain(t) PROVE Orderly'
    <2> DEFINE x == thread[t].target
               v == thread[t].victim
               p == At("fit", x, None)
               PO == PushedBy(thread, Threads \ {t})
               LO == LeftBy(thread, Threads \ {t})
    <2>1. /\ Placed(p) /\ Goto(t, p) /\ UNCHANGED <<resident, leaked>> /\ thread[t].pc = "retain"
          /\ lru' = Without(lru, v)
      BY <1>8, StepPlaces DEF Retain
    <2>2. p.pc = "fit" /\ p.target = x
      BY DEF At
    <2> HIDE DEF p
    <2>3. /\ Orderly /\ PushedBy(thread, Threads) = PO
          /\ LeftBy(thread, Threads) = LO \cup {v} /\ v \notin LO
      <3>1. Orderly
        BY <1>0, <2>1
      <3> QED
        BY <2>1, <3>1, Before DEF Out, x, v, PO, LO
    <2>4. /\ \A u \in Threads : InPlace(resident, thread[u])
          /\ lru \in Seq(Tensors) /\ NoDuplicates(lru) /\ leaked = 0
          /\ Ids(lru) = (resident \ PO) \cup LO \cup {v}
      BY <2>3 DEF Orderly, TypeInv
    <2>5. x \notin resident /\ v \notin resident
      <3>1. InPlace(resident, thread[t])
        BY <2>4
      <3> QED
        BY <2>1, <3>1 DEF InPlace, Out
    <2>6. NoDuplicates(lru') /\ Ids(lru') = Ids(lru) \ {v}
      BY <2>1, <2>4, WithoutLemma
    <2> HIDE DEF x, v, PO, LO
    <2>7. Ids(lru') = (resident' \ (PO \cup (IF p.pc = "push" THEN {p.target} ELSE {})))
                        \cup LO \cup (IF p.pc \in Out THEN {p.victim} ELSE {})
      BY <2>1, <2>2, <2>3, <2>4, <2>5, <2>6 DEF Out
    <2>8. InPlace(resident', p) /\ \A u \in Threads \ {t} : InPlace(resident', thread[u])
      BY <2>1, <2>2, <2>4, <2>5 DEF InPlace, Out
    <2>9. leaked' = 0 /\ p.pc \notin Out
      BY <2>1, <2>2, <2>4 DEF Out
    <2> QED
      BY <2>1, <2>6, <2>7, <2>8, <2>9, Settled DEF PO, LO
  <1>9. ASSUME NEW t \in Threads, ReadFails(t) PROVE Orderly'
    <2>1. Placed(Idle) /\ Goto(t, Idle) /\ UNCHANGED <<resident, lru, leaked>> /\ thread[t].pc = "read"
      BY <1>9, IdlePlaced DEF ReadFails
    <2>2. Idle.pc = "idle" /\ InPlace(resident, Idle)
      BY DEF At, Idle, InPlace, Out
    <2>3. thread[t].pc \notin Out /\ Idle.pc \notin Out /\ thread[t].pc # "push" /\ Idle.pc # "push"
      BY <2>1, <2>2 DEF Out
    <2> QED
      BY <2>1, <2>2, <2>3, OnlyMoved
  <1>10. ASSUME NEW t \in Threads, Insert(t) PROVE Orderly'
    <2> DEFINE x == thread[t].target
               p == At("push", x, None)
               PO == PushedBy(thread, Threads \ {t})
               LO == LeftBy(thread, Threads \ {t})
    <2>1. /\ thread[t].pc = "read" /\ Goto(t, p) /\ Placed(p) /\ UNCHANGED lru
          /\ resident' = resident \cup {x} /\ x \in Tensors
          /\ leaked' = leaked + IF x \in resident THEN SizeOf[x] ELSE 0
      BY <1>10, StepPlaces DEF Insert
    <2>2. p.pc = "push" /\ p.target = x
      BY DEF At
    <2> HIDE DEF p
    <2>3. /\ Orderly /\ Apart(t, thread[t])
          /\ PushedBy(thread, Threads) = PO /\ LeftBy(thread, Threads) = LO
      <3>1. Orderly
        BY <1>0, <2>1
      <3> QED
        BY <2>1, <3>1, Before DEF Out, x, PO, LO
    <2>4. /\ \A u \in Threads : InPlace(resident, thread[u])
          /\ NoDuplicates(lru) /\ leaked = 0 /\ Ids(lru) = (resident \ PO) \cup LO
      BY <2>3 DEF Orderly
    <2>5. x \notin resident
      <3>1. InPlace(resident, thread[t])
        BY <2>4
      <3> QED
        BY <2>1, <3>1 DEF InPlace
    <2>6. \A u \in Threads \ {t} : /\ thread[u].pc \in Loading => thread[u].target # x
                                   /\ thread[u].victim # x
      BY <2>1, <2>3, PagerAssumption DEF Apart
    <2>7. \A u \in Threads \ {t} : InPlace(resident', thread[u])
      BY <2>1, <2>4, <2>6 DEF InPlace, Loading
    <2> HIDE DEF x, PO, LO
    <2>8. Ids(lru') = (resident' \ (PO \cup (IF p.pc = "push" THEN {p.target} ELSE {})))
                        \cup LO \cup (IF p.pc \in Out THEN {p.victim} ELSE {})
      BY <2>1, <2>2, <2>4, <2>5 DEF Out
    <2>9. InPlace(resident', p)
      BY <2>1, <2>2 DEF InPlace, Out
    <2>10. NoDuplicates(lru') /\ leaked' = 0 /\ p.pc \notin Out
      BY <2>1, <2>2, <2>4, <2>5 DEF Out
    <2> QED
      BY <2>1, <2>7, <2>8, <2>9, <2>10, Settled DEF PO, LO
  <1>11. ASSUME NEW t \in Threads, Push(t) PROVE Orderly'
    <2> DEFINE x == thread[t].target
               p == At("add", x, None)
               PO == PushedBy(thread, Threads \ {t})
               LO == LeftBy(thread, Threads \ {t})
    <2>1. /\ thread[t].pc = "push" /\ Goto(t, p) /\ Placed(p) /\ UNCHANGED <<resident, leaked>>
          /\ x \in Tensors /\ lru' = Append(lru, x)
      BY <1>11, StepPlaces DEF Push
    <2>2. p.pc = "add"
      BY DEF At
    <2> HIDE DEF p
    <2>3. /\ Orderly /\ Apart(t, thread[t])
          /\ PushedBy(thread, Threads) = PO \cup {x} /\ LeftBy(thread, Threads) = LO
      <3>1. Orderly
        BY <1>0, <2>1
      <3> QED
        BY <2>1, <3>1, Before DEF Out, x, PO, LO
    <2>4. /\ \A u \in Threads : InPlace(resident, thread[u])
          /\ lru \in Seq(Tensors) /\ NoDuplicates(lru) /\ leaked = 0
          /\ Ids(lru) = (resident \ (PO \cup {x})) \cup LO
      BY <2>3 DEF Orderly, TypeInv
    <2>5. x \in resident /\ x \notin PO /\ x \notin LO
      <3>1. InPlace(resident, thread[t])
        BY <2>4
      <3>2. x \in resident
        BY <2>1, <3>1 DEF InPlace
      <3> QED
        BY <2>1, <2>3, <3>2, PagerAssumption DEF Apart
    <2> HIDE DEF x, PO, LO
    <2>6. NoDuplicates(lru') /\ Ids(lru') = Ids(lru) \cup {x}
      <3>1. x \notin Ids(lru)
        BY <2>4, <2>5
      <3> QED
        BY <2>1, <2>4, <3>1, AppendLemma
    <2>7. Ids(lru') = (resident' \ (PO \cup (IF p.pc = "push" THEN {p.target} ELSE {})))
                        \cup LO \cup (IF p.pc \in Out THEN {p.victim} ELSE {})
      BY <2>1, <2>2, <2>4, <2>5, <2>6 DEF Out
    <2>8. InPlace(resident', p) /\ \A u \in Threads \ {t} : InPlace(resident', thread[u])
      BY <2>1, <2>2, <2>4 DEF InPlace, Out
    <2>9. leaked' = 0 /\ p.pc \notin Out
      BY <2>1, <2>2, <2>4 DEF Out
    <2> QED
      BY <2>1, <2>6, <2>7, <2>8, <2>9, Settled DEF PO, LO
  <1>12. ASSUME NEW t \in Threads, Add(t) PROVE Orderly'
    <2>1. Placed(Idle) /\ Goto(t, Idle) /\ UNCHANGED <<resident, lru, leaked>> /\ thread[t].pc = "add"
      BY <1>12, IdlePlaced DEF Add
    <2>2. Idle.pc = "idle" /\ InPlace(resident, Idle)
      BY DEF At, Idle, InPlace, Out
    <2>3. thread[t].pc \notin Out /\ Idle.pc \notin Out /\ thread[t].pc # "push" /\ Idle.pc # "push"
      BY <2>1, <2>2 DEF Out
    <2> QED
      BY <2>1, <2>2, <2>3, OnlyMoved
  <1>13. CASE UNCHANGED vars
    BY <1>13 DEF vars, QueueInv, Orderly
  <1> QED
    BY <1>1, <1>2, <1>3, <1>4, <1>5, <1>6, <1>7, <1>8, <1>9, <1>10, <1>11, <1>12, <1>13
    DEF Next, Step

LEMMA InitOrderly == Init => QueueInv
  <1> SUFFICES ASSUME Init PROVE Orderly
    BY DEF QueueInv
  <1>1. /\ resident = {} /\ lru = <<>> /\ leaked = 0 /\ clashed = FALSE
        /\ thread = [t \in Threads |-> Idle]
    BY DEF Init
  <1>2. Idle.pc = "idle" /\ Idle.target = None /\ Idle.victim = None
    BY DEF Idle, At
  <1>3. \A t \in Threads : thread[t].pc = "idle" /\ thread[t].target = None
    BY <1>1, <1>2
  <1>4. ~Clash(thread)
    BY <1>3 DEF Clash
  <1>5. Ids(lru) = {} /\ NoDuplicates(lru)
    <2>1. DOMAIN lru = {}
      BY <1>1
    <2> QED
      BY <2>1 DEF Ids, NoDuplicates
  <1>6. PushedBy(thread, Threads) = {} /\ LeftBy(thread, Threads) = {}
    BY <1>3 DEF PushedBy, LeftBy, Out
  <1>7. \A t \in Threads : InPlace(resident, thread[t]) /\ thread[t].pc \notin Out
    BY <1>3 DEF InPlace, Out
  <1> QED
    BY <1>1, <1>4, <1>5, <1>6, <1>7 DEF Orderly

(* The queue has each resident tensor once, as long as no two threads have *)
(* worked on the same tensor, although each access to it is a step apart   *)
(* from those to the map; and every variable keeps its type.               *)
THEOREM QueueIsExact == Spec => []QueueMatchesResident
  <1>1. Init => TypeInv /\ QueueInv
    BY InitTypes, InitOrderly
  <1>2. TypeInv /\ QueueInv /\ [Next]_vars => (TypeInv /\ QueueInv)'
    BY StepTypes, StepOrderly DEF QueueInv
  <1>3. TypeInv /\ QueueInv => QueueMatchesResident
    <2> SUFFICES ASSUME TypeInv, QueueInv PROVE QueueMatchesResident
      OBVIOUS
    <2>1. TypeOK
      <3>1. \A t \in Threads : thread[t].target = None <=> thread[t] = Idle
        BY DEF TypeInv, Placed
      <3> QED
        BY <3>1 DEF TypeInv, TypeOK, Place
    <2>2. ASSUME ~clashed
          PROVE  /\ NoDuplicates(lru)
                 /\ Ids(lru) = (resident \ PushedBy(thread, Threads)) \cup LeftBy(thread, Threads)
      BY <2>2 DEF QueueInv, Orderly
    <2> QED
      BY <2>1, <2>2 DEF QueueMatchesResident, PushedBy, LeftBy, Out
  <1> QED
    BY <1>1, <1>2, <1>3, PTL DEF Spec

----------------------------------------------------------------------------
(* The budget.                                                             *)

(* What each thread is about to insert. *)
ReadingIn(th) == [t \in Threads |-> IF th[t].pc = "read" THEN SizeOf[th[t].target] ELSE 0]

Cap == Max({Budget, Bytes(Pinned) + Biggest})
Others == (Cardinality(Threads) - 1) * Biggest

(* A thread that has passed the check counts as if it had inserted.        *)
RoomInv ==
    ~clashed => Weight(SizeOf, resident) + Weight(ReadingIn(thread), Threads) <= Cap + Others

LEMMA SizesBounded ==
    ASSUME Tensors # {}
    PROVE  /\ Biggest \in Nat /\ \A x \in Tensors : SizeOf[x] \in 0..Biggest
           /\ Cap \in Nat /\ Others \in Nat /\ Budget \in Nat /\ Weight(SizeOf, Pinned) \in Nat
           /\ Budget <= Cap /\ Weight(SizeOf, Pinned) + Biggest <= Cap
  <1> DEFINE W == Weight(SizeOf, Tensors)
             S == {SizeOf[x] : x \in Tensors}
  <1>1. IsFiniteSet(Tensors) /\ \A x \in Tensors : SizeOf[x] \in Nat
    BY PagerAssumption
  <1>2. W \in Nat
    <2>1. Tensors \in SUBSET Tensors
      OBVIOUS
    <2> QED
      BY <1>1, <2>1, WeightNat
  <1>3. ASSUME NEW x \in Tensors PROVE SizeOf[x] \in 0..W
    <2>1. Weight(SizeOf, Tensors \ {x}) \in Nat /\ W = SizeOf[x] + Weight(SizeOf, Tensors \ {x})
      BY <1>1, WeightRemove
    <2> QED
      BY <1>1, <1>2, <2>1
  <1> HIDE DEF W
  <1>4. S \in SUBSET (0..W) /\ S # {}
    BY <1>3
  <1>5. Biggest \in S /\ \A y \in S : Biggest >= y
    <2> HIDE DEF S
    <2> QED
      BY <1>2, <1>4, MaxNat DEF Biggest, S
  <1>6. Biggest \in Nat /\ \A x \in Tensors : SizeOf[x] \in 0..Biggest
    BY <1>1, <1>5
  <1>7. Weight(SizeOf, Pinned) \in Nat
    <2>1. Pinned \in SUBSET Tensors
      BY PagerAssumption
    <2> QED
      BY <1>1, <2>1, WeightNat
  <1>8. Budget \in Nat
    BY PagerAssumption
  <1>9. Cap \in Nat /\ Budget <= Cap /\ Weight(SizeOf, Pinned) + Biggest <= Cap
    <2> DEFINE b == Bytes(Pinned) + Biggest
               M == {Budget, b}
    <2>1. b = Weight(SizeOf, Pinned) + Biggest /\ b \in Nat
      BY <1>6, <1>7, BytesIsWeight
    <2> HIDE DEF b
    <2>2. Budget + b \in Nat /\ M \in SUBSET (0..(Budget + b)) /\ M # {}
      BY <1>8, <2>1
    <2>3. Max(M) \in M /\ \A y \in M : Max(M) >= y
      <3> HIDE DEF M
      <3> QED
        BY <2>2, MaxNat
    <2>4. Cap = Max(M)
      BY DEF Cap, b
    <2>5. Cap \in {Budget, b} /\ Cap >= Budget /\ Cap >= b
      BY <2>3, <2>4
    <2> QED
      BY <1>8, <2>1, <2>5
  <1>10. Others \in Nat
    <2>1. Cardinality(Threads) \in Nat \ {0}
      BY PagerAssumption, FS_CardinalityType, FS_EmptySet
    <2>2. Cardinality(Threads) - 1 \in Nat
      BY <2>1
    <2> QED
      BY <1>6, <2>2 DEF Others
  <1> QED
    BY <1>6, <1>7, <1>8, <1>9, <1>10

LEMMA ReadingTyped ==
    ASSUME TypeInv
    PROVE  /\ \A t \in Threads : ReadingIn(thread)[t] \in Nat
           /\ Weight(ReadingIn(thread), Threads) \in Nat
  <1>1. ASSUME NEW t \in Threads PROVE ReadingIn(thread)[t] \in Nat
    <2>1. Placed(thread[t])
      BY DEF TypeInv
    <2>2. thread[t].pc = "read" => thread[t].target \in Tensors
      BY <2>1, PlacedFacts
    <2> QED
      BY <2>2, PagerAssumption DEF ReadingIn
  <1>2. IsFiniteSet(Threads) /\ Threads \in SUBSET Threads
    BY PagerAssumption
  <1> QED
    BY <1>1, <1>2, WeightNat

LEMMA ReadingMove ==
    ASSUME TypeInv, NEW t \in Threads, NEW p, Placed(p), Goto(t, p)
    PROVE  LET i == ReadingIn(thread)[t]
               j == IF p.pc = "read" THEN SizeOf[p.target] ELSE 0
           IN  /\ i \in Nat /\ j \in Nat
               /\ Weight(ReadingIn(thread'), Threads) = Weight(ReadingIn(thread), Threads) - i + j
  <1> DEFINE i == ReadingIn(thread)[t]
             j == IF p.pc = "read" THEN SizeOf[p.target] ELSE 0
  <1>1. \A u \in Threads : thread'[u] = IF u = t THEN p ELSE thread[u]
    BY GotoTypes
  <1>2. /\ ReadingIn(thread')[t] = j
        /\ \A u \in Threads : u # t => ReadingIn(thread')[u] = ReadingIn(thread)[u]
    BY <1>1 DEF ReadingIn
  <1>3. \A u \in Threads : ReadingIn(thread)[u] \in Nat
    BY ReadingTyped
  <1>4. j \in Nat
    <2>1. p.pc = "read" => p.target \in Tensors
      BY PlacedFacts
    <2> QED
      BY <2>1, PagerAssumption
  <1> HIDE DEF j
  <1>5. IsFiniteSet(Threads)
    BY PagerAssumption
  <1>6. ReadingIn(thread')[t] \in Nat
    BY <1>2, <1>4
  <1>7. \A u \in Threads : u # t => ReadingIn(thread')[u] = ReadingIn(thread)[u]
    BY <1>2
  <1>8. Weight(ReadingIn(thread'), Threads)
           = Weight(ReadingIn(thread), Threads) - ReadingIn(thread)[t] + ReadingIn(thread')[t]
    BY <1>3, <1>5, <1>6, <1>7, WeightUpdate
  <1> QED
    BY <1>2, <1>3, <1>4, <1>8 DEF j

(* The other threads load one tensor each.                                 *)
LEMMA OthersBounded ==
    ASSUME Tensors # {}, TypeInv, NEW t \in Threads, thread[t].pc \notin {"read", "push", "add"}
    PROVE  Weight(InsertedIn(thread), Threads) + Weight(ReadingIn(thread), Threads) <= Others
  <1> DEFINE b == [u \in Threads |-> InsertedIn(thread)[u] + ReadingIn(thread)[u]]
             T == Threads \ {t}
  <1>1. \A u \in Threads : InsertedIn(thread)[u] \in Nat /\ ReadingIn(thread)[u] \in Nat
    BY SumsTyped, ReadingTyped
  <1>2. \A u \in Threads : b[u] = InsertedIn(thread)[u] + ReadingIn(thread)[u]
    OBVIOUS
  <1>3. ASSUME NEW u \in Threads PROVE b[u] \in 0..Biggest
    <2>1. Placed(thread[u])
      BY DEF TypeInv
    <2>2. thread[u].pc # "idle" => thread[u].target \in Tensors
      BY <2>1, PlacedFacts
    <2>3. InsertedIn(thread)[u] = 0 \/ ReadingIn(thread)[u] = 0
      BY DEF InsertedIn, ReadingIn
    <2>4. InsertedIn(thread)[u] \in 0..Biggest /\ ReadingIn(thread)[u] \in 0..Biggest
      <3>1. 0 \in 0..Biggest
        BY SizesBounded
      <3> QED
        BY <2>2, <3>1, SizesBounded DEF InsertedIn, ReadingIn
    <2> QED
      BY <1>1, <1>2, <2>3, <2>4
  <1>4. b[t] = 0
    BY DEF InsertedIn, ReadingIn
  <1> HIDE DEF b
  <1>5. IsFiniteSet(Threads) /\ IsFiniteSet(T) /\ Biggest \in Nat
    BY PagerAssumption, SizesBounded, FS_Subset
  <1>6. Weight(b, Threads) = Weight(InsertedIn(thread), Threads) + Weight(ReadingIn(thread), Threads)
    <2>1. \A u \in Threads : /\ InsertedIn(thread)[u] \in Nat /\ ReadingIn(thread)[u] \in Nat
                             /\ b[u] = InsertedIn(thread)[u] + ReadingIn(thread)[u]
      BY <1>1, <1>2
    <2> QED
      BY <1>5, <2>1, WeightPlus
  <1>7. Weight(b, Threads) = b[t] + Weight(b, T)
    <2>1. \A u \in Threads : b[u] \in Nat
      BY <1>3, <1>5
    <2> QED
      BY <1>5, <2>1, WeightRemove
  <1>8. Weight(b, T) \in Nat /\ Weight(b, T) <= Cardinality(T) * Biggest
    BY <1>3, <1>5, WeightBound
  <1>9. Cardinality(T) = Cardinality(Threads) - 1
    BY <1>5, FS_RemoveElement
  <1> QED
    BY <1>4, <1>6, <1>7, <1>8, <1>9 DEF Others

(* As long as no two threads clashed, the counter is no more than what is  *)
(* in the map or just left it, and does not wrap around.                   *)
LEMMA CounterExact ==
    ASSUME Weight(SizeOf, Tensors) < Modulus, TypeInv, Accounted, Orderly
    PROVE  Weight(SizeOf, resident) <= bytes + Weight(InsertedIn(thread), Threads)
  <1> DEFINE T == {u \in Threads : thread[u].pc = "subtract"}
             f == [u \in Threads |-> thread[u].victim]
             g == RemovedIn(thread)
             W == Weight(SizeOf, resident)
             I == Weight(InsertedIn(thread), Threads)
             R == Weight(g, Threads)
             N == Weight(SizeOf, Tensors)
  <1>1. IsFiniteSet(Tensors) /\ \A x \in Tensors : SizeOf[x] \in Nat
    BY PagerAssumption
  <1>2. IsFiniteSet(Threads) /\ T \in SUBSET Threads /\ resident \in SUBSET Tensors
    BY PagerAssumption DEF TypeInv
  <1>3. \A t \in T : f[t] \in Tensors
    <2> SUFFICES ASSUME NEW t \in Threads, thread[t].pc = "subtract" PROVE thread[t].victim \in Tensors
      OBVIOUS
    <2>1. Placed(thread[t])
      BY DEF TypeInv
    <2> QED
      BY <2>1, PlacedFacts DEF Evicting
  <1>4. \A t \in Threads : g[t] = IF t \in T THEN SizeOf[f[t]] ELSE 0
    BY DEF RemovedIn
  <1>5. \A t \in T : f[t] \notin resident /\ \A u \in T : f[u] = f[t] => u = t
    BY DEF Orderly, InPlace, Out
  <1>6. W \in Nat /\ R \in Nat /\ I \in Nat /\ N \in Nat /\ leaked = 0
        /\ Modulus \in Nat \ {0} /\ bytes \in Nat
    <2>1. Tensors \in SUBSET Tensors
      OBVIOUS
    <2>2. N \in Nat
      BY <1>1, <2>1, WeightNat
    <2> QED
      BY <2>2, SumsTyped, PagerAssumption DEF TypeInv, Orderly
  <1> HIDE DEF f, g, T
  <1>7. /\ Joined(resident, f, T) \in SUBSET Tensors
        /\ Weight(SizeOf, Joined(resident, f, T)) = W + R
    <2> HIDE DEF W, R
    <2>1. Naming(Tensors, SizeOf, resident, Threads, T, f, g)
      BY <1>1, <1>2, <1>3, <1>4 DEF Naming
    <2>2. NewNames(resident, T, f)
      BY <1>5 DEF NewNames
    <2> QED
      BY <2>1, <2>2, WeightOfUnion DEF W, R
  <1>8. W + R <= N
    BY <1>1, <1>7, WeightMono
  <1>9. bytes = (W + R - I) % Modulus
    <2>1. bytes = (W + leaked + R - I) % Modulus
      BY DEF Accounted, Balance, g
    <2>2. W + leaked + R - I = W + R - I
      BY <1>6
    <2> QED
      BY <2>1, <2>2
  <1> HIDE DEF W, R, I, N
  <1>10. CASE W + R < I
    BY <1>6, <1>10 DEF W, I
  <1>11. CASE W + R >= I
    <2>1. W + R - I \in 0..(Modulus - 1)
      BY <1>6, <1>8, <1>11 DEF N
    <2>2. bytes = W + R - I
      BY <1>6, <1>9, <2>1
    <2>3. W <= bytes + I
      BY <1>6, <2>2
    <2> QED
      BY <2>3 DEF W, I
  <1> QED
    BY <1>6, <1>10, <1>11

(* A step that neither passes the check nor inserts.                       *)
LEMMA NoMoreTaken ==
    ASSUME TypeInv, RoomInv, NEW t \in Threads, NEW p, Placed(p), Goto(t, p), ~clashed',
           p.pc # "read", resident' \in SUBSET resident, Tensors # {}
    PROVE  RoomInv'
  <1> DEFINE W == Weight(SizeOf, resident)
             V == Weight(SizeOf, resident')
             D == Weight(ReadingIn(thread), Threads)
             E == Weight(ReadingIn(thread'), Threads)
             i == ReadingIn(thread)[t]
  <1>1. W \in Nat /\ V \in Nat /\ V <= W
    <2>1. /\ IsFiniteSet(resident) /\ \A x \in resident : SizeOf[x] \in Nat
      BY SumsTyped DEF TypeInv
    <2> QED
      BY <2>1, WeightMono
  <1>2. D \in Nat /\ i \in Nat /\ E = D - i
    <2>1. D \in Nat /\ i \in Nat
      BY ReadingTyped
    <2>2. E = D - i + 0
      BY ReadingMove
    <2> QED
      BY <2>1, <2>2
  <1>3. ~clashed
    BY DEF Goto
  <1>4. W + D <= Cap + Others /\ Cap + Others \in Nat
    <2>1. Cap \in Nat /\ Others \in Nat
      BY SizesBounded
    <2> QED
      BY <1>3, <2>1 DEF RoomInv
  <1> HIDE DEF W, V, D, E, i
  <1>5. V + E <= Cap + Others
    BY <1>1, <1>2, <1>4
  <1> QED
    BY <1>5 DEF RoomInv, V, E, Cap, Others, Biggest

(* A step that passes the check.                                           *)
LEMMA OneTaken ==
    ASSUME TypeInv, NEW t \in Threads, thread[t].pc \in {"fit", "pick"},
           NEW x \in Tensors, Goto(t, At("read", x, None)), UNCHANGED resident, Tensors # {},
           Weight(SizeOf, resident) + SizeOf[x] <= Cap + Weight(InsertedIn(thread), Threads)
    PROVE  RoomInv'
  <1> DEFINE W == Weight(SizeOf, resident)
             D == Weight(ReadingIn(thread), Threads)
             E == Weight(ReadingIn(thread'), Threads)
             I == Weight(InsertedIn(thread), Threads)
             p == At("read", x, None)
  <1>1. p.pc = "read" /\ p.target = x /\ Placed(p)
    BY AtPlaced DEF At
  <1>2. ReadingIn(thread)[t] = 0
    BY DEF ReadingIn
  <1>3. D \in Nat /\ W \in Nat /\ I \in Nat /\ SizeOf[x] \in Nat
    BY ReadingTyped, SumsTyped
  <1>4. E = D + SizeOf[x]
    <2> HIDE DEF p
    <2>1. E = D - 0 + SizeOf[x]
      BY <1>1, <1>2, ReadingMove DEF p
    <2> HIDE DEF D, E
    <2> QED
      BY <1>3, <2>1
  <1>5. I + D <= Others
    <2>1. thread[t].pc \notin {"read", "push", "add"}
      OBVIOUS
    <2> QED
      BY <2>1, OthersBounded
  <1>6. Cap \in Nat /\ Others \in Nat
    BY SizesBounded
  <1> HIDE DEF W, D, E, I
  <1>7. W + E <= Cap + Others
    BY <1>3, <1>4, <1>5, <1>6 DEF W, I
  <1> QED
    BY <1>7 DEF RoomInv, W, E, Cap, Others, Biggest

(* The check leaves room for the tensor to come.                           *)
LEMMA CheckedFits ==
    ASSUME Weight(SizeOf, Tensors) < Modulus, TypeInv, Accounted, Orderly, Tensors # {},
           NEW x \in Tensors, x \notin resident, SaturatingAdd(bytes, SizeOf[x]) <= Budget
    PROVE  Weight(SizeOf, resident) + SizeOf[x] <= Cap + Weight(InsertedIn(thread), Threads)
  <1> DEFINE W == Weight(SizeOf, resident)
             I == Weight(InsertedIn(thread), Threads)
             s == SizeOf[x]
             N == Weight(SizeOf, Tensors)
  <1>1. W \in Nat /\ I \in Nat /\ s \in Nat /\ bytes \in Nat
        /\ Modulus \in Nat \ {0} /\ Budget \in Nat /\ Cap \in Nat /\ Budget <= Cap
    BY SumsTyped, SizesBounded, PagerAssumption DEF TypeInv
  <1>2. W <= bytes + I
    BY CounterExact
  <1>3. W + s <= N /\ N \in Nat
    <2> DEFINE Y == resident \cup {x}
    <2>1. IsFiniteSet(resident) /\ \A y \in resident \cup {x} : SizeOf[y] \in Nat
      BY SumsTyped DEF TypeInv
    <2>2. Weight(SizeOf, resident \cup {x}) = SizeOf[x] + Weight(SizeOf, resident)
      BY <2>1, WeightAdd
    <2>3. IsFiniteSet(Tensors) /\ \A y \in Tensors : SizeOf[y] \in Nat
      BY PagerAssumption
    <2>4. Y \in SUBSET Tensors
      BY DEF TypeInv
    <2> HIDE DEF Y
    <2>5. Weight(SizeOf, Y) <= N /\ N \in Nat
      BY <2>3, <2>4, WeightMono
    <2> HIDE DEF W, N, s
    <2> QED
      BY <1>1, <2>2, <2>5 DEF Y, W, s
  <1>4. CASE bytes + s < Modulus
    <2>1. bytes + s <= Budget
      BY <1>4 DEF SaturatingAdd
    <2> HIDE DEF W, I, s
    <2>2. W + s <= Cap + I
      BY <1>1, <1>2, <2>1
    <2> QED
      BY <2>2 DEF W, I, s
  <1>5. CASE ~(bytes + s < Modulus)
    <2>1. Modulus - 1 <= Budget
      BY <1>5 DEF SaturatingAdd
    <2>2. N < Modulus
      OBVIOUS
    <2> HIDE DEF W, I, s, N
    <2>3. W + s <= Cap + I
      BY <1>1, <1>3, <2>1, <2>2
    <2> QED
      BY <2>3 DEF W, I, s
  <1> QED
    BY <1>4, <1>5

(* Without a candidate all there is in the map is pinned or on its way     *)
(* into the queue.                                                         *)
LEMMA PinnedFits ==
    ASSUME TypeInv, Orderly, Tensors # {}, NEW x \in Tensors, Candidates = {}
    PROVE  Weight(SizeOf, resident) + SizeOf[x] <= Cap + Weight(InsertedIn(thread), Threads)
  <1> DEFINE T == {u \in Threads : thread[u].pc \in {"push", "add"}}
             f == [u \in Threads |-> thread[u].target]
             g == InsertedIn(thread)
             I == Weight(g, Threads)
             W == Weight(SizeOf, resident)
             P == Weight(SizeOf, Pinned)
  <1>1. \A t \in T : f[t] \in Tensors
    <2> SUFFICES ASSUME NEW t \in Threads, thread[t].pc \in {"push", "add"} PROVE thread[t].target \in Tensors
      OBVIOUS
    <2>1. Placed(thread[t])
      BY DEF TypeInv
    <2> QED
      BY <2>1, PlacedFacts
  <1>2. \A t \in Threads : g[t] = IF t \in T THEN SizeOf[f[t]] ELSE 0
    BY DEF InsertedIn
  <1>3. resident \in SUBSET Joined(Pinned, f, T)
    <2> SUFFICES ASSUME NEW y \in resident, y \notin Pinned PROVE \E u \in T : f[u] = y
      BY DEF Joined
    <2>1. y \notin Ids(lru)
      BY DEF Ids, Candidates
    <2>2. Ids(lru) = (resident \ PushedBy(thread, Threads)) \cup LeftBy(thread, Threads)
      BY DEF Orderly
    <2>3. y \in PushedBy(thread, Threads)
      BY <2>1, <2>2
    <2> QED
      BY <2>3 DEF PushedBy
  <1>4. T \in SUBSET Threads
    OBVIOUS
  <1> HIDE DEF T, f, g
  <1>5. Naming(Tensors, SizeOf, Pinned, Threads, T, f, g)
    BY <1>1, <1>2, <1>4, PagerAssumption DEF Naming
  <1>6. /\ Joined(Pinned, f, T) \in SUBSET Tensors
        /\ Weight(SizeOf, Joined(Pinned, f, T)) <= P + I
    BY <1>5, WeightOfUnion
  <1>7. W \in Nat /\ Weight(SizeOf, Joined(Pinned, f, T)) \in Nat
        /\ W <= Weight(SizeOf, Joined(Pinned, f, T))
    <2>1. IsFiniteSet(Joined(Pinned, f, T)) /\ \A y \in Joined(Pinned, f, T) : SizeOf[y] \in Nat
      BY <1>6, PagerAssumption, FS_Subset
    <2> QED
      BY <1>3, <2>1, WeightMono
  <1>8. /\ P \in Nat /\ Cap \in Nat /\ Biggest \in Nat /\ P + Biggest <= Cap
        /\ SizeOf[x] \in 0..Biggest /\ I \in Nat
    BY SizesBounded, SumsTyped DEF g
  <1> HIDE DEF W, P, I
  <1>9. W + SizeOf[x] <= Cap + I
    BY <1>6, <1>7, <1>8
  <1> QED
    BY <1>9 DEF W, I, g

LEMMA StepRoom ==
    ASSUME Weight(SizeOf, Tensors) < Modulus, Tensors # {},
           TypeInv, Accounted, QueueInv, RoomInv, [Next]_vars, ~clashed'
    PROVE  RoomInv'
  <1> USE DEF At
  <1>1. ASSUME NEW t \in Threads, NEW x \in Tensors, Acquire(t, x) PROVE RoomInv'
    <2> DEFINE p == At(IF x \in resident THEN "bump" ELSE "fit", x, None)
    <2>1. Placed(p) /\ Goto(t, p) /\ resident' \in SUBSET resident /\ p.pc # "read"
      BY <1>1, StepPlaces DEF Acquire
    <2> HIDE DEF p
    <2> QED
      BY <2>1, NoMoreTaken
  <1>2. ASSUME NEW t \in Threads, BumpLru(t) PROVE RoomInv'
    <2> DEFINE p == At("reread", thread[t].target, None)
    <2>1. Placed(p) /\ Goto(t, p) /\ resident' \in SUBSET resident /\ p.pc # "read"
      BY <1>2, StepPlaces DEF BumpLru
    <2> HIDE DEF p
    <2> QED
      BY <2>1, NoMoreTaken
  <1>3. ASSUME NEW t \in Threads, Reread(t) PROVE RoomInv'
    <2> DEFINE p == IF thread[t].target \in resident THEN Idle ELSE At("fit", thread[t].target, None)
    <2>1. Placed(p) /\ Goto(t, p) /\ resident' \in SUBSET resident /\ p.pc # "read"
      BY <1>3, StepPlaces, IdlePlaced DEF Reread, Idle
    <2> HIDE DEF p
    <2> QED
      BY <2>1, NoMoreTaken
  <1>4. ASSUME NEW t \in Threads, CheckBudget(t) PROVE RoomInv'
    <2> DEFINE x == thread[t].target
               p == At("pick", x, None)
    <2>1. thread[t].pc = "fit" /\ UNCHANGED resident /\ Placed(p) /\ x \in Tensors /\ p.pc # "read"
      BY <1>4, StepPlaces DEF CheckBudget
    <2>2. CASE SaturatingAdd(bytes, SizeOf[x]) <= Budget
      <3>1. Goto(t, At("read", x, None))
        BY <1>4, <2>2 DEF CheckBudget
      <3>2. Orderly
        BY <3>1 DEF Goto, QueueInv
      <3>3. x \notin resident
        BY <2>1, <3>2 DEF Orderly, InPlace
      <3> HIDE DEF x
      <3>4. Weight(SizeOf, resident) + SizeOf[x] <= Cap + Weight(InsertedIn(thread), Threads)
        BY <2>1, <2>2, <3>2, <3>3, CheckedFits
      <3> QED
        BY <2>1, <3>1, <3>4, OneTaken
    <2>3. CASE ~(SaturatingAdd(bytes, SizeOf[x]) <= Budget)
      <3>1. Goto(t, p) /\ resident' \in SUBSET resident
        BY <1>4, <2>1, <2>3 DEF CheckBudget
      <3> HIDE DEF p
      <3> QED
        BY <2>1, <3>1, NoMoreTaken
    <2> QED
      BY <2>2, <2>3
  <1>5. ASSUME NEW t \in Threads, Pick(t) PROVE RoomInv'
    <2> DEFINE x == thread[t].target
               p == At("remove", x, lru[Min(Candidates)])
    <2>1. thread[t].pc = "pick" /\ UNCHANGED resident /\ x \in Tensors /\ p.pc # "read"
      BY <1>5, StepPlaces DEF Pick
    <2>2. CASE Candidates = {}
      <3>1. Goto(t, At("read", x, None))
        BY <1>5, <2>2 DEF Pick
      <3>2. Orderly
        BY <3>1 DEF Goto, QueueInv
      <3> HIDE DEF x
      <3>3. Weight(SizeOf, resident) + SizeOf[x] <= Cap + Weight(InsertedIn(thread), Threads)
        BY <2>1, <2>2, <3>2, PinnedFits
      <3> QED
        BY <2>1, <3>1, <3>3, OneTaken
    <2>3. CASE Candidates # {}
      <3>1. Placed(p) /\ Goto(t, p) /\ resident' \in SUBSET resident
        BY <1>5, <2>1, <2>3, StepPlaces DEF Pick
      <3> HIDE DEF p
      <3> QED
        BY <2>1, <3>1, NoMoreTaken
    <2> QED
      BY <2>2, <2>3
  <1>6. ASSUME NEW t \in Threads, RemoveVictim(t) PROVE RoomInv'
    <2> DEFINE x == thread[t].target
               v == thread[t].victim
               p == IF v \in resident THEN At("subtract", x, v) ELSE At("fit", x, None)
    <2>1. Placed(p) /\ Goto(t, p) /\ resident' \in SUBSET resident /\ p.pc # "read"
      BY <1>6, StepPlaces DEF RemoveVictim
    <2> HIDE DEF p
    <2> QED
      BY <2>1, NoMoreTaken
  <1>7. ASSUME NEW t \in Threads, Subtract(t) PROVE RoomInv'
    <2> DEFINE p == At("retain", thread[t].target, thread[t].victim)
    <2>1. Placed(p) /\ Goto(t, p) /\ resident' \in SUBSET resident /\ p.pc # "read"
      BY <1>7, StepPlaces DEF Subtract
    <2> HIDE DEF p
    <2> QED
      BY <2>1, NoMoreTaken
  <1>8. ASSUME NEW t \in Threads, Retain(t) PROVE RoomInv'
    <2> DEFINE p == At("fit", thread[t].target, None)
    <2>1. Placed(p) /\ Goto(t, p) /\ resident' \in SUBSET resident /\ p.pc # "read"
      BY <1>8, StepPlaces DEF Retain
    <2> HIDE DEF p
    <2> QED
      BY <2>1, NoMoreTaken
  <1>9. ASSUME NEW t \in Threads, ReadFails(t) PROVE RoomInv'
    <2>1. Placed(Idle) /\ Goto(t, Idle) /\ resident' \in SUBSET resident /\ Idle.pc # "read"
      BY <1>9, IdlePlaced DEF ReadFails, Idle
    <2> QED
      BY <2>1, NoMoreTaken
  <1>10. ASSUME NEW t \in Threads, Insert(t) PROVE RoomInv'
    <2> DEFINE x == thread[t].target
               p == At("push", x, None)
               W == Weight(SizeOf, resident)
               V == Weight(SizeOf, resident')
               D == Weight(ReadingIn(thread), Threads)
               E == Weight(ReadingIn(thread'), Threads)
    <2>1. /\ thread[t].pc = "read" /\ resident' = resident \cup {x} /\ Goto(t, p)
          /\ Placed(p) /\ p.pc = "push" /\ x \in Tensors
      BY <1>10, StepPlaces DEF Insert
    <2>2. Orderly /\ ~clashed
      BY <2>1 DEF Goto, QueueInv
    <2>3. x \notin resident
      BY <2>1, <2>2 DEF Orderly, InPlace
    <2>4. V = SizeOf[x] + W
      <3>1. IsFiniteSet(resident) /\ \A y \in resident \cup {x} : SizeOf[y] \in Nat
        BY <2>1, SumsTyped DEF TypeInv
      <3> HIDE DEF x
      <3> QED
        BY <2>1, <2>3, <3>1, WeightAdd
    <2>5. ReadingIn(thread)[t] = SizeOf[x]
      BY <2>1 DEF ReadingIn
    <2>6. D \in Nat /\ W \in Nat /\ SizeOf[x] \in Nat
      BY <2>1, ReadingTyped, SumsTyped
    <2>7. E = D - SizeOf[x]
      <3> HIDE DEF p, x
      <3>1. E = D - SizeOf[x] + 0
        BY <2>1, <2>5, ReadingMove
      <3> HIDE DEF D, E
      <3> QED
        BY <2>6, <3>1
    <2>8. W + D <= Cap + Others
      BY <2>2 DEF RoomInv
    <2> HIDE DEF W, V, D, E, x
    <2>9. V + E <= Cap + Others
      BY <2>4, <2>6, <2>7, <2>8
    <2> QED
      BY <2>9 DEF RoomInv, V, E, Cap, Others, Biggest
  <1>11. ASSUME NEW t \in Threads, Push(t) PROVE RoomInv'
    <2> DEFINE p == At("add", thread[t].target, None)
    <2>1. Placed(p) /\ Goto(t, p) /\ resident' \in SUBSET resident /\ p.pc # "read"
      BY <1>11, StepPlaces DEF Push
    <2> HIDE DEF p
    <2> QED
      BY <2>1, NoMoreTaken
  <1>12. ASSUME NEW t \in Threads, Add(t) PROVE RoomInv'
    <2>1. Placed(Idle) /\ Goto(t, Idle) /\ resident' \in SUBSET resident /\ Idle.pc # "read"
      BY <1>12, IdlePlaced DEF Add, Idle
    <2> QED
      BY <2>1, NoMoreTaken
  <1>13. CASE UNCHANGED vars
    BY <1>13 DEF vars, RoomInv, ReadingIn, Cap, Others, Biggest
  <1> QED
    BY <1>1, <1>2, <1>3, <1>4, <1>5, <1>6, <1>7, <1>8, <1>9, <1>10, <1>11, <1>12, <1>13
       DEF Next, Step

(* Eviction keeps to the budget as far as it can: while no two threads     *)
(* clash, the pager holds no more than the budget, or the pinned tensors   *)
(* and one more where these exceed it, and one tensor for each other       *)
(* thread.  The sizes of a file's tensors add up within the counter.       *)
THEOREM OvershootIsBounded ==
    ASSUME Tensors # {}, Bytes(Tensors) < Modulus
    PROVE  Spec => []OvershootBounded
  <1> DEFINE Inv == TypeInv /\ Accounted /\ QueueInv /\ RoomInv
  <1>0. Weight(SizeOf, Tensors) < Modulus
    BY BytesIsWeight
  <1>1. Init => Inv
    <2> SUFFICES ASSUME Init PROVE RoomInv
      BY InitTypes, InitAccounted, InitOrderly
    <2>1. resident = {} /\ thread = [t \in Threads |-> Idle] /\ IsFiniteSet(Threads)
      BY PagerAssumption DEF Init
    <2>2. \A t \in Threads : ReadingIn(thread)[t] \in 0..0
      BY <2>1 DEF ReadingIn, Idle, At
    <2>3. /\ Weight(ReadingIn(thread), Threads) \in Nat /\ Cardinality(Threads) \in Nat
          /\ Weight(ReadingIn(thread), Threads) <= Cardinality(Threads) * 0
      BY <2>1, <2>2, WeightBound
    <2>4. Weight(SizeOf, resident) = 0
      BY <2>1, FS_EmptySet, WeightRec
    <2>5. Cap \in Nat /\ Others \in Nat
      BY SizesBounded
    <2> QED
      BY <2>3, <2>4, <2>5 DEF RoomInv
  <1>2. Inv /\ [Next]_vars => Inv'
    <2> SUFFICES ASSUME Inv, [Next]_vars PROVE Inv'
      OBVIOUS
    <2>1. TypeInv'
      BY StepTypes
    <2>2. Accounted'
      BY <2>1, StepAccounted
    <2>3. QueueInv'
      BY StepOrderly DEF QueueInv
    <2>4. ASSUME ~clashed' PROVE RoomInv'
      BY <1>0, <2>4, StepRoom
    <2>5. RoomInv'
      BY <2>4 DEF RoomInv
    <2> QED
      BY <2>1, <2>2, <2>3, <2>5
  <1>3. Inv => OvershootBounded
    <2> SUFFICES ASSUME Inv, ~clashed
                 PROVE  Bytes(resident) <= Cap + Others
      BY DEF OvershootBounded, Cap, Others
    <2> DEFINE W == Weight(SizeOf, resident)
               D == Weight(ReadingIn(thread), Threads)
    <2>1. W \in Nat /\ D \in Nat /\ Cap \in Nat /\ Others \in Nat /\ W + D <= Cap + Others
      BY SumsTyped, ReadingTyped, SizesBounded DEF RoomInv
    <2> HIDE DEF W, D
    <2>2. W <= Cap + Others
      BY <2>1
    <2> QED
      BY <2>2, BytesIsWeight DEF W
  <1> HIDE DEF Inv
  <1> QED
    BY <1>1, <1>2, <1>3, PTL DEF Spec
=============================================================================
