---------------------------- MODULE LayerPager ----------------------------
(***************************************************************************)
(* The weight pager of oxillama-runtime (offload/pager.rs): tensors are    *)
(* read from a file on demand and the least recently used ones leave RAM   *)
(* when a budget is exceeded.                                              *)
(*                                                                         *)
(* The resident map, the recency queue and the byte counter are guarded    *)
(* one by one: acquire takes and releases a lock for each access, so every *)
(* access is a step and acquires of other threads come in between.  The    *)
(* counter is an atomic of fixed width that wraps around.                  *)
(***************************************************************************)
EXTENDS LruQueue, FiniteSetsExt

CONSTANTS
    Tensors,   \* the tensors of tensor_map
    Threads,   \* callers of acquire
    SizeOf,    \* size_bytes of each tensor
    Pinned,    \* tensors that are never evicted
    Budget,    \* budget_bytes
    Modulus,   \* the counter's range: 2^64
    None,
    MaxCalls   \* bound: acquires in a behaviour

ASSUME PagerAssumption ==
    /\ IsFiniteSet(Tensors) /\ IsFiniteSet(Threads) /\ Threads # {}
    /\ SizeOf \in [Tensors -> Nat] /\ Pinned \subseteq Tensors
    /\ Modulus \in Nat \ {0} /\ Budget \in 0..(Modulus - 1)
    /\ MaxCalls \in Nat /\ None \notin Tensors

VARIABLES
    resident,  \* the tensors in RAM
    lru,
    bytes,     \* resident_bytes
    thread,    \* where each call stands, its tensor and the victim it evicts
    calls,     \* acquires so far
    leaked,    \* history: bytes counted twice by insertions that overwrote
    clashed    \* history: whether a tensor was loaded or evicted by one
               \* thread while another was acquiring it

vars == <<resident, lru, bytes, thread, calls, leaked, clashed>>

At(pc, target, victim) == [pc |-> pc, target |-> target, victim |-> victim]
Idle == At("idle", None, None)

Size(x) == SizeOf[x]
Bytes(xs) == MapThenSumSet(Size, xs)

(* u64::saturating_add. *)
SaturatingAdd(a, b) == IF a + b < Modulus THEN a + b ELSE Modulus - 1

Loading == {"fit", "pick", "remove", "subtract", "retain", "read", "push", "add"}

(* One thread loads or evicts the tensor another one is acquiring. *)
Clash(threads) ==
    \E t, u \in Threads :
        /\ t # u /\ threads[t].target # None
        /\ \/ threads[u].victim = threads[t].target
           \/ threads[u].target = threads[t].target /\ threads[u].pc \in Loading

Goto(t, place) ==
    /\ thread' = [thread EXCEPT ![t] = place]
    /\ clashed' = (clashed \/ Clash(thread'))

Init ==
    /\ resident = {} /\ lru = <<>> /\ bytes = 0
    /\ thread = [t \in Threads |-> Idle]
    /\ calls = 0 /\ leaked = 0 /\ clashed = FALSE

----------------------------------------------------------------------------
(* acquire, the fast path.                                                 *)

(* The first look under the read lock. *)
Acquire(t, x) ==
    /\ thread[t] = Idle /\ calls < MaxCalls
    /\ calls' = calls + 1
    /\ Goto(t, At(IF x \in resident THEN "bump" ELSE "fit", x, None))
    /\ UNCHANGED <<resident, lru, bytes, leaked>>

(* Remove the first occurrence only, if there is one. *)
RemoveOne(q, x) ==
    IF x \in Ids(q)
    THEN LET i == CHOOSE i \in DOMAIN q : q[i] = x /\ \A j \in 1..(i - 1) : q[j] # x
         IN  SubSeq(q, 1, i - 1) \o SubSeq(q, i + 1, Len(q))
    ELSE q

(* Mutant: the old position stays in the queue. *)
BumpLruTwice(t) ==
    /\ thread[t].pc = "bump"
    /\ lru' = Append(lru, thread[t].target)
    /\ Goto(t, At("reread", thread[t].target, None))
    /\ UNCHANGED <<resident, bytes, calls, leaked>>

(* bump_lru, with no other lock held. *)
BumpLru(t) ==
    /\ thread[t].pc = "bump"
    /\ lru' = Append(RemoveOne(lru, thread[t].target), thread[t].target)
    /\ Goto(t, At("reread", thread[t].target, None))
    /\ UNCHANGED <<resident, bytes, calls, leaked>>

(* The second look: the tensor may be gone, which leads to the slow path.  *)
Reread(t) ==
    /\ thread[t].pc = "reread"
    /\ Goto(t, IF thread[t].target \in resident THEN Idle
               ELSE At("fit", thread[t].target, None))
    /\ UNCHANGED <<resident, lru, bytes, calls, leaked>>

----------------------------------------------------------------------------
(* evict_to_fit.                                                           *)

(* Mutant: the size of the tensor to come is forgotten. *)
CheckBudgetLate(t) ==
    /\ thread[t].pc = "fit"
    /\ Goto(t, At(IF bytes <= Budget THEN "read" ELSE "pick", thread[t].target, None))
    /\ UNCHANGED <<resident, lru, bytes, calls, leaked>>

(* The head of the loop. *)
CheckBudget(t) ==
    /\ thread[t].pc = "fit"
    /\ Goto(t, At(IF SaturatingAdd(bytes, SizeOf[thread[t].target]) <= Budget
                  THEN "read" ELSE "pick", thread[t].target, None))
    /\ UNCHANGED <<resident, lru, bytes, calls, leaked>>

(* The positions of the queue a victim may be taken from. *)
Candidates == {i \in DOMAIN lru : lru[i] \notin Pinned}


(* The oldest entry that is not pinned; without one the budget is given up. *)
Pick(t) ==
    /\ thread[t].pc = "pick"
    /\ Goto(t, IF Candidates = {} THEN At("read", thread[t].target, None)
               ELSE At("remove", thread[t].target, lru[Min(Candidates)]))
    /\ UNCHANGED <<resident, lru, bytes, calls, leaked>>

(* The victim leaves the map.  One that is not there (any more) sends the  *)
(* loop back to its head, the queue as it was.                             *)
RemoveVictim(t) ==
    LET x == thread[t].target
        v == thread[t].victim
    IN  /\ thread[t].pc = "remove"
        /\ resident' = resident \ {v}
        /\ Goto(t, IF v \in resident THEN At("subtract", x, v) ELSE At("fit", x, None))
        /\ UNCHANGED <<lru, bytes, calls, leaked>>

Subtract(t) ==
    /\ thread[t].pc = "subtract"
    /\ bytes' = (bytes - SizeOf[thread[t].victim]) % Modulus
    /\ Goto(t, [thread[t] EXCEPT !.pc = "retain"])
    /\ UNCHANGED <<resident, lru, calls, leaked>>

(* The queue without any occurrence of x. *)
Without(q, x) == Kept(q, Ids(q) \ {x})

(* Every occurrence of the victim leaves the queue. *)
Retain(t) ==
    /\ thread[t].pc = "retain"
    /\ lru' = Without(lru, thread[t].victim)
    /\ Goto(t, At("fit", thread[t].target, None))
    /\ UNCHANGED <<resident, bytes, calls, leaked>>

----------------------------------------------------------------------------
(* acquire, the slow path.                                                 *)

(* Mutant: the bytes were reserved before the read and stay counted. *)
ReadFailsCounted(t) ==
    /\ thread[t].pc = "read"
    /\ bytes' = (bytes + SizeOf[thread[t].target]) % Modulus
    /\ Goto(t, Idle)
    /\ UNCHANGED <<resident, lru, calls, leaked>>

(* read_bytes_at fails and the caller gets its error. *)
ReadFails(t) ==
    /\ thread[t].pc = "read"
    /\ Goto(t, Idle)
    /\ UNCHANGED <<resident, lru, bytes, calls, leaked>>

(* The bytes are read without a lock and enter the map, over whatever is   *)
(* there by now.                                                           *)
Insert(t) ==
    LET x == thread[t].target IN
    /\ thread[t].pc = "read"
    /\ resident' = resident \cup {x}
    /\ leaked' = leaked + IF x \in resident THEN SizeOf[x] ELSE 0
    /\ Goto(t, At("push", x, None))
    /\ UNCHANGED <<lru, bytes, calls>>

Push(t) ==
    /\ thread[t].pc = "push"
    /\ lru' = Append(lru, thread[t].target)
    /\ Goto(t, At("add", thread[t].target, None))
    /\ UNCHANGED <<resident, bytes, calls, leaked>>

Add(t) ==
    /\ thread[t].pc = "add"
    /\ bytes' = (bytes + SizeOf[thread[t].target]) % Modulus
    /\ Goto(t, Idle)
    /\ UNCHANGED <<resident, lru, calls, leaked>>

Step(t) ==
    \/ BumpLru(t) \/ Reread(t)
    \/ CheckBudget(t) \/ Pick(t) \/ RemoveVictim(t) \/ Subtract(t) \/ Retain(t)
    \/ ReadFails(t) \/ Insert(t) \/ Push(t) \/ Add(t)

Next == \E t \in Threads : Step(t) \/ \E x \in Tensors : Acquire(t, x)

Spec == Init /\ [][Next]_vars

(* A call that started goes on. *)
FairSpec == Spec /\ \A t \in Threads : WF_vars(Step(t))

----------------------------------------------------------------------------
(* Properties.                                                             *)

TypeOK ==
    /\ resident \subseteq Tensors /\ lru \in Seq(Tensors)
    /\ bytes \in 0..(Modulus - 1) /\ calls \in 0..MaxCalls /\ leaked \in Nat
    /\ clashed \in BOOLEAN
    /\ thread \in [Threads -> [pc : {"idle", "bump", "reread"} \cup Loading,
                               target : Tensors \cup {None},
                               victim : (Tensors \ Pinned) \cup {None}]]
    /\ \A t \in Threads : thread[t].target = None <=> thread[t] = Idle

InsertedNotAdded(t) ==
    IF thread[t].pc \in {"push", "add"} THEN SizeOf[thread[t].target] ELSE 0
RemovedNotSubtracted(t) ==
    IF thread[t].pc = "subtract" THEN SizeOf[thread[t].victim] ELSE 0

(* Whatever the interleaving, resident_bytes is what the map holds, up to  *)
(* the updates under way, and a tensor two threads loaded at once, which   *)
(* is counted twice for ever.                                              *)
BytesAccounted ==
    bytes = (Bytes(resident) + leaked + MapThenSumSet(RemovedNotSubtracted, Threads)
               - MapThenSumSet(InsertedNotAdded, Threads)) % Modulus

(* Every variable has its type, no thread ever goes for a pinned tensor,   *)
(* and while none loads or evicts a tensor another one is acquiring, the   *)
(* queue has each resident tensor once, and else only victims on their way *)
(* out: nothing is lost to eviction and nothing is waited for in vain.     *)
QueueMatchesResident ==
    /\ TypeOK
    /\ ~clashed =>
        /\ NoDuplicates(lru)
        /\ Ids(lru) = (resident \ {thread[t].target : t \in {u \in Threads : thread[u].pc = "push"}})
              \cup {thread[t].victim : t \in {u \in Threads : thread[u].pc \in {"subtract", "retain"}}}

Biggest == Max({SizeOf[x] : x \in Tensors})

(* The budget is best effort: pinned tensors and a tensor larger than the  *)
(* budget exceed it, and so does each other thread that loads meanwhile,   *)
(* but by no more than its one tensor.                                     *)
OvershootBounded ==
    ~clashed =>
        Bytes(resident) <= Max({Budget, Bytes(Pinned) + Biggest})
                             + (Cardinality(Threads) - 1) * Biggest

(* The next victim is not in the map and nobody is about to take it out of *)
(* the queue.                                                              *)
VictimGone ==
    Candidates # {} /\
    LET v == lru[Min(Candidates)]
    IN  v \notin resident /\ \A t \in Threads :
            ~(thread[t].victim = v /\ thread[t].pc \in {"subtract", "retain"})

=============================================================================
