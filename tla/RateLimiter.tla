---------------------------- MODULE RateLimiter ----------------------------
(***************************************************************************)
(* The per-key rate limiter of oxillama-server (rate_limit.rs): one token  *)
(* bucket per API key behind a read-write lock, and a recency queue behind *)
(* a lock of its own that bounds how many keys are tracked.                *)
(*                                                                         *)
(* Requests run in parallel.  A lookup and the token it takes happen under *)
(* the read lock and the bucket's own lock, an insertion and its eviction  *)
(* under the write lock; between the lookup and what follows it no lock is *)
(* held, so each of these is a step.  Keys too long to be tracked pass     *)
(* without touching the state and are not modelled; a key stands for its   *)
(* hash.                                                                   *)
(***************************************************************************)
EXTENDS LruQueue, FiniteSetsExt

CONSTANTS
    Keys,
    Threads,     \* requests being checked at the same time
    CapacityOf,  \* burst capacity of each key, overrides included
    RateOf,      \* tokens a key regains per unit of time
    MaxEntries,  \* max_entries
    Absent,
    MaxTime,     \* bound: the clock stops here
    MaxInserts   \* bound: buckets created over a run

Bucket == [tokens : Nat, last : Nat]

ASSUME LimiterAssumption ==
    /\ IsFiniteSet(Keys) /\ IsFiniteSet(Threads)
    /\ CapacityOf \in [Keys -> Nat] /\ RateOf \in [Keys -> Nat]
    /\ MaxEntries \in Nat \ {0} /\ MaxTime \in Nat /\ MaxInserts \in Nat
    /\ Absent \notin Keys /\ Absent \notin Bucket

VARIABLES
    now,       \* Instant::now
    buckets,   \* the bucket of each tracked key, Absent otherwise
    lru,
    thread,    \* what each request is about to do, and its key
    admitted,  \* history: requests of each key let through
    inserted,  \* history: buckets created for each key
    races      \* history: touches of a key that had been evicted since its
               \* lookup

limiterVars == <<now, buckets, lru, thread, admitted, inserted, races>>

At(pc, key) == [pc |-> pc, key |-> key]
Idle == At("idle", Absent)

Tracked == {k \in Keys : buckets[k] # Absent}

LimiterInit ==
    /\ now = 0 /\ buckets = [k \in Keys |-> Absent] /\ lru = <<>>
    /\ thread = [t \in Threads |-> Idle]
    /\ admitted = [k \in Keys |-> 0] /\ inserted = [k \in Keys |-> 0]
    /\ races = 0

----------------------------------------------------------------------------
(* TokenBucket.                                                            *)

FullBucket(k) == [tokens |-> CapacityOf[k], last |-> now]

(* The tokens of b with what the time since its last refill brought. *)
Replenished(k, b) == b.tokens + (now - b.last) * RateOf[k]

Capped(n, cap) == IF n <= cap THEN n ELSE cap

(* Mutant: the capacity does not cap what idle time brings. *)
RefillUncapped(k, b) ==
    [tokens |-> Replenished(k, b), last |-> now]

(* refill *)
Refill(k, b) ==
    [tokens |-> Capped(Replenished(k, b), CapacityOf[k]), last |-> now]

(* try_acquire on a bucket of key k: the bucket afterwards, and the number *)
(* of requests let through.                                                *)
Acquired(k, b) ==
    LET r == Refill(k, b)
    IN  IF r.tokens >= 1 THEN [r EXCEPT !.tokens = @ - 1] ELSE r
Grants(k, b) == IF Refill(k, b).tokens >= 1 THEN 1 ELSE 0

(* The request takes its token from b, the bucket of key k. *)
TryAcquire(k, b) ==
    /\ buckets' = [buckets EXCEPT ![k] = Acquired(k, b)]
    /\ admitted' = [admitted EXCEPT ![k] = @ + Grants(k, b)]

----------------------------------------------------------------------------
(* check_key.                                                              *)

(* The fast path up to the release of the locks: the key is tracked, and   *)
(* its bucket decides.                                                     *)
CheckTracked(t, k) ==
    /\ thread[t] = Idle /\ buckets[k] # Absent
    /\ TryAcquire(k, buckets[k])
    /\ thread' = [thread EXCEPT ![t] = At("touch", k)]
    /\ UNCHANGED <<now, lru, inserted, races>>

(* touch_lru, which the fast path reaches without holding any lock. *)
TouchLru(t) ==
    LET k == thread[t].key IN
    /\ thread[t].pc = "touch"
    /\ lru' = Touch(lru, k)
    /\ races' = races + IF k \in Ids(lru) THEN 0 ELSE 1
    /\ thread' = [thread EXCEPT ![t] = Idle]
    /\ UNCHANGED <<now, buckets, admitted, inserted>>

(* The key is not tracked: the read lock is given up for the write lock. *)
CheckUntracked(t, k) ==
    /\ thread[t] = Idle /\ buckets[k] = Absent
    /\ thread' = [thread EXCEPT ![t] = At("insert", k)]
    /\ UNCHANGED <<now, buckets, lru, admitted, inserted, races>>

(* Mutant: one key too many is let in. *)
VictimsLate(q) == IF Len(q) > MaxEntries + 1 THEN {Head(q)} ELSE {}

(* touch_lru_and_evict_if_full: the queue with the new key, and the key    *)
(* whose bucket goes when the queue is too long.                           *)
Victims(q) == IF Len(q) > MaxEntries THEN {Head(q)} ELSE {}

(* Mutant: the second look under the write lock is left out. *)
InsertOverwrites(t) ==
    LET k == thread[t].key IN
    /\ thread[t].pc = "insert" /\ buckets[k] # Absent
    /\ TryAcquire(k, FullBucket(k))
    /\ thread' = [thread EXCEPT ![t] = Idle]
    /\ UNCHANGED <<now, lru, inserted, races>>

(* The bound of the model. *)
InsertsLeft ==
    LET Created(k) == inserted[k] IN MapThenSumSet(Created, Keys) < MaxInserts

(* Another request inserted the key first: its bucket is used as it is,    *)
(* and the queue is not touched.                                           *)
InsertBeaten(t) ==
    LET k == thread[t].key IN
    /\ thread[t].pc = "insert" /\ buckets[k] # Absent
    /\ TryAcquire(k, buckets[k])
    /\ thread' = [thread EXCEPT ![t] = Idle]
    /\ UNCHANGED <<now, lru, inserted, races>>

(* Mutant: the victim leaves the queue and keeps its bucket. *)
InsertKeepsVictim(t) ==
    LET k == thread[t].key
        q == Touch(lru, k)
    IN  /\ thread[t].pc = "insert" /\ buckets[k] = Absent
        /\ lru' = IF Victims(q) = {} THEN q ELSE Tail(q)
        /\ buckets' = [buckets EXCEPT ![k] = Acquired(k, FullBucket(k))]
        /\ admitted' = [admitted EXCEPT ![k] = @ + Grants(k, FullBucket(k))]
        /\ inserted' = [inserted EXCEPT ![k] = @ + 1]
        /\ thread' = [thread EXCEPT ![t] = Idle]
        /\ UNCHANGED <<now, races>>
        /\ InsertsLeft

(* The key is still untracked: it enters the queue, the least recently     *)
(* used key is evicted when there are too many, and its new bucket decides.*)
Insert(t) ==
    LET k == thread[t].key
        q == Touch(lru, k)
    IN  /\ thread[t].pc = "insert" /\ buckets[k] = Absent
        /\ lru' = IF Victims(q) = {} THEN q ELSE Tail(q)
        /\ buckets' = [j \in Keys |->
               IF j = k THEN Acquired(k, FullBucket(k))
               ELSE IF j \in Victims(q) THEN Absent ELSE buckets[j]]
        /\ admitted' = [admitted EXCEPT ![k] = @ + Grants(k, FullBucket(k))]
        /\ inserted' = [inserted EXCEPT ![k] = @ + 1]
        /\ thread' = [thread EXCEPT ![t] = Idle]
        /\ UNCHANGED <<now, races>>
        /\ InsertsLeft

Tick ==
    /\ now < MaxTime
    /\ now' = now + 1
    /\ UNCHANGED <<buckets, lru, thread, admitted, inserted, races>>

LimiterNext ==
    \/ \E t \in Threads, k \in Keys : CheckTracked(t, k) \/ CheckUntracked(t, k)
    \/ \E t \in Threads : TouchLru(t) \/ InsertBeaten(t) \/ Insert(t)
    \/ Tick

LimiterSpec == LimiterInit /\ [][LimiterNext]_limiterVars

----------------------------------------------------------------------------
(* Properties.                                                             *)

LimiterTypeOK ==
    /\ now \in Nat
    /\ buckets \in [Keys -> Bucket \cup {Absent}]
    /\ \A k \in Tracked : buckets[k].tokens <= CapacityOf[k] /\ buckets[k].last <= now
    /\ lru \in Seq(Keys) /\ NoDuplicates(lru)
    /\ thread \in [Threads -> {Idle} \cup [pc : {"touch", "insert"}, key : Keys]]
    /\ admitted \in [Keys -> Nat] /\ inserted \in [Keys -> Nat] /\ races \in Nat

(* However checks, insertions and evictions interleave, a key is let       *)
(* through at most a burst for each bucket it was given and its rate for   *)
(* the time that passed: only an eviction renews a burst.                  *)
AdmissionBound ==
    \A k \in Keys :
        admitted[k] + (IF buckets[k] = Absent THEN 0 ELSE Replenished(k, buckets[k]))
            <= CapacityOf[k] * inserted[k] + RateOf[k] * now

(* Every tracked key can be evicted: the queue has it. *)
TrackedInQueue == Tracked \subseteq Ids(lru)

(* The queue outgrows max_entries only through touches that came after the *)
(* eviction of their key, by one each; without them the bound is kept.     *)
GrowthNeedsRace == Len(lru) <= MaxEntries + races
=============================================================================
