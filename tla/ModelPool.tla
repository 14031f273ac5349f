----------------------------- MODULE ModelPool -----------------------------
(***************************************************************************)
(* The model pool of oxillama-server (router/pool.rs) with the admin       *)
(* handlers that load and unload models (admin/routes.rs): loaded engines  *)
(* by model id, background loads that are pending, and the recency queue   *)
(* that picks the victim when the capacity or the memory budget is         *)
(* reached.                                                                *)
(*                                                                         *)
(* The pool is behind one mutex, so every method is one step; what         *)
(* interleaves are the callers that acquire and release a model, the       *)
(* background loads and the administrator.                                 *)
(***************************************************************************)
EXTENDS LruQueue, FiniteSetsExt

CONSTANTS
    Models,
    Users,      \* callers of acquire, each using one model at a time
    MemOf,      \* estimate_mem_bytes of each model's file
    Capacity,   \* maximum number of loaded models
    Budget,     \* memory budget, 0 for unlimited
    None,
    MaxLoads    \* bound: background loads of one model at a time

Handle == [mem : Nat, inflight : Nat]

ASSUME PoolAssumption ==
    /\ IsFiniteSet(Models) /\ IsFiniteSet(Users)
    /\ MemOf \in [Models -> Nat]
    /\ Capacity \in Nat /\ Budget \in Nat /\ MaxLoads \in Nat
    /\ None \notin Models /\ None \notin Handle

VARIABLES
    registry,   \* the models the loader has a file for
    loaded,     \* the handle of each loaded model, None otherwise
    pending,    \* None, loading or failed
    lru,        \* recency queue of loaded models
    loads,      \* background loads of each model that are running
    using,      \* the model each caller has acquired and not released
    orphaned    \* history: models unloaded or replaced under a caller that
                \* has not released since

vars == <<registry, loaded, pending, lru, loads, using, orphaned>>

Loaded(l) == {m \in Models : l[m] # None}
UsersOf(m) == {u \in Users : using[u] = m}

Init ==
    /\ registry = {} /\ loaded = [m \in Models |-> None]
    /\ pending = [m \in Models |-> None] /\ lru = <<>>
    /\ loads = [m \in Models |-> 0]
    /\ using = [u \in Users |-> None] /\ orphaned = {}

----------------------------------------------------------------------------
(* Eviction.  A pool is its map of handles and its queue; the result also  *)
(* says whether the eviction succeeded.                                    *)

Result(l, q, ok) == [loaded |-> l, lru |-> q, ok |-> ok]

(* current_mem_bytes *)
MemBytes(l) ==
    LET Mem(m) == l[m].mem
    IN  MapThenSumSet(Mem, Loaded(l))

Idle(l, m) == l[m] # None => l[m].inflight = 0

(* Mutant: the busy victim is not put back. *)
EvictOneLosesBusy(l, q) ==
    IF q = <<>> THEN Result(l, q, FALSE)
    ELSE IF Idle(l, Head(q)) THEN Result([l EXCEPT ![Head(q)] = None], Tail(q), TRUE)
    ELSE Result(l, Tail(q), FALSE)

(* Mutant: a busy victim is evicted too. *)
EvictOneBusyToo(l, q) ==
    IF q = <<>> THEN Result(l, q, FALSE)
    ELSE Result([l EXCEPT ![Head(q)] = None], Tail(q), TRUE)

(* evict_one: the front of the queue goes, unless it is busy; then it is   *)
(* put back at the other end and nothing is evicted.                       *)
EvictOne(l, q) ==
    IF q = <<>> THEN Result(l, q, FALSE)
    ELSE IF Idle(l, Head(q)) THEN Result([l EXCEPT ![Head(q)] = None], Tail(q), TRUE)
    ELSE Result(l, Touch(Tail(q), Head(q)), FALSE)

(* The pool after the first k models of the queue have been evicted. *)
Drop(l, q, k) == [m \in Models |-> IF \E i \in 1..k : q[i] = m THEN None ELSE l[m]]
Rest(q, k) == SubSeq(q, k + 1, Len(q))

(* evict_until_budget: evict from the front until the new model fits, or   *)
(* an eviction fails; what was evicted before stays evicted.               *)
EvictUntilBudget(l, q, needed) ==
    LET front  == {k \in 0..Len(q) : \A i \in 1..k : Idle(l, q[i])}
        enough == {k \in front : Budget = 0 \/ MemBytes(Drop(l, q, k)) + needed <= Budget}
    IN  IF enough # {}
        THEN Result(Drop(l, q, Min(enough)), Rest(q, Min(enough)), TRUE)
        ELSE EvictOne(Drop(l, q, Max(front)), Rest(q, Max(front)))

(* Mutant: the pool grows to one model more than its capacity. *)
MakeRoomLate(l, q, needed) ==
    LET room == EvictUntilBudget(l, q, needed)
    IN  IF room.ok /\ Cardinality(Loaded(room.loaded)) > Capacity
        THEN EvictOne(room.loaded, room.lru)
        ELSE room

(* What acquire and mark_ready do before they insert a model. *)
MakeRoom(l, q, needed) ==
    LET room == EvictUntilBudget(l, q, needed)
    IN  IF room.ok /\ Cardinality(Loaded(room.loaded)) >= Capacity
        THEN EvictOne(room.loaded, room.lru)
        ELSE room

----------------------------------------------------------------------------
(* acquire and release. *)

AcquireLoaded(u, m) ==
    /\ using[u] = None /\ loaded[m] # None
    /\ loaded' = [loaded EXCEPT ![m].inflight = @ + 1]
    /\ lru' = Touch(lru, m)
    /\ using' = [using EXCEPT ![u] = m]
    /\ UNCHANGED <<registry, pending, loads, orphaned>>

(* The model is loaded while the caller waits. *)
AcquireLoads(u, m) ==
    /\ using[u] = None /\ loaded[m] = None /\ m \in registry
    /\ LET room == MakeRoom(loaded, lru, MemOf[m])
       IN  /\ room.ok
           /\ loaded' = [room.loaded EXCEPT ![m] = [mem |-> MemOf[m], inflight |-> 1]]
           /\ lru' = Touch(room.lru, m)
    /\ using' = [using EXCEPT ![u] = m]
    /\ UNCHANGED <<registry, pending, loads, orphaned>>

(* There is no room, or the engine cannot be loaded; the models that were  *)
(* evicted for it are gone all the same.                                   *)
AcquireFails(u, m) ==
    /\ using[u] = None /\ loaded[m] = None /\ m \in registry
    /\ LET room == MakeRoom(loaded, lru, MemOf[m])
       IN  loaded' = room.loaded /\ lru' = room.lru
    /\ UNCHANGED <<registry, pending, loads, using, orphaned>>

(* Mutant: the count is decremented without saturation. *)
ReleaseUnsaturated(u) ==
    /\ using[u] # None
    /\ LET m == using[u]
       IN  /\ loaded' = IF loaded[m] = None THEN loaded
                        ELSE [loaded EXCEPT ![m].inflight = @ - 1]
           /\ orphaned' = IF UsersOf(m) = {u} THEN orphaned \ {m} ELSE orphaned
    /\ using' = [using EXCEPT ![u] = None]
    /\ UNCHANGED <<registry, pending, lru, loads>>

(* release goes by the id: it finds whatever is loaded under it now. *)
Release(u) ==
    /\ using[u] # None
    /\ LET m == using[u]
       IN  /\ loaded' = IF loaded[m] = None \/ loaded[m].inflight = 0 THEN loaded
                        ELSE [loaded EXCEPT ![m].inflight = @ - 1]
           /\ orphaned' = IF UsersOf(m) = {u} THEN orphaned \ {m} ELSE orphaned
    /\ using' = [using EXCEPT ![u] = None]
    /\ UNCHANGED <<registry, pending, lru, loads>>

----------------------------------------------------------------------------
(* The administrator. *)

(* unload looks at no count; callers keep the handle they have. *)
Unload(m) ==
    /\ loaded[m] # None
    /\ loaded' = [loaded EXCEPT ![m] = None]
    /\ pending' = [pending EXCEPT ![m] = None]
    /\ lru' = Remove(lru, m)
    /\ orphaned' = IF UsersOf(m) # {} THEN orphaned \cup {m} ELSE orphaned
    /\ UNCHANGED <<registry, loads, using>>

(* A model named at startup. *)
Register(m) ==
    /\ registry' = registry \cup {m}
    /\ UNCHANGED <<loaded, pending, lru, loads, using, orphaned>>

(* admin_load_model: mark_loading, register, start a background load. *)
LoadRequest(m) ==
    /\ loads[m] < MaxLoads
    /\ pending' = [pending EXCEPT ![m] = "loading"]
    /\ registry' = registry \cup {m}
    /\ loads' = [loads EXCEPT ![m] = @ + 1]
    /\ UNCHANGED <<loaded, lru, using, orphaned>>

(* mark_ready, with the zero the handler passes for the memory.  A model   *)
(* that is loaded already is replaced, and its count starts again.         *)
LoadReady(m) ==
    /\ loads[m] > 0
    /\ LET room == MakeRoom(loaded, lru, 0)
       IN  /\ room.ok
           /\ loaded' = [room.loaded EXCEPT ![m] = [mem |-> 0, inflight |-> 0]]
           /\ lru' = Touch(room.lru, m)
           /\ orphaned' = IF UsersOf(m) # {} THEN orphaned \cup {m} ELSE orphaned
    /\ pending' = [pending EXCEPT ![m] = None]
    /\ loads' = [loads EXCEPT ![m] = @ - 1]
    /\ UNCHANGED <<registry, using>>

(* mark_ready finds no room: its error is ignored, the engine is dropped   *)
(* and the model stays pending.                                            *)
LoadDropped(m) ==
    /\ loads[m] > 0
    /\ LET room == MakeRoom(loaded, lru, 0)
       IN  ~room.ok /\ loaded' = room.loaded /\ lru' = room.lru
    /\ loads' = [loads EXCEPT ![m] = @ - 1]
    /\ UNCHANGED <<registry, pending, using, orphaned>>

(* mark_failed *)
LoadFailed(m) ==
    /\ loads[m] > 0
    /\ pending' = [pending EXCEPT ![m] = IF @ = None THEN None ELSE "failed"]
    /\ loads' = [loads EXCEPT ![m] = @ - 1]
    /\ UNCHANGED <<registry, loaded, lru, using, orphaned>>

Next ==
    \/ \E u \in Users, m \in Models :
          AcquireLoaded(u, m) \/ AcquireLoads(u, m) \/ AcquireFails(u, m)
    \/ \E u \in Users : Release(u)
    \/ \E m \in Models :
          \/ Unload(m) \/ Register(m) \/ LoadRequest(m)
          \/ LoadReady(m) \/ LoadDropped(m) \/ LoadFailed(m)

Spec == Init /\ [][Next]_vars

----------------------------------------------------------------------------
(* Properties. *)

(* Every variable has its type; in particular a count of callers never     *)
(* goes below zero, whichever handle a release finds.                      *)
TypeOK ==
    /\ registry \subseteq Models
    /\ loaded \in [Models -> Handle \cup {None}]
    /\ pending \in [Models -> {None, "loading", "failed"}]
    /\ lru \in Seq(Models)
    /\ loads \in [Models -> 0..MaxLoads]
    /\ using \in [Users -> Models \cup {None}]
    /\ orphaned \subseteq Models

(* The queue tracks exactly the loaded models, each once, although every   *)
(* method updates map and queue separately and an eviction may fail half   *)
(* way: otherwise a model could never be evicted, or evicting it would     *)
(* free nothing.                                                           *)
QueueMatchesMap == NoDuplicates(lru) /\ Ids(lru) = Loaded(loaded)

(* Neither the capacity nor the memory budget is ever exceeded, whatever   *)
(* is loaded, replaced, evicted or fails.                                  *)
WithinLimits ==
    /\ Cardinality(Loaded(loaded)) <= Capacity
    /\ Budget = 0 \/ MemBytes(loaded) <= Budget

(* The pool never evicts a model under a caller: a model in use is loaded, *)
(* and its count is the number of its callers, unless the administrator    *)
(* has unloaded or reloaded it under one of them.                          *)
InUseStaysLoaded ==
    \A m \in Models \ orphaned : UsersOf(m) # {} =>
        loaded[m] # None /\ loaded[m].inflight = Cardinality(UsersOf(m))
=============================================================================
