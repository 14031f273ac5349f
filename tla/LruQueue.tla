------------------------------ MODULE LruQueue ------------------------------
(***************************************************************************)
(* The recency queue of oxillama-server/src/router/eviction.rs: a          *)
(* VecDeque of identifiers whose front is the least recently used one.     *)
(* PrefixCacheRegistry and ModelPool both order their evictions with it.   *)
(* An identifier occurs at most once (touch removes before it pushes), so  *)
(* `retain(|id| id != x)` deletes at most one position.                    *)
(***************************************************************************)
EXTENDS Integers, Sequences

(* The identifiers the queue tracks. *)
Ids(q) == {q[i] : i \in DOMAIN q}

(* LruQueue::remove: retain everything but id. *)
Remove(q, id) ==
    IF id \in Ids(q)
    THEN LET i == CHOOSE i \in DOMAIN q : q[i] = id
         IN  SubSeq(q, 1, i - 1) \o SubSeq(q, i + 1, Len(q))
    ELSE q

(* LruQueue::touch: move id to the most recently used end. *)
Touch(q, id) == Append(Remove(q, id), id)

(* VecDeque::retain and Vec::retain: the elements of q that are in S, in   *)
(* order.                                                                  *)
Kept(q, S) ==
    LET kept[n \in 0 .. Len(q)] ==
            IF n = 0 THEN <<>>
            ELSE IF q[n] \in S THEN Append(kept[n - 1], q[n]) ELSE kept[n - 1]
    IN  kept[Len(q)]

(* No identifier is tracked twice. *)
NoDuplicates(q) == \A i, j \in DOMAIN q : q[i] = q[j] => i = j
=============================================================================
