----------------------------- MODULE PrefixMap -----------------------------
(***************************************************************************)
(* What a prefix KV cache promises (kv_cache/prefix.rs): a map from token  *)
(* sequences to KV snapshots.  lookup finds the longest stored key that is *)
(* a prefix of the query and refreshes every stored key it passes on the   *)
(* way; store adds or replaces one key and then drops the least recently   *)
(* used ones until the limits hold.  PrefixCache, the radix tree of the    *)
(* code, is checked to implement this.                                     *)
(***************************************************************************)
EXTENDS Integers, Sequences, FiniteSets, FiniteSetsExt

CONSTANTS Keys, None, MaxEntries, MaxMemory, MinPrefix, MaxOps  \* as in PrefixCache

VARIABLES
    entries,     \* key -> [kv: the snapshot, at: when it was last used]
    answer,      \* the last operation and what it returned
    clock        \* Instant::now(): one tick per operation

vars == <<entries, answer, clock>>

IsPrefix(p, q) == Len(p) <= Len(q) /\ SubSeq(q, 1, Len(p)) = p

Reply(op, len, kv) == [op |-> op, len |-> len, kv |-> kv]

Init == entries = [k \in {} |-> None] /\ answer = Reply("new", 0, None) /\ clock = 0

Tick == clock < MaxOps /\ clock' = clock + 1

Lookup(q) ==
    LET hits == {k \in DOMAIN entries : q # <<>> /\ IsPrefix(k, q)}
        longest == CHOOSE k \in hits : \A j \in hits : Len(j) <= Len(k)
    IN  /\ Tick
        /\ answer' = IF hits # {} /\ Len(longest) >= MinPrefix
                     THEN Reply("hit", Len(longest), entries[longest].kv)
                     ELSE Reply("miss", 0, None)
        /\ entries' = [k \in DOMAIN entries |->
                         IF k \in hits THEN [entries[k] EXCEPT !.at = clock] ELSE entries[k]]

(* k goes before j: used longer ago, or passed earlier by the same lookup. *)
Before(e, k, j) == e[k].at < e[j].at \/ (e[k].at = e[j].at /\ Len(k) < Len(j))

(* The memory of a set of keys, counted in tokens. *)
Lengths == [k \in Keys |-> Len(k)]
Memory(K) == LET Size(k) == Lengths[k] IN MapThenSumSet(Size, K)

Fits(K) == Cardinality(K) <= MaxEntries /\ Memory(K) <= MaxMemory

(* The most recently used keys that fit together. *)
Kept(e) ==
    LET recent == {K \in SUBSET DOMAIN e :
                     Fits(K) /\ \A k \in K : \A j \in DOMAIN e : Before(e, k, j) => j \in K}
    IN  CHOOSE K \in recent : \A L \in recent : L \subseteq K

Store(k) ==
    LET e == [j \in DOMAIN entries \cup {k} |->
                IF j = k THEN [kv |-> clock, at |-> clock] ELSE entries[j]]
    IN  /\ Tick /\ Len(k) >= MinPrefix
        /\ entries' = [j \in Kept(e) |-> e[j]]
        /\ answer' = Reply("stored", Len(k), clock)

Clear == Tick /\ entries' = [k \in {} |-> None] /\ answer' = Reply("cleared", 0, None)

Next == Clear \/ \E k \in Keys : Lookup(k) \/ Store(k)

Spec == Init /\ [][Next]_vars
=============================================================================
