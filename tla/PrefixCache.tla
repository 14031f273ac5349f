---------------------------- MODULE PrefixCache ----------------------------
(***************************************************************************)
(* PrefixKvCache of oxillama-runtime (kv_cache/prefix.rs): a radix tree of *)
(* token segments with KV snapshots at some of its nodes, running counters *)
(* of entries and bytes, and eviction of the least recently used entries.  *)
(* A snapshot is abstracted to its identity and its size in tokens.  The   *)
(* hit and miss counters, which only metrics read, are left out.           *)
(***************************************************************************)
EXTENDS Integers, Sequences, FiniteSets, FiniteSetsExt

CONSTANTS
    Keys,        \* the token sequences that are looked up and stored
    None,
    MaxEntries,  \* PrefixCacheConfig::max_entries
    MaxMemory,   \* PrefixCacheConfig::max_memory_bytes, in tokens
    MinPrefix,   \* PrefixCacheConfig::min_prefix_len
    MaxOps       \* bound: operations in a behaviour

ASSUME PrefixAssumption ==
    MaxEntries \in Nat /\ MaxMemory \in Nat /\ MinPrefix \in Nat /\ MaxOps \in Nat

VARIABLES
    root,        \* the tree: [tokens, children, kv, at], nested
    entryCount,  \* entry_count
    memory,      \* memory_bytes, in tokens
    answer,      \* the last operation and what it returned
    clock        \* Instant::now(): one tick per operation

vars == <<root, entryCount, memory, answer, clock>>

NewNode(tokens, now) ==
    [tokens |-> tokens, children |-> <<>>, kv |-> None, at |-> now]

CommonPrefixLen(a, b) ==
    Max({n \in 0..Len(a) : n <= Len(b) /\ \A i \in 1..n : a[i] = b[i]})

From(s, i) == SubSeq(s, i, Len(s))

----------------------------------------------------------------------------
(* RadixNode::lookup: the touched node and the best match below it. *)
RECURSIVE NodeLookup(_, _, _)
NodeLookup(n, query, matched) ==
    LET common == CommonPrefixLen(n.tokens, query)
        total == matched + common
        rest == From(query, common + 1)
        descends == rest # <<>> /\ rest[1] \in DOMAIN n.children
        below == IF descends THEN NodeLookup(n.children[rest[1]], rest, total)
                 ELSE [node |-> None, best |-> None]
    IN  IF common < Len(n.tokens)
        THEN [node |-> n, best |-> None]
        ELSE [node |-> [n EXCEPT !.at = clock,
                           !.children = IF descends THEN [@ EXCEPT ![rest[1]] = below.node] ELSE @],
              best |-> IF below.best = None /\ n.kv # None
                       THEN [len |-> total, kv |-> n.kv.id] ELSE below.best]

(* RadixNode::split_at: the suffix, with everything below it, becomes a    *)
(* child; the node itself carries no data any more.                        *)
SplitAt(n, pos) ==
    [n EXCEPT !.tokens = SubSeq(@, 1, pos),
              !.kv = None,
              !.children = [t \in {n.tokens[pos + 1]} |->
                              [n EXCEPT !.tokens = From(@, pos + 1)]]]

(* RadixNode::insert: the new node and the snapshot it displaced. *)
RECURSIVE NodeInsert(_, _, _)
NodeInsert(n, tokens, kv) ==
    LET common == CommonPrefixLen(n.tokens, tokens)
        s == IF tokens # <<>> /\ common < Len(n.tokens) THEN SplitAt(n, common) ELSE n
        rest == From(tokens, common + 1)
        child == IF rest[1] \in DOMAIN s.children
                 THEN s.children[rest[1]] ELSE NewNode(rest, clock)
        below == IF child.tokens = rest
                 THEN [node |-> [child EXCEPT !.kv = kv, !.at = clock], old |-> child.kv]
                 ELSE NodeInsert(child, rest, kv)
    IN  IF tokens = <<>> \/ rest = <<>>
        THEN [node |-> [s EXCEPT !.kv = kv, !.at = clock], old |-> s.kv]
        ELSE [node |-> [s EXCEPT !.children =
                          [t \in DOMAIN @ \cup {rest[1]} |->
                              IF t = rest[1] THEN below.node ELSE @[t]]],
              old |-> below.old]

(* The entries below a node, with the path of tokens that leads to each. *)
RECURSIVE Entries(_, _)
Entries(n, prefix) ==
    LET path == prefix \o n.tokens
    IN  {[key |-> path, kv |-> e.kv, at |-> e.at] : e \in {m \in {n} : m.kv # None}}
          \cup UNION {Entries(n.children[t], path) : t \in DOMAIN n.children}

(* Mutant: the comparison of access times is the wrong way round. *)
LruPathNewest(n) ==
    LET all == Entries(n, <<>>)
    IN  (CHOOSE e \in all : \A f \in all :
            e.at > f.at \/ (e.at = f.at /\ Len(e.key) <= Len(f.key))).key

(* find_lru_candidate: a node is visited before the nodes below it, and    *)
(* only a strictly older one displaces the candidate.                      *)
LruPath(n) ==
    LET all == Entries(n, <<>>)
    IN  (CHOOSE e \in all : \A f \in all :
            e.at < f.at \/ (e.at = f.at /\ Len(e.key) <= Len(f.key))).key

(* Mutant: a node that lost its snapshot stays in the tree. *)
RECURSIVE RemoveCachedAtNoPrune(_, _)
RemoveCachedAtNoPrune(n, path) ==
    LET rest == From(path, Len(n.tokens) + 1)
        below == RemoveCachedAtNoPrune(n.children[rest[1]], rest)
    IN  IF rest = <<>> THEN [node |-> [n EXCEPT !.kv = None], freed |-> n.kv.size]
        ELSE [node |-> [n EXCEPT !.children = [@ EXCEPT ![rest[1]] = below.node]],
              freed |-> below.freed]

(* remove_cached_at on the path of an entry; empty nodes are pruned on the *)
(* way back.                                                               *)
RECURSIVE RemoveCachedAt(_, _)
RemoveCachedAt(n, path) ==
    LET rest == From(path, Len(n.tokens) + 1)
        below == RemoveCachedAt(n.children[rest[1]], rest)
        empty == below.node.kv = None /\ DOMAIN below.node.children = {}
    IN  IF rest = <<>> THEN [node |-> [n EXCEPT !.kv = None], freed |-> n.kv.size]
        ELSE [node |-> [n EXCEPT !.children =
                          IF empty THEN [t \in DOMAIN @ \ {rest[1]} |-> @[t]]
                          ELSE [@ EXCEPT ![rest[1]] = below.node]],
              freed |-> below.freed]

(* evict_lru: while a limit is exceeded and there is an entry to evict. *)
RECURSIVE EvictLru(_, _, _)
EvictLru(n, count, mem) ==
    IF (count > MaxEntries \/ mem > MaxMemory) /\ Entries(n, <<>>) # {}
    THEN LET removed == RemoveCachedAt(n, LruPath(n))
         IN  EvictLru(removed.node, count - 1, mem - removed.freed)
    ELSE [node |-> n, count |-> count, mem |-> mem]

----------------------------------------------------------------------------
Reply(op, len, kv) == [op |-> op, len |-> len, kv |-> kv]

Init ==
    /\ root = NewNode(<<>>, 0) /\ entryCount = 0 /\ memory = 0
    /\ answer = Reply("new", 0, None) /\ clock = 0

Tick == clock < MaxOps /\ clock' = clock + 1

Lookup(query) ==
    LET found == NodeLookup(root, query, 0)
    IN  /\ Tick
        /\ IF query = <<>>
           THEN answer' = Reply("miss", 0, None) /\ UNCHANGED root
           ELSE /\ root' = found.node
                /\ answer' = IF found.best # None /\ found.best.len >= MinPrefix
                             THEN Reply("hit", found.best.len, found.best.kv)
                             ELSE Reply("miss", 0, None)
        /\ UNCHANGED <<entryCount, memory>>

(* Mutant: a displaced snapshot is not taken off the counters. *)
StoreCountsReplaced(tokens, seqLen) ==
    LET inserted == NodeInsert(root, tokens, [id |-> clock, size |-> Len(tokens)])
        evicted == EvictLru(inserted.node, entryCount + 1, memory + Len(tokens))
    IN  /\ Tick /\ Len(tokens) >= MinPrefix /\ seqLen >= Len(tokens)
        /\ root' = evicted.node
        /\ entryCount' = evicted.count /\ memory' = evicted.mem
        /\ answer' = Reply("stored", Len(tokens), clock)

(* store and insert_entry.  A KV state longer than the key is cut to it;   *)
(* a shorter one, and a key shorter than min_prefix_len, are refused.      *)
Store(tokens, seqLen) ==
    LET inserted == NodeInsert(root, tokens, [id |-> clock, size |-> Len(tokens)])
        replaced == inserted.old # None
        evicted == EvictLru(inserted.node,
                            IF replaced THEN entryCount ELSE entryCount + 1,
                            memory + Len(tokens) - (IF replaced THEN inserted.old.size ELSE 0))
    IN  /\ Tick /\ Len(tokens) >= MinPrefix /\ seqLen >= Len(tokens)
        /\ root' = evicted.node
        /\ entryCount' = evicted.count /\ memory' = evicted.mem
        /\ answer' = Reply("stored", Len(tokens), clock)

Clear ==
    /\ Tick
    /\ root' = [root EXCEPT !.kv = None, !.children = <<>>]
    /\ entryCount' = 0 /\ memory' = 0 /\ answer' = Reply("cleared", 0, None)

(* A refused store changes nothing. *)
RefuseStore(tokens, seqLen) ==
    (Len(tokens) < MinPrefix \/ seqLen < Len(tokens)) /\ UNCHANGED vars

(* The live KV state covers the prompt and perhaps a completion, or stops  *)
(* short of the prompt.                                                    *)
SeqLens(tokens) == {Len(tokens) - 1, Len(tokens), Len(tokens) + 1}

Next ==
    \/ \E k \in Keys : Lookup(k) \/ \E n \in SeqLens(k) : Store(k, n) \/ RefuseStore(k, n)
    \/ Clear

Spec == Init /\ [][Next]_vars

----------------------------------------------------------------------------
(* Properties. *)

(* The map the tree stands for. *)
Contents ==
    LET all == Entries(root, <<>>)
        At(k) == CHOOSE e \in all : e.key = k
    IN  [k \in {e.key : e \in all} |-> [kv |-> At(k).kv.id, at |-> At(k).at]]

Map == INSTANCE PrefixMap WITH entries <- Contents

(* The tree implements the map: whatever nodes were split, pruned or left  *)
(* over by eviction, lookup returns the snapshot of the longest stored     *)
(* prefix and eviction removes the least recently used entries only.       *)
ImplementsMap == Map!Spec

(* entry_count and memory_bytes, which are kept up to date incrementally,  *)
(* are what a traversal would count, and respect the limits.               *)
CountersExact ==
    LET all == Entries(root, <<>>)
    IN  /\ entryCount = Cardinality(all) /\ entryCount <= MaxEntries
        /\ memory = MapThenSumSet(LAMBDA e : e.kv.size, all) /\ memory <= MaxMemory

(* The nodes below the root, the root not included. *)
RECURSIVE Below(_)
Below(n) == UNION {{n.children[t]} \cup Below(n.children[t]) : t \in DOMAIN n.children}

(* Children are filed under the first token of their segment, and no node  *)
(* is left behind that leads to no snapshot.                               *)
TreeShape ==
    /\ root.tokens = <<>>
    /\ \A n \in Below(root) \cup {root} : \A t \in DOMAIN n.children :
          n.children[t].tokens # <<>> /\ n.children[t].tokens[1] = t
    /\ \A n \in Below(root) : n.kv # None \/ DOMAIN n.children # {}
=============================================================================
