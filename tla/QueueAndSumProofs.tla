------------------------- MODULE QueueAndSumProofs -------------------------
(***************************************************************************)
(* What several components' proofs need: what the operations of the        *)
(* recency queue return, for every queue; least and greatest elements; and *)
(* sums over finite sets.                                                  *)
(***************************************************************************)
EXTENDS LruQueue, FiniteSetsExt, SequenceTheorems, FiniteSetTheorems, TLAPS

(* The tracked identifiers are the elements at positions 1..Len(q). *)
LEMMA IdsIndexed ==
    ASSUME NEW S, NEW q \in Seq(S)
    PROVE  /\ \A i \in 1..Len(q) : q[i] \in Ids(q) /\ q[i] \in S
           /\ \A x \in Ids(q) : x \in S /\ \E i \in 1..Len(q) : q[i] = x
           /\ Len(q) \in Nat /\ DOMAIN q = 1..Len(q)
  BY LenProperties, ElementOfSeq DEF Ids

(* LruQueue::remove takes out exactly id and keeps the others, in order    *)
(* and without duplicates.                                                 *)
LEMMA RemoveLemma ==
    ASSUME NEW S, NEW q \in Seq(S), NoDuplicates(q), NEW id
    PROVE  /\ Remove(q, id) \in Seq(S)
           /\ NoDuplicates(Remove(q, id))
           /\ Ids(Remove(q, id)) = Ids(q) \ {id}
           /\ Len(Remove(q, id)) = Len(q) - (IF id \in Ids(q) THEN 1 ELSE 0)
  <1>1. CASE id \notin Ids(q)
    BY <1>1, LenProperties DEF Remove
  <1>2. CASE id \in Ids(q)
    <2> DEFINE k == CHOOSE i \in DOMAIN q : q[i] = id
               a == SubSeq(q, 1, k - 1)
               b == SubSeq(q, k + 1, Len(q))
               r == a \o b
    <2>1. k \in 1..Len(q) /\ q[k] = id /\ Len(q) \in Nat
      BY <1>2, IdsIndexed
    <2> HIDE DEF k
    <2>2. Remove(q, id) = r
      BY <1>2 DEF Remove, k
    <2>3. /\ a \in Seq(S) /\ Len(a) = k - 1
          /\ \A i \in 1..(k - 1) : a[i] = q[i]
      BY <2>1, ElementOfSeq, SubSeqProperties
    <2>4. /\ b \in Seq(S) /\ Len(b) = Len(q) - k
          /\ \A i \in 1..(Len(q) - k) : b[i] = q[k + i]
      <3>1. \A i \in (k + 1)..Len(q) : q[i] \in S
        BY <2>1, ElementOfSeq
      <3>2. /\ b \in Seq(S)
            /\ Len(b) = IF k + 1 <= Len(q) THEN Len(q) - (k + 1) + 1 ELSE 0
            /\ \A i \in 1..(Len(q) - (k + 1) + 1) : b[i] = q[(k + 1) + i - 1]
        BY <3>1, <2>1, SubSeqProperties
      <3> QED  BY <3>2, <2>1
    <2> HIDE DEF a, b
    <2>5. /\ r \in Seq(S) /\ Len(r) = Len(q) - 1
          /\ \A i \in 1..(Len(q) - 1) : r[i] = IF i < k THEN q[i] ELSE q[i + 1]
      <3>1. /\ r \in Seq(S) /\ Len(r) = Len(a) + Len(b)
            /\ \A i \in 1..(Len(a) + Len(b)) :
                  r[i] = IF i <= Len(a) THEN a[i] ELSE b[i - Len(a)]
        BY <2>3, <2>4, ConcatProperties
      <3> HIDE DEF r
      <3>2. ASSUME NEW i \in 1..(Len(q) - 1)
            PROVE  r[i] = IF i < k THEN q[i] ELSE q[i + 1]
        <4>0. i \in 1..(Len(a) + Len(b))  BY <2>1, <2>3, <2>4
        <4>1. CASE i < k
          <5>1. i <= Len(a) /\ i \in 1..(k - 1)  BY <4>1, <2>1, <2>3
          <5> QED  BY <4>0, <4>1, <5>1, <3>1, <2>3
        <4>2. CASE ~(i < k)
          <5>0. ~(i <= Len(a))  BY <4>2, <2>1, <2>3
          <5>1. r[i] = b[i - (k - 1)]  BY <4>0, <5>0, <3>1, <2>3
          <5>2. i - (k - 1) \in 1..(Len(q) - k)  BY <4>2, <2>1
          <5>3. b[i - (k - 1)] = q[k + (i - (k - 1))]  BY <5>2, <2>4
          <5>4. k + (i - (k - 1)) = i + 1  BY <2>1
          <5> QED  BY <5>1, <5>3, <5>4, <4>2
        <4> QED  BY <4>1, <4>2
      <3> QED  BY <3>1, <3>2, <2>1, <2>3, <2>4
    <2> HIDE DEF r
    <2>6. DOMAIN r = 1..(Len(q) - 1) /\ DOMAIN q = 1..Len(q)
      BY <2>5, LenProperties
    <2>7. NoDuplicates(r)
      <3> SUFFICES ASSUME NEW i \in 1..(Len(q) - 1), NEW j \in 1..(Len(q) - 1),
                          r[i] = r[j]
                   PROVE  i = j
        BY <2>6 DEF NoDuplicates
      <3>1. \A m, n \in 1..Len(q) : q[m] = q[n] => m = n
        BY <2>6 DEF NoDuplicates
      <3> DEFINE at(n) == IF n < k THEN n ELSE n + 1
      <3>2. \A n \in 1..(Len(q) - 1) : at(n) \in 1..Len(q) /\ r[n] = q[at(n)]
        BY <2>5, <2>1
      <3>3. at(i) = at(j)  BY <3>1, <3>2
      <3> QED  BY <3>3, <2>1
    <2>8. Ids(r) = Ids(q) \ {id}
      <3>1. ASSUME NEW x \in Ids(r)  PROVE  x \in Ids(q) \ {id}
        <4>1. PICK i \in 1..(Len(q) - 1) : r[i] = x
          BY <2>6 DEF Ids
        <4>2. PICK m \in 1..Len(q) : m # k /\ q[m] = x
          BY <4>1, <2>5, <2>1
        <4>3. q[m] # q[k]
          BY <4>2, <2>6, <2>1 DEF NoDuplicates
        <4> QED  BY <4>2, <4>3, <2>1, <2>6 DEF Ids
      <3>2. ASSUME NEW x \in Ids(q) \ {id}  PROVE  x \in Ids(r)
        <4>1. PICK m \in 1..Len(q) : q[m] = x
          BY <2>6 DEF Ids
        <4>2. m # k  BY <4>1, <2>1
        <4>3. PICK i \in 1..(Len(q) - 1) : r[i] = x
          <5>1. CASE m < k
            <6>1. m \in 1..(Len(q) - 1) /\ r[m] = x  BY <5>1, <4>1, <2>1, <2>5
            <6> QED  BY <6>1
          <5>2. CASE m > k
            <6>1. m - 1 \in 1..(Len(q) - 1) /\ ~(m - 1 < k) /\ (m - 1) + 1 = m
              BY <5>2, <2>1
            <6>2. r[m - 1] = q[(m - 1) + 1]  BY <6>1, <2>5
            <6> QED  BY <6>1, <6>2, <4>1
          <5> QED  BY <5>1, <5>2, <4>2, <2>1
        <4> QED  BY <4>3, <2>6 DEF Ids
      <3> QED  BY <3>1, <3>2
    <2> QED  BY <1>2, <2>2, <2>5, <2>7, <2>8
  <1> QED  BY <1>1, <1>2

(* LruQueue::touch leaves id tracked once, at the most recently used end.  *)
LEMMA TouchLemma ==
    ASSUME NEW S, NEW q \in Seq(S), NoDuplicates(q), NEW id \in S
    PROVE  /\ Touch(q, id) \in Seq(S) /\ Touch(q, id) # <<>>
           /\ NoDuplicates(Touch(q, id))
           /\ Ids(Touch(q, id)) = Ids(q) \cup {id}
           /\ Len(Touch(q, id)) = Len(q) + (IF id \in Ids(q) THEN 0 ELSE 1)
           /\ Touch(q, id)[Len(Touch(q, id))] = id
  <1> DEFINE r == Remove(q, id)
             t == Append(r, id)
  <1>1. /\ r \in Seq(S) /\ NoDuplicates(r) /\ Ids(r) = Ids(q) \ {id}
        /\ Len(r) = Len(q) - (IF id \in Ids(q) THEN 1 ELSE 0)
    BY RemoveLemma
  <1> HIDE DEF r
  <1>2. /\ t \in Seq(S) /\ t # <<>> /\ Len(t) = Len(r) + 1
        /\ \A i \in 1..Len(r) : t[i] = r[i]
        /\ t[Len(r) + 1] = id
    BY <1>1, AppendProperties
  <1>3. /\ Len(r) \in Nat /\ Len(q) \in Nat
        /\ DOMAIN t = 1..(Len(r) + 1) /\ DOMAIN r = 1..Len(r)
    BY <1>1, <1>2, LenProperties
  <1> HIDE DEF t
  <1>4. \A i \in 1..Len(r) : r[i] # id
    BY <1>1, <1>3 DEF Ids
  <1>5. NoDuplicates(t)
    <2> SUFFICES ASSUME NEW i \in 1..(Len(r) + 1), NEW j \in 1..(Len(r) + 1), t[i] = t[j]
                 PROVE  i = j
      BY <1>3 DEF NoDuplicates
    <2>1. \A m, n \in 1..Len(r) : r[m] = r[n] => m = n
      BY <1>1, <1>3 DEF NoDuplicates
    <2>2. \A m \in 1..(Len(r) + 1) : m = Len(r) + 1 \/ m \in 1..Len(r)
      BY <1>3
    <2> QED  BY <2>1, <2>2, <1>2, <1>4
  <1>6. Ids(t) = Ids(q) \cup {id}
    <2>1. \A m \in 1..(Len(r) + 1) : m = Len(r) + 1 \/ m \in 1..Len(r)
      BY <1>3
    <2>2. Ids(t) = Ids(r) \cup {id}
      <3>1. ASSUME NEW x \in Ids(t)  PROVE  x \in Ids(r) \cup {id}
        BY <2>1, <1>2, <1>3 DEF Ids
      <3>2. id \in Ids(t)
        BY <1>2, <1>3 DEF Ids
      <3>3. ASSUME NEW x \in Ids(r)  PROVE  x \in Ids(t)
        <4>1. PICK i \in 1..Len(r) : r[i] = x  BY <1>3 DEF Ids
        <4>2. i \in 1..(Len(r) + 1) /\ t[i] = x  BY <4>1, <1>2, <1>3
        <4> QED  BY <4>2, <1>3 DEF Ids
      <3> QED  BY <3>1, <3>2, <3>3
    <2> QED  BY <2>2, <1>1
  <1>7. Touch(q, id) = t
    BY DEF Touch, t, r
  <1> QED  BY <1>1, <1>2, <1>3, <1>5, <1>6, <1>7

(* LruQueue::evict_lru (pop_front) takes the front identifier out. *)
LEMMA EvictLemma ==
    ASSUME NEW S, NEW q \in Seq(S), NoDuplicates(q), q # <<>>
    PROVE  /\ Tail(q) \in Seq(S) /\ NoDuplicates(Tail(q))
           /\ Ids(Tail(q)) = Ids(q) \ {Head(q)}
           /\ Head(q) = q[1] /\ Head(q) \in Ids(q)
           /\ Len(Tail(q)) = Len(q) - 1 /\ Len(q) \in Nat \ {0}
  <1> DEFINE t == Tail(q)
  <1>1. /\ t \in Seq(S) /\ Len(t) = Len(q) - 1
        /\ \A i \in 1..Len(t) : t[i] = q[i + 1]
        /\ Len(q) \in Nat \ {0}
    BY HeadTailProperties, EmptySeq
  <1>2. DOMAIN q = 1..Len(q) /\ DOMAIN t = 1..(Len(q) - 1) /\ Head(q) = q[1]
    BY <1>1, LenProperties
  <1> HIDE DEF t
  <1>3. \A m, n \in 1..Len(q) : q[m] = q[n] => m = n
    BY <1>2 DEF NoDuplicates
  <1>4. NoDuplicates(t)
    <2> SUFFICES ASSUME NEW i \in 1..(Len(q) - 1), NEW j \in 1..(Len(q) - 1), t[i] = t[j]
                 PROVE  i = j
      BY <1>2 DEF NoDuplicates
    <2> QED  BY <1>1, <1>3
  <1>5. Ids(t) = Ids(q) \ {Head(q)}
    <2>1. ASSUME NEW x \in Ids(t)  PROVE  x \in Ids(q) \ {Head(q)}
      <3>1. PICK i \in 1..(Len(q) - 1) : t[i] = x  BY <1>2 DEF Ids
      <3>2. i + 1 \in 1..Len(q) /\ i + 1 # 1 /\ q[i + 1] = x /\ 1 \in 1..Len(q)
        BY <3>1, <1>1
      <3>3. q[i + 1] # q[1]  BY <3>2, <1>3
      <3> QED  BY <3>2, <3>3, <1>2 DEF Ids
    <2>2. ASSUME NEW x \in Ids(q) \ {Head(q)}  PROVE  x \in Ids(t)
      <3>1. PICK i \in 1..Len(q) : q[i] = x  BY <1>2 DEF Ids
      <3>2. i # 1  BY <3>1, <1>2
      <3>3. i - 1 \in 1..(Len(q) - 1) /\ (i - 1) + 1 = i  BY <3>2, <1>1
      <3>4. t[i - 1] = x  BY <3>1, <3>3, <1>1
      <3> QED  BY <3>3, <3>4, <1>2 DEF Ids
    <2> QED  BY <2>1, <2>2
  <1>6. Head(q) \in Ids(q)
    <2>1. 1 \in 1..Len(q)  BY <1>1
    <2> QED  BY <2>1, <1>2 DEF Ids
  <1> QED  BY <1>1, <1>2, <1>4, <1>5, <1>6 DEF t

(* Appending tracks one identifier more, once if it was not tracked. *)
LEMMA AppendLemma ==
    ASSUME NEW S, NEW q \in Seq(S), NEW y \in S
    PROVE  /\ Append(q, y) \in Seq(S)
           /\ Ids(Append(q, y)) = Ids(q) \cup {y}
           /\ NoDuplicates(q) /\ y \notin Ids(q) => NoDuplicates(Append(q, y))
  <1> DEFINE t == Append(q, y)
  <1>1. /\ t \in Seq(S) /\ Len(t) = Len(q) + 1 /\ Len(q) \in Nat
        /\ \A i \in 1..Len(q) : t[i] = q[i]
        /\ t[Len(q) + 1] = y
    BY AppendProperties, LenProperties
  <1>2. DOMAIN t = 1..(Len(q) + 1) /\ DOMAIN q = 1..Len(q)
    BY <1>1, LenProperties
  <1> HIDE DEF t
  <1>3. \A m \in 1..(Len(q) + 1) : m = Len(q) + 1 \/ m \in 1..Len(q)
    BY <1>1
  <1>4. 1..Len(q) \subseteq 1..(Len(q) + 1) /\ Len(q) + 1 \in 1..(Len(q) + 1)
    BY <1>1
  <1>5. Ids(t) = Ids(q) \cup {y}
    <2>1. ASSUME NEW x \in Ids(t) PROVE x \in Ids(q) \cup {y}
      BY <1>1, <1>2, <1>3 DEF Ids
    <2>2. ASSUME NEW x \in Ids(q) \cup {y} PROVE x \in Ids(t)
      <3>1. PICK i \in 1..(Len(q) + 1) : t[i] = x
        BY <1>1, <1>2, <1>4 DEF Ids
      <3> QED
        BY <3>1, <1>2 DEF Ids
    <2> QED
      BY <2>1, <2>2
  <1>6. ASSUME NoDuplicates(q), y \notin Ids(q) PROVE NoDuplicates(t)
    <2> SUFFICES ASSUME NEW i \in 1..(Len(q) + 1), NEW j \in 1..(Len(q) + 1), t[i] = t[j]
                 PROVE  i = j
      BY <1>2 DEF NoDuplicates
    <2>1. \A m, n \in 1..Len(q) : q[m] = q[n] => m = n
      BY <1>2, <1>6 DEF NoDuplicates
    <2>2. \A m \in 1..Len(q) : q[m] # y
      BY <1>2, <1>6 DEF Ids
    <2> QED
      BY <2>1, <2>2, <1>1, <1>3
  <1> QED
    BY <1>1, <1>5, <1>6 DEF t

----------------------------------------------------------------------------
(* Least and greatest elements.                                            *)

(* Every set of naturals that is not empty has a least element. *)
LEMMA MinNat ==
    ASSUME NEW S \in SUBSET Nat, S # {}
    PROVE  Min(S) \in S /\ \A y \in S : Min(S) <= y
<1> DEFINE R == StrictSubsetOrdering(Nat)
           F == FiniteSubsetsOf(Nat)
           T == {1..x : x \in S}
<1>1. IsWellFoundedOn(R, F)
  BY FS_StrictSubsetOrderingWellFounded
<1>2. T \subseteq F /\ T # {}
  <2>1. \A x \in S : 1..x \in SUBSET Nat /\ IsFiniteSet(1..x)
    BY FS_Interval
  <2> QED
    BY <2>1 DEF FiniteSubsetsOf
<1> HIDE DEF R, F
<1>3. PICK d \in T : \A e \in T : <<e, d>> \notin R
  BY <1>1, <1>2, WFMin
<1>4. PICK x \in S : d = 1..x
  BY <1>3
<1>5. ASSUME NEW y \in S PROVE x <= y
  <2>1. <<1..y, 1..x>> \notin R /\ x \in Nat /\ y \in Nat
    BY <1>3, <1>4
  <2>2. 1..y \in SUBSET Nat /\ 1..x \in SUBSET Nat
    BY <2>1
  <2>3. ~(1..y \subseteq 1..x /\ 1..y # 1..x)
    BY <2>1, <2>2 DEF R, StrictSubsetOrdering
  <2>4. CASE y < x
    <3>1. 1..y \subseteq 1..x /\ x \in 1..x /\ x \notin 1..y
      BY <2>1, <2>4
    <3> QED
      BY <3>1, <2>3
  <2> QED
    BY <2>1, <2>4
<1> QED
  BY <1>5 DEF Min

(* A bounded one has a greatest element, too. *)
LEMMA MaxNat ==
    ASSUME NEW n \in Nat, NEW S \in SUBSET (0..n), S # {}
    PROVE  Max(S) \in S /\ \A y \in S : Max(S) >= y
<1> DEFINE T == {n - x : x \in S}
<1>1. T \in SUBSET Nat /\ T # {}
  <2>1. \A x \in S : n - x \in Nat
    OBVIOUS
  <2> QED
    BY <2>1
<1> HIDE DEF T
<1>2. Min(T) \in T /\ \A y \in T : Min(T) <= y
  BY <1>1, MinNat
<1>3. PICK x \in S : Min(T) = n - x
  BY <1>2 DEF T
<1>4. \A y \in S : n - x <= n - y
  BY <1>2, <1>3 DEF T
<1>5. \A y \in S : x >= y
  BY <1>4
<1> QED
  BY <1>5 DEF Max

----------------------------------------------------------------------------
(* Lists: what retain keeps, and taking a list apart.                      *)

(* What retain keeps of the first n entries; the result is the last one.   *)
KeptUpTo(q, K, n, f) ==
    f = [k \in 0..n |-> IF k = 0 THEN <<>>
                        ELSE IF q[k] \in K THEN Append(f[k - 1], q[k]) ELSE f[k - 1]]

LEMMA KeptExists ==
    ASSUME NEW q, NEW K, NEW n \in Nat
    PROVE  \E f : KeptUpTo(q, K, n, f)
  <1> DEFINE C == {k \in Nat : ~ \E f : KeptUpTo(q, K, k, f)}
  <1>1. ASSUME C # {} PROVE FALSE
    <2>1. PICK m \in C : \A k \in C : m <= k
      <3>1. C \in SUBSET Nat
        OBVIOUS
      <3> HIDE DEF C
      <3> QED
        BY <1>1, <3>1, MinNat
    <2>2. CASE m = 0
      <3> DEFINE f == [k \in 0..0 |-> <<>>]
      <3>1. f = [k \in 0..0 |-> IF k = 0 THEN <<>>
                        ELSE IF q[k] \in K THEN Append(f[k - 1], q[k]) ELSE f[k - 1]]
        OBVIOUS
      <3>2. KeptUpTo(q, K, 0, f)
        BY <3>1 DEF KeptUpTo
      <3> QED
        BY <2>2, <3>2
    <2>3. CASE m # 0
      <3>1. m - 1 \in Nat /\ m - 1 \notin C
        BY <2>1, <2>3
      <3>2. PICK g : KeptUpTo(q, K, m - 1, g)
        BY <3>1
      <3> DEFINE f == [k \in 0..m |-> IF k = m THEN IF q[m] \in K THEN Append(g[m - 1], q[m]) ELSE g[m - 1]
                                      ELSE g[k]]
      <3>3. ASSUME NEW k \in 0..m
            PROVE  f[k] = IF k = 0 THEN <<>>
                          ELSE IF q[k] \in K THEN Append(f[k - 1], q[k]) ELSE f[k - 1]
        <4>1. CASE k = 0
          BY <2>3, <3>1, <3>2, <4>1 DEF KeptUpTo
        <4>2. CASE k # 0 /\ k # m
          <5>1. k \in 0..(m - 1) /\ k - 1 \in 0..(m - 1) /\ k - 1 # m /\ k - 1 \in 0..m
            BY <4>2
          <5>2. f[k] = g[k] /\ f[k - 1] = g[k - 1]
            BY <4>2, <5>1
          <5>3. g[k] = IF q[k] \in K THEN Append(g[k - 1], q[k]) ELSE g[k - 1]
            BY <3>2, <4>2, <5>1 DEF KeptUpTo
          <5> QED
            BY <4>2, <5>2, <5>3
        <4>3. CASE k = m
          <5>1. f[k] = IF q[m] \in K THEN Append(g[m - 1], q[m]) ELSE g[m - 1]
            BY <4>3
          <5>2. f[m - 1] = g[m - 1]
            BY <3>1
          <5> QED
            BY <2>3, <4>3, <5>1, <5>2
        <4> QED
          BY <4>1, <4>2, <4>3
      <3>4. f = [k \in 0..m |-> f[k]]
        OBVIOUS
      <3> HIDE DEF f
      <3>5. f = [k \in 0..m |-> IF k = 0 THEN <<>>
                          ELSE IF q[k] \in K THEN Append(f[k - 1], q[k]) ELSE f[k - 1]]
        BY <3>3, <3>4
      <3> QED
        BY <3>5 DEF KeptUpTo
    <2> QED
      BY <2>2, <2>3
  <1> QED
    BY <1>1

(* retain keeps the elements in K, and no more of them than there were.    *)
LEMMA KeptLemma ==
    ASSUME NEW S, NEW q \in Seq(S), NEW K
    PROVE  /\ Kept(q, K) \in Seq(S)
           /\ Ids(Kept(q, K)) = Ids(q) \cap K
           /\ NoDuplicates(q) => NoDuplicates(Kept(q, K))
           /\ Len(Kept(q, K)) \in 0..Len(q)
  <1>0. Len(q) \in Nat /\ DOMAIN q = 1..Len(q) /\ \A i \in 1..Len(q) : q[i] \in S
    BY IdsIndexed
  <1> DEFINE f == CHOOSE f : KeptUpTo(q, K, Len(q), f)
  <1>1. Kept(q, K) = f[Len(q)]
    BY DEF Kept, KeptUpTo
  <1>2. KeptUpTo(q, K, Len(q), f)
    BY <1>0, KeptExists
  <1> HIDE DEF f
  <1> DEFINE Good(k) == /\ f[k] \in Seq(S)
                        /\ Ids(f[k]) = {q[i] : i \in 1..k} \cap K
                        /\ NoDuplicates(q) => NoDuplicates(f[k])
                        /\ Len(f[k]) \in 0..k
             C == {k \in 0..Len(q) : ~Good(k)}
  <1>3. ASSUME C # {} PROVE FALSE
    <2>1. PICK m \in C : \A k \in C : m <= k
      <3>1. C \in SUBSET Nat
        BY <1>0
      <3> HIDE DEF C
      <3> QED
        BY <1>3, <3>1, MinNat
    <2>2. CASE m = 0
      <3>1. f[0] = <<>>
        BY <1>0, <1>2 DEF KeptUpTo
      <3>2. f[0] \in Seq(S) /\ DOMAIN f[0] = {} /\ Len(f[0]) = 0
        BY <3>1
      <3>3. Ids(f[0]) = {} /\ NoDuplicates(f[0])
        BY <3>2 DEF Ids, NoDuplicates
      <3>4. {q[i] : i \in 1..0} = {}
        OBVIOUS
      <3> QED
        BY <2>2, <3>2, <3>3, <3>4
    <2>3. CASE m # 0
      <3>1. m - 1 \in 0..Len(q) /\ m - 1 \notin C /\ m \in 0..Len(q) /\ m \in 1..Len(q)
        <4>1. m \in 0..Len(q)
          OBVIOUS
        <4>2. m - 1 \in 0..Len(q) /\ m \in 1..Len(q) /\ ~(m <= m - 1)
          BY <1>0, <2>3, <4>1
        <4> HIDE DEF C
        <4> QED
          BY <2>1, <4>1, <4>2
      <3>2. Good(m - 1)
        BY <3>1
      <3>3. f[m] = IF q[m] \in K THEN Append(f[m - 1], q[m]) ELSE f[m - 1]
        BY <1>2, <2>3, <3>1 DEF KeptUpTo
      <3>4. {q[i] : i \in 1..m} = {q[i] : i \in 1..(m - 1)} \cup {q[m]}
        <4>1. 1..m = 1..(m - 1) \cup {m}
          BY <3>1
        <4> QED
          BY <4>1
      <3>5. CASE q[m] \notin K
        <4>1. f[m] = f[m - 1]
          BY <3>3, <3>5
        <4>2. {q[i] : i \in 1..m} \cap K = {q[i] : i \in 1..(m - 1)} \cap K
          BY <3>4, <3>5
        <4>3. Good(m)
          BY <3>2, <4>1, <4>2
        <4> QED
          BY <4>3
      <3>6. CASE q[m] \in K
        <4>1. f[m] = Append(f[m - 1], q[m]) /\ q[m] \in S /\ f[m - 1] \in Seq(S)
          BY <1>0, <3>1, <3>2, <3>3, <3>6
        <4>2. /\ f[m] \in Seq(S) /\ Ids(f[m]) = Ids(f[m - 1]) \cup {q[m]}
              /\ NoDuplicates(f[m - 1]) /\ q[m] \notin Ids(f[m - 1]) => NoDuplicates(f[m])
          BY <4>1, AppendLemma
        <4>3. Ids(f[m]) = {q[i] : i \in 1..m} \cap K
          BY <3>2, <3>4, <3>6, <4>2
        <4>4. ASSUME NoDuplicates(q) PROVE NoDuplicates(f[m])
          <5>1. \A i \in 1..(m - 1) : i \in 1..Len(q) /\ i # m
            BY <1>0, <3>1
          <5>2. \A i \in 1..(m - 1) : q[i] # q[m]
            BY <1>0, <3>1, <4>4, <5>1 DEF NoDuplicates
          <5>3. q[m] \notin Ids(f[m - 1])
            BY <3>2, <5>2
          <5> QED
            BY <3>2, <4>2, <4>4, <5>3
        <4>5. Len(f[m]) \in 0..m
          <5>1. Len(f[m]) = Len(f[m - 1]) + 1
            BY <4>1, AppendProperties
          <5>2. Len(f[m - 1]) \in 0..(m - 1)
            BY <3>2
          <5> QED
            BY <3>1, <5>1, <5>2
        <4> QED
          BY <4>2, <4>3, <4>4, <4>5
      <3> QED
        BY <3>5, <3>6
    <2> QED
      BY <2>2, <2>3
  <1>4. Good(Len(q))
    <2>1. Len(q) \in 0..Len(q)
      BY <1>0
    <2>2. \A k \in 0..Len(q) : k \notin C
      BY <1>3
    <2>3. Len(q) \notin C
      BY <2>1, <2>2
    <2> HIDE DEF Good
    <2> QED
      BY <2>1, <2>3
  <1>5. Ids(q) = {q[i] : i \in 1..Len(q)}
    BY <1>0 DEF Ids
  <1> QED
    BY <1>1, <1>4, <1>5

(* The smaller of two integers. *)
LEMMA MinTwo ==
    ASSUME NEW a \in Int, NEW b \in Int
    PROVE  Min({a, b}) = IF a <= b THEN a ELSE b
  BY DEF Min

(* Two lists joined hold what both hold, twice what is in both. *)
LEMMA ConcatLemma ==
    ASSUME NEW S, NEW a \in Seq(S), NEW b \in Seq(S)
    PROVE  /\ a \o b \in Seq(S) /\ Len(a \o b) = Len(a) + Len(b)
           /\ Ids(a \o b) = Ids(a) \cup Ids(b)
           /\ NoDuplicates(a \o b) <=> /\ NoDuplicates(a) /\ NoDuplicates(b)
                                       /\ Ids(a) \cap Ids(b) = {}
  <1> DEFINE c == a \o b
  <1>1. /\ c \in Seq(S) /\ Len(c) = Len(a) + Len(b)
        /\ \A i \in 1..(Len(a) + Len(b)) : c[i] = IF i <= Len(a) THEN a[i] ELSE b[i - Len(a)]
    BY ConcatProperties
  <1>2. /\ Len(a) \in Nat /\ Len(b) \in Nat /\ DOMAIN a = 1..Len(a) /\ DOMAIN b = 1..Len(b)
        /\ DOMAIN c = 1..(Len(a) + Len(b))
    BY <1>1, LenProperties
  <1> HIDE DEF c
  <1>3. \A i \in 1..Len(a) : i \in 1..(Len(a) + Len(b)) /\ c[i] = a[i]
    BY <1>1, <1>2
  <1>4. \A i \in 1..Len(b) : Len(a) + i \in 1..(Len(a) + Len(b)) /\ c[Len(a) + i] = b[i]
    <2> SUFFICES ASSUME NEW i \in 1..Len(b)
                 PROVE  Len(a) + i \in 1..(Len(a) + Len(b)) /\ c[Len(a) + i] = b[i]
      OBVIOUS
    <2>1. Len(a) + i \in 1..(Len(a) + Len(b)) /\ ~(Len(a) + i <= Len(a)) /\ Len(a) + i - Len(a) = i
      BY <1>2
    <2> QED
      BY <1>1, <2>1
  <1>5. \A i \in 1..(Len(a) + Len(b)) :
            i \in 1..Len(a) \/ \E j \in 1..Len(b) : i = Len(a) + j
    <2> SUFFICES ASSUME NEW i \in 1..(Len(a) + Len(b)), i \notin 1..Len(a)
                 PROVE  \E j \in 1..Len(b) : i = Len(a) + j
      OBVIOUS
    <2>1. i - Len(a) \in 1..Len(b) /\ i = Len(a) + (i - Len(a))
      BY <1>2
    <2> QED
      BY <2>1
  <1>6. Ids(c) = Ids(a) \cup Ids(b)
    <2>1. ASSUME NEW x \in Ids(c) PROVE x \in Ids(a) \cup Ids(b)
      <3>1. PICK i \in 1..(Len(a) + Len(b)) : c[i] = x
        BY <1>2 DEF Ids
      <3> QED
        BY <3>1, <1>2, <1>3, <1>4, <1>5 DEF Ids
    <2>2. ASSUME NEW x \in Ids(a) PROVE x \in Ids(c)
      BY <1>2, <1>3 DEF Ids
    <2>3. ASSUME NEW x \in Ids(b) PROVE x \in Ids(c)
      BY <1>2, <1>4 DEF Ids
    <2> QED
      BY <2>1, <2>2, <2>3
  <1>7. ASSUME NoDuplicates(c)
        PROVE  NoDuplicates(a) /\ NoDuplicates(b) /\ Ids(a) \cap Ids(b) = {}
    <2>0. \A i, j \in 1..(Len(a) + Len(b)) : c[i] = c[j] => i = j
      BY <1>7, <1>2 DEF NoDuplicates
    <2>1. NoDuplicates(a)
      BY <2>0, <1>2, <1>3 DEF NoDuplicates
    <2>2. NoDuplicates(b)
      <3> SUFFICES ASSUME NEW i \in 1..Len(b), NEW j \in 1..Len(b), b[i] = b[j] PROVE i = j
        BY <1>2 DEF NoDuplicates
      <3>1. Len(a) + i = Len(a) + j
        BY <2>0, <1>4
      <3> QED
        BY <3>1, <1>2
    <2>3. ASSUME NEW x \in Ids(a), x \in Ids(b) PROVE FALSE
      <3>1. PICK i \in 1..Len(a) : a[i] = x
        BY <1>2 DEF Ids
      <3>2. PICK j \in 1..Len(b) : b[j] = x
        BY <2>3, <1>2 DEF Ids
      <3>3. i = Len(a) + j
        BY <3>1, <3>2, <2>0, <1>3, <1>4
      <3> QED
        BY <3>3, <1>2
    <2> QED
      BY <2>1, <2>2, <2>3
  <1>8. ASSUME NoDuplicates(a), NoDuplicates(b), Ids(a) \cap Ids(b) = {}
        PROVE  NoDuplicates(c)
    <2> SUFFICES ASSUME NEW i \in 1..(Len(a) + Len(b)), NEW j \in 1..(Len(a) + Len(b)),
                        c[i] = c[j]
                 PROVE  i = j
      BY <1>2 DEF NoDuplicates
    <2>0. \A k \in 1..Len(a), m \in 1..Len(b) : a[k] # b[m]
      BY <1>8, <1>2 DEF Ids
    <2>1. \A k, m \in 1..Len(a) : a[k] = a[m] => k = m
      BY <1>8, <1>2 DEF NoDuplicates
    <2>2. \A k, m \in 1..Len(b) : b[k] = b[m] => k = m
      BY <1>8, <1>2 DEF NoDuplicates
    <2>3. CASE i \in 1..Len(a) /\ j \in 1..Len(a)
      BY <2>1, <2>3, <1>3
    <2>4. CASE i \in 1..Len(a) /\ j \notin 1..Len(a)
      <3> DEFINE m == j - Len(a)
      <3>1. m \in 1..Len(b) /\ j = Len(a) + m
        BY <2>4, <1>2
      <3> HIDE DEF m
      <3>2. c[i] = a[i] /\ c[j] = b[m]
        BY <2>4, <3>1, <1>3, <1>4
      <3> QED
        BY <2>4, <2>0, <3>1, <3>2
    <2>5. CASE i \notin 1..Len(a) /\ j \in 1..Len(a)
      <3> DEFINE m == i - Len(a)
      <3>1. m \in 1..Len(b) /\ i = Len(a) + m
        BY <2>5, <1>2
      <3> HIDE DEF m
      <3>2. c[j] = a[j] /\ c[i] = b[m]
        BY <2>5, <3>1, <1>3, <1>4
      <3> QED
        BY <2>5, <2>0, <3>1, <3>2
    <2>6. CASE i \notin 1..Len(a) /\ j \notin 1..Len(a)
      <3> DEFINE k == i - Len(a)
                 m == j - Len(a)
      <3>1. k \in 1..Len(b) /\ i = Len(a) + k
        BY <2>6, <1>2
      <3>2. m \in 1..Len(b) /\ j = Len(a) + m
        BY <2>6, <1>2
      <3> HIDE DEF k, m
      <3>3. b[k] = b[m]
        BY <3>1, <3>2, <1>4
      <3> QED
        BY <3>1, <3>2, <3>3, <2>2
    <2> QED
      BY <2>3, <2>4, <2>5, <2>6
  <1> QED
    BY <1>1, <1>6, <1>7, <1>8 DEF c

(* A list is its first n elements, then the others. *)
LEMMA SplitLemma ==
    ASSUME NEW S, NEW q \in Seq(S), NEW n \in 0..Len(q)
    PROVE  /\ SubSeq(q, 1, n) \in Seq(S) /\ SubSeq(q, n + 1, Len(q)) \in Seq(S)
           /\ Len(SubSeq(q, 1, n)) = n
           /\ q = SubSeq(q, 1, n) \o SubSeq(q, n + 1, Len(q))
  <1> DEFINE a == SubSeq(q, 1, n)
             b == SubSeq(q, n + 1, Len(q))
             c == a \o b
  <1>0. Len(q) \in Nat /\ n \in Nat /\ n <= Len(q) /\ \A i \in 1..Len(q) : q[i] \in S
    BY LenProperties, ElementOfSeq
  <1>1. a \in Seq(S) /\ Len(a) = n /\ \A i \in 1..n : a[i] = q[i]
    BY <1>0, SubSeqProperties
  <1>2. /\ b \in Seq(S) /\ Len(b) = Len(q) - n
        /\ \A i \in 1..(Len(q) - n) : b[i] = q[n + i]
    <2>1. \A i \in (n + 1)..Len(q) : q[i] \in S
      BY <1>0
    <2>2. /\ b \in Seq(S)
          /\ Len(b) = IF n + 1 <= Len(q) THEN Len(q) - (n + 1) + 1 ELSE 0
          /\ \A i \in 1..(Len(q) - (n + 1) + 1) : b[i] = q[(n + 1) + i - 1]
      BY <2>1, <1>0, SubSeqProperties
    <2> QED
      BY <2>2, <1>0
  <1> HIDE DEF a, b
  <1>3. /\ c \in Seq(S) /\ Len(c) = Len(a) + Len(b)
        /\ \A i \in 1..(Len(a) + Len(b)) : c[i] = IF i <= Len(a) THEN a[i] ELSE b[i - Len(a)]
    BY <1>1, <1>2, ConcatProperties
  <1> HIDE DEF c
  <1>4. Len(c) = Len(q)
    BY <1>0, <1>1, <1>2, <1>3
  <1>5. ASSUME NEW i \in 1..Len(q) PROVE c[i] = q[i]
    <2>1. CASE i <= n
      <3>1. i \in 1..n /\ i \in 1..(Len(a) + Len(b)) /\ i <= Len(a)
        BY <2>1, <1>0, <1>1, <1>2
      <3> QED
        BY <3>1, <1>1, <1>3
    <2>2. CASE ~(i <= n)
      <3>1. /\ i - n \in 1..(Len(q) - n) /\ i \in 1..(Len(a) + Len(b)) /\ ~(i <= Len(a))
            /\ n + (i - n) = i
        BY <2>2, <1>0, <1>1, <1>2
      <3>2. c[i] = b[i - n]
        BY <3>1, <1>1, <1>3
      <3>3. b[i - n] = q[n + (i - n)]
        BY <3>1, <1>2
      <3> QED
        BY <3>1, <3>2, <3>3
    <2> QED
      BY <2>1, <2>2
  <1>6. q = c
    BY <1>3, <1>4, <1>5, SeqEqual
  <1> QED
    BY <1>1, <1>2, <1>6 DEF a, b, c

----------------------------------------------------------------------------
(* Sums over finite sets.                                                  *)

(* The sum of v over a finite set, and the recursion that computes it. *)
Weight(v, S) == LET at(x) == v[x] IN MapThenSumSet(at, S)

Pick1(s) == CHOOSE x \in s : TRUE

Summing(v, S, g) ==
    g = [s \in SUBSET S |-> IF s = {} THEN 0 ELSE v[Pick1(s)] + g[s \ {Pick1(s)}]]

(* Among sets of subsets of a finite set some are smallest. *)
LEMMA Smallest ==
    ASSUME NEW S, IsFiniteSet(S), NEW C \in SUBSET SUBSET S, C # {}
    PROVE  \E m \in C : \A t \in SUBSET m : t # m => t \notin C
  <1> DEFINE R == StrictSubsetOrdering(S)
  <1>1. C \subseteq FiniteSubsetsOf(S)
    BY FS_Subset DEF FiniteSubsetsOf
  <1>2. IsWellFoundedOn(R, FiniteSubsetsOf(S))
    BY FS_StrictSubsetOrderingWellFounded
  <1>3. PICK m \in C : \A y \in C : ~(<<y, m>> \in R)
    <2> HIDE DEF R
    <2> QED
      BY <1>1, <1>2, WFMin
  <1>4. \A t \in SUBSET m : t # m => t \notin C
    BY <1>3 DEF StrictSubsetOrdering
  <1> QED
    BY <1>4

LEMMA Pick1In ==
    ASSUME NEW s, s # {}
    PROVE  Pick1(s) \in s
  BY DEF Pick1

LEMMA SummingUnique ==
    ASSUME NEW v, NEW S, NEW T, NEW g, NEW h, Summing(v, S, g), Summing(v, T, h),
           NEW U, IsFiniteSet(U), U \subseteq S, U \subseteq T
    PROVE  g[U] = h[U]
  <1> DEFINE C == {s \in SUBSET U : g[s] # h[s]}
  <1> SUFFICES ASSUME C # {} PROVE FALSE
    OBVIOUS
  <1>1. PICK m \in C : \A t \in SUBSET m : t # m => t \notin C
    <2>1. C \in SUBSET SUBSET U
      OBVIOUS
    <2> HIDE DEF C
    <2> QED
      BY <2>1, Smallest
  <1>2. m \in SUBSET S /\ m \in SUBSET T
    OBVIOUS
  <1>3. m # {}
    BY <1>2 DEF Summing
  <1> DEFINE r == m \ {Pick1(m)}
  <1>4. r \in SUBSET m /\ r # m /\ r \in SUBSET U
    BY <1>3, Pick1In
  <1>5. g[r] = h[r]
    BY <1>1, <1>4
  <1>6. g[m] = v[Pick1(m)] + g[r] /\ h[m] = v[Pick1(m)] + h[r]
    BY <1>2, <1>3 DEF Summing
  <1> QED
    BY <1>5, <1>6

LEMMA SummingExists ==
    ASSUME NEW v, NEW S, IsFiniteSet(S)
    PROVE  \E g : Summing(v, S, g)
  <1> DEFINE C == {s \in SUBSET S : ~ \E g : Summing(v, s, g)}
  <1> SUFFICES ASSUME C # {} PROVE FALSE
    OBVIOUS
  <1>1. PICK m \in C : \A t \in SUBSET m : t # m => t \notin C
    <2>1. C \in SUBSET SUBSET S
      OBVIOUS
    <2> HIDE DEF C
    <2> QED
      BY <2>1, Smallest
  <1> DEFINE sol(t) == CHOOSE g : Summing(v, t, g)
             rest(s) == s \ {Pick1(s)}
             g == [s \in SUBSET m |-> IF s = {} THEN 0 ELSE v[Pick1(s)] + sol(rest(s))[rest(s)]]
  <1>2. ASSUME NEW t \in SUBSET m, t # m PROVE Summing(v, t, sol(t)) /\ IsFiniteSet(t)
    <2>1. t \in SUBSET S /\ \E f : Summing(v, t, f)
      BY <1>1, <1>2
    <2> QED
      BY <2>1, FS_Subset
  <1> HIDE DEF sol
  <1>3. ASSUME NEW s \in SUBSET m, s # {}
        PROVE  rest(s) \in SUBSET s /\ rest(s) # s /\ rest(s) \in SUBSET m /\ rest(s) # m
    BY <1>3, Pick1In
  <1>4. ASSUME NEW t \in SUBSET m, t # m PROVE g[t] = sol(t)[t]
    <2>1. CASE t = {}
      <3>1. g[t] = 0
        BY <2>1
      <3>2. sol(t)[t] = 0
        BY <1>2, <1>4, <2>1 DEF Summing
      <3> QED
        BY <3>1, <3>2
    <2>2. CASE t # {}
      <3>1. g[t] = v[Pick1(t)] + sol(rest(t))[rest(t)]
        BY <2>2
      <3>2. sol(t)[t] = v[Pick1(t)] + sol(t)[rest(t)]
        BY <1>2, <1>4, <2>2 DEF Summing
      <3>3. sol(t)[rest(t)] = sol(rest(t))[rest(t)]
        <4>1. Summing(v, t, sol(t)) /\ Summing(v, rest(t), sol(rest(t))) /\ IsFiniteSet(rest(t))
          BY <1>2, <1>3, <1>4, <2>2
        <4>2. rest(t) \subseteq t
          OBVIOUS
        <4> HIDE DEF rest
        <4> QED
          BY <4>1, <4>2, SummingUnique
      <3> QED
        BY <3>1, <3>2, <3>3
    <2> QED
      BY <2>1, <2>2
  <1>5. Summing(v, m, g)
    <2>1. \A s \in SUBSET m : s # {} => g[rest(s)] = sol(rest(s))[rest(s)]
      BY <1>3, <1>4
    <2>2. \A s \in SUBSET m : g[s] = IF s = {} THEN 0 ELSE v[Pick1(s)] + g[rest(s)]
      BY <2>1
    <2>3. g = [s \in SUBSET m |-> g[s]]
      OBVIOUS
    <2> HIDE DEF g
    <2>4. g = [s \in SUBSET m |-> IF s = {} THEN 0 ELSE v[Pick1(s)] + g[rest(s)]]
      BY <2>2, <2>3
    <2> QED
      BY <2>4 DEF Summing
  <1> QED
    BY <1>1, <1>5

LEMMA WeightSumming ==
    ASSUME NEW v, NEW S, IsFiniteSet(S), NEW g, Summing(v, S, g), NEW T \in SUBSET S
    PROVE  Weight(v, T) = g[T]
  <1>1. IsFiniteSet(T)
    BY FS_Subset
  <1> DEFINE h == CHOOSE f : Summing(v, T, f)
  <1>2. Weight(v, T) = h[T]
    BY DEF Weight, MapThenSumSet, MapThenFoldSet, Summing, Pick1
  <1>3. Summing(v, T, h)
    BY <1>1, SummingExists
  <1> HIDE DEF h
  <1> QED
    BY <1>1, <1>2, <1>3, SummingUnique

LEMMA WeightRec ==
    ASSUME NEW v, NEW S, IsFiniteSet(S)
    PROVE  /\ Weight(v, {}) = 0
           /\ S # {} => Weight(v, S) = v[Pick1(S)] + Weight(v, S \ {Pick1(S)})
  <1>1. PICK g : Summing(v, S, g)
    BY SummingExists
  <1>2. \A T \in SUBSET S : Weight(v, T) = g[T]
    BY <1>1, WeightSumming
  <1> QED
    BY <1>1, <1>2 DEF Summing

LEMMA WeightNat ==
    ASSUME NEW v, NEW S, IsFiniteSet(S), \A x \in S : v[x] \in Nat
    PROVE  \A T \in SUBSET S : Weight(v, T) \in Nat
  <1> DEFINE C == {T \in SUBSET S : Weight(v, T) \notin Nat}
  <1> SUFFICES ASSUME C # {} PROVE FALSE
    OBVIOUS
  <1>1. PICK m \in C : \A t \in SUBSET m : t # m => t \notin C
    <2>1. C \in SUBSET SUBSET S
      OBVIOUS
    <2> HIDE DEF C
    <2> QED
      BY <2>1, Smallest
  <1>2. IsFiniteSet(m)
    BY FS_Subset
  <1>3. m # {}
    <2>1. Weight(v, {}) = 0
      BY <1>2, WeightRec
    <2>2. Weight(v, m) \notin Nat
      OBVIOUS
    <2> QED
      BY <2>1, <2>2
  <1>4. Pick1(m) \in m
    BY <1>3, Pick1In
  <1>5. Weight(v, m) = v[Pick1(m)] + Weight(v, m \ {Pick1(m)})
    BY <1>2, <1>3, WeightRec
  <1>6. Weight(v, m \ {Pick1(m)}) \in Nat
    BY <1>1, <1>4
  <1> QED
    BY <1>4, <1>5, <1>6

(* Any element can be taken out of the sum. *)
LEMMA WeightRemove ==
    ASSUME NEW v, NEW S, IsFiniteSet(S), \A x \in S : v[x] \in Nat, NEW x \in S
    PROVE  /\ Weight(v, S) \in Nat /\ Weight(v, S \ {x}) \in Nat
           /\ Weight(v, S) = v[x] + Weight(v, S \ {x})
  <1> DEFINE Splits(T, y) == Weight(v, T) = v[y] + Weight(v, T \ {y})
             C == {T \in SUBSET S : \E y \in T : ~Splits(T, y)}
  <1>1. \A T \in SUBSET S : Weight(v, T) \in Nat
    BY WeightNat
  <1>2. ASSUME C # {} PROVE FALSE
    <2>1. PICK m \in C : \A t \in SUBSET m : t # m => t \notin C
      <3>1. C \in SUBSET SUBSET S
        OBVIOUS
      <3> HIDE DEF C
      <3> QED
        BY <1>2, <3>1, Smallest
    <2>2. IsFiniteSet(m) /\ m \subseteq S
      BY FS_Subset
    <2>3. PICK y \in m : ~Splits(m, y)
      OBVIOUS
    <2> DEFINE c == Pick1(m)
    <2>4. c \in m /\ Splits(m, c)
      BY <2>2, <2>3, Pick1In, WeightRec
    <2> HIDE DEF c
    <2>5. y # c
      BY <2>3, <2>4
    <2>6. Splits(m \ {c}, y) /\ Splits(m \ {y}, c)
      BY <2>1, <2>4, <2>5
    <2>7. (m \ {c}) \ {y} = (m \ {y}) \ {c}
      OBVIOUS
    <2>8. /\ v[c] \in Nat /\ v[y] \in Nat
          /\ Weight(v, (m \ {c}) \ {y}) \in Nat
      BY <1>1, <2>2, <2>4
    <2>9. Splits(m, y)
      <3> DEFINE a == Weight(v, m \ {c})
                 b == Weight(v, m \ {y})
                 d == Weight(v, (m \ {c}) \ {y})
      <3>1. Weight(v, m) = v[c] + a
        BY <2>4
      <3>2. a = v[y] + d
        BY <2>6
      <3>3. b = v[c] + Weight(v, (m \ {y}) \ {c})
        BY <2>6
      <3>4. b = v[c] + d
        BY <3>3, <2>7
      <3>5. d \in Nat
        BY <2>8
      <3> HIDE DEF a, b, d
      <3>6. Weight(v, m) = v[y] + b
        BY <3>1, <3>2, <3>4, <3>5, <2>8
      <3> QED
        BY <3>6 DEF b
    <2> QED
      BY <2>3, <2>9
  <1>3. Splits(S, x)
    BY <1>2
  <1> QED
    BY <1>1, <1>3

(* The sum depends on the values at the elements only. *)
LEMMA WeightSame ==
    ASSUME NEW S, IsFiniteSet(S), NEW v, NEW w, \A x \in S : v[x] = w[x]
    PROVE  Weight(v, S) = Weight(w, S)
  <1> DEFINE C == {T \in SUBSET S : Weight(v, T) # Weight(w, T)}
  <1> SUFFICES ASSUME C # {} PROVE FALSE
    OBVIOUS
  <1>1. PICK m \in C : \A t \in SUBSET m : t # m => t \notin C
    <2>1. C \in SUBSET SUBSET S
      OBVIOUS
    <2> HIDE DEF C
    <2> QED
      BY <2>1, Smallest
  <1>2. IsFiniteSet(m)
    BY FS_Subset
  <1>3. m # {}
    BY <1>2, WeightRec
  <1>4. Pick1(m) \in m
    BY <1>3, Pick1In
  <1>5. /\ Weight(v, m) = v[Pick1(m)] + Weight(v, m \ {Pick1(m)})
        /\ Weight(w, m) = w[Pick1(m)] + Weight(w, m \ {Pick1(m)})
    BY <1>2, <1>3, WeightRec
  <1>6. Weight(v, m \ {Pick1(m)}) = Weight(w, m \ {Pick1(m)})
    BY <1>1, <1>4
  <1> QED
    BY <1>4, <1>5, <1>6

(* One element more adds its value. *)
LEMMA WeightAdd ==
    ASSUME NEW v, NEW S, IsFiniteSet(S), NEW x, x \notin S, \A y \in S \cup {x} : v[y] \in Nat
    PROVE  Weight(v, S \cup {x}) = v[x] + Weight(v, S) /\ Weight(v, S) \in Nat
  <1> DEFINE T == S \cup {x}
  <1>1. IsFiniteSet(T)
    BY FS_AddElement
  <1>2. x \in T
    OBVIOUS
  <1>3. \A y \in T : v[y] \in Nat
    OBVIOUS
  <1>4. T \ {x} = S
    OBVIOUS
  <1> HIDE DEF T
  <1>5. Weight(v, T) = v[x] + Weight(v, T \ {x}) /\ Weight(v, T \ {x}) \in Nat
    BY <1>1, <1>2, <1>3, WeightRemove
  <1> QED
    BY <1>4, <1>5 DEF T

(* Another value at one element changes the sum by the difference. *)
LEMMA WeightUpdate ==
    ASSUME NEW S, IsFiniteSet(S), NEW x \in S, NEW v, NEW w,
           \A y \in S : v[y] \in Nat, w[x] \in Nat, \A y \in S : y # x => w[y] = v[y]
    PROVE  /\ Weight(v, S) \in Nat /\ Weight(w, S) \in Nat
           /\ Weight(w, S) = Weight(v, S) - v[x] + w[x]
  <1>1. \A y \in S : w[y] \in Nat
    OBVIOUS
  <1>2. /\ Weight(v, S) \in Nat /\ Weight(v, S \ {x}) \in Nat
        /\ Weight(v, S) = v[x] + Weight(v, S \ {x})
    BY WeightRemove
  <1>3. Weight(w, S) \in Nat /\ Weight(w, S) = w[x] + Weight(w, S \ {x})
    BY <1>1, WeightRemove
  <1>4. Weight(v, S \ {x}) = Weight(w, S \ {x})
    <2>1. IsFiniteSet(S \ {x}) /\ \A y \in S \ {x} : v[y] = w[y]
      BY FS_Subset
    <2> QED
      BY <2>1, WeightSame
  <1>5. v[x] \in Nat
    OBVIOUS
  <1> QED
    BY <1>2, <1>3, <1>4, <1>5

(* A part weighs no more than the whole. *)
LEMMA WeightMono ==
    ASSUME NEW v, NEW T, IsFiniteSet(T), \A x \in T : v[x] \in Nat, NEW S \in SUBSET T
    PROVE  /\ Weight(v, S) \in Nat /\ Weight(v, T) \in Nat
           /\ Weight(v, S) <= Weight(v, T)
  <1>1. \A U \in SUBSET T : Weight(v, U) \in Nat
    BY WeightNat
  <1> DEFINE C == {U \in SUBSET T : S \subseteq U /\ ~(Weight(v, S) <= Weight(v, U))}
  <1>2. ASSUME C # {} PROVE FALSE
    <2>1. PICK m \in C : \A t \in SUBSET m : t # m => t \notin C
      <3>1. C \in SUBSET SUBSET T
        OBVIOUS
      <3> HIDE DEF C
      <3> QED
        BY <1>2, <3>1, Smallest
    <2>2. m \in SUBSET T /\ S \subseteq m /\ ~(Weight(v, S) <= Weight(v, m))
      OBVIOUS
    <2>3. m # S
      BY <1>1, <2>2
    <2>4. PICK x \in m : x \notin S
      BY <2>2, <2>3
    <2>5. /\ m \ {x} \in SUBSET m /\ m \ {x} # m /\ S \subseteq m \ {x}
          /\ m \ {x} \in SUBSET T
      BY <2>2, <2>4
    <2>6. Weight(v, S) <= Weight(v, m \ {x})
      BY <2>1, <2>5
    <2>7. IsFiniteSet(m) /\ \A y \in m : v[y] \in Nat
      BY <2>2, FS_Subset
    <2>8. Weight(v, m) = v[x] + Weight(v, m \ {x})
      BY <2>7, WeightRemove
    <2>9. Weight(v, S) \in Nat /\ Weight(v, m \ {x}) \in Nat /\ v[x] \in Nat
      BY <1>1, <2>5, <2>7
    <2> QED
      BY <2>2, <2>6, <2>8, <2>9
  <1>3. Weight(v, S) <= Weight(v, T)
    BY <1>2
  <1> QED
    BY <1>1, <1>3

(* A sum is at most the number of its elements times their bound. *)
LEMMA WeightBound ==
    ASSUME NEW v, NEW S, IsFiniteSet(S), NEW b \in Nat, \A x \in S : v[x] \in 0..b
    PROVE  /\ Weight(v, S) \in Nat /\ Cardinality(S) \in Nat
           /\ Weight(v, S) <= Cardinality(S) * b
  <1>1. \A U \in SUBSET S : Weight(v, U) \in Nat /\ IsFiniteSet(U) /\ Cardinality(U) \in Nat
    <2>1. \A x \in S : v[x] \in Nat
      OBVIOUS
    <2> QED
      BY <2>1, WeightNat, FS_Subset, FS_CardinalityType
  <1> DEFINE C == {U \in SUBSET S : ~(Weight(v, U) <= Cardinality(U) * b)}
  <1>2. ASSUME C # {} PROVE FALSE
    <2>1. PICK m \in C : \A t \in SUBSET m : t # m => t \notin C
      <3>1. C \in SUBSET SUBSET S
        OBVIOUS
      <3> HIDE DEF C
      <3> QED
        BY <1>2, <3>1, Smallest
    <2>2. m \in SUBSET S /\ ~(Weight(v, m) <= Cardinality(m) * b)
      OBVIOUS
    <2>3. m # {}
      <3>1. Weight(v, {}) = 0
        BY WeightRec
      <3>2. Cardinality({}) * b = 0
        BY FS_EmptySet
      <3>3. Weight(v, {}) <= Cardinality({}) * b
        BY <3>1, <3>2
      <3> QED
        BY <2>2, <3>3
    <2>4. PICK x \in m : TRUE
      BY <2>3
    <2> DEFINE r == m \ {x}
    <2>5. r \in SUBSET m /\ r # m /\ r \in SUBSET S
      BY <2>2, <2>4
    <2>6. Weight(v, r) <= Cardinality(r) * b
      BY <2>1, <2>5
    <2>7. IsFiniteSet(m) /\ \A y \in m : v[y] \in Nat
      BY <2>2, FS_Subset
    <2>8. Weight(v, m) = v[x] + Weight(v, r)
      BY <2>7, WeightRemove
    <2>9. Cardinality(r) = Cardinality(m) - 1
      BY <2>7, FS_RemoveElement
    <2>10. v[x] \in 0..b /\ Weight(v, r) \in Nat /\ Cardinality(r) \in Nat /\ Cardinality(m) \in Nat
      BY <1>1, <2>2, <2>5
    <2> HIDE DEF r
    <2>11. Cardinality(m) * b = Cardinality(r) * b + b
      BY <2>9, <2>10
    <2>12. Cardinality(r) * b \in Nat
      BY <2>10
    <2> QED
      BY <2>2, <2>6, <2>8, <2>10, <2>11, <2>12
  <1>3. Weight(v, S) <= Cardinality(S) * b
    BY <1>2
  <1> QED
    BY <1>1, <1>3

(* Two sums over the same set add up. *)
LEMMA WeightPlus ==
    ASSUME NEW S, IsFiniteSet(S), NEW u, NEW v, NEW w,
           \A x \in S : u[x] \in Nat /\ v[x] \in Nat /\ w[x] = u[x] + v[x]
    PROVE  Weight(w, S) = Weight(u, S) + Weight(v, S)
  <1>1. \A T \in SUBSET S : Weight(u, T) \in Nat /\ Weight(v, T) \in Nat
    BY WeightNat
  <1> DEFINE C == {T \in SUBSET S : Weight(w, T) # Weight(u, T) + Weight(v, T)}
  <1>2. ASSUME C # {} PROVE FALSE
    <2>1. PICK m \in C : \A t \in SUBSET m : t # m => t \notin C
      <3>1. C \in SUBSET SUBSET S
        OBVIOUS
      <3> HIDE DEF C
      <3> QED
        BY <1>2, <3>1, Smallest
    <2>2. m \in SUBSET S /\ Weight(w, m) # Weight(u, m) + Weight(v, m)
      OBVIOUS
    <2>3. IsFiniteSet(m)
      BY <2>2, FS_Subset
    <2>4. m # {}
      <3> SUFFICES ASSUME m = {} PROVE FALSE
        OBVIOUS
      <3>1. Weight(u, m) = 0
        BY <2>3, WeightRec
      <3>2. Weight(v, m) = 0
        BY <2>3, WeightRec
      <3>3. Weight(w, m) = 0
        BY <2>3, WeightRec
      <3> QED
        BY <2>2, <3>1, <3>2, <3>3
    <2> DEFINE x == Pick1(m)
               r == m \ {x}
    <2>5. x \in m
      BY <2>4, Pick1In
    <2>6. Weight(u, m) = u[x] + Weight(u, r)
      BY <2>3, <2>4, WeightRec
    <2>7. Weight(v, m) = v[x] + Weight(v, r)
      BY <2>3, <2>4, WeightRec
    <2>8. Weight(w, m) = w[x] + Weight(w, r)
      BY <2>3, <2>4, WeightRec
    <2>9. r \in SUBSET m /\ r # m /\ r \in SUBSET S
      BY <2>2, <2>5
    <2>10. Weight(w, r) = Weight(u, r) + Weight(v, r)
      BY <2>1, <2>9
    <2>11. Weight(u, r) \in Nat /\ Weight(v, r) \in Nat
      BY <1>1, <2>9
    <2>12. u[x] \in Nat /\ v[x] \in Nat /\ w[x] = u[x] + v[x]
      BY <2>2, <2>5
    <2> HIDE DEF x, r
    <2> QED
      BY <2>2, <2>6, <2>7, <2>8, <2>10, <2>11, <2>12
  <1> QED
    BY <1>2

(* A with the elements f names at the members of T. *)
Joined(A, f, T) == A \cup {f[t] : t \in T}

(* f names elements of X at the members T of S, and g is what they weigh.  *)
Naming(X, v, A, S, T, f, g) ==
    /\ IsFiniteSet(X) /\ (\A x \in X : v[x] \in Nat) /\ A \in SUBSET X
    /\ IsFiniteSet(S) /\ T \in SUBSET S /\ \A t \in T : f[t] \in X
    /\ \A t \in S : g[t] = IF t \in T THEN v[f[t]] ELSE 0

(* Nothing named is in A, or named twice. *)
NewNames(A, T, f) == \A t \in T : f[t] \notin A /\ \A u \in T : f[u] = f[t] => u = t

(* The elements that f names at the members T of S weigh no more than the  *)
(* values of those members together, and as much when f names new elements *)
(* only and each of them once.                                             *)
LEMMA WeightOfUnion ==
    ASSUME NEW X, NEW v, NEW A, NEW S, NEW T, NEW f, NEW g, Naming(X, v, A, S, T, f, g)
    PROVE  /\ Weight(v, A) \in Nat /\ Weight(g, S) \in Nat
           /\ Joined(A, f, T) \in SUBSET X
           /\ Weight(v, Joined(A, f, T)) <= Weight(v, A) + Weight(g, S)
           /\ NewNames(A, T, f) => Weight(v, Joined(A, f, T)) = Weight(v, A) + Weight(g, S)
  <1>0. /\ IsFiniteSet(X) /\ (\A x \in X : v[x] \in Nat) /\ A \in SUBSET X
        /\ IsFiniteSet(S) /\ T \in SUBSET S /\ (\A t \in T : f[t] \in X)
        /\ \A t \in S : g[t] = IF t \in T THEN v[f[t]] ELSE 0
    BY DEF Naming
  <1> USE <1>0
  <1> DEFINE Image(U) == A \cup {f[t] : t \in {u \in U : u \in T}}
             New      == \A t \in T : f[t] \notin A /\ \A u \in T : f[u] = f[t] => u = t
             Fine(U)  == /\ Weight(v, Image(U)) <= Weight(v, A) + Weight(g, U)
                         /\ New => Weight(v, Image(U)) = Weight(v, A) + Weight(g, U)
             C        == {U \in SUBSET S : ~Fine(U)}
  <1>1. \A t \in S : g[t] \in Nat
    OBVIOUS
  <1>2. \A U \in SUBSET S : Weight(g, U) \in Nat /\ Image(U) \in SUBSET X
    <2>1. \A U \in SUBSET S : Weight(g, U) \in Nat
      BY <1>1, WeightNat
    <2> QED
      BY <2>1
  <1>3. \A Y \in SUBSET X : Weight(v, Y) \in Nat /\ IsFiniteSet(Y)
    BY WeightNat, FS_Subset
  <1>4. ASSUME C # {} PROVE FALSE
    <2>1. PICK m \in C : \A U \in SUBSET m : U # m => U \notin C
      <3>1. C \in SUBSET SUBSET S
        OBVIOUS
      <3> HIDE DEF C
      <3> QED
        BY <1>4, <3>1, Smallest
    <2>2. m \in SUBSET S /\ ~Fine(m)
      OBVIOUS
    <2>3. m # {}
      <3>1. Image({}) = A
        OBVIOUS
      <3>2. Weight(g, {}) = 0
        BY WeightRec
      <3>3. Weight(v, A) \in Nat
        BY <1>3
      <3> HIDE DEF Image
      <3>4. Fine({})
        BY <3>1, <3>2, <3>3
      <3> HIDE DEF Fine
      <3> QED
        BY <2>2, <3>4
    <2>4. PICK t \in m : TRUE
      BY <2>3
    <2> DEFINE r == m \ {t}
    <2>5. r \in SUBSET m /\ r # m /\ r \in SUBSET S
      BY <2>2, <2>4
    <2>6. Fine(r)
      <3> HIDE DEF Fine
      <3> QED
        BY <2>1, <2>5
    <2>7. Weight(g, m) = g[t] + Weight(g, r) /\ Weight(g, r) \in Nat /\ g[t] \in Nat
      <3>1. IsFiniteSet(m) /\ \A x \in m : g[x] \in Nat
        BY <1>1, <2>2, FS_Subset
      <3> QED
        BY <3>1, WeightRemove
    <2>8. /\ Weight(v, Image(r)) \in Nat /\ Weight(v, A) \in Nat /\ IsFiniteSet(Image(r))
          /\ Image(r) \in SUBSET X
      BY <1>2, <1>3, <2>5
    <2>9. CASE t \notin T
      <3>1. Image(m) = Image(r)
        BY <2>9
      <3>2. g[t] = 0
        BY <2>2, <2>9
      <3> HIDE DEF Image, r
      <3>3. Fine(m)
        BY <2>6, <2>7, <3>1, <3>2
      <3> QED
        BY <2>2, <3>3
    <2>10. CASE t \in T
      <3>1. Image(m) = Image(r) \cup {f[t]}
        BY <2>10
      <3>2. g[t] = v[f[t]] /\ f[t] \in X
        BY <2>2, <2>10
      <3>3. CASE f[t] \in Image(r)
        <4>1. Image(m) = Image(r)
          BY <3>1, <3>3
        <4>2. ~New
          <5> SUFFICES ASSUME New PROVE FALSE
            OBVIOUS
          <5>1. f[t] \notin A
            BY <2>10
          <5>2. PICK u \in r : u \in T /\ f[u] = f[t]
            BY <3>3, <5>1
          <5> QED
            BY <2>10, <5>2
        <4> HIDE DEF Image, r, New
        <4>3. Fine(m)
          BY <2>6, <2>7, <2>8, <4>1, <4>2
        <4> QED
          BY <2>2, <4>3
      <3>4. CASE f[t] \notin Image(r)
        <4>1. \A y \in Image(r) \cup {f[t]} : v[y] \in Nat
          BY <2>8, <3>2
        <4> HIDE DEF Image, r, New
        <4>2. Weight(v, Image(m)) = v[f[t]] + Weight(v, Image(r))
          BY <2>8, <3>1, <3>4, <4>1, WeightAdd
        <4>3. Fine(m)
          BY <2>6, <2>7, <2>8, <3>2, <4>2
        <4> QED
          BY <2>2, <4>3
      <3> QED
        BY <3>3, <3>4
    <2> QED
      BY <2>9, <2>10
  <1>5. Fine(S)
    <2>1. S \in SUBSET S /\ S \notin C
      BY <1>4
    <2> HIDE DEF Fine
    <2> QED
      BY <2>1
  <1>6. Image(S) = Joined(A, f, T)
    BY DEF Joined
  <1>7. Weight(v, A) \in Nat /\ Weight(g, S) \in Nat /\ Joined(A, f, T) \in SUBSET X
    BY <1>2, <1>3, <1>6
  <1> QED
    BY <1>5, <1>6, <1>7 DEF NewNames
=============================================================================
