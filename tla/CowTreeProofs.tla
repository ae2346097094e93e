---------------------------- MODULE CowTreeProofs ----------------------------
(***************************************************************************)
(* That a copy-on-write tree is a map: what has been inserted under a key  *)
(* is found under it, and nothing else, however leaves have been split.    *)
(***************************************************************************)
EXTENDS CowTree, FiniteSetTheorems, WellFoundedInduction, TLAPS

(* Dictionaries of leaves, and trees, with values in V.                    *)
Keys     == {K \in SUBSET Nat : K # {} /\ IsFiniteSet(K)}
Dicts(V) == UNION {[K -> V] : K \in Keys}

Leaves(V) == [first : Nat, last : Nat, stored : Dicts(V), cached : Dicts(V)]

IsTree(tree, V) ==
  /\ tree \in Seq(Leaves(V))
  /\ \A i \in DOMAIN tree : DOMAIN tree[i].stored \subseteq DOMAIN tree[i].cached
  /\ LeavesAreOrdered(tree)

(* The tree has, in the cache or in the store, the value v for a key.      *)
Has(tree, key, v) ==
  \E i \in DOMAIN tree :
    \/ key \in DOMAIN tree[i].cached /\ tree[i].cached[key] = v
    \/ key \in DOMAIN tree[i].stored /\ tree[i].stored[key] = v

-----------------------------------------------------------------------------
(* The first and the last key of a leaf                                    *)

LEMMA Least ==
  ASSUME NEW S \in SUBSET Nat, S # {}
  PROVE  \E m \in S : \A k \in S : m <= k
<1>1. PICK m \in S : \A k \in S : ~(<<k, m>> \in OpToRel(<, Nat))
  BY NatLessThanWellFounded, WFMin
<1>2. \A k \in S : ~(k < m)
  BY <1>1, Zenon DEF OpToRel
<1>. QED
  BY <1>2

LEMMA Greatest ==
  ASSUME NEW S \in SUBSET Nat, S # {}, IsFiniteSet(S)
  PROVE  \E m \in S : \A k \in S : k <= m
<1> DEFINE HasLast(T) == \E m \in T : \A k \in T : k <= m
           Bad == {n \in Nat : \E T \in SUBSET S : T # {} /\ Cardinality(T) = n /\ ~HasLast(T)}
<1>1. \A T \in SUBSET S : IsFiniteSet(T) /\ Cardinality(T) \in Nat
  BY FS_Subset, FS_CardinalityType
<1>2. ASSUME Bad # {} PROVE FALSE
  <2>1. PICK n \in Bad : \A k \in Bad : n <= k
    BY <1>2, Least
  <2>2. PICK T \in SUBSET S : T # {} /\ Cardinality(T) = n /\ ~HasLast(T)
    BY <2>1
  <2>3. PICK x \in T : TRUE
    BY <2>2
  <2>4. IsFiniteSet(T \ {x}) /\ Cardinality(T \ {x}) = n - 1
    BY <1>1, <2>2, <2>3, FS_RemoveElement
  <2>5. T \ {x} # {}
    BY <2>2, <2>3
  <2>6. n - 1 \notin Bad
    BY <2>1
  <2>7. HasLast(T \ {x})
    BY <1>1, <2>4, <2>5, <2>6
  <2>8. PICK m \in T \ {x} : \A k \in T \ {x} : k <= m
    BY <2>7
  <2>9. CASE x <= m
    BY <2>2, <2>8, <2>9
  <2>10. CASE ~(x <= m)
    <3>1. x \in Nat /\ m \in Nat
      BY <2>3, <2>8
    <3>2. \A k \in T : k \in Nat /\ k <= x
      BY <2>8, <2>10, <3>1
    <3>. QED
      BY <2>2, <2>3, <3>2
  <2>. QED
    BY <2>9, <2>10
<1>. QED
  BY <1>1, <1>2

LEMMA FirstIs ==
  ASSUME NEW V, NEW d \in Dicts(V)
  PROVE  FirstKey(d) \in DOMAIN d /\ \A k \in DOMAIN d : FirstKey(d) <= k
<1>1. DOMAIN d \in SUBSET Nat /\ DOMAIN d # {}
  BY DEF Dicts, Keys
<1>2. \E m \in DOMAIN d : \A k \in DOMAIN d : m <= k
  BY <1>1, Least
<1>. QED
  BY <1>2 DEF FirstKey

LEMMA LastIs ==
  ASSUME NEW V, NEW d \in Dicts(V)
  PROVE  LastKey(d) \in DOMAIN d /\ \A k \in DOMAIN d : k <= LastKey(d)
<1>1. DOMAIN d \in SUBSET Nat /\ DOMAIN d # {} /\ IsFiniteSet(DOMAIN d)
  BY DEF Dicts, Keys
<1>2. \E m \in DOMAIN d : \A k \in DOMAIN d : k <= m
  BY <1>1, Greatest
<1>. QED
  BY <1>2 DEF LastKey

LEMMA DictIs ==
  ASSUME NEW V, NEW d \in Dicts(V)
  PROVE  /\ DOMAIN d \in Keys /\ DOMAIN d \in SUBSET Nat /\ IsFiniteSet(DOMAIN d)
         /\ Cardinality(DOMAIN d) \in Nat
         /\ \A k \in DOMAIN d : d[k] \in V
<1>1. DOMAIN d \in Keys /\ \A k \in DOMAIN d : d[k] \in V
  BY DEF Dicts
<1>. QED
  BY <1>1, FS_CardinalityType DEF Keys

LEMMA PutIs ==
  ASSUME NEW V, NEW d \in Dicts(V)
  PROVE  /\ put_leaf(d) \in Leaves(V)
         /\ put_leaf(d).stored = d /\ put_leaf(d).cached = d
         /\ put_leaf(d).first \in DOMAIN d /\ put_leaf(d).last \in DOMAIN d
         /\ \A k \in DOMAIN d : k \in put_leaf(d).first .. put_leaf(d).last
<1>1. FirstKey(d) \in DOMAIN d /\ LastKey(d) \in DOMAIN d /\ DOMAIN d \in SUBSET Nat
  BY FirstIs, LastIs, DictIs
<1>. QED
  BY <1>1, FirstIs, LastIs DEF put_leaf, Leaves

-----------------------------------------------------------------------------
(* Finding a leaf and a key                                                *)

LEMMA TreeIs ==
  ASSUME NEW V, NEW tree, IsTree(tree, V)
  PROVE  /\ tree \in Seq(Leaves(V)) /\ Len(tree) \in Nat /\ DOMAIN tree = 1 .. Len(tree)
         /\ \A i \in 1 .. Len(tree) :
              /\ tree[i] \in Leaves(V) /\ tree[i].first \in Nat /\ tree[i].last \in Nat
              /\ tree[i].cached \in Dicts(V) /\ tree[i].stored \in Dicts(V)
              /\ DOMAIN tree[i].stored \subseteq DOMAIN tree[i].cached
              /\ tree[i].first <= tree[i].last
              /\ \A k \in DOMAIN tree[i].cached : k \in Nat /\ tree[i].first <= k /\ k <= tree[i].last
         /\ \A i, j \in 1 .. Len(tree) : i < j => tree[i].last < tree[j].first
<1>1. tree \in Seq(Leaves(V)) /\ Len(tree) \in Nat /\ DOMAIN tree = 1 .. Len(tree)
  BY DEF IsTree
<1>2. ASSUME NEW i \in 1 .. Len(tree)
      PROVE  /\ tree[i] \in Leaves(V) /\ tree[i].first \in Nat /\ tree[i].last \in Nat
             /\ tree[i].cached \in Dicts(V) /\ tree[i].stored \in Dicts(V)
  <2>1. tree[i] \in Leaves(V)
    BY <1>1, <1>2
  <2>. QED
    BY <2>1 DEF Leaves
<1>3. ASSUME NEW i \in 1 .. Len(tree)
      PROVE  /\ DOMAIN tree[i].stored \subseteq DOMAIN tree[i].cached
             /\ tree[i].first <= tree[i].last
             /\ \A k \in DOMAIN tree[i].cached : k \in tree[i].first .. tree[i].last
  BY <1>1, <1>3 DEF IsTree, LeavesAreOrdered
<1>4. \A i, j \in 1 .. Len(tree) : i < j => tree[i].last < tree[j].first
  BY <1>1 DEF IsTree, LeavesAreOrdered
<1>5. \A i \in 1 .. Len(tree) : \A k \in DOMAIN tree[i].cached :
        k \in Nat /\ tree[i].first <= k /\ k <= tree[i].last
  BY <1>2, <1>3
<1>. QED
  BY <1>1, <1>2, <1>3, <1>4, <1>5

(* The leaf a key belongs to is the only one that can have it.             *)
LEMMA FindIs ==
  ASSUME NEW V, NEW tree, IsTree(tree, V), tree # EmptyTree, NEW key \in Nat
  PROVE  LET i == find_leaf_for_key(tree, key)
         IN  /\ i \in 1 .. Len(tree)
             /\ key <= tree[i].last \/ i = Len(tree)
             /\ \A j \in 1 .. Len(tree) : j < i => tree[j].last < key
<1> DEFINE n == Len(tree)
           i == find_leaf_for_key(tree, key)
<1>1. n \in Nat /\ n # 0 /\ DOMAIN tree = 1 .. n
  BY TreeIs DEF EmptyTree
<1>2. \A j \in 1 .. n : tree[j].first \in Nat /\ tree[j].last \in Nat /\ tree[j].first <= tree[j].last
  BY TreeIs
<1>3. CASE key >= tree[n].last
  <2>1. i = n
    BY <1>3 DEF find_leaf_for_key
  <2>2. \A j \in 1 .. n : j < n => tree[j].last < tree[n].first
    BY <1>1, TreeIs
  <2>. QED
    BY <1>1, <1>2, <1>3, <2>1, <2>2
<1>4. CASE ~(key >= tree[n].last)
  <2> DEFINE S == {j \in 1 .. n : key <= tree[j].last}
             Fits(j) == tree[j].last >= key /\ \A l \in 1 .. (j - 1) : tree[l].last < key
  <2>1. n \in S /\ S \in SUBSET Nat
    BY <1>1, <1>2, <1>4
  <2>2. PICK m \in S : \A j \in S : m <= j
    BY <2>1, Least
  <2>3. m \in 1 .. n /\ Fits(m)
    BY <1>1, <1>2, <2>2
  <2>4. i = CHOOSE j \in DOMAIN tree : Fits(j)
    BY <1>4 DEF find_leaf_for_key
  <2>5. i \in 1 .. n /\ Fits(i)
    BY <1>1, <2>3, <2>4
  <2>. QED
    BY <1>1, <1>2, <2>5
<1>. QED
  BY <1>3, <1>4

(* What lookup returns.                                                    *)
LEMMA LookupFinds ==
  ASSUME NEW V, NEW tree, IsTree(tree, V), NEW i \in 1 .. Len(tree),
         NEW key \in DOMAIN tree[i].cached, NEW none
  PROVE  lookup(tree, key, none) = tree[i].cached[key]
<1> DEFINE f == find_leaf_for_key(tree, key)
<1>1. tree # EmptyTree /\ Len(tree) \in Nat
  BY TreeIs DEF EmptyTree
<1>2. key \in Nat /\ tree[i].first <= key /\ key <= tree[i].last
  BY TreeIs
<1>3. /\ f \in 1 .. Len(tree)
      /\ key <= tree[f].last \/ f = Len(tree)
      /\ \A j \in 1 .. Len(tree) : j < f => tree[j].last < key
  BY <1>1, <1>2, FindIs
<1>4. tree[i].first \in Nat /\ tree[i].last \in Nat /\ tree[f].last \in Nat
  BY <1>3, TreeIs
<1>5. f = i
  <2>1. ~(i < f)
    BY <1>2, <1>3, <1>4
  <2>2. ~(f < i)
    <3>1. f < i => tree[f].last < tree[i].first /\ f # Len(tree)
      BY <1>1, <1>3, TreeIs
    <3>. QED
      BY <1>2, <1>3, <1>4, <3>1
  <2>. QED
    BY <1>1, <1>3, <2>1, <2>2
<1>. QED
  BY <1>1, <1>5 DEF lookup

LEMMA LookupMisses ==
  ASSUME NEW V, NEW tree, IsTree(tree, V), NEW key \in Nat, NEW none,
         \A i \in 1 .. Len(tree) : key \notin DOMAIN tree[i].cached
  PROVE  lookup(tree, key, none) = none
  BY FindIs DEF lookup

LEMMA LookupHas ==
  ASSUME NEW V, NEW tree, IsTree(tree, V), NEW key \in Nat, NEW none
  PROVE  lookup(tree, key, none) = none \/ Has(tree, key, lookup(tree, key, none))
<1>1. CASE \E i \in 1 .. Len(tree) : key \in DOMAIN tree[i].cached
  BY <1>1, LookupFinds, TreeIs DEF Has
<1>2. CASE \A i \in 1 .. Len(tree) : key \notin DOMAIN tree[i].cached
  BY <1>2, LookupMisses
<1>. QED
  BY <1>1, <1>2

-----------------------------------------------------------------------------
(* Splitting a leaf                                                        *)

Smaller(d, k) == {j \in DOMAIN d : j < k}

LEMMA RestrictedIs ==
  ASSUME NEW V, NEW d \in Dicts(V), NEW K \in SUBSET DOMAIN d, K # {}
  PROVE  /\ Restricted(d, K) \in Dicts(V) /\ DOMAIN Restricted(d, K) = K
         /\ \A k \in K : Restricted(d, K)[k] = d[k]
<1>1. K \in Keys
  BY DictIs, FS_Subset DEF Keys
<1>2. Restricted(d, K) \in [K -> V]
  BY DictIs DEF Restricted
<1>. QED
  BY <1>1, <1>2 DEF Dicts, Restricted

(* The keys are shared out: each of the two leaves gets some, and those of *)
(* the first are smaller.                                                  *)
LEMMA SharesAre ==
  ASSUME NEW V, NEW d \in Dicts(V), Cardinality(DOMAIN d) >= 2
  PROVE  LET lower == {k \in DOMAIN d : Cardinality(Smaller(d, k)) < Cardinality(DOMAIN d) \div 2}
         IN  /\ lower # {} /\ DOMAIN d \ lower # {}
             /\ \A k \in lower, l \in DOMAIN d \ lower : k < l
<1> DEFINE c == Cardinality(DOMAIN d)
           lower == {k \in DOMAIN d : Cardinality(Smaller(d, k)) < c \div 2}
<1>1. c \in Nat /\ c >= 2 /\ DOMAIN d \in SUBSET Nat /\ IsFiniteSet(DOMAIN d)
  BY DictIs
<1>2. c \div 2 \in Nat /\ 1 <= c \div 2 /\ c \div 2 <= c - 1
  BY <1>1
<1>3. \A k \in DOMAIN d : IsFiniteSet(Smaller(d, k)) /\ Cardinality(Smaller(d, k)) \in Nat
  BY <1>1, FS_Subset, FS_CardinalityType DEF Smaller
<1>4. lower # {}
  <2>1. FirstKey(d) \in DOMAIN d /\ Smaller(d, FirstKey(d)) = {}
    BY <1>1, FirstIs DEF Smaller
  <2>2. Cardinality(Smaller(d, FirstKey(d))) = 0
    BY <2>1, FS_EmptySet
  <2>. QED
    BY <1>2, <2>1, <2>2
<1>5. DOMAIN d \ lower # {}
  <2>1. LastKey(d) \in DOMAIN d /\ Smaller(d, LastKey(d)) = DOMAIN d \ {LastKey(d)}
    BY <1>1, LastIs DEF Smaller
  <2>2. Cardinality(Smaller(d, LastKey(d))) = c - 1
    BY <1>1, <2>1, FS_RemoveElement
  <2>3. ~(c - 1 < c \div 2)
    BY <1>1, <1>2
  <2>4. LastKey(d) \notin lower
    BY <2>2, <2>3
  <2>. QED
    BY <2>1, <2>4
<1>6. ASSUME NEW k \in lower, NEW l \in DOMAIN d \ lower PROVE k < l
  <2>1. CASE l <= k
    <3>1. Smaller(d, l) \subseteq Smaller(d, k)
      BY <1>1, <1>6, <2>1 DEF Smaller
    <3>2. Cardinality(Smaller(d, l)) <= Cardinality(Smaller(d, k))
      BY <1>3, <1>6, <3>1, FS_Subset
    <3>. QED
      BY <1>1, <1>2, <1>3, <1>6, <3>2
  <2>. QED
    BY <1>1, <1>6, <2>1
<1>. QED
  BY <1>4, <1>5, <1>6

(* Two leaves with the keys of d, those of the first below the others.     *)
Halves(a, b, d) ==
  /\ a.stored = a.cached /\ b.stored = b.cached
  /\ DOMAIN a.cached \cup DOMAIN b.cached = DOMAIN d
  /\ \A k \in DOMAIN a.cached : a.cached[k] = d[k] /\ k \in a.first .. a.last
  /\ \A k \in DOMAIN b.cached : b.cached[k] = d[k] /\ k \in b.first .. b.last
  /\ a.first \in DOMAIN d /\ b.last \in DOMAIN d
  /\ a.first <= a.last /\ a.last < b.first /\ b.first <= b.last

(* What the two leaves are.                                                *)
LEMMA SplitIs ==
  ASSUME NEW V, NEW d \in Dicts(V), Cardinality(DOMAIN d) >= 2
  PROVE  \E a, b \in Leaves(V) : split_leaf(d) = << a, b >> /\ Halves(a, b, d)
<1> DEFINE lower == {k \in DOMAIN d : Cardinality(Smaller(d, k)) < Cardinality(DOMAIN d) \div 2}
           upper == DOMAIN d \ lower
           a == put_leaf(Restricted(d, lower))
           b == put_leaf(Restricted(d, upper))
<1>1. lower # {} /\ upper # {} /\ \A k \in lower, l \in upper : k < l
  BY SharesAre
<1>2. split_leaf(d) = << a, b >>
  BY DEF split_leaf, Smaller
<1>3. lower \in SUBSET DOMAIN d /\ upper \in SUBSET DOMAIN d /\ lower \cup upper = DOMAIN d
  OBVIOUS
<1> HIDE DEF lower, upper
<1>4. /\ Restricted(d, lower) \in Dicts(V) /\ DOMAIN Restricted(d, lower) = lower
      /\ \A k \in lower : Restricted(d, lower)[k] = d[k]
  BY <1>1, <1>3, RestrictedIs
<1>5. /\ Restricted(d, upper) \in Dicts(V) /\ DOMAIN Restricted(d, upper) = upper
      /\ \A k \in upper : Restricted(d, upper)[k] = d[k]
  BY <1>1, <1>3, RestrictedIs
<1>6. /\ a \in Leaves(V) /\ a.stored = a.cached /\ DOMAIN a.cached = lower
      /\ a.first \in lower /\ a.last \in lower
      /\ \A k \in lower : a.cached[k] = d[k] /\ k \in a.first .. a.last
  BY <1>4, PutIs
<1>7. /\ b \in Leaves(V) /\ b.stored = b.cached /\ DOMAIN b.cached = upper
      /\ b.first \in upper /\ b.last \in upper
      /\ \A k \in upper : b.cached[k] = d[k] /\ k \in b.first .. b.last
  BY <1>5, PutIs
<1> HIDE DEF a, b
<1>8. a.first <= a.last /\ a.last < b.first /\ b.first <= b.last
  <2>1. DOMAIN d \in SUBSET Nat
    BY DictIs
  <2>2. a.last \in a.first .. a.last /\ b.first \in b.first .. b.last
    BY <1>6, <1>7
  <2>. QED
    BY <1>1, <1>3, <1>6, <1>7, <2>1, <2>2
<1>9. Halves(a, b, d)
  BY <1>3, <1>6, <1>7, <1>8 DEF Halves
<1>. QED
  BY <1>2, <1>6, <1>7, <1>9

LEMMA ConcatIs ==
  ASSUME NEW S, NEW s \in Seq(S), NEW t \in Seq(S)
  PROVE  /\ s \o t \in Seq(S) /\ Len(s \o t) = Len(s) + Len(t)
         /\ \A j \in 1 .. (Len(s) + Len(t)) :
              (s \o t)[j] = IF j <= Len(s) THEN s[j] ELSE t[j - Len(s)]
  OBVIOUS

(* Two leaves in the place of one.                                         *)
Spliced(t, s, i, a, b) ==
  /\ Len(t) = Len(s) + 1
  /\ \A j \in 1 .. Len(t) : j < i => t[j] = s[j]
  /\ t[i] = a /\ t[i + 1] = b
  /\ \A j \in 1 .. Len(t) : j > i + 1 => t[j] = s[j - 1]

LEMMA SpliceIs ==
  ASSUME NEW S, NEW s \in Seq(S), NEW i \in 1 .. Len(s), NEW a \in S, NEW b \in S
  PROVE  LET t == SubSeq(s, 1, i - 1) \o << a, b >> \o SubSeq(s, i + 1, Len(s))
         IN  t \in Seq(S) /\ Spliced(t, s, i, a, b)
<1>1. SubSeq(s, 1, i - 1) \in Seq(S) /\ Len(SubSeq(s, 1, i - 1)) = i - 1
  OBVIOUS
<1>2. SubSeq(s, i + 1, Len(s)) \in Seq(S) /\ Len(SubSeq(s, i + 1, Len(s))) = Len(s) - i
  OBVIOUS
<1>3. \A j \in 1 .. (i - 1) : SubSeq(s, 1, i - 1)[j] = s[j]
  OBVIOUS
<1>4. \A j \in 1 .. (Len(s) - i) : SubSeq(s, i + 1, Len(s))[j] = s[i + j]
  OBVIOUS
<1> DEFINE l == SubSeq(s, 1, i - 1)
           r == SubSeq(s, i + 1, Len(s))
<1> HIDE DEF l, r
<1>5. l \o << a, b >> \in Seq(S) /\ Len(l \o << a, b >>) = i + 1
  BY <1>1 DEF l
<1>6. \A j \in 1 .. (i + 1) : (l \o << a, b >>)[j] = IF j < i THEN s[j] ELSE IF j = i THEN a ELSE b
  BY <1>1, <1>3 DEF l
<1> DEFINE m == l \o << a, b >>
<1> HIDE DEF m
<1>7. /\ m \in Seq(S) /\ Len(m) = i + 1 /\ r \in Seq(S) /\ Len(r) = Len(s) - i
      /\ \A j \in 1 .. (Len(s) - i) : r[j] = s[i + j]
  BY <1>2, <1>4, <1>5 DEF m, r
<1>8. (i + 1) + (Len(s) - i) = Len(s) + 1
  OBVIOUS
<1>9. /\ m \o r \in Seq(S) /\ Len(m \o r) = Len(s) + 1
      /\ \A j \in 1 .. (Len(s) + 1) : (m \o r)[j] = IF j <= i + 1 THEN m[j] ELSE r[j - (i + 1)]
  <2>1. /\ m \o r \in Seq(S) /\ Len(m \o r) = Len(m) + Len(r)
        /\ \A j \in 1 .. (Len(m) + Len(r)) : (m \o r)[j] = IF j <= Len(m) THEN m[j] ELSE r[j - Len(m)]
    BY <1>7, ConcatIs
  <2>. QED
    BY <1>7, <1>8, <2>1
<1>10. \A j \in 1 .. (Len(s) + 1) :
         (m \o r)[j] = IF j < i THEN s[j] ELSE IF j = i THEN a ELSE IF j = i + 1 THEN b ELSE s[j - 1]
  <2>1. \A j \in (i + 2) .. (Len(s) + 1) : r[j - (i + 1)] = s[j - 1]
    BY <1>7
  <2>2. \A j \in 1 .. (i + 1) : m[j] = IF j < i THEN s[j] ELSE IF j = i THEN a ELSE b
    BY <1>6 DEF m
  <2>3. ASSUME NEW j \in 1 .. (Len(s) + 1)
        PROVE  (m \o r)[j] = IF j < i THEN s[j] ELSE IF j = i THEN a ELSE IF j = i + 1 THEN b ELSE s[j - 1]
    <3>1. CASE j <= i + 1
      BY <1>9, <2>2, <3>1
    <3>2. CASE ~(j <= i + 1)
      <4>1. j \in (i + 2) .. (Len(s) + 1) /\ j \in Nat /\ i \in Nat
        BY <3>2
      <4>2. (m \o r)[j] = r[j - (i + 1)]
        BY <1>9, <3>2
      <4>3. r[j - (i + 1)] = s[j - 1]
        BY <2>1, <4>1
      <4>4. ~(j < i) /\ j # i /\ j # i + 1
        BY <3>2, <4>1
      <4>. QED
        BY <4>2, <4>3, <4>4
    <3>. QED
      BY <3>1, <3>2
  <2>. QED
    BY <2>3
<1> DEFINE t == m \o r
<1> HIDE DEF t
<1>11. /\ Len(t) = Len(s) + 1
       /\ \A j \in 1 .. (Len(s) + 1) :
            t[j] = IF j < i THEN s[j] ELSE IF j = i THEN a ELSE IF j = i + 1 THEN b ELSE s[j - 1]
  BY <1>9, <1>10 DEF t
<1>12. i \in 1 .. (Len(s) + 1) /\ i + 1 \in 1 .. (Len(s) + 1) /\ ~(i < i) /\ ~(i + 1 < i) /\ i + 1 # i
  OBVIOUS
<1>13. t[i] = a /\ t[i + 1] = b
  BY <1>11, <1>12
<1>14. \A j \in 1 .. Len(t) : j < i => t[j] = s[j]
  BY <1>11
<1>15. \A j \in 1 .. Len(t) : j > i + 1 => ~(j < i) /\ j # i /\ j # i + 1
  BY <1>11
<1>16. \A j \in 1 .. Len(t) : j > i + 1 => t[j] = s[j - 1]
  BY <1>11, <1>15
<1>17. Spliced(t, s, i, a, b)
  BY <1>11, <1>13, <1>14, <1>16 DEF Spliced
<1>. QED
  BY <1>9, <1>17 DEF l, m, r, t

-----------------------------------------------------------------------------
(* Inserting a key                                                         *)

(* What lookups find: the value of a key in the cached leaves.             *)
Finds(tree, key, v) == \E i \in DOMAIN tree : key \in DOMAIN tree[i].cached /\ tree[i].cached[key] = v

LEMMA LookupIs ==
  ASSUME NEW V, NEW tree, IsTree(tree, V), NEW key \in Nat, NEW none
  PROVE  \/ Finds(tree, key, lookup(tree, key, none))
         \/ lookup(tree, key, none) = none /\ \A v : ~Finds(tree, key, v)
<1>1. CASE \E i \in 1 .. Len(tree) : key \in DOMAIN tree[i].cached
  BY <1>1, LookupFinds, TreeIs DEF Finds
<1>2. CASE \A i \in 1 .. Len(tree) : key \notin DOMAIN tree[i].cached
  BY <1>2, LookupMisses, TreeIs DEF Finds
<1>. QED
  BY <1>1, <1>2

LEMMA FindsOne ==
  ASSUME NEW V, NEW tree, IsTree(tree, V), NEW key \in Nat, NEW v, Finds(tree, key, v), NEW none
  PROVE  lookup(tree, key, none) = v
  BY LookupFinds, TreeIs DEF Finds

(* The dictionary of a leaf with one more key.                             *)
With(dict, key, value) ==
  [k \in DOMAIN dict \cup {key} |-> IF k = key THEN value ELSE dict[k]]

LEMMA WithIs ==
  ASSUME NEW V, NEW d \in Dicts(V), NEW key \in Nat, NEW value \in V
  PROVE  With(d, key, value) \in Dicts(V)
<1>1. DOMAIN d \cup {key} \in Keys
  BY DictIs, FS_AddElement DEF Keys
<1>2. With(d, key, value) \in [DOMAIN d \cup {key} -> V]
  BY DictIs DEF With
<1>. QED
  BY <1>1, <1>2 DEF Dicts

(* The leaf a key belongs to: its keys and the new one lie between those   *)
(* of the leaves around it, and no other leaf has the key.                 *)
LEMMA RoomFor ==
  ASSUME NEW V, NEW tree, IsTree(tree, V), tree # EmptyTree, NEW key \in Nat,
         NEW i \in 1 .. Len(tree), i = find_leaf_for_key(tree, key)
  PROVE  /\ \A j \in 1 .. Len(tree) : j < i =>
              \A k \in DOMAIN tree[i].cached \cup {key} : tree[j].last < k
         /\ \A j \in 1 .. Len(tree) : i < j =>
              \A k \in DOMAIN tree[i].cached \cup {key} : k < tree[j].first
         /\ \A j \in 1 .. Len(tree) : j # i => key \notin DOMAIN tree[j].cached
<1>1. /\ Len(tree) \in Nat
      /\ \A j \in 1 .. Len(tree) :
           /\ tree[j].first \in Nat /\ tree[j].last \in Nat /\ tree[j].first <= tree[j].last
           /\ \A k \in DOMAIN tree[j].cached : k \in Nat /\ tree[j].first <= k /\ k <= tree[j].last
      /\ \A j, k \in 1 .. Len(tree) : j < k => tree[j].last < tree[k].first
  BY TreeIs
<1>2. /\ key <= tree[i].last \/ i = Len(tree)
      /\ \A j \in 1 .. Len(tree) : j < i => tree[j].last < key
  BY FindIs
<1>3. ASSUME NEW j \in 1 .. Len(tree), j < i, NEW k \in DOMAIN tree[i].cached \cup {key}
      PROVE  tree[j].last < k
  BY <1>1, <1>2, <1>3
<1>4. ASSUME NEW j \in 1 .. Len(tree), i < j, NEW k \in DOMAIN tree[i].cached \cup {key}
      PROVE  k < tree[j].first
  <2>1. key <= tree[i].last
    BY <1>1, <1>2, <1>4
  <2>. QED
    BY <1>1, <1>4, <2>1
<1>5. ASSUME NEW j \in 1 .. Len(tree), j # i PROVE key \notin DOMAIN tree[j].cached
  <2>1. CASE j < i
    BY <1>1, <1>2, <2>1
  <2>2. CASE i < j
    BY <1>1, <1>4, <2>2
  <2>. QED
    BY <1>1, <1>5, <2>1, <2>2
<1>. QED
  BY <1>3, <1>4, <1>5

(* What makes a sequence of leaves a tree.                                 *)
LEMMA IsTreeIf ==
  ASSUME NEW V, NEW tree \in Seq(Leaves(V)),
         \A i \in 1 .. Len(tree) :
           /\ DOMAIN tree[i].stored \subseteq DOMAIN tree[i].cached
           /\ tree[i].first <= tree[i].last
           /\ \A k \in DOMAIN tree[i].cached : k \in tree[i].first .. tree[i].last,
         \A i, j \in 1 .. Len(tree) : i < j => tree[i].last < tree[j].first
  PROVE  IsTree(tree, V)
  BY DEF IsTree, LeavesAreOrdered

(* What insert does to what is found and to what the tree has.             *)
Inserted(old, new, key, value) ==
  /\ \A j \in Nat : \A v : Finds(new, j, v) <=> IF j = key THEN v = value ELSE Finds(old, j, v)
  /\ \A j \in Nat : \A v : Has(new, j, v) => (j = key /\ v = value) \/ Has(old, j, v)

LEMMA NewLeafIs ==
  ASSUME NEW V, NEW key \in Nat, NEW value \in V
  PROVE  /\ IsTree(<< put_leaf([k \in {key} |-> value]) >>, V)
         /\ Inserted(EmptyTree, << put_leaf([k \in {key} |-> value]) >>, key, value)
<1> DEFINE d == [k \in {key} |-> value]
           leaf == put_leaf(d)
<1>1. {key} \in Keys
  BY FS_Singleton DEF Keys
<1>2. d \in Dicts(V) /\ DOMAIN d = {key} /\ d[key] = value
  BY <1>1 DEF Dicts
<1>3. /\ leaf \in Leaves(V) /\ leaf.stored = d /\ leaf.cached = d
      /\ leaf.first = key /\ leaf.last = key
  BY <1>2, PutIs
<1> HIDE DEF d, leaf
<1> DEFINE t == << leaf >>
<1>4. t \in Seq(Leaves(V)) /\ Len(t) = 1 /\ DOMAIN t = {1} /\ t[1] = leaf
  BY <1>3
<1> HIDE DEF t
<1>5. IsTree(t, V)
  <2>1. \A i \in 1 .. Len(t) : t[i] = leaf /\ i = 1
    BY <1>4
  <2>. QED
    BY <1>2, <1>3, <1>4, <2>1, IsTreeIf
<1>6. \A j, v : Finds(t, j, v) <=> j = key /\ v = value
  BY <1>2, <1>3, <1>4 DEF Finds
<1>7. \A j, v : Has(t, j, v) <=> j = key /\ v = value
  BY <1>2, <1>3, <1>4 DEF Has
<1>8. \A j, v : ~Finds(EmptyTree, j, v)
  BY DEF Finds, EmptyTree
<1>. QED
  BY <1>5, <1>6, <1>7, <1>8 DEF Inserted, t, leaf, d

(* A dictionary that a leaf can have in the place of leaf i, for the key.  *)
Fits(d, tree, i, key, value) ==
  /\ DOMAIN d = DOMAIN tree[i].cached \cup {key}
  /\ d[key] = value
  /\ \A k \in DOMAIN tree[i].cached : k # key => d[k] = tree[i].cached[k]
  /\ \A j \in 1 .. Len(tree) : j < i => \A k \in DOMAIN d : tree[j].last < k
  /\ \A j \in 1 .. Len(tree) : i < j => \A k \in DOMAIN d : k < tree[j].first
  /\ \A j \in 1 .. Len(tree) : j # i => key \notin DOMAIN tree[j].cached

LEMMA WithFits ==
  ASSUME NEW V, NEW tree, IsTree(tree, V), tree # EmptyTree, NEW key \in Nat, NEW value \in V,
         NEW i \in 1 .. Len(tree), i = find_leaf_for_key(tree, key)
  PROVE  /\ With(tree[i].cached, key, value) \in Dicts(V)
         /\ Fits(With(tree[i].cached, key, value), tree, i, key, value)
<1>1. tree[i].cached \in Dicts(V)
  BY TreeIs
<1> DEFINE d == With(tree[i].cached, key, value)
<1>2. d \in Dicts(V)
  BY <1>1, WithIs
<1>3. /\ DOMAIN d = DOMAIN tree[i].cached \cup {key} /\ d[key] = value
      /\ \A k \in DOMAIN tree[i].cached : k # key => d[k] = tree[i].cached[k]
  BY DEF With
<1> HIDE DEF d
<1>4. /\ \A j \in 1 .. Len(tree) : j < i =>
           \A k \in DOMAIN tree[i].cached \cup {key} : tree[j].last < k
      /\ \A j \in 1 .. Len(tree) : i < j =>
           \A k \in DOMAIN tree[i].cached \cup {key} : k < tree[j].first
      /\ \A j \in 1 .. Len(tree) : j # i => key \notin DOMAIN tree[j].cached
  BY RoomFor
<1>. QED
  BY <1>2, <1>3, <1>4 DEF Fits, d

(* The leaf of the key has room for it.                                    *)
LEMMA OneLeafFor ==
  ASSUME NEW V, NEW tree, IsTree(tree, V), NEW key \in Nat, NEW value \in V,
         NEW i \in 1 .. Len(tree), NEW d \in Dicts(V), Fits(d, tree, i, key, value),
         NEW leaf \in Leaves(V), leaf.first = FirstKey(d), leaf.last = LastKey(d),
         leaf.stored = tree[i].stored, leaf.cached = d,
         NEW t \in Seq(Leaves(V)), Len(t) = Len(tree), t[i] = leaf,
         \A j \in 1 .. Len(tree) : j # i => t[j] = tree[j]
  PROVE  IsTree(t, V) /\ Inserted(tree, t, key, value)
<1>1. /\ DOMAIN tree = 1 .. Len(tree) /\ DOMAIN t = 1 .. Len(tree) /\ Len(tree) \in Nat
  BY TreeIs
<1>2. \A j \in 1 .. Len(tree) :
        /\ tree[j].first \in Nat /\ tree[j].last \in Nat
        /\ DOMAIN tree[j].stored \subseteq DOMAIN tree[j].cached
        /\ tree[j].first <= tree[j].last
        /\ \A k \in DOMAIN tree[j].cached : k \in Nat /\ tree[j].first <= k /\ k <= tree[j].last
  BY TreeIs
<1>3. \A j, k \in 1 .. Len(tree) : j < k => tree[j].last < tree[k].first
  BY TreeIs
<1>4. leaf.first \in DOMAIN d /\ leaf.last \in DOMAIN d /\ DOMAIN d \in SUBSET Nat
  BY FirstIs, LastIs, DictIs
<1>5. \A k \in DOMAIN d : leaf.first <= k /\ k <= leaf.last
  BY FirstIs, LastIs
<1>6. DOMAIN leaf.stored \subseteq DOMAIN leaf.cached
  BY <1>2 DEF Fits
<1>7. IsTree(t, V)
  <2>1. ASSUME NEW j \in 1 .. Len(t)
        PROVE  /\ DOMAIN t[j].stored \subseteq DOMAIN t[j].cached
               /\ t[j].first <= t[j].last
               /\ \A k \in DOMAIN t[j].cached : k \in t[j].first .. t[j].last
    <3>1. CASE j = i
      BY <1>4, <1>5, <1>6, <3>1
    <3>2. CASE j # i
      BY <1>2, <3>2
    <3>. QED
      BY <3>1, <3>2
  <2>2. ASSUME NEW j \in 1 .. Len(t), NEW k \in 1 .. Len(t), j < k
        PROVE  t[j].last < t[k].first
    <3>1. CASE j = i
      BY <1>4, <2>2, <3>1 DEF Fits
    <3>2. CASE k = i
      BY <1>4, <2>2, <3>2 DEF Fits
    <3>3. CASE j # i /\ k # i
      BY <1>3, <2>2, <3>3
    <3>. QED
      BY <3>1, <3>2, <3>3
  <2>. QED
    BY <2>1, <2>2, IsTreeIf
<1>8. \A j \in Nat : \A v : Finds(t, j, v) <=> IF j = key THEN v = value ELSE Finds(tree, j, v)
  BY <1>1 DEF Finds, Fits
<1>9. \A j \in Nat : \A v : Has(t, j, v) => (j = key /\ v = value) \/ Has(tree, j, v)
  BY <1>1 DEF Has, Fits
<1>. QED
  BY <1>7, <1>8, <1>9 DEF Inserted

LEMMA UpdatedIs ==
  ASSUME NEW V, NEW tree, IsTree(tree, V), NEW key \in Nat, NEW value \in V,
         NEW i \in 1 .. Len(tree), NEW d \in Dicts(V), Fits(d, tree, i, key, value)
  PROVE  LET t == [tree EXCEPT ![i].first = FirstKey(d), ![i].last = LastKey(d), ![i].cached = d]
         IN  IsTree(t, V) /\ Inserted(tree, t, key, value)
<1> DEFINE t == [tree EXCEPT ![i].first = FirstKey(d), ![i].last = LastKey(d), ![i].cached = d]
           leaf == [tree[i] EXCEPT !.first = FirstKey(d), !.last = LastKey(d), !.cached = d]
<1>1. tree \in Seq(Leaves(V)) /\ DOMAIN tree = 1 .. Len(tree)
  BY TreeIs
<1>2. tree[i] \in Leaves(V) /\ tree[i].stored \in Dicts(V)
  BY TreeIs
<1>3. FirstKey(d) \in Nat /\ LastKey(d) \in Nat
  BY FirstIs, LastIs, DictIs
<1>4. /\ leaf \in Leaves(V) /\ leaf.first = FirstKey(d) /\ leaf.last = LastKey(d)
      /\ leaf.stored = tree[i].stored /\ leaf.cached = d
  BY <1>2, <1>3 DEF Leaves
<1>5. t = [tree EXCEPT ![i] = leaf]
  BY <1>1
<1> HIDE DEF leaf, t
<1>6. /\ t \in Seq(Leaves(V)) /\ Len(t) = Len(tree) /\ t[i] = leaf
      /\ \A j \in 1 .. Len(tree) : j # i => t[j] = tree[j]
  BY <1>1, <1>4, <1>5
<1>7. IsTree(t, V) /\ Inserted(tree, t, key, value)
  BY <1>4, <1>6, OneLeafFor
<1>. QED
  BY <1>7 DEF t

LEMMA TwoLeavesOrdered ==
  ASSUME NEW V, NEW tree, IsTree(tree, V), NEW key \in Nat, NEW value \in V,
         NEW i \in 1 .. Len(tree), NEW d \in Dicts(V), Fits(d, tree, i, key, value),
         NEW a \in Leaves(V), NEW b \in Leaves(V), Halves(a, b, d),
         NEW t \in Seq(Leaves(V)), Spliced(t, tree, i, a, b)
  PROVE  IsTree(t, V)
<1> USE DEF Spliced
<1>1. Len(tree) \in Nat
  BY TreeIs
<1>2. \A j \in 1 .. Len(tree) :
        /\ tree[j].first \in Nat /\ tree[j].last \in Nat
        /\ DOMAIN tree[j].stored \subseteq DOMAIN tree[j].cached
        /\ tree[j].first <= tree[j].last
        /\ \A k \in DOMAIN tree[j].cached : k \in Nat /\ tree[j].first <= k /\ k <= tree[j].last
  BY TreeIs
<1>3. \A j, k \in 1 .. Len(tree) : j < k => tree[j].last < tree[k].first
  BY TreeIs
<1>4. a.first \in Nat /\ a.last \in Nat /\ b.first \in Nat /\ b.last \in Nat
  BY DEF Leaves
<1>5. a.first <= a.last /\ a.last < b.first /\ b.first <= b.last
  BY DEF Halves
<1>6. \A j \in 1 .. Len(tree) : j < i => tree[j].last < a.first
  BY DEF Halves, Fits
<1>7. \A j \in 1 .. Len(tree) : i < j => b.last < tree[j].first
  BY DEF Halves, Fits
<1>8. \A j \in 1 .. Len(t) : j > i + 1 => j - 1 \in 1 .. Len(tree) /\ i < j - 1 /\ t[j] = tree[j - 1]
  BY <1>1
<1>9. \A j \in 1 .. Len(t) : j < i => j \in 1 .. Len(tree) /\ t[j] = tree[j]
  BY <1>1
<1>10. ASSUME NEW j \in 1 .. Len(t)
       PROVE  /\ DOMAIN t[j].stored \subseteq DOMAIN t[j].cached
              /\ t[j].first <= t[j].last
              /\ \A k \in DOMAIN t[j].cached : k \in t[j].first .. t[j].last
  <2>1. CASE j < i
    BY <1>2, <1>9, <2>1
  <2>2. CASE j = i \/ j = i + 1
    BY <1>5, <2>2 DEF Halves
  <2>3. CASE j > i + 1
    <3>1. PICK l \in 1 .. Len(tree) : t[j] = tree[l]
      BY <1>8, <2>3
    <3>. QED
      BY <1>2, <3>1
  <2>. QED
    BY <1>1, <2>1, <2>2, <2>3
<1>11. ASSUME NEW j \in 1 .. Len(t), NEW k \in 1 .. Len(t), j < k
       PROVE  t[j].last < t[k].first
  <2>1. CASE k < i
    BY <1>3, <1>9, <1>11, <2>1
  <2>2. CASE k = i
    BY <1>6, <1>9, <1>11, <2>2
  <2>3. CASE k = i + 1 /\ j = i
    BY <1>5, <2>3
  <2>4. CASE k = i + 1 /\ j < i
    <3>1. tree[j].last < a.first /\ tree[j].last \in Nat /\ t[j] = tree[j]
      BY <1>2, <1>6, <1>9, <2>4
    <3>. QED
      BY <1>4, <1>5, <2>4, <3>1
  <2>5. CASE k > i + 1
    <3>1. k - 1 \in 1 .. Len(tree) /\ i < k - 1 /\ t[k] = tree[k - 1]
      BY <1>8, <2>5
    <3>2. b.last < t[k].first /\ t[k].first \in Nat
      BY <1>2, <1>7, <3>1
    <3>3. CASE j < i
      BY <1>3, <1>9, <3>1, <3>3
    <3>4. CASE j = i
      BY <1>4, <1>5, <3>2, <3>4
    <3>5. CASE j = i + 1
      BY <3>2, <3>5
    <3>6. CASE j > i + 1
      <4>1. j - 1 \in 1 .. Len(tree) /\ t[j] = tree[j - 1] /\ j - 1 < k - 1
        BY <1>8, <1>11, <3>6
      <4>. QED
        BY <1>3, <3>1, <4>1
    <3>. QED
      BY <1>1, <3>3, <3>4, <3>5, <3>6
  <2>. QED
    BY <1>1, <1>11, <2>1, <2>2, <2>3, <2>4, <2>5
<1>. QED
  BY <1>10, <1>11, IsTreeIf

LEMMA TwoLeavesInsert ==
  ASSUME NEW V, NEW tree, IsTree(tree, V), NEW key \in Nat, NEW value \in V,
         NEW i \in 1 .. Len(tree), NEW d \in Dicts(V), Fits(d, tree, i, key, value),
         NEW a \in Leaves(V), NEW b \in Leaves(V), Halves(a, b, d),
         NEW t \in Seq(Leaves(V)), Spliced(t, tree, i, a, b)
  PROVE  Inserted(tree, t, key, value)
<1> USE DEF Spliced
<1>1. Len(tree) \in Nat /\ DOMAIN tree = 1 .. Len(tree) /\ DOMAIN t = 1 .. Len(t)
  BY TreeIs
<1>2. \A j \in 1 .. Len(t) :
        \/ j < i /\ j \in 1 .. Len(tree) /\ t[j] = tree[j]
        \/ j = i \/ j = i + 1
        \/ j - 1 \in 1 .. Len(tree) /\ i < j - 1 /\ t[j] = tree[j - 1]
  BY <1>1
<1>3. /\ i \in 1 .. Len(t) /\ i + 1 \in 1 .. Len(t)
      /\ \A j \in 1 .. Len(tree) : j # i => \E l \in 1 .. Len(t) : t[l] = tree[j]
  <2>1. i \in 1 .. Len(t) /\ i + 1 \in 1 .. Len(t)
    BY <1>1
  <2>2. \A j \in 1 .. Len(tree) : j < i => j \in 1 .. Len(t) /\ t[j] = tree[j]
    BY <1>1
  <2>3. \A j \in 1 .. Len(tree) : j > i => j + 1 \in 1 .. Len(t) /\ t[j + 1] = tree[j]
    <3>1. \A j \in 1 .. Len(tree) : j > i => j + 1 \in 1 .. Len(t) /\ j + 1 > i + 1 /\ (j + 1) - 1 = j
      BY <1>1
    <3>. QED
      BY <3>1
  <2>. QED
    BY <1>1, <2>1, <2>2, <2>3
<1>4. ASSUME NEW j \in DOMAIN d
      PROVE  Finds(t, j, d[j])
  <2>1. j \in DOMAIN a.cached \/ j \in DOMAIN b.cached
    BY DEF Halves
  <2>2. CASE j \in DOMAIN a.cached
    BY <1>1, <1>3, <2>2 DEF Halves, Finds
  <2>3. CASE j \in DOMAIN b.cached
    BY <1>1, <1>3, <2>3 DEF Halves, Finds
  <2>. QED
    BY <2>1, <2>2, <2>3
<1>5. ASSUME NEW j, NEW v, Has(t, j, v)
      PROVE  (j \in DOMAIN d /\ v = d[j]) \/ \E l \in 1 .. Len(tree) : l # i /\
                \/ j \in DOMAIN tree[l].cached /\ tree[l].cached[j] = v
                \/ j \in DOMAIN tree[l].stored /\ tree[l].stored[j] = v
  <2>1. PICK l \in 1 .. Len(t) :
          \/ j \in DOMAIN t[l].cached /\ t[l].cached[j] = v
          \/ j \in DOMAIN t[l].stored /\ t[l].stored[j] = v
    BY <1>1, <1>5 DEF Has
  <2>2. CASE t[l] = a \/ t[l] = b
    BY <2>1, <2>2 DEF Halves
  <2>3. CASE l < i /\ l \in 1 .. Len(tree) /\ t[l] = tree[l]
    BY <2>1, <2>3
  <2>4. CASE l - 1 \in 1 .. Len(tree) /\ i < l - 1 /\ t[l] = tree[l - 1]
    BY <2>1, <2>4
  <2>. QED
    BY <1>2, <2>2, <2>3, <2>4
<1>6. ASSUME NEW j, NEW v, Finds(t, j, v)
      PROVE  (j \in DOMAIN d /\ v = d[j]) \/ \E l \in 1 .. Len(tree) : l # i /\
                j \in DOMAIN tree[l].cached /\ tree[l].cached[j] = v
  <2>1. PICK l \in 1 .. Len(t) : j \in DOMAIN t[l].cached /\ t[l].cached[j] = v
    BY <1>1, <1>6 DEF Finds
  <2>2. CASE t[l] = a \/ t[l] = b
    BY <2>1, <2>2 DEF Halves
  <2>3. CASE l < i /\ l \in 1 .. Len(tree) /\ t[l] = tree[l]
    BY <2>1, <2>3
  <2>4. CASE l - 1 \in 1 .. Len(tree) /\ i < l - 1 /\ t[l] = tree[l - 1]
    BY <2>1, <2>4
  <2>. QED
    BY <1>2, <2>2, <2>3, <2>4
<1>7. ASSUME NEW j \in DOMAIN d
      PROVE  (j = key /\ d[j] = value) \/ (j # key /\ Finds(tree, j, d[j]))
  BY <1>1 DEF Fits, Finds
<1>8. ASSUME NEW j, NEW v, Has(t, j, v)
      PROVE  (j = key /\ v = value) \/ Has(tree, j, v)
  <2>1. CASE j \in DOMAIN d /\ v = d[j]
    BY <1>7, <2>1 DEF Finds, Has
  <2>2. CASE \E l \in 1 .. Len(tree) :
                \/ j \in DOMAIN tree[l].cached /\ tree[l].cached[j] = v
                \/ j \in DOMAIN tree[l].stored /\ tree[l].stored[j] = v
    BY <1>1, <2>2 DEF Has
  <2>. QED
    BY <1>5, <1>8, <2>1, <2>2
<1>9. ASSUME NEW j, NEW v, Finds(t, j, v)
      PROVE  IF j = key THEN v = value ELSE Finds(tree, j, v)
  <2>1. CASE j \in DOMAIN d /\ v = d[j]
    BY <1>7, <2>1
  <2>2. ASSUME NEW l \in 1 .. Len(tree), l # i, j \in DOMAIN tree[l].cached, tree[l].cached[j] = v
        PROVE  j # key /\ Finds(tree, j, v)
    BY <1>1, <2>2 DEF Fits, Finds
  <2>. QED
    BY <1>6, <1>9, <2>1, <2>2
<1>10. ASSUME NEW j, NEW v, j # key, Finds(tree, j, v)
       PROVE  Finds(t, j, v)
  <2>1. PICK l \in 1 .. Len(tree) : j \in DOMAIN tree[l].cached /\ tree[l].cached[j] = v
    BY <1>1, <1>10 DEF Finds
  <2>2. CASE l = i
    <3>1. j \in DOMAIN d /\ d[j] = v
      BY <1>10, <2>1, <2>2 DEF Fits
    <3>. QED
      BY <1>4, <3>1
  <2>3. CASE l # i
    BY <1>1, <1>3, <2>1, <2>3 DEF Finds
  <2>. QED
    BY <2>2, <2>3
<1>11. Finds(t, key, value)
  BY <1>4 DEF Fits
<1>. QED
  BY <1>8, <1>9, <1>10, <1>11 DEF Inserted

LEMMA SplitInserts ==
  ASSUME NEW V, NEW tree, IsTree(tree, V), NEW key \in Nat, NEW value \in V,
         NEW i \in 1 .. Len(tree), NEW d \in Dicts(V), Fits(d, tree, i, key, value),
         Cardinality(DOMAIN d) >= 2
  PROVE  LET t == SubSeq(tree, 1, i - 1) \o split_leaf(d) \o SubSeq(tree, i + 1, Len(tree))
         IN  IsTree(t, V) /\ Inserted(tree, t, key, value)
<1> DEFINE t == SubSeq(tree, 1, i - 1) \o split_leaf(d) \o SubSeq(tree, i + 1, Len(tree))
<1>1. tree \in Seq(Leaves(V)) /\ Len(tree) \in Nat
  BY TreeIs
<1>2. PICK a, b \in Leaves(V) : split_leaf(d) = << a, b >> /\ Halves(a, b, d)
  BY SplitIs
<1>3. t \in Seq(Leaves(V)) /\ Spliced(t, tree, i, a, b)
  <2> DEFINE u == SubSeq(tree, 1, i - 1) \o << a, b >> \o SubSeq(tree, i + 1, Len(tree))
  <2>1. u \in Seq(Leaves(V)) /\ Spliced(u, tree, i, a, b)
    BY <1>1, SpliceIs
  <2>2. t = u
    BY <1>2
  <2> HIDE DEF t, u
  <2>. QED
    BY <2>1, <2>2
<1> HIDE DEF t
<1>4. IsTree(t, V)
  BY <1>2, <1>3, TwoLeavesOrdered
<1>5. Inserted(tree, t, key, value)
  BY <1>2, <1>3, TwoLeavesInsert
<1>. QED
  BY <1>4, <1>5 DEF t

(* CowTree.insert (cowtree.py:51-86): a tree stays a tree, its leaves in   *)
(* order, when a value is inserted, whether a leaf is split or not; it has *)
(* the value for the key, and for other keys what it had before.           *)
THEOREM InsertIs ==
  ASSUME NEW V, NEW tree, IsTree(tree, V), NEW key \in Nat, NEW value \in V
  PROVE  IsTree(insert(tree, key, value), V) /\ Inserted(tree, insert(tree, key, value), key, value)
<1>1. CASE tree = EmptyTree
  BY <1>1, NewLeafIs DEF insert
<1>2. CASE tree # EmptyTree
  <2> DEFINE i == find_leaf_for_key(tree, key)
             d == With(tree[i].cached, key, value)
             split == SubSeq(tree, 1, i - 1) \o split_leaf(d) \o SubSeq(tree, i + 1, Len(tree))
             changed == [tree EXCEPT ![i].first = FirstKey(d), ![i].last = LastKey(d), ![i].cached = d]
  <2>1. i \in 1 .. Len(tree)
    BY <1>2, FindIs
  <2>2. insert(tree, key, value) = IF Cardinality(DOMAIN d) > MaxLeaf THEN split ELSE changed
    BY <1>2 DEF insert, insert_into_leaf, With
  <2>3. d \in Dicts(V) /\ Fits(d, tree, i, key, value)
    BY <1>2, <2>1, WithFits
  <2> HIDE DEF i, d
  <2>4. Cardinality(DOMAIN d) \in Nat
    BY <2>3, DictIs
  <2>5. CASE Cardinality(DOMAIN d) > MaxLeaf
    <3>1. Cardinality(DOMAIN d) >= 2
      BY <2>4, <2>5, MaxLeafAssumption
    <3>2. IsTree(split, V) /\ Inserted(tree, split, key, value)
      BY <2>1, <2>3, <3>1, SplitInserts
    <3>3. insert(tree, key, value) = split
      BY <2>2, <2>5
    <3> HIDE DEF split
    <3>. QED
      BY <3>2, <3>3
  <2>6. CASE ~(Cardinality(DOMAIN d) > MaxLeaf)
    <3>1. IsTree(changed, V) /\ Inserted(tree, changed, key, value)
      BY <2>1, <2>3, UpdatedIs
    <3>2. insert(tree, key, value) = changed
      BY <2>2, <2>6
    <3> HIDE DEF changed
    <3>. QED
      BY <3>1, <3>2
  <2>. QED
    BY <2>5, <2>6
<1>. QED
  BY <1>1, <1>2

(* CowTree.lookup (cowtree.py:42-49) after an insert: it finds what has    *)
(* been inserted last, and for other keys what it found before.            *)
THEOREM InsertedIsFound ==
  ASSUME NEW V, NEW tree, IsTree(tree, V), NEW key \in Nat, NEW value \in V,
         NEW j \in Nat, NEW none
  PROVE  lookup(insert(tree, key, value), j, none) = IF j = key THEN value ELSE lookup(tree, j, none)
<1> DEFINE new == insert(tree, key, value)
<1>1. IsTree(new, V) /\ Inserted(tree, new, key, value)
  BY InsertIs
<1> HIDE DEF new
<1>2. CASE j = key
  <2>1. Finds(new, key, value)
    BY <1>1 DEF Inserted
  <2>. QED
    BY <1>1, <1>2, <2>1, FindsOne DEF new
<1>3. CASE j # key
  <2>1. \A v : Finds(new, j, v) <=> Finds(tree, j, v)
    BY <1>1, <1>3 DEF Inserted
  <2>2. CASE Finds(tree, j, lookup(tree, j, none))
    <3>1. Finds(new, j, lookup(tree, j, none))
      BY <2>1, <2>2
    <3>2. lookup(new, j, none) = lookup(tree, j, none)
      BY <1>1, <3>1, FindsOne
    <3>. QED
      BY <1>3, <3>2 DEF new
  <2>3. CASE lookup(tree, j, none) = none /\ \A v : ~Finds(tree, j, v)
    <3>1. lookup(new, j, none) = none
      BY <1>1, <2>1, <2>3, LookupIs
    <3>. QED
      BY <1>3, <2>3, <3>1 DEF new
  <2>. QED
    BY <2>2, <2>3, LookupIs
<1>. QED
  BY <1>2, <1>3

-----------------------------------------------------------------------------
(* Committing a tree                                                       *)

LEMMA CommitIs ==
  ASSUME NEW V, NEW tree, IsTree(tree, V)
  PROVE  /\ IsTree(commit(tree), V)
         /\ \A j, v : Has(commit(tree), j, v) => Has(tree, j, v)
<1>1. tree \in Seq(Leaves(V)) /\ Len(tree) \in Nat /\ DOMAIN tree = 1 .. Len(tree)
  BY TreeIs
<1> DEFINE t == commit(tree)
<1>2. DOMAIN t = 1 .. Len(tree)
  BY <1>1 DEF commit
<1>3. ASSUME NEW i \in 1 .. Len(tree)
      PROVE  /\ t[i] \in Leaves(V) /\ t[i].first = tree[i].first /\ t[i].last = tree[i].last
             /\ t[i].stored = tree[i].stored /\ t[i].cached = tree[i].stored
  <2>1. t[i] = [tree[i] EXCEPT !.cached = tree[i].stored]
    BY <1>1 DEF commit
  <2>2. tree[i] \in Leaves(V)
    BY TreeIs
  <2>. QED
    BY <2>1, <2>2 DEF Leaves
<1>4. t = [i \in 1 .. Len(tree) |-> t[i]]
  BY <1>1 DEF commit
<1> HIDE DEF t
<1>5. t \in [1 .. Len(tree) -> Leaves(V)]
  BY <1>3, <1>4
<1>6. t \in Seq(Leaves(V)) /\ Len(t) = Len(tree)
  BY <1>1, <1>5
<1>7. IsTree(t, V)
  <2>1. ASSUME NEW i \in 1 .. Len(t)
        PROVE  /\ DOMAIN t[i].stored \subseteq DOMAIN t[i].cached
               /\ t[i].first <= t[i].last
               /\ \A k \in DOMAIN t[i].cached : k \in t[i].first .. t[i].last
    <3>1. /\ t[i].first = tree[i].first /\ t[i].last = tree[i].last
          /\ t[i].stored = tree[i].stored /\ t[i].cached = tree[i].stored
      BY <1>3, <1>6
    <3>2. /\ DOMAIN tree[i].stored \subseteq DOMAIN tree[i].cached
          /\ tree[i].first <= tree[i].last
          /\ \A k \in DOMAIN tree[i].cached : k \in tree[i].first .. tree[i].last
      BY <1>1, <1>6 DEF IsTree, LeavesAreOrdered
    <3>. QED
      BY <3>1, <3>2
  <2>2. \A i, j \in 1 .. Len(t) : i < j => t[i].last < t[j].first
    BY <1>3, <1>6, TreeIs
  <2>. QED
    BY <1>6, <2>1, <2>2, IsTreeIf
<1>8. \A j, v : Has(t, j, v) => Has(tree, j, v)
  BY <1>1, <1>2, <1>3 DEF Has
<1>. QED
  BY <1>7, <1>8 DEF t

LEMMA EmptyIs ==
  ASSUME NEW V
  PROVE  IsTree(EmptyTree, V) /\ \A j, v : ~Has(EmptyTree, j, v)
<1>1. << >> \in Seq(Leaves(V)) /\ Len(<< >>) = 0
  OBVIOUS
<1>2. DOMAIN << >> = {}
  OBVIOUS
<1>3. \A j, v : ~Has(EmptyTree, j, v)
  BY <1>2 DEF EmptyTree, Has
<1>4. \A i \in 1 .. Len(<< >>) : FALSE
  BY <1>1
<1>5. IsTree(<< >>, V)
  BY <1>1, <1>2, <1>4 DEF IsTree, LeavesAreOrdered
<1>. QED
  BY <1>3, <1>5 DEF EmptyTree
=============================================================================
