------------------------------- MODULE CowTree -------------------------------
(***************************************************************************)
(* The copy-on-write tree of format Green Albatross (fmt_ga/cowtree.py)    *)
(* over a leaf store that keeps leaves as blobs (fmt_ga/leaf_store.py).    *)
(*                                                                         *)
(* A tree is its leaf list: a sequence of leaves, each with the range of   *)
(* keys it is looked up by.  A leaf has two contents.  "stored" is the     *)
(* blob put_leaf has written: a deep copy (leaf.py:39-40) that nothing     *)
(* changes afterwards.  "cached" is the dictionary get_leaf wraps, which   *)
(* is the one in the cache of the blob store: what is inserted into it is  *)
(* seen by later lookups of the same process and by nobody else.  The      *)
(* blob's identifier is left out: it names a blob that never changes.      *)
(* The cache of a session is taken as unlimited; the code empties it, and  *)
(* what is only "cached" is lost, when the keys of the leaves in it would  *)
(* add up to more than 2^24 (blob_store.py:28-29, 99-103).                 *)
(***************************************************************************)
EXTENDS Naturals, Sequences, SequencesExt

CONSTANT MaxLeaf           \* _max_keys_per_leaf

ASSUME MaxLeafAssumption == MaxLeaf \in Nat /\ MaxLeaf >= 2

EmptyTree == << >>

LastKey(dict)  == CHOOSE k \in DOMAIN dict : \A j \in DOMAIN dict : j <= k
FirstKey(dict) == CHOOSE k \in DOMAIN dict : \A j \in DOMAIN dict : k <= j

(* A leaf as put_leaf makes it.  The blob stores of the leaf stores have   *)
(* no maximal bag size, so that put_blob writes the blob at once.          *)
put_leaf(dict) ==
  [first |-> FirstKey(dict), last |-> LastKey(dict), stored |-> dict, cached |-> dict]

(* Position of the leaf a key belongs to; only for a tree with leaves.     *)
find_leaf_for_key(tree, key) ==
  IF key >= tree[Len(tree)].last
  THEN Len(tree)
  ELSE CHOOSE i \in DOMAIN tree :
         tree[i].last >= key /\ \A j \in 1 .. (i - 1) : tree[j].last < key

(* The value of a key, or "none".                                          *)
lookup(tree, key, none) ==
  IF tree = EmptyTree
  THEN none
  ELSE LET dict == tree[find_leaf_for_key(tree, key)].cached
       IN  IF key \in DOMAIN dict THEN dict[key] ELSE none

Restricted(dict, keys) == [k \in keys |-> dict[k]]

(* The two leaves that replace a leaf with too many keys.                  *)
split_leaf(dict) ==
  LET lower == {k \in DOMAIN dict :
                  Cardinality({j \in DOMAIN dict : j < k}) < Cardinality(DOMAIN dict) \div 2}
  IN  << put_leaf(Restricted(dict, lower)), put_leaf(Restricted(dict, DOMAIN dict \ lower)) >>

(* The leaf is changed in the cache and its range in the leaf list; it is  *)
(* put back into the store only in pieces, when it is split.  The leaf     *)
(* list is sorted by the first keys, so the pieces come where it was.      *)
(* Faulty variant: the leaf list keeps the range the leaf had.             *)
SameRange(tree, i, key, value) ==
  [tree EXCEPT ![i].cached = (key :> value) @@ tree[i].cached]

insert_into_leaf(tree, i, key, value) ==
  LET dict == [k \in DOMAIN tree[i].cached \cup {key} |->
                 IF k = key THEN value ELSE tree[i].cached[k]]
  IN  IF Cardinality(DOMAIN dict) > MaxLeaf
      THEN SubSeq(tree, 1, i - 1) \o split_leaf(dict) \o SubSeq(tree, i + 1, Len(tree))
      ELSE [tree EXCEPT ![i].first = FirstKey(dict), ![i].last = LastKey(dict),
                        ![i].cached = dict]

insert(tree, key, value) ==
  IF tree = EmptyTree
  THEN << put_leaf([k \in {key} |-> value]) >>
  ELSE insert_into_leaf(tree, find_leaf_for_key(tree, key), key, value)

(* What commit writes, as the next process loads it: the ranges of the     *)
(* leaf list and the blobs its identifiers name.                           *)
commit(tree) == [i \in DOMAIN tree |-> [tree[i] EXCEPT !.cached = tree[i].stored]]

(***************************************************************************)
(* Lookups rely on leaves that are sorted and do not overlap, and that     *)
(* have all the keys they have in their range.                             *)
(***************************************************************************)
LeavesAreOrdered(tree) ==
  /\ \A i \in DOMAIN tree :
       /\ tree[i].first <= tree[i].last
       /\ \A k \in DOMAIN tree[i].cached : k \in tree[i].first .. tree[i].last
  /\ \A i, j \in DOMAIN tree : i < j => tree[i].last < tree[j].first
=============================================================================
