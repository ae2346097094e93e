------------------------ MODULE GreenAlbatrossProofs ------------------------
(***************************************************************************)
(* Proofs about GreenAlbatross, for any processes, clients, contents, bags *)
(* and bounds.                                                             *)
(***************************************************************************)
EXTENDS GreenAlbatross, CowTreeProofs

Lists       == UNION {[S -> Dirs] : S \in SUBSET Names}
Generations == Seq(SUBSET ChunkIds)
Filled      == [id : Bags, blobs : Seq(Contents)]
Uses        == ChunkIds \X Contents \X Names

TreesOver(V) == {t \in Seq(Leaves(V)) : IsTree(t, V)}

IndexTrees == [by_chunk_id : TreesOver(Contents \cup {None}),
               by_checksum : TreesOver(Seq(ChunkIds)),
               used_by     : TreesOver(Seq(Names))]

Commands == {"backup", "forget", "remove-client", "continue"}
Pcs == Commands \cup {"idle", "list changed", "list committed", "find", "found", "initialise",
                     "initialised", "create", "walk", "share", "commit", "unlock client",
                     "commit indexes", "unlock indexes", "choose", "unlock clients", "give up",
                     "exit"}

Memory ==
  [pc : Pcs, command : Commands \cup {None}, client : Names \cup {None}, held : SUBSET Parts,
   names : Lists \cup {NotLoaded}, finder : Dirs \cup {None}, data : Generations \cup {NotLoaded},
   trees : IndexTrees \cup {Unread}, bag : Filled \cup {None},
   tokens : SUBSET (ChunkIds \X Contents), unused : SUBSET ChunkIds, promising : SUBSET Uses]

Fields == {"pc", "command", "client", "held", "names", "finder", "data", "trees", "bag",
           "tokens", "unused", "promising"}

(* Where a process has found the directory of its client.                  *)
WithFinder == {"found", "initialise", "initialised", "create", "walk", "share", "commit",
               "unlock client"}

PcFits(p) ==
  /\ ~At(p, "idle") => mem[p].client \in Names
  /\ mem[p].pc \in WithFinder => mem[p].finder \in Dirs
  /\ At(p, "walk") => mem[p].data \in Generations

DiskTypes ==
  /\ locks \subseteq Parts /\ made \subseteq Dirs
  /\ listRoot \in Lists /\ clientRoot \in [Dirs -> Generations] /\ indexRoot \in IndexTrees
  /\ bags \in [Bags -> Seq(Contents) \cup {None}]
  /\ promised \subseteq Uses

Types == DiskTypes /\ mem \in [Procs -> Memory] /\ \A p \in Procs : PcFits(p)

(* A step changes the memory of p only, and of it the fields F only.       *)
OnlyOf(p) == /\ mem' \in [Procs -> Memory]
             /\ \A q \in Procs : q # p => mem'[q] = mem[q]

Only(p, F) == OnlyOf(p) /\ \A f \in Fields \ F : mem'[p][f] = mem[p][f]

-----------------------------------------------------------------------------
(* What the actions do to the memories                                     *)

LEMMA Became ==
  ASSUME Types, NEW p \in Procs, NEW m \in Memory, mem' = [mem EXCEPT ![p] = m]
  PROVE  OnlyOf(p) /\ mem'[p] = m
  BY DEF OnlyOf, Types

LEMMA TypesOf ==
  ASSUME Types, NEW p \in Procs
  PROVE  mem[p] \in Memory /\ PcFits(p)
  BY DEF Types

LEMMA IdleIs == Idle \in Memory /\ Idle.pc = "idle"
<1>1. "idle" \in Pcs /\ None \in Commands \cup {None} /\ None \in Names \cup {None}
      /\ {} \in SUBSET Parts /\ NotLoaded \in Lists \cup {NotLoaded}
  BY DEF Pcs
<1>2. None \in Dirs \cup {None} /\ NotLoaded \in Generations \cup {NotLoaded}
      /\ Unread \in IndexTrees \cup {Unread} /\ None \in Filled \cup {None}
  OBVIOUS
<1>3. {} \in SUBSET (ChunkIds \X Contents) /\ {} \in SUBSET ChunkIds /\ {} \in SUBSET Uses
  OBVIOUS
<1>4. Idle \in Memory
  BY <1>1, <1>2, <1>3 DEF Idle, Memory
<1>. QED
  BY <1>4 DEF Idle

-----------------------------------------------------------------------------
(* Names of chunks                                                         *)

LEMMA PlaceIs ==
  ASSUME NEW S \in Nat \ {0}, NEW b \in Nat, NEW r \in 0 .. (S - 1)
  PROVE  (b * S + r) \div S = b /\ (b * S + r) % S = r /\ b * S + r \in Nat
  OBVIOUS

LEMMA NameIs ==
  ASSUME NEW b \in Bags, NEW i \in 1 .. BagSize
  PROVE  /\ make_object_id(b, i) \in ChunkIds /\ make_object_id(b, i) \in Nat
         /\ BagOf(make_object_id(b, i)) = b /\ PlaceOf(make_object_id(b, i)) = i
<1>1. b \in Nat /\ BagSize \in Nat \ {0} /\ i - 1 \in 0 .. (BagSize - 1)
  BY GreenAlbatrossAssumption
<1>2. /\ (b * BagSize + (i - 1)) \div BagSize = b /\ (b * BagSize + (i - 1)) % BagSize = i - 1
      /\ b * BagSize + (i - 1) \in Nat
  BY <1>1, PlaceIs
<1>. QED
  BY <1>1, <1>2 DEF make_object_id, BagOf, PlaceOf, ChunkIds

LEMMA ChunksAre ==
  ASSUME NEW chunk \in ChunkIds
  PROVE  chunk \in Nat /\ BagOf(chunk) \in Bags /\ PlaceOf(chunk) \in 1 .. BagSize
<1>1. PICK b \in Bags, i \in 1 .. BagSize : chunk = make_object_id(b, i)
  BY DEF ChunkIds
<1>. QED
  BY <1>1, NameIs

-----------------------------------------------------------------------------
(* The trees of the indexes                                                *)

LEMMA Inserting ==
  ASSUME NEW V, NEW tree \in TreesOver(V), NEW key \in Nat, NEW value \in V
  PROVE  insert(tree, key, value) \in TreesOver(V) /\ Inserted(tree, insert(tree, key, value), key, value)
<1>1. IsTree(tree, V)
  BY DEF TreesOver
<1>2. IsTree(insert(tree, key, value), V) /\ Inserted(tree, insert(tree, key, value), key, value)
  BY <1>1, InsertIs
<1>. QED
  BY <1>2 DEF TreesOver, IsTree

LEMMA Committing ==
  ASSUME NEW V, NEW tree \in TreesOver(V)
  PROVE  /\ commit(tree) \in TreesOver(V)
         /\ \A j, v : Has(commit(tree), j, v) => Has(tree, j, v)
<1>1. IsTree(tree, V)
  BY DEF TreesOver
<1>. QED
  BY <1>1, CommitIs DEF TreesOver, IsTree

LEMMA HasOnly ==
  ASSUME NEW V, NEW tree \in TreesOver(V), NEW key, NEW v, Has(tree, key, v)
  PROVE  v \in V
<1>1. IsTree(tree, V)
  BY DEF TreesOver
<1>2. PICK i \in 1 .. Len(tree) :
        \/ key \in DOMAIN tree[i].cached /\ tree[i].cached[key] = v
        \/ key \in DOMAIN tree[i].stored /\ tree[i].stored[key] = v
  BY <1>1, TreeIs DEF Has
<1>3. tree[i].cached \in Dicts(V) /\ tree[i].stored \in Dicts(V)
  BY <1>1, TreeIs
<1>4. /\ \A k \in DOMAIN tree[i].cached : tree[i].cached[k] \in V
      /\ \A k \in DOMAIN tree[i].stored : tree[i].stored[k] \in V
  BY <1>3, DictIs
<1>. QED
  BY <1>2, <1>4

LEMMA Looking ==
  ASSUME NEW V, NEW tree \in TreesOver(V), NEW key \in Nat
  PROVE  \/ lookup(tree, key, None) = None
         \/ Has(tree, key, lookup(tree, key, None)) /\ lookup(tree, key, None) \in V
<1>1. IsTree(tree, V)
  BY DEF TreesOver
<1>2. lookup(tree, key, None) = None \/ Has(tree, key, lookup(tree, key, None))
  BY <1>1, LookupHas
<1>. QED
  BY <1>2, HasOnly

LEMMA Found ==
  ASSUME NEW V, NEW tree \in TreesOver(V), NEW key \in Nat, NEW value \in V, NEW j \in Nat
  PROVE  lookup(insert(tree, key, value), j, None) = IF j = key THEN value ELSE lookup(tree, j, None)
  BY InsertedIsFound DEF TreesOver

(* Lists in the trees.                                                     *)
LEMMA WithElementIs ==
  ASSUME NEW S, NEW x \in S, NEW list, list = None \/ list \in Seq(S)
  PROVE  /\ WithElement(list, x) \in Seq(S) /\ x \in ToSet(WithElement(list, x))
         /\ list # None => ToSet(WithElement(list, x)) = ToSet(list) \cup {x}
         /\ list = None => ToSet(WithElement(list, x)) = {x}
<1>1. CASE list = None
  <2>1. WithElement(list, x) = << x >>
    BY <1>1 DEF WithElement
  <2>2. << x >> \in Seq(S) /\ ToSet(<< x >>) = {x}
    BY DEF ToSet
  <2>. QED
    BY <1>1, <2>1, <2>2
<1>2. CASE list # None /\ x \in ToSet(list)
  BY <1>2 DEF WithElement
<1>3. CASE list # None /\ x \notin ToSet(list)
  <2>1. WithElement(list, x) = Append(list, x) /\ list \in Seq(S)
    BY <1>3 DEF WithElement
  <2>2. Append(list, x) \in Seq(S) /\ ToSet(Append(list, x)) = ToSet(list) \cup {x}
    BY <2>1 DEF ToSet
  <2>. QED
    BY <1>3, <2>1, <2>2
<1>. QED
  BY <1>1, <1>2, <1>3

LEMMA RemovedIs ==
  ASSUME NEW S, NEW list \in Seq(S), NEW i \in DOMAIN list
  PROVE  RemoveAt(list, i) \in Seq(S) /\ ToSet(RemoveAt(list, i)) \subseteq ToSet(list)
<1>1. i \in 1 .. Len(list) /\ Len(list) \in Nat
  OBVIOUS
<1> DEFINE l == SubSeq(list, 1, i - 1)
           r == SubSeq(list, i + 1, Len(list))
<1>2. l \in Seq(S) /\ Len(l) = i - 1 /\ \A j \in 1 .. (i - 1) : l[j] = list[j]
  BY <1>1
<1>3. /\ r \in Seq(S) /\ Len(r) = Len(list) - i
      /\ \A j \in 1 .. (Len(list) - i) : r[j] = list[i + j]
  BY <1>1
<1>4. RemoveAt(list, i) = l \o r
  BY DEF RemoveAt
<1> HIDE DEF l, r
<1>5. /\ l \o r \in Seq(S) /\ Len(l \o r) = Len(list) - 1
      /\ \A j \in 1 .. (Len(list) - 1) : (l \o r)[j] = IF j <= i - 1 THEN l[j] ELSE r[j - (i - 1)]
  <2>1. /\ l \o r \in Seq(S) /\ Len(l \o r) = Len(l) + Len(r)
        /\ \A j \in 1 .. (Len(l) + Len(r)) : (l \o r)[j] = IF j <= Len(l) THEN l[j] ELSE r[j - Len(l)]
    BY <1>2, <1>3, ConcatIs
  <2>2. Len(l) = i - 1 /\ Len(l) + Len(r) = Len(list) - 1
    BY <1>1, <1>2, <1>3
  <2>. QED
    BY <2>1, <2>2
<1>6. ASSUME NEW j \in 1 .. (Len(list) - 1) PROVE \E k \in 1 .. Len(list) : (l \o r)[j] = list[k]
  <2>1. CASE j <= i - 1
    BY <1>1, <1>2, <1>5, <2>1
  <2>2. CASE ~(j <= i - 1)
    <3>1. j - (i - 1) \in 1 .. (Len(list) - i) /\ i + (j - (i - 1)) = j + 1 /\ j + 1 \in 1 .. Len(list)
      BY <1>1, <2>2
    <3>2. (l \o r)[j] = r[j - (i - 1)]
      BY <1>5, <2>2
    <3>. QED
      BY <1>3, <3>1, <3>2
  <2>. QED
    BY <2>1, <2>2
<1> DEFINE w == l \o r
<1>7. DOMAIN w = 1 .. (Len(list) - 1) /\ DOMAIN list = 1 .. Len(list)
  BY <1>1, <1>5
<1> HIDE DEF w
<1>8. ToSet(w) \subseteq ToSet(list)
  BY <1>6, <1>7 DEF ToSet, w
<1>. QED
  BY <1>4, <1>5, <1>8 DEF w

LEMMA AppendedIs ==
  ASSUME NEW S, NEW list \in Seq(S), NEW x \in S
  PROVE  Append(list, x) \in Seq(S) /\ ToSet(Append(list, x)) = ToSet(list) \cup {x}
<1> DEFINE new == Append(list, x)
           n == Len(list)
<1>1. new \in Seq(S) /\ Len(new) = n + 1 /\ n \in Nat
  OBVIOUS
<1>2. new[n + 1] = x /\ \A i \in 1 .. n : new[i] = list[i]
  OBVIOUS
<1>3. DOMAIN new = 1 .. (n + 1) /\ DOMAIN list = 1 .. n
  BY <1>1
<1> HIDE DEF new, n
<1>4. \A i \in 1 .. (n + 1) : i = n + 1 \/ i \in 1 .. n
  BY <1>1
<1>5. n + 1 \in 1 .. (n + 1) /\ \A i \in 1 .. n : i \in 1 .. (n + 1)
  BY <1>1
<1>6. ToSet(new) \subseteq ToSet(list) \cup {x}
  BY <1>2, <1>3, <1>4 DEF ToSet
<1>7. ToSet(list) \cup {x} \subseteq ToSet(new)
  BY <1>2, <1>3, <1>5 DEF ToSet
<1>. QED
  BY <1>1, <1>6, <1>7 DEF new

LEMMA WithoutElementIs ==
  ASSUME NEW S, NEW list \in Seq(S), NEW x \in ToSet(list)
  PROVE  WithoutElement(list, x) \in Seq(S) /\ ToSet(WithoutElement(list, x)) \subseteq ToSet(list)
<1>1. (CHOOSE i \in DOMAIN list : list[i] = x) \in DOMAIN list
  BY DEF ToSet
<1>. QED
  BY <1>1, RemovedIs DEF WithoutElement

-----------------------------------------------------------------------------
(* The indexes.  K is what is known of chunks: which content they have.    *)

Sound(trees, K) ==
  \A t \in Contents : \A v : Has(trees.by_checksum, t, v) => \A chunk \in ToSet(v) : <<chunk, t>> \in K

LEMMA FieldsOf ==
  ASSUME NEW trees \in IndexTrees
  PROVE  /\ trees.by_chunk_id \in TreesOver(Contents \cup {None})
         /\ trees.by_checksum \in TreesOver(Seq(ChunkIds))
         /\ trees.used_by \in TreesOver(Seq(Names))
  BY DEF IndexTrees

LEMMA ContentsAre == Contents \subseteq Nat
  BY GreenAlbatrossAssumption

LEMMA WithIndexes ==
  ASSUME NEW trees \in IndexTrees, NEW chunk \in ChunkIds, NEW token \in Contents, NEW n \in Names
  PROVE  IndexesWith(trees, chunk, token, n) \in IndexTrees
<1> DEFINE cs == WithElement(lookup(trees.by_checksum, token, None), chunk)
           us == WithElement(lookup(trees.used_by, chunk, None), n)
<1>1. chunk \in Nat /\ token \in Nat
  BY ChunksAre, ContentsAre
<1>2. insert(trees.by_chunk_id, chunk, token) \in TreesOver(Contents \cup {None})
  BY <1>1, FieldsOf, Inserting
<1>3. cs \in Seq(ChunkIds)
  BY <1>1, FieldsOf, Looking, WithElementIs
<1>4. us \in Seq(Names)
  BY <1>1, FieldsOf, Looking, WithElementIs
<1> HIDE DEF cs, us
<1>5. insert(trees.by_checksum, token, cs) \in TreesOver(Seq(ChunkIds))
  BY <1>1, <1>3, FieldsOf, Inserting
<1>6. insert(trees.used_by, chunk, us) \in TreesOver(Seq(Names))
  BY <1>1, <1>4, FieldsOf, Inserting
<1>. QED
  BY <1>2, <1>5, <1>6 DEF IndexesWith, IndexTrees, cs, us

LEMMA SoundFind ==
  ASSUME NEW K, NEW trees \in IndexTrees, Sound(trees, K), NEW token \in Contents,
         NEW chunk \in find_chunk_ids_by_token(trees, token)
  PROVE  <<chunk, token>> \in K
<1> DEFINE found == lookup(trees.by_checksum, token, None)
<1>1. found # None /\ chunk \in ToSet(found)
  BY DEF find_chunk_ids_by_token
<1>2. Has(trees.by_checksum, token, found)
  BY <1>1, FieldsOf, ContentsAre, Looking
<1> HIDE DEF found
<1>. QED
  BY <1>1, <1>2 DEF Sound

LEMMA FindsChunks ==
  ASSUME NEW trees \in IndexTrees, NEW token \in Contents
  PROVE  find_chunk_ids_by_token(trees, token) \subseteq ChunkIds
<1> DEFINE found == lookup(trees.by_checksum, token, None)
<1>1. found = None \/ found \in Seq(ChunkIds)
  BY FieldsOf, ContentsAre, Looking
<1>2. find_chunk_ids_by_token(trees, token) = IF found = None THEN {} ELSE ToSet(found)
  BY DEF find_chunk_ids_by_token
<1> HIDE DEF found
<1>. QED
  BY <1>1, <1>2 DEF ToSet

LEMMA SoundWith ==
  ASSUME NEW K, NEW trees \in IndexTrees, Sound(trees, K), NEW n,
         NEW chunk \in ChunkIds, NEW token \in Contents, <<chunk, token>> \in K
  PROVE  Sound(IndexesWith(trees, chunk, token, n), K)
<1> DEFINE old == trees.by_checksum
           found == lookup(old, token, None)
           cs == WithElement(found, chunk)
           new == insert(old, token, cs)
<1>1. old \in TreesOver(Seq(ChunkIds)) /\ token \in Nat
  BY FieldsOf, ContentsAre
<1>2. found = None \/ (Has(old, token, found) /\ found \in Seq(ChunkIds))
  <2>1. \A tree \in TreesOver(Seq(ChunkIds)), key \in Nat :
          \/ lookup(tree, key, None) = None
          \/ Has(tree, key, lookup(tree, key, None)) /\ lookup(tree, key, None) \in Seq(ChunkIds)
    BY Looking
  <2> HIDE DEF old
  <2>. QED
    BY <1>1, <2>1
<1>3. IndexesWith(trees, chunk, token, n).by_checksum = new
  BY DEF IndexesWith
<1> HIDE DEF found, old
<1>4. cs \in Seq(ChunkIds) /\ \A c \in ToSet(cs) : c = chunk \/ (found # None /\ c \in ToSet(found))
  <2>1. \A list : list = None \/ list \in Seq(ChunkIds) =>
          /\ WithElement(list, chunk) \in Seq(ChunkIds)
          /\ list # None => ToSet(WithElement(list, chunk)) = ToSet(list) \cup {chunk}
          /\ list = None => ToSet(WithElement(list, chunk)) = {chunk}
    BY WithElementIs
  <2>2. found = None \/ found \in Seq(ChunkIds)
    BY <1>2
  <2>3. /\ cs \in Seq(ChunkIds)
        /\ found # None => ToSet(cs) = ToSet(found) \cup {chunk}
        /\ found = None => ToSet(cs) = {chunk}
    BY <2>1, <2>2
  <2> HIDE DEF cs
  <2>. QED
    BY <2>3
<1> HIDE DEF cs
<1>5. Inserted(old, new, token, cs)
  BY <1>1, <1>4, Inserting
<1> HIDE DEF new
<1>6. ASSUME NEW t \in Contents, NEW v, Has(new, t, v), NEW c \in ToSet(v)
      PROVE  <<c, t>> \in K
  <2>1. (t = token /\ v = cs) \/ Has(old, t, v)
    BY <1>5, <1>6, ContentsAre DEF Inserted
  <2>2. CASE Has(old, t, v)
    BY <1>6, <2>2 DEF Sound, old
  <2>3. CASE t = token /\ v = cs
    BY <1>2, <1>4, <1>6, <2>3 DEF Sound, old
  <2>. QED
    BY <2>1, <2>2, <2>3
<1>. QED
  BY <1>3, <1>6 DEF Sound

(* What IndexesWithout makes of the trees: in the first and the second     *)
(* nothing, or a key is inserted anew.                                     *)
LEMMA WithoutIndexes ==
  ASSUME NEW trees \in IndexTrees, NEW chunk \in ChunkIds, NEW n \in Names
  PROVE  /\ IndexesWithout(trees, chunk, n) \in IndexTrees
         /\ \/ IndexesWithout(trees, chunk, n).by_checksum = trees.by_checksum
            \/ \E token \in Contents, list, found \in Seq(ChunkIds) :
                 /\ Has(trees.by_checksum, token, found) /\ ToSet(list) \subseteq ToSet(found)
                 /\ IndexesWithout(trees, chunk, n).by_checksum = insert(trees.by_checksum, token, list)
<1> DEFINE users == lookup(trees.used_by, chunk, None)
           listed == users # None /\ n \in ToSet(users)
           token == lookup(trees.by_chunk_id, chunk, None)
           chunks == IF token = None THEN None ELSE lookup(trees.by_checksum, token, None)
           others == IF listed THEN WithoutElement(users, n) ELSE << >>
           unlisted == IF listed THEN insert(trees.used_by, chunk, others) ELSE trees.used_by
           ids == IF others # << >> \/ token = None THEN trees.by_chunk_id
                  ELSE insert(trees.by_chunk_id, chunk, None)
           sums == IF others # << >> \/ chunks = None \/ chunk \notin ToSet(chunks)
                   THEN trees.by_checksum
                   ELSE insert(trees.by_checksum, token, WithoutElement(chunks, chunk))
<1>1. chunk \in Nat
  BY ChunksAre
<1>2. users = None \/ users \in Seq(Names)
  BY <1>1, FieldsOf, Looking
<1>3. token = None \/ token \in Contents
  BY <1>1, FieldsOf, Looking
<1>4. chunks = None \/ (token \in Contents /\ Has(trees.by_checksum, token, chunks) /\ chunks \in Seq(ChunkIds))
  <2>1. CASE token = None
    BY <2>1
  <2>2. CASE token # None
    <3>1. token \in Contents /\ chunks = lookup(trees.by_checksum, token, None)
      BY <1>3, <2>2
    <3> HIDE DEF token, chunks
    <3>. QED
      BY <3>1, ContentsAre, FieldsOf, Looking
  <2>. QED
    BY <2>1, <2>2
<1>5. IndexesWithout(trees, chunk, n) =
        [trees EXCEPT !.used_by = unlisted, !.by_chunk_id = ids, !.by_checksum = sums]
  BY DEF IndexesWithout
<1> HIDE DEF users, token, chunks
<1>6. listed => others \in Seq(Names)
  BY <1>2, WithoutElementIs
<1> HIDE DEF others
<1>7. unlisted \in TreesOver(Seq(Names))
  BY <1>1, <1>6, FieldsOf, Inserting
<1>8. ids \in TreesOver(Contents \cup {None})
  BY <1>1, FieldsOf, Inserting
<1>9. /\ sums \in TreesOver(Seq(ChunkIds))
      /\ \/ sums = trees.by_checksum
         \/ \E list, found \in Seq(ChunkIds) :
              /\ token \in Contents /\ Has(trees.by_checksum, token, found)
              /\ ToSet(list) \subseteq ToSet(found)
              /\ sums = insert(trees.by_checksum, token, list)
  <2>1. CASE others # << >> \/ chunks = None \/ chunk \notin ToSet(chunks)
    BY <2>1, FieldsOf
  <2>2. CASE ~(others # << >> \/ chunks = None \/ chunk \notin ToSet(chunks))
    <3>1. /\ WithoutElement(chunks, chunk) \in Seq(ChunkIds)
          /\ ToSet(WithoutElement(chunks, chunk)) \subseteq ToSet(chunks)
      BY <1>4, <2>2, WithoutElementIs
    <3>2. token \in Contents /\ Has(trees.by_checksum, token, chunks) /\ chunks \in Seq(ChunkIds)
      BY <1>4, <2>2
    <3>3. sums = insert(trees.by_checksum, token, WithoutElement(chunks, chunk))
      BY <2>2
    <3>4. sums \in TreesOver(Seq(ChunkIds))
      BY <3>1, <3>2, <3>3, ContentsAre, FieldsOf, Inserting
    <3> HIDE DEF sums
    <3>. QED
      BY <3>1, <3>2, <3>3, <3>4
  <2>. QED
    BY <2>1, <2>2
<1> HIDE DEF ids, sums, unlisted
<1>10. IndexesWithout(trees, chunk, n) \in IndexTrees
  BY <1>5, <1>7, <1>8, <1>9 DEF IndexTrees
<1>11. IndexesWithout(trees, chunk, n).by_checksum = sums
  BY <1>5 DEF IndexTrees
<1>. QED
  BY <1>9, <1>10, <1>11

LEMMA SoundWithout ==
  ASSUME NEW K, NEW trees \in IndexTrees, Sound(trees, K), NEW chunk \in ChunkIds, NEW n \in Names
  PROVE  Sound(IndexesWithout(trees, chunk, n), K)
<1> DEFINE new == IndexesWithout(trees, chunk, n).by_checksum
           old == trees.by_checksum
<1>1. CASE new = old
  BY <1>1 DEF Sound
<1>2. ASSUME NEW token \in Contents, NEW list \in Seq(ChunkIds), NEW found \in Seq(ChunkIds),
             Has(old, token, found), ToSet(list) \subseteq ToSet(found), new = insert(old, token, list)
      PROVE  Sound(IndexesWithout(trees, chunk, n), K)
  <2>1. Inserted(old, new, token, list)
    BY <1>2, FieldsOf, ContentsAre, Inserting
  <2> HIDE DEF new, old
  <2>2. ASSUME NEW t \in Contents, NEW v, Has(new, t, v), NEW c \in ToSet(v)
        PROVE  <<c, t>> \in K
    <3>1. (t = token /\ v = list) \/ Has(old, t, v)
      BY <2>1, <2>2, ContentsAre DEF Inserted
    <3>. QED
      BY <1>2, <2>2, <3>1 DEF Sound, old
  <2>. QED
    BY <2>2 DEF Sound, new
<1>. QED
  BY <1>1, <1>2, WithoutIndexes

LEMMA CommittedIndexes ==
  ASSUME NEW trees \in IndexTrees, NEW root \in IndexTrees
  PROVE  LET new == [t \in DOMAIN root |-> commit(trees[t])]
         IN  /\ new \in IndexTrees
             /\ \A K : Sound(trees, K) => Sound(new, K)
<1> DEFINE new == [t \in DOMAIN root |-> commit(trees[t])]
<1>1. DOMAIN root = {"by_chunk_id", "by_checksum", "used_by"}
  BY DEF IndexTrees
<1>2. new = [by_chunk_id |-> commit(trees.by_chunk_id), by_checksum |-> commit(trees.by_checksum),
             used_by |-> commit(trees.used_by)]
  BY <1>1
<1> HIDE DEF new
<1>3. new \in IndexTrees
  BY <1>2, FieldsOf, Committing DEF IndexTrees
<1>4. new.by_checksum = commit(trees.by_checksum)
  BY <1>2
<1>5. \A j, v : Has(new.by_checksum, j, v) => Has(trees.by_checksum, j, v)
  BY <1>4, FieldsOf, Committing
<1>6. \A K : Sound(trees, K) => Sound(new, K)
  BY <1>5 DEF Sound
<1>. QED
  BY <1>3, <1>6 DEF new

LEMMA EmptyIndexes ==
  NoTrees \in IndexTrees /\ \A K : Sound(NoTrees, K)
<1>1. \A V : EmptyTree \in TreesOver(V)
  BY EmptyIs DEF TreesOver, IsTree
<1>2. NoTrees \in IndexTrees
  BY <1>1 DEF NoTrees, IndexTrees
<1>3. NoTrees.by_checksum = EmptyTree
  BY DEF NoTrees
<1>. QED
  BY <1>2, <1>3, EmptyIs DEF Sound

-----------------------------------------------------------------------------
(* What is in memory                                                       *)

LEMMA ListedIs ==
  ASSUME Types, NEW p \in Procs
  PROVE  /\ Listed(p) \in Lists /\ DOMAIN Listed(p) \subseteq Names
         /\ \A n \in DOMAIN Listed(p) : Listed(p)[n] \in Dirs
<1>1. mem[p].names \in Lists \cup {NotLoaded} /\ listRoot \in Lists
  BY TypesOf DEF Memory, Types, DiskTypes
<1>2. Listed(p) \in Lists
  BY <1>1 DEF Listed
<1>. QED
  BY <1>2 DEF Lists

LEMMA ListsAre ==
  ASSUME NEW f \in Lists
  PROVE  /\ \A n : Restricted(f, DOMAIN f \ {n}) \in Lists
         /\ \A n \in Names, d \in Dirs : WithName(f, n, d) \in Lists
<1>1. DOMAIN f \subseteq Names /\ \A n \in DOMAIN f : f[n] \in Dirs
  BY DEF Lists
<1>2. ASSUME NEW n PROVE Restricted(f, DOMAIN f \ {n}) \in Lists
  <2>1. Restricted(f, DOMAIN f \ {n}) \in [DOMAIN f \ {n} -> Dirs]
    BY <1>1 DEF Restricted
  <2>. QED
    BY <1>1, <2>1 DEF Lists
<1>3. ASSUME NEW n \in Names, NEW d \in Dirs PROVE WithName(f, n, d) \in Lists
  <2>1. WithName(f, n, d) \in [DOMAIN f \cup {n} -> Dirs] /\ DOMAIN f \cup {n} \in SUBSET Names
    BY <1>1, <1>3 DEF WithName
  <2>. QED
    BY <2>1 DEF Lists
<1>. QED
  BY <1>2, <1>3

LEMMA OthersIs ==
  ASSUME Types, NEW p \in Procs
  PROVE  Others(p) \in Lists /\ \A n \in Names, d \in Dirs : WithName(Others(p), n, d) \in Lists
<1>1. Others(p) \in Lists
  BY ListedIs, ListsAre DEF Others
<1>. QED
  BY <1>1, ListsAre

LEMMA FieldsAre ==
  ASSUME Types, NEW p \in Procs
  PROVE  /\ mem[p].pc \in Pcs /\ mem[p].client \in Names \cup {None}
         /\ mem[p].finder \in Dirs \cup {None}
         /\ mem[p].trees \in IndexTrees \cup {Unread} /\ indexRoot \in IndexTrees
         /\ mem[p].data \in Generations \cup {NotLoaded}
         /\ mem[p].held \subseteq Parts /\ mem[p].tokens \subseteq ChunkIds \X Contents
         /\ mem[p].unused \subseteq ChunkIds /\ mem[p].promising \subseteq Uses
         /\ mem[p].bag \in Filled \cup {None}
  BY TypesOf DEF Memory, Types, DiskTypes

LEMMA CopiesAre ==
  ASSUME Types, NEW p \in Procs
  PROVE  /\ Trees(p) \in IndexTrees
         /\ mem[p].finder \in Dirs => Data(p) \in Generations
         /\ mem[p].pc \in WithFinder => mem[p].finder \in Dirs
         /\ mem[p].pc # "idle" => mem[p].client \in Names
  BY FieldsAre, TypesOf DEF Trees, Data, Types, DiskTypes, PcFits, At

(* Generations with one more generation, chunk, or one less.               *)
NewGeneration(gens) == Append(gens, IF gens = << >> THEN {} ELSE Last(gens))
WithChunk(gens, chunk) == [gens EXCEPT ![Len(gens)] = @ \cup {chunk}]

LEMMA NewGenerationIs ==
  ASSUME NEW gens \in Generations
  PROVE  /\ NewGeneration(gens) \in Generations
         /\ \A c \in AllChunks(NewGeneration(gens)) : c \in AllChunks(gens)
<1> DEFINE last == IF gens = << >> THEN {} ELSE Last(gens)
<1>1. gens \in Seq(SUBSET ChunkIds)
  BY DEF Generations
<1>2. gens # << >> => Last(gens) \in SUBSET ChunkIds /\ Last(gens) \in ToSet(gens)
  BY <1>1 DEF Last, ToSet
<1>3. last \in SUBSET ChunkIds
  BY <1>2
<1>4. \A c \in last : c \in AllChunks(gens)
  BY <1>2 DEF AllChunks
<1>5. NewGeneration(gens) = Append(gens, last)
  BY DEF NewGeneration
<1> HIDE DEF last
<1>6. Append(gens, last) \in Seq(SUBSET ChunkIds) /\ ToSet(Append(gens, last)) = ToSet(gens) \cup {last}
  BY <1>1, <1>3, AppendedIs
<1>7. \A c \in UNION ToSet(Append(gens, last)) : c \in UNION ToSet(gens) \/ c \in last
  BY <1>6
<1>. QED
  BY <1>4, <1>5, <1>6, <1>7 DEF Generations, AllChunks

LEMMA WithChunkIs ==
  ASSUME NEW gens \in Generations, NEW chunk \in ChunkIds
  PROVE  /\ WithChunk(gens, chunk) \in Generations
         /\ \A c \in AllChunks(WithChunk(gens, chunk)) : c = chunk \/ c \in AllChunks(gens)
<1> DEFINE new == WithChunk(gens, chunk)
<1>1. gens \in Seq(SUBSET ChunkIds) /\ Len(gens) \in Nat
  BY DEF Generations
<1>2. new \in Seq(SUBSET ChunkIds) /\ Len(new) = Len(gens)
  <2>1. DOMAIN gens = 1 .. Len(gens) /\ \A j \in 1 .. Len(gens) : gens[j] \in SUBSET ChunkIds
    BY <1>1
  <2>2. DOMAIN new = 1 .. Len(gens) /\ \A j \in 1 .. Len(gens) : new[j] \in SUBSET ChunkIds
    BY <2>1 DEF WithChunk
  <2>3. new = [j \in 1 .. Len(gens) |-> new[j]]
    BY <2>1 DEF WithChunk
  <2> HIDE DEF new
  <2>4. new \in [1 .. Len(gens) -> SUBSET ChunkIds]
    BY <2>2, <2>3
  <2>. QED
    BY <1>1, <2>4
<1>3. \A i \in 1 .. Len(gens) : new[i] \subseteq gens[i] \cup {chunk}
  BY <1>1 DEF WithChunk
<1>4. DOMAIN new = 1 .. Len(gens) /\ DOMAIN gens = 1 .. Len(gens)
  BY <1>1, <1>2
<1> HIDE DEF new
<1>5. ASSUME NEW c \in UNION ToSet(new), c # chunk PROVE c \in UNION ToSet(gens)
  <2>1. PICK i \in 1 .. Len(gens) : c \in new[i]
    BY <1>4, <1>5 DEF ToSet
  <2>2. c \in gens[i]
    BY <1>3, <1>5, <2>1
  <2>. QED
    BY <1>4, <2>2 DEF ToSet
<1>. QED
  BY <1>2, <1>5 DEF Generations, AllChunks, new

LEMMA ShorterIs ==
  ASSUME NEW gens \in Generations, NEW i \in DOMAIN gens
  PROVE  /\ RemoveAt(gens, i) \in Generations /\ gens[i] \in SUBSET ChunkIds
         /\ \A c \in AllChunks(RemoveAt(gens, i)) : c \in AllChunks(gens)
<1>1. gens \in Seq(SUBSET ChunkIds) /\ Len(gens) \in Nat /\ i \in 1 .. Len(gens)
  BY DEF Generations
<1> DEFINE w == RemoveAt(gens, i)
<1>2. w \in Seq(SUBSET ChunkIds) /\ ToSet(w) \subseteq ToSet(gens)
  BY <1>1, RemovedIs
<1> HIDE DEF w
<1>3. \A c \in UNION ToSet(w) : c \in UNION ToSet(gens)
  BY <1>2
<1>. QED
  BY <1>1, <1>2, <1>3 DEF Generations, AllChunks, w

LEMMA remove_client_effect ==
  ASSUME Types, NEW p \in Procs, remove_client(p)
  PROVE  /\ Only(p, {"pc", "names"})
         /\ mem'[p].pc = "list changed"
         /\ mem'[p].names = Others(p)
<1> DEFINE m == [mem[p] EXCEPT !.pc = "list changed",
                               !.names = Others(p)]
<1>1. mem[p] \in Memory
  BY TypesOf
<1>2. /\ "list changed" \in Pcs
      /\ Others(p) \in Lists
  BY OthersIs DEF Pcs
<1>3. m \in Memory
  BY <1>1, <1>2 DEF Memory
<1>4. mem' = [mem EXCEPT ![p] = m]
  BY <1>1 DEF remove_client, Types
<1>5. OnlyOf(p) /\ mem'[p] = m
  BY <1>3, <1>4, Became
<1>. QED
  BY <1>1, <1>5 DEF Memory, Only, Fields

LEMMA rename_client_effect ==
  ASSUME Types, NEW p \in Procs, NEW new \in Names, rename_client(p, new)
  PROVE  /\ Only(p, {"pc", "names"})
         /\ mem'[p].pc = "list changed"
         /\ mem'[p].names = WithName(Others(p), new, Listed(p)[mem[p].client])
<1> DEFINE m == [mem[p] EXCEPT !.pc = "list changed",
                               !.names = WithName(Others(p), new, Listed(p)[mem[p].client])]
<1>1. mem[p] \in Memory
  BY TypesOf
<1>2. /\ "list changed" \in Pcs
      /\ WithName(Others(p), new, Listed(p)[mem[p].client]) \in Lists
  BY OthersIs, ListedIs DEF Pcs, rename_client
<1>3. m \in Memory
  BY <1>1, <1>2 DEF Memory
<1>4. mem' = [mem EXCEPT ![p] = m]
  BY <1>1 DEF rename_client, Types
<1>5. OnlyOf(p) /\ mem'[p] = m
  BY <1>3, <1>4, Became
<1>. QED
  BY <1>1, <1>5 DEF Memory, Only, Fields

LEMMA commit_client_list_effect ==
  ASSUME Types, NEW p \in Procs, commit_client_list(p)
  PROVE  /\ Only(p, {"pc"})
         /\ mem'[p].pc = "list committed"
<1> DEFINE m == [mem[p] EXCEPT !.pc = "list committed"]
<1>1. mem[p] \in Memory
  BY TypesOf
<1>2. "list committed" \in Pcs
  BY DEF Pcs
<1>3. m \in Memory
  BY <1>1, <1>2 DEF Memory
<1>4. mem' = [mem EXCEPT ![p] = m]
  BY <1>1 DEF commit_client_list, Types
<1>5. OnlyOf(p) /\ mem'[p] = m
  BY <1>3, <1>4, Became
<1>. QED
  BY <1>1, <1>5 DEF Memory, Only, Fields

LEMMA unlock_client_list_effect ==
  ASSUME Types, NEW p \in Procs, unlock_client_list(p)
  PROVE  /\ Only(p, {"pc", "held", "names"})
         /\ mem'[p].pc = (IF mem[p].command = "backup" THEN "find" ELSE "exit")
         /\ mem'[p].held = {}
         /\ mem'[p].names = NotLoaded
<1> DEFINE pc_ == IF mem[p].command = "backup" THEN "find" ELSE "exit"
           m == [mem[p] EXCEPT !.pc = pc_,
                               !.held = {},
                               !.names = NotLoaded]
<1>1. mem[p] \in Memory
  BY TypesOf
<1>2. /\ pc_ \in Pcs
      /\ {} \in SUBSET Parts
      /\ NotLoaded \in Lists \cup {NotLoaded}
  BY DEF Pcs
<1> HIDE DEF pc_
<1>3. m \in Memory
  BY <1>1, <1>2 DEF Memory
<1>4. mem' = [mem EXCEPT ![p] = m]
  BY <1>1 DEF unlock_client_list, Types, pc_
<1>5. OnlyOf(p) /\ mem'[p] = m
  BY <1>3, <1>4, Became
<1>. QED
  BY <1>1, <1>5 DEF Memory, Only, Fields, pc_

LEMMA find_client_effect ==
  ASSUME Types, NEW p \in Procs, find_client(p)
  PROVE  /\ Only(p, {"names", "trees", "pc", "finder"})
         /\ mem'[p].names = Listed(p)
         /\ mem'[p].trees = (IF mem[p].command = "continue" THEN indexRoot ELSE mem[p].trees)
         /\ mem'[p].pc = (IF mem[p].client \in DOMAIN Listed(p) THEN "found" ELSE "exit")
         /\ mem'[p].finder = (IF mem[p].client \in DOMAIN Listed(p) THEN Listed(p)[mem[p].client] ELSE None)
<1> DEFINE trees_ == IF mem[p].command = "continue" THEN indexRoot ELSE mem[p].trees
           pc_ == IF mem[p].client \in DOMAIN Listed(p) THEN "found" ELSE "exit"
           finder_ == IF mem[p].client \in DOMAIN Listed(p) THEN Listed(p)[mem[p].client] ELSE None
           m == [mem[p] EXCEPT !.names = Listed(p),
                               !.trees = trees_,
                               !.pc = pc_,
                               !.finder = finder_]
<1>1. mem[p] \in Memory
  BY TypesOf
<1>2. /\ Listed(p) \in Lists
      /\ trees_ \in IndexTrees \cup {Unread}
      /\ pc_ \in Pcs
      /\ finder_ \in Dirs \cup {None}
  BY ListedIs, FieldsAre DEF Pcs
<1> HIDE DEF trees_, pc_, finder_
<1>3. m \in Memory
  BY <1>1, <1>2 DEF Memory
<1>4. mem' = [mem EXCEPT ![p] = m]
  BY <1>1 DEF find_client, Types, trees_, pc_, finder_
<1>5. OnlyOf(p) /\ mem'[p] = m
  BY <1>3, <1>4, Became
<1>. QED
  BY <1>1, <1>5 DEF Memory, Only, Fields, trees_, pc_, finder_

LEMMA lock_client_effect ==
  ASSUME Types, NEW p \in Procs, lock_client(p)
  PROVE  /\ Only(p, {"pc", "held", "data"})
         /\ mem'[p].pc = (IF mem[p].command = "backup" THEN "initialise" ELSE "create")
         /\ mem'[p].held = {mem[p].finder}
         /\ mem'[p].data = NotLoaded
<1> DEFINE pc_ == IF mem[p].command = "backup" THEN "initialise" ELSE "create"
           m == [mem[p] EXCEPT !.pc = pc_,
                               !.held = {mem[p].finder},
                               !.data = NotLoaded]
<1>1. mem[p] \in Memory
  BY TypesOf
<1>2. /\ pc_ \in Pcs
      /\ {mem[p].finder} \in SUBSET Parts
      /\ NotLoaded \in Generations \cup {NotLoaded}
  BY TypesOf DEF Pcs, Parts, PcFits, WithFinder, At, lock_client
<1> HIDE DEF pc_
<1>3. m \in Memory
  BY <1>1, <1>2 DEF Memory
<1>4. mem' = [mem EXCEPT ![p] = m]
  BY <1>1 DEF lock_client, Types, pc_
<1>5. OnlyOf(p) /\ mem'[p] = m
  BY <1>3, <1>4, Became
<1>. QED
  BY <1>1, <1>5 DEF Memory, Only, Fields, pc_

LEMMA create_generation_effect ==
  ASSUME Types, NEW p \in Procs, create_generation(p)
  PROVE  /\ Only(p, {"pc", "data"})
         /\ mem'[p].pc = "walk"
         /\ mem'[p].data = NewGeneration(Data(p))
<1> DEFINE m == [mem[p] EXCEPT !.pc = "walk",
                               !.data = NewGeneration(Data(p))]
<1>1. mem[p] \in Memory
  BY TypesOf
<1>2. /\ "walk" \in Pcs
      /\ NewGeneration(Data(p)) \in Generations
  BY CopiesAre, NewGenerationIs DEF Pcs, create_generation, At, WithFinder
<1>3. m \in Memory
  BY <1>1, <1>2 DEF Memory
<1>4. mem' = [mem EXCEPT ![p] = m]
  BY <1>1 DEF create_generation, NewGeneration, Types
<1>5. OnlyOf(p) /\ mem'[p] = m
  BY <1>3, <1>4, Became
<1>. QED
  BY <1>1, <1>5 DEF Memory, Only, Fields

LEMMA flush_chunks_effect ==
  ASSUME Types, NEW p \in Procs, flush_chunks(p)
  PROVE  /\ Only(p, {"pc", "bag"})
         /\ mem'[p].pc = "commit"
         /\ mem'[p].bag = None
<1> DEFINE m == [mem[p] EXCEPT !.pc = "commit",
                               !.bag = None]
<1>1. mem[p] \in Memory
  BY TypesOf
<1>2. /\ "commit" \in Pcs
      /\ None \in Filled \cup {None}
  BY DEF Pcs
<1>3. m \in Memory
  BY <1>1, <1>2 DEF Memory
<1>4. mem' = [mem EXCEPT ![p] = m]
  BY <1>1 DEF flush_chunks, Types
<1>5. OnlyOf(p) /\ mem'[p] = m
  BY <1>3, <1>4, Became
<1>. QED
  BY <1>1, <1>5 DEF Memory, Only, Fields

LEMMA commit_client_effect ==
  ASSUME Types, NEW p \in Procs, commit_client(p)
  PROVE  /\ Only(p, {"data", "pc"})
         /\ mem'[p].data = Data(p)
         /\ mem'[p].pc = (IF mem[p].command = "forget" THEN "commit indexes" ELSE "unlock client")
<1> DEFINE pc_ == IF mem[p].command = "forget" THEN "commit indexes" ELSE "unlock client"
           m == [mem[p] EXCEPT !.data = Data(p),
                               !.pc = pc_]
<1>1. mem[p] \in Memory
  BY TypesOf
<1>2. /\ Data(p) \in Generations
      /\ pc_ \in Pcs
  BY CopiesAre DEF Pcs, commit_client, WithFinder, At
<1> HIDE DEF pc_
<1>3. m \in Memory
  BY <1>1, <1>2 DEF Memory
<1>4. mem' = [mem EXCEPT ![p] = m]
  BY <1>1 DEF commit_client, Types, pc_
<1>5. OnlyOf(p) /\ mem'[p] = m
  BY <1>3, <1>4, Became
<1>. QED
  BY <1>1, <1>5 DEF Memory, Only, Fields, pc_

LEMMA unlock_client_effect ==
  ASSUME Types, NEW p \in Procs, unlock_client(p)
  PROVE  /\ Only(p, {"pc", "held", "data"})
         /\ mem'[p].pc = "commit indexes"
         /\ mem'[p].held = mem[p].held \ {mem[p].finder}
         /\ mem'[p].data = NotLoaded
<1> DEFINE m == [mem[p] EXCEPT !.pc = "commit indexes",
                               !.held = mem[p].held \ {mem[p].finder},
                               !.data = NotLoaded]
<1>1. mem[p] \in Memory
  BY TypesOf
<1>2. /\ "commit indexes" \in Pcs
      /\ mem[p].held \ {mem[p].finder} \in SUBSET Parts
      /\ NotLoaded \in Generations \cup {NotLoaded}
  BY FieldsAre DEF Pcs
<1>3. m \in Memory
  BY <1>1, <1>2 DEF Memory
<1>4. mem' = [mem EXCEPT ![p] = m]
  BY <1>1 DEF unlock_client, Types
<1>5. OnlyOf(p) /\ mem'[p] = m
  BY <1>3, <1>4, Became
<1>. QED
  BY <1>1, <1>5 DEF Memory, Only, Fields

LEMMA lock_chunk_indexes_effect ==
  ASSUME Types, NEW p \in Procs, lock_chunk_indexes(p)
  PROVE  /\ Only(p, {"pc", "held", "trees", "promising"})
         /\ mem'[p].pc = (IF mem[p].pc = "walk" THEN "share" ELSE "initialised")
         /\ mem'[p].held = mem[p].held \cup {IndexPart}
         /\ mem'[p].trees = Unread
         /\ mem'[p].promising = promised
<1> DEFINE pc_ == IF mem[p].pc = "walk" THEN "share" ELSE "initialised"
           m == [mem[p] EXCEPT !.pc = pc_,
                               !.held = mem[p].held \cup {IndexPart},
                               !.trees = Unread,
                               !.promising = promised]
<1>1. mem[p] \in Memory
  BY TypesOf
<1>2. /\ pc_ \in Pcs
      /\ mem[p].held \cup {IndexPart} \in SUBSET Parts
      /\ Unread \in IndexTrees \cup {Unread}
      /\ promised \in SUBSET Uses
  BY FieldsAre DEF Pcs, Parts, Types, DiskTypes
<1> HIDE DEF pc_
<1>3. m \in Memory
  BY <1>1, <1>2 DEF Memory
<1>4. mem' = [mem EXCEPT ![p] = m]
  BY <1>1 DEF lock_chunk_indexes, Types, pc_
<1>5. OnlyOf(p) /\ mem'[p] = m
  BY <1>3, <1>4, Became
<1>. QED
  BY <1>1, <1>5 DEF Memory, Only, Fields, pc_

LEMMA MemoryWithUse ==
  ASSUME NEW m \in Memory, NEW trees \in IndexTrees, NEW tokens \in SUBSET (ChunkIds \X Contents),
         NEW promising \in SUBSET Uses
  PROVE  [m EXCEPT !.trees = trees, !.tokens = tokens, !.promising = promising] \in Memory
  BY DEF Memory

LEMMA put_chunk_into_indexes_effect ==
  ASSUME Types, NEW p \in Procs, NEW chunk \in ChunkIds, NEW token \in Contents, put_chunk_into_indexes(p, chunk, token)
  PROVE  /\ Only(p, {"trees", "tokens", "promising"})
         /\ mem'[p].trees = IndexesWith(Trees(p), chunk, token, mem[p].client)
         /\ mem'[p].tokens = mem[p].tokens \ {<<chunk, token>>}
         /\ mem'[p].promising = mem[p].promising \cup {<<chunk, token, mem[p].client>>}
<1> DEFINE m == [mem[p] EXCEPT !.trees = IndexesWith(Trees(p), chunk, token, mem[p].client),
                               !.tokens = mem[p].tokens \ {<<chunk, token>>},
                               !.promising = mem[p].promising \cup {<<chunk, token, mem[p].client>>}]
<1>1. mem[p] \in Memory
  BY TypesOf
<1>2. /\ IndexesWith(Trees(p), chunk, token, mem[p].client) \in IndexTrees
      /\ mem[p].tokens \ {<<chunk, token>>} \in SUBSET (ChunkIds \X Contents)
      /\ mem[p].promising \cup {<<chunk, token, mem[p].client>>} \in SUBSET Uses
  BY CopiesAre, FieldsAre, WithIndexes DEF Uses, put_chunk_into_indexes, At
<1>3. m \in Memory
  BY <1>1, <1>2, MemoryWithUse
<1>4. mem' = [mem EXCEPT ![p] = m]
  BY <1>1 DEF put_chunk_into_indexes, Types
<1>5. OnlyOf(p) /\ mem'[p] = m
  BY <1>3, <1>4, Became
<1>. QED
  BY <1>1, <1>5 DEF Memory, Only, Fields

LEMMA remove_chunk_from_indexes_effect ==
  ASSUME Types, NEW p \in Procs, NEW chunk \in ChunkIds, remove_chunk_from_indexes(p, chunk)
  PROVE  /\ Only(p, {"trees", "unused", "promising"})
         /\ mem'[p].trees = IndexesWithout(Trees(p), chunk, mem[p].client)
         /\ mem'[p].unused = mem[p].unused \ {chunk}
         /\ mem'[p].promising = {u \in mem[p].promising : u[1] # chunk \/ u[3] # mem[p].client}
<1> DEFINE m == [mem[p] EXCEPT !.trees = IndexesWithout(Trees(p), chunk, mem[p].client),
                               !.unused = mem[p].unused \ {chunk},
                               !.promising = {u \in mem[p].promising : u[1] # chunk \/ u[3] # mem[p].client}]
<1>1. mem[p] \in Memory
  BY TypesOf
<1>2. /\ IndexesWithout(Trees(p), chunk, mem[p].client) \in IndexTrees
      /\ mem[p].unused \ {chunk} \in SUBSET ChunkIds
      /\ {u \in mem[p].promising : u[1] # chunk \/ u[3] # mem[p].client} \in SUBSET Uses
  BY CopiesAre, FieldsAre, WithoutIndexes DEF remove_chunk_from_indexes, At
<1>3. m \in Memory
  BY <1>1, <1>2 DEF Memory
<1>4. mem' = [mem EXCEPT ![p] = m]
  BY <1>1 DEF remove_chunk_from_indexes, Types
<1>5. OnlyOf(p) /\ mem'[p] = m
  BY <1>3, <1>4, Became
<1>. QED
  BY <1>1, <1>5 DEF Memory, Only, Fields

LEMMA commit_chunk_indexes_effect ==
  ASSUME Types, NEW p \in Procs, commit_chunk_indexes(p)
  PROVE  /\ Only(p, {"trees", "pc"})
         /\ mem'[p].trees = Trees(p)
         /\ mem'[p].pc = (IF mem[p].command = "forget" THEN "choose" ELSE "unlock indexes")
<1> DEFINE pc_ == IF mem[p].command = "forget" THEN "choose" ELSE "unlock indexes"
           m == [mem[p] EXCEPT !.trees = Trees(p),
                               !.pc = pc_]
<1>1. mem[p] \in Memory
  BY TypesOf
<1>2. /\ Trees(p) \in IndexTrees
      /\ pc_ \in Pcs
  BY CopiesAre DEF Pcs
<1> HIDE DEF pc_
<1>3. m \in Memory
  BY <1>1, <1>2 DEF Memory
<1>4. mem' = [mem EXCEPT ![p] = m]
  BY <1>1 DEF commit_chunk_indexes, Types, pc_
<1>5. OnlyOf(p) /\ mem'[p] = m
  BY <1>3, <1>4, Became
<1>. QED
  BY <1>1, <1>5 DEF Memory, Only, Fields, pc_

LEMMA unlock_initialised_indexes_effect ==
  ASSUME Types, NEW p \in Procs, unlock_initialised_indexes(p)
  PROVE  /\ Only(p, {"pc", "held", "trees", "promising"})
         /\ mem'[p].pc = "create"
         /\ mem'[p].held = mem[p].held \ {IndexPart}
         /\ mem'[p].trees = Unread
         /\ mem'[p].promising = {}
<1> DEFINE m == [mem[p] EXCEPT !.pc = "create",
                               !.held = mem[p].held \ {IndexPart},
                               !.trees = Unread,
                               !.promising = {}]
<1>1. mem[p] \in Memory
  BY TypesOf
<1>2. /\ "create" \in Pcs
      /\ mem[p].held \ {IndexPart} \in SUBSET Parts
      /\ Unread \in IndexTrees \cup {Unread}
      /\ {} \in SUBSET Uses
  BY FieldsAre DEF Pcs
<1>3. m \in Memory
  BY <1>1, <1>2 DEF Memory
<1>4. mem' = [mem EXCEPT ![p] = m]
  BY <1>1 DEF unlock_initialised_indexes, Types
<1>5. OnlyOf(p) /\ mem'[p] = m
  BY <1>3, <1>4, Became
<1>. QED
  BY <1>1, <1>5 DEF Memory, Only, Fields

LEMMA unlock_everything_effect ==
  ASSUME Types, NEW p \in Procs, unlock_everything(p)
  PROVE  /\ Only(p, {"pc", "held", "names"})
         /\ mem'[p].pc = "unlock clients"
         /\ mem'[p].held = mem[p].held \ {ListPart}
         /\ mem'[p].names = NotLoaded
<1> DEFINE m == [mem[p] EXCEPT !.pc = "unlock clients",
                               !.held = mem[p].held \ {ListPart},
                               !.names = NotLoaded]
<1>1. mem[p] \in Memory
  BY TypesOf
<1>2. /\ "unlock clients" \in Pcs
      /\ mem[p].held \ {ListPart} \in SUBSET Parts
      /\ NotLoaded \in Lists \cup {NotLoaded}
  BY FieldsAre DEF Pcs
<1>3. m \in Memory
  BY <1>1, <1>2 DEF Memory
<1>4. mem' = [mem EXCEPT ![p] = m]
  BY <1>1 DEF unlock_everything, Types
<1>5. OnlyOf(p) /\ mem'[p] = m
  BY <1>3, <1>4, Became
<1>. QED
  BY <1>1, <1>5 DEF Memory, Only, Fields

LEMMA call_fails_effect ==
  ASSUME Types, NEW p \in Procs, call_fails(p)
  PROVE  /\ Only(p, {"pc"})
         /\ mem'[p].pc = (IF mem[p].pc \in {"walk", "forget"} THEN "give up" ELSE "exit")
<1> DEFINE pc_ == IF mem[p].pc \in {"walk", "forget"} THEN "give up" ELSE "exit"
           m == [mem[p] EXCEPT !.pc = pc_]
<1>1. mem[p] \in Memory
  BY TypesOf
<1>2. pc_ \in Pcs
  BY DEF Pcs
<1> HIDE DEF pc_
<1>3. m \in Memory
  BY <1>1, <1>2 DEF Memory
<1>4. mem' = [mem EXCEPT ![p] = m]
  BY <1>1 DEF call_fails, Types, pc_
<1>5. OnlyOf(p) /\ mem'[p] = m
  BY <1>3, <1>4, Became
<1>. QED
  BY <1>1, <1>5 DEF Memory, Only, Fields, pc_

LEMMA walk_fails_effect ==
  ASSUME Types, NEW p \in Procs, walk_fails(p)
  PROVE  /\ Only(p, {"pc"})
         /\ mem'[p].pc = "give up"
<1> DEFINE m == [mem[p] EXCEPT !.pc = "give up"]
<1>1. mem[p] \in Memory
  BY TypesOf
<1>2. "give up" \in Pcs
  BY DEF Pcs
<1>3. m \in Memory
  BY <1>1, <1>2 DEF Memory
<1>4. mem' = [mem EXCEPT ![p] = m]
  BY <1>1 DEF walk_fails, Types
<1>5. OnlyOf(p) /\ mem'[p] = m
  BY <1>3, <1>4, Became
<1>. QED
  BY <1>1, <1>5 DEF Memory, Only, Fields

(* What p has loaded, found, or is filling is forgotten.                   *)
Fresh(p) ==
  /\ mem'[p].names = NotLoaded /\ mem'[p].finder = None /\ mem'[p].data = NotLoaded
  /\ mem'[p].trees = Unread /\ mem'[p].bag = None /\ mem'[p].tokens = {}
  /\ mem'[p].unused = {} /\ mem'[p].promising = {}

LEMMA lock_client_list_effect ==
  ASSUME Types, NEW p \in Procs, NEW n \in Names, NEW command,
         command \in {"backup", "forget", "remove-client"}, lock_client_list(p, n, command)
  PROVE  /\ OnlyOf(p) /\ Fresh(p) /\ mem'[p].held = {ListPart}
         /\ mem'[p].pc = command /\ mem'[p].command = command /\ mem'[p].client = n
<1> DEFINE m == [Idle EXCEPT !.pc = command, !.command = command, !.client = n, !.held = {ListPart}]
<1>1. command \in Pcs /\ command \in Commands /\ {ListPart} \in SUBSET Parts
  BY DEF Pcs, Commands, Parts
<1>2. m \in Memory
  BY <1>1, IdleIs DEF Memory
<1>3. mem' = [mem EXCEPT ![p] = m]
  BY DEF lock_client_list
<1>4. OnlyOf(p) /\ mem'[p] = m
  BY <1>2, <1>3, Became
<1>. QED
  BY <1>4 DEF Idle, Fresh

LEMMA add_client_effect ==
  ASSUME Types, NEW p \in Procs, add_client(p)
  PROVE  /\ Only(p, {"pc", "names"})
         /\ mem'[p].pc = "list changed"
         /\ \/ mem'[p].names = Listed(p) /\ made' = made
            \/ \E d \in Dirs \ made : /\ made' = made \cup {d}
                                      /\ mem'[p].names = WithName(Listed(p), mem[p].client, d)
<1>1. mem[p] \in Memory
  BY TypesOf
<1>2. "list changed" \in Pcs
  BY DEF Pcs
<1>3. ASSUME NEW names \in Lists,
             mem' = [mem EXCEPT ![p] = [mem[p] EXCEPT !.pc = "list changed", !.names = names]]
      PROVE  Only(p, {"pc", "names"}) /\ mem'[p].pc = "list changed" /\ mem'[p].names = names
  <2> DEFINE m == [mem[p] EXCEPT !.pc = "list changed", !.names = names]
  <2>1. m \in Memory
    BY <1>1, <1>2 DEF Memory
  <2>2. OnlyOf(p) /\ mem'[p] = m
    BY <1>3, <2>1, Became
  <2>. QED
    BY <1>1, <2>2 DEF Memory, Only, Fields
<1>4. CASE mem[p].client \in DOMAIN Listed(p)
  <2>1. /\ mem' = [mem EXCEPT ![p] = [mem[p] EXCEPT !.pc = "list changed", !.names = Listed(p)]]
        /\ made' = made
    BY <1>1, <1>4 DEF add_client, Types
  <2>2. Listed(p) \in Lists
    BY ListedIs
  <2>. QED
    BY <1>3, <2>1, <2>2
<1>5. CASE mem[p].client \notin DOMAIN Listed(p)
  <2>1. PICK d \in Dirs \ made :
          /\ made' = made \cup {d}
          /\ mem' = [mem EXCEPT ![p] = [mem[p] EXCEPT !.pc = "list changed",
                                                      !.names = WithName(Listed(p), mem[p].client, d)]]
    BY <1>1, <1>5 DEF add_client, Types
  <2>2. WithName(Listed(p), mem[p].client, d) \in Lists
    <3>1. mem[p].client \in Names /\ Listed(p) \in Lists
      BY CopiesAre, ListedIs DEF add_client, At
    <3>. QED
      BY <3>1, ListsAre
  <2>. QED
    BY <1>3, <2>1, <2>2
<1>. QED
  BY <1>4, <1>5

LEMMA MemoryWithChunk ==
  ASSUME NEW m \in Memory, NEW trees \in IndexTrees, NEW data \in Generations,
         NEW tokens \in SUBSET (ChunkIds \X Contents)
  PROVE  [m EXCEPT !.trees = trees, !.data = data, !.tokens = tokens] \in Memory
  BY DEF Memory

LEMMA use_chunk_effect ==
  ASSUME Types, NEW p \in Procs, NEW chunk \in ChunkIds, NEW token \in Contents, use_chunk(p, chunk, token)
  PROVE  /\ Only(p, {"trees", "data", "tokens"})
         /\ mem'[p].trees = Trees(p)
         /\ mem'[p].data = WithChunk(mem[p].data, chunk)
         /\ mem'[p].tokens = mem[p].tokens \cup {<<chunk, token>>}
<1> DEFINE m == [mem[p] EXCEPT !.trees = Trees(p),
                               !.data = WithChunk(mem[p].data, chunk),
                               !.tokens = mem[p].tokens \cup {<<chunk, token>>}]
<1>1. mem[p] \in Memory
  BY TypesOf
<1>2. /\ Trees(p) \in IndexTrees
      /\ WithChunk(mem[p].data, chunk) \in Generations
      /\ mem[p].tokens \cup {<<chunk, token>>} \in SUBSET (ChunkIds \X Contents)
  BY CopiesAre, FieldsAre, TypesOf, WithChunkIs DEF use_chunk, PcFits
<1>3. m \in Memory
  BY <1>1, <1>2, MemoryWithChunk
<1>4. mem' = [mem EXCEPT ![p] = m]
  <2>1. mem' = [mem EXCEPT ![p] = append_file_chunk_id([mem[p] EXCEPT !.trees = Trees(p)], chunk, token)]
    BY DEF use_chunk, Types
  <2>2. append_file_chunk_id([mem[p] EXCEPT !.trees = Trees(p)], chunk, token) = m
    BY <1>1 DEF append_file_chunk_id, WithChunk, Memory
  <2>. QED
    BY <2>1, <2>2
<1>5. OnlyOf(p) /\ mem'[p] = m
  BY <1>3, <1>4, Became
<1>. QED
  BY <1>1, <1>5 DEF Memory, Only, Fields

LEMMA unlock_chunk_indexes_effect ==
  ASSUME Types, NEW p \in Procs, unlock_chunk_indexes(p)
  PROVE  /\ OnlyOf(p) /\ Fresh(p) /\ mem'[p].held = {}
         /\ mem'[p].pc \in {"find", "exit"} /\ mem'[p].command = "continue"
         /\ mem'[p].client = mem[p].client
<1>1. PICK continues \in BOOLEAN :
        mem' = [mem EXCEPT ![p] = [Idle EXCEPT !.pc = IF continues THEN "find" ELSE "exit",
                                               !.command = "continue", !.client = mem[p].client]]
  BY DEF unlock_chunk_indexes
<1> DEFINE pc_ == IF continues THEN "find" ELSE "exit"
           m == [Idle EXCEPT !.pc = pc_, !.command = "continue", !.client = mem[p].client]
<1>2. /\ pc_ \in Pcs /\ pc_ \in {"find", "exit"} /\ "continue" \in Commands
      /\ mem[p].client \in Names \cup {None}
  BY FieldsAre DEF Pcs, Commands
<1>3. mem' = [mem EXCEPT ![p] = m]
  BY <1>1
<1> HIDE DEF pc_
<1>4. m \in Memory
  BY <1>2, IdleIs DEF Memory
<1>5. OnlyOf(p) /\ mem'[p] = m
  BY <1>3, <1>4, Became
<1>. QED
  BY <1>2, <1>5 DEF Idle, Fresh

LEMMA exit_effect ==
  ASSUME Types, NEW p \in Procs, mem' = [mem EXCEPT ![p] = Idle]
  PROVE  OnlyOf(p) /\ Fresh(p) /\ mem'[p].held = {} /\ mem'[p].pc = "idle" /\ mem'[p].command = None
<1>1. OnlyOf(p) /\ mem'[p] = Idle
  BY IdleIs, Became
<1>. QED
  BY <1>1 DEF Idle, Fresh

LEMMA remove_generation_effect ==
  ASSUME Types, NEW p \in Procs, remove_generation(p)
  PROVE  \E i \in DOMAIN Data(p) :
           /\ Only(p, {"pc", "data", "unused"})
           /\ mem'[p].pc = "commit"
           /\ mem'[p].data = RemoveAt(Data(p), i)
           /\ mem'[p].unused = Data(p)[i] \ AllChunks(RemoveAt(Data(p), i))
<1>1. PICK i \in DOMAIN Data(p) :
        mem' = [mem EXCEPT ![p].pc = "commit", ![p].data = RemoveAt(Data(p), i),
                           ![p].unused = Data(p)[i] \ AllChunks(RemoveAt(Data(p), i))]
  BY DEF remove_generation
<1> DEFINE m == [mem[p] EXCEPT !.pc = "commit", !.data = RemoveAt(Data(p), i),
                               !.unused = Data(p)[i] \ AllChunks(RemoveAt(Data(p), i))]
<1>2. mem[p] \in Memory
  BY TypesOf
<1>3. Data(p) \in Generations
  BY FieldsAre, CopiesAre DEF remove_generation
<1>4. /\ "commit" \in Pcs
      /\ RemoveAt(Data(p), i) \in Generations
      /\ Data(p)[i] \ AllChunks(RemoveAt(Data(p), i)) \in SUBSET ChunkIds
  BY <1>3, ShorterIs DEF Pcs
<1>5. m \in Memory
  BY <1>2, <1>4 DEF Memory
<1>6. mem' = [mem EXCEPT ![p] = m]
  BY <1>1, <1>2 DEF Types
<1>7. OnlyOf(p) /\ mem'[p] = m
  BY <1>5, <1>6, Became
<1>8. /\ Only(p, {"pc", "data", "unused"})
      /\ mem'[p].pc = "commit"
      /\ mem'[p].data = RemoveAt(Data(p), i)
      /\ mem'[p].unused = Data(p)[i] \ AllChunks(RemoveAt(Data(p), i))
  BY <1>2, <1>7 DEF Memory, Only, Fields
<1>. QED
  BY <1>8

(* The parts forget locks and unlocks are parts of the repository.         *)
LEMMA PartsAre ==
  ASSUME Types, NEW p \in Procs
  PROVE  ListedDirs(p) \subseteq Dirs /\ NextParts(p) \subseteq Parts
  BY ListedIs DEF ListedDirs, NextParts, Parts

LEMMA lock_next_effect ==
  ASSUME Types, NEW p \in Procs, lock_next(p)
  PROVE  \E part \in NextParts(p) :
           /\ Free(part) /\ locks' = locks \cup {part}
           /\ Only(p, {"pc", "names", "held", "promising", "finder"})
           /\ mem'[p].names = Listed(p)
           /\ mem'[p].held = mem[p].held \cup {part}
           /\ mem'[p].pc = (IF part = IndexPart THEN "choose" ELSE "forget")
           /\ mem'[p].promising = (IF part = IndexPart THEN promised ELSE {})
           /\ mem'[p].finder = (IF mem[p].client \in DOMAIN Listed(p)
                                THEN Listed(p)[mem[p].client] ELSE None)
<1>1. PICK part \in NextParts(p) :
        /\ Free(part) /\ locks' = locks \cup {part}
        /\ mem' = [mem EXCEPT ![p].names = Listed(p), ![p].held = @ \cup {part},
                              ![p].pc = IF part = IndexPart THEN "choose" ELSE "forget",
                              ![p].promising = IF part = IndexPart THEN promised ELSE {},
                              ![p].finder = IF mem[p].client \in DOMAIN Listed(p)
                                            THEN Listed(p)[mem[p].client] ELSE None]
  BY DEF lock_next
<1> DEFINE pc_ == IF part = IndexPart THEN "choose" ELSE "forget"
           promising_ == IF part = IndexPart THEN promised ELSE {}
           finder_ == IF mem[p].client \in DOMAIN Listed(p) THEN Listed(p)[mem[p].client] ELSE None
           m == [mem[p] EXCEPT !.names = Listed(p), !.held = mem[p].held \cup {part},
                               !.pc = pc_, !.promising = promising_, !.finder = finder_]
<1>2. mem[p] \in Memory
  BY TypesOf
<1>3. pc_ \in Pcs /\ promising_ \in SUBSET Uses /\ finder_ \in Dirs \cup {None}
  <2>1. pc_ \in Pcs
    BY DEF Pcs, Commands
  <2>2. promising_ \in SUBSET Uses
    BY DEF Types, DiskTypes
  <2>3. finder_ \in Dirs \cup {None}
    BY ListedIs
  <2>. QED
    BY <2>1, <2>2, <2>3
<1>4. Listed(p) \in Lists /\ mem[p].held \cup {part} \in SUBSET Parts
  BY ListedIs, PartsAre, FieldsAre
<1>5. mem' = [mem EXCEPT ![p] = m]
  BY <1>1, <1>2 DEF Types
<1> HIDE DEF pc_, promising_, finder_
<1>6. m \in Memory
  BY <1>2, <1>3, <1>4 DEF Memory
<1>7. OnlyOf(p) /\ mem'[p] = m
  BY <1>5, <1>6, Became
<1>8. Only(p, {"pc", "names", "held", "promising", "finder"})
  BY <1>2, <1>7 DEF Memory, Only, Fields
<1>9. /\ mem'[p].names = Listed(p) /\ mem'[p].held = mem[p].held \cup {part}
      /\ mem'[p].pc = pc_ /\ mem'[p].promising = promising_ /\ mem'[p].finder = finder_
  BY <1>2, <1>7 DEF Memory
<1>. QED
  BY <1>1, <1>8, <1>9 DEF pc_, promising_, finder_

LEMMA unlock_next_effect ==
  ASSUME Types, NEW p \in Procs, unlock_next(p)
  PROVE  \E part \in (ListedDirs(p) \cap mem[p].held) \cup {IndexPart} :
           /\ part # IndexPart => part \in mem[p].held
           /\ locks' = locks \ {part}
           /\ Only(p, {"pc", "names", "held"})
           /\ mem'[p].names = Listed(p)
           /\ mem'[p].held = mem[p].held \ {part}
           /\ mem'[p].pc = (IF part = IndexPart THEN "exit" ELSE "unlock clients")
<1>1. PICK part \in (ListedDirs(p) \cap mem[p].held) \cup {IndexPart} :
        /\ locks' = locks \ {part}
        /\ mem' = [mem EXCEPT ![p].names = Listed(p), ![p].held = @ \ {part},
                              ![p].pc = IF part = IndexPart THEN "exit" ELSE @]
        /\ mem[p].pc = "unlock clients"
        /\ part # IndexPart => part \in mem[p].held
  BY DEF unlock_next, At
<1> DEFINE pc_ == IF part = IndexPart THEN "exit" ELSE "unlock clients"
           m == [mem[p] EXCEPT !.names = Listed(p), !.held = mem[p].held \ {part}, !.pc = pc_]
<1>2. mem[p] \in Memory
  BY TypesOf
<1>3. pc_ \in Pcs /\ Listed(p) \in Lists /\ mem[p].held \ {part} \in SUBSET Parts
  BY ListedIs, FieldsAre DEF Pcs
<1>4. mem' = [mem EXCEPT ![p] = m]
  BY <1>1, <1>2 DEF Types, Memory
<1> HIDE DEF pc_
<1>5. m \in Memory
  BY <1>2, <1>3 DEF Memory
<1>6. OnlyOf(p) /\ mem'[p] = m
  BY <1>4, <1>5, Became
<1>7. Only(p, {"pc", "names", "held"})
  BY <1>2, <1>6 DEF Memory, Only, Fields
<1>8. mem'[p].names = Listed(p) /\ mem'[p].held = mem[p].held \ {part} /\ mem'[p].pc = pc_
  BY <1>2, <1>6 DEF Memory
<1>. QED
  BY <1>1, <1>7, <1>8 DEF pc_

LEMMA give_up_effect ==
  ASSUME Types, NEW p \in Procs, give_up(p)
  PROVE  \/ Only(p, {"pc"}) /\ mem'[p].pc = "exit" /\ locks' = locks
         \/ \E part \in mem[p].held :
              Only(p, {"held"}) /\ mem'[p].held = mem[p].held \ {part} /\ locks' = locks \ {part}
<1>1. mem[p] \in Memory
  BY TypesOf
<1>2. CASE mem[p].held = {}
  <2> DEFINE m == [mem[p] EXCEPT !.pc = "exit"]
  <2>1. mem' = [mem EXCEPT ![p] = m] /\ locks' = locks
    BY <1>1, <1>2 DEF give_up, Types
  <2>2. "exit" \in Pcs
    BY DEF Pcs
  <2>3. m \in Memory
    BY <1>1, <2>2 DEF Memory
  <2>4. OnlyOf(p) /\ mem'[p] = m
    BY <2>1, <2>3, Became
  <2>. QED
    BY <1>1, <2>1, <2>4 DEF Memory, Only, Fields
<1>3. CASE mem[p].held # {}
  <2>1. PICK part \in mem[p].held :
          locks' = locks \ {part} /\ mem' = [mem EXCEPT ![p].held = @ \ {part}]
    BY <1>3 DEF give_up
  <2> DEFINE m == [mem[p] EXCEPT !.held = mem[p].held \ {part}]
  <2>2. mem' = [mem EXCEPT ![p] = m]
    BY <1>1, <2>1 DEF Types
  <2>3. mem[p].held \ {part} \in SUBSET Parts
    BY FieldsAre
  <2>4. m \in Memory
    BY <1>1, <2>3 DEF Memory
  <2>5. OnlyOf(p) /\ mem'[p] = m
    BY <2>2, <2>4, Became
  <2>6. Only(p, {"held"}) /\ mem'[p].held = mem[p].held \ {part}
    BY <1>1, <2>5 DEF Memory, Only, Fields
  <2>. QED
    BY <2>1, <2>6
<1>. QED
  BY <1>2, <1>3

(* The types are kept by a step of p that keeps those of the disk and of   *)
(* which the new fields of p fit where it is in its command.               *)
LEMMA FitsAfter ==
  ASSUME Types, NEW p \in Procs, OnlyOf(p), DiskTypes',
         mem'[p].pc # "idle" => mem'[p].client \in Names,
         mem'[p].pc \in WithFinder => mem'[p].finder \in Dirs,
         mem'[p].pc = "walk" => mem'[p].data \in Generations
  PROVE  Types'
<1>1. PcFits(p)'
  BY DEF PcFits, At
<1>2. ASSUME NEW q \in Procs, q # p PROVE PcFits(q)'
  BY <1>2 DEF Types, PcFits, At, OnlyOf
<1>. QED
  BY <1>1, <1>2 DEF Types, OnlyOf

LEMMA remove_client_types ==
  ASSUME Types, NEW p \in Procs, remove_client(p)
  PROVE  Types'
<1>1. DiskTypes'
  BY DEF remove_client, Types, DiskTypes, disk, Parts, At, WithFinder, Filled
<1>2. /\ OnlyOf(p)
      /\ mem'[p].pc # "idle" => mem'[p].client \in Names
      /\ mem'[p].pc \in WithFinder => mem'[p].finder \in Dirs
      /\ mem'[p].pc = "walk" => mem'[p].data \in Generations
  BY remove_client_effect, CopiesAre, FieldsAre, TypesOf DEF remove_client, At, Only, Fields, WithFinder, PcFits
<1>. QED
  BY <1>1, <1>2, FitsAfter

LEMMA rename_client_types ==
  ASSUME Types, NEW p \in Procs, NEW new \in Names, rename_client(p, new)
  PROVE  Types'
<1>1. DiskTypes'
  BY DEF rename_client, Types, DiskTypes, disk, Parts, At, WithFinder, Filled
<1>2. /\ OnlyOf(p)
      /\ mem'[p].pc # "idle" => mem'[p].client \in Names
      /\ mem'[p].pc \in WithFinder => mem'[p].finder \in Dirs
      /\ mem'[p].pc = "walk" => mem'[p].data \in Generations
  BY rename_client_effect, CopiesAre, FieldsAre, TypesOf DEF rename_client, At, Only, Fields, WithFinder, PcFits
<1>. QED
  BY <1>1, <1>2, FitsAfter

LEMMA commit_client_list_types ==
  ASSUME Types, NEW p \in Procs, commit_client_list(p)
  PROVE  Types'
<1>1. DiskTypes'
  BY ListedIs DEF commit_client_list, Types, DiskTypes, disk, Parts, At, WithFinder, Filled
<1>2. /\ OnlyOf(p)
      /\ mem'[p].pc # "idle" => mem'[p].client \in Names
      /\ mem'[p].pc \in WithFinder => mem'[p].finder \in Dirs
      /\ mem'[p].pc = "walk" => mem'[p].data \in Generations
  BY commit_client_list_effect, CopiesAre, FieldsAre, TypesOf DEF commit_client_list, At, Only, Fields, WithFinder, PcFits
<1>. QED
  BY <1>1, <1>2, FitsAfter

LEMMA unlock_client_list_types ==
  ASSUME Types, NEW p \in Procs, unlock_client_list(p)
  PROVE  Types'
<1>1. DiskTypes'
  BY DEF unlock_client_list, Types, DiskTypes, disk, Parts, At, WithFinder, Filled
<1>2. OnlyOf(p) /\ mem'[p].client = mem[p].client /\ mem'[p].finder = mem[p].finder
  BY unlock_client_list_effect DEF Only, Fields
<1>3. mem'[p].pc \in {"find", "exit"}
  BY unlock_client_list_effect
<1>4. mem[p].pc \in {"list committed"}
  BY DEF unlock_client_list, At
<1>5. mem[p].client \in Names /\ (mem[p].pc \in WithFinder => mem[p].finder \in Dirs)
  BY <1>4, CopiesAre
<1>. QED
  BY <1>1, <1>2, <1>3, <1>4, <1>5, FitsAfter DEF WithFinder

LEMMA find_client_types ==
  ASSUME Types, NEW p \in Procs, find_client(p)
  PROVE  Types'
<1>1. DiskTypes'
  BY DEF find_client, Types, DiskTypes, disk, Parts, At, WithFinder, Filled
<1>2. OnlyOf(p) /\ mem'[p].client = mem[p].client
  BY find_client_effect DEF Only, Fields
<1>3. mem'[p].pc = "exit" \/ (mem'[p].pc = "found" /\ mem'[p].finder \in Dirs)
  BY find_client_effect, ListedIs
<1>4. mem[p].client \in Names
  BY CopiesAre DEF find_client, At
<1>. QED
  BY <1>1, <1>2, <1>3, <1>4, FitsAfter DEF WithFinder

LEMMA lock_client_types ==
  ASSUME Types, NEW p \in Procs, lock_client(p)
  PROVE  Types'
<1>1. DiskTypes'
  BY CopiesAre DEF lock_client, Types, DiskTypes, disk, Parts, At, WithFinder, Filled
<1>2. OnlyOf(p) /\ mem'[p].client = mem[p].client /\ mem'[p].finder = mem[p].finder
  BY lock_client_effect DEF Only, Fields
<1>3. mem'[p].pc \in {"initialise", "create"}
  BY lock_client_effect
<1>4. mem[p].pc \in {"found"}
  BY DEF lock_client, At
<1>5. mem[p].client \in Names /\ (mem[p].pc \in WithFinder => mem[p].finder \in Dirs)
  BY <1>4, CopiesAre
<1>. QED
  BY <1>1, <1>2, <1>3, <1>4, <1>5, FitsAfter DEF WithFinder

LEMMA create_generation_types ==
  ASSUME Types, NEW p \in Procs, create_generation(p)
  PROVE  Types'
<1>1. DiskTypes'
  BY DEF create_generation, Types, DiskTypes, disk, Parts, At, WithFinder, Filled
<1>2. OnlyOf(p) /\ mem'[p].client = mem[p].client /\ mem'[p].finder = mem[p].finder
  BY create_generation_effect DEF Only, Fields
<1>3. mem[p].client \in Names /\ mem[p].finder \in Dirs
  BY CopiesAre DEF create_generation, At, WithFinder
<1>4. mem'[p].data \in Generations
  <2>1. mem'[p].data = NewGeneration(Data(p))
    BY create_generation_effect
  <2>2. Data(p) \in Generations
    BY <1>3, CopiesAre
  <2>. QED
    BY <2>1, <2>2, NewGenerationIs
<1>. QED
  BY <1>1, <1>2, <1>3, <1>4, FitsAfter

LEMMA use_chunk_types ==
  ASSUME Types, NEW p \in Procs, NEW chunk \in ChunkIds, NEW token \in Contents, use_chunk(p, chunk, token)
  PROVE  Types'
<1>1. DiskTypes'
  BY DEF use_chunk, Types, DiskTypes, disk, Parts, At, WithFinder, Filled
<1>2. OnlyOf(p) /\ mem'[p].client = mem[p].client /\ mem'[p].finder = mem[p].finder
  BY use_chunk_effect DEF Only, Fields
<1>3. mem[p].client \in Names /\ mem[p].finder \in Dirs
  BY CopiesAre DEF use_chunk, At, WithFinder
<1>4. mem'[p].data \in Generations
  <2>1. mem'[p].data = WithChunk(mem[p].data, chunk)
    BY use_chunk_effect
  <2>2. mem[p].data \in Generations
    BY TypesOf DEF use_chunk, PcFits
  <2>. QED
    BY <2>1, <2>2, WithChunkIs
<1>. QED
  BY <1>1, <1>2, <1>3, <1>4, FitsAfter

LEMMA flush_chunks_types ==
  ASSUME Types, NEW p \in Procs, flush_chunks(p)
  PROVE  Types'
<1>1. DiskTypes'
  BY FieldsAre DEF flush_chunks, Types, DiskTypes, disk, Parts, At, WithFinder, Filled
<1>2. /\ OnlyOf(p)
      /\ mem'[p].pc # "idle" => mem'[p].client \in Names
      /\ mem'[p].pc \in WithFinder => mem'[p].finder \in Dirs
      /\ mem'[p].pc = "walk" => mem'[p].data \in Generations
  BY flush_chunks_effect, CopiesAre, FieldsAre, TypesOf DEF flush_chunks, At, Only, Fields, WithFinder, PcFits
<1>. QED
  BY <1>1, <1>2, FitsAfter

LEMMA commit_client_types ==
  ASSUME Types, NEW p \in Procs, commit_client(p)
  PROVE  Types'
<1>1. DiskTypes'
  BY CopiesAre, FieldsAre DEF commit_client, Types, DiskTypes, disk, Parts, At, WithFinder, Filled
<1>2. /\ OnlyOf(p)
      /\ mem'[p].pc # "idle" => mem'[p].client \in Names
      /\ mem'[p].pc \in WithFinder => mem'[p].finder \in Dirs
      /\ mem'[p].pc = "walk" => mem'[p].data \in Generations
  BY commit_client_effect, CopiesAre, FieldsAre, TypesOf DEF commit_client, At, Only, Fields, WithFinder, PcFits
<1>. QED
  BY <1>1, <1>2, FitsAfter

LEMMA unlock_client_types ==
  ASSUME Types, NEW p \in Procs, unlock_client(p)
  PROVE  Types'
<1>1. DiskTypes'
  BY DEF unlock_client, Types, DiskTypes, disk, Parts, At, WithFinder, Filled
<1>2. /\ OnlyOf(p)
      /\ mem'[p].pc # "idle" => mem'[p].client \in Names
      /\ mem'[p].pc \in WithFinder => mem'[p].finder \in Dirs
      /\ mem'[p].pc = "walk" => mem'[p].data \in Generations
  BY unlock_client_effect, CopiesAre, FieldsAre, TypesOf DEF unlock_client, At, Only, Fields, WithFinder, PcFits
<1>. QED
  BY <1>1, <1>2, FitsAfter

LEMMA lock_chunk_indexes_types ==
  ASSUME Types, NEW p \in Procs, lock_chunk_indexes(p)
  PROVE  Types'
<1>1. DiskTypes'
  BY DEF lock_chunk_indexes, Types, DiskTypes, disk, Parts, At, WithFinder, Filled
<1>2. OnlyOf(p) /\ mem'[p].client = mem[p].client /\ mem'[p].finder = mem[p].finder
  BY lock_chunk_indexes_effect DEF Only, Fields
<1>3. mem'[p].pc \in {"initialised", "share"}
  BY lock_chunk_indexes_effect
<1>4. mem[p].pc \in {"initialise", "walk"}
  BY DEF lock_chunk_indexes, At
<1>5. mem[p].client \in Names /\ (mem[p].pc \in WithFinder => mem[p].finder \in Dirs)
  BY <1>4, CopiesAre
<1>. QED
  BY <1>1, <1>2, <1>3, <1>4, <1>5, FitsAfter DEF WithFinder

LEMMA put_chunk_into_indexes_types ==
  ASSUME Types, NEW p \in Procs, NEW chunk \in ChunkIds, NEW token \in Contents, put_chunk_into_indexes(p, chunk, token)
  PROVE  Types'
<1>1. DiskTypes'
  BY DEF put_chunk_into_indexes, Types, DiskTypes, disk, Parts, At, WithFinder, Filled
<1>2. /\ OnlyOf(p)
      /\ mem'[p].pc # "idle" => mem'[p].client \in Names
      /\ mem'[p].pc \in WithFinder => mem'[p].finder \in Dirs
      /\ mem'[p].pc = "walk" => mem'[p].data \in Generations
  BY put_chunk_into_indexes_effect, CopiesAre, FieldsAre, TypesOf DEF put_chunk_into_indexes, At, Only, Fields, WithFinder, PcFits
<1>. QED
  BY <1>1, <1>2, FitsAfter

LEMMA remove_chunk_from_indexes_types ==
  ASSUME Types, NEW p \in Procs, NEW chunk \in ChunkIds, remove_chunk_from_indexes(p, chunk)
  PROVE  Types'
<1>1. DiskTypes'
  BY DEF remove_chunk_from_indexes, Types, DiskTypes, disk, Parts, At, WithFinder, Filled
<1>2. /\ OnlyOf(p)
      /\ mem'[p].pc # "idle" => mem'[p].client \in Names
      /\ mem'[p].pc \in WithFinder => mem'[p].finder \in Dirs
      /\ mem'[p].pc = "walk" => mem'[p].data \in Generations
  BY remove_chunk_from_indexes_effect, CopiesAre, FieldsAre, TypesOf DEF remove_chunk_from_indexes, At, Only, Fields, WithFinder, PcFits
<1>. QED
  BY <1>1, <1>2, FitsAfter

LEMMA commit_chunk_indexes_types ==
  ASSUME Types, NEW p \in Procs, commit_chunk_indexes(p)
  PROVE  Types'
<1>1. DiskTypes'
  BY CopiesAre, FieldsAre, CommittedIndexes DEF commit_chunk_indexes, Types, DiskTypes, disk, Parts, At, WithFinder, Filled
<1>2. OnlyOf(p) /\ mem'[p].client = mem[p].client /\ mem'[p].finder = mem[p].finder
  BY commit_chunk_indexes_effect DEF Only, Fields
<1>3. mem'[p].pc \in {"choose", "unlock indexes"}
  BY commit_chunk_indexes_effect
<1>4. mem[p].pc \in {"commit indexes"}
  BY DEF commit_chunk_indexes, At
<1>5. mem[p].client \in Names /\ (mem[p].pc \in WithFinder => mem[p].finder \in Dirs)
  BY <1>4, CopiesAre
<1>. QED
  BY <1>1, <1>2, <1>3, <1>4, <1>5, FitsAfter DEF WithFinder

LEMMA unlock_initialised_indexes_types ==
  ASSUME Types, NEW p \in Procs, unlock_initialised_indexes(p)
  PROVE  Types'
<1>1. DiskTypes'
  BY DEF unlock_initialised_indexes, Types, DiskTypes, disk, Parts, At, WithFinder, Filled
<1>2. /\ OnlyOf(p)
      /\ mem'[p].pc # "idle" => mem'[p].client \in Names
      /\ mem'[p].pc \in WithFinder => mem'[p].finder \in Dirs
      /\ mem'[p].pc = "walk" => mem'[p].data \in Generations
  BY unlock_initialised_indexes_effect, CopiesAre, FieldsAre, TypesOf DEF unlock_initialised_indexes, At, Only, Fields, WithFinder, PcFits
<1>. QED
  BY <1>1, <1>2, FitsAfter

LEMMA remove_generation_types ==
  ASSUME Types, NEW p \in Procs, remove_generation(p)
  PROVE  Types'
<1>1. DiskTypes'
  BY DEF remove_generation, Types, DiskTypes, disk, Parts, At, WithFinder, Filled
<1>2. /\ OnlyOf(p)
      /\ mem'[p].pc # "idle" => mem'[p].client \in Names
      /\ mem'[p].pc \in WithFinder => mem'[p].finder \in Dirs
      /\ mem'[p].pc = "walk" => mem'[p].data \in Generations
  BY remove_generation_effect, CopiesAre, FieldsAre, TypesOf DEF remove_generation, At, Only, Fields, WithFinder, PcFits
<1>. QED
  BY <1>1, <1>2, FitsAfter

LEMMA unlock_everything_types ==
  ASSUME Types, NEW p \in Procs, unlock_everything(p)
  PROVE  Types'
<1>1. DiskTypes'
  BY DEF unlock_everything, Types, DiskTypes, disk, Parts, At, WithFinder, Filled
<1>2. /\ OnlyOf(p)
      /\ mem'[p].pc # "idle" => mem'[p].client \in Names
      /\ mem'[p].pc \in WithFinder => mem'[p].finder \in Dirs
      /\ mem'[p].pc = "walk" => mem'[p].data \in Generations
  BY unlock_everything_effect, CopiesAre, FieldsAre, TypesOf DEF unlock_everything, At, Only, Fields, WithFinder, PcFits
<1>. QED
  BY <1>1, <1>2, FitsAfter

LEMMA call_fails_types ==
  ASSUME Types, NEW p \in Procs, call_fails(p)
  PROVE  Types'
<1>1. DiskTypes'
  BY DEF call_fails, Types, DiskTypes, disk, Parts, At, WithFinder, Filled
<1>2. OnlyOf(p) /\ mem'[p].client = mem[p].client /\ mem'[p].finder = mem[p].finder
  BY call_fails_effect DEF Only, Fields
<1>3. mem'[p].pc \in {"give up", "exit"}
  BY call_fails_effect
<1>4. mem[p].pc \in {"found", "initialise", "remove-client", "choose", "walk", "forget"}
  BY DEF call_fails, At
<1>5. mem[p].client \in Names /\ (mem[p].pc \in WithFinder => mem[p].finder \in Dirs)
  BY <1>4, CopiesAre
<1>. QED
  BY <1>1, <1>2, <1>3, <1>4, <1>5, FitsAfter DEF WithFinder

LEMMA walk_fails_types ==
  ASSUME Types, NEW p \in Procs, walk_fails(p)
  PROVE  Types'
<1>1. DiskTypes'
  BY DEF walk_fails, Types, DiskTypes, disk, Parts, At, WithFinder, Filled
<1>2. /\ OnlyOf(p)
      /\ mem'[p].pc # "idle" => mem'[p].client \in Names
      /\ mem'[p].pc \in WithFinder => mem'[p].finder \in Dirs
      /\ mem'[p].pc = "walk" => mem'[p].data \in Generations
  BY walk_fails_effect, CopiesAre, FieldsAre, TypesOf DEF walk_fails, At, Only, Fields, WithFinder, PcFits
<1>. QED
  BY <1>1, <1>2, FitsAfter

LEMMA add_client_types ==
  ASSUME Types, NEW p \in Procs, add_client(p)
  PROVE  Types'
<1>1. DiskTypes'
  BY DEF add_client, Types, DiskTypes, disk, Parts, At, WithFinder, Filled
<1>2. /\ OnlyOf(p)
      /\ mem'[p].pc # "idle" => mem'[p].client \in Names
      /\ mem'[p].pc \in WithFinder => mem'[p].finder \in Dirs
      /\ mem'[p].pc = "walk" => mem'[p].data \in Generations
  BY add_client_effect, CopiesAre, FieldsAre, TypesOf DEF add_client, At, Only, Fields, WithFinder, PcFits
<1>. QED
  BY <1>1, <1>2, FitsAfter

LEMMA lock_next_types ==
  ASSUME Types, NEW p \in Procs, lock_next(p)
  PROVE  Types'
<1>1. DiskTypes'
  <2>1. locks' \subseteq Parts
    <3>1. PICK part \in NextParts(p) : locks' = locks \cup {part}
      BY DEF lock_next
    <3>2. part \in Parts /\ locks \subseteq Parts
      BY PartsAre DEF Types, DiskTypes
    <3>. QED
      BY <3>1, <3>2
  <2>2. UNCHANGED <<made, listRoot, clientRoot, indexRoot, bags, promised>>
    BY DEF lock_next
  <2>. QED
    BY <2>1, <2>2 DEF Types, DiskTypes
<1>2. /\ OnlyOf(p)
      /\ mem'[p].pc # "idle" => mem'[p].client \in Names
      /\ mem'[p].pc \in WithFinder => mem'[p].finder \in Dirs
      /\ mem'[p].pc = "walk" => mem'[p].data \in Generations
  <2>1. /\ Only(p, {"pc", "names", "held", "promising", "finder"})
        /\ mem'[p].pc \in {"choose", "forget"}
    BY lock_next_effect
  <2>2. OnlyOf(p) /\ mem'[p].client = mem[p].client
    BY <2>1 DEF Only, Fields
  <2>3. mem[p].client \in Names
    BY CopiesAre DEF lock_next, At
  <2>4. mem'[p].pc \notin WithFinder /\ mem'[p].pc # "walk"
    BY <2>1 DEF WithFinder
  <2>. QED
    BY <2>2, <2>3, <2>4
<1>. QED
  BY <1>1, <1>2, FitsAfter

LEMMA unlock_next_types ==
  ASSUME Types, NEW p \in Procs, unlock_next(p)
  PROVE  Types'
<1>1. DiskTypes'
  BY DEF unlock_next, Types, DiskTypes, disk, Parts, At, WithFinder, Filled
<1>2. /\ OnlyOf(p)
      /\ mem'[p].pc # "idle" => mem'[p].client \in Names
      /\ mem'[p].pc \in WithFinder => mem'[p].finder \in Dirs
      /\ mem'[p].pc = "walk" => mem'[p].data \in Generations
  BY unlock_next_effect, CopiesAre, FieldsAre, TypesOf DEF unlock_next, At, Only, Fields, WithFinder, PcFits
<1>. QED
  BY <1>1, <1>2, FitsAfter

LEMMA give_up_types ==
  ASSUME Types, NEW p \in Procs, give_up(p)
  PROVE  Types'
<1>1. DiskTypes'
  BY DEF give_up, Types, DiskTypes, disk, Parts, At, WithFinder, Filled
<1>2. /\ OnlyOf(p)
      /\ mem'[p].pc # "idle" => mem'[p].client \in Names
      /\ mem'[p].pc \in WithFinder => mem'[p].finder \in Dirs
      /\ mem'[p].pc = "walk" => mem'[p].data \in Generations
  BY give_up_effect, CopiesAre, FieldsAre, TypesOf DEF give_up, At, Only, Fields, WithFinder, PcFits
<1>. QED
  BY <1>1, <1>2, FitsAfter

LEMMA lock_client_list_types ==
  ASSUME Types, NEW p \in Procs, NEW n \in Names, NEW command,
         command \in {"backup", "forget", "remove-client"}, lock_client_list(p, n, command)
  PROVE  Types'
<1>1. DiskTypes'
  BY DEF lock_client_list, Types, DiskTypes, Parts
<1>2. OnlyOf(p) /\ mem'[p].pc = command /\ mem'[p].client = n
  BY lock_client_list_effect
<1>. QED
  BY <1>1, <1>2, FitsAfter DEF WithFinder

LEMMA unlock_chunk_indexes_types ==
  ASSUME Types, NEW p \in Procs, unlock_chunk_indexes(p)
  PROVE  Types'
<1>1. DiskTypes'
  BY DEF unlock_chunk_indexes, Types, DiskTypes
<1>2. OnlyOf(p) /\ mem'[p].pc \in {"find", "exit"} /\ mem'[p].client = mem[p].client
  BY unlock_chunk_indexes_effect
<1>3. mem[p].client \in Names
  BY CopiesAre DEF unlock_chunk_indexes, At
<1>. QED
  BY <1>1, <1>2, <1>3, FitsAfter DEF WithFinder

LEMMA exit_types ==
  ASSUME Types, NEW p \in Procs, mem' = [mem EXCEPT ![p] = Idle], UNCHANGED <<disk, promised>>
  PROVE  Types'
<1>1. DiskTypes'
  BY DEF disk, Types, DiskTypes
<1>2. OnlyOf(p) /\ mem'[p].pc = "idle"
  BY exit_effect
<1>. QED
  BY <1>1, <1>2, FitsAfter DEF WithFinder

LEMMA force_lock_types ==
  ASSUME Types, NEW part \in Parts, force_lock(part)
  PROVE  Types'
<1>1. DiskTypes' /\ mem' = mem
  BY DEF force_lock, Types, DiskTypes
<1>. QED
  BY <1>1 DEF Types, PcFits, At


(* The contents of the bag with one more, and what is left to be filled.   *)
Blobs(p) == IF mem[p].bag = None THEN << >> ELSE mem[p].bag.blobs
Rest(b, blobs) == IF Len(blobs) >= BagSize THEN None ELSE [id |-> b, blobs |-> blobs]

(* A chunk that is put gets the next place in the bag that is being        *)
(* filled, or the first of a new one.                                      *)
PutsIn(p, content, b, blobs) ==
  /\ blobs = Append(Blobs(p), content)
  /\ IF mem[p].bag = None THEN bags[b] = None ELSE b = mem[p].bag.id
  /\ bags' = [bags EXCEPT ![b] = IF Len(blobs) >= BagSize THEN blobs ELSE << >>]
  /\ mem' = [mem EXCEPT ![p] =
               append_file_chunk_id([mem[p] EXCEPT !.trees = Trees(p), !.bag = Rest(b, blobs)],
                                    make_object_id(b, Len(blobs)), content)]

LEMMA Putting ==
  ASSUME Types, NEW p \in Procs, NEW content \in Contents, put_chunk_content(p, content),
         mem[p].bag # None => Len(mem[p].bag.blobs) < BagSize
  PROVE  \E b \in Bags, blobs \in Seq(Contents) :
           PutsIn(p, content, b, blobs) /\ Len(blobs) \in 1 .. BagSize
<1>1. PICK b \in Bags : PutsIn(p, content, b, Append(Blobs(p), content))
  BY DEF put_chunk_content, Blobs, Rest, PutsIn, Types, reserve_succeeds
<1> DEFINE blobs == Append(Blobs(p), content)
<1>2. Blobs(p) \in Seq(Contents) /\ Len(Blobs(p)) < BagSize
  <2>1. mem[p].bag # None => mem[p].bag.blobs \in Seq(Contents)
    BY FieldsAre DEF Filled
  <2>. QED
    BY <2>1, GreenAlbatrossAssumption DEF Blobs
<1>3. blobs \in Seq(Contents) /\ Len(blobs) = Len(Blobs(p)) + 1
  BY <1>2
<1>4. Len(blobs) \in 1 .. BagSize
  BY <1>2, <1>3, GreenAlbatrossAssumption
<1>. QED
  BY <1>1, <1>3, <1>4

LEMMA put_chunk_content_effect ==
  ASSUME Types, NEW p \in Procs, NEW content \in Contents, put_chunk_content(p, content),
         NEW b \in Bags, NEW blobs \in Seq(Contents), PutsIn(p, content, b, blobs),
         Len(blobs) \in 1 .. BagSize
  PROVE  /\ make_object_id(b, Len(blobs)) \in ChunkIds
         /\ Only(p, {"trees", "data", "tokens", "bag"})
         /\ mem'[p].trees = Trees(p)
         /\ mem'[p].data = WithChunk(mem[p].data, make_object_id(b, Len(blobs)))
         /\ mem'[p].tokens = mem[p].tokens \cup {<<make_object_id(b, Len(blobs)), content>>}
         /\ mem'[p].bag = Rest(b, blobs)
<1> DEFINE chunk == make_object_id(b, Len(blobs))
           rest == Rest(b, blobs)
<1>1. mem[p] \in Memory
  BY TypesOf
<1>2. chunk \in ChunkIds /\ rest \in Filled \cup {None}
  BY NameIs DEF Rest, Filled
<1>3. mem' = [mem EXCEPT ![p] = append_file_chunk_id([mem[p] EXCEPT !.trees = Trees(p), !.bag = rest],
                                                     chunk, content)]
  BY DEF PutsIn
<1> HIDE DEF chunk, rest
<1> DEFINE n == [mem[p] EXCEPT !.trees = Trees(p), !.bag = rest]
           m == [n EXCEPT !.data = WithChunk(n.data, chunk),
                          !.tokens = n.tokens \cup {<<chunk, content>>}]
<1>4. /\ Trees(p) \in IndexTrees
      /\ WithChunk(mem[p].data, chunk) \in Generations
      /\ mem[p].tokens \cup {<<chunk, content>>} \in SUBSET (ChunkIds \X Contents)
  <2>1. Trees(p) \in IndexTrees
    BY CopiesAre
  <2>2. WithChunk(mem[p].data, chunk) \in Generations
    <3>1. mem[p].data \in Generations
      BY TypesOf DEF put_chunk_content, PcFits
    <3>. QED
      BY <1>2, <3>1, WithChunkIs
  <2>3. mem[p].tokens \cup {<<chunk, content>>} \in SUBSET (ChunkIds \X Contents)
    BY <1>2, FieldsAre
  <2>. QED
    BY <2>1, <2>2, <2>3
<1>5. n \in Memory
  BY <1>1, <1>2, <1>4 DEF Memory
<1>6. /\ n.trees = Trees(p) /\ n.bag = rest /\ n.data = mem[p].data /\ n.tokens = mem[p].tokens
      /\ \A f \in Fields \ {"trees", "bag"} : n[f] = mem[p][f]
  BY <1>1 DEF Memory, Fields
<1>7. mem' = [mem EXCEPT ![p] = m]
  <2>1. append_file_chunk_id(n, chunk, content) = m
    <3>. HIDE DEF n
    <3>. QED
      BY <1>5 DEF append_file_chunk_id, WithChunk, Memory
  <2>. QED
    BY <1>3, <2>1
<1> HIDE DEF n
<1>8. m \in Memory
  BY <1>4, <1>5, <1>6 DEF Memory
<1>9. /\ m.trees = Trees(p) /\ m.bag = rest /\ m.data = WithChunk(mem[p].data, chunk)
      /\ m.tokens = mem[p].tokens \cup {<<chunk, content>>}
      /\ \A f \in Fields \ {"data", "tokens"} : m[f] = n[f]
  BY <1>5, <1>6 DEF Memory, Fields
<1>10. OnlyOf(p) /\ mem'[p] = m
  BY <1>7, <1>8, Became
<1> HIDE DEF m
<1>11. Only(p, {"trees", "data", "tokens", "bag"})
  BY <1>6, <1>9, <1>10 DEF Only
<1>. QED
  BY <1>2, <1>9, <1>10, <1>11 DEF chunk, rest

LEMMA put_chunk_content_types ==
  ASSUME Types, NEW p \in Procs, NEW content \in Contents, put_chunk_content(p, content),
         mem[p].bag # None => Len(mem[p].bag.blobs) < BagSize
  PROVE  Types'
<1>1. PICK b \in Bags, blobs \in Seq(Contents) : PutsIn(p, content, b, blobs) /\ Len(blobs) \in 1 .. BagSize
  BY Putting
<1>2. /\ make_object_id(b, Len(blobs)) \in ChunkIds
      /\ Only(p, {"trees", "data", "tokens", "bag"})
      /\ mem'[p].data = WithChunk(mem[p].data, make_object_id(b, Len(blobs)))
  BY <1>1, put_chunk_content_effect
<1>3. bags' \in [Bags -> Seq(Contents) \cup {None}]
  BY <1>1 DEF Types, DiskTypes, PutsIn
<1>4. DiskTypes'
  BY <1>3 DEF put_chunk_content, Types, DiskTypes
<1>5. mem[p].data \in Generations /\ mem[p].pc = "walk"
  BY TypesOf DEF put_chunk_content, PcFits, At
<1>6. mem'[p].data \in Generations
  BY <1>2, <1>5, WithChunkIs
<1>7. OnlyOf(p) /\ mem'[p].pc = "walk" /\ mem'[p].client = mem[p].client /\ mem'[p].finder = mem[p].finder
  BY <1>2, <1>5 DEF Only, Fields
<1>8. mem[p].client \in Names /\ mem[p].finder \in Dirs
  BY <1>5, CopiesAre DEF WithFinder
<1>. QED
  BY <1>4, <1>6, <1>7, <1>8, FitsAfter

-----------------------------------------------------------------------------
(* What is known of the chunks                                             *)

(* Where a process may have a bag that is not full.                        *)
Filling == {"walk", "share", "give up", "exit"}

BagFits(p) ==
  mem[p].bag # None =>
    /\ bags[mem[p].bag.id] = << >>
    /\ mem[p].bag.blobs # << >> /\ Len(mem[p].bag.blobs) < BagSize
    /\ mem[p].pc \in Filling

(* No two processes fill the same bag, and no bag is too full.             *)
BagsFit ==
  /\ \A b \in Bags : bags[b] = None \/ Len(bags[b]) <= BagSize
  /\ \A p \in Procs : BagFits(p)
  /\ \A p, q \in Procs :
       p # q /\ mem[p].bag # None /\ mem[q].bag # None => mem[p].bag.id # mem[q].bag.id

(* A step of p that neither stores chunks nor learns of any.               *)
Idling(p) ==
  /\ UNCHANGED <<clientRoot, indexRoot, bags>> /\ OnlyOf(p)
  /\ mem'[p].bag = mem[p].bag \/ Fresh(p)
  /\ mem'[p].bag # None => mem'[p].pc \in Filling
  /\ mem'[p].data \in {mem[p].data, NotLoaded}
  /\ mem'[p].trees \in {mem[p].trees, Unread, indexRoot}
  /\ mem'[p].tokens \subseteq mem[p].tokens

LEMMA add_client_idles ==
  ASSUME Types, NEW p \in Procs, BagFits(p), add_client(p)
  PROVE  Idling(p)
<1>1. UNCHANGED <<clientRoot, indexRoot, bags>>
  BY DEF add_client, disk
<1>2. /\ OnlyOf(p) /\ mem'[p].bag = mem[p].bag /\ mem'[p].tokens = mem[p].tokens
      /\ mem'[p].data \in {mem[p].data, NotLoaded}
      /\ mem'[p].trees \in {mem[p].trees, Unread, indexRoot}
  BY add_client_effect DEF Only, Fields
<1>3. mem'[p].bag # None => mem'[p].pc \in Filling
  BY <1>2, add_client_effect DEF add_client, At, BagFits, Filling
<1>. QED
  BY <1>1, <1>2, <1>3 DEF Idling

LEMMA remove_client_idles ==
  ASSUME Types, NEW p \in Procs, BagFits(p), remove_client(p)
  PROVE  Idling(p)
<1>1. UNCHANGED <<clientRoot, indexRoot, bags>>
  BY DEF remove_client, disk
<1>2. /\ OnlyOf(p) /\ mem'[p].bag = mem[p].bag /\ mem'[p].tokens = mem[p].tokens
      /\ mem'[p].data \in {mem[p].data, NotLoaded}
      /\ mem'[p].trees \in {mem[p].trees, Unread, indexRoot}
  BY remove_client_effect DEF Only, Fields
<1>3. mem'[p].bag # None => mem'[p].pc \in Filling
  BY <1>2, remove_client_effect DEF remove_client, At, BagFits, Filling
<1>. QED
  BY <1>1, <1>2, <1>3 DEF Idling

LEMMA rename_client_idles ==
  ASSUME Types, NEW p \in Procs, NEW new \in Names, BagFits(p), rename_client(p, new)
  PROVE  Idling(p)
<1>1. UNCHANGED <<clientRoot, indexRoot, bags>>
  BY DEF rename_client, disk
<1>2. /\ OnlyOf(p) /\ mem'[p].bag = mem[p].bag /\ mem'[p].tokens = mem[p].tokens
      /\ mem'[p].data \in {mem[p].data, NotLoaded}
      /\ mem'[p].trees \in {mem[p].trees, Unread, indexRoot}
  BY rename_client_effect DEF Only, Fields
<1>3. mem'[p].bag # None => mem'[p].pc \in Filling
  BY <1>2, rename_client_effect DEF rename_client, At, BagFits, Filling
<1>. QED
  BY <1>1, <1>2, <1>3 DEF Idling

LEMMA commit_client_list_idles ==
  ASSUME Types, NEW p \in Procs, BagFits(p), commit_client_list(p)
  PROVE  Idling(p)
<1>1. UNCHANGED <<clientRoot, indexRoot, bags>>
  BY DEF commit_client_list, disk
<1>2. /\ OnlyOf(p) /\ mem'[p].bag = mem[p].bag /\ mem'[p].tokens = mem[p].tokens
      /\ mem'[p].data \in {mem[p].data, NotLoaded}
      /\ mem'[p].trees \in {mem[p].trees, Unread, indexRoot}
  BY commit_client_list_effect DEF Only, Fields
<1>3. mem'[p].bag # None => mem'[p].pc \in Filling
  BY <1>2, commit_client_list_effect DEF commit_client_list, At, BagFits, Filling
<1>. QED
  BY <1>1, <1>2, <1>3 DEF Idling

LEMMA unlock_client_list_idles ==
  ASSUME Types, NEW p \in Procs, BagFits(p), unlock_client_list(p)
  PROVE  Idling(p)
<1>1. UNCHANGED <<clientRoot, indexRoot, bags>>
  BY DEF unlock_client_list, disk
<1>2. /\ OnlyOf(p) /\ mem'[p].bag = mem[p].bag /\ mem'[p].tokens = mem[p].tokens
      /\ mem'[p].data \in {mem[p].data, NotLoaded}
      /\ mem'[p].trees \in {mem[p].trees, Unread, indexRoot}
  BY unlock_client_list_effect DEF Only, Fields
<1>3. mem'[p].bag # None => mem'[p].pc \in Filling
  BY <1>2, unlock_client_list_effect DEF unlock_client_list, At, BagFits, Filling
<1>. QED
  BY <1>1, <1>2, <1>3 DEF Idling

LEMMA find_client_idles ==
  ASSUME Types, NEW p \in Procs, BagFits(p), find_client(p)
  PROVE  Idling(p)
<1>1. UNCHANGED <<clientRoot, indexRoot, bags>>
  BY DEF find_client, disk
<1>2. /\ OnlyOf(p) /\ mem'[p].bag = mem[p].bag /\ mem'[p].tokens = mem[p].tokens
      /\ mem'[p].data \in {mem[p].data, NotLoaded}
      /\ mem'[p].trees \in {mem[p].trees, Unread, indexRoot}
  BY find_client_effect DEF Only, Fields
<1>3. mem'[p].bag # None => mem'[p].pc \in Filling
  BY <1>2, find_client_effect DEF find_client, At, BagFits, Filling
<1>. QED
  BY <1>1, <1>2, <1>3 DEF Idling

LEMMA lock_client_idles ==
  ASSUME Types, NEW p \in Procs, BagFits(p), lock_client(p)
  PROVE  Idling(p)
<1>1. UNCHANGED <<clientRoot, indexRoot, bags>>
  BY DEF lock_client, disk
<1>2. /\ OnlyOf(p) /\ mem'[p].bag = mem[p].bag /\ mem'[p].tokens = mem[p].tokens
      /\ mem'[p].data \in {mem[p].data, NotLoaded}
      /\ mem'[p].trees \in {mem[p].trees, Unread, indexRoot}
  BY lock_client_effect DEF Only, Fields
<1>3. mem'[p].bag # None => mem'[p].pc \in Filling
  BY <1>2, lock_client_effect DEF lock_client, At, BagFits, Filling
<1>. QED
  BY <1>1, <1>2, <1>3 DEF Idling

LEMMA unlock_client_idles ==
  ASSUME Types, NEW p \in Procs, BagFits(p), unlock_client(p)
  PROVE  Idling(p)
<1>1. UNCHANGED <<clientRoot, indexRoot, bags>>
  BY DEF unlock_client, disk
<1>2. /\ OnlyOf(p) /\ mem'[p].bag = mem[p].bag /\ mem'[p].tokens = mem[p].tokens
      /\ mem'[p].data \in {mem[p].data, NotLoaded}
      /\ mem'[p].trees \in {mem[p].trees, Unread, indexRoot}
  <2>1. Only(p, {"pc", "held", "data"}) /\ mem'[p].data = NotLoaded
    BY unlock_client_effect
  <2>. QED
    BY <2>1 DEF Only, Fields
<1>3. mem'[p].bag # None => mem'[p].pc \in Filling
  BY <1>2, unlock_client_effect DEF unlock_client, At, BagFits, Filling
<1>. QED
  BY <1>1, <1>2, <1>3 DEF Idling

LEMMA lock_chunk_indexes_idles ==
  ASSUME Types, NEW p \in Procs, BagFits(p), lock_chunk_indexes(p)
  PROVE  Idling(p)
<1>1. UNCHANGED <<clientRoot, indexRoot, bags>>
  BY DEF lock_chunk_indexes, disk
<1>2. /\ OnlyOf(p) /\ mem'[p].bag = mem[p].bag /\ mem'[p].tokens = mem[p].tokens
      /\ mem'[p].data \in {mem[p].data, NotLoaded}
      /\ mem'[p].trees \in {mem[p].trees, Unread, indexRoot}
  BY lock_chunk_indexes_effect DEF Only, Fields
<1>3. mem'[p].bag # None => mem'[p].pc \in Filling
  BY <1>2, lock_chunk_indexes_effect DEF lock_chunk_indexes, At, BagFits, Filling
<1>. QED
  BY <1>1, <1>2, <1>3 DEF Idling

LEMMA unlock_initialised_indexes_idles ==
  ASSUME Types, NEW p \in Procs, BagFits(p), unlock_initialised_indexes(p)
  PROVE  Idling(p)
<1>1. UNCHANGED <<clientRoot, indexRoot, bags>>
  BY DEF unlock_initialised_indexes, disk
<1>2. /\ OnlyOf(p) /\ mem'[p].bag = mem[p].bag /\ mem'[p].tokens = mem[p].tokens
      /\ mem'[p].data \in {mem[p].data, NotLoaded}
      /\ mem'[p].trees \in {mem[p].trees, Unread, indexRoot}
  BY unlock_initialised_indexes_effect DEF Only, Fields
<1>3. mem'[p].bag # None => mem'[p].pc \in Filling
  BY <1>2, unlock_initialised_indexes_effect DEF unlock_initialised_indexes, At, BagFits, Filling
<1>. QED
  BY <1>1, <1>2, <1>3 DEF Idling

LEMMA lock_next_idles ==
  ASSUME Types, NEW p \in Procs, BagFits(p), lock_next(p)
  PROVE  Idling(p)
<1>1. UNCHANGED <<clientRoot, indexRoot, bags>>
  BY DEF lock_next, disk
<1>2. /\ OnlyOf(p) /\ mem'[p].bag = mem[p].bag /\ mem'[p].tokens = mem[p].tokens
      /\ mem'[p].data \in {mem[p].data, NotLoaded}
      /\ mem'[p].trees \in {mem[p].trees, Unread, indexRoot}
  BY lock_next_effect DEF Only, Fields
<1>3. mem'[p].bag # None => mem'[p].pc \in Filling
  BY <1>2, lock_next_effect DEF lock_next, At, BagFits, Filling
<1>. QED
  BY <1>1, <1>2, <1>3 DEF Idling

LEMMA unlock_everything_idles ==
  ASSUME Types, NEW p \in Procs, BagFits(p), unlock_everything(p)
  PROVE  Idling(p)
<1>1. UNCHANGED <<clientRoot, indexRoot, bags>>
  BY DEF unlock_everything, disk
<1>2. /\ OnlyOf(p) /\ mem'[p].bag = mem[p].bag /\ mem'[p].tokens = mem[p].tokens
      /\ mem'[p].data \in {mem[p].data, NotLoaded}
      /\ mem'[p].trees \in {mem[p].trees, Unread, indexRoot}
  BY unlock_everything_effect DEF Only, Fields
<1>3. mem'[p].bag # None => mem'[p].pc \in Filling
  BY <1>2, unlock_everything_effect DEF unlock_everything, At, BagFits, Filling
<1>. QED
  BY <1>1, <1>2, <1>3 DEF Idling

LEMMA unlock_next_idles ==
  ASSUME Types, NEW p \in Procs, BagFits(p), unlock_next(p)
  PROVE  Idling(p)
<1>1. UNCHANGED <<clientRoot, indexRoot, bags>>
  BY DEF unlock_next, disk
<1>2. /\ OnlyOf(p) /\ mem'[p].bag = mem[p].bag /\ mem'[p].tokens = mem[p].tokens
      /\ mem'[p].data \in {mem[p].data, NotLoaded}
      /\ mem'[p].trees \in {mem[p].trees, Unread, indexRoot}
  BY unlock_next_effect DEF Only, Fields
<1>3. mem'[p].bag # None => mem'[p].pc \in Filling
  BY <1>2, unlock_next_effect DEF unlock_next, At, BagFits, Filling
<1>. QED
  BY <1>1, <1>2, <1>3 DEF Idling

LEMMA call_fails_idles ==
  ASSUME Types, NEW p \in Procs, BagFits(p), call_fails(p)
  PROVE  Idling(p)
<1>1. UNCHANGED <<clientRoot, indexRoot, bags>>
  BY DEF call_fails, disk
<1>2. /\ OnlyOf(p) /\ mem'[p].bag = mem[p].bag /\ mem'[p].tokens = mem[p].tokens
      /\ mem'[p].data \in {mem[p].data, NotLoaded}
      /\ mem'[p].trees \in {mem[p].trees, Unread, indexRoot}
  BY call_fails_effect DEF Only, Fields
<1>3. mem'[p].bag # None => mem'[p].pc \in Filling
  BY <1>2, call_fails_effect DEF call_fails, At, BagFits, Filling
<1>. QED
  BY <1>1, <1>2, <1>3 DEF Idling

LEMMA walk_fails_idles ==
  ASSUME Types, NEW p \in Procs, BagFits(p), walk_fails(p)
  PROVE  Idling(p)
<1>1. UNCHANGED <<clientRoot, indexRoot, bags>>
  BY DEF walk_fails, disk
<1>2. /\ OnlyOf(p) /\ mem'[p].bag = mem[p].bag /\ mem'[p].tokens = mem[p].tokens
      /\ mem'[p].data \in {mem[p].data, NotLoaded}
      /\ mem'[p].trees \in {mem[p].trees, Unread, indexRoot}
  BY walk_fails_effect DEF Only, Fields
<1>3. mem'[p].bag # None => mem'[p].pc \in Filling
  BY <1>2, walk_fails_effect DEF walk_fails, At, BagFits, Filling
<1>. QED
  BY <1>1, <1>2, <1>3 DEF Idling

LEMMA give_up_idles ==
  ASSUME Types, NEW p \in Procs, BagFits(p), give_up(p)
  PROVE  Idling(p)
<1>1. UNCHANGED <<clientRoot, indexRoot, bags>>
  BY DEF give_up, disk
<1>2. /\ OnlyOf(p) /\ mem'[p].bag = mem[p].bag /\ mem'[p].tokens = mem[p].tokens
      /\ mem'[p].data \in {mem[p].data, NotLoaded}
      /\ mem'[p].trees \in {mem[p].trees, Unread, indexRoot}
  BY give_up_effect DEF Only, Fields
<1>3. mem'[p].bag # None => mem'[p].pc \in Filling
  BY <1>2, give_up_effect DEF give_up, At, BagFits, Filling, Only, Fields
<1>. QED
  BY <1>1, <1>2, <1>3 DEF Idling

LEMMA lock_client_list_idles ==
  ASSUME Types, NEW p \in Procs, NEW n \in Names, NEW command,
         command \in {"backup", "forget", "remove-client"}, lock_client_list(p, n, command)
  PROVE  Idling(p)
<1>1. UNCHANGED <<clientRoot, indexRoot, bags>>
  BY DEF lock_client_list
<1>2. OnlyOf(p) /\ Fresh(p)
  BY lock_client_list_effect
<1>. QED
  BY <1>1, <1>2 DEF Idling, Fresh

LEMMA unlock_chunk_indexes_idles ==
  ASSUME Types, NEW p \in Procs, unlock_chunk_indexes(p)
  PROVE  Idling(p)
<1>1. UNCHANGED <<clientRoot, indexRoot, bags>>
  BY DEF unlock_chunk_indexes
<1>2. OnlyOf(p) /\ Fresh(p)
  BY unlock_chunk_indexes_effect
<1>. QED
  BY <1>1, <1>2 DEF Idling, Fresh

LEMMA exit_idles ==
  ASSUME Types, NEW p \in Procs, exit(p) \/ crash(p)
  PROVE  Idling(p)
<1>1. UNCHANGED <<clientRoot, indexRoot, bags>> /\ mem' = [mem EXCEPT ![p] = Idle]
  BY DEF exit, crash, disk
<1>2. OnlyOf(p) /\ Fresh(p)
  BY <1>1, exit_effect
<1>. QED
  BY <1>1, <1>2 DEF Idling, Fresh

(* The steps of p that store chunks, or learn of them.                     *)
Learning(p) ==
  \/ create_generation(p) \/ remove_generation(p) \/ flush_chunks(p)
  \/ commit_client(p) \/ commit_chunk_indexes(p)
  \/ \E c \in Contents : put_chunk_content(p, c) \/ \E chunk \in ChunkIds : use_chunk(p, chunk, c)
  \/ \E chunk \in ChunkIds, token \in Contents :
       <<chunk, token>> \in mem[p].tokens /\ put_chunk_into_indexes(p, chunk, token)
  \/ \E chunk \in ChunkIds : remove_chunk_from_indexes(p, chunk)

LEMMA Steps ==
  ASSUME Types, \A p \in Procs : BagFits(p), Next
  PROVE  \/ UNCHANGED <<clientRoot, indexRoot, bags, mem>>
         \/ \E p \in Procs : Idling(p) \/ Learning(p)
<1>1. ASSUME NEW p \in Procs, NEW n \in Names, NEW command \in {"backup", "forget", "remove-client"},
             lock_client_list(p, n, command)
      PROVE  Idling(p)
  BY <1>1, lock_client_list_idles
<1>2. ASSUME NEW p \in Procs, Backup(p) PROVE Idling(p) \/ Learning(p)
  <2>1. ASSUME NEW t \in mem[p].tokens, put_chunk_into_indexes(p, t[1], t[2]) PROVE Learning(p)
    <3>1. t \in ChunkIds \X Contents
      BY FieldsAre
    <3>2. t[1] \in ChunkIds /\ t[2] \in Contents /\ t = <<t[1], t[2]>>
      BY <3>1
    <3>. QED
      BY <2>1, <3>2 DEF Learning
  <2>2. \/ add_client(p) \/ find_client(p) \/ lock_client(p) \/ unlock_initialised_indexes(p)
        \/ lock_chunk_indexes(p) \/ unlock_client(p) \/ unlock_chunk_indexes(p) \/ walk_fails(p)
        \/ create_generation(p) \/ flush_chunks(p)
        \/ (\E c \in Contents : put_chunk_content(p, c) \/ \E chunk \in ChunkIds : use_chunk(p, chunk, c))
        \/ \E t \in mem[p].tokens : put_chunk_into_indexes(p, t[1], t[2])
    BY <1>2 DEF Backup
  <2>3. CASE \/ add_client(p) \/ find_client(p) \/ lock_client(p) \/ unlock_initialised_indexes(p)
             \/ lock_chunk_indexes(p) \/ unlock_client(p) \/ unlock_chunk_indexes(p) \/ walk_fails(p)
    BY <2>3, add_client_idles, find_client_idles, lock_client_idles, unlock_initialised_indexes_idles,
       lock_chunk_indexes_idles, unlock_client_idles, unlock_chunk_indexes_idles, walk_fails_idles
  <2>4. CASE \/ create_generation(p) \/ flush_chunks(p)
             \/ \E c \in Contents : put_chunk_content(p, c) \/ \E chunk \in ChunkIds : use_chunk(p, chunk, c)
    BY <2>4 DEF Learning
  <2>. QED
    BY <2>1, <2>2, <2>3, <2>4
<1>3. ASSUME NEW p \in Procs, Forget(p) PROVE Idling(p) \/ Learning(p)
  <2>1. ASSUME NEW chunk \in mem[p].unused, remove_chunk_from_indexes(p, chunk) PROVE Learning(p)
    <3>1. chunk \in ChunkIds
      BY FieldsAre
    <3>. QED
      BY <2>1, <3>1 DEF Learning
  <2>2. remove_generation(p) => Learning(p)
    BY DEF Learning
  <2>. QED
    BY <1>3, <2>1, <2>2, lock_next_idles, unlock_everything_idles, unlock_next_idles DEF Forget
<1>4. ASSUME NEW p \in Procs, ChangeList(p) PROVE Idling(p)
  BY <1>4, remove_client_idles, rename_client_idles DEF ChangeList
<1>5. ASSUME NEW p \in Procs,
             \/ commit_client_list(p) \/ unlock_client_list(p)
             \/ call_fails(p) \/ give_up(p) \/ exit(p) \/ crash(p)
      PROVE  Idling(p)
  BY <1>5, commit_client_list_idles, unlock_client_list_idles, call_fails_idles, give_up_idles, exit_idles
<1>6. ASSUME NEW p \in Procs, commit_client(p) \/ commit_chunk_indexes(p) PROVE Learning(p)
  BY <1>6 DEF Learning
<1>7. ASSUME NEW part \in Parts, force_lock(part) PROVE UNCHANGED <<clientRoot, indexRoot, bags, mem>>
  BY <1>7 DEF force_lock
<1>. QED
  BY <1>1, <1>2, <1>3, <1>4, <1>5, <1>6, <1>7 DEF Next

LEMMA TypesKept ==
  ASSUME Types, \A p \in Procs : BagFits(p), Next
  PROVE  Types'
<1>1. ASSUME NEW p \in Procs, NEW n \in Names, NEW command \in {"backup", "forget", "remove-client"},
             lock_client_list(p, n, command)
      PROVE  Types'
  BY <1>1, lock_client_list_types
<1>2. ASSUME NEW p \in Procs, Backup(p) PROVE Types'
  <2>1. ASSUME NEW t \in mem[p].tokens, put_chunk_into_indexes(p, t[1], t[2]) PROVE Types'
    <3>1. t \in ChunkIds \X Contents
      BY FieldsAre
    <3>2. t[1] \in ChunkIds /\ t[2] \in Contents
      BY <3>1
    <3>. QED
      BY <2>1, <3>2, put_chunk_into_indexes_types
  <2>2. ASSUME NEW c \in Contents, put_chunk_content(p, c) PROVE Types'
    BY <2>2, put_chunk_content_types DEF BagFits
  <2>3. ASSUME NEW c \in Contents, NEW chunk \in ChunkIds, use_chunk(p, chunk, c) PROVE Types'
    BY <2>3, use_chunk_types
  <2>4. CASE \/ add_client(p) \/ find_client(p) \/ lock_client(p) \/ unlock_initialised_indexes(p)
             \/ lock_chunk_indexes(p) \/ unlock_client(p) \/ unlock_chunk_indexes(p) \/ walk_fails(p)
             \/ create_generation(p) \/ flush_chunks(p)
    BY <2>4, add_client_types, find_client_types, lock_client_types, unlock_initialised_indexes_types,
       lock_chunk_indexes_types, unlock_client_types, unlock_chunk_indexes_types, walk_fails_types,
       create_generation_types, flush_chunks_types
  <2>. QED
    BY <1>2, <2>1, <2>2, <2>3, <2>4 DEF Backup
<1>3. ASSUME NEW p \in Procs, Forget(p) PROVE Types'
  <2>1. ASSUME NEW chunk \in mem[p].unused, remove_chunk_from_indexes(p, chunk) PROVE Types'
    BY <2>1, FieldsAre, remove_chunk_from_indexes_types
  <2>. QED
    BY <1>3, <2>1, lock_next_types, unlock_everything_types, unlock_next_types, remove_generation_types
    DEF Forget
<1>4. ASSUME NEW p \in Procs, ChangeList(p) PROVE Types'
  BY <1>4, remove_client_types, rename_client_types DEF ChangeList
<1>5. ASSUME NEW p \in Procs,
             \/ commit_client_list(p) \/ unlock_client_list(p) \/ commit_client(p)
             \/ commit_chunk_indexes(p) \/ call_fails(p) \/ give_up(p)
      PROVE  Types'
  BY <1>5, commit_client_list_types, unlock_client_list_types, call_fails_types, give_up_types,
     commit_client_types, commit_chunk_indexes_types
<1>6. ASSUME NEW p \in Procs, exit(p) \/ crash(p) PROVE Types'
  <2>1. mem' = [mem EXCEPT ![p] = Idle] /\ UNCHANGED <<disk, promised>>
    BY <1>6 DEF exit, crash
  <2>. QED
    BY <2>1, exit_types
<1>7. ASSUME NEW part \in Parts, force_lock(part) PROVE Types'
  BY <1>7, force_lock_types
<1>. QED
  BY <1>1, <1>2, <1>3, <1>4, <1>5, <1>6, <1>7 DEF Next

-----------------------------------------------------------------------------
(* Bags                                                                    *)

WrittenOnce == \A b \in Bags : bags[b] # None /\ bags[b] # << >> => bags'[b] = bags[b]

LEMMA BagsQuiet ==
  ASSUME BagsFit, NEW p \in Procs, OnlyOf(p), bags' = bags,
         mem'[p].bag # None => mem'[p].bag = mem[p].bag /\ mem'[p].pc \in Filling
  PROVE  BagsFit' /\ WrittenOnce
<1>1. \A q \in Procs : mem'[q].bag # None => mem'[q].bag = mem[q].bag
  BY DEF OnlyOf
<1>2. \A q \in Procs : mem'[q].bag # None => mem'[q].pc \in Filling
  BY DEF OnlyOf, BagsFit, BagFits
<1>3. \A q \in Procs : BagFits(q)'
  BY <1>1, <1>2 DEF BagsFit, BagFits
<1>. QED
  BY <1>1, <1>3 DEF BagsFit, WrittenOnce

LEMMA EmptyIsSome ==
  /\ << >> # None
  /\ \A blobs \in Seq(Contents) : blobs # None
  /\ \A bag \in Filled : bag # None
<1>1. << >> \in Seq(Contents)
  OBVIOUS
<1>. QED
  BY <1>1, NoneAssumption DEF Filled

LEMMA PutKeepsBags ==
  ASSUME Types, BagsFit, NEW p \in Procs, NEW content \in Contents, put_chunk_content(p, content)
  PROVE  BagsFit' /\ WrittenOnce
<1>1. BagFits(p)
  BY DEF BagsFit
<1>2. PICK b \in Bags, blobs \in Seq(Contents) : PutsIn(p, content, b, blobs) /\ Len(blobs) \in 1 .. BagSize
  BY <1>1, Putting DEF BagFits
<1>3. OnlyOf(p) /\ mem'[p].bag = Rest(b, blobs) /\ mem'[p].pc = "walk"
  <2>1. Only(p, {"trees", "data", "tokens", "bag"}) /\ mem'[p].bag = Rest(b, blobs)
    BY <1>2, put_chunk_content_effect
  <2>. QED
    BY <2>1 DEF Only, Fields, put_chunk_content, At
<1>4. bags \in [Bags -> Seq(Contents) \cup {None}] /\ Len(blobs) \in Nat /\ BagSize \in Nat
  BY GreenAlbatrossAssumption DEF Types, DiskTypes
<1>5. /\ bags'[b] = IF Len(blobs) >= BagSize THEN blobs ELSE << >>
      /\ \A c \in Bags : c # b => bags'[c] = bags[c]
  BY <1>2, <1>4 DEF PutsIn
<1>6. bags[b] = None \/ bags[b] = << >>
  BY <1>1, <1>2 DEF PutsIn, BagFits
<1>7. \A q \in Procs : q # p /\ mem[q].bag # None => mem[q].bag.id # b
  <2>1. CASE mem[p].bag = None
    <3>1. bags[b] = None
      BY <1>2, <2>1 DEF PutsIn
    <3>. QED
      BY <3>1, EmptyIsSome DEF BagsFit, BagFits
  <2>2. CASE mem[p].bag # None
    BY <1>2, <2>2 DEF PutsIn, BagsFit
  <2>. QED
    BY <2>1, <2>2
<1>8. mem'[p].bag # None => /\ mem'[p].bag = [id |-> b, blobs |-> blobs]
                            /\ Len(blobs) < BagSize /\ bags'[b] = << >>
  BY <1>3, <1>4, <1>5 DEF Rest
<1>9. BagFits(p)'
  <2>1. mem'[p].bag # None => mem'[p].bag.id = b /\ mem'[p].bag.blobs = blobs
    BY <1>8
  <2>2. blobs # << >>
    BY <1>2
  <2>. QED
    BY <1>3, <1>8, <2>1, <2>2 DEF BagFits, Filling
<1>10. ASSUME NEW q \in Procs, q # p PROVE BagFits(q)'
  <2>1. mem'[q] = mem[q] /\ BagFits(q)
    BY <1>3, <1>10 DEF OnlyOf, BagsFit
  <2>2. mem[q].bag # None => mem[q].bag.id \in Bags /\ mem[q].bag.id # b
    BY <1>7, <1>10, FieldsAre DEF Filled
  <2>. QED
    BY <1>5, <2>1, <2>2 DEF BagFits
<1>11. \A c \in Bags : bags'[c] = None \/ Len(bags'[c]) <= BagSize
  BY <1>2, <1>4, <1>5 DEF BagsFit
<1>12. ASSUME NEW q \in Procs, NEW r \in Procs, q # r, mem'[q].bag # None, mem'[r].bag # None
       PROVE  mem'[q].bag.id # mem'[r].bag.id
  <2>1. \A s \in Procs : s # p => mem'[s] = mem[s]
    BY <1>3 DEF OnlyOf
  <2>2. mem'[p].bag # None => mem'[p].bag.id = b
    BY <1>8
  <2>3. CASE q # p /\ r # p
    BY <1>12, <2>1, <2>3 DEF BagsFit
  <2>4. CASE q = p
    BY <1>7, <1>12, <2>1, <2>2, <2>4
  <2>5. CASE r = p
    BY <1>7, <1>12, <2>1, <2>2, <2>5
  <2>. QED
    BY <2>3, <2>4, <2>5
<1>13. \A q \in Procs : BagFits(q)'
  BY <1>9, <1>10
<1>14. WrittenOnce
  BY <1>5, <1>6 DEF WrittenOnce
<1>. QED
  BY <1>11, <1>12, <1>13, <1>14 DEF BagsFit

LEMMA FlushKeepsBags ==
  ASSUME Types, BagsFit, NEW p \in Procs, flush_chunks(p)
  PROVE  BagsFit' /\ WrittenOnce
<1>1. OnlyOf(p) /\ mem'[p].bag = None
  BY flush_chunks_effect DEF Only
<1>2. CASE mem[p].bag = None
  <2>1. bags' = bags
    BY <1>2 DEF flush_chunks
  <2>. QED
    BY <1>1, <2>1, BagsQuiet
<1>3. CASE mem[p].bag # None
  <2> DEFINE b == mem[p].bag.id
             blobs == mem[p].bag.blobs
  <2>1. /\ b \in Bags /\ blobs \in Seq(Contents) /\ Len(blobs) < BagSize
        /\ bags[b] = << >>
    BY <1>3, FieldsAre DEF Filled, BagsFit, BagFits
  <2>2. bags' = [bags EXCEPT ![b] = blobs]
    BY <1>3 DEF flush_chunks
  <2>3. \A q \in Procs : q # p /\ mem[q].bag # None => mem[q].bag.id # b
    BY <1>3 DEF BagsFit
  <2> HIDE DEF b, blobs
  <2>4. bags'[b] = blobs /\ \A c \in Bags : c # b => bags'[c] = bags[c]
    BY <2>1, <2>2 DEF Types, DiskTypes
  <2>5. Len(blobs) <= BagSize
    BY <2>1, GreenAlbatrossAssumption
  <2>6. \A c \in Bags : bags'[c] = None \/ Len(bags'[c]) <= BagSize
    BY <2>4, <2>5 DEF BagsFit
  <2>7. ASSUME NEW q \in Procs PROVE BagFits(q)'
    <3>1. q # p => mem'[q] = mem[q] /\ BagFits(q)
      BY <1>1 DEF OnlyOf, BagsFit
    <3>2. q # p /\ mem[q].bag # None => mem[q].bag.id \in Bags /\ mem[q].bag.id # b
      BY <2>3, FieldsAre DEF Filled
    <3>. QED
      BY <1>1, <2>4, <3>1, <3>2 DEF BagFits
  <2>8. \A q \in Procs : mem'[q].bag # None => mem'[q].bag = mem[q].bag
    BY <1>1 DEF OnlyOf
  <2>9. WrittenOnce
    BY <2>1, <2>4 DEF WrittenOnce
  <2>. QED
    BY <2>6, <2>7, <2>8, <2>9 DEF BagsFit
<1>. QED
  BY <1>2, <1>3

LEMMA LearningKeepsBags ==
  ASSUME Types, BagsFit, NEW p \in Procs, Learning(p)
  PROVE  BagsFit' /\ WrittenOnce
<1>1. BagFits(p)
  BY DEF BagsFit
<1>2. ASSUME create_generation(p) PROVE BagsFit' /\ WrittenOnce
  <2>1. bags' = bags /\ mem[p].pc = "create"
    BY <1>2 DEF create_generation, disk, At
  <2>2. OnlyOf(p) /\ mem'[p].bag = mem[p].bag
    BY <1>2, create_generation_effect DEF Only, Fields
  <2>. QED
    BY <1>1, <2>1, <2>2, BagsQuiet DEF BagFits, Filling
<1>3. ASSUME remove_generation(p) PROVE BagsFit' /\ WrittenOnce
  <2>1. bags' = bags /\ mem[p].pc = "choose"
    BY <1>3 DEF remove_generation, disk, At
  <2>2. OnlyOf(p) /\ mem'[p].bag = mem[p].bag
    BY <1>3, remove_generation_effect DEF Only, Fields
  <2>. QED
    BY <1>1, <2>1, <2>2, BagsQuiet DEF BagFits, Filling
<1>4. ASSUME commit_client(p) PROVE BagsFit' /\ WrittenOnce
  <2>1. bags' = bags /\ mem[p].pc = "commit"
    BY <1>4 DEF commit_client, disk, At
  <2>2. OnlyOf(p) /\ mem'[p].bag = mem[p].bag
    BY <1>4, commit_client_effect DEF Only, Fields
  <2>. QED
    BY <1>1, <2>1, <2>2, BagsQuiet DEF BagFits, Filling
<1>5. ASSUME commit_chunk_indexes(p) PROVE BagsFit' /\ WrittenOnce
  <2>1. bags' = bags /\ mem[p].pc = "commit indexes"
    BY <1>5 DEF commit_chunk_indexes, disk, At
  <2>2. OnlyOf(p) /\ mem'[p].bag = mem[p].bag
    BY <1>5, commit_chunk_indexes_effect DEF Only, Fields
  <2>. QED
    BY <1>1, <2>1, <2>2, BagsQuiet DEF BagFits, Filling
<1>6. ASSUME NEW chunk \in ChunkIds, NEW c \in Contents, use_chunk(p, chunk, c) PROVE BagsFit' /\ WrittenOnce
  <2>1. bags' = bags /\ mem[p].pc = "walk"
    BY <1>6 DEF use_chunk, disk, At
  <2>2. OnlyOf(p) /\ mem'[p].bag = mem[p].bag /\ mem'[p].pc = mem[p].pc
    BY <1>6, use_chunk_effect DEF Only, Fields
  <2>. QED
    BY <2>1, <2>2, BagsQuiet DEF Filling
<1>7. ASSUME NEW chunk \in ChunkIds, NEW c \in Contents, put_chunk_into_indexes(p, chunk, c)
      PROVE  BagsFit' /\ WrittenOnce
  <2>1. bags' = bags /\ mem[p].pc = "share"
    BY <1>7 DEF put_chunk_into_indexes, disk, At
  <2>2. OnlyOf(p) /\ mem'[p].bag = mem[p].bag /\ mem'[p].pc = mem[p].pc
    BY <1>7, put_chunk_into_indexes_effect DEF Only, Fields
  <2>. QED
    BY <2>1, <2>2, BagsQuiet DEF Filling
<1>8. ASSUME NEW chunk \in ChunkIds, remove_chunk_from_indexes(p, chunk)
      PROVE  BagsFit' /\ WrittenOnce
  <2>1. bags' = bags /\ mem[p].pc = "commit"
    BY <1>8 DEF remove_chunk_from_indexes, disk, At
  <2>2. OnlyOf(p) /\ mem'[p].bag = mem[p].bag
    BY <1>8, remove_chunk_from_indexes_effect DEF Only, Fields
  <2>. QED
    BY <1>1, <2>1, <2>2, BagsQuiet DEF BagFits, Filling
<1>. QED
  BY <1>2, <1>3, <1>4, <1>5, <1>6, <1>7, <1>8, PutKeepsBags, FlushKeepsBags DEF Learning

LEMMA BagsKept ==
  ASSUME Types, BagsFit, Next
  PROVE  BagsFit' /\ WrittenOnce
<1>1. \A p \in Procs : BagFits(p)
  BY DEF BagsFit
<1>2. CASE UNCHANGED <<clientRoot, indexRoot, bags, mem>>
  BY <1>2 DEF BagsFit, BagFits, WrittenOnce
<1>3. ASSUME NEW p \in Procs, Idling(p) PROVE BagsFit' /\ WrittenOnce
  BY <1>3, BagsQuiet DEF Idling, Fresh
<1>. QED
  BY <1>1, <1>2, <1>3, LearningKeepsBags, Steps

LEMMA BagsStart == Init => Types /\ BagsFit
<1> SUFFICES ASSUME Init PROVE Types /\ BagsFit
  OBVIOUS
<1>1. \A p \in Procs : mem[p] = Idle
  BY DEF Init
<1>2. mem \in [Procs -> Memory]
  BY IdleIs DEF Init
<1>3. \A p \in Procs : PcFits(p)
  <2>1. \A p \in Procs : mem[p].pc = "idle"
    BY <1>1 DEF Idle
  <2>. QED
    BY <2>1 DEF PcFits, At, WithFinder
<1>4. << >> \in Lists
  <2>1. << >> \in [{} -> Dirs] /\ {} \in SUBSET Names
    OBVIOUS
  <2>. QED
    BY <2>1 DEF Lists
<1>5. << >> \in Generations
  BY DEF Generations
<1>6. DiskTypes
  BY <1>4, <1>5, EmptyIndexes DEF Init, DiskTypes
<1>7. BagsFit
  BY <1>1 DEF Init, BagsFit, BagFits, Idle
<1>. QED
  BY <1>2, <1>3, <1>6, <1>7 DEF Types

(* A bag is written once (bag_store.py:44-60): the identifier of a new bag *)
(* is reserved, and a bag that has chunks is never replaced, whatever      *)
(* processes run, fail and die.                                            *)
THEOREM WritesOnce == Spec => BagsAreWrittenOnce
<1>1. Types /\ BagsFit /\ [Next]_vars => Types' /\ BagsFit' /\ WrittenOnce
  <2>1. CASE UNCHANGED vars
    BY <2>1 DEF vars, disk, Types, DiskTypes, PcFits, At, BagsFit, BagFits, WrittenOnce
  <2>2. CASE Next
    BY <2>2, TypesKept, BagsKept DEF BagsFit
  <2>. QED
    BY <2>1, <2>2
<1>2. Types /\ BagsFit /\ [Next]_vars => [\A b \in Bags : bags[b] # None /\ bags[b] # << >> => bags'[b] = bags[b]]_vars
  BY <1>1 DEF WrittenOnce
<1>. QED
  BY <1>1, <1>2, BagsStart, PTL DEF Spec, BagsAreWrittenOnce

-----------------------------------------------------------------------------
(* Chunks and their contents.  What a process knows: the chunks in the     *)
(* store and those in the bag it is filling.                               *)

Place(blobs, chunk, t) == PlaceOf(chunk) \in DOMAIN blobs /\ blobs[PlaceOf(chunk)] = t

Pairs(store, bag) ==
  {u \in ChunkIds \X Contents :
     \/ store[BagOf(u[1])] # None /\ Place(store[BagOf(u[1])], u[1], u[2])
     \/ bag # None /\ bag.id = BagOf(u[1]) /\ Place(bag.blobs, u[1], u[2])}

Known(p) == Pairs(bags, mem[p].bag)
ChunksOf(K) == {u[1] : u \in K}

(* What a process has in memory, it knows.                                 *)
Knows(p) ==
  /\ mem[p].data # NotLoaded => AllChunks(mem[p].data) \subseteq ChunksOf(Known(p))
  /\ mem[p].trees # Unread => Sound(mem[p].trees, Known(p))
  /\ mem[p].tokens \subseteq Known(p)

(* What has been committed is in the store.                                *)
RootsStored ==
  /\ \A d \in Dirs : AllChunks(clientRoot[d]) \subseteq ChunksOf(Pairs(bags, None))
  /\ Sound(indexRoot, Pairs(bags, None))

AllKnown == RootsStored /\ \A p \in Procs : Knows(p)

LEMMA PairIs ==
  ASSUME NEW store, NEW bag, NEW chunk \in ChunkIds, NEW t \in Contents
  PROVE  <<chunk, t>> \in Pairs(store, bag) <=>
           \/ store[BagOf(chunk)] # None /\ Place(store[BagOf(chunk)], chunk, t)
           \/ bag # None /\ bag.id = BagOf(chunk) /\ Place(bag.blobs, chunk, t)
  BY DEF Pairs

LEMMA ChunksOfIs ==
  ASSUME NEW store, NEW bag, NEW chunk
  PROVE  chunk \in ChunksOf(Pairs(store, bag)) <=>
           chunk \in ChunkIds /\ \E t \in Contents : <<chunk, t>> \in Pairs(store, bag)
<1>1. \A u \in Pairs(store, bag) : u[1] \in ChunkIds /\ u[2] \in Contents /\ u = <<u[1], u[2]>>
  BY DEF Pairs
<1>. QED
  BY <1>1 DEF ChunksOf

LEMMA PairsGrow ==
  ASSUME NEW store \in [Bags -> Seq(Contents) \cup {None}], NEW after,
         \A b \in Bags : store[b] # None /\ store[b] # << >> => after[b] = store[b]
  PROVE  \A bag : Pairs(store, bag) \subseteq Pairs(after, bag) /\ Pairs(store, None) \subseteq Pairs(after, bag)
<1>1. ASSUME NEW u \in ChunkIds \X Contents,
             store[BagOf(u[1])] # None /\ Place(store[BagOf(u[1])], u[1], u[2])
      PROVE  after[BagOf(u[1])] = store[BagOf(u[1])]
  <2>1. BagOf(u[1]) \in Bags
    BY ChunksAre
  <2>2. store[BagOf(u[1])] # << >>
    BY <1>1 DEF Place
  <2>. QED
    BY <1>1, <2>1, <2>2
<1>. QED
  BY <1>1 DEF Pairs

LEMMA SoundMore ==
  ASSUME NEW trees, NEW K, NEW more, Sound(trees, K), K \subseteq more
  PROVE  Sound(trees, more)
  BY DEF Sound

LEMMA ChunksMore ==
  ASSUME NEW K, NEW more, K \subseteq more
  PROVE  ChunksOf(K) \subseteq ChunksOf(more)
  BY DEF ChunksOf

LEMMA StoreGrows ==
  ASSUME Types, WrittenOnce
  PROVE  \A bag : Pairs(bags, bag) \subseteq Pairs(bags', bag) /\ Pairs(bags, None) \subseteq Pairs(bags', bag)
  BY PairsGrow DEF Types, DiskTypes, WrittenOnce

(* The data and the indexes a process works on are known to it.            *)
LEMMA CopiesKnown ==
  ASSUME Types, AllKnown, NEW p \in Procs
  PROVE  /\ Sound(Trees(p), Known(p))
         /\ mem[p].finder \in Dirs => AllChunks(Data(p)) \subseteq ChunksOf(Known(p))
<1>1. Pairs(bags, None) \subseteq Known(p)
  BY DEF Known, Pairs
<1>2. Sound(indexRoot, Known(p))
  BY <1>1, SoundMore DEF AllKnown, RootsStored
<1>3. \A d \in Dirs : AllChunks(clientRoot[d]) \subseteq ChunksOf(Known(p))
  BY <1>1, ChunksMore DEF AllKnown, RootsStored
<1>. QED
  BY <1>2, <1>3 DEF Trees, Data, AllKnown, Knows

(* A step of p by which the store grows leaves to prove what p knows, and  *)
(* what it commits.                                                        *)
LEMMA KnownAfter ==
  ASSUME Types, AllKnown, WrittenOnce, NEW p \in Procs, OnlyOf(p), RootsStored', Knows(p)'
  PROVE  AllKnown'
<1>1. ASSUME NEW q \in Procs, q # p PROVE Knows(q)'
  <2>1. mem'[q] = mem[q] /\ Knows(q)
    BY <1>1 DEF OnlyOf, AllKnown
  <2>2. Known(q) \subseteq Pairs(bags', mem[q].bag)
    BY StoreGrows DEF Known
  <2>3. mem[q].trees # Unread => Sound(mem[q].trees, Pairs(bags', mem[q].bag))
    BY <2>1, <2>2, SoundMore DEF Knows
  <2>4. mem[q].data # NotLoaded => AllChunks(mem[q].data) \subseteq ChunksOf(Pairs(bags', mem[q].bag))
    BY <2>1, <2>2, ChunksMore DEF Knows
  <2>5. mem[q].tokens \subseteq Pairs(bags', mem[q].bag)
    BY <2>1, <2>2 DEF Knows
  <2>. QED
    BY <2>1, <2>3, <2>4, <2>5 DEF Knows, Known
<1>. QED
  BY <1>1 DEF AllKnown

(* Roots that are left alone stay stored.                                  *)
LEMMA RootsStay ==
  ASSUME Types, AllKnown, WrittenOnce
  PROVE  /\ indexRoot' = indexRoot => Sound(indexRoot', Pairs(bags', None))
         /\ clientRoot' = clientRoot =>
              \A d \in Dirs : AllChunks(clientRoot'[d]) \subseteq ChunksOf(Pairs(bags', None))
<1>1. Pairs(bags, None) \subseteq Pairs(bags', None)
  BY StoreGrows
<1>2. Sound(indexRoot, Pairs(bags', None))
  BY <1>1, SoundMore DEF AllKnown, RootsStored
<1>3. ChunksOf(Pairs(bags, None)) \subseteq ChunksOf(Pairs(bags', None))
  BY <1>1, ChunksMore
<1>. QED
  BY <1>2, <1>3 DEF AllKnown, RootsStored

LEMMA IdlingKnows ==
  ASSUME Types, AllKnown, NEW p \in Procs, Idling(p)
  PROVE  AllKnown'
<1>1. WrittenOnce /\ OnlyOf(p) /\ clientRoot' = clientRoot /\ indexRoot' = indexRoot /\ bags' = bags
  BY DEF Idling, WrittenOnce
<1>2. RootsStored'
  BY <1>1, RootsStay DEF RootsStored
<1>3. Knows(p)'
  <2>1. CASE Fresh(p)
    BY <2>1 DEF Fresh, Knows
  <2>2. CASE mem'[p].bag = mem[p].bag
    <3>1. Known(p)' = Known(p)
      BY <1>1, <2>2 DEF Known
    <3>2. Pairs(bags, None) \subseteq Known(p)
      BY DEF Known, Pairs
    <3>3. Sound(indexRoot, Known(p))
      BY <3>2, SoundMore DEF AllKnown, RootsStored
    <3>. QED
      BY <3>1, <3>3 DEF Knows, AllKnown, Idling
  <2>. QED
    BY <2>1, <2>2 DEF Idling
<1>. QED
  BY <1>1, <1>2, <1>3, KnownAfter

(* A step of p by which the store does not change, nor the bag of p, and   *)
(* of the rest p learns only what it knew.                                 *)
LEMMA SameKnown ==
  ASSUME Types, AllKnown, NEW p \in Procs, OnlyOf(p),
         UNCHANGED <<clientRoot, indexRoot, bags>>, mem'[p].bag = mem[p].bag,
         mem'[p].data # NotLoaded => AllChunks(mem'[p].data) \subseteq ChunksOf(Known(p)),
         mem'[p].trees # Unread => Sound(mem'[p].trees, Known(p)),
         mem'[p].tokens \subseteq Known(p)
  PROVE  AllKnown'
<1>1. WrittenOnce
  BY DEF WrittenOnce
<1>2. RootsStored'
  BY <1>1, RootsStay DEF RootsStored
<1>3. Known(p)' = Known(p)
  BY DEF Known
<1>4. Knows(p)'
  BY <1>3 DEF Knows
<1>. QED
  BY <1>1, <1>2, <1>4, KnownAfter

LEMMA KnownNow ==
  ASSUME AllKnown, NEW p \in Procs
  PROVE  /\ mem[p].data # NotLoaded => AllChunks(mem[p].data) \subseteq ChunksOf(Known(p))
         /\ mem[p].trees # Unread => Sound(mem[p].trees, Known(p))
         /\ mem[p].tokens \subseteq Known(p)
  BY DEF AllKnown, Knows

LEMMA create_generation_knows ==
  ASSUME Types, AllKnown, NEW p \in Procs, create_generation(p)
  PROVE  AllKnown'
<1>1. UNCHANGED <<clientRoot, indexRoot, bags>>
  BY DEF create_generation, disk
<1>2. /\ OnlyOf(p) /\ mem'[p].bag = mem[p].bag /\ mem'[p].tokens = mem[p].tokens
      /\ mem'[p].trees = mem[p].trees
  BY create_generation_effect DEF Only, Fields
<1>3. mem[p].finder \in Dirs
  BY CopiesAre DEF create_generation, At, WithFinder
<1>4. mem'[p].data = NewGeneration(Data(p)) /\ Data(p) \in Generations
  BY <1>3, CopiesAre, create_generation_effect
<1>5. AllChunks(mem'[p].data) \subseteq AllChunks(Data(p))
  BY <1>4, NewGenerationIs
<1>6. AllChunks(mem'[p].data) \subseteq ChunksOf(Known(p))
  BY <1>3, <1>5, CopiesKnown
<1>. QED
  BY <1>1, <1>2, <1>6, KnownNow, SameKnown

LEMMA remove_generation_knows ==
  ASSUME Types, AllKnown, NEW p \in Procs, remove_generation(p)
  PROVE  AllKnown'
<1>1. UNCHANGED <<clientRoot, indexRoot, bags>>
  BY DEF remove_generation, disk
<1>2. PICK i \in DOMAIN Data(p) :
        Only(p, {"pc", "data", "unused"}) /\ mem'[p].data = RemoveAt(Data(p), i)
  BY remove_generation_effect
<1>3. /\ OnlyOf(p) /\ mem'[p].bag = mem[p].bag /\ mem'[p].tokens = mem[p].tokens
      /\ mem'[p].trees = mem[p].trees
  BY <1>2 DEF Only, Fields
<1>4. mem[p].finder \in Dirs /\ Data(p) \in Generations
  BY FieldsAre, CopiesAre DEF remove_generation
<1>5. AllChunks(mem'[p].data) \subseteq AllChunks(Data(p))
  BY <1>2, <1>4, ShorterIs
<1>6. AllChunks(mem'[p].data) \subseteq ChunksOf(Known(p))
  BY <1>4, <1>5, CopiesKnown
<1>. QED
  BY <1>1, <1>3, <1>6, KnownNow, SameKnown

(* A chunk that the backup finds for a content has that content.           *)
LEMMA FoundKnown ==
  ASSUME Types, AllKnown, NEW p \in Procs, NEW token \in Contents, NEW chunk \in FoundChunks(p, token)
  PROVE  <<chunk, token>> \in Known(p)
<1>1. CASE chunk \in find_chunk_ids_by_token(Trees(p), token)
  BY <1>1, CopiesKnown, CopiesAre, SoundFind
<1>2. ASSUME NEW u \in mem[p].tokens, u[2] = token, u[1] = chunk PROVE <<chunk, token>> \in Known(p)
  <2>1. u \in ChunkIds \X Contents
    BY FieldsAre
  <2>2. u = <<chunk, token>>
    BY <1>2, <2>1
  <2>. QED
    BY <2>2, KnownNow
<1>. QED
  BY <1>1, <1>2 DEF FoundChunks

LEMMA use_chunk_knows ==
  ASSUME Types, AllKnown, NEW p \in Procs, NEW chunk \in ChunkIds, NEW token \in Contents,
         use_chunk(p, chunk, token)
  PROVE  AllKnown'
<1>1. UNCHANGED <<clientRoot, indexRoot, bags>> /\ chunk \in FoundChunks(p, token)
  BY DEF use_chunk, disk
<1>2. /\ OnlyOf(p) /\ mem'[p].bag = mem[p].bag
      /\ mem'[p].trees = Trees(p) /\ mem'[p].data = WithChunk(mem[p].data, chunk)
      /\ mem'[p].tokens = mem[p].tokens \cup {<<chunk, token>>}
  BY use_chunk_effect DEF Only, Fields
<1>3. <<chunk, token>> \in Known(p)
  BY <1>1, FoundKnown
<1>4. mem[p].data \in Generations /\ mem[p].finder \in Dirs
  BY TypesOf, CopiesAre DEF use_chunk, PcFits, At, WithFinder
<1>5. AllChunks(mem[p].data) \subseteq ChunksOf(Known(p))
  BY <1>4, CopiesKnown, NoneAssumption DEF Data, Generations
<1>6. chunk \in ChunksOf(Known(p))
  BY <1>3, ChunksOfIs DEF Known
<1>7. AllChunks(mem'[p].data) \subseteq ChunksOf(Known(p))
  BY <1>2, <1>4, <1>5, <1>6, WithChunkIs
<1>8. mem'[p].tokens \subseteq Known(p)
  BY <1>2, <1>3, KnownNow
<1>. QED
  BY <1>1, <1>2, <1>7, <1>8, CopiesKnown, SameKnown

LEMMA put_chunk_into_indexes_knows ==
  ASSUME Types, AllKnown, NEW p \in Procs, NEW chunk \in ChunkIds, NEW token \in Contents,
         <<chunk, token>> \in mem[p].tokens, put_chunk_into_indexes(p, chunk, token)
  PROVE  AllKnown'
<1>1. UNCHANGED <<clientRoot, indexRoot, bags>>
  BY DEF put_chunk_into_indexes, disk
<1>2. /\ OnlyOf(p) /\ mem'[p].bag = mem[p].bag /\ mem'[p].data = mem[p].data
      /\ mem'[p].trees = IndexesWith(Trees(p), chunk, token, mem[p].client)
      /\ mem'[p].tokens \subseteq mem[p].tokens
  BY put_chunk_into_indexes_effect DEF Only, Fields
<1>3. <<chunk, token>> \in Known(p) /\ Sound(Trees(p), Known(p)) /\ Trees(p) \in IndexTrees
  BY KnownNow, CopiesKnown, CopiesAre
<1>4. Sound(mem'[p].trees, Known(p))
  BY <1>2, <1>3, SoundWith
<1>. QED
  BY <1>1, <1>2, <1>4, KnownNow, SameKnown

LEMMA remove_chunk_from_indexes_knows ==
  ASSUME Types, AllKnown, NEW p \in Procs, NEW chunk \in ChunkIds, remove_chunk_from_indexes(p, chunk)
  PROVE  AllKnown'
<1>1. UNCHANGED <<clientRoot, indexRoot, bags>>
  BY DEF remove_chunk_from_indexes, disk
<1>2. /\ OnlyOf(p) /\ mem'[p].bag = mem[p].bag /\ mem'[p].data = mem[p].data
      /\ mem'[p].trees = IndexesWithout(Trees(p), chunk, mem[p].client)
      /\ mem'[p].tokens = mem[p].tokens
  BY remove_chunk_from_indexes_effect DEF Only, Fields
<1>3. Sound(Trees(p), Known(p)) /\ Trees(p) \in IndexTrees /\ mem[p].client \in Names
  BY CopiesKnown, CopiesAre DEF remove_chunk_from_indexes, At
<1>4. Sound(mem'[p].trees, Known(p))
  BY <1>2, <1>3, SoundWithout
<1>. QED
  BY <1>1, <1>2, <1>4, KnownNow, SameKnown

(* When a process commits, it has no bag that is being filled.             *)
LEMMA commit_client_knows ==
  ASSUME Types, AllKnown, NEW p \in Procs, BagFits(p), commit_client(p)
  PROVE  AllKnown'
<1>1. WrittenOnce /\ indexRoot' = indexRoot /\ bags' = bags
  BY DEF commit_client, WrittenOnce
<1>2. /\ OnlyOf(p) /\ mem'[p].bag = mem[p].bag /\ mem'[p].data = Data(p)
      /\ mem'[p].trees = mem[p].trees /\ mem'[p].tokens = mem[p].tokens
  BY commit_client_effect DEF Only, Fields
<1>3. mem[p].bag = None /\ mem[p].finder \in Dirs
  BY CopiesAre DEF commit_client, At, WithFinder, BagFits, Filling
<1>4. AllChunks(Data(p)) \subseteq ChunksOf(Pairs(bags, None))
  BY <1>3, CopiesKnown DEF Known
<1>5. clientRoot' = [clientRoot EXCEPT ![mem[p].finder] = Data(p)]
  BY DEF commit_client
<1>6. ASSUME NEW d \in Dirs PROVE AllChunks(clientRoot'[d]) \subseteq ChunksOf(Pairs(bags', None))
  <2>1. clientRoot'[d] = Data(p) \/ clientRoot'[d] = clientRoot[d]
    BY <1>5 DEF Types, DiskTypes
  <2>2. AllChunks(clientRoot[d]) \subseteq ChunksOf(Pairs(bags, None))
    BY DEF AllKnown, RootsStored
  <2>. QED
    BY <1>1, <1>4, <2>1, <2>2
<1>7. RootsStored'
  BY <1>1, <1>6, RootsStay DEF RootsStored
<1>8. Knows(p)'
  <2>1. Known(p)' = Known(p)
    BY <1>1, <1>2 DEF Known
  <2>2. AllChunks(Data(p)) \subseteq ChunksOf(Known(p))
    BY <1>3, CopiesKnown
  <2>. QED
    BY <1>2, <2>1, <2>2, KnownNow DEF Knows
<1>. QED
  BY <1>1, <1>2, <1>7, <1>8, KnownAfter

LEMMA commit_chunk_indexes_knows ==
  ASSUME Types, AllKnown, NEW p \in Procs, BagFits(p), commit_chunk_indexes(p)
  PROVE  AllKnown'
<1>1. WrittenOnce /\ clientRoot' = clientRoot /\ bags' = bags
  BY DEF commit_chunk_indexes, WrittenOnce
<1>2. /\ OnlyOf(p) /\ mem'[p].bag = mem[p].bag /\ mem'[p].data = mem[p].data
      /\ mem'[p].trees = Trees(p) /\ mem'[p].tokens = mem[p].tokens
  BY commit_chunk_indexes_effect DEF Only, Fields
<1>3. mem[p].bag = None
  BY DEF commit_chunk_indexes, At, BagFits, Filling
<1>4. Sound(Trees(p), Pairs(bags, None)) /\ Trees(p) \in IndexTrees /\ indexRoot \in IndexTrees
  BY <1>3, CopiesKnown, CopiesAre, FieldsAre DEF Known
<1>5. Sound(indexRoot', Pairs(bags, None))
  <2>1. indexRoot' = [t \in DOMAIN indexRoot |-> commit(Trees(p)[t])]
    BY DEF commit_chunk_indexes
  <2>2. \A trees, root \in IndexTrees : \A K : Sound(trees, K) => Sound([t \in DOMAIN root |-> commit(trees[t])], K)
    BY CommittedIndexes
  <2>. QED
    BY <1>4, <2>1, <2>2
<1>6. RootsStored'
  BY <1>1, <1>5, RootsStay DEF RootsStored
<1>7. Knows(p)'
  <2>1. Known(p)' = Known(p)
    BY <1>1, <1>2 DEF Known
  <2>. QED
    BY <1>2, <2>1, KnownNow, CopiesKnown DEF Knows
<1>. QED
  BY <1>1, <1>2, <1>6, <1>7, KnownAfter

(* What was in the bag of p is in the store when it has been flushed.      *)
LEMMA FlushKnown ==
  ASSUME Types, BagsFit, NEW p \in Procs, flush_chunks(p)
  PROVE  Known(p) \subseteq Pairs(bags', None)
<1>1. WrittenOnce
  BY FlushKeepsBags
<1>2. CASE mem[p].bag = None
  BY <1>1, <1>2, StoreGrows DEF Known
<1>3. CASE mem[p].bag # None
  <2>1. /\ bags' = [bags EXCEPT ![mem[p].bag.id] = mem[p].bag.blobs]
        /\ mem[p].bag.id \in Bags /\ mem[p].bag.blobs \in Seq(Contents)
    BY <1>3, FieldsAre DEF flush_chunks, Filled
  <2>2. bags'[mem[p].bag.id] = mem[p].bag.blobs /\ mem[p].bag.blobs # None
    BY <2>1, EmptyIsSome DEF Types, DiskTypes
  <2>3. ASSUME NEW chunk \in ChunkIds, NEW t \in Contents, <<chunk, t>> \in Known(p)
        PROVE  <<chunk, t>> \in Pairs(bags', None)
    <3>1. CASE mem[p].bag.id = BagOf(chunk) /\ Place(mem[p].bag.blobs, chunk, t)
      BY <2>2, <3>1, PairIs
    <3>2. CASE bags[BagOf(chunk)] # None /\ Place(bags[BagOf(chunk)], chunk, t)
      <4>1. <<chunk, t>> \in Pairs(bags, None)
        BY <3>2, PairIs
      <4>. QED
        BY <1>1, <4>1, StoreGrows
    <3>. QED
      BY <2>3, <3>1, <3>2, PairIs DEF Known
  <2>. QED
    BY <2>3 DEF Known, Pairs
<1>. QED
  BY <1>2, <1>3

LEMMA flush_chunks_knows ==
  ASSUME Types, AllKnown, BagsFit, NEW p \in Procs, flush_chunks(p)
  PROVE  AllKnown'
<1>1. WrittenOnce
  BY FlushKeepsBags
<1>2. /\ OnlyOf(p) /\ mem'[p].bag = None /\ mem'[p].data = mem[p].data
      /\ mem'[p].trees = mem[p].trees /\ mem'[p].tokens = mem[p].tokens
  BY flush_chunks_effect DEF Only, Fields
<1>3. clientRoot' = clientRoot /\ indexRoot' = indexRoot
  BY DEF flush_chunks
<1>4. RootsStored'
  BY <1>1, <1>3, RootsStay DEF RootsStored
<1>5. Known(p) \subseteq Pairs(bags', None)
  BY FlushKnown
<1>6. Knows(p)'
  <2>1. Known(p)' = Pairs(bags', None)
    BY <1>2 DEF Known
  <2>2. ChunksOf(Known(p)) \subseteq ChunksOf(Pairs(bags', None))
    BY <1>5, ChunksMore
  <2>3. mem[p].trees # Unread => Sound(mem[p].trees, Pairs(bags', None))
    BY <1>5, KnownNow, SoundMore
  <2>. QED
    BY <1>2, <1>5, <2>1, <2>2, <2>3, KnownNow DEF Knows
<1>. QED
  BY <1>1, <1>2, <1>4, <1>6, KnownAfter

LEMMA put_chunk_content_knows ==
  ASSUME Types, AllKnown, BagsFit, NEW p \in Procs, NEW content \in Contents, put_chunk_content(p, content)
  PROVE  AllKnown'
<1>1. WrittenOnce
  BY PutKeepsBags
<1>2. PICK b \in Bags, blobs \in Seq(Contents) : PutsIn(p, content, b, blobs) /\ Len(blobs) \in 1 .. BagSize
  BY Putting DEF BagsFit, BagFits
<1> DEFINE chunk == make_object_id(b, Len(blobs))
<1>3. /\ Only(p, {"trees", "data", "tokens", "bag"})
      /\ mem'[p].bag = Rest(b, blobs) /\ mem'[p].trees = Trees(p)
      /\ mem'[p].data = WithChunk(mem[p].data, chunk)
      /\ mem'[p].tokens = mem[p].tokens \cup {<<chunk, content>>}
  BY <1>2, put_chunk_content_effect
<1>4. chunk \in ChunkIds /\ BagOf(chunk) = b /\ PlaceOf(chunk) = Len(blobs)
  BY <1>2, NameIs
<1>5. clientRoot' = clientRoot /\ indexRoot' = indexRoot
  BY DEF put_chunk_content
<1> HIDE DEF chunk
<1>6. RootsStored'
  BY <1>1, <1>5, RootsStay DEF RootsStored
<1>7. OnlyOf(p)
  BY <1>3 DEF Only
<1>8. /\ Len(blobs) \in DOMAIN blobs /\ blobs[Len(blobs)] = content
      /\ mem[p].bag # None => \A i \in DOMAIN mem[p].bag.blobs :
           i \in DOMAIN blobs /\ blobs[i] = mem[p].bag.blobs[i]
  <2>1. blobs = Append(Blobs(p), content) /\ Blobs(p) \in Seq(Contents)
    BY <1>2, FieldsAre DEF PutsIn, Blobs, Filled
  <2>2. \A s \in Seq(Contents) :
          /\ Len(Append(s, content)) \in DOMAIN Append(s, content)
          /\ Append(s, content)[Len(Append(s, content))] = content
          /\ \A i \in DOMAIN s : i \in DOMAIN Append(s, content) /\ Append(s, content)[i] = s[i]
    OBVIOUS
  <2>. QED
    BY <2>1, <2>2 DEF Blobs
<1>9. \A c \in ChunkIds, t \in Contents :
        BagOf(c) = b /\ Place(blobs, c, t) => <<c, t>> \in Known(p)'
  <2>1. CASE Len(blobs) >= BagSize
    <3>1. bags'[b] = blobs /\ blobs # None
      BY <1>2, <2>1, EmptyIsSome DEF PutsIn, Types, DiskTypes
    <3>. QED
      BY <3>1, PairIs DEF Known
  <2>2. CASE ~(Len(blobs) >= BagSize)
    <3>1. mem'[p].bag = [id |-> b, blobs |-> blobs]
      BY <1>3, <2>2 DEF Rest
    <3>2. mem'[p].bag # None
      BY <3>1, EmptyIsSome DEF Filled
    <3>3. mem'[p].bag.id = b /\ mem'[p].bag.blobs = blobs
      BY <3>1
    <3>. QED
      BY <3>2, <3>3, PairIs DEF Known
  <2>. QED
    BY <2>1, <2>2
<1>10. Known(p) \subseteq Known(p)'
  <2>1. ASSUME NEW c \in ChunkIds, NEW t \in Contents, <<c, t>> \in Known(p) PROVE <<c, t>> \in Known(p)'
    <3>1. CASE bags[BagOf(c)] # None /\ Place(bags[BagOf(c)], c, t)
      <4>1. <<c, t>> \in Pairs(bags, None)
        BY <3>1, PairIs
      <4>. QED
        BY <1>1, <4>1, StoreGrows DEF Known
    <3>2. CASE mem[p].bag # None /\ mem[p].bag.id = BagOf(c) /\ Place(mem[p].bag.blobs, c, t)
      <4>1. BagOf(c) = b /\ Place(blobs, c, t)
        BY <1>2, <1>8, <3>2 DEF PutsIn, Place
      <4>. QED
        BY <1>9, <4>1
    <3>. QED
      BY <2>1, <3>1, <3>2, PairIs DEF Known
  <2>. QED
    BY <2>1 DEF Known, Pairs
<1>11. <<chunk, content>> \in Known(p)'
  BY <1>4, <1>8, <1>9 DEF Place
<1>12. Knows(p)'
  <2>1. mem[p].data \in Generations /\ mem[p].finder \in Dirs
    BY TypesOf, CopiesAre DEF put_chunk_content, PcFits, At, WithFinder
  <2>2. AllChunks(mem[p].data) \subseteq ChunksOf(Known(p))
    BY <2>1, CopiesKnown, NoneAssumption DEF Data, Generations
  <2>3. ChunksOf(Known(p)) \subseteq ChunksOf(Known(p)')
    BY <1>10, ChunksMore
  <2>4. chunk \in ChunksOf(Known(p)')
    BY <1>11 DEF ChunksOf
  <2>5. AllChunks(mem'[p].data) \subseteq ChunksOf(Known(p)')
    BY <1>3, <1>4, <2>1, <2>2, <2>3, <2>4, WithChunkIs
  <2>6. Sound(mem'[p].trees, Known(p)')
    BY <1>3, <1>10, CopiesKnown, SoundMore
  <2>7. mem'[p].tokens \subseteq Known(p)'
    BY <1>3, <1>10, <1>11, KnownNow
  <2>. QED
    BY <2>5, <2>6, <2>7 DEF Knows
<1>. QED
  BY <1>1, <1>6, <1>7, <1>12, KnownAfter

LEMMA KnowledgeKept ==
  ASSUME Types, BagsFit, AllKnown, Next
  PROVE  AllKnown'
<1>1. \A p \in Procs : BagFits(p)
  BY DEF BagsFit
<1>2. CASE UNCHANGED <<clientRoot, indexRoot, bags, mem>>
  BY <1>2 DEF AllKnown, RootsStored, Knows, Known
<1>3. ASSUME NEW p \in Procs, Learning(p) PROVE AllKnown'
  BY <1>1, <1>3, create_generation_knows, remove_generation_knows, flush_chunks_knows,
     commit_client_knows, commit_chunk_indexes_knows, put_chunk_content_knows, use_chunk_knows,
     put_chunk_into_indexes_knows, remove_chunk_from_indexes_knows DEF Learning
<1>. QED
  BY <1>1, <1>2, <1>3, IdlingKnows, Steps

LEMMA KnowledgeStarts == Init => AllKnown
<1> SUFFICES ASSUME Init PROVE AllKnown
  OBVIOUS
<1>1. \A p \in Procs : mem[p] = Idle
  BY DEF Init
<1>2. \A p \in Procs : mem[p].data = NotLoaded /\ mem[p].trees = Unread /\ mem[p].tokens = {}
  BY <1>1 DEF Idle
<1>3. ToSet(<< >>) = {}
  BY DEF ToSet
<1>4. \A d \in Dirs : AllChunks(clientRoot[d]) = {}
  BY <1>3 DEF Init, AllChunks
<1>5. Sound(indexRoot, Pairs(bags, None))
  BY EmptyIndexes DEF Init
<1>. QED
  BY <1>2, <1>4, <1>5 DEF AllKnown, RootsStored, Knows

LEMMA StoredIs ==
  ASSUME NEW chunk \in ChunkIds, NEW t \in Contents, <<chunk, t>> \in Pairs(bags, None)
  PROVE  Stored(chunk) /\ bags[BagOf(chunk)][PlaceOf(chunk)] = t
<1>1. bags[BagOf(chunk)] # None /\ Place(bags[BagOf(chunk)], chunk, t)
  BY PairIs
<1>. QED
  BY <1>1 DEF Stored, Place

LEMMA KnownIsStored == Types /\ AllKnown => CommittedIsStored /\ IndexIsSound
<1> SUFFICES ASSUME Types, AllKnown PROVE CommittedIsStored /\ IndexIsSound
  OBVIOUS
<1>1. ASSUME NEW d \in Dirs, NEW chunk \in AllChunks(clientRoot[d]) PROVE Stored(chunk)
  <2>1. PICK t \in Contents : chunk \in ChunkIds /\ <<chunk, t>> \in Pairs(bags, None)
    BY <1>1, ChunksOfIs DEF AllKnown, RootsStored
  <2>. QED
    BY <2>1, StoredIs
<1>2. ASSUME NEW t \in Contents, NEW chunk \in find_chunk_ids_by_token(indexRoot, t)
      PROVE  Stored(chunk) /\ bags[BagOf(chunk)][PlaceOf(chunk)] = t
  <2>1. indexRoot \in IndexTrees /\ Sound(indexRoot, Pairs(bags, None))
    BY DEF Types, DiskTypes, AllKnown, RootsStored
  <2>2. <<chunk, t>> \in Pairs(bags, None)
    BY <2>1, SoundFind
  <2>3. chunk \in ChunkIds
    BY <2>1, FindsChunks
  <2>. QED
    BY <2>2, <2>3, StoredIs
<1>. QED
  BY <1>1, <1>2 DEF CommittedIsStored, IndexIsSound

LEMMA KnowledgeAlways == Spec => [](Types /\ BagsFit /\ AllKnown)
<1>1. Types /\ BagsFit /\ AllKnown /\ [Next]_vars => (Types /\ BagsFit /\ AllKnown)'
  <2>1. CASE UNCHANGED vars
    BY <2>1 DEF vars, disk, Types, DiskTypes, PcFits, At, BagsFit, BagFits, AllKnown, RootsStored, Knows, Known
  <2>2. CASE Next
    BY <2>2, TypesKept, BagsKept, KnowledgeKept DEF BagsFit
  <2>. QED
    BY <2>1, <2>2
<1>. QED
  BY <1>1, BagsStart, KnowledgeStarts, PTL DEF Spec

(* Chunks are stored before what refers to them is committed: commit_client *)
(* and commit_chunk_indexes come after flush_chunks, so that no generation  *)
(* and no index entry on disk ever names a chunk that is lost with the bag  *)
(* of a process that failed or died.                                        *)
THEOREM StoresBeforeCommit == Spec => []CommittedIsStored
  BY KnowledgeAlways, KnownIsStored, PTL

(* What the indexes on disk answer for a token is a chunk with that content,*)
(* whatever the B-tree leaves in memory and in the blobs (indexes.py).      *)
THEOREM IndexTellsTruth == Spec => []IndexIsSound
  BY KnowledgeAlways, KnownIsStored, PTL

-----------------------------------------------------------------------------
(* Locks                                                                   *)

ListLocked    == {"backup", "forget", "remove-client", "list changed", "list committed", "choose"}
IndexesLocked == {"initialised", "share", "commit", "unlock client", "commit indexes",
                  "unlock indexes", "choose", "unlock clients"}
ClientLocked  == {"initialise", "initialised", "create", "walk", "share", "unlock client"}
ForgetOnly    == {"forget", "choose", "unlock clients"}
IndexFree     == {"find", "found", "initialise", "create", "walk"}
BackupOnly    == ClientLocked \cup {"find", "found", "unlock indexes"}

(* The locks a process has where it is in its command.                     *)
HeldFits(p) ==
  /\ mem[p].pc \in ListLocked => ListPart \in mem[p].held
  /\ mem[p].pc \in IndexesLocked => IndexPart \in mem[p].held
  /\ mem[p].pc \in ClientLocked => mem[p].finder \in mem[p].held
  /\ mem[p].pc \in ForgetOnly => mem[p].command = "forget"
  /\ mem[p].pc \in BackupOnly => mem[p].command # "forget"
  /\ mem[p].pc \in {"commit", "commit indexes"} /\ mem[p].command = "forget" => ListPart \in mem[p].held
  /\ mem[p].pc = "commit" /\ mem[p].command # "forget" => mem[p].finder \in mem[p].held
  /\ mem[p].pc \in IndexFree => IndexPart \notin mem[p].held

(* A part is locked by one process, and has a lock file while it is.       *)
Holding ==
  /\ \A p \in Procs : HeldFits(p) /\ mem[p].held \subseteq locks
  /\ \A p, q \in Procs : p # q => mem[p].held \cap mem[q].held = {}

(* A step of p leaves the locks alone, makes one that is not there, or     *)
(* removes one of its own.                                                 *)
LocksStep(p) ==
  \/ locks' = locks /\ mem'[p].held \subseteq mem[p].held
  \/ \E part \in Parts \ locks : locks' = locks \cup {part} /\ mem'[p].held \subseteq mem[p].held \cup {part}
  \/ \E part \in mem[p].held : locks' = locks \ {part} /\ mem'[p].held \subseteq mem[p].held \ {part}

LEMMA PartsDiffer ==
  /\ ListPart # IndexPart /\ ListPart \in Parts /\ IndexPart \in Parts
  /\ \A d \in Dirs : d # ListPart /\ d # IndexPart /\ d \in Parts
  BY GreenAlbatrossAssumption DEF Parts, ListPart, IndexPart

LEMMA HoldingAfter ==
  ASSUME Holding, NEW p \in Procs, OnlyOf(p), LocksStep(p), HeldFits(p)'
  PROVE  Holding'
<1>1. \A q \in Procs : q # p => mem'[q] = mem[q] /\ mem[q].held \subseteq locks /\ mem[q].held \cap mem[p].held = {}
  BY DEF OnlyOf, Holding
<1>2. mem[p].held \subseteq locks
  BY DEF Holding
<1>3. \A q \in Procs : HeldFits(q)'
  <2>1. ASSUME NEW q \in Procs, q # p PROVE HeldFits(q)'
    BY <1>1, <2>1 DEF Holding, HeldFits
  <2>. QED
    BY <2>1
<1>4. mem'[p].held \subseteq locks' /\ \A q \in Procs : q # p => mem[q].held \subseteq locks'
  BY <1>1, <1>2 DEF LocksStep
<1>5. \A q \in Procs : q # p => mem[q].held \cap mem'[p].held = {}
  BY <1>1 DEF LocksStep
<1>6. ASSUME NEW q \in Procs, NEW r \in Procs, q # r PROVE mem'[q].held \cap mem'[r].held = {}
  <2>1. CASE q # p /\ r # p
    BY <1>1, <1>6, <2>1 DEF Holding
  <2>2. CASE q = p
    BY <1>1, <1>5, <1>6, <2>2
  <2>3. CASE r = p
    BY <1>1, <1>5, <1>6, <2>3
  <2>. QED
    BY <2>1, <2>2, <2>3
<1>7. \A q \in Procs : mem'[q].held \subseteq locks'
  BY <1>1, <1>4
<1>. QED
  BY <1>3, <1>6, <1>7 DEF Holding

LEMMA add_client_holds ==
  ASSUME Types, Holding, NEW p \in Procs, add_client(p)
  PROVE  Holding'
<1>1. mem[p].pc \in {"backup"} /\ HeldFits(p) /\ mem[p].held \subseteq locks
  BY DEF add_client, At, Holding
<1>2. OnlyOf(p) /\ mem'[p].command = mem[p].command /\ mem'[p].finder = mem[p].finder /\ mem'[p].held = mem[p].held /\ mem'[p].held = mem[p].held
  BY add_client_effect DEF Only, Fields
<1>3. locks' = locks
  BY <1>1, FieldsAre, CopiesAre, PartsDiffer DEF add_client, Free, disk, HeldFits, ListLocked, IndexesLocked, ClientLocked, WithFinder
<1>4. mem'[p].pc = "list changed"
  BY <1>1, add_client_effect
<1>5. mem[p].pc \in WithFinder => mem[p].finder \in Dirs
  BY CopiesAre
<1>6. HeldFits(p)'
  BY <1>1, <1>2, <1>4, <1>5, PartsDiffer
     DEF HeldFits, ListLocked, IndexesLocked, ClientLocked, ForgetOnly, BackupOnly, IndexFree, WithFinder
<1>7. LocksStep(p)
  BY <1>2, <1>3 DEF LocksStep
<1>. QED
  BY <1>2, <1>6, <1>7, HoldingAfter

LEMMA remove_client_holds ==
  ASSUME Types, Holding, NEW p \in Procs, remove_client(p)
  PROVE  Holding'
<1>1. mem[p].pc \in {"remove-client"} /\ HeldFits(p) /\ mem[p].held \subseteq locks
  BY DEF remove_client, At, Holding
<1>2. OnlyOf(p) /\ mem'[p].command = mem[p].command /\ mem'[p].finder = mem[p].finder /\ mem'[p].held = mem[p].held /\ mem'[p].held = mem[p].held
  BY remove_client_effect DEF Only, Fields
<1>3. locks' = locks
  BY <1>1, FieldsAre, CopiesAre, PartsDiffer DEF remove_client, Free, disk, HeldFits, ListLocked, IndexesLocked, ClientLocked, WithFinder
<1>4. mem'[p].pc = "list changed"
  BY <1>1, remove_client_effect
<1>5. mem[p].pc \in WithFinder => mem[p].finder \in Dirs
  BY CopiesAre
<1>6. HeldFits(p)'
  BY <1>1, <1>2, <1>4, <1>5, PartsDiffer
     DEF HeldFits, ListLocked, IndexesLocked, ClientLocked, ForgetOnly, BackupOnly, IndexFree, WithFinder
<1>7. LocksStep(p)
  BY <1>2, <1>3 DEF LocksStep
<1>. QED
  BY <1>2, <1>6, <1>7, HoldingAfter

LEMMA rename_client_holds ==
  ASSUME Types, Holding, NEW p \in Procs, NEW new \in Names, rename_client(p, new)
  PROVE  Holding'
<1>1. mem[p].pc \in {"remove-client"} /\ HeldFits(p) /\ mem[p].held \subseteq locks
  BY DEF rename_client, At, Holding
<1>2. OnlyOf(p) /\ mem'[p].command = mem[p].command /\ mem'[p].finder = mem[p].finder /\ mem'[p].held = mem[p].held /\ mem'[p].held = mem[p].held
  BY rename_client_effect DEF Only, Fields
<1>3. locks' = locks
  BY <1>1, FieldsAre, CopiesAre, PartsDiffer DEF rename_client, Free, disk, HeldFits, ListLocked, IndexesLocked, ClientLocked, WithFinder
<1>4. mem'[p].pc = "list changed"
  BY <1>1, rename_client_effect
<1>5. mem[p].pc \in WithFinder => mem[p].finder \in Dirs
  BY CopiesAre
<1>6. HeldFits(p)'
  BY <1>1, <1>2, <1>4, <1>5, PartsDiffer
     DEF HeldFits, ListLocked, IndexesLocked, ClientLocked, ForgetOnly, BackupOnly, IndexFree, WithFinder
<1>7. LocksStep(p)
  BY <1>2, <1>3 DEF LocksStep
<1>. QED
  BY <1>2, <1>6, <1>7, HoldingAfter

LEMMA commit_client_list_holds ==
  ASSUME Types, Holding, NEW p \in Procs, commit_client_list(p)
  PROVE  Holding'
<1>1. mem[p].pc \in {"list changed"} /\ HeldFits(p) /\ mem[p].held \subseteq locks
  BY DEF commit_client_list, At, Holding
<1>2. OnlyOf(p) /\ mem'[p].command = mem[p].command /\ mem'[p].finder = mem[p].finder /\ mem'[p].held = mem[p].held /\ mem'[p].held = mem[p].held
  BY commit_client_list_effect DEF Only, Fields
<1>3. locks' = locks
  BY <1>1, FieldsAre, CopiesAre, PartsDiffer DEF commit_client_list, Free, disk, HeldFits, ListLocked, IndexesLocked, ClientLocked, WithFinder
<1>4. mem'[p].pc = "list committed"
  BY <1>1, commit_client_list_effect
<1>5. mem[p].pc \in WithFinder => mem[p].finder \in Dirs
  BY CopiesAre
<1>6. HeldFits(p)'
  BY <1>1, <1>2, <1>4, <1>5, PartsDiffer
     DEF HeldFits, ListLocked, IndexesLocked, ClientLocked, ForgetOnly, BackupOnly, IndexFree, WithFinder
<1>7. LocksStep(p)
  BY <1>2, <1>3 DEF LocksStep
<1>. QED
  BY <1>2, <1>6, <1>7, HoldingAfter

LEMMA unlock_client_list_holds ==
  ASSUME Types, Holding, NEW p \in Procs, unlock_client_list(p)
  PROVE  Holding'
<1>1. mem[p].pc \in {"list committed"} /\ HeldFits(p) /\ mem[p].held \subseteq locks
  BY DEF unlock_client_list, At, Holding
<1>2. OnlyOf(p) /\ mem'[p].command = mem[p].command /\ mem'[p].finder = mem[p].finder /\ mem'[p].held = {}
  BY unlock_client_list_effect DEF Only, Fields
<1>3. ListPart \in mem[p].held /\ locks' = locks \ {ListPart}
  BY <1>1, FieldsAre, CopiesAre, PartsDiffer DEF unlock_client_list, Free, disk, HeldFits, ListLocked, IndexesLocked, ClientLocked, WithFinder
<1>4. mem'[p].pc = (IF mem[p].command = "backup" THEN "find" ELSE "exit")
  BY <1>1, unlock_client_list_effect
<1>5. mem[p].pc \in WithFinder => mem[p].finder \in Dirs
  BY CopiesAre
<1>6. HeldFits(p)'
  BY <1>1, <1>2, <1>4, <1>5, PartsDiffer
     DEF HeldFits, ListLocked, IndexesLocked, ClientLocked, ForgetOnly, BackupOnly, IndexFree, WithFinder
<1>7. LocksStep(p)
  BY <1>2, <1>3 DEF LocksStep
<1>. QED
  BY <1>2, <1>6, <1>7, HoldingAfter

LEMMA find_client_holds ==
  ASSUME Types, Holding, NEW p \in Procs, find_client(p)
  PROVE  Holding'
<1>1. mem[p].pc \in {"find"} /\ HeldFits(p) /\ mem[p].held \subseteq locks
  BY DEF find_client, At, Holding
<1>2. OnlyOf(p) /\ mem'[p].command = mem[p].command /\ mem'[p].held = mem[p].held /\ mem'[p].held = mem[p].held
  BY find_client_effect DEF Only, Fields
<1>3. locks' = locks
  BY <1>1, FieldsAre, CopiesAre, PartsDiffer DEF find_client, Free, disk, HeldFits, ListLocked, IndexesLocked, ClientLocked, WithFinder
<1>4. mem'[p].pc \in {"found", "exit"}
  BY <1>1, find_client_effect
<1>5. mem[p].pc \in WithFinder => mem[p].finder \in Dirs
  BY CopiesAre
<1>6. HeldFits(p)'
  BY <1>1, <1>2, <1>4, <1>5, PartsDiffer
     DEF HeldFits, ListLocked, IndexesLocked, ClientLocked, ForgetOnly, BackupOnly, IndexFree, WithFinder
<1>7. LocksStep(p)
  BY <1>2, <1>3 DEF LocksStep
<1>. QED
  BY <1>2, <1>6, <1>7, HoldingAfter

LEMMA lock_client_holds ==
  ASSUME Types, Holding, NEW p \in Procs, lock_client(p)
  PROVE  Holding'
<1>1. mem[p].pc \in {"found"} /\ HeldFits(p) /\ mem[p].held \subseteq locks
  BY DEF lock_client, At, Holding
<1>2. OnlyOf(p) /\ mem'[p].command = mem[p].command /\ mem'[p].finder = mem[p].finder /\ mem'[p].held = {mem[p].finder}
  BY lock_client_effect DEF Only, Fields
<1>3. mem[p].finder \in Parts \ locks /\ locks' = locks \cup {mem[p].finder}
  BY <1>1, FieldsAre, CopiesAre, PartsDiffer DEF lock_client, Free, disk, HeldFits, ListLocked, IndexesLocked, ClientLocked, WithFinder
<1>4. mem'[p].pc \in {"initialise", "create"}
  BY <1>1, lock_client_effect
<1>5. mem[p].pc \in WithFinder => mem[p].finder \in Dirs
  BY CopiesAre
<1>6. HeldFits(p)'
  BY <1>1, <1>2, <1>4, <1>5, PartsDiffer
     DEF HeldFits, ListLocked, IndexesLocked, ClientLocked, ForgetOnly, BackupOnly, IndexFree, WithFinder
<1>7. LocksStep(p)
  BY <1>2, <1>3 DEF LocksStep
<1>. QED
  BY <1>2, <1>6, <1>7, HoldingAfter

LEMMA create_generation_holds ==
  ASSUME Types, Holding, NEW p \in Procs, create_generation(p)
  PROVE  Holding'
<1>1. mem[p].pc \in {"create"} /\ HeldFits(p) /\ mem[p].held \subseteq locks
  BY DEF create_generation, At, Holding
<1>2. OnlyOf(p) /\ mem'[p].command = mem[p].command /\ mem'[p].finder = mem[p].finder /\ mem'[p].held = mem[p].held /\ mem'[p].held = mem[p].held
  BY create_generation_effect DEF Only, Fields
<1>3. locks' = locks
  BY <1>1, FieldsAre, CopiesAre, PartsDiffer DEF create_generation, Free, disk, HeldFits, ListLocked, IndexesLocked, ClientLocked, WithFinder
<1>4. mem'[p].pc = "walk"
  BY <1>1, create_generation_effect
<1>5. mem[p].pc \in WithFinder => mem[p].finder \in Dirs
  BY CopiesAre
<1>6. HeldFits(p)'
  BY <1>1, <1>2, <1>4, <1>5, PartsDiffer
     DEF HeldFits, ListLocked, IndexesLocked, ClientLocked, ForgetOnly, BackupOnly, IndexFree, WithFinder
<1>7. LocksStep(p)
  BY <1>2, <1>3 DEF LocksStep
<1>. QED
  BY <1>2, <1>6, <1>7, HoldingAfter

LEMMA use_chunk_holds ==
  ASSUME Types, Holding, NEW p \in Procs, NEW chunk \in ChunkIds, NEW token \in Contents, use_chunk(p, chunk, token)
  PROVE  Holding'
<1>1. mem[p].pc \in {"walk"} /\ HeldFits(p) /\ mem[p].held \subseteq locks
  BY DEF use_chunk, At, Holding
<1>2. OnlyOf(p) /\ mem'[p].command = mem[p].command /\ mem'[p].finder = mem[p].finder /\ mem'[p].held = mem[p].held /\ mem'[p].held = mem[p].held
  BY use_chunk_effect DEF Only, Fields
<1>3. locks' = locks
  BY <1>1, FieldsAre, CopiesAre, PartsDiffer DEF use_chunk, Free, disk, HeldFits, ListLocked, IndexesLocked, ClientLocked, WithFinder
<1>4. mem'[p].pc = "walk"
  BY <1>1, use_chunk_effect DEF Only, Fields
<1>5. mem[p].pc \in WithFinder => mem[p].finder \in Dirs
  BY CopiesAre
<1>6. HeldFits(p)'
  BY <1>1, <1>2, <1>4, <1>5, PartsDiffer
     DEF HeldFits, ListLocked, IndexesLocked, ClientLocked, ForgetOnly, BackupOnly, IndexFree, WithFinder
<1>7. LocksStep(p)
  BY <1>2, <1>3 DEF LocksStep
<1>. QED
  BY <1>2, <1>6, <1>7, HoldingAfter

LEMMA flush_chunks_holds ==
  ASSUME Types, Holding, NEW p \in Procs, flush_chunks(p)
  PROVE  Holding'
<1>1. mem[p].pc \in {"share"} /\ HeldFits(p) /\ mem[p].held \subseteq locks
  BY DEF flush_chunks, At, Holding
<1>2. OnlyOf(p) /\ mem'[p].command = mem[p].command /\ mem'[p].finder = mem[p].finder /\ mem'[p].held = mem[p].held /\ mem'[p].held = mem[p].held
  BY flush_chunks_effect DEF Only, Fields
<1>3. locks' = locks
  BY <1>1, FieldsAre, CopiesAre, PartsDiffer DEF flush_chunks, Free, disk, HeldFits, ListLocked, IndexesLocked, ClientLocked, WithFinder
<1>4. mem'[p].pc = "commit"
  BY <1>1, flush_chunks_effect
<1>5. mem[p].pc \in WithFinder => mem[p].finder \in Dirs
  BY CopiesAre
<1>6. HeldFits(p)'
  BY <1>1, <1>2, <1>4, <1>5, PartsDiffer
     DEF HeldFits, ListLocked, IndexesLocked, ClientLocked, ForgetOnly, BackupOnly, IndexFree, WithFinder
<1>7. LocksStep(p)
  BY <1>2, <1>3 DEF LocksStep
<1>. QED
  BY <1>2, <1>6, <1>7, HoldingAfter

LEMMA commit_client_holds ==
  ASSUME Types, Holding, NEW p \in Procs, commit_client(p)
  PROVE  Holding'
<1>1. mem[p].pc \in {"commit"} /\ HeldFits(p) /\ mem[p].held \subseteq locks
  BY DEF commit_client, At, Holding
<1>2. OnlyOf(p) /\ mem'[p].command = mem[p].command /\ mem'[p].finder = mem[p].finder /\ mem'[p].held = mem[p].held /\ mem'[p].held = mem[p].held
  BY commit_client_effect DEF Only, Fields
<1>3. locks' = locks
  BY <1>1, FieldsAre, CopiesAre, PartsDiffer DEF commit_client, Free, disk, HeldFits, ListLocked, IndexesLocked, ClientLocked, WithFinder
<1>4. mem'[p].pc = (IF mem[p].command = "forget" THEN "commit indexes" ELSE "unlock client")
  BY <1>1, commit_client_effect
<1>5. mem[p].pc \in WithFinder => mem[p].finder \in Dirs
  BY CopiesAre
<1>6. HeldFits(p)'
  BY <1>1, <1>2, <1>4, <1>5, PartsDiffer
     DEF HeldFits, ListLocked, IndexesLocked, ClientLocked, ForgetOnly, BackupOnly, IndexFree, WithFinder
<1>7. LocksStep(p)
  BY <1>2, <1>3 DEF LocksStep
<1>. QED
  BY <1>2, <1>6, <1>7, HoldingAfter

LEMMA unlock_client_holds ==
  ASSUME Types, Holding, NEW p \in Procs, unlock_client(p)
  PROVE  Holding'
<1>1. mem[p].pc \in {"unlock client"} /\ HeldFits(p) /\ mem[p].held \subseteq locks
  BY DEF unlock_client, At, Holding
<1>2. OnlyOf(p) /\ mem'[p].command = mem[p].command /\ mem'[p].finder = mem[p].finder /\ mem'[p].held = mem[p].held \ {mem[p].finder}
  BY unlock_client_effect DEF Only, Fields
<1>3. mem[p].finder \in mem[p].held /\ locks' = locks \ {mem[p].finder}
  BY <1>1, FieldsAre, CopiesAre, PartsDiffer DEF unlock_client, Free, disk, HeldFits, ListLocked, IndexesLocked, ClientLocked, WithFinder
<1>4. mem'[p].pc = "commit indexes"
  BY <1>1, unlock_client_effect
<1>5. mem[p].pc \in WithFinder => mem[p].finder \in Dirs
  BY CopiesAre
<1>6. HeldFits(p)'
  BY <1>1, <1>2, <1>4, <1>5, PartsDiffer
     DEF HeldFits, ListLocked, IndexesLocked, ClientLocked, ForgetOnly, BackupOnly, IndexFree, WithFinder
<1>7. LocksStep(p)
  BY <1>2, <1>3 DEF LocksStep
<1>. QED
  BY <1>2, <1>6, <1>7, HoldingAfter

LEMMA lock_chunk_indexes_holds ==
  ASSUME Types, Holding, NEW p \in Procs, lock_chunk_indexes(p)
  PROVE  Holding'
<1>1. mem[p].pc \in {"initialise", "walk"} /\ HeldFits(p) /\ mem[p].held \subseteq locks
  BY DEF lock_chunk_indexes, At, Holding
<1>2. OnlyOf(p) /\ mem'[p].command = mem[p].command /\ mem'[p].finder = mem[p].finder /\ mem'[p].held = mem[p].held \cup {IndexPart}
  BY lock_chunk_indexes_effect DEF Only, Fields
<1>3. IndexPart \in Parts \ locks /\ locks' = locks \cup {IndexPart}
  BY <1>1, FieldsAre, CopiesAre, PartsDiffer DEF lock_chunk_indexes, Free, disk, HeldFits, ListLocked, IndexesLocked, ClientLocked, WithFinder
<1>4. mem'[p].pc = (IF mem[p].pc = "walk" THEN "share" ELSE "initialised")
  BY <1>1, lock_chunk_indexes_effect
<1>5. mem[p].pc \in WithFinder => mem[p].finder \in Dirs
  BY CopiesAre
<1>6. HeldFits(p)'
  BY <1>1, <1>2, <1>4, <1>5, PartsDiffer
     DEF HeldFits, ListLocked, IndexesLocked, ClientLocked, ForgetOnly, BackupOnly, IndexFree, WithFinder
<1>7. LocksStep(p)
  BY <1>2, <1>3 DEF LocksStep
<1>. QED
  BY <1>2, <1>6, <1>7, HoldingAfter

LEMMA put_chunk_into_indexes_holds ==
  ASSUME Types, Holding, NEW p \in Procs, NEW chunk \in ChunkIds, NEW token \in Contents, put_chunk_into_indexes(p, chunk, token)
  PROVE  Holding'
<1>1. mem[p].pc \in {"share"} /\ HeldFits(p) /\ mem[p].held \subseteq locks
  BY DEF put_chunk_into_indexes, At, Holding
<1>2. OnlyOf(p) /\ mem'[p].command = mem[p].command /\ mem'[p].finder = mem[p].finder /\ mem'[p].held = mem[p].held /\ mem'[p].held = mem[p].held
  BY put_chunk_into_indexes_effect DEF Only, Fields
<1>3. locks' = locks
  BY <1>1, FieldsAre, CopiesAre, PartsDiffer DEF put_chunk_into_indexes, Free, disk, HeldFits, ListLocked, IndexesLocked, ClientLocked, WithFinder
<1>4. mem'[p].pc = "share"
  BY <1>1, put_chunk_into_indexes_effect DEF Only, Fields
<1>5. mem[p].pc \in WithFinder => mem[p].finder \in Dirs
  BY CopiesAre
<1>6. HeldFits(p)'
  BY <1>1, <1>2, <1>4, <1>5, PartsDiffer
     DEF HeldFits, ListLocked, IndexesLocked, ClientLocked, ForgetOnly, BackupOnly, IndexFree, WithFinder
<1>7. LocksStep(p)
  BY <1>2, <1>3 DEF LocksStep
<1>. QED
  BY <1>2, <1>6, <1>7, HoldingAfter

LEMMA remove_chunk_from_indexes_holds ==
  ASSUME Types, Holding, NEW p \in Procs, NEW chunk \in ChunkIds, remove_chunk_from_indexes(p, chunk)
  PROVE  Holding'
<1>1. mem[p].pc \in {"commit"} /\ HeldFits(p) /\ mem[p].held \subseteq locks
  BY DEF remove_chunk_from_indexes, At, Holding
<1>2. OnlyOf(p) /\ mem'[p].command = mem[p].command /\ mem'[p].finder = mem[p].finder /\ mem'[p].held = mem[p].held /\ mem'[p].held = mem[p].held
  BY remove_chunk_from_indexes_effect DEF Only, Fields
<1>3. locks' = locks
  BY <1>1, FieldsAre, CopiesAre, PartsDiffer DEF remove_chunk_from_indexes, Free, disk, HeldFits, ListLocked, IndexesLocked, ClientLocked, WithFinder
<1>4. mem'[p].pc = "commit"
  BY <1>1, remove_chunk_from_indexes_effect DEF Only, Fields
<1>5. mem[p].pc \in WithFinder => mem[p].finder \in Dirs
  BY CopiesAre
<1>6. HeldFits(p)'
  BY <1>1, <1>2, <1>4, <1>5, PartsDiffer
     DEF HeldFits, ListLocked, IndexesLocked, ClientLocked, ForgetOnly, BackupOnly, IndexFree, WithFinder
<1>7. LocksStep(p)
  BY <1>2, <1>3 DEF LocksStep
<1>. QED
  BY <1>2, <1>6, <1>7, HoldingAfter

LEMMA commit_chunk_indexes_holds ==
  ASSUME Types, Holding, NEW p \in Procs, commit_chunk_indexes(p)
  PROVE  Holding'
<1>1. mem[p].pc \in {"commit indexes"} /\ HeldFits(p) /\ mem[p].held \subseteq locks
  BY DEF commit_chunk_indexes, At, Holding
<1>2. OnlyOf(p) /\ mem'[p].command = mem[p].command /\ mem'[p].finder = mem[p].finder /\ mem'[p].held = mem[p].held /\ mem'[p].held = mem[p].held
  BY commit_chunk_indexes_effect DEF Only, Fields
<1>3. locks' = locks
  BY <1>1, FieldsAre, CopiesAre, PartsDiffer DEF commit_chunk_indexes, Free, disk, HeldFits, ListLocked, IndexesLocked, ClientLocked, WithFinder
<1>4. mem'[p].pc = (IF mem[p].command = "forget" THEN "choose" ELSE "unlock indexes")
  BY <1>1, commit_chunk_indexes_effect
<1>5. mem[p].pc \in WithFinder => mem[p].finder \in Dirs
  BY CopiesAre
<1>6. HeldFits(p)'
  BY <1>1, <1>2, <1>4, <1>5, PartsDiffer
     DEF HeldFits, ListLocked, IndexesLocked, ClientLocked, ForgetOnly, BackupOnly, IndexFree, WithFinder
<1>7. LocksStep(p)
  BY <1>2, <1>3 DEF LocksStep
<1>. QED
  BY <1>2, <1>6, <1>7, HoldingAfter

LEMMA unlock_initialised_indexes_holds ==
  ASSUME Types, Holding, NEW p \in Procs, unlock_initialised_indexes(p)
  PROVE  Holding'
<1>1. mem[p].pc \in {"initialised"} /\ HeldFits(p) /\ mem[p].held \subseteq locks
  BY DEF unlock_initialised_indexes, At, Holding
<1>2. OnlyOf(p) /\ mem'[p].command = mem[p].command /\ mem'[p].finder = mem[p].finder /\ mem'[p].held = mem[p].held \ {IndexPart}
  BY unlock_initialised_indexes_effect DEF Only, Fields
<1>3. IndexPart \in mem[p].held /\ locks' = locks \ {IndexPart}
  BY <1>1, FieldsAre, CopiesAre, PartsDiffer DEF unlock_initialised_indexes, Free, disk, HeldFits, ListLocked, IndexesLocked, ClientLocked, WithFinder
<1>4. mem'[p].pc = "create"
  BY <1>1, unlock_initialised_indexes_effect
<1>5. mem[p].pc \in WithFinder => mem[p].finder \in Dirs
  BY CopiesAre
<1>6. HeldFits(p)'
  BY <1>1, <1>2, <1>4, <1>5, PartsDiffer
     DEF HeldFits, ListLocked, IndexesLocked, ClientLocked, ForgetOnly, BackupOnly, IndexFree, WithFinder
<1>7. LocksStep(p)
  BY <1>2, <1>3 DEF LocksStep
<1>. QED
  BY <1>2, <1>6, <1>7, HoldingAfter

LEMMA remove_generation_holds ==
  ASSUME Types, Holding, NEW p \in Procs, remove_generation(p)
  PROVE  Holding'
<1>1. mem[p].pc \in {"choose"} /\ HeldFits(p) /\ mem[p].held \subseteq locks
  BY DEF remove_generation, At, Holding
<1>2. OnlyOf(p) /\ mem'[p].command = mem[p].command /\ mem'[p].finder = mem[p].finder /\ mem'[p].held = mem[p].held /\ mem'[p].held = mem[p].held
  BY remove_generation_effect DEF Only, Fields
<1>3. locks' = locks
  BY <1>1, FieldsAre, CopiesAre, PartsDiffer DEF remove_generation, Free, disk, HeldFits, ListLocked, IndexesLocked, ClientLocked, WithFinder
<1>4. mem'[p].pc = "commit"
  BY <1>1, remove_generation_effect
<1>5. mem[p].pc \in WithFinder => mem[p].finder \in Dirs
  BY CopiesAre
<1>6. HeldFits(p)'
  BY <1>1, <1>2, <1>4, <1>5, PartsDiffer
     DEF HeldFits, ListLocked, IndexesLocked, ClientLocked, ForgetOnly, BackupOnly, IndexFree, WithFinder
<1>7. LocksStep(p)
  BY <1>2, <1>3 DEF LocksStep
<1>. QED
  BY <1>2, <1>6, <1>7, HoldingAfter

LEMMA unlock_everything_holds ==
  ASSUME Types, Holding, NEW p \in Procs, unlock_everything(p)
  PROVE  Holding'
<1>1. mem[p].pc \in {"choose"} /\ HeldFits(p) /\ mem[p].held \subseteq locks
  BY DEF unlock_everything, At, Holding
<1>2. OnlyOf(p) /\ mem'[p].command = mem[p].command /\ mem'[p].finder = mem[p].finder /\ mem'[p].held = mem[p].held \ {ListPart}
  BY unlock_everything_effect DEF Only, Fields
<1>3. ListPart \in mem[p].held /\ locks' = locks \ {ListPart}
  BY <1>1, FieldsAre, CopiesAre, PartsDiffer DEF unlock_everything, Free, disk, HeldFits, ListLocked, IndexesLocked, ClientLocked, WithFinder
<1>4. mem'[p].pc = "unlock clients"
  BY <1>1, unlock_everything_effect
<1>5. mem[p].pc \in WithFinder => mem[p].finder \in Dirs
  BY CopiesAre
<1>6. HeldFits(p)'
  BY <1>1, <1>2, <1>4, <1>5, PartsDiffer
     DEF HeldFits, ListLocked, IndexesLocked, ClientLocked, ForgetOnly, BackupOnly, IndexFree, WithFinder
<1>7. LocksStep(p)
  BY <1>2, <1>3 DEF LocksStep
<1>. QED
  BY <1>2, <1>6, <1>7, HoldingAfter

LEMMA call_fails_holds ==
  ASSUME Types, Holding, NEW p \in Procs, call_fails(p)
  PROVE  Holding'
<1>1. mem[p].pc \in {"found", "initialise", "remove-client", "choose", "walk", "forget"} /\ HeldFits(p) /\ mem[p].held \subseteq locks
  BY DEF call_fails, At, Holding
<1>2. OnlyOf(p) /\ mem'[p].command = mem[p].command /\ mem'[p].finder = mem[p].finder /\ mem'[p].held = mem[p].held /\ mem'[p].held = mem[p].held
  BY call_fails_effect DEF Only, Fields
<1>3. locks' = locks
  BY <1>1, FieldsAre, CopiesAre, PartsDiffer DEF call_fails, Free, disk, HeldFits, ListLocked, IndexesLocked, ClientLocked, WithFinder
<1>4. mem'[p].pc \in {"give up", "exit"}
  BY <1>1, call_fails_effect
<1>5. mem[p].pc \in WithFinder => mem[p].finder \in Dirs
  BY CopiesAre
<1>6. HeldFits(p)'
  BY <1>1, <1>2, <1>4, <1>5, PartsDiffer
     DEF HeldFits, ListLocked, IndexesLocked, ClientLocked, ForgetOnly, BackupOnly, IndexFree, WithFinder
<1>7. LocksStep(p)
  BY <1>2, <1>3 DEF LocksStep
<1>. QED
  BY <1>2, <1>6, <1>7, HoldingAfter

LEMMA walk_fails_holds ==
  ASSUME Types, Holding, NEW p \in Procs, walk_fails(p)
  PROVE  Holding'
<1>1. mem[p].pc \in {"walk"} /\ HeldFits(p) /\ mem[p].held \subseteq locks
  BY DEF walk_fails, At, Holding
<1>2. OnlyOf(p) /\ mem'[p].command = mem[p].command /\ mem'[p].finder = mem[p].finder /\ mem'[p].held = mem[p].held /\ mem'[p].held = mem[p].held
  BY walk_fails_effect DEF Only, Fields
<1>3. locks' = locks
  BY <1>1, FieldsAre, CopiesAre, PartsDiffer DEF walk_fails, Free, disk, HeldFits, ListLocked, IndexesLocked, ClientLocked, WithFinder
<1>4. mem'[p].pc = "give up"
  BY <1>1, walk_fails_effect
<1>5. mem[p].pc \in WithFinder => mem[p].finder \in Dirs
  BY CopiesAre
<1>6. HeldFits(p)'
  BY <1>1, <1>2, <1>4, <1>5, PartsDiffer
     DEF HeldFits, ListLocked, IndexesLocked, ClientLocked, ForgetOnly, BackupOnly, IndexFree, WithFinder
<1>7. LocksStep(p)
  BY <1>2, <1>3 DEF LocksStep
<1>. QED
  BY <1>2, <1>6, <1>7, HoldingAfter

LEMMA put_chunk_content_holds ==
  ASSUME Types, BagsFit, Holding, NEW p \in Procs, NEW content \in Contents, put_chunk_content(p, content)
  PROVE  Holding'
<1>1. PICK b \in Bags, blobs \in Seq(Contents) : PutsIn(p, content, b, blobs) /\ Len(blobs) \in 1 .. BagSize
  BY Putting DEF BagsFit, BagFits
<1>2. Only(p, {"trees", "data", "tokens", "bag"})
  BY <1>1, put_chunk_content_effect
<1>3. /\ OnlyOf(p) /\ mem'[p].held = mem[p].held /\ mem'[p].pc = mem[p].pc
      /\ mem'[p].command = mem[p].command /\ mem'[p].finder = mem[p].finder
  BY <1>2 DEF Only, Fields
<1>4. HeldFits(p)'
  BY <1>3 DEF Holding, HeldFits
<1>5. LocksStep(p)
  BY <1>3 DEF LocksStep, put_chunk_content
<1>. QED
  BY <1>3, <1>4, <1>5, HoldingAfter

LEMMA lock_next_holds ==
  ASSUME Types, Holding, NEW p \in Procs, lock_next(p)
  PROVE  Holding'
<1>1. mem[p].pc = "forget" /\ HeldFits(p)
  BY DEF lock_next, At, Holding
<1>2. PICK part \in NextParts(p) :
        /\ Free(part) /\ locks' = locks \cup {part}
        /\ Only(p, {"pc", "names", "held", "promising", "finder"})
        /\ mem'[p].held = mem[p].held \cup {part}
        /\ mem'[p].pc = (IF part = IndexPart THEN "choose" ELSE "forget")
  BY lock_next_effect
<1>3. OnlyOf(p) /\ mem'[p].command = mem[p].command
  BY <1>2 DEF Only, Fields
<1>4. HeldFits(p)'
  BY <1>1, <1>2, <1>3 DEF HeldFits, ListLocked, IndexesLocked, ClientLocked, ForgetOnly, BackupOnly, IndexFree
<1>5. LocksStep(p)
  BY <1>2, PartsAre DEF LocksStep, Free
<1>. QED
  BY <1>3, <1>4, <1>5, HoldingAfter

LEMMA unlock_next_holds ==
  ASSUME Types, Holding, NEW p \in Procs, unlock_next(p)
  PROVE  Holding'
<1>1. mem[p].pc = "unlock clients" /\ HeldFits(p)
  BY DEF unlock_next, At, Holding
<1>2. PICK part \in (ListedDirs(p) \cap mem[p].held) \cup {IndexPart} :
        /\ locks' = locks \ {part}
        /\ Only(p, {"pc", "names", "held"})
        /\ mem'[p].held = mem[p].held \ {part}
        /\ mem'[p].pc = (IF part = IndexPart THEN "exit" ELSE "unlock clients")
  BY unlock_next_effect
<1>3. OnlyOf(p) /\ mem'[p].command = mem[p].command
  BY <1>2 DEF Only, Fields
<1>4. IndexPart \in mem[p].held
  BY <1>1 DEF HeldFits, IndexesLocked
<1>5. HeldFits(p)'
  BY <1>1, <1>2, <1>3, <1>4 DEF HeldFits, ListLocked, IndexesLocked, ClientLocked, ForgetOnly, BackupOnly, IndexFree
<1>6. LocksStep(p)
  BY <1>2, <1>4 DEF LocksStep
<1>. QED
  BY <1>3, <1>5, <1>6, HoldingAfter

LEMMA give_up_holds ==
  ASSUME Types, Holding, NEW p \in Procs, give_up(p)
  PROVE  Holding'
<1>1. mem[p].pc = "give up" /\ HeldFits(p)
  BY DEF give_up, At, Holding
<1>2. CASE Only(p, {"pc"}) /\ mem'[p].pc = "exit" /\ locks' = locks
  <2>1. OnlyOf(p) /\ mem'[p].held = mem[p].held /\ mem'[p].pc = "exit"
    BY <1>2 DEF Only, Fields
  <2>2. HeldFits(p)'
    BY <2>1 DEF HeldFits, ListLocked, IndexesLocked, ClientLocked, ForgetOnly, BackupOnly, IndexFree
  <2>. QED
    BY <1>2, <2>1, <2>2, HoldingAfter DEF LocksStep
<1>3. ASSUME NEW part \in mem[p].held, Only(p, {"held"}), mem'[p].held = mem[p].held \ {part},
             locks' = locks \ {part}
      PROVE  Holding'
  <2>1. OnlyOf(p) /\ mem'[p].pc = "give up"
    BY <1>1, <1>3 DEF Only, Fields
  <2>2. HeldFits(p)'
    BY <2>1 DEF HeldFits, ListLocked, IndexesLocked, ClientLocked, ForgetOnly, BackupOnly, IndexFree
  <2>. QED
    BY <1>3, <2>1, <2>2, HoldingAfter DEF LocksStep
<1>. QED
  BY <1>2, <1>3, give_up_effect

LEMMA lock_client_list_holds ==
  ASSUME Types, Holding, NEW p \in Procs, NEW n \in Names, NEW command,
         command \in {"backup", "forget", "remove-client"}, lock_client_list(p, n, command)
  PROVE  Holding'
<1>1. /\ OnlyOf(p) /\ mem'[p].held = {ListPart}
      /\ mem'[p].pc = command /\ mem'[p].command = command
  BY lock_client_list_effect
<1>2. HeldFits(p)'
  BY <1>1 DEF HeldFits, ListLocked, IndexesLocked, ClientLocked, ForgetOnly, BackupOnly, IndexFree
<1>3. LocksStep(p)
  BY <1>1, PartsDiffer DEF LocksStep, lock_client_list, Free
<1>. QED
  BY <1>1, <1>2, <1>3, HoldingAfter

LEMMA unlock_chunk_indexes_holds ==
  ASSUME Types, Holding, NEW p \in Procs, unlock_chunk_indexes(p)
  PROVE  Holding'
<1>1. /\ OnlyOf(p) /\ mem'[p].held = {}
      /\ mem'[p].pc \in {"find", "exit"} /\ mem'[p].command = "continue"
  BY unlock_chunk_indexes_effect
<1>2. HeldFits(p)'
  BY <1>1 DEF HeldFits, ListLocked, IndexesLocked, ClientLocked, ForgetOnly, BackupOnly, IndexFree
<1>3. IndexPart \in mem[p].held
  BY DEF unlock_chunk_indexes, At, Holding, HeldFits, IndexesLocked
<1>4. LocksStep(p)
  BY <1>1, <1>3 DEF LocksStep, unlock_chunk_indexes
<1>. QED
  BY <1>1, <1>2, <1>4, HoldingAfter

LEMMA exit_holds ==
  ASSUME Types, Holding, NEW p \in Procs, exit(p) \/ crash(p)
  PROVE  Holding'
<1>1. mem' = [mem EXCEPT ![p] = Idle] /\ locks' = locks
  BY DEF exit, crash, disk
<1>2. OnlyOf(p) /\ mem'[p].held = {} /\ mem'[p].pc = "idle"
  BY <1>1, exit_effect
<1>3. HeldFits(p)'
  BY <1>2 DEF HeldFits, ListLocked, IndexesLocked, ClientLocked, ForgetOnly, BackupOnly, IndexFree
<1>. QED
  BY <1>1, <1>2, <1>3, HoldingAfter DEF LocksStep

LEMMA force_lock_holds ==
  ASSUME Holding, NEW part \in Parts, force_lock(part)
  PROVE  Holding'
<1>1. mem' = mem /\ locks' = locks \ {part} /\ \A p \in Procs : part \notin mem[p].held
  BY DEF force_lock, Abandoned
<1>. QED
  BY <1>1 DEF Holding, HeldFits

-----------------------------------------------------------------------------
(* Client lists                                                            *)

Given(list, dirs) == \A n \in DOMAIN list : list[n] \in dirs

(* The directories in a client list have been made.                        *)
ListsGiven == Given(listRoot, made) /\ \A p \in Procs : Given(Listed(p), made)

ListsStep(p) ==
  /\ OnlyOf(p) /\ made \subseteq made' /\ listRoot' \in {listRoot, Listed(p)}
  /\ mem'[p].names \in {mem[p].names, NotLoaded, Listed(p)} \/ Given(mem'[p].names, made')

LEMMA ListsAfter ==
  ASSUME ListsGiven, NEW p \in Procs, ListsStep(p)
  PROVE  ListsGiven'
<1>1. Given(listRoot', made') /\ \A q \in Procs : Given(Listed(q), made')
  BY DEF ListsGiven, ListsStep, Given
<1>2. ASSUME NEW q \in Procs, q # p PROVE Given(Listed(q)', made')
  BY <1>1, <1>2 DEF ListsStep, OnlyOf, Listed
<1>3. Given(Listed(p)', made')
  BY <1>1 DEF ListsStep, Listed
<1>. QED
  BY <1>1, <1>2, <1>3 DEF ListsGiven

LEMMA create_generation_lists ==
  ASSUME Types, NEW p \in Procs, create_generation(p)
  PROVE  ListsStep(p)
<1>1. OnlyOf(p) /\ mem'[p].names \in {mem[p].names, NotLoaded, Listed(p)}
  BY create_generation_effect DEF Only, Fields
<1>2. made' = made /\ listRoot' \in {listRoot, Listed(p)}
  BY DEF create_generation, disk
<1>. QED
  BY <1>1, <1>2 DEF ListsStep

LEMMA use_chunk_lists ==
  ASSUME Types, NEW p \in Procs, NEW chunk \in ChunkIds, NEW token \in Contents, use_chunk(p, chunk, token)
  PROVE  ListsStep(p)
<1>1. OnlyOf(p) /\ mem'[p].names \in {mem[p].names, NotLoaded, Listed(p)}
  BY use_chunk_effect DEF Only, Fields
<1>2. made' = made /\ listRoot' \in {listRoot, Listed(p)}
  BY DEF use_chunk, disk
<1>. QED
  BY <1>1, <1>2 DEF ListsStep

LEMMA flush_chunks_lists ==
  ASSUME Types, NEW p \in Procs, flush_chunks(p)
  PROVE  ListsStep(p)
<1>1. OnlyOf(p) /\ mem'[p].names \in {mem[p].names, NotLoaded, Listed(p)}
  BY flush_chunks_effect DEF Only, Fields
<1>2. made' = made /\ listRoot' \in {listRoot, Listed(p)}
  BY DEF flush_chunks, disk
<1>. QED
  BY <1>1, <1>2 DEF ListsStep

LEMMA commit_client_lists ==
  ASSUME Types, NEW p \in Procs, commit_client(p)
  PROVE  ListsStep(p)
<1>1. OnlyOf(p) /\ mem'[p].names \in {mem[p].names, NotLoaded, Listed(p)}
  BY commit_client_effect DEF Only, Fields
<1>2. made' = made /\ listRoot' \in {listRoot, Listed(p)}
  BY DEF commit_client, disk
<1>. QED
  BY <1>1, <1>2 DEF ListsStep

LEMMA unlock_client_lists ==
  ASSUME Types, NEW p \in Procs, unlock_client(p)
  PROVE  ListsStep(p)
<1>1. OnlyOf(p) /\ mem'[p].names \in {mem[p].names, NotLoaded, Listed(p)}
  BY unlock_client_effect DEF Only, Fields
<1>2. made' = made /\ listRoot' \in {listRoot, Listed(p)}
  BY DEF unlock_client, disk
<1>. QED
  BY <1>1, <1>2 DEF ListsStep

LEMMA lock_chunk_indexes_lists ==
  ASSUME Types, NEW p \in Procs, lock_chunk_indexes(p)
  PROVE  ListsStep(p)
<1>1. OnlyOf(p) /\ mem'[p].names \in {mem[p].names, NotLoaded, Listed(p)}
  BY lock_chunk_indexes_effect DEF Only, Fields
<1>2. made' = made /\ listRoot' \in {listRoot, Listed(p)}
  BY DEF lock_chunk_indexes, disk
<1>. QED
  BY <1>1, <1>2 DEF ListsStep

LEMMA put_chunk_into_indexes_lists ==
  ASSUME Types, NEW p \in Procs, NEW chunk \in ChunkIds, NEW token \in Contents, put_chunk_into_indexes(p, chunk, token)
  PROVE  ListsStep(p)
<1>1. OnlyOf(p) /\ mem'[p].names \in {mem[p].names, NotLoaded, Listed(p)}
  BY put_chunk_into_indexes_effect DEF Only, Fields
<1>2. made' = made /\ listRoot' \in {listRoot, Listed(p)}
  BY DEF put_chunk_into_indexes, disk
<1>. QED
  BY <1>1, <1>2 DEF ListsStep

LEMMA remove_chunk_from_indexes_lists ==
  ASSUME Types, NEW p \in Procs, NEW chunk \in ChunkIds, remove_chunk_from_indexes(p, chunk)
  PROVE  ListsStep(p)
<1>1. OnlyOf(p) /\ mem'[p].names \in {mem[p].names, NotLoaded, Listed(p)}
  BY remove_chunk_from_indexes_effect DEF Only, Fields
<1>2. made' = made /\ listRoot' \in {listRoot, Listed(p)}
  BY DEF remove_chunk_from_indexes, disk
<1>. QED
  BY <1>1, <1>2 DEF ListsStep

LEMMA commit_chunk_indexes_lists ==
  ASSUME Types, NEW p \in Procs, commit_chunk_indexes(p)
  PROVE  ListsStep(p)
<1>1. OnlyOf(p) /\ mem'[p].names \in {mem[p].names, NotLoaded, Listed(p)}
  BY commit_chunk_indexes_effect DEF Only, Fields
<1>2. made' = made /\ listRoot' \in {listRoot, Listed(p)}
  BY DEF commit_chunk_indexes, disk
<1>. QED
  BY <1>1, <1>2 DEF ListsStep

LEMMA unlock_initialised_indexes_lists ==
  ASSUME Types, NEW p \in Procs, unlock_initialised_indexes(p)
  PROVE  ListsStep(p)
<1>1. OnlyOf(p) /\ mem'[p].names \in {mem[p].names, NotLoaded, Listed(p)}
  BY unlock_initialised_indexes_effect DEF Only, Fields
<1>2. made' = made /\ listRoot' \in {listRoot, Listed(p)}
  BY DEF unlock_initialised_indexes, disk
<1>. QED
  BY <1>1, <1>2 DEF ListsStep

LEMMA remove_generation_lists ==
  ASSUME Types, NEW p \in Procs, remove_generation(p)
  PROVE  ListsStep(p)
<1>1. OnlyOf(p) /\ mem'[p].names \in {mem[p].names, NotLoaded, Listed(p)}
  BY remove_generation_effect DEF Only, Fields
<1>2. made' = made /\ listRoot' \in {listRoot, Listed(p)}
  BY DEF remove_generation, disk
<1>. QED
  BY <1>1, <1>2 DEF ListsStep

LEMMA unlock_everything_lists ==
  ASSUME Types, NEW p \in Procs, unlock_everything(p)
  PROVE  ListsStep(p)
<1>1. OnlyOf(p) /\ mem'[p].names \in {mem[p].names, NotLoaded, Listed(p)}
  BY unlock_everything_effect DEF Only, Fields
<1>2. made' = made /\ listRoot' \in {listRoot, Listed(p)}
  BY DEF unlock_everything, disk
<1>. QED
  BY <1>1, <1>2 DEF ListsStep

LEMMA call_fails_lists ==
  ASSUME Types, NEW p \in Procs, call_fails(p)
  PROVE  ListsStep(p)
<1>1. OnlyOf(p) /\ mem'[p].names \in {mem[p].names, NotLoaded, Listed(p)}
  BY call_fails_effect DEF Only, Fields
<1>2. made' = made /\ listRoot' \in {listRoot, Listed(p)}
  BY DEF call_fails, disk
<1>. QED
  BY <1>1, <1>2 DEF ListsStep

LEMMA walk_fails_lists ==
  ASSUME Types, NEW p \in Procs, walk_fails(p)
  PROVE  ListsStep(p)
<1>1. OnlyOf(p) /\ mem'[p].names \in {mem[p].names, NotLoaded, Listed(p)}
  BY walk_fails_effect DEF Only, Fields
<1>2. made' = made /\ listRoot' \in {listRoot, Listed(p)}
  BY DEF walk_fails, disk
<1>. QED
  BY <1>1, <1>2 DEF ListsStep

LEMMA give_up_lists ==
  ASSUME Types, NEW p \in Procs, give_up(p)
  PROVE  ListsStep(p)
<1>1. OnlyOf(p) /\ mem'[p].names \in {mem[p].names, NotLoaded, Listed(p)}
  BY give_up_effect DEF Only, Fields
<1>2. made' = made /\ listRoot' \in {listRoot, Listed(p)}
  BY DEF give_up, disk
<1>. QED
  BY <1>1, <1>2 DEF ListsStep

LEMMA unlock_chunk_indexes_lists ==
  ASSUME Types, NEW p \in Procs, unlock_chunk_indexes(p)
  PROVE  ListsStep(p)
<1>1. OnlyOf(p) /\ mem'[p].names \in {mem[p].names, NotLoaded, Listed(p)}
  BY unlock_chunk_indexes_effect DEF Only, Fields, Fresh
<1>2. made' = made /\ listRoot' \in {listRoot, Listed(p)}
  BY DEF unlock_chunk_indexes, disk
<1>. QED
  BY <1>1, <1>2 DEF ListsStep

LEMMA lock_client_lists ==
  ASSUME Types, NEW p \in Procs, lock_client(p)
  PROVE  ListsStep(p)
<1>1. OnlyOf(p) /\ mem'[p].names \in {mem[p].names, NotLoaded, Listed(p)}
  BY lock_client_effect DEF Only, Fields
<1>2. made' = made /\ listRoot' \in {listRoot, Listed(p)}
  BY DEF lock_client, disk
<1>. QED
  BY <1>1, <1>2 DEF ListsStep

LEMMA find_client_lists ==
  ASSUME Types, NEW p \in Procs, find_client(p)
  PROVE  ListsStep(p)
<1>1. OnlyOf(p) /\ mem'[p].names \in {mem[p].names, NotLoaded, Listed(p)}
  BY find_client_effect DEF Only, Fields
<1>2. made' = made /\ listRoot' \in {listRoot, Listed(p)}
  BY DEF find_client, disk
<1>. QED
  BY <1>1, <1>2 DEF ListsStep

LEMMA unlock_client_list_lists ==
  ASSUME Types, NEW p \in Procs, unlock_client_list(p)
  PROVE  ListsStep(p)
<1>1. OnlyOf(p) /\ mem'[p].names \in {mem[p].names, NotLoaded, Listed(p)}
  BY unlock_client_list_effect DEF Only, Fields
<1>2. made' = made /\ listRoot' \in {listRoot, Listed(p)}
  BY DEF unlock_client_list, disk
<1>. QED
  BY <1>1, <1>2 DEF ListsStep

LEMMA commit_client_list_lists ==
  ASSUME Types, NEW p \in Procs, commit_client_list(p)
  PROVE  ListsStep(p)
<1>1. OnlyOf(p) /\ mem'[p].names \in {mem[p].names, NotLoaded, Listed(p)}
  BY commit_client_list_effect DEF Only, Fields
<1>2. made' = made /\ listRoot' \in {listRoot, Listed(p)}
  BY DEF commit_client_list, disk
<1>. QED
  BY <1>1, <1>2 DEF ListsStep

LEMMA lock_next_lists ==
  ASSUME Types, NEW p \in Procs, lock_next(p)
  PROVE  ListsStep(p)
<1>1. OnlyOf(p) /\ mem'[p].names \in {mem[p].names, NotLoaded, Listed(p)}
  BY lock_next_effect DEF Only, Fields
<1>2. made' = made /\ listRoot' \in {listRoot, Listed(p)}
  BY DEF lock_next, disk
<1>. QED
  BY <1>1, <1>2 DEF ListsStep

LEMMA unlock_next_lists ==
  ASSUME Types, NEW p \in Procs, unlock_next(p)
  PROVE  ListsStep(p)
<1>1. OnlyOf(p) /\ mem'[p].names \in {mem[p].names, NotLoaded, Listed(p)}
  BY unlock_next_effect DEF Only, Fields
<1>2. made' = made /\ listRoot' \in {listRoot, Listed(p)}
  BY DEF unlock_next, disk
<1>. QED
  BY <1>1, <1>2 DEF ListsStep

LEMMA put_chunk_content_lists ==
  ASSUME Types, BagsFit, NEW p \in Procs, NEW content \in Contents, put_chunk_content(p, content)
  PROVE  ListsStep(p)
<1>1. PICK b \in Bags, blobs \in Seq(Contents) : PutsIn(p, content, b, blobs) /\ Len(blobs) \in 1 .. BagSize
  BY Putting DEF BagsFit, BagFits
<1>2. Only(p, {"trees", "data", "tokens", "bag"})
  BY <1>1, put_chunk_content_effect
<1>3. OnlyOf(p) /\ mem'[p].names = mem[p].names
  BY <1>2 DEF Only, Fields
<1>. QED
  BY <1>3 DEF ListsStep, put_chunk_content

LEMMA fresh_lists ==
  ASSUME NEW p \in Procs, OnlyOf(p), Fresh(p), made' = made, listRoot' = listRoot
  PROVE  ListsStep(p)
  BY DEF ListsStep, Fresh

LEMMA add_client_lists ==
  ASSUME Types, ListsGiven, NEW p \in Procs, add_client(p)
  PROVE  ListsStep(p)
<1>1. OnlyOf(p) /\ listRoot' = listRoot
  BY add_client_effect DEF Only, add_client
<1>2. CASE mem'[p].names = Listed(p) /\ made' = made
  BY <1>1, <1>2 DEF ListsStep
<1>3. ASSUME NEW d \in Dirs \ made, made' = made \cup {d},
             mem'[p].names = WithName(Listed(p), mem[p].client, d)
      PROVE  ListsStep(p)
  <2>1. Given(Listed(p), made)
    BY DEF ListsGiven
  <2>2. Given(WithName(Listed(p), mem[p].client, d), made \cup {d})
    BY <2>1 DEF Given, WithName
  <2>. QED
    BY <1>1, <1>3, <2>2 DEF ListsStep
<1>. QED
  BY <1>2, <1>3, add_client_effect

LEMMA remove_client_lists ==
  ASSUME Types, ListsGiven, NEW p \in Procs, remove_client(p)
  PROVE  ListsStep(p)
<1>1. OnlyOf(p) /\ mem'[p].names = Others(p) /\ listRoot' = listRoot /\ made' = made
  BY remove_client_effect DEF Only, remove_client, disk
<1>2. Given(Others(p), made)
  BY DEF ListsGiven, Given, Others, Restricted
<1>. QED
  BY <1>1, <1>2 DEF ListsStep

LEMMA rename_client_lists ==
  ASSUME Types, ListsGiven, NEW p \in Procs, NEW new \in Names, rename_client(p, new)
  PROVE  ListsStep(p)
<1>1. /\ OnlyOf(p) /\ mem'[p].names = WithName(Others(p), new, Listed(p)[mem[p].client])
      /\ listRoot' = listRoot /\ made' = made
  BY rename_client_effect DEF Only, rename_client, disk
<1>2. Given(Others(p), made) /\ Listed(p)[mem[p].client] \in made
  BY DEF ListsGiven, Given, Others, Restricted, rename_client
<1>3. Given(WithName(Others(p), new, Listed(p)[mem[p].client]), made)
  BY <1>2 DEF Given, WithName
<1>. QED
  BY <1>1, <1>3 DEF ListsStep

(* The locks and the lists, action by action.                              *)
LEMMA LocksKept ==
  ASSUME Types, BagsFit, Holding, ListsGiven, Next
  PROVE  Holding' /\ ListsGiven'
<1>1. ASSUME NEW p \in Procs, NEW n \in Names, NEW command \in {"backup", "forget", "remove-client"},
             lock_client_list(p, n, command)
      PROVE  Holding' /\ ListsStep(p)
  <2>1. OnlyOf(p) /\ Fresh(p)
    BY <1>1, lock_client_list_effect
  <2>2. made' = made /\ listRoot' = listRoot
    BY <1>1 DEF lock_client_list
  <2>. QED
    BY <1>1, <2>1, <2>2, lock_client_list_holds, fresh_lists
<1>2. ASSUME NEW p \in Procs, Backup(p) PROVE Holding' /\ ListsStep(p)
  <2>1. ASSUME NEW t \in mem[p].tokens, put_chunk_into_indexes(p, t[1], t[2]) PROVE Holding' /\ ListsStep(p)
    <3>1. t \in ChunkIds \X Contents
      BY FieldsAre
    <3>2. t[1] \in ChunkIds /\ t[2] \in Contents
      BY <3>1
    <3>. QED
      BY <2>1, <3>2, put_chunk_into_indexes_holds, put_chunk_into_indexes_lists
  <2>2. ASSUME NEW c \in Contents, put_chunk_content(p, c) PROVE Holding' /\ ListsStep(p)
    BY <2>2, put_chunk_content_holds, put_chunk_content_lists
  <2>3. ASSUME NEW c \in Contents, NEW chunk \in ChunkIds, use_chunk(p, chunk, c) PROVE Holding' /\ ListsStep(p)
    BY <2>3, use_chunk_holds, use_chunk_lists
  <2>4. CASE add_client(p) \/ find_client(p) \/ lock_client(p) \/ unlock_initialised_indexes(p)
    BY <2>4, add_client_holds, find_client_holds, lock_client_holds, unlock_initialised_indexes_holds,
       add_client_lists, find_client_lists, lock_client_lists, unlock_initialised_indexes_lists
  <2>5. CASE \/ lock_chunk_indexes(p) \/ unlock_client(p) \/ unlock_chunk_indexes(p) \/ walk_fails(p)
             \/ create_generation(p) \/ flush_chunks(p)
    BY <2>5, lock_chunk_indexes_holds, unlock_client_holds, unlock_chunk_indexes_holds, walk_fails_holds,
       create_generation_holds, flush_chunks_holds, lock_chunk_indexes_lists, unlock_client_lists,
       unlock_chunk_indexes_lists, walk_fails_lists, create_generation_lists, flush_chunks_lists
  <2>. QED
    BY <1>2, <2>1, <2>2, <2>3, <2>4, <2>5 DEF Backup
<1>3. ASSUME NEW p \in Procs, Forget(p) PROVE Holding' /\ ListsStep(p)
  <2>1. ASSUME NEW chunk \in mem[p].unused, remove_chunk_from_indexes(p, chunk) PROVE Holding' /\ ListsStep(p)
    BY <2>1, FieldsAre, remove_chunk_from_indexes_holds, remove_chunk_from_indexes_lists
  <2>. QED
    BY <1>3, <2>1, lock_next_holds, unlock_everything_holds, unlock_next_holds, remove_generation_holds,
       lock_next_lists, unlock_everything_lists, unlock_next_lists, remove_generation_lists DEF Forget
<1>4. ASSUME NEW p \in Procs, ChangeList(p) PROVE Holding' /\ ListsStep(p)
  BY <1>4, remove_client_holds, rename_client_holds, remove_client_lists, rename_client_lists DEF ChangeList
<1>5. ASSUME NEW p \in Procs, commit_client_list(p) \/ unlock_client_list(p) \/ commit_client(p)
      PROVE  Holding' /\ ListsStep(p)
  BY <1>5, commit_client_list_holds, unlock_client_list_holds, commit_client_holds,
     commit_client_list_lists, unlock_client_list_lists, commit_client_lists
<1>6. ASSUME NEW p \in Procs, commit_chunk_indexes(p) \/ call_fails(p) \/ give_up(p)
      PROVE  Holding' /\ ListsStep(p)
  BY <1>6, commit_chunk_indexes_holds, call_fails_holds, give_up_holds,
     commit_chunk_indexes_lists, call_fails_lists, give_up_lists
<1>7. ASSUME NEW p \in Procs, exit(p) \/ crash(p) PROVE Holding' /\ ListsStep(p)
  <2>1. mem' = [mem EXCEPT ![p] = Idle] /\ made' = made /\ listRoot' = listRoot
    BY <1>7 DEF exit, crash, disk
  <2>. QED
    BY <1>7, <2>1, exit_effect, exit_holds, fresh_lists
<1>8. ASSUME NEW part \in Parts, force_lock(part) PROVE Holding' /\ ListsGiven'
  <2>1. UNCHANGED <<mem, listRoot, made>>
    BY <1>8 DEF force_lock
  <2>2. ListsGiven'
    BY <2>1 DEF ListsGiven, Listed
  <2>. QED
    BY <1>8, <2>2, force_lock_holds
<1>. QED
  BY <1>1, <1>2, <1>3, <1>4, <1>5, <1>6, <1>7, <1>8, ListsAfter DEF Next

LEMMA LocksStart == Init => Holding /\ ListsGiven
<1> SUFFICES ASSUME Init PROVE Holding /\ ListsGiven
  OBVIOUS
<1>1. \A p \in Procs : mem[p] = Idle
  BY DEF Init
<1>2. \A p \in Procs : mem[p].pc = "idle" /\ mem[p].held = {} /\ mem[p].names = NotLoaded
  BY <1>1 DEF Idle
<1>3. Holding
  BY <1>2 DEF Holding, HeldFits, ListLocked, IndexesLocked, ClientLocked, ForgetOnly, BackupOnly, IndexFree
<1>4. Given(listRoot, made)
  BY DEF Init, Given
<1>5. \A p \in Procs : Listed(p) = listRoot
  BY <1>2 DEF Listed
<1>. QED
  BY <1>3, <1>4, <1>5 DEF ListsGiven

LEMMA TypesAreOK == Types /\ Holding /\ ListsGiven => TypeOK
<1> SUFFICES ASSUME Types, Holding, ListsGiven PROVE TypeOK
  OBVIOUS
<1>1. DOMAIN listRoot \subseteq Names /\ \A n \in DOMAIN listRoot : listRoot[n] \in made
  BY DEF Types, DiskTypes, Lists, ListsGiven, Given
<1>2. ASSUME NEW S, NEW list \in Seq(S) PROVE ToSet(list) \subseteq S
  BY <1>2 DEF ToSet
<1>3. \A d \in Dirs : ToSet(clientRoot[d]) \subseteq SUBSET ChunkIds
  BY <1>2 DEF Types, DiskTypes, Generations
<1>4. \A b \in Bags : bags[b] = None \/ ToSet(bags[b]) \subseteq Contents
  BY <1>2 DEF Types, DiskTypes
<1>. QED
  BY <1>1, <1>3, <1>4 DEF TypeOK, Types, DiskTypes, Holding

LEMMA LocksAlways == Spec => [](Types /\ BagsFit /\ Holding /\ ListsGiven)
<1>1. Types /\ BagsFit /\ Holding /\ ListsGiven /\ [Next]_vars => (Types /\ BagsFit /\ Holding /\ ListsGiven)'
  <2>1. CASE UNCHANGED vars
    BY <2>1 DEF vars, disk, Types, DiskTypes, PcFits, At, BagsFit, BagFits, Holding, HeldFits, ListsGiven, Listed
  <2>2. CASE Next
    BY <2>2, TypesKept, BagsKept, LocksKept DEF BagsFit
  <2>. QED
    BY <2>1, <2>2
<1>. QED
  BY <1>1, BagsStart, LocksStart, PTL DEF Spec

(* Every part is locked by one process at most, and has a lock file as     *)
(* long as a process has it locked, whichever locks are left behind and    *)
(* forced open (client_list.py, client.py, indexes.py); the client list    *)
(* names only directories that have been made.                             *)
THEOREM Typing == Spec => []TypeOK
  BY LocksAlways, TypesAreOK, PTL

-----------------------------------------------------------------------------
(* Sessions on the indexes                                                 *)

(* The three trees have the use u of a chunk.                              *)
Kept(trees, u) ==
  /\ u[1] \in find_chunk_ids_by_token(trees, u[2])
  /\ lookup(trees.by_chunk_id, u[1], None) = u[2]
  /\ lookup(trees.used_by, u[1], None) # None
  /\ u[3] \in ToSet(lookup(trees.used_by, u[1], None))

(* What a session has put into the indexes is in them, with the content    *)
(* the chunk has; a forget puts nothing, and others remove nothing.        *)
Session(p) ==
  /\ mem[p].command # "forget" => mem[p].unused = {}
  /\ mem[p].command = "forget" /\ IndexPart \in mem[p].held => mem[p].promising \subseteq promised
  /\ IndexPart \in mem[p].held =>
       \A u \in mem[p].promising \ promised : <<u[1], u[2]>> \in Known(p) /\ Kept(Trees(p), u)

Sessions == \A p \in Procs : Session(p)

LEMMA UnreadIs == Unread \notin IndexTrees
<1>1. \A t \in IndexTrees : "used_by" \in DOMAIN t
  BY DEF IndexTrees
<1>2. DOMAIN Unread = {}
  BY DEF Unread
<1>. QED
  BY <1>1, <1>2

(* A chunk has one content.                                                *)
LEMMA OneContent ==
  ASSUME Types, BagsFit, NEW p \in Procs, NEW c \in ChunkIds, NEW t \in Contents, NEW u \in Contents,
         <<c, t>> \in Known(p), <<c, u>> \in Known(p)
  PROVE  t = u
<1>1. CASE mem[p].bag # None /\ mem[p].bag.id = BagOf(c)
  <2>1. bags[BagOf(c)] = << >>
    BY <1>1 DEF BagsFit, BagFits
  <2>2. ~ \E v : Place(bags[BagOf(c)], c, v)
    BY <2>1 DEF Place
  <2>. QED
    BY <2>2, PairIs DEF Known, Place
<1>2. CASE ~(mem[p].bag # None /\ mem[p].bag.id = BagOf(c))
  <2>1. Place(bags[BagOf(c)], c, t)
    BY <1>2, PairIs DEF Known
  <2>2. Place(bags[BagOf(c)], c, u)
    BY <1>2, PairIs DEF Known
  <2>. QED
    BY <2>1, <2>2 DEF Place
<1>. QED
  BY <1>1, <1>2

(* A chunk that is put into the trees is in all three, and what is in them *)
(* stays there, if the chunk has the content it had.                       *)
LEMMA KeptWith ==
  ASSUME NEW trees \in IndexTrees, NEW chunk \in ChunkIds, NEW token \in Contents, NEW n \in Names
  PROVE  /\ Kept(IndexesWith(trees, chunk, token, n), <<chunk, token, n>>)
         /\ \A u \in Uses : Kept(trees, u) /\ (u[1] = chunk => u[2] = token)
                            => Kept(IndexesWith(trees, chunk, token, n), u)
<1> DEFINE ids == lookup(trees.by_checksum, token, None)
           users == lookup(trees.used_by, chunk, None)
           cs == WithElement(ids, chunk)
           us == WithElement(users, n)
           new == IndexesWith(trees, chunk, token, n)
<1>1. chunk \in Nat /\ token \in Nat
  BY ChunksAre, ContentsAre
<1>2. (ids = None \/ ids \in Seq(ChunkIds)) /\ (users = None \/ users \in Seq(Names))
  BY <1>1, FieldsOf, Looking
<1>3. /\ new.by_chunk_id = insert(trees.by_chunk_id, chunk, token)
      /\ new.by_checksum = insert(trees.by_checksum, token, cs)
      /\ new.used_by = insert(trees.used_by, chunk, us)
  BY DEF IndexesWith
<1> HIDE DEF ids, users, new
<1>4. /\ cs \in Seq(ChunkIds) /\ chunk \in ToSet(cs)
      /\ ids # None => ToSet(ids) \subseteq ToSet(cs)
  BY <1>2, WithElementIs
<1>5. /\ us \in Seq(Names) /\ n \in ToSet(us)
      /\ users # None => ToSet(users) \subseteq ToSet(us)
  BY <1>2, WithElementIs
<1>6. cs # None /\ us # None
  BY <1>4, <1>5, NoneAssumption
<1> HIDE DEF cs, us
<1>7. \A j \in Nat : lookup(new.by_chunk_id, j, None) = IF j = chunk THEN token ELSE lookup(trees.by_chunk_id, j, None)
  BY <1>1, <1>3, FieldsOf, Found
<1>8. \A j \in Nat : lookup(new.by_checksum, j, None) = IF j = token THEN cs ELSE lookup(trees.by_checksum, j, None)
  BY <1>1, <1>3, <1>4, FieldsOf, Found
<1>9. \A j \in Nat : lookup(new.used_by, j, None) = IF j = chunk THEN us ELSE lookup(trees.used_by, j, None)
  BY <1>1, <1>3, <1>5, FieldsOf, Found
<1>10. find_chunk_ids_by_token(new, token) = ToSet(cs)
  BY <1>1, <1>6, <1>8 DEF find_chunk_ids_by_token
<1>11. Kept(new, <<chunk, token, n>>)
  BY <1>1, <1>4, <1>5, <1>6, <1>7, <1>9, <1>10 DEF Kept
<1>12. ASSUME NEW u \in Uses, Kept(trees, u), u[1] = chunk => u[2] = token
       PROVE  Kept(new, u)
  <2>1. u[1] \in Nat /\ u[2] \in Nat
    BY ChunksAre, ContentsAre DEF Uses
  <2>2. u[1] \in find_chunk_ids_by_token(new, u[2])
    <3>1. CASE u[2] = token
      <4>1. ids # None /\ u[1] \in ToSet(ids)
        BY <1>12, <3>1 DEF Kept, find_chunk_ids_by_token, ids
      <4>. QED
        BY <1>4, <1>10, <3>1, <4>1
    <3>2. CASE u[2] # token
      BY <1>8, <1>12, <2>1, <3>2 DEF Kept, find_chunk_ids_by_token
    <3>. QED
      BY <3>1, <3>2
  <2>3. lookup(new.by_chunk_id, u[1], None) = u[2]
    BY <1>7, <1>12, <2>1 DEF Kept
  <2>4. lookup(new.used_by, u[1], None) # None /\ u[3] \in ToSet(lookup(new.used_by, u[1], None))
    BY <1>5, <1>6, <1>9, <1>12, <2>1 DEF Kept, users
  <2>. QED
    BY <2>2, <2>3, <2>4 DEF Kept
<1>. QED
  BY <1>11, <1>12 DEF new
-----------------------------------------------------------------------------
(* A step of p that changes nothing p has put into the indexes, or is      *)
(* outside a session or begins one.                                        *)
Quiet(p) ==
  /\ OnlyOf(p) /\ promised' = promised /\ indexRoot' = indexRoot /\ WrittenOnce
  /\ \/ mem'[p].unused = {}
     \/ mem'[p].unused = mem[p].unused /\ mem'[p].command = mem[p].command
     \/ mem'[p].command = "forget"
  /\ \/ IndexPart \notin mem'[p].held
     \/ mem'[p].promising \subseteq promised
     \/ /\ IndexPart \in mem[p].held /\ mem'[p].promising = mem[p].promising
        /\ mem'[p].command = mem[p].command /\ mem'[p].trees = mem[p].trees
        /\ Known(p) \subseteq Known(p)'

LEMMA SessionStays ==
  ASSUME Types, Sessions, NEW p \in Procs, mem'[p] = mem[p], promised' = promised,
         indexRoot' = indexRoot, WrittenOnce
  PROVE  Session(p)'
<1>1. Trees(p)' = Trees(p)
  BY DEF Trees
<1>2. Known(p) \subseteq Known(p)'
  BY StoreGrows DEF Known
<1>. QED
  BY <1>1, <1>2 DEF Sessions, Session

LEMMA QuietSessions ==
  ASSUME Types, Sessions, NEW p \in Procs, Quiet(p)
  PROVE  Sessions'
<1>1. ASSUME NEW q \in Procs, q # p PROVE Session(q)'
  BY <1>1, SessionStays DEF Quiet, OnlyOf
<1>2. mem'[p].command # "forget" => mem'[p].unused = {}
  BY DEF Quiet, Sessions, Session
<1>3. ASSUME IndexPart \notin mem'[p].held \/ mem'[p].promising \subseteq promised
      PROVE  Session(p)'
  <2>1. IndexPart \in mem'[p].held => mem'[p].promising \subseteq promised'
    BY <1>3 DEF Quiet
  <2>2. IndexPart \in mem'[p].held => ~ \E u \in mem'[p].promising \ promised' : TRUE
    BY <2>1
  <2>. QED
    BY <1>2, <2>1, <2>2 DEF Session
<1>4. ASSUME /\ IndexPart \in mem[p].held /\ mem'[p].promising = mem[p].promising
             /\ mem'[p].command = mem[p].command /\ mem'[p].trees = mem[p].trees
             /\ Known(p) \subseteq Known(p)'
      PROVE  Session(p)'
  <2>1. Trees(p)' = Trees(p)
    BY <1>4 DEF Trees, Quiet
  <2>2. promised' = promised
    BY DEF Quiet
  <2>3. \A u \in mem[p].promising \ promised : <<u[1], u[2]>> \in Known(p) /\ Kept(Trees(p), u)
    BY <1>4 DEF Sessions, Session
  <2>4. mem[p].command = "forget" => mem[p].promising \subseteq promised
    BY <1>4 DEF Sessions, Session
  <2>5. \A u \in mem'[p].promising \ promised' : <<u[1], u[2]>> \in Known(p)' /\ Kept(Trees(p)', u)
    BY <1>4, <2>1, <2>2, <2>3
  <2>6. mem'[p].command = "forget" => mem'[p].promising \subseteq promised'
    BY <1>4, <2>2, <2>4
  <2>. QED
    BY <1>2, <2>5, <2>6 DEF Session
<1>. QED
  BY <1>1, <1>3, <1>4 DEF Quiet, Sessions

(* Most steps are of this kind.                                            *)
LEMMA Untouched ==
  ASSUME Types, NEW p \in Procs, NEW F, Only(p, F), F \subseteq {"pc", "names", "data", "finder", "held"},
         UNCHANGED <<promised, indexRoot, bags>>, IndexPart \in mem'[p].held => IndexPart \in mem[p].held
  PROVE  Quiet(p)
<1>1. /\ mem'[p].unused = mem[p].unused /\ mem'[p].command = mem[p].command
      /\ mem'[p].promising = mem[p].promising /\ mem'[p].trees = mem[p].trees
      /\ mem'[p].bag = mem[p].bag /\ OnlyOf(p)
  BY DEF Only, Fields
<1>2. Known(p)' = Known(p)
  BY <1>1 DEF Known
<1>. QED
  BY <1>1, <1>2 DEF Quiet, WrittenOnce

LEMMA Beginning ==
  ASSUME NEW p \in Procs, OnlyOf(p), Fresh(p), UNCHANGED <<promised, indexRoot, bags>>
  PROVE  Quiet(p)
  BY DEF Quiet, Fresh, WrittenOnce

LEMMA QuietSteps ==
  ASSUME Types, Holding, NEW p \in Procs,
         \/ remove_client(p) \/ commit_client_list(p) \/ unlock_client_list(p) \/ unlock_everything(p)
         \/ lock_client(p) \/ create_generation(p) \/ commit_client(p) \/ unlock_client(p)
  PROVE  Quiet(p)
<1>1. UNCHANGED <<promised, indexRoot, bags>>
  BY DEF remove_client, commit_client_list, unlock_client_list, unlock_everything, lock_client,
         create_generation, commit_client, unlock_client, disk
<1> DEFINE Few(F) == /\ Only(p, F) /\ F \subseteq {"pc", "names", "data", "finder", "held"}
                     /\ IndexPart \in mem'[p].held => IndexPart \in mem[p].held
<1>2. CASE remove_client(p)
  <2>1. Few({"pc", "names"})
    BY <1>2, remove_client_effect DEF Only, Fields
  <2>. QED
    BY <1>1, <2>1, Untouched
<1>3. CASE commit_client_list(p)
  <2>1. Few({"pc"})
    BY <1>3, commit_client_list_effect DEF Only, Fields
  <2>. QED
    BY <1>1, <2>1, Untouched
<1>4. CASE unlock_client_list(p)
  <2>1. Few({"pc", "held", "names"})
    BY <1>4, unlock_client_list_effect
  <2>. QED
    BY <1>1, <2>1, Untouched
<1>5. CASE unlock_everything(p)
  <2>1. Few({"pc", "held", "names"})
    BY <1>5, unlock_everything_effect
  <2>. QED
    BY <1>1, <2>1, Untouched
<1>6. CASE lock_client(p)
  <2>1. mem[p].finder \in Dirs
    BY <1>6, CopiesAre DEF lock_client, At, WithFinder
  <2>2. Few({"pc", "held", "data"})
    BY <1>6, <2>1, lock_client_effect, PartsDiffer
  <2>. QED
    BY <1>1, <2>2, Untouched
<1>7. CASE create_generation(p)
  <2>1. Few({"pc", "data"})
    BY <1>7, create_generation_effect DEF Only, Fields
  <2>. QED
    BY <1>1, <2>1, Untouched
<1>8. CASE commit_client(p)
  <2>1. Few({"data", "pc"})
    BY <1>8, commit_client_effect DEF Only, Fields
  <2>. QED
    BY <1>1, <2>1, Untouched
<1>9. CASE unlock_client(p)
  <2>1. Few({"pc", "held", "data"})
    BY <1>9, unlock_client_effect
  <2>. QED
    BY <1>1, <2>1, Untouched
<1>. QED
  BY <1>2, <1>3, <1>4, <1>5, <1>6, <1>7, <1>8, <1>9

LEMMA MoreQuietSteps ==
  ASSUME Types, Holding, NEW p \in Procs,
         \/ add_client(p) \/ unlock_next(p) \/ call_fails(p) \/ walk_fails(p) \/ give_up(p)
         \/ \E new \in Names : rename_client(p, new)
  PROVE  Quiet(p)
<1>1. UNCHANGED <<promised, indexRoot, bags>>
  BY DEF add_client, unlock_next, call_fails, walk_fails, give_up, rename_client, disk
<1> DEFINE Few(F) == /\ Only(p, F) /\ F \subseteq {"pc", "names", "data", "finder", "held"}
                     /\ IndexPart \in mem'[p].held => IndexPart \in mem[p].held
<1>2. CASE add_client(p)
  <2>1. Few({"pc", "names"})
    BY <1>2, add_client_effect DEF Only, Fields
  <2>. QED
    BY <1>1, <2>1, Untouched
<1>3. CASE unlock_next(p)
  <2>1. Few({"pc", "names", "held"})
    BY <1>3, unlock_next_effect
  <2>. QED
    BY <1>1, <2>1, Untouched
<1>4. CASE call_fails(p) \/ walk_fails(p)
  <2>1. Few({"pc"})
    BY <1>4, call_fails_effect, walk_fails_effect DEF Only, Fields
  <2>. QED
    BY <1>1, <2>1, Untouched
<1>5. CASE give_up(p)
  <2>1. Few({"pc"}) \/ Few({"held"})
    BY <1>5, give_up_effect DEF Only, Fields
  <2>. QED
    BY <1>1, <2>1, Untouched
<1>6. ASSUME NEW new \in Names, rename_client(p, new) PROVE Quiet(p)
  <2>1. Few({"pc", "names"})
    BY <1>6, rename_client_effect DEF Only, Fields
  <2>. QED
    BY <1>1, <2>1, Untouched
<1>. QED
  BY <1>2, <1>3, <1>4, <1>5, <1>6

(* The steps of a backup before it shares its chunks are outside sessions. *)
LEMMA OutsideSteps ==
  ASSUME Types, BagsFit, Holding, NEW p \in Procs,
         \/ find_client(p) \/ unlock_initialised_indexes(p)
         \/ \E c \in Contents : put_chunk_content(p, c) \/ \E chunk \in ChunkIds : use_chunk(p, chunk, c)
  PROVE  Quiet(p)
<1>1. HeldFits(p)
  BY DEF Holding
<1>2. CASE find_client(p)
  <2>1. /\ UNCHANGED <<promised, indexRoot, bags>> /\ OnlyOf(p) /\ mem'[p].held = mem[p].held
        /\ mem'[p].unused = mem[p].unused /\ mem'[p].command = mem[p].command
    BY <1>2, find_client_effect DEF find_client, disk, Only, Fields
  <2>2. IndexPart \notin mem'[p].held
    BY <1>1, <1>2, <2>1 DEF find_client, At, HeldFits, IndexFree
  <2>. QED
    BY <2>1, <2>2 DEF Quiet, WrittenOnce
<1>3. CASE unlock_initialised_indexes(p)
  <2>1. /\ UNCHANGED <<promised, indexRoot, bags>> /\ OnlyOf(p) /\ mem'[p].held = mem[p].held \ {IndexPart}
        /\ mem'[p].unused = mem[p].unused /\ mem'[p].command = mem[p].command
    BY <1>3, unlock_initialised_indexes_effect DEF unlock_initialised_indexes, disk, Only, Fields
  <2>. QED
    BY <2>1 DEF Quiet, WrittenOnce
<1>4. ASSUME NEW c \in Contents, put_chunk_content(p, c) PROVE Quiet(p)
  <2>1. PICK b \in Bags, blobs \in Seq(Contents) : PutsIn(p, c, b, blobs) /\ Len(blobs) \in 1 .. BagSize
    BY <1>4, Putting DEF BagsFit, BagFits
  <2>2. Only(p, {"trees", "data", "tokens", "bag"})
    BY <2>1, <1>4, put_chunk_content_effect
  <2>3. /\ OnlyOf(p) /\ mem'[p].held = mem[p].held
        /\ mem'[p].unused = mem[p].unused /\ mem'[p].command = mem[p].command
    BY <2>2 DEF Only, Fields
  <2>4. IndexPart \notin mem'[p].held /\ promised' = promised /\ indexRoot' = indexRoot
    BY <1>1, <1>4, <2>3 DEF put_chunk_content, At, HeldFits, IndexFree
  <2>. QED
    BY <1>4, <2>3, <2>4, PutKeepsBags DEF Quiet
<1>5. ASSUME NEW c \in Contents, NEW chunk \in ChunkIds, use_chunk(p, chunk, c) PROVE Quiet(p)
  <2>1. /\ UNCHANGED <<promised, indexRoot, bags>> /\ OnlyOf(p) /\ mem'[p].held = mem[p].held
        /\ mem'[p].unused = mem[p].unused /\ mem'[p].command = mem[p].command
    <3>1. Only(p, {"trees", "data", "tokens"})
      BY <1>5, use_chunk_effect
    <3>2. /\ OnlyOf(p) /\ mem'[p].held = mem[p].held
          /\ mem'[p].unused = mem[p].unused /\ mem'[p].command = mem[p].command
      BY <3>1 DEF Only, Fields
    <3>3. UNCHANGED <<promised, indexRoot, bags>>
      BY <1>5 DEF use_chunk, disk
    <3>. QED
      BY <3>2, <3>3
  <2>2. IndexPart \notin mem'[p].held
    BY <1>1, <1>5, <2>1 DEF use_chunk, At, HeldFits, IndexFree
  <2>. QED
    BY <2>1, <2>2 DEF Quiet, WrittenOnce
<1>. QED
  BY <1>2, <1>3, <1>4, <1>5

(* Steps that begin a session, or are those of a forget, or of a backup    *)
(* that puts nothing into the indexes.                                     *)
LEMMA SessionSteps ==
  ASSUME Types, BagsFit, Holding, Sessions, NEW p \in Procs,
         \/ lock_chunk_indexes(p) \/ lock_next(p) \/ remove_generation(p) \/ flush_chunks(p)
         \/ \E chunk \in mem[p].unused : remove_chunk_from_indexes(p, chunk)
  PROVE  Quiet(p)
<1>1. HeldFits(p)
  BY DEF Holding
<1>2. CASE lock_chunk_indexes(p)
  <2>1. /\ UNCHANGED <<promised, indexRoot, bags>> /\ OnlyOf(p) /\ mem'[p].promising = promised
        /\ mem'[p].unused = mem[p].unused /\ mem'[p].command = mem[p].command
    BY <1>2, lock_chunk_indexes_effect DEF lock_chunk_indexes, Only, Fields
  <2>. QED
    BY <2>1 DEF Quiet, WrittenOnce
<1>3. CASE lock_next(p)
  <2>1. UNCHANGED <<promised, indexRoot, bags>>
    BY <1>3 DEF lock_next
  <2>2. /\ OnlyOf(p) /\ mem'[p].promising \in {promised, {}}
        /\ mem'[p].unused = mem[p].unused /\ mem'[p].command = mem[p].command
    BY <1>3, lock_next_effect DEF Only, Fields
  <2>. QED
    BY <2>1, <2>2 DEF Quiet, WrittenOnce
<1>4. CASE remove_generation(p)
  <2>1. UNCHANGED <<promised, indexRoot, bags>>
    BY <1>4 DEF remove_generation, disk
  <2>2. /\ OnlyOf(p) /\ mem'[p].promising = mem[p].promising
        /\ mem'[p].held = mem[p].held /\ mem'[p].command = mem[p].command
    BY <1>4, remove_generation_effect DEF Only, Fields
  <2>3. mem[p].command = "forget"
    BY <1>1, <1>4 DEF remove_generation, At, HeldFits, ForgetOnly
  <2>4. IndexPart \notin mem'[p].held \/ mem'[p].promising \subseteq promised
    BY <2>2, <2>3 DEF Sessions, Session
  <2>. QED
    BY <2>1, <2>2, <2>3, <2>4 DEF Quiet, WrittenOnce
<1>5. CASE flush_chunks(p)
  <2>1. UNCHANGED <<promised, indexRoot>>
    BY <1>5 DEF flush_chunks
  <2>2. /\ OnlyOf(p) /\ mem'[p].promising = mem[p].promising /\ mem'[p].bag = None
        /\ mem'[p].held = mem[p].held /\ mem'[p].command = mem[p].command
        /\ mem'[p].unused = mem[p].unused /\ mem'[p].trees = mem[p].trees
    BY <1>5, flush_chunks_effect DEF Only, Fields
  <2>3. Known(p) \subseteq Known(p)'
    BY <1>5, <2>2, FlushKnown DEF Known
  <2>. QED
    BY <1>5, <2>1, <2>2, <2>3, FlushKeepsBags DEF Quiet
<1>6. ASSUME NEW chunk \in mem[p].unused, remove_chunk_from_indexes(p, chunk) PROVE Quiet(p)
  <2>1. UNCHANGED <<promised, indexRoot, bags>> /\ chunk \in ChunkIds
    BY <1>6, FieldsAre DEF remove_chunk_from_indexes, disk
  <2>2. /\ OnlyOf(p) /\ mem'[p].promising \subseteq mem[p].promising
        /\ mem'[p].held = mem[p].held /\ mem'[p].command = mem[p].command
    BY <1>6, <2>1, remove_chunk_from_indexes_effect DEF Only, Fields
  <2>3. mem[p].command = "forget"
    BY <1>6 DEF Sessions, Session
  <2>4. IndexPart \notin mem'[p].held \/ mem'[p].promising \subseteq promised
    BY <2>2, <2>3 DEF Sessions, Session
  <2>. QED
    BY <2>1, <2>2, <2>3, <2>4 DEF Quiet, WrittenOnce
<1>. QED
  BY <1>2, <1>3, <1>4, <1>5, <1>6

LEMMA PuttingSessions ==
  ASSUME Types, BagsFit, AllKnown, Holding, Sessions, NEW p \in Procs, NEW t \in mem[p].tokens,
         put_chunk_into_indexes(p, t[1], t[2])
  PROVE  Sessions'
<1> DEFINE chunk == t[1]
           token == t[2]
           n == mem[p].client
<1>1. t \in ChunkIds \X Contents
  BY FieldsAre
<1>2. chunk \in ChunkIds /\ token \in Contents /\ t = <<chunk, token>>
  BY <1>1
<1>3. <<chunk, token>> \in Known(p)
  BY <1>2, KnownNow
<1>4. mem[p].command # "forget" /\ n \in Names /\ IndexPart \in mem[p].held
  BY CopiesAre DEF Holding, HeldFits, BackupOnly, ClientLocked, IndexesLocked, put_chunk_into_indexes, At
<1> HIDE DEF chunk, token, n
<1>5. put_chunk_into_indexes(p, chunk, token)
  BY DEF chunk, token
<1>6. UNCHANGED <<promised, indexRoot, bags>>
  BY <1>5 DEF put_chunk_into_indexes, disk
<1>7. /\ OnlyOf(p) /\ mem'[p].bag = mem[p].bag /\ mem'[p].held = mem[p].held
      /\ mem'[p].command = mem[p].command /\ mem'[p].unused = mem[p].unused
      /\ mem'[p].trees = IndexesWith(Trees(p), chunk, token, n)
      /\ mem'[p].promising = mem[p].promising \cup {<<chunk, token, n>>}
  BY <1>2, <1>5, put_chunk_into_indexes_effect DEF Only, Fields, n
<1>8. ASSUME NEW q \in Procs, q # p PROVE Session(q)'
  <2>1. WrittenOnce /\ mem'[q] = mem[q]
    BY <1>6, <1>7, <1>8 DEF WrittenOnce, OnlyOf
  <2>. QED
    BY <1>6, <2>1, SessionStays
<1>9. Known(p)' = Known(p)
  BY <1>6, <1>7 DEF Known
<1>10. Trees(p) \in IndexTrees
  BY CopiesAre
<1>11. Trees(p)' = IndexesWith(Trees(p), chunk, token, n)
  <2>1. IndexesWith(Trees(p), chunk, token, n) \in IndexTrees
    BY <1>2, <1>4, <1>10, WithIndexes
  <2>. QED
    BY <1>7, <2>1, UnreadIs DEF Trees
<1>12. ASSUME NEW u \in mem'[p].promising \ promised
       PROVE  <<u[1], u[2]>> \in Known(p) /\ Kept(IndexesWith(Trees(p), chunk, token, n), u)
  <2>1. CASE u = <<chunk, token, n>>
    <3>1. Kept(IndexesWith(Trees(p), chunk, token, n), <<chunk, token, n>>)
      BY <1>2, <1>4, <1>10, KeptWith
    <3>. QED
      BY <1>3, <2>1, <3>1
  <2>2. CASE u \in mem[p].promising \ promised
    <3>1. <<u[1], u[2]>> \in Known(p) /\ Kept(Trees(p), u)
      BY <1>4, <2>2 DEF Sessions, Session
    <3>2. u \in Uses /\ u[1] \in ChunkIds /\ u[2] \in Contents
      BY <2>2, FieldsAre DEF Uses
    <3>3. u[1] = chunk => u[2] = token
      BY <1>2, <1>3, <3>1, <3>2, OneContent
    <3>. QED
      BY <1>2, <1>4, <1>10, <3>1, <3>2, <3>3, KeptWith
  <2>. QED
    BY <1>7, <1>12, <2>1, <2>2
<1>13. mem[p].unused = {}
  BY <1>4 DEF Sessions, Session
<1>14. Session(p)'
  BY <1>4, <1>6, <1>7, <1>9, <1>11, <1>12, <1>13 DEF Session
<1>. QED
  BY <1>8, <1>14 DEF Sessions

(* What a session commits is what the others now take for committed, and   *)
(* none of them has a session.                                             *)
LEMMA CommitSessions ==
  ASSUME Types, Holding, Sessions, NEW p \in Procs, commit_chunk_indexes(p)
  PROVE  Sessions'
<1>1. /\ OnlyOf(p) /\ mem'[p].promising = mem[p].promising /\ mem'[p].held = mem[p].held
      /\ mem'[p].command = mem[p].command /\ mem'[p].unused = mem[p].unused
  BY commit_chunk_indexes_effect DEF Only, Fields
<1>2. promised' = mem[p].promising
  BY DEF commit_chunk_indexes
<1>3. Session(p)'
  BY <1>1, <1>2 DEF Sessions, Session
<1>4. IndexPart \in mem[p].held
  BY DEF commit_chunk_indexes, At, Holding, HeldFits, IndexesLocked
<1>5. ASSUME NEW q \in Procs, q # p PROVE Session(q)'
  <2>1. mem'[q] = mem[q] /\ IndexPart \notin mem[q].held
    BY <1>1, <1>4, <1>5 DEF OnlyOf, Holding
  <2>2. IndexPart \notin mem'[q].held /\ (mem'[q].command # "forget" => mem'[q].unused = {})
    BY <2>1 DEF Sessions, Session
  <2>. QED
    BY <2>2 DEF Session
<1>. QED
  BY <1>3, <1>5 DEF Sessions

LEMMA SessionsKept ==
  ASSUME Types, BagsFit, AllKnown, Holding, Sessions, Next
  PROVE  Sessions'
<1>1. ASSUME NEW p \in Procs, NEW n \in Names, NEW command \in {"backup", "forget", "remove-client"},
             lock_client_list(p, n, command)
      PROVE  Sessions'
  <2>1. OnlyOf(p) /\ Fresh(p)
    BY <1>1, lock_client_list_effect
  <2>2. UNCHANGED <<promised, indexRoot, bags>>
    BY <1>1 DEF lock_client_list
  <2>. QED
    BY <2>1, <2>2, Beginning, QuietSessions
<1>2. ASSUME NEW p \in Procs, Backup(p) PROVE Sessions'
  <2>1. CASE unlock_chunk_indexes(p)
    <3>1. OnlyOf(p) /\ Fresh(p)
      BY <2>1, unlock_chunk_indexes_effect
    <3>2. UNCHANGED <<promised, indexRoot, bags>>
      BY <2>1 DEF unlock_chunk_indexes
    <3>. QED
      BY <3>1, <3>2, Beginning, QuietSessions
  <2>. QED
    BY <1>2, <2>1, QuietSteps, MoreQuietSteps, OutsideSteps, SessionSteps, QuietSessions, PuttingSessions
       DEF Backup
<1>3. ASSUME NEW p \in Procs, Forget(p) PROVE Sessions'
  BY <1>3, QuietSteps, MoreQuietSteps, SessionSteps, QuietSessions DEF Forget
<1>4. ASSUME NEW p \in Procs, ChangeList(p) \/ commit_client_list(p) \/ unlock_client_list(p) \/ commit_client(p)
      PROVE  Sessions'
  BY <1>4, QuietSteps, MoreQuietSteps, QuietSessions DEF ChangeList
<1>5. ASSUME NEW p \in Procs, commit_chunk_indexes(p) \/ call_fails(p) \/ give_up(p) PROVE Sessions'
  BY <1>5, MoreQuietSteps, QuietSessions, CommitSessions
<1>6. ASSUME NEW p \in Procs, exit(p) \/ crash(p) PROVE Sessions'
  <2>1. mem' = [mem EXCEPT ![p] = Idle] /\ UNCHANGED <<promised, indexRoot, bags>>
    BY <1>6 DEF exit, crash, disk
  <2>2. OnlyOf(p) /\ Fresh(p)
    BY <2>1, exit_effect
  <2>. QED
    BY <2>1, <2>2, Beginning, QuietSessions
<1>7. ASSUME NEW part \in Parts, force_lock(part) PROVE Sessions'
  <2>1. UNCHANGED <<mem, promised, indexRoot, bags>>
    BY <1>7 DEF force_lock
  <2>. QED
    BY <2>1, SessionStays DEF Sessions, WrittenOnce
<1>. QED
  BY <1>1, <1>2, <1>3, <1>4, <1>5, <1>6, <1>7 DEF Next

LEMMA SessionsStart == Init => Sessions
<1>1. \A p \in Procs : Init => mem[p] = Idle
  BY DEF Init
<1>. QED
  BY <1>1 DEF Sessions, Session, Idle

LEMMA SessionsFind == Types /\ Sessions => SessionFindsWhatItPut
<1> SUFFICES ASSUME Types, Sessions, NEW p \in Procs, IndexPart \in mem[p].held
             PROVE  /\ \A u \in mem[p].promising \ promised : Kept(Trees(p), u)
                    /\ \A t \in DOMAIN NoTrees : LeavesAreOrdered(Trees(p)[t])
  BY DEF SessionFindsWhatItPut, Kept
<1>1. \A u \in mem[p].promising \ promised : Kept(Trees(p), u)
  BY DEF Sessions, Session
<1>2. DOMAIN NoTrees = {"by_chunk_id", "by_checksum", "used_by"}
  BY DEF NoTrees
<1>3. Trees(p) \in IndexTrees
  BY CopiesAre
<1>4. \A V : \A tree \in TreesOver(V) : LeavesAreOrdered(tree)
  BY DEF TreesOver, IsTree
<1>5. /\ LeavesAreOrdered(Trees(p).by_chunk_id) /\ LeavesAreOrdered(Trees(p).by_checksum)
      /\ LeavesAreOrdered(Trees(p).used_by)
  BY <1>3, <1>4, FieldsOf
<1>. QED
  BY <1>1, <1>2, <1>5

(* While it has the indexes locked, a process finds in them whatever it    *)
(* has put into them (indexes.py:126-150), with no leaf out of order: no   *)
(* other process changes them, its own inserts and splits lose nothing,    *)
(* and a chunk is never put there with another content than it has.        *)
THEOREM FindsWhatItPut == Spec => []SessionFindsWhatItPut
<1> DEFINE Base == Types /\ BagsFit /\ AllKnown /\ Holding
<1>1. Base /\ Sessions /\ [Next]_vars => Sessions'
  <2>1. CASE UNCHANGED vars
    BY <2>1 DEF vars, disk, Sessions, Session, Known, Trees
  <2>2. CASE Next
    BY <2>2, SessionsKept
  <2>. QED
    BY <2>1, <2>2
<1>2. Spec => []Base
  BY KnowledgeAlways, LocksAlways, PTL
<1>3. Base /\ Sessions => SessionFindsWhatItPut
  BY SessionsFind
<1> HIDE DEF Base
<1>. QED
  BY <1>1, <1>2, <1>3, SessionsStart, PTL DEF Spec

-----------------------------------------------------------------------------
(* Which locks a process has and which it has not                          *)

(* No more locks than these, where a step gives all of them up or works on *)
(* the one that is left; a finder is of a client whose directory exists.   *)
HeldOnly(p, held) == mem[p].held \subseteq held

Exact(p) ==
  /\ mem[p].pc \in {"idle", "find", "found"} => HeldOnly(p, {})
  /\ mem[p].pc \in {"backup", "remove-client", "list changed", "list committed"} => HeldOnly(p, {ListPart})
  /\ mem[p].pc \in {"initialise", "create", "walk"} => HeldOnly(p, {mem[p].finder})
  /\ mem[p].pc \in {"initialised", "share", "unlock client"} => HeldOnly(p, {mem[p].finder, IndexPart})
  /\ mem[p].pc = "commit" /\ mem[p].command # "forget" => HeldOnly(p, {mem[p].finder, IndexPart})
  /\ mem[p].pc = "commit indexes" /\ mem[p].command # "forget" => HeldOnly(p, {IndexPart})
  /\ mem[p].pc = "unlock indexes" => HeldOnly(p, {IndexPart})
  /\ mem[p].pc = "forget" => IndexPart \notin mem[p].held /\ mem[p].data = NotLoaded
  /\ mem[p].pc \in {"choose", "commit", "commit indexes"} /\ mem[p].command = "forget"
       => mem[p].finder = None \/ mem[p].finder \in mem[p].held
  /\ mem[p].finder = None \/ mem[p].finder \in made
  /\ mem[p].pc = "walk" => mem[p].data # << >>

Exactly == \A p \in Procs : Exact(p)

ExactStep(p) == OnlyOf(p) /\ made \subseteq made' /\ Exact(p)'

LEMMA ExactAfter ==
  ASSUME Exactly, NEW p \in Procs, ExactStep(p)
  PROVE  Exactly'
<1>1. ASSUME NEW q \in Procs, q # p PROVE Exact(q)'
  <2>1. Exact(q) /\ mem'[q] = mem[q] /\ made \subseteq made'
    BY <1>1 DEF Exactly, ExactStep, OnlyOf
  <2>. QED
    BY <2>1 DEF Exact, HeldOnly
<1>. QED
  BY <1>1 DEF Exactly, ExactStep

LEMMA ExactOf ==
  ASSUME Types, Holding, ListsGiven, Exactly, NEW p \in Procs
  PROVE  /\ Exact(p) /\ HeldFits(p)
         /\ \A n \in DOMAIN Listed(p) : Listed(p)[n] \in made
  BY DEF Exactly, Holding, ListsGiven, Given

(* The steps on the client list.                                           *)
LEMMA ListExact ==
  ASSUME Types, Holding, ListsGiven, Exactly, NEW p \in Procs,
         \/ add_client(p) \/ remove_client(p) \/ (\E new \in Names : rename_client(p, new))
         \/ commit_client_list(p) \/ unlock_client_list(p)
  PROVE  ExactStep(p)
<1>1. Exact(p)
  BY ExactOf
<1>2. ASSUME add_client(p) \/ remove_client(p) \/ \E new \in Names : rename_client(p, new)
      PROVE  ExactStep(p)
  <2>1. mem[p].pc \in {"backup", "remove-client"} /\ made \subseteq made'
    BY <1>2 DEF add_client, remove_client, rename_client, At, disk
  <2>2. Only(p, {"pc", "names"}) /\ mem'[p].pc = "list changed"
    BY <1>2, add_client_effect, remove_client_effect, rename_client_effect
  <2>3. OnlyOf(p) /\ mem'[p].held = mem[p].held /\ mem'[p].finder = mem[p].finder
    BY <2>2 DEF Only, Fields
  <2>. QED
    BY <1>1, <2>1, <2>2, <2>3 DEF Exact, HeldOnly, ExactStep
<1>3. ASSUME commit_client_list(p) PROVE ExactStep(p)
  <2>1. mem[p].pc = "list changed" /\ made' = made
    BY <1>3 DEF commit_client_list, At
  <2>2. Only(p, {"pc"}) /\ mem'[p].pc = "list committed"
    BY <1>3, commit_client_list_effect
  <2>3. OnlyOf(p) /\ mem'[p].held = mem[p].held /\ mem'[p].finder = mem[p].finder
    BY <2>2 DEF Only, Fields
  <2>. QED
    BY <1>1, <2>1, <2>2, <2>3 DEF Exact, HeldOnly, ExactStep
<1>4. ASSUME unlock_client_list(p) PROVE ExactStep(p)
  <2>1. made' = made
    BY <1>4 DEF unlock_client_list
  <2>2. Only(p, {"pc", "held", "names"}) /\ mem'[p].pc \in {"find", "exit"} /\ mem'[p].held = {}
    BY <1>4, unlock_client_list_effect
  <2>3. OnlyOf(p) /\ mem'[p].finder = mem[p].finder
    BY <2>2 DEF Only, Fields
  <2>. QED
    BY <1>1, <2>1, <2>2, <2>3 DEF Exact, HeldOnly, ExactStep
<1>. QED
  BY <1>2, <1>3, <1>4

(* The steps that start, end or give up a command.                         *)
LEMMA EndsExact ==
  ASSUME Types, Holding, ListsGiven, Exactly, NEW p \in Procs,
         \/ \E n \in Names, command \in {"backup", "forget", "remove-client"} : lock_client_list(p, n, command)
         \/ unlock_chunk_indexes(p) \/ exit(p) \/ crash(p) \/ call_fails(p) \/ walk_fails(p) \/ give_up(p)
  PROVE  ExactStep(p)
<1>1. Exact(p)
  BY ExactOf
<1>2. ASSUME NEW n \in Names, NEW command \in {"backup", "forget", "remove-client"}, lock_client_list(p, n, command)
      PROVE  ExactStep(p)
  <2>1. /\ OnlyOf(p) /\ Fresh(p) /\ mem'[p].held = {ListPart} /\ mem'[p].pc = command
        /\ made' = made
    BY <1>2, lock_client_list_effect DEF lock_client_list
  <2>. QED
    BY <1>2, <2>1, PartsDiffer DEF Fresh, Exact, HeldOnly, ExactStep
<1>3. ASSUME unlock_chunk_indexes(p) PROVE ExactStep(p)
  <2>1. /\ OnlyOf(p) /\ Fresh(p) /\ mem'[p].held = {} /\ mem'[p].pc \in {"find", "exit"}
        /\ made' = made
    BY <1>3, unlock_chunk_indexes_effect DEF unlock_chunk_indexes
  <2>. QED
    BY <2>1 DEF Fresh, Exact, HeldOnly, ExactStep
<1>4. ASSUME exit(p) \/ crash(p) PROVE ExactStep(p)
  <2>1. mem' = [mem EXCEPT ![p] = Idle] /\ made' = made
    BY <1>4 DEF exit, crash, disk
  <2>2. OnlyOf(p) /\ Fresh(p) /\ mem'[p].held = {} /\ mem'[p].pc = "idle"
    BY <2>1, exit_effect
  <2>. QED
    BY <2>1, <2>2 DEF Fresh, Exact, HeldOnly, ExactStep
<1>5. ASSUME call_fails(p) \/ walk_fails(p) PROVE ExactStep(p)
  <2>1. made' = made
    BY <1>5 DEF call_fails, walk_fails, disk
  <2>2. Only(p, {"pc"}) /\ mem'[p].pc \in {"give up", "exit"}
    BY <1>5, call_fails_effect, walk_fails_effect
  <2>3. OnlyOf(p) /\ mem'[p].finder = mem[p].finder
    BY <2>2 DEF Only, Fields
  <2>. QED
    BY <1>1, <2>1, <2>2, <2>3 DEF Exact, HeldOnly, ExactStep
<1>6. ASSUME give_up(p) PROVE ExactStep(p)
  <2>1. made' = made /\ mem[p].pc = "give up"
    BY <1>6 DEF give_up, At
  <2>2. OnlyOf(p) /\ mem'[p].finder = mem[p].finder /\ mem'[p].pc \in {"give up", "exit"}
    BY <1>6, <2>1, give_up_effect DEF Only, Fields
  <2>. QED
    BY <1>1, <2>1, <2>2 DEF Exact, HeldOnly, ExactStep
<1>. QED
  BY <1>2, <1>3, <1>4, <1>5, <1>6

LEMMA LockingExact ==
  ASSUME Types, Holding, ListsGiven, Exactly, NEW p \in Procs,
         \/ find_client(p) \/ lock_client(p) \/ unlock_client(p)
         \/ lock_chunk_indexes(p) \/ unlock_initialised_indexes(p)
  PROVE  ExactStep(p)
<1>1. /\ Exact(p) /\ HeldFits(p) /\ mem[p].held \subseteq Parts
      /\ \A n \in DOMAIN Listed(p) : Listed(p)[n] \in made
  BY ExactOf, FieldsAre
<1>2. ASSUME find_client(p) PROVE ExactStep(p)
  <2>1. mem[p].pc = "find" /\ made' = made
    BY <1>2 DEF find_client, At, disk
  <2>2. /\ Only(p, {"names", "trees", "pc", "finder"}) /\ mem'[p].pc \in {"found", "exit"}
        /\ mem'[p].finder = None \/ mem'[p].finder \in made
    BY <1>1, <1>2, find_client_effect
  <2>3. OnlyOf(p) /\ mem'[p].held = mem[p].held
    BY <2>2 DEF Only, Fields
  <2>. QED
    BY <1>1, <2>1, <2>2, <2>3 DEF Exact, HeldOnly, ExactStep
<1>3. ASSUME lock_client(p) PROVE ExactStep(p)
  <2>1. mem[p].pc = "found" /\ made' = made
    BY <1>3 DEF lock_client, At
  <2>2. /\ Only(p, {"pc", "held", "data"}) /\ mem'[p].pc \in {"initialise", "create"}
        /\ mem'[p].held = {mem[p].finder}
    BY <1>3, lock_client_effect
  <2>3. OnlyOf(p) /\ mem'[p].finder = mem[p].finder
    BY <2>2 DEF Only, Fields
  <2>. QED
    BY <1>1, <2>1, <2>2, <2>3 DEF Exact, HeldOnly, ExactStep
<1>4. ASSUME unlock_client(p) PROVE ExactStep(p)
  <2>1. mem[p].pc = "unlock client" /\ made' = made /\ mem[p].command # "forget"
    BY <1>1, <1>4 DEF unlock_client, At, HeldFits, BackupOnly, ClientLocked
  <2>2. /\ Only(p, {"pc", "held", "data"}) /\ mem'[p].pc = "commit indexes"
        /\ mem'[p].held = mem[p].held \ {mem[p].finder}
    BY <1>4, unlock_client_effect
  <2>3. OnlyOf(p) /\ mem'[p].finder = mem[p].finder /\ mem'[p].command = mem[p].command
    BY <2>2 DEF Only, Fields
  <2>. QED
    BY <1>1, <2>1, <2>2, <2>3 DEF Exact, HeldOnly, ExactStep
<1>5. ASSUME lock_chunk_indexes(p) PROVE ExactStep(p)
  <2>1. mem[p].pc \in {"initialise", "walk"} /\ made' = made
    BY <1>5 DEF lock_chunk_indexes, At
  <2>2. /\ Only(p, {"pc", "held", "trees", "promising"}) /\ mem'[p].pc \in {"share", "initialised"}
        /\ mem'[p].held = mem[p].held \cup {IndexPart}
    BY <1>5, lock_chunk_indexes_effect
  <2>3. OnlyOf(p) /\ mem'[p].finder = mem[p].finder
    BY <2>2 DEF Only, Fields
  <2>. QED
    BY <1>1, <2>1, <2>2, <2>3 DEF Exact, HeldOnly, ExactStep
<1>6. ASSUME unlock_initialised_indexes(p) PROVE ExactStep(p)
  <2>1. mem[p].pc = "initialised" /\ made' = made
    BY <1>6 DEF unlock_initialised_indexes, At
  <2>2. /\ Only(p, {"pc", "held", "trees", "promising"}) /\ mem'[p].pc = "create"
        /\ mem'[p].held = mem[p].held \ {IndexPart}
    BY <1>6, unlock_initialised_indexes_effect
  <2>3. OnlyOf(p) /\ mem'[p].finder = mem[p].finder
    BY <2>2 DEF Only, Fields
  <2>. QED
    BY <1>1, <2>1, <2>2, <2>3 DEF Exact, HeldOnly, ExactStep
<1>. QED
  BY <1>2, <1>3, <1>4, <1>5, <1>6

(* The steps that change generations and indexes.                          *)
LEMMA WorkExact ==
  ASSUME Types, Holding, ListsGiven, Exactly, NEW p \in Procs,
         \/ create_generation(p) \/ flush_chunks(p) \/ commit_client(p) \/ commit_chunk_indexes(p)
         \/ (\E chunk \in ChunkIds, token \in Contents : put_chunk_into_indexes(p, chunk, token))
         \/ (\E chunk \in ChunkIds : remove_chunk_from_indexes(p, chunk))
  PROVE  ExactStep(p)
<1>1. Exact(p) /\ HeldFits(p)
  BY ExactOf
<1>2. ASSUME create_generation(p) PROVE ExactStep(p)
  <2>1. mem[p].pc = "create" /\ made' = made /\ Data(p) \in Generations
    BY <1>2, CopiesAre DEF create_generation, At, disk, WithFinder
  <2>2. Only(p, {"pc", "data"}) /\ mem'[p].pc = "walk" /\ mem'[p].data = NewGeneration(Data(p))
    BY <1>2, create_generation_effect
  <2>3. NewGeneration(Data(p)) # << >>
    <3> DEFINE gens == Data(p)
               last == IF gens = << >> THEN {} ELSE Last(gens)
    <3>1. gens \in Seq(SUBSET ChunkIds)
      BY <2>1 DEF Generations
    <3> HIDE DEF gens
    <3>2. last \in SUBSET ChunkIds
      BY <3>1 DEF Last
    <3> HIDE DEF last
    <3>3. Append(gens, last) # << >>
      BY <3>1, <3>2
    <3>. QED
      BY <3>3 DEF NewGeneration, gens, last
  <2>4. OnlyOf(p) /\ mem'[p].held = mem[p].held /\ mem'[p].finder = mem[p].finder
    BY <2>2 DEF Only, Fields
  <2>. QED
    BY <1>1, <2>1, <2>2, <2>3, <2>4 DEF Exact, HeldOnly, ExactStep
<1>3. ASSUME flush_chunks(p) PROVE ExactStep(p)
  <2>1. mem[p].pc = "share" /\ made' = made /\ mem[p].command # "forget"
    BY <1>1, <1>3 DEF flush_chunks, At, HeldFits, BackupOnly, ClientLocked
  <2>2. Only(p, {"pc", "bag"}) /\ mem'[p].pc = "commit"
    BY <1>3, flush_chunks_effect
  <2>3. /\ OnlyOf(p) /\ mem'[p].held = mem[p].held /\ mem'[p].finder = mem[p].finder
        /\ mem'[p].command = mem[p].command
    BY <2>2 DEF Only, Fields
  <2>. QED
    BY <1>1, <2>1, <2>2, <2>3 DEF Exact, HeldOnly, ExactStep
<1>4. ASSUME commit_client(p) PROVE ExactStep(p)
  <2>1. mem[p].pc = "commit" /\ made' = made
    BY <1>4 DEF commit_client, At
  <2>2. /\ Only(p, {"data", "pc"})
        /\ mem'[p].pc = (IF mem[p].command = "forget" THEN "commit indexes" ELSE "unlock client")
    BY <1>4, commit_client_effect
  <2>3. /\ OnlyOf(p) /\ mem'[p].held = mem[p].held /\ mem'[p].finder = mem[p].finder
        /\ mem'[p].command = mem[p].command
    BY <2>2 DEF Only, Fields
  <2>. QED
    BY <1>1, <2>1, <2>2, <2>3 DEF Exact, HeldOnly, ExactStep
<1>5. ASSUME commit_chunk_indexes(p) PROVE ExactStep(p)
  <2>1. mem[p].pc = "commit indexes" /\ made' = made
    BY <1>5 DEF commit_chunk_indexes, At
  <2>2. /\ Only(p, {"trees", "pc"})
        /\ mem'[p].pc = (IF mem[p].command = "forget" THEN "choose" ELSE "unlock indexes")
    BY <1>5, commit_chunk_indexes_effect
  <2>3. /\ OnlyOf(p) /\ mem'[p].held = mem[p].held /\ mem'[p].finder = mem[p].finder
        /\ mem'[p].command = mem[p].command
    BY <2>2 DEF Only, Fields
  <2>. QED
    BY <1>1, <2>1, <2>2, <2>3 DEF Exact, HeldOnly, ExactStep
<1>6. ASSUME NEW chunk \in ChunkIds, NEW token \in Contents, put_chunk_into_indexes(p, chunk, token)
      PROVE  ExactStep(p)
  <2>1. made' = made
    BY <1>6 DEF put_chunk_into_indexes, disk
  <2>2. Only(p, {"trees", "tokens", "promising"})
    BY <1>6, put_chunk_into_indexes_effect
  <2>3. /\ OnlyOf(p) /\ mem'[p].held = mem[p].held /\ mem'[p].finder = mem[p].finder
        /\ mem'[p].command = mem[p].command /\ mem'[p].pc = mem[p].pc /\ mem'[p].data = mem[p].data
    BY <2>2 DEF Only, Fields
  <2>. QED
    BY <1>1, <2>1, <2>3 DEF Exact, HeldOnly, ExactStep
<1>7. ASSUME NEW chunk \in ChunkIds, remove_chunk_from_indexes(p, chunk) PROVE ExactStep(p)
  <2>1. made' = made
    BY <1>7 DEF remove_chunk_from_indexes, disk
  <2>2. Only(p, {"trees", "unused", "promising"})
    BY <1>7, remove_chunk_from_indexes_effect
  <2>3. /\ OnlyOf(p) /\ mem'[p].held = mem[p].held /\ mem'[p].finder = mem[p].finder
        /\ mem'[p].command = mem[p].command /\ mem'[p].pc = mem[p].pc /\ mem'[p].data = mem[p].data
    BY <2>2 DEF Only, Fields
  <2>. QED
    BY <1>1, <2>1, <2>3 DEF Exact, HeldOnly, ExactStep
<1>. QED
  BY <1>2, <1>3, <1>4, <1>5, <1>6, <1>7

LEMMA ChunksExact ==
  ASSUME Types, BagsFit, Holding, ListsGiven, Exactly, NEW p \in Procs, NEW content \in Contents,
         put_chunk_content(p, content) \/ \E chunk \in ChunkIds : use_chunk(p, chunk, content)
  PROVE  /\ ExactStep(p) /\ Only(p, {"trees", "data", "tokens", "bag"})
         /\ \E chunk \in ChunkIds : mem'[p].data = WithChunk(mem[p].data, chunk)
<1>1. Exact(p) /\ mem[p].pc = "walk" /\ made' = made /\ mem[p].data \in Generations
  BY ExactOf, TypesOf DEF put_chunk_content, use_chunk, At, disk, PcFits
<1>2. /\ Only(p, {"trees", "data", "tokens", "bag"})
      /\ \E chunk \in ChunkIds : mem'[p].data = WithChunk(mem[p].data, chunk)
  <2>1. ASSUME put_chunk_content(p, content)
        PROVE  /\ Only(p, {"trees", "data", "tokens", "bag"})
               /\ \E chunk \in ChunkIds : mem'[p].data = WithChunk(mem[p].data, chunk)
    <3>1. PICK b \in Bags, blobs \in Seq(Contents) : PutsIn(p, content, b, blobs) /\ Len(blobs) \in 1 .. BagSize
      BY <2>1, Putting DEF BagsFit, BagFits
    <3>. QED
      BY <2>1, <3>1, put_chunk_content_effect
  <2>2. ASSUME NEW chunk \in ChunkIds, use_chunk(p, chunk, content)
        PROVE  /\ Only(p, {"trees", "data", "tokens", "bag"})
               /\ mem'[p].data = WithChunk(mem[p].data, chunk)
    BY <2>2, use_chunk_effect DEF Only, Fields
  <2>. QED
    BY <2>1, <2>2
<1>3. PICK chunk \in ChunkIds : mem'[p].data = WithChunk(mem[p].data, chunk)
  BY <1>2
<1>4. mem[p].data # << >> => mem'[p].data # << >>
  <2>1. DOMAIN mem'[p].data = DOMAIN mem[p].data
    BY <1>3 DEF WithChunk
  <2>2. mem'[p].data \in Generations
    BY <1>1, <1>3, WithChunkIs
  <2>3. mem[p].data \in Seq(SUBSET ChunkIds) /\ mem'[p].data \in Seq(SUBSET ChunkIds)
    BY <1>1, <2>2 DEF Generations
  <2>. QED
    BY <2>1, <2>3
<1>5. /\ OnlyOf(p) /\ mem'[p].held = mem[p].held /\ mem'[p].finder = mem[p].finder
      /\ mem'[p].pc = mem[p].pc
  BY <1>2 DEF Only, Fields
<1>. QED
  BY <1>1, <1>2, <1>4, <1>5 DEF Exact, HeldOnly, ExactStep

(* The steps of a forget.                                                  *)
LEMMA ForgetExact ==
  ASSUME Types, Holding, ListsGiven, Exactly, NEW p \in Procs,
         lock_next(p) \/ remove_generation(p) \/ unlock_everything(p) \/ unlock_next(p)
  PROVE  ExactStep(p)
<1>1. /\ Exact(p) /\ HeldFits(p)
      /\ \A n \in DOMAIN Listed(p) : Listed(p)[n] \in made
  BY ExactOf
<1>2. ASSUME lock_next(p) PROVE ExactStep(p)
  <2>1. mem[p].pc = "forget" /\ made' = made
    BY <1>2 DEF lock_next, At
  <2>2. PICK part \in NextParts(p) :
          /\ Only(p, {"pc", "names", "held", "promising", "finder"})
          /\ mem'[p].held = mem[p].held \cup {part}
          /\ mem'[p].pc = (IF part = IndexPart THEN "choose" ELSE "forget")
          /\ mem'[p].finder = (IF mem[p].client \in DOMAIN Listed(p)
                                THEN Listed(p)[mem[p].client] ELSE None)
    BY <1>2, lock_next_effect
  <2>3. /\ OnlyOf(p) /\ mem'[p].data = mem[p].data
    BY <2>2 DEF Only, Fields
  <2>4. mem'[p].finder = None \/ mem'[p].finder \in made
    BY <1>1, <2>2
  <2>5. CASE part = IndexPart
    <3>1. ListedDirs(p) \subseteq mem[p].held
      BY <2>5, PartsAre, PartsDiffer DEF NextParts
    <3>2. mem'[p].finder = None \/ mem'[p].finder \in mem'[p].held
      BY <2>2, <3>1 DEF ListedDirs
    <3>. QED
      BY <2>1, <2>2, <2>3, <2>4, <2>5, <3>2 DEF Exact, HeldOnly, ExactStep
  <2>6. CASE part # IndexPart
    BY <1>1, <2>1, <2>2, <2>3, <2>4, <2>6 DEF Exact, HeldOnly, ExactStep
  <2>. QED
    BY <2>5, <2>6
<1>3. ASSUME remove_generation(p) PROVE ExactStep(p)
  <2>1. mem[p].pc = "choose" /\ made' = made /\ mem[p].command = "forget"
    BY <1>1, <1>3 DEF remove_generation, At, disk, HeldFits, ForgetOnly
  <2>2. Only(p, {"pc", "data", "unused"}) /\ mem'[p].pc = "commit"
    BY <1>3, remove_generation_effect
  <2>3. /\ OnlyOf(p) /\ mem'[p].held = mem[p].held /\ mem'[p].finder = mem[p].finder
        /\ mem'[p].command = mem[p].command
    BY <2>2 DEF Only, Fields
  <2>. QED
    BY <1>1, <2>1, <2>2, <2>3 DEF Exact, HeldOnly, ExactStep
<1>4. ASSUME unlock_everything(p) PROVE ExactStep(p)
  <2>1. made' = made
    BY <1>4 DEF unlock_everything
  <2>2. Only(p, {"pc", "held", "names"}) /\ mem'[p].pc = "unlock clients"
    BY <1>4, unlock_everything_effect
  <2>3. OnlyOf(p) /\ mem'[p].finder = mem[p].finder
    BY <2>2 DEF Only, Fields
  <2>. QED
    BY <1>1, <2>1, <2>2, <2>3 DEF Exact, HeldOnly, ExactStep
<1>5. ASSUME unlock_next(p) PROVE ExactStep(p)
  <2>1. made' = made
    BY <1>5 DEF unlock_next
  <2>2. Only(p, {"pc", "names", "held"}) /\ mem'[p].pc \in {"exit", "unlock clients"}
    BY <1>5, unlock_next_effect
  <2>3. OnlyOf(p) /\ mem'[p].finder = mem[p].finder
    BY <2>2 DEF Only, Fields
  <2>. QED
    BY <1>1, <2>1, <2>2, <2>3 DEF Exact, HeldOnly, ExactStep
<1>. QED
  BY <1>2, <1>3, <1>4, <1>5

LEMMA ExactKept ==
  ASSUME Types, BagsFit, Holding, ListsGiven, Exactly, Next
  PROVE  Exactly'
<1>1. ASSUME NEW p \in Procs, Backup(p) PROVE ExactStep(p)
  <2>1. ASSUME NEW t \in mem[p].tokens, put_chunk_into_indexes(p, t[1], t[2]) PROVE ExactStep(p)
    <3>1. t \in ChunkIds \X Contents
      BY FieldsAre
    <3>2. t[1] \in ChunkIds /\ t[2] \in Contents
      BY <3>1
    <3>. QED
      BY <2>1, <3>2, WorkExact
  <2>2. ASSUME NEW c \in Contents, put_chunk_content(p, c) \/ \E chunk \in ChunkIds : use_chunk(p, chunk, c)
        PROVE  ExactStep(p)
    BY <2>2, ChunksExact
  <2>3. CASE \/ find_client(p) \/ lock_client(p) \/ unlock_client(p)
             \/ lock_chunk_indexes(p) \/ unlock_initialised_indexes(p)
    BY <2>3, LockingExact
  <2>4. CASE create_generation(p) \/ flush_chunks(p)
    BY <2>4, WorkExact
  <2>5. CASE unlock_chunk_indexes(p) \/ walk_fails(p)
    BY <2>5, EndsExact
  <2>6. CASE add_client(p)
    BY <2>6, ListExact
  <2>. QED
    BY <1>1, <2>1, <2>2, <2>3, <2>4, <2>5, <2>6 DEF Backup
<1>2. ASSUME NEW p \in Procs, Forget(p) PROVE ExactStep(p)
  <2>1. ASSUME NEW chunk \in mem[p].unused, remove_chunk_from_indexes(p, chunk) PROVE ExactStep(p)
    <3>1. chunk \in ChunkIds
      BY FieldsAre
    <3>. QED
      BY <2>1, <3>1, WorkExact
  <2>. QED
    BY <1>2, <2>1, ForgetExact DEF Forget
<1>3. ASSUME NEW p \in Procs, ChangeList(p) \/ commit_client_list(p) \/ unlock_client_list(p) PROVE ExactStep(p)
  BY <1>3, ListExact DEF ChangeList
<1>4. ASSUME NEW p \in Procs, commit_client(p) \/ commit_chunk_indexes(p) PROVE ExactStep(p)
  BY <1>4, WorkExact
<1>5. ASSUME NEW p \in Procs,
             \/ \E n \in Names, command \in {"backup", "forget", "remove-client"} : lock_client_list(p, n, command)
             \/ call_fails(p) \/ give_up(p) \/ exit(p) \/ crash(p)
      PROVE  ExactStep(p)
  BY <1>5, EndsExact
<1>6. ASSUME NEW part \in Parts, force_lock(part) PROVE Exactly'
  BY <1>6 DEF force_lock, Exactly, Exact, HeldOnly
<1>. QED
  BY <1>1, <1>2, <1>3, <1>4, <1>5, <1>6, ExactAfter DEF Next

LEMMA ExactStarts == Init => Exactly
<1> SUFFICES ASSUME Init PROVE Exactly
  OBVIOUS
<1>1. \A p \in Procs : mem[p] = Idle
  BY DEF Init
<1>2. \A p \in Procs : mem[p].pc = "idle" /\ mem[p].held = {} /\ mem[p].finder = None
  BY <1>1 DEF Idle
<1>. QED
  BY <1>2 DEF Exactly, Exact, HeldOnly

-----------------------------------------------------------------------------
(* Holders and copies                                                      *)

(* The holder of a part is the process that has locked it, if any.         *)
Owned ==
  \A part \in Parts :
    /\ part \notin locks => Holder(part) = Nobody
    /\ \A p \in Procs : Holder(part) = p <=> part \in mem[p].held
    /\ part \in locks /\ (\A p \in Procs : part \notin mem[p].held) => Holder(part) = Dead
    /\ Holder(part) \in Procs \cup {Nobody, Dead}

LEMMA Owning == Holding => Owned
<1> SUFFICES ASSUME Holding, NEW part \in Parts
             PROVE  /\ part \notin locks => Holder(part) = Nobody
                    /\ \A p \in Procs : Holder(part) = p <=> part \in mem[p].held
                    /\ part \in locks /\ (\A p \in Procs : part \notin mem[p].held) => Holder(part) = Dead
                    /\ Holder(part) \in Procs \cup {Nobody, Dead}
  BY DEF Owned
<1>1. \A p \in Procs : part \in mem[p].held => part \in locks
  BY DEF Holding
<1>2. \A p, q \in Procs : part \in mem[p].held /\ part \in mem[q].held => p = q
  BY DEF Holding
<1>3. CASE part \notin locks
  BY <1>1, <1>3, HolderAssumption DEF Holder
<1>4. CASE part \in locks /\ \A p \in Procs : part \notin mem[p].held
  BY <1>4, HolderAssumption DEF Holder, Abandoned
<1>5. ASSUME NEW p \in Procs, part \in mem[p].held
      PROVE  Holder(part) = p
  <2>1. Holder(part) = CHOOSE q \in Procs : part \in mem[q].held
    BY <1>1, <1>5 DEF Holder, Abandoned
  <2> DEFINE h == CHOOSE q \in Procs : part \in mem[q].held
  <2>2. h \in Procs /\ part \in mem[h].held
    BY <1>5
  <2>. QED
    BY <1>2, <1>5, <2>1, <2>2
<1>. QED
  BY <1>1, <1>2, <1>3, <1>4, <1>5

HH == [part \in Parts |-> Holder(part)]

LEMMA OwningThen == Holding' => Owned'
  BY Owning, PTL

LEMMA SameHolder ==
  ASSUME Owned, Owned', NEW x \in Parts, x \in locks <=> x \in locks',
         \A q \in Procs : x \in mem[q].held <=> x \in mem'[q].held
  PROVE  Holder(x)' = Holder(x)
<1>1. CASE x \notin locks
  BY <1>1 DEF Owned
<1>2. ASSUME NEW q \in Procs, x \in mem[q].held PROVE Holder(x)' = Holder(x)
  BY <1>2 DEF Owned
<1>3. CASE x \in locks /\ \A q \in Procs : x \notin mem[q].held
  BY <1>3 DEF Owned
<1>. QED
  BY <1>1, <1>2, <1>3

LEMMA Locked ==
  ASSUME Holding, Holding', NEW p \in Procs, OnlyOf(p), NEW part \in Parts, part \notin locks,
         locks' = locks \cup {part}, mem'[p].held = mem[p].held \cup {part}
  PROVE  HH[part] = Nobody /\ HH' = [HH EXCEPT ![part] = p]
<1>1. Owned /\ Owned'
  BY Owning, OwningThen
<1>2. Holder(part) = Nobody /\ Holder(part)' = p
  BY <1>1 DEF Owned
<1>3. \A q \in Procs : q # p => mem'[q] = mem[q]
  BY DEF OnlyOf
<1>4. ASSUME NEW x \in Parts, x # part PROVE Holder(x)' = Holder(x)
  BY <1>1, <1>3, <1>4, SameHolder
<1>. QED
  BY <1>2, <1>4 DEF HH

LEMMA Unlocked ==
  ASSUME Holding, Holding', NEW p \in Procs, OnlyOf(p), NEW part \in Parts, part \in mem[p].held,
         locks' = locks \ {part}, mem'[p].held = mem[p].held \ {part}
  PROVE  HH[part] = p /\ HH' = [HH EXCEPT ![part] = Nobody]
<1>1. Owned /\ Owned'
  BY Owning, OwningThen
<1>2. Holder(part) = p /\ Holder(part)' = Nobody
  BY <1>1 DEF Owned
<1>3. \A q \in Procs : q # p => mem'[q] = mem[q]
  BY DEF OnlyOf
<1>4. ASSUME NEW x \in Parts, x # part PROVE Holder(x)' = Holder(x)
  BY <1>1, <1>3, <1>4, SameHolder
<1>. QED
  BY <1>2, <1>4 DEF HH

LEMMA SameLocks ==
  ASSUME Holding, Holding', NEW p \in Procs, OnlyOf(p), locks' = locks, mem'[p].held = mem[p].held
  PROVE  HH' = HH
<1>1. Owned /\ Owned'
  BY Owning, OwningThen
<1>2. \A q \in Procs : mem'[q].held = mem[q].held
  BY DEF OnlyOf
<1>3. ASSUME NEW x \in Parts PROVE Holder(x)' = Holder(x)
  BY <1>1, <1>2, SameHolder
<1>. QED
  BY <1>3 DEF HH

(* What a process has of the parts it has locked.                          *)
CopiesOf(p) == [part \in mem[p].held |-> Copy(p, part)]
CC == [p \in Procs |-> CopiesOf(p)]

LEMMA CopyIs ==
  ASSUME NEW p \in Procs
  PROVE  /\ Copy(p, ListPart) = Listed(p) /\ Copy(p, ListPart)' = Listed(p)'
         /\ Copy(p, IndexPart) = mem[p].promising /\ Copy(p, IndexPart)' = mem'[p].promising
         /\ \A d \in Dirs :
              /\ Copy(p, d) = IF d = mem[p].finder THEN Data(p) ELSE clientRoot[d]
              /\ Copy(p, d)' = IF d = mem'[p].finder THEN Data(p)' ELSE clientRoot'[d]
  BY PartsDiffer DEF Copy

LEMMA CopyStays ==
  ASSUME NEW p \in Procs, NEW x \in Parts,
         x = ListPart => Listed(p)' = Listed(p),
         x = IndexPart => mem'[p].promising = mem[p].promising,
         x \in Dirs => mem'[p].finder = mem[p].finder /\ Data(p)' = Data(p) /\ clientRoot' = clientRoot
  PROVE  Copy(p, x)' = Copy(p, x)
  BY CopyIs DEF Parts

(* Only the holder of a part changes it on disk.                           *)
Apart(p) ==
  /\ listRoot' = listRoot \/ ListPart \in mem[p].held
  /\ \A d \in Dirs : clientRoot'[d] = clientRoot[d] \/ d \in mem[p].held

LEMMA OthersStay ==
  ASSUME Types, Holding, NEW p \in Procs, OnlyOf(p), Apart(p), NEW q \in Procs, q # p
  PROVE  CopiesOf(q)' = CopiesOf(q)
<1>1. mem'[q] = mem[q] /\ mem[q].held \cap mem[p].held = {} /\ mem[q].held \subseteq Parts
  BY FieldsAre DEF OnlyOf, Holding
<1>2. ASSUME NEW x \in mem[q].held PROVE Copy(q, x)' = Copy(q, x)
  <2>1. x \notin mem[p].held /\ x \in Parts
    BY <1>1, <1>2
  <2>2. x = ListPart => Listed(q)' = Listed(q)
    BY <1>1, <2>1 DEF Apart, Listed
  <2>3. x \in Dirs => clientRoot'[x] = clientRoot[x]
    BY <2>1 DEF Apart
  <2>4. x \in Dirs /\ x = mem[q].finder => Data(q)' = Data(q)
    BY <1>1, <2>3 DEF Data
  <2>. QED
    BY <1>1, <2>1, <2>2, <2>3, <2>4, CopyIs DEF Parts
<1>. QED
  BY <1>1, <1>2 DEF CopiesOf

LEMMA CopiesBecome ==
  ASSUME Types, Holding, NEW p \in Procs, OnlyOf(p), Apart(p)
  PROVE  CC' = [CC EXCEPT ![p] = CopiesOf(p)']
<1>1. \A q \in Procs : q # p => CopiesOf(q)' = CopiesOf(q)
  BY OthersStay
<1>. QED
  BY <1>1 DEF CC

-----------------------------------------------------------------------------
(* Steps of the interface                                                  *)

Without(f, x) == [y \in DOMAIN f \ {x} |-> f[y]]
Committed(part) ==
  IF part = ListPart THEN listRoot ELSE IF part = IndexPart THEN promised ELSE clientRoot[part]

Stays == UNCHANGED <<listRoot, made, clientRoot, promised>>

LEMMA IsLock ==
  ASSUME NEW p \in Procs, NEW part \in Parts, HH[part] = Nobody, part \in Dirs => part \in made,
         HH' = [HH EXCEPT ![part] = p], CC' = [CC EXCEPT ![p] = With(CC[p], part, Committed(part))], Stays
  PROVE  Interface!Next
<1>1. Interface!Lock(p, part)
  BY DEF Interface!Lock, Interface!With, Interface!Committed, HH, CC, CopiesOf, With, Committed, Stays
<1>. QED
  BY <1>1 DEF Interface!Next, Interface!Parts, Parts

LEMMA IsUnlock ==
  ASSUME NEW p \in Procs, NEW part \in Parts, HH[part] = p,
         HH' = [HH EXCEPT ![part] = Nobody], CC' = [CC EXCEPT ![p] = Without(CC[p], part)], Stays
  PROVE  Interface!Next
<1>1. Interface!Unlock(p, part)
  BY DEF Interface!Unlock, Interface!Without, Interface!Holds, HH, CC, CopiesOf, Without, Stays
<1>. QED
  BY <1>1 DEF Interface!Next, Interface!Parts, Parts

LEMMA IsCommit ==
  ASSUME NEW p \in Procs, NEW part \in Parts, HH[part] = p, HH' = HH, CC' = CC, made' = made,
         listRoot' = IF part = ListPart THEN CC[p][part] ELSE listRoot,
         promised' = IF part = IndexPart THEN CC[p][part] ELSE promised,
         clientRoot' = IF part \in Dirs THEN [clientRoot EXCEPT ![part] = CC[p][part]] ELSE clientRoot
  PROVE  Interface!Next
<1>1. Interface!Commit(p, part)
  BY DEF Interface!Commit, Interface!Holds, HH, CC, CopiesOf
<1>. QED
  BY <1>1 DEF Interface!Next, Interface!Parts, Parts

(* A change of a copy.                                                     *)
Changes(p, part, copy) ==
  /\ HH[part] = p /\ HH' = HH
  /\ CC' = [CC EXCEPT ![p][part] = copy]
  /\ UNCHANGED <<listRoot, clientRoot, promised>>

LEMMA IsForce ==
  ASSUME NEW part \in Parts, HH[part] = Dead, HH' = [HH EXCEPT ![part] = Nobody], CC' = CC, Stays
  PROVE  Interface!Next
<1>1. Interface!Force(part)
  BY DEF Interface!Force, HH, CC, CopiesOf, Stays
<1>. QED
  BY <1>1 DEF Interface!Next, Interface!Parts, Parts

LEMMA IsCrash ==
  ASSUME NEW p \in Procs, HH' = [part \in Parts |-> IF HH[part] = p THEN Dead ELSE HH[part]],
         CC' = [CC EXCEPT ![p] = << >>], Stays
  PROVE  Interface!Next
<1>1. Interface!Crash(p)
  BY DEF Interface!Crash, Interface!Holds, Interface!Parts, Parts, HH, CC, CopiesOf, Stays
<1>. QED
  BY <1>1 DEF Interface!Next

LEMMA IsStutter ==
  ASSUME HH' = HH, CC' = CC, Stays
  PROVE  UNCHANGED Interface!vars
  BY DEF Interface!vars, HH, CC, CopiesOf, Stays

(* What a step of p does to the locks and copies of the interface.         *)
LEMMA LockingIs ==
  ASSUME Types, Holding, Holding', NEW p \in Procs, OnlyOf(p), NEW part \in Parts, part \notin locks,
         locks' = locks \cup {part}, mem'[p].held = mem[p].held \cup {part},
         part \in Dirs => part \in made, Stays,
         Copy(p, part)' = Committed(part), \A x \in mem[p].held : Copy(p, x)' = Copy(p, x)
  PROVE  Interface!Next
<1>1. HH[part] = Nobody /\ HH' = [HH EXCEPT ![part] = p]
  BY Locked
<1>2. CC' = [CC EXCEPT ![p] = CopiesOf(p)']
  BY CopiesBecome DEF Stays, Apart
<1>3. CopiesOf(p)' = With(CC[p], part, Committed(part))
  <2>1. part \notin mem[p].held
    BY DEF Holding
  <2>. QED
    BY <2>1 DEF CC, CopiesOf, With
<1>. QED
  BY <1>1, <1>2, <1>3, IsLock

LEMMA UnlockingIs ==
  ASSUME Types, Holding, Holding', NEW p \in Procs, OnlyOf(p), NEW part \in Parts, part \in mem[p].held,
         locks' = locks \ {part}, mem'[p].held = mem[p].held \ {part}, Stays,
         \A x \in mem'[p].held : Copy(p, x)' = Copy(p, x)
  PROVE  Interface!Next
<1>1. HH[part] = p /\ HH' = [HH EXCEPT ![part] = Nobody]
  BY Unlocked
<1>2. CC' = [CC EXCEPT ![p] = CopiesOf(p)']
  BY CopiesBecome DEF Stays, Apart
<1>3. CopiesOf(p)' = Without(CC[p], part)
  BY DEF CC, CopiesOf, Without
<1>. QED
  BY <1>1, <1>2, <1>3, IsUnlock

LEMMA KeepingIs ==
  ASSUME Types, Holding, Holding', NEW p \in Procs, OnlyOf(p), Apart(p), locks' = locks,
         mem'[p].held = mem[p].held, \A x \in mem[p].held : Copy(p, x)' = Copy(p, x)
  PROVE  HH' = HH /\ CC' = CC
<1>1. CC' = [CC EXCEPT ![p] = CopiesOf(p)']
  BY CopiesBecome
<1>2. CopiesOf(p)' = CC[p]
  BY DEF CC, CopiesOf
<1>3. CC = [CC EXCEPT ![p] = CC[p]]
  BY DEF CC
<1>. QED
  BY <1>1, <1>2, <1>3, SameLocks

LEMMA ChangingIs ==
  ASSUME Types, Holding, Holding', NEW p \in Procs, OnlyOf(p), NEW part \in mem[p].held, locks' = locks,
         mem'[p].held = mem[p].held, UNCHANGED <<listRoot, clientRoot, promised>>,
         \A x \in mem[p].held \ {part} : Copy(p, x)' = Copy(p, x), NEW copy, Copy(p, part)' = copy
  PROVE  Changes(p, part, copy)
<1>1. HH' = HH /\ HH[part] = p
  <2>1. Owned /\ part \in Parts
    BY Owning, FieldsAre
  <2>. QED
    BY <2>1, SameLocks DEF Owned, HH
<1>2. CC' = [CC EXCEPT ![p] = CopiesOf(p)']
  BY CopiesBecome DEF Apart
<1>3. CopiesOf(p)' = [CC[p] EXCEPT ![part] = copy]
  BY DEF CC, CopiesOf
<1>. QED
  BY <1>1, <1>2, <1>3 DEF Changes

LEMMA DyingIs ==
  ASSUME Types, Holding, Holding', NEW p \in Procs, OnlyOf(p), locks' = locks, mem'[p].held = {}, Stays
  PROVE  Interface!Next
<1>1. Owned /\ Owned'
  BY Owning, OwningThen
<1>2. ASSUME NEW x \in Parts PROVE Holder(x)' = IF Holder(x) = p THEN Dead ELSE Holder(x)
  <2>1. CASE x \in mem[p].held
    <3>1. x \in locks' /\ \A q \in Procs : x \notin mem'[q].held
      BY <2>1 DEF OnlyOf, Holding
    <3>. QED
      BY <1>1, <2>1, <3>1 DEF Owned
  <2>2. CASE x \notin mem[p].held
    <3>1. \A q \in Procs : x \in mem[q].held <=> x \in mem'[q].held
      BY <2>2 DEF OnlyOf
    <3>. QED
      BY <1>1, <2>2, <3>1, SameHolder DEF Owned
  <2>. QED
    BY <2>1, <2>2
<1>3. HH' = [part \in Parts |-> IF HH[part] = p THEN Dead ELSE HH[part]]
  BY <1>2 DEF HH
<1>4. CC' = [CC EXCEPT ![p] = CopiesOf(p)']
  BY CopiesBecome DEF Stays, Apart
<1>5. CopiesOf(p)' = << >>
  <2>1. CopiesOf(p)' = [x \in {} |-> Copy(p, x)']
    BY DEF CopiesOf
  <2>. QED
    BY <2>1
<1>. QED
  BY <1>3, <1>4, <1>5, IsCrash

LEMMA IsAddClient ==
  ASSUME NEW p \in Procs, NEW n \in Names, NEW id \in Dirs,
         id \notin made, made' = made \cup {id}, n \notin DOMAIN CC[p][ListPart],
         NEW copy, copy = With(CC[p][ListPart], n, id), Changes(p, ListPart, copy)
  PROVE  Interface!Next
<1>1. Interface!AddClient(p, n)
  BY DEF Interface!AddClient, Interface!Change, Interface!Holds, Changes, HH, CC, CopiesOf,
         Interface!With, With
<1>. QED
  BY <1>1 DEF Interface!Next

LEMMA IsRemoveClient ==
  ASSUME NEW p \in Procs, NEW n \in Names,
         made' = made, n \in DOMAIN CC[p][ListPart],
         NEW copy, copy = Without(CC[p][ListPart], n), Changes(p, ListPart, copy)
  PROVE  Interface!Next
<1>1. Interface!RemoveClient(p, n)
  BY DEF Interface!RemoveClient, Interface!Change, Interface!Holds, Changes, HH, CC, CopiesOf,
         Interface!Without, Without
<1>. QED
  BY <1>1 DEF Interface!Next

LEMMA IsRenameClient ==
  ASSUME NEW p \in Procs, NEW old \in Names, NEW new \in Names,
         made' = made, old \in DOMAIN CC[p][ListPart], new \notin DOMAIN CC[p][ListPart],
         NEW copy, copy = With(Without(CC[p][ListPart], old), new, CC[p][ListPart][old]), Changes(p, ListPart, copy)
  PROVE  Interface!Next
<1>1. Interface!RenameClient(p, old, new)
  BY DEF Interface!RenameClient, Interface!Change, Interface!Holds, Changes, HH, CC, CopiesOf,
         Interface!With, With, Interface!Without, Without
<1>. QED
  BY <1>1 DEF Interface!Next

LEMMA IsCreateGeneration ==
  ASSUME NEW p \in Procs, NEW id \in Dirs,
         made' = made,
         NEW copy, copy = NewGeneration(CC[p][id]), Changes(p, id, copy)
  PROVE  Interface!Next
<1>1. Interface!CreateGeneration(p, id)
  BY DEF Interface!CreateGeneration, Interface!Change, Interface!Holds, Changes, HH, CC, CopiesOf, NewGeneration, Last
<1>. QED
  BY <1>1 DEF Interface!Next

LEMMA IsAppendFileChunkId ==
  ASSUME NEW p \in Procs, NEW id \in Dirs, NEW chunk \in ChunkIds,
         made' = made, CC[p][id] # << >>,
         NEW copy, copy = WithChunk(CC[p][id], chunk), Changes(p, id, copy)
  PROVE  Interface!Next
<1>1. Interface!AppendFileChunkId(p, id, chunk)
  BY DEF Interface!AppendFileChunkId, Interface!Change, Interface!Holds, Changes, HH, CC, CopiesOf, WithChunk
<1>. QED
  BY <1>1 DEF Interface!Next

(* A generation taken out of a sequence of them.                           *)
Removed(gens, i) == [j \in 1 .. (Len(gens) - 1) |-> gens[IF j < i THEN j ELSE j + 1]]

LEMMA IsRemoveGeneration ==
  ASSUME NEW p \in Procs, NEW id \in Dirs, NEW i \in DOMAIN CC[p][id],
         made' = made,
         NEW copy, copy = Removed(CC[p][id], i), Changes(p, id, copy)
  PROVE  Interface!Next
<1>1. Interface!RemoveGeneration(p, id)
  BY DEF Interface!RemoveGeneration, Interface!Change, Interface!Holds, Changes, HH, CC, CopiesOf, Removed
<1>. QED
  BY <1>1 DEF Interface!Next

LEMMA IsPutChunk ==
  ASSUME NEW p \in Procs, NEW chunk \in ChunkIds, NEW token \in Contents, NEW n \in Names,
         made' = made,
         NEW copy, copy = CC[p][IndexPart] \cup {<<chunk, token, n>>}, Changes(p, IndexPart, copy)
  PROVE  Interface!Next
<1>1. Interface!PutChunkIntoIndexes(p, chunk, token, n)
  BY DEF Interface!PutChunkIntoIndexes, Interface!Change, Interface!Holds, Changes, HH, CC, CopiesOf
<1>. QED
  BY <1>1 DEF Interface!Next

LEMMA IsRemoveChunk ==
  ASSUME NEW p \in Procs, NEW chunk \in ChunkIds, NEW n \in Names,
         made' = made,
         NEW copy, copy = {u \in CC[p][IndexPart] : u[1] # chunk \/ u[3] # n}, Changes(p, IndexPart, copy)
  PROVE  Interface!Next
<1>1. Interface!RemoveChunkFromIndexes(p, chunk, n)
  BY DEF Interface!RemoveChunkFromIndexes, Interface!Change, Interface!Holds, Changes, HH, CC, CopiesOf
<1>. QED
  BY <1>1 DEF Interface!Next

LEMMA RemoveAtIs ==
  ASSUME NEW S, NEW list \in Seq(S), NEW i \in DOMAIN list
  PROVE  RemoveAt(list, i) = Removed(list, i)
<1>1. i \in 1 .. Len(list) /\ Len(list) \in Nat
  OBVIOUS
<1> DEFINE l == SubSeq(list, 1, i - 1)
           r == SubSeq(list, i + 1, Len(list))
<1>2. l \in Seq(S) /\ Len(l) = i - 1 /\ \A j \in 1 .. (i - 1) : l[j] = list[j]
  BY <1>1
<1>3. /\ r \in Seq(S) /\ Len(r) = Len(list) - i
      /\ \A j \in 1 .. (Len(list) - i) : r[j] = list[i + j]
  BY <1>1
<1>4. RemoveAt(list, i) = l \o r
  BY DEF RemoveAt
<1> HIDE DEF l, r
<1> DEFINE w == l \o r
<1>5. /\ w \in Seq(S) /\ Len(w) = Len(l) + Len(r)
      /\ \A j \in 1 .. (Len(l) + Len(r)) : w[j] = IF j <= Len(l) THEN l[j] ELSE r[j - Len(l)]
  BY <1>2, <1>3, ConcatIs
<1>6. Len(l) = i - 1 /\ Len(l) + Len(r) = Len(list) - 1
  BY <1>1, <1>2, <1>3
<1> HIDE DEF w
<1>7. w = [j \in 1 .. (Len(list) - 1) |-> w[j]]
  <2>1. DOMAIN w = 1 .. (Len(list) - 1)
    BY <1>5, <1>6
  <2>2. w = [j \in DOMAIN w |-> w[j]]
    BY <1>5
  <2>. QED
    BY <2>1, <2>2
<1>8. ASSUME NEW j \in 1 .. (Len(list) - 1) PROVE w[j] = list[IF j < i THEN j ELSE j + 1]
  <2>1. CASE j < i
    <3>1. j \in 1 .. (i - 1) /\ j <= Len(l)
      BY <1>1, <1>6, <2>1
    <3>. QED
      BY <1>2, <1>5, <1>6, <2>1, <3>1
  <2>2. CASE ~(j < i)
    <3>1. j - (i - 1) \in 1 .. (Len(list) - i) /\ i + (j - (i - 1)) = j + 1 /\ ~(j <= Len(l))
      BY <1>1, <1>6, <2>2
    <3>. QED
      BY <1>3, <1>5, <1>6, <2>2, <3>1
  <2>. QED
    BY <2>1, <2>2
<1>. QED
  BY <1>4, <1>7, <1>8 DEF w, Removed
-----------------------------------------------------------------------------
(* The actions as steps of the interface                                   *)

Refines == Interface!Next \/ UNCHANGED Interface!vars

LEMMA Loaded ==
  /\ \A f \in Lists : f # NotLoaded
  /\ \A gens \in Generations : gens # NotLoaded
<1>1. ASSUME NEW f \in Lists PROVE f # NotLoaded
  BY NoneAssumption DEF Lists
<1>. QED
  BY <1>1, NoneAssumption DEF Generations

(* What is in memory after a step.                                         *)
LEMMA MemoryThen ==
  ASSUME NEW p \in Procs
  PROVE  /\ Listed(p)' = IF mem'[p].names = NotLoaded THEN listRoot' ELSE mem'[p].names
         /\ Data(p)' = IF mem'[p].data = NotLoaded THEN clientRoot'[mem'[p].finder] ELSE mem'[p].data
  BY DEF Listed, Data

LEMMA ListSteps ==
  ASSUME Types, Holding, Holding', Exactly, ListsGiven, NEW p \in Procs,
         add_client(p) \/ remove_client(p) \/ \E new \in Names : rename_client(p, new)
  PROVE  Refines
<1>1. mem[p].pc \in {"backup", "remove-client"} /\ locks' = locks /\ UNCHANGED <<listRoot, clientRoot, promised>>
  BY DEF add_client, remove_client, rename_client, At, disk
<1>2. Only(p, {"pc", "names"})
  BY add_client_effect, remove_client_effect, rename_client_effect
<1>3. OnlyOf(p) /\ mem'[p].held = mem[p].held
  BY <1>2 DEF Only, Fields
<1>4. mem[p].held = {ListPart} /\ mem[p].client \in Names
  <2>1. Exact(p) /\ HeldFits(p)
    BY ExactOf
  <2>. QED
    BY <1>1, <2>1, CopiesAre DEF Exact, HeldOnly, HeldFits, ListLocked
<1>5. CC[p][ListPart] = Listed(p)
  BY <1>4, CopyIs DEF CC, CopiesOf
<1>6. ASSUME NEW copy \in Lists, mem'[p].names = copy PROVE Changes(p, ListPart, copy)
  <2>1. Copy(p, ListPart)' = copy
    BY <1>6, CopyIs, Loaded, MemoryThen
  <2>. QED
    BY <1>1, <1>3, <1>4, <2>1, ChangingIs
<1>7. ASSUME add_client(p), mem[p].client \in DOMAIN Listed(p) PROVE Refines
  <2>1. mem'[p].names = Listed(p) /\ made' = made
    BY <1>7, TypesOf DEF add_client, Types, Memory
  <2>2. \A x \in mem[p].held : Copy(p, x)' = Copy(p, x)
    BY <1>4, <2>1, CopyIs, ListedIs, Loaded, MemoryThen
  <2>3. HH' = HH /\ CC' = CC
    BY <1>1, <1>3, <2>2, KeepingIs DEF Apart
  <2>. QED
    BY <1>1, <2>1, <2>3, IsStutter DEF Refines, Stays
<1>8. ASSUME add_client(p), mem[p].client \notin DOMAIN Listed(p) PROVE Refines
  <2>1. PICK d \in Dirs \ made :
          made' = made \cup {d} /\ mem'[p].names = WithName(Listed(p), mem[p].client, d)
    <3>1. PICK d \in Dirs \ made :
            /\ made' = made \cup {d}
            /\ mem' = [mem EXCEPT ![p] = [mem[p] EXCEPT !.pc = "list changed",
                                                        !.names = WithName(Listed(p), mem[p].client, d)]]
      BY <1>8, TypesOf DEF add_client, Types, Memory
    <3>2. mem'[p].names = WithName(Listed(p), mem[p].client, d)
      BY <3>1, TypesOf DEF Types, Memory
    <3>. QED
      BY <3>1, <3>2
  <2>2. PICK copy \in Lists : copy = WithName(Listed(p), mem[p].client, d)
    BY <1>4, ListedIs, ListsAre
  <2>3. Changes(p, ListPart, copy)
    BY <1>6, <2>1, <2>2
  <2>4. copy = With(CC[p][ListPart], mem[p].client, d)
    BY <1>5, <2>2 DEF With, WithName
  <2>. QED
    BY <1>4, <1>5, <1>8, <2>1, <2>3, <2>4, IsAddClient DEF Refines
<1>9. ASSUME remove_client(p) PROVE Refines
  <2>1. /\ mem[p].client \in DOMAIN Listed(p) /\ mem'[p].names = Others(p)
        /\ made' = made
    BY <1>9, remove_client_effect DEF remove_client, disk
  <2>2. PICK copy \in Lists : copy = Others(p)
    BY OthersIs
  <2>3. Changes(p, ListPart, copy)
    BY <1>6, <2>1, <2>2
  <2>4. copy = Without(CC[p][ListPart], mem[p].client)
    BY <1>5, <2>2 DEF Without, Others, Restricted
  <2>. QED
    BY <1>4, <1>5, <2>1, <2>3, <2>4, IsRemoveClient DEF Refines
<1>10. ASSUME NEW new \in Names, rename_client(p, new) PROVE Refines
  <2>1. /\ mem[p].client \in DOMAIN Listed(p) /\ new \notin DOMAIN Listed(p)
        /\ mem'[p].names = WithName(Others(p), new, Listed(p)[mem[p].client])
        /\ made' = made
    BY <1>10, rename_client_effect DEF rename_client, disk
  <2>2. PICK copy \in Lists : copy = WithName(Others(p), new, Listed(p)[mem[p].client])
    BY <2>1, OthersIs, ListedIs
  <2>3. Changes(p, ListPart, copy)
    BY <1>6, <2>1, <2>2
  <2>4. copy = With(Without(CC[p][ListPart], mem[p].client), new, CC[p][ListPart][mem[p].client])
    BY <1>5, <2>2 DEF Without, With, WithName, Others, Restricted
  <2>. QED
    BY <1>4, <1>5, <2>1, <2>3, <2>4, IsRenameClient DEF Refines
<1>. QED
  BY <1>7, <1>8, <1>9, <1>10

LEMMA ListLocks ==
  ASSUME Types, Holding, Holding', Exactly, ListsGiven, NEW p \in Procs,
         \/ commit_client_list(p) \/ unlock_client_list(p)
         \/ \E n \in Names, command \in {"backup", "forget", "remove-client"} : lock_client_list(p, n, command)
  PROVE  Refines
<1>1. Exact(p) /\ HeldFits(p)
  BY ExactOf
<1>2. ASSUME commit_client_list(p) PROVE Refines
  <2>1. /\ mem[p].pc = "list changed" /\ listRoot' = Listed(p) /\ locks' = locks
        /\ UNCHANGED <<made, clientRoot, promised>>
    BY <1>2 DEF commit_client_list, At
  <2>2. Only(p, {"pc"})
    BY <1>2, commit_client_list_effect
  <2>3. OnlyOf(p) /\ mem'[p].held = mem[p].held /\ mem'[p].names = mem[p].names
    BY <2>2 DEF Only, Fields
  <2>4. mem[p].held = {ListPart}
    BY <1>1, <2>1 DEF Exact, HeldOnly, HeldFits, ListLocked
  <2>5. Listed(p)' = Listed(p)
    BY <2>1, <2>3, MemoryThen DEF Listed
  <2>6. HH' = HH /\ CC' = CC
    <3>1. \A x \in mem[p].held : Copy(p, x)' = Copy(p, x)
      BY <2>4, <2>5, CopyIs
    <3>2. Apart(p)
      BY <2>1, <2>4 DEF Apart
    <3>. QED
      BY <2>1, <2>3, <3>1, <3>2, KeepingIs
  <2>7. CC[p][ListPart] = Listed(p) /\ HH[ListPart] = p
    BY <2>4, CopyIs, Owning, PartsDiffer DEF CC, CopiesOf, HH, Owned
  <2>. QED
    BY <2>1, <2>6, <2>7, PartsDiffer, IsCommit DEF Refines
<1>3. ASSUME unlock_client_list(p) PROVE Refines
  <2>1. mem[p].pc = "list committed" /\ locks' = locks \ {ListPart} /\ Stays
    BY <1>3 DEF unlock_client_list, At, Stays
  <2>2. Only(p, {"pc", "held", "names"}) /\ mem'[p].held = {}
    BY <1>3, unlock_client_list_effect
  <2>3. OnlyOf(p)
    BY <2>2 DEF Only
  <2>4. mem[p].held = {ListPart}
    BY <1>1, <2>1 DEF Exact, HeldOnly, HeldFits, ListLocked
  <2>. QED
    BY <2>1, <2>2, <2>3, <2>4, PartsDiffer, UnlockingIs DEF Refines
<1>4. ASSUME NEW n \in Names, NEW command \in {"backup", "forget", "remove-client"}, lock_client_list(p, n, command)
      PROVE  Refines
  <2>1. mem[p].pc = "idle" /\ ListPart \notin locks /\ locks' = locks \cup {ListPart} /\ Stays
    BY <1>4 DEF lock_client_list, At, Stays, Free
  <2>2. OnlyOf(p) /\ mem'[p].names = NotLoaded /\ mem'[p].held = {ListPart}
    BY <1>4, lock_client_list_effect DEF Fresh
  <2>3. mem[p].held = {}
    BY <1>1, <2>1 DEF Exact, HeldOnly
  <2>4. Copy(p, ListPart)' = Committed(ListPart)
    BY <2>1, <2>2, CopyIs, MemoryThen DEF Committed, Stays
  <2>. QED
    BY <2>1, <2>2, <2>3, <2>4, PartsDiffer, LockingIs DEF Refines
<1>. QED
  BY <1>2, <1>3, <1>4

(* Steps that change neither locks nor copies.                             *)
LEMMA StutterSteps ==
  ASSUME Types, Holding, Holding', Exactly, ListsGiven, NEW p \in Procs,
         find_client(p) \/ flush_chunks(p) \/ call_fails(p) \/ walk_fails(p)
  PROVE  Refines
<1>1. Stays /\ locks' = locks
  BY DEF find_client, flush_chunks, call_fails, walk_fails, disk, Stays
<1>2. OnlyOf(p) /\ mem'[p].held = mem[p].held
  <2>1. \E F \in SUBSET {"names", "trees", "pc", "finder", "bag"} : Only(p, F)
    BY find_client_effect, flush_chunks_effect, call_fails_effect, walk_fails_effect
  <2>. QED
    BY <2>1 DEF Only, Fields
<1>3. ASSUME find_client(p) PROVE \A x \in mem[p].held : Copy(p, x)' = Copy(p, x)
  BY <1>3, ExactOf DEF find_client, At, Exact, HeldOnly
<1>4. ASSUME flush_chunks(p) \/ call_fails(p) \/ walk_fails(p)
      PROVE  \A x \in mem[p].held : Copy(p, x)' = Copy(p, x)
  <2>1. Only(p, {"pc", "bag"})
    BY <1>4, flush_chunks_effect, call_fails_effect, walk_fails_effect DEF Only, Fields
  <2>2. /\ mem'[p].names = mem[p].names /\ mem'[p].data = mem[p].data
        /\ mem'[p].finder = mem[p].finder /\ mem'[p].promising = mem[p].promising
    BY <2>1 DEF Only, Fields
  <2>3. Listed(p)' = Listed(p) /\ Data(p)' = Data(p) /\ clientRoot' = clientRoot
    BY <1>1, <2>2 DEF Listed, Data, Stays
  <2>. QED
    BY <2>2, <2>3, FieldsAre, CopyStays
<1>5. HH' = HH /\ CC' = CC
  BY <1>1, <1>2, <1>3, <1>4, KeepingIs DEF Apart, Stays
<1>. QED
  BY <1>1, <1>5, IsStutter DEF Refines

(* Steps that lock or unlock a client or the indexes.                      *)
LEMMA LockSteps ==
  ASSUME Types, Holding, Holding', Exactly, ListsGiven, NEW p \in Procs,
         \/ lock_client(p) \/ unlock_client(p) \/ lock_chunk_indexes(p) \/ unlock_initialised_indexes(p)
  PROVE  Refines
<1>1. Exact(p) /\ HeldFits(p) /\ mem[p].held \subseteq Parts
  BY ExactOf, FieldsAre
<1>2. ASSUME lock_client(p) PROVE Refines
  <2>1. /\ mem[p].pc = "found" /\ mem[p].finder \notin locks /\ locks' = locks \cup {mem[p].finder} /\ Stays
        /\ mem[p].finder \in Dirs
    BY <1>2, CopiesAre DEF lock_client, At, Stays, Free, WithFinder
  <2>2. Only(p, {"pc", "held", "data"}) /\ mem'[p].held = {mem[p].finder} /\ mem'[p].data = NotLoaded
    BY <1>2, lock_client_effect
  <2>3. OnlyOf(p) /\ mem'[p].finder = mem[p].finder
    BY <2>2 DEF Only, Fields
  <2>4. mem[p].held = {} /\ mem[p].finder \in made
    BY <1>1, <2>1, NoneAssumption DEF Exact, HeldOnly
  <2>5. Copy(p, mem[p].finder)' = Committed(mem[p].finder)
    BY <2>1, <2>2, <2>3, CopyIs, MemoryThen, PartsDiffer DEF Committed, Stays
  <2>. QED
    BY <2>1, <2>2, <2>3, <2>4, <2>5, PartsDiffer, LockingIs DEF Refines
<1>3. ASSUME unlock_client(p) PROVE Refines
  <2>1. /\ mem[p].pc = "unlock client" /\ locks' = locks \ {mem[p].finder} /\ Stays
        /\ mem[p].finder \in Dirs
    BY <1>3, CopiesAre DEF unlock_client, At, Stays, WithFinder
  <2>2. Only(p, {"pc", "held", "data"}) /\ mem'[p].held = mem[p].held \ {mem[p].finder}
    BY <1>3, unlock_client_effect
  <2>3. /\ OnlyOf(p) /\ mem'[p].finder = mem[p].finder /\ mem'[p].names = mem[p].names
        /\ mem'[p].promising = mem[p].promising
    BY <2>2 DEF Only, Fields
  <2>4. mem[p].finder \in mem[p].held
    BY <1>1, <2>1 DEF HeldFits, ClientLocked
  <2>5. ASSUME NEW x \in mem'[p].held PROVE Copy(p, x)' = Copy(p, x)
    <3>1. x \in Parts /\ x # mem[p].finder
      BY <1>1, <2>2, <2>5
    <3>2. Listed(p)' = Listed(p) /\ clientRoot' = clientRoot
      BY <2>1, <2>3 DEF Listed, Stays
    <3>3. CASE x \in Dirs
      BY <2>3, <3>1, <3>2, <3>3, CopyIs
    <3>4. CASE x \in {ListPart, IndexPart}
      BY <2>3, <3>2, <3>4, CopyIs
    <3>. QED
      BY <3>1, <3>3, <3>4 DEF Parts
  <2>. QED
    BY <1>1, <2>1, <2>2, <2>3, <2>4, <2>5, UnlockingIs DEF Refines
<1>4. ASSUME lock_chunk_indexes(p) PROVE Refines
  <2>1. IndexPart \notin locks /\ locks' = locks \cup {IndexPart} /\ Stays
    BY <1>4 DEF lock_chunk_indexes, Stays, Free
  <2>2. /\ Only(p, {"pc", "held", "trees", "promising"}) /\ mem'[p].held = mem[p].held \cup {IndexPart}
        /\ mem'[p].promising = promised
    BY <1>4, lock_chunk_indexes_effect
  <2>3. /\ OnlyOf(p) /\ mem'[p].finder = mem[p].finder /\ mem'[p].names = mem[p].names
        /\ mem'[p].data = mem[p].data
    BY <2>2 DEF Only, Fields
  <2>4. Copy(p, IndexPart)' = Committed(IndexPart)
    BY <2>2, CopyIs, PartsDiffer DEF Committed
  <2>5. ASSUME NEW x \in mem[p].held PROVE Copy(p, x)' = Copy(p, x)
    <3>1. x \in Parts /\ x # IndexPart
      BY <1>1, <2>1, <2>5 DEF Holding
    <3>2. Listed(p)' = Listed(p) /\ Data(p)' = Data(p) /\ clientRoot' = clientRoot
      BY <2>1, <2>3 DEF Listed, Data, Stays
    <3>. QED
      BY <2>3, <3>1, <3>2, CopyStays
  <2>. QED
    BY <2>1, <2>2, <2>3, <2>4, <2>5, PartsDiffer, LockingIs DEF Refines
<1>5. ASSUME unlock_initialised_indexes(p) PROVE Refines
  <2>1. mem[p].pc = "initialised" /\ locks' = locks \ {IndexPart} /\ Stays
    BY <1>5 DEF unlock_initialised_indexes, At, Stays
  <2>2. Only(p, {"pc", "held", "trees", "promising"}) /\ mem'[p].held = mem[p].held \ {IndexPart}
    BY <1>5, unlock_initialised_indexes_effect
  <2>3. /\ OnlyOf(p) /\ mem'[p].finder = mem[p].finder /\ mem'[p].names = mem[p].names
        /\ mem'[p].data = mem[p].data
    BY <2>2 DEF Only, Fields
  <2>4. IndexPart \in mem[p].held
    BY <1>1, <2>1 DEF HeldFits, IndexesLocked
  <2>5. ASSUME NEW x \in mem'[p].held PROVE Copy(p, x)' = Copy(p, x)
    <3>1. x \in Parts /\ x # IndexPart
      BY <1>1, <2>2, <2>5
    <3>2. Listed(p)' = Listed(p) /\ Data(p)' = Data(p) /\ clientRoot' = clientRoot
      BY <2>1, <2>3 DEF Listed, Data, Stays
    <3>. QED
      BY <2>3, <3>1, <3>2, CopyStays
  <2>. QED
    BY <1>1, <2>1, <2>2, <2>3, <2>4, <2>5, UnlockingIs DEF Refines
<1>. QED
  BY <1>2, <1>3, <1>4, <1>5

(* The ends of commands.                                                   *)
LEMMA EndSteps ==
  ASSUME Types, Holding, Holding', Exactly, ListsGiven, NEW p \in Procs,
         unlock_chunk_indexes(p) \/ give_up(p) \/ exit(p) \/ crash(p)
  PROVE  Refines
<1>1. Exact(p) /\ HeldFits(p) /\ mem[p].held \subseteq Parts
  BY ExactOf, FieldsAre
<1>2. ASSUME unlock_chunk_indexes(p) PROVE Refines
  <2>1. mem[p].pc = "unlock indexes" /\ locks' = locks \ {IndexPart} /\ Stays
    BY <1>2 DEF unlock_chunk_indexes, At, Stays
  <2>2. OnlyOf(p) /\ mem'[p].held = {}
    BY <1>2, unlock_chunk_indexes_effect
  <2>3. mem[p].held = {IndexPart}
    BY <1>1, <2>1 DEF Exact, HeldOnly, HeldFits, IndexesLocked
  <2>. QED
    BY <2>1, <2>2, <2>3, PartsDiffer, UnlockingIs DEF Refines
<1>3. ASSUME exit(p) \/ crash(p) PROVE Refines
  <2>1. mem' = [mem EXCEPT ![p] = Idle] /\ locks' = locks /\ Stays
    BY <1>3 DEF exit, crash, disk, Stays
  <2>2. OnlyOf(p) /\ mem'[p].held = {}
    BY <2>1, exit_effect
  <2>. QED
    BY <2>1, <2>2, DyingIs DEF Refines
<1>4. ASSUME give_up(p) PROVE Refines
  <2>1. Stays
    BY <1>4 DEF give_up, Stays
  <2>2. /\ OnlyOf(p) /\ mem'[p].finder = mem[p].finder /\ mem'[p].names = mem[p].names
        /\ mem'[p].data = mem[p].data /\ mem'[p].promising = mem[p].promising
    BY <1>4, give_up_effect DEF Only, Fields
  <2>3. Listed(p)' = Listed(p) /\ Data(p)' = Data(p) /\ clientRoot' = clientRoot
    BY <2>1, <2>2 DEF Listed, Data, Stays
  <2>4. \A x \in mem[p].held : Copy(p, x)' = Copy(p, x)
    BY <1>1, <2>2, <2>3, CopyStays
  <2>5. CASE Only(p, {"pc"}) /\ mem'[p].pc = "exit" /\ locks' = locks
    <3>1. mem'[p].held = mem[p].held
      BY <2>5 DEF Only, Fields
    <3>2. HH' = HH /\ CC' = CC
      BY <2>1, <2>2, <2>4, <2>5, <3>1, KeepingIs DEF Apart, Stays
    <3>. QED
      BY <2>1, <3>2, IsStutter DEF Refines
  <2>6. ASSUME NEW part \in mem[p].held, mem'[p].held = mem[p].held \ {part}, locks' = locks \ {part}
        PROVE  Refines
    BY <1>1, <2>1, <2>2, <2>4, <2>6, UnlockingIs DEF Refines
  <2>. QED
    BY <1>4, <2>5, <2>6, give_up_effect
<1>. QED
  BY <1>2, <1>3, <1>4

LEMMA ForceStep ==
  ASSUME Types, Holding, Holding', NEW part \in Parts, force_lock(part)
  PROVE  Refines
<1>1. /\ mem' = mem /\ locks' = locks \ {part} /\ Stays /\ part \in locks
      /\ \A p \in Procs : part \notin mem[p].held
  BY DEF force_lock, Abandoned, Stays
<1>2. Owned /\ Owned'
  BY Owning, OwningThen
<1>3. Holder(part) = Dead /\ Holder(part)' = Nobody
  BY <1>1, <1>2 DEF Owned
<1>4. ASSUME NEW x \in Parts, x # part PROVE Holder(x)' = Holder(x)
  BY <1>1, <1>2, <1>4, SameHolder
<1>5. HH[part] = Dead /\ HH' = [HH EXCEPT ![part] = Nobody]
  BY <1>3, <1>4 DEF HH
<1>6. CC' = CC
  BY <1>1 DEF CC, CopiesOf, Copy, Listed, Data, Stays
<1>. QED
  BY <1>1, <1>5, <1>6, IsForce DEF Refines

(* Steps on the generations of the client.                                 *)
LEMMA DataChanges ==
  ASSUME Types, Holding, Holding', NEW p \in Procs, OnlyOf(p), locks' = locks, Stays,
         mem[p].finder \in Dirs, mem[p].finder \in mem[p].held, mem'[p].held = mem[p].held,
         mem'[p].names = mem[p].names, mem'[p].finder = mem[p].finder,
         mem'[p].promising = mem[p].promising, NEW copy \in Generations, mem'[p].data = copy
  PROVE  Changes(p, mem[p].finder, copy) /\ CC[p][mem[p].finder] = Data(p)
<1>1. Listed(p)' = Listed(p) /\ clientRoot' = clientRoot /\ Data(p)' = copy
  BY MemoryThen, Loaded DEF Listed, Stays
<1>2. PICK d \in Dirs : d = mem[p].finder
  OBVIOUS
<1>3. ASSUME NEW x \in mem[p].held \ {d} PROVE Copy(p, x)' = Copy(p, x)
  <2>1. x \in Parts /\ x # d
    BY <1>3, FieldsAre
  <2>2. CASE x \in Dirs
    BY <1>1, <1>2, <2>1, <2>2, CopyIs
  <2>3. CASE x \in {ListPart, IndexPart}
    BY <1>1, <2>3, CopyIs
  <2>. QED
    BY <2>1, <2>2, <2>3 DEF Parts
<1>4. Copy(p, d)' = copy /\ Copy(p, d) = Data(p)
  BY <1>1, <1>2, CopyIs
<1>5. Changes(p, d, copy)
  BY <1>2, <1>3, <1>4, ChangingIs DEF Stays
<1>. QED
  BY <1>2, <1>4, <1>5 DEF CC, CopiesOf

LEMMA create_generation_refines ==
  ASSUME Types, Holding, Holding', Exactly, ListsGiven, NEW p \in Procs, create_generation(p)
  PROVE  Refines
<1>1. mem[p].pc = "create" /\ locks' = locks /\ Stays
  BY DEF create_generation, At, disk, Stays
<1>2. mem[p].finder \in Dirs /\ Data(p) \in Generations /\ mem[p].finder \in mem[p].held
  BY <1>1, CopiesAre, ExactOf DEF WithFinder, HeldFits, ClientLocked
<1>3. Only(p, {"pc", "data"}) /\ mem'[p].data = NewGeneration(Data(p))
  BY create_generation_effect
<1>4. /\ OnlyOf(p) /\ mem'[p].held = mem[p].held /\ mem'[p].names = mem[p].names
      /\ mem'[p].finder = mem[p].finder /\ mem'[p].promising = mem[p].promising
  BY <1>3 DEF Only, Fields
<1>5. PICK copy \in Generations : copy = NewGeneration(Data(p))
  BY <1>2, NewGenerationIs
<1>6. Changes(p, mem[p].finder, copy) /\ CC[p][mem[p].finder] = Data(p)
  BY <1>1, <1>2, <1>3, <1>4, <1>5, DataChanges
<1>. QED
  BY <1>1, <1>2, <1>5, <1>6, IsCreateGeneration DEF Refines, Stays

LEMMA ChunkSteps ==
  ASSUME Types, BagsFit, Holding, Holding', Exactly, ListsGiven, NEW p \in Procs, NEW content \in Contents,
         put_chunk_content(p, content) \/ \E chunk \in ChunkIds : use_chunk(p, chunk, content)
  PROVE  Refines
<1>1. mem[p].pc = "walk" /\ locks' = locks /\ Stays
  BY DEF put_chunk_content, use_chunk, At, disk, Stays
<1>2. /\ mem[p].finder \in Dirs /\ mem[p].finder \in mem[p].held
      /\ mem[p].data \in Generations /\ mem[p].data # << >>
  BY <1>1, CopiesAre, TypesOf, ExactOf DEF WithFinder, HeldFits, ClientLocked, PcFits, At, Exact
<1>3. Data(p) = mem[p].data
  BY <1>2, Loaded DEF Data
<1>4. PICK chunk \in ChunkIds : mem'[p].data = WithChunk(mem[p].data, chunk)
  BY ChunksExact
<1>5. Only(p, {"trees", "data", "tokens", "bag"})
  BY ChunksExact
<1>6. /\ OnlyOf(p) /\ mem'[p].held = mem[p].held /\ mem'[p].names = mem[p].names
      /\ mem'[p].finder = mem[p].finder /\ mem'[p].promising = mem[p].promising
  BY <1>5 DEF Only, Fields
<1>7. PICK copy \in Generations : copy = WithChunk(mem[p].data, chunk)
  BY <1>2, WithChunkIs
<1>8. Changes(p, mem[p].finder, copy) /\ CC[p][mem[p].finder] = Data(p)
  BY <1>1, <1>2, <1>4, <1>6, <1>7, DataChanges
<1>. QED
  BY <1>1, <1>2, <1>3, <1>7, <1>8, IsAppendFileChunkId DEF Refines, Stays

LEMMA remove_generation_refines ==
  ASSUME Types, Holding, Holding', Exactly, ListsGiven, NEW p \in Procs, remove_generation(p)
  PROVE  Refines
<1>1. mem[p].pc = "choose" /\ mem[p].finder # None /\ locks' = locks /\ Stays
  BY DEF remove_generation, At, disk, Stays
<1>2. mem[p].finder \in Dirs /\ Data(p) \in Generations /\ mem[p].finder \in mem[p].held
  <2>1. mem[p].finder \in Dirs
    BY <1>1, FieldsAre
  <2>2. Exact(p) /\ HeldFits(p)
    BY ExactOf
  <2>. QED
    BY <1>1, <2>1, <2>2, CopiesAre DEF HeldFits, ForgetOnly, Exact
<1>3. PICK i \in DOMAIN Data(p) :
        Only(p, {"pc", "data", "unused"}) /\ mem'[p].data = RemoveAt(Data(p), i)
  BY remove_generation_effect
<1>4. /\ OnlyOf(p) /\ mem'[p].held = mem[p].held /\ mem'[p].names = mem[p].names
      /\ mem'[p].finder = mem[p].finder /\ mem'[p].promising = mem[p].promising
  BY <1>3 DEF Only, Fields
<1>5. PICK copy \in Generations : copy = RemoveAt(Data(p), i)
  BY <1>2, ShorterIs
<1>6. copy = Removed(Data(p), i)
  BY <1>2, <1>5, RemoveAtIs DEF Generations
<1>7. Changes(p, mem[p].finder, copy) /\ CC[p][mem[p].finder] = Data(p)
  BY <1>1, <1>2, <1>3, <1>4, <1>5, DataChanges
<1>. QED
  BY <1>1, <1>2, <1>6, <1>7, IsRemoveGeneration DEF Refines, Stays

LEMMA commit_client_refines ==
  ASSUME Types, Holding, Holding', Exactly, ListsGiven, NEW p \in Procs, commit_client(p)
  PROVE  Refines
<1>1. /\ mem[p].pc = "commit" /\ locks' = locks /\ UNCHANGED <<listRoot, made, promised>>
      /\ clientRoot' = [clientRoot EXCEPT ![mem[p].finder] = Data(p)]
  BY DEF commit_client, At
<1>2. mem[p].finder \in Dirs /\ Data(p) \in Generations /\ mem[p].finder \in mem[p].held
  <2>1. Exact(p) /\ HeldFits(p)
    BY ExactOf
  <2>2. mem[p].finder \in Dirs /\ Data(p) \in Generations
    BY <1>1, CopiesAre DEF WithFinder
  <2>. QED
    BY <1>1, <2>1, <2>2, NoneAssumption DEF HeldFits, Exact
<1>3. PICK d \in Dirs : d = mem[p].finder
  BY <1>2
<1>4. Only(p, {"data", "pc"}) /\ mem'[p].data = Data(p)
  BY commit_client_effect
<1>5. /\ OnlyOf(p) /\ mem'[p].held = mem[p].held /\ mem'[p].names = mem[p].names
      /\ mem'[p].finder = mem[p].finder /\ mem'[p].promising = mem[p].promising
  BY <1>4 DEF Only, Fields
<1>6. Listed(p)' = Listed(p) /\ Data(p)' = Data(p)
  BY <1>1, <1>2, <1>4, <1>5, Loaded, MemoryThen DEF Listed
<1>7. clientRoot \in [Dirs -> Generations]
  BY DEF Types, DiskTypes
<1>8. ASSUME NEW x \in mem[p].held PROVE Copy(p, x)' = Copy(p, x)
  <2>1. CASE x \in Dirs
    BY <1>1, <1>5, <1>6, <1>7, <2>1, CopyIs
  <2>2. CASE x \in {ListPart, IndexPart}
    BY <1>5, <1>6, <2>2, CopyIs
  <2>. QED
    BY <1>8, <2>1, <2>2, FieldsAre DEF Parts
<1>9. Apart(p)
  BY <1>1, <1>2, <1>7 DEF Apart
<1>10. HH' = HH /\ CC' = CC
  BY <1>1, <1>5, <1>8, <1>9, KeepingIs
<1>11. CC[p][d] = Data(p) /\ HH[d] = p
  BY <1>2, <1>3, CopyIs, Owning, PartsDiffer DEF CC, CopiesOf, HH, Owned
<1>12. clientRoot' = [clientRoot EXCEPT ![d] = CC[p][d]]
  BY <1>1, <1>3, <1>11
<1>. QED
  BY <1>1, <1>10, <1>11, <1>12, PartsDiffer, IsCommit DEF Refines

(* Steps on the indexes.                                                   *)
LEMMA PromiseChanges ==
  ASSUME Types, Holding, Holding', NEW p \in Procs, OnlyOf(p), locks' = locks, Stays,
         IndexPart \in mem[p].held, mem'[p].held = mem[p].held,
         mem'[p].names = mem[p].names, mem'[p].finder = mem[p].finder,
         mem'[p].data = mem[p].data, NEW copy, mem'[p].promising = copy
  PROVE  Changes(p, IndexPart, copy) /\ CC[p][IndexPart] = mem[p].promising
<1>1. Listed(p)' = Listed(p) /\ Data(p)' = Data(p) /\ clientRoot' = clientRoot
  BY DEF Listed, Data, Stays
<1>2. ASSUME NEW x \in mem[p].held \ {IndexPart} PROVE Copy(p, x)' = Copy(p, x)
  BY <1>1, <1>2, FieldsAre, CopyStays
<1>3. Copy(p, IndexPart)' = copy /\ Copy(p, IndexPart) = mem[p].promising
  BY CopyIs
<1>4. Changes(p, IndexPart, copy)
  BY <1>2, <1>3, ChangingIs DEF Stays
<1>. QED
  BY <1>3, <1>4 DEF CC, CopiesOf

LEMMA put_chunk_into_indexes_refines ==
  ASSUME Types, Holding, Holding', NEW p \in Procs,
         NEW chunk \in ChunkIds, NEW token \in Contents, put_chunk_into_indexes(p, chunk, token)
  PROVE  Refines
<1>1. mem[p].pc = "share" /\ locks' = locks /\ Stays
  BY DEF put_chunk_into_indexes, At, disk, Stays
<1>2. IndexPart \in mem[p].held /\ mem[p].client \in Names
  BY <1>1, CopiesAre DEF Holding, HeldFits, IndexesLocked
<1>3. /\ Only(p, {"trees", "tokens", "promising"})
      /\ mem'[p].promising = mem[p].promising \cup {<<chunk, token, mem[p].client>>}
  BY put_chunk_into_indexes_effect
<1>4. /\ OnlyOf(p) /\ mem'[p].held = mem[p].held /\ mem'[p].names = mem[p].names
      /\ mem'[p].finder = mem[p].finder /\ mem'[p].data = mem[p].data
  BY <1>3 DEF Only, Fields
<1>5. PICK copy : copy = mem[p].promising \cup {<<chunk, token, mem[p].client>>}
  OBVIOUS
<1>6. Changes(p, IndexPart, copy) /\ CC[p][IndexPart] = mem[p].promising
  BY <1>1, <1>2, <1>3, <1>4, <1>5, PromiseChanges
<1>. QED
  BY <1>1, <1>2, <1>5, <1>6, IsPutChunk DEF Refines, Stays

LEMMA remove_chunk_from_indexes_refines ==
  ASSUME Types, Holding, Holding', NEW p \in Procs,
         NEW chunk \in ChunkIds, remove_chunk_from_indexes(p, chunk)
  PROVE  Refines
<1>1. /\ mem[p].pc = "commit" /\ chunk \in mem[p].unused /\ locks' = locks /\ Stays
  BY DEF remove_chunk_from_indexes, At, disk, Stays
<1>2. IndexPart \in mem[p].held /\ mem[p].client \in Names
  BY <1>1, CopiesAre DEF Holding, HeldFits, IndexesLocked
<1>3. /\ Only(p, {"trees", "unused", "promising"})
      /\ mem'[p].promising = {u \in mem[p].promising : u[1] # chunk \/ u[3] # mem[p].client}
  BY remove_chunk_from_indexes_effect
<1>4. /\ OnlyOf(p) /\ mem'[p].held = mem[p].held /\ mem'[p].names = mem[p].names
      /\ mem'[p].finder = mem[p].finder /\ mem'[p].data = mem[p].data
  BY <1>3 DEF Only, Fields
<1>5. PICK copy : copy = {u \in mem[p].promising : u[1] # chunk \/ u[3] # mem[p].client}
  OBVIOUS
<1>6. Changes(p, IndexPart, copy) /\ CC[p][IndexPart] = mem[p].promising
  BY <1>1, <1>2, <1>3, <1>4, <1>5, PromiseChanges
<1>. QED
  BY <1>1, <1>2, <1>5, <1>6, IsRemoveChunk DEF Refines, Stays

LEMMA commit_chunk_indexes_refines ==
  ASSUME Types, Holding, Holding', NEW p \in Procs, commit_chunk_indexes(p)
  PROVE  Refines
<1>1. /\ mem[p].pc = "commit indexes" /\ locks' = locks /\ UNCHANGED <<listRoot, made, clientRoot>>
      /\ promised' = mem[p].promising
  BY DEF commit_chunk_indexes, At
<1>2. IndexPart \in mem[p].held
  BY <1>1 DEF Holding, HeldFits, IndexesLocked
<1>3. Only(p, {"trees", "pc"})
  BY commit_chunk_indexes_effect
<1>4. /\ OnlyOf(p) /\ mem'[p].held = mem[p].held /\ mem'[p].names = mem[p].names
      /\ mem'[p].finder = mem[p].finder /\ mem'[p].data = mem[p].data
      /\ mem'[p].promising = mem[p].promising
  BY <1>3 DEF Only, Fields
<1>5. Listed(p)' = Listed(p) /\ Data(p)' = Data(p)
  BY <1>1, <1>4 DEF Listed, Data
<1>6. \A x \in mem[p].held : Copy(p, x)' = Copy(p, x)
  BY <1>1, <1>4, <1>5, FieldsAre, CopyStays
<1>7. HH' = HH /\ CC' = CC
  BY <1>1, <1>4, <1>6, KeepingIs DEF Apart
<1>8. CC[p][IndexPart] = mem[p].promising /\ HH[IndexPart] = p
  BY <1>2, CopyIs, Owning, PartsDiffer DEF CC, CopiesOf, HH, Owned
<1>. QED
  BY <1>1, <1>7, <1>8, PartsDiffer, IsCommit DEF Refines

(* The steps of a forget that lock and unlock.                             *)
LEMMA lock_next_refines ==
  ASSUME Types, Holding, Holding', Exactly, ListsGiven, NEW p \in Procs, lock_next(p)
  PROVE  Refines
<1>1. mem[p].pc = "forget" /\ Stays
  BY DEF lock_next, At, Stays
<1>2. PICK part \in NextParts(p) :
        /\ Free(part) /\ locks' = locks \cup {part}
        /\ Only(p, {"pc", "names", "held", "promising", "finder"})
        /\ mem'[p].names = Listed(p)
        /\ mem'[p].held = mem[p].held \cup {part}
        /\ mem'[p].promising = (IF part = IndexPart THEN promised ELSE {})
  BY lock_next_effect
<1>3. /\ mem[p].held \subseteq Parts /\ IndexPart \notin mem[p].held /\ ListPart \in mem[p].held
      /\ mem[p].data = NotLoaded /\ Listed(p) \in Lists
  BY <1>1, ExactOf, FieldsAre, ListedIs DEF Exact, HeldFits, ListLocked
<1>4. part \in Parts /\ part \notin mem[p].held /\ part # ListPart /\ (part \in Dirs => part \in made)
  <2>1. part \in {IndexPart} \cup ListedDirs(p)
    BY DEF NextParts
  <2>2. ListedDirs(p) \subseteq Dirs \cap made
    BY PartsAre, ExactOf DEF ListedDirs
  <2>3. part \notin mem[p].held
    BY <1>2 DEF Free, Holding
  <2>. QED
    BY <2>1, <2>2, <2>3, PartsDiffer
<1>5. OnlyOf(p) /\ mem'[p].data = NotLoaded
  BY <1>2, <1>3 DEF Only, Fields
<1>6. Listed(p)' = Listed(p) /\ clientRoot' = clientRoot
  BY <1>1, <1>2, <1>3, Loaded, MemoryThen DEF Stays
<1>7. \A d \in Dirs : Copy(p, d) = clientRoot[d] /\ Copy(p, d)' = clientRoot[d]
  <2>1. Data(p) = clientRoot[mem[p].finder] /\ Data(p)' = clientRoot[mem'[p].finder]
    BY <1>3, <1>5, <1>6, MemoryThen DEF Data
  <2>. QED
    BY <1>6, <2>1, CopyIs
<1>8. \A x \in mem[p].held : Copy(p, x)' = Copy(p, x)
  BY <1>3, <1>6, <1>7, CopyIs DEF Parts
<1>9. Copy(p, part)' = Committed(part)
  <2>1. CASE part = IndexPart
    <3>1. Copy(p, IndexPart)' = promised
      BY <1>2, <2>1, CopyIs
    <3>. QED
      BY <2>1, <3>1, PartsDiffer DEF Committed
  <2>2. CASE part \in Dirs
    BY <1>7, <2>2, PartsDiffer DEF Committed
  <2>. QED
    BY <1>4, <2>1, <2>2 DEF Parts
<1>. QED
  BY <1>1, <1>2, <1>4, <1>5, <1>8, <1>9, LockingIs DEF Refines, Free

LEMMA UnlockSteps ==
  ASSUME Types, Holding, Holding', Exactly, ListsGiven, NEW p \in Procs,
         unlock_everything(p) \/ unlock_next(p)
  PROVE  Refines
<1>1. HeldFits(p) /\ mem[p].held \subseteq Parts /\ Stays
  BY ExactOf, FieldsAre DEF unlock_everything, unlock_next, Stays
<1>2. ASSUME unlock_everything(p) PROVE Refines
  <2>1. mem[p].pc = "choose" /\ locks' = locks \ {ListPart}
    BY <1>2 DEF unlock_everything, At
  <2>2. Only(p, {"pc", "held", "names"}) /\ mem'[p].held = mem[p].held \ {ListPart}
    BY <1>2, unlock_everything_effect
  <2>3. /\ OnlyOf(p) /\ mem'[p].finder = mem[p].finder /\ mem'[p].data = mem[p].data
        /\ mem'[p].promising = mem[p].promising
    BY <2>2 DEF Only, Fields
  <2>4. ListPart \in mem[p].held
    BY <1>1, <2>1 DEF HeldFits, ListLocked
  <2>5. Data(p)' = Data(p) /\ clientRoot' = clientRoot
    BY <1>1, <2>3 DEF Data, Stays
  <2>6. \A x \in mem'[p].held : Copy(p, x)' = Copy(p, x)
    BY <1>1, <2>2, <2>3, <2>5, CopyStays
  <2>. QED
    BY <1>1, <2>1, <2>2, <2>3, <2>4, <2>6, UnlockingIs DEF Refines
<1>3. ASSUME unlock_next(p) PROVE Refines
  <2>1. mem[p].pc = "unlock clients"
    BY <1>3 DEF unlock_next, At
  <2>2. PICK part \in (ListedDirs(p) \cap mem[p].held) \cup {IndexPart} :
          /\ locks' = locks \ {part}
          /\ Only(p, {"pc", "names", "held"})
          /\ mem'[p].names = Listed(p)
          /\ mem'[p].held = mem[p].held \ {part}
    BY <1>3, unlock_next_effect
  <2>3. /\ OnlyOf(p) /\ mem'[p].finder = mem[p].finder /\ mem'[p].data = mem[p].data
        /\ mem'[p].promising = mem[p].promising
    BY <2>2 DEF Only, Fields
  <2>4. part \in mem[p].held
    BY <1>1, <2>1, <2>2 DEF HeldFits, IndexesLocked
  <2>5. Listed(p)' = Listed(p) /\ Data(p)' = Data(p) /\ clientRoot' = clientRoot
    BY <1>1, <2>2, <2>3, ListedIs, Loaded, MemoryThen DEF Data, Stays
  <2>6. \A x \in mem'[p].held : Copy(p, x)' = Copy(p, x)
    BY <1>1, <2>2, <2>3, <2>5, CopyStays
  <2>. QED
    BY <1>1, <2>2, <2>3, <2>4, <2>6, UnlockingIs DEF Refines
<1>. QED
  BY <1>2, <1>3

LEMMA StepsRefine ==
  ASSUME Types, BagsFit, Holding, Holding', Exactly, ListsGiven, Next
  PROVE  Refines
<1>1. ASSUME NEW p \in Procs, Backup(p) PROVE Refines
  <2>1. ASSUME NEW t \in mem[p].tokens, put_chunk_into_indexes(p, t[1], t[2]) PROVE Refines
    <3>1. t \in ChunkIds \X Contents
      BY FieldsAre
    <3>2. t[1] \in ChunkIds /\ t[2] \in Contents
      BY <3>1
    <3>. QED
      BY <2>1, <3>2, put_chunk_into_indexes_refines
  <2>2. ASSUME NEW c \in Contents, put_chunk_content(p, c) \/ \E chunk \in ChunkIds : use_chunk(p, chunk, c)
        PROVE  Refines
    BY <2>2, ChunkSteps
  <2>3. CASE \/ lock_client(p) \/ unlock_client(p)
             \/ lock_chunk_indexes(p) \/ unlock_initialised_indexes(p)
    BY <2>3, LockSteps
  <2>4. CASE find_client(p) \/ flush_chunks(p) \/ walk_fails(p)
    BY <2>4, StutterSteps
  <2>5. CASE create_generation(p)
    BY <2>5, create_generation_refines
  <2>6. CASE unlock_chunk_indexes(p)
    BY <2>6, EndSteps
  <2>7. CASE add_client(p)
    BY <2>7, ListSteps
  <2>. QED
    BY <1>1, <2>1, <2>2, <2>3, <2>4, <2>5, <2>6, <2>7 DEF Backup
<1>2. ASSUME NEW p \in Procs, Forget(p) PROVE Refines
  <2>1. ASSUME NEW chunk \in mem[p].unused, remove_chunk_from_indexes(p, chunk) PROVE Refines
    <3>1. chunk \in ChunkIds
      BY FieldsAre
    <3>. QED
      BY <2>1, <3>1, remove_chunk_from_indexes_refines
  <2>. QED
    BY <1>2, <2>1, lock_next_refines, remove_generation_refines, UnlockSteps DEF Forget
<1>3. ASSUME NEW p \in Procs, ChangeList(p) PROVE Refines
  BY <1>3, ListSteps DEF ChangeList
<1>4. ASSUME NEW p \in Procs,
             \/ commit_client_list(p) \/ unlock_client_list(p)
             \/ \E n \in Names, command \in {"backup", "forget", "remove-client"} : lock_client_list(p, n, command)
      PROVE  Refines
  BY <1>4, ListLocks
<1>5. ASSUME NEW p \in Procs, commit_client(p) \/ commit_chunk_indexes(p) PROVE Refines
  BY <1>5, commit_client_refines, commit_chunk_indexes_refines
<1>6. ASSUME NEW p \in Procs, call_fails(p) PROVE Refines
  BY <1>6, StutterSteps
<1>7. ASSUME NEW p \in Procs, give_up(p) \/ exit(p) \/ crash(p) PROVE Refines
  BY <1>7, EndSteps
<1>8. ASSUME NEW part \in Parts, force_lock(part) PROVE Refines
  BY <1>8, ForceStep
<1>. QED
  BY <1>1, <1>2, <1>3, <1>4, <1>5, <1>6, <1>7, <1>8 DEF Next

LEMMA InitRefines == Init => Interface!Init
<1> SUFFICES ASSUME Init PROVE Interface!Init
  OBVIOUS
<1>1. \A p \in Procs : mem[p].held = {}
  BY DEF Init, Idle
<1>2. \A p \in Procs : [part \in mem[p].held |-> Copy(p, part)] = << >>
  BY <1>1
<1>3. \A part \in Parts : Holder(part) = Nobody
  BY DEF Init, Holder
<1>. QED
  BY <1>2, <1>3 DEF Init, Interface!Init, Interface!Parts, Parts

LEMMA SameRefines ==
  ASSUME UNCHANGED vars
  PROVE  UNCHANGED Interface!vars
<1>1. HH' = HH
  BY DEF vars, disk, HH, Holder, Abandoned
<1>2. CC' = CC
  BY DEF vars, disk, CC, CopiesOf, Copy, Listed, Data
<1>. QED
  BY <1>1, <1>2, IsStutter DEF vars, disk, Stays

LEMMA ExactAlways == Spec => [](Types /\ BagsFit /\ Holding /\ ListsGiven /\ Exactly)
<1>1. Types /\ BagsFit /\ Holding /\ ListsGiven /\ Exactly /\ [Next]_vars => Exactly'
  <2>1. CASE UNCHANGED vars
    BY <2>1 DEF vars, disk, Exactly, Exact, HeldOnly
  <2>2. CASE Next
    BY <2>2, ExactKept
  <2>. QED
    BY <2>1, <2>2
<1>. QED
  BY <1>1, ExactStarts, LocksAlways, PTL DEF Spec

(* The format implements the repository interface: whichever processes run *)
(* which commands and wherever they die, every call locks, unlocks,        *)
(* changes or commits a part as the interface says (repo_interface.py), or *)
(* changes nothing that it speaks of.                                      *)
THEOREM Implements == Spec => ImplementsInterface
<1>1. Types /\ BagsFit /\ Holding /\ Holding' /\ ListsGiven /\ Exactly /\ [Next]_vars
      => [Interface!Next]_(Interface!vars)
  <2>1. CASE UNCHANGED vars
    BY <2>1, SameRefines
  <2>2. ASSUME Types, BagsFit, Holding, Holding', ListsGiven, Exactly, Next
        PROVE  Refines
    BY <2>2, StepsRefine
  <2>. QED
    BY <2>1, <2>2 DEF Refines
<1>. QED
  BY <1>1, InitRefines, ExactAlways, PTL DEF Spec, ImplementsInterface, Interface!Spec
===============================================================================
