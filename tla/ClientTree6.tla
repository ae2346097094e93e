----------------------------- MODULE ClientTree6 -----------------------------
(***************************************************************************)
(* How format 6 keeps the files of one client: fmt_6/clientmetadatatree.py *)
(* and the methods of fmt_6/repo_fmt_6.py about generations and files, for *)
(* one process that locks the client, works and may die.                   *)
(*                                                                         *)
(* A generation is a B-tree, and a client is a forest of them (the larch   *)
(* library).  A tree is a map from keys to values; here it has one map for *)
(* each kind of key.  A file has a file id: names has the keys             *)
(* <<hash of the name, file id>>, and two names may have the same hash.    *)
(* Three things in memory can disagree with the trees: the file ids found  *)
(* so far (ClientMetadataTree.file_ids), the list of generations           *)
(* (_OpenClientInfo.cached_generation_ids) and the file keys of the file   *)
(* that is being worked on (_file_key_cache), which are written back when  *)
(* another file is worked on.                                              *)
(***************************************************************************)
EXTENDS Naturals, Sequences, SequencesExt, FiniteSetsExt

CONSTANTS
  Files, Root, Parent, Above, Chunks,  \* as in ClientFiles
  MetasOf,     \* MetasOf[f]: what the file keys of f can be
  Regular,     \* the names of regular files: only they have chunks
  HashOf,      \* HashOf[f]: default_file_id(f)
  Asked,       \* bound: the names whose keys are asked for
  Plain,       \* the metadata of a new file: Metadata()
  MaxChunks,   \* bound: chunks of a file
  MaxTrees     \* bound: generations created

ASSUME NamesAssumption ==
  /\ Root \in Files /\ Parent \in [Files -> Files] /\ Parent[Root] = Root
  /\ Above \in [Files -> SUBSET Files]
  /\ \A f \in Files : Above[f] = IF f = Root THEN {Root} ELSE {f} \cup Above[Parent[f]]
  /\ \A f \in Files : Plain \notin MetasOf[f]

Metas == UNION Range(MetasOf)

VARIABLES
  disk,    \* the committed trees, and the number of the last tree
  forest,  \* the opened forest, or Closed
  tree,    \* number of the tree that is being changed (self.tree), or 0
  ids,     \* file_ids: the known file ids of each tree
  info,    \* _OpenClientInfo: current_generation_number,
           \* cached_generation_ids, generations_removed
  keys,    \* _file_key_cache: the file keys of one file of one generation
  lock,    \* "free", "held" or "stale"
  removed  \* names removed since the generation was created

clientVars == <<disk, forest, tree, ids, info, keys, lock, removed>>

Closed == [number |-> 0, trees |-> << >>]
NoKeys == [generation |-> 0, file |-> Root, dirty |-> FALSE, meta |-> Plain]
NoInfo == [current |-> 0, listed |-> << >>, cached |-> FALSE, removed |-> FALSE]
NoIds  == [n \in 1 .. MaxTrees |-> << >>]

EmptyTree == [names |-> << >>, metas |-> << >>, entries |-> << >>,
              chunks |-> << >>, refs |-> {}]

With(f, k, v)  == [j \in DOMAIN f \cup {k} |-> IF j = k THEN v ELSE f[j]]
Without(f, ks) == [j \in DOMAIN f \ ks |-> f[j]]

(* The forest that is asked: init_forest opens it when it is needed.       *)
Opened == IF forest = Closed THEN disk ELSE forest

Position(trees, n) == CHOOSE i \in DOMAIN trees : trees[i].number = n
KeysOf(n)          == Opened.trees[Position(Opened.trees, n)].keys
Numbers(trees)     == [i \in DOMAIN trees |-> trees[i].number]

(* get_client_generation_ids: what has been listed is not listed again.    *)
Generations == IF info.cached THEN info.listed ELSE Numbers(Opened.trees)

-----------------------------------------------------------------------------
(* File ids: 64-bit random numbers.  A draw is a number nobody has, or one *)
(* that another name with the same hash has; other coincidences are left   *)
(* out.  A number nobody has is written as the name it is drawn for and a  *)
(* count: nothing but the equality of ids matters.                         *)

Bucket(t, f) == {key \in DOMAIN t.names : key[1] = HashOf[f]}
HasId(t, f)  == \E key \in Bucket(t, f) : t.names[key] = f
IdOf(t, f)   == (CHOOSE key \in Bucket(t, f) : t.names[key] = f)[2]

IdsIn(t) == {key[2] : key \in DOMAIN t.names}
UsedIds  == UNION ({IdsIn(forest.trees[i].keys) : i \in DOMAIN forest.trees}
                   \cup {Range(ids[n]) : n \in DOMAIN ids})

NewId(t, f) ==
  <<f, CHOOSE n \in 1 .. MaxTrees + 1 :
         /\ <<f, n>> \notin UsedIds \cup IdsIn(t)
         /\ \A m \in 1 .. n - 1 : <<f, m>> \in UsedIds \cup IdsIn(t)>>

(* set_file_id: the tree with an id for the name, one for each draw.       *)
set_file_id(t, f) ==
  IF HasId(t, f) THEN {t}
  ELSE LET taken == {key[2] : key \in Bucket(t, f)}
           draws == taken \cup {NewId(t, f)}
       IN  {[t EXCEPT !.names = With(@, <<HashOf[f], id>>, f)] : id \in draws \ taken}

(* get_file_id.  known are the file ids known of the tree, and a known     *)
(* name is not looked up.                                                  *)
Found(t, known, f)   == f \in DOMAIN known \/ HasId(t, f)
FoundId(t, known, f) == IF f \in DOMAIN known THEN known[f] ELSE IdOf(t, f)

(* What is known after names have been looked up: a lookup goes through    *)
(* the names with the same hash, in the order of their random ids, until   *)
(* it finds the name, and all of them become known.                        *)
NamesLike(t, f) == {t.names[key] : key \in Bucket(t, f)}

KnownAfter(t, known, fs) ==
  LET asked == fs \ DOMAIN known
      named == {f \in asked : HasId(t, f)}
      must  == named \cup UNION {NamesLike(t, f) : f \in asked \ named}
      may   == UNION {NamesLike(t, f) : f \in asked}
  IN  {[g \in DOMAIN known \cup must \cup more |->
          IF g \in must \cup more THEN IdOf(t, g) ELSE known[g]] : more \in SUBSET may}

(* file_exists and get_metadata.                                           *)
file_exists(t, known, f)  == Found(t, known, f) /\ FoundId(t, known, f) \in DOMAIN t.metas
get_metadata(t, known, f) == t.metas[FoundId(t, known, f)]

(* get_file_chunks, listdir, list_chunks_in_generation.                    *)
get_file_chunks(t, id) == IF id \in DOMAIN t.chunks THEN t.chunks[id] ELSE << >>
listdir(t, id) == {t.entries[key] : key \in {k \in DOMAIN t.entries : k[1] = id}}
list_chunks_in_generation(t) == {ref[1] : ref \in t.refs}

-----------------------------------------------------------------------------
(* Changes of a tree.                                                      *)

set_metadata(t, f, m) ==
  {[u EXCEPT !.metas = With(@, IdOf(u, f), m)] : u \in set_file_id(t, f)}

(* The second half of create: an entry in the directory.                   *)
AddToParent(t, f) ==
  IF f = Root THEN {t}
  ELSE {[u EXCEPT !.entries = With(@, <<IdOf(u, Parent[f]), IdOf(u, f)>>, f)] :
          u \in set_file_id(t, Parent[f])}

(* create, for a tree in which the file has an id: the old metadata is     *)
(* found by the known file id, the new one is set by the id in the tree.   *)
create(t, known, f, m) ==
  IF file_exists(t, known, f) /\ get_metadata(t, known, f) = m
  THEN AddToParent(t, f)
  ELSE UNION {AddToParent(u, f) : u \in set_metadata(t, f, m)}

(* The file ids of a file and of all below it: remove calls itself for     *)
(* each entry of the directory.                                            *)
Below(t, id) ==
  LET inside[depth \in 0 .. Cardinality(Files)] ==
        IF depth = 0 THEN {id}
        ELSE inside[depth - 1] \cup
             {key[2] : key \in {k \in DOMAIN t.entries : k[1] \in inside[depth - 1]}}
  IN  inside[Cardinality(Files)]

(* Faulty variant: only the file itself is removed, what is in it stays.   *)
FaultyTreeRemove(t, id) ==
  [ names   |-> Without(t.names, {key \in DOMAIN t.names : key[2] = id}),
    metas   |-> Without(t.metas, {id}),
    entries |-> Without(t.entries, {key \in DOMAIN t.entries : id \in {key[1], key[2]}}),
    chunks  |-> Without(t.chunks, {id}),
    refs    |-> t.refs \ {<<c, id>> : c \in ToSet(get_file_chunks(t, id))} ]

(* remove: of each file the references to its chunks, the keys of its id,  *)
(* its name, and its entry in the directory.                               *)
remove(t, id) ==
  LET gone == Below(t, id)
      refs == UNION {{<<c, i>> : c \in ToSet(get_file_chunks(t, i))} : i \in gone}
  IN  [ names   |-> Without(t.names, {key \in DOMAIN t.names : key[2] \in gone}),
        metas   |-> Without(t.metas, gone),
        entries |-> Without(t.entries, {key \in DOMAIN t.entries :
                                          key[1] \in gone \/ key[2] \in gone}),
        chunks  |-> Without(t.chunks, gone),
        refs    |-> t.refs \ refs ]

(* set_file_chunks with an empty list.                                     *)
set_file_chunks(t, f) ==
  LET id == IdOf(t, f)
  IN  [t EXCEPT !.refs = @ \ {<<c, id>> : c \in ToSet(get_file_chunks(t, id))},
                !.chunks = Without(@, {id})]

append_file_chunks(t, f, c) ==
  LET id == IdOf(t, f)
  IN  [t EXCEPT !.refs = @ \cup {<<c, id>>},
                !.chunks = With(@, id, Append(get_file_chunks(t, id), c))]

-----------------------------------------------------------------------------
(* The file key cache.                                                     *)

Cached(n, f) == keys.generation = n /\ keys.file = f

(* _flush_file_key_cache writes into the tree that is being changed,       *)
(* whatever generation the keys are of.                                    *)
Flushed(t) == IF keys.dirty THEN set_metadata(t, keys.file, keys.meta) ELSE {t}

(* The cache after the keys of a file have been set: if the file is not    *)
(* found, there is an exception.                                           *)
set_file_key(t, known, f, m) ==
  IF Cached(tree, f) \/ file_exists(t, known, f)
  THEN [generation |-> tree, file |-> f, dirty |-> TRUE, meta |-> m]
  ELSE NoKeys

WithTree(t) ==
  [forest EXCEPT !.trees = [i \in DOMAIN @ |->
     IF @[i].number = tree THEN [number |-> tree, keys |-> t] ELSE @[i]]]

-----------------------------------------------------------------------------
(* Sessions.                                                               *)

ClientInit ==
  /\ disk = [number |-> 0, trees |-> << >>]
  /\ forest = Closed /\ tree = 0 /\ ids = NoIds
  /\ info = NoInfo /\ keys = NoKeys
  /\ lock = "free" /\ removed = {}

lock_client ==
  /\ lock = "free"
  /\ lock' = "held"
  /\ keys' = NoKeys
  /\ UNCHANGED <<disk, forest, tree, ids, info, removed>>

Forget ==
  /\ forest' = Closed /\ tree' = 0 /\ ids' = NoIds
  /\ info' = NoInfo /\ keys' = NoKeys /\ removed' = {}

unlock_client ==
  /\ lock = "held"
  /\ lock' = "free"
  /\ Forget
  /\ UNCHANGED disk

Die ==
  /\ lock = "held"
  /\ lock' = "stale"
  /\ Forget
  /\ UNCHANGED disk

force_client_lock ==
  /\ lock = "stale"
  /\ lock' = "free"
  /\ Forget
  /\ UNCHANGED disk

(* start_changes opens the forest for writing, forgets the file ids, and   *)
(* starts a tree as a copy of the newest one.                              *)
create_generation ==
  /\ lock = "held" /\ info.current = 0 /\ Opened.number < MaxTrees
  /\ LET n     == Opened.number + 1
         trees == Opened.trees
         start == IF trees = << >> THEN EmptyTree ELSE Last(trees).keys
     IN  /\ forest' = [number |-> n,
                       trees |-> Append(trees, [number |-> n, keys |-> start])]
         /\ tree' = n
         /\ info' = [info EXCEPT !.current = n, !.cached = TRUE,
                                 !.listed = Append(Generations, n)]
  /\ ids' = NoIds /\ removed' = {}
  /\ UNCHANGED <<disk, keys, lock>>

Changing == lock = "held" /\ tree # 0

-----------------------------------------------------------------------------
(* Files of the created generation.                                        *)

(* add_file and set_file_keys_from_metadata, which sets every key.  The    *)
(* keys of another file are flushed first.                                 *)
add_file(f, m) ==
  /\ Changing /\ f \notin removed
  /\ \E t \in set_file_id(KeysOf(tree), f) :
     \E known \in KnownAfter(t, ids[tree], {f}) :
     \E u \in create(t, ids[tree], f, Plain) :
     \E v \in IF Cached(tree, f) THEN {u} ELSE Flushed(u) :
       /\ forest' = WithTree(v)
       /\ ids' = [ids EXCEPT ![tree] = known]
       /\ keys' = set_file_key(v, known, f, m)
  /\ UNCHANGED <<disk, tree, info, lock, removed>>

(* get_file_key, of any generation, for a file that is not the cached one. *)
get_file_key(n, f) ==
  /\ lock = "held"
  /\ n \in ToSet(Generations) /\ ~Cached(n, f)
  /\ file_exists(KeysOf(n), ids[n], f)
  /\ keys.dirty => tree # 0
  /\ \E known \in KnownAfter(KeysOf(n), ids[n], {f}) :
     \E t \in IF tree = 0 THEN {EmptyTree} ELSE Flushed(KeysOf(tree)) :
       LET read == IF n = tree THEN t ELSE KeysOf(n) IN
       /\ forest' = IF tree = 0 THEN Opened ELSE WithTree(t)
       /\ ids' = [ids EXCEPT ![n] = known]
       /\ keys' = [generation |-> n, file |-> f, dirty |-> FALSE,
                   meta |-> get_metadata(read, known, f)]
  /\ UNCHANGED <<disk, tree, info, lock, removed>>

(* A backup does not remove the root.                                      *)
remove_file(f) ==
  /\ Changing /\ f # Root /\ f \notin removed
  /\ \E t \in Flushed(KeysOf(tree)) :
       IF Found(t, ids[tree], f)
       THEN LET id   == FoundId(t, ids[tree], f)
                gone == {t.names[key] : key \in {k \in DOMAIN t.names : k[2] \in Below(t, id)}}
            IN  /\ forest' = WithTree(remove(t, id))
                /\ \E known \in KnownAfter(t, ids[tree], gone \cup {f}) :
                     ids' = [ids EXCEPT ![tree] = known]
                /\ removed' = removed \cup gone
       ELSE forest' = WithTree(t) /\ UNCHANGED <<ids, removed>>
  /\ keys' = NoKeys
  /\ UNCHANGED <<disk, tree, info, lock>>

(* clear_file_chunk_ids and append_file_chunk_id of an existing file.      *)
ChangeChunks(f, t) ==
  /\ Changing /\ file_exists(KeysOf(tree), ids[tree], f)
  /\ forest' = WithTree(t)
  /\ \E known \in KnownAfter(KeysOf(tree), ids[tree], {f}) :
       ids' = [ids EXCEPT ![tree] = known]
  /\ UNCHANGED <<disk, tree, info, keys, lock, removed>>

clear_file_chunk_ids(f) ==
  ChangeChunks(f, set_file_chunks(KeysOf(tree), f))

append_file_chunk_id(f, c) ==
  /\ ChangeChunks(f, append_file_chunks(KeysOf(tree), f, c))
  /\ Len(get_file_chunks(KeysOf(tree), IdOf(KeysOf(tree), f))) < MaxChunks

-----------------------------------------------------------------------------
(* Generations.                                                            *)

(* The keys of a file of the removed generation must not be dirty: they    *)
(* are not flushed, as the comment above _file_key_cache says they are,    *)
(* and would be written into the next generation.                          *)
remove_generation(n) ==
  /\ lock = "held" /\ n \in ToSet(Generations)
  /\ n = info.current => ~keys.dirty
  /\ forest' = [Opened EXCEPT !.trees = SelectSeq(@, LAMBDA t : t.number # n)]
  /\ tree' = IF tree = n THEN 0 ELSE tree
  /\ ids' = NoIds
  /\ info' = [current |-> IF info.current = n THEN 0 ELSE info.current,
              listed |-> SelectSeq(Generations, LAMBDA i : i # n),
              cached |-> TRUE, removed |-> TRUE]
  /\ UNCHANGED <<disk, keys, lock, removed>>

(* set_generation_ended needs the tree.                                    *)
commit_client ==
  /\ lock = "held"
  /\ info.current # 0 => tree # 0
  /\ IF info.current # 0 \/ info.removed
     THEN \E t \in IF tree = 0 THEN {EmptyTree} ELSE Flushed(KeysOf(tree)) :
            /\ forest' = IF tree = 0 THEN forest ELSE WithTree(t)
            /\ disk' = forest'
            /\ tree' = 0
     ELSE UNCHANGED <<forest, disk, tree>>
  /\ keys' = NoKeys
  /\ UNCHANGED <<ids, info, lock, removed>>

ClientNext ==
  \/ lock_client \/ unlock_client \/ Die \/ force_client_lock
  \/ create_generation \/ commit_client
  \/ \E f \in Files : remove_file(f) \/ \E m \in MetasOf[f] : add_file(f, m)
  \/ \E f \in Regular : clear_file_chunk_ids(f) \/ \E c \in Chunks : append_file_chunk_id(f, c)
  \/ \E n \in 1 .. MaxTrees :
       remove_generation(n) \/ \E f \in Asked : get_file_key(n, f)

ClientSpec == ClientInit /\ [][ClientNext]_clientVars

-----------------------------------------------------------------------------
(* What the methods answer.                                                *)

Existing(t, known) == {f \in Files : file_exists(t, known, f)}

Files6(t, known, cachedKeys) ==
  [f \in Existing(t, known) |->
     [meta   |-> IF cachedKeys.file = f /\ cachedKeys.generation # 0
                 THEN cachedKeys.meta ELSE get_metadata(t, known, f),
      chunks |-> get_file_chunks(t, FoundId(t, known, f))]]

Answers(n, t, known, cachedKeys) ==
  [ number   |-> n,
    files    |-> Files6(t, known, cachedKeys),
    children |-> [f \in Existing(t, known) |-> listdir(t, FoundId(t, known, f))],
    chunks   |-> list_chunks_in_generation(t) ]

Saved == [i \in DOMAIN disk.trees |->
            Answers(disk.trees[i].number, disk.trees[i].keys, << >>, NoKeys)]

View ==
  IF lock # "held" THEN << >>
  ELSE [i \in DOMAIN Generations |->
          LET n == Generations[i]
          IN  Answers(n, KeysOf(n), ids[n], IF keys.generation = n THEN keys ELSE NoKeys)]

Promised == INSTANCE ClientFiles WITH
  saved <- Saved, view <- View, current <- info.current,
  open <- (tree # 0), locked <- (lock # "free")

(* Format 6 keeps the promise: through file ids, hash collisions, caches   *)
(* and deaths, every query answers as if a generation were a map from      *)
(* names to metadata and chunks, a committed generation never changes,     *)
(* and the chunks of a generation are the chunks of its files (which is    *)
(* what removing a generation goes by, repo_fmt_6.py:336-380).             *)
ImplementsClientFiles == Promised!Spec

ClientTypeOK ==
  /\ Len(disk.trees) <= MaxTrees /\ Len(forest.trees) <= MaxTrees
  /\ tree \in 0 .. MaxTrees
  /\ \A n \in DOMAIN ids : DOMAIN ids[n] \subseteq Files
  /\ keys.file \in Files /\ keys.meta \in Metas \cup {Plain}
  /\ info.current \in 0 .. MaxTrees
  /\ \A i \in DOMAIN Generations : \E j \in DOMAIN Opened.trees : Opened.trees[j].number = Generations[i]
  /\ lock \in {"free", "held", "stale"} /\ removed \subseteq Files
=============================================================================
