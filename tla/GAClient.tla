------------------------------ MODULE GAClient ------------------------------
(***************************************************************************)
(* The per-client data of format Green Albatross (fmt_ga/client.py,        *)
(* tree.py, dirobj.py) under the backup of TreeBackup: a generation is the *)
(* identifier of a root directory object; a directory object is immutable  *)
(* once it has been stored; changes are made to copies in a cache, which a *)
(* flush stores from the leaves up.                                        *)
(***************************************************************************)
EXTENDS Naturals, Sequences, FiniteSets, Functions

CONSTANTS
  Names, Root, Parent, Above, Kinds, BackupRoots, NumChunks, MidFile, OldErrors,
  MaxVersion, MaxGens, MaxBackups, MaxFaults   \* as in TreeBackup

(* As in TreeBackup; there are finitely many names.                        *)
ASSUME TreeAssumption ==
  /\ IsFiniteSet(Names)
  /\ Root \in Names /\ Parent \in [Names -> Names] /\ Parent[Root] = Root
  /\ Above \in [Names -> SUBSET Names]
  /\ \A p \in Names :
       Above[p] = IF p = Root THEN {Root} ELSE {p} \cup Above[Parent[p]]
  /\ \A S \in SUBSET Names : S # {} => \E p \in S : p = Root \/ Parent[p] \notin S
ASSUME KindsAssumption ==
  Kinds \in [Names -> SUBSET {"dir", "file"}] /\ Kinds[Root] = {"dir"}
ASSUME BoundsAssumption ==
  /\ BackupRoots \subseteq Names
  /\ NumChunks \in Nat /\ MaxVersion \in Nat /\ MaxGens \in Nat
  /\ MaxBackups \in Nat /\ MaxFaults \in Nat

VARIABLES
  kind, version, pc, after, root, todo, since, file, existed, errors, made,
  backups, faults,  \* as in TreeBackup
  bags,        \* the stored directory objects, by identifier
  put,         \* those in the bag that is not on disk yet
  clientData,  \* the root identifiers of the generations, in the client's data
  mem          \* GATree of the new generation: root identifier and cache

stored == <<bags, put, clientData>>
walkVars == <<pc, after, root, todo, since, file, existed, errors, made, backups, faults>>
vars == <<kind, version, walkVars, stored, mem>>

(* An object is identified by its path and a number.  Those nobody refers  *)
(* to stay in the code's bags; here they are dropped, so that there are    *)
(* finitely many.                                                          *)
NoId == <<>>

(* A directory object has entries for the files in it and, under its own   *)
(* path, for itself ("." in the code), and identifiers of its              *)
(* subdirectories, NoId for those that are in the cache.  Without keys an  *)
(* entry is of no kind.                                                    *)
NoKeys == [kind |-> "none", version |-> 0, chunks |-> <<>>]
NewDirectory(p) == [files |-> [q \in {p} |-> NoKeys], subdirs |-> <<>>]
NoTree == [id |-> NoId, cache |-> <<>>]

Blobs == DOMAIN bags \cup DOMAIN put
Object(i) == IF i \in DOMAIN put THEN put[i] ELSE bags[i]

Except(f, S) == [q \in DOMAIN f \ S |-> f[q]]

-----------------------------------------------------------------------------
(* GATree.  (Objects that are only read are not put into the cache here:   *)
(* none of them is looked up again after its path has been removed.)       *)

(* The identifiers that get_directory finds, from the root down, on its    *)
(* way to objects that are not in the cache.                               *)
Places(t) ==
  LET at[p \in Names] ==
        IF p = Root THEN t.id
        ELSE LET above == Parent[p]
                 subdirs == IF above \in DOMAIN t.cache THEN t.cache[above].subdirs
                            ELSE IF at[above] \in Blobs THEN Object(at[above]).subdirs
                            ELSE <<>>
             IN  IF p \in DOMAIN subdirs THEN subdirs[p] ELSE NoId
  IN  at

(* get_directory, which returns None if there is none.                     *)
HasDirectory(t, p) == p \in DOMAIN t.cache \/ Places(t)[p] \in Blobs
NoDirectory == [files |-> <<>>, subdirs |-> <<>>]
Directory(t, p) ==
  IF p \in DOMAIN t.cache THEN t.cache[p]
  ELSE IF Places(t)[p] \in Blobs THEN Object(Places(t)[p])
  ELSE NoDirectory
DirectoryOrNew(t, p) == IF HasDirectory(t, p) THEN Directory(t, p) ELSE NewDirectory(p)

(* set_directory, for each path p of a set with objects[p]: it makes all   *)
(* directories above them mutable and refers from these to the cache.      *)
(* Faulty variant: the directories above are left alone.                   *)
Alone(S) == S
Changed(S) == UNION {Above[p] : p \in S}
SetDirectories(t, objects) ==
  LET changed == Changed(DOMAIN objects)
      new(q) == IF q \in DOMAIN objects THEN objects[q] ELSE DirectoryOrNew(t, q)
      below(q) == {r \in changed \ {Root} : Parent[r] = q}
      referring(o, q) ==
        [files   |-> o.files,
         subdirs |-> [r \in DOMAIN o.subdirs \cup below(q) |->
                        IF r \in changed THEN NoId ELSE o.subdirs[r]]]
  IN  [t EXCEPT !.cache = [q \in DOMAIN t.cache \cup changed |->
                             IF q \in changed THEN referring(new(q), q) ELSE t.cache[q]]]

-----------------------------------------------------------------------------
(* GAFileMetadata                                                          *)

(* _get_dir_obj: the path of the directory object with the entry for p.    *)
Holder(t, p) == IF HasDirectory(t, p) THEN p ELSE Parent[p]

(* Whether it has anything for p, and what.                                *)
FileExists(t, p) == p \in DOMAIN Directory(t, Holder(t, p)).files
Entry(t, p) == IF FileExists(t, p) THEN Directory(t, Holder(t, p)).files[p] ELSE NoKeys

(* Each path p of DOMAIN w gets the entry w[p]: a new directory in an      *)
(* object of its own, a new file in that of its directory.                 *)
SetEntries(t, w) ==
  LET home(p) == IF ~FileExists(t, p) /\ w[p].kind = "dir" THEN p ELSE Holder(t, p)
      object(h) ==
        [files   |-> [p \in DOMAIN DirectoryOrNew(t, h).files
                              \cup {q \in DOMAIN w : home(q) = h} |->
                        IF p \in DOMAIN w /\ home(p) = h THEN w[p]
                        ELSE DirectoryOrNew(t, h).files[p]],
         subdirs |-> DirectoryOrNew(t, h).subdirs]
  IN  SetDirectories(t, [h \in {home(p) : p \in DOMAIN w} |-> object(h)])

(* add_file and set_file_keys_from_metadata, for each path of S.           *)
SetKeys(t, S, k, v) ==
  LET entry(p) == [kind |-> k, version |-> v, chunks |-> Entry(t, p).chunks]
  IN  SetEntries(t, [p \in {q \in S : Entry(t, q) # entry(q)} |-> entry(p)])

SetChunks(t, p, chunks) ==
  SetEntries(t, [q \in {p} |-> [Entry(t, p) EXCEPT !.chunks = chunks]])

(* remove_file, for each path of S, none of them the root.                 *)
(* Faulty variant: a subdirectory stays.                                   *)
SubdirsLeft(o, S) == o.subdirs
Subdirs(o, S) == Except(o.subdirs, S)
RemoveFiles(t, S) ==
  LET object(q) == [files |-> Except(Directory(t, q).files, S),
                    subdirs |-> Subdirs(Directory(t, q), S)]
  IN  SetDirectories(t, [q \in {r \in {Parent[p] : p \in S} : HasDirectory(t, r)} |-> object(q)])

Children(t, p) ==
  (DOMAIN Directory(t, p).files \ {p}) \cup DOMAIN Directory(t, p).subdirs

(* What a generation has for the other commands.                           *)
Files(t) == [p \in {q \in Names : Entry(t, q).kind # "none"} |-> Entry(t, p)]

Tree(id) == [id |-> id, cache |-> <<>>]
Generations == [i \in DOMAIN clientData |-> Files(Tree(clientData[i]))]

Walk == INSTANCE TreeBackup WITH gens <- Generations, cur <- Files(mem)

-----------------------------------------------------------------------------
(* Storing                                                                 *)

(* The identifiers that a generation refers to.                            *)
Refers(id) == {Places(Tree(id))[p] : p \in Names} \ {NoId}

(* Faulty variant: an identifier that may be in use.                       *)
FirstId(p) == <<p, 1>>
FreshId(p) ==
  <<p, CHOOSE n \in 1 .. Cardinality(DOMAIN bags) + 1 : <<p, n>> \notin DOMAIN bags>>

(* What _fixup_subdir_refs finds in the cache, from the root down, and     *)
(* what becomes of the references to the cache.                            *)
InCache(t) ==
  {p \in DOMAIN t.cache :
     /\ Above[p] \subseteq DOMAIN t.cache
     /\ \A q \in Above[p] \ {Root} : t.cache[Parent[q]].subdirs[q] = NoId}

(* Faulty variant: they are left.                                          *)
Unfixed(o) == o
Fixed(o) ==
  [o EXCEPT !.subdirs = [q \in DOMAIN @ |-> IF @[q] = NoId THEN FreshId(q) ELSE @[q]]]

(* GATree.flush, up to the flush of the blob store, of the tree t.         *)
FlushTree(t) ==
  IF Root \in DOMAIN t.cache
  THEN /\ put' = [i \in {FreshId(p) : p \in InCache(t)} |-> Fixed(t.cache[i[1]])]
       /\ mem' = Tree(FreshId(Root))
  ELSE mem' = Tree(t.id) /\ UNCHANGED put

Used(ids) == UNION {Refers(id) : id \in ids}
Kept(ids) == [i \in Used(ids) \cap DOMAIN bags |-> bags[i]]

(* BlobStore.flush.                                                        *)
FlushBag ==
  /\ put # <<>>
  /\ bags' = [i \in Used({mem.id} \cup Range(clientData)) |-> Object(i)]
  /\ put' = <<>>
  /\ UNCHANGED <<kind, version, walkVars, clientData, mem>>

(* The first half of commit_client.                                        *)
FlushClient ==
  /\ pc = "commit" /\ mem.cache # <<>>
  /\ FlushTree(mem)
  /\ UNCHANGED <<kind, version, walkVars, bags, clientData>>

-----------------------------------------------------------------------------
(* The backup: the walk of TreeBackup over this data.                      *)

(* create_generation starts from the latest generation, from which         *)
(* remove_old_roots removes what is next to the directories above the      *)
(* root.                                                                   *)
StartBackup(r) ==
  LET latest == IF clientData = <<>> THEN NoTree ELSE Tree(clientData[Len(clientData)])
      extra == {p \in Names \ Above[r] :
                  /\ Parent[p] \in Above[r] \ {r}
                  /\ p \in Children(latest, Parent[p])}
  IN  /\ Walk!WalkStarts(r)
      /\ mem' = RemoveFiles(latest, extra)
      /\ UNCHANGED stored

(* After so many directories flush_client is called.                       *)
BackupDirectory(p) ==
  LET gone == {q \in Children(mem, p) : kind[q] = "none"}
      t == SetKeys(RemoveFiles(mem, gone), {p}, "dir", 0)
  IN  /\ Walk!WalkDir(p)
      /\ (mem' = t /\ UNCHANGED put) \/ FlushTree(t)
      /\ UNCHANGED <<bags, clientData>>

Same(p, v) ==
  LET e == Entry(mem, p) IN e.kind = "file" /\ e.version = v

SkipFile(p) ==
  /\ Walk!WalkSkips(p)
  /\ \E v \in Walk!Listed(p) : Same(p, v)
  /\ UNCHANGED <<stored, mem>>

(* clear_file_chunk_ids asserts that the file is not a directory.          *)
StartFile(p) ==
  /\ Walk!WalkOpens(p, FileExists(mem, p))
  /\ ~HasDirectory(mem, p)
  /\ \E v \in Walk!Listed(p) :
       ~Same(p, v) /\ mem' = SetChunks(SetKeys(mem, {p}, "file", v), p, <<>>)
  /\ UNCHANGED stored

ReadChunk ==
  LET old == Entry(mem, file).chunks IN
  /\ pc = "file"
  /\ Walk!WalkReads(Len(old))
  /\ mem' = SetChunks(mem, file, Append(old, <<version[file], Len(old) + 1>>))
  /\ UNCHANGED stored

EndFile ==
  LET e == Entry(mem, file) IN
  /\ pc = "file"
  /\ Walk!WalkCloses(Len(e.chunks))
  /\ mem' = SetKeys(mem, {file}, "file", e.version)
  /\ UNCHANGED stored

ReadError ==
  /\ Walk!WalkFails
  /\ mem' = IF existed THEN mem ELSE RemoveFiles(mem, {file})
  /\ UNCHANGED stored

BackupParents(next) ==
  /\ Walk!WalkPauses(next)
  /\ next = "file" => Entry(mem, file).chunks # <<>>
  /\ mem' = SetKeys(mem, Above[root], "dir", 0)
  /\ UNCHANGED stored

(* The second half of commit_client: the client's data refer to what has   *)
(* been stored.                                                            *)
(* Faulty variant: the bag has not been written yet.                       *)
CacheFlushed == mem.cache = <<>>
Flushed == mem.cache = <<>> /\ put = <<>>

SaveClientData ==
  /\ Flushed
  /\ Walk!WalkGoesOn(Len(clientData))
  /\ clientData' = Append(clientData, mem.id)
  /\ UNCHANGED <<bags, put, mem>>

RemoveCheckpoints ==
  /\ Walk!WalkEnds
  /\ ~errors
  /\ clientData' = Walk!Rest(clientData, made)
  /\ mem' = NoTree
  /\ bags' = Kept(Range(clientData'))
  /\ UNCHANGED put

LeaveCheckpoints ==
  /\ Walk!WalkEnds
  /\ mem' = NoTree
  /\ UNCHANGED stored

Crash ==
  /\ Walk!WalkDies
  /\ mem' = NoTree /\ put' = <<>>
  /\ bags' = Kept(Range(clientData))
  /\ UNCHANGED clientData

(* remove_generation takes it off the list.                                *)
Forget(i) ==
  /\ pc = "idle"
  /\ i \in DOMAIN clientData
  /\ clientData' = SubSeq(clientData, 1, i - 1) \o SubSeq(clientData, i + 1, Len(clientData))
  /\ bags' = Kept(Range(clientData'))
  /\ UNCHANGED <<kind, version, walkVars, put, mem>>

Live ==
  \E p \in Names :
    /\ UNCHANGED <<stored, mem>>
    /\ Walk!Edit(p) \/ Walk!Delete(p) \/ \E k \in Kinds[p] : Walk!Create(p, k)

Backup ==
  \/ \E r \in BackupRoots : StartBackup(r)
  \/ \E p \in Names : BackupDirectory(p) \/ SkipFile(p) \/ StartFile(p)
  \/ ReadChunk \/ EndFile \/ ReadError
  \/ \E next \in {"walk", "file", "cleanup"} : BackupParents(next)
  \/ RemoveCheckpoints \/ LeaveCheckpoints
  \/ FlushClient

Init ==
  /\ bags = <<>> /\ put = <<>>
  /\ clientData = <<>>
  /\ mem = NoTree
  /\ Walk!Init

(* The bag is written before the walk goes on.                             *)
Next ==
  \/ Live
  \/ put = <<>> /\ Backup
  \/ FlushBag \/ SaveClientData
  \/ Crash
  \/ \E i \in 1..MaxGens : Forget(i)

Spec == Init /\ [][Next]_vars

-----------------------------------------------------------------------------

Ids == {NoId} \cup (Names \X Nat)
IsDirectory(o) ==
  /\ DOMAIN o = {"files", "subdirs"}
  /\ DOMAIN o.files \subseteq Names /\ DOMAIN o.subdirs \subseteq Names \ {Root}
  /\ \A p \in DOMAIN o.files : o.files[p] \in Walk!Entries \cup {NoKeys}
  /\ \A p \in DOMAIN o.subdirs : o.subdirs[p] \in Ids

(* The variables have their types: directory objects, stored or cached,    *)
(* and only the latter refer to the cache.  Those of the walk are          *)
(* TreeBackup's.                                                           *)
TypeOK ==
  /\ Walk!TypeOK
  /\ DOMAIN bags \cup DOMAIN put \subseteq Ids \ {NoId}
  /\ \A i \in DOMAIN bags \cup DOMAIN put :
       IsDirectory(Object(i)) /\ NoId \notin Range(Object(i).subdirs)
  /\ mem.id \in Ids /\ DOMAIN mem.cache \subseteq Names
  /\ \A p \in DOMAIN mem.cache : IsDirectory(mem.cache[p])

(* Whatever died meanwhile, the client's data refer to directory objects   *)
(* on disk, and these to others on disk: save comes after the flush of the *)
(* blob store.                                                             *)
NoDanglingDirectories ==
  \A i \in DOMAIN clientData : Refers(clientData[i]) \subseteq DOMAIN bags

(* A flush finds every directory that was changed, and every one that it   *)
(* is referred to ("expected ... in cache"): the cache hangs together,     *)
(* from the root.                                                          *)
CacheHangsTogether ==
  /\ InCache(mem) = DOMAIN mem.cache
  /\ \A p \in DOMAIN mem.cache :
       \A q \in DOMAIN mem.cache[p].subdirs :
         mem.cache[p].subdirs[q] = NoId => q \in DOMAIN mem.cache

(* The directory objects implement TreeBackup's maps: whatever is removed, *)
(* replaced, flushed, resumed or cut off, each generation has the files    *)
(* the backup put into it, and a committed one stays as it is.             *)
ImplementsMaps == Walk!Spec

(* clear_file_chunk_ids asserts basename != '.': what is backed up as a    *)
(* file is not a directory in the new generation.                          *)
FileIsNoDirectory ==
  pc = "walk" =>
    \A p \in todo :
      Walk!NextOf(p) /\ kind[p] = "file" => ~HasDirectory(mem, p)
=============================================================================
