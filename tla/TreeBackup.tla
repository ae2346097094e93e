----------------------------- MODULE TreeBackup -----------------------------
(***************************************************************************)
(* How backup_plugin.py walks the live data and keeps the new generation   *)
(* up to date with it, for any repository format: a generation is a map    *)
(* from path names to metadata and chunks, as repo_interface.py describes  *)
(* it.  A new generation starts as a copy of the latest one; files whose   *)
(* metadata has not changed are skipped; a checkpoint commits what there   *)
(* is and goes on; a backup that died is resumed from its last checkpoint. *)
(*                                                                         *)
(* One client.  RepoFormat6 has what several clients do to each other, and *)
(* GAClient implements the maps by directory objects.                      *)
(***************************************************************************)
EXTENDS Naturals, Sequences

CONSTANTS
  Names,       \* path names
  Root,        \* the path "/"
  Parent,      \* Parent[p]: os.path.dirname(p)
  Above,       \* Above[p]: p and the directories above it
  Kinds,       \* Kinds[p]: what p may be, "dir" or "file" or both
  BackupRoots, \* directories given as backup root
  NumChunks,   \* how many chunks a file has
  MidFile,     \* whether a checkpoint may come in the middle of a file
  OldErrors,   \* whether reading a file that the last generation has may fail
  MaxVersion,  \* bound: versions of a file
  MaxGens,     \* bound: generations in the repository
  MaxBackups,  \* bound: backups started
  MaxFaults    \* bound: crashes and read errors

ASSUME TreeAssumption ==
  /\ Root \in Names /\ Parent \in [Names -> Names] /\ Parent[Root] = Root
  /\ Above \in [Names -> SUBSET Names]
  /\ \A p \in Names :
       Above[p] = IF p = Root THEN {Root} ELSE {p} \cup Above[Parent[p]]
  /\ \A S \in SUBSET Names : S # {} => \E p \in S : p = Root \/ Parent[p] \notin S
ASSUME KindsAssumption ==
  Kinds \in [Names -> SUBSET {"dir", "file"}] /\ Kinds[Root] = {"dir"}
ASSUME RootsAssumption == BackupRoots \subseteq Names
ASSUME BoundsAssumption ==
  /\ NumChunks \in Nat /\ MaxVersion \in Nat /\ MaxGens \in Nat
  /\ MaxBackups \in Nat /\ MaxFaults \in Nat
  /\ MidFile \in BOOLEAN /\ OldErrors \in BOOLEAN

VARIABLES
  kind,     \* kind[p]: what p is in the live data
  version,  \* version[p]: stands for the metadata and content of the file
  gens,     \* the committed generations, oldest first
  cur,      \* the generation under construction
  pc,       \* where the backup is
  after,    \* in a commit, where it goes on
  root,     \* the backup root
  todo,     \* paths that scan_tree has still to produce
  since,    \* version, when the backup started
  file,     \* the file whose contents are being read
  existed,  \* backup_root's local variable for that file
  errors,   \* progress.errors
  made,     \* number of checkpoints the backup has made
  backups,  \* number of backups started
  faults    \* number of crashes and read errors

live == <<kind, version>>
walk == <<after, root, since, existed, errors, made>>
counts == <<backups, faults>>
vars == <<live, gens, cur, pc, todo, file, walk, counts>>

Chunks == (0..MaxVersion) \X (1..NumChunks)
Entries == [kind : {"dir", "file"}, version : 0..MaxVersion, chunks : Seq(Chunks)]

Directory == [kind |-> "dir", version |-> 0, chunks |-> <<>>]
File(v, chunks) == [kind |-> "file", version |-> v, chunks |-> chunks]
Content(v) == [i \in 1..NumChunks |-> <<v, i>>]

TypeOK ==
  /\ kind \in [Names -> {"none", "dir", "file"}]
  /\ version \in [Names -> 0..MaxVersion]
  /\ \A i \in DOMAIN gens : DOMAIN gens[i] \subseteq Names
  /\ \A i \in DOMAIN gens : \A p \in DOMAIN gens[i] : gens[i][p] \in Entries
  /\ DOMAIN cur \subseteq Names
  /\ \A p \in DOMAIN cur : cur[p] \in Entries
  /\ pc \in {"idle", "walk", "file", "commit", "cleanup"}
  /\ after \in {"walk", "file", "cleanup"}
  /\ root \in Names /\ file \in Names
  /\ todo \subseteq Names
  /\ since \in [Names -> 0..MaxVersion]
  /\ existed \in BOOLEAN /\ errors \in BOOLEAN
  /\ made \in 0..MaxGens /\ backups \in 0..MaxBackups /\ faults \in 0..MaxFaults

Init ==
  /\ kind = [p \in Names |-> IF p = Root THEN "dir" ELSE "none"]
  /\ version = [p \in Names |-> 0]
  /\ gens = <<>> /\ cur = <<>>
  /\ pc = "idle" /\ after = "walk"
  /\ root = Root /\ file = Root
  /\ todo = {}
  /\ since = [p \in Names |-> 0]
  /\ existed = FALSE /\ errors = FALSE
  /\ made = 0 /\ backups = 0 /\ faults = 0

Only(f, S) == [p \in DOMAIN f \cap S |-> f[p]]
With(f, p, e) == [q \in DOMAIN f \cup {p} |-> IF q = p THEN e ELSE f[q]]
Without(f, S) == Only(f, {p \in Names : Above[p] \cap S = {}})

-----------------------------------------------------------------------------
(* The live data.  A file may be written at any time; its metadata then    *)
(* changes, as its modification time does.  Files come and go between      *)
(* backups.                                                                *)

Edit(p) ==
  /\ kind[p] = "file" /\ version[p] < MaxVersion
  /\ version' = [version EXCEPT ![p] = @ + 1]
  /\ UNCHANGED <<kind, gens, cur, pc, todo, file, walk, counts>>

Create(p, k) ==
  /\ pc = "idle"
  /\ kind[p] = "none" /\ k \in Kinds[p] /\ kind[Parent[p]] = "dir"
  /\ version[p] < MaxVersion
  /\ kind' = [kind EXCEPT ![p] = k]
  /\ version' = [version EXCEPT ![p] = @ + 1]
  /\ UNCHANGED <<gens, cur, pc, todo, file, walk, counts>>

Delete(p) ==
  /\ pc = "idle"
  /\ p # Root /\ kind[p] # "none"
  /\ \A q \in Names \ {Root} : Parent[q] = p => kind[q] = "none"
  /\ kind' = [kind EXCEPT ![p] = "none"]
  /\ UNCHANGED <<version, gens, cur, pc, todo, file, walk, counts>>

-----------------------------------------------------------------------------
(* The backup.  Each action comes in two parts: what it does to the walk,  *)
(* and what it does to the generation.                                     *)

Under(r) == {p \in Names : r \in Above[p]}

(* remove_old_roots keeps the new root and the directories above it.       *)
OldRoots(r) == Under(r) \cup Above[r]

(* create_generation, remove_old_roots and the start of scan_tree.         *)
WalkStarts(r) ==
  /\ pc = "idle" /\ backups < MaxBackups
  /\ kind[r] = "dir"
  /\ pc' = "walk"
  /\ root' = r
  /\ todo' = {p \in Under(r) : kind[p] # "none"}
  /\ since' = version
  /\ errors' = FALSE /\ made' = 0
  /\ backups' = backups + 1
  /\ UNCHANGED <<live, after, file, existed, faults>>

StartBackup(r) ==
  /\ WalkStarts(r)
  /\ cur' = IF gens = <<>> THEN <<>> ELSE Only(gens[Len(gens)], OldRoots(r))
  /\ UNCHANGED gens

(* scan_tree produces what is in a directory before the directory.         *)
NextOf(p) == p \in todo /\ \A q \in todo : p \in Above[q] => q = p

(* What backup_dir_contents removes: names that are not there any more.    *)
(* Faulty variant: it is left out.                                         *)
NothingGone(p) == {}
Gone(p) == {q \in Names \ {Root} : Parent[q] = p /\ kind[q] = "none"}

WalkDir(p) ==
  /\ pc = "walk" /\ NextOf(p) /\ kind[p] = "dir"
  /\ todo' = todo \ {p}
  /\ UNCHANGED <<live, pc, file, walk, counts>>

BackupDirectory(p) ==
  /\ WalkDir(p)
  /\ cur' = With(Without(cur, Gone(p)), p, Directory)
  /\ UNCHANGED gens

(* The metadata of a file is read when its directory is listed, which is   *)
(* some time after the backup starts and before the file is opened.        *)
Listed(p) == since[p]..version[p]

(* needs_backup compares it with that in the new generation.               *)
Unchanged(f, p, v) == p \in DOMAIN f /\ f[p].kind = "file" /\ f[p].version = v

WalkSkips(p) ==
  /\ pc = "walk" /\ NextOf(p) /\ kind[p] = "file"
  /\ todo' = todo \ {p}
  /\ UNCHANGED <<live, pc, file, walk, counts>>

SkipFile(p) ==
  /\ WalkSkips(p)
  /\ \E v \in Listed(p) : Unchanged(cur, p, v)
  /\ UNCHANGED <<gens, cur>>

WalkOpens(p, old) ==
  /\ pc = "walk" /\ NextOf(p) /\ kind[p] = "file"
  /\ pc' = "file" /\ file' = p /\ existed' = old
  /\ UNCHANGED <<live, todo, after, root, since, errors, made, counts>>

(* backup_non_directory writes the metadata, empties the list of chunks    *)
(* and opens the file.                                                     *)
StartFile(p) ==
  /\ WalkOpens(p, p \in DOMAIN cur)
  /\ \E v \in Listed(p) :
       ~Unchanged(cur, p, v) /\ cur' = With(cur, p, File(v, <<>>))
  /\ UNCHANGED gens

(* The chunks that have been read.                                         *)
WalkReads(n) ==
  /\ pc = "file" /\ n < NumChunks
  /\ UNCHANGED <<live, pc, todo, file, walk, counts>>

(* Which chunk comes next.                                                 *)
(* Faulty variant: the last one once more.                                 *)
LastChunk(e) == Len(e.chunks)
NextChunk(e) == Len(e.chunks) + 1

ReadChunk ==
  LET e == cur[file] IN
  /\ WalkReads(Len(e.chunks))
  /\ cur' = With(cur, file,
               File(e.version, Append(e.chunks, <<version[file], NextChunk(e)>>)))
  /\ UNCHANGED gens

WalkCloses(n) ==
  /\ pc = "file" /\ n = NumChunks
  /\ pc' = "walk" /\ todo' = todo \ {file}
  /\ UNCHANGED <<live, file, walk, counts>>

(* backup_metadata again, with the metadata that was read before.          *)
(* Faulty variant: it is read anew.                                        *)
MetadataNow(e) == version[file]
MetadataThen(e) == e.version

EndFile ==
  LET e == cur[file] IN
  /\ WalkCloses(Len(e.chunks))
  /\ cur' = With(cur, file, File(MetadataThen(e), e.chunks))
  /\ UNCHANGED gens

(* The file cannot be opened or read.  It stays in the generation, with    *)
(* new metadata and what has been read, if it was there before.            *)
KeepPartial == existed

WalkFails ==
  /\ pc = "file" /\ faults < MaxFaults
  /\ existed => OldErrors
  /\ pc' = "walk" /\ todo' = todo \ {file} /\ errors' = TRUE
  /\ faults' = faults + 1
  /\ UNCHANGED <<live, file, after, root, since, existed, made, backups>>

ReadError ==
  /\ WalkFails
  /\ cur' = IF KeepPartial THEN cur ELSE Without(cur, {file})
  /\ UNCHANGED gens

-----------------------------------------------------------------------------
(* Commits                                                                 *)

(* make_checkpoint, after a file or between two of its chunks, and the end *)
(* of backup_root.                                                         *)
WalkPauses(next) ==
  /\ next = pc \/ (next = "cleanup" /\ pc = "walk" /\ todo = {})
  /\ pc = "walk" \/ (pc = "file" /\ MidFile)
  /\ pc' = "commit" /\ after' = next
  /\ UNCHANGED <<live, todo, file, root, since, existed, errors, made, counts>>

(* backup_parents.  In a file the time for a checkpoint is looked at after  *)
(* each chunk.                                                             *)
BackupParents(next) ==
  /\ WalkPauses(next)
  /\ next = "file" => cur[file].chunks # <<>>
  /\ cur' = [p \in DOMAIN cur \cup Above[root] |->
               IF p \in Above[root] THEN Directory ELSE cur[p]]
  /\ UNCHANGED gens

WalkGoesOn(n) ==
  /\ pc = "commit" /\ n < MaxGens
  /\ pc' = after
  /\ made' = IF after = "cleanup" THEN made ELSE made + 1
  /\ UNCHANGED <<live, todo, file, after, root, since, existed, errors, counts>>

(* commit_client; after a checkpoint create_generation copies what has     *)
(* just been committed.                                                    *)
Commit ==
  /\ WalkGoesOn(Len(gens))
  /\ gens' = Append(gens, cur)
  /\ UNCHANGED cur

WalkEnds ==
  /\ pc = "cleanup"
  /\ pc' = "idle"
  /\ UNCHANGED <<live, todo, file, walk, counts>>

(* remove_checkpoints, unless there were errors or leave-checkpoints is    *)
(* set.  The checkpoints come right before the final generation.           *)
Rest(s, n) == SubSeq(s, 1, Len(s) - n - 1) \o SubSeq(s, Len(s), Len(s))

RemoveCheckpoints ==
  /\ WalkEnds
  /\ ~errors
  /\ gens' = Rest(gens, made)
  /\ cur' = <<>>

LeaveCheckpoints ==
  /\ WalkEnds
  /\ cur' = <<>>
  /\ UNCHANGED gens

(* The process dies.                                                       *)
WalkDies ==
  /\ pc # "idle" /\ faults < MaxFaults
  /\ pc' = "idle"
  /\ todo' = {}
  /\ faults' = faults + 1
  /\ UNCHANGED <<live, file, walk, backups>>

Crash ==
  /\ WalkDies
  /\ cur' = <<>>
  /\ UNCHANGED gens

(* forget removes any generation.                                          *)
Forget(i) ==
  /\ pc = "idle"
  /\ i \in DOMAIN gens
  /\ gens' = SubSeq(gens, 1, i - 1) \o SubSeq(gens, i + 1, Len(gens))
  /\ UNCHANGED <<live, cur, pc, todo, file, walk, counts>>

Live ==
  \E p \in Names : Edit(p) \/ Delete(p) \/ \E k \in Kinds[p] : Create(p, k)

Backup ==
  \/ \E r \in BackupRoots : StartBackup(r)
  \/ \E p \in Names : BackupDirectory(p) \/ SkipFile(p) \/ StartFile(p)
  \/ ReadChunk \/ EndFile \/ ReadError
  \/ \E next \in {"walk", "file", "cleanup"} : BackupParents(next)
  \/ Commit \/ RemoveCheckpoints \/ LeaveCheckpoints

Next == Live \/ Backup \/ Crash \/ \E i \in 1..MaxGens : Forget(i)

Spec == Init /\ [][Next]_vars

-----------------------------------------------------------------------------
(* A file that the next backup will take for unchanged has its contents in *)
(* the latest generation, whatever crashed or was written meanwhile.       *)
SkippedIsSame ==
  gens # <<>> =>
    LET g == gens[Len(gens)] IN
    \A p \in DOMAIN g :
      kind[p] = "file" /\ Unchanged(g, p, version[p]) => g[p].chunks = Content(version[p])

(* The paths walk_generation produces, which restore goes by.  What is      *)
(* left of a directory that has become a file is not among them.           *)
Walked(g) ==
  {p \in DOMAIN g : \A q \in Above[p] : q \in DOMAIN g /\ (q # p => g[q].kind = "dir")}

(* The manual page's "complete snapshot of the live data": a backup that   *)
(* ends without an error has committed everything that is under its root,  *)
(* nothing else, and the contents of each file that was not written while  *)
(* it ran.                                                                 *)
Snapshot(g) ==
  \A p \in Under(root) :
    /\ p \in Walked(g) <=> kind[p] # "none"
    /\ kind[p] = "dir" => g[p].kind = "dir"
    /\ kind[p] = "file" /\ version[p] = since[p]
         => g[p] = File(version[p], Content(version[p]))

FinishedIsComplete ==
  pc = "cleanup" /\ ~errors => Snapshot(gens[Len(gens)])
=============================================================================
