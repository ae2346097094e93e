-------------------------------- MODULE Restore --------------------------------
(***************************************************************************)
(* The restore command (plugins/restore_plugin.py), which writes a         *)
(* generation into an empty directory, and the verify command              *)
(* (plugins/verify_plugin.py), which compares a generation with live data. *)
(* Both walk a generation with the children of a directory before the      *)
(* directory itself (walk_generation), and neither takes a lock.           *)
(***************************************************************************)
EXTENDS AtRest

CONSTANT
  Changes        \* the ways in which live data can differ from a generation

VARIABLES
  gen,       \* the generation that is restored or verified
  todo,      \* paths walk_generation has still to produce
  names,     \* the target: path -> inode
  inodes,    \* the target: inode -> [kind, data, mtime]
  links,     \* Hardlinks.inodes: st_ino -> [path, nlink]
  failed,    \* self.errors of restore, self.failed of verify
  result,    \* of the last command: "none", "restored", "verified" or "died"
  live       \* live data: path -> [kind, data, mtime]

restoreVars == <<gen, todo, names, inodes, links, failed, result, live>>

Now == 0                 \* the mtime of what restore creates or changes
NoGen == 0

RestoreInit ==
  /\ gen = NoGen /\ todo = {}
  /\ names = << >> /\ inodes = << >> /\ links = << >>
  /\ failed = FALSE /\ result = "none" /\ live = << >>

Entry(p)   == gens[gen].files[p]
Kids(p)    == {q \in DOMAIN gens[gen].files \ {Top} : DirOf[q] = p}

Ancestors[p \in DOMAIN DirOf] ==
  IF p = Top THEN {} ELSE {DirOf[p]} \cup Ancestors[DirOf[p]]

(* The next path of the walk: all that is in it has been walked.           *)
IsNext(p) == p \in todo /\ Kids(p) \cap todo = {}
Put(f, k, v) == [j \in DOMAIN f \cup {k} |-> IF j = k THEN v ELSE f[j]]

-----------------------------------------------------------------------------
(* Restore.  The target directory is empty; an entry that is created in a  *)
(* directory changes the mtime of the directory.                           *)

restore_starts(g) ==
  /\ Starts("restore")
  /\ gen' = g /\ todo' = DOMAIN gens[g].files
  /\ names' = [p \in {Top} |-> p]
  /\ inodes' = [p \in {Top} |-> [kind |-> "dir", data |-> << >>, mtime |-> Now]]
  /\ UNCHANGED <<restVars, links, failed, result, live>>

Exists(p) == p \in DOMAIN names

(* makedirs and the entry itself: the inodes after p has been created with *)
(* inode n.                                                                *)
MissingDirs(p) == {d \in Ancestors[p] : ~Exists(d)}

Touched(f, dirs) == [n \in DOMAIN f |-> IF n \in dirs THEN [f[n] EXCEPT !.mtime = Now] ELSE f[n]]

Directories(p) ==
  [n \in DOMAIN inodes \cup MissingDirs(p) |->
     IF n \in MissingDirs(p) THEN [kind |-> "dir", data |-> << >>, mtime |-> Now]
     ELSE Touched(inodes, {DirOf[d] : d \in MissingDirs(p)})[n]]

DirNames(p) == [d \in DOMAIN names \cup MissingDirs(p) |->
                  IF d \in DOMAIN names THEN names[d] ELSE d]

(* The file object restore_chunks writes to: seek past the end does not    *)
(* make the file longer, a later write does, with zeroes between.          *)
Write(f, byte) ==
  [data |-> [i \in 1 .. (IF f.pos < Len(f.data) THEN Len(f.data) ELSE f.pos + 1) |->
               IF i = f.pos + 1 THEN byte
               ELSE IF i <= Len(f.data) THEN f.data[i] ELSE Zero],
   pos  |-> f.pos + 1, hole |-> FALSE]
Seek(f) == [data |-> f.data, pos |-> f.pos + 1, hole |-> TRUE]

NewFile == [data |-> << >>, pos |-> 0, hole |-> FALSE]

restore_chunk(f, c) == IF store[c] = Zero THEN Seek(f) ELSE Write(f, store[c])

write_chunks(chunks) == FoldLeft(restore_chunk, NewFile, chunks)

(* Faulty variant: a hole at the end is not written.                       *)
FaultyRestoreChunks(chunks) == write_chunks(chunks).data

restore_chunks(chunks) ==
  LET done == write_chunks(chunks)
  IN  IF done.hole /\ done.pos > 0
      THEN Write([done EXCEPT !.pos = @ - 1], Zero).data
      ELSE done.data

(* How far restore_chunks gets before a chunk it cannot have.              *)
ReadablePart(chunks) ==
  SubSeq(chunks, 1, Max({n \in 0 .. Len(chunks) : AllReadable(SubSeq(chunks, 1, n))}))

(* Data written so far; holes at the end are not there yet.                *)
WrittenPart(chunks) == write_chunks(ReadablePart(chunks)).data

(* restore_dir and set_metadata.                                           *)
restore_dir(p) ==
  /\ command = "restore" /\ IsNext(p) /\ Entry(p).kind = "dir"
  /\ LET made == IF Exists(p) THEN Directories(p)
                 ELSE Touched(Directories(p), {DirOf[p]})
     IN  inodes' = Put(made, p, [kind |-> "dir", data |-> << >>, mtime |-> Entry(p).mtime])
  /\ names' = Put(DirNames(p), p, p)
  /\ todo' = todo \ {p}
  /\ UNCHANGED <<restVars, command, before, gen, links, failed, result, live>>

(* A file that is no hard link, or the first of its links.                 *)
FirstLink(p) == Entry(p).nlink = 1 \/ Entry(p).ino \notin DOMAIN links

(* restore_first_link and restore_regular_file.  A chunk that cannot be    *)
(* had leaves part of the file, without its metadata; a checksum that does *)
(* not match is an error, but the metadata is set.                         *)
restore_first_link(p) ==
  /\ command = "restore" /\ IsNext(p) /\ Entry(p).kind = "file" /\ FirstLink(p)
  /\ LET e     == Entry(p)
         whole == AllReadable(e.chunks)
         file  == [kind |-> "file",
                   data |-> IF whole THEN restore_chunks(e.chunks) ELSE WrittenPart(e.chunks),
                   mtime |-> IF whole THEN e.mtime ELSE Now]
     IN  /\ inodes' = Put(Touched(Directories(p), {DirOf[p]}), p, file)
         /\ names' = Put(DirNames(p), p, p)
         /\ links' = IF e.nlink > 1 THEN Put(links, e.ino, [path |-> p, nlink |-> e.nlink])
                     ELSE links
         /\ failed' = (failed \/ ~whole \/ Contents(e.chunks) # e.md5)
  /\ todo' = todo \ {p}
  /\ UNCHANGED <<restVars, command, before, gen, result, live>>

(* restore_hardlink: no metadata is set.                                   *)
restore_hardlink(p) ==
  /\ command = "restore" /\ IsNext(p) /\ Entry(p).kind = "file" /\ ~FirstLink(p)
  /\ LET link == links[Entry(p).ino]
     IN  /\ names' = Put(DirNames(p), p, names[link.path])
         /\ links' = IF link.nlink <= 2
                     THEN [n \in DOMAIN links \ {Entry(p).ino} |-> links[n]]
                     ELSE [links EXCEPT ![Entry(p).ino].nlink = @ - 1]
  /\ inodes' = Touched(Directories(p), {DirOf[p]})
  /\ todo' = todo \ {p}
  /\ UNCHANGED <<restVars, command, before, gen, failed, result, live>>

(* restore_symlink does nothing; set_metadata makes the link.              *)
restore_symlink(p) ==
  /\ command = "restore" /\ IsNext(p) /\ Entry(p).kind = "symlink"
  /\ inodes' = Put(Touched(Directories(p), {DirOf[p]}), p,
                   [kind |-> "symlink", data |-> << >>, mtime |-> Entry(p).mtime])
  /\ names' = Put(DirNames(p), p, p)
  /\ todo' = todo \ {p}
  /\ UNCHANGED <<restVars, command, before, gen, links, failed, result, live>>

-----------------------------------------------------------------------------
(* Verify.                                                                 *)

Stored(p) == [kind |-> Entry(p).kind, mtime |-> Entry(p).mtime,
              data |-> IF Entry(p).kind = "file" THEN Entry(p).md5 ELSE << >>]

BackedUp(g) ==
  [p \in DOMAIN gens[g].files |->
     [kind |-> gens[g].files[p].kind, mtime |-> gens[g].files[p].mtime,
      data |-> IF p \in RegularFiles(g) THEN gens[g].files[p].md5 ELSE << >>]]

(* What was backed up, but for one file that has changed since.            *)
Altered(g, p, change) ==
  LET same == BackedUp(g)
  IN  IF change = "deleted" THEN [q \in DOMAIN same \ {p} |-> same[q]]
      ELSE IF change = "touched" THEN [same EXCEPT ![p].mtime = @ + 1]
      ELSE IF change = "replaced" THEN [same EXCEPT ![p].kind = "fifo"]
      ELSE IF p \notin RegularFiles(g) THEN same
      ELSE IF change = "longer" THEN [same EXCEPT ![p].data = Append(@, 1)]
      ELSE IF same[p].data = << >> THEN same
      ELSE IF change = "shorter" THEN [same EXCEPT ![p].data = Front(@)]
      ELSE [same EXCEPT ![p].data[1] = (@ + 1) % 2]

(* Live data is what was backed up, but for at most one change.            *)
verify_starts(g) ==
  /\ Starts("verify")
  /\ Unfinished(g) = {}
  /\ gen' = g /\ todo' = DOMAIN gens[g].files
  /\ \/ live' = BackedUp(g)
     \/ \E p \in DOMAIN BackedUp(g), change \in Changes : live' = Altered(g, p, change)
  /\ UNCHANGED <<restVars, names, inodes, links, failed, result>>

(* verify_metadata.                                                        *)
SameMetadata(p) ==
  /\ p \in DOMAIN live
  /\ live[p].kind = Entry(p).kind /\ live[p].mtime = Entry(p).mtime

(* verify_chunks reads the live file chunk by chunk and stops at the first *)
(* difference; verify_regular_file then looks for more data.               *)
SameChunk(p, i)  == i <= Len(live[p].data) /\ live[p].data[i] = store[Entry(p).chunks[i]]
FirstOther(p)    == {i \in DOMAIN Entry(p).chunks : ~SameChunk(p, i)}
Compared(p)      == IF FirstOther(p) = {} THEN DOMAIN Entry(p).chunks
                    ELSE 1 .. Min(FirstOther(p))
(* Faulty variant: nobody looks for more data after the last chunk.        *)
FaultySameData(p) == FirstOther(p) = {}

SameData(p)      == FirstOther(p) = {} /\ Len(live[p].data) = Len(Entry(p).chunks)

Differs(p) == ~SameMetadata(p) \/ (Entry(p).kind = "file" /\ ~SameData(p))

(* A chunk that cannot be had is no Fail: the exception ends verify.       *)
VerifyDies(p) ==
  /\ SameMetadata(p) /\ Entry(p).kind = "file"
  /\ \E i \in Compared(p) : ~Readable(Entry(p).chunks[i])

verify_file(p) ==
  /\ command = "verify" /\ IsNext(p)
  /\ IF VerifyDies(p)
     THEN /\ result' = "died" /\ command' = "over" /\ todo' = {}
          /\ UNCHANGED failed
     ELSE /\ failed' = (failed \/ Differs(p))
          /\ todo' = todo \ {p}
          /\ UNCHANGED <<command, result>>
  /\ UNCHANGED <<restVars, before, gen, names, inodes, links, live>>

-----------------------------------------------------------------------------

command_ends ==
  /\ command \in {"restore", "verify"} /\ todo = {}
  /\ result' = IF command = "restore" THEN "restored" ELSE "verified"
  /\ command' = "over"
  /\ UNCHANGED <<restVars, before, gen, todo, names, inodes, links, failed, live>>

RestoreNext ==
  \/ \E g \in DOMAIN gens : restore_starts(g) \/ verify_starts(g)
  \/ \E p \in todo :
       restore_dir(p) \/ restore_first_link(p) \/ restore_hardlink(p)
       \/ restore_symlink(p) \/ verify_file(p)
  \/ command_ends

RestoreTypeOK ==
  /\ gen \in DOMAIN gens \cup {NoGen} /\ todo \subseteq DOMAIN DirOf
  /\ DOMAIN names \subseteq DOMAIN DirOf
  /\ \A p \in DOMAIN names : names[p] \in DOMAIN inodes
  /\ failed \in BOOLEAN
  /\ result \in {"none", "restored", "verified", "died"}

-----------------------------------------------------------------------------
(* Names of one inode, and whether the generation has one file for all of  *)
(* them, with as many names as it says: backup_plugin.py:658-666 does not  *)
(* compare st_ino, and a generation can keep the number of an inode that   *)
(* is now another file.                                                    *)
SameInode(p, q) == Entry(p).nlink > 1 /\ Entry(q).nlink > 1 /\ Entry(p).ino = Entry(q).ino
NamesOf(p)      == {q \in RegularFiles(gen) : SameInode(p, q)}
Mistaken(p) ==
  \E q \in NamesOf(p) :
    \/ Entry(q).md5 # Entry(p).md5 \/ Entry(q).mtime # Entry(p).mtime
    \/ Entry(q).nlink < Cardinality(NamesOf(p))

RestoredRight(p) ==
  /\ p \in DOMAIN names
  /\ inodes[names[p]].kind = Entry(p).kind
  /\ inodes[names[p]].mtime = Entry(p).mtime
  /\ Entry(p).kind = "file" => inodes[names[p]].data = Entry(p).md5
  /\ Entry(p).kind = "file" =>
       \A q \in RegularFiles(gen) : names[p] = names[q] <=> (p = q \/ SameInode(p, q))

(* A restore that ends without errors has restored the generation: kinds,  *)
(* contents with their holes, modification times of files and directories, *)
(* and which names are links to one file, except for names the generation  *)
(* is mistaken about.  It only has errors when a chunk is damaged or a     *)
(* file was never finished.                                                *)
RestoreIsRight ==
  result = "restored" =>
    IF failed
    THEN \/ UsedChunks(gen) \cap damage # {}
         \/ Unfinished(gen) # {}
    ELSE \A p \in DOMAIN gens[gen].files :
           (p \in RegularFiles(gen) /\ Mistaken(p)) \/ RestoredRight(p)

(* Live data is not what the generation has now, in kind, mtime or         *)
(* contents.                                                               *)
DiffersNow(p) ==
  \/ p \notin DOMAIN live
  \/ [live[p] EXCEPT !.data = << >>] # [Stored(p) EXCEPT !.data = << >>]
  \/ p \in RegularFiles(gen) /\ live[p].data # Contents(Entry(p).chunks)

DamagedMeanwhile(p) ==
  p \in RegularFiles(gen) /\ ToSet(Entry(p).chunks) \cap (damage \ before) # {}

(* Verify ends with a failure exactly when the live data is not what the   *)
(* generation has.  Of a file that loses a chunk while verify runs it may  *)
(* have seen either contents: it passes such a file only if what is live   *)
(* is what was backed up or what is stored now, and fails because of it    *)
(* only if one of the two is not what is live.                             *)
VerifyIsRight ==
  result = "verified" =>
    IF failed
    THEN \E p \in DOMAIN gens[gen].files :
           DiffersNow(p) \/ (DamagedMeanwhile(p) /\ live[p] # Stored(p))
    ELSE \A p \in DOMAIN gens[gen].files :
           DiffersNow(p) => DamagedMeanwhile(p) /\ p \in DOMAIN live /\ live[p] = Stored(p)
=============================================================================
