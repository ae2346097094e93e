-------------------------------- MODULE AtRest --------------------------------
(***************************************************************************)
(* A format 6 repository that no backup works on, as the commands that     *)
(* read it back see it: generations of files, the chunks, and the          *)
(* checksums of the chunks (the chunklist index).  A storage device may    *)
(* lose a chunk, change it, or change it so that the filters (encryption,  *)
(* compression) cannot read it any more.                                   *)
(*                                                                         *)
(* A chunk has the size of one byte, and the checksum of data is the data: *)
(* only whether two checksums are the same matters.                        *)
(***************************************************************************)
EXTENDS Naturals, Sequences, SequencesExt, FiniteSetsExt, TLC

CONSTANTS
  Repositories,  \* repositories: [gens |-> ..., store |-> ...]
  Top,           \* the path "/"
  DirOf,         \* DirOf[p]: os.path.dirname(p)
  Bytes,         \* what a chunk may hold; Zero is one of them
  Lost,          \* of a chunk that is gone: has_chunk is false
  Garbled,       \* of a chunk get_chunk_content raises an exception for
  NoSum          \* the checksum of a file that was not finished

Zero == 0

ASSUME StoredAssumption ==
  /\ Bytes \subseteq Nat /\ Zero \in Bytes
  /\ {Lost, Garbled} \cap Bytes = {} /\ Lost # Garbled

(* A path leads up to the root.                                            *)
Upwards(S) == \A q \in S \ {Top} : DirOf[q] \in S

ASSUME PathsAssumption ==
  /\ IsFiniteSet(DOMAIN DirOf) /\ Top \in DOMAIN DirOf
  /\ DirOf \in [DOMAIN DirOf -> DOMAIN DirOf]
  /\ \A p \in DOMAIN DirOf, S \in SUBSET DOMAIN DirOf : p \in S /\ Upwards(S) => Top \in S

(* What backups leave: in a generation, the directory of each file; of a   *)
(* file, a name at least, chunks that are in the store and, if it was      *)
(* finished, a checksum of what they hold.                                 *)
IsTree(files) ==
  /\ Top \in DOMAIN files /\ DOMAIN files \subseteq DOMAIN DirOf
  /\ files[Top].kind = "dir"
  /\ \A p \in DOMAIN files \ {Top} :
       DirOf[p] \in DOMAIN files /\ files[DirOf[p]].kind = "dir"

HasChunks(entry, contents) ==
  /\ entry.chunks \in Seq(DOMAIN contents)
  /\ entry.kind \in {"dir", "file", "symlink"}
  /\ entry.kind = "file" =>
       /\ entry.nlink \in Nat \ {0}
       /\ entry.md5 \in {NoSum, [i \in DOMAIN entry.chunks |-> contents[entry.chunks[i]]]}

ASSUME RepositoriesAssumption ==
  \A r \in Repositories :
    /\ DOMAIN r.gens = 1 .. Len(r.gens) /\ Len(r.gens) \in Nat
    /\ r.store \in [DOMAIN r.store -> Bytes]
    /\ \A g \in DOMAIN r.gens :
         /\ IsTree(r.gens[g].files)
         /\ \A p \in DOMAIN r.gens[g].files : HasChunks(r.gens[g].files[p], r.store)

VARIABLES
  gens,      \* generations: [client, files: path -> entry], oldest first
  store,     \* chunk -> a byte, Lost or Garbled
  sums,      \* chunklist: chunk -> its checksum
  command,   \* the command that runs, "none" before it, "over" after it
  damage,    \* the chunks that have been damaged
  before     \* damage, when the command started

restVars == <<gens, store, sums, damage>>

(* The entry of a file: its kind ("dir", "file" or "symlink"), mtime,      *)
(* st_ino and st_nlink, chunks, and whole-file checksum (md5).             *)

RestInit ==
  /\ \E r \in Repositories : gens = r.gens /\ store = r.store
  /\ sums = store
  /\ command = "none"
  /\ damage = {} /\ before = {}

Damage ==
  /\ damage = {} /\ command # "over"
  /\ \E c \in DOMAIN store :
       /\ \E bad \in ({Lost, Garbled} \cup Bytes) \ {store[c]} : store' = [store EXCEPT ![c] = bad]
       /\ damage' = {c}
  /\ UNCHANGED <<gens, sums, command, before>>

(* Bound: one command runs.                                                *)
Starts(what) ==
  /\ command = "none"
  /\ command' = what
  /\ before' = damage

(* get_chunk_content returns data, or raises an exception.                 *)
Readable(c) == store[c] \in Bytes

get_chunk_ids == {c \in DOMAIN store : store[c] # Lost}

(* What a file is: the contents of its chunks, one after the other.        *)
AllReadable(chunks) == \A i \in DOMAIN chunks : Readable(chunks[i])
Contents(chunks)    == [i \in DOMAIN chunks |-> store[chunks[i]]]

RegularFiles(g) == {p \in DOMAIN gens[g].files : gens[g].files[p].kind = "file"}
UsedChunks(g)   == UNION {ToSet(gens[g].files[p].chunks) : p \in RegularFiles(g)}

(* A file a checkpoint was made in the middle of has no checksum yet       *)
(* (backup_plugin.py:768-772, 774-776).                                    *)
Unfinished(g) == {p \in RegularFiles(g) : gens[g].files[p].md5 = NoSum}

RestTypeOK ==
  /\ DOMAIN sums \subseteq DOMAIN store
  /\ \A c \in DOMAIN store : store[c] \in Bytes \cup {Lost, Garbled}
  /\ command \in {"none", "fsck", "restore", "verify", "over"}
  /\ before \subseteq damage /\ damage \subseteq DOMAIN store
=============================================================================
