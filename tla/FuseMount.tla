------------------------------ MODULE FuseMount ------------------------------
(***************************************************************************)
(* The mount command (plugins/fuse_plugin.py): a process that shows the    *)
(* generations of a client as directories, for as long as it runs, while   *)
(* backup and forget commands work on the repository.  What it has read of *)
(* the repository stays as it was until somebody reads "/.pid": then the   *)
(* repository is opened again.  The sizes of chunks are remembered for     *)
(* ever.                                                                   *)
(*                                                                         *)
(* A generation has one file; its number is its place in gens.             *)
(***************************************************************************)
EXTENDS Naturals, Sequences, SequencesExt, FiniteSetsExt

CONSTANTS
  BytesOf,     \* BytesOf[c]: the content of chunk c, a sequence of bytes
  FileShapes,  \* what the file can be: [chunks, size]; st_size is not what
               \* was read when the file changed during the backup
  MaxGens,     \* bound: generations made
  MaxRead      \* bound: offsets and lengths that are read

ASSUME FuseAssumption ==
  /\ \A c \in DOMAIN BytesOf : BytesOf[c] \in Seq(Nat)
  /\ FileShapes \subseteq [chunks : Seq(DOMAIN BytesOf), size : Nat]
  /\ MaxGens \in Nat /\ MaxRead \in Nat

VARIABLES
  gens6,     \* every generation: [checkpoint, file, there]
  opened,    \* the generations the opened repository lists
  rootlist,  \* the generations shown, by number
  sizes,     \* chunk_sizes: the chunks whose size is known
  handle,    \* an open file: [number, size], or Unopened
  reply,     \* of this step, if it is a read: [number, offset, length, ok, data]
  mount      \* "no", "yes", or "failed"

fuseVars == <<gens6, opened, rootlist, sizes, handle, reply, mount>>

Unopened == [number |-> 0, size |-> 0]
NoReply  == [number |-> 0, offset |-> 0, length |-> 0, ok |-> TRUE, data |-> << >>]

FuseInit ==
  /\ gens6 = << >> /\ opened = {} /\ rootlist = {}
  /\ sizes = {} /\ handle = Unopened /\ reply = NoReply /\ mount = "no"

There        == {n \in DOMAIN gens6 : gens6[n].there}
ChunksIn(ns) == UNION {ToSet(gens6[n].file.chunks) : n \in ns}

(* A chunk no generation uses any more has been removed, and its id is not *)
(* used again.                                                             *)
Removed == ChunksIn(DOMAIN gens6) \ ChunksIn(There)

backup(checkpoint, file) ==
  /\ Len(gens6) < MaxGens /\ ToSet(file.chunks) \cap Removed = {}
  /\ gens6' = Append(gens6, [checkpoint |-> checkpoint, file |-> file, there |-> TRUE])
  /\ UNCHANGED <<opened, rootlist, sizes, handle, mount>>

forget_generation(n) ==
  /\ n \in There
  /\ gens6' = [gens6 EXCEPT ![n].there = FALSE]
  /\ UNCHANGED <<opened, rootlist, sizes, handle, mount>>

(* reopen and init_root.  Checkpoints are not shown; when there is nothing *)
(* else, an assertion fails, after rootlist has been emptied: mount ends,  *)
(* a mount that runs goes on and shows nothing.                            *)
Shown == {n \in There : ~gens6[n].checkpoint}

start_mount ==
  /\ mount = "no"
  /\ opened' = There /\ rootlist' = Shown
  /\ mount' = IF Shown = {} THEN "failed" ELSE "yes"
  /\ UNCHANGED <<gens6, sizes, handle>>

(* Faulty variant: the list is made again, the repository is not reopened. *)
FaultyRefresh ==
  /\ mount = "yes"
  /\ rootlist' = Shown
  /\ UNCHANGED <<gens6, opened, sizes, handle, mount>>

root_refresh ==
  /\ mount = "yes"
  /\ opened' = There /\ rootlist' = Shown
  /\ UNCHANGED <<gens6, sizes, handle, mount>>

(* ObnamFuseFile: the metadata is of the time the file is opened.  What is *)
(* forgotten may have gone from the B-tree by then.                        *)
open(n) ==
  /\ mount = "yes" /\ n \in rootlist \cap There
  /\ handle' = [number |-> n, size |-> gens6[n].file.size]
  /\ UNCHANGED <<gens6, opened, rootlist, sizes, mount>>

release ==
  /\ handle # Unopened
  /\ handle' = Unopened
  /\ UNCHANGED <<gens6, opened, rootlist, sizes, mount>>

-----------------------------------------------------------------------------
(* read_data: the loop over the chunks of the file, with the output so     *)
(* far, chunk_pos_in_file, and the sizes known.                            *)

Size(c)  == Len(BytesOf[c])
Least(a, b) == IF a < b THEN a ELSE b

(* Faulty variant: a chunk before the offset is skipped, its size is not.  *)
FaultyReadChunk(loop, c, offset, length) ==
  LET next  == offset + Len(loop.output)
      start == next - loop.pos
      n     == Least(length - Len(loop.output), Size(c) - start)
      here  == loop.pos + Size(c) > next
  IN  IF ~loop.ok \/ (Len(loop.output) = length) \/ ~here THEN loop
      ELSE IF c \in Removed THEN [loop EXCEPT !.ok = FALSE]
      ELSE [ok     |-> TRUE,
            output |-> loop.output \o SubSeq(BytesOf[c], start + 1, start + n),
            pos    |-> loop.pos + Size(c),
            sizes  |-> loop.sizes \cup {c}]

read_chunk(loop, c, offset, length) ==
  LET next  == offset + Len(loop.output)
      start == next - loop.pos
      n     == Least(length - Len(loop.output), Size(c) - start)
      here  == loop.pos + Size(c) > next
  IN  IF ~loop.ok \/ (Len(loop.output) = length) THEN loop
      ELSE IF c \in Removed /\ (here \/ c \notin loop.sizes) THEN [loop EXCEPT !.ok = FALSE]
      ELSE [ok     |-> TRUE,
            output |-> IF here THEN loop.output \o SubSeq(BytesOf[c], start + 1, start + n)
                       ELSE loop.output,
            pos    |-> loop.pos + Size(c),
            sizes  |-> loop.sizes \cup {c}]

read_data(chunkids, offset, length) ==
  FoldLeft(LAMBDA loop, c : read_chunk(loop, c, offset, length),
           [ok |-> TRUE, output |-> << >>, pos |-> 0, sizes |-> sizes], chunkids)

Replies(ok, data, offset, length) ==
  reply' = [number |-> handle.number, offset |-> offset, length |-> length,
            ok |-> ok, data |-> data]

(* The generation and its chunk ids are looked up again for each read.     *)
read(offset, length) ==
  /\ handle # Unopened
  /\ LET n    == handle.number
         loop == read_data(gens6[n].file.chunks, offset, length)
     IN  IF length = 0 \/ offset >= handle.size
         THEN Replies(TRUE, << >>, offset, length) /\ UNCHANGED sizes
         ELSE \/ /\ n \in opened
                 /\ Replies(loop.ok, IF loop.ok THEN loop.output ELSE << >>, offset, length)
                 /\ sizes' = loop.sizes
              \/ /\ n \notin opened \cap There
                 /\ Replies(FALSE, << >>, offset, length) /\ UNCHANGED sizes
  /\ UNCHANGED <<gens6, opened, rootlist, handle, mount>>

FuseNext ==
  \/ /\ reply' = NoReply
     /\ \/ start_mount \/ root_refresh \/ release
        \/ \E file \in FileShapes, checkpoint \in BOOLEAN : backup(checkpoint, file)
        \/ \E n \in DOMAIN gens6 : forget_generation(n) \/ open(n)
  \/ \E offset, length \in 0 .. MaxRead : read(offset, length)

FuseSpec == FuseInit /\ [][FuseNext]_fuseVars

FuseTypeOK ==
  /\ Len(gens6) <= MaxGens /\ opened \subseteq DOMAIN gens6 /\ rootlist \subseteq opened
  /\ sizes \subseteq DOMAIN BytesOf /\ handle.number \in 0 .. Len(gens6)
  /\ mount \in {"no", "yes", "failed"}

-----------------------------------------------------------------------------
Whole(n) == FlattenSeq([i \in DOMAIN gens6[n].file.chunks |-> BytesOf[gens6[n].file.chunks[i]]])

(* However big the chunks are, whatever was read before, and whatever      *)
(* backups, forgets and refreshes happen meanwhile, a read of an open file *)
(* answers with that part of the file's content in the generation that was *)
(* opened, and only fails once the generation has been forgotten.          *)
ReadIsSlice ==
  reply.number # 0 =>
    IF ~reply.ok THEN ~gens6[reply.number].there
    ELSE reply.data =
           IF reply.offset >= gens6[reply.number].file.size THEN << >>
           ELSE SubSeq(Whole(reply.number), reply.offset + 1,
                       Least(reply.offset + reply.length, Len(Whole(reply.number))))
=============================================================================
