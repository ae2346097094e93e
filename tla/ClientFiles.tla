----------------------------- MODULE ClientFiles -----------------------------
(***************************************************************************)
(* What a repository promises about the files of one client                *)
(* (repo_interface.py: the methods about generations and files, and the    *)
(* tests RepositoryInterfaceTests has of them).  A generation is a map     *)
(* from path names to metadata and chunks.  It starts as a copy of the     *)
(* latest one, it can be changed until it is committed, and never again.   *)
(* Unlocking forgets what has not been committed.                          *)
(***************************************************************************)
EXTENDS Naturals, Sequences, SequencesExt

CONSTANTS
  Files,    \* path names
  Root,     \* the path "/"
  Parent,   \* Parent[f]: os.path.dirname(f)
  Above,    \* Above[f]: f and the directories above it
  Metas,    \* what the file keys of a file can be
  Chunks    \* identifiers of chunks

VARIABLES
  saved,    \* the committed generations, oldest first
  view,     \* the generations as the process with the lock sees them
  current,  \* number of the generation it has created, or 0
  open,     \* whether that one can still be changed
  locked    \* whether the client is locked

vars == <<saved, view, current, open, locked>>

(* What the methods answer about a generation with these files:            *)
(* get_file_children for its directories, get_generation_chunk_ids, and    *)
(* file_exists, get_file_key and get_file_chunk_ids for each file.         *)
Generation(n, files) ==
  [ number   |-> n,
    files    |-> files,
    children |-> [f \in DOMAIN files |->
                    {g \in DOMAIN files \ {Root} : Parent[g] = f}],
    chunks   |-> UNION {ToSet(files[f].chunks) : f \in DOMAIN files} ]

Numbers(gens) == {gens[i].number : i \in DOMAIN gens}

Init ==
  /\ saved = << >> /\ view = << >>
  /\ current = 0 /\ open = FALSE
  /\ locked = FALSE

Lock ==
  /\ ~locked
  /\ locked' = TRUE
  /\ view' = saved
  /\ UNCHANGED <<saved, current, open>>

create_generation ==
  /\ locked /\ UNCHANGED locked
  /\ current = 0 /\ open' = TRUE
  /\ current' \in Nat \ ({0} \cup Numbers(view) \cup Numbers(saved))
  /\ view' = Append(view, Generation(current', IF view = << >> THEN << >>
                                               ELSE Last(view).files))
  /\ UNCHANGED saved

-----------------------------------------------------------------------------
(* Changes to the created generation: what becomes of its files.           *)

(* add_file and set_file_keys_from_metadata.                               *)
add_file(files, f, m) ==
  [g \in DOMAIN files \cup {f} |->
     IF g # f THEN files[g]
     ELSE [meta |-> m, chunks |-> IF f \in DOMAIN files THEN files[f].chunks ELSE << >>]]

(* A file is removed with what is in it, as far as directories have been   *)
(* added down to it: a file may be added before its directory is.          *)
Inside(files, f) ==
  {g \in Files : f \in Above[g] /\ Above[g] \ (Above[f] \cup {g}) \subseteq DOMAIN files}

remove_file(files, f) ==
  [g \in DOMAIN files \ Inside(files, f) |-> files[g]]

clear_file_chunk_ids(files, f) == [files EXCEPT ![f].chunks = << >>]

append_file_chunk_id(files, f, c) == [files EXCEPT ![f].chunks = Append(@, c)]

WaysToChange(files) ==
  {add_file(files, f, m) : f \in Files, m \in Metas}
  \cup {remove_file(files, f) : f \in Files}
  \cup {clear_file_chunk_ids(files, f) : f \in DOMAIN files}
  \cup {append_file_chunk_id(files, f, c) : f \in DOMAIN files, c \in Chunks}

(* The created generation is the last one, and something in it changes.    *)
change ==
  /\ locked /\ open
  /\ UNCHANGED <<current, open, locked>>
  /\ \E old \in {view}, new \in {view'} :
       LET files == Last(new).files
       IN  /\ files # Last(old).files
           /\ new = Append(Front(old), Generation(current, files))
           /\ files \in WaysToChange(Last(old).files)
  /\ UNCHANGED saved

-----------------------------------------------------------------------------

(* The removed generation may be the unfinished one.                       *)
remove_generation(n) ==
  /\ locked /\ UNCHANGED locked
  /\ current' = IF current = n THEN 0 ELSE current
  /\ open' = (open /\ current # n)
  /\ view' = SelectSeq(view, LAMBDA gen : gen.number # n)
  /\ UNCHANGED saved

commit_client ==
  /\ locked /\ UNCHANGED locked
  /\ open' = FALSE /\ UNCHANGED current
  /\ saved' = view
  /\ UNCHANGED view

(* unlock_client, and a process that dies.                                 *)
Forget ==
  /\ current' = 0 /\ open' = FALSE
  /\ view' = << >> /\ UNCHANGED saved

unlock_client == locked /\ locked' = FALSE /\ Forget
Die           == locked /\ locked' = TRUE  /\ Forget

Next ==
  \/ Lock \/ create_generation \/ change
  \/ commit_client \/ unlock_client \/ Die
  \/ \E n \in Numbers(view) : remove_generation(n)

Spec == Init /\ [][Next]_vars
=============================================================================
