------------------------------ MODULE RepoFiles ------------------------------
(***************************************************************************)
(* How a file of a repository is written and read back: RepositoryFS       *)
(* (repo_fs.py), the filter hook (hooks.py), the compression filter and    *)
(* the encryption filter (plugins/compression_plugin.py and                *)
(* encryption_plugin.py), and the commands that change who has the keys.   *)
(*                                                                         *)
(* Every toplevel directory has a symmetric key; the file "key" has it     *)
(* encrypted for some users, "userkeys" has their public keys.  Processes  *)
(* run with different settings, next to each other and after each other,   *)
(* and die; no lock is taken for any of this.                              *)
(***************************************************************************)
EXTENDS Naturals, Sequences, SequencesExt, FiniteSets

CONSTANTS
  Users,      \* users; each has one PGP key and runs one process at a time
  Toplevels,  \* toplevel directories
  DataTops,   \* bound: those in which data is written, in one file each
  Data,       \* what is written
  Packable    \* the data that compression makes smaller

ASSUME RepoFilesAssumption ==
  /\ DataTops \subseteq Toplevels /\ Packable \subseteq Data
  /\ Users \cap {"", "no file"} = {} /\ "" \notin Toplevels

VARIABLES
  exists,    \* the toplevels that have been made
  keyfile,   \* keyfile[t]: the users t/key is encrypted for; {}: no file
  userkeys,  \* userkeys[t]: the users with a key in t/userkeys, or NoRing
  stored,    \* stored[t]: [data, was]: the file, and what it should be
  process,   \* process[u]: [at, top, encrypt]
  symkeys,   \* symkeys[u]: toplevels in SymmetricKeyCache
  task,      \* the key command that runs: [by, op, key, left, top]
  granted,   \* granted[t]: who has been given access, and
  denied     \* denied[t]: who has lost it, by a finished step

filesVars == <<exists, keyfile, userkeys, stored, process, symkeys, task, granted, denied>>

NoRing == {"no file"}
NoFile == [data |-> [tag |-> "", rest |-> "none"], was |-> "none"]
Off    == [at |-> "off", top |-> "", encrypt |-> FALSE]
NoTask == [by |-> "", op |-> "none", key |-> "", left |-> {}, top |-> ""]

FilesInit ==
  /\ exists = {}
  /\ keyfile = [t \in Toplevels |-> {}] /\ userkeys = [t \in Toplevels |-> NoRing]
  /\ stored = [t \in DataTops |-> NoFile]
  /\ process = [u \in Users |-> Off] /\ symkeys = [u \in Users |-> {}]
  /\ task = NoTask
  /\ granted = [t \in Toplevels |-> {}] /\ denied = [t \in Toplevels |-> {}]

-----------------------------------------------------------------------------
(* Filters.  Data is [tag, rest]: a tag and what follows the zero byte.    *)
(* The tag "" is before the data itself.                                   *)

(* The callbacks, sorted by priority: early, late.                         *)
callbacks == <<"deflate", "encrypt1">>

(* get_symmetric_key: from the cache or from the file, or an exception.    *)
HasKey(u, t) == t \in symkeys[u] \/ u \in keyfile[t]

(* filter_write of the two filters: what only makes data longer, or is not *)
(* set, returns the data as it is.                                         *)
filter_write(f, u, compress, data) ==
  CASE f = "deflate" /\ compress /\ data.rest \in Packable ->
         [packed |-> data]
    [] f = "encrypt1" /\ process[u].encrypt -> [sealed |-> data]
    [] OTHER -> data

(* Faulty variant: every filter leaves its tag, also one that did nothing. *)
FaultyFilterWrite(u, compress, content) ==
  FoldLeft(LAMBDA data, f : [tag |-> f, rest |-> filter_write(f, u, compress, data)],
           [tag |-> "", rest |-> content], callbacks)

run_filter_write(u, compress, content) ==
  FoldLeft(LAMBDA data, f : LET new == filter_write(f, u, compress, data)
                            IN  IF new = data THEN data ELSE [tag |-> f, rest |-> new],
           [tag |-> "", rest |-> content], callbacks)

(* filter_read of the filter a tag names.                                  *)
Failure == [tag |-> "", rest |-> "error"]

filter_read(f, u, t, rest) ==
  CASE f = "deflate" /\ DOMAIN rest = {"packed"} -> rest.packed
    [] f = "encrypt1" /\ DOMAIN rest = {"sealed"} /\ HasKey(u, t) -> rest.sealed
    [] OTHER -> Failure

(* filter_next_tag, until the tag is empty.                                *)
filter_next_tag(u, t, data) ==
  IF data.tag = "" THEN data ELSE filter_read(data.tag, u, t, data.rest)

run_filter_read(u, t, data) ==
  FoldLeft(LAMBDA d, f : filter_next_tag(u, t, d), data, callbacks).rest

-----------------------------------------------------------------------------
(* Processes.                                                              *)

(* A key command needs --encrypt-with (quit_if_unencrypted).               *)
Start(u, encrypt) ==
  /\ process[u] = Off
  /\ process' = [process EXCEPT ![u] = [at |-> "running", top |-> "", encrypt |-> encrypt]]
  /\ UNCHANGED <<exists, keyfile, userkeys, stored, symkeys, task, granted, denied>>

(* A process ends, or dies in the middle of something; an exception ends   *)
(* it as well.                                                             *)
End(u) ==
  /\ process[u] # Off
  /\ process' = [process EXCEPT ![u] = Off]
  /\ symkeys' = [symkeys EXCEPT ![u] = {}]
  /\ task' = IF task.by = u THEN NoTask ELSE task
  /\ UNCHANGED <<exists, keyfile, userkeys, stored, granted, denied>>

(* A process at a stage of the making of a toplevel, and the key command   *)
(* at a toplevel, "" being before the next one.                            *)
Stage(u, at, top) == [process EXCEPT ![u] = [at |-> at, top |-> top, encrypt |-> @.encrypt]]
TaskAt(left, top) ==
  [by |-> task.by, op |-> task.op, key |-> task.key, left |-> left, top |-> top]

Running(u) == process[u].at = "running" /\ task.by # u

(* create_and_init_toplevel: of two processes one makes the directory.     *)
create_and_init_toplevel(u, t) ==
  /\ Running(u) /\ t \notin exists
  /\ exists' = exists \cup {t}
  /\ process' = IF process[u].encrypt THEN Stage(u, "key", t) ELSE process
  /\ UNCHANGED <<keyfile, userkeys, stored, symkeys, task, granted, denied>>

(* toplevel_init: the key, and then the public keys.                       *)
write_key(u) ==
  /\ process[u].at = "key"
  /\ LET t == process[u].top
     IN  /\ keyfile' = [keyfile EXCEPT ![t] = {u}]
         /\ granted' = [granted EXCEPT ![t] = {u}]
  /\ process' = Stage(u, "userkeys", process[u].top)
  /\ UNCHANGED <<exists, userkeys, stored, symkeys, task, denied>>

write_userkeys(u) ==
  /\ process[u].at = "userkeys"
  /\ userkeys' = [userkeys EXCEPT ![process[u].top] = {u}]
  /\ process' = Stage(u, "running", "")
  /\ UNCHANGED <<exists, keyfile, stored, symkeys, task, granted, denied>>

(* write_file and overwrite_file.  --compress-with is only looked at here.  *)
overwrite_file(u, t, compress, content) ==
  /\ Running(u) /\ t \in exists
  /\ process[u].encrypt => HasKey(u, t)
  /\ stored' = [stored EXCEPT ![t] = [data |-> run_filter_write(u, compress, content),
                                      was |-> content]]
  /\ symkeys' = IF process[u].encrypt THEN [symkeys EXCEPT ![u] = @ \cup {t}] ELSE symkeys
  /\ UNCHANGED <<exists, keyfile, userkeys, process, task, granted, denied>>

(* cat of a file that is encrypted: its key is remembered.                 *)
cat(u, t) ==
  /\ Running(u) /\ stored[t].data.tag = "encrypt1" /\ HasKey(u, t)
  /\ symkeys' = [symkeys EXCEPT ![u] = @ \cup {t}]
  /\ UNCHANGED <<exists, keyfile, userkeys, stored, process, task, granted, denied>>

-----------------------------------------------------------------------------
(* add_key and remove_key, one at a time: there is no lock to see to that, *)
(* and two of them can lose one of the changes.                            *)

KeyCommand(u, op, k, tops) ==
  /\ Running(u) /\ process[u].encrypt /\ task = NoTask
  /\ task' = [by |-> u, op |-> op, key |-> k, left |-> tops, top |-> ""]
  /\ UNCHANGED <<exists, keyfile, userkeys, stored, process, symkeys, granted, denied>>

CommandOf(u) == task.by = u /\ process[u].at = "running"

(* add_to_userkeys and remove_from_userkeys.                               *)
change_userkeys(u, t) ==
  /\ CommandOf(u) /\ task.top = "" /\ t \in task.left
  /\ HasKey(u, t) /\ userkeys[t] # NoRing
  /\ LET ring == IF task.op = "add" THEN userkeys[t] \cup {task.key}
                 ELSE userkeys[t] \ {task.key}
     IN  userkeys' = [userkeys EXCEPT ![t] = ring]
  /\ task' = TaskAt(task.left, t)
  /\ symkeys' = [symkeys EXCEPT ![u] = @ \cup {t}]
  /\ IF task.op = "add"
     THEN denied' = [denied EXCEPT ![t] = @ \ {task.key}] /\ UNCHANGED granted
     ELSE granted' = [granted EXCEPT ![t] = @ \ {task.key}] /\ UNCHANGED denied
  /\ UNCHANGED <<exists, keyfile, stored, process>>

(* Faulty variant: remove-key leaves the file "key" as it is.              *)
FaultyRewrite(u) ==
  /\ CommandOf(u) /\ task.top # "" /\ userkeys[task.top] # {}
  /\ LET t == task.top
     IN  /\ keyfile' = IF task.op = "add" THEN [keyfile EXCEPT ![t] = userkeys[t]] ELSE keyfile
         /\ IF task.op = "add"
            THEN granted' = [granted EXCEPT ![t] = @ \cup {task.key}] /\ UNCHANGED denied
            ELSE denied' = [denied EXCEPT ![t] = @ \cup {task.key}] /\ UNCHANGED granted
         /\ task' = IF task.left = {t} THEN NoTask
                    ELSE TaskAt(task.left \ {t}, "")
  /\ UNCHANGED <<exists, userkeys, stored, process, symkeys>>

(* gpg does not encrypt for nobody: when the last key has been removed the *)
(* command ends here with an exception, which End is.                      *)
rewrite_symmetric_key(u) ==
  /\ CommandOf(u) /\ task.top # "" /\ userkeys[task.top] # {}
  /\ LET t == task.top
     IN  /\ keyfile' = [keyfile EXCEPT ![t] = userkeys[t]]
         /\ IF task.op = "add"
            THEN granted' = [granted EXCEPT ![t] = @ \cup {task.key}] /\ UNCHANGED denied
            ELSE denied' = [denied EXCEPT ![t] = @ \cup {task.key}] /\ UNCHANGED granted
         /\ task' = IF task.left = {t} THEN NoTask
                    ELSE TaskAt(task.left \ {t}, "")
  /\ UNCHANGED <<exists, userkeys, stored, process, symkeys>>

FilesNext ==
  \E u \in Users :
    \/ \E encrypt \in BOOLEAN : Start(u, encrypt)
    \/ End(u) \/ write_key(u) \/ write_userkeys(u) \/ rewrite_symmetric_key(u)
    \/ \E t \in Toplevels : create_and_init_toplevel(u, t) \/ change_userkeys(u, t)
    \/ \E t \in DataTops :
         \/ cat(u, t)
         \/ \E compress \in BOOLEAN, content \in Data : overwrite_file(u, t, compress, content)
    \/ \E k \in Users, op \in {"add", "remove"} : KeyCommand(u, op, k, Toplevels)

FilesSpec == FilesInit /\ [][FilesNext]_filesVars

FilesTypeOK ==
  /\ exists \subseteq Toplevels
  /\ keyfile \in [Toplevels -> SUBSET Users] /\ userkeys \in [Toplevels -> {NoRing} \cup SUBSET Users]
  /\ \A u \in Users : process[u].at \in {"off", "running", "key", "userkeys"}
  /\ symkeys \in [Users -> SUBSET Toplevels]
  /\ task.left \subseteq Toplevels /\ task.op \in {"none", "add", "remove"}

-----------------------------------------------------------------------------
Sealed(t) == stored[t].data.tag = "encrypt1"

(* Whatever the settings a file was written with, and whatever they are    *)
(* now, a process reads back what was written.  Only an encrypted file     *)
(* can fail to be read, and never for a user who has been given access.    *)
WrittenIsRead ==
  \A t \in DataTops, u \in Users :
    process[u] # Off /\ stored[t].was # "none" =>
      LET got == run_filter_read(u, t, stored[t].data)
      IN  \/ got = stored[t].was
          \/ got = "error" /\ Sealed(t) /\ u \notin granted[t]

(* Who has been given access to a toplevel keeps it until a remove-key     *)
(* begins on it, and who has been removed stays out until an add-key,      *)
(* although key commands and the making of toplevels die half-way.         *)
KeysAreKept ==
  \A t \in Toplevels :
    granted[t] \subseteq keyfile[t] /\ denied[t] \cap keyfile[t] = {}
=============================================================================
