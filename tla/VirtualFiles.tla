----------------------------- MODULE VirtualFiles -----------------------------
(***************************************************************************)
(* How files come into being in a virtual file system (vfs.py).  There are *)
(* three kinds: a local one (vfs_local.py), a local one that cannot link,  *)
(* such as VFAT, and SFTP (plugins/sftp_plugin.py).                        *)
(*                                                                         *)
(* Lock files, chunks, reserved identifiers and the roots of all trees are *)
(* made by these calls.  Several processes make them at once, in one       *)
(* directory, and each can die or lose its connection between any two      *)
(* system calls.  Data is a sequence of pieces: what is written at a time. *)
(***************************************************************************)
EXTENDS Naturals, Sequences, FiniteSets, SequencesExt

CONSTANTS
  Writers,   \* processes
  Paths,     \* the files of one directory
  Roots,     \* those which are written under a lock only, with overwrite_file
  Written,   \* what is written: sequences of pieces
  MaxCalls   \* bound: calls begun

ASSUME WrittenAssumption == Written \subseteq Seq(UNION {Range(d) : d \in Written})

VARIABLES
  backend,   \* "local", "no links" or "sftp"
  folder,    \* whether the directory exists
  present,   \* the files in it: path -> data
  temps,     \* temporary files: [name, path, data], path is what they are for
  calls,     \* calls[p]: [at, op, path, data, temp, left], left to be written
  latest,    \* latest[f]: the data of the last call that succeeded, or has
             \* gone too far to undo, and who made the file with write_file
  begun      \* the number of calls begun

virtualVars == <<backend, folder, present, temps, calls, latest, begun>>

NoData  == <<"none">>
NoCall  == [at |-> "idle", op |-> "", path |-> "", data |-> << >>, temp |-> 0, left |-> << >>]
Missing == [data |-> NoData, by |-> {}]

VirtualInit ==
  /\ backend \in {"local", "no links", "sftp"}
  /\ folder = FALSE /\ present = << >> /\ temps = {}
  /\ calls = [p \in Writers |-> NoCall]
  /\ latest = [f \in Paths |-> Missing]
  /\ begun = 0

CallAt(p, at) == calls[p].at = at
Goes(p, at)   == calls' = [calls EXCEPT ![p].at = at]
Ends(p)       == calls' = [calls EXCEPT ![p] = NoCall]

Holding(f, data) == [g \in DOMAIN present \cup {f} |-> IF g = f THEN data ELSE present[g]]
Lacking(f)       == [g \in DOMAIN present \ {f} |-> present[g]]

TempOf(p)  == {t \in temps : t.name = calls[p].temp}
NewTemp(p, data) == [name |-> calls[p].temp, path |-> calls[p].path, data |-> data]

(* The call of p has succeeded: its file is there.                         *)
Succeeds(p) ==
  LET c == calls[p]
  IN  latest' = [latest EXCEPT ![c.path] =
                   [data |-> c.data, by |-> IF c.op = "write" THEN @.by \cup {p} ELSE {}]]

(* How callers use paths.  Who overwrites a root, or removes a file that   *)
(* he has not made, has it locked; lock files, chunks and identifiers are  *)
(* made with write_file, and only their maker overwrites them.             *)
Undisturbed(p, f) == \A q \in Writers \ {p} : calls[q].path # f
MayBegin(p, op, f) ==
  IF f \in Roots THEN op = "overwrite" /\ Undisturbed(p, f)
  ELSE op = "overwrite" => p \in latest[f].by
MayRemove(p, f) == p \in latest[f].by \/ Undisturbed(p, f)

(* write_file, overwrite_file, and lock, which writes an empty file.       *)
begin(p, op, f, data) ==
  /\ CallAt(p, "idle") /\ begun < MaxCalls
  /\ MayBegin(p, op, f)
  /\ begun' = begun + 1
  /\ calls' = [calls EXCEPT ![p] =
                 [at |-> IF op = "write" /\ backend = "sftp" THEN "open" ELSE "tempfile",
                  op |-> op, path |-> f, data |-> data, temp |-> begun', left |-> data]]
  /\ UNCHANGED <<backend, folder, present, temps, latest>>

(* Faulty variant: the old file goes before the new one is written.        *)
FaultyTempfile(p) ==
  /\ CallAt(p, "tempfile")
  /\ folder' = TRUE
  /\ temps' = temps \cup {NewTemp(p, << >>)}
  /\ present' = IF backend = "sftp" THEN Lacking(calls[p].path) ELSE present
  /\ Goes(p, "fill")
  /\ UNCHANGED <<backend, latest, begun>>

(* A temporary file in the directory, which is made if it is missing, no   *)
(* matter by whom.  Data that does not fit leaves it as it is.             *)
make_tempfile(p) ==
  /\ CallAt(p, "tempfile")
  /\ folder' = TRUE
  /\ temps' = temps \cup {NewTemp(p, << >>)}
  /\ Goes(p, "fill")
  /\ UNCHANGED <<backend, present, latest, begun>>

fill_tempfile(p) ==
  /\ CallAt(p, "fill")
  /\ temps' = (temps \ TempOf(p)) \cup {NewTemp(p, calls[p].data)}
  /\ Goes(p, IF calls[p].op = "write" THEN "link"
             ELSE IF backend = "sftp" THEN "remove" ELSE "rename")
  /\ UNCHANGED <<backend, folder, present, latest, begun>>

-----------------------------------------------------------------------------
(* LocalFS.                                                                *)

(* _rename_temp_to_real: a link, which cannot replace a file, ...          *)
link_temp(p) ==
  /\ CallAt(p, "link")
  /\ IF backend = "local" /\ calls[p].path \notin DOMAIN present
     THEN /\ present' = Holding(calls[p].path, calls[p].data)
          /\ temps' = temps \ TempOf(p)
          /\ Succeeds(p) /\ Ends(p)
     ELSE Goes(p, "create") /\ UNCHANGED <<present, temps, latest>>
  /\ UNCHANGED <<backend, folder, begun>>

(* Faulty variant: the file may be there already.                          *)
FaultyCreate(p) ==
  /\ CallAt(p, "create")
  /\ present' = Holding(calls[p].path, << >>)
  /\ Goes(p, "rename")
  /\ UNCHANGED <<backend, folder, temps, latest, begun>>

(* ... or else an empty file that is created exclusively, and is replaced  *)
(* by the temporary one.  An error here is an error to the caller.         *)
create_exclusively(p) ==
  /\ CallAt(p, "create")
  /\ IF calls[p].path \notin DOMAIN present
     THEN /\ present' = Holding(calls[p].path, << >>)
          /\ Goes(p, "rename")
          /\ UNCHANGED temps
     ELSE /\ temps' = temps \ TempOf(p)
          /\ Ends(p)
          /\ UNCHANGED present
  /\ UNCHANGED <<backend, folder, latest, begun>>

(* The end of this, and of LocalFS.overwrite_file.                         *)
rename_temp(p) ==
  /\ CallAt(p, "rename") /\ backend # "sftp"
  /\ present' = Holding(calls[p].path, calls[p].data)
  /\ temps' = temps \ TempOf(p)
  /\ Succeeds(p) /\ Ends(p)
  /\ UNCHANGED <<backend, folder, begun>>

-----------------------------------------------------------------------------
(* SftpFS.                                                                 *)

(* write_file opens the file exclusively; what is there is an error.  In a *)
(* directory that is missing, it is tried once more after makedirs.        *)
open_exclusively(p) ==
  /\ CallAt(p, "open")
  /\ LET f == calls[p].path
     IN  \/ /\ ~folder /\ Goes(p, "makedirs")
            /\ UNCHANGED <<present, latest>>
         \/ /\ folder /\ f \in DOMAIN present /\ Ends(p)
            /\ UNCHANGED <<present, latest>>
         \/ /\ folder /\ f \notin DOMAIN present /\ Goes(p, "write")
            /\ present' = Holding(f, << >>)
            /\ latest' = [latest EXCEPT ![f] = Missing]
  /\ UNCHANGED <<backend, folder, temps, begun>>

(* It is an error if somebody else has made the directory by now.          *)
makedirs(p) ==
  /\ CallAt(p, "makedirs")
  /\ IF folder THEN Ends(p) ELSE Goes(p, "open")
  /\ folder' = TRUE
  /\ UNCHANGED <<backend, present, temps, latest, begun>>

write_piece(p) ==
  /\ CallAt(p, "write")
  /\ LET c == calls[p]
     IN  IF c.left = << >>
         THEN Succeeds(p) /\ Ends(p) /\ UNCHANGED present
         ELSE /\ present' = Holding(c.path, Append(present[c.path], Head(c.left)))
              /\ calls' = [calls EXCEPT ![p].left = Tail(@)]
              /\ UNCHANGED latest
  /\ UNCHANGED <<backend, folder, temps, begun>>

(* rename cannot replace a file over SFTP: the old one is removed first.   *)
remove_if_exists(p) ==
  /\ CallAt(p, "remove")
  /\ present' = Lacking(calls[p].path)
  /\ latest' = [latest EXCEPT ![calls[p].path] = [data |-> calls[p].data, by |-> {}]]
  /\ Goes(p, "rename")
  /\ UNCHANGED <<backend, folder, temps, begun>>

sftp_rename(p) ==
  /\ CallAt(p, "rename") /\ backend = "sftp"
  /\ IF calls[p].path \in DOMAIN present
     THEN UNCHANGED <<present, temps, latest>>
     ELSE /\ present' = Holding(calls[p].path, calls[p].data)
          /\ temps' = temps \ TempOf(p)
          /\ Succeeds(p)
  /\ Ends(p)
  /\ UNCHANGED <<backend, folder, begun>>

-----------------------------------------------------------------------------
(* remove and unlock.                                                      *)
remove_path(p, f) ==
  /\ CallAt(p, "idle") /\ f \in DOMAIN present
  /\ MayRemove(p, f)
  /\ present' = Lacking(f)
  /\ latest' = [latest EXCEPT ![f] = Missing]
  /\ UNCHANGED <<backend, folder, temps, calls, begun>>

(* The process dies, or a system call fails for another reason.            *)
call_dies(p) ==
  /\ ~CallAt(p, "idle")
  /\ Ends(p)
  /\ UNCHANGED <<backend, folder, present, temps, latest, begun>>

VirtualNext ==
  \E p \in Writers :
    \/ \E f \in Paths : remove_path(p, f) \/ \E op \in {"write", "overwrite"}, d \in Written : begin(p, op, f, d)
    \/ make_tempfile(p) \/ fill_tempfile(p) \/ link_temp(p) \/ create_exclusively(p) \/ rename_temp(p)
    \/ open_exclusively(p) \/ makedirs(p) \/ write_piece(p)
    \/ remove_if_exists(p) \/ sftp_rename(p)
    \/ call_dies(p)

VirtualSpec == VirtualInit /\ [][VirtualNext]_virtualVars

VirtualTypeOK ==
  /\ DOMAIN present \subseteq Paths
  /\ \A f \in DOMAIN present : \E d \in Written : IsPrefix(present[f], d)
  /\ \A t \in temps : t.path \in Paths /\ t.data \in Written \cup {<< >>}
  /\ begun \in 0 .. MaxCalls

-----------------------------------------------------------------------------
(* Whatever other processes do, and wherever they die: of those that call  *)
(* write_file for one path at most one succeeds, unless the file was       *)
(* removed between (so that a lock has one owner and an identifier is      *)
(* reserved once); and what a call has written is found whole until        *)
(* another call makes the file anew.  Only over SFTP it can be missing, to *)
(* readers and after a crash in the middle of overwrite_file, and then its *)
(* replacement is whole in a temporary file.                               *)
WrittenStays ==
  \A f \in Paths :
    /\ Cardinality(latest[f].by) <= 1
    /\ latest[f] # Missing =>
         IF f \in DOMAIN present THEN present[f] = latest[f].data
         ELSE backend = "sftp" /\ \E t \in temps : t.path = f /\ t.data = latest[f].data
=============================================================================
