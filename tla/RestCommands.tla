---------------------------- MODULE RestCommands ----------------------------
(***************************************************************************)
(* A repository that is read back: one command runs on it, fsck, restore   *)
(* or verify, and a storage device may damage it before and meanwhile.     *)
(***************************************************************************)
EXTENDS Fsck, Restore

atRestVars == <<restVars, command, before, fsckVars, restoreVars>>

AtRestInit == RestInit /\ FsckInit /\ RestoreInit

AtRestNext ==
  \/ FsckNext /\ UNCHANGED restoreVars
  \/ RestoreNext /\ UNCHANGED fsckVars
  \/ Damage /\ UNCHANGED <<fsckVars, restoreVars>>

AtRestSpec == AtRestInit /\ [][AtRestNext]_atRestVars
=============================================================================
