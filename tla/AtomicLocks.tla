---------------------------- MODULE AtomicLocks ----------------------------
(***************************************************************************)
(* What a lock manager promises to the code that calls it: a set of        *)
(* directories is locked as a whole or not at all, nobody gets a directory *)
(* somebody else owns, and the locks of a dead process stay where they are *)
(* until an operator breaks them.                                          *)
(*                                                                         *)
(* LockManager.tla, translated from obnamlib/lockmgr.py, implements this   *)
(* specification one lock file at a time.  RepoFormat6.tla takes its locks *)
(* in one step, which is sound because of that refinement.                 *)
(***************************************************************************)

CONSTANTS Procs,    \* running obnam commands
          Dirs      \* lockable directories of the repository

VARIABLES want,     \* want[p]: what p is asking for, {} if nothing
          owns,     \* owns[p]: what p has been granted
          stale     \* directories whose lock file has no living owner

vars == <<want, owns, stale>>

Owned == UNION {owns[p] : p \in Procs}

Init ==
  /\ want = [p \in Procs |-> {}]
  /\ owns = [p \in Procs |-> {}]
  /\ stale = {}

Ask(p, S) ==
  /\ want[p] = {}
  /\ S \cap owns[p] = {}
  /\ want' = [want EXCEPT ![p] = S]
  /\ UNCHANGED <<owns, stale>>

(* All of the request at once, and only if none of it belongs to anyone.   *)
Grant(p) ==
  /\ want[p] # {}
  /\ want[p] \cap (Owned \cup stale) = {}
  /\ owns' = [owns EXCEPT ![p] = @ \cup want[p]]
  /\ want' = [want EXCEPT ![p] = {}]
  /\ UNCHANGED stale

(* A refused request leaves no trace.                                      *)
Refuse(p) ==
  /\ want[p] # {}
  /\ want' = [want EXCEPT ![p] = {}]
  /\ UNCHANGED <<owns, stale>>

Release(p, S) ==
  /\ S \subseteq owns[p]
  /\ owns' = [owns EXCEPT ![p] = @ \ S]
  /\ UNCHANGED <<want, stale>>

(* A process that dies leaves its locks behind, those it was about to be   *)
(* granted (T) included, but nobody else's.                                *)
Die(p, T) ==
  /\ T \cap Owned = {}
  /\ stale' = stale \cup owns[p] \cup T
  /\ owns' = [owns EXCEPT ![p] = {}]
  /\ want' = [want EXCEPT ![p] = {}]

(* force-lock, by an operator who knows that the owners are dead.          *)
Break(S) ==
  /\ S \subseteq stale
  /\ stale' = stale \ S
  /\ UNCHANGED <<want, owns>>

Next ==
  \/ \E p \in Procs : Grant(p) \/ Refuse(p)
  \/ \E p \in Procs, S \in SUBSET Dirs : Ask(p, S) \/ Release(p, S) \/ Die(p, S)
  \/ \E S \in SUBSET Dirs : Break(S)

Spec == Init /\ [][Next]_vars
=============================================================================
