---------------------------- MODULE LockManager ----------------------------
(***************************************************************************)
(* obnamlib/lockmgr.py and the lock files of obnamlib/vfs_local.py.        *)
(*                                                                         *)
(* LockManager.lock(dirnames) creates one lock file after the other, in    *)
(* sorted order, retrying each until the configured timeout; if one cannot *)
(* be had it removes those it made and raises LockFail.  A lock file is    *)
(* empty: it does not say whose it is, and unlock removes whatever is      *)
(* there.  The set of held locks is in the memory of the process.          *)
(*                                                                         *)
(* A directory is represented by its rank in the sort order (dirnames are  *)
(* sorted as lists of byte values), so Dirs is an interval of numbers.     *)
(***************************************************************************)
EXTENDS Naturals

CONSTANTS Procs,    \* running obnam commands, each with a lock manager
          NumDirs,  \* how many directories the repository has
          Timeout   \* the lock-timeout setting, in seconds

ASSUME NumDirsAssumption == NumDirs \in Nat
ASSUME TimeoutAssumption == Timeout \in Nat

Dirs == 1..NumDirs

VARIABLES
  locks,      \* directories that have a lock file on disk
  gotLocks,   \* gotLocks[p]: LockManager._got_locks
  pc,         \* pc[p]: the call p is in
  todo,       \* todo[p]: directories the call's loop has still to handle
  weLocked,   \* weLocked[p]: lock()'s local we_locked
  waited      \* waited[p]: seconds since _lock_one started on this directory

vars == <<locks, gotLocks, pc, todo, weLocked, waited>>

Calls == {"idle", "lock", "rollback", "unlock", "force"}

TypeOK ==
  /\ locks \subseteq Dirs
  /\ gotLocks \in [Procs -> SUBSET Dirs]
  /\ pc \in [Procs -> Calls]
  /\ todo \in [Procs -> SUBSET Dirs]
  /\ weLocked \in [Procs -> SUBSET Dirs]
  /\ waited \in [Procs -> 0..Timeout]

Init ==
  /\ locks = {}
  /\ gotLocks = [p \in Procs |-> {}]
  /\ pc = [p \in Procs |-> "idle"]
  /\ todo = [p \in Procs |-> {}]
  /\ weLocked = [p \in Procs |-> {}]
  /\ waited = [p \in Procs |-> 0]

(* sort(): the loops handle the lowest remaining directory first.          *)
(* Faulty variant: the directories are taken in the order they come.       *)
IsAny(d, S) == d \in S
IsFirst(d, S) == d \in S /\ \A e \in S : d <= e

(* LocalFS.lock is atomic and refuses an existing file: the file is made   *)
(* by link(2), or with O_EXCL where links do not work.                     *)
(* Faulty variant: the temporary file is simply renamed over it.           *)
LockFileIgnored(d) == TRUE
LockFileFree(d) == d \notin locks

(* _lock_one's test of the clock after a failed attempt.                   *)
(* Faulty variant: the loop has no way out.                                *)
NeverTimedOut(p) == FALSE
TimedOut(p) == waited[p] >= Timeout

(* The clock after sleeping: a second later, or more if the machine is     *)
(* busy; beyond Timeout more makes no difference.                          *)
(* Faulty variant: the bound is off by one.                                *)
AfterSleepUnbounded(p) == (waited[p] + 1)..(Timeout + 1)
AfterSleep(p) == (waited[p] + 1)..Timeout

(* What lock() unlocks before it raises LockFail.                          *)
(* Faulty variants: all it was asked for, and nothing.                     *)
UndoAll(p) == weLocked[p] \cup todo[p]
UndoNothing(p) == {}
Undo(p) == weLocked[p]

-----------------------------------------------------------------------------
(* LockManager.lock                                                        *)

(* The callers' discipline: nobody asks for a directory he holds (the      *)
(* repository raises "already locked" first), and whoever already holds    *)
(* locks only asks for later ones: client list, clients, chunk indexes.    *)
(* No command starts while an operator forces locks open.                  *)
MayAsk(p, S) ==
  /\ S # {}
  /\ \A d \in S, e \in gotLocks[p] : e < d
  /\ \A q \in Procs : pc[q] # "force"

StartLock(p, S) ==
  /\ pc[p] = "idle"
  /\ MayAsk(p, S)
  /\ pc' = [pc EXCEPT ![p] = "lock"]
  /\ todo' = [todo EXCEPT ![p] = S]
  /\ weLocked' = [weLocked EXCEPT ![p] = {}]
  /\ waited' = [waited EXCEPT ![p] = 0]
  /\ UNCHANGED <<locks, gotLocks>>

(* _lock_one succeeds; after the last directory lock() returns.            *)
LockOne(p, d) ==
  /\ pc[p] = "lock"
  /\ IsFirst(d, todo[p])
  /\ LockFileFree(d)
  /\ locks' = locks \cup {d}
  /\ gotLocks' = [gotLocks EXCEPT ![p] = @ \cup {d}]
  /\ weLocked' = [weLocked EXCEPT ![p] = IF todo[p] = {d} THEN {} ELSE @ \cup {d}]
  /\ todo' = [todo EXCEPT ![p] = @ \ {d}]
  /\ waited' = [waited EXCEPT ![p] = 0]
  /\ pc' = [pc EXCEPT ![p] = IF todo[p] = {d} THEN "idle" ELSE "lock"]

(* _lock_one finds the file, sleeps, and will try again.                   *)
Sleep(p, d) ==
  /\ pc[p] = "lock"
  /\ IsFirst(d, todo[p])
  /\ ~LockFileFree(d)
  /\ ~TimedOut(p)
  /\ \E t \in AfterSleep(p) : waited' = [waited EXCEPT ![p] = t]
  /\ UNCHANGED <<locks, gotLocks, pc, todo, weLocked>>

(* _lock_one raises LockFail and lock() turns to unlock(we_locked).        *)
GiveUp(p, d) ==
  /\ pc[p] = "lock"
  /\ IsFirst(d, todo[p])
  /\ ~LockFileFree(d)
  /\ TimedOut(p)
  /\ pc' = [pc EXCEPT ![p] = IF Undo(p) = {} THEN "idle" ELSE "rollback"]
  /\ todo' = [todo EXCEPT ![p] = Undo(p)]
  /\ waited' = [waited EXCEPT ![p] = 0]
  /\ UNCHANGED <<locks, gotLocks, weLocked>>

-----------------------------------------------------------------------------
(* LockManager.unlock, also called by lock() after a failure               *)

StartUnlock(p, S) ==
  /\ pc[p] = "idle"
  /\ S # {} /\ S \subseteq gotLocks[p]
  /\ pc' = [pc EXCEPT ![p] = "unlock"]
  /\ todo' = [todo EXCEPT ![p] = S]
  /\ UNCHANGED <<locks, gotLocks, weLocked, waited>>

UnlockOne(p, d) ==
  /\ pc[p] \in {"unlock", "rollback"}
  /\ IsFirst(d, todo[p])
  /\ locks' = locks \ {d}
  /\ gotLocks' = [gotLocks EXCEPT ![p] = @ \ {d}]
  /\ todo' = [todo EXCEPT ![p] = @ \ {d}]
  /\ weLocked' = [weLocked EXCEPT ![p] = IF todo[p] = {d} THEN {} ELSE @]
  /\ pc' = [pc EXCEPT ![p] = IF todo[p] = {d} THEN "idle" ELSE @]
  /\ UNCHANGED waited

-----------------------------------------------------------------------------
(* LockManager.force, by an operator who has made sure that no obnam is    *)
(* running, as the manual asks.                                            *)

Quiet == \A q \in Procs : pc[q] = "idle" /\ gotLocks[q] = {}

StartForce(p, S) ==
  /\ Quiet
  /\ S # {}
  /\ pc' = [pc EXCEPT ![p] = "force"]
  /\ todo' = [todo EXCEPT ![p] = S]
  /\ UNCHANGED <<locks, gotLocks, weLocked, waited>>

ForceOne(p, d) ==
  /\ pc[p] = "force"
  /\ IsFirst(d, todo[p])
  /\ locks' = locks \ {d}
  /\ gotLocks' = [gotLocks EXCEPT ![p] = @ \ {d}]
  /\ todo' = [todo EXCEPT ![p] = @ \ {d}]
  /\ pc' = [pc EXCEPT ![p] = IF todo[p] = {d} THEN "idle" ELSE @]
  /\ UNCHANGED <<weLocked, waited>>

-----------------------------------------------------------------------------
(* The process is killed, or exits without unlocking; p stands for the     *)
(* next command from then on.  Its lock files stay.                        *)
Crash(p) ==
  /\ pc[p] # "idle" \/ gotLocks[p] # {}
  /\ pc' = [pc EXCEPT ![p] = "idle"]
  /\ gotLocks' = [gotLocks EXCEPT ![p] = {}]
  /\ todo' = [todo EXCEPT ![p] = {}]
  /\ weLocked' = [weLocked EXCEPT ![p] = {}]
  /\ waited' = [waited EXCEPT ![p] = 0]
  /\ UNCHANGED locks

(* A step of the call p is in.                                             *)
Step(p) ==
  \E d \in Dirs :
    LockOne(p, d) \/ Sleep(p, d) \/ GiveUp(p, d) \/ UnlockOne(p, d) \/ ForceOne(p, d)

Start(p) ==
  \E S \in SUBSET Dirs : StartLock(p, S) \/ StartUnlock(p, S) \/ StartForce(p, S)

Next == \E p \in Procs : Start(p) \/ Step(p) \/ Crash(p)

(* A call runs on until it returns: no step of it blocks.  Nothing is      *)
(* assumed of when calls are made or processes die.                        *)
Fairness == \A p \in Procs : WF_vars(Step(p))

SafeSpec == Init /\ [][Next]_vars
Spec == SafeSpec /\ Fairness

-----------------------------------------------------------------------------
(* A directory is locked by one process at most: the repository's shared   *)
(* structures have one writer at a time.                                   *)
MutualExclusion ==
  \A p, q \in Procs : p # q => gotLocks[p] \cap gotLocks[q] = {}

(* A lock that a process believes it holds is on disk, whatever the others *)
(* did meanwhile: unlock finds the file it removes, and it is its own.     *)
HeldOnDisk == \A p \in Procs : gotLocks[p] \subseteq locks

(* p waits in _lock_one for a directory that q holds.                      *)
WaitsFor(p, q) ==
  pc[p] = "lock" /\ \E d \in gotLocks[q] : IsFirst(d, todo[p])

(* No set of processes waits for one another in a circle: sorting the      *)
(* directories and asking in the repository's order rules out the deadlock *)
(* that only the timeout would otherwise end.                              *)
NoCircularWait ==
  \A Q \in (SUBSET Procs) \ {{}} :
    \E p \in Q : \A q \in Q : ~WaitsFor(p, q)

(* Every lock() returns or raises LockFail, crashed owners or not, and so  *)
(* does every unlock() and force().                                        *)
CallsReturn == \A p \in Procs : pc[p] # "idle" ~> pc[p] = "idle"

(* Seen through this mapping a lock manager is an AtomicLocks: what a call *)
(* has collected so far is not granted before lock() returns, a failed     *)
(* lock() leaves the caller with what it had, and a lock file without a    *)
(* living owner is stale.                                                  *)
Granted(p) ==
  IF pc[p] \in {"lock", "rollback"} THEN gotLocks[p] \ weLocked[p] ELSE gotLocks[p]

Wanted(p) == IF pc[p] = "lock" THEN todo[p] \cup weLocked[p] ELSE {}

Stale == locks \ UNION {gotLocks[p] : p \in Procs}

Atomic == INSTANCE AtomicLocks
            WITH want <- [p \in Procs |-> Wanted(p)],
                 owns <- [p \in Procs |-> Granted(p)],
                 stale <- Stale

LocksAreAtomic == Atomic!Spec
=============================================================================
