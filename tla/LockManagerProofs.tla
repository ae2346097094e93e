------------------------- MODULE LockManagerProofs -------------------------
(***************************************************************************)
(* Proofs about LockManager for any set of processes, any number of        *)
(* directories and any timeout.                                            *)
(***************************************************************************)
EXTENDS LockManager, FiniteSetTheorems, WellFoundedInduction, TLAPS

(* What the call a process is in says about its locks.                     *)
CallInv ==
  \A p \in Procs :
    /\ pc[p] = "idle" => weLocked[p] = {}
    /\ pc[p] = "lock" => weLocked[p] \subseteq gotLocks[p] /\ todo[p] # {}
    /\ pc[p] = "unlock" => weLocked[p] = {} /\ todo[p] \subseteq gotLocks[p]
    /\ pc[p] = "rollback" => /\ weLocked[p] \cap gotLocks[p] = todo[p]
                             /\ todo[p] # {}

(* While an operator forces locks open nobody holds any or asks for any.   *)
ForceInv ==
  \A p \in Procs : pc[p] = "force" =>
    \A q \in Procs : gotLocks[q] = {} /\ pc[q] \in {"idle", "force"} /\ weLocked[q] = {}

LockInv == TypeOK /\ MutualExclusion /\ HeldOnDisk /\ CallInv /\ ForceInv

(* Every step keeps the variables in their types.                          *)
LEMMA TypeStep ==
  ASSUME TypeOK, [Next]_vars
  PROVE  TypeOK'
<1> USE DEF TypeOK, Calls
<1>1. ASSUME NEW p \in Procs, NEW S \in SUBSET Dirs, StartLock(p, S) PROVE TypeOK'
  BY <1>1, TimeoutAssumption DEF StartLock
<1>2. ASSUME NEW p \in Procs, NEW S \in SUBSET Dirs, StartUnlock(p, S) PROVE TypeOK'
  BY <1>2 DEF StartUnlock
<1>3. ASSUME NEW p \in Procs, NEW S \in SUBSET Dirs, StartForce(p, S) PROVE TypeOK'
  BY <1>3 DEF StartForce
<1>4. ASSUME NEW p \in Procs, NEW d \in Dirs, LockOne(p, d) PROVE TypeOK'
  BY <1>4, TimeoutAssumption DEF LockOne
<1>5. ASSUME NEW p \in Procs, NEW d \in Dirs, Sleep(p, d) PROVE TypeOK'
  BY <1>5, TimeoutAssumption DEF Sleep, AfterSleep
<1>6. ASSUME NEW p \in Procs, NEW d \in Dirs, GiveUp(p, d) PROVE TypeOK'
  BY <1>6, TimeoutAssumption DEF GiveUp, Undo
<1>7. ASSUME NEW p \in Procs, NEW d \in Dirs, UnlockOne(p, d) PROVE TypeOK'
  BY <1>7 DEF UnlockOne
<1>8. ASSUME NEW p \in Procs, NEW d \in Dirs, ForceOne(p, d) PROVE TypeOK'
  BY <1>8 DEF ForceOne
<1>9. ASSUME NEW p \in Procs, Crash(p) PROVE TypeOK'
  BY <1>9, TimeoutAssumption DEF Crash
<1>10. CASE UNCHANGED vars
  BY <1>10 DEF vars
<1>. QED
  BY <1>1, <1>2, <1>3, <1>4, <1>5, <1>6, <1>7, <1>8, <1>9, <1>10 DEF Next, Start, Step

(* The types of the variables hold throughout.                             *)
THEOREM Typing == SafeSpec => []TypeOK
<1>1. Init => TypeOK
  BY TimeoutAssumption DEF Init, TypeOK, Calls
<1>2. TypeOK /\ [Next]_vars => TypeOK'
  BY TypeStep
<1>. QED
  BY <1>1, <1>2, PTL DEF SafeSpec

-----------------------------------------------------------------------------
(* Every step of a lock manager preserves LockInv.  Mutual exclusion alone *)
(* is not inductive: that the lock file exists (HeldOnDisk) is why LockOne *)
(* cannot take what another holds, and that a call only unlocks what its   *)
(* process holds (CallInv, ForceInv) is why HeldOnDisk stays true.         *)
LEMMA LockStep ==
  ASSUME LockInv, [Next]_vars
  PROVE  LockInv'
<1>. TypeOK /\ TypeOK'
  BY TypeStep DEF LockInv
<1>. USE DEF LockInv
<1>1. ASSUME NEW p \in Procs, NEW S \in SUBSET Dirs, StartLock(p, S)
      PROVE  LockInv'
  BY <1>1 DEF StartLock, MayAsk, TypeOK, MutualExclusion, HeldOnDisk, CallInv, ForceInv
<1>2. ASSUME NEW p \in Procs, NEW S \in SUBSET Dirs, StartUnlock(p, S)
      PROVE  LockInv'
  BY <1>2 DEF StartUnlock, TypeOK, MutualExclusion, HeldOnDisk, CallInv, ForceInv
<1>3. ASSUME NEW p \in Procs, NEW S \in SUBSET Dirs, StartForce(p, S)
      PROVE  LockInv'
  BY <1>3 DEF StartForce, Quiet, TypeOK, MutualExclusion, HeldOnDisk, CallInv, ForceInv
<1>4. ASSUME NEW p \in Procs, NEW d \in Dirs, LockOne(p, d)
      PROVE  LockInv'
  <2>1. \A q \in Procs : d \notin gotLocks[q]
    BY <1>4 DEF LockOne, LockFileFree, HeldOnDisk
  <2>2. MutualExclusion'
    BY <1>4, <2>1 DEF LockOne, TypeOK, MutualExclusion
  <2>3. HeldOnDisk'
    BY <1>4 DEF LockOne, TypeOK, HeldOnDisk
  <2>4. CallInv'
    BY <1>4 DEF LockOne, TypeOK, CallInv
  <2>5. ForceInv'
    BY <1>4 DEF LockOne, TypeOK, ForceInv
  <2>. QED
    BY <2>2, <2>3, <2>4, <2>5
<1>5. ASSUME NEW p \in Procs, NEW d \in Dirs, Sleep(p, d)
      PROVE  LockInv'
  BY <1>5 DEF Sleep, MutualExclusion, HeldOnDisk, CallInv, ForceInv
<1>6. ASSUME NEW p \in Procs, NEW d \in Dirs, GiveUp(p, d)
      PROVE  LockInv'
  BY <1>6 DEF GiveUp, Undo, TypeOK, MutualExclusion, HeldOnDisk, CallInv, ForceInv
<1>7. ASSUME NEW p \in Procs, NEW d \in Dirs, UnlockOne(p, d)
      PROVE  LockInv'
  <2>1. d \in gotLocks[p]
    BY <1>7 DEF UnlockOne, IsFirst, TypeOK, CallInv
  <2>2. MutualExclusion'
    BY <1>7 DEF UnlockOne, TypeOK, MutualExclusion
  <2>3. HeldOnDisk'
    BY <1>7, <2>1 DEF UnlockOne, TypeOK, HeldOnDisk, MutualExclusion
  <2>4. CallInv'
    BY <1>7 DEF UnlockOne, TypeOK, CallInv
  <2>5. ForceInv'
    BY <1>7 DEF UnlockOne, TypeOK, ForceInv
  <2>. QED
    BY <2>2, <2>3, <2>4, <2>5
<1>8. ASSUME NEW p \in Procs, NEW d \in Dirs, ForceOne(p, d)
      PROVE  LockInv'
  <2>1. \A q \in Procs : gotLocks[q] = {} /\ weLocked[q] = {}
    BY <1>8 DEF ForceOne, ForceInv
  <2>2. \A q \in Procs : gotLocks'[q] = {}
    BY <1>8, <2>1 DEF ForceOne, TypeOK
  <2>3. CallInv'
    BY <1>8, <2>1, <2>2 DEF ForceOne, TypeOK, CallInv, ForceInv
  <2>4. ForceInv'
    BY <1>8, <2>1, <2>2 DEF ForceOne, TypeOK, ForceInv
  <2>. QED
    BY <2>2, <2>3, <2>4 DEF MutualExclusion, HeldOnDisk
<1>9. ASSUME NEW p \in Procs, Crash(p)
      PROVE  LockInv'
  BY <1>9 DEF Crash, TypeOK, MutualExclusion, HeldOnDisk, CallInv, ForceInv
<1>10. CASE UNCHANGED vars
  BY <1>10 DEF vars, TypeOK, MutualExclusion, HeldOnDisk, CallInv, ForceInv
<1>. QED
  BY <1>1, <1>2, <1>3, <1>4, <1>5, <1>6, <1>7, <1>8, <1>9, <1>10 DEF Next, Start, Step

(* The inductive invariant holds in every execution.                       *)
THEOREM Invariance == SafeSpec => []LockInv
<1>1. Init => LockInv
  <2>1. Init => TypeOK
    BY TimeoutAssumption DEF Init, TypeOK, Calls
  <2>. QED
    BY <2>1 DEF Init, LockInv, MutualExclusion, HeldOnDisk, CallInv, ForceInv
<1>2. LockInv /\ [Next]_vars => LockInv'
  BY LockStep
<1>. QED
  BY <1>1, <1>2, PTL DEF SafeSpec

(* LockManager never lets two processes hold a directory, and a process    *)
(* never loses the lock file of a directory it holds.                      *)
THEOREM Exclusion == SafeSpec => [](MutualExclusion /\ HeldOnDisk)
BY Invariance, PTL DEF LockInv

-----------------------------------------------------------------------------
(* Nobody waits in a circle.                                               *)

(* Whatever a call of lock() has still to lock comes after everything its  *)
(* process holds.                                                          *)
OrderInv ==
  \A p \in Procs : pc[p] = "lock" => \A e \in gotLocks[p], d \in todo[p] : e < d

(* Every step keeps the order: a call starts with later directories only,  *)
(* and takes the first of those that are left.                             *)
LEMMA OrderStep ==
  ASSUME TypeOK, OrderInv, [Next]_vars
  PROVE  OrderInv'
<1>. USE DEF TypeOK, OrderInv
<1>1. ASSUME NEW p \in Procs, NEW S \in SUBSET Dirs, StartLock(p, S) PROVE OrderInv'
  BY <1>1 DEF StartLock, MayAsk
<1>2. ASSUME NEW p \in Procs, NEW S \in SUBSET Dirs, StartUnlock(p, S) PROVE OrderInv'
  BY <1>2 DEF StartUnlock
<1>3. ASSUME NEW p \in Procs, NEW S \in SUBSET Dirs, StartForce(p, S) PROVE OrderInv'
  BY <1>3 DEF StartForce
<1>4. ASSUME NEW p \in Procs, NEW d \in Dirs, LockOne(p, d) PROVE OrderInv'
  <2>1. \A e \in todo[p] \ {d} : d < e
    BY <1>4 DEF LockOne, IsFirst, Dirs
  <2>. QED
    BY <1>4, <2>1 DEF LockOne
<1>5. ASSUME NEW p \in Procs, NEW d \in Dirs, Sleep(p, d) PROVE OrderInv'
  BY <1>5 DEF Sleep
<1>6. ASSUME NEW p \in Procs, NEW d \in Dirs, GiveUp(p, d) PROVE OrderInv'
  BY <1>6 DEF GiveUp
<1>7. ASSUME NEW p \in Procs, NEW d \in Dirs, UnlockOne(p, d) PROVE OrderInv'
  BY <1>7 DEF UnlockOne
<1>8. ASSUME NEW p \in Procs, NEW d \in Dirs, ForceOne(p, d) PROVE OrderInv'
  BY <1>8 DEF ForceOne
<1>9. ASSUME NEW p \in Procs, Crash(p) PROVE OrderInv'
  BY <1>9 DEF Crash
<1>10. CASE UNCHANGED vars
  BY <1>10 DEF vars
<1>. QED
  BY <1>1, <1>2, <1>3, <1>4, <1>5, <1>6, <1>7, <1>8, <1>9, <1>10 DEF Next, Start, Step

(* A set of numbers up to n has a greatest one.                            *)
LEMMA Greatest ==
  ASSUME NEW n \in Nat, NEW T \in SUBSET (1..n), T # {}
  PROVE  \E m \in T : \A d \in T : d <= m
<1>. DEFINE F == {m..n : m \in T}
<1>1. F \subseteq FiniteSubsetsOf(1..n) /\ F # {}
  <2>1. IsFiniteSet(1..n)
    BY FS_Interval
  <2>2. FiniteSubsetsOf(1..n) = SUBSET (1..n)
    BY <2>1, FS_FiniteSubsetsOfFinite
  <2>3. \A m \in T : m..n \in SUBSET (1..n)
    OBVIOUS
  <2>4. \A m \in T : m..n \in F
    OBVIOUS
  <2>5. F \subseteq SUBSET (1..n)
    BY <2>3
  <2>6. F # {}
    <3>. HIDE DEF F
    <3>. QED
      BY <2>4
  <2>. HIDE DEF F
  <2>. QED
    BY <2>2, <2>5, <2>6
<1>2. \E f \in F : \A g \in F : <<g, f>> \notin StrictSubsetOrdering(1..n)
  <2>. HIDE DEF F
  <2>1. IsWellFoundedOn(StrictSubsetOrdering(1..n), FiniteSubsetsOf(1..n))
    BY FS_StrictSubsetOrderingWellFounded
  <2>. QED
    BY <1>1, <2>1, WFMin, Zenon
<1>3. PICK m \in T : \A g \in F : <<g, m..n>> \notin StrictSubsetOrdering(1..n)
  BY <1>2
<1>4. ASSUME NEW d \in T, m < d PROVE FALSE
  <2>1. d..n \subseteq m..n /\ d..n # m..n
    BY <1>4
  <2>2. <<d..n, m..n>> \in StrictSubsetOrdering(1..n)
    BY <1>4, <2>1 DEF StrictSubsetOrdering
  <2>. QED
    BY <1>3, <2>2
<1>. QED
  BY <1>4

(* In any set of processes the one that waits for the last directory does  *)
(* not wait for one of the set: that one would wait for a later directory. *)
LEMMA OrderPreventsCircles ==
  ASSUME TypeOK, OrderInv
  PROVE  NoCircularWait
<1>. SUFFICES ASSUME NEW Q \in SUBSET Procs, Q # {},
                     \A p \in Q : \E q \in Q : WaitsFor(p, q)
              PROVE  FALSE
  BY DEF NoCircularWait
<1>. DEFINE T == {d \in Dirs : \E p \in Q : pc[p] = "lock" /\ IsFirst(d, todo[p])}
<1>1. \A p \in Q : \E q \in Q : pc[p] = "lock" /\ \E d \in T : d \in gotLocks[q] /\ IsFirst(d, todo[p])
  BY DEF WaitsFor, IsFirst, TypeOK
<1>2. T # {}
  BY <1>1
<1>3. T \in SUBSET (1..NumDirs)
  BY DEF Dirs
<1>4. PICK m \in T : \A d \in T : d <= m
  <2>. HIDE DEF T
  <2>. QED
    BY <1>2, <1>3, Greatest, NumDirsAssumption
<1>5. PICK p \in Q : pc[p] = "lock" /\ IsFirst(m, todo[p])
  BY <1>4
<1>6. PICK q \in Q : m \in gotLocks[q]
  <2>1. PICK q \in Q, d \in T : d \in gotLocks[q] /\ IsFirst(d, todo[p])
    BY <1>1
  <2>2. d \in Nat /\ m \in Nat
    BY <1>3, NumDirsAssumption
  <2>3. d = m
    BY <1>5, <2>1, <2>2 DEF IsFirst
  <2>. QED
    BY <2>1, <2>3
<1>7. PICK e \in T : pc[q] = "lock" /\ e \in todo[q]
  BY <1>1 DEF IsFirst
<1>8. m < e
  BY <1>6, <1>7 DEF OrderInv
<1>. QED
  BY <1>3, <1>4, <1>7, <1>8

(* However many processes and directories there are, sorting and the order *)
(* in which the repository asks for locks rule out deadlock.               *)
THEOREM NoDeadlock == SafeSpec => []NoCircularWait
<1>1. Init => OrderInv
  BY DEF Init, OrderInv
<1>2. TypeOK /\ OrderInv /\ [Next]_vars => OrderInv'
  BY OrderStep
<1>3. TypeOK /\ OrderInv => NoCircularWait
  BY OrderPreventsCircles
<1>. QED
  BY <1>1, <1>2, <1>3, Typing, PTL DEF SafeSpec

-----------------------------------------------------------------------------
(* A lock manager implements AtomicLocks.                                  *)

(* The directories that are stale, and those granted to anybody.           *)
LEMMA StaleIs ==
  \A d : d \in Stale <=> d \in locks /\ \A p \in Procs : d \notin gotLocks[p]
BY DEF Stale

LEMMA OwnedIs ==
  \A d : d \in Atomic!Owned <=> \E p \in Procs : d \in Granted(p)
BY DEF Atomic!Owned

(* Starting a call of lock() is asking for its directories.                *)
LEMMA StartLockAsks ==
  ASSUME LockInv, NEW p \in Procs, NEW S \in SUBSET Dirs, StartLock(p, S)
  PROVE  Atomic!Ask(p, S)
<1>. USE DEF LockInv, TypeOK
<1>1. S \cap gotLocks[p] = {}
  BY DEF StartLock, MayAsk, Dirs
<1>2. Wanted(p) = {} /\ Granted(p) = gotLocks[p]
  BY DEF StartLock, Wanted, Granted
<1>3. \A q \in Procs : Wanted(q)' = IF q = p THEN S ELSE Wanted(q)
  BY DEF StartLock, Wanted
<1>4. \A q \in Procs : Granted(q)' = Granted(q)
  BY DEF StartLock, Granted
<1>5. Stale' = Stale
  BY DEF StartLock, Stale
<1>. QED
  BY <1>1, <1>2, <1>3, <1>4, <1>5 DEF Atomic!Ask

(* Locking the last directory grants the request, locking another one      *)
(* changes nothing that callers see.                                       *)
LEMMA LockOneGrants ==
  ASSUME LockInv, NEW p \in Procs, NEW d \in Dirs, LockOne(p, d)
  PROVE  Atomic!Grant(p) \/ UNCHANGED Atomic!vars
<1>. USE DEF LockInv, TypeOK
<1>1. /\ d \notin locks
      /\ \A q \in Procs : d \notin gotLocks[q]
      /\ weLocked[p] \subseteq gotLocks[p]
  BY DEF LockOne, LockFileFree, HeldOnDisk, CallInv
<1>2. Stale' = Stale
  <2>1. \A e : e \in Stale' <=> e \in locks' /\ \A q \in Procs : e \notin gotLocks'[q]
    BY DEF Stale
  <2>2. \A e : e \in Stale' <=> e \in Stale
    BY <1>1, <2>1, StaleIs DEF LockOne
  <2>. QED
    BY <2>2
<1>3. \A q \in Procs : q # p => Wanted(q)' = Wanted(q) /\ Granted(q)' = Granted(q)
  BY DEF LockOne, Wanted, Granted
<1>4. CASE todo[p] = {d}
  <2>1. Wanted(p) = {d} \cup weLocked[p] /\ Wanted(p)' = {}
    BY <1>4 DEF LockOne, Wanted
  <2>2. Granted(p)' = Granted(p) \cup Wanted(p)
    BY <1>1, <1>4, <2>1 DEF LockOne, Granted
  <2>3. Wanted(p) \cap Stale = {}
    BY <1>1, <2>1, StaleIs
  <2>4. \A q \in Procs : Wanted(p) \cap Granted(q) = {}
    BY <1>1, <2>1 DEF LockOne, Granted, MutualExclusion
  <2>5. Wanted(p) \cap (Atomic!Owned \cup Stale) = {}
    BY <2>3, <2>4, OwnedIs
  <2>. QED
    BY <1>2, <1>3, <2>1, <2>2, <2>5 DEF Atomic!Grant
<1>5. CASE todo[p] # {d}
  <2>1. Wanted(p)' = Wanted(p)
    BY <1>5 DEF LockOne, IsFirst, Wanted
  <2>2. Granted(p)' = Granted(p)
    BY <1>1, <1>5 DEF LockOne, Granted
  <2>. QED
    BY <1>2, <1>3, <2>1, <2>2 DEF Atomic!vars
<1>. QED
  BY <1>4, <1>5

(* Giving up refuses the request, although lock files are still there.     *)
LEMMA GiveUpRefuses ==
  ASSUME LockInv, NEW p \in Procs, NEW d \in Dirs, GiveUp(p, d)
  PROVE  Atomic!Refuse(p)
<1>. USE DEF LockInv, TypeOK
<1>1. Wanted(p) # {} /\ Wanted(p)' = {}
  BY DEF GiveUp, IsFirst, Wanted
<1>2. \A q \in Procs : q # p => Wanted(q)' = Wanted(q)
  BY DEF GiveUp, Wanted
<1>3. \A q \in Procs : Granted(q)' = Granted(q)
  BY DEF GiveUp, Granted, Undo
<1>4. Stale' = Stale
  BY DEF GiveUp, Stale
<1>. QED
  BY <1>1, <1>2, <1>3, <1>4 DEF Atomic!Refuse

(* unlock() releases one directory after the other; the unlocking that     *)
(* follows a failure changes nothing that callers see.                     *)
LEMMA UnlockOneReleases ==
  ASSUME LockInv, NEW p \in Procs, NEW d \in Dirs, UnlockOne(p, d)
  PROVE  Atomic!Release(p, {d}) \/ UNCHANGED Atomic!vars
<1>. USE DEF LockInv, TypeOK
<1>1. d \in gotLocks[p] /\ d \in locks /\ d \in todo[p]
  BY DEF UnlockOne, IsFirst, CallInv, HeldOnDisk
<1>2. Stale' = Stale
  <2>1. \A e : e \in Stale' <=> e \in locks' /\ \A q \in Procs : e \notin gotLocks'[q]
    BY DEF Stale
  <2>2. \A e : e \in Stale' <=> e \in Stale
    BY <1>1, <2>1, StaleIs DEF UnlockOne
  <2>. QED
    BY <2>2
<1>3. \A q \in Procs : q # p => Wanted(q)' = Wanted(q) /\ Granted(q)' = Granted(q)
  BY DEF UnlockOne, Wanted, Granted
<1>4. Wanted(p) = {} /\ Wanted(p)' = {}
  BY DEF UnlockOne, Wanted
<1>5. CASE pc[p] = "unlock"
  <2>1. d \in Granted(p) /\ Granted(p)' = Granted(p) \ {d}
    BY <1>1, <1>5 DEF UnlockOne, Granted
  <2>. QED
    BY <1>2, <1>3, <1>4, <2>1 DEF Atomic!Release
<1>6. CASE pc[p] = "rollback"
  <2>1. weLocked[p] \cap gotLocks[p] = todo[p]
    BY <1>6 DEF CallInv
  <2>2. Granted(p)' = Granted(p)
    BY <1>1, <1>6, <2>1 DEF UnlockOne, Granted
  <2>. QED
    BY <1>2, <1>3, <1>4, <2>2 DEF Atomic!vars
<1>. QED
  BY <1>5, <1>6 DEF UnlockOne

(* Forcing a lock open breaks it if it is there: nobody owns it.           *)
LEMMA ForceOneBreaks ==
  ASSUME LockInv, NEW p \in Procs, NEW d \in Dirs, ForceOne(p, d)
  PROVE  \E S \in SUBSET Dirs : Atomic!Break(S)
<1>. USE DEF LockInv, TypeOK
<1>1. \A q \in Procs : gotLocks[q] = {} /\ gotLocks'[q] = {}
  BY DEF ForceOne, ForceInv
<1>2. Stale = locks /\ Stale' = locks'
  BY <1>1 DEF Stale
<1>3. \A q \in Procs : Wanted(q)' = Wanted(q) /\ Granted(q)' = Granted(q)
  BY <1>1 DEF ForceOne, Wanted, Granted
<1>4. Atomic!Break({d} \cap locks)
  BY <1>2, <1>3 DEF ForceOne, Atomic!Break
<1>. QED
  BY <1>4

(* A crash leaves what was granted, and what lock() had collected, stale.  *)
LEMMA CrashIsDeath ==
  ASSUME LockInv, NEW p \in Procs, Crash(p)
  PROVE  \E S \in SUBSET Dirs : Atomic!Die(p, S)
<1>. USE DEF LockInv, TypeOK
<1>. DEFINE T == gotLocks[p] \ Granted(p)
<1>1. \A q \in Procs : Wanted(q)' = IF q = p THEN {} ELSE Wanted(q)
  BY DEF Crash, Wanted
<1>2. \A q \in Procs : Granted(q)' = IF q = p THEN {} ELSE Granted(q)
  BY DEF Crash, Granted
<1>3. \A q \in Procs : Granted(q) \subseteq gotLocks[q]
  BY DEF Granted
<1>4. \A q \in Procs : q # p => gotLocks[p] \cap gotLocks[q] = {}
  BY DEF MutualExclusion
<1>5. T \cap Atomic!Owned = {}
  BY <1>3, <1>4, OwnedIs
<1>6. Stale' = Stale \cup Granted(p) \cup T
  <2>1. \A e : e \in Stale' <=> e \in locks' /\ \A q \in Procs : e \notin gotLocks'[q]
    BY DEF Stale
  <2>2. \A e : e \in Stale' <=> e \in locks /\ \A q \in Procs : q # p => e \notin gotLocks[q]
    BY <2>1 DEF Crash
  <2>3. gotLocks[p] \subseteq locks
    BY DEF HeldOnDisk
  <2>4. \A e : e \in Stale' <=> e \in Stale \/ e \in gotLocks[p]
    BY <1>4, <2>2, <2>3, StaleIs
  <2>. QED
    BY <1>3, <2>4
<1>7. Atomic!Die(p, T)
  BY <1>1, <1>2, <1>5, <1>6 DEF Atomic!Die
<1>. QED
  BY <1>7

(* Every step of a lock manager is a step of AtomicLocks, or none.         *)
LEMMA StepsAreAtomic ==
  ASSUME LockInv, [Next]_vars
  PROVE  [Atomic!Next]_(Atomic!vars)
<1>1. ASSUME NEW p \in Procs, NEW S \in SUBSET Dirs, StartUnlock(p, S)
      PROVE  UNCHANGED Atomic!vars
  BY <1>1 DEF StartUnlock, LockInv, TypeOK, Atomic!vars, Wanted, Granted, Stale
<1>2. ASSUME NEW p \in Procs, NEW S \in SUBSET Dirs, StartForce(p, S)
      PROVE  UNCHANGED Atomic!vars
  BY <1>2 DEF StartForce, Quiet, LockInv, TypeOK, Atomic!vars, Wanted, Granted, Stale
<1>3. ASSUME NEW p \in Procs, NEW d \in Dirs, Sleep(p, d)
      PROVE  UNCHANGED Atomic!vars
  BY <1>3 DEF Sleep, Atomic!vars, Wanted, Granted, Stale
<1>4. CASE UNCHANGED vars
  BY <1>4 DEF vars, Atomic!vars, Wanted, Granted, Stale
<1>. QED
  BY <1>1, <1>2, <1>3, <1>4, StartLockAsks, LockOneGrants, GiveUpRefuses,
     UnlockOneReleases, ForceOneBreaks, CrashIsDeath
  DEF Next, Start, Step, Atomic!Next

(* For any number of processes and directories the one-file-at-a-time      *)
(* protocol of lockmgr.py behaves as if a call took all of its directories *)
(* at once or none.                                                        *)
THEOREM Refinement == SafeSpec => LocksAreAtomic
<1>1. Init => Atomic!Init
  BY DEF Init, Atomic!Init, Wanted, Granted, Stale
<1>2. LockInv /\ [Next]_vars => [Atomic!Next]_(Atomic!vars)
  BY StepsAreAtomic
<1>. QED
  BY <1>1, <1>2, Invariance, PTL DEF SafeSpec, LocksAreAtomic, Atomic!Spec
=============================================================================
