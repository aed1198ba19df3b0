-------------------------- MODULE ProcessLockProofs --------------------------
(***************************************************************************)
(* On Windows, where a file that is open cannot be unlinked, the handle    *)
(* that acquire keeps open is what excludes: for any number of processes   *)
(* and attempts, whatever they read of the metadata, however old the lock  *)
(* is, and with pids in use again.                                         *)
(***************************************************************************)
EXTENDS ProcessLock, TLAPS

\* On Windows the name stands for the file of a process that has just made
\* it, or holds the lock.
HolderOpen ==
  platform = "windows" =>
    \A p \in Procs : pc[p] \in {"write", "held"} => mine[p] = entry /\ entry # NoFile

\* The file that a process has made, or holds the lock by, is open.
OwnHandle ==
  \A p \in Procs : pc[p] \in {"write", "held"} => handle[p] = mine[p] /\ handle[p] # NoFile

\* The attempt a process is in is its own, and so is every attempt so far.
OwnAttempt ==
  \A p \in Procs : pc[p] \in Pc \ {"idle", "dead"} =>
    mine[p] \in 1..attempts /\ owner[mine[p]] = p

LockInv == TypeOK /\ OwnAttempt /\ OwnHandle /\ HolderOpen

LEMMA FileTypes == NoFile \notin Files /\ Files \subseteq Nat
BY LockAssumption DEF NoFile, Files

LEMMA InitLock == Init => LockInv
BY FileTypes, LockAssumption DEF Init, LockInv, TypeOK, OwnAttempt, OwnHandle, HolderOpen, Pc

LEMMA TypeStep == LockInv /\ [Next]_vars => TypeOK'
<1> SUFFICES ASSUME LockInv, [Next]_vars PROVE TypeOK'
  OBVIOUS
<1> USE DEF LockInv, TypeOK, sys
<1>1. ASSUME NEW p \in Procs, Acquire(p) PROVE TypeOK'
  <2>1. attempts + 1 \in Files /\ attempts' \in 0..MaxAttempts
    BY <1>1, LockAssumption DEF Acquire, Files
  <2> QED
    BY <1>1, <2>1 DEF Acquire, Goto, Pc
<1>2. ASSUME NEW p \in Procs, Open(p) PROVE TypeOK'
  BY <1>2 DEF Open, Goto, Pc
<1>3. ASSUME NEW p \in Procs, Write(p) PROVE TypeOK'
  BY <1>3 DEF Write, Goto, Pc, OwnHandle
<1>4. ASSUME NEW p \in Procs, ReadOpen(p) PROVE TypeOK'
  BY <1>4 DEF ReadOpen, Goto, Pc
<1>5. ASSUME NEW p \in Procs, ReadParse(p) PROVE TypeOK'
  BY <1>5 DEF ReadParse, Goto, Pc
<1>6. ASSUME NEW p \in Procs, Judge(p) PROVE TypeOK'
  BY <1>6 DEF Judge, Goto, Pc
<1>7. ASSUME NEW p \in Procs, Remove(p) PROVE TypeOK'
  BY <1>7 DEF Remove, Goto, Pc
<1>8. ASSUME NEW p \in Procs, Close(p) PROVE TypeOK'
  BY <1>8 DEF Close, Goto, Pc
<1>9. ASSUME NEW p \in Procs, Unlink(p) PROVE TypeOK'
  BY <1>9 DEF Unlink, Goto, Pc
<1>10. ASSUME NEW p \in Procs, Crash(p) PROVE TypeOK'
  BY <1>10 DEF Crash, Goto, Pc
<1>13. ASSUME NEW p \in Procs, PidComesBack(p) PROVE TypeOK'
  BY <1>13 DEF PidComesBack
<1>11. ASSUME NEW f \in Files, GetsOld(f) PROVE TypeOK'
  BY <1>11 DEF GetsOld
<1>12. CASE UNCHANGED vars
  BY <1>12 DEF vars
<1> QED
  BY <1>1, <1>2, <1>3, <1>4, <1>5, <1>6, <1>7, <1>8, <1>9, <1>10, <1>11, <1>12, <1>13 DEF Next, Step

LEMMA AttemptStep == LockInv /\ [Next]_vars => OwnAttempt'
<1> SUFFICES ASSUME LockInv, [Next]_vars PROVE OwnAttempt'
  OBVIOUS
<1> USE DEF LockInv, TypeOK, OwnAttempt
<1>1. ASSUME NEW p \in Procs, Acquire(p) PROVE OwnAttempt'
  <2>1. attempts + 1 \in Files /\ attempts' = attempts + 1 /\ attempts \in Nat
    BY <1>1, LockAssumption DEF Acquire, Files
  <2>2. mine'[p] \in 1..attempts' /\ owner'[mine'[p]] = p
    BY <1>1, <2>1 DEF Acquire
  <2>3. ASSUME NEW q \in Procs \ {p}, pc'[q] \in Pc \ {"idle", "dead"}
        PROVE  mine'[q] \in 1..attempts' /\ owner'[mine'[q]] = q
    <3>1. pc[q] = pc'[q] /\ mine'[q] = mine[q]
      BY <1>1, <2>3 DEF Acquire, Goto
    <3>2. mine[q] \in 1..attempts /\ owner[mine[q]] = q
      BY <2>3, <3>1
    <3>3. mine[q] # attempts + 1
      BY <2>1, <3>2
    <3> QED
      BY <1>1, <2>1, <3>1, <3>2, <3>3 DEF Acquire
  <2> QED
    BY <2>2, <2>3
<1>2. ASSUME NEW p \in Procs, Step(p) \/ Close(p)
      PROVE  /\ UNCHANGED <<attempts, mine, owner>>
             /\ pc[p] \in Pc \ {"idle", "dead"}
             /\ \A q \in Procs \ {p} : pc'[q] = pc[q]
  BY <1>2 DEF Step, Open, Write, ReadOpen, ReadParse, Judge, Remove, Close, Unlink, Goto, Pc
<1>3. ASSUME NEW p \in Procs, Crash(p) \/ PidComesBack(p) PROVE OwnAttempt'
  BY <1>3 DEF Crash, PidComesBack, Goto, Pc
<1>4. ASSUME NEW f \in Files, GetsOld(f) PROVE OwnAttempt'
  BY <1>4 DEF GetsOld
<1>5. CASE UNCHANGED vars
  BY <1>5 DEF vars
<1> QED
  BY <1>1, <1>2, <1>3, <1>4, <1>5 DEF Next

LEMMA HandleStep == LockInv /\ [Next]_vars => OwnHandle'
<1> SUFFICES ASSUME LockInv, [Next]_vars PROVE OwnHandle'
  OBVIOUS
<1> USE DEF LockInv, TypeOK, OwnHandle
<1>1. ASSUME NEW p \in Procs, Acquire(p) PROVE OwnHandle'
  BY <1>1 DEF Acquire, Goto
<1>2. ASSUME NEW p \in Procs, Open(p) PROVE OwnHandle'
  <2>1. mine[p] # NoFile
    BY <1>2, LockAssumption DEF Open, OwnAttempt, Pc, NoFile, Files
  <2>2. CASE entry = NoFile
    BY <1>2, <2>1, <2>2 DEF Open, Goto
  <2>3. CASE entry # NoFile
    BY <1>2, <2>3 DEF Open, Goto
  <2> QED
    BY <2>2, <2>3
<1>3. ASSUME NEW p \in Procs, Write(p) PROVE OwnHandle'
  BY <1>3 DEF Write, Goto
<1>4. ASSUME NEW p \in Procs, ReadOpen(p) PROVE OwnHandle'
  BY <1>4 DEF ReadOpen, Goto
<1>5. ASSUME NEW p \in Procs, ReadParse(p) PROVE OwnHandle'
  BY <1>5 DEF ReadParse, Goto
<1>6. ASSUME NEW p \in Procs, Judge(p) PROVE OwnHandle'
  BY <1>6 DEF Judge, Goto
<1>7. ASSUME NEW p \in Procs, Remove(p) PROVE OwnHandle'
  BY <1>7 DEF Remove, Goto
<1>8. ASSUME NEW p \in Procs, Close(p) PROVE OwnHandle'
  BY <1>8 DEF Close, Goto
<1>9. ASSUME NEW p \in Procs, Unlink(p) PROVE OwnHandle'
  BY <1>9 DEF Unlink, Goto
<1>10. ASSUME NEW p \in Procs, Crash(p) PROVE OwnHandle'
  BY <1>10 DEF Crash, Goto
<1>11. ASSUME NEW p \in Procs, PidComesBack(p) PROVE OwnHandle'
  BY <1>11 DEF PidComesBack
<1>12. ASSUME NEW f \in Files, GetsOld(f) PROVE OwnHandle'
  BY <1>12 DEF GetsOld
<1>13. CASE UNCHANGED vars
  BY <1>13 DEF vars
<1> QED
  BY <1>1, <1>2, <1>3, <1>4, <1>5, <1>6, <1>7, <1>8, <1>9, <1>10, <1>11, <1>12, <1>13 DEF Next, Step

LEMMA HolderStep == LockInv /\ [Next]_vars => HolderOpen'
<1> SUFFICES ASSUME LockInv, [Next]_vars PROVE HolderOpen'
  OBVIOUS
<1> USE DEF LockInv, TypeOK, OwnHandle, HolderOpen, sys
<1>1. ASSUME NEW p \in Procs, Acquire(p) PROVE HolderOpen'
  BY <1>1 DEF Acquire, Goto
<1>2. ASSUME NEW p \in Procs, Open(p) PROVE HolderOpen'
  <2>1. mine[p] # NoFile
    BY <1>2, LockAssumption DEF Open, OwnAttempt, Pc, NoFile, Files
  <2>2. CASE entry = NoFile
    BY <1>2, <2>1, <2>2 DEF Open, Goto
  <2>3. CASE entry # NoFile
    BY <1>2, <2>3 DEF Open, Goto
  <2> QED
    BY <2>2, <2>3
<1>3. ASSUME NEW p \in Procs, Write(p) PROVE HolderOpen'
  BY <1>3 DEF Write, Goto
<1>4. ASSUME NEW p \in Procs, ReadOpen(p) PROVE HolderOpen'
  BY <1>4 DEF ReadOpen, Goto
<1>5. ASSUME NEW p \in Procs, ReadParse(p) PROVE HolderOpen'
  BY <1>5 DEF ReadParse, Goto
<1>6. ASSUME NEW p \in Procs, Judge(p) PROVE HolderOpen'
  BY <1>6 DEF Judge, Goto
<1>7. ASSUME NEW p \in Procs, Remove(p) PROVE HolderOpen'
  BY <1>7 DEF Remove, Goto, CanUnlink
<1>8. ASSUME NEW p \in Procs, Close(p) PROVE HolderOpen'
  BY <1>8 DEF Close, Goto
<1>9. ASSUME NEW p \in Procs, Unlink(p) PROVE HolderOpen'
  BY <1>9 DEF Unlink, Goto, CanUnlink
<1>10. ASSUME NEW p \in Procs, Crash(p) PROVE HolderOpen'
  BY <1>10 DEF Crash, Goto
<1>11. ASSUME NEW p \in Procs, PidComesBack(p) PROVE HolderOpen'
  BY <1>11 DEF PidComesBack
<1>12. ASSUME NEW f \in Files, GetsOld(f) PROVE HolderOpen'
  BY <1>12 DEF GetsOld
<1>13. CASE UNCHANGED vars
  BY <1>13 DEF vars
<1> QED
  BY <1>1, <1>2, <1>3, <1>4, <1>5, <1>6, <1>7, <1>8, <1>9, <1>10, <1>11, <1>12, <1>13 DEF Next, Step

\* On Windows two processes never both have acquire() = True
\* (state/store.py, ProcessLock.acquire).
THEOREM Exclusion == Spec => []WindowsExclusion
<1>1. LockInv /\ [Next]_vars => LockInv'
  BY TypeStep, AttemptStep, HandleStep, HolderStep DEF LockInv
<1>2. LockInv => WindowsExclusion
  <2> SUFFICES ASSUME LockInv, NEW p \in Procs, NEW q \in Procs,
                      platform = "windows", pc[p] = "held", pc[q] = "held"
               PROVE  p = q
    BY DEF WindowsExclusion, MutualExclusion
  <2>1. owner[mine[p]] = p /\ owner[mine[q]] = q
    BY DEF LockInv, OwnAttempt, Pc
  <2>2. mine[p] = mine[q]
    BY DEF LockInv, HolderOpen
  <2> QED
    BY <2>1, <2>2
<1> QED
  BY InitLock, <1>1, <1>2, PTL DEF Spec

=============================================================================
