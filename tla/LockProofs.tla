----------------------------- MODULE LockProofs -----------------------------
(***************************************************************************)
(* The two kinds of locks, each on its own.                                *)
(*                                                                         *)
(* SleepLock: its safety properties for every set of processes and         *)
(* processors.  The inductive invariant says which spinlocks a processor   *)
(* holds at each control point; mutual exclusion and the absence of lost   *)
(* wake-ups follow from it.                                                *)
(*                                                                         *)
(* Spinlock: spinlocks and interrupts for any number of processors and     *)
(* processes.  What a thread has to do is right if it can be done from the *)
(* state that its processor is in, as far as locks and interrupts go,      *)
(* without a panic and to the end: Can(t, a) below.  The invariant is that *)
(* this is so of every thread, with the state of its processor or the one  *)
(* in which the processor will be when it gets the thread.                 *)
(***************************************************************************)
EXTENDS SleepLock, Spinlock, SequenceTheorems, TLAPS

-----------------------------------------------------------------------------
(* SLEEP-LOCKS. *)

\* A process runs only on some processor.
RunsSomewhere == \A p \in Proc : pstate[p] = "RUNNING" => \E c \in CPU : running[c] = p

\* A process leaves its processor only at a point where it holds no spinlock
\* but ptable.lock.
OffCpuPoints ==
  \A p \in Proc : pstate[p] # "RUNNING" => pc[p] \in {"idle", "crit", "again", "asleep"}

\* A processor in the middle of a switch holds ptable.lock.
SwitchHoldsPtable ==
  \A c \in CPU : running[c] # NoOne /\ pstate[running[c]] # "RUNNING" => ptable = c

\* lk->lk is held by the processor whose process is in the code it protects.
SpinHeld ==
  \A c \in CPU : (spin = c) <=> (running[c] # NoOne /\ pc[running[c]] \in HoldsSpin)

\* ptable.lock is held in sleep() after the first step, and in wakeup1().
PtableHeld ==
  \A c \in CPU :
    running[c] # NoOne /\ pc[running[c]] \in {"drop", "nap", "asleep", "scan"} => ptable = c

\* A process that decided to sleep did see the lock taken, and as long as it
\* has not gone to sleep the one that frees it cannot get to its scan.
SleepJustified ==
  \A p \in Proc :
    /\ pc[p] \in {"sleep", "drop"} => locked
    /\ pc[p] = "nap" => locked \/ \E q \in Proc : pc[q] = "wake"

LockInv ==
  /\ OneCpu /\ RunsSomewhere /\ OffCpuPoints
  /\ SwitchHoldsPtable /\ SpinHeld /\ PtableHeld

WakeInv == SleepJustified /\ NoLostWakeup

SleepLockIInv == TypeOK /\ LockInv /\ MutualExclusion /\ WakeInv

-----------------------------------------------------------------------------

LEMMA NextCases ==
  ASSUME SleepLockNext
  PROVE  \E c \in CPU :
           \/ SchedulerTakePtable(c) \/ SchedulerDropPtable(c)
           \/ \E p \in Proc :
                \/ AcquireSpin(c, p) \/ TakeLock(c, p) \/ FindLocked(c, p)
                \/ SleepTakePtable(c, p) \/ SleepDropSpin(c, p)
                \/ SleepSetState(c, p) \/ SleepReturn(c, p)
                \/ ReleaseTakeSpin(c, p) \/ ReleaseClear(c, p)
                \/ WakeupTakePtable(c, p) \/ Wakeup1(c, p) \/ ReleaseDropSpin(c, p)
                \/ Yield(c, p) \/ SwitchOut(c, p) \/ ReleaseAfterSwitch(c, p)
                \/ SwitchIn(c, p)
BY DEF SleepLockNext, Acquiresleep, Sleep, Releasesleep, Scheduler

LEMMA InitInv == SleepLockInit => SleepLockIInv
BY NoOneAssumption DEF SleepLockInit, SleepLockIInv, LockInv, WakeInv, TypeOK, PC, ProcState, HoldsSpin, OneCpu,
  RunsSomewhere, OffCpuPoints, SwitchHoldsPtable, SpinHeld, PtableHeld,
  MutualExclusion, Owners, SleepJustified, NoLostWakeup

LEMMA TypeStep ==
  ASSUME TypeOK, SleepLockNext
  PROVE  TypeOK'
<1> USE NoOneAssumption DEF TypeOK, PC, ProcState, HoldsSpin, Stands, Goto
<1>1. ASSUME NEW c \in CPU, NEW p \in Proc, AcquireSpin(c, p) PROVE TypeOK'
  BY <1>1 DEF AcquireSpin
<1>2. ASSUME NEW c \in CPU, NEW p \in Proc, TakeLock(c, p) PROVE TypeOK'
  BY <1>2 DEF TakeLock
<1>3. ASSUME NEW c \in CPU, NEW p \in Proc, FindLocked(c, p) PROVE TypeOK'
  BY <1>3 DEF FindLocked
<1>4. ASSUME NEW c \in CPU, NEW p \in Proc, SleepTakePtable(c, p) PROVE TypeOK'
  BY <1>4 DEF SleepTakePtable
<1>5. ASSUME NEW c \in CPU, NEW p \in Proc, SleepDropSpin(c, p) PROVE TypeOK'
  BY <1>5 DEF SleepDropSpin
<1>6. ASSUME NEW c \in CPU, NEW p \in Proc, SleepSetState(c, p) PROVE TypeOK'
  BY <1>6 DEF SleepSetState
<1>7. ASSUME NEW c \in CPU, NEW p \in Proc, SleepReturn(c, p) PROVE TypeOK'
  BY <1>7 DEF SleepReturn
<1>8. ASSUME NEW c \in CPU, NEW p \in Proc, ReleaseTakeSpin(c, p) PROVE TypeOK'
  BY <1>8 DEF ReleaseTakeSpin
<1>9. ASSUME NEW c \in CPU, NEW p \in Proc, ReleaseClear(c, p) PROVE TypeOK'
  BY <1>9 DEF ReleaseClear
<1>10. ASSUME NEW c \in CPU, NEW p \in Proc, WakeupTakePtable(c, p) PROVE TypeOK'
  BY <1>10 DEF WakeupTakePtable
<1>11. ASSUME NEW c \in CPU, NEW p \in Proc, Wakeup1(c, p) PROVE TypeOK'
  BY <1>11 DEF Wakeup1
<1>12. ASSUME NEW c \in CPU, NEW p \in Proc, ReleaseDropSpin(c, p) PROVE TypeOK'
  BY <1>12 DEF ReleaseDropSpin
<1>13. ASSUME NEW c \in CPU, NEW p \in Proc, Yield(c, p) PROVE TypeOK'
  BY <1>13 DEF Yield
<1>14. ASSUME NEW c \in CPU, NEW p \in Proc, SwitchOut(c, p) PROVE TypeOK'
  BY <1>14 DEF SwitchOut
<1>15. ASSUME NEW c \in CPU, NEW p \in Proc, ReleaseAfterSwitch(c, p) PROVE TypeOK'
  BY <1>15 DEF ReleaseAfterSwitch
<1>16. ASSUME NEW c \in CPU, SchedulerTakePtable(c) PROVE TypeOK'
  BY <1>16 DEF SchedulerTakePtable
<1>17. ASSUME NEW c \in CPU, NEW p \in Proc, SwitchIn(c, p) PROVE TypeOK'
  BY <1>17 DEF SwitchIn
<1>18. ASSUME NEW c \in CPU, SchedulerDropPtable(c) PROVE TypeOK'
  BY <1>18 DEF SchedulerDropPtable
<1> QED
  BY NextCases, <1>1, <1>2, <1>3, <1>4, <1>5, <1>6, <1>7, <1>8, <1>9, <1>10, <1>11, <1>12, <1>13, <1>14, <1>15, <1>16, <1>17, <1>18

LEMMA LockStep ==
  ASSUME TypeOK, LockInv, SleepLockNext
  PROVE  LockInv'
<1> USE NoOneAssumption DEF TypeOK, PC, ProcState, HoldsSpin, LockInv, OneCpu, RunsSomewhere, OffCpuPoints, SwitchHoldsPtable, SpinHeld, PtableHeld, Stands, Goto
<1>1. ASSUME NEW c \in CPU, NEW p \in Proc, AcquireSpin(c, p) PROVE LockInv'
  BY <1>1 DEF AcquireSpin
<1>2. ASSUME NEW c \in CPU, NEW p \in Proc, TakeLock(c, p) PROVE LockInv'
  BY <1>2 DEF TakeLock
<1>3. ASSUME NEW c \in CPU, NEW p \in Proc, FindLocked(c, p) PROVE LockInv'
  BY <1>3 DEF FindLocked
<1>4. ASSUME NEW c \in CPU, NEW p \in Proc, SleepTakePtable(c, p) PROVE LockInv'
  BY <1>4 DEF SleepTakePtable
<1>5. ASSUME NEW c \in CPU, NEW p \in Proc, SleepDropSpin(c, p) PROVE LockInv'
  BY <1>5 DEF SleepDropSpin
<1>6. ASSUME NEW c \in CPU, NEW p \in Proc, SleepSetState(c, p) PROVE LockInv'
  BY <1>6 DEF SleepSetState
<1>7. ASSUME NEW c \in CPU, NEW p \in Proc, SleepReturn(c, p) PROVE LockInv'
  BY <1>7 DEF SleepReturn
<1>8. ASSUME NEW c \in CPU, NEW p \in Proc, ReleaseTakeSpin(c, p) PROVE LockInv'
  BY <1>8 DEF ReleaseTakeSpin
<1>9. ASSUME NEW c \in CPU, NEW p \in Proc, ReleaseClear(c, p) PROVE LockInv'
  BY <1>9 DEF ReleaseClear
<1>10. ASSUME NEW c \in CPU, NEW p \in Proc, WakeupTakePtable(c, p) PROVE LockInv'
  BY <1>10 DEF WakeupTakePtable
<1>11. ASSUME NEW c \in CPU, NEW p \in Proc, Wakeup1(c, p) PROVE LockInv'
  BY <1>11 DEF Wakeup1
<1>12. ASSUME NEW c \in CPU, NEW p \in Proc, ReleaseDropSpin(c, p) PROVE LockInv'
  BY <1>12 DEF ReleaseDropSpin
<1>13. ASSUME NEW c \in CPU, NEW p \in Proc, Yield(c, p) PROVE LockInv'
  BY <1>13 DEF Yield
<1>14. ASSUME NEW c \in CPU, NEW p \in Proc, SwitchOut(c, p) PROVE LockInv'
  BY <1>14 DEF SwitchOut
<1>15. ASSUME NEW c \in CPU, NEW p \in Proc, ReleaseAfterSwitch(c, p) PROVE LockInv'
  BY <1>15 DEF ReleaseAfterSwitch
<1>16. ASSUME NEW c \in CPU, SchedulerTakePtable(c) PROVE LockInv'
  BY <1>16 DEF SchedulerTakePtable
<1>17. ASSUME NEW c \in CPU, NEW p \in Proc, SwitchIn(c, p) PROVE LockInv'
  BY <1>17 DEF SwitchIn
<1>18. ASSUME NEW c \in CPU, SchedulerDropPtable(c) PROVE LockInv'
  BY <1>18 DEF SchedulerDropPtable
<1> QED
  BY NextCases, <1>1, <1>2, <1>3, <1>4, <1>5, <1>6, <1>7, <1>8, <1>9, <1>10, <1>11, <1>12, <1>13, <1>14, <1>15, <1>16, <1>17, <1>18

LEMMA MutexStep ==
  ASSUME SleepLockIInv, SleepLockNext
  PROVE  MutualExclusion'
<1> USE NoOneAssumption DEF SleepLockIInv, TypeOK, PC, ProcState, MutualExclusion, Owners, Stands, Goto
<1>1. ASSUME NEW c \in CPU, NEW p \in Proc, AcquireSpin(c, p) PROVE MutualExclusion'
  BY <1>1 DEF AcquireSpin
<1>2. ASSUME NEW c \in CPU, NEW p \in Proc, TakeLock(c, p) PROVE MutualExclusion'
  BY <1>2 DEF TakeLock
<1>3. ASSUME NEW c \in CPU, NEW p \in Proc, FindLocked(c, p) PROVE MutualExclusion'
  BY <1>3 DEF FindLocked
<1>4. ASSUME NEW c \in CPU, NEW p \in Proc, SleepTakePtable(c, p) PROVE MutualExclusion'
  BY <1>4 DEF SleepTakePtable
<1>5. ASSUME NEW c \in CPU, NEW p \in Proc, SleepDropSpin(c, p) PROVE MutualExclusion'
  BY <1>5 DEF SleepDropSpin
<1>6. ASSUME NEW c \in CPU, NEW p \in Proc, SleepSetState(c, p) PROVE MutualExclusion'
  BY <1>6 DEF SleepSetState
<1>7. ASSUME NEW c \in CPU, NEW p \in Proc, SleepReturn(c, p) PROVE MutualExclusion'
  BY <1>7 DEF SleepReturn
<1>8. ASSUME NEW c \in CPU, NEW p \in Proc, ReleaseTakeSpin(c, p) PROVE MutualExclusion'
  BY <1>8 DEF ReleaseTakeSpin
<1>9. ASSUME NEW c \in CPU, NEW p \in Proc, ReleaseClear(c, p) PROVE MutualExclusion'
  BY <1>9 DEF ReleaseClear
<1>10. ASSUME NEW c \in CPU, NEW p \in Proc, WakeupTakePtable(c, p) PROVE MutualExclusion'
  BY <1>10 DEF WakeupTakePtable
<1>11. ASSUME NEW c \in CPU, NEW p \in Proc, Wakeup1(c, p) PROVE MutualExclusion'
  BY <1>11 DEF Wakeup1
<1>12. ASSUME NEW c \in CPU, NEW p \in Proc, ReleaseDropSpin(c, p) PROVE MutualExclusion'
  BY <1>12 DEF ReleaseDropSpin
<1>13. ASSUME NEW c \in CPU, NEW p \in Proc, Yield(c, p) PROVE MutualExclusion'
  BY <1>13 DEF Yield
<1>14. ASSUME NEW c \in CPU, NEW p \in Proc, SwitchOut(c, p) PROVE MutualExclusion'
  BY <1>14 DEF SwitchOut
<1>15. ASSUME NEW c \in CPU, NEW p \in Proc, ReleaseAfterSwitch(c, p) PROVE MutualExclusion'
  BY <1>15 DEF ReleaseAfterSwitch
<1>16. ASSUME NEW c \in CPU, SchedulerTakePtable(c) PROVE MutualExclusion'
  BY <1>16 DEF SchedulerTakePtable
<1>17. ASSUME NEW c \in CPU, NEW p \in Proc, SwitchIn(c, p) PROVE MutualExclusion'
  BY <1>17 DEF SwitchIn
<1>18. ASSUME NEW c \in CPU, SchedulerDropPtable(c) PROVE MutualExclusion'
  BY <1>18 DEF SchedulerDropPtable
<1> QED
  BY NextCases, <1>1, <1>2, <1>3, <1>4, <1>5, <1>6, <1>7, <1>8, <1>9, <1>10, <1>11, <1>12, <1>13, <1>14, <1>15, <1>16, <1>17, <1>18

LEMMA WakeStep ==
  ASSUME SleepLockIInv, SleepLockNext
  PROVE  WakeInv'
<1> USE NoOneAssumption DEF SleepLockIInv, WakeInv, LockInv, TypeOK, PC, ProcState, HoldsSpin, OneCpu, RunsSomewhere, OffCpuPoints, SwitchHoldsPtable, SpinHeld, PtableHeld, MutualExclusion, Owners, SleepJustified, NoLostWakeup, Stands, Goto
<1>1. ASSUME NEW c \in CPU, NEW p \in Proc, AcquireSpin(c, p) PROVE WakeInv'
  BY <1>1 DEF AcquireSpin
<1>2. ASSUME NEW c \in CPU, NEW p \in Proc, TakeLock(c, p) PROVE WakeInv'
  BY <1>2 DEF TakeLock
<1>3. ASSUME NEW c \in CPU, NEW p \in Proc, FindLocked(c, p) PROVE WakeInv'
  BY <1>3 DEF FindLocked
<1>4. ASSUME NEW c \in CPU, NEW p \in Proc, SleepTakePtable(c, p) PROVE WakeInv'
  BY <1>4 DEF SleepTakePtable
<1>5. ASSUME NEW c \in CPU, NEW p \in Proc, SleepDropSpin(c, p) PROVE WakeInv'
  BY <1>5 DEF SleepDropSpin
<1>6. ASSUME NEW c \in CPU, NEW p \in Proc, SleepSetState(c, p) PROVE WakeInv'
  BY <1>6 DEF SleepSetState
<1>7. ASSUME NEW c \in CPU, NEW p \in Proc, SleepReturn(c, p) PROVE WakeInv'
  BY <1>7 DEF SleepReturn
<1>8. ASSUME NEW c \in CPU, NEW p \in Proc, ReleaseTakeSpin(c, p) PROVE WakeInv'
  BY <1>8 DEF ReleaseTakeSpin
<1>9. ASSUME NEW c \in CPU, NEW p \in Proc, ReleaseClear(c, p) PROVE WakeInv'
  BY <1>9 DEF ReleaseClear
<1>10. ASSUME NEW c \in CPU, NEW p \in Proc, WakeupTakePtable(c, p) PROVE WakeInv'
  BY <1>10 DEF WakeupTakePtable
<1>11. ASSUME NEW c \in CPU, NEW p \in Proc, Wakeup1(c, p) PROVE WakeInv'
  BY <1>11 DEF Wakeup1
<1>12. ASSUME NEW c \in CPU, NEW p \in Proc, ReleaseDropSpin(c, p) PROVE WakeInv'
  BY <1>12 DEF ReleaseDropSpin
<1>13. ASSUME NEW c \in CPU, NEW p \in Proc, Yield(c, p) PROVE WakeInv'
  BY <1>13 DEF Yield
<1>14. ASSUME NEW c \in CPU, NEW p \in Proc, SwitchOut(c, p) PROVE WakeInv'
  BY <1>14 DEF SwitchOut
<1>15. ASSUME NEW c \in CPU, NEW p \in Proc, ReleaseAfterSwitch(c, p) PROVE WakeInv'
  BY <1>15 DEF ReleaseAfterSwitch
<1>16. ASSUME NEW c \in CPU, SchedulerTakePtable(c) PROVE WakeInv'
  BY <1>16 DEF SchedulerTakePtable
<1>17. ASSUME NEW c \in CPU, NEW p \in Proc, SwitchIn(c, p) PROVE WakeInv'
  BY <1>17 DEF SwitchIn
<1>18. ASSUME NEW c \in CPU, SchedulerDropPtable(c) PROVE WakeInv'
  BY <1>18 DEF SchedulerDropPtable
<1> QED
  BY NextCases, <1>1, <1>2, <1>3, <1>4, <1>5, <1>6, <1>7, <1>8, <1>9, <1>10, <1>11, <1>12, <1>13, <1>14, <1>15, <1>16, <1>17, <1>18

LEMMA StepInv ==
  ASSUME SleepLockIInv, [SleepLockNext]_sleepVars
  PROVE  SleepLockIInv'
<1>1. CASE UNCHANGED sleepVars
  BY <1>1 DEF sleepVars, SleepLockIInv, LockInv, WakeInv, TypeOK, OneCpu, RunsSomewhere, OffCpuPoints,
    SwitchHoldsPtable, SpinHeld, PtableHeld, MutualExclusion, Owners, SleepJustified,
    NoLostWakeup
<1>2. CASE SleepLockNext
  BY <1>2, TypeStep, LockStep, MutexStep, WakeStep DEF SleepLockIInv
<1> QED
  BY <1>1, <1>2

-----------------------------------------------------------------------------

\* The conjunction of the facts above holds in every reachable state.
THEOREM Invariance == SleepLockSpec => []SleepLockIInv
BY InitInv, StepInv, PTL DEF SleepLockSpec

\* Every variable keeps its type, whatever the number of processes.
THEOREM TypeCorrect == SleepLockSpec => []TypeOK
<1>1. SleepLockIInv => TypeOK
  BY DEF SleepLockIInv
<1> QED
  BY <1>1, Invariance, PTL

\* acquiresleep() lets one process through, the one lk->pid names.
THEOREM MutexCorrect == SleepLockSpec => []MutualExclusion
<1>1. SleepLockIInv => MutualExclusion
  BY DEF SleepLockIInv
<1> QED
  BY <1>1, Invariance, PTL

\* Two processors never execute the same process.
THEOREM OneCpuCorrect == SleepLockSpec => []OneCpu
<1>1. SleepLockIInv => OneCpu
  BY DEF SleepLockIInv, LockInv
<1> QED
  BY <1>1, Invariance, PTL

\* No wakeup() falls between the test in acquiresleep() and the sleep.
THEOREM NoLostWakeupCorrect == SleepLockSpec => []NoLostWakeup
<1>1. SleepLockIInv => NoLostWakeup
  BY DEF SleepLockIInv, WakeInv
<1> QED
  BY <1>1, Invariance, PTL

\* sched() never panics about the locks it is entered with.
THEOREM SchedLocksCorrect == SleepLockSpec => []SchedLocks
<1>1. SleepLockIInv => SchedLocks
  BY DEF SleepLockIInv, TypeOK, LockInv, SchedLocks, SwitchHoldsPtable, OffCpuPoints, SpinHeld,
    HoldsSpin
<1> QED
  BY <1>1, Invariance, PTL

\* A process goes through sched() and scheduler() with ptable.lock held all the
\* way and is on one processor at a time.
THEOREM HandOffCorrect == SleepLockSpec => []HandOff
  BY TypeCorrect, OneCpuCorrect, SchedLocksCorrect, PTL DEF HandOff

-----------------------------------------------------------------------------

\* Under mutual exclusion the abstract holder is the owner, if there is one.
LEMMA HolderIsOwner ==
  ASSUME MutualExclusion
  PROVE  /\ \A p \in Owners : Holder = p /\ Holder # NoOne
         /\ Owners = {} => Holder = NoOne
<1>1. ASSUME NEW p \in Owners, NEW q \in Owners PROVE p = q
  BY DEF MutualExclusion, Owners
<1> QED
  BY <1>1, NoOneAssumption DEF Holder, Owners

LEMMA HolderIsOwnerNext ==
  ASSUME MutualExclusion'
  PROVE  /\ \A p \in Owners' : Holder' = p /\ Holder' # NoOne
         /\ Owners' = {} => Holder' = NoOne
<1>1. ASSUME NEW p \in Owners', NEW q \in Owners' PROVE p = q
  BY DEF MutualExclusion, Owners
<1> QED
  BY <1>1, NoOneAssumption DEF Holder, Owners

\* Only TakeLock and ReleaseClear change the set of owners.
LEMMA OwnersStep ==
  ASSUME SleepLockIInv, [SleepLockNext]_sleepVars
  PROVE  \/ Owners' = Owners
         \/ Owners = {} /\ \E p \in Proc : Owners' = {p}
         \/ Owners # {} /\ Owners' = {}
<1> USE DEF SleepLockIInv, TypeOK, Stands, Goto, Owners
<1>1. CASE UNCHANGED sleepVars
  BY <1>1 DEF sleepVars
<1>2. ASSUME NEW c \in CPU, NEW p \in Proc, TakeLock(c, p)
      PROVE  Owners = {} /\ Owners' = {p}
  BY <1>2 DEF TakeLock, MutualExclusion
<1>3. ASSUME NEW c \in CPU, NEW p \in Proc, ReleaseClear(c, p)
      PROVE  Owners # {} /\ Owners' = {}
  BY <1>3 DEF ReleaseClear, MutualExclusion
<1>4. ASSUME NEW c \in CPU, NEW p \in Proc,
             \/ AcquireSpin(c, p) \/ FindLocked(c, p)
             \/ SleepTakePtable(c, p) \/ SleepDropSpin(c, p) \/ SleepSetState(c, p)
             \/ SleepReturn(c, p) \/ ReleaseTakeSpin(c, p) \/ WakeupTakePtable(c, p)
             \/ Wakeup1(c, p) \/ ReleaseDropSpin(c, p)
      PROVE  Owners' = Owners
  BY <1>4 DEF AcquireSpin, FindLocked, SleepTakePtable, SleepDropSpin, SleepSetState,
    SleepReturn, ReleaseTakeSpin, WakeupTakePtable, Wakeup1, ReleaseDropSpin
<1>5. ASSUME NEW c \in CPU, NEW p \in Proc,
             \/ Yield(c, p) \/ SwitchOut(c, p) \/ ReleaseAfterSwitch(c, p)
             \/ SwitchIn(c, p)
      PROVE  Owners' = Owners
  BY <1>5 DEF Yield, SwitchOut, ReleaseAfterSwitch, SwitchIn
<1>6. ASSUME NEW c \in CPU, SchedulerTakePtable(c) \/ SchedulerDropPtable(c)
      PROVE  Owners' = Owners
  BY <1>6 DEF SchedulerTakePtable, SchedulerDropPtable
<1> QED
  BY <1>1, <1>2, <1>3, <1>4, <1>5, <1>6, NextCases

\* The sleep-lock implements the abstract mutex: the steps that change the
\* owner are Acquire and Release, every other step stutters.
THEOREM Refinement == SleepLockSpec => ImplementsMutex
<1>1. SleepLockInit => Abstract!Init
  BY DEF SleepLockInit, Abstract!Init, Holder, Owners
<1>2. ASSUME SleepLockIInv, SleepLockIInv', [SleepLockNext]_sleepVars PROVE [Abstract!Next]_Holder
  <2> USE DEF Abstract!Next, Abstract!Acquire, Abstract!Release
  <2>1. CASE Owners' = Owners
    BY <2>1 DEF Holder
  <2>2. CASE Owners = {} /\ \E p \in Proc : Owners' = {p}
    <3>1. PICK p \in Proc : Owners' = {p}
      BY <2>2
    <3>2. Holder = NoOne /\ Holder' = p
      BY <1>2, <2>2, <3>1, HolderIsOwner, HolderIsOwnerNext DEF SleepLockIInv
    <3> QED
      BY <3>2
  <2>3. CASE Owners # {} /\ Owners' = {}
    <3>1. Holder # NoOne /\ Holder' = NoOne
      BY <1>2, <2>3, HolderIsOwner, HolderIsOwnerNext DEF SleepLockIInv
    <3> QED
      BY <3>1
  <2> QED
    BY <1>2, <2>1, <2>2, <2>3, OwnersStep
<1> QED
  BY <1>1, <1>2, Invariance, PTL DEF SleepLockSpec, ImplementsMutex, Abstract!Spec

-----------------------------------------------------------------------------
(* SPINLOCKS. *)

Dos == {"pushcli", "popcli", "xchg", "store", "swtch", "resume", "wakeup1", "fork",
        "sti", "iret", "trapret", "scan"}
Ops == [do : Dos, arg : Locks \cup {"", "runnable", "unused"}]

(* A thread's nesting of pushcli() and its locks; whether it is in a system *)
(* call or in its program, in a handler of an interrupt, in forkret() or    *)
(* the scheduler; and whether it has yet to get its intena back (sched()).  *)
States == [n : Nat, held : SUBSET Locks, mode : {"call", "handler", "new", "sched"}, back : BOOLEAN]
St(n, H, m) == [n |-> n, held |-> H, mode |-> m, back |-> FALSE]
Switched(m) == [n |-> 1, held |-> {"ptable"}, mode |-> m, back |-> TRUE]

\* The order in which locks are taken, but for the message of growproc().
Rank(l) == IF l = "sbrk_lock" THEN 0 ELSE IF l = "ptable" THEN 2 ELSE 1
InOrder(l, H) == (\A h \in H : Rank(h) < Rank(l)) \/ (l = "cons" /\ "sbrk_lock" \in H)

\* What each operation asks of the state and makes of it.
Does(op, a, b) ==
  \/ /\ ~a.back
     /\ \/ op.do = "pushcli" /\ b = St(a.n + 1, a.held, a.mode)
        \/ op.do = "popcli" /\ a.n > 0 /\ (a.n = 1 => a.held = {}) /\ b = St(a.n - 1, a.held, a.mode)
        \/ /\ op.do = "xchg" /\ a.n > 0 /\ op.arg \in Locks \ a.held /\ InOrder(op.arg, a.held)
           /\ b = St(a.n, a.held \cup {op.arg}, a.mode)
        \/ op.do = "store" /\ op.arg \in a.held /\ b = St(a.n, a.held \ {op.arg}, a.mode)
        \/ /\ op.do = "swtch" /\ op.arg \in Devices \cup {"runnable"}
           /\ a.mode \in {"call", "handler"} /\ a = St(1, {"ptable"}, a.mode) /\ b = Switched(a.mode)
        \/ op.do = "wakeup1" /\ op.arg \in Devices /\ b = a
        \/ op.do = "fork" /\ a.mode # "sched" /\ b = a
        \/ op.do = "iret" /\ a = St(0, {}, "handler") /\ b \in {St(0, {}, "call"), St(0, {}, "new")}
        \/ op.do = "iret" /\ a = St(0, {}, "sched") /\ b = a
        \/ op.do = "trapret" /\ a = St(0, {}, "new") /\ b = St(0, {}, "call")
        \/ op.do = "sti" /\ a = St(0, {}, "sched") /\ b = a
        \/ op.do = "scan" /\ a = St(1, {"ptable"}, "sched") /\ b = a
  \/ op.do = "resume" /\ a.mode \in {"call", "handler"} /\ a = Switched(a.mode) /\ b = St(1, {"ptable"}, a.mode)

\* exit() does not come back from its switch.
Exits(op) == op.do = "swtch" /\ op.arg = "unused"

Names(t) == {t[k].do : k \in DOMAIN t}

\* A thread in a handler has an iret to come, one in forkret() a trapret, and
\* one in a call neither.
ModeFits(t, a) ==
  /\ a.mode = "call" => "iret" \notin Names(t) /\ "trapret" \notin Names(t)
  /\ a.mode = "handler" => "iret" \in Names(t)
  /\ a.mode = "new" => "trapret" \in Names(t)

Sound(a) == a \in States /\ (a.n = 0 => a.held = {})

\* Pairs of what is to be done and the state it is done from, closed under the
\* next operation.
Closed(W) == \A t, a : <<t, a>> \in W =>
  /\ t \in Seq(Ops) /\ Sound(a) /\ ModeFits(t, a)
  /\ t = <<>> => ~a.back /\ (a.mode = "sched" \/ a = St(0, {}, "call"))
  /\ t # <<>> => \/ Exits(Head(t)) /\ a = St(1, {"ptable"}, "call")
                 \/ \E b : Does(Head(t), a, b) /\ <<Tail(t), b>> \in W

Can(t, a) == \E W : Closed(W) /\ <<t, a>> \in W

\* What s does: all that can be done after it from b, can be done with s before
\* it from a.
Takes(s, a, b) == s \in Seq(Ops) /\ \A t \in Seq(Ops) : Can(t, b) => Can(s \o t, a)

-----------------------------------------------------------------------------
(* What can be done. *)

LEMMA CanIs ==
  ASSUME NEW t, NEW a, Can(t, a)
  PROVE  /\ t \in Seq(Ops) /\ Sound(a) /\ ModeFits(t, a)
         /\ t = <<>> => ~a.back /\ (a.mode = "sched" \/ a = St(0, {}, "call"))
         /\ t # <<>> => /\ Head(t) \in Ops /\ Tail(t) \in Seq(Ops)
                        /\ \/ Exits(Head(t)) /\ a = St(1, {"ptable"}, "call")
                           \/ \E b : Does(Head(t), a, b) /\ Can(Tail(t), b)
<1>1. PICK W : Closed(W) /\ <<t, a>> \in W
  BY DEF Can
<1>2. /\ t \in Seq(Ops) /\ Sound(a) /\ ModeFits(t, a)
      /\ t = <<>> => ~a.back /\ (a.mode = "sched" \/ a = St(0, {}, "call"))
      /\ t # <<>> => \/ Exits(Head(t)) /\ a = St(1, {"ptable"}, "call")
                     \/ \E b : Does(Head(t), a, b) /\ <<Tail(t), b>> \in W
  BY <1>1 DEF Closed
<1>3. \A b : <<Tail(t), b>> \in W => Can(Tail(t), b)
  BY <1>1 DEF Can
<1>4. t # <<>> => Head(t) \in Ops /\ Tail(t) \in Seq(Ops)
  BY <1>2, HeadTailProperties
<1> QED
  BY <1>2, <1>3, <1>4

\* One more operation before what can be done.
LEMMA CanPush ==
  ASSUME NEW op \in Ops, NEW t \in Seq(Ops), NEW a, Sound(a), ModeFits(<<op>> \o t, a),
         \/ Exits(op) /\ a = St(1, {"ptable"}, "call")
         \/ \E b : Does(op, a, b) /\ Can(t, b)
  PROVE  Can(<<op>> \o t, a)
<1> DEFINE s == <<op>> \o t
<1>1. s \in Seq(Ops) /\ s # <<>> /\ Head(s) = op /\ Tail(s) = t
  OBVIOUS
<1> HIDE DEF s
<1>2. CASE Exits(op) /\ a = St(1, {"ptable"}, "call")
  <2>1. Closed({<<s, a>>})
    BY <1>1, <1>2 DEF Closed, s
  <2> QED
    BY <2>1 DEF Can, s
<1>3. ASSUME NEW b, Does(op, a, b), Can(t, b) PROVE Can(s, a)
  <2>1. PICK W : Closed(W) /\ <<t, b>> \in W
    BY <1>3 DEF Can
  <2> DEFINE V == W \cup {<<s, a>>}
  <2>2. ASSUME NEW u, NEW c, <<u, c>> \in W
        PROVE  /\ u \in Seq(Ops) /\ Sound(c) /\ ModeFits(u, c)
               /\ u = <<>> => ~c.back /\ (c.mode = "sched" \/ c = St(0, {}, "call"))
               /\ u # <<>> => \/ Exits(Head(u)) /\ c = St(1, {"ptable"}, "call")
                              \/ \E d : Does(Head(u), c, d) /\ <<Tail(u), d>> \in V
    BY <2>1, <2>2 DEF Closed
  <2>3. /\ s \in Seq(Ops) /\ Sound(a) /\ ModeFits(s, a) /\ s # <<>>
        /\ \E d : Does(Head(s), a, d) /\ <<Tail(s), d>> \in V
    BY <1>1, <1>3, <2>1 DEF s
  <2>4. Closed(V)
    BY <2>2, <2>3 DEF Closed
  <2> QED
    BY <2>4 DEF Can
<1> QED
  BY <1>2, <1>3 DEF s

LEMMA NamesPush ==
  ASSUME NEW op \in Ops, NEW t \in Seq(Ops)
  PROVE  Names(<<op>> \o t) = {op.do} \cup Names(t)
<1> DEFINE s == <<op>> \o t
           n == Len(t)
<1>1. n \in Nat /\ DOMAIN t = 1..n
  BY LenProperties
<1>2. DOMAIN s = 1..(n + 1) /\ s[1] = op /\ \A k \in 1..n : s[k + 1] = t[k]
  <2>1. <<op>> \in Seq(Ops) /\ Len(<<op>>) = 1 /\ <<op>>[1] = op
    OBVIOUS
  <2>2. /\ s \in Seq(Ops) /\ Len(s) = 1 + n
        /\ \A k \in 1..(1 + n) : s[k] = IF k <= 1 THEN <<op>>[k] ELSE t[k - 1]
    BY <2>1, ConcatProperties
  <2>3. DOMAIN s = 1..(n + 1)
    BY <1>1, <2>2, LenProperties
  <2>4. s[1] = op
    BY <1>1, <2>1, <2>2
  <2>5. ASSUME NEW k \in 1..n PROVE s[k + 1] = t[k]
    <3>1. k + 1 \in 1..(1 + n) /\ ~(k + 1 <= 1) /\ (k + 1) - 1 = k
      BY <1>1
    <3> QED
      BY <2>2, <3>1
  <2> QED
    BY <2>3, <2>4, <2>5
<1> HIDE DEF s, n
<1>3. \A k \in 1..(n + 1) : k = 1 \/ (k - 1 \in 1..n /\ s[k] = t[k - 1])
  <2>1. ASSUME NEW k \in 1..(n + 1), k # 1 PROVE k - 1 \in 1..n /\ s[k] = t[k - 1]
    <3>1. k - 1 \in 1..n /\ (k - 1) + 1 = k
      BY <1>1, <2>1
    <3> QED
      BY <1>2, <3>1
  <2> QED
    BY <2>1
<1>4. \A k \in 1..n : k + 1 \in 1..(n + 1)
  BY <1>1
<1>5. 1 \in 1..(n + 1)
  BY <1>1
<1>6. Names(s) = {op.do} \cup Names(t)
  <2>1. ASSUME NEW x \in Names(s) PROVE x \in {op.do} \cup Names(t)
    <3>1. PICK k \in 1..(n + 1) : x = s[k].do
      BY <1>2, <2>1 DEF Names
    <3> QED
      BY <1>1, <1>2, <1>3, <3>1 DEF Names
  <2>2. ASSUME NEW x \in Names(t) PROVE x \in Names(s)
    <3>1. PICK k \in 1..n : x = t[k].do
      BY <1>1, <2>2 DEF Names
    <3> QED
      BY <1>2, <1>4, <3>1 DEF Names
  <2>3. op.do \in Names(s)
    BY <1>2, <1>5 DEF Names
  <2> QED
    BY <2>1, <2>2, <2>3
<1> QED
  BY <1>6 DEF s

LEMMA TakesOp ==
  ASSUME NEW do, NEW arg, [do |-> do, arg |-> arg] \in Ops,
         NEW a, NEW b, Sound(a), Does([do |-> do, arg |-> arg], a, b)
  PROVE  Takes(Op(do, arg), a, b)
<1> DEFINE op == [do |-> do, arg |-> arg]
<1>1. Op(do, arg) = <<op>> /\ <<op>> \in Seq(Ops)
  BY DEF Op
<1>2. op.do = do /\ op \in Ops /\ Does(op, a, b)
  OBVIOUS
<1> HIDE DEF op
<1>3. ASSUME NEW t \in Seq(Ops), Can(t, b) PROVE Can(<<op>> \o t, a)
  <2>1. ModeFits(t, b) /\ Names(<<op>> \o t) = {op.do} \cup Names(t)
    BY <1>2, <1>3, CanIs, NamesPush
  <2>2. ModeFits(<<op>> \o t, a)
    <3>1. CASE op.do = "iret"
      BY <1>2, <2>1, <3>1 DEF Does, ModeFits, St, Switched
    <3>2. CASE op.do = "trapret"
      BY <1>2, <2>1, <3>2 DEF Does, ModeFits, St, Switched
    <3>3. CASE op.do \notin {"iret", "trapret"}
      <4>1. b.mode = a.mode
        BY <1>2, <3>3 DEF Does, St, Switched
      <4> QED
        BY <2>1, <3>3, <4>1 DEF ModeFits
    <3> QED
      BY <3>1, <3>2, <3>3
  <2> QED
    BY <1>2, <1>3, <2>2, CanPush
<1> QED
  BY <1>1, <1>3 DEF Takes

LEMMA TakesBoth ==
  ASSUME NEW r, NEW s, NEW a, NEW b, NEW c, Takes(r, a, b), Takes(s, b, c)
  PROVE  Takes(r \o s, a, c)
<1>1. r \in Seq(Ops) /\ s \in Seq(Ops)
  BY DEF Takes
<1>2. r \o s \in Seq(Ops)
  BY <1>1, ConcatProperties
<1>3. ASSUME NEW t \in Seq(Ops), Can(t, c) PROVE Can((r \o s) \o t, a)
  <2>1. Can(s \o t, b) /\ s \o t \in Seq(Ops)
    BY <1>1, <1>3, ConcatProperties DEF Takes
  <2>2. Can(r \o (s \o t), a)
    BY <2>1 DEF Takes
  <2>3. (r \o s) \o t = r \o (s \o t)
    BY <1>1, ConcatAssociative
  <2> QED
    BY <2>2, <2>3
<1> QED
  BY <1>2, <1>3 DEF Takes

LEMMA TakesAcquire ==
  ASSUME NEW a, Sound(a), ~a.back, NEW l \in Locks \ a.held, InOrder(l, a.held)
  PROVE  Takes(acquire(l), a, St(a.n + 1, a.held \cup {l}, a.mode))
<1> DEFINE b == St(a.n + 1, a.held, a.mode)
           c == St(a.n + 1, a.held \cup {l}, a.mode)
<1>1. Sound(b) /\ b.n = a.n + 1 /\ b.n > 0 /\ b.held = a.held /\ b.mode = a.mode /\ ~b.back
  BY DEF Sound, States, St
<1>2. [do |-> "pushcli", arg |-> l] \in Ops /\ [do |-> "xchg", arg |-> l] \in Ops
  BY DEF Ops, Dos
<1>3. Takes(Op("pushcli", l), a, b)
  <2>1. Does([do |-> "pushcli", arg |-> l], a, b)
    BY DEF Does
  <2> QED
    BY <1>2, <2>1, TakesOp
<1>4. Takes(Op("xchg", l), b, c)
  <2>1. Does([do |-> "xchg", arg |-> l], b, c)
    BY <1>1 DEF Does
  <2> QED
    BY <1>1, <1>2, <2>1, TakesOp
<1> QED
  BY <1>3, <1>4, TakesBoth DEF acquire

LEMMA TakesRelease ==
  ASSUME NEW a, Sound(a), ~a.back, NEW l \in a.held, a.n = 1 => a.held = {l}
  PROVE  Takes(release(l), a, St(a.n - 1, a.held \ {l}, a.mode))
<1> DEFINE b == St(a.n, a.held \ {l}, a.mode)
           c == St(a.n - 1, a.held \ {l}, a.mode)
<1>1. /\ Sound(b) /\ b.n = a.n /\ b.held = a.held \ {l} /\ b.mode = a.mode /\ ~b.back
      /\ l \in Locks /\ b.n > 0 /\ (b.n = 1 => b.held = {})
  BY DEF Sound, States, St
<1>2. [do |-> "store", arg |-> l] \in Ops /\ [do |-> "popcli", arg |-> l] \in Ops
  BY <1>1 DEF Ops, Dos
<1>3. Takes(Op("store", l), a, b)
  <2>1. Does([do |-> "store", arg |-> l], a, b)
    BY DEF Does
  <2> QED
    BY <1>2, <2>1, TakesOp
<1>4. Takes(Op("popcli", l), b, c)
  <2>1. Does([do |-> "popcli", arg |-> l], b, c)
    BY <1>1 DEF Does
  <2> QED
    BY <1>1, <1>2, <2>1, TakesOp
<1> QED
  BY <1>3, <1>4, TakesBoth DEF release

-----------------------------------------------------------------------------
(* What the functions of the kernel do. *)

Modes == {"call", "handler", "new", "sched"}

LEMMA AcquireFrom ==
  ASSUME NEW n \in Nat, NEW H \in SUBSET Locks, NEW K, NEW m \in Modes, NEW l \in Locks,
         n = 0 => H = {}, l \notin H, InOrder(l, H), K = H \cup {l}
  PROVE  Takes(acquire(l), St(n, H, m), St(n + 1, K, m))
<1> DEFINE a == St(n, H, m)
<1>1. Sound(a) /\ ~a.back /\ a.n = n /\ a.held = H /\ a.mode = m
  BY DEF Sound, States, St, Modes
<1> HIDE DEF a
<1>2. Takes(acquire(l), a, St(a.n + 1, a.held \cup {l}, a.mode))
  BY <1>1, TakesAcquire
<1> QED
  BY <1>1, <1>2 DEF a

LEMMA ReleaseFrom ==
  ASSUME NEW n \in Nat, NEW H \in SUBSET Locks, NEW K, NEW m \in Modes, NEW l \in H,
         n > 0, n = 1 => H = {l}, K = H \ {l}
  PROVE  Takes(release(l), St(n, H, m), St(n - 1, K, m))
<1> DEFINE a == St(n, H, m)
<1>1. Sound(a) /\ ~a.back /\ a.n = n /\ a.held = H /\ a.mode = m
  BY DEF Sound, States, St, Modes
<1> HIDE DEF a
<1>2. Takes(release(l), a, St(a.n - 1, a.held \ {l}, a.mode))
  BY <1>1, TakesRelease
<1> QED
  BY <1>1, <1>2 DEF a

LEMMA LocksAre ==
  /\ "ptable" \in Locks /\ "sbrk_lock" \in Locks /\ "cons" \in Locks /\ Devices \subseteq Locks
  /\ "ptable" \notin Devices /\ "sbrk_lock" \notin Devices
  /\ Rank("ptable") = 2 /\ Rank("sbrk_lock") = 0 /\ \A l \in Devices : Rank(l) = 1
BY DEF Locks, Devices, Rank

LEMMA TakesMyproc ==
  ASSUME NEW n \in Nat, NEW H \in SUBSET Locks, n = 0 => H = {}, NEW m \in Modes
  PROVE  Takes(myproc, St(n, H, m), St(n, H, m))
<1> DEFINE a == St(n, H, m)
           b == St(n + 1, H, m)
<1>1. /\ Sound(a) /\ ~a.back /\ a.n = n /\ a.held = H /\ a.mode = m
      /\ Sound(b) /\ ~b.back /\ b.n = n + 1 /\ b.held = H /\ b.mode = m
  BY DEF Sound, States, St, Modes
<1>2. [do |-> "pushcli", arg |-> ""] \in Ops /\ [do |-> "popcli", arg |-> ""] \in Ops
  BY DEF Ops, Dos
<1>3. Does([do |-> "pushcli", arg |-> ""], a, b) /\ Does([do |-> "popcli", arg |-> ""], b, a)
  BY <1>1 DEF Does
<1> HIDE DEF a, b
<1>4. Takes(Op("pushcli", ""), a, b) /\ Takes(Op("popcli", ""), b, a)
  BY <1>1, <1>2, <1>3, TakesOp
<1>5. Takes(myproc, a, a)
  BY <1>4, TakesBoth DEF myproc
<1> QED
  BY <1>5 DEF a

\* Through the switch and back.
LEMMA TakesSched ==
  ASSUME NEW new \in Devices \cup {"runnable"}, NEW m \in {"call", "handler"}
  PROVE  Takes(sched(new), St(1, {"ptable"}, m), St(1, {"ptable"}, m))
<1> DEFINE a == St(1, {"ptable"}, m)
           b == Switched(m)
<1>1. /\ Sound(a) /\ ~a.back /\ a.mode = m /\ Sound(b) /\ b.back /\ b.mode = m
  BY LocksAre DEF Sound, States, St, Switched
<1>2. [do |-> "swtch", arg |-> new] \in Ops /\ [do |-> "resume", arg |-> ""] \in Ops
  BY LocksAre DEF Ops, Dos
<1>3. Does([do |-> "swtch", arg |-> new], a, b)
  BY <1>1 DEF Does
<1>4. Does([do |-> "resume", arg |-> ""], b, a)
  BY <1>1 DEF Does
<1> HIDE DEF a, b
<1>5. Takes(Op("swtch", new), a, b) /\ Takes(Op("resume", ""), b, a)
  BY <1>1, <1>2, <1>3, <1>4, TakesOp
<1>6. Takes(sched(new), a, a)
  BY <1>5, TakesBoth DEF sched
<1> QED
  BY <1>6 DEF a

\* Taking a lock and giving it back.
LEMMA TakesLock ==
  ASSUME NEW n \in Nat, NEW H \in SUBSET Locks, NEW K, NEW m \in Modes, NEW l \in Locks,
         n = 0 => H = {}, InOrder(l, H), l \notin H, K = H \cup {l}
  PROVE  /\ Takes(acquire(l), St(n, H, m), St(n + 1, K, m))
         /\ Takes(release(l), St(n + 1, K, m), St(n, H, m))
<1>1. Takes(acquire(l), St(n, H, m), St(n + 1, K, m))
  BY AcquireFrom
<1>2. Takes(release(l), St(n + 1, K, m), St(n, H, m))
  <2>1. /\ K \in SUBSET Locks /\ l \in K /\ n + 1 \in Nat /\ n + 1 > 0
        /\ H = K \ {l} /\ (n + 1 = 1 => K = {l})
    OBVIOUS
  <2>2. Takes(release(l), St(n + 1, K, m), St((n + 1) - 1, H, m))
    BY <2>1, ReleaseFrom
  <2>3. (n + 1) - 1 = n
    OBVIOUS
  <2> QED
    BY <2>2, <2>3
<1> QED
  BY <1>1, <1>2

\* The first lock of a thread, and ptable.lock after another.
LEMMA TakesFirst ==
  ASSUME NEW l \in Locks, NEW m \in Modes
  PROVE  /\ Takes(acquire(l), St(0, {}, m), St(1, {l}, m))
         /\ Takes(release(l), St(1, {l}, m), St(0, {}, m))
<1>1. InOrder(l, {}) /\ {l} = {} \cup {l} /\ 0 + 1 = 1
  BY DEF InOrder
<1>2. /\ Takes(acquire(l), St(0, {}, m), St(0 + 1, {l}, m))
      /\ Takes(release(l), St(0 + 1, {l}, m), St(0, {}, m))
  BY <1>1, TakesLock
<1> QED
  BY <1>1, <1>2

LEMMA TakesTable ==
  ASSUME NEW l \in Locks \ {"ptable"}, NEW m \in Modes
  PROVE  /\ Takes(acquire("ptable"), St(1, {l}, m), St(2, {l, "ptable"}, m))
         /\ Takes(release("ptable"), St(2, {l, "ptable"}, m), St(1, {l}, m))
<1>1. InOrder("ptable", {l}) /\ {l, "ptable"} = {l} \cup {"ptable"} /\ 1 + 1 = 2
  BY LocksAre DEF InOrder, Locks
<1>2. /\ Takes(acquire("ptable"), St(1, {l}, m), St(1 + 1, {l, "ptable"}, m))
      /\ Takes(release("ptable"), St(1 + 1, {l, "ptable"}, m), St(1, {l}, m))
  BY <1>1, LocksAre, TakesLock
<1> QED
  BY <1>1, <1>2

LEMMA TakesSleep ==
  ASSUME NEW l \in Devices
  PROVE  Takes(sleep(l), St(1, {l}, "call"), St(1, {l}, "call"))
<1> DEFINE one == St(1, {l}, "call")
           table == St(1, {"ptable"}, "call")
           none == St(0, {}, "call")
<1>1. Takes(acquire("ptable"), one, St(2, {l, "ptable"}, "call"))
  BY LocksAre, TakesTable DEF Modes
<1>2. Takes(release(l), St(2, {l, "ptable"}, "call"), table)
  <2>1. {"ptable"} = {l, "ptable"} \ {l} /\ {l, "ptable"} \in SUBSET Locks
    BY LocksAre
  <2>2. Takes(release(l), St(2, {l, "ptable"}, "call"), St(2 - 1, {"ptable"}, "call"))
    BY <2>1, ReleaseFrom DEF Modes
  <2> QED
    BY <2>2
<1>3. Takes(sched(l), table, table)
  BY TakesSched
<1>4. Takes(release("ptable"), table, none) /\ Takes(acquire(l), none, one)
  BY LocksAre, TakesFirst DEF Modes
<1> HIDE DEF one, table, none
<1>5. Takes(acquire("ptable") \o release(l), one, table)
  BY <1>1, <1>2, TakesBoth
<1>6. Takes(acquire("ptable") \o release(l) \o sched(l), one, table)
  BY <1>3, <1>5, TakesBoth
<1>7. Takes(acquire("ptable") \o release(l) \o sched(l) \o release("ptable"), one, none)
  BY <1>4, <1>6, TakesBoth
<1>8. Takes(sleep(l), one, one)
  BY <1>4, <1>7, TakesBoth DEF sleep
<1> QED
  BY <1>8 DEF one

LEMMA TakesWakeup ==
  ASSUME NEW l \in Devices, NEW m \in Modes
  PROVE  Takes(wakeup(l), St(1, {l}, m), St(1, {l}, m))
<1> DEFINE one == St(1, {l}, m)
           two == St(2, {l, "ptable"}, m)
<1>1. Takes(acquire("ptable"), one, two) /\ Takes(release("ptable"), two, one)
  BY LocksAre, TakesTable
<1>2. Takes(Op("wakeup1", l), two, two)
  <2>1. [do |-> "wakeup1", arg |-> l] \in Ops
    BY LocksAre DEF Ops, Dos
  <2>2. Sound(two) /\ ~two.back
    BY LocksAre DEF Sound, States, St, Modes
  <2>3. Does([do |-> "wakeup1", arg |-> l], two, two)
    BY <2>2 DEF Does
  <2> HIDE DEF two
  <2> QED
    BY <2>1, <2>2, <2>3, TakesOp
<1> HIDE DEF one, two
<1>3. Takes(acquire("ptable") \o Op("wakeup1", l), one, two)
  BY <1>1, <1>2, TakesBoth
<1>4. Takes(wakeup(l), one, one)
  BY <1>1, <1>3, TakesBoth DEF wakeup
<1> QED
  BY <1>4 DEF one

LEMMA TakesYield ==
  Takes(yield, St(0, {}, "handler"), St(0, {}, "handler"))
<1> DEFINE table == St(1, {"ptable"}, "handler")
           none == St(0, {}, "handler")
<1>1. Takes(acquire("ptable"), none, table) /\ Takes(release("ptable"), table, none)
  BY LocksAre, TakesFirst DEF Modes
<1>2. Takes(sched("runnable"), table, table)
  BY TakesSched
<1> HIDE DEF table, none
<1>3. Takes(acquire("ptable") \o sched("runnable"), none, table)
  BY <1>1, <1>2, TakesBoth
<1>4. Takes(yield, none, none)
  BY <1>1, <1>3, TakesBoth DEF yield
<1> QED
  BY <1>4 DEF none

-----------------------------------------------------------------------------
(* What begins in the program of a process, with an interrupt or with a    *)
(* thread.                                                                 *)

LEMMA TakesNothing ==
  ASSUME NEW a
  PROVE  Takes(<<>>, a, a)
<1>1. \A t \in Seq(Ops) : <<>> \o t = t
  BY ConcatEmptySeq
<1>2. <<>> \in Seq(Ops)
  OBVIOUS
<1> QED
  BY <1>1, <1>2 DEF Takes

LEMMA CanDo ==
  ASSUME NEW s, NEW a, NEW b, Takes(s, a, b), Sound(b), ~b.back, b.mode = "sched" \/ b = St(0, {}, "call")
  PROVE  Can(s, a)
<1>1. Names(<<>>) = {}
  BY DEF Names
<1>2. ModeFits(<<>>, b)
  BY <1>1 DEF ModeFits, St
<1>3. Closed({<< <<>>, b >>})
  BY <1>2 DEF Closed
<1>4. Can(<<>>, b) /\ <<>> \in Seq(Ops) /\ s \in Seq(Ops)
  BY <1>3 DEF Can, Takes
<1>5. Can(s \o <<>>, a)
  BY <1>4 DEF Takes
<1>6. s \o <<>> = s
  BY <1>4, ConcatEmptySeq
<1> QED
  BY <1>5, <1>6

LEMMA Ending ==
  /\ \A n \in Nat, m \in Modes : \A H \in SUBSET Locks :
       (n = 0 => H = {}) => Sound(St(n, H, m)) /\ ~St(n, H, m).back /\ St(n, H, m).mode = m
  /\ {} \in SUBSET Locks
BY DEF Sound, States, St, Modes

\* A system call goes from the program to the program.
LEMMA CanCall ==
  ASSUME NEW call \in Calls
  PROVE  Can(call, St(0, {}, "call"))
<1> DEFINE none == St(0, {}, "call")
           table == St(1, {"ptable"}, "call")
<1>1. Sound(none) /\ ~none.back
  BY Ending DEF Modes
<1>2. Takes(acquire("ptable"), none, table) /\ Takes(release("ptable"), table, none)
  BY LocksAre, TakesFirst DEF Modes
<1>3. CASE call = acquire("cons") \o sleep("cons") \o release("cons")
  <2> DEFINE one == St(1, {"cons"}, "call")
  <2>1. Takes(acquire("cons"), none, one) /\ Takes(release("cons"), one, none)
    BY LocksAre, TakesFirst DEF Modes
  <2>2. Takes(sleep("cons"), one, one)
    BY TakesSleep DEF Devices
  <2> HIDE DEF one, none
  <2>3. Takes(acquire("cons") \o sleep("cons"), none, one)
    BY <2>1, <2>2, TakesBoth
  <2>4. Takes(call, none, none)
    BY <1>3, <2>1, <2>3, TakesBoth
  <2> QED
    BY <1>1, <2>4, CanDo DEF none
<1>4. ASSUME NEW print \in {<<>>, acquire("cons") \o release("cons")},
             call = acquire("sbrk_lock") \o acquire("ptable") \o print
                      \o release("ptable") \o release("sbrk_lock")
      PROVE  Can(call, none)
  <2> DEFINE one == St(1, {"sbrk_lock"}, "call")
             two == St(2, {"sbrk_lock", "ptable"}, "call")
             three == St(3, {"sbrk_lock", "ptable", "cons"}, "call")
  <2>1. Takes(acquire("sbrk_lock"), none, one) /\ Takes(release("sbrk_lock"), one, none)
    BY LocksAre, TakesFirst DEF Modes
  <2>2. Takes(acquire("ptable"), one, two) /\ Takes(release("ptable"), two, one)
    BY LocksAre, TakesTable DEF Modes
  <2>3. Takes(acquire("cons"), two, three) /\ Takes(release("cons"), three, two)
    <3> DEFINE H == {"sbrk_lock", "ptable"}
    <3>1. /\ InOrder("cons", H) /\ H \in SUBSET Locks /\ "cons" \notin H
          /\ {"sbrk_lock", "ptable", "cons"} = H \cup {"cons"} /\ 2 + 1 = 3
      BY LocksAre DEF InOrder
    <3>2. /\ Takes(acquire("cons"), two, St(2 + 1, {"sbrk_lock", "ptable", "cons"}, "call"))
          /\ Takes(release("cons"), St(2 + 1, {"sbrk_lock", "ptable", "cons"}, "call"), two)
      BY <3>1, LocksAre, TakesLock DEF Modes
    <3> QED
      BY <3>1, <3>2
  <2> HIDE DEF one, two, three, none
  <2>4. Takes(print, two, two)
    BY <2>3, TakesNothing, TakesBoth
  <2>5. Takes(acquire("sbrk_lock") \o acquire("ptable"), none, two)
    BY <2>1, <2>2, TakesBoth
  <2>6. Takes(acquire("sbrk_lock") \o acquire("ptable") \o print, none, two)
    BY <2>4, <2>5, TakesBoth
  <2>7. Takes(acquire("sbrk_lock") \o acquire("ptable") \o print \o release("ptable"), none, one)
    BY <2>2, <2>6, TakesBoth
  <2>8. Takes(call, none, none)
    BY <1>4, <2>1, <2>7, TakesBoth
  <2> QED
    BY <1>1, <2>8, CanDo DEF none
<1>5. CASE call = acquire("ptable") \o Op("fork", "") \o release("ptable")
  <2>1. Takes(Op("fork", ""), table, table)
    <3>1. [do |-> "fork", arg |-> ""] \in Ops
      BY DEF Ops, Dos
    <3>2. Sound(table) /\ ~table.back /\ table.mode = "call"
      BY LocksAre, Ending DEF Modes
    <3>3. Does([do |-> "fork", arg |-> ""], table, table)
      BY <3>2 DEF Does
    <3> HIDE DEF table
    <3> QED
      BY <3>1, <3>2, <3>3, TakesOp
  <2> HIDE DEF table, none
  <2>2. Takes(acquire("ptable") \o Op("fork", ""), none, table)
    BY <1>2, <2>1, TakesBoth
  <2>3. Takes(call, none, none)
    BY <1>2, <1>5, <2>2, TakesBoth
  <2> QED
    BY <1>1, <2>3, CanDo DEF none
<1>6. CASE call = acquire("ptable") \o sched("unused")
  <2> DEFINE op == [do |-> "swtch", arg |-> "unused"]
             t == Op("resume", "")
  <2>1. op \in Ops /\ t \in Seq(Ops) /\ sched("unused") = <<op>> \o t
    BY DEF Ops, Dos, Op, sched
  <2>2. Exits(op) /\ op.do = "swtch"
    BY DEF Exits
  <2>3. Names(t) = {"resume"}
    <3> DEFINE r == [do |-> "resume", arg |-> ""]
    <3>1. t = <<r>> /\ r.do = "resume"
      BY DEF Op
    <3> HIDE DEF t, r
    <3>2. DOMAIN t = 1..1 /\ t[1] = r /\ 1..1 = {1}
      BY <3>1
    <3> QED
      BY <3>1, <3>2 DEF Names
  <2> HIDE DEF op, t
  <2>4. Names(<<op>> \o t) = {"swtch", "resume"}
    BY <2>1, <2>2, <2>3, NamesPush
  <2>5. Sound(table) /\ table.mode = "call" /\ table = St(1, {"ptable"}, "call")
    BY LocksAre, Ending DEF Modes
  <2> HIDE DEF table
  <2>6. ModeFits(<<op>> \o t, table)
    BY <2>4, <2>5 DEF ModeFits
  <2>7. Can(<<op>> \o t, table)
    <3>1. op \in Ops /\ t \in Seq(Ops)
      BY <2>1
    <3>2. Exits(op) /\ table = St(1, {"ptable"}, "call")
      BY <2>2, <2>5
    <3> QED
      BY <2>5, <2>6, <3>1, <3>2, CanPush
  <2>8. Can(sched("unused"), table) /\ sched("unused") \in Seq(Ops)
    BY <2>1, <2>7, CanIs
  <2> QED
    BY <1>2, <1>6, <2>8 DEF Takes
<1>7. CASE call = myproc
  <2>1. Takes(myproc, none, none)
    BY Ending, TakesMyproc DEF Modes
  <2> QED
    BY <1>1, <1>7, <2>1, CanDo
<1> QED
  BY <1>3, <1>4, <1>5, <1>6, <1>7 DEF Calls

\* A new process goes to its program.
LEMMA CanForkret == Can(forkret, St(1, {"ptable"}, "new"))
<1> DEFINE new == St(0, {}, "new")
           none == St(0, {}, "call")
<1>1. Takes(release("ptable"), St(1, {"ptable"}, "new"), new)
  BY LocksAre, TakesFirst DEF Modes
<1>2. Sound(new) /\ ~new.back /\ Sound(none) /\ ~none.back
  BY Ending DEF Modes
<1>3. Takes(Op("trapret", ""), new, none)
  <2>1. [do |-> "trapret", arg |-> ""] \in Ops
    BY DEF Ops, Dos
  <2>2. Does([do |-> "trapret", arg |-> ""], new, none)
    BY <1>2 DEF Does
  <2> HIDE DEF new, none
  <2> QED
    BY <1>2, <2>1, <2>2, TakesOp
<1>4. Takes(forkret, St(1, {"ptable"}, "new"), none)
  BY <1>1, <1>3, TakesBoth DEF forkret
<1> QED
  BY <1>2, <1>4, CanDo

\* The scheduler begins with interrupts off or on, and again after each round.
LEMMA CanScheduler ==
  /\ Can(scheduler, St(0, {}, "sched"))
  /\ Can(release("ptable") \o scheduler, St(1, {"ptable"}, "sched"))
<1> DEFINE none == St(0, {}, "sched")
           table == St(1, {"ptable"}, "sched")
<1>1. Takes(acquire("ptable"), none, table) /\ Takes(release("ptable"), table, none)
  BY LocksAre, TakesFirst DEF Modes
<1>2. Sound(none) /\ ~none.back /\ Sound(table) /\ ~table.back /\ table.mode = "sched"
  BY LocksAre, Ending DEF Modes
<1>3. [do |-> "sti", arg |-> ""] \in Ops /\ [do |-> "scan", arg |-> ""] \in Ops
  BY DEF Ops, Dos
<1>4. Does([do |-> "sti", arg |-> ""], none, none) /\ Does([do |-> "scan", arg |-> ""], table, table)
  BY <1>2 DEF Does
<1> HIDE DEF none, table
<1>5. Takes(Op("sti", ""), none, none) /\ Takes(Op("scan", ""), table, table)
  BY <1>2, <1>3, <1>4, TakesOp
<1>6. Takes(Op("sti", "") \o acquire("ptable"), none, table)
  BY <1>1, <1>5, TakesBoth
<1>7. Takes(scheduler, none, table)
  BY <1>5, <1>6, TakesBoth DEF scheduler
<1>8. Can(scheduler, none) /\ Can(release("ptable") \o scheduler, table)
  BY <1>1, <1>2, <1>7, TakesBoth, CanDo
<1> QED
  BY <1>8 DEF none, table

\* The wakeup of an interrupt.
Wakes == {<<>>} \cup {acquire(l) \o wakeup(l) \o release(l) : l \in Devices}

LEMMA TakesWake ==
  ASSUME NEW wake \in Wakes, NEW m \in Modes
  PROVE  Takes(wake, St(0, {}, m), St(0, {}, m))
<1>1. ASSUME NEW l \in Devices
      PROVE  Takes(acquire(l) \o wakeup(l) \o release(l), St(0, {}, m), St(0, {}, m))
  <2>1. Takes(acquire(l), St(0, {}, m), St(1, {l}, m)) /\ Takes(release(l), St(1, {l}, m), St(0, {}, m))
    BY LocksAre, TakesFirst
  <2>2. Takes(wakeup(l), St(1, {l}, m), St(1, {l}, m))
    BY TakesWakeup
  <2>3. Takes(acquire(l) \o wakeup(l), St(0, {}, m), St(1, {l}, m))
    BY <2>1, <2>2, TakesBoth
  <2> QED
    BY <2>1, <2>3, TakesBoth
<1> QED
  BY <1>1, TakesNothing DEF Wakes

\* An interrupt of a program, a system call or a new process: a handler, and
\* then what it interrupted.
LEMMA CanTrap ==
  ASSUME NEW wake \in Wakes, NEW yields \in {<<>>, myproc \o yield}, NEW t,
         NEW m \in {"call", "new"}, Can(t, St(0, {}, m))
  PROVE  Can(wake \o yields \o Op("iret", "") \o t, St(0, {}, "handler"))
<1> DEFINE none == St(0, {}, "handler")
           next == St(0, {}, m)
<1>1. Takes(wake, none, none)
  BY TakesWake DEF Modes
<1>2. Takes(yields, none, none)
  <2>1. Takes(myproc, none, none) /\ Takes(yield, none, none) /\ Takes(<<>>, none, none)
    BY Ending, TakesMyproc, TakesYield, TakesNothing DEF Modes
  <2>2. Takes(myproc \o yield, none, none)
    BY <2>1, TakesBoth
  <2> QED
    BY <2>1, <2>2
<1>3. Takes(Op("iret", ""), none, next)
  <2>1. [do |-> "iret", arg |-> ""] \in Ops
    BY DEF Ops, Dos
  <2>2. Sound(none) /\ ~none.back
    BY Ending DEF Modes
  <2>3. Does([do |-> "iret", arg |-> ""], none, next)
    BY <2>2 DEF Does
  <2> HIDE DEF none, next
  <2> QED
    BY <2>1, <2>2, <2>3, TakesOp
<1> HIDE DEF none
<1>4. Takes(wake \o yields, none, none)
  BY <1>1, <1>2, TakesBoth
<1> HIDE DEF next
<1>5. Takes(wake \o yields \o Op("iret", ""), none, next)
  BY <1>3, <1>4, TakesBoth
<1>6. t \in Seq(Ops)
  BY CanIs
<1> QED
  BY <1>5, <1>6 DEF Takes, none, next

\* An interrupt of the scheduler.
LEMMA CanTrapScheduler ==
  ASSUME NEW wake \in Wakes, NEW t, Can(t, St(0, {}, "sched"))
  PROVE  Can(wake \o <<>> \o Op("iret", "") \o t, St(0, {}, "sched"))
<1> DEFINE none == St(0, {}, "sched")
<1>1. Takes(wake, none, none) /\ Takes(<<>>, none, none)
  BY TakesWake, TakesNothing DEF Modes
<1>2. Takes(Op("iret", ""), none, none)
  <2>1. [do |-> "iret", arg |-> ""] \in Ops
    BY DEF Ops, Dos
  <2>2. Sound(none) /\ ~none.back
    BY Ending DEF Modes
  <2>3. Does([do |-> "iret", arg |-> ""], none, none)
    BY <2>2 DEF Does
  <2> HIDE DEF none
  <2> QED
    BY <2>1, <2>2, <2>3, TakesOp
<1>3. t \in Seq(Ops) /\ Can(t, none)
  BY CanIs
<1> HIDE DEF none
<1>4. Takes(wake \o <<>>, none, none)
  BY <1>1, TakesBoth
<1>5. Takes(wake \o <<>> \o Op("iret", ""), none, none)
  BY <1>2, <1>4, TakesBoth
<1>6. Can(wake \o <<>> \o Op("iret", "") \o t, none)
  BY <1>3, <1>5 DEF Takes
<1> QED
  BY <1>6 DEF none

-----------------------------------------------------------------------------
(* The invariant. *)

Types ==
  /\ lock \in [Locks -> Cpus \cup {Free}]
  /\ IF_ \in [Cpus -> BOOLEAN] /\ ncli \in [Cpus -> Nat] /\ intena \in [Cpus -> BOOLEAN]
  /\ on \in [Cpus -> Cpus \cup Procs]
  /\ todo \in [Cpus \cup Procs -> Seq(Ops)]
  /\ saved \in [Procs -> BOOLEAN]
  /\ state \in [Procs -> {"unused", "runnable", "running"} \cup Devices]

\* A processor runs its scheduler or a process, and nobody else runs that.
Places ==
  /\ \A c \in Cpus : on[c] \in Procs \cup {c}
  /\ \A c \in Cpus : on[c] \in Procs => state[on[c]] = "running"
  /\ \A c, d \in Cpus : on[c] = on[d] => c = d

\* The processor c is in the state a: its locks, its ncli and the flag IF; and
\* popcli() will turn interrupts on again in a system call only.
Fits(c, a) ==
  /\ a.mode = "sched" <=> on[c] = c
  /\ ncli[c] = a.n
  /\ \A l \in Locks : lock[l] = c <=> l \in a.held
  /\ a.n > 0 => ~IF_[c]
  /\ a.n = 0 /\ a.mode = "call" => IF_[c]
  /\ a.n = 0 /\ a.mode = "handler" => ~IF_[c]
  /\ a.n > 0 /\ ~a.back /\ a.mode \in {"call", "handler"} => (intena[c] <=> a.mode = "call")
  /\ a.back /\ on[c] \in Procs => (saved[on[c]] <=> a.mode = "call")

Run == \A c \in Cpus : \E a : Can(todo[on[c]], a) /\ Fits(c, a)

\* The scheduler and the processes that do not run stand at the switch.
SchedulersWait == \A c \in Cpus : on[c] # c => Can(todo[c], St(1, {"ptable"}, "sched"))

Waits(p) ==
  \/ Can(todo[p], St(1, {"ptable"}, "new"))
  \/ \E m \in {"call", "handler"} : Can(todo[p], Switched(m)) /\ (saved[p] <=> m = "call")
ProcsWait == \A p \in Procs : state[p] \notin {"running", "unused"} => Waits(p)

IInv == Types /\ Places /\ Run /\ SchedulersWait /\ ProcsWait /\ ~panicked

LEMMA InitIInv == Init => IInv
<1> SUFFICES ASSUME Init PROVE IInv
  OBVIOUS
<1>1. Can(scheduler, St(0, {}, "sched")) /\ Can(forkret, St(1, {"ptable"}, "new"))
  BY CanScheduler, CanForkret
<1>2. scheduler \in Seq(Ops) /\ forkret \in Seq(Ops) /\ <<>> \in Seq(Ops)
  BY <1>1, CanIs
<1>3. Types
  BY <1>2, ConstantsAssumption DEF Init, Types, Locks
<1>4. Places
  BY ConstantsAssumption DEF Init, Places
<1>5. ASSUME NEW c \in Cpus
      PROVE  todo[c] = scheduler /\ on[c] = c /\ Fits(c, St(0, {}, "sched"))
  BY ConstantsAssumption DEF Init, Fits, St
<1>6. Run /\ SchedulersWait
  BY <1>1, <1>5 DEF Run, SchedulersWait
<1>7. ProcsWait
  BY <1>1, ConstantsAssumption DEF Init, ProcsWait, Waits
<1> QED
  BY <1>3, <1>4, <1>6, <1>7 DEF IInv, Init

\* A thread that runs is no other thread than the one of its processor.
LEMMA Apart ==
  ASSUME IInv, NEW c \in Cpus
  PROVE  /\ on[c] \in Cpus \cup Procs
         /\ \A d \in Cpus \ {c} : on[d] # on[c]
         /\ \A d \in Cpus : on[d] # d => d # on[c]
         /\ \A p \in Procs : state[p] # "running" => p # on[c]
<1>1. on[c] \in Cpus \cup Procs /\ on[c] \in Procs \cup {c}
  BY DEF IInv, Types, Places
<1>2. \A d \in Cpus \ {c} : on[d] # on[c]
  BY DEF IInv, Places
<1>3. ASSUME NEW d \in Cpus, on[d] # d PROVE d # on[c]
  BY <1>1, <1>3, ConstantsAssumption
<1>4. ASSUME NEW p \in Procs, state[p] # "running" PROVE p # on[c]
  BY <1>4 DEF IInv, Places
<1> QED
  BY <1>1, <1>2, <1>3, <1>4

\* c has s left to do, and nothing of the other processors has changed.
LEMMA GoesOn ==
  ASSUME IInv, NEW c \in Cpus, NEW s, NEW b, Can(s, b), Fits(c, b)',
         todo'[on[c]] = s, on' = on, saved' = saved,
         \A t \in Cpus \cup {p \in Procs : state[p] # "unused"} : t # on[c] => todo'[t] = todo[t],
         \A d \in Cpus \ {c} : /\ IF_'[d] = IF_[d] /\ ncli'[d] = ncli[d] /\ intena'[d] = intena[d]
                               /\ \A l \in Locks : lock'[l] = d <=> lock[l] = d
  PROVE  /\ Run' /\ SchedulersWait'
         /\ \A p \in Procs : state[p] \notin {"running", "unused"} => todo'[p] = todo[p]
<1>1. /\ on[c] \in Cpus \cup Procs
      /\ \A d \in Cpus \ {c} : on[d] # on[c]
      /\ \A d \in Cpus : on[d] # d => d # on[c]
      /\ \A p \in Procs : state[p] # "running" => p # on[c]
  BY Apart
<1>2. Run'
  <2>1. \E a : Can(todo'[on'[c]], a) /\ Fits(c, a)'
    OBVIOUS
  <2>2. ASSUME NEW d \in Cpus \ {c}
        PROVE  \E a : Can(todo'[on'[d]], a) /\ Fits(d, a)'
    <3>1. PICK a : Can(todo[on[d]], a) /\ Fits(d, a)
      BY DEF IInv, Run
    <3>2. on[d] \in Cpus \cup {p \in Procs : state[p] # "unused"}
      BY DEF IInv, Places
    <3>3. todo'[on'[d]] = todo[on[d]]
      BY <1>1, <3>2
    <3>4. Fits(d, a)'
      BY <3>1 DEF Fits
    <3> QED
      BY <3>1, <3>3, <3>4
  <2> QED
    BY <2>1, <2>2 DEF Run
<1>3. SchedulersWait'
  BY <1>1 DEF IInv, SchedulersWait
<1>4. \A p \in Procs : state[p] \notin {"running", "unused"} => todo'[p] = todo[p]
  BY <1>1
<1> QED
  BY <1>2, <1>3, <1>4

\* The same when no process goes to sleep, wakes or ends.
LEMMA GoesOnAlone ==
  ASSUME IInv, NEW c \in Cpus, NEW s, NEW b, Can(s, b), Fits(c, b)',
         todo' = [todo EXCEPT ![on[c]] = s], UNCHANGED <<on, saved, state, panicked>>,
         lock' \in [Locks -> Cpus \cup {Free}], IF_' \in [Cpus -> BOOLEAN],
         ncli' \in [Cpus -> Nat], intena' \in [Cpus -> BOOLEAN],
         \A d \in Cpus \ {c} : /\ IF_'[d] = IF_[d] /\ ncli'[d] = ncli[d] /\ intena'[d] = intena[d]
                               /\ \A l \in Locks : lock'[l] = d <=> lock[l] = d
  PROVE  IInv'
<1>1. on[c] \in Cpus \cup Procs /\ s \in Seq(Ops) /\ todo \in [Cpus \cup Procs -> Seq(Ops)]
  BY Apart, CanIs DEF IInv, Types
<1>2. /\ todo' \in [Cpus \cup Procs -> Seq(Ops)] /\ todo'[on[c]] = s
      /\ \A t \in Cpus \cup Procs : t # on[c] => todo'[t] = todo[t]
  BY <1>1
<1>3. /\ Run' /\ SchedulersWait'
      /\ \A p \in Procs : state[p] \notin {"running", "unused"} => todo'[p] = todo[p]
  BY <1>2, GoesOn
<1>4. Types' /\ Places' /\ ~panicked'
  BY <1>2 DEF IInv, Types, Places
<1>5. ProcsWait'
  BY <1>3 DEF IInv, ProcsWait, Waits
<1> QED
  BY <1>3, <1>4, <1>5 DEF IInv

\* What c does next, and from which state.
LEMMA Doing ==
  ASSUME IInv, NEW c \in Cpus, NEW do, At(c, do)
  PROVE  /\ Next1(c) \in Ops /\ Next1(c).do = do /\ Tail(todo[on[c]]) \in Seq(Ops)
         /\ \E a : /\ Can(todo[on[c]], a) /\ Fits(c, a) /\ Sound(a)
                   /\ \/ Exits(Next1(c)) /\ a = St(1, {"ptable"}, "call")
                      \/ \E b : Does(Next1(c), a, b) /\ Can(Tail(todo[on[c]]), b)
<1>1. PICK a : Can(todo[on[c]], a) /\ Fits(c, a)
  BY DEF IInv, Run
<1>2. todo[on[c]] # <<>> /\ Next1(c).do = do
  BY DEF At
<1> QED
  BY <1>1, <1>2, CanIs DEF Next1

\* Nothing but the switch of exit() is left without a next state.
LEMMA DoingOp ==
  ASSUME IInv, NEW c \in Cpus, NEW do, do # "swtch", At(c, do)
  PROVE  \E a, b : /\ Fits(c, a) /\ Sound(a) /\ Next1(c).do = do
                   /\ Does(Next1(c), a, b) /\ Can(Tail(todo[on[c]]), b)
BY Doing DEF Exits

-----------------------------------------------------------------------------
(* Each action keeps the invariant. *)

LEMMA StepSyscall ==
  ASSUME IInv, NEW c \in Cpus, syscall(c)
  PROVE  IInv'
<1>1. /\ on[c] \in Procs /\ todo[on[c]] = <<>> /\ IF_[c]
      /\ UNCHANGED <<lock, IF_, ncli, intena, on, saved, state, panicked>>
  BY DEF syscall, cpu
<1>2. PICK call \in Calls : todo' = [todo EXCEPT ![on[c]] = call]
  BY DEF syscall
<1>3. PICK a : Can(todo[on[c]], a) /\ Fits(c, a)
  BY DEF IInv, Run
<1>4. a.mode = "sched" \/ a = St(0, {}, "call")
  BY <1>1, <1>3, CanIs
<1>5. a = St(0, {}, "call")
  BY <1>1, <1>3, <1>4, ConstantsAssumption DEF Fits
<1>6. Can(call, a) /\ Fits(c, a)'
  BY <1>1, <1>3, <1>5, CanCall DEF Fits, St
<1> QED
  BY <1>1, <1>2, <1>6, GoesOnAlone DEF IInv, Types

LEMMA StepTrap ==
  ASSUME IInv, NEW c \in Cpus, trap(c)
  PROVE  IInv'
<1>1. /\ IF_[c] /\ IF_' = [IF_ EXCEPT ![c] = FALSE]
      /\ UNCHANGED <<lock, ncli, intena, on, saved, state, panicked>>
  BY DEF trap
<1>2. PICK a : Can(todo[on[c]], a) /\ Fits(c, a)
  BY DEF IInv, Run
<1>3. /\ Sound(a) /\ a.n = 0 /\ a.held = {} /\ a.mode \in {"call", "new", "sched"}
      /\ a.mode = "sched" <=> on[c] = c
      /\ ~a.back
  <2>1. Sound(a)
    BY <1>2, CanIs
  <2>2. a.n = 0 /\ a.held = {}
    BY <1>1, <1>2, <2>1 DEF Fits, Sound, States
  <2>3. ~a.back
    BY <1>2, <2>2, CanIs DEF Does, Switched, Exits, St
  <2>4. a.mode \in {"call", "new", "sched"}
    BY <1>1, <1>2, <2>1, <2>2 DEF Fits, Sound, States
  <2> QED
    BY <1>2, <2>1, <2>2, <2>3, <2>4 DEF Fits
<1>4. a = St(0, {}, a.mode)
  BY <1>3 DEF Sound, States, St
<1>5. PICK l \in Devices, counts \in BOOLEAN :
        todo' = [todo EXCEPT ![on[c]] =
                   (IF l = "cons" \/ counts THEN acquire(l) \o wakeup(l) \o release(l) ELSE <<>>)
                     \o (IF l = "tickslock" /\ on[c] \in Procs THEN myproc \o yield ELSE <<>>)
                     \o Op("iret", "") \o @]
  BY DEF trap
<1> DEFINE wake == IF l = "cons" \/ counts THEN acquire(l) \o wakeup(l) \o release(l) ELSE <<>>
           yields == IF l = "tickslock" /\ on[c] \in Procs THEN myproc \o yield ELSE <<>>
           s == wake \o yields \o Op("iret", "") \o todo[on[c]]
<1>6. todo' = [todo EXCEPT ![on[c]] = s]
  BY <1>5
<1>7. wake \in Wakes /\ yields \in {<<>>, myproc \o yield}
  BY DEF Wakes
<1>8. on[c] \notin Procs => yields = <<>>
  OBVIOUS
<1> DEFINE m == IF a.mode = "sched" THEN "sched" ELSE "handler"
           b == St(0, {}, m)
<1> HIDE DEF wake, yields
<1>9. Can(s, b)
  <2>1. CASE a.mode = "sched"
    <3>1. yields = <<>>
      BY <1>3, <1>8, <2>1, ConstantsAssumption
    <3>2. Can(todo[on[c]], St(0, {}, "sched"))
      BY <1>2, <1>4, <2>1
    <3>3. Can(wake \o <<>> \o Op("iret", "") \o todo[on[c]], St(0, {}, "sched"))
      BY <1>7, <3>2, CanTrapScheduler
    <3> QED
      BY <2>1, <3>1, <3>3
  <2>2. CASE a.mode \in {"call", "new"}
    <3>1. Can(todo[on[c]], St(0, {}, a.mode))
      BY <1>2, <1>4
    <3>2. Can(wake \o yields \o Op("iret", "") \o todo[on[c]], St(0, {}, "handler"))
      BY <1>7, <2>2, <3>1, CanTrap
    <3> QED
      BY <2>2, <3>2
  <2> QED
    BY <1>3, <2>1, <2>2
<1>10. Fits(c, b)'
  <2>1. b.n = 0 /\ b.held = {} /\ b.mode = m /\ ~b.back /\ (m = "sched" <=> a.mode = "sched") /\ m # "call"
    BY DEF St
  <2>2. ~IF_'[c]
    BY <1>1 DEF IInv, Types
  <2> HIDE DEF b, m
  <2> QED
    BY <1>1, <1>2, <1>3, <2>1, <2>2 DEF Fits
<1>11. IF_' \in [Cpus -> BOOLEAN] /\ \A d \in Cpus \ {c} : IF_'[d] = IF_[d]
  BY <1>1 DEF IInv, Types
<1>12. lock' \in [Locks -> Cpus \cup {Free}] /\ ncli' \in [Cpus -> Nat] /\ intena' \in [Cpus -> BOOLEAN]
  BY <1>1 DEF IInv, Types
<1>13. UNCHANGED <<on, saved, state, panicked>>
  BY <1>1
<1>14. \A d \in Cpus \ {c} : /\ IF_'[d] = IF_[d] /\ ncli'[d] = ncli[d] /\ intena'[d] = intena[d]
                             /\ \A k \in Locks : lock'[k] = d <=> lock[k] = d
  BY <1>1, <1>11
<1> HIDE DEF s, b, m
<1> QED
  BY <1>6, <1>9, <1>10, <1>11, <1>12, <1>13, <1>14, GoesOnAlone

LEMMA StepPushcli ==
  ASSUME IInv, NEW c \in Cpus, pushcli(c)
  PROVE  IInv'
<1>1. /\ At(c, "pushcli") /\ Done(c)
      /\ IF_' = [IF_ EXCEPT ![c] = FALSE]
      /\ intena' = [intena EXCEPT ![c] = IF ncli[c] = 0 THEN IF_[c] ELSE @]
      /\ ncli' = [ncli EXCEPT ![c] = @ + 1]
      /\ UNCHANGED <<lock, on, saved, state, panicked>>
  BY DEF pushcli
<1>2. PICK a, b : /\ Fits(c, a) /\ Sound(a) /\ Next1(c).do = "pushcli"
                  /\ Does(Next1(c), a, b) /\ Can(Tail(todo[on[c]]), b)
  BY <1>1, DoingOp
<1>3. ~a.back /\ b = St(a.n + 1, a.held, a.mode)
  BY <1>2 DEF Does
<1>4. b.n = a.n + 1 /\ b.n > 0 /\ b.held = a.held /\ b.mode = a.mode /\ ~b.back
  BY <1>2, <1>3 DEF St, Sound, States
<1>5. ~IF_'[c] /\ ncli'[c] = ncli[c] + 1 /\ intena'[c] = IF ncli[c] = 0 THEN IF_[c] ELSE intena[c]
  BY <1>1 DEF IInv, Types
<1>6. Fits(c, b)'
  <2>1. a.n \in Nat
    BY <1>2, <1>3 DEF Sound, States
  <2>2. b.mode \in {"call", "handler"} => (intena'[c] <=> b.mode = "call")
    BY <1>2, <1>3, <1>4, <1>5, <2>1 DEF Fits
  <2> QED
    BY <1>1, <1>2, <1>3, <1>4, <1>5, <2>1, <2>2 DEF Fits
<1>7. /\ lock' \in [Locks -> Cpus \cup {Free}] /\ IF_' \in [Cpus -> BOOLEAN]
      /\ ncli' \in [Cpus -> Nat] /\ intena' \in [Cpus -> BOOLEAN]
  BY <1>1 DEF IInv, Types
<1>8. \A d \in Cpus \ {c} : /\ IF_'[d] = IF_[d] /\ ncli'[d] = ncli[d] /\ intena'[d] = intena[d]
                            /\ \A l \in Locks : lock'[l] = d <=> lock[l] = d
  BY <1>1 DEF IInv, Types
<1> QED
  BY <1>1, <1>2, <1>3, <1>6, <1>7, <1>8, GoesOnAlone DEF Done

LEMMA StepPopcli ==
  ASSUME IInv, NEW c \in Cpus, popcli(c)
  PROVE  IInv'
<1>1. PICK a, b : /\ Fits(c, a) /\ Sound(a) /\ Next1(c).do = "popcli"
                  /\ Does(Next1(c), a, b) /\ Can(Tail(todo[on[c]]), b)
  BY DoingOp DEF popcli
<1>2. /\ ~a.back /\ a.n > 0 /\ (a.n = 1 => a.held = {})
      /\ b = St(a.n - 1, a.held, a.mode)
  BY <1>1 DEF Does
<1>3. a.n \in Nat /\ ncli[c] = a.n /\ ~IF_[c]
  BY <1>1, <1>2 DEF Fits, Sound, States
<1>4. /\ Done(c)
      /\ ncli' = [ncli EXCEPT ![c] = @ - 1]
      /\ IF_' = [IF_ EXCEPT ![c] = ncli[c] = 1 /\ intena[c]]
      /\ UNCHANGED <<lock, intena, on, saved, state, panicked>>
  BY <1>1, <1>2, <1>3 DEF popcli
<1>5. b.n = a.n - 1 /\ b.held = a.held /\ b.mode = a.mode /\ ~b.back
  BY <1>1, <1>2 DEF St
<1>6. ncli'[c] = a.n - 1 /\ (IF_'[c] <=> a.n = 1 /\ intena[c])
  BY <1>3, <1>4 DEF IInv, Types
<1>7. Fits(c, b)'
  BY <1>1, <1>2, <1>3, <1>4, <1>5, <1>6 DEF Fits
<1>8. /\ lock' \in [Locks -> Cpus \cup {Free}] /\ intena' \in [Cpus -> BOOLEAN]
      /\ ncli' \in [Cpus -> Nat] /\ IF_' \in [Cpus -> BOOLEAN]
  <2>1. ncli[c] - 1 \in Nat /\ (ncli[c] = 1 /\ intena[c]) \in BOOLEAN
    BY <1>1, <1>2, <1>3
  <2> QED
    BY <1>4, <2>1 DEF IInv, Types
<1>9. \A d \in Cpus \ {c} : /\ IF_'[d] = IF_[d] /\ ncli'[d] = ncli[d] /\ intena'[d] = intena[d]
                            /\ \A l \in Locks : lock'[l] = d <=> lock[l] = d
  BY <1>4 DEF IInv, Types
<1> QED
  BY <1>1, <1>2, <1>4, <1>7, <1>8, <1>9, GoesOnAlone DEF Done

LEMMA StepXchg ==
  ASSUME IInv, NEW c \in Cpus, xchg(c)
  PROVE  IInv'
<1> DEFINE l == Next1(c).arg
<1>1. PICK a, b : /\ Fits(c, a) /\ Sound(a) /\ Next1(c).do = "xchg"
                  /\ Does(Next1(c), a, b) /\ Can(Tail(todo[on[c]]), b)
  BY DoingOp DEF xchg
<1>2. /\ ~a.back /\ a.n > 0 /\ l \in Locks \ a.held
      /\ b = St(a.n, a.held \cup {l}, a.mode)
  BY <1>1 DEF Does
<1>3. lock[l] # c
  BY <1>1, <1>2 DEF Fits
<1>4. /\ lock[l] = Free /\ lock' = [lock EXCEPT ![l] = c] /\ Done(c)
      /\ UNCHANGED <<IF_, ncli, intena, on, saved, state, panicked>>
  BY <1>3 DEF xchg, cpu
<1>5. b.n = a.n /\ b.held = a.held \cup {l} /\ b.mode = a.mode /\ ~b.back
  BY <1>1, <1>2 DEF St
<1> HIDE DEF l
<1>6. \A k \in Locks : lock'[k] = IF k = l THEN c ELSE lock[k]
  BY <1>1, <1>2, <1>4 DEF IInv, Types
<1>7. \A k \in Locks : lock'[k] = c <=> k \in b.held
  BY <1>1, <1>2, <1>5, <1>6 DEF Fits
<1>8. Fits(c, b)'
  BY <1>1, <1>2, <1>4, <1>5, <1>7 DEF Fits
<1>9. /\ lock' \in [Locks -> Cpus \cup {Free}] /\ intena' \in [Cpus -> BOOLEAN]
      /\ ncli' \in [Cpus -> Nat] /\ IF_' \in [Cpus -> BOOLEAN]
  BY <1>4 DEF IInv, Types
<1>10. \A d \in Cpus \ {c} : /\ IF_'[d] = IF_[d] /\ ncli'[d] = ncli[d] /\ intena'[d] = intena[d]
                            /\ \A k \in Locks : lock'[k] = d <=> lock[k] = d
  BY <1>4, <1>6, ConstantsAssumption
<1> QED
  <2>1. todo' = [todo EXCEPT ![on[c]] = Tail(todo[on[c]])] /\ UNCHANGED <<on, saved, state, panicked>>
    BY <1>4 DEF Done
  <2> QED
    BY <1>1, <1>8, <1>9, <1>10, <2>1, GoesOnAlone

LEMMA StepStore ==
  ASSUME IInv, NEW c \in Cpus, store(c)
  PROVE  IInv'
<1> DEFINE l == Next1(c).arg
<1>1. PICK a, b : /\ Fits(c, a) /\ Sound(a) /\ Next1(c).do = "store"
                  /\ Does(Next1(c), a, b) /\ Can(Tail(todo[on[c]]), b)
  BY DoingOp DEF store
<1>2. /\ ~a.back /\ l \in a.held
      /\ b = St(a.n, a.held \ {l}, a.mode)
  BY <1>1 DEF Does
<1>3. l \in Locks /\ lock[l] = c
  BY <1>1, <1>2 DEF Fits, Sound, States
<1>4. /\ lock' = [lock EXCEPT ![l] = Free] /\ Done(c)
      /\ UNCHANGED <<IF_, ncli, intena, on, saved, state, panicked>>
  BY <1>3 DEF store, cpu
<1>5. b.n = a.n /\ b.held = a.held \ {l} /\ b.mode = a.mode /\ ~b.back
  BY <1>1, <1>2 DEF St
<1> HIDE DEF l
<1>6. \A k \in Locks : lock'[k] = IF k = l THEN Free ELSE lock[k]
  BY <1>3, <1>4 DEF IInv, Types
<1>7. \A k \in Locks : lock'[k] = c <=> k \in b.held
  BY <1>1, <1>2, <1>5, <1>6, ConstantsAssumption DEF Fits
<1>8. Fits(c, b)'
  BY <1>1, <1>2, <1>4, <1>5, <1>7 DEF Fits
<1>9. /\ lock' \in [Locks -> Cpus \cup {Free}] /\ intena' \in [Cpus -> BOOLEAN]
      /\ ncli' \in [Cpus -> Nat] /\ IF_' \in [Cpus -> BOOLEAN]
  BY <1>4 DEF IInv, Types
<1>10. \A d \in Cpus \ {c} : /\ IF_'[d] = IF_[d] /\ ncli'[d] = ncli[d] /\ intena'[d] = intena[d]
                            /\ \A k \in Locks : lock'[k] = d <=> lock[k] = d
  BY <1>3, <1>4, <1>6, ConstantsAssumption
<1> QED
  <2>1. todo' = [todo EXCEPT ![on[c]] = Tail(todo[on[c]])] /\ UNCHANGED <<on, saved, state, panicked>>
    BY <1>4 DEF Done
  <2> QED
    BY <1>1, <1>8, <1>9, <1>10, <2>1, GoesOnAlone

LEMMA StepResume ==
  ASSUME IInv, NEW c \in Cpus, resume(c)
  PROVE  IInv'
<1>1. PICK a, b : /\ Fits(c, a) /\ Sound(a) /\ Next1(c).do = "resume"
                  /\ Does(Next1(c), a, b) /\ Can(Tail(todo[on[c]]), b)
  BY DoingOp DEF resume
<1>2. /\ a.mode \in {"call", "handler"} /\ a = Switched(a.mode)
      /\ b = St(1, {"ptable"}, a.mode)
  BY <1>1 DEF Does
<1>3. /\ intena' = [intena EXCEPT ![c] = saved[on[c]]] /\ Done(c)
      /\ UNCHANGED <<lock, IF_, ncli, on, saved, state, panicked>>
  BY DEF resume, Restored
<1>4. /\ a.n = 1 /\ a.held = {"ptable"} /\ a.back
      /\ b.n = 1 /\ b.held = {"ptable"} /\ b.mode = a.mode /\ ~b.back
  BY <1>1, <1>2 DEF St, Switched
<1>5. on[c] \in Procs /\ intena'[c] = saved[on[c]] /\ saved[on[c]] \in BOOLEAN
  BY <1>1, <1>2, <1>3 DEF IInv, Types, Places, Fits
<1>6. Fits(c, b)'
  BY <1>1, <1>2, <1>3, <1>4, <1>5 DEF Fits
<1>7. /\ lock' \in [Locks -> Cpus \cup {Free}] /\ intena' \in [Cpus -> BOOLEAN]
      /\ ncli' \in [Cpus -> Nat] /\ IF_' \in [Cpus -> BOOLEAN]
  BY <1>3, <1>5 DEF IInv, Types
<1>8. \A d \in Cpus \ {c} : intena'[d] = intena[d]
  BY <1>3 DEF IInv, Types
<1> QED
  BY <1>1, <1>2, <1>3, <1>6, <1>7, <1>8, GoesOnAlone DEF Done

LEMMA StepSti ==
  ASSUME IInv, NEW c \in Cpus, sti(c)
  PROVE  IInv'
<1>1. /\ At(c, "sti") \/ At(c, "iret") \/ At(c, "trapret")
      /\ IF_' = [IF_ EXCEPT ![c] = TRUE] /\ Done(c)
      /\ UNCHANGED <<lock, ncli, intena, on, saved, state, panicked>>
  BY DEF sti
<1>2. PICK a, b : /\ Fits(c, a) /\ Next1(c).do \in {"sti", "iret", "trapret"}
                  /\ Does(Next1(c), a, b) /\ Can(Tail(todo[on[c]]), b)
  BY <1>1, DoingOp
<1>3. PICK m \in Modes, k \in Modes \ {"handler"} :
        a = St(0, {}, m) /\ b = St(0, {}, k) /\ (m = "sched" <=> k = "sched")
  BY <1>2 DEF Does, Modes
<1>4. IF_'[c] = TRUE
  BY <1>1 DEF IInv, Types
<1>5. Fits(c, b)'
  BY <1>1, <1>2, <1>3, <1>4 DEF Fits, St
<1>6. IF_' \in [Cpus -> BOOLEAN] /\ \A d \in Cpus \ {c} : IF_'[d] = IF_[d]
  BY <1>1 DEF IInv, Types
<1>7. lock' \in [Locks -> Cpus \cup {Free}] /\ ncli' \in [Cpus -> Nat] /\ intena' \in [Cpus -> BOOLEAN]
  BY <1>1 DEF IInv, Types
<1>8. todo' = [todo EXCEPT ![on[c]] = Tail(todo[on[c]])] /\ UNCHANGED <<on, saved, state, panicked>>
  BY <1>1 DEF Done
<1> QED
  BY <1>1, <1>2, <1>5, <1>6, <1>7, <1>8, GoesOnAlone

\* The process c was running is left with its locks and interrupts, and the
\* scheduler of c goes on with them.
LEMMA StepSwtch ==
  ASSUME IInv, NEW c \in Cpus, swtch(c)
  PROVE  IInv'
<1> DEFINE p == on[c]
           new == Next1(c).arg
           rest == IF new = "unused" THEN <<>> ELSE Tail(todo[p])
<1>1. At(c, "swtch")
  BY DEF swtch
<1>2. PICK a : /\ Fits(c, a) /\ a.mode \in {"call", "handler"} /\ a = St(1, {"ptable"}, a.mode)
               /\ new = "unused" \/ /\ new \in Devices \cup {"runnable"}
                                    /\ Can(rest, Switched(a.mode))
  <2>1. PICK a : /\ Fits(c, a)
                 /\ \/ Exits(Next1(c)) /\ a = St(1, {"ptable"}, "call")
                    \/ \E b : Does(Next1(c), a, b) /\ Can(Tail(todo[p]), b)
    BY <1>1, Doing
  <2>2. CASE Exits(Next1(c)) /\ a = St(1, {"ptable"}, "call")
    BY <2>1, <2>2 DEF Exits, St
  <2>3. ASSUME NEW b, Does(Next1(c), a, b), Can(Tail(todo[p]), b)
        PROVE  /\ a.mode \in {"call", "handler"} /\ a = St(1, {"ptable"}, a.mode)
               /\ new \in Devices \cup {"runnable"} /\ Can(rest, Switched(a.mode))
    <3>1. Next1(c).do = "swtch"
      BY <1>1, Doing
    <3>2. /\ a.mode \in {"call", "handler"} /\ a = St(1, {"ptable"}, a.mode)
          /\ new \in Devices \cup {"runnable"} /\ b = Switched(a.mode)
      BY <2>3, <3>1 DEF Does
    <3>3. rest = Tail(todo[p])
      BY <3>2 DEF Devices
    <3> QED
      BY <2>3, <3>2, <3>3
  <2> QED
    BY <2>1, <2>2, <2>3
<1>3. a.n = 1 /\ a.held = {"ptable"} /\ ~a.back /\ a.mode # "sched"
  BY <1>2 DEF St
<1>4. lock["ptable"] = c /\ ncli[c] = 1 /\ ~IF_[c] /\ on[c] # c /\ (intena[c] <=> a.mode = "call")
  BY <1>2, <1>3, LocksAre DEF Fits
<1>5. /\ saved' = [saved EXCEPT ![p] = intena[c]] /\ state' = [state EXCEPT ![p] = new]
      /\ todo' = [todo EXCEPT ![p] = rest] /\ on' = [on EXCEPT ![c] = c]
      /\ UNCHANGED <<lock, IF_, ncli, intena, panicked>>
  BY <1>4 DEF swtch, cpu
<1>6. p \in Procs /\ c \notin Procs /\ p \notin Cpus
  BY <1>4, ConstantsAssumption DEF IInv, Places
<1>7. rest \in Seq(Ops) /\ new \in {"unused", "runnable"} \cup Devices
  <2>1. CASE new = "unused"
    BY <2>1
  <2>2. CASE new \in Devices \cup {"runnable"} /\ Can(rest, Switched(a.mode))
    BY <2>2, CanIs
  <2> QED
    BY <1>2, <2>1, <2>2
<1> HIDE DEF p, new, rest
<1>8. /\ todo'[p] = rest /\ \A t \in Cpus \cup Procs : t # p => todo'[t] = todo[t]
      /\ saved'[p] = intena[c] /\ \A q \in Procs : q # p => saved'[q] = saved[q]
      /\ state'[p] = new /\ \A q \in Procs : q # p => state'[q] = state[q]
      /\ on'[c] = c /\ \A d \in Cpus : d # c => on'[d] = on[d]
  BY <1>5, <1>6 DEF IInv, Types
<1>9. /\ \A d \in Cpus : d # c => on[d] # p /\ on[d] \in Procs \cup {d}
      /\ todo \in [Cpus \cup Procs -> Seq(Ops)]
  BY DEF IInv, Types, Places, p
<1>10. Types'
  BY <1>5, <1>6, <1>7 DEF IInv, Types
<1>11. Places'
  <2>1. \A d \in Cpus : on'[d] \in Procs \cup {d}
    BY <1>8, <1>9
  <2>2. ASSUME NEW d \in Cpus, on'[d] \in Procs PROVE state'[on'[d]] = "running"
    <3>1. d # c /\ on'[d] = on[d]
      BY <1>6, <1>8, <2>2
    <3> QED
      BY <1>8, <1>9, <2>2, <3>1 DEF IInv, Places
  <2>3. ASSUME NEW d \in Cpus, NEW e \in Cpus, on'[d] = on'[e] PROVE d = e
    BY <1>6, <1>8, <1>9, <2>3, ConstantsAssumption DEF IInv, Places
  <2> QED
    BY <2>1, <2>2, <2>3 DEF Places
<1>12. Run'
  <2>1. \E b : Can(todo'[on'[c]], b) /\ Fits(c, b)'
    <3> DEFINE b == St(1, {"ptable"}, "sched")
    <3>1. Can(todo'[on'[c]], b)
      BY <1>4, <1>6, <1>8 DEF IInv, SchedulersWait
    <3>2. b.n = 1 /\ b.held = {"ptable"} /\ b.mode = "sched" /\ ~b.back
      BY DEF St
    <3> HIDE DEF b
    <3>3. Fits(c, b)'
      BY <1>2, <1>3, <1>4, <1>5, <1>8, <3>2 DEF Fits
    <3> QED
      BY <3>1, <3>3
  <2>2. ASSUME NEW d \in Cpus, d # c
        PROVE  \E b : Can(todo'[on'[d]], b) /\ Fits(d, b)'
    <3>1. PICK b : Can(todo[on[d]], b) /\ Fits(d, b)
      BY DEF IInv, Run
    <3>2. on'[d] = on[d] /\ todo'[on[d]] = todo[on[d]] /\ (on[d] \in Procs => saved'[on[d]] = saved[on[d]])
      BY <1>8, <1>9, <2>2
    <3>3. Fits(d, b)'
      BY <1>5, <3>1, <3>2 DEF Fits
    <3> QED
      BY <3>1, <3>2, <3>3
  <2> QED
    BY <2>1, <2>2 DEF Run
<1>13. SchedulersWait'
  BY <1>6, <1>8 DEF IInv, SchedulersWait
<1>14. ProcsWait'
  <2>1. ASSUME NEW q \in Procs, q # p, state'[q] \notin {"running", "unused"}
        PROVE  Waits(q)'
    BY <1>8, <2>1 DEF IInv, ProcsWait, Waits
  <2>2. ASSUME NEW q \in Procs, q = p, state'[q] \notin {"running", "unused"}
        PROVE  Waits(q)'
    <3>1. Can(todo'[q], Switched(a.mode)) /\ (saved'[q] <=> a.mode = "call")
      BY <1>2, <1>4, <1>8, <2>2
    <3>2. a.mode \in {"call", "handler"}
      BY <1>2
    <3>3. \E m \in {"call", "handler"} : Can(todo'[q], Switched(m)) /\ (saved'[q] <=> m = "call")
      BY <3>1, <3>2
    <3> QED
      BY <3>3 DEF Waits
  <2> QED
    BY <2>1, <2>2 DEF ProcsWait
<1> QED
  BY <1>5, <1>10, <1>11, <1>12, <1>13, <1>14 DEF IInv

LEMMA StepWakeup1 ==
  ASSUME IInv, NEW c \in Cpus, wakeup1(c)
  PROVE  IInv'
<1>1. /\ At(c, "wakeup1") /\ Done(c)
      /\ state' = [p \in Procs |-> IF state[p] = Next1(c).arg THEN "runnable" ELSE state[p]]
      /\ UNCHANGED <<lock, IF_, ncli, intena, on, saved, panicked>>
  BY DEF wakeup1, cpu
<1>2. PICK a, b : /\ Fits(c, a) /\ Next1(c).do = "wakeup1"
                  /\ Does(Next1(c), a, b) /\ Can(Tail(todo[on[c]]), b)
  BY <1>1, DoingOp
<1>3. Next1(c).arg \in Devices /\ b = a
  BY <1>2 DEF Does
<1>4. Fits(c, b)'
  BY <1>1, <1>2, <1>3 DEF Fits
<1>5. on[c] \in Cpus \cup Procs /\ Tail(todo[on[c]]) \in Seq(Ops)
  BY <1>2, Apart, CanIs
<1>6. /\ todo' \in [Cpus \cup Procs -> Seq(Ops)] /\ todo'[on[c]] = Tail(todo[on[c]])
      /\ \A t \in Cpus \cup Procs : t # on[c] => todo'[t] = todo[t]
  BY <1>1, <1>5 DEF Done, IInv, Types
<1>7. /\ Run' /\ SchedulersWait'
      /\ \A p \in Procs : state[p] \notin {"running", "unused"} => todo'[p] = todo[p]
  BY <1>1, <1>2, <1>4, <1>6, GoesOn
<1>8. \A p \in Procs : /\ state[p] = "running" => state'[p] = "running"
                       /\ state'[p] \notin {"running", "unused"} => state[p] \notin {"running", "unused"}
                       /\ state'[p] \in {"unused", "runnable", "running"} \cup Devices
  BY <1>1, <1>3 DEF IInv, Types, Devices
<1>9. Types'
  BY <1>1, <1>6 DEF IInv, Types
<1>10. Places'
  BY <1>1, <1>8 DEF IInv, Places
<1>11. ProcsWait'
  BY <1>1, <1>7, <1>8 DEF IInv, ProcsWait, Waits
<1> QED
  BY <1>1, <1>7, <1>9, <1>10, <1>11 DEF IInv

LEMMA StepFork ==
  ASSUME IInv, NEW c \in Cpus, fork(c)
  PROVE  IInv'
<1>1. At(c, "fork") /\ UNCHANGED <<lock, IF_, ncli, intena, on, saved, panicked>>
  BY DEF fork, cpu
<1>2. PICK a, b : /\ Fits(c, a) /\ Next1(c).do = "fork"
                  /\ Does(Next1(c), a, b) /\ Can(Tail(todo[on[c]]), b)
  BY <1>1, DoingOp
<1>3. a.mode # "sched" /\ b = a
  BY <1>2 DEF Does
<1>4. Fits(c, b)'
  BY <1>1, <1>2, <1>3 DEF Fits
<1>5. on[c] \in Procs /\ Tail(todo[on[c]]) \in Seq(Ops)
  BY <1>2, <1>3, CanIs DEF IInv, Places, Fits
<1>6. CASE Done(c) /\ UNCHANGED state
  <2>1. /\ lock' \in [Locks -> Cpus \cup {Free}] /\ IF_' \in [Cpus -> BOOLEAN]
        /\ ncli' \in [Cpus -> Nat] /\ intena' \in [Cpus -> BOOLEAN]
    BY <1>1 DEF IInv, Types
  <2>2. todo' = [todo EXCEPT ![on[c]] = Tail(todo[on[c]])] /\ UNCHANGED <<on, saved, state, panicked>>
    BY <1>1, <1>6 DEF Done
  <2> QED
    BY <1>1, <1>2, <1>4, <2>1, <2>2, GoesOnAlone
<1>7. ASSUME NEW q \in Procs, state[q] = "unused", state' = [state EXCEPT ![q] = "runnable"],
             todo' = [todo EXCEPT ![q] = forkret, ![on[c]] = Tail(@)]
      PROVE  IInv'
  <2>1. q # on[c]
    BY <1>7, Apart
  <2>2. Can(forkret, St(1, {"ptable"}, "new")) /\ forkret \in Seq(Ops)
    BY CanForkret, CanIs
  <2>3. /\ todo' \in [Cpus \cup Procs -> Seq(Ops)]
        /\ todo'[on[c]] = Tail(todo[on[c]]) /\ todo'[q] = forkret
        /\ \A t \in Cpus \cup Procs : t # on[c] /\ t # q => todo'[t] = todo[t]
    BY <1>5, <1>7, <2>1, <2>2 DEF IInv, Types
  <2>4. q \notin Cpus \cup {p \in Procs : state[p] # "unused"}
    BY <1>7, ConstantsAssumption
  <2>5. /\ Run' /\ SchedulersWait'
        /\ \A p \in Procs : state[p] \notin {"running", "unused"} => todo'[p] = todo[p]
    BY <1>1, <1>2, <1>4, <2>3, <2>4, GoesOn
  <2>6. state'[q] = "runnable" /\ \A p \in Procs : p # q => state'[p] = state[p]
    BY <1>7 DEF IInv, Types
  <2>7. Types'
    BY <1>1, <1>7, <2>3 DEF IInv, Types
  <2>8. Places'
    BY <1>1, <1>7, <2>6 DEF IInv, Places
  <2>9. ProcsWait'
    <3>1. Waits(q)'
      BY <2>2, <2>3 DEF Waits
    <3>2. ASSUME NEW p \in Procs, p # q, state'[p] \notin {"running", "unused"} PROVE Waits(p)'
      BY <1>1, <2>5, <2>6, <3>2 DEF IInv, ProcsWait, Waits
    <3> QED
      BY <3>1, <3>2 DEF ProcsWait
  <2> QED
    BY <1>1, <2>5, <2>7, <2>8, <2>9 DEF IInv
<1> QED
  BY <1>6, <1>7 DEF fork

\* The scheduler of c gives the processor to a process that stands at the switch.
LEMMA StepScan ==
  ASSUME IInv, NEW c \in Cpus, scan(c)
  PROVE  IInv'
<1>1. At(c, "scan") /\ UNCHANGED <<lock, IF_, ncli, intena, saved, panicked>>
  BY DEF scan, cpu
<1>2. PICK a : Fits(c, a) /\ Can(todo[on[c]], a) /\ a = St(1, {"ptable"}, "sched")
  <2>1. PICK a, b : /\ Can(todo[on[c]], a) /\ Fits(c, a)
                    /\ \/ Exits(Next1(c))
                       \/ Does(Next1(c), a, b)
    BY <1>1, Doing
  <2>2. Next1(c).do = "scan"
    BY <1>1, Doing
  <2> QED
    BY <2>1, <2>2 DEF Does, Exits
<1>3. a.n = 1 /\ a.held = {"ptable"} /\ a.mode = "sched" /\ ~a.back
  BY <1>2 DEF St
<1>4. on[c] = c /\ ncli[c] = 1 /\ ~IF_[c]
  BY <1>2, <1>3 DEF Fits
<1>5. CASE todo' = [todo EXCEPT ![c] = release("ptable") \o scheduler] /\ UNCHANGED <<state, on>>
  <2>1. /\ lock' \in [Locks -> Cpus \cup {Free}] /\ IF_' \in [Cpus -> BOOLEAN]
        /\ ncli' \in [Cpus -> Nat] /\ intena' \in [Cpus -> BOOLEAN]
    BY <1>1 DEF IInv, Types
  <2>2. Can(release("ptable") \o scheduler, a) /\ Fits(c, a)'
    BY <1>1, <1>2, <1>5, CanScheduler DEF Fits
  <2>3. /\ todo' = [todo EXCEPT ![on[c]] = release("ptable") \o scheduler]
        /\ UNCHANGED <<on, saved, state, panicked>>
    BY <1>1, <1>4, <1>5
  <2> QED
    BY <1>1, <2>1, <2>2, <2>3, GoesOnAlone
<1>6. ASSUME NEW p \in Procs, state[p] = "runnable", state' = [state EXCEPT ![p] = "running"],
             on' = [on EXCEPT ![c] = p], UNCHANGED todo
      PROVE  IInv'
  <2>1. p \notin Cpus /\ c \notin Procs /\ \A d \in Cpus : on[d] # p
    BY <1>6, ConstantsAssumption DEF IInv, Places
  <2>2. /\ on'[c] = p /\ \A d \in Cpus : d # c => on'[d] = on[d]
        /\ state'[p] = "running" /\ \A q \in Procs : q # p => state'[q] = state[q]
    BY <1>6 DEF IInv, Types
  <2>3. Types'
    BY <1>1, <1>6 DEF IInv, Types
  <2>4. Places'
    <3>1. \A d \in Cpus : on'[d] \in Procs \cup {d} /\ (on'[d] \in Procs => state'[on'[d]] = "running")
      BY <2>1, <2>2 DEF IInv, Places
    <3>2. \A d, e \in Cpus : on'[d] = on'[e] => d = e
      BY <2>1, <2>2 DEF IInv, Places
    <3> QED
      BY <3>1, <3>2 DEF Places
  <2>5. \E b : Can(todo'[on'[c]], b) /\ Fits(c, b)'
    <3>1. Waits(p)
      BY <1>6 DEF IInv, ProcsWait
    <3>2. ASSUME NEW b, b.n = 1, b.held = {"ptable"}, b.mode # "sched",
                 \/ ~b.back /\ b.mode = "new"
                 \/ b.back /\ (saved[p] <=> b.mode = "call")
          PROVE  Fits(c, b)'
      BY <1>1, <1>2, <1>3, <1>4, <2>1, <2>2, <3>2 DEF Fits
    <3>3. CASE Can(todo[p], St(1, {"ptable"}, "new"))
      <4> DEFINE b == St(1, {"ptable"}, "new")
      <4>1. b.n = 1 /\ b.held = {"ptable"} /\ b.mode = "new" /\ ~b.back
        BY DEF St
      <4> HIDE DEF b
      <4>2. Fits(c, b)'
        BY <3>2, <4>1
      <4> QED
        BY <1>6, <2>2, <3>3, <4>2 DEF b
    <3>4. ASSUME NEW m \in {"call", "handler"}, Can(todo[p], Switched(m)), saved[p] <=> m = "call"
          PROVE  \E b : Can(todo'[on'[c]], b) /\ Fits(c, b)'
      <4> DEFINE b == Switched(m)
      <4>1. b.n = 1 /\ b.held = {"ptable"} /\ b.mode = m /\ b.back
        BY DEF Switched
      <4> HIDE DEF b
      <4>2. Fits(c, b)'
        BY <3>2, <3>4, <4>1
      <4> QED
        BY <1>6, <2>2, <3>4, <4>2 DEF b
    <3> QED
      BY <3>1, <3>3, <3>4 DEF Waits
  <2>6. Run'
    <3>1. ASSUME NEW d \in Cpus, d # c PROVE \E b : Can(todo'[on'[d]], b) /\ Fits(d, b)'
      <4>1. PICK b : Can(todo[on[d]], b) /\ Fits(d, b)
        BY DEF IInv, Run
      <4>2. Fits(d, b)'
        BY <1>1, <2>2, <3>1, <4>1 DEF Fits
      <4> QED
        BY <1>6, <2>2, <3>1, <4>1, <4>2
    <3> QED
      BY <2>5, <3>1 DEF Run
  <2>7. SchedulersWait'
    BY <1>2, <1>4, <1>6, <2>2 DEF IInv, SchedulersWait
  <2>8. ProcsWait'
    BY <1>1, <1>6, <2>2 DEF IInv, ProcsWait, Waits
  <2> QED
    BY <1>1, <2>3, <2>4, <2>6, <2>7, <2>8 DEF IInv
<1> QED
  BY <1>5, <1>6 DEF scan

LEMMA Step ==
  ASSUME IInv, [Next]_vars
  PROVE  IInv'
<1>1. CASE UNCHANGED vars
  BY <1>1 DEF vars, cpu, IInv, Types, Places, Run, Fits, SchedulersWait, ProcsWait, Waits
<1>2. ASSUME NEW c \in Cpus,
             \/ syscall(c) \/ trap(c)
             \/ pushcli(c) \/ popcli(c) \/ xchg(c) \/ store(c)
             \/ swtch(c) \/ resume(c) \/ wakeup1(c) \/ fork(c) \/ sti(c) \/ scan(c)
      PROVE  IInv'
  BY <1>2, StepSyscall, StepTrap, StepPushcli, StepPopcli, StepXchg, StepStore,
     StepSwtch, StepResume, StepWakeup1, StepFork, StepSti, StepScan
<1> QED
  BY <1>1, <1>2 DEF Next

-----------------------------------------------------------------------------
(* The properties. *)

LEMMA IInvMasked ==
  ASSUME IInv
  PROVE  MaskedWithLock
<1>1. ASSUME NEW c \in Cpus, IF_[c] PROVE ncli[c] = 0 /\ \A l \in Locks : lock[l] # c
  <2>1. PICK a : Can(todo[on[c]], a) /\ Fits(c, a)
    BY DEF IInv, Run
  <2>2. a.n \in Nat /\ (a.n = 0 => a.held = {})
    BY <2>1, CanIs DEF Sound, States
  <2> QED
    BY <1>1, <2>1, <2>2 DEF Fits
<1> QED
  BY <1>1 DEF MaskedWithLock

LEMMA IInvOwnIntena ==
  ASSUME IInv
  PROVE  OwnIntena
<1>1. ASSUME NEW c \in Cpus, on[c] \in Procs, ncli[c] > 0, "trapret" \notin Later(c), ~At(c, "resume")
      PROVE  intena[c] = ("iret" \notin Later(c))
  <2>1. PICK a : Can(todo[on[c]], a) /\ Fits(c, a)
    BY DEF IInv, Run
  <2>2. Later(c) = Names(todo[on[c]])
    BY DEF Later, Names
  <2>3. a.mode \in {"call", "handler"}
    BY <1>1, <2>1, <2>2, CanIs, ConstantsAssumption DEF Fits, Sound, States, ModeFits
  <2>4. a.mode = "call" <=> "iret" \notin Later(c)
    BY <2>1, <2>2, <2>3, CanIs DEF ModeFits
  <2>5. ~a.back
    <3>1. CASE todo[on[c]] = <<>>
      BY <2>1, <3>1, CanIs
    <3>2. CASE Exits(Head(todo[on[c]])) /\ a = St(1, {"ptable"}, "call")
      BY <3>2 DEF St
    <3>3. ASSUME NEW b, todo[on[c]] # <<>>, Does(Head(todo[on[c]]), a, b) PROVE ~a.back
      BY <1>1, <3>3 DEF Does, At, Next1
    <3> QED
      BY <2>1, <3>1, <3>2, <3>3, CanIs
  <2>6. intena[c] <=> a.mode = "call"
    BY <1>1, <2>1, <2>3, <2>5 DEF Fits
  <2>7. intena[c] \in BOOLEAN
    BY DEF IInv, Types
  <2> QED
    BY <2>4, <2>6, <2>7
<1> QED
  BY <1>1 DEF OwnIntena

\* A processor that spins for a lock has none of a higher rank, unless it is
\* the one that prints.
LEMMA Spins ==
  ASSUME IInv, NEW c \in Cpus, At(c, "xchg"), ~Printing(c)
  PROVE  /\ Next1(c).arg \in Locks
         /\ \A l \in Locks : lock[l] = c => Rank(l) < Rank(Next1(c).arg)
<1>1. PICK a, b : /\ Fits(c, a) /\ Sound(a) /\ Next1(c).do = "xchg"
                  /\ Does(Next1(c), a, b) /\ Can(Tail(todo[on[c]]), b)
  BY DoingOp
<1>2. Next1(c).arg \in Locks /\ InOrder(Next1(c).arg, a.held)
  BY <1>1 DEF Does
<1>3. \A l \in Locks : lock[l] = c <=> l \in a.held
  BY <1>1 DEF Fits
<1>4. ~(Next1(c).arg = "cons" /\ "sbrk_lock" \in a.held)
  BY <1>3, LocksAre DEF Printing
<1> QED
  BY <1>2, <1>3, <1>4 DEF InOrder

LEMMA IInvNoCircle ==
  ASSUME IInv
  PROVE  NoCircle
<1> SUFFICES ASSUME NEW S \in (SUBSET Cpus) \ {{}},
                    \A c \in S : At(c, "xchg") /\ lock[Next1(c).arg] \in S,
                    \A c \in S : ~Printing(c)
             PROVE  FALSE
  BY DEF NoCircle
<1> DEFINE r(c) == Rank(Next1(c).arg)
<1>1. ASSUME NEW c \in S
      PROVE  r(c) \in 0..2 /\ \E d \in S : r(c) < r(d)
  <2>1. c \in Cpus /\ At(c, "xchg") /\ ~Printing(c) /\ Next1(c).arg \in Locks
    BY Spins
  <2>2. r(c) \in 0..2
    BY DEF Rank
  <2>3. PICK d \in S : lock[Next1(c).arg] = d
    OBVIOUS
  <2>4. Rank(Next1(c).arg) < Rank(Next1(d).arg)
    BY <2>1, <2>3, Spins
  <2> QED
    BY <2>2, <2>4
<1>2. PICK c0 \in S : TRUE
  OBVIOUS
<1> HIDE DEF r
<1>3. PICK c1 \in S : r(c0) < r(c1)
  BY <1>1
<1>4. PICK c2 \in S : r(c1) < r(c2)
  BY <1>1
<1>5. PICK c3 \in S : r(c2) < r(c3)
  BY <1>1
<1>6. r(c0) \in 0..2 /\ r(c1) \in 0..2 /\ r(c2) \in 0..2 /\ r(c3) \in 0..2
  BY <1>1
<1> QED
  BY <1>3, <1>4, <1>5, <1>6

(* For any processors and processes: the panics of acquire(), release(),     *)
(* popcli() and sched() do not occur, who has a lock is not interrupted, a   *)
(* thread's popcli() restores what the thread found and no other's flag, and *)
(* no processors spin in a circle but by the message of growproc()           *)
(* (spinlock.c, sched() in proc.c).                                          *)
THEOREM SpinlockCorrect == Spec => []SpinlockInv
<1>1. Init => IInv
  BY InitIInv
<1>2. IInv /\ [Next]_vars => IInv'
  BY Step
<1>3. IInv => SpinlockInv
  BY IInvMasked, IInvOwnIntena, IInvNoCircle DEF IInv, SpinlockInv
<1> QED
  BY <1>1, <1>2, <1>3, PTL DEF Spec
=============================================================================
