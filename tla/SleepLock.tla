------------------------------ MODULE SleepLock ------------------------------
(***************************************************************************)
(* Sleep-locks (sleeplock.c) over sleep() and wakeup() (proc.c), at the    *)
(* grain of the two spinlocks involved: lk->lk, which protects the         *)
(* sleep-lock, and ptable.lock, which protects every process's state and   *)
(* is handed from a process to its CPU's scheduler across swtch().         *)
(*                                                                         *)
(* A spinlock is held by a CPU, not by a process: acquire() disables       *)
(* interrupts, so a holder is never preempted.  Whatever happens while a   *)
(* spinlock is held and touches only what that lock protects is one step.  *)
(***************************************************************************)
EXTENDS FiniteSets

CONSTANTS
  Proc,     \* the processes that use the sleep-lock
  CPU,      \* the processors
  NoOne     \* "not held" for a lock, "in the scheduler" for a processor

ASSUME NoOneAssumption == NoOne \notin Proc /\ NoOne \notin CPU

VARIABLES
  pc,       \* where each process stands in acquiresleep() / releasesleep()
  pstate,   \* ptable: the scheduling state of each process
  running,  \* c->proc: the process each CPU executes, or its scheduler
  spin,     \* the holder of lk->lk
  ptable,   \* the holder of ptable.lock
  locked,   \* lk->locked
  owner     \* lk->pid

sleepVars == <<pc, pstate, running, spin, ptable, locked, owner>>

-----------------------------------------------------------------------------
(* Control points.                                                         *)
(*   "idle"    outside the lock             "crit"   owns the sleep-lock   *)
(*   "test"    holds lk->lk, about to test lk->locked                      *)
(*   "sleep"   found it locked, holds lk->lk, about to take ptable.lock    *)
(*   "drop"    in sleep(), holds both spinlocks, about to release lk->lk   *)
(*   "nap"     in sleep(), holds ptable.lock, about to change its state    *)
(*   "asleep"  inside sched()               "again"  about to retake lk->lk*)
(*   "unlock"  in releasesleep(), holds lk->lk                             *)
(*   "wake"    lk->locked cleared, about to take ptable.lock               *)
(*   "scan"    in wakeup1(), holds both spinlocks                          *)
(*   "leave"   about to release lk->lk and return                          *)

HoldsSpin == {"test", "sleep", "drop", "unlock", "wake", "scan", "leave"}

PC == HoldsSpin \cup {"idle", "crit", "nap", "asleep", "again"}

ProcState == {"RUNNABLE", "RUNNING", "SLEEPING"}

SleepLockInit ==
  /\ pc = [p \in Proc |-> "idle"]
  /\ pstate = [p \in Proc |-> "RUNNABLE"]
  /\ running = [c \in CPU |-> NoOne]
  /\ spin = NoOne
  /\ ptable = NoOne
  /\ locked = FALSE
  /\ owner = NoOne

\* CPU c executes process p, which stands at one of the points in `at`.
Stands(c, p, at) == running[c] = p /\ pstate[p] = "RUNNING" /\ pc[p] \in at

Goto(p, to) == pc' = [pc EXCEPT ![p] = to]

-----------------------------------------------------------------------------
(* acquiresleep() *)

\* acquire(&lk->lk), on entry and at the end of sleep().  A process just
\* switched in first gives back ptable.lock (see ReleaseAfterSwitch).
AcquireSpin(c, p) ==
  /\ Stands(c, p, {"idle", "again"})
  /\ ptable # c
  /\ spin = NoOne
  /\ spin' = c
  /\ Goto(p, "test")
  /\ UNCHANGED <<pstate, running, ptable, locked, owner>>

\* Mutant of TakeLock: the test of lk->locked is dropped.
TakeLockUntested(c, p) ==
  /\ Stands(c, p, {"test"})
  /\ locked' = TRUE
  /\ owner' = p
  /\ spin' = NoOne
  /\ Goto(p, "crit")
  /\ UNCHANGED <<pstate, running, ptable>>

\* while (lk->locked) is false: take the lock and release lk->lk.
TakeLock(c, p) ==
  /\ Stands(c, p, {"test"})
  /\ ~locked
  /\ locked' = TRUE
  /\ owner' = p
  /\ spin' = NoOne
  /\ Goto(p, "crit")
  /\ UNCHANGED <<pstate, running, ptable>>

-----------------------------------------------------------------------------
(* sleep(lk, &lk->lk) *)

\* Mutant of FindLocked: lk->lk is given back before sleep() is called.
FindLockedAndRelease(c, p) ==
  /\ Stands(c, p, {"test"})
  /\ locked
  /\ spin' = NoOne
  /\ Goto(p, "sleep")
  /\ UNCHANGED <<pstate, running, ptable, locked, owner>>

\* while (lk->locked) is true: call sleep() with lk->lk held.
FindLocked(c, p) ==
  /\ Stands(c, p, {"test"})
  /\ locked
  /\ Goto(p, "sleep")
  /\ UNCHANGED <<pstate, running, spin, ptable, locked, owner>>

\* sleep() takes ptable.lock before it lets go of lk->lk, so that no wakeup()
\* falls between the test and the change of state.
SleepTakePtable(c, p) ==
  /\ Stands(c, p, {"sleep"})
  /\ ptable = NoOne
  /\ ptable' = c
  /\ Goto(p, "drop")
  /\ UNCHANGED <<pstate, running, spin, locked, owner>>

\* release(lk)
SleepDropSpin(c, p) ==
  /\ Stands(c, p, {"drop"})
  /\ spin' = NoOne
  /\ Goto(p, "nap")
  /\ UNCHANGED <<pstate, running, ptable, locked, owner>>

\* p->chan = chan; p->state = SLEEPING; sched()
SleepSetState(c, p) ==
  /\ Stands(c, p, {"nap"})
  /\ pstate' = [pstate EXCEPT ![p] = "SLEEPING"]
  /\ Goto(p, "asleep")
  /\ UNCHANGED <<running, spin, ptable, locked, owner>>

\* Back from sched() with ptable.lock held: release it, then retake lk->lk.
SleepReturn(c, p) ==
  /\ Stands(c, p, {"asleep"})
  /\ ptable' = NoOne
  /\ Goto(p, "again")
  /\ UNCHANGED <<pstate, running, spin, locked, owner>>

-----------------------------------------------------------------------------
(* releasesleep() *)

ReleaseTakeSpin(c, p) ==
  /\ Stands(c, p, {"crit"})
  /\ ptable # c
  /\ spin = NoOne
  /\ spin' = c
  /\ Goto(p, "unlock")
  /\ UNCHANGED <<pstate, running, ptable, locked, owner>>

\* lk->locked = 0; lk->pid = 0
ReleaseClear(c, p) ==
  /\ Stands(c, p, {"unlock"})
  /\ locked' = FALSE
  /\ owner' = NoOne
  /\ Goto(p, "wake")
  /\ UNCHANGED <<pstate, running, spin, ptable>>

\* wakeup(lk): acquire(&ptable.lock)
WakeupTakePtable(c, p) ==
  /\ Stands(c, p, {"wake"})
  /\ ptable = NoOne
  /\ ptable' = c
  /\ Goto(p, "scan")
  /\ UNCHANGED <<pstate, running, spin, locked, owner>>

\* Mutant of Wakeup1: the scan stops at the first sleeper.
Wakeup1First(c, p) ==
  /\ Stands(c, p, {"scan"})
  /\ LET asleep == {q \in Proc : pstate[q] = "SLEEPING"}
     IN  pstate' = IF asleep = {} THEN pstate
                  ELSE [pstate EXCEPT ![CHOOSE q \in asleep : TRUE] = "RUNNABLE"]
  /\ ptable' = NoOne
  /\ Goto(p, "leave")
  /\ UNCHANGED <<running, spin, locked, owner>>

\* wakeup1(lk) scans the whole table under ptable.lock, then releases it.
Wakeup1(c, p) ==
  /\ Stands(c, p, {"scan"})
  /\ pstate' = [q \in Proc |-> IF pstate[q] = "SLEEPING" THEN "RUNNABLE" ELSE pstate[q]]
  /\ ptable' = NoOne
  /\ Goto(p, "leave")
  /\ UNCHANGED <<running, spin, locked, owner>>

\* release(&lk->lk)
ReleaseDropSpin(c, p) ==
  /\ Stands(c, p, {"leave"})
  /\ spin' = NoOne
  /\ Goto(p, "idle")
  /\ UNCHANGED <<pstate, running, ptable, locked, owner>>

-----------------------------------------------------------------------------
(* The scheduler and the clock *)

\* A timer interrupt makes the process yield(): it takes ptable.lock and
\* becomes RUNNABLE.  Interrupts are off while any spinlock is held.
Yield(c, p) ==
  /\ Stands(c, p, {"idle", "crit", "again"})
  /\ ptable = NoOne
  /\ ptable' = c
  /\ pstate' = [pstate EXCEPT ![p] = "RUNNABLE"]
  /\ UNCHANGED <<pc, running, spin, locked, owner>>

\* Mutant of SwitchOut: ptable.lock is released before the process is off the CPU.
SwitchOutEarly(c, p) ==
  /\ running[c] = p
  /\ pstate[p] # "RUNNING"
  /\ IF ptable = c THEN ptable' = NoOne /\ UNCHANGED running
                   ELSE running' = [running EXCEPT ![c] = NoOne] /\ UNCHANGED ptable
  /\ UNCHANGED <<pc, pstate, spin, locked, owner>>

\* swtch() to the scheduler, which still holds ptable.lock, and c->proc = 0.
SwitchOut(c, p) ==
  /\ running[c] = p
  /\ pstate[p] # "RUNNING"
  /\ running' = [running EXCEPT ![c] = NoOne]
  /\ UNCHANGED <<pc, pstate, spin, ptable, locked, owner>>

\* The scheduler loop takes ptable.lock before it scans the table.
SchedulerTakePtable(c) ==
  /\ running[c] = NoOne
  /\ ptable = NoOne
  /\ ptable' = c
  /\ UNCHANGED <<pc, pstate, running, spin, locked, owner>>

\* It finds a RUNNABLE process and switches to it, ptable.lock still held.
SwitchIn(c, p) ==
  /\ running[c] = NoOne
  /\ ptable = c
  /\ pstate[p] = "RUNNABLE"
  /\ pstate' = [pstate EXCEPT ![p] = "RUNNING"]
  /\ running' = [running EXCEPT ![c] = p]
  /\ UNCHANGED <<pc, spin, ptable, locked, owner>>

\* It reaches the end of the table and releases ptable.lock.
SchedulerDropPtable(c) ==
  /\ running[c] = NoOne
  /\ ptable = c
  /\ ptable' = NoOne
  /\ UNCHANGED <<pc, pstate, running, spin, locked, owner>>

\* The tail of yield(), or forkret() the first time: release ptable.lock.
ReleaseAfterSwitch(c, p) ==
  /\ Stands(c, p, {"idle", "crit", "again"})
  /\ ptable = c
  /\ ptable' = NoOne
  /\ UNCHANGED <<pc, pstate, running, spin, locked, owner>>

-----------------------------------------------------------------------------

Acquiresleep(c, p) ==
  AcquireSpin(c, p) \/ TakeLock(c, p) \/ FindLocked(c, p)

Sleep(c, p) ==
  \/ SleepTakePtable(c, p) \/ SleepDropSpin(c, p)
  \/ SleepSetState(c, p) \/ SleepReturn(c, p)

Releasesleep(c, p) ==
  \/ ReleaseTakeSpin(c, p) \/ ReleaseClear(c, p)
  \/ WakeupTakePtable(c, p) \/ Wakeup1(c, p) \/ ReleaseDropSpin(c, p)

Scheduler(c) ==
  \/ SchedulerTakePtable(c) \/ SchedulerDropPtable(c)
  \/ \E p \in Proc : SwitchIn(c, p)

SleepLockNext ==
  \/ \E c \in CPU, p \in Proc :
       \/ Acquiresleep(c, p) \/ Sleep(c, p) \/ Releasesleep(c, p)
       \/ Yield(c, p) \/ SwitchOut(c, p) \/ ReleaseAfterSwitch(c, p)
  \/ \E c \in CPU : Scheduler(c)

SleepLockSpec == SleepLockInit /\ [][SleepLockNext]_sleepVars

\* The steps of p that nothing can delay, and those that wait for a spinlock
\* after a call of acquiresleep() has begun.
Runs(c, p) ==
  \/ TakeLock(c, p) \/ FindLocked(c, p)
  \/ SleepDropSpin(c, p) \/ SleepSetState(c, p) \/ SleepReturn(c, p)
  \/ ReleaseClear(c, p) \/ Wakeup1(c, p) \/ ReleaseDropSpin(c, p)
  \/ SwitchOut(c, p) \/ ReleaseAfterSwitch(c, p)

WinsSpinlock(c, p) ==
  SleepTakePtable(c, p) \/ WakeupTakePtable(c, p) \/ ReleaseTakeSpin(c, p)

(* Fairness.  A processor that can execute an instruction does (WF).  Three   *)
(* things are repeatedly possible and only eventually done (SF): xchg() wins  *)
(* a contended spinlock, the clock interrupts a process that keeps its CPU,   *)
(* and the scheduler's loop over the whole table reaches a RUNNABLE process.  *)
Fairness ==
  /\ \A p \in Proc :
       /\ WF_sleepVars(\E c \in CPU : Runs(c, p))
       /\ SF_sleepVars(\E c \in CPU : WinsSpinlock(c, p))
       /\ SF_sleepVars(\E c \in CPU : Yield(c, p))
       /\ SF_sleepVars(\E c \in CPU : SwitchIn(c, p))
  /\ \A c \in CPU : SF_sleepVars(SchedulerTakePtable(c)) /\ WF_sleepVars(SchedulerDropPtable(c))

LiveSpec == SleepLockSpec /\ Fairness

-----------------------------------------------------------------------------
(* Properties *)

TypeOK ==
  /\ pc \in [Proc -> PC]
  /\ pstate \in [Proc -> ProcState]
  /\ running \in [CPU -> Proc \cup {NoOne}]
  /\ spin \in CPU \cup {NoOne}
  /\ ptable \in CPU \cup {NoOne}
  /\ locked \in BOOLEAN
  /\ owner \in Proc \cup {NoOne}

\* The processes between the return of acquiresleep() and the store that
\* clears lk->locked in releasesleep().
Owners == {p \in Proc : pc[p] \in {"crit", "unlock"}}

\* At most one process owns the sleep-lock, and it is the one that lk->pid
\* names: holdingsleep() answers for the process that asks.
MutualExclusion == \A p \in Owners : locked /\ owner = p

\* Handing ptable.lock across swtch() keeps a process whose state is already
\* RUNNABLE or SLEEPING from being resumed by a second processor while the
\* first one is still on its kernel stack.
OneCpu == \A b, c \in CPU : running[b] = running[c] /\ running[b] # NoOne => b = c

\* A process sleeps only while the lock is taken, or while the process that
\* freed it has still to scan the table: no wakeup() is lost between the test
\* of lk->locked and the change of state in sleep().
NoLostWakeup ==
  \A p \in Proc : pstate[p] = "SLEEPING" =>
    locked \/ \E q \in Proc : pc[q] \in {"wake", "scan"}

\* The panics of sched(): it is entered with ptable.lock held ("sched
\* ptable.lock") and no other spinlock held ("sched locks").
SchedLocks ==
  \A c \in CPU : running[c] # NoOne /\ pstate[running[c]] # "RUNNING" =>
    ptable = c /\ spin # c

\* The hand-off of ptable.lock across swtch() is sound on both sides.
HandOff == TypeOK /\ OneCpu /\ SchedLocks

\* sleep() and wakeup() never strand a process: a sleeper runs again.  The
\* owner is assumed to release in the end; a process that is woken may still
\* find the lock taken by another and sleep again.
EverySleeperWakes == \A p \in Proc : pstate[p] = "SLEEPING" ~> pstate[p] = "RUNNING"

\* The sleep-lock implements a lock with one holder at a time, free between
\* two holders.
Holder == IF Owners = {} THEN NoOne ELSE CHOOSE p \in Owners : TRUE

Abstract == INSTANCE Mutex WITH holder <- Holder
ImplementsMutex == Abstract!Spec
=============================================================================
