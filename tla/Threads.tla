------------------------------- MODULE Threads -------------------------------
(***************************************************************************)
(* Processes and threads of the kernel with clone() and join() (proc.c):   *)
(* the slots of ptable and the page directories they share.  A thread is a *)
(* process that shares its parent's page directory; wait() reaps children  *)
(* that do not share the caller's, join() those that do.                   *)
(*                                                                         *)
(* Whatever the code does under ptable.lock is one step.  The scheduler is *)
(* the subject of SleepLock: here RUNNABLE stands for RUNNING as well,     *)
(* because no code of this module tells the two apart.                     *)
(***************************************************************************)
EXTENDS Integers, FiniteSets

CONSTANTS
  NPROC,     \* slots of ptable; slot 1 is initproc
  PgDir,     \* the pages kalloc() may hand out as page directories
  Null,      \* the null pointer
  Calls,     \* the system calls that user programs make
  KillPids,  \* the arguments they give to kill()
  MaxPid     \* bound: no more than MaxPid processes are ever created

SysCalls == {"fork", "clone", "clone_bad_stack", "wait", "join", "exit", "kill",
             "exec", "exec_threads"}

ASSUME ConstantsAssumption ==
  /\ NPROC \in Nat \ {0}
  /\ MaxPid \in Nat \ {0}
  /\ KillPids \subseteq Nat
  /\ PgDir # {} /\ Null \notin PgDir /\ Null \notin Int
  /\ Calls \subseteq SysCalls

VARIABLES
  state,     \* p->state
  pid,       \* p->pid
  nextpid,   \* the pid of the next process
  parent,    \* p->parent
  pgdir,     \* p->pgdir, which an UNUSED slot may keep
  killed,    \* p->killed
  alloc,     \* the page directories that are allocated
  pc,        \* where the process stands in the kernel
  child      \* np in fork() and clone(): the slot being built

vars == <<state, pid, nextpid, parent, pgdir, killed, alloc, pc, child>>

Slots == 1..NPROC
initproc == 1

ProcState == {"UNUSED", "EMBRYO", "SLEEPING", "RUNNABLE", "ZOMBIE"}
Active == {"SLEEPING", "RUNNABLE"}
Live == Active \cup {"ZOMBIE"}

(* Control points.                                                          *)
(*   "user"   in user code, or at the entry or the return of a system call  *)
(*   "fork", "clone"  allocproc() has claimed a slot                        *)
(*   "run"    the new process is built and not yet RUNNABLE                 *)
(*   "wait", "join"   in the loop of wait(), of join(), awake or asleep     *)
(*   "exit"   closing files, before exit() takes ptable.lock                *)
PC == {"user", "fork", "clone", "run", "wait", "join", "exit"}

First(S) == CHOOSE s \in S : \A t \in S : s <= t

\* userinit(): the first process, and a table of free slots.
Init ==
  /\ state = [s \in Slots |-> IF s = initproc THEN "RUNNABLE" ELSE "UNUSED"]
  /\ pid = [s \in Slots |-> IF s = initproc THEN 1 ELSE 0]
  /\ nextpid = 2
  /\ parent = [s \in Slots |-> Null]
  /\ killed = [s \in Slots |-> FALSE]
  /\ \E d \in PgDir :
       /\ alloc = {d}
       /\ pgdir = [s \in Slots |-> IF s = initproc THEN d ELSE Null]
  /\ pc = [s \in Slots |-> "user"]
  /\ child = [s \in Slots |-> Null]

At(p, where) == state[p] = "RUNNABLE" /\ pc[p] = where

Goto(p, to) == pc' = [pc EXCEPT ![p] = to]

\* trap() lets a process into a system call only if it has not been killed.
\* init.c only forks and waits.
Enters(p, call) ==
  /\ At(p, "user")
  /\ ~killed[p]
  /\ call \in Calls
  /\ p = initproc => call \in {"fork", "wait"}

-----------------------------------------------------------------------------
(* fork() and clone() *)

\* allocproc() claims the first UNUSED slot and gives it a pid.  With a full
\* table it fails and the call returns -1, which changes nothing.
Allocproc(p, call) ==
  LET free == {s \in Slots : state[s] = "UNUSED"}
      np == First(free)
  IN  /\ call \in {"fork", "clone"} /\ Enters(p, call)
      /\ nextpid <= MaxPid
      /\ free # {}
      /\ state' = [state EXCEPT ![np] = "EMBRYO"]
      /\ pid' = [pid EXCEPT ![np] = nextpid]
      /\ nextpid' = nextpid + 1
      /\ child' = [child EXCEPT ![p] = np]
      /\ Goto(p, call)
      /\ UNCHANGED <<parent, pgdir, killed, alloc>>

\* allocproc() gets no page for the kernel stack and gives the slot back.
KallocFails(p) ==
  /\ At(p, "fork") \/ At(p, "clone")
  /\ state' = [state EXCEPT ![child[p]] = "UNUSED"]
  /\ child' = [child EXCEPT ![p] = Null]
  /\ Goto(p, "user")
  /\ UNCHANGED <<pid, nextpid, parent, pgdir, killed, alloc>>

\* copyuvm() runs out of memory.
CopyuvmFails(p) ==
  /\ At(p, "fork")
  /\ pgdir' = [pgdir EXCEPT ![child[p]] = Null]
  /\ state' = [state EXCEPT ![child[p]] = "UNUSED"]
  /\ child' = [child EXCEPT ![p] = Null]
  /\ Goto(p, "user")
  /\ UNCHANGED <<pid, nextpid, parent, killed, alloc>>

\* copyuvm() makes a page directory for the child.
ForkCopy(p) ==
  /\ At(p, "fork")
  /\ \E d \in PgDir \ alloc :
       /\ alloc' = alloc \cup {d}
       /\ pgdir' = [pgdir EXCEPT ![child[p]] = d]
  /\ parent' = [parent EXCEPT ![child[p]] = p]
  /\ Goto(p, "run")
  /\ UNCHANGED <<state, pid, nextpid, killed, child>>

\* The thread gets its creator's page directory, and its stack is filled in.
CloneShare(p) ==
  /\ At(p, "clone")
  /\ pgdir' = [pgdir EXCEPT ![child[p]] = pgdir[p]]
  /\ parent' = [parent EXCEPT ![child[p]] = p]
  /\ Goto(p, "run")
  /\ UNCHANGED <<state, pid, nextpid, killed, alloc, child>>

\* clone() rejects the stack, after allocproc(): the slot remains EMBRYO.
CloneBadStack(p) ==
  /\ At(p, "clone")
  /\ "clone_bad_stack" \in Calls
  /\ child' = [child EXCEPT ![p] = Null]
  /\ Goto(p, "user")
  /\ UNCHANGED <<state, pid, nextpid, parent, pgdir, killed, alloc>>

\* copyout() to the stack fails (a page that is not the user's): the same,
\* with the page directory and the parent already set.
CloneCopyoutFails(p) ==
  /\ At(p, "clone")
  /\ "clone_bad_stack" \in Calls
  /\ pgdir' = [pgdir EXCEPT ![child[p]] = pgdir[p]]
  /\ parent' = [parent EXCEPT ![child[p]] = p]
  /\ child' = [child EXCEPT ![p] = Null]
  /\ Goto(p, "user")
  /\ UNCHANGED <<state, pid, nextpid, killed, alloc>>

\* np->state = RUNNABLE: the new process starts in user code.
MakeRunnable(p) ==
  /\ At(p, "run")
  /\ state' = [state EXCEPT ![child[p]] = "RUNNABLE"]
  /\ pc' = [pc EXCEPT ![p] = "user", ![child[p]] = "user"]
  /\ child' = [child EXCEPT ![p] = Null]
  /\ UNCHANGED <<pid, nextpid, parent, pgdir, killed, alloc>>

-----------------------------------------------------------------------------
(* wait() and join() *)

Enter(p, call) ==
  /\ call \in {"wait", "join"} /\ Enters(p, call)
  /\ Goto(p, call)
  /\ UNCHANGED <<state, pid, nextpid, parent, pgdir, killed, alloc, child>>

\* The children that the call looks for, in any state of their slots.
Kids(p, call) ==
  {s \in Slots : parent[s] = p /\ ((pgdir[s] = pgdir[p]) <=> (call = "join"))}

Zombies(p, call) == {s \in Kids(p, call) : state[s] = "ZOMBIE"}

FreeSlot(z) ==
  /\ state' = [state EXCEPT ![z] = "UNUSED"]
  /\ pid' = [pid EXCEPT ![z] = 0]
  /\ parent' = [parent EXCEPT ![z] = Null]
  /\ killed' = [killed EXCEPT ![z] = FALSE]

\* Mutant of WaitReap: the last reference is not looked for.
WaitReapAlways(p) ==
  LET z == First(Zombies(p, "wait"))
  IN  /\ At(p, "wait")
      /\ Zombies(p, "wait") # {}
      /\ FreeSlot(z)
      /\ alloc' = alloc \ {pgdir[z]}
      /\ Goto(p, "user")
      /\ UNCHANGED <<nextpid, pgdir, child>>

\* wait() frees the page directory of the first zombie unless some other
\* slot, used or not, still names it.
WaitReap(p) ==
  LET z == First(Zombies(p, "wait"))
      shared == \E t \in Slots \ {z} : pgdir[t] = pgdir[z]
  IN  /\ At(p, "wait")
      /\ Zombies(p, "wait") # {}
      /\ FreeSlot(z)
      /\ IF shared THEN pgdir' = [pgdir EXCEPT ![z] = Null] /\ UNCHANGED alloc
                   ELSE alloc' = alloc \ {pgdir[z]} /\ UNCHANGED pgdir
      /\ Goto(p, "user")
      /\ UNCHANGED <<nextpid, child>>

\* join() frees the slot; the thread's page directory is still its creator's.
JoinReap(p) ==
  /\ At(p, "join")
  /\ Zombies(p, "join") # {}
  /\ FreeSlot(First(Zombies(p, "join")))
  /\ Goto(p, "user")
  /\ UNCHANGED <<nextpid, pgdir, alloc, child>>

\* No child to wait for, or killed: -1.
ReapNothing(p, call) ==
  /\ call \in {"wait", "join"} /\ At(p, call)
  /\ Zombies(p, call) = {}
  /\ Kids(p, call) = {} \/ killed[p]
  /\ Goto(p, "user")
  /\ UNCHANGED <<state, pid, nextpid, parent, pgdir, killed, alloc, child>>

\* Mutant of SleepForChild: killed is not looked at.
SleepForChildKilled(p, call) ==
  /\ call \in {"wait", "join"} /\ At(p, call)
  /\ Zombies(p, call) = {}
  /\ Kids(p, call) # {}
  /\ state' = [state EXCEPT ![p] = "SLEEPING"]
  /\ UNCHANGED <<pid, nextpid, parent, pgdir, killed, alloc, pc, child>>

\* sleep(proc, &ptable.lock); once woken the scan starts again.
SleepForChild(p, call) ==
  /\ call \in {"wait", "join"} /\ At(p, call)
  /\ Zombies(p, call) = {}
  /\ Kids(p, call) # {} /\ ~killed[p]
  /\ state' = [state EXCEPT ![p] = "SLEEPING"]
  /\ UNCHANGED <<pid, nextpid, parent, pgdir, killed, alloc, pc, child>>

-----------------------------------------------------------------------------
(* exit(), kill() and exec() *)

\* exit() is called, or trap() finds the process killed on its way out.
ExitStart(p) ==
  /\ At(p, "user")
  /\ p # initproc
  /\ killed[p] \/ "exit" \in Calls
  /\ Goto(p, "exit")
  /\ UNCHANGED <<state, pid, nextpid, parent, pgdir, killed, alloc, child>>

\* The sleepers of wait() and join() sleep on their own slot.
Wakeup1(S, p) ==
  [s \in Slots |-> IF s = p THEN "ZOMBIE"
                   ELSE IF s \in S /\ state[s] = "SLEEPING" THEN "RUNNABLE"
                   ELSE state[s]]

\* Mutant of ExitFinish: init is not told of the zombies it inherits.
ExitFinishSilent(p) ==
  /\ At(p, "exit")
  /\ state' = Wakeup1({parent[p]}, p)
  /\ parent' = [s \in Slots |-> IF parent[s] = p THEN initproc ELSE parent[s]]
  /\ UNCHANGED <<pid, nextpid, pgdir, killed, alloc, pc, child>>

\* Under ptable.lock: wake the parent, pass the children to init, and wake
\* init if one of them is a zombie already.
ExitFinish(p) ==
  LET orphans == {s \in Slots : parent[s] = p}
      toWake == {parent[p]} \cup
                {q \in {initproc} : \E s \in orphans : state[s] = "ZOMBIE"}
  IN  /\ At(p, "exit")
      /\ state' = Wakeup1(toWake, p)
      /\ parent' = [s \in Slots |-> IF s \in orphans THEN initproc ELSE parent[s]]
      /\ UNCHANGED <<pid, nextpid, pgdir, killed, alloc, pc, child>>

\* kill() looks for the pid in every slot and marks the first that has it.
Kill(p, n) ==
  LET found == {s \in Slots : pid[s] = n}
      s == First(found)
  IN  /\ Enters(p, "kill")
      /\ found # {}
      /\ killed' = [killed EXCEPT ![s] = TRUE]
      /\ state' = IF state[s] = "SLEEPING" THEN [state EXCEPT ![s] = "RUNNABLE"] ELSE state
      /\ UNCHANGED <<pid, nextpid, parent, pgdir, alloc, pc, child>>

SharesSpace(p) ==
  \E s \in Slots \ {p} : state[s] \in Live /\ pgdir[s] = pgdir[p]

\* exec() replaces the page directory of the process and frees the old one.
\* It never asks whether other threads use the old one; "exec" is a program
\* that calls it with no other thread left, "exec_threads" one that does not
\* care.
Exec(p) ==
  /\ Enters(p, "exec") \/ Enters(p, "exec_threads")
  /\ "exec_threads" \in Calls \/ ~SharesSpace(p)
  /\ \E d \in PgDir \ alloc :
       /\ pgdir' = [pgdir EXCEPT ![p] = d]
       /\ alloc' = (alloc \ {pgdir[p]}) \cup {d}
  /\ UNCHANGED <<state, pid, nextpid, parent, killed, pc, child>>

-----------------------------------------------------------------------------

Fork(p) == CopyuvmFails(p) \/ ForkCopy(p)

Clone(p) == CloneShare(p) \/ CloneBadStack(p) \/ CloneCopyoutFails(p)

Wait(p) == WaitReap(p) \/ ReapNothing(p, "wait") \/ SleepForChild(p, "wait")

Join(p) == JoinReap(p) \/ ReapNothing(p, "join") \/ SleepForChild(p, "join")

\* What a process that is inside a system call does next.
Proceeds(p) ==
  \/ KallocFails(p) \/ Fork(p) \/ Clone(p) \/ MakeRunnable(p)
  \/ Wait(p) \/ Join(p) \/ ExitFinish(p)

Next ==
  \E p \in Slots :
    \/ \E call \in {"fork", "clone"} : Allocproc(p, call)
    \/ \E call \in {"wait", "join"} : Enter(p, call)
    \/ ExitStart(p)
    \/ \E n \in KillPids : Kill(p, n)
    \/ Exec(p)
    \/ Proceeds(p)

Spec == Init /\ [][Next]_vars

\* The scheduler comes back to every RUNNABLE process, a killed one leaves at
\* the next clock interrupt at the latest, and init.c calls wait() for ever.
Fairness ==
  /\ \A p \in Slots : WF_vars(Proceeds(p)) /\ WF_vars(killed[p] /\ ExitStart(p))
  /\ WF_vars(Enter(initproc, "wait"))

LiveSpec == Spec /\ Fairness

-----------------------------------------------------------------------------
(* Properties *)

TypeOK ==
  /\ state \in [Slots -> ProcState]
  /\ pid \in [Slots -> Nat]
  /\ nextpid \in Nat
  /\ parent \in [Slots -> Slots \cup {Null}]
  /\ pgdir \in [Slots -> PgDir \cup {Null}]
  /\ killed \in [Slots -> BOOLEAN]
  /\ alloc \subseteq PgDir
  /\ pc \in [Slots -> PC]
  /\ child \in [Slots -> Slots \cup {Null}]

\* No address space is freed under a process or a thread that still uses it,
\* whichever of the sharers wait() and join() reap first.
SpacesLive == \A s \in Slots : state[s] \in Live => pgdir[s] \in alloc

\* Every process but init has a parent that has not exited, so that somebody
\* can still reap it.
ParentAlive ==
  \A s \in Slots \ {initproc} :
    state[s] \in Live => parent[s] # Null /\ state[parent[s]] \in Active

\* Nobody sleeps in wait() or join() while a child it looks for is a zombie,
\* not even one it inherited from a process that exited meanwhile.
NoLostExit ==
  \A p \in Slots : state[p] = "SLEEPING" => Zombies(p, pc[p]) = {}

\* The tree of processes: nobody is left without a parent, and no parent asleep
\* beside a child that has exited.
FamilyInv == TypeOK /\ ParentAlive /\ NoLostExit

\* wait() does not come to see a thread of the caller as a process, nor join()
\* a process as a thread, while both are there: exec() and the reuse of pages
\* do not make or break the sharing by which the two tell children apart.
KindsStable ==
  [][\A s \in Slots :
       state[s] \in Live /\ state'[s] \in Live /\ parent[s] # Null /\ parent'[s] = parent[s]
         => (pgdir[s] = pgdir[parent[s]] <=> pgdir'[s] = pgdir'[parent[s]])]_vars

\* A process that is killed exits, wherever in the kernel it was.
KilledExits ==
  \A p \in Slots : killed[p] /\ state[p] \in Active ~> state[p] \notin Active

\* A zombie that init has inherited is reaped.
OrphansReaped ==
  \A s \in Slots :
    state[s] = "ZOMBIE" /\ parent[s] = initproc ~> state[s] # "ZOMBIE"

\* wait() frees the page directory when its last user is reaped: none stays
\* allocated that no slot in use names.  It does not hold (README.md, section 5).
NoSpaceLeak == \A d \in alloc : \E s \in Slots : state[s] # "UNUSED" /\ pgdir[s] = d
=============================================================================
