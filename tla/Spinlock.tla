------------------------------ MODULE Spinlock ------------------------------
(***************************************************************************)
(* Spinlocks and interrupts (spinlock.c), with what turns interrupts on    *)
(* and off around them: the switch between processes (proc.c) and the      *)
(* handlers of interrupts (trap.c).                                        *)
(*                                                                         *)
(* What a thread of the kernel still has to do is a sequence of operations *)
(* of the instructions that matter here.  A process with nothing to do in  *)
(* the kernel runs its program; the thread named c is the scheduler of     *)
(* processor c.  A process keeps its place when it goes to another         *)
(* processor; ncli, intena and the flag IF belong to the processor.        *)
(***************************************************************************)
EXTENDS Naturals, Sequences

CONSTANTS
  Cpus, Procs, InitProc, Free

ASSUME ConstantsAssumption == Cpus \cap Procs = {} /\ InitProc \in Procs /\ Free \notin Cpus

Devices == {"cons", "tickslock"}     \* those that an interrupt takes, to wake who waits
Locks == Devices \cup {"ptable", "sbrk_lock"}

VARIABLES
  lock,        \* the processor that has each lock
  IF_,         \* are interrupts on, in each processor
  ncli, intena,
  on,          \* the thread that each processor runs
  todo,        \* what each thread has to do in the kernel
  saved,       \* the local variable intena of sched(), of each process
  state,       \* "unused", "runnable", "running", or the channel on which it sleeps
  panicked

cpu == <<IF_, ncli, intena>>
vars == <<lock, cpu, on, todo, saved, state, panicked>>

Op(do, arg) == <<[do |-> do, arg |-> arg]>>

acquire(l) == Op("pushcli", l) \o Op("xchg", l)
release(l) == Op("store", l) \o Op("popcli", l)
myproc == Op("pushcli", "") \o Op("popcli", "")
sched(new) == Op("swtch", new) \o Op("resume", "")

forkret == release("ptable") \o Op("trapret", "")
scheduler == Op("sti", "") \o acquire("ptable") \o Op("scan", "")

Init ==
  /\ lock = [l \in Locks |-> Free]
  /\ IF_ = [c \in Cpus |-> FALSE] /\ ncli = [c \in Cpus |-> 0] /\ intena = [c \in Cpus |-> FALSE]
  /\ on = [c \in Cpus |-> c]
  /\ todo = [t \in Cpus \cup Procs |-> IF t \in Cpus THEN scheduler
                                       ELSE IF t = InitProc THEN forkret ELSE <<>>]
  /\ saved = [p \in Procs |-> FALSE]
  /\ state = [p \in Procs |-> IF p = InitProc THEN "runnable" ELSE "unused"]
  /\ panicked = FALSE

-----------------------------------------------------------------------------
(* What begins in user mode or with an interrupt.                           *)

sleep(l) == acquire("ptable") \o release(l) \o sched(l) \o release("ptable") \o acquire(l)
wakeup(l) == acquire("ptable") \o Op("wakeup1", l) \o release("ptable")
yield == acquire("ptable") \o sched("runnable") \o release("ptable")

(* consoleread() up to one sleep() (sys_sleep() does the same with          *)
(* tickslock); sbrk(), which prints when there is no page left; fork(),     *)
(* exit() and getpid().                                                     *)
Calls ==
  {acquire("cons") \o sleep("cons") \o release("cons")}
    \cup {acquire("sbrk_lock") \o acquire("ptable") \o print \o release("ptable") \o release("sbrk_lock") :
            print \in {<<>>, acquire("cons") \o release("cons")}}
    \cup {acquire("ptable") \o Op("fork", "") \o release("ptable"), acquire("ptable") \o sched("unused"), myproc}

syscall(c) ==
  /\ on[c] \in Procs /\ todo[on[c]] = <<>> /\ IF_[c]
  /\ \E call \in Calls : todo' = [todo EXCEPT ![on[c]] = call]
  /\ UNCHANGED <<lock, cpu, on, saved, state, panicked>>

(* An interrupt of the keyboard or the clock; only one processor counts the *)
(* ticks, each gives way to another process.                                *)
trap(c) ==
  /\ IF_[c]
  /\ \E l \in Devices, counts \in BOOLEAN :
       LET wake == IF l = "cons" \/ counts THEN acquire(l) \o wakeup(l) \o release(l) ELSE <<>>
           yields == IF l = "tickslock" /\ on[c] \in Procs THEN myproc \o yield ELSE <<>>
       IN todo' = [todo EXCEPT ![on[c]] = wake \o yields \o Op("iret", "") \o @]
  /\ IF_' = [IF_ EXCEPT ![c] = FALSE]
  /\ UNCHANGED <<lock, ncli, intena, on, saved, state, panicked>>

-----------------------------------------------------------------------------
(* One operation of the thread that c runs.                                 *)

Next1(c) == Head(todo[on[c]])
At(c, do) == todo[on[c]] # <<>> /\ Next1(c).do = do
Done(c) == todo' = [todo EXCEPT ![on[c]] = Tail(@)]

Panic == panicked' = TRUE /\ UNCHANGED <<lock, cpu, on, todo, saved, state>>

pushcli(c) ==
  /\ At(c, "pushcli")
  /\ IF_' = [IF_ EXCEPT ![c] = FALSE]
  /\ intena' = [intena EXCEPT ![c] = IF ncli[c] = 0 THEN IF_[c] ELSE @]
  /\ ncli' = [ncli EXCEPT ![c] = @ + 1]
  /\ Done(c)
  /\ UNCHANGED <<lock, on, saved, state, panicked>>

popcli(c) ==
  /\ At(c, "popcli")
  /\ IF IF_[c] \/ ncli[c] = 0 THEN Panic
     ELSE /\ ncli' = [ncli EXCEPT ![c] = @ - 1]
          /\ IF_' = [IF_ EXCEPT ![c] = ncli[c] = 1 /\ intena[c]]
          /\ Done(c)
          /\ UNCHANGED <<lock, intena, on, saved, state, panicked>>

(* The loop goes on until the lock is free.                                 *)
xchg(c) ==
  /\ At(c, "xchg")
  /\ LET l == Next1(c).arg
     IN IF lock[l] = c THEN Panic
        ELSE /\ lock[l] = Free
             /\ lock' = [lock EXCEPT ![l] = c]
             /\ Done(c)
             /\ UNCHANGED <<cpu, on, saved, state, panicked>>

store(c) ==
  /\ At(c, "store")
  /\ LET l == Next1(c).arg
     IN IF lock[l] # c THEN Panic
        ELSE /\ lock' = [lock EXCEPT ![l] = Free]
             /\ Done(c)
             /\ UNCHANGED <<cpu, on, saved, state, panicked>>

(* sched() up to the switch: the thread goes on with "resume".              *)
swtch(c) ==
  /\ At(c, "swtch")
  /\ IF lock["ptable"] # c \/ ncli[c] # 1 \/ IF_[c] THEN Panic
     ELSE /\ saved' = [saved EXCEPT ![on[c]] = intena[c]]
          /\ state' = [state EXCEPT ![on[c]] = Next1(c).arg]
          /\ todo' = [todo EXCEPT ![on[c]] = IF Next1(c).arg = "unused" THEN <<>> ELSE Tail(@)]
          /\ on' = [on EXCEPT ![c] = c]
          /\ UNCHANGED <<lock, cpu, panicked>>

NotRestored(c) == UNCHANGED intena                    \* mutant
Restored(c) == intena' = [intena EXCEPT ![c] = saved[on[c]]]

resume(c) ==
  /\ At(c, "resume")
  /\ Restored(c)
  /\ Done(c)
  /\ UNCHANGED <<lock, IF_, ncli, on, saved, state, panicked>>

wakeup1(c) ==
  /\ At(c, "wakeup1")
  /\ state' = [p \in Procs |-> IF state[p] = Next1(c).arg THEN "runnable" ELSE state[p]]
  /\ Done(c)
  /\ UNCHANGED <<lock, cpu, on, saved, panicked>>

fork(c) ==
  /\ At(c, "fork")
  /\ \/ \E q \in Procs :
          /\ state[q] = "unused"
          /\ state' = [state EXCEPT ![q] = "runnable"]
          /\ todo' = [todo EXCEPT ![q] = forkret, ![on[c]] = Tail(@)]
     \/ (\A q \in Procs : state[q] # "unused") /\ Done(c) /\ UNCHANGED state
  /\ UNCHANGED <<lock, cpu, on, saved, panicked>>

(* sti() of the scheduler, and the return to what was interrupted or to the *)
(* program.                                                                 *)
sti(c) ==
  /\ At(c, "sti") \/ At(c, "iret") \/ At(c, "trapret")
  /\ IF_' = [IF_ EXCEPT ![c] = TRUE]
  /\ Done(c)
  /\ UNCHANGED <<lock, ncli, intena, on, saved, state, panicked>>

(* The loop over the table: to a process and, when that has come back, on.  *)
scan(c) ==
  /\ At(c, "scan")
  /\ \/ \E p \in Procs :
          /\ state[p] = "runnable"
          /\ state' = [state EXCEPT ![p] = "running"]
          /\ on' = [on EXCEPT ![c] = p]
          /\ UNCHANGED todo
     \/ /\ todo' = [todo EXCEPT ![c] = release("ptable") \o scheduler]
        /\ UNCHANGED <<state, on>>
  /\ UNCHANGED <<lock, cpu, saved, panicked>>

Next == ~panicked /\ \E c \in Cpus :
  \/ syscall(c) \/ trap(c)
  \/ pushcli(c) \/ popcli(c) \/ xchg(c) \/ store(c)
  \/ swtch(c) \/ resume(c) \/ wakeup1(c) \/ fork(c) \/ sti(c) \/ scan(c)

Spec == Init /\ [][Next]_vars

-----------------------------------------------------------------------------
Later(c) == {todo[on[c]][k].do : k \in DOMAIN todo[on[c]]}

(* "intena is a property of this kernel thread, not this CPU" (sched() in   *)
(* proc.c): whatever ran on the processor in between, popcli() will turn    *)
(* interrupts on again for a system call and not in a handler.  Not so for  *)
(* the scheduler, which calls sti(), and a new process in forkret().        *)
OwnIntena == \A c \in Cpus :
  on[c] \in Procs /\ ncli[c] > 0 /\ "trapret" \notin Later(c) /\ ~At(c, "resume")
    => intena[c] = ("iret" \notin Later(c))

(* Nobody who has a lock can be interrupted.                                *)
MaskedWithLock == \A c \in Cpus : IF_[c] => ncli[c] = 0 /\ \A l \in Locks : lock[l] # c

Printing(c) == lock["sbrk_lock"] = c /\ At(c, "xchg") /\ Next1(c).arg = "cons"

(* Processors spin in a circle in one case: growproc() has a message of     *)
(* allocuvm() to print while it holds ptable.lock, and the console is       *)
(* about to wake a reader or to put one to sleep.                           *)
NoCircle == \A S \in (SUBSET Cpus) \ {{}} :
  (\A c \in S : At(c, "xchg") /\ lock[Next1(c).arg] \in S) => \E c \in S : Printing(c)

(* The panics of acquire(), release(), popcli() and sched() do not occur,   *)
(* interrupts are off and come back as they should (spinlock.c, trap.c).    *)
SpinlockInv == ~panicked /\ MaskedWithLock /\ OwnIntena /\ NoCircle
=============================================================================
