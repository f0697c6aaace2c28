------------------------------- MODULE Lottery ------------------------------
(***************************************************************************)
(* The scheduler of project 2b (scheduler, settickets, fork, yield, sleep  *)
(* and exit of its proc.c).  A pass over the process table draws a winner, *)
(* and every process that is RUNNABLE when the pass comes to it, and has   *)
(* not fewer tickets than that, runs: ticket_accumulated starts again at   *)
(* each process, and the loop goes on after one has run.                   *)
(*                                                                         *)
(* From one swtch() to the next a processor has ptable.lock: a step.       *)
(***************************************************************************)
EXTENDS Integers, FiniteSets, FiniteSetsExt, Folds

CONSTANTS
  Cpus,
  NPROC,
  Tickets,     \* the arguments of settickets()
  Modulus,     \* 2^32: total_tickets is an unsigned int of 32 bits
  Nobody

Slots == 1 .. NPROC

ConstantsAssumption ==
  /\ NPROC \in Nat \ {0} /\ Tickets \subseteq Int /\ Modulus \in Nat \ {0} /\ Nobody \notin Slots

VARIABLES
  state,       \* of each process, as in struct proc
  tickets,
  running,     \* the process that each processor runs
  winner       \* of the pass that each processor is in

vars == <<state, tickets, running, winner>>

Init ==
  /\ state = [p \in Slots |-> IF p = 1 THEN "RUNNABLE" ELSE "UNUSED"]
  /\ tickets = [p \in Slots |-> IF p = 1 THEN 1 ELSE 0]
  /\ running = [c \in Cpus |-> Nobody]
  /\ winner = [c \in Cpus |-> 0]

-----------------------------------------------------------------------------
(* The processor c goes on with the pass from slot `from`, where st has the *)
(* states; if nobody is left the pass is over.                              *)
Goes(c, from, w, st) ==
  LET next == {p \in from .. NPROC : st[p] = "RUNNABLE" /\ tickets[p] >= w}
  IN /\ winner' = [winner EXCEPT ![c] = w]
     /\ IF next = {} THEN state' = st /\ running' = [running EXCEPT ![c] = Nobody]
        ELSE /\ state' = [st EXCEPT ![Min(next)] = "RUNNING"]
             /\ running' = [running EXCEPT ![c] = Min(next)]

TotalTickets ==
  MapThenFoldSet(+, 0, LAMBDA p : tickets[p], LAMBDA S : CHOOSE p \in S : TRUE,
                 {p \in Slots : state[p] = "RUNNABLE"}) % Modulus

(* A new pass, for which random() has returned r.                           *)
Pass(c, r) ==
  /\ running[c] = Nobody
  /\ Goes(c, 1, IF TotalTickets > 0 THEN r % TotalTickets ELSE 0, state)
  /\ UNCHANGED tickets

PassEnds(p) == NPROC + 1                              \* mutant: a break after the winner
NextInTable(p) == p + 1

(* The process of c enters sched() with the new state.                      *)
Leaves(c, new) ==
  /\ running[c] # Nobody
  /\ Goes(c, NextInTable(running[c]), winner[c], [state EXCEPT ![running[c]] = new])
  /\ UNCHANGED tickets

yield(c) == Leaves(c, "RUNNABLE")
sleep(c) == Leaves(c, "SLEEPING")
exit(c) == running[c] # 1 /\ Leaves(c, "ZOMBIE")

(* By a process or by an interrupt.                                         *)
wakeup(p) ==
  /\ state[p] = "SLEEPING"
  /\ state' = [state EXCEPT ![p] = "RUNNABLE"]
  /\ UNCHANGED <<tickets, running, winner>>

-----------------------------------------------------------------------------
(* The system calls, with what they do to slots and tickets.                *)

settickets(c, n) ==
  /\ running[c] # Nobody /\ n >= 1
  /\ tickets' = [tickets EXCEPT ![running[c]] = n]
  /\ UNCHANGED <<state, running, winner>>

(* The child has its parent's tickets; until it is RUNNABLE it had one.     *)
fork(c, p) ==
  /\ running[c] # Nobody /\ state[p] = "UNUSED"
  /\ state' = [state EXCEPT ![p] = "RUNNABLE"]
  /\ tickets' = [tickets EXCEPT ![p] = tickets[running[c]]]
  /\ UNCHANGED <<running, winner>>

(* Any process may be the one that finds p.                                 *)
wait(c, p) ==
  /\ running[c] # Nobody /\ state[p] = "ZOMBIE"
  /\ state' = [state EXCEPT ![p] = "UNUSED"]
  /\ UNCHANGED <<tickets, running, winner>>

CpuStep(c) ==
  \/ \E r \in 0 .. Modulus - 1 : Pass(c, r)
  \/ yield(c) \/ sleep(c) \/ exit(c)
  \/ \E n \in Tickets : settickets(c, n)
  \/ \E p \in Slots : fork(c, p) \/ wait(c, p)

Next == (\E c \in Cpus : CpuStep(c)) \/ (\E p \in Slots : wakeup(p))

(* The timer (trap.c) makes every process yield; random() returns 0 again   *)
(* and again on every processor.                                            *)
Fairness == \A c \in Cpus : WF_vars(yield(c)) /\ SF_vars(Pass(c, 0))

Spec == Init /\ [][Next]_vars /\ Fairness

-----------------------------------------------------------------------------
(* However many tickets the others have, and whatever the sum of all does   *)
(* at 2^32, a process that is RUNNABLE comes to run (scheduler, proc.c).    *)
EveryoneRuns == \A p \in Slots : state[p] = "RUNNABLE" ~> state[p] = "RUNNING"
=============================================================================
