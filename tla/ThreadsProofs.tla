---------------------------- MODULE ThreadsProofs ----------------------------
(***************************************************************************)
(* The safety properties of Threads for any number of slots, processes and *)
(* page directories.  Types, the tree of parents and the delivery of exits *)
(* hold of every program (TreeInv); what is said of address spaces holds   *)
(* of the programs that do not call exec() while they have threads (IInv). *)
(***************************************************************************)
EXTENDS Threads, FiniteSetTheorems, WellFoundedInduction, TLAPS

\* The programs that the theorems about address spaces speak of.
NoExecThreads == "exec_threads" \notin Calls

-----------------------------------------------------------------------------
(* The slot a scan of the table stops at. *)

\* A scan that has something to find finds it: First(S) is the least of S.
LEMMA FirstIn ==
  ASSUME NEW S \in SUBSET Slots, S # {}
  PROVE  First(S) \in S
<1> DEFINE upTo(n) == 1..n
           T == {upTo(n) : n \in S}
<1>1. IsFiniteSet(Slots)
  BY ConstantsAssumption, FS_Interval DEF Slots
<1>2. IsWellFoundedOn(StrictSubsetOrdering(Slots), SUBSET Slots)
  BY <1>1, FS_StrictSubsetOrderingWellFounded, FS_FiniteSubsetsOfFinite
<1>3. T \subseteq SUBSET Slots /\ T # {}
  <2>1. ASSUME NEW n \in S PROVE upTo(n) \in SUBSET Slots
    BY ConstantsAssumption DEF Slots
  <2> QED
    BY <2>1
<1>4. PICK least \in T : \A t \in T : <<t, least>> \notin StrictSubsetOrdering(Slots)
  <2> HIDE DEF T
  <2> QED
    BY <1>2, <1>3, WFMin
<1>5. PICK m \in S : least = upTo(m)
  OBVIOUS
<1>6. ASSUME NEW n \in S PROVE m <= n
  <2>1. SUFFICES ASSUME n < m PROVE FALSE
    BY ConstantsAssumption DEF Slots
  <2>2. m \in Nat /\ n \in Nat /\ m \in upTo(m) /\ m \notin upTo(n)
    BY <2>1, ConstantsAssumption DEF Slots
  <2>3. upTo(n) \subseteq upTo(m) /\ upTo(n) # upTo(m)
    BY <2>1, <2>2
  <2>4. upTo(n) \in T
    OBVIOUS
  <2>5. <<upTo(n), upTo(m)>> \in StrictSubsetOrdering(Slots)
    BY <2>3, <2>4, <1>3, <1>5 DEF StrictSubsetOrdering
  <2> QED
    BY <1>4, <1>5, <2>4, <2>5
<1> QED
  BY <1>6 DEF First

-----------------------------------------------------------------------------
(* The inductive invariant. *)

Building(p) == pc[p] \in {"fork", "clone", "run"}

\* A process that builds a child is awake in fork() or clone(), and the slot
\* it builds in is EMBRYO and its own.
Builders ==
  /\ \A p \in Slots : Building(p) =>
       /\ state[p] = "RUNNABLE"
       /\ child[p] \in Slots /\ state[child[p]] = "EMBRYO"
  /\ \A p, q \in Slots : Building(p) /\ Building(q) /\ child[p] = child[q] => p = q

\* Only wait() and join() sleep.
Sleepers == \A p \in Slots : state[p] = "SLEEPING" => pc[p] \in {"wait", "join"}

\* Init never exits and has no parent.
InitStays ==
  /\ state[initproc] \in Active
  /\ pc[initproc] # "exit"
  /\ parent[initproc] = Null

\* A slot that uses its page directory: one that is live, or built and about
\* to become so.
InUse(s) == state[s] \in Live \/ \E p \in Slots : pc[p] = "run" /\ child[p] = s

\* The page directory of a child about to run is its creator's, or its own
\* and nobody else's.
RunSpace ==
  \A p \in Slots : pc[p] = "run" =>
    \/ pgdir[child[p]] = pgdir[p]
    \/ \A s \in Slots \ {child[p]} : InUse(s) => pgdir[s] # pgdir[child[p]]

SpacesInUse == \A s \in Slots : InUse(s) => pgdir[s] \in alloc

\* The child about to run has its creator as parent.
RunParent == \A p \in Slots : pc[p] = "run" => parent[child[p]] = p

NotOwnParent == \A s \in Slots : parent[s] # s

Structure == Builders /\ Sleepers /\ InitStays /\ RunParent /\ NotOwnParent

Spaces == RunSpace /\ SpacesInUse

\* What holds of any program, and what exec() beside threads would break.
TreeInv == TypeOK /\ Structure /\ ParentAlive /\ NoLostExit

IInv == TreeInv /\ Spaces

-----------------------------------------------------------------------------
(* The actions, with the slot that the scan of the table finds, or the page *)
(* that kalloc() returns, as a parameter.                                   *)

AllocprocIn(p, call, np) ==
  /\ state[np] = "UNUSED"
  /\ call \in {"fork", "clone"} /\ Enters(p, call)
  /\ state' = [state EXCEPT ![np] = "EMBRYO"]
  /\ pid' = [pid EXCEPT ![np] = nextpid]
  /\ nextpid' = nextpid + 1
  /\ child' = [child EXCEPT ![p] = np]
  /\ Goto(p, call)
  /\ UNCHANGED <<parent, pgdir, killed, alloc>>

LEMMA AllocprocFound ==
  ASSUME NEW p \in Slots, NEW call, Allocproc(p, call)
  PROVE  \E np \in Slots : AllocprocIn(p, call, np)
<1> DEFINE free == {s \in Slots : state[s] = "UNUSED"}
<1>1. First(free) \in free
  BY FirstIn DEF Allocproc
<1> QED
  BY <1>1 DEF Allocproc, AllocprocIn

WaitReapOf(p, z) ==
  /\ At(p, "wait")
  /\ state[z] = "ZOMBIE" /\ parent[z] = p
  /\ FreeSlot(z)
  /\ \/ pgdir' = [pgdir EXCEPT ![z] = Null] /\ alloc' = alloc
     \/ /\ \A t \in Slots \ {z} : pgdir[t] # pgdir[z]
        /\ alloc' = alloc \ {pgdir[z]} /\ pgdir' = pgdir
  /\ Goto(p, "user")
  /\ UNCHANGED <<nextpid, child>>

LEMMA WaitReapFound ==
  ASSUME NEW p \in Slots, WaitReap(p)
  PROVE  \E z \in Slots : WaitReapOf(p, z)
<1>1. First(Zombies(p, "wait")) \in Zombies(p, "wait")
  BY FirstIn DEF WaitReap, Zombies, Kids
<1> QED
  BY <1>1 DEF WaitReap, WaitReapOf, Zombies, Kids

JoinReapOf(p, z) ==
  /\ At(p, "join")
  /\ state[z] = "ZOMBIE" /\ parent[z] = p
  /\ FreeSlot(z)
  /\ Goto(p, "user")
  /\ UNCHANGED <<nextpid, pgdir, alloc, child>>

LEMMA JoinReapFound ==
  ASSUME NEW p \in Slots, JoinReap(p)
  PROVE  \E z \in Slots : JoinReapOf(p, z)
<1>1. First(Zombies(p, "join")) \in Zombies(p, "join")
  BY FirstIn DEF JoinReap, Zombies, Kids
<1> QED
  BY <1>1 DEF JoinReap, JoinReapOf, Zombies, Kids

KillOf(s) ==
  /\ killed' = [killed EXCEPT ![s] = TRUE]
  /\ state' = [state EXCEPT ![s] = IF state[s] = "SLEEPING" THEN "RUNNABLE" ELSE state[s]]
  /\ UNCHANGED <<pid, nextpid, parent, pgdir, alloc, pc, child>>

LEMMA KillFound ==
  ASSUME TypeOK, NEW p \in Slots, NEW n, Kill(p, n)
  PROVE  \E s \in Slots : KillOf(s)
<1> DEFINE found == {s \in Slots : pid[s] = n}
<1>1. First(found) \in found
  BY FirstIn DEF Kill
<1> QED
  BY <1>1 DEF Kill, KillOf, TypeOK

ForkCopyTo(p, d) ==
  /\ At(p, "fork")
  /\ alloc' = alloc \cup {d}
  /\ pgdir' = [pgdir EXCEPT ![child[p]] = d]
  /\ parent' = [parent EXCEPT ![child[p]] = p]
  /\ Goto(p, "run")
  /\ UNCHANGED <<state, pid, nextpid, killed, child>>

ExecTo(p, d) ==
  /\ At(p, "user")
  /\ NoExecThreads => ~SharesSpace(p)
  /\ pgdir' = [pgdir EXCEPT ![p] = d]
  /\ alloc' = (alloc \ {pgdir[p]}) \cup {d}
  /\ UNCHANGED <<state, pid, nextpid, parent, killed, pc, child>>

LEMMA PagesFound ==
  ASSUME NEW p \in Slots
  PROVE  /\ ForkCopy(p) => \E d \in PgDir \ alloc : ForkCopyTo(p, d)
         /\ Exec(p) => \E d \in PgDir \ alloc : ExecTo(p, d)
BY DEF ForkCopy, ForkCopyTo, Exec, ExecTo, Enters, NoExecThreads

LEMMA NextCases ==
  ASSUME TypeOK, Next
  PROVE  \E p \in Slots :
           \/ \E call \in SysCalls :
                \/ Enter(p, call) \/ ReapNothing(p, call) \/ SleepForChild(p, call)
                \/ \E np \in Slots : AllocprocIn(p, call, np)
           \/ \E z \in Slots : WaitReapOf(p, z) \/ JoinReapOf(p, z) \/ KillOf(z)
           \/ \E d \in PgDir \ alloc :
                ForkCopyTo(p, d) \/ ExecTo(p, d)
           \/ KallocFails(p) \/ CopyuvmFails(p)
           \/ CloneShare(p) \/ CloneBadStack(p) \/ CloneCopyoutFails(p)
           \/ MakeRunnable(p) \/ ExitStart(p) \/ ExitFinish(p)
<1>1. PICK p \in Slots :
        \/ \E call \in SysCalls : Allocproc(p, call) \/ Enter(p, call)
             \/ ReapNothing(p, call) \/ SleepForChild(p, call)
        \/ \E n \in KillPids : Kill(p, n)
        \/ KallocFails(p) \/ CopyuvmFails(p) \/ ForkCopy(p)
        \/ CloneShare(p) \/ CloneBadStack(p) \/ CloneCopyoutFails(p)
        \/ MakeRunnable(p) \/ WaitReap(p) \/ JoinReap(p)
        \/ ExitStart(p) \/ ExitFinish(p) \/ Exec(p)
  BY DEF Next, Proceeds, Fork, Clone, Wait, Join, SysCalls
<1>2. \A call \in SysCalls :
        Allocproc(p, call) => \E np \in Slots : AllocprocIn(p, call, np)
  BY AllocprocFound
<1>3. WaitReap(p) => \E z \in Slots : WaitReapOf(p, z)
  BY WaitReapFound
<1>4. JoinReap(p) => \E z \in Slots : JoinReapOf(p, z)
  BY JoinReapFound
<1>5. \A n \in KillPids : Kill(p, n) => \E z \in Slots : KillOf(z)
  BY KillFound
<1>6. ForkCopy(p) => \E d \in PgDir \ alloc : ForkCopyTo(p, d)
  BY PagesFound
<1>7. Exec(p) => \E d \in PgDir \ alloc : ExecTo(p, d)
  BY PagesFound
<1>8. CASE \E call \in SysCalls : Allocproc(p, call)
  BY <1>2, <1>8
<1>9. CASE \E n \in KillPids : Kill(p, n)
  BY <1>5, <1>9
<1>10. CASE ForkCopy(p)
  BY <1>6, <1>10
<1>11. CASE Exec(p)
  BY <1>7, <1>11
<1>12. CASE WaitReap(p) \/ JoinReap(p)
  BY <1>3, <1>4, <1>12
<1>13. CASE \E call \in SysCalls :
              Enter(p, call) \/ ReapNothing(p, call) \/ SleepForChild(p, call)
  BY <1>13
<1>14. CASE \/ KallocFails(p) \/ CopyuvmFails(p)
            \/ CloneShare(p) \/ CloneBadStack(p) \/ CloneCopyoutFails(p)
            \/ MakeRunnable(p) \/ ExitStart(p) \/ ExitFinish(p)
  BY <1>14
<1> QED
  BY <1>1, <1>8, <1>9, <1>10, <1>11, <1>12, <1>13, <1>14

LEMMA TypeStep ==
  ASSUME TypeOK, Next
  PROVE  TypeOK'
<1> USE ConstantsAssumption DEF TypeOK, ProcState, Active, Live, PC, At, Goto, Enters, Slots, initproc, Wakeup1
<1>1. ASSUME NEW p \in Slots, NEW call \in SysCalls, NEW np \in Slots, AllocprocIn(p, call, np)
      PROVE  TypeOK'
  BY <1>1 DEF AllocprocIn
<1>2. ASSUME NEW p \in Slots, KallocFails(p) PROVE TypeOK'
  BY <1>2 DEF KallocFails
<1>3. ASSUME NEW p \in Slots, CopyuvmFails(p) PROVE TypeOK'
  BY <1>3 DEF CopyuvmFails
<1>4. ASSUME NEW p \in Slots, NEW d \in PgDir \ alloc, ForkCopyTo(p, d) PROVE TypeOK'
  BY <1>4 DEF ForkCopyTo
<1>5. ASSUME NEW p \in Slots, CloneShare(p) PROVE TypeOK'
  BY <1>5 DEF CloneShare
<1>6. ASSUME NEW p \in Slots, CloneBadStack(p) PROVE TypeOK'
  BY <1>6 DEF CloneBadStack
<1>7. ASSUME NEW p \in Slots, CloneCopyoutFails(p) PROVE TypeOK'
  BY <1>7 DEF CloneCopyoutFails
<1>8. ASSUME NEW p \in Slots, MakeRunnable(p) PROVE TypeOK'
  BY <1>8 DEF MakeRunnable
<1>9. ASSUME NEW p \in Slots, NEW call \in SysCalls, Enter(p, call) PROVE TypeOK'
  BY <1>9 DEF Enter
<1>10. ASSUME NEW p \in Slots, NEW z \in Slots, WaitReapOf(p, z) PROVE TypeOK'
  BY <1>10 DEF WaitReapOf, FreeSlot
<1>11. ASSUME NEW p \in Slots, NEW z \in Slots, JoinReapOf(p, z) PROVE TypeOK'
  BY <1>11 DEF JoinReapOf, FreeSlot
<1>12. ASSUME NEW p \in Slots, NEW call \in SysCalls, ReapNothing(p, call) PROVE TypeOK'
  BY <1>12 DEF ReapNothing
<1>13. ASSUME NEW p \in Slots, NEW call \in SysCalls, SleepForChild(p, call)
      PROVE  TypeOK'
  BY <1>13 DEF SleepForChild
<1>14. ASSUME NEW p \in Slots, ExitStart(p) PROVE TypeOK'
  BY <1>14 DEF ExitStart
<1>15. ASSUME NEW p \in Slots, ExitFinish(p) PROVE TypeOK'
  BY <1>15 DEF ExitFinish
<1>16. ASSUME NEW p \in Slots, NEW z \in Slots, KillOf(z) PROVE TypeOK'
  BY <1>16 DEF KillOf
<1>17. ASSUME NEW p \in Slots, NEW d \in PgDir \ alloc, ExecTo(p, d)
      PROVE  TypeOK'
  BY <1>17 DEF ExecTo
<1> QED
  BY NextCases, <1>1, <1>2, <1>3, <1>4, <1>5, <1>6, <1>7, <1>8, <1>9, <1>10, <1>11, <1>12, <1>13, <1>14, <1>15, <1>16, <1>17

LEMMA StructureStep ==
  ASSUME TypeOK, Structure, Next
  PROVE  Structure'
<1> USE ConstantsAssumption DEF TypeOK, ProcState, Active, Live, PC, At, Goto, Enters, Slots, initproc, Structure, Builders, Building, Sleepers, InitStays, RunParent, NotOwnParent, Wakeup1
<1>1. ASSUME NEW p \in Slots, NEW call \in SysCalls, NEW np \in Slots, AllocprocIn(p, call, np)
      PROVE  Structure'
  <2>1. Builders'
    BY <1>1 DEF AllocprocIn
  <2>2. Sleepers'
    BY <1>1 DEF AllocprocIn
  <2>3. InitStays'
    BY <1>1 DEF AllocprocIn
  <2>4. RunParent'
    BY <1>1 DEF AllocprocIn
  <2>5. NotOwnParent'
    BY <1>1 DEF AllocprocIn
  <2> QED
    BY <2>1, <2>2, <2>3, <2>4, <2>5
<1>2. ASSUME NEW p \in Slots, KallocFails(p) PROVE Structure'
  BY <1>2 DEF KallocFails
<1>3. ASSUME NEW p \in Slots, CopyuvmFails(p) PROVE Structure'
  BY <1>3 DEF CopyuvmFails
<1>4. ASSUME NEW p \in Slots, NEW d \in PgDir \ alloc, ForkCopyTo(p, d) PROVE Structure'
  BY <1>4, SMTT(30) DEF ForkCopyTo
<1>5. ASSUME NEW p \in Slots, CloneShare(p) PROVE Structure'
  BY <1>5 DEF CloneShare
<1>6. ASSUME NEW p \in Slots, CloneBadStack(p) PROVE Structure'
  BY <1>6 DEF CloneBadStack
<1>7. ASSUME NEW p \in Slots, CloneCopyoutFails(p) PROVE Structure'
  BY <1>7, SMTT(30) DEF CloneCopyoutFails
<1>8. ASSUME NEW p \in Slots, MakeRunnable(p) PROVE Structure'
  <2>1. Builders'
    BY <1>8 DEF MakeRunnable
  <2>2. Sleepers'
    BY <1>8 DEF MakeRunnable
  <2>3. InitStays'
    BY <1>8 DEF MakeRunnable
  <2>4. RunParent'
    BY <1>8 DEF MakeRunnable
  <2>5. NotOwnParent'
    BY <1>8 DEF MakeRunnable
  <2> QED
    BY <2>1, <2>2, <2>3, <2>4, <2>5
<1>9. ASSUME NEW p \in Slots, NEW call \in SysCalls, Enter(p, call) PROVE Structure'
  BY <1>9 DEF Enter
<1>10. ASSUME NEW p \in Slots, NEW z \in Slots, WaitReapOf(p, z) PROVE Structure'
  <2>1. Builders'
    BY <1>10 DEF WaitReapOf, FreeSlot
  <2>2. Sleepers'
    BY <1>10 DEF WaitReapOf, FreeSlot
  <2>3. InitStays'
    BY <1>10 DEF WaitReapOf, FreeSlot
  <2>4. RunParent'
    BY <1>10 DEF WaitReapOf, FreeSlot
  <2>5. NotOwnParent'
    BY <1>10 DEF WaitReapOf, FreeSlot
  <2> QED
    BY <2>1, <2>2, <2>3, <2>4, <2>5
<1>11. ASSUME NEW p \in Slots, NEW z \in Slots, JoinReapOf(p, z) PROVE Structure'
  <2>1. Builders'
    BY <1>11 DEF JoinReapOf, FreeSlot
  <2>2. Sleepers'
    BY <1>11 DEF JoinReapOf, FreeSlot
  <2>3. InitStays'
    BY <1>11 DEF JoinReapOf, FreeSlot
  <2>4. RunParent'
    BY <1>11 DEF JoinReapOf, FreeSlot
  <2>5. NotOwnParent'
    BY <1>11 DEF JoinReapOf, FreeSlot
  <2> QED
    BY <2>1, <2>2, <2>3, <2>4, <2>5
<1>12. ASSUME NEW p \in Slots, NEW call \in SysCalls, ReapNothing(p, call)
      PROVE  Structure'
  BY <1>12 DEF ReapNothing
<1>13. ASSUME NEW p \in Slots, NEW call \in SysCalls, SleepForChild(p, call)
      PROVE  Structure'
  BY <1>13 DEF SleepForChild
<1>14. ASSUME NEW p \in Slots, ExitStart(p) PROVE Structure'
  BY <1>14 DEF ExitStart
<1>15. ASSUME NEW p \in Slots, ExitFinish(p) PROVE Structure'
  BY <1>15 DEF ExitFinish
<1>16. ASSUME NEW p \in Slots, NEW z \in Slots, KillOf(z) PROVE Structure'
  <2>1. Builders'
    BY <1>16 DEF KillOf
  <2>2. Sleepers'
    BY <1>16 DEF KillOf
  <2>3. InitStays'
    BY <1>16 DEF KillOf
  <2>4. RunParent'
    BY <1>16 DEF KillOf
  <2>5. NotOwnParent'
    BY <1>16 DEF KillOf
  <2> QED
    BY <2>1, <2>2, <2>3, <2>4, <2>5
<1>17. ASSUME NEW p \in Slots, NEW d \in PgDir \ alloc, ExecTo(p, d)
      PROVE  Structure'
  BY <1>17 DEF ExecTo
<1> QED
  BY NextCases, <1>1, <1>2, <1>3, <1>4, <1>5, <1>6, <1>7, <1>8, <1>9, <1>10, <1>11, <1>12, <1>13, <1>14, <1>15, <1>16, <1>17

LEMMA SpacesStep ==
  ASSUME NoExecThreads, TypeOK, Structure, Spaces, Next
  PROVE  Spaces'
<1> USE ConstantsAssumption DEF TypeOK, ProcState, Active, Live, PC, At, Goto, Enters, Slots, initproc, Structure, Builders, Building, InitStays, Spaces, RunSpace, SpacesInUse, InUse, Wakeup1, NoExecThreads, SharesSpace
<1>1. ASSUME NEW p \in Slots, NEW call \in SysCalls, NEW np \in Slots, AllocprocIn(p, call, np)
      PROVE  Spaces'
  <2>1. RunSpace'
    BY <1>1 DEF AllocprocIn
  <2>2. SpacesInUse'
    BY <1>1 DEF AllocprocIn
  <2> QED
    BY <2>1, <2>2
<1>2. ASSUME NEW p \in Slots, KallocFails(p) PROVE Spaces'
  BY <1>2 DEF KallocFails
<1>3. ASSUME NEW p \in Slots, CopyuvmFails(p) PROVE Spaces'
  BY <1>3, SMTT(30) DEF CopyuvmFails
<1>4. ASSUME NEW p \in Slots, NEW d \in PgDir \ alloc, ForkCopyTo(p, d) PROVE Spaces'
  <2>1. RunSpace'
    BY <1>4, SMTT(30) DEF ForkCopyTo
  <2>2. SpacesInUse'
    BY <1>4 DEF ForkCopyTo
  <2> QED
    BY <2>1, <2>2
<1>5. ASSUME NEW p \in Slots, CloneShare(p) PROVE Spaces'
  BY <1>5, SMTT(30) DEF CloneShare
<1>6. ASSUME NEW p \in Slots, CloneBadStack(p) PROVE Spaces'
  BY <1>6 DEF CloneBadStack
<1>7. ASSUME NEW p \in Slots, CloneCopyoutFails(p) PROVE Spaces'
  BY <1>7, SMTT(30) DEF CloneCopyoutFails
<1>8. ASSUME NEW p \in Slots, MakeRunnable(p) PROVE Spaces'
  BY <1>8, SMTT(30) DEF MakeRunnable
<1>9. ASSUME NEW p \in Slots, NEW call \in SysCalls, Enter(p, call) PROVE Spaces'
  BY <1>9 DEF Enter
<1>10. ASSUME NEW p \in Slots, NEW z \in Slots, WaitReapOf(p, z) PROVE Spaces'
  <2>1. RunSpace'
    <3>1. /\ child' = child
          /\ \A q \in Slots : pc'[q] = "run" => pc[q] = "run"
          /\ \A q \in Slots \ {z} : pgdir'[q] = pgdir[q]
      BY <1>10 DEF WaitReapOf
    <3>2. \A s \in Slots : InUse(s)' => InUse(s) /\ s # z
      BY <1>10 DEF WaitReapOf, FreeSlot
    <3>3. \A q \in Slots : pc[q] = "run" => q # z /\ child[q] \in Slots \ {z}
      BY <1>10 DEF WaitReapOf
    <3> QED
      BY <3>1, <3>2, <3>3, SMTT(30)
  <2>2. SpacesInUse'
    BY <1>10 DEF WaitReapOf, FreeSlot
  <2> QED
    BY <2>1, <2>2
<1>11. ASSUME NEW p \in Slots, NEW z \in Slots, JoinReapOf(p, z) PROVE Spaces'
  <2>1. RunSpace'
    BY <1>11 DEF JoinReapOf, FreeSlot
  <2>2. SpacesInUse'
    BY <1>11 DEF JoinReapOf, FreeSlot
  <2> QED
    BY <2>1, <2>2
<1>12. ASSUME NEW p \in Slots, NEW call \in SysCalls, ReapNothing(p, call) PROVE Spaces'
  BY <1>12 DEF ReapNothing
<1>13. ASSUME NEW p \in Slots, NEW call \in SysCalls, SleepForChild(p, call)
      PROVE  Spaces'
  BY <1>13, SMTT(30) DEF SleepForChild
<1>14. ASSUME NEW p \in Slots, ExitStart(p) PROVE Spaces'
  BY <1>14 DEF ExitStart
<1>15. ASSUME NEW p \in Slots, ExitFinish(p) PROVE Spaces'
  BY <1>15, SMTT(30) DEF ExitFinish
<1>16. ASSUME NEW p \in Slots, NEW z \in Slots, KillOf(z) PROVE Spaces'
  <2>1. RunSpace'
    BY <1>16 DEF KillOf
  <2>2. SpacesInUse'
    BY <1>16 DEF KillOf
  <2> QED
    BY <2>1, <2>2
<1>17. ASSUME NEW p \in Slots, NEW d \in PgDir \ alloc, ExecTo(p, d)
      PROVE  Spaces'
  BY <1>17 DEF ExecTo
<1> QED
  BY NextCases, <1>1, <1>2, <1>3, <1>4, <1>5, <1>6, <1>7, <1>8, <1>9, <1>10, <1>11, <1>12, <1>13, <1>14, <1>15, <1>16, <1>17

LEMMA ParentStep ==
  ASSUME TypeOK, Structure, ParentAlive, Next
  PROVE  ParentAlive'
<1> USE ConstantsAssumption DEF TypeOK, ProcState, Active, Live, PC, At, Goto, Enters, Slots, initproc, Structure, Builders, Building, InitStays, RunParent, NotOwnParent, ParentAlive, Wakeup1
<1>1. ASSUME NEW p \in Slots, NEW call \in SysCalls, NEW np \in Slots, AllocprocIn(p, call, np)
      PROVE  ParentAlive'
  BY <1>1 DEF AllocprocIn
<1>2. ASSUME NEW p \in Slots, KallocFails(p) PROVE ParentAlive'
  BY <1>2 DEF KallocFails
<1>3. ASSUME NEW p \in Slots, CopyuvmFails(p) PROVE ParentAlive'
  BY <1>3 DEF CopyuvmFails
<1>4. ASSUME NEW p \in Slots, NEW d \in PgDir \ alloc, ForkCopyTo(p, d)
      PROVE  ParentAlive'
  BY <1>4 DEF ForkCopyTo
<1>5. ASSUME NEW p \in Slots, CloneShare(p) PROVE ParentAlive'
  BY <1>5 DEF CloneShare
<1>6. ASSUME NEW p \in Slots, CloneBadStack(p) PROVE ParentAlive'
  BY <1>6 DEF CloneBadStack
<1>7. ASSUME NEW p \in Slots, CloneCopyoutFails(p) PROVE ParentAlive'
  BY <1>7 DEF CloneCopyoutFails
<1>8. ASSUME NEW p \in Slots, MakeRunnable(p) PROVE ParentAlive'
  BY <1>8 DEF MakeRunnable
<1>9. ASSUME NEW p \in Slots, NEW call \in SysCalls, Enter(p, call) PROVE ParentAlive'
  BY <1>9 DEF Enter
<1>10. ASSUME NEW p \in Slots, NEW z \in Slots, WaitReapOf(p, z) PROVE ParentAlive'
  BY <1>10 DEF WaitReapOf, FreeSlot
<1>11. ASSUME NEW p \in Slots, NEW z \in Slots, JoinReapOf(p, z) PROVE ParentAlive'
  BY <1>11 DEF JoinReapOf, FreeSlot
<1>12. ASSUME NEW p \in Slots, NEW call \in SysCalls, ReapNothing(p, call)
      PROVE  ParentAlive'
  BY <1>12 DEF ReapNothing
<1>13. ASSUME NEW p \in Slots, NEW call \in SysCalls, SleepForChild(p, call)
      PROVE  ParentAlive'
  BY <1>13 DEF SleepForChild
<1>14. ASSUME NEW p \in Slots, ExitStart(p) PROVE ParentAlive'
  BY <1>14 DEF ExitStart
<1>15. ASSUME NEW p \in Slots, ExitFinish(p) PROVE ParentAlive'
  BY <1>15 DEF ExitFinish
<1>16. ASSUME NEW p \in Slots, NEW z \in Slots, KillOf(z) PROVE ParentAlive'
  BY <1>16 DEF KillOf
<1>17. ASSUME NEW p \in Slots, NEW d \in PgDir \ alloc, ExecTo(p, d)
      PROVE  ParentAlive'
  BY <1>17 DEF ExecTo
<1> QED
  BY NextCases, <1>1, <1>2, <1>3, <1>4, <1>5, <1>6, <1>7, <1>8, <1>9, <1>10, <1>11, <1>12, <1>13, <1>14, <1>15, <1>16, <1>17

LEMMA NoLostStep ==
  ASSUME TypeOK, Structure, ParentAlive, NoLostExit, Next
  PROVE  NoLostExit'
<1> USE ConstantsAssumption DEF TypeOK, ProcState, Active, Live, PC, At, Goto, Enters, Slots, initproc, Structure, Builders, Building, Sleepers, InitStays, RunParent, NotOwnParent, ParentAlive, NoLostExit, Zombies, Kids, Wakeup1
<1>1. ASSUME NEW p \in Slots, NEW call \in SysCalls, NEW np \in Slots, AllocprocIn(p, call, np)
      PROVE  NoLostExit'
  BY <1>1 DEF AllocprocIn
<1>2. ASSUME NEW p \in Slots, KallocFails(p) PROVE NoLostExit'
  BY <1>2 DEF KallocFails
<1>3. ASSUME NEW p \in Slots, CopyuvmFails(p) PROVE NoLostExit'
  BY <1>3 DEF CopyuvmFails
<1>4. ASSUME NEW p \in Slots, NEW d \in PgDir \ alloc, ForkCopyTo(p, d) PROVE NoLostExit'
  BY <1>4 DEF ForkCopyTo
<1>5. ASSUME NEW p \in Slots, CloneShare(p) PROVE NoLostExit'
  BY <1>5 DEF CloneShare
<1>6. ASSUME NEW p \in Slots, CloneBadStack(p) PROVE NoLostExit'
  BY <1>6 DEF CloneBadStack
<1>7. ASSUME NEW p \in Slots, CloneCopyoutFails(p) PROVE NoLostExit'
  BY <1>7 DEF CloneCopyoutFails
<1>8. ASSUME NEW p \in Slots, MakeRunnable(p) PROVE NoLostExit'
  BY <1>8, SMTT(30) DEF MakeRunnable
<1>9. ASSUME NEW p \in Slots, NEW call \in SysCalls, Enter(p, call) PROVE NoLostExit'
  BY <1>9 DEF Enter
<1>10. ASSUME NEW p \in Slots, NEW z \in Slots, WaitReapOf(p, z) PROVE NoLostExit'
  BY <1>10, SMTT(30) DEF WaitReapOf, FreeSlot
<1>11. ASSUME NEW p \in Slots, NEW z \in Slots, JoinReapOf(p, z) PROVE NoLostExit'
  BY <1>11 DEF JoinReapOf, FreeSlot
<1>12. ASSUME NEW p \in Slots, NEW call \in SysCalls, ReapNothing(p, call)
      PROVE  NoLostExit'
  BY <1>12 DEF ReapNothing
<1>13. ASSUME NEW p \in Slots, NEW call \in SysCalls, SleepForChild(p, call)
      PROVE  NoLostExit'
  BY <1>13 DEF SleepForChild
<1>14. ASSUME NEW p \in Slots, ExitStart(p) PROVE NoLostExit'
  BY <1>14 DEF ExitStart
<1>15. ASSUME NEW p \in Slots, ExitFinish(p) PROVE NoLostExit'
  BY <1>15 DEF ExitFinish
<1>16. ASSUME NEW p \in Slots, NEW z \in Slots, KillOf(z) PROVE NoLostExit'
  BY <1>16 DEF KillOf
<1>17. ASSUME NEW p \in Slots, NEW d \in PgDir \ alloc, ExecTo(p, d)
      PROVE  NoLostExit'
  BY <1>17 DEF ExecTo
<1> QED
  BY NextCases, <1>1, <1>2, <1>3, <1>4, <1>5, <1>6, <1>7, <1>8, <1>9, <1>10, <1>11, <1>12, <1>13, <1>14, <1>15, <1>16, <1>17

-----------------------------------------------------------------------------
(* The theorems. *)

LEMMA InitInv ==
  ASSUME Init
  PROVE  IInv
<1> USE ConstantsAssumption DEF Init, Slots, initproc, Active, Live
<1>1. TypeOK
  BY DEF TypeOK, ProcState, PC
<1>2. Structure
  BY DEF Structure, Builders, Building, Sleepers, InitStays, RunParent, NotOwnParent
<1>3. Spaces
  BY DEF Spaces, RunSpace, SpacesInUse, InUse
<1>4. ParentAlive /\ NoLostExit
  BY DEF ParentAlive, NoLostExit
<1> QED
  BY <1>1, <1>2, <1>3, <1>4 DEF IInv, TreeInv

LEMMA StepTreeInv ==
  ASSUME TreeInv, [Next]_vars
  PROVE  TreeInv'
<1>1. CASE Next
  BY <1>1, TypeStep, StructureStep, ParentStep, NoLostStep DEF TreeInv
<1>2. CASE UNCHANGED vars
  BY <1>2 DEF TreeInv, vars, TypeOK, Structure, Builders, Building, Sleepers, InitStays, RunParent, NotOwnParent, ParentAlive, NoLostExit, Zombies, Kids
<1> QED
  BY <1>1, <1>2

LEMMA StepInv ==
  ASSUME NoExecThreads, IInv, [Next]_vars
  PROVE  IInv'
<1>1. TreeInv'
  BY StepTreeInv DEF IInv
<1>2. CASE Next
  BY <1>1, <1>2, SpacesStep DEF IInv, TreeInv
<1>3. CASE UNCHANGED vars
  BY <1>1, <1>3 DEF IInv, vars, Spaces, RunSpace, SpacesInUse, InUse
<1> QED
  BY <1>2, <1>3

LEMMA TreeInvariance == Spec => []TreeInv
<1>1. Init => TreeInv
  BY InitInv DEF IInv
<1>2. TreeInv /\ [Next]_vars => TreeInv'
  BY StepTreeInv
<1> QED
  BY <1>1, <1>2, PTL DEF Spec

LEMMA Invariance ==
  ASSUME NoExecThreads
  PROVE  Spec => []IInv
<1>1. Init => IInv
  BY InitInv
<1>2. IInv /\ [Next]_vars => IInv'
  BY StepInv
<1> QED
  BY <1>1, <1>2, PTL DEF Spec

\* The variables of the process table keep their types, whatever programs run.
THEOREM TypeCorrect == Spec => []TypeOK
<1>1. TreeInv => TypeOK
  BY DEF TreeInv
<1> QED
  BY <1>1, TreeInvariance, PTL

\* Every process but init has a parent that has not exited: somebody is there
\* to reap it, whoever exits, is killed or calls exec() in whatever order.
THEOREM ParentAliveCorrect == Spec => []ParentAlive
<1>1. TreeInv => ParentAlive
  BY DEF TreeInv
<1> QED
  BY <1>1, TreeInvariance, PTL

\* Nobody sleeps in wait() or join() on a child that has exited, whatever
\* adoptions, kills and reaps went on meanwhile.
THEOREM NoLostExitCorrect == Spec => []NoLostExit
<1>1. TreeInv => NoLostExit
  BY DEF TreeInv
<1> QED
  BY <1>1, TreeInvariance, PTL

\* The tree of processes stays whole through fork(), clone(), exit() and the
\* reaping of children.
THEOREM FamilyCorrect == Spec => []FamilyInv
  BY TypeCorrect, ParentAliveCorrect, NoLostExitCorrect, PTL DEF FamilyInv

\* As long as no process calls exec() beside its threads, no address space is
\* freed under a process or thread that uses it.
THEOREM SpacesLiveCorrect ==
  ASSUME NoExecThreads
  PROVE  Spec => []SpacesLive
<1>1. IInv => SpacesLive
  BY DEF IInv, Spaces, SpacesInUse, InUse, SpacesLive
<1> QED
  BY <1>1, Invariance, PTL

-----------------------------------------------------------------------------
(* wait() and join() tell children apart by the page directory they name.   *)
(* Only exec() writes that of a slot in use, and then to a fresh page.      *)

LEMMA SpaceKept ==
  ASSUME IInv, Next, NEW s \in Slots, state[s] \in Live, state'[s] \in Live,
         ~ \E p \in Slots, d \in PgDir \ alloc : ExecTo(p, d)
  PROVE  pgdir'[s] = pgdir[s]
<1> USE DEF IInv, TreeInv, TypeOK, Structure, Builders, Building, Live, Active
<1>1. ASSUME NEW p \in Slots, NEW call \in SysCalls,
             \/ Enter(p, call) \/ ReapNothing(p, call) \/ SleepForChild(p, call)
             \/ \E np \in Slots : AllocprocIn(p, call, np)
      PROVE  pgdir'[s] = pgdir[s]
  BY <1>1 DEF Enter, ReapNothing, SleepForChild, AllocprocIn
<1>2. ASSUME NEW p \in Slots, NEW z \in Slots, WaitReapOf(p, z)
      PROVE  pgdir'[s] = pgdir[s]
  BY <1>2 DEF WaitReapOf, FreeSlot
<1>3. ASSUME NEW p \in Slots, NEW z \in Slots, JoinReapOf(p, z) \/ KillOf(z)
      PROVE  pgdir'[s] = pgdir[s]
  BY <1>3 DEF JoinReapOf, KillOf
<1>4. ASSUME NEW p \in Slots, NEW d \in PgDir \ alloc, ForkCopyTo(p, d)
      PROVE  pgdir'[s] = pgdir[s]
  BY <1>4 DEF ForkCopyTo, At
<1>5. ASSUME NEW p \in Slots,
             CopyuvmFails(p) \/ CloneShare(p) \/ CloneCopyoutFails(p)
      PROVE  pgdir'[s] = pgdir[s]
  BY <1>5 DEF CopyuvmFails, CloneShare, CloneCopyoutFails, At
<1>6. ASSUME NEW p \in Slots,
             \/ KallocFails(p) \/ CloneBadStack(p) \/ MakeRunnable(p)
             \/ ExitStart(p) \/ ExitFinish(p)
      PROVE  pgdir'[s] = pgdir[s]
  BY <1>6 DEF KallocFails, CloneBadStack, MakeRunnable, ExitStart, ExitFinish
<1> QED
  BY NextCases, <1>1, <1>2, <1>3, <1>4, <1>5, <1>6

LEMMA KindsStep ==
  ASSUME NoExecThreads, IInv, Next,
         NEW s \in Slots, state[s] \in Live, state'[s] \in Live,
         parent[s] # Null, parent'[s] = parent[s]
  PROVE  pgdir[s] = pgdir[parent[s]] <=> pgdir'[s] = pgdir'[parent[s]]
<1> DEFINE q == parent[s]
<1>1. /\ q \in Slots \ {s}
      /\ state[q] \in Live /\ state'[q] \in Live
      /\ pgdir[s] \in alloc /\ pgdir[q] \in alloc
  <2>1. IInv'
    BY StepInv
  <2>2. s # initproc /\ q \in Slots \ {s}
    BY DEF IInv, TreeInv, TypeOK, Structure, InitStays, NotOwnParent
  <2>3. state[q] \in Active /\ state'[q] \in Active
    BY <2>1, <2>2 DEF IInv, TreeInv, ParentAlive
  <2> QED
    BY <2>2, <2>3 DEF IInv, Spaces, SpacesInUse, InUse, Live
<1>2. ASSUME NEW p \in Slots, NEW d \in PgDir \ alloc, ExecTo(p, d)
      PROVE  pgdir[s] = pgdir[q] <=> pgdir'[s] = pgdir'[q]
  BY <1>1, <1>2 DEF ExecTo, SharesSpace, IInv, TreeInv, TypeOK
<1>3. CASE ~ \E p \in Slots, d \in PgDir \ alloc : ExecTo(p, d)
  BY <1>1, <1>3, SpaceKept
<1> QED
  BY <1>2, <1>3

\* join() never comes to see a process as a thread, nor wait() a thread as a
\* process, while both are there.
THEOREM KindsStableCorrect ==
  ASSUME NoExecThreads
  PROVE  Spec => KindsStable
<1> DEFINE Kinds ==
      \A s \in Slots :
        state[s] \in Live /\ state'[s] \in Live /\ parent[s] # Null /\ parent'[s] = parent[s]
          => (pgdir[s] = pgdir[parent[s]] <=> pgdir'[s] = pgdir'[parent[s]])
<1>1. IInv /\ [Next]_vars => [Kinds]_vars
  BY KindsStep DEF vars
<1>2. Spec => []IInv
  BY Invariance
<1> QED
  BY <1>1, <1>2, PTL DEF Spec, KindsStable

=============================================================================
