------------------------------ MODULE AtomicDisk ------------------------------
(***************************************************************************)
(* What the log promises the file system (the comment at the head of       *)
(* log.c): the disk that survives a crash changes only when no operation   *)
(* is in progress, and then to everything that has been written so far.    *)
(***************************************************************************)
CONSTANTS Proc, Block, Value

VARIABLES
  stable,    \* the contents of the disk after a crash and a recovery
  current,   \* the contents that the operations see
  active     \* the processes inside an operation

vars == <<stable, current, active>>

Init ==
  /\ stable \in [Block -> Value]
  /\ current = stable
  /\ active = {}

Begin(p) ==
  /\ p \notin active
  /\ active' = active \cup {p}
  /\ UNCHANGED <<stable, current>>

Write(p, b, v) ==
  /\ p \in active
  /\ current' = [current EXCEPT ![b] = v]
  /\ UNCHANGED <<stable, active>>

End(p) ==
  /\ p \in active
  /\ active' = active \ {p}
  /\ UNCHANGED <<stable, current>>

Commit ==
  /\ active = {}
  /\ stable' = current
  /\ UNCHANGED <<current, active>>

Crash ==
  /\ current' = stable
  /\ active' = {}
  /\ UNCHANGED stable

Next ==
  \/ \E p \in Proc : Begin(p) \/ End(p) \/ \E b \in Block, v \in Value : Write(p, b, v)
  \/ Commit \/ Crash

Spec == Init /\ [][Next]_vars
=============================================================================
