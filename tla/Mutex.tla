-------------------------------- MODULE Mutex --------------------------------
(***************************************************************************)
(* What a sleep-lock promises: it has at most one holder, only the holder  *)
(* gives it up, and it is free between two holders.                        *)
(***************************************************************************)
CONSTANTS Proc, NoOne

VARIABLE holder

Init == holder = NoOne

Acquire(p) == holder = NoOne /\ holder' = p

Release == holder # NoOne /\ holder' = NoOne

Next == Release \/ \E p \in Proc : Acquire(p)

Spec == Init /\ [][Next]_holder
=============================================================================
