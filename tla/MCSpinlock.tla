----------------------------- MODULE MCSpinlock -----------------------------
(* Model checking of Spinlock: the processors are interchangeable, and so are *)
(* the processes but the first.                                               *)
EXTENDS Spinlock, TLC

Alike == Permutations(Cpus) \cup Permutations(Procs \ {InitProc})
=============================================================================
