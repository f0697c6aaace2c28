------------------------------ MODULE MCThreads ------------------------------
(* Model checking of Threads: the page directories are interchangeable.       *)
EXTENDS Threads, TLC

Symmetry == Permutations(PgDir)

\* The pids that exist and are not init's.
AllPids == 2..MaxPid
=============================================================================
