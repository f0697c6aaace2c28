----------------------------- MODULE MCSleepLock -----------------------------
(* Model checking of SleepLock.  Processes and processors are interchangeable, *)
(* but no symmetry is used: the run checks liveness too.                       *)
EXTENDS SleepLock
=============================================================================
