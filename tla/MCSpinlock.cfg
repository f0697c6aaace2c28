CONSTANTS
  Cpus = {c1, c2}
  Procs = {p1, p2}
  InitProc = p1
  Free = Free
SPECIFICATION Spec
INVARIANT SpinlockInv
SYMMETRY Alike
CHECK_DEADLOCK FALSE
