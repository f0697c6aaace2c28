CONSTANTS
  Procs = {p1, p2}
  InitProc = p1
  None = None
  NInodes = 3
  NInode = 3
  Names = {"a", "b"}
  Files = {1}
  Fds = {0, 1}
  Paths <- FewPaths
  Calls <- SomeCalls
SPECIFICATION Spec
INVARIANTS NoCircularWait
CHECK_DEADLOCK FALSE
