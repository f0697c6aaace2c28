CONSTANTS
  NPROC = 4
  PgDir = {d1, d2, d3, d4}
  Null = Null
  Calls = {"fork", "clone", "clone_bad_stack", "wait", "join", "exit", "kill", "exec"}
  KillPids <- AllPids
  MaxPid = 5
SPECIFICATION Spec
SYMMETRY Symmetry
INVARIANTS FamilyInv SpacesLive
PROPERTY KindsStable
CHECK_DEADLOCK FALSE
