CONSTANTS
  NPROC = 4
  PgDir = {d1, d2}
  Null = Null
  Calls = {"fork", "clone", "wait", "join", "exit", "kill"}
  KillPids <- AllPids
  MaxPid = 4
SPECIFICATION LiveSpec
PROPERTIES KilledExits OrphansReaped
