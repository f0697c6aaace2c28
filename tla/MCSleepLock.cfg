CONSTANTS
  Proc = {p1, p2, p3}
  CPU = {c1, c2}
  NoOne = NoOne
SPECIFICATION LiveSpec
INVARIANTS MutualExclusion NoLostWakeup HandOff
PROPERTIES ImplementsMutex EverySleeperWakes
