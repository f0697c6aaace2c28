CONSTANTS
  p1 = p1
  p2 = p2
  c1 = c1
  c2 = c2
  Procs = {p1, p2}
  Inodes = {i1, i2}
  Files = {f1}
  NBLOCKS = 3
  BSIZE = 2
  NDIRECT = 1
  NINDIRECT = 1
  MAXOPBLOCKS = 6
  Counts <- SomeCounts
  Letter <- SomeLetters
  Nothing = Nothing
SPECIFICATION PartsSpec
INVARIANTS UnzipInvertsZip BlocksInv TableInv ReducesAll RingInv ZipsCorrectlyInStep
PROPERTIES ImplementsTextFiles EveryoneRuns Finishes TerminatesInStep
CHECK_DEADLOCK FALSE
