CONSTANTS
  Proc = {p1, p2}
  Boot = Boot
  Block = {b1, b2, b3}
  Inodes = b1
  Third = p3
  Behind <- InodeBlocks
  Value = {0, 1}
  NoBlock = NoBlock
  MAXOPBLOCKS = 1
  LOGSIZE = 2
  NLOG = 3
  OpBlocks = 1
SPECIFICATION TwoSpec
INVARIANTS LogInv
PROPERTIES ImplementsAtomicDisk LogDrains NobodyForgotten
