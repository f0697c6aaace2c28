CONSTANTS
  Proc = {p1, p2}
  Buf = {1, 2}
  Block = {1, 2, 3}
  Value = {0, 1}
  NoBlock = NoBlock
  NoProc = NoProc
  NoBuf = NoBuf
  NoCommand = NoCommand
  MaxPinned = 1
  MaxHeld = 2
  Written <- OneChanges
SPECIFICATION LiveSpec
INVARIANTS CacheInv
PROPERTIES ImplementsBlockStore CallsReturn
CHECK_DEADLOCK FALSE
