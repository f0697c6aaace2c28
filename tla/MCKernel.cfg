CONSTANTS
  Slots = {p1, p2, p3}
  InitSlot = p1
  Spaces = {s1, s2, s3}
  NoSpace = NoSpace
  NoSlot = NoSlot
  Frames = 4
  PGSIZE = 2
  KERNBASE = 5
  InitSz = 3
  Amounts <- SomeAmounts
  Boot = Boot
  Readers = {p2, p3}
  Chars = {a}
  NL = NL
  EOF = EOF
  INPUT_BUF = 3
  Word = 6
  Counts = {1, 2}
SPECIFICATION KernelSpec
INVARIANTS MemoryInv SizesKnown LogInv ConsoleInv HeapInv
PROPERTIES PagesKept ImplementsTerminal
SYMMETRY Alike
CHECK_DEADLOCK FALSE
