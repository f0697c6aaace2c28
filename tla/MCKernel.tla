------------------------------- MODULE MCKernel ------------------------------
(***************************************************************************)
(* Four parts of xv6, each on its own: a behaviour is one of the part that *)
(* `which` names, the others stand still.  They are AddrSpace, with pages  *)
(* of two bytes and sizes that are not multiples of them, Log, Console,    *)
(* where a word is twice the ring so that the counters wrap, and Heap; the *)
(* processes and the blocks of Log and Console have the names of slots.    *)
(* The log on disk is two blocks shorter than what begin_op() lets in, so  *)
(* that it can be overrun; the block behind it is InitSlot, which the      *)
(* symmetry leaves alone.                                                  *)
(***************************************************************************)
EXTENDS AddrSpace, Console, TLC

CONSTANT Boot

VARIABLES which,
  home, head, logged, cache, lh, outstanding, committing, lpc, calling, wrote, tail, halted,
  hdr, freep, brk, blocks, stacks, want, strayed

disklog == <<home, head, logged, cache, lh, outstanding, committing, lpc, calling, wrote, tail, halted>>
heap == <<hdr, freep, brk, blocks, stacks, want, strayed>>
kernelVars == <<which, vars, disklog, consoleVars, heap>>

SomeAmounts == {-3, -2, 1, 2}
Processes == Slots \ {InitSlot}
Alike == Permutations(Spaces) \cup Permutations(Processes)

Log == INSTANCE Log WITH
  Proc <- Processes, Block <- Slots, Value <- {0, 1}, NoBlock <- NoSpace,
  MAXOPBLOCKS <- 2, LOGSIZE <- 4, NLOG <- 3, OpBlocks <- 2, Behind <- [i \in 3..4 |-> InitSlot],
  panicked <- halted, pc <- lpc

Heap == INSTANCE Heap WITH
  Top <- 14, MinCore <- 7, PageUnits <- 2, Wants <- {2, 3, 5}, None <- NoSlot, live <- blocks

ASSUME LogAssumption == Log!ConstantsAssumption
ASSUME HeapAssumption == Heap!ConstantsAssumption

(* Where the memory stands still there is none, so that the page            *)
(* directories of the initial state do not count.                           *)
NoMemory ==
  /\ state = [p \in Slots |-> "unused"] /\ space = [p \in Slots |-> NoSpace]
  /\ sz = [p \in Slots |-> 0] /\ parent = [p \in Slots |-> NoSlot]
  /\ mapped = [s \in Spaces |-> {}] /\ inUse = {} /\ free = Frames
  /\ call = [p \in Slots |-> NoCall] /\ panicked = FALSE /\ disturbed = FALSE

KernelInit ==
  /\ which \in {"memory", "log", "console", "heap"}
  /\ IF which = "memory" THEN Init ELSE NoMemory
  /\ Log!Init /\ (which # "log" => \A b \in Slots : home[b] = 0)
  /\ ConsoleInit /\ Heap!Init

MemoryStep == which = "memory" /\ Next /\ UNCHANGED <<which, disklog, consoleVars, heap>>
LogStep == which = "log" /\ Log!Next /\ UNCHANGED <<which, vars, consoleVars, heap>>
ConsoleStep == which = "console" /\ ConsoleNext /\ UNCHANGED <<which, vars, disklog, heap>>
HeapStep == which = "heap" /\ Heap!Next /\ UNCHANGED <<which, vars, disklog, consoleVars>>

KernelNext == MemoryStep \/ LogStep \/ ConsoleStep \/ HeapStep

KernelSpec == KernelInit /\ [][KernelNext]_kernelVars

(* The room in the log, the pinned buffers, the sleepers and the commit     *)
(* (log.c).                                                                 *)
LogInv == Log!LogInv

(* The free blocks of malloc() and free() (umalloc.c) and those that are in *)
(* use tile the heap.                                                       *)
HeapInv == Heap!HeapInv
=============================================================================
