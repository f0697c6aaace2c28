----------------------------- MODULE BufferCache -----------------------------
(***************************************************************************)
(* The buffer cache (bio.c) and the disk driver under it (ide.c): buffers  *)
(* found and recycled under bcache.lock, one sleep-lock per buffer, the    *)
(* queue of requests under idelock, and the interrupt of the disk.         *)
(*                                                                         *)
(* A step is what is done under one spinlock.  The sleep-lock of a buffer  *)
(* is its holder (SleepLock models what is inside).  A process changes a   *)
(* buffer it has and calls log_write(), which pins the buffer by B_DIRTY,  *)
(* or bwrite(), which waits for the disk.                                  *)
(***************************************************************************)
EXTENDS Integers, Sequences, SequencesExt, FiniteSets, FiniteSetsExt, Functions

CONSTANTS
  Proc,
  Buf,         \* the buffers, NBUF of them
  Block,       \* block numbers: a process takes its blocks in ascending order
  Value,       \* the contents of a block
  Written,     \* those that each block may have
  NoBlock, NoProc, NoBuf, NoCommand,
  MaxPinned,   \* buffers that the log pins at one time, at most
  MaxHeld      \* buffers that a process has at one time, at most

ASSUME ConstantsAssumption ==
  /\ IsFiniteSet(Proc) /\ IsFiniteSet(Buf)
  /\ Block \subseteq Nat /\ NoBlock \notin Block
  /\ NoProc \notin Proc /\ NoBuf \notin Buf
  /\ Value # {} /\ Written \in [Block -> (SUBSET Value) \ {{}}]
  /\ MaxPinned \in Nat /\ MaxHeld \in Nat \ {0}
  /\ NoCommand \notin [block : Block, write : BOOLEAN, data : Value]

VARIABLES
  blockno, refcnt, valid, dirty, data,   \* the fields of each buffer
  lock,        \* the holder of its sleep-lock
  lru,         \* the list from bcache.head.next on: most recently used first
  idequeue,
  command,     \* what the disk is doing, as idestart() told it
  disk,        \* the blocks on the disk
  pc, cur,     \* where each process stands, and with which buffer
  held,        \* the buffers it has: bread() has returned them
  panicked     \* "bget: no buffers"

flags == <<valid, dirty>>
bufs == <<blockno, refcnt, flags, data, lock, lru>>
drive == <<idequeue, command, disk>>
procs == <<pc, cur, held>>
vars == <<bufs, drive, procs, panicked>>

(* Control points, with the buffer cur[p]:                                  *)
(*   "run"     none of the cache's functions is under way                   *)
(*   "lock"    bget() has counted the process, before acquiresleep()        *)
(*   "read"    it has the lock, before the test of B_VALID in bread()       *)
(*   "asleep"  in the sleep() of iderw()    "woken"  after it               *)
(*   "brelse"  the lock is released, the count is not yet down              *)
PC == {"run", "lock", "read", "asleep", "woken", "brelse"}

Command == [block : Block, write : BOOLEAN, data : Value]

Init ==
  /\ disk \in {d \in [Block -> Value] : \A blk \in Block : d[blk] \in Written[blk]}
  /\ blockno = [b \in Buf |-> NoBlock]
  /\ refcnt = [b \in Buf |-> 0]
  /\ valid = [b \in Buf |-> FALSE]
  /\ dirty = [b \in Buf |-> FALSE]
  /\ data \in [Buf -> {CHOOSE v \in Value : TRUE}]
  /\ lock = [b \in Buf |-> NoProc]
  /\ lru = Reverse(SetToSeq(Buf))     \* binit(): each one in front of those before
  /\ idequeue = <<>> /\ command = NoCommand
  /\ pc = [p \in Proc |-> "run"]
  /\ cur = [p \in Proc |-> NoBuf]
  /\ held = [p \in Proc |-> {}]
  /\ panicked = FALSE

Goto(p, to, b) == pc' = [pc EXCEPT ![p] = to] /\ cur' = [cur EXCEPT ![p] = b]

-----------------------------------------------------------------------------
(* bget() and bread() *)

\* Whether p may call bread(blk): callers take their buffers in one order.
MayCall(p, blk) ==
  /\ pc[p] = "run" /\ Cardinality(held[p]) < MaxHeld
  /\ \A b \in held[p] : blockno[b] < blk

Cached(blk) == {b \in Buf : blockno[b] = blk}

BgetHit(p, blk) ==
  /\ MayCall(p, blk)
  /\ \E b \in Cached(blk) :
       /\ refcnt' = [refcnt EXCEPT ![b] = @ + 1]
       /\ Goto(p, "lock", b)
  /\ UNCHANGED <<blockno, flags, data, lock, lru, drive, held, panicked>>

\* Mutant of Unused: B_DIRTY buffers are recycled as well.
UnusedOrDirty(b) == refcnt[b] = 0

\* Even if refcnt is 0, B_DIRTY indicates that a buffer is in use by the log.
Unused(b) == refcnt[b] = 0 /\ ~dirty[b]

Recycle(b, blk) ==
  /\ blockno' = [blockno EXCEPT ![b] = blk]
  /\ valid' = [valid EXCEPT ![b] = FALSE]
  /\ dirty' = [dirty EXCEPT ![b] = FALSE]
  /\ refcnt' = [refcnt EXCEPT ![b] = 1]

\* Not cached: recycle the least recently used of the unused buffers.
BgetMiss(p, blk) ==
  LET i == SelectLastInSeq(lru, Unused)
  IN  /\ MayCall(p, blk) /\ Cached(blk) = {} /\ i > 0
      /\ Recycle(lru[i], blk)
      /\ Goto(p, "lock", lru[i])
      /\ UNCHANGED <<data, lock, lru, drive, held, panicked>>

BgetPanic(p, blk) ==
  /\ MayCall(p, blk) /\ Cached(blk) = {} /\ \A b \in Buf : ~Unused(b)
  /\ panicked' = TRUE
  /\ UNCHANGED <<bufs, drive, procs>>

BgetLock(p) ==
  /\ pc[p] = "lock" /\ lock[cur[p]] = NoProc
  /\ lock' = [lock EXCEPT ![cur[p]] = p]
  /\ Goto(p, "read", cur[p])
  /\ UNCHANGED <<blockno, refcnt, flags, data, lru, drive, held, panicked>>

Returns(p) ==
  /\ held' = [held EXCEPT ![p] = @ \cup {cur[p]}]
  /\ Goto(p, "run", NoBuf)

BreadCached(p) ==
  /\ pc[p] = "read" /\ valid[cur[p]]
  /\ Returns(p)
  /\ UNCHANGED <<bufs, drive, panicked>>

-----------------------------------------------------------------------------
(* iderw() and ideintr() *)

\* idestart(): the command for buffer b, whose flags and data are as given.
Started(b, write, d) == [block |-> blockno[b], write |-> write, data |-> d]

\* iderw() up to its sleep: the request goes to the end of the queue.
Enqueue(p, b, write, d) ==
  /\ idequeue' = Append(idequeue, b)
  /\ command' = IF idequeue = <<>> THEN Started(b, write, d) ELSE command
  /\ Goto(p, "asleep", b)

BreadDisk(p) ==
  /\ pc[p] = "read" /\ ~valid[cur[p]]
  /\ Enqueue(p, cur[p], FALSE, data[cur[p]])
  /\ UNCHANGED <<bufs, disk, held, panicked>>

\* Mutant of NextCommand: the disk is not started on the next request.
NextCommandNever(q) == NoCommand

\* Start the disk on the next buffer in the queue.
NextCommand(q) == IF q = <<>> THEN NoCommand ELSE Started(Head(q), dirty[Head(q)], data[Head(q)])

\* The disk has done what it was told, and interrupts.  The first buffer of
\* the queue is the active request.
ideintr ==
  /\ command # NoCommand
  /\ LET b == Head(idequeue)
     IN  /\ disk' = IF command.write THEN [disk EXCEPT ![command.block] = command.data] ELSE disk
         /\ data' = IF dirty[b] THEN data ELSE [data EXCEPT ![b] = disk[command.block]]
         /\ valid' = [valid EXCEPT ![b] = TRUE]
         /\ dirty' = [dirty EXCEPT ![b] = FALSE]
         /\ pc' = [p \in Proc |-> IF pc[p] = "asleep" /\ cur[p] = b THEN "woken" ELSE pc[p]]
  /\ idequeue' = Tail(idequeue)
  /\ command' = NextCommand(Tail(idequeue))
  /\ UNCHANGED <<blockno, refcnt, lock, lru, cur, held, panicked>>

IderwReturns(p) ==
  /\ pc[p] = "woken" /\ valid[cur[p]] /\ ~dirty[cur[p]]
  /\ Returns(p)
  /\ UNCHANGED <<bufs, drive, panicked>>

-----------------------------------------------------------------------------
(* What a process does with a buffer it has *)

\* Pinned by the log: modified but not yet committed.
Pinned == {b \in Buf : dirty[b] /\ ~Contains(idequeue, b)}

\* A write into the buffer and log_write(): it will be written later.
LogWrite(p, b, v) ==
  /\ pc[p] = "run" /\ b \in held[p] /\ v \in Written[blockno[b]]
  /\ dirty[b] \/ Cardinality(Pinned) < MaxPinned
  /\ data' = [data EXCEPT ![b] = v]
  /\ dirty' = [dirty EXCEPT ![b] = TRUE]
  /\ UNCHANGED <<blockno, refcnt, valid, lock, lru, drive, procs, panicked>>

bwrite(p, b, v) ==
  /\ pc[p] = "run" /\ b \in held[p] /\ v \in Written[blockno[b]]
  /\ data' = [data EXCEPT ![b] = v]
  /\ dirty' = [dirty EXCEPT ![b] = TRUE]
  /\ Enqueue(p, b, TRUE, v)
  /\ UNCHANGED <<blockno, refcnt, valid, lock, lru, disk, held, panicked>>

BrelseUnlock(p, b) ==
  /\ pc[p] = "run" /\ b \in held[p]
  /\ lock' = [lock EXCEPT ![b] = NoProc]
  /\ held' = [held EXCEPT ![p] = @ \ {b}]
  /\ Goto(p, "brelse", b)
  /\ UNCHANGED <<blockno, refcnt, flags, data, lru, drive, panicked>>

\* Mutant of BrelseCount: a buffer others wait for keeps its count.
BrelseCountLast(p) ==
  /\ pc[p] = "brelse"
  /\ refcnt' = IF lock[cur[p]] = NoProc THEN [refcnt EXCEPT ![cur[p]] = @ - 1] ELSE refcnt
  /\ Goto(p, "run", NoBuf)
  /\ UNCHANGED <<blockno, flags, data, lock, lru, drive, held, panicked>>

\* The list with b unlinked and put in front.
MovedToHead(b) ==
  LET i == CHOOSE k \in DOMAIN lru : lru[k] = b IN Cons(b, RemoveAt(lru, i))

\* If no one is waiting for it, move it to the head of the list.
BrelseCount(p) ==
  LET b == cur[p]
  IN  /\ pc[p] = "brelse"
      /\ refcnt' = [refcnt EXCEPT ![b] = @ - 1]
      /\ lru' = IF refcnt[b] = 1 THEN MovedToHead(b) ELSE lru
      /\ Goto(p, "run", NoBuf)
      /\ UNCHANGED <<blockno, flags, data, lock, drive, held, panicked>>

-----------------------------------------------------------------------------

bget(p) == BgetLock(p) \/ \E blk \in Block : BgetHit(p, blk) \/ BgetMiss(p, blk) \/ BgetPanic(p, blk)
bread(p) == BreadCached(p) \/ BreadDisk(p)
brelse(p) == BrelseCount(p) \/ \E b \in Buf : BrelseUnlock(p, b)

Next == ~panicked /\
  \/ ideintr
  \/ \E p \in Proc :
       \/ bget(p) \/ bread(p) \/ IderwReturns(p) \/ brelse(p)
       \/ \E b \in Buf, v \in Value : LogWrite(p, b, v) \/ bwrite(p, b, v)

Spec == Init /\ [][Next]_vars

\* The disk answers, a process that is not asleep runs on, whoever has buffers
\* gives them back, and a sleep-lock that comes free again and again is got.
Fairness ==
  /\ WF_vars(ideintr)
  /\ \A p \in Proc :
       /\ WF_vars(bread(p) \/ IderwReturns(p) \/ BrelseCount(p))
       /\ SF_vars(BgetLock(p))
       /\ \A b \in Buf : SF_vars(BrelseUnlock(p, b))

LiveSpec == Spec /\ Fairness

-----------------------------------------------------------------------------
(* Properties *)

TypeOK ==
  /\ blockno \in [Buf -> Block \cup {NoBlock}]
  /\ refcnt \in [Buf -> Nat]
  /\ valid \in [Buf -> BOOLEAN] /\ dirty \in [Buf -> BOOLEAN]
  /\ data \in [Buf -> Value] /\ disk \in [Block -> Value]
  /\ lock \in [Buf -> Proc \cup {NoProc}]
  /\ lru \in Seq(Buf) /\ idequeue \in Seq(Buf)
  /\ command \in Command \cup {NoCommand}
  /\ pc \in [Proc -> PC] /\ cur \in [Proc -> Buf \cup {NoBuf}]
  /\ held \in [Proc -> SUBSET Buf]
  /\ panicked \in BOOLEAN

\* A block is in at most one buffer, though two processes miss it at once.
OneBuffer == \A b, c \in Buf : blockno[b] = blockno[c] /\ blockno[b] # NoBlock => b = c

\* The buffers p is counted in, and those whose lock it holds.
Uses(p) == held[p] \cup IF pc[p] = "run" THEN {} ELSE {cur[p]}
Locks(p) == held[p] \cup IF pc[p] \in {"read", "asleep", "woken"} THEN {cur[p]} ELSE {}

\* The reference count is the number of processes that use the buffer or are
\* on their way to its lock, and the lock has the holder who believes it.
UsersCounted == \A b \in Buf :
  /\ refcnt[b] = Cardinality({p \in Proc : b \in Uses(p)})
  /\ \A p \in Proc : lock[b] = p <=> b \in Locks(p)

\* A buffer that is valid and not dirty is what the disk has.
CleanIsStored == \A b \in Buf : valid[b] /\ ~dirty[b] => data[b] = disk[blockno[b]]

\* The requests are of the processes asleep in iderw(), one each; the disk
\* works on the first of them, with the contents the buffer has.
QueueOfSleepers ==
  /\ IsInjective(idequeue)
  /\ ToSet(idequeue) = {cur[p] : p \in {q \in Proc : pc[q] = "asleep"}}
  /\ command = NextCommand(idequeue)

\* The list has every buffer once.
ListComplete == IsInjective(lru) /\ ToSet(lru) = Buf

\* bget() gives up only if every buffer is pinned or in somebody's use.
NoneForgotten == panicked => Buf = Pinned \cup UNION {Uses(p) : p \in Proc}

\* The cache in order, whoever comes, waits and leaves: each buffer counted,
\* locked, queued and listed as it is used, one for a block.
CacheInv ==
  /\ TypeOK /\ OneBuffer /\ UsersCounted /\ NoneForgotten
  /\ CleanIsStored /\ QueueOfSleepers /\ ListComplete

\* The content of a block is in its buffer, else on the disk.
Contents(blk) ==
  IF \E b \in Cached(blk) : valid[b]
    THEN data[CHOOSE b \in Cached(blk) : valid[b]] ELSE disk[blk]

\* The cache is a store of blocks: nobody sees an old content or that of
\* another block, and nothing that was written is dropped with its buffer.
Store == INSTANCE BlockStore WITH
  contents <- [blk \in Block |-> Contents(blk)],
  stored <- disk,
  has <- [p \in Proc |-> {blockno[b] : b \in held[p]}]

ImplementsBlockStore == Store!Spec

\* Every bread(), bwrite() and brelse() returns, or the kernel has panicked for
\* want of a buffer: requests are answered, and
\* nobody waits for ever for a buffer that others have.
CallsReturn == \A p \in Proc : pc[p] # "run" ~> pc[p] = "run" \/ panicked
=============================================================================
