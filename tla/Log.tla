--------------------------------- MODULE Log ---------------------------------
(***************************************************************************)
(* The write-ahead log (log.c): begin_op(), log_write() and end_op() by    *)
(* concurrent file-system calls, the group commit one disk write at a      *)
(* time, and recovery after a crash, which may itself crash.               *)
(*                                                                         *)
(* What log.lock protects is one step; the tests that log_write() makes    *)
(* before it takes the lock are a step of their own.  A disk write is      *)
(* atomic: one block.  A buffer and its block are one thing here: cache[b] *)
(* is what bread(b) returns, the buffer if there is one, else the disk's.  *)
(***************************************************************************)
EXTENDS Integers, Sequences, SequencesExt, FiniteSets, FiniteSetsExt

CONSTANTS
  Proc,         \* the processes that make file-system calls
  Boot,         \* the process that runs initlog(), in forkret()
  Block,        \* the blocks of the file system
  Value,        \* the contents of a block
  NoBlock,      \* the content of a log block never written
  MAXOPBLOCKS,  \* the blocks an operation is granted
  LOGSIZE,      \* the blocks begin_op() thinks the log can hold
  NLOG,         \* sb.nlog: the blocks of the log on disk, with its header
  Behind,       \* the blocks behind them: Behind[i] is log.start + i
  OpBlocks      \* the blocks an operation really writes, at most

ASSUME ConstantsAssumption ==
  /\ Boot \notin Proc /\ IsFiniteSet(Proc)
  /\ Value # {} /\ NoBlock \notin Value /\ NoBlock \notin Block
  /\ MAXOPBLOCKS \in Nat \ {0} /\ LOGSIZE \in Nat /\ NLOG \in Nat \ {0}
  /\ MAXOPBLOCKS <= LOGSIZE
  /\ OpBlocks \in 0..MAXOPBLOCKS
  /\ Behind \in [NLOG..LOGSIZE -> Block]

VARIABLES
  home,         \* on disk: the blocks of the file system
  head,         \* on disk: the header block, the numbers of committed blocks
  logged,       \* on disk: the blocks of the log after its header
  cache,        \* what bread() returns for each block
  lh,           \* log.lh.block[0..n-1]
  outstanding,  \* log.outstanding
  committing,   \* log.committing
  pc,           \* where each process stands
  calling,      \* the block whose log_write() is past its tests, or NoBlock
  wrote,        \* the blocks the current operation of each process has logged
  tail,         \* the loop index of write_log() and install_trans()
  panicked

disk == <<home, head, logged>>
vars == <<home, head, logged, cache, lh, outstanding, committing, pc, calling, wrote, tail, panicked>>

(* Control points of a file-system call:                                    *)
(*   "idle"     no call in progress        "begin"  in the loop of begin_op *)
(*   "asleep"   sleeping there             "op"     between begin and end   *)
(*   "write", "commit", "install", "clear"  in commit(), before write_log(),*)
(*   the first write_head(), install_trans() and the second write_head()    *)
(*   "done"     commit() has returned                                       *)
(* and of Boot: "read" before read_head(), "install", "clear", and "idle"   *)
(* when the system is up.  After a panic only a reboot helps.               *)
PC == {"idle", "begin", "asleep", "op", "write", "commit", "install", "clear", "done", "read"}

Up == pc[Boot] = "idle" /\ ~panicked

Init ==
  /\ home \in [Block -> Value]
  /\ head = <<>>
  /\ logged = [i \in 1..(NLOG - 1) |-> NoBlock]
  /\ cache = home
  /\ lh = <<>>
  /\ outstanding = 0
  /\ committing = FALSE
  /\ pc = [p \in Proc \cup {Boot} |-> IF p = Boot THEN "read" ELSE "idle"]
  /\ calling = [p \in Proc |-> NoBlock]
  /\ wrote = [p \in Proc |-> {}]
  /\ tail = 0
  /\ panicked = FALSE

Goto(p, to) == pc' = [pc EXCEPT ![p] = to]

\* wakeup(&log): the sleepers of begin_op() go round their loop again.
WakeAndGoto(p, to) ==
  pc' = [q \in DOMAIN pc |-> IF q = p THEN to
                             ELSE IF pc[q] = "asleep" THEN "begin" ELSE pc[q]]

-----------------------------------------------------------------------------
(* begin_op() and end_op() *)

\* This operation might exhaust the log.
NoRoom == Len(lh) + (outstanding + 1) * MAXOPBLOCKS > LOGSIZE

BeginOp(p) ==
  /\ Up /\ pc[p] \in {"idle", "begin"}
  /\ ~committing /\ ~NoRoom
  /\ outstanding' = outstanding + 1
  /\ wrote' = [wrote EXCEPT ![p] = {}]
  /\ Goto(p, "op")
  /\ UNCHANGED <<disk, cache, lh, committing, calling, tail, panicked>>

BeginOpSleep(p) ==
  /\ Up /\ pc[p] \in {"idle", "begin"}
  /\ committing \/ NoRoom
  /\ Goto(p, "asleep")
  /\ UNCHANGED <<disk, cache, lh, outstanding, committing, calling, wrote, tail, panicked>>

\* The test of log_write(), made before log.lock is taken.
LogFull == Len(lh) >= LOGSIZE \/ Len(lh) >= NLOG - 1

\* An operation that may log b: it has done so before, or has some of its
\* blocks left, and is in no other log_write().
Logs(p, b) ==
  /\ Up /\ pc[p] = "op" /\ calling[p] = NoBlock
  /\ b \in wrote[p] \/ Cardinality(wrote[p]) < OpBlocks

\* An operation modifies a buffer, which it has locked until log_write() has
\* returned, and passes the test of log_write().
LogWrite(p, b, v) ==
  /\ Logs(p, b)
  /\ v # cache[b]
  /\ \A q \in Proc : calling[q] # b
  /\ ~LogFull
  /\ cache' = [cache EXCEPT ![b] = v]
  /\ calling' = [calling EXCEPT ![p] = b]
  /\ UNCHANGED <<disk, lh, outstanding, committing, pc, wrote, tail, panicked>>

\* The rest of log_write(), under log.lock: the block is pinned in the cache,
\* and takes a place in the log unless it has one already.
LogAppend(p) ==
  LET b == calling[p]
  IN  /\ Up /\ b # NoBlock
      /\ lh' = IF Contains(lh, b) THEN lh ELSE Append(lh, b)
      /\ wrote' = [wrote EXCEPT ![p] = wrote[p] \cup {b}]
      /\ calling' = [calling EXCEPT ![p] = NoBlock]
      /\ UNCHANGED <<disk, cache, outstanding, committing, pc, tail, panicked>>

\* "too big a transaction"
LogWritePanic(p, b) ==
  /\ Logs(p, b)
  /\ LogFull
  /\ panicked' = TRUE
  /\ UNCHANGED <<disk, cache, lh, outstanding, committing, pc, calling, wrote, tail>>

\* end_op() while others go on: their reservation has shrunk.
EndOp(p) ==
  /\ Up /\ pc[p] = "op" /\ calling[p] = NoBlock
  /\ outstanding > 1
  /\ outstanding' = outstanding - 1
  /\ WakeAndGoto(p, "idle")
  /\ UNCHANGED <<disk, cache, lh, committing, calling, wrote, tail, panicked>>

\* Mutant of EndOpCommit: operations may begin while the commit is under way.
EndOpCommitOpen(p) ==
  /\ Up /\ pc[p] = "op" /\ calling[p] = NoBlock
  /\ outstanding = 1
  /\ outstanding' = 0
  /\ tail' = 0
  /\ Goto(p, IF lh = <<>> THEN "done" ELSE "write")
  /\ UNCHANGED <<disk, cache, lh, committing, calling, wrote, panicked>>

\* end_op() of the last one: it commits, if there is anything to commit.
EndOpCommit(p) ==
  /\ Up /\ pc[p] = "op" /\ calling[p] = NoBlock
  /\ outstanding = 1
  /\ outstanding' = 0
  /\ committing' = TRUE
  /\ tail' = 0
  /\ Goto(p, IF lh = <<>> THEN "done" ELSE "write")
  /\ UNCHANGED <<disk, cache, lh, calling, wrote, panicked>>

\* Mutant of CommitDone: no wakeup(&log).
CommitDoneSilent(p) ==
  /\ Up /\ pc[p] = "done"
  /\ committing' = FALSE
  /\ Goto(p, "idle")
  /\ UNCHANGED <<disk, cache, lh, outstanding, calling, wrote, tail, panicked>>

CommitDone(p) ==
  /\ Up /\ pc[p] = "done"
  /\ committing' = FALSE
  /\ WakeAndGoto(p, "idle")
  /\ UNCHANGED <<disk, cache, lh, outstanding, calling, wrote, tail, panicked>>

-----------------------------------------------------------------------------
(* commit() and recover_from_log(): p is the committing process, or Boot.   *)

\* The loops of write_log() and install_trans(): the next block, or what follows.
NextBlock(p, after) ==
  IF tail + 1 < Len(lh) THEN tail' = tail + 1 /\ UNCHANGED pc
                        ELSE tail' = 0 /\ Goto(p, after)

\* Two buffers at a time, a log block and the block it is for.  Nobody gets
\* the same one twice: bread() would wait for the lock that its caller holds.
TwoBuffers(i) == i >= NLOG => Behind[i] # lh[i]

\* write_log(), one block: from the cache to the log.
WriteLog(p) ==
  /\ pc[p] = "write" /\ tail + 1 < NLOG
  /\ logged' = [logged EXCEPT ![tail + 1] = cache[lh[tail + 1]]]
  /\ NextBlock(p, "commit")
  /\ UNCHANGED <<home, head, cache, lh, outstanding, committing, calling, wrote, panicked>>

\* The log on disk is full, log.lh is not: the block behind the log is written.
WriteBehind(p) ==
  LET b == Behind[tail + 1]
  IN  /\ pc[p] = "write" /\ tail + 1 >= NLOG
      /\ TwoBuffers(tail + 1)
      /\ cache' = [cache EXCEPT ![b] = cache[lh[tail + 1]]]
      /\ home' = [home EXCEPT ![b] = cache[lh[tail + 1]]]
      /\ NextBlock(p, "commit")
      /\ UNCHANGED <<head, logged, lh, outstanding, committing, calling, wrote, panicked>>

\* write_head(): the true point at which the transaction commits.
WriteHead(p) ==
  /\ pc[p] = "commit"
  /\ head' = lh
  /\ Goto(p, "install")
  /\ UNCHANGED <<home, logged, cache, lh, outstanding, committing, calling, wrote, tail, panicked>>

\* bread(log.start + i)
LogBlock(i) == IF i < NLOG THEN logged[i] ELSE cache[Behind[i]]

\* install_trans(), one block: from the log to its home, through the cache.
Install(p) ==
  LET b == lh[tail + 1]
  IN  /\ pc[p] = "install"
      /\ TwoBuffers(tail + 1)
      /\ cache' = [cache EXCEPT ![b] = LogBlock(tail + 1)]
      /\ home' = [home EXCEPT ![b] = LogBlock(tail + 1)]
      /\ NextBlock(p, "clear")
      /\ UNCHANGED <<head, logged, lh, outstanding, committing, calling, wrote, panicked>>

\* Mutant of ClearHead: the in-memory header is cleared, the one on disk not.
ClearHeadInMemory(p) ==
  /\ pc[p] = "clear"
  /\ lh' = <<>>
  /\ Goto(p, IF p = Boot THEN "idle" ELSE "done")
  /\ UNCHANGED <<disk, cache, outstanding, committing, calling, wrote, tail, panicked>>

\* log.lh.n = 0; write_head(): erase the transaction.
ClearHead(p) ==
  /\ pc[p] = "clear"
  /\ lh' = <<>>
  /\ head' = <<>>
  /\ Goto(p, IF p = Boot THEN "idle" ELSE "done")
  /\ UNCHANGED <<home, logged, cache, outstanding, committing, calling, wrote, tail, panicked>>

\* read_head(), after which recovery installs what was committed.
ReadHead ==
  /\ pc[Boot] = "read"
  /\ lh' = head
  /\ Goto(Boot, IF head = <<>> THEN "clear" ELSE "install")
  /\ UNCHANGED <<disk, cache, outstanding, committing, calling, wrote, tail, panicked>>

\* The machine stops and boots again: only the disk survives.
Crash ==
  /\ cache' = home
  /\ lh' = <<>>
  /\ outstanding' = 0
  /\ committing' = FALSE
  /\ pc' = [p \in DOMAIN pc |-> IF p = Boot THEN "read" ELSE "idle"]
  /\ calling' = [p \in Proc |-> NoBlock]
  /\ wrote' = [p \in Proc |-> {}]
  /\ tail' = 0
  /\ panicked' = FALSE
  /\ UNCHANGED disk

-----------------------------------------------------------------------------

begin_op(p) == BeginOp(p) \/ BeginOpSleep(p)
log_write(p) ==
  \/ \E b \in Block : LogWritePanic(p, b) \/ \E v \in Value : LogWrite(p, b, v)
  \/ LogAppend(p)
end_op(p) == EndOp(p) \/ EndOpCommit(p) \/ CommitDone(p)
commit(p) == WriteLog(p) \/ WriteBehind(p) \/ WriteHead(p) \/ Install(p) \/ ClearHead(p)
recover_from_log == ReadHead \/ Install(Boot) \/ ClearHead(Boot)

Next ==
  \/ \E p \in Proc : begin_op(p) \/ log_write(p) \/ end_op(p) \/ commit(p)
  \/ recover_from_log
  \/ Crash

Spec == Init /\ [][Next]_vars

\* The disk and the scheduler make progress, and an operation ends: it makes
\* a bounded number of log_write()s, which is why end_op() is strongly fair.
\* Nothing obliges anyone to begin an operation.
Fairness ==
  /\ WF_vars(recover_from_log)
  /\ \A p \in Proc :
       /\ WF_vars(pc[p] = "begin" /\ begin_op(p))
       /\ WF_vars(LogAppend(p))
       /\ SF_vars(end_op(p) \/ commit(p))

LiveSpec == Spec /\ Fairness

-----------------------------------------------------------------------------
(* Properties *)

TypeOK ==
  /\ home \in [Block -> Value]
  /\ head \in Seq(Block) /\ Len(head) <= LOGSIZE
  /\ logged \in [1..(NLOG - 1) -> Value \cup {NoBlock}]
  /\ cache \in [Block -> Value]
  /\ lh \in Seq(Block) /\ Len(lh) <= LOGSIZE
  /\ outstanding \in Nat
  /\ committing \in BOOLEAN
  /\ pc \in [Proc \cup {Boot} -> PC]
  /\ calling \in [Proc -> Block \cup {NoBlock}]
  /\ wrote \in [Proc -> SUBSET Block]
  /\ tail \in 0..LOGSIZE
  /\ panicked \in BOOLEAN

\* What a crash followed by a complete recovery would leave on the disk, as
\* long as the transaction is no longer than the log.
OnDisk(i) == IF i < NLOG THEN logged[i] ELSE home[Behind[i]]
Recovered ==
  [b \in Block |-> IF Contains(head, b)
                   THEN OnDisk(CHOOSE i \in DOMAIN head : head[i] = b) ELSE home[b]]

\* The blocks in the log and what the operations under way may still add, each
\* up to its grant, are together no more than LOGSIZE: one more operation is
\* let in only if all of them could use their whole grant, whoever ends first.
Unused ==
  {g \in {p \in Proc : pc[p] = "op"} \X (1..MAXOPBLOCKS) : g[2] > Cardinality(wrote[g[1]])}
GrantsFit == Len(lh) + Cardinality(Unused) <= LOGSIZE

\* begin_op() admits no more operations than the log has room for.  It does
\* not hold where NLOG = LOGSIZE (README.md, section 5).
NoPanic == ~panicked

\* A buffer that differs from its block on disk is in the log, so pinned, or is
\* on its way there and locked: the only copy of a write is never dropped.
DirtyIsLogged ==
  pc[Boot] = "idle" =>
    \A b \in Block : cache[b] # home[b] => Contains(lh, b) \/ \E p \in Proc : calling[p] = b

\* Whoever sleeps in begin_op() will be woken: an operation or a commit is
\* still under way.
SleeperHasWaker == (\E p \in Proc : pc[p] = "asleep") => committing \/ outstanding > 0

\* A commit has the log for itself: no operation writes to the blocks it
\* copies, and a second commit does not start.
CommitAlone ==
  \A p \in Proc : pc[p] \in {"write", "commit", "install", "clear", "done"} =>
    \A q \in Proc \ {p} : pc[q] \in {"idle", "begin", "asleep"}

\* What the log of log.c keeps to while operations share it: the room, the
\* pinned buffers, the sleepers and the commit.
LogInv == TypeOK /\ GrantsFit /\ DirtyIsLogged /\ SleeperHasWaker /\ CommitAlone

\* The log implements a disk that survives crashes atomically.
Abstract == INSTANCE AtomicDisk WITH
  stable <- Recovered,
  current <- IF pc[Boot] = "idle" THEN cache ELSE Recovered,
  active <- {p \in Proc : pc[p] = "op"}

ImplementsAtomicDisk == Abstract!Spec

\* A committed transaction reaches the home blocks and leaves the log, however
\* often recovery itself is interrupted, if the crashes and the panics cease.
Quiet == <>[][~Crash]_vars /\ <>[]~panicked
LogDrains == Quiet => []<>(head = <<>>)

\* Nobody sleeps in begin_op() for ever without looking again.
SleepersWake == Quiet => \A p \in Proc : pc[p] = "asleep" ~> pc[p] # "asleep"
=============================================================================
