# Verification of the OS course projects

TLA+ models of the programs in this repository, the TLC runs that check them and the TLAPS proofs about
them. `PROJECT.json` is the index: components, runs, the mutants that show that each property can fail,
the map from definitions to source lines, findings, hazards and theorems.

In this document `4a/` stands for `src/project-4a-kernel-threads-__south__park/`, and 1a, 1b, 2a, 2b,
3a, 3b, 4b for the other seven project directories.

## 1. Inventory

The repository holds eight course projects. Four of them (1b, 2b, 3b, 4a) are the same xv6 kernel with one
extension each; 4a has the largest, kernel threads, and is the copy the kernel models are written from.

| part | state it keeps | operations | what is hard | what makes it correct |
|---|---|---|---|---|
| scheduler, `sleep`/`wakeup`, sleep-locks (`4a/proc.c`, `sleeplock.c`) | `p->state`, `c->proc`, the two spinlocks, `lk->locked`, `lk->pid` | acquiresleep, releasesleep, sleep, wakeup, yield, sched, scheduler | two spinlocks held across `swtch()`, wakeups that fall between a test and a sleep | mutual exclusion, no lost wakeup, a process on one processor, every sleeper runs again |
| processes and threads (`4a/proc.c`, `exec.c`) | the slots of `ptable`: state, pid, parent, pgdir, killed | fork, clone, wait, join, exit, kill, exec | who reaps whom, who frees a shared address space, failures half-way, slots reused | no address space freed in use, no exit lost, every child has somebody to reap it, killed processes exit |
| address spaces (`4a/vm.c`, `growproc`, `sys_sbrk`) | page table, `p->sz` of each thread | growproc, copyuvm, allocuvm, freevm | `sz` copied per thread and read without a lock | all threads of a space agree on its size; sizes never exceed what is mapped |
| write-ahead log (`4a/log.c`) | header and blocks on disk, `log.lh`, `outstanding`, `committing` | begin_op, log_write, end_op, commit, recovery | group commit, crash at any write, admission, sleepers | atomicity across crashes, room for what is admitted, sleepers woken |
| pipes (`4a/pipe.c`) | ring of 512 bytes, two counters, two flags | pipewrite, piperead, pipeclose, pipealloc | two channels to sleep on, wrap, close and kill during a sleep | bytes in order and once, nobody sleeps beside what he waits for, end of file |
| buffer cache and disk (`4a/bio.c`, `ide.c`) | buffers with reference counts and flags, request queue | bget, bread, bwrite, brelse, iderw, ideintr | recycling under a lookup, pinned buffers, interrupt against request | one buffer per block, none recycled in use, requests answered in order |
| inodes, paths, open files (`4a/fs.c`, `sysfile.c`, `file.c`) | inode cache and its references, links, directories, file table | iget, iput, ilock, dirlink, namex, link, unlink, create, dup, fileclose | last reference against unlink, lock order over directories | no inode freed in use, references and links counted, no deadlock |
| contents of files (`4a/fs.c`, `file.c`) | bitmap, addresses of each inode, offset of each open file | balloc, bmap, readi, writei, itrunc, filewrite | writes in pieces, shared offsets, blocks reused as indirect blocks | a file is a sequence of bytes; each block in one place; a piece fits its transaction |
| spinlocks and cli nesting (`4a/spinlock.c`, `trap.c`) | `locked`, `cpu`, `ncli`, `intena` | acquire, release, pushcli, popcli, trap | interrupts while nested, a switch of process inside a handler, orders of locks | interrupts off while a lock is held and back as they were, no circle of spinning processors |
| console (`4a/console.c`) | input ring of 128 characters and three counters | consoleintr, consoleread | interrupt against readers, a full ring, an EOF put back, kill | lines come out in order and once, nobody sleeps beside one |
| traps, page allocator (`4a/trap.c`, `kalloc.c`) | free list | trap, kalloc, kfree | - | pages handed out once |
| thread library, malloc (`4a/ulib.c`, `umalloc.c`) | free list, user spin lock, stacks | thread_create, thread_join, malloc, free | free list shared by threads without a lock | a stack is freed once and as it was allocated |
| lottery scheduler (2b) | tickets and ticks per slot | scheduler, settickets, getpinfo | the draw | share of the processor in proportion to tickets |
| null pointer, mprotect (3b) | page permissions | mprotect, munprotect, copyuvm | permissions across fork | page 0 unmapped, protection inherited |
| getreadcount (1b) | a counter | sys_read, sys_getreadcount | unlocked increment | it counts every read |
| pzip (3a) | ring of chunks, `taken`, result per chunk | produce, consume, print_queue | consumers racing for the last chunk, ring without a limit, runs across chunks | output is the zip of the input, the program ends |
| MapReduce library (4b) | hash tables with a mutex per place, cursors of the reducers | MR_Run, MR_Emit, get_next, mapper and reducer threads | emits of one key at once, reducers after mappers | each value reaches Reduce() once |
| my-cat, my-zip, my-unzip, my-grep (1a) | none | sequential filters | run-length format | unzip inverts zip |
| boot loader (2a) | none | assembly that runs once | - | - |

How they interact: system calls enter at `trap()`, which tests `killed` at entry and return. fork/exit/wait
call into the file table and the inodes; file-system calls run between `begin_op()` and `end_op()` of the
log, which pins buffers of the buffer cache; buffers, inodes, pipes, the log and the disk all wait with
`sleep()` and are woken with `wakeup()`, most of them under a sleep-lock or a spinlock of their own.
pzip and MapReduce are programs of their own over POSIX threads.

## 2. What is modelled

Each row: the module, its abstract specification if it has one, and how its state and steps correspond to
the code. Whatever the code does under one lock, touching only what that lock protects, is one step.

### SleepLock (implements Mutex)

`pc[p]` is the place of a process in `acquiresleep`/`releasesleep`, with points of their own between the
two `acquire()`s of `sleep()`; `pstate`, `running`, `spin`, `ptable` are the fields of ptable, the per-CPU
`c->proc` and the holders of the two spinlocks. A spinlock is held by a *processor*: interrupts are off, so
a holder is never preempted. `ptable.lock` is passed across `swtch()`: `SwitchOut` (sched) leaves it with
the processor, whose scheduler or next process gives it back (`SchedulerDropPtable`, `ReleaseAfterSwitch`).
`Mutex` is a lock with one holder at a time; the refinement maps its holder to the process between the
return of `acquiresleep()` and the store that clears `locked`.

### Threads

One record of functions per field of `struct proc`; `alloc` is the set of allocated page directories, and
`pgdir` of an UNUSED slot keeps its stale value because the code does not clear it. RUNNABLE stands for
RUNNING too. `fork()` and `clone()` are four steps (allocproc, copy or share, possible failures, make
RUNNABLE) because they work on the EMBRYO slot without `ptable.lock`. `wait()` and `join()` scan and sleep in one
step, which is what holding `ptable.lock` gives; `exit()` has a point before it takes the lock, while it
closes files. `exec()` replaces and frees a page directory. User programs are any sequence of the calls in
`Calls`; the value `"exec_threads"` lets a program exec beside its own threads. Left out: init's own
failures (a failed fork in `init.c` ends in the panic "init exiting"), kill of pid 1, which has the same end.

### Log (implements AtomicDisk)

`home`, `head`, `logged` are the disk; `cache`, `lh`, `outstanding`, `committing` are lost by `Crash`. Every
disk write of `commit()`, of the installation and of recovery is a step, and `Crash` may come between any
two, also during recovery. `log_write()` is two steps: the caller's change of its buffer with the test that is made without
`log.lock` (`LogWrite`; `calling` is the block, whose buffer stays locked), and the append under the lock (`LogAppend`). The log on
disk has the `NLOG - 1` blocks it really has; a commit of more writes the block `Behind` it (`WriteBehind`), which is some block of the file
system, at its home and in the cache. A panic of `log_write()` stops everything until the crash. `AtomicDisk` knows a
stable and a current state of the disk: a commit makes the current one stable at once, and a crash goes
back to the stable one. The stable state is what recovery *would* leave (`Recovered`), so the refinement says
that the write of the header is the commit point, and that no half of an operation is ever stable.

### Pipe (implements ByteStream)

The ring and the two counters modulo `Word`; `pc` says whether a process is in the call, about to sleep
with `p->lock` held (`"falling"`), or asleep. The copying loop up to the next sleep or return is one step, since
it runs under `p->lock`. The look at `killed` and the `sleep()` after it are two steps, because `kill()` takes
another lock. Processes hold one end each and close it, in the last case with `pipeclose()`. Histories: `sent`,
`received`, `sawEof`. `pipealloc()` and the file table are left out.

### Pzip

`main` is the main thread (produce, create consumers, print), `queue`, `nextIn`, `nextOut`, `taken` the ring of
`defs.h`; `taken` is an int, taken modulo `Word`. `Get` is one step, under `q_lock`, and so is the test of
`taken` that follows without it. A result is a sequence of runs. `overran` is a history variable: some consumer has
called `get()` on the empty ring. An element of `result[]` that no consumer has written is the null pointer of
`malloc()`'s fresh memory or anything else: printing it is the state `"crash"`.

### MapReduce

`table[p][h]` is the chain of buckets at place h of partition p, each with its key and its values in list order;
`locks` and `keylock` the holders of the mutexes. `PutLock`, `PutValue`, `CountKey`, `PutKey` are `ht_put()` between its lock
operations; `bucketsize++` is a read (`CountKey`) and a write (`PutKey`). `GetNext` is one call of `get_next()`: the
values delivered leave the list where the code moves a cursor. The two hash functions are constants. `MR_Run`
creates one mapper more than asked for if there are as many files as mappers (`MoreMappers`), as the code does;
the write past the end of `mappers[]` that goes with it is not modelled.

### AddrSpace

`sz`, `space` (pgdir) and `state` of each slot, the pages `mapped` in each page directory, and the count of `free`
frames. `growproc()` is one step, because it holds `ptable.lock`; `allocuvm()` that runs out of frames and undoes what
it has done is in it. `fork()` claims a slot, then copies page by page (`CopyPage`), then finishes; `clone()` reads
the size and stores it in two steps: neither holds the lock. `disturbed` is a history variable: a `sbrk()` met a fork
or clone of its own space, or took all of it.

### BufferCache (implements BlockStore)

`blockno`, `refcnt`, the two flags, `data` and the list `lru` of the buffers, `lock` their sleep-locks, and of the disk
the `idequeue`, the `command` that it works on and its contents. `bget()` is a step under `bcache.lock` (hit, miss or panic) and
then one for the lock of the buffer; `iderw()` puts itself into the queue and sleeps; `ideintr()` takes the first request,
moves the data, wakes the sleeper and starts the next. `LogWrite` pins a buffer by making it dirty, as log.c does;
`bwrite` sends it to the disk. `BlockStore` is one content per block, changed only by who has the block. A read error of the disk is left out.

### FileSystem (implements Namespace)

`dinode`, `entries` are the inodes and directories as a transaction sees them; `icache` the cached inodes with their
counts; `holder` the sleep-locks; `file`, `ofile`, `cwd` the open files. What a process still has to do of its system
call is a sequence of frames in `todo`, the first one next; each frame is what runs under one lock, so that `namex()` goes
hand over hand, `iput()` tests, truncates without `icache.lock` and drops its reference in steps of their own, and
`create`, `link`, `unlink` hold two inodes as they do in the code. `exit()` closes one file after the other, then puts the directory. `Crash` comes between transactions, as Log guarantees.
`Namespace` says that names change one at a time and that an inode is freed only when no name, directory or file has it.

### Blocks (implements TextFiles)

The bitmap `used`, the addresses of each inode (the last is the indirect block), and every block both as `bytes` and as
`entries`, because a block comes back as the other. `filewrite()` goes in pieces of `MaxPiece`, and a piece goes block by block: `bmap()` may allocate the indirect
block and the block, `writei()` copies into it. `call.logged` is the set of blocks of the transaction, which
`BlocksInv` holds against `MAXOPBLOCKS`. `TextFiles` is sequences of bytes and offsets; while an inode is locked its
abstract text is that from before.

### Console (implements Terminal)

`buf`, `r`, `w`, `e` are `struct input`, the counters modulo `Word`. `consoleintr()` is a step for each character. `consoleread()` is a step
up to its sleep or its return; between `sleep()`'s call and the sleep itself (`"falling"`) the console's lock is still
held but not `ptable.lock`. `Terminal` has a line that is being typed and the ended lines as two sequences.

### Spinlock

What each thread of the kernel has to do is a sequence of machine-level operations: the masking and counting of
`pushcli()` and `popcli()`, the exchange, the store, the switch. `IF_`, `ncli`, `intena` belong to a processor, `todo` and
`saved` to a thread, so that a process comes back on another processor. Interrupts come wherever the flag is on. The
spinning processor is one whose `xchg` is not enabled.

### Heap, RunLength, Lottery

`Heap`: the circular list of `umalloc.c` in memory of `Top` headers; what `thread_join()` frees where the stack had been
moved, or without a thread to join, is in `strayed`. `RunLength`: my-zip's loop over files and characters with its static run, and my-unzip. `Lottery`: a
pass of 2b's scheduler over the table with the accumulated tickets as the code computes them; two processors.

MCParts, MCKernel and MCLog run parts that share nothing side by side: the variable `which` says which one moves in a
behaviour, so that a run's states are the sum of those of its parts and never their product. MCKernel extends AddrSpace and Console, and MCParts
extends Blocks, so that TLC evaluates the assumptions that the proofs of these rest on; the other parts are instances.

## 3. Runs

TLC explores every state of each run. Bounds are in the `.cfg` files.

| run | instance | shows |
|---|---|---|
| `sleeplock` | 3 processes, 2 processors | mutual exclusion, no lost wakeup, the hand-off of ptable.lock across swtch() and the panics of sched(), refinement of Mutex, every sleeper wakes |
| `threads` | 4 slots, 5 pids, 4 page directories | no space freed in use, parents alive, no exit lost, wait/join keep their kinds; with rejected clones, kills and exec |
| `threads_live` | 4 slots, 2 page directories | killed processes exit, init reaps what it inherits, no deadlock |
| `kernel` (memory) | 3 slots, 3 page directories, 4 frames, pages of 2 bytes | sizes agree with mappings, no frame lost or mapped twice, pages of a live space change only with its size |
| `kernel` (log) | 2 processes, 3 blocks, 2 blocks per operation, LOGSIZE 4, log of 2 and its header | admission within the grants, pinned buffers, a commit alone, sleepers have a waker, also in a log that is overrun |
| `kernel` (console) | 2 readers, ring of 3, counters modulo 6, a letter, NL and EOF | refinement of Terminal, nobody asleep beside a line, the ring never stuck |
| `kernel` (heap) | 14 headers, requests of 2, 3, 5 | free and used blocks tile the heap |
| `log` (full) | 2 processes, 3 blocks, 1 block per operation, LOGSIZE 2, log of 2 and its header | refinement of AtomicDisk over crashes and panics; once crashes and panics cease the log drains |
| `log` (wait) | 3 processes, 1 block per operation, LOGSIZE 3, log of 2 and its header | no begin_op() is forgotten |
| `log_overrun` (violation) | 2 processes, 3 blocks, 1 block per operation, LOGSIZE 3, log of 2 and its header | finding: two appends after one free place, and a commit onto an inode block |
| `pipe` | 2 readers, 2 writers, ring of 2, counters modulo 4 | byte stream, sleepers have a reason, end of file, page freed once, calls end |
| `buffer_cache` | 2 processes, 2 buffers, 3 blocks, one pinned, two held | one buffer a block, counts and locks agree, nothing dropped unwritten, refinement of BlockStore, calls return |
| `files` | 2 processes, 3 inodes, paths a and /a/b, one open file | references and links counted, nothing in use freed, refinement of Namespace |
| `files_wait` (violation) | the same | finding: create() and unlink() wait for each other's inodes for ever |
| `spinlock` | 2 processors, 2 processes | interrupts masked and restored, no panic, one circle of waiting and no other |
| `parts` (zip) | 1 or 2 files of up to 3 characters out of 4 | unzip inverts zip |
| `parts` (lottery) | 3 processes, 2 processors, tickets 0, 1, 3, draws below 4 | who is RUNNABLE runs in the end, if zero is drawn again and again |
| `parts` (blocks) | 2 processes, 2 inodes, 1 open file, 3 blocks of 2 bytes, 1 direct and 1 indirect address, 6 blocks a transaction | bitmap and addresses agree, transactions fit, refinement of TextFiles |
| `parts` (MapReduce) | 3 mappers, 2 reducers, 4 files, 3 keys | no pair lost, counts right, Reduce() gets each value once, MR_Run() returns |
| `parts` (pzip) | 2 consumers, 1 or 2 files, of up to 4 characters and 5 in all, chunks of 2, ring of 3 | every chunk accounted for, correct zip, termination, unless a consumer takes from the empty ring |

Why the bounds are enough. Three processes on two processors give a sleeper, an owner and a waker, with one
of them always preempted. Four slots hold init, a process, its thread and a grandchild, so that orphans,
shared spaces and slot reuse all occur, and five pids let a slot be used twice. Sizes of three bytes in pages of two make
a size that is not a multiple of the page, and four frames run out in a copy and in a growth. A LOGSIZE of four admits two
operations of two blocks, so that groups, absorption, a full log and, as there are only two blocks for it on disk, one that is overrun happen
(`kernel`). In `log` two processes fill the log to its last block, and the three of (wait) are as many as LOGSIZE, 3*MAXOPBLOCKS as in
the code, lets in. `log_overrun` has LOGSIZE blocks on disk with the header, as the code has. A ring of two with a call of three bytes is filled and drained within one call, and the
counters wrap; so do those of the console, whose ring fills without the end of a line. Two buffers for three blocks, one of them
pinned, make every lookup recycle, and bget() panic. Three inodes are a root, a directory and a file: one process makes, opens and forks, the other
unlinks, links, closes and exits, on the same two names; there is no `..` in a path, no device, and the inode cache does not overflow.
Two addresses, one of them through the indirect block, three blocks and a piece of one block (`MaxPiece` with MAXOPBLOCKS of 6) let a write span both kinds
of address, fail for want of a block half-way and reuse a freed block as the other kind.
Chunks of two out of files of up to four characters give files of one chunk, of an exact multiple
and of a remainder, and runs that span two chunks. In MapReduce keys 1 and 2 share a partition, 1 and 3 a
place, one file is empty and one repeats a pair.

`threads`, `kernel` and `spinlock` use symmetry, which only safety runs do. In `kernel` the processes and blocks of the log
and the readers of the console are named like slots, so that one symmetry serves all. Deadlock is
checked in `sleeplock`, `threads_live` and `log`. The others may stop: in `threads` a join() may sleep for ever on
the slot of a rejected clone, a pipe's processes may all be closed or wait for a peer that does not write, bget()
may panic, `files` has the deadlock of `files_wait` and `spinlock` the circle of section 5, a heap may be full and a zip is done, and pzip
and MapReduce end.

### Fairness

- SleepLock: a processor that can execute an instruction does (weak). Winning a contended spinlock, the clock interrupt
  and being found by the scheduler's loop over the table are strong, because each is repeatedly possible and only
  eventually done. A holder releases in the end.
- Threads: a process in the kernel goes on, a killed process in user code enters the kernel (the clock), and init
  calls wait() for ever, as `init.c` does.
- Log: the disk and the scheduler make progress and an operation ends. `LogDrains` and `NobodyForgotten` (`SleepersWake` of Log) are about
  behaviours in which crashes and panics cease.
- Pipe: a process that is not asleep runs on, a killed one exits. Nobody has to read, write or close.
- BufferCache: the disk answers, a process that is awake runs on and gives back what it has, and a sleep-lock or
  a buffer that comes free again and again is got (strong).
- Pzip, MapReduce: the operating system runs every thread (weak); the mappers' mutexes are strong.
- Lottery: a process gives up its processor at the clock, and the generator draws zero again and again (strong): with
  one ticket among many a process runs only then.

## 4. Proofs

Checked by TLAPS for every value of the constants that the named assumptions allow.

**LockProofs**, the part about SleepLock (any processes, any processors; `NoOneAssumption`): `MutexCorrect`, `HandOffCorrect`
(`TypeCorrect`, `OneCpuCorrect` and `SchedLocksCorrect`), `NoLostWakeupCorrect`, `Refinement`. None of these properties is inductive alone. The invariant is
`TypeOK /\ LockInv /\ MutualExclusion /\ WakeInv`: who holds a spinlock is determined by where the processes stand
(`LockInv`), and a process on its way into `sleep()` either still holds `lk->lk` or has `ptable.lock`, so that a waker cannot have
passed it (`WakeInv`). The proof that a step preserves it goes action by action. `Refinement` shows that the initial
states and every step map to those of `Mutex` or stutter.

**ThreadsProofs** (any number of slots, pids, page directories; `ConstantsAssumption`):

- `FamilyCorrect` (`TypeCorrect`, `ParentAliveCorrect`, `NoLostExitCorrect`) holds of every program. Their invariant is `TreeInv`: types, and
  `Structure`, which says that a slot under construction belongs to one builder, is EMBRYO and has its creator as parent
  (`Builders`, `RunParent`), that only wait() and join() sleep, that init stays, and that nobody is his own parent.
- `SpacesLiveCorrect`, `KindsStableCorrect` assume `NoExecThreads`: programs do not exec beside their own threads. The
  assumption is needed: `exec()` frees the page directory its sibling threads run in (`4a/exec.c:103`). The invariant
  `IInv` adds to `TreeInv` that whatever a slot in use, or one about to run, names is allocated, and that the space of a child about to run is its
  creator's or nobody else's (`RunSpace`).
- `FirstIn`, that a scan of the table that can find a slot finds one, is proved by well-founded minimality over subsets
  of the finite set of slots.

**KernelProofs**, the part about AddrSpace (any number of slots, page directories, frames, any page size and amounts; `ConstantsAssumption`):
`ThreadsKnowSize` (`[]SizesKnown`), `LivePagesKept` (`PagesKept`) and `MemoryCorrect` (`[]MemoryInv`). The invariant is
`Types /\ CallsSound /\ CopiesApart /\ SpacesSound /\ SizesKnown`. `SizesKnown` alone is not inductive: at the end of a fork the
child's size must be what has been copied, so `CopiesApart` says that the copy under way has exactly the pages below
`call.page` and that nobody else is in it, and `CallsSound` that a call under way counts on a size that is still its caller's, unless it was
disturbed. `SpacesSound` is why a page directory that is handed out is empty. The lemmas go action by action; those
about `PagesIn` are about rounding a size up to pages. `MemoryCorrect` is proved on top of it: `MemInv` says that `free` and
the number of pairs of a space and a page in it (`Mappings`, a finite set) add up to `Frames`, and each action
replaces the pages of one space, which changes the number of pairs by the difference of the two numbers of pages. `IsFiniteSet(Spaces)`
is assumed for this; the code has as many page directories as frames at most.

**LogProofs** (any processes, blocks, contents, length of the log and grants; `ConstantsAssumption`): `Refinement`
(`ImplementsAtomicDisk`, if `LOGSIZE - (MAXOPBLOCKS - OpBlocks) < NLOG`), `LogCorrect` (`LogInv`, from `TypeCorrect`, `DirtyIsLoggedCorrect`, `CommitAloneCorrect`, `SleeperHasWakerCorrect`). The invariant `IInv` has two parts.
`StageInv` says who is where: a commit is alone, recovery is alone and has no buffer but the disk's, `outstanding` is the
number of operations and `committing` says whether there is a commit. `DataInv` says what has been copied: a block has one
place in the log (`OnePlace`, which absorption gives), write_log() has copied what the operations see (`Copying`, as far as the log reaches), the header
and the installed blocks agree with it (`Installing`), and the log is empty when nobody uses it (`Cleared`). From these, the write of the header is
the step that makes the current disk stable, an installation changes nothing that a crash would not bring back, and everything
else stutters. `SleeperHasWaker` needs `Cleared` and that MAXOPBLOCKS is at most LOGSIZE: with nobody in the log there is room for one.
`GrantsFitCorrect` is that the blocks in the log and what the operations under way may still write (`Unused`, pairs of an operation and a
place of its grant) fit into LOGSIZE. It is inductive with `Written`, that what an operation has written is in the log: a
write that takes a new place takes a pair from `Unused`, also when it was tested before others appended, because `Written` says
that the operation of a block in `calling` has such a pair left or has logged the block before. So a log in which each operation leaves as much of its grant as the log on disk falls short by (one
block where `nlog` is LOGSIZE) is never longer than the log on disk when it is committed (`NeverBehind`), whoever passes the unlocked test together: this is the hypothesis of
`Refinement`. Without it `Refinement` is false, by the run `log_overrun`; `LogCorrect` needs no such hypothesis. `NoPanicWithRoom` draws the boundary of the panic of section 5: if every operation leaves
more of its grant unused than the log has lost to the header (`LOGSIZE - (MAXOPBLOCKS - OpBlocks) < NLOG - 1`, two blocks where
`nlog` is LOGSIZE), log_write() does not panic.

**PipeProofs** (any readers and writers, any ring, any width of the counters that is a larger multiple of it;
`ConstantsAssumption`): `Refinement` (`ImplementsByteStream`) and `PipeCorrect` (`PipeInv`, from `TypeCorrect`, `SleepersCorrect`,
`EofCorrect`, `PageCorrect`). The invariant is `TypeOK /\ RingHolds /\ EndsHeld /\ Waits /\ Wants /\ EofIsEnd`. `RingHolds`
says that the counters are the lengths of the two histories modulo `Word` and that the ring holds what is between them;
`PutKeeps` and `TakeKeeps` carry it over a write and a read, on lemmas about remainders (`ModAdd`, `ModSub`, `PlaceOf`: a place
in the ring survives the wrap because `PIPESIZE` divides `Word`, as 512 divides 2^32). `Waits` extends what is claimed of sleepers to a process that
is about to sleep with `p->lock`, without which sleep() could make it false. That read() returns 0 at the end only
needs `Wants`: a read of no bytes returns 0 at any time, and the model has none.

**BufferCacheProofs** (any processes, buffers, blocks and contents; `ConstantsAssumption`): `CacheCorrect` (`[]CacheInv`) and
`Refinement` (`ImplementsBlockStore`). `CacheInv` becomes inductive with `Standing`, where a process is between calls exactly when it has no
current buffer, and never waits for a buffer it has already, and `Assigned`, by which a buffer somebody uses is some block's and is
valid once bread() has returned it. The list of buffers is a sequence without repetition: `MovedToHead` keeps it so, and the scan from its end
stops at an unused buffer if there is one. The count of a buffer is the cardinality of its `Users`, which each action changes by one process. For the refinement,
`OneBuffer` makes `Contents` the data of the one buffer of a block; a write to a buffer is `Store`'s write, the transfer to the
disk is its `stored`, and recycling stutters because a clean buffer is what the disk has.

**LockProofs**, the part about Spinlock (any processors and processes; `ConstantsAssumption`: a processor is not a process, and the first process is one):
`SpinlockCorrect` (`[]SpinlockInv`). The model has no program counter but the sequence of operations that a thread has left, and
an invariant would have to name every suffix of every system call. Instead `Can(t, a)` says that t can be done from a state a
of its processor (nesting, locks held, system call or handler) to the end, as far as the thread alone is concerned: it is the largest relation closed under
`Does`, the effect of one operation, so no induction on sequences is needed. `Takes(s, a, b)` says that s leads from a to b whatever comes after, and
composes (`TakesBoth`); each function of the code has a `Takes` lemma of its own, from `acquire()` to `yield()`, and each system call, handler and the scheduler
a `Can` lemma. The invariant `IInv` says that every processor is in a state from which its thread can be done (`Run`, `Fits`), that
the scheduler of a processor that runs a process, and every process that does not run, stand at the switch (`SchedulersWait`, `ProcsWait`, with the
`intena` to restore), and that a process runs on one processor (`Places`). `NoCircle` follows from the order of locks (`Rank`): each processor in
a circle spins for a lock of a higher rank than the one before, and there are three ranks.

**KernelProofs**, the part about Console (any readers, any ring, any width of the counters that is a larger multiple of it; `ConsoleAssumption`):
`ConsoleCorrect` (`[]ConsoleInv`) and `TerminalRefinement` (`ImplementsTerminal`). The invariant is `ConsoleIInv`, `ConsoleTypeOK /\ ConsoleCalls /\ ConsoleInv`: `ConsoleCalls` says where a
reader stands and how much it has taken. The proof rests on `Parts(n, m)`, that the ring holds `n` characters of ended lines
and `m` of the line that is being typed, which each character or read changes by one at one end; `Line` and `LineStored` carry the contents over such a
change, because `INPUT_BUF` divides `Word` (`PlaceOf`, as in PipeProofs). The kill character erases the whole typed line and no more, because the
line has no end of line in it. What consoleread() takes before it returns or sleeps is
one `Deliver`; a `^D` that comes first is `End`, a kill before anything came is `GiveUp`, and going to sleep with nothing taken stutters.

**BlocksProofs** (any processes, inodes and open files, any number and size of blocks, direct and indirect, any size of a
transaction in which a piece of filewrite() has a block; `BlocksAssumption`, which also says that `Nothing` is no process, no inode and no
open file): `BlocksCorrect` (`[]BlocksInv`) and `Refinement` (`ImplementsTextFiles`). `BlocksInv` is about sets of blocks, places and texts and
breaks in the middle of every operation as far as an induction is concerned; the invariant `IInv` is about one slot of one inode at a time:

- `Calls`: who has locked an inode, and where in it a write, a piece or an itrunc() stands (`WriteSound`, `PieceSound`, `TruncSound`);
- `Bitmap`: a block is used exactly when it is in a slot of an inode (`Has`), in one only, and a slot that itrunc() has passed counts as empty (`NotTruncated`);
- `Mapped`: a file that nobody truncates has all its blocks up to its size;
- `Written`: the piece is in blocks of the file as far as it has got and holds the writer's letter, and every other byte is the one from when the
  inode was locked (`before`);
- `Logged`: what a piece has logged are blocks it goes through, the indirect block and the bitmap (`OwnBlocks`); with `MaxPiece` of f blocks these
  are at most f + 1 + 2, and with the inode f + 4, which fits because 2f + 4 is at most `MAXOPBLOCKS`: the code counts every block of the file twice;
- `NeverFreesFree`: bfree() meets used blocks only, so that the one panic is that of balloc() on a full disk.

A step allocates, frees, stores or logs in one place, and lemmas about what stays (`KeepsData`, `SameIn`, `FreeStays`) carry the rest over. For
the refinement, the last step of a piece shows its whole text at once: before it, the others see `before`, and after it `Text`,
which `Written` says is `before` with the piece stored at the offset. A block that comes back as an indirect block is zeroed first
(`Zeroed`), without which `Mapped` fails; TLC shows that with a mutant.

**FileSystemProofs** (any processes, inodes, names, files, descriptors and system calls; `ConstantsAssumption`): `FilesCorrect`,
`NoDotDot => (Spec => []FilesInv)`. `NoDotDot`, that no path has `..`, is needed: `..` of a directory that has been removed leads to an
inode that may be free or something else, and ilock() panics. What a process has left of its system call is a sequence of frames of any
length, so most of the invariant `IInv` is about frames:

- `Shapes`: each frame is of the right form (`FrameOK`), and only some may follow others (`Leads`, `Ends`): a walk is followed by the frame that
  waits for its inode, create() by `opened` or `iunlockput`, and nothing else waits. This is why namex() has somebody to return to.
- `SoundFrames`: the inodes of a frame are not free, what namex() returned as a parent is a directory, unlink()'s entry still has its inode
  while the directory is locked, what iput() is about to free has no other reference, and a process that has exited only puts inodes.
- `Coherent`: a valid cached inode is what the disk has.
- `RefsBalance`, `FilesBalance`, `LinksBalance`, `HeldOnce`: the counts of `FilesInv` as sums over tables (`Fiber`) and frames (`Total`, `Count`).
  `LinksBalance` adds that the names of free inodes are gone, that only directories have entries, and what is left of the count for an inode
  whose directory went down with its name in it (`lost`): it is a file whose count stays too high, and so is never freed.
- `InUse`: current directories are directories, open files have inodes.

The counts carry the argument. An inode with one reference and no name is nobody else's (`RefOf`, `LinkOf`, `Alone`), which is what makes freeing it
sound although iput() does it without `icache.lock`; and a directory that a process is about to empty of its last name has no other (`GoneIs`). Each
system call or step replaces the frames of one process and one or two entries of the tables, and the lemmas `RefsStep`, `HoldsStep`, `FilesStep`, `NlinkStep`,
`LinksStay`, `FramesStep`, `ShapesStep` turn the change of a sum into a change of its parts (`TotalChange`, `FiberChange`), which are finite sets. Then there is one lemma for
each action of the model, and `Implied` reads `FilesInv` off the sums.

From the same invariant, `Refinement`: `NoDotDot => (Spec => ImplementsNamespace)`. Most steps change neither the kinds of inodes nor the entries with a name, and what
they do to current directories and open files is `Use`, because `InUse` and `SoundFrames` say that those inodes are not free. `IputFree` is `Free`
(no name is left for the inode, by `LinksBalance`, and no reference but the one being put, by `RefsBalance`), `LinkEntry` is `Link`, `UnlinkEntry`
is `Unlink` (a directory that is unlinked is empty) and `CreateNew` is `Create`; each of the last three is a stutter where the call fails.

Only model-checked: everything about Heap, Lottery, RunLength, Pzip and MapReduce so far,
and all liveness: fairness and ENABLED are outside the prover, and so is induction over data (what the folds of
`rle_encoding` compute) and anything with a RECURSIVE operator; no module here declares one.

## 5. Findings and boundaries

Findings with a run (see `PROJECT.json`).

`log_overrun`: log_write() tests for room without `log.lock` (`4a/log.c:218`). Two processes that pass it when one block is left both append,
and write_log() writes the block after the log, which is the first of the inodes (`4a/mkfs.c:25`, `102`). It takes operations that use all
`MAXOPBLOCKS` they are granted; filewrite(), the largest of this kernel, logs seven of the ten blocks, and `Refinement` covers that.

`files_wait`: `create()` has the new inode locked when `iunlockput()` goes for the
lock of the directory again (`4a/sysfile.c:281`, `fs.c:334`); `unlink()` of that name has the directory and waits for the
inode (`4a/sysfile.c:209`). Neither goes on.

Properties that the models state and that do not hold; each is a definition in its module, and a run with it as an
invariant or property gives the counterexample:

- `NoSpaceLeak` (Threads): wait() compares the page directory with those of UNUSED slots, where it was left behind, and
  does not free the last reference (`4a/proc.c:405`).
- `NoPanic` (Log): a full log panics although begin_op() admitted the operations (`4a/log.c:218`), unless they leave part of
  their grants unused (`NoPanicWithRoom`).
- `Terminates` (Pzip): two consumers race for the last chunk and the program does not end (`3a/pzip.c:110`).
- With more chunks than `q_size` the ring is overwritten (`3a/pzip.c:30`); the run keeps to inputs that fit.

Met while modelling, and kept as hazards or as conditions of a property:

- clone() does not give back the slot it claimed when it rejects the stack (`4a/proc.c:246`, `274`); `threads` contains such slots.
- kill(0) marks an UNUSED slot, whose next process is born killed (`4a/proc.c:606`).
- exec() beside threads (`4a/exec.c:103`): `NoExecThreads` above.
- fork() and clone() work with a size that a sbrk() of another thread changes meanwhile (`4a/proc.c:209`, `254`), and
  sbrk() down to 0 frees the pages and reports failure (`4a/proc.c:175`): `disturbed` in AddrSpace. The next fork() panics.
- growproc() prints, if memory runs out, under `ptable.lock` (`4a/vm.c:236`), and the console takes `ptable.lock` under its own lock: two
  processors may spin for ever. `NoCircle` in Spinlock excepts this and nothing else.
- A kill between the test of `killed` and `sleep()` in a pipe is lost (`4a/pipe.c:86`, `107`): `CallsEnd` promises only the rest.
- A killed pipe writer leaves readers asleep beside a pipe of bytes (`4a/pipe.c:88`): the exception in `SleepersHaveReason`.
- A killed reader of the console loses what it has taken from the ring (`4a/console.c:246`).
- Two iput()s of the last two references of an unlinked inode, each of which sees the other's, free it neither time (`4a/fs.c:324-330`):
  it stays allocated until the disk is made anew. link() of `d/.` waits for a lock of its own; `..` of a directory that has been removed
  leads to "ilock: no type"; create() in a removed directory makes an inode without a name (`lost` in FileSystem).
- A disk that reports a read error leaves a buffer marked valid (`4a/ide.c:118`).
- thread_join() frees a stack where thread_create() moved it to (`4a/ulib.c:143`), not where malloc() gave it, and, when join() fails, an
  address that was never set; malloc() has no lock.
- my-zip takes an empty first file, NUL and 0xFF for something else: the exceptions of `UnzipInvertsZip`.
- 2b's scheduler resets its ticket counter inside the loop (`2b/proc.c:377`): every process with at least `winner` tickets runs, so
  the draw is no lottery. Its sum of tickets may overflow, and getpinfo() reports slots that are no longer in use (`2b/proc.c:593`).
- MR_Run() creates one mapper too many when there are as many files as mappers (`4b/mapreduce.c:214`).
- 1b counts reads without a lock (`1b/sysfile.c:86`): two processors may count one.

### Not modelled

Boot code, device registers and the boot loader run once and interleave with nothing; console output, formatting and
argument decoding carry no property; user programs are clients. The page allocator is a list under one lock, whose failures are choices in the modules
that call it. mprotect() of 3b flips a bit of the caller's own page-table entries. getreadcount of 1b is one counter.

The map covers a small part of the repository's lines, and cannot cover much more: the kernel is there five times (1b, 2b, 3b, a
temporary copy in 3b, and 4a), of which one copy is modelled, and in each copy the larger half is user
programs, the test suite `usertests.c`, device drivers and tables. Mapping a definition to a copy it was not read from would say nothing new.

## 6. What is left

- Proofs of MapReduce, Pzip and Heap.
- FileSystem with `..` and with three processes, and a BufferCache under Log instead of two models that meet at an interface.
