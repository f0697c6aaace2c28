------------------------------ MODULE LogProofs -----------------------------
(***************************************************************************)
(* The write-ahead log implements a disk that changes by whole groups of   *)
(* operations, for any number of processes and blocks, any length of the   *)
(* log and a crash between any two writes of the disk.                     *)
(***************************************************************************)
EXTENDS Log, FiniteSetTheorems, TLAPS

Everyone == Proc \cup {Boot}
CommitPC == {"write", "commit", "install", "clear", "done"}
Ops == {p \in Proc : pc[p] = "op"}

\* log.outstanding is the number of operations, log.committing is set while
\* there is a commit.
Counters ==
  /\ outstanding = Cardinality(Ops)
  /\ committing <=> \E p \in Proc : pc[p] \in CommitPC

\* Recovery has the machine for itself, and no buffer but what is on disk.
BootAlone ==
  /\ pc[Boot] \in {"idle", "read", "install", "clear"}
  /\ pc[Boot] # "idle" => cache = home /\ \A p \in Proc : pc[p] = "idle"
  /\ \A p \in Proc : pc[p] # "read"

\* A block has one place in the log.
Distinct(s) == \A i, j \in 1..Len(s) : s[i] = s[j] => i = j
OnePlace == Distinct(lh) /\ Distinct(head)

\* The transaction is no longer than the log on disk.
Fitting == Len(lh) < NLOG

\* What write_log() has copied is what the operations see.
Copied(n) ==
  /\ \A i \in 1..n : i < NLOG => logged[i] \in Value
  /\ Fitting => \A i \in 1..n : logged[i] = cache[lh[i]]
Copying == \A p \in Proc :
  /\ pc[p] = "write" => tail < Len(lh) /\ Copied(tail)
  /\ pc[p] \in {"commit", "install", "clear"} => Copied(Len(lh))
  /\ pc[p] = "commit" => lh # <<>>

\* What install_trans() has copied is at home.
Installed(n) == \A i \in 1..n : home[lh[i]] = cache[lh[i]] /\ (Fitting => home[lh[i]] = logged[i])
Installing == \A p \in Everyone :
  /\ pc[p] \in {"install", "clear"} => head = lh
  /\ pc[p] = "install" => tail < Len(lh) /\ Installed(tail)
  /\ pc[p] = "clear" => Installed(Len(lh))
  /\ pc[p] \in {"commit", "read"} => tail = 0

\* The log is empty unless somebody uses it, on disk and in memory.
Cleared ==
  /\ (\A p \in Everyone : pc[p] \notin {"install", "clear", "read"}) => head = <<>>
  /\ \A p \in Proc : pc[p] = "done" => lh = <<>>
  /\ pc[Boot] = "idle" /\ Ops = {} /\ (\A p \in Proc : pc[p] \notin CommitPC) => lh = <<>>

HeadLogged == \A i \in 1..Len(head) : i < NLOG => logged[i] \in Value

StageInv == CommitAlone /\ BootAlone /\ Counters
DataInv == OnePlace /\ Copying /\ Installing /\ Cleared /\ HeadLogged /\ DirtyIsLogged

IInv == TypeOK /\ StageInv /\ DataInv

-----------------------------------------------------------------------------

LEMMA Constants ==
  /\ Boot \notin Proc /\ IsFiniteSet(Proc) /\ NoBlock \notin Value /\ NoBlock \notin Block
  /\ MAXOPBLOCKS \in Nat \ {0} /\ LOGSIZE \in Nat /\ NLOG \in Nat \ {0} /\ MAXOPBLOCKS <= LOGSIZE
  /\ \A i \in NLOG..LOGSIZE : Behind[i] \in Block
BY ConstantsAssumption

LEMMA NextCases ==
  ASSUME Next
  PROVE  \/ \E p \in Proc : BeginOp(p) \/ BeginOpSleep(p) \/ EndOp(p) \/ EndOpCommit(p) \/ CommitDone(p)
         \/ \E p \in Proc, b \in Block : LogWritePanic(p, b) \/ \E v \in Value : LogWrite(p, b, v)
         \/ \E p \in Proc : LogAppend(p)
         \/ \E p \in Proc : WriteLog(p) \/ WriteBehind(p) \/ WriteHead(p)
         \/ \E p \in Everyone : Install(p) \/ ClearHead(p)
         \/ ReadHead \/ Crash
BY DEF Next, begin_op, log_write, end_op, commit, recover_from_log, Everyone

\* What the provers need to know of a sequence of blocks.
LEMMA BlockSeq ==
  ASSUME NEW s \in Seq(Block)
  PROVE  /\ Len(s) \in Nat
         /\ \A i \in 1..Len(s) : s[i] \in Block
         /\ s = <<>> <=> Len(s) = 0
OBVIOUS

LEMMA EmptySeq == <<>> \in Seq(Block) /\ Len(<<>>) = 0
OBVIOUS

LEMMA InLog ==
  ASSUME NEW s \in Seq(Block), NEW b \in Block
  PROVE  Contains(s, b) <=> \E i \in 1..Len(s) : s[i] = b
BY DEF Contains

LEMMA EmptyLog == \A b \in Block : ~Contains(<<>>, b)
BY EmptySeq DEF Contains

LEMMA OpsFinite == IsFiniteSet(Ops) /\ Cardinality(Ops) \in Nat
<1>1. Ops \subseteq Proc
  BY DEF Ops
<1> QED
  BY <1>1, Constants, FS_Subset, FS_CardinalityType

\* What an operation has written is in the log, and is no more than it writes
\* at most, with the block whose log_write() is past its tests.
Written == \A p \in Proc :
  /\ IsFiniteSet(wrote[p]) /\ Cardinality(wrote[p]) <= OpBlocks
  /\ pc[p] = "op" => \A b \in wrote[p] : Contains(lh, b)
  /\ calling[p] # NoBlock => pc[p] = "op" /\ (calling[p] \in wrote[p] \/ Cardinality(wrote[p]) < OpBlocks)

LEMMA UnusedIs == Unused = {g \in Ops \X (1..MAXOPBLOCKS) : g[2] > Cardinality(wrote[g[1]])}
BY DEF Unused, Ops

LEMMA UnusedFinite ==
  /\ IsFiniteSet(Unused) /\ Cardinality(Unused) \in Nat
  /\ Cardinality(Unused) <= Cardinality(Ops) * MAXOPBLOCKS
<1>1. IsFiniteSet(1..MAXOPBLOCKS) /\ Cardinality(1..MAXOPBLOCKS) = MAXOPBLOCKS
  <2>1. 1 \in Int /\ MAXOPBLOCKS \in Int /\ ~(1 > MAXOPBLOCKS) /\ MAXOPBLOCKS - 1 + 1 = MAXOPBLOCKS
    BY Constants
  <2>2. IsFiniteSet(1..MAXOPBLOCKS)
    BY <2>1, FS_Interval, Zenon
  <2>3. Cardinality(1..MAXOPBLOCKS) = IF 1 > MAXOPBLOCKS THEN 0 ELSE MAXOPBLOCKS - 1 + 1
    BY <2>1, FS_Interval, Zenon
  <2> QED
    BY <2>1, <2>2, <2>3, Zenon
<1>2. IsFiniteSet(Ops \X (1..MAXOPBLOCKS)) /\ Cardinality(Ops \X (1..MAXOPBLOCKS)) = Cardinality(Ops) * MAXOPBLOCKS
  BY <1>1, OpsFinite, FS_Product, Zenon
<1>3. Unused \in SUBSET (Ops \X (1..MAXOPBLOCKS))
  BY UnusedIs
<1>4. IsFiniteSet(Unused) /\ Cardinality(Unused) <= Cardinality(Ops \X (1..MAXOPBLOCKS))
  BY <1>2, <1>3, FS_Subset, Zenon
<1>5. Cardinality(Unused) \in Nat
  BY <1>4, FS_CardinalityType
<1> QED
  BY <1>2, <1>4, <1>5, Zenon

\* What is left of the grant of one operation.
LEMMA LeftOver ==
  ASSUME NEW p \in Ops, NEW c \in Nat, c = Cardinality(wrote[p]), c <= MAXOPBLOCKS
  PROVE  MAXOPBLOCKS - c <= Cardinality(Unused)
<1>1. c + 1 \in Int /\ MAXOPBLOCKS \in Nat
  BY Constants
<1>2. CASE c = MAXOPBLOCKS
  BY <1>1, <1>2, UnusedFinite
<1>3. CASE c # MAXOPBLOCKS
  <2>1. {p} \X ((c + 1)..MAXOPBLOCKS) \in SUBSET Unused
    BY <1>1, UnusedIs
  <2>2. IsFiniteSet({p}) /\ Cardinality({p}) = 1
    BY FS_Singleton
  <2>3. ~(c + 1 > MAXOPBLOCKS) /\ MAXOPBLOCKS - (c + 1) + 1 = MAXOPBLOCKS - c /\ MAXOPBLOCKS \in Int
    BY <1>1, <1>3
  <2>4. /\ IsFiniteSet((c + 1)..MAXOPBLOCKS)
        /\ Cardinality((c + 1)..MAXOPBLOCKS) =
             IF c + 1 > MAXOPBLOCKS THEN 0 ELSE MAXOPBLOCKS - (c + 1) + 1
    BY <1>1, <2>3, FS_Interval, Zenon
  <2>5. Cardinality((c + 1)..MAXOPBLOCKS) = MAXOPBLOCKS - c
    BY <2>3, <2>4, Zenon
  <2>6. Cardinality({p} \X ((c + 1)..MAXOPBLOCKS)) = 1 * Cardinality((c + 1)..MAXOPBLOCKS)
    BY <2>2, <2>4, FS_Product, Zenon
  <2>7. Cardinality({p} \X ((c + 1)..MAXOPBLOCKS)) = MAXOPBLOCKS - c
    BY <1>1, <2>5, <2>6
  <2>8. Cardinality({p} \X ((c + 1)..MAXOPBLOCKS)) <= Cardinality(Unused)
    BY <2>1, UnusedFinite, FS_Subset, Zenon
  <2> QED
    BY <2>7, <2>8, Zenon
<1> QED
  BY <1>2, <1>3

\* The block whose log_write() is past its tests has a place in the log, or
\* there is room for it, whatever others have appended in between: it takes one
\* of the places its operation was granted.
LEMMA Room ==
  ASSUME TypeOK, Written, GrantsFit, NEW p \in Proc, calling[p] # NoBlock, ~Contains(lh, calling[p])
  PROVE  /\ Len(lh) \in Nat /\ Len(lh) < LOGSIZE
         /\ Len(lh) + 1 <= LOGSIZE - (MAXOPBLOCKS - OpBlocks)
<1>1. OpBlocks \in Nat /\ OpBlocks <= MAXOPBLOCKS /\ MAXOPBLOCKS \in Nat /\ LOGSIZE \in Nat /\ Len(lh) \in Nat
  BY ConstantsAssumption DEF TypeOK
<1>2. p \in Ops /\ calling[p] \notin wrote[p]
  BY DEF Written, Ops
<1>3. PICK c \in Nat : c = Cardinality(wrote[p]) /\ c < OpBlocks
  BY <1>2, FS_CardinalityType DEF Written
<1>4. MAXOPBLOCKS - c <= Cardinality(Unused)
  <2>1. c <= MAXOPBLOCKS
    BY <1>1, <1>3
  <2> QED
    BY <1>2, <1>3, <2>1, LeftOver
<1>5. Cardinality(Unused) \in Nat /\ Len(lh) + Cardinality(Unused) <= LOGSIZE
  BY UnusedFinite DEF GrantsFit
<1> QED
  BY <1>1, <1>3, <1>4, <1>5

-----------------------------------------------------------------------------
(* Initially, and after a crash. *)

LEMMA InitInv == Init => IInv
<1> SUFFICES ASSUME Init PROVE IInv
  OBVIOUS
<1> USE Constants DEF Init
<1>1. TypeOK
  <2>1. pc \in [Proc \cup {Boot} -> PC] /\ wrote \in [Proc -> SUBSET Block]
    BY DEF PC
  <2>2. logged \in [1..(NLOG - 1) -> Value \cup {NoBlock}] /\ tail \in 0..LOGSIZE
    OBVIOUS
  <2>5. calling \in [Proc -> Block \cup {NoBlock}]
    OBVIOUS
  <2>3. /\ home \in [Block -> Value] /\ cache \in [Block -> Value]
        /\ outstanding \in Nat /\ committing \in BOOLEAN /\ panicked \in BOOLEAN
    OBVIOUS
  <2>4. /\ head \in Seq(Block) /\ Len(head) <= LOGSIZE
        /\ lh \in Seq(Block) /\ Len(lh) <= LOGSIZE
    BY EmptySeq
  <2> QED
    BY <2>1, <2>2, <2>3, <2>4, <2>5 DEF TypeOK
<1>2. Ops = {} /\ Cardinality(Ops) = 0
  BY FS_EmptySet DEF Ops
<1>3. StageInv
  BY <1>2 DEF StageInv, CommitAlone, BootAlone, Counters, CommitPC
<1>4. Distinct(lh) /\ Distinct(head)
  BY DEF Distinct
<1>5. DataInv
  BY <1>4 DEF DataInv, OnePlace, Copying, Copied, Installing, Installed, Fitting, Cleared, HeadLogged, DirtyIsLogged, CommitPC, Everyone
<1> QED
  BY <1>1, <1>3, <1>5 DEF IInv

LEMMA CrashKeeps ==
  ASSUME IInv, Crash
  PROVE  IInv'
<1>1. /\ pc' \in [Everyone -> PC] /\ pc'[Boot] = "read"
      /\ \A p \in Proc : pc'[p] = "idle"
  BY Constants DEF Crash, IInv, TypeOK, Everyone, PC
<1>2. home' = home /\ head' = head /\ logged' = logged
  BY DEF Crash, disk
<1>3. TypeOK'
  <2>1. /\ cache' = home /\ tail' = 0 /\ outstanding' = 0
        /\ committing' = FALSE /\ panicked' = FALSE
        /\ wrote' = [p \in Proc |-> {}] /\ calling' = [p \in Proc |-> NoBlock]
    BY DEF Crash
  <2>4. /\ 0 \in 0..LOGSIZE /\ [p \in Proc |-> {}] \in [Proc -> SUBSET Block]
        /\ [p \in Proc |-> NoBlock] \in [Proc -> Block \cup {NoBlock}]
    BY Constants
  <2>2. lh' = <<>>
    BY DEF Crash
  <2>3. lh' \in Seq(Block) /\ Len(lh') <= LOGSIZE
    BY <2>2, Constants, EmptySeq
  <2> QED
    BY <2>1, <2>3, <2>4, <1>1, <1>2 DEF IInv, TypeOK, Everyone
<1>4. Ops' = {} /\ Cardinality(Ops') = 0
  BY <1>1, FS_EmptySet DEF Ops
<1>5. CommitAlone' /\ BootAlone'
  BY <1>1, <1>2 DEF Crash, CommitAlone, BootAlone
<1>6. Counters'
  BY <1>1, <1>4 DEF Crash, Counters, CommitPC
<1>7. OnePlace' /\ HeadLogged'
  BY <1>2, EmptySeq DEF Crash, IInv, DataInv, OnePlace, Distinct, HeadLogged
<1>8. Copying' /\ Installing' /\ Cleared' /\ DirtyIsLogged'
  BY <1>1, <1>2 DEF Crash, Copying, Copied, Installing, Installed, Fitting, Cleared, DirtyIsLogged, CommitPC, Everyone
<1> QED
  BY <1>3, <1>5, <1>6, <1>7, <1>8 DEF IInv, StageInv, DataInv

-----------------------------------------------------------------------------
(* begin_op(), log_write() and end_op(). *)

LEMMA BeginOpKeeps ==
  ASSUME IInv, NEW p \in Proc, BeginOp(p)
  PROVE  IInv'
<1> USE Constants DEF IInv, BeginOp, Goto, disk, Up
<1>1. /\ pc' \in [Everyone -> PC] /\ pc'[p] = "op" /\ pc[Boot] = "idle" /\ pc'[Boot] = "idle"
      /\ \A q \in Everyone \ {p} : pc'[q] = pc[q]
      /\ \A q \in Proc : pc[q] \notin CommitPC /\ pc'[q] \notin CommitPC
  BY DEF TypeOK, PC, Everyone, StageInv, Counters, CommitPC
<1>2. outstanding' = Cardinality(Ops')
  <2>1. Ops' = Ops \cup {p} /\ p \notin Ops
    BY <1>1 DEF Ops, Everyone
  <2> QED
    BY <2>1, OpsFinite, FS_AddElement DEF StageInv, Counters
<1>3. TypeOK'
  BY <1>1 DEF TypeOK, Everyone
<1>4. StageInv'
  BY <1>1, <1>2 DEF StageInv, CommitAlone, BootAlone, Counters, CommitPC
<1>5. Ops' # {}
  BY <1>1 DEF Ops
<1>6. DataInv'
  BY <1>1, <1>5 DEF DataInv, OnePlace, Distinct, Copying, Copied, Installing, Installed, Fitting, Cleared, HeadLogged, DirtyIsLogged, CommitPC, Everyone
<1> QED
  BY <1>3, <1>4, <1>6 DEF IInv

\* The process that sleeps in begin_op() counts for nothing.
LEMMA BeginOpSleepKeeps ==
  ASSUME IInv, NEW p \in Proc, BeginOpSleep(p)
  PROVE  IInv'
<1> USE Constants DEF IInv, BeginOpSleep, Goto, disk, Up
<1>1. /\ pc' \in [Everyone -> PC] /\ pc'[p] = "asleep" /\ pc[p] \in {"idle", "begin"}
      /\ pc[Boot] = "idle" /\ pc'[Boot] = "idle"
      /\ \A q \in Everyone \ {p} : pc'[q] = pc[q]
  BY DEF TypeOK, PC, Everyone
<1>2. Ops' = Ops /\ \A q \in Proc : pc'[q] \in CommitPC <=> pc[q] \in CommitPC
  BY <1>1 DEF Ops, Everyone, CommitPC
<1>3. TypeOK'
  BY <1>1 DEF TypeOK, Everyone
<1>4. StageInv'
  <2>1. CommitAlone'
    BY <1>1 DEF StageInv, CommitAlone, Everyone
  <2>2. BootAlone' /\ Counters'
    BY <1>1, <1>2 DEF StageInv, BootAlone, Counters, Everyone
  <2> QED
    BY <2>1, <2>2 DEF StageInv
<1>5. Copying' /\ Installing'
  BY <1>1 DEF DataInv, Copying, Copied, Installing, Installed, Fitting, Everyone
<1>6. Cleared'
  BY <1>1, <1>2 DEF DataInv, Cleared, Everyone
<1>7. OnePlace' /\ HeadLogged' /\ DirtyIsLogged'
  BY <1>1 DEF DataInv, OnePlace, Distinct, HeadLogged, DirtyIsLogged
<1> QED
  BY <1>3, <1>4, <1>5, <1>6, <1>7 DEF DataInv

LEMMA LogWritePanicKeeps ==
  ASSUME IInv, NEW p \in Proc, NEW b \in Block, LogWritePanic(p, b)
  PROVE  IInv'
<1>1. /\ panicked' \in BOOLEAN
      /\ UNCHANGED <<home, head, logged, cache, lh, outstanding, committing, pc, calling, wrote, tail>>
  BY DEF LogWritePanic, Logs, disk
<1>2. Ops' = Ops
  BY <1>1 DEF Ops
<1>3. TypeOK' /\ StageInv'
  BY <1>1, <1>2 DEF IInv, TypeOK, StageInv, CommitAlone, BootAlone, Counters
<1>4. DataInv'
  BY <1>1, <1>2 DEF IInv, DataInv, OnePlace, Distinct, Copying, Copied, Installing, Installed, Fitting, Cleared, HeadLogged, DirtyIsLogged
<1> QED
  BY <1>3, <1>4 DEF IInv

\* log_write() finds nobody in a commit, and the log on disk empty.
LEMMA OpAlone ==
  ASSUME IInv, NEW p \in Proc, Up, pc[p] = "op"
  PROVE  /\ pc[Boot] = "idle" /\ p \in Ops
         /\ \A q \in Proc : pc[q] \in {"idle", "begin", "asleep", "op"}
         /\ head = <<>>
<1>1. pc[Boot] = "idle" /\ p \in Ops
  BY DEF Up, Ops
<1>2. ASSUME NEW q \in Proc
      PROVE  pc[q] \in {"idle", "begin", "asleep", "op"}
  <2>1. pc[q] \in PC /\ pc[q] # "read"
    BY DEF IInv, TypeOK, StageInv, BootAlone
  <2>2. pc[q] \notin CommitPC
    BY DEF IInv, StageInv, CommitAlone, CommitPC
  <2> QED
    BY <2>1, <2>2 DEF PC, CommitPC
<1>3. head = <<>>
  BY <1>1, <1>2 DEF IInv, DataInv, Cleared, Everyone
<1> QED
  BY <1>1, <1>2, <1>3

\* A block that has no place in the log gets one at its end.
LEMMA Absorb ==
  ASSUME NEW s \in Seq(Block), NEW b \in Block, Distinct(s),
         Len(s) <= LOGSIZE, ~Contains(s, b) => Len(s) < LOGSIZE,
         NEW t, t = IF Contains(s, b) THEN s ELSE Append(s, b)
  PROVE  /\ t \in Seq(Block) /\ Len(t) <= LOGSIZE /\ Distinct(t)
         /\ Contains(t, b)
         /\ \A c \in Block : Contains(s, c) => Contains(t, c)
<1> USE Constants
<1>1. CASE Contains(s, b)
  <2>1. t = s /\ Len(s) <= LOGSIZE
    BY <1>1
  <2> QED
    BY <1>1, <2>1
<1>2. CASE ~Contains(s, b)
  <2>1. t = Append(s, b) /\ t \in Seq(Block) /\ Len(t) = Len(s) + 1 /\ Len(s) \in Nat
    BY <1>2
  <2>2. t[Len(s) + 1] = b /\ \A i \in 1..Len(s) : t[i] = s[i]
    BY <2>1
  <2>3. \A i \in 1..Len(s) : s[i] # b
    BY <1>2, InLog
  <2>4. Distinct(t)
    BY <2>1, <2>2, <2>3 DEF Distinct
  <2>5. Contains(t, b)
    <3>1. Len(s) + 1 \in 1..Len(t)
      BY <2>1
    <3> QED
      BY <2>1, <2>2, <3>1, InLog
  <2>6. ASSUME NEW c \in Block, Contains(s, c) PROVE Contains(t, c)
    <3>1. PICK i \in 1..Len(s) : s[i] = c
      BY <2>6, InLog
    <3>2. i \in 1..Len(t) /\ t[i] = c
      BY <2>1, <2>2, <3>1
    <3> QED
      BY <2>1, <3>2, InLog
  <2> QED
    BY <2>1, <2>4, <2>5, <2>6
<1> QED
  BY <1>1, <1>2

LEMMA LogWriteKeeps ==
  ASSUME IInv, NEW p \in Proc, NEW b \in Block, NEW v \in Value, LogWrite(p, b, v)
  PROVE  IInv'
<1>1. /\ UNCHANGED <<home, head, logged, lh, outstanding, committing, pc, wrote, tail, panicked>>
      /\ cache' = [cache EXCEPT ![b] = v]
      /\ calling' = [calling EXCEPT ![p] = b]
      /\ Up /\ pc[p] = "op" /\ calling[p] = NoBlock
  BY DEF LogWrite, Logs, disk
<1>2. /\ pc[Boot] = "idle" /\ p \in Ops /\ Ops' = Ops
      /\ \A q \in Proc : pc[q] \in {"idle", "begin", "asleep", "op"}
      /\ head = <<>>
  BY <1>1, OpAlone DEF Ops
<1>3. TypeOK'
  <2>1. cache' \in [Block -> Value] /\ calling' \in [Proc -> Block \cup {NoBlock}]
    BY <1>1 DEF IInv, TypeOK
  <2> QED
    BY <1>1, <2>1 DEF IInv, TypeOK
<1>4. StageInv'
  BY <1>1, <1>2 DEF IInv, StageInv, CommitAlone, BootAlone, Counters
<1>5. OnePlace' /\ HeadLogged'
  BY <1>1 DEF IInv, DataInv, OnePlace, Distinct, HeadLogged
<1>6. Copying' /\ Installing'
  BY <1>1, <1>2 DEF Copying, Installing, Everyone
<1>7. Cleared'
  BY <1>1, <1>2 DEF IInv, DataInv, Cleared, Everyone
<1>8. DirtyIsLogged'
  <2> SUFFICES ASSUME NEW c \in Block, cache'[c] # home'[c]
               PROVE  Contains(lh', c) \/ \E q \in Proc : calling'[q] = c
    BY DEF DirtyIsLogged
  <2>1. CASE c = b
    BY <1>1, <2>1 DEF IInv, TypeOK
  <2>2. CASE c # b
    <3>1. cache[c] # home[c]
      BY <1>1, <2>2 DEF IInv, TypeOK
    <3>2. Contains(lh, c) \/ \E q \in Proc : calling[q] = c
      BY <1>2, <3>1 DEF IInv, DataInv, DirtyIsLogged
    <3>3. \A q \in Proc : calling[q] = c => calling'[q] = c
      BY <1>1, Constants DEF IInv, TypeOK
    <3> QED
      BY <1>1, <3>2, <3>3
  <2> QED
    BY <2>1, <2>2
<1> QED
  BY <1>3, <1>4, <1>5, <1>6, <1>7, <1>8 DEF IInv, DataInv

LEMMA LogAppendKeeps ==
  ASSUME IInv, Written, GrantsFit, NEW p \in Proc, LogAppend(p)
  PROVE  IInv'
<1> DEFINE b == calling[p]
<1>1. /\ UNCHANGED <<home, head, logged, cache, outstanding, committing, pc, tail, panicked>>
      /\ wrote' = [wrote EXCEPT ![p] = wrote[p] \cup {b}]
      /\ calling' = [calling EXCEPT ![p] = NoBlock]
      /\ lh' = IF Contains(lh, b) THEN lh ELSE Append(lh, b)
      /\ Up /\ b # NoBlock
  BY DEF LogAppend, disk
<1>2. pc[p] = "op" /\ b \in Block
  BY <1>1 DEF Written, IInv, TypeOK
<1>3. /\ pc[Boot] = "idle" /\ p \in Ops /\ Ops' = Ops
      /\ \A q \in Proc : pc[q] \in {"idle", "begin", "asleep", "op"}
      /\ head = <<>>
  BY <1>1, <1>2, OpAlone DEF Ops
<1>4. /\ lh' \in Seq(Block) /\ Len(lh') <= LOGSIZE /\ Distinct(lh')
      /\ Contains(lh', b) /\ \A c \in Block : Contains(lh, c) => Contains(lh', c)
  <2>1. lh \in Seq(Block) /\ Distinct(lh) /\ Len(lh) <= LOGSIZE
    BY DEF IInv, TypeOK, DataInv, OnePlace
  <2>2. ~Contains(lh, b) => Len(lh) < LOGSIZE
    BY <1>1, Room DEF IInv
  <2> QED
    BY <1>1, <1>2, <2>1, <2>2, Absorb
<1>5. TypeOK'
  <2>1. calling' \in [Proc -> Block \cup {NoBlock}] /\ wrote' \in [Proc -> SUBSET Block]
    BY <1>1, <1>2 DEF IInv, TypeOK
  <2> QED
    BY <1>1, <1>4, <2>1 DEF IInv, TypeOK
<1>6. StageInv'
  BY <1>1, <1>3 DEF IInv, StageInv, CommitAlone, BootAlone, Counters
<1>7. OnePlace' /\ HeadLogged'
  BY <1>1, <1>4 DEF IInv, DataInv, OnePlace, Distinct, HeadLogged
<1>8. Copying' /\ Installing' /\ Cleared'
  BY <1>1, <1>3 DEF IInv, DataInv, Copying, Installing, Cleared, Everyone
<1>9. DirtyIsLogged'
  <2> SUFFICES ASSUME NEW c \in Block, cache'[c] # home'[c]
               PROVE  Contains(lh', c) \/ \E q \in Proc : calling'[q] = c
    BY DEF DirtyIsLogged
  <2>1. Contains(lh, c) \/ \E q \in Proc : calling[q] = c
    BY <1>1, <1>3 DEF IInv, DataInv, DirtyIsLogged
  <2>2. \A q \in Proc : q # p => calling'[q] = calling[q]
    BY <1>1 DEF IInv, TypeOK
  <2> QED
    BY <1>4, <2>1, <2>2
<1> QED
  BY <1>5, <1>6, <1>7, <1>8, <1>9 DEF IInv, DataInv

\* wakeup(&log) sends the sleepers of begin_op() round their loop, and no
\* process but p gets any further.
LEMMA WakeUp ==
  ASSUME TypeOK, NEW p \in Proc, NEW to \in PC, WakeAndGoto(p, to)
  PROVE  /\ pc' \in [Everyone -> PC] /\ pc'[p] = to
         /\ \A q \in Everyone \ {p} :
              pc'[q] = pc[q] \/ (pc[q] = "asleep" /\ pc'[q] = "begin")
<1>1. DOMAIN pc = Everyone /\ p \in Everyone /\ \A q \in Everyone : pc[q] \in PC
  BY DEF TypeOK, Everyone
<1>2. pc' = [q \in Everyone |-> IF q = p THEN to ELSE IF pc[q] = "asleep" THEN "begin" ELSE pc[q]]
  BY <1>1 DEF WakeAndGoto
<1>3. \A q \in Everyone : pc'[q] \in PC
  BY <1>1, <1>2 DEF PC
<1> QED
  BY <1>1, <1>2, <1>3

LEMMA EndOpKeeps ==
  ASSUME IInv, NEW p \in Proc, EndOp(p)
  PROVE  IInv'
<1>1. /\ UNCHANGED <<home, head, logged, cache, lh, committing, calling, wrote, tail, panicked>>
      /\ outstanding' = outstanding - 1 /\ outstanding > 1
      /\ Up /\ pc[p] = "op" /\ WakeAndGoto(p, "idle")
  BY DEF EndOp, disk
<1>2. /\ pc[Boot] = "idle" /\ p \in Ops /\ head = <<>>
      /\ \A q \in Proc : pc[q] \in {"idle", "begin", "asleep", "op"}
  BY <1>1, OpAlone
<1>3. /\ pc' \in [Everyone -> PC] /\ pc'[p] = "idle"
      /\ \A q \in Everyone \ {p} :
           pc'[q] = pc[q] \/ (pc[q] = "asleep" /\ pc'[q] = "begin")
  BY <1>1, WakeUp DEF IInv, PC
<1>4. pc'[Boot] = "idle" /\ \A q \in Proc : pc'[q] \in {"idle", "begin", "asleep", "op"}
  BY <1>2, <1>3, Constants DEF Everyone
<1>5. Ops' = Ops \ {p}
  BY <1>1, <1>3 DEF Ops, Everyone
<1>6. outstanding' = Cardinality(Ops') /\ outstanding' \in Nat /\ Ops' # {}
  <2>1. outstanding = Cardinality(Ops) /\ outstanding \in Nat
    BY DEF IInv, TypeOK, StageInv, Counters
  <2>2. Cardinality(Ops') = outstanding - 1
    BY <1>2, <1>5, <2>1, OpsFinite, FS_RemoveElement
  <2>3. Ops' # {}
    BY <1>1, <2>1, <2>2, FS_EmptySet
  <2> QED
    BY <1>1, <2>1, <2>2, <2>3
<1>7. TypeOK'
  BY <1>1, <1>3, <1>6 DEF IInv, TypeOK, Everyone
<1>8. StageInv'
  BY <1>1, <1>2, <1>4, <1>6 DEF IInv, StageInv, CommitAlone, BootAlone, Counters, CommitPC
<1>9. DataInv'
  <2>1. OnePlace' /\ HeadLogged' /\ DirtyIsLogged'
    BY <1>1, <1>2 DEF IInv, DataInv, OnePlace, Distinct, HeadLogged, DirtyIsLogged
  <2>2. Copying' /\ Installing' /\ Cleared'
    BY <1>1, <1>2, <1>4, <1>6 DEF Copying, Copied, Installing, Installed, Fitting, Cleared, Everyone
  <2> QED
    BY <2>1, <2>2 DEF DataInv
<1> QED
  BY <1>7, <1>8, <1>9 DEF IInv

LEMMA EndOpCommitKeeps ==
  ASSUME IInv, NEW p \in Proc, EndOpCommit(p)
  PROVE  IInv'
<1>1. /\ UNCHANGED <<home, head, logged, cache, lh, calling, wrote, panicked>>
      /\ outstanding' = 0 /\ outstanding = 1 /\ committing' = TRUE /\ tail' = 0
      /\ Up /\ pc[p] = "op" /\ Goto(p, IF lh = <<>> THEN "done" ELSE "write")
  BY DEF EndOpCommit, disk
<1>2. /\ pc[Boot] = "idle" /\ p \in Ops /\ head = <<>>
      /\ \A q \in Proc : pc[q] \in {"idle", "begin", "asleep", "op"}
  BY <1>1, OpAlone
<1>3. /\ pc' \in [Everyone -> PC] /\ pc'[p] = IF lh = <<>> THEN "done" ELSE "write"
      /\ \A q \in Everyone \ {p} : pc'[q] = pc[q]
  BY <1>1 DEF IInv, TypeOK, Goto, PC, Everyone
<1>4. Ops' = {} /\ Cardinality(Ops') = 0 /\ \A q \in Proc \ {p} : pc[q] # "op"
  <2>1. Ops' = Ops \ {p}
    BY <1>1, <1>3 DEF Ops, Everyone
  <2>2. Cardinality(Ops') = 0 /\ IsFiniteSet(Ops')
    <3>1. Cardinality(Ops) = 1
      BY <1>1 DEF IInv, StageInv, Counters
    <3> QED
      BY <1>2, <2>1, <3>1, OpsFinite, FS_RemoveElement
  <2>3. Ops' = {}
    BY <2>2, FS_EmptySet
  <2> QED
    BY <2>1, <2>2, <2>3 DEF Ops
<1>5. pc'[Boot] = "idle" /\ \A q \in Proc \ {p} : pc'[q] \in {"idle", "begin", "asleep"}
  BY <1>2, <1>3, <1>4, Constants DEF Everyone
<1>6. pc'[p] \in {"write", "done"} /\ (pc'[p] = "write" => lh # <<>>) /\ (pc'[p] = "done" => lh = <<>>)
  BY <1>3
<1>7. TypeOK'
  BY <1>1, <1>3, Constants DEF IInv, TypeOK, Everyone
<1>8. StageInv'
  <2>1. CommitAlone'
    BY <1>5, <1>6 DEF CommitAlone
  <2>2. BootAlone'
    BY <1>5, <1>6 DEF BootAlone
  <2>3. Counters'
    BY <1>1, <1>4, <1>6 DEF Counters, CommitPC
  <2> QED
    BY <2>1, <2>2, <2>3 DEF StageInv
<1>9. DataInv'
  <2>1. OnePlace' /\ HeadLogged' /\ DirtyIsLogged'
    BY <1>1, <1>2 DEF IInv, DataInv, OnePlace, Distinct, HeadLogged, DirtyIsLogged
  <2>2. Copying'
    <3>1. lh # <<>> => tail' < Len(lh')
      BY <1>1, BlockSeq DEF IInv, TypeOK
    <3> QED
      BY <1>1, <1>5, <1>6, <3>1 DEF Copying, Copied, Fitting
  <2>3. Installing'
    BY <1>1, <1>5, <1>6 DEF Installing, Installed, Fitting, Everyone
  <2>4. Cleared'
    BY <1>1, <1>2, <1>5, <1>6 DEF Cleared, CommitPC
  <2> QED
    BY <2>1, <2>2, <2>3, <2>4 DEF DataInv
<1> QED
  BY <1>7, <1>8, <1>9 DEF IInv

\* Nobody but the committer and those who wait for it, when a commit goes on.
LEMMA CommitterAlone ==
  ASSUME IInv, NEW p \in Proc, pc[p] \in CommitPC
  PROVE  /\ pc[Boot] = "idle" /\ Ops = {}
         /\ \A q \in Proc \ {p} : pc[q] \in {"idle", "begin", "asleep"}
<1>1. \A q \in Proc \ {p} : pc[q] \in {"idle", "begin", "asleep"}
  BY DEF IInv, StageInv, CommitAlone, CommitPC
<1>2. pc[Boot] = "idle"
  BY DEF IInv, StageInv, BootAlone, CommitPC
<1> QED
  BY <1>1, <1>2 DEF Ops, CommitPC

LEMMA CommitDoneKeeps ==
  ASSUME IInv, NEW p \in Proc, CommitDone(p)
  PROVE  IInv'
<1>1. /\ UNCHANGED <<home, head, logged, cache, lh, outstanding, calling, wrote, tail, panicked>>
      /\ committing' = FALSE /\ pc[p] = "done" /\ WakeAndGoto(p, "idle")
  BY DEF CommitDone, disk
<1>2. /\ pc[Boot] = "idle" /\ Ops = {} /\ lh = <<>> /\ head = <<>>
      /\ \A q \in Proc \ {p} : pc[q] \in {"idle", "begin", "asleep"}
  <2>1. pc[Boot] = "idle" /\ Ops = {} /\ \A q \in Proc \ {p} : pc[q] \in {"idle", "begin", "asleep"}
    BY <1>1, CommitterAlone DEF CommitPC
  <2>2. lh = <<>> /\ head = <<>>
    BY <1>1, <2>1 DEF IInv, DataInv, Cleared, Everyone
  <2> QED
    BY <2>1, <2>2
<1>3. /\ pc' \in [Everyone -> PC] /\ pc'[p] = "idle"
      /\ \A q \in Everyone \ {p} :
           pc'[q] = pc[q] \/ (pc[q] = "asleep" /\ pc'[q] = "begin")
  BY <1>1, WakeUp DEF IInv, PC
<1>4. pc'[Boot] = "idle" /\ \A q \in Proc : pc'[q] \in {"idle", "begin", "asleep"}
  BY <1>2, <1>3, Constants DEF Everyone
<1>5. Ops' = Ops
  BY <1>2, <1>4 DEF Ops
<1>6. TypeOK'
  BY <1>1, <1>3 DEF IInv, TypeOK, Everyone
<1>7. StageInv'
  BY <1>1, <1>4, <1>5 DEF IInv, StageInv, CommitAlone, BootAlone, Counters, CommitPC
<1>8. DataInv'
  <2>1. OnePlace' /\ HeadLogged' /\ DirtyIsLogged'
    BY <1>1, <1>2 DEF IInv, DataInv, OnePlace, Distinct, HeadLogged, DirtyIsLogged
  <2>2. Copying' /\ Installing' /\ Cleared'
    BY <1>1, <1>2, <1>4 DEF Copying, Copied, Installing, Installed, Fitting, Cleared, Everyone
  <2> QED
    BY <2>1, <2>2 DEF DataInv
<1> QED
  BY <1>6, <1>7, <1>8 DEF IInv

-----------------------------------------------------------------------------
(* commit() and recovery. *)

LEMMA GotoType ==
  ASSUME TypeOK, NEW p \in Everyone, NEW to \in PC, Goto(p, to)
  PROVE  /\ pc' \in [Everyone -> PC] /\ pc'[p] = to
         /\ \A q \in Everyone \ {p} : pc'[q] = pc[q]
BY DEF TypeOK, Goto, Everyone

\* Up to the header the log on disk is empty; what follows is the committer's.
LEMMA BeforeCommit ==
  ASSUME IInv, NEW p \in Proc, pc[p] \in {"write", "commit"}
  PROVE  head = <<>>
<1>1. /\ pc[Boot] = "idle"
      /\ \A q \in Proc \ {p} : pc[q] \in {"idle", "begin", "asleep"}
  BY CommitterAlone DEF CommitPC
<1> QED
  BY <1>1 DEF IInv, DataInv, Cleared, Everyone

LEMMA WriteLogKeeps ==
  ASSUME IInv, NEW p \in Proc, WriteLog(p)
  PROVE  IInv'
<1>1. /\ UNCHANGED <<home, head, cache, lh, outstanding, committing, calling, wrote, panicked>>
      /\ pc[p] = "write" /\ tail + 1 < NLOG /\ logged' = [logged EXCEPT ![tail + 1] = cache[lh[tail + 1]]]
      /\ \/ tail + 1 < Len(lh) /\ tail' = tail + 1 /\ pc' = pc
         \/ ~(tail + 1 < Len(lh)) /\ tail' = 0 /\ Goto(p, "commit")
  BY DEF WriteLog, NextBlock
<1>2. /\ pc[Boot] = "idle" /\ Ops = {} /\ head = <<>>
      /\ \A q \in Proc \ {p} : pc[q] \in {"idle", "begin", "asleep"}
  BY <1>1, CommitterAlone, BeforeCommit DEF CommitPC
<1>3. /\ tail \in Nat /\ tail + 1 \in 1..Len(lh) /\ Len(lh) \in Nat /\ Len(lh) <= LOGSIZE
      /\ lh[tail + 1] \in Block /\ tail + 1 \in 1..(NLOG - 1) /\ LOGSIZE \in Nat
      /\ cache[lh[tail + 1]] \in Value /\ Copied(tail)
  <2>1. tail \in Nat /\ tail < Len(lh) /\ Copied(tail)
    BY <1>1 DEF IInv, TypeOK, DataInv, Copying
  <2>2. lh \in Seq(Block) /\ Len(lh) <= LOGSIZE /\ Len(lh) \in Nat
    BY BlockSeq DEF IInv, TypeOK
  <2>3. lh[tail + 1] \in Block /\ tail + 1 \in 1..Len(lh)
    BY <2>1, <2>2, BlockSeq
  <2>4. cache[lh[tail + 1]] \in Value
    BY <2>3 DEF IInv, TypeOK
  <2>5. tail + 1 \in 1..(NLOG - 1)
    BY <1>1, <2>1, Constants
  <2> QED
    BY <2>1, <2>2, <2>3, <2>4, <2>5, Constants
<1>4. /\ pc' \in [Everyone -> PC] /\ pc'[p] \in {"write", "commit"}
      /\ \A q \in Everyone \ {p} : pc'[q] = pc[q]
  <2>1. CASE pc' = pc
    BY <2>1, <1>1 DEF IInv, TypeOK, Everyone
  <2>2. CASE Goto(p, "commit")
    BY <2>2, GotoType DEF IInv, Everyone, PC
  <2> QED
    BY <1>1, <2>1, <2>2
<1>5. pc'[Boot] = "idle" /\ Ops' = Ops /\ \A q \in Proc \ {p} : pc'[q] \in {"idle", "begin", "asleep"}
  <2>1. pc'[Boot] = "idle" /\ \A q \in Proc \ {p} : pc'[q] \in {"idle", "begin", "asleep"}
    BY <1>2, <1>4, Constants DEF Everyone
  <2> QED
    BY <2>1, <1>2, <1>4 DEF Ops
<1>6. /\ logged' \in [1..(NLOG - 1) -> Value \cup {NoBlock}]
      /\ \A i \in 1..(tail + 1) : (i < NLOG => logged'[i] \in Value) /\ (Fitting => logged'[i] = cache[lh[i]])
  <2>1. logged \in [1..(NLOG - 1) -> Value \cup {NoBlock}]
    BY DEF IInv, TypeOK
  <2>2. /\ logged' \in [1..(NLOG - 1) -> Value \cup {NoBlock}]
        /\ logged'[tail + 1] = cache[lh[tail + 1]]
        /\ \A i \in 1..tail : logged'[i] = logged[i]
    BY <1>1, <1>3, <2>1
  <2>3. \A i \in 1..(tail + 1) : i \in 1..tail \/ i = tail + 1
    BY <1>3
  <2> QED
    BY <1>1, <1>3, <2>2, <2>3 DEF Copied, Fitting
<1>7. TypeOK'
  <2>1. tail' \in 0..LOGSIZE
    BY <1>1, <1>3
  <2> QED
    BY <1>1, <1>4, <1>6, <2>1 DEF IInv, TypeOK, Everyone
<1>8. StageInv'
  <2>1. CommitAlone'
    BY <1>5, <1>4 DEF CommitAlone
  <2>2. BootAlone'
    BY <1>5, <1>4 DEF BootAlone
  <2>3. Counters'
    BY <1>1, <1>4, <1>5 DEF IInv, StageInv, Counters, CommitPC
  <2> QED
    BY <2>1, <2>2, <2>3 DEF StageInv
<1>9. DataInv'
  <2>1. OnePlace' /\ HeadLogged' /\ DirtyIsLogged'
    BY <1>1, <1>2, EmptySeq DEF IInv, DataInv, OnePlace, Distinct, HeadLogged, DirtyIsLogged
  <2>2. Copying'
    <3>1. CASE tail + 1 < Len(lh) /\ tail' = tail + 1 /\ pc' = pc
      BY <3>1, <1>1, <1>5, <1>6 DEF Copying, Copied, Fitting
    <3>2. CASE ~(tail + 1 < Len(lh)) /\ tail' = 0 /\ Goto(p, "commit")
      <4>1. pc'[p] = "commit"
        BY <3>2, GotoType DEF IInv, Everyone, PC
      <4>2. Len(lh) = tail + 1 /\ lh # <<>>
        BY <3>2, <1>3, EmptySeq
      <4> QED
        BY <4>1, <4>2, <1>1, <1>5, <1>6 DEF Copying, Copied, Fitting
    <3> QED
      BY <1>1, <3>1, <3>2
  <2>3. Installing'
    <3>1. pc'[p] = "commit" => tail' = 0
      BY <1>1, GotoType DEF IInv, Everyone, PC
    <3> QED
      BY <1>4, <1>5, <3>1 DEF Installing, Installed, Fitting, Everyone
  <2>4. Cleared'
    BY <1>1, <1>2, <1>4, <1>5 DEF Cleared, CommitPC
  <2> QED
    BY <2>1, <2>2, <2>3, <2>4 DEF DataInv
<1> QED
  BY <1>7, <1>8, <1>9 DEF IInv

\* The block behind the log has been written over, its buffer as the block on
\* disk.
LEMMA WriteBehindKeeps ==
  ASSUME IInv, NEW p \in Proc, WriteBehind(p)
  PROVE  IInv'
<1> DEFINE b == Behind[tail + 1]
           v == cache[lh[tail + 1]]
<1>1. /\ UNCHANGED <<head, logged, lh, outstanding, committing, calling, wrote, panicked>>
      /\ pc[p] = "write" /\ tail + 1 >= NLOG
      /\ cache' = [cache EXCEPT ![b] = v] /\ home' = [home EXCEPT ![b] = v]
      /\ \/ tail + 1 < Len(lh) /\ tail' = tail + 1 /\ pc' = pc
         \/ ~(tail + 1 < Len(lh)) /\ tail' = 0 /\ Goto(p, "commit")
  BY DEF WriteBehind, NextBlock
<1>2. /\ pc[Boot] = "idle" /\ Ops = {} /\ head = <<>>
      /\ \A q \in Proc \ {p} : pc[q] \in {"idle", "begin", "asleep"}
  BY <1>1, CommitterAlone, BeforeCommit DEF CommitPC
<1>3. /\ tail \in Nat /\ tail + 1 \in 1..Len(lh) /\ Len(lh) \in Nat /\ Len(lh) <= LOGSIZE
      /\ b \in Block /\ v \in Value /\ ~Fitting /\ LOGSIZE \in Nat
      /\ \A i \in 1..tail : i < NLOG => logged[i] \in Value
  <2>1. tail \in Nat /\ tail < Len(lh) /\ \A i \in 1..tail : i < NLOG => logged[i] \in Value
    BY <1>1 DEF IInv, TypeOK, DataInv, Copying, Copied
  <2>2. lh \in Seq(Block) /\ Len(lh) <= LOGSIZE /\ Len(lh) \in Nat
    BY BlockSeq DEF IInv, TypeOK
  <2>3. lh[tail + 1] \in Block /\ tail + 1 \in 1..Len(lh)
    BY <2>1, <2>2, BlockSeq
  <2>4. v \in Value
    BY <2>3 DEF IInv, TypeOK
  <2>5. tail + 1 \in NLOG..LOGSIZE /\ ~(Len(lh) < NLOG)
    BY <1>1, <2>1, <2>2, Constants
  <2> QED
    BY <2>1, <2>2, <2>3, <2>4, <2>5, Constants DEF Fitting
<1>4. /\ pc' \in [Everyone -> PC] /\ pc'[p] \in {"write", "commit"}
      /\ \A q \in Everyone \ {p} : pc'[q] = pc[q]
  <2>1. CASE pc' = pc
    BY <2>1, <1>1 DEF IInv, TypeOK, Everyone
  <2>2. CASE Goto(p, "commit")
    BY <2>2, GotoType DEF IInv, Everyone, PC
  <2> QED
    BY <1>1, <2>1, <2>2
<1>5. pc'[Boot] = "idle" /\ Ops' = Ops /\ \A q \in Proc \ {p} : pc'[q] \in {"idle", "begin", "asleep"}
  <2>1. pc'[Boot] = "idle" /\ \A q \in Proc \ {p} : pc'[q] \in {"idle", "begin", "asleep"}
    BY <1>2, <1>4, Constants DEF Everyone
  <2> QED
    BY <2>1, <1>2, <1>4 DEF Ops
<1>6. /\ home' \in [Block -> Value] /\ cache' \in [Block -> Value]
      /\ home'[b] = v /\ cache'[b] = v
      /\ \A c \in Block \ {b} : home'[c] = home[c] /\ cache'[c] = cache[c]
      /\ \A i \in 1..(tail + 1) : i < NLOG => logged[i] \in Value
  <2>1. \A i \in 1..(tail + 1) : i < NLOG => i \in 1..tail
    BY <1>1, <1>3, Constants
  <2> QED
    BY <1>1, <1>3, <2>1 DEF IInv, TypeOK
<1>7. TypeOK'
  <2>1. tail' \in 0..LOGSIZE
    BY <1>1, <1>3
  <2> QED
    BY <1>1, <1>4, <1>6, <2>1 DEF IInv, TypeOK, Everyone
<1>8. StageInv'
  <2>1. CommitAlone'
    BY <1>5, <1>4 DEF CommitAlone
  <2>2. BootAlone'
    BY <1>5, <1>4 DEF BootAlone
  <2>3. Counters'
    BY <1>1, <1>4, <1>5 DEF IInv, StageInv, Counters, CommitPC
  <2> QED
    BY <2>1, <2>2, <2>3 DEF StageInv
<1>9. DataInv'
  <2>1. OnePlace' /\ HeadLogged' /\ DirtyIsLogged'
    <3>1. OnePlace' /\ HeadLogged'
      BY <1>1, <1>2, EmptySeq DEF IInv, DataInv, OnePlace, Distinct, HeadLogged
    <3>2. DirtyIsLogged'
      BY <1>1, <1>2, <1>6 DEF IInv, DataInv, DirtyIsLogged
    <3> QED
      BY <3>1, <3>2
  <2>2. Copying'
    <3>0. ~Fitting' /\ lh' = lh /\ logged' = logged
      BY <1>1, <1>3 DEF Fitting
    <3>1. CASE tail + 1 < Len(lh) /\ tail' = tail + 1 /\ pc' = pc
      <4>1. Copied(tail)'
        BY <3>0, <3>1, <1>6 DEF Copied
      <4> QED
        BY <4>1, <3>0, <3>1, <1>1, <1>5 DEF Copying
    <3>2. CASE ~(tail + 1 < Len(lh)) /\ tail' = 0 /\ Goto(p, "commit")
      <4>1. pc'[p] = "commit"
        BY <3>2, GotoType DEF IInv, Everyone, PC
      <4>2. Len(lh) = tail + 1 /\ lh # <<>>
        BY <3>2, <1>3, EmptySeq
      <4>3. Copied(Len(lh))'
        BY <4>2, <3>0, <1>6 DEF Copied
      <4> QED
        BY <4>1, <4>2, <4>3, <3>0, <1>5 DEF Copying
    <3> QED
      BY <1>1, <3>1, <3>2
  <2>3. Installing'
    <3>1. pc'[p] = "commit" => tail' = 0
      BY <1>1, GotoType DEF IInv, Everyone, PC
    <3> QED
      BY <1>4, <1>5, <3>1 DEF Installing, Installed, Fitting, Everyone
  <2>4. Cleared'
    BY <1>1, <1>2, <1>4, <1>5 DEF Cleared, CommitPC
  <2> QED
    BY <2>1, <2>2, <2>3, <2>4 DEF DataInv
<1> QED
  BY <1>7, <1>8, <1>9 DEF IInv

LEMMA WriteHeadKeeps ==
  ASSUME IInv, NEW p \in Proc, WriteHead(p)
  PROVE  IInv'
<1>1. /\ UNCHANGED <<home, logged, cache, lh, outstanding, committing, calling, wrote, tail, panicked>>
      /\ pc[p] = "commit" /\ head' = lh /\ Goto(p, "install")
  BY DEF WriteHead
<1>2. /\ pc[Boot] = "idle" /\ Ops = {}
      /\ \A q \in Proc \ {p} : pc[q] \in {"idle", "begin", "asleep"}
  BY <1>1, CommitterAlone DEF CommitPC
<1>3. /\ pc' \in [Everyone -> PC] /\ pc'[p] = "install"
      /\ \A q \in Everyone \ {p} : pc'[q] = pc[q]
  BY <1>1, GotoType DEF IInv, Everyone, PC
<1>4. /\ pc'[Boot] = "idle" /\ Ops' = Ops
      /\ \A q \in Proc \ {p} : pc'[q] \in {"idle", "begin", "asleep"}
  <2>1. pc'[Boot] = "idle" /\ \A q \in Proc \ {p} : pc'[q] \in {"idle", "begin", "asleep"}
    BY <1>2, <1>3, Constants DEF Everyone
  <2> QED
    BY <2>1, <1>2, <1>3 DEF Ops
<1>5. /\ lh # <<>> /\ tail = 0 /\ Copied(Len(lh))
      /\ tail < Len(lh)
  <2>1. lh # <<>> /\ tail = 0 /\ Copied(Len(lh))
    BY <1>1 DEF IInv, DataInv, Copying, Copied, Installing, Installed, Fitting, Everyone
  <2> QED
    BY <2>1, BlockSeq DEF IInv, TypeOK
<1>6. TypeOK'
  BY <1>1, <1>3 DEF IInv, TypeOK, Everyone
<1>7. StageInv'
  <2>1. CommitAlone' /\ BootAlone'
    BY <1>3, <1>4 DEF CommitAlone, BootAlone
  <2>2. Counters'
    BY <1>1, <1>3, <1>4 DEF IInv, StageInv, Counters, CommitPC
  <2> QED
    BY <2>1, <2>2 DEF StageInv
<1>8. DataInv'
  <2>1. OnePlace' /\ DirtyIsLogged'
    BY <1>1, <1>2 DEF IInv, DataInv, OnePlace, Distinct, DirtyIsLogged
  <2>2. HeadLogged'
    BY <1>1, <1>5 DEF HeadLogged, Copied
  <2>3. Copying'
    BY <1>1, <1>3, <1>4, <1>5 DEF Copying, Copied, Fitting
  <2>4. Installing'
    BY <1>1, <1>3, <1>4, <1>5 DEF Installing, Installed, Fitting, Everyone
  <2>5. Cleared'
    BY <1>3, <1>4 DEF Cleared, CommitPC, Everyone
  <2> QED
    BY <2>1, <2>2, <2>3, <2>4, <2>5 DEF DataInv
<1> QED
  BY <1>6, <1>7, <1>8 DEF IInv

\* Whoever installs, a committer or recovery, is alone too, and the log on
\* disk is what the log in memory says.
LEMMA InstallerAlone ==
  ASSUME IInv, NEW p \in Everyone, pc[p] \in {"install", "clear"}
  PROVE  /\ Ops = {} /\ head = lh
         /\ \A q \in Everyone \ {p} : pc[q] \in {"idle", "begin", "asleep"}
<1>1. head = lh
  BY DEF IInv, DataInv, Installing, Installed, Fitting
<1>2. CASE p \in Proc
  BY <1>1, <1>2, CommitterAlone DEF CommitPC, Everyone
<1>3. CASE p = Boot
  BY <1>1, <1>3 DEF IInv, StageInv, BootAlone, Everyone, Ops
<1> QED
  BY <1>2, <1>3 DEF Everyone

LEMMA InstallKeeps ==
  ASSUME IInv, NEW p \in Everyone, Install(p)
  PROVE  IInv'
<1> DEFINE b == lh[tail + 1]
           v == LogBlock(tail + 1)
<1>1. /\ UNCHANGED <<head, logged, lh, outstanding, committing, calling, wrote, panicked>>
      /\ pc[p] = "install" /\ cache' = [cache EXCEPT ![b] = v] /\ home' = [home EXCEPT ![b] = v]
      /\ \/ tail + 1 < Len(lh) /\ tail' = tail + 1 /\ pc' = pc
         \/ ~(tail + 1 < Len(lh)) /\ tail' = 0 /\ Goto(p, "clear")
  BY DEF Install, NextBlock
<1>2. /\ Ops = {} /\ head = lh
      /\ \A q \in Everyone \ {p} : pc[q] \in {"idle", "begin", "asleep"}
  BY <1>1, InstallerAlone
<1>3. /\ tail \in Nat /\ Len(lh) \in Nat /\ tail + 1 \in 1..Len(lh) /\ Len(lh) <= LOGSIZE
      /\ b \in Block /\ v \in Value /\ LOGSIZE \in Nat
      /\ \A i \in 1..Len(lh) : lh[i] \in Block /\ (lh[i] = b => i = tail + 1)
      /\ Installed(tail) /\ (Fitting => v = logged[tail + 1])
  <2>1. lh \in Seq(Block) /\ Len(lh) <= LOGSIZE /\ tail \in Nat /\ LOGSIZE \in Nat
    BY Constants DEF IInv, TypeOK
  <2>2. tail < Len(lh) /\ Installed(tail)
    BY <1>1 DEF IInv, DataInv, Installing
  <2>3. tail + 1 \in 1..Len(lh) /\ Len(lh) \in Nat
    BY <2>1, <2>2, BlockSeq
  <2>4. v \in Value /\ (Fitting => v = logged[tail + 1])
    <3>1. CASE tail + 1 < NLOG
      BY <1>2, <2>3, <3>1 DEF IInv, DataInv, HeadLogged, LogBlock
    <3>2. CASE ~(tail + 1 < NLOG)
      <4>1. tail + 1 \in NLOG..LOGSIZE /\ ~Fitting
        BY <2>1, <2>2, <2>3, <3>2, Constants DEF Fitting
      <4>2. Behind[tail + 1] \in Block
        BY <4>1, Constants
      <4> QED
        BY <3>2, <4>1, <4>2 DEF LogBlock, IInv, TypeOK
    <3> QED
      BY <3>1, <3>2
  <2>5. \A i \in 1..Len(lh) : lh[i] \in Block /\ (lh[i] = b => i = tail + 1)
    BY <2>1, <2>3, BlockSeq DEF IInv, DataInv, OnePlace, Distinct
  <2> QED
    BY <2>1, <2>2, <2>3, <2>4, <2>5
<1>4. /\ pc' \in [Everyone -> PC] /\ pc'[p] \in {"install", "clear"}
      /\ \A q \in Everyone \ {p} : pc'[q] = pc[q]
  <2>1. CASE pc' = pc
    BY <2>1, <1>1 DEF IInv, TypeOK, Everyone
  <2>2. CASE Goto(p, "clear")
    BY <2>2, GotoType DEF IInv, PC
  <2> QED
    BY <1>1, <2>1, <2>2
<1>5. \A q \in Everyone \ {p} : pc'[q] \in {"idle", "begin", "asleep"}
  BY <1>2, <1>4
<1>6. Ops' = Ops
  BY <1>2, <1>4, <1>5 DEF Ops, Everyone
<1>7. /\ home' \in [Block -> Value] /\ cache' \in [Block -> Value]
      /\ home'[b] = v /\ cache'[b] = v
      /\ \A c \in Block \ {b} : home'[c] = home[c] /\ cache'[c] = cache[c]
  BY <1>1, <1>3 DEF IInv, TypeOK
<1>8. TypeOK'
  <2>1. tail' \in 0..LOGSIZE
    BY <1>1, <1>3
  <2> QED
    BY <1>1, <1>4, <1>7, <2>1 DEF IInv, TypeOK, Everyone
<1>9. StageInv'
  <2>1. CommitAlone'
    BY <1>4, <1>5 DEF CommitAlone, Everyone
  <2>2. BootAlone'
    <3>1. pc'[Boot] \in {"idle", "read", "install", "clear"}
      BY <1>1, <1>4 DEF IInv, StageInv, BootAlone, Everyone
    <3>2. pc'[Boot] # "idle" => cache' = home' /\ \A q \in Proc : pc'[q] = "idle"
      <4>1. CASE p = Boot
        BY <4>1, <1>1, <1>4, Constants DEF IInv, StageInv, BootAlone, Everyone
      <4>2. CASE p # Boot
        BY <4>2, <1>1, <1>4 DEF IInv, StageInv, BootAlone, Everyone
      <4> QED
        BY <4>1, <4>2
    <3>3. \A q \in Proc : pc'[q] # "read"
      BY <1>4, <1>5 DEF Everyone
    <3> QED
      BY <3>1, <3>2, <3>3 DEF BootAlone
  <2>3. Counters'
    <3>1. \A q \in Everyone : pc[q] \in CommitPC <=> pc'[q] \in CommitPC
      BY <1>1, <1>4 DEF CommitPC
    <3> QED
      BY <3>1, <1>1, <1>6 DEF IInv, StageInv, Counters, Everyone
  <2> QED
    BY <2>1, <2>2, <2>3 DEF StageInv
<1>10. DataInv'
  <2>1. OnePlace' /\ HeadLogged'
    BY <1>1 DEF IInv, DataInv, OnePlace, Distinct, HeadLogged
  <2>2. Copying'
    <3>1. ASSUME p \in Proc PROVE Copied(Len(lh))'
      <4>1. Copied(Len(lh))
        BY <3>1, <1>1 DEF IInv, DataInv, Copying
      <4>2. ASSUME Fitting, NEW i \in 1..Len(lh) PROVE logged[i] = cache'[lh[i]]
        <5>1. logged[i] = cache[lh[i]]
          BY <4>1, <4>2 DEF Copied
        <5> QED
          BY <4>2, <5>1, <1>3, <1>7
      <4> QED
        BY <1>1, <4>1, <4>2 DEF Copied, Fitting
    <3> QED
      BY <3>1, <1>1, <1>4, <1>5 DEF Copying, Everyone
  <2>3. Installing'
    <3>1. \A i \in 1..(tail + 1) : home'[lh[i]] = cache'[lh[i]] /\ (Fitting => home'[lh[i]] = logged[i])
      <4> SUFFICES ASSUME NEW i \in 1..(tail + 1)
                   PROVE  home'[lh[i]] = cache'[lh[i]] /\ (Fitting => home'[lh[i]] = logged[i])
        OBVIOUS
      <4>1. CASE i = tail + 1
        BY <4>1, <1>3, <1>7
      <4>2. CASE i # tail + 1
        <5>1. i \in 1..tail /\ i \in 1..Len(lh)
          BY <4>2, <1>3
        <5>2. lh[i] \in Block \ {b}
          BY <4>2, <5>1, <1>3
        <5> QED
          BY <5>1, <5>2, <1>3, <1>7 DEF Installed
      <4> QED
        BY <4>1, <4>2
    <3>2. pc'[p] = "install" => tail' < Len(lh) /\ tail' = tail + 1
      BY <1>1, GotoType DEF IInv, PC
    <3>3. pc'[p] = "clear" => Len(lh) = tail + 1
      BY <1>1, <1>3
    <3> QED
      BY <3>1, <3>2, <3>3, <1>1, <1>2, <1>4, <1>5 DEF Installing, Installed, Fitting
  <2>4. Cleared'
    <3>1. p \in Proc => pc'[p] \in CommitPC
      BY <1>4 DEF CommitPC
    <3> QED
      BY <3>1, <1>4, <1>5 DEF Cleared, Everyone
  <2>5. DirtyIsLogged'
    <3>1. pc'[Boot] = "idle" => pc[Boot] = "idle"
      BY <1>1, <1>4 DEF Everyone
    <3> QED
      BY <3>1, <1>1, <1>7 DEF IInv, DataInv, DirtyIsLogged
  <2> QED
    BY <2>1, <2>2, <2>3, <2>4, <2>5 DEF DataInv
<1> QED
  BY <1>8, <1>9, <1>10 DEF IInv

LEMMA ClearHeadKeeps ==
  ASSUME IInv, Written, NEW p \in Everyone, ClearHead(p)
  PROVE  IInv'
<1>1. /\ UNCHANGED <<home, logged, cache, outstanding, committing, calling, wrote, tail, panicked>>
      /\ pc[p] = "clear" /\ lh' = <<>> /\ head' = <<>>
      /\ Goto(p, IF p = Boot THEN "idle" ELSE "done")
  BY DEF ClearHead
<1>2. /\ Ops = {} /\ head = lh
      /\ \A q \in Everyone \ {p} : pc[q] \in {"idle", "begin", "asleep"}
  BY <1>1, InstallerAlone
<1>3. /\ pc' \in [Everyone -> PC] /\ pc'[p] = IF p = Boot THEN "idle" ELSE "done"
      /\ \A q \in Everyone \ {p} : pc'[q] \in {"idle", "begin", "asleep"} /\ pc'[q] = pc[q]
  BY <1>1, <1>2, GotoType DEF IInv, PC
<1>4. /\ p \in Proc => pc'[p] = "done"
      /\ Ops' = Ops
      /\ pc'[Boot] = "idle"
  <2>1. p \in Proc => pc'[p] = "done"
    BY <1>3, Constants
  <2>2. pc'[Boot] = "idle"
    BY <1>1, <1>3 DEF IInv, StageInv, BootAlone, Everyone
  <2> QED
    BY <1>2, <1>3, <2>1, <2>2 DEF Ops, Everyone
<1>5. TypeOK'
  <2>1. lh' \in Seq(Block) /\ Len(lh') <= LOGSIZE /\ head' \in Seq(Block) /\ Len(head') <= LOGSIZE
    BY <1>1, Constants, EmptySeq
  <2> QED
    BY <1>1, <1>3, <2>1 DEF IInv, TypeOK, Everyone
<1>6. StageInv'
  <2>1. CommitAlone'
    BY <1>3, <1>4 DEF CommitAlone, Everyone
  <2>2. BootAlone'
    BY <1>3, <1>4 DEF BootAlone, Everyone
  <2>3. Counters'
    <3>1. \A q \in Proc : pc[q] \in CommitPC <=> pc'[q] \in CommitPC
      BY <1>1, <1>3, <1>4 DEF CommitPC, Everyone
    <3> QED
      BY <3>1, <1>1, <1>4 DEF IInv, StageInv, Counters
  <2> QED
    BY <2>1, <2>2, <2>3 DEF StageInv
<1>7. DataInv'
  <2>1. OnePlace' /\ HeadLogged'
    BY <1>1, EmptySeq DEF OnePlace, Distinct, HeadLogged
  <2>2. Copying'
    BY <1>3, <1>4 DEF Copying, Copied, Fitting, Everyone
  <2>3. Installing'
    BY <1>3, <1>4 DEF Installing, Installed, Fitting, Everyone
  <2>4. Cleared'
    BY <1>1 DEF Cleared
  <2>5. DirtyIsLogged'
    <3>1. ASSUME NEW c \in Block PROVE cache[c] = home[c]
      <4>1. CASE p = Boot
        BY <4>1, <1>1 DEF IInv, StageInv, BootAlone
      <4>2. CASE p \in Proc /\ cache[c] # home[c]
        <5>1. pc[Boot] = "idle"
          BY <4>2, <1>1 DEF IInv, StageInv, BootAlone
        <5>2. \A q \in Proc : calling[q] = NoBlock
          BY <1>2 DEF Written, Ops
        <5>3. PICK i \in 1..Len(lh) : lh[i] = c
          BY <4>2, <5>1, <5>2, Constants, InLog DEF IInv, TypeOK, DataInv, DirtyIsLogged
        <5>4. home[lh[i]] = cache[lh[i]]
          BY <1>1 DEF IInv, DataInv, Installing, Installed
        <5> QED
          BY <4>2, <5>3, <5>4
      <4> QED
        BY <4>1, <4>2 DEF Everyone
    <3> QED
      BY <3>1, <1>1 DEF DirtyIsLogged
  <2> QED
    BY <2>1, <2>2, <2>3, <2>4, <2>5 DEF DataInv
<1> QED
  BY <1>5, <1>6, <1>7 DEF IInv

LEMMA ReadHeadKeeps ==
  ASSUME IInv, ReadHead
  PROVE  IInv'
<1>1. /\ UNCHANGED <<home, head, logged, cache, outstanding, committing, calling, wrote, tail, panicked>>
      /\ pc[Boot] = "read" /\ lh' = head
      /\ Goto(Boot, IF head = <<>> THEN "clear" ELSE "install")
  BY DEF ReadHead, disk
<1>2. cache = home /\ tail = 0 /\ \A q \in Proc : pc[q] = "idle"
  BY <1>1 DEF IInv, StageInv, BootAlone, DataInv, Installing, Installed, Fitting, Everyone
<1>3. /\ pc' \in [Everyone -> PC] /\ pc'[Boot] = IF head = <<>> THEN "clear" ELSE "install"
      /\ \A q \in Proc : pc'[q] = "idle"
  BY <1>1, <1>2, GotoType, Constants DEF IInv, PC, Everyone
<1>4. Ops' = Ops
  BY <1>2, <1>3 DEF Ops
<1>5. TypeOK'
  BY <1>1, <1>3 DEF IInv, TypeOK, Everyone
<1>6. StageInv'
  BY <1>1, <1>2, <1>3, <1>4 DEF IInv, StageInv, CommitAlone, BootAlone, Counters, CommitPC
<1>7. DataInv'
  <2>1. OnePlace' /\ HeadLogged'
    BY <1>1 DEF IInv, DataInv, OnePlace, Distinct, HeadLogged
  <2>2. Copying'
    BY <1>3 DEF Copying, Copied, Fitting
  <2>3. Installing'
    <3>1. head # <<>> => 0 < Len(head)
      BY BlockSeq DEF IInv, TypeOK
    <3>2. head = <<>> => Len(head) = 0
      BY EmptySeq
    <3> QED
      BY <3>1, <3>2, <1>1, <1>2, <1>3 DEF Installing, Installed, Fitting, Everyone
  <2>4. Cleared'
    BY <1>3 DEF Cleared, Everyone
  <2>5. DirtyIsLogged'
    BY <1>3 DEF DirtyIsLogged
  <2> QED
    BY <2>1, <2>2, <2>3, <2>4, <2>5 DEF DataInv
<1> QED
  BY <1>5, <1>6, <1>7 DEF IInv

-----------------------------------------------------------------------------
(* The invariant. *)

LEMMA StepInv == IInv /\ Written /\ GrantsFit /\ [Next]_vars => IInv'
<1> SUFFICES ASSUME IInv, Written, GrantsFit, [Next]_vars PROVE IInv'
  OBVIOUS
<1>1. CASE UNCHANGED vars
  <2>1. UNCHANGED <<home, head, logged, cache, lh, outstanding, committing, pc, calling, wrote, tail, panicked>>
    BY <1>1 DEF vars
  <2>2. Ops' = Ops
    BY <2>1 DEF Ops
  <2>3. TypeOK' /\ StageInv'
    BY <2>1, <2>2 DEF IInv, TypeOK, StageInv, CommitAlone, BootAlone, Counters
  <2>4. DataInv'
    BY <2>1, <2>2 DEF IInv, DataInv, OnePlace, Distinct, Copying, Copied, Installing, Installed, Fitting, Cleared, HeadLogged, DirtyIsLogged
  <2> QED
    BY <2>3, <2>4 DEF IInv
<1>2. CASE Next
  BY <1>2, NextCases, BeginOpKeeps, BeginOpSleepKeeps, EndOpKeeps, EndOpCommitKeeps, CommitDoneKeeps,
     LogWritePanicKeeps, LogWriteKeeps, LogAppendKeeps, WriteLogKeeps, WriteBehindKeeps, WriteHeadKeeps, InstallKeeps, ClearHeadKeeps,
     ReadHeadKeeps, CrashKeeps
<1> QED
  BY <1>1, <1>2

-----------------------------------------------------------------------------
(* Whoever sleeps in begin_op() has somebody to wake him. *)

\* With no operation and no commit the log is empty, and the one that asks
\* for room gets it.
LEMMA RoomWhenQuiet ==
  ASSUME IInv, Up, ~committing, NoRoom
  PROVE  outstanding > 0
<1>1. SUFFICES ASSUME outstanding = 0 PROVE FALSE
  BY DEF IInv, TypeOK
<1>2. Ops = {}
  BY <1>1, OpsFinite, FS_EmptySet DEF IInv, StageInv, Counters
<1>3. \A p \in Proc : pc[p] \notin CommitPC
  BY DEF IInv, TypeOK, StageInv, Counters
<1>4. lh = <<>>
  BY <1>2, <1>3 DEF IInv, DataInv, Cleared, Up
<1>5. Len(lh) = 0
  BY <1>4, EmptySeq
<1> QED
  BY <1>1, <1>5, Constants DEF NoRoom

LEMMA StepSleeper == IInv /\ SleeperHasWaker /\ [Next]_vars => SleeperHasWaker'
<1> SUFFICES ASSUME IInv, SleeperHasWaker, [Next]_vars PROVE SleeperHasWaker'
  OBVIOUS
<1>1. CASE UNCHANGED <<pc, outstanding, committing>>
  BY <1>1 DEF SleeperHasWaker
<1>2. ASSUME NEW p \in Proc, BeginOp(p) PROVE SleeperHasWaker'
  BY <1>2 DEF BeginOp, SleeperHasWaker, IInv, TypeOK
<1>3. ASSUME NEW p \in Proc, BeginOpSleep(p) PROVE SleeperHasWaker'
  BY <1>3, RoomWhenQuiet DEF BeginOpSleep, SleeperHasWaker
<1>4. ASSUME NEW p \in Proc, EndOp(p) PROVE SleeperHasWaker'
  BY <1>4 DEF EndOp, SleeperHasWaker, IInv, TypeOK
<1>5. ASSUME NEW p \in Proc, EndOpCommit(p) PROVE SleeperHasWaker'
  BY <1>5 DEF EndOpCommit, SleeperHasWaker
<1>6. ASSUME NEW p \in Proc, CommitDone(p) PROVE SleeperHasWaker'
  <2>1. WakeAndGoto(p, "idle") /\ "idle" \in PC
    BY <1>6 DEF CommitDone, PC
  <2>2. \A q \in Proc : pc'[q] # "asleep"
    BY <2>1 DEF WakeAndGoto, IInv, TypeOK
  <2> QED
    BY <2>2 DEF SleeperHasWaker
<1>7. ASSUME NEW p \in Everyone, NEW to \in PC \ {"asleep"}, Goto(p, to),
             UNCHANGED <<outstanding, committing>>
      PROVE  SleeperHasWaker'
  <2>1. \A q \in Proc : pc'[q] = "asleep" => pc[q] = "asleep"
    BY <1>7 DEF Goto, IInv, TypeOK, Everyone
  <2> QED
    BY <2>1, <1>7 DEF SleeperHasWaker
<1>8. CASE Crash
  <2>1. \A q \in Proc : pc'[q] # "asleep"
    BY <1>8 DEF Crash, IInv, TypeOK
  <2> QED
    BY <2>1 DEF SleeperHasWaker
<1>9. CASE \E p \in Proc, b \in Block : LogWritePanic(p, b) \/ \E v \in Value : LogWrite(p, b, v)
  BY <1>9, <1>1 DEF LogWritePanic, LogWrite
<1>10. CASE \E p \in Proc : WriteLog(p) \/ WriteBehind(p) \/ WriteHead(p)
  BY <1>10, <1>1, <1>7 DEF WriteLog, WriteBehind, NextBlock, WriteHead, Everyone, PC
<1>11. CASE \E p \in Everyone : Install(p) \/ ClearHead(p)
  BY <1>11, <1>1, <1>7 DEF Install, NextBlock, ClearHead, PC
<1>12. CASE ReadHead
  BY <1>12, <1>7 DEF ReadHead, Everyone, PC
<1>13. CASE UNCHANGED vars
  BY <1>13, <1>1 DEF vars
<1>14. CASE \E p \in Proc : LogAppend(p)
  BY <1>14, <1>1 DEF LogAppend
<1> QED
  BY NextCases, <1>2, <1>3, <1>4, <1>5, <1>6, <1>8, <1>9, <1>10, <1>11, <1>12, <1>13, <1>14

-----------------------------------------------------------------------------
(* The operations under way have room for what they were granted. *)

\* An operation that ends, or another one that writes, leaves no more to use.
LEMMA UnusedShrinks ==
  ASSUME Unused' \subseteq Unused
  PROVE  Cardinality(Unused') <= Cardinality(Unused) /\ Cardinality(Unused') \in Nat
<1>1. Unused' \in SUBSET Unused
  OBVIOUS
<1>2. IsFiniteSet(Unused') /\ Cardinality(Unused') <= Cardinality(Unused)
  BY <1>1, UnusedFinite, FS_Subset, Zenon
<1> QED
  BY <1>2, FS_CardinalityType

LEMMA NoLonger ==
  ASSUME GrantsFit, Len(lh') \in Nat, Len(lh) \in Nat, Len(lh') <= Len(lh), Unused' \subseteq Unused
  PROVE  GrantsFit'
<1>1. Cardinality(Unused') <= Cardinality(Unused) /\ Cardinality(Unused') \in Nat /\ Cardinality(Unused) \in Nat
  BY UnusedShrinks, UnusedFinite
<1>2. Len(lh) + Cardinality(Unused) <= LOGSIZE
  BY DEF GrantsFit
<1>3. Len(lh') + Cardinality(Unused') <= LOGSIZE
  BY <1>1, <1>2, Constants
<1> QED
  BY <1>3 DEF GrantsFit

LEMMA BeginOpFits ==
  ASSUME IInv, Written, NEW p \in Proc, BeginOp(p)
  PROVE  Written' /\ GrantsFit'
<1>1. /\ ~NoRoom /\ outstanding' = outstanding + 1 /\ lh' = lh
      /\ wrote' = [wrote EXCEPT ![p] = {}] /\ pc' = [pc EXCEPT ![p] = "op"]
      /\ calling' = calling /\ pc[p] # "op"
  BY DEF BeginOp, Goto
<1>2. pc \in [Proc \cup {Boot} -> PC] /\ wrote \in [Proc -> SUBSET Block] /\ outstanding \in Nat /\ Len(lh) \in Nat
  BY DEF IInv, TypeOK
<1>3. IsFiniteSet({}) /\ Cardinality({}) = 0 /\ OpBlocks \in Nat
  BY ConstantsAssumption, FS_EmptySet
<1>4. Written'
  BY <1>1, <1>2, <1>3 DEF Written
<1>5. outstanding' = Cardinality(Ops')
  BY BeginOpKeeps DEF IInv, StageInv, Counters
<1>6. /\ IsFiniteSet(Unused') /\ Cardinality(Unused') \in Nat
      /\ Cardinality(Unused') <= Cardinality(Ops') * MAXOPBLOCKS
  <2>1. (IsFiniteSet(Unused) /\ Cardinality(Unused) \in Nat /\ Cardinality(Unused) <= Cardinality(Ops) * MAXOPBLOCKS)'
    BY UnusedFinite, PTL
  <2> QED
    BY <2>1
<1>7. Len(lh) + (outstanding + 1) * MAXOPBLOCKS <= LOGSIZE
  <2>1. PICK n \in Nat : n = (outstanding + 1) * MAXOPBLOCKS
    BY <1>2, Constants
  <2> QED
    BY <1>1, <1>2, <2>1, Constants DEF NoRoom
<1>8. PICK n \in Nat : n = (outstanding + 1) * MAXOPBLOCKS
  BY <1>2, Constants
<1>9. Cardinality(Unused') <= n
  BY <1>1, <1>5, <1>6, <1>8, Zenon
<1>10. Len(lh') + Cardinality(Unused') <= LOGSIZE
  BY <1>1, <1>2, <1>6, <1>7, <1>8, <1>9, Constants
<1> QED
  BY <1>4, <1>10 DEF GrantsFit

LEMMA LogWriteFits ==
  ASSUME IInv, Written, GrantsFit, NEW p \in Proc, NEW b \in Block, NEW v \in Value, LogWrite(p, b, v)
  PROVE  Written' /\ GrantsFit'
<1>1. /\ pc[p] = "op" /\ (b \in wrote[p] \/ Cardinality(wrote[p]) < OpBlocks)
      /\ UNCHANGED <<lh, wrote, pc>> /\ calling' = [calling EXCEPT ![p] = b]
  BY DEF LogWrite, Logs
<1>2. Unused' = Unused
  BY <1>1 DEF Unused
<1>3. \A q \in Proc : calling'[q] = IF q = p THEN b ELSE calling[q]
  BY <1>1 DEF IInv, TypeOK
<1>4. Written'
  BY <1>1, <1>3 DEF Written
<1> QED
  BY <1>1, <1>2, <1>4 DEF GrantsFit

LEMMA LogAppendFits ==
  ASSUME IInv, Written, GrantsFit, NEW p \in Proc, LogAppend(p)
  PROVE  Written' /\ GrantsFit'
<1> DEFINE b == calling[p]
<1>1. /\ pc[p] = "op" /\ (b \in wrote[p] \/ Cardinality(wrote[p]) < OpBlocks) /\ b \in Block
      /\ lh' = (IF Contains(lh, b) THEN lh ELSE Append(lh, b))
      /\ wrote' = [wrote EXCEPT ![p] = wrote[p] \cup {b}] /\ pc' = pc
      /\ calling' = [calling EXCEPT ![p] = NoBlock]
  BY DEF LogAppend, Written, IInv, TypeOK
<1> HIDE DEF b
<1>2. /\ pc \in [Proc \cup {Boot} -> PC] /\ wrote \in [Proc -> SUBSET Block]
      /\ lh \in Seq(Block) /\ Len(lh) \in Nat
  BY DEF IInv, TypeOK
<1>3. PICK c \in Nat : c = Cardinality(wrote[p]) /\ c <= OpBlocks
  BY FS_CardinalityType DEF Written
<1>4. /\ IsFiniteSet(wrote[p] \cup {b})
      /\ Cardinality(wrote[p] \cup {b}) = IF b \in wrote[p] THEN c ELSE c + 1
  <2>1. IsFiniteSet(wrote[p])
    BY DEF Written
  <2> QED
    BY <1>3, <2>1, FS_AddElement, Zenon
<1>5. OpBlocks \in Nat /\ OpBlocks <= MAXOPBLOCKS /\ MAXOPBLOCKS \in Nat
  BY ConstantsAssumption
<1>6. /\ wrote'[p] = wrote[p] \cup {b}
      /\ \A q \in Proc : q # p => wrote'[q] = wrote[q]
  BY <1>1, <1>2
<1>7. PICK k \in Nat : k = Cardinality(wrote'[p]) /\ k = (IF b \in wrote[p] THEN c ELSE c + 1)
  <2>1. (IF b \in wrote[p] THEN c ELSE c + 1) \in Nat
    BY <1>3
  <2> QED
    BY <1>4, <1>6, <2>1, Zenon
<1>8. c <= k /\ k <= OpBlocks /\ (b \notin wrote[p] => c < OpBlocks /\ k = c + 1)
  <2>1. b \in wrote[p] \/ c < OpBlocks
    BY <1>1, <1>3, Zenon
  <2> QED
    BY <1>3, <1>7, <1>5, <2>1
<1>9. \A d \in Block : Contains(lh, d) => Contains(lh', d)
  BY <1>1, <1>2 DEF Contains
<1>10. Contains(lh', b)
  BY <1>1, <1>2 DEF Contains
<1>11. Written'
  <2> SUFFICES ASSUME NEW q \in Proc
               PROVE  /\ IsFiniteSet(wrote'[q]) /\ Cardinality(wrote'[q]) <= OpBlocks
                      /\ pc'[q] = "op" => \A d \in wrote'[q] : Contains(lh', d)
                      /\ calling'[q] # NoBlock =>
                           pc'[q] = "op" /\ (calling'[q] \in wrote'[q] \/ Cardinality(wrote'[q]) < OpBlocks)
    BY DEF Written
  <2> calling'[q] = IF q = p THEN NoBlock ELSE calling[q]
    BY <1>1 DEF IInv, TypeOK
  <2>1. CASE q = p
    <3>1. Cardinality(wrote'[p]) <= OpBlocks
      BY <1>7, <1>8, Zenon
    <3>2. \A d \in wrote'[p] : Contains(lh', d)
      BY <1>1, <1>2, <1>6, <1>9, <1>10 DEF Written
    <3> QED
      BY <1>4, <1>6, <2>1, <3>1, <3>2
  <2>2. CASE q # p
    BY <1>1, <1>2, <1>6, <1>9, <2>2 DEF Written
  <2> QED
    BY <2>1, <2>2
<1>12. Ops' = Ops
  BY <1>1 DEF Ops
<1>13. Unused' = {g \in Ops \X (1..MAXOPBLOCKS) : g[2] > Cardinality(wrote'[g[1]])}
  BY <1>12 DEF Unused, Ops
<1>14. Unused' \subseteq Unused
  <2> SUFFICES ASSUME NEW g \in Unused' PROVE g \in Unused
    OBVIOUS
  <2>1. PICK q \in Ops, i \in 1..MAXOPBLOCKS : g = <<q, i>> /\ i > Cardinality(wrote'[q])
    BY <1>13
  <2>2. i > Cardinality(wrote[q])
    <3>1. CASE q = p
      <4>1. i > k /\ i \in Nat
        <5>1. i \in Nat
          BY <1>5
        <5> QED
          BY <1>7, <2>1, <3>1, <5>1, Zenon
      <4>2. i > c
        BY <1>8, <4>1
      <4> QED
        BY <1>3, <3>1, <4>2
    <3>2. CASE q # p
      BY <1>6, <2>1, <3>2 DEF Ops
    <3> QED
      BY <3>1, <3>2
  <2> QED
    BY <2>1, <2>2, UnusedIs
<1>15. CASE Contains(lh, b)
  BY <1>1, <1>2, <1>11, <1>14, <1>15, NoLonger
<1>16. CASE ~Contains(lh, b)
  <2>1. b \notin wrote[p]
    BY <1>1, <1>16 DEF Written
  <2>2. c + 1 \in 1..MAXOPBLOCKS /\ Cardinality(wrote'[p]) = c + 1
    <3>1. c < OpBlocks /\ k = c + 1
      BY <1>8, <2>1, Zenon
    <3>2. c + 1 \in 1..MAXOPBLOCKS
      BY <1>5, <3>1
    <3> QED
      BY <1>7, <3>1, <3>2, Zenon
  <2>3. <<p, c + 1>> \in Unused
    <3>1. p \in Ops /\ c + 1 > Cardinality(wrote[p])
      BY <1>1, <1>3 DEF Ops
    <3> QED
      BY <2>2, <3>1, UnusedIs
  <2>4. <<p, c + 1>> \notin Unused'
    BY <1>13, <2>2
  <2>5. Unused' \in SUBSET (Unused \ {<<p, c + 1>>})
    BY <1>14, <2>4
  <2>6. IsFiniteSet(Unused \ {<<p, c + 1>>}) /\ Cardinality(Unused \ {<<p, c + 1>>}) = Cardinality(Unused) - 1
    BY <2>3, UnusedFinite, FS_RemoveElement
  <2>7. IsFiniteSet(Unused') /\ Cardinality(Unused') <= Cardinality(Unused) - 1
    BY <2>5, <2>6, FS_Subset
  <2>8. Cardinality(Unused') \in Nat
    BY <2>7, FS_CardinalityType
  <2>9. Len(lh') = Len(lh) + 1
    BY <1>1, <1>2, <1>16
  <2>10. Len(lh') + Cardinality(Unused') <= LOGSIZE
    BY <1>2, <2>7, <2>8, <2>9, UnusedFinite, Constants DEF GrantsFit
  <2> QED
    BY <1>11, <2>10 DEF GrantsFit
<1> QED
  BY <1>15, <1>16

\* An operation ends, or a commit goes on.
LEMMA OthersFit ==
  ASSUME IInv, Written, GrantsFit, UNCHANGED <<calling, wrote>>,
         \A p \in Proc : pc'[p] = "op" => pc[p] = "op" /\ lh' = lh,
         \A p \in Proc : pc[p] = "op" => pc'[p] = "op" \/ calling[p] = NoBlock,
         lh' = lh \/ lh' = <<>> \/ (lh' = head /\ Unused' = {})
  PROVE  Written' /\ GrantsFit'
<1>1. Written'
  BY DEF Written
<1>2. Unused' \subseteq Unused
  BY DEF Unused
<1>3. Len(lh) \in Nat /\ Len(head) \in Nat /\ Len(head) <= LOGSIZE /\ Len(<<>>) = 0
  BY EmptySeq DEF IInv, TypeOK
<1>4. CASE lh' = lh \/ lh' = <<>>
  BY <1>1, <1>2, <1>3, <1>4, NoLonger
<1>5. CASE (lh' = head /\ Unused' = {})
  <2>1. Cardinality(Unused') = 0
    BY <1>5, FS_EmptySet
  <2> QED
    BY <1>1, <1>3, <1>5, <2>1 DEF GrantsFit
<1> QED
  BY <1>4, <1>5

LEMMA StepFits == IInv /\ Written /\ GrantsFit /\ [Next]_vars => Written' /\ GrantsFit'
<1> SUFFICES ASSUME IInv, Written, GrantsFit, [Next]_vars PROVE Written' /\ GrantsFit'
  OBVIOUS
<1>1. pc \in [Proc \cup {Boot} -> PC]
  BY DEF IInv, TypeOK
<1>2. CASE UNCHANGED <<pc, calling, wrote, lh>>
  BY <1>2, OthersFit
<1>3. ASSUME NEW p \in Proc, BeginOpSleep(p) PROVE Written' /\ GrantsFit'
  BY <1>1, <1>3, OthersFit DEF BeginOpSleep, Goto
<1>4. ASSUME NEW p \in Proc, EndOp(p) \/ CommitDone(p) PROVE Written' /\ GrantsFit'
  BY <1>1, <1>4, OthersFit DEF EndOp, CommitDone, WakeAndGoto
<1>5. ASSUME NEW p \in Proc, EndOpCommit(p) PROVE Written' /\ GrantsFit'
  BY <1>1, <1>5, OthersFit DEF EndOpCommit, Goto
<1>6. ASSUME NEW p \in Proc, WriteLog(p) \/ WriteBehind(p) \/ WriteHead(p) PROVE Written' /\ GrantsFit'
  BY <1>1, <1>6, OthersFit DEF WriteLog, WriteBehind, NextBlock, WriteHead, Goto
<1>7. ASSUME NEW p \in Everyone, Install(p) PROVE Written' /\ GrantsFit'
  BY <1>1, <1>7, OthersFit DEF Install, NextBlock, Goto, Everyone
<1>8. ASSUME NEW p \in Everyone, ClearHead(p) PROVE Written' /\ GrantsFit'
  <2>1. pc[p] = "clear" /\ UNCHANGED <<calling, wrote>> /\ lh' = <<>> /\ pc' = [pc EXCEPT ![p] = IF p = Boot THEN "idle" ELSE "done"]
    BY <1>8 DEF ClearHead, Goto
  <2>2. \A q \in Proc : pc[q] # "op"
    BY <1>1, <2>1 DEF Everyone, IInv, StageInv, CommitAlone, BootAlone
  <2>3. \A q \in Proc : pc'[q] # "op"
    BY <1>1, <2>1, <2>2
  <2> QED
    BY <2>1, <2>2, <2>3, OthersFit
<1>9. CASE ReadHead
  <2>1. pc[Boot] = "read" /\ UNCHANGED <<calling, wrote>> /\ lh' = head /\ pc' = [pc EXCEPT ![Boot] = IF head = <<>> THEN "clear" ELSE "install"]
    BY <1>9 DEF ReadHead, Goto
  <2>2. \A q \in Proc : pc'[q] # "op" /\ pc[q] # "op"
    BY <1>1, <2>1, Constants DEF IInv, StageInv, BootAlone
  <2>3. Unused' = {}
    BY <2>2 DEF Unused
  <2> QED
    BY <2>1, <2>2, <2>3, OthersFit
<1>10. CASE Crash
  <2>1. /\ lh' = <<>> /\ wrote' = [p \in Proc |-> {}] /\ calling' = [p \in Proc |-> NoBlock]
        /\ \A q \in Proc : pc'[q] # "op"
    BY <1>1, <1>10, Constants DEF Crash
  <2>2. Unused' = {} /\ IsFiniteSet({}) /\ Cardinality({}) = 0 /\ OpBlocks \in Nat
    BY <2>1, ConstantsAssumption, FS_EmptySet DEF Unused
  <2>3. Written'
    BY <2>1, <2>2 DEF Written
  <2>4. GrantsFit'
    BY <2>1, <2>2, EmptySeq, Constants DEF GrantsFit
  <2> QED
    BY <2>3, <2>4
<1>11. CASE \E p \in Proc, b \in Block : LogWritePanic(p, b)
  BY <1>2, <1>11 DEF LogWritePanic
<1>12. CASE UNCHANGED vars
  BY <1>2, <1>12 DEF vars
<1> QED
  BY NextCases, BeginOpFits, LogWriteFits, LogAppendFits, <1>3, <1>4, <1>5, <1>6, <1>7, <1>8, <1>9, <1>10, <1>11, <1>12

\* The strengthened invariant holds in every reachable state.
THEOREM Invariance == Spec => [](IInv /\ Written /\ GrantsFit)
<1>1. Init => Written /\ GrantsFit
  <2> SUFFICES ASSUME Init PROVE Written /\ GrantsFit
    OBVIOUS
  <2>1. /\ lh = <<>> /\ wrote = [p \in Proc |-> {}] /\ calling = [p \in Proc |-> NoBlock]
        /\ \A q \in Proc : pc[q] # "op"
    BY Constants DEF Init
  <2>2. Unused = {} /\ IsFiniteSet({}) /\ Cardinality({}) = 0 /\ OpBlocks \in Nat
    BY <2>1, ConstantsAssumption, FS_EmptySet DEF Unused
  <2> QED
    BY <2>1, <2>2, EmptySeq, Constants DEF Written, GrantsFit
<1> QED
  BY <1>1, InitInv, StepInv, StepFits, PTL DEF Spec

\* What begin_op(), log_write(), commit() and recovery keep in log.lh and in the
\* header is a list of blocks that fits the log (TypeOK).
THEOREM TypeCorrect == Spec => []TypeOK
<1>1. IInv => TypeOK
  BY DEF IInv
<1> QED
  BY <1>1, Invariance, PTL

\* Whatever the buffer cache holds that the disk does not is in the log, so
\* pinned: brelse() never drops the only copy of a write (DirtyIsLogged).
THEOREM DirtyIsLoggedCorrect == Spec => []DirtyIsLogged
<1>1. IInv => DirtyIsLogged
  BY DEF IInv, DataInv
<1> QED
  BY <1>1, Invariance, PTL

\* commit() runs with log.committing set and no operation under way: nobody
\* writes the blocks it copies, nobody else commits (CommitAlone).
THEOREM CommitAloneCorrect == Spec => []CommitAlone
<1>1. IInv => CommitAlone
  BY DEF IInv, StageInv
<1> QED
  BY <1>1, Invariance, PTL

\* A process that sleeps in begin_op() is never the last one: an operation or a
\* commit is under way, and its end_op() makes the wakeup(&log)
\* (SleeperHasWaker).
THEOREM SleeperHasWakerCorrect == Spec => []SleeperHasWaker
<1>1. Init => SleeperHasWaker
  BY DEF Init, SleeperHasWaker
<1> QED
  BY <1>1, StepSleeper, Invariance, PTL DEF Spec

\* begin_op() lets in only as many operations as the log has room for, all of
\* them with their whole grant, whoever writes and ends first (GrantsFit).
THEOREM GrantsFitCorrect == Spec => []GrantsFit
BY Invariance, PTL

\* log_write() does not panic for a log that is too short as long as the
\* operations leave some of their grant: where nlog is LOGSIZE, as mkfs makes it,
\* two blocks.  The last block but one is already too many (README.md, section 5).
THEOREM NoPanicWithRoom ==
  ASSUME OpBlocks < MAXOPBLOCKS, LOGSIZE - (MAXOPBLOCKS - OpBlocks) < NLOG - 1
  PROVE  Spec => []NoPanic
<1>1. ASSUME IInv, Written, GrantsFit, NEW p \in Proc, NEW b \in Block, LogWritePanic(p, b) PROVE FALSE
  <2>1. pc[p] = "op" /\ LogFull
    BY <1>1 DEF LogWritePanic, Logs
  <2>2. PICK c \in Nat : c = Cardinality(wrote[p]) /\ c <= OpBlocks
    BY <1>1, FS_CardinalityType DEF Written
  <2>3. OpBlocks \in Nat /\ MAXOPBLOCKS \in Nat /\ NLOG \in Nat /\ LOGSIZE \in Nat
    BY ConstantsAssumption
  <2>4. p \in Ops /\ c <= MAXOPBLOCKS
    BY <2>1, <2>2, <2>3 DEF Ops
  <2>5. MAXOPBLOCKS - c <= Cardinality(Unused)
    BY <2>2, <2>4, LeftOver
  <2>6. MAXOPBLOCKS - OpBlocks <= MAXOPBLOCKS - c
    BY <2>2, <2>3
  <2>7. Len(lh) \in Nat
    BY <1>1 DEF IInv, TypeOK
  <2> QED
    BY <1>1, <2>1, <2>2, <2>3, <2>5, <2>6, <2>7, UnusedFinite DEF LogFull, GrantsFit
<1>2. IInv /\ Written /\ GrantsFit /\ NoPanic /\ [Next]_vars => NoPanic'
  <2> SUFFICES ASSUME IInv, Written, GrantsFit, NoPanic, [Next]_vars PROVE NoPanic'
    OBVIOUS
  <2>1. CASE UNCHANGED vars
    BY <2>1 DEF vars, NoPanic
  <2>2. CASE Next
    <3>1. ~ \E p \in Proc, b \in Block : LogWritePanic(p, b)
      BY <1>1
    <3> QED
      BY <2>2, <3>1, NextCases DEF NoPanic, BeginOp, BeginOpSleep, EndOp, EndOpCommit, CommitDone, LogWrite,
         LogAppend, WriteLog, WriteBehind, WriteHead, Install, ClearHead, ReadHead, Crash
  <2> QED
    BY <2>1, <2>2
<1>3. Init => NoPanic
  BY DEF Init, NoPanic
<1> QED
  BY <1>2, <1>3, Invariance, PTL DEF Spec

\* What processes that share the log may count on, as the runs check it: the
\* room, the pinned buffers, the sleepers and the commit (LogInv).
THEOREM LogCorrect == Spec => []LogInv
BY TypeCorrect, GrantsFitCorrect, DirtyIsLoggedCorrect, CommitAloneCorrect, SleeperHasWakerCorrect, PTL DEF LogInv

-----------------------------------------------------------------------------
(* The log implements a disk that survives crashes atomically. *)

\* A transaction fits the log on disk if every operation leaves as much of its
\* grant as the log falls short of LOGSIZE by.
Leaves == LOGSIZE - (MAXOPBLOCKS - OpBlocks) < NLOG
Short == Fitting /\ Len(head) < NLOG

LEMMA InitShort == Init => Short
BY EmptySeq, Constants DEF Init, Short, Fitting

LEMMA StepShort ==
  ASSUME Leaves, IInv, Written, GrantsFit, Short, [Next]_vars
  PROVE  Short'
<1>1. CASE UNCHANGED <<lh, head>>
  BY <1>1 DEF Short, Fitting
<1>2. ASSUME NEW p \in Proc, LogAppend(p) PROVE Short'
  <2>1. CASE Contains(lh, calling[p])
    BY <1>2, <2>1 DEF LogAppend, disk, Short, Fitting
  <2>2. CASE ~Contains(lh, calling[p])
    <3>1. /\ calling[p] # NoBlock /\ lh' = Append(lh, calling[p]) /\ head' = head
          /\ calling[p] \in Block /\ lh \in Seq(Block)
      BY <1>2, <2>2 DEF LogAppend, disk, IInv, TypeOK
    <3>2. Len(lh') = Len(lh) + 1
      BY <3>1
    <3>3. Len(lh) \in Nat /\ Len(lh) + 1 <= LOGSIZE - (MAXOPBLOCKS - OpBlocks)
      BY <2>2, <3>1, Room DEF IInv
    <3> QED
      BY <3>1, <3>2, <3>3, ConstantsAssumption DEF Leaves, Short, Fitting
  <2> QED
    BY <2>1, <2>2
<1>3. ASSUME NEW p \in Proc, WriteHead(p) PROVE Short'
  BY <1>3 DEF WriteHead, Short, Fitting
<1>4. ASSUME NEW p \in Everyone, ClearHead(p) PROVE Short'
  BY <1>4, EmptySeq, Constants DEF ClearHead, Short, Fitting
<1>5. CASE ReadHead
  BY <1>5 DEF ReadHead, disk, Short, Fitting
<1>6. CASE Crash
  BY <1>6, EmptySeq, Constants DEF Crash, disk, Short, Fitting
<1>7. ASSUME NEW p \in Proc,
             BeginOp(p) \/ BeginOpSleep(p) \/ EndOp(p) \/ EndOpCommit(p) \/ CommitDone(p)
      PROVE  Short'
  BY <1>1, <1>7 DEF BeginOp, BeginOpSleep, EndOp, EndOpCommit, CommitDone, disk
<1>8. CASE \E p \in Proc, b \in Block : LogWritePanic(p, b) \/ \E v \in Value : LogWrite(p, b, v)
  BY <1>1, <1>8 DEF LogWritePanic, LogWrite, disk
<1>9. ASSUME NEW p \in Proc, WriteLog(p) \/ WriteBehind(p) PROVE Short'
  BY <1>1, <1>9 DEF WriteLog, WriteBehind
<1>10. ASSUME NEW p \in Everyone, Install(p) PROVE Short'
  BY <1>1, <1>10 DEF Install
<1>11. CASE UNCHANGED vars
  BY <1>1, <1>11 DEF vars
<1> QED
  BY NextCases, <1>2, <1>3, <1>4, <1>5, <1>6, <1>7, <1>8, <1>9, <1>10, <1>11

\* The block behind the log is left alone, then.
LEMMA NeverBehind ==
  ASSUME IInv, Short, NEW p \in Proc, WriteBehind(p)
  PROVE  FALSE
<1>1. tail \in Nat /\ tail < Len(lh) /\ tail + 1 >= NLOG /\ Len(lh) \in Nat /\ NLOG \in Nat
  BY BlockSeq, Constants DEF WriteBehind, IInv, TypeOK, DataInv, Copying
<1> QED
  BY <1>1 DEF Short, Fitting

\* In a log where a block has one place, that is the one it is found at.
LEMMA Lookup ==
  ASSUME NEW s \in Seq(Block), Distinct(s), NEW i \in 1..Len(s), NEW b \in Block, s[i] = b
  PROVE  Contains(s, b) /\ (CHOOSE j \in DOMAIN s : s[j] = b) = i
<1>1. DOMAIN s = 1..Len(s)
  OBVIOUS
<1>2. \A j \in DOMAIN s : s[j] = b <=> j = i
  BY <1>1 DEF Distinct
<1> QED
  BY <1>1, <1>2, InLog

\* Of a log block that is in the log on disk, recovery finds what is logged.
LEMMA RecoveredShort ==
  ASSUME NEW s \in Seq(Block), Len(s) < NLOG, NEW b \in Block, Contains(s, b)
  PROVE  OnDisk(CHOOSE i \in DOMAIN s : s[i] = b) = logged[CHOOSE i \in DOMAIN s : s[i] = b]
<1>1. \E i \in DOMAIN s : s[i] = b
  BY DEF Contains
<1>2. (CHOOSE i \in DOMAIN s : s[i] = b) \in 1..Len(s)
  BY <1>1
<1>3. Len(s) \in Nat /\ NLOG \in Nat
  BY Constants
<1> QED
  BY <1>2, <1>3 DEF OnDisk

LEMMA RecoveredIs ==
  ASSUME TypeOK, OnePlace, Short
  PROVE  /\ \A i \in 1..Len(head) : Recovered[head[i]] = logged[i]
         /\ \A b \in Block : ~Contains(head, b) => Recovered[b] = home[b]
<1>1. ASSUME NEW i \in 1..Len(head) PROVE Recovered[head[i]] = logged[i]
  <2>1. head[i] \in Block
    BY BlockSeq DEF TypeOK
  <2>2. Contains(head, head[i]) /\ (CHOOSE j \in DOMAIN head : head[j] = head[i]) = i
    BY <2>1, Lookup DEF TypeOK, OnePlace
  <2>3. OnDisk(i) = logged[i]
    <3>1. head \in Seq(Block) /\ Len(head) < NLOG
      BY DEF TypeOK, Short
    <3> QED
      BY <2>1, <2>2, <3>1, RecoveredShort
  <2> QED
    BY <2>1, <2>2, <2>3 DEF Recovered
<1> QED
  BY <1>1 DEF Recovered

LEMMA RecoveredHome ==
  ASSUME TypeOK, head = <<>>
  PROVE  Recovered = home
<1>1. \A b \in Block : ~Contains(head, b)
  BY EmptyLog
<1> QED
  BY <1>1 DEF Recovered, TypeOK

\* An installation that is complete leaves nothing for recovery to do.
LEMMA InstalledHome ==
  ASSUME IInv, Short, NEW p \in Everyone, pc[p] = "clear"
  PROVE  Recovered = home
<1>1. head = lh /\ \A i \in 1..Len(lh) : home[lh[i]] = logged[i]
  BY DEF IInv, DataInv, Installing, Installed, Short
<1>2. ASSUME NEW b \in Block PROVE Recovered[b] = home[b]
  <2>1. CASE Contains(head, b)
    <3>1. PICK i \in 1..Len(head) : head[i] = b
      BY <2>1, InLog DEF IInv, TypeOK
    <3> QED
      BY <3>1, <1>1, RecoveredIs DEF IInv, DataInv
  <2>2. CASE ~Contains(head, b)
    BY <2>2, RecoveredIs DEF IInv, DataInv
  <2> QED
    BY <2>1, <2>2
<1> QED
  BY <1>2 DEF Recovered, IInv, TypeOK

Current == IF pc[Boot] = "idle" THEN cache ELSE Recovered

\* The header commits what the operations see.
LEMMA WriteHeadCommits ==
  ASSUME IInv, IInv', Written, Short, NEW p \in Proc, WriteHead(p)
  PROVE  Recovered' = cache /\ Ops = {} /\ Ops' = {} /\ Current' = cache /\ Current = cache
<1>1. /\ home' = home /\ logged' = logged /\ cache' = cache /\ lh' = lh /\ head' = lh
      /\ pc[p] = "commit" /\ Goto(p, "install")
  BY DEF WriteHead
<1>2. pc'[p] = "install"
  BY <1>1, GotoType DEF IInv, PC, Everyone
<1>3. /\ pc[Boot] = "idle" /\ Ops = {}
      /\ \A q \in Proc \ {p} : pc[q] \in {"idle", "begin", "asleep"}
  BY <1>1, CommitterAlone DEF CommitPC
<1>4. pc'[Boot] = "idle" /\ Ops' = {}
  BY <1>1, <1>2, <1>3, GotoType, Constants DEF IInv, PC, Everyone, Ops
<1>5. ASSUME NEW b \in Block PROVE Recovered'[b] = cache[b]
  <2>1. lh \in Seq(Block) /\ Distinct(lh) /\ Len(lh) < NLOG
    BY DEF IInv, TypeOK, DataInv, OnePlace, Short, Fitting
  <2>2. Recovered'[b] = IF Contains(lh, b) THEN OnDisk(CHOOSE i \in DOMAIN lh : lh[i] = b) ELSE home[b]
    BY <1>1 DEF Recovered, OnDisk
  <2>3. CASE Contains(lh, b)
    <3>1. PICK i \in 1..Len(lh) : lh[i] = b
      BY <2>1, <2>3, InLog
    <3>2. logged[i] = cache[b]
      BY <1>1, <3>1 DEF IInv, DataInv, Copying, Copied, Short
    <3>3. (CHOOSE j \in DOMAIN lh : lh[j] = b) = i
      BY <2>1, <3>1, Lookup
    <3>4. OnDisk(CHOOSE j \in DOMAIN lh : lh[j] = b) = logged[CHOOSE j \in DOMAIN lh : lh[j] = b]
      BY <2>1, <2>3, RecoveredShort
    <3> QED
      BY <2>2, <2>3, <3>2, <3>3, <3>4
  <2>4. CASE ~Contains(lh, b)
    <3>1. \A q \in Proc : calling[q] # b
      BY <1>3, Constants DEF Written, Ops
    <3>2. cache[b] = home[b]
      BY <1>3, <2>4, <3>1 DEF IInv, DataInv, DirtyIsLogged
    <3> QED
      BY <2>2, <2>4, <3>2
  <2> QED
    BY <2>3, <2>4
<1>6. Recovered' = cache
  BY <1>5 DEF Recovered, IInv, TypeOK
<1> QED
  BY <1>1, <1>3, <1>4, <1>6 DEF Current

\* Installing changes neither what a crash would leave nor what is seen.
LEMMA InstallStutters ==
  ASSUME IInv, Short, NEW p \in Everyone, Install(p)
  PROVE  Recovered' = Recovered /\ Current' = Current /\ Ops' = Ops
<1> DEFINE b == lh[tail + 1]
           v == LogBlock(tail + 1)
<1>1. /\ head' = head /\ logged' = logged /\ lh' = lh /\ pc[p] = "install"
      /\ cache' = [cache EXCEPT ![b] = v] /\ home' = [home EXCEPT ![b] = v]
      /\ pc' = pc \/ Goto(p, "clear")
  BY DEF Install, NextBlock
<1>2. Ops = {} /\ head = lh /\ \A q \in Everyone \ {p} : pc[q] \in {"idle", "begin", "asleep"}
  BY <1>1, InstallerAlone
<1>3. /\ pc'[p] \in {"install", "clear"}
      /\ \A q \in Everyone \ {p} : pc'[q] = pc[q]
  BY <1>1, GotoType DEF IInv, PC
<1>4. tail + 1 \in 1..Len(lh)
  <2>1. tail \in Nat /\ tail < Len(lh) /\ Len(lh) \in Nat
    BY <1>1, BlockSeq DEF IInv, TypeOK, DataInv, Installing
  <2> QED
    BY <2>1
<1>9. v = logged[tail + 1]
  <2>1. tail + 1 < NLOG
    BY <1>4, Constants DEF Short, Fitting
  <2> QED
    BY <2>1 DEF LogBlock
<1>5. Recovered' = Recovered
  <2>1. Contains(head, b)
    BY <1>2, <1>4, Lookup DEF IInv, TypeOK, DataInv, OnePlace
  <2>2. \A c \in Block : ~Contains(head, c) => home'[c] = home[c]
    BY <1>1, <2>1 DEF IInv, TypeOK
  <2>3. head \in Seq(Block) /\ Len(head) < NLOG
    BY DEF IInv, TypeOK, Short
  <2>4. \A c \in Block : Contains(head, c) =>
          OnDisk(CHOOSE i \in DOMAIN head : head[i] = c) = logged[CHOOSE i \in DOMAIN head : head[i] = c]
    BY <2>3, RecoveredShort
  <2>5. \A c \in Block : Contains(head, c) =>
          OnDisk(CHOOSE i \in DOMAIN head : head[i] = c)' = logged[CHOOSE i \in DOMAIN head : head[i] = c]
    <3> SUFFICES ASSUME NEW c \in Block, Contains(head, c)
                 PROVE  OnDisk(CHOOSE i \in DOMAIN head : head[i] = c)' = logged[CHOOSE i \in DOMAIN head : head[i] = c]
      OBVIOUS
    <3>1. (CHOOSE i \in DOMAIN head : head[i] = c) \in 1..Len(head)
      BY <2>3 DEF Contains
    <3>2. (CHOOSE i \in DOMAIN head : head[i] = c) < NLOG
      BY <2>3, <3>1, Constants
    <3> QED
      BY <1>1, <3>2 DEF OnDisk
  <2> QED
    BY <1>1, <2>2, <2>4, <2>5 DEF Recovered
<1>6. Ops' = Ops
  BY <1>2, <1>3 DEF Ops, Everyone
<1>7. CASE p = Boot
  BY <1>1, <1>3, <1>5, <1>6, <1>7 DEF Current
<1>8. CASE p \in Proc
  <2>1. pc[Boot] = "idle" /\ pc'[Boot] = "idle"
    BY <1>1, <1>3, <1>8, CommitterAlone, Constants DEF CommitPC, Everyone
  <2>2. cache[b] = v
    BY <1>1, <1>4, <1>8, <1>9 DEF IInv, DataInv, Copying, Copied, Short
  <2>3. cache' = cache
    BY <1>1, <2>2 DEF IInv, TypeOK
  <2> QED
    BY <1>5, <1>6, <2>1, <2>3 DEF Current
<1> QED
  BY <1>7, <1>8 DEF Everyone

LEMMA ClearHeadStutters ==
  ASSUME IInv, IInv', Short, NEW p \in Everyone, ClearHead(p)
  PROVE  Recovered' = Recovered /\ Current' = Current /\ Ops' = Ops
<1>1. /\ head' = <<>> /\ home' = home /\ cache' = cache /\ pc[p] = "clear"
      /\ Goto(p, IF p = Boot THEN "idle" ELSE "done")
  BY DEF ClearHead
<1>2. Recovered = home
  BY <1>1, InstalledHome
<1>3. Recovered' = home'
  <2>1. \A b \in Block : ~Contains(head', b)
    BY <1>1, EmptyLog
  <2> QED
    BY <2>1 DEF Recovered, IInv, TypeOK
<1>4. Ops = {} /\ \A q \in Everyone \ {p} : pc[q] \in {"idle", "begin", "asleep"}
  BY <1>1, InstallerAlone
<1>5. /\ pc'[p] = IF p = Boot THEN "idle" ELSE "done"
      /\ \A q \in Everyone \ {p} : pc'[q] = pc[q]
  BY <1>1, GotoType DEF IInv, PC
<1>6. Ops' = Ops
  BY <1>4, <1>5 DEF Ops, Everyone
<1>7. CASE p = Boot
  BY <1>1, <1>2, <1>3, <1>5, <1>6, <1>7 DEF Current, IInv, StageInv, BootAlone
<1>8. CASE p \in Proc
  BY <1>1, <1>2, <1>3, <1>5, <1>6, <1>8, CommitterAlone, Constants DEF Current, CommitPC, Everyone
<1> QED
  BY <1>7, <1>8 DEF Everyone

\* write_log() writes where recovery does not look.
LEMMA WriteLogStutters ==
  ASSUME IInv, NEW p \in Proc, WriteLog(p)
  PROVE  Recovered' = Recovered /\ Current' = Current /\ Ops' = Ops
<1>1. /\ head' = head /\ home' = home /\ cache' = cache /\ pc[p] = "write"
      /\ pc' = pc \/ Goto(p, "commit")
  BY DEF WriteLog, NextBlock
<1>2. head = <<>>
  BY <1>1, BeforeCommit
<1>3. \A b \in Block : ~Contains(head, b) /\ ~Contains(head', b)
  BY <1>1, <1>2, EmptyLog
<1>4. Recovered' = Recovered
  BY <1>1, <1>3 DEF Recovered
<1>5. pc'[p] \in {"write", "commit"} /\ \A q \in Everyone \ {p} : pc'[q] = pc[q]
  BY <1>1, GotoType DEF IInv, PC, Everyone
<1> QED
  BY <1>1, <1>4, <1>5, Constants DEF Current, Ops, Everyone

\* A step of the log that leaves the disk, the buffers and the stage of Boot
\* alone, and so changes at most who is inside an operation.
LEMMA SameData ==
  ASSUME UNCHANGED <<home, head, logged, cache>>, pc'[Boot] = pc[Boot]
  PROVE  Recovered' = Recovered /\ Current' = Current
<1>1. Recovered' = Recovered
  BY DEF Recovered, OnDisk
<1> QED
  BY <1>1 DEF Current

LEMMA BeginOpBegins ==
  ASSUME IInv, NEW p \in Proc, BeginOp(p)
  PROVE  p \notin Ops /\ Ops' = Ops \cup {p} /\ Recovered' = Recovered /\ Current' = Current
<1>1. /\ UNCHANGED <<home, head, logged, cache>> /\ pc[p] \in {"idle", "begin"} /\ Goto(p, "op")
  BY DEF BeginOp, disk
<1>2. pc'[p] = "op" /\ \A q \in Everyone \ {p} : pc'[q] = pc[q]
  BY <1>1, GotoType DEF IInv, PC, Everyone
<1>3. pc'[Boot] = pc[Boot]
  BY <1>2, Constants DEF Everyone
<1>4. p \notin Ops /\ Ops' = Ops \cup {p}
  BY <1>1, <1>2 DEF Ops, Everyone
<1> QED
  BY <1>1, <1>3, <1>4, SameData

LEMMA EndOpEnds ==
  ASSUME IInv, NEW p \in Proc, EndOp(p) \/ EndOpCommit(p)
  PROVE  p \in Ops /\ Ops' = Ops \ {p} /\ Recovered' = Recovered /\ Current' = Current
<1>1. UNCHANGED <<home, head, logged, cache>> /\ pc[p] = "op"
  BY DEF EndOp, EndOpCommit, disk
<1>2. /\ pc'[p] # "op"
      /\ \A q \in Everyone \ {p} : pc'[q] = pc[q] \/ (pc[q] = "asleep" /\ pc'[q] = "begin")
  <2>1. CASE EndOp(p)
    BY <2>1, WakeUp DEF EndOp, IInv, PC
  <2>2. CASE EndOpCommit(p)
    <3>1. PICK to \in {"done", "write"} : Goto(p, to)
      BY <2>2 DEF EndOpCommit
    <3> QED
      BY <3>1, GotoType DEF IInv, PC, Everyone
  <2> QED
    BY <2>1, <2>2
<1>3. pc'[Boot] = pc[Boot]
  BY <1>2, Constants DEF Everyone, IInv, StageInv, BootAlone
<1>4. p \in Ops /\ Ops' = Ops \ {p}
  BY <1>1, <1>2 DEF Ops, Everyone
<1> QED
  BY <1>1, <1>3, <1>4, SameData

LEMMA LogWriteWrites ==
  ASSUME IInv, NEW p \in Proc, NEW b \in Block, NEW v \in Value, LogWrite(p, b, v)
  PROVE  /\ p \in Ops /\ Ops' = Ops /\ Recovered' = Recovered
         /\ Current' = [Current EXCEPT ![b] = v]
<1>1. /\ UNCHANGED <<home, head, logged, pc>> /\ cache' = [cache EXCEPT ![b] = v]
      /\ pc[p] = "op" /\ pc[Boot] = "idle"
  BY DEF LogWrite, Logs, disk, Up
<1>2. Recovered' = Recovered
  BY <1>1 DEF Recovered, OnDisk
<1> QED
  BY <1>1, <1>2 DEF Ops, Current

\* The steps that the disk of AtomicDisk does not see.
LEMMA WaitStutters ==
  ASSUME IInv, NEW p \in Proc, BeginOpSleep(p) \/ CommitDone(p)
  PROVE  Ops' = Ops /\ Recovered' = Recovered /\ Current' = Current
<1>1. UNCHANGED <<home, head, logged, cache>> /\ pc[p] # "op"
  BY DEF BeginOpSleep, CommitDone, disk
<1>2. /\ pc'[p] # "op"
      /\ \A q \in Everyone \ {p} : pc'[q] = pc[q] \/ (pc[q] = "asleep" /\ pc'[q] = "begin")
  <2>1. CASE BeginOpSleep(p)
    BY <2>1, GotoType DEF BeginOpSleep, IInv, PC, Everyone
  <2>2. CASE CommitDone(p)
    BY <2>2, WakeUp DEF CommitDone, IInv, PC
  <2> QED
    BY <2>1, <2>2
<1>3. pc'[Boot] = pc[Boot]
  BY <1>2, Constants DEF Everyone, IInv, StageInv, BootAlone
<1>4. Ops' = Ops
  BY <1>1, <1>2 DEF Ops, Everyone
<1> QED
  BY <1>1, <1>3, <1>4, SameData

LEMMA ReadHeadStutters ==
  ASSUME IInv, ReadHead
  PROVE  Ops' = Ops /\ Recovered' = Recovered /\ Current' = Current
<1>1. /\ UNCHANGED <<home, head, logged, cache>> /\ pc[Boot] = "read"
      /\ \E to \in {"clear", "install"} : Goto(Boot, to)
  BY DEF ReadHead, disk
<1>2. pc'[Boot] # "idle" /\ \A q \in Everyone \ {Boot} : pc'[q] = pc[q]
  BY <1>1, GotoType DEF IInv, PC, Everyone
<1>3. Recovered' = Recovered
  BY <1>1 DEF Recovered, OnDisk
<1> QED
  BY <1>1, <1>2, <1>3, Constants DEF Ops, Current, Everyone

LEMMA CrashCrashes ==
  ASSUME IInv, Crash
  PROVE  Ops' = {} /\ Recovered' = Recovered /\ Current' = Recovered
<1>1. UNCHANGED <<home, head, logged>>
  BY DEF Crash, disk
<1>2. pc'[Boot] = "read" /\ \A p \in Proc : pc'[p] = "idle"
  BY Constants DEF Crash, IInv, TypeOK
<1>3. Recovered' = Recovered
  BY <1>1 DEF Recovered, OnDisk
<1> QED
  BY <1>2, <1>3 DEF Ops, Current

\* The steps of AtomicDisk, in the names of this module.
LEMMA AbstractBegin ==
  ASSUME NEW p \in Proc, p \notin Ops, Ops' = Ops \cup {p}, Recovered' = Recovered, Current' = Current
  PROVE  Abstract!Next
<1>1. Abstract!Begin(p)
  BY DEF Abstract!Begin, Current, Ops
<1> QED
  BY <1>1 DEF Abstract!Next

LEMMA AbstractEnd ==
  ASSUME NEW p \in Proc, p \in Ops, Ops' = Ops \ {p}, Recovered' = Recovered, Current' = Current
  PROVE  Abstract!Next
<1>1. Abstract!End(p)
  BY DEF Abstract!End, Current, Ops
<1> QED
  BY <1>1 DEF Abstract!Next

LEMMA AbstractWrite ==
  ASSUME NEW p \in Proc, NEW b \in Block, NEW v \in Value,
         p \in Ops, Ops' = Ops, Recovered' = Recovered, Current' = [Current EXCEPT ![b] = v]
  PROVE  Abstract!Next
<1>1. Abstract!Write(p, b, v)
  BY DEF Abstract!Write, Current, Ops
<1> QED
  BY <1>1 DEF Abstract!Next

LEMMA AbstractCommit ==
  ASSUME Ops = {}, Ops' = Ops, Recovered' = Current, Current' = Current
  PROVE  Abstract!Next
<1>1. Abstract!Commit
  BY DEF Abstract!Commit, Current, Ops
<1> QED
  BY <1>1 DEF Abstract!Next

LEMMA AbstractCrash ==
  ASSUME Ops' = {}, Current' = Recovered, Recovered' = Recovered
  PROVE  Abstract!Next
<1>1. Abstract!Crash
  BY DEF Abstract!Crash, Current, Ops
<1> QED
  BY <1>1 DEF Abstract!Next

LEMMA AbstractStutter ==
  ASSUME Ops' = Ops, Recovered' = Recovered, Current' = Current
  PROVE  UNCHANGED Abstract!vars
BY DEF Abstract!vars, Current, Ops

LEMMA StepImplements ==
  ASSUME IInv, IInv', Written, Short, [Next]_vars
  PROVE  [Abstract!Next]_(Abstract!vars)
<1>1. CASE UNCHANGED vars
  <2>1. UNCHANGED <<home, head, logged, cache, pc>>
    BY <1>1 DEF vars
  <2>2. Ops' = Ops
    BY <2>1 DEF Ops
  <2> QED
    BY <2>1, <2>2, SameData, AbstractStutter
<1>2. ASSUME NEW p \in Proc, BeginOp(p) PROVE Abstract!Next
  BY <1>2, BeginOpBegins, AbstractBegin
<1>3. ASSUME NEW p \in Proc, EndOp(p) \/ EndOpCommit(p) PROVE Abstract!Next
  BY <1>3, EndOpEnds, AbstractEnd
<1>4. ASSUME NEW p \in Proc, NEW b \in Block, NEW v \in Value, LogWrite(p, b, v) PROVE Abstract!Next
  BY <1>4, LogWriteWrites, AbstractWrite
<1>5. ASSUME NEW p \in Proc, WriteHead(p) PROVE Abstract!Next
  BY <1>5, WriteHeadCommits, AbstractCommit
<1>6. CASE Crash
  BY <1>6, CrashCrashes, AbstractCrash
<1>7. ASSUME NEW p \in Proc, BeginOpSleep(p) \/ CommitDone(p) PROVE UNCHANGED Abstract!vars
  BY <1>7, WaitStutters, AbstractStutter
<1>8. ASSUME NEW p \in Proc, NEW b \in Block, LogWritePanic(p, b) PROVE UNCHANGED Abstract!vars
  <2>1. UNCHANGED <<home, head, logged, cache, pc>>
    BY <1>8 DEF LogWritePanic, disk
  <2>2. Ops' = Ops
    BY <2>1 DEF Ops
  <2> QED
    BY <2>1, <2>2, SameData, AbstractStutter
<1>9. ASSUME NEW p \in Proc, WriteLog(p) PROVE UNCHANGED Abstract!vars
  BY <1>9, WriteLogStutters, AbstractStutter
<1>10. ASSUME NEW p \in Everyone, Install(p) \/ ClearHead(p) PROVE UNCHANGED Abstract!vars
  BY <1>10, InstallStutters, ClearHeadStutters, AbstractStutter
<1>11. CASE ReadHead
  BY <1>11, ReadHeadStutters, AbstractStutter
<1>12. ASSUME NEW p \in Proc, LogAppend(p) PROVE UNCHANGED Abstract!vars
  <2>1. UNCHANGED <<home, head, logged, cache, pc>>
    BY <1>12 DEF LogAppend, disk
  <2>2. Ops' = Ops
    BY <2>1 DEF Ops
  <2> QED
    BY <2>1, <2>2, SameData, AbstractStutter
<1>13. ~ \E p \in Proc : WriteBehind(p)
  BY NeverBehind
<1> QED
  BY NextCases, <1>12, <1>13, <1>1, <1>2, <1>3, <1>4, <1>5, <1>6, <1>7, <1>8, <1>9, <1>10, <1>11

\* The comment at the head of log.c, as a theorem: what a crash at any moment
\* and the recovery after it leave on the disk changes only when no operation
\* is in progress, and then to all that has been written (ImplementsAtomicDisk).
\* It needs operations that leave some of their grant, one block where nlog is
\* LOGSIZE, as mkfs makes it: log_write() does not see to it, as it tests
\* log.lh.n before it takes log.lock (README.md, section 5).
THEOREM Refinement ==
  ASSUME LOGSIZE - (MAXOPBLOCKS - OpBlocks) < NLOG
  PROVE  Spec => ImplementsAtomicDisk
<1>1. Init => Abstract!Init
  <2> SUFFICES ASSUME Init PROVE Abstract!Init
    OBVIOUS
  <2>1. Recovered = home
    BY InitInv, RecoveredHome DEF Init, IInv
  <2>2. pc[Boot] = "read" /\ \A p \in Proc : pc[p] = "idle"
    BY Constants DEF Init
  <2> QED
    BY <2>1, <2>2 DEF Init, Abstract!Init
<1>2. IInv /\ Written /\ GrantsFit /\ Short /\ [Next]_vars => Short'
  BY StepShort DEF Leaves
<1>3. IInv /\ IInv' /\ Written /\ Short /\ [Next]_vars => [Abstract!Next]_(Abstract!vars)
  BY StepImplements
<1> QED
  BY <1>1, <1>2, <1>3, InitShort, Invariance, PTL DEF Spec, ImplementsAtomicDisk, Abstract!Spec
=============================================================================
