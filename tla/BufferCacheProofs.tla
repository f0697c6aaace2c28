-------------------------- MODULE BufferCacheProofs --------------------------
(***************************************************************************)
(* The buffer cache keeps its buffers in order and is a store of blocks,   *)
(* for any number of processes, buffers and blocks, and any contents.      *)
(***************************************************************************)
EXTENDS BufferCache, FiniteSetTheorems, SequenceTheorems, WellFoundedInduction, TLAPS

\* Where the processes stand: between calls without a current buffer, inside
\* one with a buffer that they do not have twice, except that bwrite() works on
\* a buffer which the process has already.
Standing == \A p \in Proc :
  /\ cur[p] = NoBuf <=> pc[p] = "run"
  /\ pc[p] \in {"lock", "read", "brelse"} => cur[p] \notin held[p]

\* A buffer somebody uses is some block's, and valid once bread() has returned
\* it; a modified buffer is valid, and a valid one is some block's.
Assigned ==
  /\ \A p \in Proc : \A b \in Uses(p) : blockno[b] # NoBlock
  /\ \A p \in Proc : \A b \in held[p] : valid[b]
  /\ \A b \in Buf : (dirty[b] => valid[b]) /\ (valid[b] => blockno[b] # NoBlock)

IInv == CacheInv /\ Standing /\ Assigned

Users(b) == {p \in Proc : b \in Uses(p)}

-----------------------------------------------------------------------------
(* The list. *)

\* A bounded set of numbers has a largest member.
LEMMA MaxIn ==
  ASSUME NEW n \in Nat, NEW S \in SUBSET (1..n), S # {}
  PROVE  Max(S) \in S
<1> DEFINE T == {n - i : i \in S}
<1>1. T \subseteq Nat /\ T # {}
  <2>1. \A i \in S : n - i \in Nat
    OBVIOUS
  <2> QED
    BY <2>1
<1>2. IsWellFoundedOn(OpToRel(<, Nat), Nat)
  BY NatLessThanWellFounded
<1>3. PICK least \in T : \A t \in T : <<t, least>> \notin OpToRel(<, Nat)
  <2> HIDE DEF T
  <2> QED
    BY <1>1, <1>2, WFMin
<1>4. PICK m \in S : least = n - m
  OBVIOUS
<1>5. ASSUME NEW i \in S PROVE m >= i
  <2>1. n - i \in T /\ n - i \in Nat /\ n - m \in Nat
    OBVIOUS
  <2>2. ~(n - i < n - m)
    BY <1>3, <1>4, <2>1 DEF OpToRel
  <2> QED
    BY <2>2
<1> QED
  BY <1>5 DEF Max

\* The scan from the end of the list stops at an unused buffer.
LEMMA ScanFinds ==
  ASSUME TypeOK, SelectLastInSeq(lru, Unused) > 0
  PROVE  /\ SelectLastInSeq(lru, Unused) \in 1..Len(lru)
         /\ lru[SelectLastInSeq(lru, Unused)] \in Buf
         /\ Unused(lru[SelectLastInSeq(lru, Unused)])
<1> DEFINE I == {i \in 1..Len(lru) : Unused(lru[i])}
<1>1. lru \in Seq(Buf) /\ Len(lru) \in Nat
  BY DEF TypeOK
<1>2. SelectLastInSeq(lru, Unused) = IF I # {} THEN Max(I) ELSE 0
  BY DEF SelectLastInSeq
<1>3. I # {} /\ SelectLastInSeq(lru, Unused) = Max(I)
  <2> HIDE DEF I
  <2> QED
    BY <1>2
<1>4. Max(I) \in I
  <2>1. I \in SUBSET (1..Len(lru))
    OBVIOUS
  <2> HIDE DEF I
  <2> QED
    BY <1>1, <1>3, <2>1, MaxIn
<1>5. SelectLastInSeq(lru, Unused) \in 1..Len(lru) /\ Unused(lru[SelectLastInSeq(lru, Unused)])
  BY <1>3, <1>4
<1> QED
  BY <1>1, <1>5, ElementOfSeq

\* binit() links every buffer, once.
LEMMA ListAtFirst ==
  ASSUME lru = Reverse(SetToSeq(Buf))
  PROVE  lru \in Seq(Buf) /\ ListComplete
<1> DEFINE n == Cardinality(Buf)
           s == SetToSeq(Buf)
<1>1. IsFiniteSet(Buf) /\ n \in Nat /\ ExistsBijection(1..n, Buf)
  BY ConstantsAssumption, FS_CardinalityType
<1>2. PICK f \in [1..n -> Buf] : IsInjective(f)
  BY <1>1 DEF ExistsBijection, Bijection, Injection
<1>3. s \in [1..n -> Buf] /\ IsInjective(s)
  BY <1>2 DEF SetToSeq
<1>4. \A b \in Buf : \E i \in 1..n : s[i] = b
  <2> HIDE DEF s
  <2>1. s \in Injection(1..n, Buf)
    BY <1>3 DEF Injection
  <2>2. IsFiniteSet(1..n) /\ Cardinality(1..n) = n
    BY <1>1, FS_Interval
  <2>3. s \in Surjection(1..n, Buf)
    BY <1>1, <2>1, <2>2, FS_Injection
  <2> QED
    BY <2>3 DEF Surjection
<1> HIDE DEF s
<1>5. Len(s) = n /\ DOMAIN s = 1..n
  BY <1>1, <1>3
<1>6. lru = [i \in 1..n |-> s[(n - i) + 1]]
  BY <1>5 DEF Reverse, s
<1> HIDE DEF n
<1>7. lru \in [1..n -> Buf] /\ DOMAIN lru = 1..n
  BY <1>1, <1>3, <1>6
<1>8. lru \in Seq(Buf)
  BY <1>1, <1>7
<1>9. IsInjective(lru)
  <2>1. ASSUME NEW i \in 1..n, NEW j \in 1..n, lru[i] = lru[j] PROVE i = j
    <3>1. s[(n - i) + 1] = s[(n - j) + 1] /\ (n - i) + 1 \in 1..n /\ (n - j) + 1 \in 1..n
      BY <1>1, <1>6, <2>1
    <3>2. (n - i) + 1 = (n - j) + 1
      BY <1>3, <1>5, <3>1 DEF IsInjective
    <3> QED
      BY <1>1, <3>2
  <2> QED
    BY <1>7, <2>1 DEF IsInjective
<1>10. ToSet(lru) = Buf
  <2>1. ASSUME NEW b \in Buf PROVE \E i \in 1..n : lru[i] = b
    <3>1. PICK i \in 1..n : s[i] = b
      BY <1>4
    <3>2. (n - i) + 1 \in 1..n /\ (n - ((n - i) + 1)) + 1 = i
      BY <1>1
    <3> QED
      BY <1>6, <3>1, <3>2
  <2> QED
    BY <1>7, <2>1 DEF ToSet
<1> QED
  BY <1>8, <1>9, <1>10 DEF ListComplete

\* Moving a buffer to the head loses none and doubles none.
LEMMA MoveKeepsList ==
  ASSUME TypeOK, ListComplete, NEW b \in Buf
  PROVE  /\ MovedToHead(b) \in Seq(Buf)
         /\ IsInjective(MovedToHead(b)) /\ ToSet(MovedToHead(b)) = Buf
<1> DEFINE n == Len(lru)
           i == CHOOSE k \in DOMAIN lru : lru[k] = b
           front == SubSeq(lru, 1, i - 1)
           back == SubSeq(lru, i + 1, n)
           new == MovedToHead(b)
<1>1. lru \in Seq(Buf) /\ n \in Nat /\ DOMAIN lru = 1..n
  BY LenProperties DEF TypeOK
<1>2. i \in 1..n /\ lru[i] = b
  <2>1. \E k \in DOMAIN lru : lru[k] = b
    BY DEF ListComplete, ToSet
  <2> QED
    BY <1>1, <2>1
<1>3. new = <<b>> \o (front \o back)
  BY DEF MovedToHead, Cons, RemoveAt
<1> HIDE DEF n, i, new
<1>4. \A k \in 1..n : lru[k] \in Buf
  BY <1>1, ElementOfSeq DEF n
<1>5. /\ front \in Seq(Buf) /\ Len(front) = i - 1
      /\ \A k \in 1..(i - 1) : front[k] = lru[k]
  <2>1. i - 1 \in Int /\ 1 \in Int /\ \A k \in 1..(i - 1) : lru[k] \in Buf
    BY <1>1, <1>2, <1>4
  <2>2. /\ front \in Seq(Buf) /\ Len(front) = IF 1 <= i - 1 THEN (i - 1) - 1 + 1 ELSE 0
        /\ \A k \in 1..((i - 1) - 1 + 1) : front[k] = lru[1 + k - 1]
    BY <2>1, SubSeqProperties
  <2> HIDE DEF front
  <2> QED
    BY <1>1, <1>2, <2>2
<1>6. /\ back \in Seq(Buf) /\ Len(back) = n - i
      /\ \A k \in 1..(n - i) : back[k] = lru[k + i]
  <2>1. n \in Int /\ i + 1 \in Int /\ \A k \in (i + 1)..n : lru[k] \in Buf
    BY <1>1, <1>2, <1>4
  <2>2. /\ back \in Seq(Buf) /\ Len(back) = IF i + 1 <= n THEN n - (i + 1) + 1 ELSE 0
        /\ \A k \in 1..(n - (i + 1) + 1) : back[k] = lru[(i + 1) + k - 1]
    BY <2>1, SubSeqProperties
  <2> HIDE DEF back
  <2> QED
    BY <1>1, <1>2, <2>2
<1> HIDE DEF front, back
<1>7. /\ front \o back \in Seq(Buf) /\ Len(front \o back) = n - 1
      /\ \A k \in 1..(n - 1) : (front \o back)[k] = IF k < i THEN lru[k] ELSE lru[k + 1]
  <2>1. /\ front \o back \in Seq(Buf) /\ Len(front \o back) = (i - 1) + (n - i)
        /\ \A k \in 1..((i - 1) + (n - i)) :
             (front \o back)[k] = IF k <= i - 1 THEN front[k] ELSE back[k - (i - 1)]
    BY <1>5, <1>6, ConcatProperties
  <2> QED
    BY <1>1, <1>2, <1>5, <1>6, <2>1
<1>8. /\ new \in Seq(Buf) /\ Len(new) = n
      /\ new[1] = b /\ \A k \in 2..n : new[k] = IF k <= i THEN lru[k - 1] ELSE lru[k]
  <2> DEFINE rest == front \o back
  <2>1. <<b>> \in Seq(Buf) /\ Len(<<b>>) = 1 /\ <<b>>[1] = b
    OBVIOUS
  <2>2. rest \in Seq(Buf) /\ Len(rest) = n - 1
        /\ \A k \in 1..(n - 1) : rest[k] = IF k < i THEN lru[k] ELSE lru[k + 1]
    BY <1>7
  <2> HIDE DEF rest
  <2>3. /\ <<b>> \o rest \in Seq(Buf) /\ Len(<<b>> \o rest) = 1 + (n - 1)
        /\ \A k \in 1..(1 + (n - 1)) :
             (<<b>> \o rest)[k] = IF k <= 1 THEN <<b>>[k] ELSE rest[k - 1]
    BY <2>1, <2>2, ConcatProperties
  <2>4. new = <<b>> \o rest
    BY <1>3 DEF rest
  <2> QED
    BY <1>1, <1>2, <2>1, <2>2, <2>3, <2>4
<1>9. DOMAIN new = 1..n
  BY <1>8, LenProperties
<1>10. IsInjective(new)
  <2>1. \A j, k \in 1..n : lru[j] = lru[k] => j = k
    BY <1>1 DEF ListComplete, IsInjective
  <2>2. ASSUME NEW j \in 1..n, NEW k \in 1..n, new[j] = new[k] PROVE j = k
    <3> DEFINE old(m) == IF m = 1 THEN i ELSE IF m <= i THEN m - 1 ELSE m
    <3>1. ASSUME NEW m \in 1..n PROVE old(m) \in 1..n /\ new[m] = lru[old(m)]
      BY <1>1, <1>2, <1>8
    <3>2. lru[old(j)] = lru[old(k)] /\ old(j) \in 1..n /\ old(k) \in 1..n
      BY <2>2, <3>1
    <3>3. old(j) = old(k)
      BY <2>1, <3>2
    <3> QED
      BY <1>1, <1>2, <3>3
  <2> QED
    BY <1>9, <2>2 DEF IsInjective
<1>11. ToSet(new) = Buf
  <2>1. ASSUME NEW k \in 1..n PROVE new[k] \in Buf
    BY <1>8, <2>1, ElementOfSeq
  <2>2. ASSUME NEW c \in Buf PROVE \E k \in 1..n : new[k] = c
    <3>1. PICK j \in 1..n : lru[j] = c
      BY <1>1 DEF ListComplete, ToSet
    <3>2. CASE j = i
      BY <1>1, <1>2, <1>8, <3>1, <3>2
    <3>3. CASE j < i
      <4>1. j + 1 \in 2..n /\ j + 1 <= i /\ (j + 1) - 1 = j
        BY <1>1, <1>2, <3>3
      <4> QED
        BY <1>8, <3>1, <4>1
    <3>4. CASE j > i
      <4>1. j \in 2..n /\ ~(j <= i)
        BY <1>1, <1>2, <3>4
      <4> QED
        BY <1>8, <3>1, <4>1
    <3> QED
      BY <1>1, <1>2, <3>2, <3>3, <3>4
  <2> QED
    BY <1>9, <2>1, <2>2 DEF ToSet
<1> QED
  BY <1>8, <1>10, <1>11 DEF new

-----------------------------------------------------------------------------
(* Who has what. *)

LEMMA UsesAre ==
  ASSUME IInv
  PROVE  /\ \A p \in Proc : Uses(p) \subseteq Buf /\ Locks(p) \subseteq Uses(p)
         /\ \A p \in Proc : held[p] \subseteq Locks(p)
         /\ \A p \in Proc : pc[p] # "run" => cur[p] \in Uses(p)
         /\ \A p \in Proc : pc[p] \in {"read", "asleep", "woken"} => cur[p] \in Locks(p)
<1>1. TypeOK /\ Standing
  BY DEF IInv, CacheInv
<1>2. ASSUME NEW p \in Proc PROVE pc[p] # "run" => cur[p] \in Buf
  BY <1>1, <1>2 DEF TypeOK, Standing
<1> QED
  BY <1>1, <1>2 DEF TypeOK, Uses, Locks

\* The sleep-lock of a buffer excludes.
LEMMA OneHolder ==
  ASSUME IInv, NEW p \in Proc, NEW q \in Proc, NEW b \in Locks(p), b \in Locks(q)
  PROVE  p = q
<1>1. b \in Buf
  BY UsesAre
<1> QED
  BY <1>1 DEF IInv, CacheInv, UsersCounted

\* A buffer is counted as often as it is used.
LEMMA CountIs ==
  ASSUME IInv, NEW b \in Buf
  PROVE  /\ IsFiniteSet(Users(b)) /\ refcnt[b] = Cardinality(Users(b)) /\ refcnt[b] \in Nat
         /\ refcnt[b] = 0 <=> \A p \in Proc : b \notin Uses(p)
<1>1. IsFiniteSet(Users(b)) /\ (Cardinality(Users(b)) = 0 <=> Users(b) = {})
  <2>1. IsFiniteSet(Users(b))
    BY ConstantsAssumption, FS_Subset DEF Users
  <2> QED
    BY <2>1, FS_EmptySet
<1>2. refcnt[b] = Cardinality(Users(b)) /\ refcnt[b] \in Nat
  BY DEF IInv, CacheInv, UsersCounted, TypeOK, Users
<1>3. Users(b) = {} <=> \A p \in Proc : b \notin Uses(p)
  BY DEF Users
<1> QED
  BY <1>1, <1>2, <1>3

\* One process comes to use a buffer, or ceases to.
LEMMA CountMoves ==
  ASSUME IInv, NEW b \in Buf, NEW p \in Proc,
         \A q \in Proc \ {p} : b \in Uses(q)' <=> b \in Uses(q)
  PROVE  /\ b \notin Uses(p) /\ (b \in Uses(p))' => Cardinality(Users(b))' = refcnt[b] + 1
         /\ b \in Uses(p) /\ (b \notin Uses(p))' => Cardinality(Users(b))' = refcnt[b] - 1
         /\ (b \in Uses(p) <=> b \in Uses(p)') => Cardinality(Users(b))' = refcnt[b]
<1>1. IsFiniteSet(Users(b)) /\ refcnt[b] = Cardinality(Users(b))
  BY CountIs
<1>2. ASSUME b \notin Uses(p), (b \in Uses(p))' PROVE Cardinality(Users(b))' = refcnt[b] + 1
  <2>1. Users(b)' = Users(b) \cup {p} /\ p \notin Users(b)
    BY <1>2 DEF Users
  <2> QED
    BY <1>1, <2>1, FS_AddElement
<1>3. ASSUME b \in Uses(p), (b \notin Uses(p))' PROVE Cardinality(Users(b))' = refcnt[b] - 1
  <2>1. Users(b)' = Users(b) \ {p} /\ p \in Users(b)
    BY <1>3 DEF Users
  <2> QED
    BY <1>1, <2>1, FS_RemoveElement
<1>4. ASSUME b \in Uses(p) <=> b \in Uses(p)' PROVE Cardinality(Users(b))' = refcnt[b]
  <2>1. Users(b)' = Users(b)
    BY <1>4 DEF Users
  <2> QED
    BY <1>1, <2>1
<1> QED
  BY <1>2, <1>3, <1>4

\* Whoever is asleep has its request in the queue, once.
LEMMA QueueIs ==
  ASSUME IInv
  PROVE  /\ idequeue \in Seq(Buf) /\ Len(idequeue) \in Nat /\ DOMAIN idequeue = 1..Len(idequeue)
         /\ \A p \in Proc : pc[p] = "asleep" => \E k \in 1..Len(idequeue) : idequeue[k] = cur[p]
         /\ \A k \in 1..Len(idequeue) : \E p \in Proc : pc[p] = "asleep" /\ cur[p] = idequeue[k]
         /\ \A j, k \in 1..Len(idequeue) : idequeue[j] = idequeue[k] => j = k
         /\ idequeue # <<>> => Head(idequeue) = idequeue[1] /\ Len(idequeue) >= 1
<1>1. idequeue \in Seq(Buf) /\ Len(idequeue) \in Nat /\ DOMAIN idequeue = 1..Len(idequeue)
  BY LenProperties DEF IInv, CacheInv, TypeOK
<1>2. {idequeue[k] : k \in 1..Len(idequeue)} = {cur[p] : p \in {q \in Proc : pc[q] = "asleep"}}
  BY <1>1 DEF IInv, CacheInv, QueueOfSleepers, ToSet
<1>3. \A j, k \in 1..Len(idequeue) : idequeue[j] = idequeue[k] => j = k
  BY <1>1 DEF IInv, CacheInv, QueueOfSleepers, IsInjective
<1>4. ASSUME NEW p \in Proc, pc[p] = "asleep" PROVE \E k \in 1..Len(idequeue) : idequeue[k] = cur[p]
  <2>1. cur[p] \in {cur[r] : r \in {q \in Proc : pc[q] = "asleep"}}
    BY <1>4
  <2> QED
    BY <1>2, <2>1
<1>5. ASSUME NEW k \in 1..Len(idequeue) PROVE \E p \in Proc : pc[p] = "asleep" /\ cur[p] = idequeue[k]
  <2>1. idequeue[k] \in {idequeue[j] : j \in 1..Len(idequeue)}
    OBVIOUS
  <2> QED
    BY <1>2, <2>1
<1>6. idequeue # <<>> => Head(idequeue) = idequeue[1] /\ Len(idequeue) >= 1
  BY <1>1
<1> QED
  BY <1>1, <1>3, <1>4, <1>5, <1>6

\* A step that leaves the queue, the disk and the sleepers alone, and the
\* buffers that are queued, leaves the command right.
LEMMA QueueStays ==
  ASSUME IInv, UNCHANGED <<idequeue, command>>,
         \A p \in Proc : pc'[p] = "asleep" <=> pc[p] = "asleep",
         \A p \in Proc : pc[p] = "asleep" =>
           /\ cur'[p] = cur[p] /\ blockno'[cur[p]] = blockno[cur[p]]
           /\ dirty'[cur[p]] = dirty[cur[p]] /\ data'[cur[p]] = data[cur[p]]
  PROVE  QueueOfSleepers'
<1>1. QueueOfSleepers
  BY DEF IInv, CacheInv
<1>2. {cur[p] : p \in {q \in Proc : pc[q] = "asleep"}}' = {cur[p] : p \in {q \in Proc : pc[q] = "asleep"}}
  OBVIOUS
<1>3. NextCommand(idequeue)' = NextCommand(idequeue)
  <2>1. CASE idequeue = <<>>
    BY <2>1 DEF NextCommand
  <2>2. CASE idequeue # <<>>
    <3> DEFINE h == Head(idequeue)
    <3>1. 1 \in 1..Len(idequeue) /\ h = idequeue[1]
      BY <2>2, QueueIs
    <3>2. PICK p \in Proc : pc[p] = "asleep" /\ cur[p] = h
      BY <3>1, QueueIs
    <3>3. blockno'[h] = blockno[h] /\ dirty'[h] = dirty[h] /\ data'[h] = data[h]
      BY <3>2
    <3> QED
      BY <3>3 DEF NextCommand, Started
  <2> QED
    BY <2>1, <2>2
<1> QED
  BY <1>1, <1>2, <1>3 DEF QueueOfSleepers, ToSet, IsInjective

-----------------------------------------------------------------------------
(* bget() *)

\* Where everybody stands after a Goto.
LEMMA GoesTo ==
  ASSUME TypeOK, NEW p \in Proc, NEW to \in PC, NEW b \in Buf \cup {NoBuf}, Goto(p, to, b)
  PROVE  /\ pc' \in [Proc -> PC] /\ cur' \in [Proc -> Buf \cup {NoBuf}]
         /\ pc'[p] = to /\ cur'[p] = b
         /\ \A q \in Proc \ {p} : pc'[q] = pc[q] /\ cur'[q] = cur[q]
BY DEF TypeOK, Goto

LEMMA BgetHitKeeps ==
  ASSUME IInv, ~panicked, NEW p \in Proc, NEW blk \in Block, BgetHit(p, blk)
  PROVE  IInv'
<1>1. PICK b \in Cached(blk) :
        /\ refcnt' = [refcnt EXCEPT ![b] = @ + 1] /\ Goto(p, "lock", b)
        /\ UNCHANGED <<blockno, valid, dirty, data, lock, lru, idequeue, command, disk, held, panicked>>
  BY DEF BgetHit, flags, drive
<1>2. b \in Buf /\ blockno[b] = blk /\ blk # NoBlock /\ b \notin held[p] /\ pc[p] = "run"
  <2>1. b \in Buf /\ blockno[b] = blk /\ pc[p] = "run" /\ \A c \in held[p] : blockno[c] < blk
    BY <1>1 DEF BgetHit, MayCall, Cached
  <2>2. blk \in Nat /\ blk # NoBlock
    BY ConstantsAssumption
  <2> QED
    BY <2>1, <2>2
<1>3. TypeOK /\ OneBuffer /\ UsersCounted /\ CleanIsStored /\ ListComplete /\ Standing /\ Assigned
  BY DEF IInv, CacheInv
<1>4. /\ pc' \in [Proc -> PC] /\ cur' \in [Proc -> Buf \cup {NoBuf}]
      /\ pc'[p] = "lock" /\ cur'[p] = b
      /\ \A q \in Proc \ {p} : pc'[q] = pc[q] /\ cur'[q] = cur[q]
  BY <1>1, <1>2, <1>3, GoesTo DEF PC
<1>5. /\ Uses(p) = held[p] /\ Uses(p)' = held[p] \cup {b}
      /\ \A q \in Proc \ {p} : Uses(q)' = Uses(q)
      /\ \A q \in Proc : Locks(q)' = Locks(q)
  BY <1>1, <1>2, <1>4 DEF Uses, Locks
<1>6. TypeOK'
  BY <1>1, <1>2, <1>3, <1>4 DEF TypeOK
<1>7. OneBuffer' /\ CleanIsStored' /\ ListComplete' /\ NoneForgotten'
  BY <1>1, <1>3 DEF OneBuffer, CleanIsStored, ListComplete, NoneForgotten
<1>8. UsersCounted'
  <2>1. ASSUME NEW c \in Buf PROVE refcnt'[c] = Cardinality(Users(c))'
    <3>1. \A q \in Proc \ {p} : c \in Uses(q)' <=> c \in Uses(q)
      BY <1>5
    <3>2. CASE c = b
      <4>1. c \notin Uses(p) /\ (c \in Uses(p))' /\ refcnt'[c] = refcnt[c] + 1
        BY <1>1, <1>2, <1>3, <1>5, <3>2 DEF TypeOK
      <4> QED
        BY <3>1, <4>1, CountMoves
    <3>3. CASE c # b
      <4>1. (c \in Uses(p) <=> c \in Uses(p)') /\ refcnt'[c] = refcnt[c]
        BY <1>1, <1>3, <1>5, <3>3 DEF TypeOK
      <4> QED
        BY <3>1, <4>1, CountMoves
    <3> QED
      BY <3>2, <3>3
  <2> QED
    BY <1>1, <1>3, <1>5, <2>1, ZenonT(30) DEF UsersCounted, Users
<1>9. QueueOfSleepers'
  BY <1>1, <1>2, <1>4, QueueStays
<1>10. Standing'
  BY <1>1, <1>2, <1>3, <1>4, ConstantsAssumption DEF Standing
<1>11. Assigned'
  BY <1>1, <1>2, <1>3, <1>5 DEF Assigned
<1> QED
  BY <1>6, <1>7, <1>8, <1>9, <1>10, <1>11 DEF IInv, CacheInv

\* BgetMiss with the buffer that the scan finds.
BgetMissIn(p, blk, b) ==
  /\ b \in Buf /\ Unused(b) /\ MayCall(p, blk) /\ Cached(blk) = {}
  /\ Recycle(b, blk)
  /\ Goto(p, "lock", b)
  /\ UNCHANGED <<data, lock, lru, idequeue, command, disk, held, panicked>>

LEMMA BgetMissFinds ==
  ASSUME TypeOK, NEW p \in Proc, NEW blk \in Block, BgetMiss(p, blk)
  PROVE  \E b \in Buf : BgetMissIn(p, blk, b)
<1> DEFINE i == SelectLastInSeq(lru, Unused)
<1>1. /\ MayCall(p, blk) /\ Cached(blk) = {} /\ i > 0
      /\ Recycle(lru[i], blk) /\ Goto(p, "lock", lru[i])
      /\ UNCHANGED <<data, lock, lru, idequeue, command, disk, held, panicked>>
  BY DEF BgetMiss, drive
<1>2. lru[i] \in Buf /\ Unused(lru[i])
  BY <1>1, ScanFinds
<1> QED
  BY <1>1, <1>2 DEF BgetMissIn

\* Nobody uses the buffer that is recycled, nor is it queued.
LEMMA BgetMissKeeps ==
  ASSUME IInv, ~panicked, NEW p \in Proc, NEW blk \in Block, BgetMiss(p, blk)
  PROVE  IInv'
<1>1. TypeOK /\ OneBuffer /\ UsersCounted /\ CleanIsStored /\ ListComplete /\ Standing /\ Assigned
  BY DEF IInv, CacheInv
<1>2. PICK b \in Buf : BgetMissIn(p, blk, b)
  BY <1>1, BgetMissFinds
<1>3. /\ refcnt[b] = 0 /\ ~dirty[b] /\ pc[p] = "run" /\ \A c \in Buf : blockno[c] # blk
      /\ blockno' = [blockno EXCEPT ![b] = blk] /\ refcnt' = [refcnt EXCEPT ![b] = 1]
      /\ valid' = [valid EXCEPT ![b] = FALSE] /\ dirty' = [dirty EXCEPT ![b] = FALSE]
      /\ Goto(p, "lock", b)
      /\ UNCHANGED <<data, lock, lru, idequeue, command, disk, held, panicked>>
  BY <1>2 DEF BgetMissIn, Unused, MayCall, Cached, Recycle
<1>4. blk # NoBlock /\ \A q \in Proc : b \notin Uses(q)
  BY <1>3, CountIs, ConstantsAssumption
<1>5. /\ pc' \in [Proc -> PC] /\ cur' \in [Proc -> Buf \cup {NoBuf}]
      /\ pc'[p] = "lock" /\ cur'[p] = b
      /\ \A q \in Proc \ {p} : pc'[q] = pc[q] /\ cur'[q] = cur[q]
  BY <1>1, <1>3, GoesTo DEF PC
<1>6. /\ Uses(p) = held[p] /\ Uses(p)' = held[p] \cup {b}
      /\ \A q \in Proc \ {p} : Uses(q)' = Uses(q)
      /\ \A q \in Proc : Locks(q)' = Locks(q)
  BY <1>3, <1>5 DEF Uses, Locks
<1>7. TypeOK'
  BY <1>1, <1>3, <1>5 DEF TypeOK
<1>8. OneBuffer' /\ CleanIsStored' /\ ListComplete' /\ NoneForgotten'
  BY <1>1, <1>3 DEF TypeOK, OneBuffer, CleanIsStored, ListComplete, NoneForgotten
<1>9. UsersCounted'
  <2>1. ASSUME NEW c \in Buf PROVE refcnt'[c] = Cardinality(Users(c))'
    <3>1. \A q \in Proc \ {p} : c \in Uses(q)' <=> c \in Uses(q)
      BY <1>6
    <3>2. CASE c = b
      <4>1. c \notin Uses(p) /\ (c \in Uses(p))' /\ refcnt'[c] = refcnt[c] + 1
        BY <1>1, <1>3, <1>4, <1>6, <3>2 DEF TypeOK
      <4> QED
        BY <3>1, <4>1, CountMoves
    <3>3. CASE c # b
      <4>1. (c \in Uses(p) <=> c \in Uses(p)') /\ refcnt'[c] = refcnt[c]
        BY <1>1, <1>3, <1>6, <3>3 DEF TypeOK
      <4> QED
        BY <3>1, <4>1, CountMoves
    <3> QED
      BY <3>2, <3>3
  <2>2. \A c \in Buf : \A q \in Proc : lock'[c] = q <=> c \in Locks(q)'
    <3>1. lock' = lock /\ \A q \in Proc : Locks(q)' = Locks(q)
      BY <1>3, <1>6
    <3>2. \A c \in Buf : \A q \in Proc : lock[c] = q <=> c \in Locks(q)
      BY <1>1 DEF UsersCounted
    <3> QED
      BY <3>1, <3>2
  <2> QED
    BY <2>1, <2>2 DEF UsersCounted, Users
<1>10. QueueOfSleepers'
  <2>1. ASSUME NEW q \in Proc, pc[q] = "asleep"
        PROVE  /\ cur'[q] = cur[q] /\ blockno'[cur[q]] = blockno[cur[q]]
               /\ dirty'[cur[q]] = dirty[cur[q]] /\ data'[cur[q]] = data[cur[q]]
    <3>1. q # p /\ cur[q] # b /\ cur[q] \in Buf
      BY <1>3, <1>4, <2>1, UsesAre
    <3> QED
      BY <1>1, <1>3, <1>5, <3>1 DEF TypeOK
  <2> QED
    BY <1>3, <1>5, <2>1, QueueStays
<1>11. Standing'
  BY <1>1, <1>3, <1>4, <1>5, <1>6, ConstantsAssumption DEF Standing
<1>12. Assigned'
  <2>1. ASSUME NEW q \in Proc, NEW c \in Uses(q)' PROVE blockno'[c] # NoBlock
    <3>1. c = b \/ c \in Uses(q)
      BY <1>6
    <3> QED
      BY <1>1, <1>3, <1>4, <3>1, UsesAre DEF TypeOK, Assigned
  <2>2. ASSUME NEW q \in Proc, NEW c \in held'[q] PROVE valid'[c]
    <3>1. c \in held[q] /\ c # b /\ c \in Buf
      BY <1>3, <1>4, UsesAre
    <3> QED
      BY <1>1, <1>3, <3>1 DEF TypeOK, Assigned
  <2>3. ASSUME NEW c \in Buf PROVE (dirty'[c] => valid'[c]) /\ (valid'[c] => blockno'[c] # NoBlock)
    BY <1>1, <1>3 DEF TypeOK, Assigned
  <2> QED
    BY <2>1, <2>2, <2>3 DEF Assigned
<1> QED
  BY <1>7, <1>8, <1>9, <1>10, <1>11, <1>12 DEF IInv, CacheInv

\* Each buffer that is not unused is counted, and so used, or modified; and one
\* that is modified and queued is used by who waits for it.
LEMMA BgetPanicKeeps ==
  ASSUME IInv, NEW p \in Proc, NEW blk \in Block, BgetPanic(p, blk)
  PROVE  IInv'
<1>1. /\ \A b \in Buf : ~Unused(b)
      /\ UNCHANGED <<blockno, refcnt, valid, dirty, data, lock, lru, idequeue, command, disk, pc, cur, held>>
      /\ panicked' = TRUE
  BY DEF BgetPanic, bufs, flags, drive, procs
<1>2. ASSUME NEW b \in Buf, \A q \in Proc : b \notin Uses(q) PROVE b \in Pinned
  <2>1. dirty[b]
    BY <1>1, <1>2, CountIs DEF Unused
  <2>2. ~Contains(idequeue, b)
    BY <1>2, QueueIs, UsesAre DEF Contains
  <2> QED
    BY <2>1, <2>2 DEF Pinned
<1>3. Pinned \subseteq Buf /\ \A q \in Proc : Uses(q) \subseteq Buf
  BY UsesAre DEF Pinned
<1>4. Buf = Pinned \cup UNION {Uses(q) : q \in Proc}
  BY <1>2, <1>3
<1>5. Pinned' = Pinned /\ \A q \in Proc : Uses(q)' = Uses(q) /\ Locks(q)' = Locks(q)
  BY <1>1 DEF Pinned, Contains, Uses, Locks
<1>6. (UNION {Uses(q) : q \in Proc})' = UNION {Uses(q) : q \in Proc}
  BY <1>5
<1>7. NoneForgotten'
  BY <1>4, <1>5, <1>6 DEF NoneForgotten
<1>8. TypeOK' /\ OneBuffer' /\ CleanIsStored' /\ ListComplete' /\ QueueOfSleepers' /\ Standing'
  BY <1>1 DEF IInv, CacheInv, TypeOK, OneBuffer, CleanIsStored, ListComplete, QueueOfSleepers,
    NextCommand, Started, Standing
<1>9. UsersCounted' /\ Assigned'
  BY <1>1, <1>5 DEF IInv, CacheInv, UsersCounted, Assigned
<1> QED
  BY <1>7, <1>8, <1>9 DEF IInv, CacheInv

LEMMA BgetLockKeeps ==
  ASSUME IInv, ~panicked, NEW p \in Proc, BgetLock(p)
  PROVE  IInv'
<1> DEFINE b == cur[p]
<1>1. /\ pc[p] = "lock" /\ lock[b] = NoProc
      /\ lock' = [lock EXCEPT ![b] = p] /\ Goto(p, "read", b)
      /\ UNCHANGED <<blockno, refcnt, valid, dirty, data, lru, idequeue, command, disk, held, panicked>>
  BY DEF BgetLock, flags, drive
<1>2. TypeOK /\ OneBuffer /\ UsersCounted /\ CleanIsStored /\ ListComplete /\ Standing /\ Assigned
  BY DEF IInv, CacheInv
<1>3. b \in Buf /\ b \notin held[p]
  BY <1>1, <1>2, UsesAre DEF Standing
<1>4. /\ pc' \in [Proc -> PC] /\ cur' \in [Proc -> Buf \cup {NoBuf}]
      /\ pc'[p] = "read" /\ cur'[p] = b
      /\ \A q \in Proc \ {p} : pc'[q] = pc[q] /\ cur'[q] = cur[q]
  BY <1>1, <1>2, <1>3, GoesTo DEF PC
<1>5. /\ \A q \in Proc : Uses(q)' = Uses(q)
      /\ Locks(p)' = Locks(p) \cup {b}
      /\ \A q \in Proc \ {p} : Locks(q)' = Locks(q)
  BY <1>1, <1>4 DEF Uses, Locks
<1> HIDE DEF b
<1>6. TypeOK'
  BY <1>1, <1>2, <1>3, <1>4 DEF TypeOK
<1>7. OneBuffer' /\ CleanIsStored' /\ ListComplete' /\ NoneForgotten'
  BY <1>1, <1>2 DEF OneBuffer, CleanIsStored, ListComplete, NoneForgotten
<1>8. UsersCounted'
  <2>1. ASSUME NEW c \in Buf PROVE refcnt'[c] = Cardinality(Users(c))'
    BY <1>1, <1>2, <1>5, CountMoves
  <2>2. ASSUME NEW c \in Buf, NEW q \in Proc PROVE lock'[c] = q <=> c \in Locks(q)'
    <3>1. CASE c # b
      BY <1>1, <1>2, <1>5, <3>1, ZenonT(30) DEF UsersCounted, TypeOK
    <3>2. CASE c = b
      <4>1. lock'[b] = p
        BY <1>1, <1>2, <1>3 DEF TypeOK
      <4>2. \A r \in Proc : b \notin Locks(r)
        BY <1>1, <1>2, <1>3, ConstantsAssumption DEF UsersCounted
      <4> QED
        BY <1>5, <3>2, <4>1, <4>2
    <3> QED
      BY <3>1, <3>2
  <2> QED
    BY <2>1, <2>2 DEF UsersCounted, Users
<1>9. QueueOfSleepers'
  BY <1>1, <1>4, QueueStays
<1>10. Standing'
  BY <1>1, <1>2, <1>3, <1>4, ConstantsAssumption DEF Standing
<1>11. Assigned'
  BY <1>1, <1>2, <1>5 DEF Assigned
<1> QED
  BY <1>6, <1>7, <1>8, <1>9, <1>10, <1>11 DEF IInv, CacheInv

-----------------------------------------------------------------------------
(* bread() and iderw() *)

\* A process gets the buffer it has locked, once that is valid.
LEMMA ReturnsKeeps ==
  ASSUME IInv, ~panicked, NEW p \in Proc, pc[p] \in {"read", "woken"}, valid[cur[p]],
         Returns(p), UNCHANGED <<bufs, drive, panicked>>
  PROVE  IInv'
<1> DEFINE b == cur[p]
<1>1. /\ held' = [held EXCEPT ![p] = @ \cup {b}] /\ Goto(p, "run", NoBuf)
      /\ UNCHANGED <<blockno, refcnt, valid, dirty, data, lock, lru, idequeue, command, disk, panicked>>
  BY DEF Returns, bufs, flags, drive
<1>2. TypeOK /\ OneBuffer /\ UsersCounted /\ CleanIsStored /\ ListComplete /\ Standing /\ Assigned
  BY DEF IInv, CacheInv
<1>3. b \in Buf
  BY UsesAre
<1>4. /\ pc' \in [Proc -> PC] /\ cur' \in [Proc -> Buf \cup {NoBuf}]
      /\ pc'[p] = "run" /\ cur'[p] = NoBuf
      /\ \A q \in Proc \ {p} : pc'[q] = pc[q] /\ cur'[q] = cur[q]
  BY <1>1, <1>2, GoesTo DEF PC
<1>5. held' \in [Proc -> SUBSET Buf] /\ held'[p] = held[p] \cup {b} /\ \A q \in Proc \ {p} : held'[q] = held[q]
  BY <1>1, <1>2, <1>3 DEF TypeOK
<1>6. \A q \in Proc : Uses(q)' = Uses(q) /\ Locks(q)' = Locks(q)
  BY <1>4, <1>5 DEF Uses, Locks
<1>7. valid[b]
  OBVIOUS
<1> HIDE DEF b
<1>8. TypeOK'
  BY <1>1, <1>2, <1>4, <1>5 DEF TypeOK
<1>9. OneBuffer' /\ CleanIsStored' /\ ListComplete' /\ NoneForgotten'
  BY <1>1, <1>2 DEF OneBuffer, CleanIsStored, ListComplete, NoneForgotten
<1>10. UsersCounted'
  <2>1. ASSUME NEW c \in Buf PROVE refcnt'[c] = Cardinality(Users(c))'
    BY <1>1, <1>2, <1>6, CountMoves
  <2> QED
    BY <1>1, <1>2, <1>6, <2>1 DEF UsersCounted, Users
<1>11. QueueOfSleepers'
  BY <1>1, <1>4, QueueStays
<1>12. Standing'
  BY <1>2, <1>4, <1>5 DEF Standing
<1>13. Assigned'
  BY <1>1, <1>2, <1>5, <1>6, <1>7 DEF Assigned
<1> QED
  BY <1>8, <1>9, <1>10, <1>11, <1>12, <1>13 DEF IInv, CacheInv

\* A process puts the buffer it has locked at the end of the queue, and sleeps.
LEMMA EnqueueKeepsQueue ==
  ASSUME IInv, NEW p \in Proc, NEW b \in Locks(p), pc[p] # "asleep",
         NEW write, NEW d, Enqueue(p, b, write, d), blockno' = blockno,
         dirty'[b] = write, data'[b] = d,
         \A c \in Buf \ {b} : dirty'[c] = dirty[c] /\ data'[c] = data[c]
  PROVE  QueueOfSleepers'
<1> DEFINE n == Len(idequeue)
           asleep == {q \in Proc : pc[q] = "asleep"}
<1>1. b \in Buf /\ idequeue \in Seq(Buf) /\ n \in Nat /\ DOMAIN idequeue = 1..n
  BY UsesAre, QueueIs
<1>2. TypeOK
  BY DEF IInv, CacheInv
<1>3. /\ idequeue' = Append(idequeue, b) /\ Goto(p, "asleep", b)
      /\ command' = IF idequeue = <<>> THEN Started(b, write, d) ELSE command
  BY DEF Enqueue
<1>4. /\ pc'[p] = "asleep" /\ cur'[p] = b
      /\ \A q \in Proc \ {p} : pc'[q] = pc[q] /\ cur'[q] = cur[q]
  BY <1>1, <1>2, <1>3, GoesTo DEF PC
<1>5. \A k \in 1..n : idequeue[k] # b
  <2>1. SUFFICES ASSUME NEW k \in 1..n, idequeue[k] = b PROVE FALSE
    OBVIOUS
  <2>2. PICK q \in Proc : pc[q] = "asleep" /\ cur[q] = b
    BY <2>1, QueueIs
  <2>3. b \in Locks(q)
    BY <2>2, UsesAre
  <2> QED
    BY <2>2, <2>3, OneHolder
<1>6. /\ DOMAIN idequeue' = 1..(n + 1) /\ idequeue'[n + 1] = b
      /\ \A k \in 1..n : idequeue'[k] = idequeue[k]
  BY <1>1, <1>3
<1>7. IsInjective(idequeue)'
  <2>1. \A j, k \in 1..n : idequeue[j] = idequeue[k] => j = k
    BY QueueIs
  <2>2. ASSUME NEW j \in 1..(n + 1), NEW k \in 1..(n + 1), idequeue'[j] = idequeue'[k] PROVE j = k
    <3>1. \A m \in 1..(n + 1) : m \in 1..n \/ m = n + 1
      BY <1>1
    <3> QED
      BY <1>5, <1>6, <2>1, <2>2, <3>1
  <2> QED
    BY <1>6, <2>2 DEF IsInjective
<1>8. ToSet(idequeue)' = {cur[q] : q \in asleep}'
  <2>1. ASSUME NEW k \in 1..(n + 1) PROVE \E q \in Proc : pc'[q] = "asleep" /\ cur'[q] = idequeue'[k]
    <3>1. CASE k = n + 1
      BY <1>4, <1>6, <3>1
    <3>2. CASE k \in 1..n
      <4>1. PICK q \in Proc : pc[q] = "asleep" /\ cur[q] = idequeue[k]
        BY <3>2, QueueIs
      <4>2. q # p
        BY <4>1
      <4> QED
        BY <1>4, <1>6, <3>2, <4>1, <4>2
    <3> QED
      BY <1>1, <3>1, <3>2
  <2>2. ASSUME NEW q \in Proc, pc'[q] = "asleep" PROVE \E k \in 1..(n + 1) : idequeue'[k] = cur'[q]
    <3>1. CASE q = p
      BY <1>1, <1>4, <1>6, <3>1
    <3>2. CASE q # p
      <4>1. pc[q] = "asleep" /\ cur'[q] = cur[q]
        BY <1>4, <2>2, <3>2
      <4>2. PICK k \in 1..n : idequeue[k] = cur[q]
        BY <4>1, QueueIs
      <4>3. k \in 1..(n + 1) /\ idequeue'[k] = cur'[q]
        BY <1>1, <1>6, <4>1, <4>2
      <4> QED
        BY <4>3
    <3> QED
      BY <3>1, <3>2
  <2>3. ToSet(idequeue)' = {idequeue'[k] : k \in 1..(n + 1)}
    BY <1>6 DEF ToSet
  <2> QED
    BY <2>1, <2>2, <2>3
<1>9. command' = NextCommand(idequeue)'
  <2>1. idequeue' # <<>>
    BY <1>1, <1>3
  <2>2. CASE idequeue = <<>>
    <3>1. Head(idequeue') = b
      BY <1>1, <1>3, <2>2
    <3> QED
      BY <1>3, <2>1, <2>2, <3>1 DEF NextCommand, Started
  <2>3. CASE idequeue # <<>>
    <3> DEFINE h == Head(idequeue)
    <3>1. h = idequeue[1] /\ 1 \in 1..n /\ Head(idequeue') = h
      BY <1>1, <1>3, <2>3, QueueIs
    <3>2. h \in Buf \ {b}
      BY <1>1, <1>5, <3>1
    <3>3. command = Started(h, dirty[h], data[h])
      BY <2>3 DEF IInv, CacheInv, QueueOfSleepers, NextCommand
    <3> HIDE DEF h
    <3>4. command' = Started(h, dirty'[h], data'[h])
      BY <1>3, <2>3, <3>2, <3>3
    <3> QED
      BY <2>1, <3>1, <3>4 DEF NextCommand, Started
  <2> QED
    BY <2>2, <2>3
<1> QED
  BY <1>7, <1>8, <1>9 DEF QueueOfSleepers

\* idestart() gives the disk a command that it has.
LEMMA StartedIsCommand ==
  ASSUME IInv, NEW p \in Proc, NEW b \in Uses(p), NEW write \in BOOLEAN, NEW d \in Value
  PROVE  Started(b, write, d) \in Command
<1>1. blockno[b] \in Block
  BY UsesAre DEF IInv, CacheInv, TypeOK, Assigned
<1> QED
  BY <1>1 DEF Started, Command

LEMMA BreadDiskKeeps ==
  ASSUME IInv, ~panicked, NEW p \in Proc, BreadDisk(p)
  PROVE  IInv'
<1> DEFINE b == cur[p]
<1>1. /\ pc[p] = "read" /\ ~valid[b]
      /\ Enqueue(p, b, FALSE, data[b]) /\ Goto(p, "asleep", b)
      /\ idequeue' = Append(idequeue, b)
      /\ command' = IF idequeue = <<>> THEN Started(b, FALSE, data[b]) ELSE command
      /\ UNCHANGED <<blockno, refcnt, valid, dirty, data, lock, lru, disk, held, panicked>>
  BY DEF BreadDisk, Enqueue, bufs, flags
<1>2. TypeOK /\ OneBuffer /\ UsersCounted /\ CleanIsStored /\ ListComplete /\ Standing /\ Assigned
  BY DEF IInv, CacheInv
<1>3. b \in Buf /\ b \in Locks(p) /\ b \in Uses(p)
  BY <1>1, UsesAre
<1>4. /\ pc' \in [Proc -> PC] /\ cur' \in [Proc -> Buf \cup {NoBuf}]
      /\ pc'[p] = "asleep" /\ cur'[p] = b
      /\ \A q \in Proc \ {p} : pc'[q] = pc[q] /\ cur'[q] = cur[q]
  BY <1>1, <1>2, <1>3, GoesTo DEF PC
<1>5. \A q \in Proc : Uses(q)' = Uses(q) /\ Locks(q)' = Locks(q)
  BY <1>1, <1>4 DEF Uses, Locks
<1>6. ~dirty[b]
  BY <1>1, <1>2, <1>3 DEF Assigned
<1> HIDE DEF b
<1>7. TypeOK'
  <2>1. command' \in Command \cup {NoCommand}
    BY <1>1, <1>2, <1>3, StartedIsCommand DEF TypeOK
  <2>2. idequeue' \in Seq(Buf)
    BY <1>1, <1>2, <1>3 DEF TypeOK
  <2> QED
    BY <1>1, <1>2, <1>4, <2>1, <2>2 DEF TypeOK
<1>8. OneBuffer' /\ CleanIsStored' /\ ListComplete' /\ NoneForgotten'
  BY <1>1, <1>2 DEF OneBuffer, CleanIsStored, ListComplete, NoneForgotten
<1>9. UsersCounted'
  <2>1. ASSUME NEW c \in Buf PROVE refcnt'[c] = Cardinality(Users(c))'
    BY <1>1, <1>2, <1>5, CountMoves
  <2> QED
    BY <1>1, <1>2, <1>5, <2>1 DEF UsersCounted, Users
<1>10. QueueOfSleepers'
  <2>1. dirty'[b] = FALSE /\ data'[b] = data[b]
    BY <1>1, <1>2, <1>3, <1>6 DEF TypeOK
  <2> QED
    BY <1>1, <1>3, <2>1, EnqueueKeepsQueue
<1>11. Standing'
  BY <1>1, <1>2, <1>3, <1>4, ConstantsAssumption DEF Standing
<1>12. Assigned'
  BY <1>1, <1>2, <1>5 DEF Assigned
<1> QED
  BY <1>7, <1>8, <1>9, <1>10, <1>11, <1>12 DEF IInv, CacheInv

-----------------------------------------------------------------------------
(* What a process does with its buffers *)

\* The contents that a process may put into a buffer it has.
LEMMA MayWrite ==
  ASSUME IInv, NEW p \in Proc, NEW b \in held[p], NEW v \in Written[blockno[b]]
  PROVE  /\ b \in Buf /\ b \in Locks(p) /\ b \in Uses(p) /\ blockno[b] \in Block
         /\ valid[b] /\ v \in Value
<1>1. b \in Buf /\ b \in Locks(p) /\ b \in Uses(p)
  BY UsesAre
<1>2. blockno[b] \in Block /\ valid[b]
  BY <1>1 DEF IInv, CacheInv, TypeOK, Assigned
<1> QED
  BY <1>1, <1>2, ConstantsAssumption

LEMMA LogWriteKeeps ==
  ASSUME IInv, ~panicked, NEW p \in Proc, NEW b \in Buf, NEW v \in Value, LogWrite(p, b, v)
  PROVE  IInv'
<1>1. /\ pc[p] = "run" /\ b \in held[p] /\ v \in Written[blockno[b]]
      /\ data' = [data EXCEPT ![b] = v] /\ dirty' = [dirty EXCEPT ![b] = TRUE]
      /\ UNCHANGED <<blockno, refcnt, valid, lock, lru, idequeue, command, disk, pc, cur, held, panicked>>
  BY DEF LogWrite, drive, procs
<1>2. TypeOK /\ OneBuffer /\ UsersCounted /\ CleanIsStored /\ ListComplete /\ Standing /\ Assigned
  BY DEF IInv, CacheInv
<1>3. b \in Locks(p) /\ valid[b]
  BY <1>1, MayWrite
<1>4. \A q \in Proc : Uses(q)' = Uses(q) /\ Locks(q)' = Locks(q)
  BY <1>1 DEF Uses, Locks
<1>5. /\ dirty' \in [Buf -> BOOLEAN] /\ data' \in [Buf -> Value] /\ dirty'[b]
      /\ \A c \in Buf \ {b} : dirty'[c] = dirty[c] /\ data'[c] = data[c]
  BY <1>1, <1>2 DEF TypeOK
<1>6. TypeOK'
  BY <1>1, <1>2, <1>5 DEF TypeOK
<1>7. OneBuffer' /\ ListComplete' /\ NoneForgotten'
  BY <1>1, <1>2 DEF OneBuffer, ListComplete, NoneForgotten
<1>8. CleanIsStored'
  BY <1>1, <1>2, <1>5 DEF CleanIsStored
<1>9. UsersCounted'
  <2>1. ASSUME NEW c \in Buf PROVE refcnt'[c] = Cardinality(Users(c))'
    BY <1>1, <1>2, <1>4, CountMoves
  <2> QED
    BY <1>1, <1>2, <1>4, <2>1 DEF UsersCounted, Users
<1>10. QueueOfSleepers'
  <2>1. ASSUME NEW q \in Proc, pc[q] = "asleep" PROVE cur[q] \in Buf \ {b}
    <3>1. cur[q] \in Locks(q) /\ cur[q] \in Buf
      BY <2>1, UsesAre
    <3> QED
      BY <1>1, <1>3, <2>1, <3>1, OneHolder
  <2> QED
    BY <1>1, <1>5, <2>1, QueueStays
<1>11. Standing'
  BY <1>1, <1>2 DEF Standing
<1>12. Assigned'
  BY <1>1, <1>2, <1>3, <1>4, <1>5 DEF Assigned
<1> QED
  BY <1>6, <1>7, <1>8, <1>9, <1>10, <1>11, <1>12 DEF IInv, CacheInv

LEMMA BwriteKeeps ==
  ASSUME IInv, ~panicked, NEW p \in Proc, NEW b \in Buf, NEW v \in Value, bwrite(p, b, v)
  PROVE  IInv'
<1>1. /\ pc[p] = "run" /\ b \in held[p] /\ v \in Written[blockno[b]]
      /\ data' = [data EXCEPT ![b] = v] /\ dirty' = [dirty EXCEPT ![b] = TRUE]
      /\ Enqueue(p, b, TRUE, v) /\ Goto(p, "asleep", b)
      /\ idequeue' = Append(idequeue, b)
      /\ command' = IF idequeue = <<>> THEN Started(b, TRUE, v) ELSE command
      /\ UNCHANGED <<blockno, refcnt, valid, lock, lru, disk, held, panicked>>
  BY DEF bwrite, Enqueue
<1>2. TypeOK /\ OneBuffer /\ UsersCounted /\ CleanIsStored /\ ListComplete /\ Standing /\ Assigned
  BY DEF IInv, CacheInv
<1>3. b \in Locks(p) /\ b \in Uses(p) /\ valid[b]
  BY <1>1, MayWrite
<1>4. /\ pc' \in [Proc -> PC] /\ cur' \in [Proc -> Buf \cup {NoBuf}]
      /\ pc'[p] = "asleep" /\ cur'[p] = b
      /\ \A q \in Proc \ {p} : pc'[q] = pc[q] /\ cur'[q] = cur[q]
  BY <1>1, <1>2, GoesTo DEF PC
<1>5. \A q \in Proc : Uses(q)' = Uses(q) /\ Locks(q)' = Locks(q)
  BY <1>1, <1>4 DEF Uses, Locks
<1>6. /\ dirty' \in [Buf -> BOOLEAN] /\ data' \in [Buf -> Value] /\ dirty'[b] = TRUE /\ data'[b] = v
      /\ \A c \in Buf \ {b} : dirty'[c] = dirty[c] /\ data'[c] = data[c]
  BY <1>1, <1>2 DEF TypeOK
<1>7. TypeOK'
  <2>1. command' \in Command \cup {NoCommand}
    BY <1>1, <1>2, <1>3, StartedIsCommand DEF TypeOK
  <2>2. idequeue' \in Seq(Buf)
    BY <1>1, <1>2 DEF TypeOK
  <2> QED
    BY <1>1, <1>2, <1>4, <1>6, <2>1, <2>2 DEF TypeOK
<1>8. OneBuffer' /\ ListComplete' /\ NoneForgotten'
  BY <1>1, <1>2 DEF OneBuffer, ListComplete, NoneForgotten
<1>9. CleanIsStored'
  BY <1>1, <1>2, <1>6 DEF CleanIsStored
<1>10. UsersCounted'
  <2>1. ASSUME NEW c \in Buf PROVE refcnt'[c] = Cardinality(Users(c))'
    BY <1>1, <1>2, <1>5, CountMoves
  <2> QED
    BY <1>1, <1>2, <1>5, <2>1 DEF UsersCounted, Users
<1>11. QueueOfSleepers'
  BY <1>1, <1>3, <1>6, EnqueueKeepsQueue
<1>12. Standing'
  BY <1>1, <1>2, <1>4, ConstantsAssumption DEF Standing
<1>13. Assigned'
  BY <1>1, <1>2, <1>3, <1>5, <1>6 DEF Assigned
<1> QED
  BY <1>7, <1>8, <1>9, <1>10, <1>11, <1>12, <1>13 DEF IInv, CacheInv

LEMMA BrelseUnlockKeeps ==
  ASSUME IInv, ~panicked, NEW p \in Proc, NEW b \in Buf, BrelseUnlock(p, b)
  PROVE  IInv'
<1>1. /\ pc[p] = "run" /\ b \in held[p]
      /\ lock' = [lock EXCEPT ![b] = NoProc] /\ held' = [held EXCEPT ![p] = @ \ {b}]
      /\ Goto(p, "brelse", b)
      /\ UNCHANGED <<blockno, refcnt, valid, dirty, data, lru, idequeue, command, disk, panicked>>
  BY DEF BrelseUnlock, flags, drive
<1>2. TypeOK /\ OneBuffer /\ UsersCounted /\ CleanIsStored /\ ListComplete /\ Standing /\ Assigned
  BY DEF IInv, CacheInv
<1>3. b \in Locks(p)
  BY <1>1, UsesAre
<1>4. /\ pc' \in [Proc -> PC] /\ cur' \in [Proc -> Buf \cup {NoBuf}]
      /\ pc'[p] = "brelse" /\ cur'[p] = b
      /\ \A q \in Proc \ {p} : pc'[q] = pc[q] /\ cur'[q] = cur[q]
  BY <1>1, <1>2, GoesTo DEF PC
<1>5. held' \in [Proc -> SUBSET Buf] /\ held'[p] = held[p] \ {b} /\ \A q \in Proc \ {p} : held'[q] = held[q]
  BY <1>1, <1>2 DEF TypeOK
<1>6. /\ \A q \in Proc : Uses(q)' = Uses(q)
      /\ Locks(p)' = Locks(p) \ {b}
      /\ \A q \in Proc \ {p} : Locks(q)' = Locks(q)
  BY <1>1, <1>4, <1>5 DEF Uses, Locks
<1>7. lock' \in [Buf -> Proc \cup {NoProc}] /\ lock'[b] = NoProc /\ \A c \in Buf \ {b} : lock'[c] = lock[c]
  BY <1>1, <1>2 DEF TypeOK
<1>8. TypeOK'
  BY <1>1, <1>2, <1>4, <1>5, <1>7 DEF TypeOK
<1>9. OneBuffer' /\ CleanIsStored' /\ ListComplete' /\ NoneForgotten'
  BY <1>1, <1>2 DEF OneBuffer, CleanIsStored, ListComplete, NoneForgotten
<1>10. UsersCounted'
  <2>1. ASSUME NEW c \in Buf PROVE refcnt'[c] = Cardinality(Users(c))'
    BY <1>1, <1>2, <1>6, CountMoves
  <2>2. ASSUME NEW c \in Buf, NEW q \in Proc PROVE lock'[c] = q <=> c \in Locks(q)'
    <3>1. CASE c # b
      <4>1. lock[c] = q <=> c \in Locks(q)
        BY <1>2 DEF UsersCounted
      <4>2. c \in Locks(q)' <=> c \in Locks(q)
        BY <1>6, <3>1
      <4> QED
        BY <1>7, <3>1, <4>1, <4>2
    <3>2. CASE c = b
      <4>1. lock'[c] # q
        BY <1>7, <3>2, ConstantsAssumption
      <4>2. b \notin Locks(q)'
        <5>1. CASE q = p
          BY <1>6, <5>1
        <5>2. CASE q # p
          BY <1>3, <1>6, <5>2, OneHolder
        <5> QED
          BY <5>1, <5>2
      <4> QED
        BY <3>2, <4>1, <4>2
    <3> QED
      BY <3>1, <3>2
  <2> QED
    BY <2>1, <2>2 DEF UsersCounted, Users
<1>11. QueueOfSleepers'
  BY <1>1, <1>4, QueueStays
<1>12. Standing'
  BY <1>2, <1>4, <1>5, ConstantsAssumption DEF Standing
<1>13. Assigned'
  BY <1>1, <1>2, <1>5, <1>6 DEF Assigned
<1> QED
  BY <1>8, <1>9, <1>10, <1>11, <1>12, <1>13 DEF IInv, CacheInv

LEMMA BrelseCountKeeps ==
  ASSUME IInv, ~panicked, NEW p \in Proc, BrelseCount(p)
  PROVE  IInv'
<1> DEFINE b == cur[p]
<1>1. /\ pc[p] = "brelse"
      /\ refcnt' = [refcnt EXCEPT ![b] = @ - 1]
      /\ lru' = IF refcnt[b] = 1 THEN MovedToHead(b) ELSE lru
      /\ Goto(p, "run", NoBuf)
      /\ UNCHANGED <<blockno, valid, dirty, data, lock, idequeue, command, disk, held, panicked>>
  BY DEF BrelseCount, flags, drive
<1>2. TypeOK /\ OneBuffer /\ UsersCounted /\ CleanIsStored /\ ListComplete /\ Standing /\ Assigned
  BY DEF IInv, CacheInv
<1>3. b \in Buf /\ b \in Uses(p) /\ b \notin held[p]
  BY <1>1, <1>2, UsesAre DEF Standing
<1>4. /\ pc' \in [Proc -> PC] /\ cur' \in [Proc -> Buf \cup {NoBuf}]
      /\ pc'[p] = "run" /\ cur'[p] = NoBuf
      /\ \A q \in Proc \ {p} : pc'[q] = pc[q] /\ cur'[q] = cur[q]
  BY <1>1, <1>2, GoesTo DEF PC
<1>5. /\ Uses(p)' = Uses(p) \ {b}
      /\ \A q \in Proc \ {p} : Uses(q)' = Uses(q)
      /\ \A q \in Proc : Locks(q)' = Locks(q)
  BY <1>1, <1>3, <1>4 DEF Uses, Locks
<1>6. refcnt[b] \in Nat \ {0}
  BY <1>3, CountIs
<1> HIDE DEF b
<1>7. refcnt' \in [Buf -> Nat] /\ refcnt'[b] = refcnt[b] - 1 /\ \A c \in Buf \ {b} : refcnt'[c] = refcnt[c]
  BY <1>1, <1>2, <1>3, <1>6 DEF TypeOK
<1>8. lru' \in Seq(Buf) /\ ListComplete'
  <2>1. CASE refcnt[b] = 1
    BY <1>1, <1>2, <1>3, <2>1, MoveKeepsList DEF ListComplete
  <2>2. CASE refcnt[b] # 1
    BY <1>1, <1>2, <2>2 DEF TypeOK, ListComplete
  <2> QED
    BY <2>1, <2>2
<1>9. TypeOK'
  BY <1>1, <1>2, <1>4, <1>7, <1>8 DEF TypeOK
<1>10. OneBuffer' /\ CleanIsStored' /\ NoneForgotten'
  BY <1>1, <1>2 DEF OneBuffer, CleanIsStored, NoneForgotten
<1>11. UsersCounted'
  <2>1. ASSUME NEW c \in Buf PROVE refcnt'[c] = Cardinality(Users(c))'
    <3>1. \A q \in Proc \ {p} : c \in Uses(q)' <=> c \in Uses(q)
      BY <1>5
    <3>2. CASE c = b
      <4>1. c \in Uses(p) /\ (c \notin Uses(p))'
        BY <1>3, <1>5, <3>2
      <4> QED
        BY <1>7, <3>1, <3>2, <4>1, CountMoves
    <3>3. CASE c # b
      <4>1. c \in Uses(p) <=> c \in Uses(p)'
        BY <1>5, <3>3
      <4> QED
        BY <1>7, <3>1, <3>3, <4>1, CountMoves
    <3> QED
      BY <3>2, <3>3
  <2> QED
    BY <1>1, <1>2, <1>5, <2>1, ZenonT(30) DEF UsersCounted, Users
<1>12. QueueOfSleepers'
  BY <1>1, <1>4, QueueStays
<1>13. Standing'
  BY <1>1, <1>2, <1>4 DEF Standing
<1>14. Assigned'
  BY <1>1, <1>2, <1>5 DEF Assigned
<1> QED
  BY <1>8, <1>9, <1>10, <1>11, <1>12, <1>13, <1>14 DEF IInv, CacheInv

-----------------------------------------------------------------------------
(* ideintr() *)

\* The disk works for the first process in the queue, which has the buffer.
LEMMA ActiveRequest ==
  ASSUME IInv, command # NoCommand
  PROVE  /\ idequeue # <<>>
         /\ \E p \in Proc : pc[p] = "asleep" /\ cur[p] = Head(idequeue)
         /\ \A p \in Proc : pc[p] = "asleep" /\ cur[p] # Head(idequeue) =>
              \E k \in 2..Len(idequeue) : idequeue[k] = cur[p]
         /\ Head(idequeue) \in Buf /\ blockno[Head(idequeue)] \in Block
         /\ command.block = blockno[Head(idequeue)]
         /\ command.write = dirty[Head(idequeue)]
         /\ command.data = data[Head(idequeue)]
<1>1. idequeue # <<>> /\ command = Started(Head(idequeue), dirty[Head(idequeue)], data[Head(idequeue)])
  BY DEF IInv, CacheInv, QueueOfSleepers, NextCommand
<1>2. Head(idequeue) = idequeue[1] /\ 1 \in 1..Len(idequeue) /\ Len(idequeue) \in Nat
  BY <1>1, QueueIs
<1>3. PICK p \in Proc : pc[p] = "asleep" /\ cur[p] = Head(idequeue)
  BY <1>2, QueueIs
<1>4. Head(idequeue) \in Buf /\ Head(idequeue) \in Uses(p)
  BY <1>3, UsesAre
<1>5. blockno[Head(idequeue)] \in Block
  BY <1>4 DEF IInv, CacheInv, TypeOK, Assigned
<1>6. ASSUME NEW q \in Proc, pc[q] = "asleep", cur[q] # Head(idequeue)
      PROVE  \E k \in 2..Len(idequeue) : idequeue[k] = cur[q]
  <2>1. PICK k \in 1..Len(idequeue) : idequeue[k] = cur[q]
    BY <1>6, QueueIs
  <2>2. k \in 2..Len(idequeue)
    BY <1>2, <1>6, <2>1
  <2> QED
    BY <2>1, <2>2
<1> QED
  BY <1>1, <1>3, <1>4, <1>5, <1>6 DEF Started

LEMMA IdeintrKeeps ==
  ASSUME IInv, ~panicked, ideintr
  PROVE  IInv'
<1> DEFINE b == Head(idequeue)
           n == Len(idequeue)
<1>1. /\ command # NoCommand
      /\ disk' = IF command.write THEN [disk EXCEPT ![command.block] = command.data] ELSE disk
      /\ data' = IF dirty[b] THEN data ELSE [data EXCEPT ![b] = disk[command.block]]
      /\ valid' = [valid EXCEPT ![b] = TRUE] /\ dirty' = [dirty EXCEPT ![b] = FALSE]
      /\ pc' = [p \in Proc |-> IF pc[p] = "asleep" /\ cur[p] = b THEN "woken" ELSE pc[p]]
      /\ idequeue' = Tail(idequeue) /\ command' = NextCommand(Tail(idequeue))
      /\ UNCHANGED <<blockno, refcnt, lock, lru, cur, held, panicked>>
  BY DEF ideintr
<1>2. TypeOK /\ OneBuffer /\ UsersCounted /\ CleanIsStored /\ ListComplete /\ Standing /\ Assigned
  BY DEF IInv, CacheInv
<1>3. /\ idequeue # <<>> /\ b \in Buf /\ blockno[b] \in Block
      /\ command.block = blockno[b] /\ command.write = dirty[b] /\ command.data = data[b]
  BY <1>1, ActiveRequest
<1>4. PICK h \in Proc : pc[h] = "asleep" /\ cur[h] = b
  BY <1>1, ActiveRequest
<1>5. /\ idequeue \in Seq(Buf) /\ n \in Nat /\ n >= 1 /\ b = idequeue[1]
      /\ \A j, k \in 1..n : idequeue[j] = idequeue[k] => j = k
      /\ idequeue' \in Seq(Buf) /\ Len(idequeue') = n - 1 /\ DOMAIN idequeue' = 1..(n - 1)
      /\ \A k \in 1..(n - 1) : idequeue'[k] = idequeue[k + 1]
  <2>1. idequeue \in Seq(Buf) /\ n \in Nat /\ n >= 1 /\ b = idequeue[1]
    BY <1>3, QueueIs
  <2>2. \A j, k \in 1..n : idequeue[j] = idequeue[k] => j = k
    BY QueueIs
  <2>3. /\ idequeue' \in Seq(Buf) /\ Len(idequeue') = n - 1
        /\ \A k \in 1..Len(idequeue') : idequeue'[k] = idequeue[k + 1]
    BY <1>1, <1>3, <2>1, HeadTailProperties
  <2> QED
    BY <2>1, <2>2, <2>3, LenProperties
<1>6. /\ pc' \in [Proc -> PC]
      /\ \A p \in Proc : pc'[p] = IF pc[p] = "asleep" /\ cur[p] = b THEN "woken" ELSE pc[p]
  BY <1>1, <1>2 DEF TypeOK, PC
<1>7. \A p \in Proc : Uses(p)' = Uses(p) /\ Locks(p)' = Locks(p)
  BY <1>1, <1>6 DEF Uses, Locks
<1> HIDE DEF b, n
<1>8. /\ valid' \in [Buf -> BOOLEAN] /\ dirty' \in [Buf -> BOOLEAN]
      /\ valid'[b] = TRUE /\ dirty'[b] = FALSE
      /\ \A c \in Buf \ {b} : valid'[c] = valid[c] /\ dirty'[c] = dirty[c]
  BY <1>1, <1>2, <1>3 DEF TypeOK
<1>9. /\ disk' \in [Block -> Value] /\ data' \in [Buf -> Value]
      /\ disk'[blockno[b]] = data'[b]
      /\ \A blk \in Block \ {blockno[b]} : disk'[blk] = disk[blk]
      /\ \A c \in Buf \ {b} : data'[c] = data[c]
  <2>1. disk \in [Block -> Value] /\ data \in [Buf -> Value]
    BY <1>2 DEF TypeOK
  <2>2. CASE dirty[b]
    BY <1>1, <1>3, <2>1, <2>2
  <2>3. CASE ~dirty[b]
    BY <1>1, <1>3, <2>1, <2>3
  <2> QED
    BY <2>2, <2>3
<1>10. command' = NextCommand(idequeue)'
  <2>1. CASE idequeue' = <<>>
    BY <1>1, <2>1 DEF NextCommand
  <2>2. CASE idequeue' # <<>>
    <3>1. Len(idequeue') \in Nat /\ Len(idequeue') # 0 /\ Head(idequeue') = idequeue'[1]
      BY <1>5, <2>2
    <3>2. 1 \in 1..(n - 1) /\ 1 \in 1..n /\ 2 \in 1..n /\ 1 + 1 = 2
      BY <1>5, <3>1
    <3>3. Head(idequeue') = idequeue[2]
      BY <1>5, <3>1, <3>2
    <3>4. idequeue[2] \in Buf /\ idequeue[2] # b
      <4>1. idequeue[2] \in Buf
        BY <1>5, <3>2, ElementOfSeq DEF n
      <4> QED
        BY <1>5, <3>2, <4>1
    <3>5. PICK g \in Buf \ {b} : Head(idequeue') = g
      BY <3>3, <3>4
    <3>6. command' = [block |-> blockno[g], write |-> dirty[g], data |-> data[g]]
      BY <1>1, <2>2, <3>5 DEF NextCommand, Started
    <3>7. NextCommand(idequeue)' = [block |-> blockno'[g], write |-> dirty'[g], data |-> data'[g]]
      BY <2>2, <3>5 DEF NextCommand, Started
    <3> QED
      BY <1>1, <1>8, <1>9, <3>6, <3>7
  <2> QED
    BY <2>1, <2>2
<1>11. IsInjective(idequeue)'
  <2>1. ASSUME NEW j \in 1..(n - 1), NEW k \in 1..(n - 1), idequeue'[j] = idequeue'[k] PROVE j = k
    <3>1. idequeue[j + 1] = idequeue[k + 1] /\ j + 1 \in 1..n /\ k + 1 \in 1..n
      BY <1>5, <2>1
    <3>2. j + 1 = k + 1
      BY <1>5, <3>1
    <3> QED
      BY <3>2
  <2> QED
    BY <1>5, <2>1 DEF IsInjective
<1>12. ToSet(idequeue)' = {cur[p] : p \in {q \in Proc : pc[q] = "asleep"}}'
  <2>1. ASSUME NEW k \in 1..(n - 1) PROVE \E p \in Proc : pc'[p] = "asleep" /\ cur'[p] = idequeue'[k]
    <3>1. k + 1 \in 1..n /\ k + 1 # 1 /\ 1 \in 1..n /\ idequeue'[k] = idequeue[k + 1]
      BY <1>5
    <3>2. PICK p \in Proc : pc[p] = "asleep" /\ cur[p] = idequeue[k + 1]
      BY <3>1, QueueIs DEF n
    <3>3. cur[p] # b
      BY <1>5, <3>1, <3>2
    <3> QED
      BY <1>1, <1>6, <3>1, <3>2, <3>3
  <2>2. ASSUME NEW p \in Proc, pc'[p] = "asleep" PROVE \E k \in 1..(n - 1) : idequeue'[k] = cur'[p]
    <3>1. pc[p] = "asleep" /\ cur[p] # b
      BY <1>6, <2>2
    <3>2. PICK k \in 2..n : idequeue[k] = cur[p]
      BY <1>1, <3>1, ActiveRequest DEF b, n
    <3>3. k - 1 \in 1..(n - 1) /\ (k - 1) + 1 = k
      BY <1>5
    <3>4. idequeue'[k - 1] = cur'[p]
      BY <1>1, <1>5, <3>2, <3>3
    <3> QED
      BY <3>3, <3>4
  <2>3. ToSet(idequeue)' = {idequeue'[k] : k \in 1..(n - 1)}
    BY <1>5 DEF ToSet
  <2> QED
    BY <2>1, <2>2, <2>3
<1>13. TypeOK'
  <2>1. command' \in Command \cup {NoCommand}
    <3>1. CASE idequeue' = <<>>
      BY <1>1, <3>1 DEF NextCommand
    <3>2. CASE idequeue' # <<>>
      <4>1. Head(idequeue') \in ToSet(idequeue)'
        <5>1. Len(idequeue') \in Nat /\ Len(idequeue') # 0 /\ Head(idequeue') = idequeue'[1]
          BY <1>5, <3>2
        <5>2. 1 \in 1..(n - 1)
          BY <1>5, <5>1
        <5> QED
          BY <1>5, <5>1, <5>2 DEF ToSet
      <4>2. PICK p \in Proc : pc'[p] = "asleep" /\ cur'[p] = Head(idequeue')
        BY <1>12, <4>1
      <4>3. Head(idequeue') \in Uses(p) /\ Head(idequeue') \in Buf
        BY <1>1, <1>6, <4>2, UsesAre
      <4>4. dirty[Head(idequeue')] \in BOOLEAN /\ data[Head(idequeue')] \in Value
        BY <1>2, <4>3 DEF TypeOK
      <4>5. command' = Started(Head(idequeue'), dirty[Head(idequeue')], data[Head(idequeue')])
        BY <1>1, <3>2 DEF NextCommand
      <4> QED
        BY <4>3, <4>4, <4>5, StartedIsCommand
    <3> QED
      BY <3>1, <3>2
  <2> QED
    BY <1>1, <1>2, <1>5, <1>6, <1>8, <1>9, <2>1 DEF TypeOK
<1>14. OneBuffer' /\ ListComplete' /\ NoneForgotten'
  BY <1>1, <1>2 DEF OneBuffer, ListComplete, NoneForgotten
<1>15. CleanIsStored'
  <2>1. ASSUME NEW c \in Buf, valid'[c], ~dirty'[c] PROVE data'[c] = disk'[blockno[c]]
    <3>1. CASE c = b
      BY <1>9, <3>1
    <3>2. CASE c # b
      <4>1. valid[c] /\ ~dirty[c] /\ data[c] = disk[blockno[c]]
        BY <1>2, <1>8, <2>1, <3>2 DEF CleanIsStored
      <4>2. blockno[c] \in Block \ {blockno[b]}
        BY <1>2, <1>3, <3>2, <4>1 DEF TypeOK, OneBuffer, Assigned
      <4> QED
        BY <1>9, <3>2, <4>1, <4>2
    <3> QED
      BY <3>1, <3>2
  <2> QED
    BY <1>1, <2>1 DEF CleanIsStored
<1>16. UsersCounted'
  <2>1. ASSUME NEW c \in Buf PROVE refcnt'[c] = Cardinality(Users(c))'
    BY <1>1, <1>4, <1>7, CountMoves
  <2> QED
    BY <1>1, <1>2, <1>7, <2>1 DEF UsersCounted, Users
<1>17. Standing'
  BY <1>1, <1>2, <1>6 DEF Standing
<1>18. Assigned'
  BY <1>1, <1>2, <1>3, <1>7, <1>8, ConstantsAssumption DEF Assigned
<1> QED
  BY <1>1, <1>10, <1>11, <1>12, <1>13, <1>14, <1>15, <1>16, <1>17, <1>18 DEF IInv, CacheInv, QueueOfSleepers

-----------------------------------------------------------------------------
(* The invariant. *)

LEMMA IInvInit == Init => IInv
<1> SUFFICES ASSUME Init PROVE IInv
  OBVIOUS
<1>1. lru \in Seq(Buf) /\ ListComplete
  BY ListAtFirst DEF Init
<1>2. TypeOK
  <2>1. (CHOOSE v \in Value : TRUE) \in Value
    BY ConstantsAssumption
  <2>2. data \in [Buf -> Value] /\ disk \in [Block -> Value]
    BY <2>1 DEF Init
  <2>3. idequeue \in Seq(Buf)
    BY DEF Init
  <2> QED
    BY <1>1, <2>2, <2>3 DEF Init, TypeOK, PC
<1>3. \A p \in Proc : Uses(p) = {} /\ Locks(p) = {}
  BY DEF Init, Uses, Locks
<1>4. UsersCounted
  <2>1. ASSUME NEW b \in Buf PROVE Cardinality(Users(b)) = 0
    BY <1>3, FS_EmptySet DEF Users
  <2> QED
    BY <1>3, <2>1, ConstantsAssumption DEF Init, UsersCounted, Users
<1>5. QueueOfSleepers
  BY DEF Init, QueueOfSleepers, IsInjective, ToSet, NextCommand
<1>6. OneBuffer /\ CleanIsStored /\ NoneForgotten
  BY DEF Init, OneBuffer, CleanIsStored, NoneForgotten
<1>7. Standing /\ Assigned
  BY <1>3 DEF Init, Standing, Assigned
<1> QED
  BY <1>1, <1>2, <1>4, <1>5, <1>6, <1>7 DEF IInv, CacheInv

LEMMA IInvStutters == IInv /\ UNCHANGED vars => IInv'
<1> SUFFICES ASSUME IInv, UNCHANGED vars PROVE IInv'
  OBVIOUS
<1>1. UNCHANGED <<blockno, refcnt, valid, dirty, data, lock, lru, idequeue, command, disk, pc, cur, held, panicked>>
  BY DEF vars, bufs, flags, drive, procs
<1>2. Pinned' = Pinned /\ \A p \in Proc : Uses(p)' = Uses(p) /\ Locks(p)' = Locks(p)
  BY <1>1 DEF Pinned, Contains, Uses, Locks
<1>3. TypeOK' /\ OneBuffer' /\ CleanIsStored' /\ ListComplete' /\ QueueOfSleepers' /\ Standing'
  BY <1>1 DEF IInv, CacheInv, TypeOK, OneBuffer, CleanIsStored, ListComplete, QueueOfSleepers,
    NextCommand, Started, Standing
<1>4. NoneForgotten'
  <2>1. (UNION {Uses(p) : p \in Proc})' = UNION {Uses(p) : p \in Proc}
    BY <1>2
  <2> QED
    BY <1>1, <1>2, <2>1 DEF IInv, CacheInv, NoneForgotten
<1>5. UsersCounted' /\ Assigned'
  BY <1>1, <1>2 DEF IInv, CacheInv, UsersCounted, Assigned
<1> QED
  BY <1>3, <1>4, <1>5 DEF IInv, CacheInv

LEMMA IInvStep == IInv /\ Next => IInv'
<1> SUFFICES ASSUME IInv, Next PROVE IInv'
  OBVIOUS
<1>1. ~panicked
  BY DEF Next
<1>2. CASE ideintr
  BY <1>1, <1>2, IdeintrKeeps
<1>3. ASSUME NEW p \in Proc, bget(p) PROVE IInv'
  BY <1>1, <1>3, BgetLockKeeps, BgetHitKeeps, BgetMissKeeps, BgetPanicKeeps DEF bget
<1>4. ASSUME NEW p \in Proc, bread(p) PROVE IInv'
  <2>1. CASE BreadCached(p)
    BY <1>1, <2>1, ReturnsKeeps DEF BreadCached
  <2>2. CASE BreadDisk(p)
    BY <1>1, <2>2, BreadDiskKeeps
  <2> QED
    BY <1>4, <2>1, <2>2 DEF bread
<1>5. ASSUME NEW p \in Proc, IderwReturns(p) PROVE IInv'
  BY <1>1, <1>5, ReturnsKeeps DEF IderwReturns
<1>6. ASSUME NEW p \in Proc, brelse(p) PROVE IInv'
  BY <1>1, <1>6, BrelseCountKeeps, BrelseUnlockKeeps DEF brelse
<1>7. ASSUME NEW p \in Proc, NEW b \in Buf, NEW v \in Value, LogWrite(p, b, v) \/ bwrite(p, b, v)
      PROVE  IInv'
  BY <1>1, <1>7, LogWriteKeeps, BwriteKeeps
<1> QED
  BY <1>2, <1>3, <1>4, <1>5, <1>6, <1>7 DEF Next

LEMMA Invariant == Spec => []IInv
<1>1. IInv /\ [Next]_vars => IInv'
  BY IInvStep, IInvStutters
<1> QED
  BY IInvInit, <1>1, PTL DEF Spec

\* Each block is in one buffer at most; a buffer is counted as often as it is
\* used, and locked by the one who thinks so; what is clean is what the disk
\* has; the queue is that of the sleepers; the list is whole; and bget() panics
\* only for want of buffers.
THEOREM CacheCorrect == Spec => []CacheInv
BY Invariant, PTL DEF IInv

-----------------------------------------------------------------------------
(* The cache implements the store of blocks. *)

\* What the store's variables are.
Now == [blk \in Block |-> Contents(blk)]
Has == [p \in Proc |-> {blockno[b] : b \in held[p]}]

LEMMA ContentsIs ==
  ASSUME OneBuffer, NEW blk \in Block
  PROVE  /\ \A b \in Buf : blockno[b] = blk /\ valid[b] => Contents(blk) = data[b]
         /\ (\A b \in Buf : blockno[b] = blk => ~valid[b]) => Contents(blk) = disk[blk]
<1>1. blk # NoBlock
  BY ConstantsAssumption
<1>2. ASSUME NEW b \in Buf, blockno[b] = blk, valid[b] PROVE Contents(blk) = data[b]
  <2>1. b \in Cached(blk) /\ \A c \in Cached(blk) : c = b
    BY <1>1, <1>2 DEF Cached, OneBuffer
  <2>2. (CHOOSE c \in Cached(blk) : valid[c]) = b
    BY <1>2, <2>1
  <2> QED
    BY <1>2, <2>1, <2>2 DEF Contents
<1>3. ASSUME \A b \in Buf : blockno[b] = blk => ~valid[b] PROVE Contents(blk) = disk[blk]
  BY <1>3 DEF Contents, Cached
<1> QED
  BY <1>2, <1>3

LEMMA ContentsAre ==
  ASSUME OneBuffer', NEW blk \in Block
  PROVE  /\ \A b \in Buf : blockno'[b] = blk /\ valid'[b] => Contents(blk)' = data'[b]
         /\ (\A b \in Buf : blockno'[b] = blk => ~valid'[b]) => Contents(blk)' = disk'[blk]
<1>1. blk # NoBlock
  BY ConstantsAssumption
<1>2. ASSUME NEW b \in Buf, blockno'[b] = blk, valid'[b] PROVE Contents(blk)' = data'[b]
  <2>1. b \in Cached(blk)' /\ \A c \in Cached(blk)' : c = b
    BY <1>1, <1>2 DEF Cached, OneBuffer
  <2>2. (CHOOSE c \in Cached(blk)' : valid'[c]) = b
    BY <1>2, <2>1
  <2> QED
    BY <1>2, <2>1, <2>2 DEF Contents
<1>3. ASSUME \A b \in Buf : blockno'[b] = blk => ~valid'[b] PROVE Contents(blk)' = disk'[blk]
  BY <1>3 DEF Contents, Cached
<1> QED
  BY <1>2, <1>3

\* A step of the store, in the cache's terms.
LEMMA StoreStep ==
  ASSUME \/ Now' = Now /\ disk' = disk /\ Has' = Has
         \/ \E p \in Proc, blk \in Block :
              /\ \A q \in Proc : blk \notin Has[q]
              /\ Has' = [Has EXCEPT ![p] = @ \cup {blk}] /\ Now' = Now /\ disk' = disk
         \/ \E p \in Proc, blk \in Block :
              /\ blk \in Has[p]
              /\ Has' = [Has EXCEPT ![p] = @ \ {blk}] /\ Now' = Now /\ disk' = disk
         \/ \E p \in Proc, blk \in Block, v \in Value :
              /\ blk \in Has[p]
              /\ Now' = [Now EXCEPT ![blk] = v] /\ disk' = disk /\ Has' = Has
         \/ \E blk \in Block :
              disk' = [disk EXCEPT ![blk] = Now[blk]] /\ Now' = Now /\ Has' = Has
  PROVE  [Store!Next]_(Store!vars)
<1>1. CASE Now' = Now /\ disk' = disk /\ Has' = Has
  BY <1>1 DEF Store!vars, Now, Has
<1>2. ASSUME NEW p \in Proc, NEW blk \in Block, \A q \in Proc : blk \notin Has[q],
             Has' = [Has EXCEPT ![p] = @ \cup {blk}] /\ Now' = Now /\ disk' = disk
      PROVE  Store!Next
  <2>1. Store!Get(p, blk)
    BY <1>2 DEF Store!Get, Now, Has
  <2> QED
    BY <2>1 DEF Store!Next
<1>3. ASSUME NEW p \in Proc, NEW blk \in Block, blk \in Has[p],
             Has' = [Has EXCEPT ![p] = @ \ {blk}] /\ Now' = Now /\ disk' = disk
      PROVE  Store!Next
  <2>1. Store!Put(p, blk)
    BY <1>3 DEF Store!Put, Now, Has
  <2> QED
    BY <2>1 DEF Store!Next
<1>4. ASSUME NEW p \in Proc, NEW blk \in Block, NEW v \in Value, blk \in Has[p],
             Now' = [Now EXCEPT ![blk] = v] /\ disk' = disk /\ Has' = Has
      PROVE  Store!Next
  <2>1. Store!Write(p, blk, v)
    BY <1>4 DEF Store!Write, Now, Has
  <2> QED
    BY <2>1 DEF Store!Next
<1>5. ASSUME NEW blk \in Block,
             disk' = [disk EXCEPT ![blk] = Now[blk]] /\ Now' = Now /\ Has' = Has
      PROVE  Store!Next
  <2>1. Store!Store(blk)
    BY <1>5 DEF Store!Store, Now, Has
  <2> QED
    BY <2>1 DEF Store!Next
<1> QED
  BY <1>1, <1>2, <1>3, <1>4, <1>5

LEMMA NowStays ==
  ASSUME UNCHANGED <<blockno, valid, data, disk>>
  PROVE  Now' = Now
BY DEF Now, Contents, Cached

\* Steps inside bget() and brelse() and into the queue are not seen.
LEMMA Unseen ==
  ASSUME UNCHANGED <<blockno, valid, data, disk, held>>
  PROVE  [Store!Next]_(Store!vars)
<1>1. Has' = Has
  BY DEF Has
<1> QED
  BY <1>1, NowStays, StoreStep

\* A buffer that is recycled has what the disk has, or nothing.
LEMMA BgetMissUnseen ==
  ASSUME IInv, IInv', NEW p \in Proc, NEW blk \in Block, BgetMiss(p, blk)
  PROVE  [Store!Next]_(Store!vars)
<1>1. TypeOK /\ OneBuffer /\ CleanIsStored /\ OneBuffer'
  BY DEF IInv, CacheInv
<1>2. PICK b \in Buf : BgetMissIn(p, blk, b)
  BY <1>1, BgetMissFinds
<1>3. /\ refcnt[b] = 0 /\ ~dirty[b] /\ \A c \in Buf : blockno[c] # blk
      /\ blockno' = [blockno EXCEPT ![b] = blk] /\ valid' = [valid EXCEPT ![b] = FALSE]
      /\ UNCHANGED <<data, disk, held>>
  BY <1>2 DEF BgetMissIn, Unused, Cached, Recycle
<1>4. /\ blockno'[b] = blk /\ ~valid'[b]
      /\ \A c \in Buf \ {b} : blockno'[c] = blockno[c] /\ valid'[c] = valid[c]
  BY <1>1, <1>3 DEF TypeOK
<1>5. ASSUME NEW k \in Block PROVE Contents(k)' = Contents(k)
  <2>1. CASE \E c \in Buf \ {b} : blockno[c] = k /\ valid[c]
    <3>1. PICK c \in Buf \ {b} : blockno[c] = k /\ valid[c]
      BY <2>1
    <3>2. Contents(k) = data[c]
      BY <1>1, <3>1, ContentsIs
    <3>3. Contents(k)' = data'[c]
      BY <1>1, <1>4, <3>1, ContentsAre
    <3> QED
      BY <1>3, <3>2, <3>3
  <2>2. CASE \A c \in Buf \ {b} : blockno[c] = k => ~valid[c]
    <3>1. Contents(k)' = disk'[k]
      <4>1. \A c \in Buf : blockno'[c] = k => ~valid'[c]
        BY <1>4, <2>2
      <4> QED
        BY <1>1, <4>1, ContentsAre
    <3>2. Contents(k) = disk[k]
      <4>1. CASE blockno[b] = k /\ valid[b]
        <5>1. Contents(k) = data[b]
          BY <1>1, <4>1, ContentsIs
        <5>2. data[b] = disk[k]
          BY <1>1, <1>3, <4>1 DEF CleanIsStored
        <5> QED
          BY <5>1, <5>2
      <4>2. CASE ~(blockno[b] = k /\ valid[b])
        <5>1. \A c \in Buf : blockno[c] = k => ~valid[c]
          BY <2>2, <4>2
        <5> QED
          BY <1>1, <5>1, ContentsIs
      <4> QED
        BY <4>1, <4>2
    <3> QED
      BY <1>3, <3>1, <3>2
  <2> QED
    BY <2>1, <2>2
<1>6. Now' = Now
  BY <1>5 DEF Now
<1>7. Has' = Has
  <2>1. ASSUME NEW q \in Proc PROVE {blockno'[c] : c \in held'[q]} = {blockno[c] : c \in held[q]}
    <3>1. held'[q] = held[q] /\ \A c \in held[q] : c \in Buf \ {b}
      BY <1>3, CountIs, UsesAre
    <3>2. \A c \in held[q] : blockno'[c] = blockno[c]
      BY <1>4, <3>1
    <3> QED
      BY <3>1, <3>2
  <2> QED
    BY <2>1 DEF Has
<1> QED
  BY <1>3, <1>6, <1>7, StoreStep

\* bread() gives the process a block that nobody has; bwrite() returns with the
\* one that the process has.
LEMMA ReturnsGets ==
  ASSUME IInv, NEW p \in Proc, pc[p] \in {"read", "woken"},
         Returns(p), UNCHANGED <<bufs, drive, panicked>>
  PROVE  [Store!Next]_(Store!vars)
<1> DEFINE b == cur[p]
<1>1. /\ held' = [held EXCEPT ![p] = @ \cup {b}]
      /\ UNCHANGED <<blockno, valid, data, disk>>
  BY DEF Returns, bufs, flags, drive
<1>2. TypeOK /\ OneBuffer /\ Assigned
  BY DEF IInv, CacheInv
<1>3. b \in Buf /\ b \in Locks(p) /\ b \in Uses(p)
  BY UsesAre
<1> HIDE DEF b
<1>4. blockno[b] \in Block /\ blockno[b] # NoBlock
  BY <1>2, <1>3 DEF TypeOK, Assigned
<1>5. held'[p] = held[p] \cup {b} /\ \A q \in Proc \ {p} : held'[q] = held[q]
  BY <1>1, <1>2 DEF TypeOK
<1>6. Has' = [Has EXCEPT ![p] = @ \cup {blockno[b]}]
  <2>1. {blockno[c] : c \in held[p] \cup {b}} = {blockno[c] : c \in held[p]} \cup {blockno[b]}
    OBVIOUS
  <2>2. ASSUME NEW q \in Proc
        PROVE  {blockno'[c] : c \in held'[q]} =
                 IF q = p THEN {blockno[c] : c \in held[p]} \cup {blockno[b]} ELSE {blockno[c] : c \in held[q]}
    BY <1>1, <1>5, <2>1
  <2> QED
    BY <2>2 DEF Has
<1>7. Now' = Now
  BY <1>1, NowStays
<1>8. CASE b \in held[p]
  <2>1. Has' = Has
    BY <1>1, <1>5, <1>8 DEF Has
  <2> QED
    BY <1>1, <1>7, <2>1, StoreStep
<1>9. CASE b \notin held[p]
  <2>1. ASSUME NEW q \in Proc PROVE blockno[b] \notin Has[q]
    <3>1. SUFFICES ASSUME NEW c \in held[q], blockno[c] = blockno[b] PROVE FALSE
      BY DEF Has
    <3>2. c \in Buf /\ c \in Locks(q)
      BY UsesAre
    <3>3. c = b
      BY <1>2, <1>3, <1>4, <3>1, <3>2 DEF OneBuffer
    <3> QED
      BY <1>3, <1>9, <3>2, <3>3, OneHolder
  <2> QED
    BY <1>1, <1>4, <1>6, <1>7, <2>1, StoreStep
<1> QED
  BY <1>8, <1>9

\* What a process puts into a buffer it has is a write of the block it has.
LEMMA WritesBlock ==
  ASSUME IInv, IInv', NEW p \in Proc, NEW b \in held[p], NEW v \in Written[blockno[b]],
         data' = [data EXCEPT ![b] = v], UNCHANGED <<blockno, valid, disk, held>>
  PROVE  [Store!Next]_(Store!vars)
<1>1. TypeOK /\ OneBuffer /\ OneBuffer'
  BY DEF IInv, CacheInv
<1>2. b \in Buf /\ blockno[b] \in Block /\ valid[b] /\ v \in Value
  BY MayWrite
<1>3. data'[b] = v /\ \A c \in Buf \ {b} : data'[c] = data[c]
  BY <1>1, <1>2 DEF TypeOK
<1>4. ASSUME NEW k \in Block PROVE Contents(k)' = IF k = blockno[b] THEN v ELSE Contents(k)
  <2>1. CASE k = blockno[b]
    BY <1>1, <1>2, <1>3, <2>1, ContentsAre
  <2>2. CASE k # blockno[b]
    <3>1. CASE \E c \in Buf : blockno[c] = k /\ valid[c]
      <4>1. PICK c \in Buf : blockno[c] = k /\ valid[c]
        BY <3>1
      <4>2. Contents(k) = data[c] /\ Contents(k)' = data'[c]
        BY <1>1, <4>1, ContentsIs, ContentsAre
      <4> QED
        BY <1>3, <2>2, <4>1, <4>2
    <3>2. CASE \A c \in Buf : blockno[c] = k => ~valid[c]
      <4>1. Contents(k) = disk[k] /\ Contents(k)' = disk'[k]
        BY <1>1, <3>2, ContentsIs, ContentsAre
      <4> QED
        BY <2>2, <4>1
    <3> QED
      BY <3>1, <3>2
  <2> QED
    BY <2>1, <2>2
<1>5. Now' = [Now EXCEPT ![blockno[b]] = v]
  BY <1>4 DEF Now
<1>6. Has' = Has /\ blockno[b] \in Has[p]
  BY DEF Has
<1> QED
  BY <1>2, <1>5, <1>6, StoreStep

\* brelse() gives the block up when it releases the lock.
LEMMA BrelsePuts ==
  ASSUME IInv, NEW p \in Proc, NEW b \in Buf, BrelseUnlock(p, b)
  PROVE  [Store!Next]_(Store!vars)
<1>1. /\ b \in held[p] /\ held' = [held EXCEPT ![p] = @ \ {b}]
      /\ UNCHANGED <<blockno, valid, data, disk>>
  BY DEF BrelseUnlock, flags, drive
<1>2. TypeOK /\ OneBuffer /\ Assigned
  BY DEF IInv, CacheInv
<1>3. held'[p] = held[p] \ {b} /\ \A q \in Proc \ {p} : held'[q] = held[q]
  BY <1>1, <1>2 DEF TypeOK
<1>4. \A c \in held[p] : c \in Buf /\ blockno[c] \in Block /\ blockno[c] # NoBlock
  BY <1>2, UsesAre DEF TypeOK, Assigned
<1>5. Has' = [Has EXCEPT ![p] = @ \ {blockno[b]}]
  <2>1. {blockno[c] : c \in held[p] \ {b}} = {blockno[c] : c \in held[p]} \ {blockno[b]}
    BY <1>1, <1>2, <1>4 DEF OneBuffer
  <2>2. ASSUME NEW q \in Proc
        PROVE  {blockno'[c] : c \in held'[q]} =
                 IF q = p THEN {blockno[c] : c \in held[p]} \ {blockno[b]} ELSE {blockno[c] : c \in held[q]}
    BY <1>1, <1>3, <2>1
  <2> QED
    BY <2>2 DEF Has
<1>6. blockno[b] \in Has[p] /\ blockno[b] \in Block
  BY <1>1, <1>4 DEF Has
<1> QED
  BY <1>1, <1>5, <1>6, NowStays, StoreStep

\* The disk stores what the buffer has, or the buffer gets what the disk has:
\* either way the block's content stays.
LEMMA IdeintrStores ==
  ASSUME IInv, IInv', ideintr
  PROVE  [Store!Next]_(Store!vars)
<1> DEFINE b == Head(idequeue)
<1>1. /\ command # NoCommand
      /\ disk' = IF command.write THEN [disk EXCEPT ![command.block] = command.data] ELSE disk
      /\ data' = IF dirty[b] THEN data ELSE [data EXCEPT ![b] = disk[command.block]]
      /\ valid' = [valid EXCEPT ![b] = TRUE]
      /\ UNCHANGED <<blockno, held>>
  BY DEF ideintr
<1>2. TypeOK /\ OneBuffer /\ OneBuffer' /\ CleanIsStored /\ Assigned
  BY DEF IInv, CacheInv
<1>3. /\ b \in Buf /\ blockno[b] \in Block
      /\ command.block = blockno[b] /\ command.write = dirty[b] /\ command.data = data[b]
  BY <1>1, ActiveRequest
<1> HIDE DEF b
<1>4. valid'[b] /\ \A c \in Buf \ {b} : valid'[c] = valid[c] /\ data'[c] = data[c]
  BY <1>1, <1>2, <1>3 DEF TypeOK
<1>5. \A blk \in Block \ {blockno[b]} : disk'[blk] = disk[blk]
  BY <1>1, <1>2, <1>3 DEF TypeOK
<1>6. data'[b] = Contents(blockno[b])
  <2>1. CASE dirty[b]
    <3>1. valid[b]
      BY <1>2, <1>3, <2>1 DEF Assigned
    <3> QED
      BY <1>1, <1>2, <1>3, <2>1, <3>1, ContentsIs
  <2>2. CASE ~dirty[b]
    <3>1. data'[b] = disk[blockno[b]]
      BY <1>1, <1>2, <1>3, <2>2 DEF TypeOK
    <3>2. CASE valid[b]
      BY <1>2, <1>3, <2>2, <3>1, <3>2, ContentsIs DEF CleanIsStored
    <3>3. CASE ~valid[b]
      <4>1. blockno[b] # NoBlock
        BY <1>3, ConstantsAssumption
      <4>2. \A c \in Buf : blockno[c] = blockno[b] => ~valid[c]
        BY <1>2, <1>3, <3>3, <4>1 DEF OneBuffer
      <4> QED
        BY <1>2, <1>3, <3>1, <4>2, ContentsIs
    <3> QED
      BY <3>2, <3>3
  <2> QED
    BY <2>1, <2>2
<1>7. ASSUME NEW k \in Block PROVE Contents(k)' = Contents(k)
  <2>1. CASE k = blockno[b]
    BY <1>1, <1>2, <1>3, <1>4, <1>6, <2>1, ContentsAre
  <2>2. CASE k # blockno[b]
    <3>1. CASE \E c \in Buf : blockno[c] = k /\ valid[c]
      <4>1. PICK c \in Buf : blockno[c] = k /\ valid[c]
        BY <3>1
      <4>2. c # b /\ valid'[c] /\ blockno'[c] = k /\ data'[c] = data[c]
        BY <1>1, <1>4, <2>2, <4>1
      <4>3. Contents(k) = data[c] /\ Contents(k)' = data'[c]
        BY <1>2, <4>1, <4>2, ContentsIs, ContentsAre
      <4> QED
        BY <4>2, <4>3
    <3>2. CASE \A c \in Buf : blockno[c] = k => ~valid[c]
      <4>1. \A c \in Buf : blockno'[c] = k => ~valid'[c]
        BY <1>1, <1>4, <2>2, <3>2
      <4>2. Contents(k) = disk[k] /\ Contents(k)' = disk'[k]
        BY <1>2, <3>2, <4>1, ContentsIs, ContentsAre
      <4> QED
        BY <1>5, <2>2, <4>2
    <3> QED
      BY <3>1, <3>2
  <2> QED
    BY <2>1, <2>2
<1>8. Now' = Now
  BY <1>7 DEF Now
<1>9. Has' = Has
  BY <1>1 DEF Has
<1>10. CASE dirty[b]
  <2>1. Now[blockno[b]] = data[b]
    BY <1>1, <1>3, <1>6, <1>10 DEF Now
  <2>2. disk' = [disk EXCEPT ![blockno[b]] = Now[blockno[b]]]
    BY <1>1, <1>3, <1>10, <2>1
  <2> QED
    BY <1>3, <1>8, <1>9, <2>2, StoreStep
<1>11. CASE ~dirty[b]
  <2>1. disk' = disk
    BY <1>1, <1>3, <1>11
  <2> QED
    BY <1>8, <1>9, <2>1, StoreStep
<1> QED
  BY <1>10, <1>11

LEMMA StoreInit == Init => Store!Init
<1> SUFFICES ASSUME Init PROVE Store!Init
  OBVIOUS
<1>1. disk \in [Block -> Value] /\ OneBuffer /\ \A b \in Buf : ~valid[b]
  BY IInvInit DEF IInv, CacheInv, TypeOK, Init
<1>2. \A blk \in Block : Contents(blk) = disk[blk]
  BY <1>1, ContentsIs
<1>3. [blk \in Block |-> Contents(blk)] = disk
  BY <1>1, <1>2
<1>4. [p \in Proc |-> {blockno[b] : b \in held[p]}] = [p \in Proc |-> {}]
  BY DEF Init
<1> QED
  BY <1>1, <1>3, <1>4 DEF Store!Init

LEMMA StepImplements == IInv /\ IInv' /\ [Next]_vars => [Store!Next]_(Store!vars)
<1> SUFFICES ASSUME IInv, IInv', [Next]_vars PROVE [Store!Next]_(Store!vars)
  OBVIOUS
<1>1. CASE UNCHANGED vars
  BY <1>1, Unseen DEF vars, bufs, flags, drive, procs
<1>2. CASE ideintr
  BY <1>2, IdeintrStores
<1>3. ASSUME NEW p \in Proc, bget(p) PROVE [Store!Next]_(Store!vars)
  <2>1. CASE BgetLock(p)
    BY <2>1, Unseen DEF BgetLock, flags, drive
  <2>2. ASSUME NEW blk \in Block, BgetHit(p, blk) PROVE [Store!Next]_(Store!vars)
    BY <2>2, Unseen DEF BgetHit, flags, drive
  <2>3. ASSUME NEW blk \in Block, BgetMiss(p, blk) PROVE [Store!Next]_(Store!vars)
    BY <2>3, BgetMissUnseen
  <2>4. ASSUME NEW blk \in Block, BgetPanic(p, blk) PROVE [Store!Next]_(Store!vars)
    BY <2>4, Unseen DEF BgetPanic, bufs, flags, drive, procs
  <2> QED
    BY <1>3, <2>1, <2>2, <2>3, <2>4 DEF bget
<1>4. ASSUME NEW p \in Proc, bread(p) PROVE [Store!Next]_(Store!vars)
  <2>1. CASE BreadCached(p)
    BY <2>1, ReturnsGets DEF BreadCached
  <2>2. CASE BreadDisk(p)
    BY <2>2, Unseen DEF BreadDisk, bufs, flags
  <2> QED
    BY <1>4, <2>1, <2>2 DEF bread
<1>5. ASSUME NEW p \in Proc, IderwReturns(p) PROVE [Store!Next]_(Store!vars)
  BY <1>5, ReturnsGets DEF IderwReturns
<1>6. ASSUME NEW p \in Proc, brelse(p) PROVE [Store!Next]_(Store!vars)
  <2>1. CASE BrelseCount(p)
    BY <2>1, Unseen DEF BrelseCount, flags, drive
  <2> QED
    BY <1>6, <2>1, BrelsePuts DEF brelse
<1>7. ASSUME NEW p \in Proc, NEW b \in Buf, NEW v \in Value, LogWrite(p, b, v) \/ bwrite(p, b, v)
      PROVE  [Store!Next]_(Store!vars)
  <2>1. /\ b \in held[p] /\ v \in Written[blockno[b]] /\ data' = [data EXCEPT ![b] = v]
        /\ UNCHANGED <<blockno, valid, disk, held>>
    BY <1>7 DEF LogWrite, bwrite, drive, procs
  <2> QED
    BY <2>1, WritesBlock
<1> QED
  BY <1>1, <1>2, <1>3, <1>4, <1>5, <1>6, <1>7 DEF Next

\* Whoever has a block sees what was written to it last, by whomever, though
\* buffers are recycled; only the process that has it changes it; and the disk
\* gets the contents unchanged.
THEOREM Refinement == Spec => ImplementsBlockStore
<1>1. IInv /\ IInv' /\ [Next]_vars => [Store!Next]_(Store!vars)
  BY StepImplements
<1> QED
  BY Invariant, StoreInit, <1>1, PTL DEF Spec, ImplementsBlockStore, Store!Spec
=============================================================================
