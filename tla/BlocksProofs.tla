---------------------------- MODULE BlocksProofs ----------------------------
(***************************************************************************)
(* The bitmap is right, a transaction fits, and read() and write() work on *)
(* sequences of bytes: for any processes, inodes and files, any number and *)
(* size of blocks and any length of a transaction.                         *)
(***************************************************************************)
EXTENDS Blocks, FiniteSetTheorems, WellFoundedInduction, TLAPS

(* Where a block of an inode can be: NDIRECT + NINDIRECT blocks of data,    *)
(* and the indirect block, which has the last number.                       *)
NDATA == NDIRECT + NINDIRECT
DataSlot == 0 .. (NDATA - 1)
Slot == 0 .. NDATA
BlockIn(i, k) == IF k = NDATA THEN addrs[i][NDIRECT] ELSE Address(i, k)

(* The inode has a block there, and itrunc() has not got to it yet.         *)
NotTruncated(i, k) == \A p \in Procs : call[p].ip = i => k >= call[p].tot
Has(i, k) == BlockIn(i, k) # 0 /\ NotTruncated(i, k)

Writei(p) == call[p].name = "writei"
Itrunc(p) == call[p].name = "itrunc"
Writes(p) == call[p].name \in {"write", "writei"}

CallRecord == [name : {"none", "write", "writei", "itrunc"}, file : Files \cup {Nothing}, left : Nat,
               n : Nat, tot : Nat, ip : Inodes \cup {Nothing}, logged : SUBSET (0 .. NBLOCKS)]

DiskOK ==
  /\ used \subseteq Numbers
  /\ addrs \in [Inodes -> [0 .. NDIRECT -> Numbers \cup {0}]]
  /\ size \in [Inodes -> 0 .. MaxSize]
  /\ bytes \in [Numbers -> [0 .. BSIZE - 1 -> Nat]]
  /\ entries \in [Numbers -> [0 .. NINDIRECT - 1 -> Numbers \cup {0}]]

TypeOK ==
  /\ DiskOK
  /\ lock \in [Inodes -> Procs \cup {Nothing}]
  /\ file \in [Files -> [ip : Inodes, off : Nat] \cup {Nothing}]
  /\ call \in [Procs -> CallRecord]
  /\ before \in [Inodes -> Seq(Nat)]

(* A call that is under way: a write() of an open file, a piece of it that  *)
(* has the inode locked, or an itrunc() of an inode that no file has.       *)
WriteSound(p) == Writes(p) =>
  /\ call[p].file \in Files /\ file[call[p].file] # Nothing
  /\ call[p].left \in Nat \ {0}

PieceSound(p) == Writei(p) =>
  /\ lock[Ip(p)] = p
  /\ call[p].n \in 1 .. MaxPiece /\ call[p].n <= call[p].left
  /\ call[p].tot \in 0 .. call[p].n
  /\ Off(p) <= size[Ip(p)] /\ Off(p) + call[p].n <= MaxSize

TruncSound(p) ==
  /\ ~Itrunc(p) => call[p].ip = Nothing
  /\ Itrunc(p) =>
       /\ call[p].ip \in Inodes /\ lock[call[p].ip] = p
       /\ call[p].tot \in Slot
       /\ \A k \in 0 .. (NDIRECT - 1) : k < call[p].tot => addrs[call[p].ip][k] = 0
       /\ \A f \in Files : file[f] # Nothing => file[f].ip # call[p].ip

Calls == \A p \in Procs : WriteSound(p) /\ PieceSound(p) /\ TruncSound(p)

(* What the bitmap says is what the inodes have, no block twice.            *)
Bitmap ==
  /\ \A i \in Inodes, k \in Slot : Has(i, k) => BlockIn(i, k) \in used
  /\ \A i, j \in Inodes, k, l \in Slot :
       Has(i, k) /\ Has(j, l) /\ BlockIn(i, k) = BlockIn(j, l) => i = j /\ k = l
  /\ \A b \in used : \E i \in Inodes, k \in Slot : Has(i, k) /\ BlockIn(i, k) = b

(* A file that is not being truncated has all its blocks.                   *)
Whole(i) == \A p \in Procs : call[p].ip # i
MappedIn(i) == Whole(i) => \A k \in 0 .. size[i] - 1 : Address(i, k \div BSIZE) # 0
Mapped == \A i \in Inodes : MappedIn(i)

(* A piece that is being written is in place as far as it has got, and the  *)
(* text is otherwise the one from before.                                   *)
Byte(i, k) == bytes[Address(i, k \div BSIZE)][k % BSIZE]
PieceIn(p, i, off, end) ==
  /\ Len(before[i]) = size[i]
  /\ \A k \in off .. end - 1 : Address(i, k \div BSIZE) # 0 /\ Byte(i, k) = Letter[p]
  /\ \A k \in 0 .. size[i] - 1 : k < off \/ k >= end => Byte(i, k) = before[i][k + 1]
WrittenBy(p) == Writei(p) => PieceIn(p, Ip(p), Off(p), Off(p) + call[p].tot)
Written == \A p \in Procs : WrittenBy(p)

(* What it has logged are the blocks it goes through, the indirect block    *)
(* and the bitmap.                                                          *)
Through(p) == (Off(p) \div BSIZE) .. ((Off(p) + call[p].n - 1) \div BSIZE)
OwnBlocks(p) == {BITMAP, addrs[Ip(p)][NDIRECT]} \cup {Address(Ip(p), bn) : bn \in Through(p)}
LoggedBy(p) == IF Writei(p) THEN call[p].logged \subseteq OwnBlocks(p) ELSE call[p].logged = {}
Logged == \A p \in Procs : LoggedBy(p)

NeverFreesFree == panicked => used = Numbers

IInv == TypeOK /\ Calls /\ Bitmap /\ Mapped /\ Written /\ Logged /\ NeverFreesFree

-----------------------------------------------------------------------------
(* Numbers. *)

LEMMA Constants ==
  /\ NBLOCKS \in Nat \ {0} /\ BSIZE \in Nat \ {0} /\ NDIRECT \in Nat \ {0} /\ NINDIRECT \in Nat \ {0}
  /\ NDATA \in Nat \ {0} /\ NDIRECT < NDATA /\ NDATA - NDIRECT = NINDIRECT
  /\ MAXOPBLOCKS \in Nat /\ MaxPiece \in Nat \ {0} /\ MaxSize \in Nat
  /\ Nothing \notin Procs /\ Nothing \notin Inodes
  /\ Counts \in [Procs -> SUBSET (Nat \ {0})] /\ Letter \in [Procs -> Nat]
<1>1. MaxPiece \in Int /\ MaxPiece > 0
  BY BlocksAssumption DEF MaxPiece
<1>2. MaxSize \in Nat
  BY BlocksAssumption DEF MaxSize
<1> QED
  BY <1>1, <1>2, BlocksAssumption DEF NDATA

LEMMA Division ==
  ASSUME NEW a \in Nat, NEW m \in Nat \ {0}
  PROVE  \E q \in Nat, t \in 0..(m - 1) : a = q * m + t /\ a \div m = q /\ a % m = t
<1>1. a \div m \in Nat /\ a % m \in 0..(m - 1) /\ a = (a \div m) * m + (a % m)
  OBVIOUS
<1> QED
  BY <1>1

\* Multiples are in the order of the factors.
LEMMA Factors ==
  ASSUME NEW q \in Int, NEW t \in Int, NEW m \in Nat \ {0}
  PROVE  /\ q < t => q * m + m <= t * m
         /\ q <= t => q * m <= t * m
<1>1. t - q >= 1 => (t - q) * m >= m
  OBVIOUS
<1>2. t - q >= 0 => (t - q) * m >= 0
  OBVIOUS
<1>3. (t - q) * m = t * m - q * m
  OBVIOUS
<1>4. q * m \in Int /\ t * m \in Int
  OBVIOUS
<1> HIDE DEF NDATA
<1> QED
  BY <1>1, <1>2, <1>3, <1>4

LEMMA DivisionOrder ==
  ASSUME NEW a \in Nat, NEW b \in Nat, a <= b
  PROVE  a \div BSIZE <= b \div BSIZE
<1>1. PICK q \in Nat, t \in 0..(BSIZE - 1) : a = q * BSIZE + t /\ a \div BSIZE = q /\ a % BSIZE = t
  BY Constants, Division
<1>2. PICK r \in Nat, s \in 0..(BSIZE - 1) : b = r * BSIZE + s /\ b \div BSIZE = r /\ b % BSIZE = s
  BY Constants, Division
<1>3. PICK x \in Int, y \in Int : x = q * BSIZE /\ y = r * BSIZE
  BY Constants
<1>4. r < q => y + BSIZE <= x
  BY <1>3, Constants, Factors
<1>5. ~(r < q)
  BY <1>1, <1>2, <1>3, <1>4, Constants
<1> QED
  BY <1>1, <1>2, <1>5

\* Each byte of a file is in one of its blocks.
LEMMA BlockOf ==
  ASSUME NEW k \in Nat, k < MaxSize
  PROVE  k \div BSIZE \in DataSlot /\ k % BSIZE \in 0 .. BSIZE - 1
<1>1. PICK q \in Nat, t \in 0..(BSIZE - 1) : k = q * BSIZE + t /\ k \div BSIZE = q /\ k % BSIZE = t
  BY Constants, Division
<1>2. q < NDATA
  <2>1. SUFFICES ASSUME NDATA <= q PROVE FALSE
    BY Constants
  <2>2. NDATA * BSIZE <= q * BSIZE
    BY <2>1, Constants, Factors
  <2>3. PICK x \in Int, y \in Int : x = q * BSIZE /\ y = NDATA * BSIZE
    BY Constants
  <2>4. k < y
    BY <2>3 DEF MaxSize, NDATA
  <2> QED
    BY <1>1, <2>2, <2>3, <2>4
<1> QED
  BY <1>1, <1>2, Constants DEF DataSlot

\* A turn of the loop writes m bytes at the place a, in one block.
LEMMA Covers ==
  ASSUME NEW a \in Nat, NEW m \in Nat, m <= BSIZE - (a % BSIZE), NEW k \in Nat
  PROVE  /\ k \in a .. a + m - 1 => k \div BSIZE = a \div BSIZE
         /\ k \div BSIZE = a \div BSIZE =>
              (k % BSIZE \in (a % BSIZE) .. (a % BSIZE) + m - 1 <=> k \in a .. a + m - 1)
<1>1. PICK q \in Nat, t \in 0..(BSIZE - 1) : a = q * BSIZE + t /\ a \div BSIZE = q /\ a % BSIZE = t
  BY Constants, Division
<1>2. PICK r \in Nat, s \in 0..(BSIZE - 1) : k = r * BSIZE + s /\ k \div BSIZE = r /\ k % BSIZE = s
  BY Constants, Division
<1>3. PICK x \in Int, y \in Int : x = q * BSIZE /\ y = r * BSIZE
  BY Constants
<1>4. ASSUME q = r PROVE s \in t .. t + m - 1 <=> k \in a .. a + m - 1
  <2>1. x = y
    BY <1>3, <1>4
  <2> QED
    BY <1>1, <1>2, <1>3, <2>1, Constants
<1>5. ASSUME k \in a .. a + m - 1 PROVE q = r
  <2>1. q < r => x + BSIZE <= y
    BY <1>3, Constants, Factors
  <2>2. r < q => y + BSIZE <= x
    BY <1>3, Constants, Factors
  <2>3. ~(q < r) /\ ~(r < q)
    BY <1>1, <1>2, <1>3, <1>5, <2>1, <2>2, Constants
  <2> QED
    BY <2>3
<1> QED
  BY <1>1, <1>2, <1>4, <1>5

\* A piece of n bytes goes through one block more, at most, than it fills.
LEMMA PieceBlocks ==
  ASSUME NEW o \in Nat, NEW n \in Nat \ {0}, NEW f \in Nat, n <= f * BSIZE
  PROVE  /\ o \div BSIZE \in Nat /\ (o + n - 1) \div BSIZE \in Nat
         /\ o \div BSIZE <= (o + n - 1) \div BSIZE
         /\ (o + n - 1) \div BSIZE <= o \div BSIZE + f
<1>1. PICK q \in Nat, t \in 0..(BSIZE - 1) : o = q * BSIZE + t /\ o \div BSIZE = q /\ o % BSIZE = t
  BY Constants, Division
<1>2. o + n - 1 \in Nat
  OBVIOUS
<1>3. PICK r \in Nat, s \in 0..(BSIZE - 1) : o + n - 1 = r * BSIZE + s /\ (o + n - 1) \div BSIZE = r /\ (o + n - 1) % BSIZE = s
  BY <1>2, Constants, Division
<1>4. PICK x \in Int, y \in Int, z \in Int : x = q * BSIZE /\ y = r * BSIZE /\ z = (q + f) * BSIZE
  BY Constants
<1>5. r < q => y + BSIZE <= x
  BY <1>4, Constants, Factors
<1>6. q + f < r => z + BSIZE <= y
  BY <1>4, Constants, Factors
<1>7. z = x + f * BSIZE
  BY <1>4, Constants
<1>8. n <= z - x
  <2>1. PICK w \in Int : w = f * BSIZE
    BY Constants
  <2> QED
    BY <1>4, <1>7, <2>1
<1>9. ~(r < q) /\ ~(q + f < r)
  BY <1>1, <1>3, <1>4, <1>5, <1>6, <1>8, Constants
<1> QED
  BY <1>1, <1>3, <1>9

-----------------------------------------------------------------------------
(* The first free block, and the smaller of two numbers. *)

LEMMA LeastOf ==
  ASSUME NEW S \in SUBSET Nat, S # {}
  PROVE  Min(S) \in S /\ \A x \in S : Min(S) <= x
<1>1. IsWellFoundedOn(OpToRel(<, Nat), Nat)
  BY NatLessThanWellFounded
<1>2. PICK least \in S : \A t \in S : <<t, least>> \notin OpToRel(<, Nat)
  BY <1>1, WFMin
<1>3. ASSUME NEW t \in S PROVE least <= t
  <2>1. t \in Nat /\ least \in Nat
    OBVIOUS
  <2>2. ~(t < least)
    BY <1>2, <2>1 DEF OpToRel
  <2> QED
    BY <2>1, <2>2
<1> QED
  BY <1>3 DEF Min

LEMMA LesserOf ==
  ASSUME NEW a \in Nat, NEW b \in Nat
  PROVE  Min({a, b}) \in {a, b} /\ Min({a, b}) <= a /\ Min({a, b}) <= b
<1>1. {a, b} \in SUBSET Nat /\ {a, b} # {}
  OBVIOUS
<1> QED
  BY <1>1, LeastOf

LEMMA NewBlockIs ==
  ASSUME Numbers \ used # {}
  PROVE  NewBlock \in Numbers \ used /\ NewBlock # 0
<1>1. Numbers \ used \in SUBSET Nat
  BY Constants DEF Numbers
<1>2. Min(Numbers \ used) \in Numbers \ used
  BY <1>1, LeastOf
<1> QED
  BY <1>2, Constants DEF NewBlock, Numbers

-----------------------------------------------------------------------------
(* Addresses, and what the bitmap says of them.                             *)

LEMMA AddressIs ==
  ASSUME TypeOK, NEW i \in Inodes
  PROVE  /\ addrs[i][NDIRECT] \in Numbers \cup {0}
         /\ \A bn \in DataSlot : Address(i, bn) \in Numbers \cup {0}
         /\ \A k \in Slot : BlockIn(i, k) \in Numbers \cup {0}
<1>1. addrs[i] \in [0 .. NDIRECT -> Numbers \cup {0}]
  BY DEF TypeOK, DiskOK
<1>2. addrs[i][NDIRECT] \in Numbers \cup {0}
  BY <1>1, Constants
<1>3. ASSUME NEW bn \in DataSlot PROVE Address(i, bn) \in Numbers \cup {0}
  <2>1. CASE bn < NDIRECT
    BY <1>1, <1>3, <2>1, Constants, SMTT(30) DEF Address, DataSlot
  <2>2. CASE ~(bn < NDIRECT)
    <3>1. bn - NDIRECT \in 0 .. NINDIRECT - 1
      BY <2>2, Constants DEF DataSlot
    <3>2. addrs[i][NDIRECT] # 0 => entries[addrs[i][NDIRECT]] \in [0 .. NINDIRECT - 1 -> Numbers \cup {0}]
      BY <1>2 DEF TypeOK, DiskOK
    <3>3. addrs[i][NDIRECT] # 0 => entries[addrs[i][NDIRECT]][bn - NDIRECT] \in Numbers \cup {0}
      BY <3>1, <3>2
    <3> QED
      BY <2>2, <3>3 DEF Address
  <2> QED
    BY <2>1, <2>2
<1>4. ASSUME NEW k \in Slot PROVE k = NDATA \/ k \in DataSlot
  BY Constants DEF Slot, DataSlot
<1> QED
  BY <1>2, <1>3, <1>4 DEF BlockIn

LEMMA SlotsAre ==
  /\ NDATA \in Slot /\ NDATA \notin DataSlot /\ DataSlot \subseteq Slot
  /\ \A k \in Slot : k = NDATA \/ k \in DataSlot
BY Constants DEF Slot, DataSlot

\* The indirect block stays until the end, and so do all blocks of an inode
\* that is not being truncated.
LEMMA HasThem ==
  ASSUME TypeOK, Calls, NEW i \in Inodes
  PROVE  /\ Has(i, NDATA) <=> addrs[i][NDIRECT] # 0
         /\ Whole(i) => \A k \in Slot : Has(i, k) <=> BlockIn(i, k) # 0
         /\ Whole(i) => \A bn \in DataSlot : Has(i, bn) <=> Address(i, bn) # 0
<1>1. NotTruncated(i, NDATA)
  <2> SUFFICES ASSUME NEW p \in Procs, call[p].ip = i PROVE NDATA >= call[p].tot
    BY DEF NotTruncated
  <2>1. call[p].tot \in Slot
    BY Constants DEF Calls, TruncSound
  <2> QED
    BY <2>1, Constants DEF Slot
<1>2. Whole(i) => \A k \in Slot : NotTruncated(i, k)
  BY DEF Whole, NotTruncated
<1> QED
  BY <1>1, <1>2, SlotsAre DEF Has, BlockIn

\* Nothing changes hands.
LEMMA BitmapKept ==
  ASSUME Bitmap, used' = used,
         \A j \in Inodes, l \in Slot :
           /\ Has(j, l)' <=> Has(j, l)
           /\ Has(j, l) => BlockIn(j, l)' = BlockIn(j, l)
  PROVE  Bitmap'
BY DEF Bitmap

\* Inode i gets a free block b.
LEMMA BitmapGrows ==
  ASSUME Bitmap, NEW i \in Inodes, NEW k \in Slot, NEW b, b \notin used, used' = used \cup {b},
         ~Has(i, k), BlockIn(i, k)' = b,
         \A j \in Inodes, l \in Slot :
           /\ Has(j, l)' <=> Has(j, l) \/ (j = i /\ l = k)
           /\ Has(j, l) => BlockIn(j, l)' = BlockIn(j, l)
  PROVE  Bitmap'
<1>1. \A j \in Inodes, l \in Slot : Has(j, l)' => BlockIn(j, l)' \in used'
  BY DEF Bitmap
<1>2. ASSUME NEW j \in Inodes, NEW h \in Inodes, NEW l \in Slot, NEW m \in Slot, Has(j, l)', Has(h, m)', BlockIn(j, l)' = BlockIn(h, m)'
      PROVE  j = h /\ l = m
  <2>1. CASE Has(j, l) /\ Has(h, m)
    BY <1>2, <2>1 DEF Bitmap
  <2>2. CASE Has(j, l) /\ ~Has(h, m)
    BY <1>2, <2>2 DEF Bitmap
  <2>3. CASE ~Has(j, l) /\ Has(h, m)
    BY <1>2, <2>3 DEF Bitmap
  <2>4. CASE ~Has(j, l) /\ ~Has(h, m)
    BY <1>2, <2>4
  <2> QED
    BY <2>1, <2>2, <2>3, <2>4
<1>3. ASSUME NEW c \in used' PROVE \E j \in Inodes, l \in Slot : Has(j, l)' /\ BlockIn(j, l)' = c
  <2>1. CASE c = b
    BY <2>1
  <2>2. CASE c \in used
    BY <2>2 DEF Bitmap
  <2> QED
    BY <2>1, <2>2
<1> QED
  BY <1>1, <1>2, <1>3 DEF Bitmap

\* Inode i gives a block back.
LEMMA BitmapShrinks ==
  ASSUME Bitmap, NEW i \in Inodes, NEW k \in Slot, Has(i, k), used' = used \ {BlockIn(i, k)},
         \A j \in Inodes, l \in Slot :
           /\ Has(j, l)' <=> Has(j, l) /\ ~(j = i /\ l = k)
           /\ Has(j, l)' => BlockIn(j, l)' = BlockIn(j, l)
  PROVE  Bitmap'
<1>1. \A j \in Inodes, l \in Slot : Has(j, l)' => BlockIn(j, l)' \in used'
  BY DEF Bitmap
<1>2. \A j, h \in Inodes, l, m \in Slot : Has(j, l)' /\ Has(h, m)' /\ BlockIn(j, l)' = BlockIn(h, m)' => j = h /\ l = m
  BY DEF Bitmap
<1>3. \A c \in used' : \E j \in Inodes, l \in Slot : Has(j, l)' /\ BlockIn(j, l)' = c
  BY DEF Bitmap
<1> QED
  BY <1>1, <1>2, <1>3 DEF Bitmap

-----------------------------------------------------------------------------
(* What a step leaves alone.                                                *)

\* The size of inode j, the blocks that it has, and the bytes in them.
KeepsData(j) ==
  /\ size'[j] = size[j]
  /\ \A bn \in DataSlot :
       /\ Address(j, bn) # 0 => Address(j, bn)' = Address(j, bn)
       /\ Has(j, bn) => bytes'[Address(j, bn)] = bytes[Address(j, bn)]

\* The inode gets no blocks either.
SameIn(j) ==
  /\ KeepsData(j) /\ addrs'[j] = addrs[j]
  /\ \A bn \in DataSlot : Address(j, bn)' = Address(j, bn)

\* A step is of no account to the inodes that are free.
FreeStays == \A j \in Inodes : lock[j] = Nothing => SameIn(j)

LEMMA DiskSame ==
  ASSUME UNCHANGED disk
  PROVE  \A j \in Inodes : SameIn(j)
BY DEF disk, SameIn, KeepsData, Address

\* A step that changes inode i and blocks that are i's or nobody's.
LEMMA Elsewhere ==
  ASSUME TypeOK, Calls, Bitmap, NEW i \in Inodes, NEW X,
         \A b \in X : b \notin used \/ \E k \in Slot : Has(i, k) /\ BlockIn(i, k) = b,
         \A j \in Inodes \ {i} : addrs'[j] = addrs[j] /\ size'[j] = size[j],
         \A b \in Numbers \ X : bytes'[b] = bytes[b] /\ entries'[b] = entries[b]
  PROVE  \A j \in Inodes \ {i} : SameIn(j)
<1> SUFFICES ASSUME NEW j \in Inodes \ {i} PROVE SameIn(j)
  OBVIOUS
<1>1. ASSUME NEW k \in Slot, Has(j, k) PROVE BlockIn(j, k) \in Numbers \ X
  <2>1. BlockIn(j, k) \in used
    BY <1>1 DEF Bitmap
  <2>2. \A l \in Slot : Has(i, l) => BlockIn(i, l) # BlockIn(j, k)
    BY <1>1 DEF Bitmap
  <2> QED
    BY <2>1, <2>2 DEF TypeOK, DiskOK
<1>2. ASSUME NEW bn \in DataSlot PROVE Address(j, bn)' = Address(j, bn)
  <2>1. addrs[j][NDIRECT] # 0 => entries'[addrs[j][NDIRECT]] = entries[addrs[j][NDIRECT]]
    BY <1>1, HasThem, SlotsAre DEF BlockIn
  <2> QED
    BY <2>1 DEF Address
<1>3. ASSUME NEW bn \in DataSlot, Has(j, bn) PROVE bytes'[Address(j, bn)] = bytes[Address(j, bn)]
  BY <1>1, <1>3, SlotsAre DEF BlockIn
<1> QED
  BY <1>2, <1>3 DEF SameIn, KeepsData

\* No itrunc() begins, goes on or ends.
LEMMA TruncsSame ==
  ASSUME Calls,
         \A p \in Procs : call'[p].ip = call[p].ip /\ (Itrunc(p) => call'[p].tot = call[p].tot)
  PROVE  \A i \in Inodes :
           /\ Whole(i)' <=> Whole(i)
           /\ \A k \in Slot : NotTruncated(i, k)' <=> NotTruncated(i, k)
<1>1. \A i \in Inodes, p \in Procs : call[p].ip = i => Itrunc(p)
  BY Constants DEF Calls, TruncSound
<1> QED
  BY <1>1 DEF Whole, NotTruncated

LEMMA FreeIsWhole ==
  ASSUME Calls, NEW i \in Inodes, lock[i] = Nothing
  PROVE  Whole(i)
BY Constants DEF Calls, TruncSound, Whole

LEMMA WriterIs ==
  ASSUME TypeOK, Calls, NEW p \in Procs, Writes(p)
  PROVE  /\ call[p].file \in Files /\ file[call[p].file] \in [ip : Inodes, off : Nat]
         /\ Ip(p) \in Inodes /\ Off(p) \in Nat /\ call[p].left \in Nat \ {0} /\ ~Itrunc(p) /\ call[p].ip = Nothing
         /\ Writei(p) =>
              /\ Whole(Ip(p)) /\ lock[Ip(p)] = p
              /\ call[p].n \in Nat \ {0} /\ call[p].n <= MaxPiece /\ call[p].tot \in Nat /\ call[p].tot <= call[p].n
              /\ Off(p) <= size[Ip(p)] /\ Off(p) + call[p].n <= MaxSize
<1>1. call[p].file \in Files /\ file[call[p].file] # Nothing /\ call[p].left \in Nat \ {0}
  BY DEF Calls, WriteSound
<1>2. file[call[p].file] \in [ip : Inodes, off : Nat]
  BY <1>1 DEF TypeOK
<1>3. Ip(p) \in Inodes /\ Off(p) \in Nat
  BY <1>2 DEF Ip, Off
<1>4. ~Itrunc(p) /\ call[p].ip = Nothing
  BY DEF Calls, TruncSound, Writes, Itrunc
<1>5. ASSUME Writei(p)
      PROVE  /\ lock[Ip(p)] = p
             /\ call[p].n \in Nat \ {0} /\ call[p].n <= MaxPiece /\ call[p].tot \in Nat /\ call[p].tot <= call[p].n
             /\ Off(p) <= size[Ip(p)] /\ Off(p) + call[p].n <= MaxSize
  BY <1>5, Constants DEF Calls, PieceSound
<1>6. ASSUME Writei(p), NEW q \in Procs PROVE call[q].ip # Ip(p)
  <2>1. CASE q = p
    BY <1>3, <1>4, <2>1, Constants
  <2>2. CASE q # p
    BY <1>3, <1>5, <1>6, <2>2, Constants DEF Calls, TruncSound
  <2> QED
    BY <2>1, <2>2
<1> QED
  BY <1>1, <1>2, <1>3, <1>4, <1>5, <1>6 DEF Whole

\* Nobody but who has locked an inode is in the middle of something with it.
LEMMA OneWorker ==
  ASSUME TypeOK, Calls, NEW p \in Procs, NEW i \in Inodes, lock[i] = p, NEW q \in Procs \ {p}
  PROVE  /\ Writei(q) => Ip(q) \in Inodes \ {i} /\ lock[Ip(q)] = q
         /\ Itrunc(q) => call[q].ip \in Inodes \ {i} /\ lock[call[q].ip] = q
<1>1. Writei(q) => Ip(q) \in Inodes /\ lock[Ip(q)] = q
  BY WriterIs DEF Writes, Writei
<1>2. Itrunc(q) => call[q].ip \in Inodes /\ lock[call[q].ip] = q
  BY DEF Calls, TruncSound
<1> QED
  BY <1>1, <1>2

\* A byte of an inode that is whole.
LEMMA ByteSame ==
  ASSUME TypeOK, Calls, NEW i \in Inodes, Whole(i), KeepsData(i), NEW k \in Nat, k < MaxSize, Address(i, k \div BSIZE) # 0
  PROVE  Address(i, k \div BSIZE)' = Address(i, k \div BSIZE) /\ Byte(i, k)' = Byte(i, k)
<1>1. k \div BSIZE \in DataSlot
  BY BlockOf
<1>2. Has(i, k \div BSIZE)
  BY <1>1, HasThem
<1> QED
  BY <1>1, <1>2 DEF KeepsData, Byte

LEMMA SizeIs ==
  ASSUME TypeOK, NEW i \in Inodes
  PROVE  size[i] \in Nat /\ size[i] <= MaxSize /\ \A k \in 0 .. size[i] - 1 : k \in Nat /\ k < MaxSize
<1>1. size[i] \in 0 .. MaxSize /\ MaxSize \in Nat
  BY Constants DEF TypeOK, DiskOK
<1> QED
  BY <1>1

LEMMA MappedKept ==
  ASSUME TypeOK, Calls, Mapped, NEW i \in Inodes, KeepsData(i), Whole(i)' => Whole(i)
  PROVE  MappedIn(i)'
<1> SUFFICES ASSUME Whole(i), NEW k \in 0 .. size[i] - 1 PROVE (Address(i, k \div BSIZE) # 0)'
  BY DEF MappedIn, KeepsData
<1>1. k \in Nat /\ k < MaxSize
  BY SizeIs
<1>2. Address(i, k \div BSIZE) # 0
  BY DEF Mapped, MappedIn
<1> QED
  BY <1>1, <1>2, ByteSame

LEMMA TextKept ==
  ASSUME TypeOK, Calls, Mapped, NEW i \in Inodes, Whole(i), KeepsData(i)
  PROVE  Text(i)' = Text(i)
<1>1. \A k \in 0 .. size[i] - 1 : Address(i, k \div BSIZE) # 0
  BY DEF Mapped, MappedIn
<1>2. ASSUME NEW k \in 1 .. size[i]
      PROVE  /\ k - 1 \in 0 .. size[i] - 1
             /\ Address(i, (k - 1) \div BSIZE)' = Address(i, (k - 1) \div BSIZE)
             /\ Address(i, (k - 1) \div BSIZE) # 0
             /\ Byte(i, k - 1)' = Byte(i, k - 1)
  <2>1. k - 1 \in 0 .. size[i] - 1
    BY SizeIs
  <2>2. k - 1 \in Nat /\ k - 1 < MaxSize
    BY <2>1, SizeIs
  <2> QED
    BY <1>1, <2>1, <2>2, ByteSame
<1>3. size'[i] = size[i]
  BY DEF KeepsData
<1> QED
  BY <1>2, <1>3 DEF Text, Byte

\* The text of an inode that is whole has all its bytes.
LEMMA TextIs ==
  ASSUME TypeOK, Calls, Mapped, NEW i \in Inodes, Whole(i)
  PROVE  /\ Text(i) \in Seq(Nat) /\ Len(Text(i)) = size[i]
         /\ \A k \in 0 .. size[i] - 1 : Text(i)[k + 1] = Byte(i, k) /\ Byte(i, k) \in Nat
<1>1. ASSUME NEW k \in 0 .. size[i] - 1
      PROVE  /\ Address(i, k \div BSIZE) # 0 /\ Byte(i, k) \in Nat
  <2>1. Address(i, k \div BSIZE) # 0
    BY DEF Mapped, MappedIn
  <2>2. k \div BSIZE \in DataSlot /\ k % BSIZE \in 0 .. BSIZE - 1
    BY SizeIs, BlockOf
  <2>3. Address(i, k \div BSIZE) \in Numbers
    BY <2>1, <2>2, AddressIs
  <2>4. bytes[Address(i, k \div BSIZE)] \in [0 .. BSIZE - 1 -> Nat]
    BY <2>3 DEF TypeOK, DiskOK
  <2> QED
    BY <2>1, <2>2, <2>4 DEF Byte
<1>2. ASSUME NEW k \in 1 .. size[i] PROVE k - 1 \in 0 .. size[i] - 1
  BY SizeIs
<1>3. Text(i) = [k \in 1 .. size[i] |-> Byte(i, k - 1)]
  <2>1. \A k \in 1 .. size[i] : Address(i, (k - 1) \div BSIZE) # 0
    BY <1>1, <1>2
  <2> QED
    BY <2>1 DEF Text, Byte
<1>4. size[i] \in Nat
  BY SizeIs
<1>5. Text(i) \in [1 .. size[i] -> Nat]
  BY <1>1, <1>2, <1>3
<1>6. Text(i) \in Seq(Nat) /\ Len(Text(i)) = size[i]
  BY <1>4, <1>5
<1>7. ASSUME NEW k \in 0 .. size[i] - 1 PROVE Text(i)[k + 1] = Byte(i, k)
  <2>1. k + 1 \in 1 .. size[i] /\ k + 1 - 1 = k
    BY <1>4
  <2> QED
    BY <1>3, <2>1
<1> QED
  BY <1>1, <1>6, <1>7

CallSound(p) == WriteSound(p) /\ PieceSound(p) /\ TruncSound(p) /\ WrittenBy(p) /\ LoggedBy(p)

\* A piece of a write() goes on where no block of it is lost, whatever it logs
\* of its own blocks.
GoesOn(q, Y) ==
  /\ call'[q] = [call[q] EXCEPT !.logged = @ \cup Y] /\ Y \subseteq OwnBlocks(q)'
  /\ file'[call[q].file] = file[call[q].file]
  /\ lock'[Ip(q)] = q /\ before'[Ip(q)] = before[Ip(q)] /\ KeepsData(Ip(q))
  /\ addrs[Ip(q)][NDIRECT] # 0 => addrs'[Ip(q)][NDIRECT] = addrs[Ip(q)][NDIRECT]

LEMMA PieceGoesOn ==
  ASSUME TypeOK, Calls, Mapped, Written, Logged, NEW q \in Procs, Writei(q), NEW Y, GoesOn(q, Y)
  PROVE  CallSound(q)'
<1>0. /\ Ip(q) \in Inodes /\ Whole(Ip(q)) /\ Off(q) \in Nat /\ call[q].ip = Nothing /\ ~Itrunc(q)
      /\ call[q].n \in Nat \ {0} /\ call[q].tot \in Nat /\ call[q].tot <= call[q].n /\ Off(q) + call[q].n <= MaxSize
  BY WriterIs DEF Writes, Writei
<1>i. PICK i \in Inodes, off \in Nat, end \in Nat : i = Ip(q) /\ off = Off(q) /\ end = Off(q) + call[q].tot
  BY <1>0
<1>1. Whole(i) /\ end <= MaxSize /\ off + call[q].n <= MaxSize
  BY <1>0, <1>i, Constants
<1>g. /\ call'[q] = [call[q] EXCEPT !.logged = @ \cup Y] /\ Y \subseteq OwnBlocks(q)'
      /\ file'[call[q].file] = file[call[q].file]
      /\ lock'[Ip(q)] = q /\ before'[Ip(q)] = before[Ip(q)] /\ KeepsData(Ip(q))
      /\ (addrs[Ip(q)][NDIRECT] # 0 => addrs'[Ip(q)][NDIRECT] = addrs[Ip(q)][NDIRECT])
  BY DEF GoesOn
<1>f. /\ call'[q].name = call[q].name /\ call'[q].file = call[q].file /\ call'[q].left = call[q].left
      /\ call'[q].n = call[q].n /\ call'[q].tot = call[q].tot /\ call'[q].ip = call[q].ip
      /\ call'[q].logged = call[q].logged \cup Y
  BY <1>g DEF TypeOK, CallRecord
<1>2. Ip(q)' = i /\ Off(q)' = off /\ Writei(q)'
  BY <1>i, <1>f, <1>g DEF Ip, Off, Writei
<1>3. KeepsData(i) /\ before'[i] = before[i] /\ lock'[i] = q
  BY <1>i, <1>g, Zenon
<1>4. size'[i] = size[i]
  BY <1>3 DEF KeepsData
<1>5. WriteSound(q)' /\ TruncSound(q)'
  <2>1. call[q].file \in Files /\ file[call[q].file] # Nothing /\ call[q].left \in Nat \ {0}
    BY DEF Calls, WriteSound, Writes, Writei
  <2>2. WriteSound(q)'
    BY <1>f, <1>g, <2>1 DEF WriteSound
  <2> QED
    BY <1>0, <1>f, <2>2 DEF TruncSound, Itrunc
<1>6. PieceSound(q)'
  <2>1. /\ call[q].n \in 1 .. MaxPiece /\ call[q].n <= call[q].left /\ call[q].tot \in 0 .. call[q].n
        /\ off <= size[i] /\ off + call[q].n <= MaxSize
    BY <1>i DEF Calls, PieceSound
  <2>2. off <= size'[i]
    BY <1>4, <2>1
  <2> QED
    BY <1>2, <1>3, <1>f, <2>1, <2>2 DEF PieceSound
<1>7. WrittenBy(q)'
  <2>1. PieceIn(q, i, off, end)
    BY <1>i DEF Written, WrittenBy
  <2>2. ASSUME NEW k \in off .. end - 1
        PROVE  Address(i, k \div BSIZE)' # 0 /\ Byte(i, k)' = Letter[q]
    <3>1. k \in Nat /\ k < MaxSize
      BY <1>1, Constants
    <3>2. Address(i, k \div BSIZE) # 0 /\ Byte(i, k) = Letter[q]
      BY <2>1 DEF PieceIn
    <3> QED
      BY <1>1, <1>3, <3>1, <3>2, ByteSame
  <2>3. ASSUME NEW k \in 0 .. size[i] - 1, k < off \/ k >= end
        PROVE  Byte(i, k)' = before[i][k + 1]
    <3>1. k \in Nat /\ k < MaxSize
      BY SizeIs
    <3>2. Address(i, k \div BSIZE) # 0
      BY <1>1 DEF Mapped, MappedIn
    <3>3. Byte(i, k) = before[i][k + 1]
      BY <2>1, <2>3 DEF PieceIn
    <3> QED
      BY <1>1, <1>3, <3>1, <3>2, <3>3, ByteSame
  <2>4. (PieceIn(q, i, off, end))'
    BY <1>3, <1>4, <2>1, <2>2, <2>3 DEF PieceIn
  <2>5. end = Off(q)' + call'[q].tot
    BY <1>i, <1>2, <1>f
  <2> QED
    BY <1>2, <2>4, <2>5 DEF WrittenBy
<1>8. LoggedBy(q)'
  <2>1. ASSUME NEW bn \in Through(q) PROVE bn \in DataSlot
    <3>1. off + call[q].n - 1 \in Nat /\ off + call[q].n - 1 < MaxSize
      BY <1>0, <1>1, Constants
    <3>2. (off + call[q].n - 1) \div BSIZE \in DataSlot
      BY <3>1, BlockOf
    <3>3. off \in Nat /\ off < MaxSize
      BY <1>0, <1>1, Constants
    <3>4. off \div BSIZE \in DataSlot
      BY <3>3, BlockOf
    <3> QED
      BY <1>i, <3>2, <3>4, Constants DEF Through, DataSlot
  <2>2. \A bn \in Through(q) : Address(i, bn) # 0 => Address(i, bn)' = Address(i, bn)
    BY <1>3, <2>1 DEF KeepsData
  <2>3. Through(q)' = Through(q)
    BY <1>2, <1>f, <1>i DEF Through
  <2>4. call[q].logged \subseteq {BITMAP, addrs[i][NDIRECT]} \cup {Address(i, bn) : bn \in Through(q)}
    BY <1>i DEF Logged, LoggedBy, OwnBlocks
  <2>5. Y \subseteq {BITMAP, addrs'[i][NDIRECT]} \cup {Address(i, bn)' : bn \in Through(q)}
    BY <1>2, <1>g, <2>3 DEF OwnBlocks
  <2>6. addrs[i][NDIRECT] # 0 => addrs'[i][NDIRECT] = addrs[i][NDIRECT]
    BY <1>i, <1>g, Zenon
  <2>7. call'[q].logged \subseteq {BITMAP, addrs'[i][NDIRECT]} \cup {Address(i, bn)' : bn \in Through(q)}
    BY <1>f, <2>2, <2>4, <2>5, <2>6 DEF BITMAP
  <2> QED
    BY <1>2, <2>3, <2>7 DEF LoggedBy, OwnBlocks
<1> QED
  BY <1>5, <1>6, <1>7, <1>8 DEF CallSound

\* A process goes on with its call after a step of another one.
LEMMA OthersGoOn ==
  ASSUME TypeOK, Calls, Mapped, Written, Logged, NEW q \in Procs, call'[q] = call[q],
         Writes(q) => file'[call[q].file] # Nothing,
         Writei(q) => /\ file'[call[q].file] = file[call[q].file]
                      /\ lock'[Ip(q)] = q /\ before'[Ip(q)] = before[Ip(q)] /\ SameIn(Ip(q)),
         Itrunc(q) => /\ lock'[call[q].ip] = q /\ SameIn(call[q].ip)
                      /\ \A f \in Files : file'[f] # Nothing => file'[f].ip # call[q].ip
  PROVE  CallSound(q)'
<1>1. CASE ~Writei(q)
  <2>1. WriteSound(q)'
    BY DEF Calls, WriteSound, Writes
  <2>2. TruncSound(q)'
    BY DEF Calls, TruncSound, Itrunc, SameIn
  <2>3. ~Writei(q)'
    BY <1>1 DEF Writei
  <2> QED
    BY <1>1, <2>1, <2>2, <2>3 DEF Logged, LoggedBy, PieceSound, WrittenBy, CallSound
<1>2. CASE Writei(q)
  <2>1. call'[q] = [call[q] EXCEPT !.logged = @ \cup {}] /\ {} \subseteq OwnBlocks(q)'
    BY DEF TypeOK, CallRecord
  <2>2. KeepsData(Ip(q)) /\ addrs'[Ip(q)] = addrs[Ip(q)]
    BY <1>2 DEF SameIn
  <2>3. GoesOn(q, {})
    BY <1>2, <2>1, <2>2 DEF GoesOn
  <2> QED
    BY <1>2, <2>3, PieceGoesOn
<1> QED
  BY <1>1, <1>2

-----------------------------------------------------------------------------
(* A step preserves the invariant: the calls, then what is on the disk.     *)

LEMMA AllSound ==
  ASSUME \A q \in Procs : CallSound(q)'
  PROVE  Calls' /\ Written' /\ Logged'
BY DEF CallSound, Calls, Written, Logged

LEMMA NothingMoves ==
  ASSUME TypeOK, Calls, Bitmap, Mapped, UNCHANGED disk,
         \A i \in Inodes : /\ Whole(i)' => Whole(i)
                           /\ \A k \in Slot : NotTruncated(i, k)' <=> NotTruncated(i, k)
  PROVE  Bitmap' /\ Mapped'
<1>1. \A i \in Inodes, k \in Slot : BlockIn(i, k)' = BlockIn(i, k)
  BY DEF BlockIn, Address, disk
<1>2. \A i \in Inodes, k \in Slot : Has(i, k)' <=> Has(i, k)
  BY <1>1 DEF Has
<1>3. Bitmap'
  BY <1>1, <1>2, BitmapKept DEF disk
<1>4. \A i \in Inodes : KeepsData(i)
  BY DiskSame DEF SameIn
<1>5. Mapped'
  BY <1>4, MappedKept DEF Mapped
<1> QED
  BY <1>3, <1>5

\* The step of a process of which the others take no notice.
LEMMA OthersLook ==
  ASSUME IInv, NEW q \in Procs, call'[q] = call[q], UNCHANGED <<disk, file>>,
         \A i \in Inodes : lock[i] = q => lock'[i] = q /\ before'[i] = before[i]
  PROVE  CallSound(q)'
<1>1. ASSUME Writes(q) PROVE file'[call[q].file] # Nothing
  BY <1>1 DEF IInv, Calls, WriteSound
<1>2. ASSUME Writei(q) PROVE lock'[Ip(q)] = q /\ before'[Ip(q)] = before[Ip(q)] /\ SameIn(Ip(q))
  BY <1>2, WriterIs, DiskSame DEF IInv, Writes, Writei
<1>3. ASSUME Itrunc(q)
      PROVE  /\ lock'[call[q].ip] = q /\ SameIn(call[q].ip)
             /\ \A f \in Files : file'[f] # Nothing => file'[f].ip # call[q].ip
  BY <1>3, DiskSame DEF IInv, Calls, TruncSound
<1> QED
  BY <1>1, <1>2, <1>3, OthersGoOn DEF IInv

LEMMA FilewriteStep ==
  ASSUME IInv, NEW p \in Procs, NEW f \in Files, NEW n \in Counts[p], filewrite(p, f, n), ~panicked
  PROVE  IInv'
<1>1. n \in Nat \ {0}
  BY Constants
<1>2. /\ call[p] = NoCall /\ file[f] # Nothing
      /\ call' = [call EXCEPT ![p] = [NoCall EXCEPT !.name = "write", !.file = f, !.left = n]]
      /\ UNCHANGED disk /\ UNCHANGED <<lock, file, before, panicked>>
  BY DEF filewrite
<1>3. call'[p] = [NoCall EXCEPT !.name = "write", !.file = f, !.left = n]
  BY <1>2 DEF IInv, TypeOK
<1>4. TypeOK'
  <2>1. call'[p] \in CallRecord
    <3>1. call'[p] = [name |-> "write", file |-> f, left |-> n, n |-> 0, tot |-> 0, ip |-> Nothing, logged |-> {}]
      BY <1>3 DEF NoCall
    <3>2. n \in Nat /\ {} \in SUBSET (0 .. NBLOCKS) /\ 0 \in Nat /\ f \in Files \cup {Nothing} /\ Nothing \in Inodes \cup {Nothing}
      BY <1>1
    <3> QED
      BY <3>1, <3>2 DEF CallRecord
  <2>2. DiskOK'
    BY <1>2 DEF IInv, TypeOK, DiskOK, disk
  <2> QED
    BY <1>2, <1>3, <2>1, <2>2 DEF IInv, TypeOK
<1>5. CallSound(p)'
  <2>1. /\ call'[p].name = "write" /\ call'[p].file = f /\ call'[p].left = n
        /\ call'[p].ip = Nothing /\ call'[p].logged = {}
    BY <1>3 DEF NoCall
  <2>2. WriteSound(p)'
    BY <1>1, <1>2, <2>1 DEF WriteSound
  <2> QED
    BY <2>1, <2>2 DEF CallSound, PieceSound, TruncSound, WrittenBy, LoggedBy, Writei, Itrunc
<1>6. ASSUME NEW q \in Procs \ {p} PROVE CallSound(q)'
  <2>1. call'[q] = call[q] /\ UNCHANGED <<disk, file>>
    BY <1>2 DEF IInv, TypeOK
  <2>2. \A i \in Inodes : lock[i] = q => lock'[i] = q /\ before'[i] = before[i]
    BY <1>2
  <2> QED
    BY <2>1, <2>2, OthersLook
<1>7. Calls' /\ Written' /\ Logged'
  BY <1>5, <1>6, AllSound
<1>8. \A q \in Procs : call'[q].ip = call[q].ip /\ (Itrunc(q) => call'[q].tot = call[q].tot)
  <2>1. call'[p].ip = call[p].ip /\ ~Itrunc(p)
    BY <1>2, <1>3 DEF NoCall, Itrunc
  <2> QED
    BY <1>2, <2>1 DEF IInv, TypeOK
<1>9. Bitmap' /\ Mapped'
  BY <1>2, <1>8, TruncsSame, NothingMoves DEF IInv
<1> QED
  BY <1>2, <1>4, <1>7, <1>9 DEF IInv, NeverFreesFree

\* A step with the table of open files alone.
LEMMA TableStep ==
  ASSUME IInv, UNCHANGED disk, UNCHANGED <<lock, call, before, panicked>>,
         file' \in [Files -> [ip : Inodes, off : Nat] \cup {Nothing}],
         \A q \in Procs :
           /\ Writes(q) => file'[call[q].file] # Nothing
           /\ Writei(q) => file'[call[q].file] = file[call[q].file]
           /\ Itrunc(q) => \A f \in Files : file'[f] # Nothing => file'[f].ip # call[q].ip
  PROVE  IInv'
<1>1. TypeOK'
  <2>1. DiskOK'
    BY DEF IInv, TypeOK, DiskOK, disk
  <2> QED
    BY <2>1 DEF IInv, TypeOK
<1>2. ASSUME NEW q \in Procs PROVE CallSound(q)'
  <2>1. ASSUME Writei(q) PROVE lock'[Ip(q)] = q /\ before'[Ip(q)] = before[Ip(q)] /\ SameIn(Ip(q))
    BY <2>1, WriterIs, DiskSame DEF IInv, Writes, Writei
  <2>2. ASSUME Itrunc(q) PROVE lock'[call[q].ip] = q /\ SameIn(call[q].ip)
    BY <2>2, DiskSame DEF IInv, Calls, TruncSound
  <2> QED
    BY <2>1, <2>2, OthersGoOn DEF IInv
<1>3. Calls' /\ Written' /\ Logged'
  BY <1>2, AllSound
<1>4. \A q \in Procs : call'[q].ip = call[q].ip /\ (Itrunc(q) => call'[q].tot = call[q].tot)
  OBVIOUS
<1>5. Bitmap' /\ Mapped'
  BY <1>4, TruncsSame, NothingMoves DEF IInv
<1> QED
  BY <1>1, <1>3, <1>5 DEF IInv, NeverFreesFree, disk

LEMMA FileIs ==
  ASSUME TypeOK, NEW f \in Files, file[f] # Nothing
  PROVE  file[f] \in [ip : Inodes, off : Nat] /\ file[f].ip \in Inodes /\ file[f].off \in Nat
BY DEF TypeOK

\* No piece of a write() goes on with a file whose inode is free.
LEMMA NoWriterOf ==
  ASSUME IInv, NEW f \in Files, file[f] # Nothing => lock[file[f].ip] = Nothing, NEW q \in Procs, Writei(q)
  PROVE  call[q].file # f
<1>1. lock[Ip(q)] = q /\ file[call[q].file] # Nothing
  BY WriterIs DEF IInv, Writes, Writei, Calls, WriteSound
<1> QED
  BY <1>1, Constants DEF Ip

LEMMA FilereadStep ==
  ASSUME IInv, NEW p \in Procs, NEW f \in Files, NEW n \in Counts[p], fileread(p, f, n), ~panicked
  PROVE  IInv'
<1>1. n \in Nat
  BY Constants
<1>2. file[f] # Nothing /\ lock[file[f].ip] = Nothing /\ UNCHANGED disk /\ UNCHANGED <<lock, call, before, panicked>>
  BY DEF fileread
<1>3. file[f].ip \in Inodes /\ file[f].off \in Nat /\ file[f] \in [ip : Inodes, off : Nat]
  BY <1>2, FileIs DEF IInv
<1>4. PICK end \in Nat : file' = [file EXCEPT ![f].off = end]
  <2>1. Min({file[f].off + n, size[file[f].ip]}) \in Nat
    <3>1. file[f].off + n \in Nat /\ size[file[f].ip] \in Nat
      BY <1>1, <1>3, SizeIs DEF IInv
    <3> QED
      BY <3>1, LesserOf
  <2> QED
    BY <2>1 DEF fileread
<1>5. file'[f] = [ip |-> file[f].ip, off |-> end] /\ \A g \in Files \ {f} : file'[g] = file[g]
  BY <1>3, <1>4 DEF IInv, TypeOK
<1>6. file' \in [Files -> [ip : Inodes, off : Nat] \cup {Nothing}]
  BY <1>3, <1>4 DEF IInv, TypeOK
<1>7. ASSUME NEW q \in Procs
      PROVE  /\ Writes(q) => file'[call[q].file] # Nothing
             /\ Writei(q) => file'[call[q].file] = file[call[q].file]
             /\ Itrunc(q) => \A g \in Files : file'[g] # Nothing => file'[g].ip # call[q].ip
  <2>1. file'[f] # Nothing
    BY <1>3, <1>5, BlocksAssumption
  <2>2. Writes(q) => file'[call[q].file] # Nothing
    BY <1>5, <2>1 DEF IInv, Calls, WriteSound
  <2>3. Writei(q) => file'[call[q].file] = file[call[q].file]
    <3>1. Writei(q) => call[q].file # f /\ call[q].file \in Files
      BY <1>2, NoWriterOf, WriterIs DEF IInv, Writes, Writei
    <3> QED
      BY <1>5, <3>1
  <2>4. Itrunc(q) => \A g \in Files : file'[g] # Nothing => file'[g].ip # call[q].ip
    BY <1>2, <1>5 DEF IInv, Calls, TruncSound
  <2> QED
    BY <2>2, <2>3, <2>4
<1> QED
  BY <1>2, <1>6, <1>7, TableStep

LEMMA OpenStep ==
  ASSUME IInv, NEW f \in Files, NEW i \in Inodes, open(f, i), ~panicked
  PROVE  IInv'
<1>1. /\ file[f] = Nothing /\ Whole(i) /\ file' = [file EXCEPT ![f] = [ip |-> i, off |-> 0]]
      /\ UNCHANGED disk /\ UNCHANGED <<lock, call, before, panicked>>
  BY DEF open, Truncating, Whole
<1>2. file'[f] = [ip |-> i, off |-> 0] /\ \A g \in Files \ {f} : file'[g] = file[g]
  BY <1>1 DEF IInv, TypeOK
<1>3. file' \in [Files -> [ip : Inodes, off : Nat] \cup {Nothing}]
  BY <1>1 DEF IInv, TypeOK
<1>4. ASSUME NEW q \in Procs
      PROVE  /\ Writes(q) => call[q].file \in Files \ {f} /\ file[call[q].file] # Nothing
             /\ Itrunc(q) => \A g \in Files : file'[g] # Nothing => file'[g].ip # call[q].ip
  <2>1. Writes(q) => call[q].file \in Files \ {f} /\ file[call[q].file] # Nothing
    BY <1>1 DEF IInv, Calls, WriteSound
  <2>2. Itrunc(q) => \A g \in Files : file'[g] # Nothing => file'[g].ip # call[q].ip
    BY <1>1, <1>2 DEF IInv, Calls, TruncSound, Whole
  <2> QED
    BY <2>1, <2>2
<1>5. \A q \in Procs : Writei(q) => Writes(q)
  BY DEF Writei, Writes
<1> QED
  BY <1>1, <1>2, <1>3, <1>4, <1>5, TableStep

LEMMA CloseStep ==
  ASSUME IInv, NEW f \in Files, close(f), ~panicked
  PROVE  IInv'
<1>1. /\ \A p \in Procs : call[p].file # f
      /\ file' = [file EXCEPT ![f] = Nothing]
      /\ UNCHANGED disk /\ UNCHANGED <<lock, call, before, panicked>>
  BY DEF close
<1>2. file'[f] = Nothing /\ \A g \in Files \ {f} : file'[g] = file[g]
  BY <1>1 DEF IInv, TypeOK
<1>3. file' \in [Files -> [ip : Inodes, off : Nat] \cup {Nothing}]
  BY <1>1 DEF IInv, TypeOK
<1>4. ASSUME NEW q \in Procs
      PROVE  /\ Writes(q) => call[q].file \in Files \ {f} /\ file[call[q].file] # Nothing
             /\ Itrunc(q) => \A g \in Files : file'[g] # Nothing => file'[g].ip # call[q].ip
  BY <1>1, <1>2 DEF IInv, Calls, WriteSound, TruncSound
<1>5. \A q \in Procs : Writei(q) => Writes(q)
  BY DEF Writei, Writes
<1> QED
  BY <1>1, <1>2, <1>3, <1>4, <1>5, TableStep

\* A step that changes a call and perhaps a lock, and nothing else.
LEMMA CallStep ==
  ASSUME IInv, NEW p \in Procs, NEW c \in CallRecord, call' = [call EXCEPT ![p] = c], UNCHANGED <<disk, file, panicked>>,
         lock' \in [Inodes -> Procs \cup {Nothing}], before' \in [Inodes -> Seq(Nat)],
         \A i \in Inodes : lock[i] # Nothing => lock'[i] = lock[i] /\ before'[i] = before[i],
         \A i \in Inodes : /\ Whole(i)' => Whole(i)
                           /\ \A k \in Slot : NotTruncated(i, k)' <=> NotTruncated(i, k),
         CallSound(p)'
  PROVE  IInv'
<1>1. call'[p] = c /\ \A q \in Procs \ {p} : call'[q] = call[q]
  BY DEF IInv, TypeOK
<1>2. TypeOK'
  <2>1. DiskOK'
    BY DEF IInv, TypeOK, DiskOK, disk
  <2>2. call' \in [Procs -> CallRecord]
    BY DEF IInv, TypeOK
  <2> QED
    BY <2>1, <2>2 DEF IInv, TypeOK
<1>3. ASSUME NEW q \in Procs \ {p} PROVE CallSound(q)'
  <2>1. \A i \in Inodes : lock[i] = q => lock'[i] = q /\ before'[i] = before[i]
    BY Constants
  <2> QED
    BY <1>1, <2>1, OthersLook
<1>4. Calls' /\ Written' /\ Logged'
  BY <1>3, AllSound
<1>5. Bitmap' /\ Mapped'
  BY NothingMoves DEF IInv
<1> QED
  BY <1>2, <1>4, <1>5 DEF IInv, NeverFreesFree, disk

LEMMA WriteBeginStep ==
  ASSUME IInv, NEW p \in Procs, WriteBegin(p), ~panicked
  PROVE  IInv'
<1>0. call[p].name = "write" /\ Writes(p) /\ ~Itrunc(p)
  BY DEF WriteBegin, Writes, Itrunc
<1>1. PICK n \in Nat : n = Min({call[p].left, MaxPiece}) /\ n \in 1 .. MaxPiece /\ n <= call[p].left
  <2>1. call[p].left \in Nat \ {0} /\ MaxPiece \in Nat \ {0}
    BY <1>0, WriterIs, Constants DEF IInv
  <2>2. Min({call[p].left, MaxPiece}) \in Nat /\ Min({call[p].left, MaxPiece}) \in 1 .. MaxPiece /\ Min({call[p].left, MaxPiece}) <= call[p].left
    BY <2>1, LesserOf
  <2> QED
    BY <2>2
<1>2. PICK i \in Inodes, off \in Nat : i = Ip(p) /\ off = Off(p)
  BY <1>0, WriterIs DEF IInv
<1>3. /\ lock[i] = Nothing /\ UNCHANGED <<disk, file, panicked>>
      /\ IF off > size[i] \/ off + n > MaxSize
         THEN call' = [call EXCEPT ![p] = NoCall] /\ UNCHANGED <<lock, before>>
         ELSE /\ call' = [call EXCEPT ![p].name = "writei", ![p].n = n, ![p].tot = 0, ![p].logged = {}]
              /\ Ilock(p, i)
  BY <1>1, <1>2 DEF WriteBegin
<1>4. call[p] \in CallRecord /\ call[p].ip = Nothing /\ call[p].file \in Files
  BY <1>0, WriterIs DEF IInv, TypeOK
<1>5. Whole(i)
  BY <1>3, FreeIsWhole DEF IInv
<1>6. ASSUME NEW c \in CallRecord, c.ip = Nothing, call' = [call EXCEPT ![p] = c]
      PROVE  \A j \in Inodes : /\ Whole(j)' => Whole(j)
                               /\ \A k \in Slot : NotTruncated(j, k)' <=> NotTruncated(j, k)
  <2>1. \A q \in Procs : call'[q].ip = call[q].ip /\ (Itrunc(q) => call'[q].tot = call[q].tot)
    BY <1>0, <1>4, <1>6 DEF IInv, TypeOK
  <2> QED
    BY <2>1, TruncsSame DEF IInv
<1>7. CASE off > size[i] \/ off + n > MaxSize
  <2>1. call' = [call EXCEPT ![p] = NoCall] /\ UNCHANGED <<lock, before>>
    BY <1>3, <1>7
  <2>2. NoCall \in CallRecord /\ NoCall.ip = Nothing
    BY DEF NoCall, CallRecord
  <2>3. call'[p] = NoCall
    BY <2>1 DEF IInv, TypeOK
  <2>4. CallSound(p)'
    BY <2>3 DEF NoCall, CallSound, WriteSound, PieceSound, TruncSound, WrittenBy, LoggedBy, Writes, Writei, Itrunc
  <2>5. lock' \in [Inodes -> Procs \cup {Nothing}] /\ before' \in [Inodes -> Seq(Nat)]
    BY <2>1 DEF IInv, TypeOK
  <2>6. \A j \in Inodes : lock[j] # Nothing => lock'[j] = lock[j] /\ before'[j] = before[j]
    BY <2>1
  <2> QED
    BY <1>3, <1>6, <2>1, <2>2, <2>4, <2>5, <2>6, CallStep
<1>8. CASE ~(off > size[i] \/ off + n > MaxSize)
  <2>1. /\ call' = [call EXCEPT ![p].name = "writei", ![p].n = n, ![p].tot = 0, ![p].logged = {}]
        /\ Ilock(p, i)
    BY <1>3, <1>8
  <2>2. PICK c : c = [call[p] EXCEPT !.name = "writei", !.n = n, !.tot = 0, !.logged = {}]
    OBVIOUS
  <2>3. c \in CallRecord /\ c.ip = Nothing
    BY <1>4, <2>2 DEF CallRecord
  <2>c. c.name = "writei" /\ c.file = call[p].file /\ c.left = call[p].left /\ c.n = n /\ c.tot = 0 /\ c.logged = {}
    BY <1>4, <2>2 DEF CallRecord
  <2>4. call' = [call EXCEPT ![p] = c]
    BY <2>1, <2>2 DEF IInv, TypeOK
  <2>5. call'[p] = c
    BY <2>4 DEF IInv, TypeOK
  <2>6. lock' = [lock EXCEPT ![i] = p] /\ before' = [before EXCEPT ![i] = Text(i)]
    BY <2>1 DEF Ilock
  <2>7. lock'[i] = p /\ before'[i] = Text(i)
    BY <2>6 DEF IInv, TypeOK
  <2>8. \A j \in Inodes : lock[j] # Nothing => lock'[j] = lock[j] /\ before'[j] = before[j]
    BY <1>3, <2>6 DEF IInv, TypeOK
  <2>9. Text(i) \in Seq(Nat) /\ Len(Text(i)) = size[i] /\ \A k \in 0 .. size[i] - 1 : Text(i)[k + 1] = Byte(i, k)
    BY <1>5, TextIs DEF IInv
  <2>10. lock' \in [Inodes -> Procs \cup {Nothing}] /\ before' \in [Inodes -> Seq(Nat)]
    BY <2>6, <2>9 DEF IInv, TypeOK
  <2>11. CallSound(p)'
    <3>1. Ip(p)' = i /\ Off(p)' = off /\ Writei(p)' /\ ~Itrunc(p)'
      <4>1. call'[p].file = call[p].file /\ call'[p].name = "writei"
        BY <2>c, <2>5
      <4>2. file'[call'[p].file] = file[call[p].file]
        BY <1>3, <4>1
      <4>3. Ip(p)' = i /\ Off(p)' = off
        BY <1>2, <4>2 DEF Ip, Off
      <4> QED
        BY <4>1, <4>3 DEF Writei, Itrunc
    <3>2. WriteSound(p)'
      BY <1>0, <1>3, <2>c, <2>5 DEF IInv, Calls, WriteSound
    <3>3. PieceSound(p)'
      <4>1. off <= size[i] /\ off + n <= MaxSize /\ size[i] \in Nat /\ MaxSize \in Nat
        BY <1>8, SizeIs, Constants DEF IInv
      <4>2. call'[p].n = n /\ call'[p].tot = 0 /\ call'[p].left = call[p].left /\ size' = size
        BY <1>3, <2>c, <2>5 DEF disk
      <4> QED
        BY <1>1, <2>7, <3>1, <4>1, <4>2 DEF PieceSound
    <3>4. TruncSound(p)'
      BY <2>3, <2>5, <3>1 DEF TruncSound
    <3>5. WrittenBy(p)'
      <4>1. size' = size /\ \A k : Byte(i, k)' = Byte(i, k)
        BY <1>3 DEF disk, Byte, Address
      <4>2. ASSUME NEW k \in off .. off - 1 PROVE FALSE
        OBVIOUS
      <4>3. PieceIn(p, i, off, off)'
        BY <2>7, <2>9, <4>1, <4>2 DEF PieceIn
      <4>4. Off(p)' + call'[p].tot = off
        BY <2>c, <2>5, <3>1
      <4> QED
        BY <3>1, <4>3, <4>4 DEF WrittenBy
    <3>6. LoggedBy(p)'
      BY <2>c, <2>5, <3>1 DEF LoggedBy
    <3> QED
      BY <3>2, <3>3, <3>4, <3>5, <3>6 DEF CallSound
  <2> QED
    BY <1>3, <1>6, <2>3, <2>4, <2>8, <2>10, <2>11, CallStep
<1> QED
  BY <1>7, <1>8

\* No block is left: balloc() panics.
LEMMA PanicStep ==
  ASSUME IInv, Numbers \ used = {}, UNCHANGED disk, UNCHANGED <<call, lock, file, before>>
  PROVE  IInv' /\ FreeStays
<1>1. TypeOK'
  <2>1. DiskOK'
    BY DEF IInv, TypeOK, DiskOK, disk
  <2> QED
    BY <2>1 DEF IInv, TypeOK
<1>2. \A q \in Procs : CallSound(q)'
  BY OthersLook
<1>3. Calls' /\ Written' /\ Logged'
  BY <1>2, AllSound
<1>4. \A q \in Procs : call'[q].ip = call[q].ip /\ (Itrunc(q) => call'[q].tot = call[q].tot)
  OBVIOUS
<1>5. Bitmap' /\ Mapped'
  BY <1>4, TruncsSame, NothingMoves DEF IInv
<1>6. used' = Numbers
  BY DEF IInv, TypeOK, DiskOK, disk
<1>7. FreeStays
  BY DiskSame DEF FreeStays
<1> QED
  BY <1>1, <1>3, <1>5, <1>6, <1>7 DEF IInv, NeverFreesFree

LEMMA TruncBeginStep ==
  ASSUME IInv, NEW p \in Procs, NEW i \in Inodes, TruncBegin(p, i), ~panicked
  PROVE  IInv'
<1>1. /\ call[p] = NoCall /\ \A f \in Files : file[f] # Nothing => file[f].ip # i
      /\ lock[i] = Nothing /\ lock' = [lock EXCEPT ![i] = p] /\ before' = [before EXCEPT ![i] = Text(i)]
      /\ call' = [call EXCEPT ![p] = [NoCall EXCEPT !.name = "itrunc", !.ip = i]]
      /\ UNCHANGED <<disk, file, panicked>>
  BY DEF TruncBegin, Ilock
<1>2. PICK c : c = [NoCall EXCEPT !.name = "itrunc", !.ip = i]
  OBVIOUS
<1>3. c \in CallRecord /\ c.name = "itrunc" /\ c.ip = i /\ c.tot = 0 /\ c.logged = {}
  BY <1>2 DEF NoCall, CallRecord
<1>4. call' = [call EXCEPT ![p] = c] /\ call'[p] = c /\ \A q \in Procs \ {p} : call'[q] = call[q]
  BY <1>1, <1>2 DEF IInv, TypeOK
<1>5. call[p].ip = Nothing
  BY <1>1 DEF NoCall
<1>6. ASSUME NEW j \in Inodes
      PROVE  /\ Whole(j)' => Whole(j)
             /\ \A k \in Slot : NotTruncated(j, k)' <=> NotTruncated(j, k)
  <2>1. Whole(j)' => Whole(j)
    BY <1>4, <1>5, Constants DEF Whole
  <2>2. \A k \in Slot : k >= 0
    BY Constants DEF Slot
  <2>3. \A k \in Slot : NotTruncated(j, k)' <=> NotTruncated(j, k)
    BY <1>3, <1>4, <1>5, <2>2, Constants DEF NotTruncated
  <2> QED
    BY <2>1, <2>3
<1>7. lock' \in [Inodes -> Procs \cup {Nothing}] /\ before' \in [Inodes -> Seq(Nat)]
  <2>1. Text(i) \in Seq(Nat)
    BY <1>1, FreeIsWhole, TextIs DEF IInv
  <2> QED
    BY <1>1, <2>1 DEF IInv, TypeOK
<1>8. \A j \in Inodes : lock[j] # Nothing => lock'[j] = lock[j] /\ before'[j] = before[j]
  BY <1>1 DEF IInv, TypeOK
<1>9. CallSound(p)'
  <2>1. lock'[i] = p
    BY <1>1 DEF IInv, TypeOK
  <2>2. TruncSound(p)'
    <3>1. 0 \in Slot /\ \A k \in 0 .. (NDIRECT - 1) : ~(k < 0)
      BY Constants DEF Slot
    <3>2. \A f \in Files : file'[f] # Nothing => file'[f].ip # i
      BY <1>1
    <3> QED
      BY <1>3, <1>4, <2>1, <3>1, <3>2 DEF TruncSound, Itrunc
  <2> QED
    BY <1>3, <1>4, <2>2 DEF CallSound, WriteSound, PieceSound, WrittenBy, LoggedBy, Writes, Writei
<1> QED
  BY <1>1, <1>3, <1>4, <1>6, <1>7, <1>8, <1>9, CallStep

LEMMA WriteEndStep ==
  ASSUME IInv, NEW p \in Procs, WriteEnd(p), ~panicked
  PROVE  IInv'
<1>0. Writei(p) /\ Writes(p) /\ ~Itrunc(p) /\ call[p].tot = call[p].n
  BY DEF WriteEnd, Writei, Writes, Itrunc
<1>1. PICK i \in Inodes, off \in Nat, n \in Nat \ {0}, f \in Files :
        i = Ip(p) /\ off = Off(p) /\ n = call[p].n /\ f = call[p].file
  BY <1>0, WriterIs DEF IInv
<1>2. /\ file[f] \in [ip : Inodes, off : Nat] /\ file[f].ip = i /\ file[f].off = off
      /\ call[p].left \in Nat \ {0} /\ call[p].ip = Nothing /\ Whole(i) /\ lock[i] = p
      /\ off <= size[i] /\ off + n <= MaxSize
  BY <1>0, <1>1, WriterIs DEF IInv, Ip, Off
<1>3. n <= call[p].left
  BY <1>0, <1>1 DEF IInv, Calls, PieceSound
<1>4. PICK left \in Nat : left = call[p].left - n
  BY <1>2, <1>3
<1>5. PICK c : c = IF left = 0 THEN NoCall ELSE [NoCall EXCEPT !.name = "write", !.file = f, !.left = left]
  OBVIOUS
<1>6. /\ c \in CallRecord /\ c.ip = Nothing /\ c.logged = {} /\ c.name \in {"none", "write"}
      /\ c.name = "write" => c.file = f /\ c.left \in Nat \ {0}
  BY <1>5 DEF NoCall, CallRecord
<1>7. /\ size' = [size EXCEPT ![i] = NewSize(i, off + n)]
      /\ file' = [file EXCEPT ![f].off = off + n]
      /\ call' = [call EXCEPT ![p] = c]
      /\ lock' = [lock EXCEPT ![i] = Nothing] /\ before' = [before EXCEPT ![i] = <<>>]
      /\ UNCHANGED <<used, addrs, bytes, entries, panicked>>
  BY <1>1, <1>4, <1>5 DEF WriteEnd, Iunlock
<1>8. /\ call'[p] = c /\ \A q \in Procs \ {p} : call'[q] = call[q]
      /\ lock'[i] = Nothing /\ \A j \in Inodes \ {i} : lock'[j] = lock[j] /\ before'[j] = before[j]
  BY <1>7 DEF IInv, TypeOK
<1>9. file'[f] = [ip |-> i, off |-> off + n] /\ \A g \in Files \ {f} : file'[g] = file[g]
  BY <1>2, <1>7 DEF IInv, TypeOK
<1>10. PICK s \in 0 .. MaxSize : s = NewSize(i, off + n) /\ s \in {size[i], off + n}
  <2>1. size[i] \in Nat /\ size[i] <= MaxSize /\ MaxSize \in Nat
    BY SizeIs, Constants DEF IInv
  <2> QED
    BY <1>2, <2>1 DEF NewSize
<1>11. size' = [size EXCEPT ![i] = s] /\ size'[i] = s /\ \A j \in Inodes \ {i} : size'[j] = size[j]
  BY <1>7, <1>10 DEF IInv, TypeOK, DiskOK
<1>12. TypeOK'
  <2>1. DiskOK'
    BY <1>7, <1>11 DEF IInv, TypeOK, DiskOK
  <2>2. file' \in [Files -> [ip : Inodes, off : Nat] \cup {Nothing}]
    <3>1. off + n \in Nat /\ [ip |-> i, off |-> off + n] \in [ip : Inodes, off : Nat]
      BY <1>1
    <3>2. file' \in [Files -> [ip : Inodes, off : Nat] \cup {Nothing}] <=> \A g \in Files : file'[g] \in [ip : Inodes, off : Nat] \cup {Nothing}
      BY <1>7 DEF IInv, TypeOK
    <3>3. \A g \in Files \ {f} : file'[g] \in [ip : Inodes, off : Nat] \cup {Nothing}
      BY <1>9 DEF IInv, TypeOK
    <3> QED
      BY <1>9, <3>1, <3>2, <3>3
  <2> QED
    BY <1>6, <1>7, <2>1, <2>2 DEF IInv, TypeOK
<1>13. \A j \in Inodes : \A bn : Address(j, bn)' = Address(j, bn)
  BY <1>7 DEF Address
<1>14. \A j \in Inodes \ {i} : SameIn(j)
  BY <1>7, <1>11, <1>13 DEF SameIn, KeepsData
<1>15. file'[f] # Nothing
  BY <1>9, BlocksAssumption
<1>16. CallSound(p)'
  BY <1>6, <1>8, <1>15 DEF CallSound, WriteSound, PieceSound, TruncSound, WrittenBy, LoggedBy, Writes, Writei, Itrunc
<1>17. ASSUME NEW q \in Procs \ {p} PROVE CallSound(q)'
  <2>1. Writes(q) => file'[call[q].file] # Nothing
    BY <1>9, <1>15 DEF IInv, Calls, WriteSound
  <2>2. ASSUME Writei(q)
        PROVE  /\ file'[call[q].file] = file[call[q].file]
               /\ lock'[Ip(q)] = q /\ before'[Ip(q)] = before[Ip(q)] /\ SameIn(Ip(q))
    <3>1. Ip(q) \in Inodes \ {i} /\ lock[Ip(q)] = q /\ call[q].file \in Files
      BY <1>2, <2>2, OneWorker, WriterIs DEF IInv, Writes, Writei
    <3>2. call[q].file # f
      BY <1>2, <3>1 DEF Ip
    <3> QED
      BY <1>8, <1>9, <1>14, <3>1, <3>2
  <2>3. ASSUME Itrunc(q)
        PROVE  /\ lock'[call[q].ip] = q /\ SameIn(call[q].ip)
               /\ \A g \in Files : file'[g] # Nothing => file'[g].ip # call[q].ip
    <3>1. call[q].ip \in Inodes \ {i} /\ lock[call[q].ip] = q
      BY <1>2, <2>3, OneWorker DEF IInv
    <3>2. \A g \in Files : file'[g] # Nothing => file'[g].ip # call[q].ip
      BY <1>9, <2>3, <3>1 DEF IInv, Calls, TruncSound
    <3> QED
      BY <1>8, <1>14, <3>1, <3>2
  <2> QED
    BY <1>8, <2>1, <2>2, <2>3, OthersGoOn DEF IInv
<1>18. Calls' /\ Written' /\ Logged'
  BY <1>16, <1>17, AllSound
<1>19. \A q \in Procs : call'[q].ip = call[q].ip /\ (Itrunc(q) => call'[q].tot = call[q].tot)
  BY <1>0, <1>2, <1>6, <1>8
<1>20. \A j \in Inodes : (Whole(j)' <=> Whole(j)) /\ \A k \in Slot : NotTruncated(j, k)' <=> NotTruncated(j, k)
  BY <1>19, TruncsSame DEF IInv
<1>21. Bitmap'
  <2>1. \A j \in Inodes, k \in Slot : BlockIn(j, k)' = BlockIn(j, k)
    BY <1>7, <1>13 DEF BlockIn
  <2>2. \A j \in Inodes, k \in Slot : Has(j, k)' <=> Has(j, k)
    BY <1>20, <2>1 DEF Has
  <2> QED
    BY <1>7, <2>1, <2>2, BitmapKept DEF IInv
<1>22. Mapped'
  <2>1. \A j \in Inodes \ {i} : MappedIn(j)'
    BY <1>14, <1>20, MappedKept DEF IInv, SameIn
  <2>2. ASSUME NEW k \in 0 .. s - 1 PROVE Address(i, k \div BSIZE) # 0
    <3>1. CASE k < size[i]
      <4>1. k \in 0 .. size[i] - 1
        BY <3>1, SizeIs DEF IInv
      <4> QED
        BY <1>2, <4>1 DEF IInv, Mapped, MappedIn
    <3>2. CASE ~(k < size[i])
      <4>1. k \in off .. off + n - 1
        BY <1>2, <1>10, <3>2, SizeIs DEF IInv
      <4>2. PieceIn(p, i, off, off + n)
        BY <1>0, <1>1 DEF IInv, Written, WrittenBy
      <4> QED
        BY <4>1, <4>2 DEF PieceIn
    <3> QED
      BY <3>1, <3>2
  <2>3. MappedIn(i)'
    BY <1>11, <1>13, <2>2 DEF MappedIn
  <2> QED
    BY <2>1, <2>3 DEF Mapped
<1> QED
  BY <1>7, <1>12, <1>18, <1>21, <1>22 DEF IInv, NeverFreesFree

\* A step of a piece of a write(), with blocks of its own inode.
LEMMA PieceStep ==
  ASSUME IInv, ~panicked, NEW p \in Procs, Writei(p), NEW i \in Inodes, i = Ip(p),
         NEW c \in CallRecord, call' = [call EXCEPT ![p] = c], c.ip = Nothing,
         UNCHANGED <<lock, file, before, panicked>>,
         \A j \in Inodes \ {i} : SameIn(j),
         DiskOK', Bitmap', MappedIn(i)', CallSound(p)'
  PROVE  IInv' /\ FreeStays
<1>1. lock[i] = p /\ ~Itrunc(p) /\ call[p].ip = Nothing
  BY WriterIs DEF IInv, Writes, Writei
<1>2. call'[p] = c /\ \A q \in Procs \ {p} : call'[q] = call[q]
  BY DEF IInv, TypeOK
<1>3. TypeOK'
  BY DEF IInv, TypeOK
<1>4. ASSUME NEW q \in Procs \ {p} PROVE CallSound(q)'
  <2>1. Writes(q) => file'[call[q].file] # Nothing
    BY DEF IInv, Calls, WriteSound
  <2>2. Writei(q) => Ip(q) \in Inodes \ {i} /\ lock[Ip(q)] = q
    BY <1>1, OneWorker DEF IInv
  <2>3. Itrunc(q) => call[q].ip \in Inodes \ {i} /\ lock[call[q].ip] = q
    BY <1>1, OneWorker DEF IInv
  <2>4. Itrunc(q) => \A g \in Files : file'[g] # Nothing => file'[g].ip # call[q].ip
    BY DEF IInv, Calls, TruncSound
  <2> QED
    BY <1>1, <1>2, <2>1, <2>2, <2>3, <2>4, OthersGoOn DEF IInv
<1>5. Calls' /\ Written' /\ Logged'
  BY <1>4, AllSound
<1>6. \A q \in Procs : call'[q].ip = call[q].ip /\ (Itrunc(q) => call'[q].tot = call[q].tot)
  BY <1>1, <1>2
<1>7. \A j \in Inodes : Whole(j)' => Whole(j)
  BY <1>6, TruncsSame DEF IInv
<1>8. Mapped'
  <2>1. \A j \in Inodes \ {i} : MappedIn(j)'
    BY <1>1, <1>7, MappedKept DEF IInv, SameIn
  <2> QED
    BY <2>1 DEF Mapped
<1>9. FreeStays
  BY <1>1, Constants DEF FreeStays
<1> QED
  BY <1>3, <1>5, <1>8, <1>9 DEF IInv, NeverFreesFree

\* p is in writei() of inode i, which it has locked and which has all its
\* blocks, at block k of the file.
WritingIs(p, i, k) ==
  /\ Writei(p) /\ i = Ip(p) /\ k = BlockNo(p)
  /\ call[p] \in CallRecord /\ call[p].ip = Nothing
  /\ Whole(i) /\ lock[i] = p /\ k \in Through(p)

\* What the turn of the loop of writei() is about.
LEMMA TurnIs ==
  ASSUME IInv, NEW p \in Procs, Writing(p)
  PROVE  \E i \in Inodes, k \in DataSlot : WritingIs(p, i, k)
<1>1. Writei(p) /\ Writes(p) /\ call[p].tot < call[p].n
  BY DEF Writing, Writei, Writes
<1>2. PICK i \in Inodes, a \in Nat, n \in Nat \ {0}, tot \in Nat :
        /\ i = Ip(p) /\ a = Off(p) /\ n = call[p].n /\ tot = call[p].tot
        /\ Whole(i) /\ lock[i] = p /\ call[p].ip = Nothing /\ a + n <= MaxSize /\ tot < n
  BY <1>1, WriterIs DEF IInv
<1>3. PICK k : k = BlockNo(p) /\ k = (a + tot) \div BSIZE
  BY <1>2 DEF BlockNo, Place
<1>4. a + tot \in Nat /\ a + tot < MaxSize /\ a + n - 1 \in Nat /\ a <= a + tot /\ a + tot <= a + n - 1
  BY <1>2, Constants
<1>5. k \in DataSlot
  BY <1>3, <1>4, BlockOf
<1>6. k \in Through(p)
  <2>1. a \div BSIZE <= (a + tot) \div BSIZE
    BY <1>4, DivisionOrder
  <2>2. (a + tot) \div BSIZE <= (a + n - 1) \div BSIZE
    BY <1>4, DivisionOrder
  <2>3. k \in Int /\ a \div BSIZE \in Int /\ (a + n - 1) \div BSIZE \in Int
    BY <1>3, <1>4, Constants
  <2>4. Through(p) = (a \div BSIZE) .. ((a + n - 1) \div BSIZE)
    BY <1>2 DEF Through
  <2> QED
    BY <1>3, <2>1, <2>2, <2>3, <2>4
<1>7. call[p] \in CallRecord
  BY DEF IInv, TypeOK
<1> QED
  BY <1>1, <1>2, <1>3, <1>5, <1>6, <1>7 DEF WritingIs

\* It changes no inode's progress with itrunc(), and none of the blocks of others.
LEMMA PieceTruncates ==
  ASSUME IInv, NEW p \in Procs, call[p].ip = Nothing, Writei(p), NEW c \in CallRecord, c.ip = Nothing, call' = [call EXCEPT ![p] = c]
  PROVE  \A j \in Inodes : (Whole(j)' <=> Whole(j)) /\ \A k \in Slot : NotTruncated(j, k)' <=> NotTruncated(j, k)
<1>1. \A q \in Procs : call'[q].ip = call[q].ip /\ (Itrunc(q) => call'[q].tot = call[q].tot)
  BY DEF IInv, TypeOK, Writei, Itrunc
<1> QED
  BY <1>1, TruncsSame DEF IInv

LEMMA SameSlots ==
  ASSUME NEW j \in Inodes, SameIn(j), \A k \in Slot : NotTruncated(j, k)' <=> NotTruncated(j, k), NEW l \in Slot
  PROVE  BlockIn(j, l)' = BlockIn(j, l) /\ (Has(j, l)' <=> Has(j, l))
<1>1. BlockIn(j, l)' = BlockIn(j, l)
  BY SlotsAre DEF SameIn, BlockIn
<1> QED
  BY <1>1 DEF Has

LEMMA Zeros ==
  /\ ZeroBytes \in [0 .. BSIZE - 1 -> Nat] /\ NoEntries \in [0 .. NINDIRECT - 1 -> Numbers \cup {0}]
  /\ \A k \in 0 .. NINDIRECT - 1 : NoEntries[k] = 0
BY DEF ZeroBytes, NoEntries

\* The call once it has logged Y.
HasLogged(p, c, Y) ==
  /\ c \in CallRecord /\ c = [call[p] EXCEPT !.logged = @ \cup Y]
  /\ c.ip = call[p].ip /\ c.file = call[p].file

LEMMA LogMore ==
  ASSUME NEW p \in Procs, call[p] \in CallRecord, NEW Y \in SUBSET (0 .. NBLOCKS)
  PROVE  \E c : HasLogged(p, c, Y)
<1>1. [call[p] EXCEPT !.logged = @ \cup Y].ip = call[p].ip /\ [call[p] EXCEPT !.logged = @ \cup Y].file = call[p].file
  BY DEF CallRecord
<1>2. [call[p] EXCEPT !.logged = @ \cup Y] \in CallRecord
  BY DEF CallRecord
<1> QED
  BY <1>1, <1>2 DEF HasLogged

LEMMA MapIndirectStep ==
  ASSUME IInv, NEW p \in Procs, MapIndirect(p), ~panicked
  PROVE  IInv' /\ FreeStays
<1>0. PICK i \in Inodes, k \in DataSlot : WritingIs(p, i, k)
  BY TurnIs DEF MapIndirect
<1>w. /\ Writei(p) /\ i = Ip(p) /\ k = BlockNo(p) /\ call[p] \in CallRecord /\ call[p].ip = Nothing
      /\ Whole(i) /\ lock[i] = p /\ addrs[i][NDIRECT] = 0 /\ UNCHANGED <<lock, file, before>>
  BY <1>0 DEF WritingIs, MapIndirect, NeedsIndirect
<1>1. CASE OutOfBlocks
  BY <1>1, <1>w, PanicStep DEF OutOfBlocks
<1>2. CASE ~OutOfBlocks
  <2>0. /\ balloc
        /\ addrs' = [addrs EXCEPT ![Ip(p)][NDIRECT] = NewBlock]
        /\ Logs(p, {BITMAP, NewBlock})
        /\ UNCHANGED <<size, panicked>>
    BY <1>2 DEF MapIndirect
  <2>1. PICK b \in Numbers \ used : b = NewBlock /\ b # 0
    BY <2>0, NewBlockIs DEF balloc
  <2>2. /\ used' = used \cup {b} /\ size' = size /\ panicked' = panicked
        /\ addrs' = [addrs EXCEPT ![i][NDIRECT] = b]
        /\ bytes' = [bytes EXCEPT ![b] = ZeroBytes] /\ entries' = [entries EXCEPT ![b] = NoEntries]
        /\ call' = [call EXCEPT ![p].logged = @ \cup {0, b}]
    BY <1>w, <2>0, <2>1 DEF balloc, Zeroed, Logs, BITMAP
  <2>3. addrs'[i] = [addrs[i] EXCEPT ![NDIRECT] = b] /\ \A j \in Inodes \ {i} : addrs'[j] = addrs[j]
    BY <2>2 DEF IInv, TypeOK, DiskOK
  <2>4. addrs'[i][NDIRECT] = b /\ \A l \in 0 .. (NDIRECT - 1) : addrs'[i][l] = addrs[i][l]
    BY <2>3, Constants DEF IInv, TypeOK, DiskOK
  <2>5. /\ bytes'[b] = ZeroBytes /\ entries'[b] = NoEntries
        /\ \A d \in Numbers \ {b} : bytes'[d] = bytes[d] /\ entries'[d] = entries[d]
    BY <2>2 DEF IInv, TypeOK, DiskOK
  <2>6. DiskOK'
    <3>1. addrs' \in [Inodes -> [0 .. NDIRECT -> Numbers \cup {0}]]
      BY <2>2, Constants DEF IInv, TypeOK, DiskOK
    <3>2. bytes' \in [Numbers -> [0 .. BSIZE - 1 -> Nat]] /\ entries' \in [Numbers -> [0 .. NINDIRECT - 1 -> Numbers \cup {0}]]
      BY <2>2, Zeros DEF IInv, TypeOK, DiskOK
    <3> QED
      BY <2>2, <3>1, <3>2 DEF IInv, TypeOK, DiskOK
  <2>7. PICK c \in CallRecord : c = [call[p] EXCEPT !.logged = @ \cup {0, b}] /\ c.ip = Nothing /\ c.file = call[p].file
    <3>1. 0 \in 0 .. NBLOCKS /\ b \in 0 .. NBLOCKS
      BY Constants DEF Numbers
    <3>2. {0, b} \in SUBSET (0 .. NBLOCKS)
      BY <3>1
    <3>3. \E c : HasLogged(p, c, {0, b})
      BY <1>w, <3>2, LogMore
    <3> QED
      BY <1>w, <3>3 DEF HasLogged
  <2>8. call' = [call EXCEPT ![p] = c] /\ call'[p] = c
    BY <2>2, <2>7 DEF IInv, TypeOK
  <2>9. \A j \in Inodes : (Whole(j)' <=> Whole(j)) /\ \A l \in Slot : NotTruncated(j, l)' <=> NotTruncated(j, l)
    BY <1>w, <2>7, <2>8, PieceTruncates
  <2>10. \A j \in Inodes \ {i} : SameIn(j)
    <3>1. PICK X : X = {b}
      OBVIOUS
    <3>2. \A d \in X : d \notin used
      BY <2>1, <3>1
    <3>3. \A j \in Inodes \ {i} : addrs'[j] = addrs[j] /\ size'[j] = size[j]
      BY <2>2, <2>3
    <3>4. \A d \in Numbers \ X : bytes'[d] = bytes[d] /\ entries'[d] = entries[d]
      BY <2>5, <3>1
    <3> QED
      BY <3>2, <3>3, <3>4, Elsewhere DEF IInv
  <2>11. \A bn \in DataSlot : Address(i, bn)' = Address(i, bn)
    <3> SUFFICES ASSUME NEW bn \in DataSlot PROVE Address(i, bn)' = Address(i, bn)
      OBVIOUS
    <3>1. CASE bn < NDIRECT
      BY <2>4, <3>1, Constants DEF Address, DataSlot
    <3>2. CASE ~(bn < NDIRECT)
      <4>1. Address(i, bn)' = NoEntries[bn - NDIRECT] /\ Address(i, bn) = 0
        BY <1>w, <2>1, <2>4, <2>5, <3>2 DEF Address
      <4>2. bn - NDIRECT \in 0 .. NINDIRECT - 1
        BY <3>2, Constants DEF DataSlot
      <4> QED
        BY <4>1, <4>2, Zeros
    <3> QED
      BY <3>1, <3>2
  <2>12. KeepsData(i)
    <3>1. ASSUME NEW bn \in DataSlot, Has(i, bn) PROVE bytes'[Address(i, bn)] = bytes[Address(i, bn)]
      <4>1. BlockIn(i, bn) \in used /\ BlockIn(i, bn) = Address(i, bn)
        BY <3>1, SlotsAre DEF IInv, Bitmap, BlockIn
      <4>2. Address(i, bn) \in Numbers \ {b}
        BY <2>1, <4>1 DEF IInv, TypeOK, DiskOK
      <4> QED
        BY <2>5, <4>2
    <3> QED
      BY <2>2, <2>11, <3>1 DEF KeepsData
  <2>13. Bitmap'
    <3>1. ~Has(i, NDATA) /\ BlockIn(i, NDATA)' = b
      BY <1>w, <2>4, HasThem DEF IInv, BlockIn
    <3>2. ASSUME NEW j \in Inodes, NEW l \in Slot
          PROVE  /\ Has(j, l)' <=> Has(j, l) \/ (j = i /\ l = NDATA)
                 /\ Has(j, l) => BlockIn(j, l)' = BlockIn(j, l)
      <4>1. CASE j # i
        BY <2>9, <2>10, <4>1, SameSlots
      <4>2. CASE j = i /\ l # NDATA
        BY <2>9, <2>11, <4>2, SlotsAre DEF Has, BlockIn
      <4>3. CASE j = i /\ l = NDATA
        <5>1. NotTruncated(i, NDATA)
          BY <1>w, SlotsAre DEF Whole, NotTruncated
        <5> QED
          BY <2>1, <2>9, <3>1, <4>3, <5>1, SlotsAre DEF Has
      <4> QED
        BY <4>1, <4>2, <4>3
    <3> QED
      BY <2>1, <2>2, <3>1, <3>2, SlotsAre, BitmapGrows DEF IInv
  <2>14. MappedIn(i)'
    BY <2>9, <2>12, MappedKept DEF IInv
  <2>15. CallSound(p)'
    <3>1. Ip(p)' = i /\ file'[call[p].file] = file[call[p].file]
      BY <1>w, <2>7, <2>8 DEF Ip
    <3>2. {0, b} \subseteq OwnBlocks(p)'
      BY <2>4, <3>1 DEF OwnBlocks, BITMAP
    <3>3. GoesOn(p, {0, b})
      BY <1>w, <2>7, <2>8, <2>12, <3>1, <3>2 DEF GoesOn
    <3> QED
      BY <1>w, <3>3, PieceGoesOn DEF IInv
  <2> QED
    BY <1>w, <2>2, <2>6, <2>7, <2>8, <2>10, <2>13, <2>14, <2>15, PieceStep
<1> QED
  BY <1>1, <1>2

\* Inode i gets the block b for its block k, and is otherwise as it was.
Gives(i, k, b) ==
  /\ used' = used \cup {b} /\ size' = size
  /\ \A d \in Numbers \ {b} : bytes'[d] = bytes[d]
  /\ addrs'[i][NDIRECT] = addrs[i][NDIRECT]
  /\ Address(i, k)' = b
  /\ \A l \in DataSlot \ {k} : Address(i, l)' = Address(i, l)
  /\ \A j \in Inodes \ {i} : SameIn(j)

LEMMA GiveStep ==
  ASSUME IInv, ~panicked, NEW p \in Procs, NEW i \in Inodes, NEW k \in DataSlot, WritingIs(p, i, k),
         NEW b \in Numbers \ used, b # 0, Address(i, k) = 0, Gives(i, k, b), DiskOK',
         NEW Y \in SUBSET {0, addrs[i][NDIRECT], b}, call' = [call EXCEPT ![p].logged = @ \cup Y],
         UNCHANGED <<lock, file, before, panicked>>
  PROVE  IInv' /\ FreeStays
<1>1. /\ Writei(p) /\ i = Ip(p) /\ call[p] \in CallRecord /\ call[p].ip = Nothing
      /\ Whole(i) /\ lock[i] = p /\ k \in Through(p)
  BY DEF WritingIs
<1>2. /\ used' = used \cup {b} /\ size' = size /\ addrs'[i][NDIRECT] = addrs[i][NDIRECT]
      /\ (\A d \in Numbers \ {b} : bytes'[d] = bytes[d])
      /\ Address(i, k)' = b
      /\ (\A l \in DataSlot \ {k} : Address(i, l)' = Address(i, l))
      /\ (\A j \in Inodes \ {i} : SameIn(j))
  BY DEF Gives
<1>3. PICK c : HasLogged(p, c, Y)
  <2>1. addrs[i][NDIRECT] \in Numbers \cup {0} /\ b \in Numbers
    BY AddressIs DEF IInv
  <2>2. addrs[i][NDIRECT] \in 0 .. NBLOCKS /\ b \in 0 .. NBLOCKS /\ 0 \in 0 .. NBLOCKS
    BY <2>1, Constants DEF Numbers
  <2>3. Y \in SUBSET (0 .. NBLOCKS)
    BY <2>2
  <2> QED
    BY <1>1, <2>3, LogMore
<1>4. c \in CallRecord /\ c.ip = Nothing /\ c.file = call[p].file /\ c = [call[p] EXCEPT !.logged = @ \cup Y]
  BY <1>1, <1>3 DEF HasLogged
<1>5. call' = [call EXCEPT ![p] = c] /\ call'[p] = c
  BY <1>4 DEF IInv, TypeOK
<1>6. \A j \in Inodes : (Whole(j)' <=> Whole(j)) /\ \A l \in Slot : NotTruncated(j, l)' <=> NotTruncated(j, l)
  BY <1>1, <1>4, <1>5, PieceTruncates
<1>7. KeepsData(i)
  <2>1. ASSUME NEW bn \in DataSlot, Has(i, bn) PROVE bytes'[Address(i, bn)] = bytes[Address(i, bn)]
    <3>1. BlockIn(i, bn) \in used /\ BlockIn(i, bn) = Address(i, bn)
      BY <2>1, SlotsAre DEF IInv, Bitmap, BlockIn
    <3>2. Address(i, bn) \in Numbers \ {b}
      BY <3>1 DEF IInv, TypeOK, DiskOK
    <3> QED
      BY <1>2, <3>2
  <2> QED
    BY <1>2, <2>1 DEF KeepsData
<1>8. Bitmap'
  <2>1. ~Has(i, k) /\ BlockIn(i, k)' = b /\ k \in Slot
    BY <1>2, SlotsAre DEF Has, BlockIn
  <2>2. ASSUME NEW j \in Inodes, NEW l \in Slot
        PROVE  /\ Has(j, l)' <=> Has(j, l) \/ (j = i /\ l = k)
               /\ Has(j, l) => BlockIn(j, l)' = BlockIn(j, l)
    <3>1. CASE j # i
      BY <1>2, <1>6, <3>1, SameSlots
    <3>2. CASE j = i /\ l # k
      <4>1. BlockIn(i, l)' = BlockIn(i, l)
        BY <1>2, <3>2, SlotsAre DEF BlockIn
      <4> QED
        BY <1>6, <3>2, <4>1 DEF Has
    <3>3. CASE j = i /\ l = k
      <4>1. NotTruncated(i, k)
        BY <1>1 DEF Whole, NotTruncated
      <4> QED
        BY <1>6, <2>1, <3>3, <4>1 DEF Has
    <3> QED
      BY <3>1, <3>2, <3>3
  <2> QED
    BY <1>2, <2>1, <2>2, BitmapGrows DEF IInv
<1>9. MappedIn(i)'
  BY <1>6, <1>7, MappedKept DEF IInv
<1>10. CallSound(p)'
  <2>1. Ip(p)' = i /\ Off(p)' = Off(p) /\ file'[call[p].file] = file[call[p].file]
    BY <1>1, <1>4, <1>5 DEF Ip, Off
  <2>2. call'[p].n = call[p].n
    BY <1>1, <1>4, <1>5 DEF CallRecord
  <2>3. k \in Through(p)'
    BY <1>1, <2>1, <2>2 DEF Through
  <2>4. Y \subseteq OwnBlocks(p)'
    BY <1>2, <2>1, <2>3 DEF OwnBlocks, BITMAP
  <2>5. GoesOn(p, Y)
    BY <1>1, <1>2, <1>4, <1>5, <1>7, <2>1, <2>4 DEF GoesOn
  <2> QED
    BY <1>1, <2>5, PieceGoesOn DEF IInv
<1> QED
  BY <1>1, <1>2, <1>4, <1>5, <1>8, <1>9, <1>10, PieceStep

LEMMA MapBlockStep ==
  ASSUME IInv, NEW p \in Procs, MapBlock(p), ~panicked
  PROVE  IInv' /\ FreeStays
<1>0. PICK i \in Inodes, k \in DataSlot : WritingIs(p, i, k)
  BY TurnIs DEF MapBlock
<1>w. /\ i = Ip(p) /\ k = BlockNo(p) /\ Address(i, k) = 0
      /\ ~(k >= NDIRECT /\ addrs[i][NDIRECT] = 0) /\ UNCHANGED <<lock, file, before>>
  BY <1>0 DEF WritingIs, MapBlock, NeedsIndirect
<1>1. CASE OutOfBlocks
  BY <1>1, <1>w, PanicStep DEF OutOfBlocks
<1>2. CASE ~OutOfBlocks
  <2>0. /\ Numbers \ used # {} /\ used' = used \cup {NewBlock} /\ UNCHANGED <<size, panicked>>
        /\ IF BlockNo(p) < NDIRECT
           THEN /\ addrs' = [addrs EXCEPT ![Ip(p)][BlockNo(p)] = NewBlock]
                /\ Zeroed(NewBlock)
                /\ Logs(p, {BITMAP, NewBlock})
           ELSE /\ bytes' = [bytes EXCEPT ![NewBlock] = ZeroBytes]
                /\ entries' = [entries EXCEPT ![NewBlock] = NoEntries,
                                              ![addrs[Ip(p)][NDIRECT]][BlockNo(p) - NDIRECT] = NewBlock]
                /\ Logs(p, {BITMAP, NewBlock, addrs[Ip(p)][NDIRECT]})
                /\ UNCHANGED addrs
    BY <1>2 DEF MapBlock
  <2>1. PICK b \in Numbers \ used : b = NewBlock /\ b # 0
    BY <2>0, NewBlockIs
  <2>2. used' = used \cup {b} /\ size' = size /\ panicked' = panicked
    BY <2>0, <2>1
  <2>3. CASE k < NDIRECT
    <3>1. /\ addrs' = [addrs EXCEPT ![i][k] = b]
          /\ bytes' = [bytes EXCEPT ![b] = ZeroBytes] /\ entries' = [entries EXCEPT ![b] = NoEntries]
          /\ call' = [call EXCEPT ![p].logged = @ \cup {0, b}]
      BY <1>w, <2>0, <2>1, <2>3 DEF Zeroed, Logs, BITMAP
    <3>2. k \in 0 .. NDIRECT
      BY <2>3, Constants DEF DataSlot
    <3>3. addrs'[i] = [addrs[i] EXCEPT ![k] = b] /\ \A j \in Inodes \ {i} : addrs'[j] = addrs[j]
      BY <3>1 DEF IInv, TypeOK, DiskOK
    <3>4. addrs'[i][k] = b /\ \A l \in 0 .. NDIRECT : l # k => addrs'[i][l] = addrs[i][l]
      BY <3>2, <3>3 DEF IInv, TypeOK, DiskOK
    <3>5. \A d \in Numbers \ {b} : bytes'[d] = bytes[d] /\ entries'[d] = entries[d]
      BY <3>1 DEF IInv, TypeOK, DiskOK
    <3>6. DiskOK'
      <4>1. addrs' \in [Inodes -> [0 .. NDIRECT -> Numbers \cup {0}]]
        BY <3>1, <3>2 DEF IInv, TypeOK, DiskOK
      <4>2. bytes' \in [Numbers -> [0 .. BSIZE - 1 -> Nat]] /\ entries' \in [Numbers -> [0 .. NINDIRECT - 1 -> Numbers \cup {0}]]
        BY <3>1, Zeros DEF IInv, TypeOK, DiskOK
      <4> QED
        BY <2>2, <4>1, <4>2 DEF IInv, TypeOK, DiskOK
    <3>7. \A j \in Inodes \ {i} : SameIn(j)
      <4>1. PICK X : X = {b}
        OBVIOUS
      <4>2. \A d \in X : d \notin used
        BY <2>1, <4>1
      <4>3. \A j \in Inodes \ {i} : addrs'[j] = addrs[j] /\ size'[j] = size[j]
        BY <2>2, <3>3
      <4>4. \A d \in Numbers \ X : bytes'[d] = bytes[d] /\ entries'[d] = entries[d]
        BY <3>5, <4>1
      <4> QED
        BY <4>2, <4>3, <4>4, Elsewhere DEF IInv
    <3>8. addrs'[i][NDIRECT] = addrs[i][NDIRECT] /\ Address(i, k)' = b
      BY <2>3, <3>4, Constants DEF Address
    <3>9. ASSUME NEW l \in DataSlot \ {k} PROVE Address(i, l)' = Address(i, l)
      <4>1. CASE l < NDIRECT
        BY <3>4, <4>1, Constants DEF Address, DataSlot
      <4>2. CASE ~(l < NDIRECT)
        <5>1. addrs[i][NDIRECT] # 0 => addrs[i][NDIRECT] \in Numbers \ {b}
          <6>1. addrs[i][NDIRECT] # 0 => BlockIn(i, NDATA) \in used
            BY HasThem, SlotsAre DEF IInv, Bitmap
          <6> QED
            BY <6>1 DEF BlockIn, IInv, TypeOK, DiskOK
        <5> QED
          BY <3>5, <3>8, <4>2, <5>1 DEF Address
      <4> QED
        BY <4>1, <4>2
    <3>10. Gives(i, k, b)
      BY <2>2, <3>5, <3>7, <3>8, <3>9 DEF Gives
    <3>11. PICK Y \in SUBSET {0, addrs[i][NDIRECT], b} : Y = {0, b}
      OBVIOUS
    <3> QED
      BY <1>0, <1>w, <2>1, <2>2, <3>1, <3>6, <3>10, <3>11, GiveStep
  <2>4. CASE ~(k < NDIRECT)
    <3>0. PICK x \in Numbers \ {b}, e \in 0 .. NINDIRECT - 1 : x = addrs[i][NDIRECT] /\ e = k - NDIRECT /\ x # 0 /\ x \in used
      <4>1. k - NDIRECT \in 0 .. NINDIRECT - 1 /\ k >= NDIRECT
        BY <2>4, Constants DEF DataSlot
      <4>2. addrs[i][NDIRECT] # 0
        BY <1>w, <4>1
      <4>3. BlockIn(i, NDATA) \in used
        BY <4>2, HasThem, SlotsAre DEF IInv, Bitmap
      <4>4. addrs[i][NDIRECT] \in used
        BY <4>3 DEF BlockIn
      <4> QED
        BY <4>1, <4>2, <4>4 DEF IInv, TypeOK, DiskOK
    <3>1. /\ addrs' = addrs /\ bytes' = [bytes EXCEPT ![b] = ZeroBytes]
          /\ entries' = [entries EXCEPT ![b] = NoEntries, ![x][e] = b]
          /\ call' = [call EXCEPT ![p].logged = @ \cup {0, b, x}]
      BY <1>w, <2>0, <2>1, <2>4, <3>0 DEF Logs, BITMAP
    <3>2. /\ entries'[x] = [entries[x] EXCEPT ![e] = b]
          /\ \A d \in Numbers \ {b, x} : entries'[d] = entries[d]
      BY <2>1, <3>1 DEF IInv, TypeOK, DiskOK
    <3>3. entries'[x][e] = b /\ \A l \in 0 .. NINDIRECT - 1 : l # e => entries'[x][l] = entries[x][l]
      BY <3>2 DEF IInv, TypeOK, DiskOK
    <3>4. \A d \in Numbers \ {b} : bytes'[d] = bytes[d]
      BY <3>1 DEF IInv, TypeOK, DiskOK
    <3>5. DiskOK'
      <4>1. bytes' \in [Numbers -> [0 .. BSIZE - 1 -> Nat]]
        BY <3>1, Zeros DEF IInv, TypeOK, DiskOK
      <4>2. entries' \in [Numbers -> [0 .. NINDIRECT - 1 -> Numbers \cup {0}]]
        BY <3>0, <3>1, Zeros DEF IInv, TypeOK, DiskOK
      <4> QED
        BY <2>2, <3>1, <4>1, <4>2 DEF IInv, TypeOK, DiskOK
    <3>6. \A j \in Inodes \ {i} : SameIn(j)
      <4>1. PICK X : X = {b, x}
        OBVIOUS
      <4>2. Has(i, NDATA) /\ BlockIn(i, NDATA) = x /\ NDATA \in Slot
        BY <3>0, HasThem, SlotsAre DEF IInv, BlockIn
      <4>3. \A d \in X : d \notin used \/ \E l \in Slot : Has(i, l) /\ BlockIn(i, l) = d
        BY <2>1, <4>1, <4>2
      <4>4. \A j \in Inodes \ {i} : addrs'[j] = addrs[j] /\ size'[j] = size[j]
        BY <2>2, <3>1
      <4>5. \A d \in Numbers \ X : bytes'[d] = bytes[d] /\ entries'[d] = entries[d]
        BY <3>2, <3>4, <4>1
      <4> QED
        BY <4>3, <4>4, <4>5, Elsewhere DEF IInv
    <3>7. Address(i, k)' = b
      BY <2>4, <3>0, <3>1, <3>3 DEF Address
    <3>8. ASSUME NEW l \in DataSlot \ {k} PROVE Address(i, l)' = Address(i, l)
      <4>1. CASE l < NDIRECT
        BY <3>1, <4>1 DEF Address
      <4>2. CASE ~(l < NDIRECT)
        <5>1. l - NDIRECT \in 0 .. NINDIRECT - 1 /\ l - NDIRECT # e
          BY <3>0, <4>2, Constants DEF DataSlot
        <5> QED
          BY <3>0, <3>1, <3>3, <4>2, <5>1 DEF Address
      <4> QED
        BY <4>1, <4>2
    <3>9. Gives(i, k, b)
      BY <2>2, <3>1, <3>4, <3>6, <3>7, <3>8 DEF Gives
    <3>10. PICK Y \in SUBSET {0, addrs[i][NDIRECT], b} : Y = {0, b, x}
      BY <3>0
    <3> QED
      BY <1>0, <1>w, <2>1, <2>2, <3>1, <3>5, <3>9, <3>10, GiveStep
  <2> QED
    BY <2>3, <2>4
<1> QED
  BY <1>1, <1>2

\* The bytes of the inode after a turn of the loop: m more of the piece.
LEMMA WriteBlockStep ==
  ASSUME IInv, NEW p \in Procs, WriteBlock(p), ~panicked
  PROVE  IInv' /\ FreeStays
<1>0. PICK i \in Inodes, k \in DataSlot : WritingIs(p, i, k)
  BY TurnIs DEF WriteBlock
<1>1. /\ Writei(p) /\ Writes(p) /\ i = Ip(p) /\ k = BlockNo(p) /\ call[p] \in CallRecord /\ call[p].ip = Nothing
      /\ Whole(i) /\ lock[i] = p /\ k \in Through(p) /\ call[p].tot < call[p].n
  BY <1>0 DEF WritingIs, WriteBlock, Writing, Writei, Writes
<1>2. PICK off \in Nat, n \in Nat \ {0}, tot \in Nat :
        /\ off = Off(p) /\ n = call[p].n /\ tot = call[p].tot
        /\ off + n <= MaxSize /\ tot < n /\ off <= size[i]
  BY <1>1, WriterIs DEF IInv
<1>3. PICK a \in Nat : a = Place(p) /\ a = off + tot /\ k = a \div BSIZE
  BY <1>1, <1>2 DEF Place, BlockNo
<1>4. PICK start \in 0 .. BSIZE - 1 : start = a % BSIZE
  BY Constants
<1>5. PICK m \in Nat : m = Min({n - tot, BSIZE - start}) /\ m <= n - tot /\ m <= BSIZE - start
  <2>1. n - tot \in Nat /\ BSIZE - start \in Nat
    BY <1>2, <1>4, Constants
  <2> QED
    BY <2>1, LesserOf
<1>6. PICK b \in Numbers : b = Address(i, k) /\ b # 0 /\ b \in used /\ Has(i, k) /\ BlockIn(i, k) = b
  <2>1. Address(i, k) # 0
    BY <1>1 DEF WriteBlock
  <2>2. Has(i, k) /\ BlockIn(i, k) = Address(i, k)
    BY <1>1, <2>1, HasThem, SlotsAre DEF IInv, BlockIn
  <2> QED
    BY <2>1, <2>2, SlotsAre DEF IInv, Bitmap, TypeOK, DiskOK
<1>7. /\ bytes' = [bytes EXCEPT ![b] = [l \in DOMAIN @ |-> IF l \in start .. start + m - 1 THEN Letter[p] ELSE @[l]]]
      /\ call' = [call EXCEPT ![p].tot = @ + m, ![p].logged = @ \cup {b}]
      /\ UNCHANGED <<used, addrs, size, entries, lock, file, before, panicked>>
  BY <1>1, <1>2, <1>3, <1>4, <1>5, <1>6 DEF WriteBlock
<1>8. /\ \A d \in Numbers \ {b} : bytes'[d] = bytes[d]
      /\ \A l \in 0 .. BSIZE - 1 : bytes'[b][l] = IF l \in start .. start + m - 1 THEN Letter[p] ELSE bytes[b][l]
      /\ bytes' \in [Numbers -> [0 .. BSIZE - 1 -> Nat]]
  <2>1. bytes[b] \in [0 .. BSIZE - 1 -> Nat] /\ Letter[p] \in Nat
    BY Constants DEF IInv, TypeOK, DiskOK
  <2>2. PICK w : w = [l \in 0 .. BSIZE - 1 |-> IF l \in start .. start + m - 1 THEN Letter[p] ELSE bytes[b][l]]
    OBVIOUS
  <2>3. w \in [0 .. BSIZE - 1 -> Nat]
    BY <2>1, <2>2
  <2>4. bytes' = [bytes EXCEPT ![b] = w]
    BY <1>7, <2>1, <2>2
  <2>5. bytes \in [Numbers -> [0 .. BSIZE - 1 -> Nat]]
    BY DEF IInv, TypeOK, DiskOK
  <2> QED
    BY <2>2, <2>3, <2>4, <2>5
<1>9. PICK c : c = [call[p] EXCEPT !.tot = tot + m, !.logged = call[p].logged \cup {b}]
  OBVIOUS
<1>10. /\ c \in CallRecord /\ c.name = call[p].name /\ c.file = call[p].file /\ c.left = call[p].left /\ c.n = n
       /\ c.ip = Nothing /\ c.tot = tot + m /\ c.logged = call[p].logged \cup {b}
  <2>1. b \in 0 .. NBLOCKS /\ tot + m \in Nat
    BY <1>6, Constants DEF Numbers
  <2> QED
    BY <1>1, <1>2, <1>9, <2>1 DEF CallRecord
<1>11. call' = [call EXCEPT ![p] = c] /\ call'[p] = c
  BY <1>2, <1>7, <1>9 DEF IInv, TypeOK
<1>12. \A j \in Inodes : (Whole(j)' <=> Whole(j)) /\ \A l \in Slot : NotTruncated(j, l)' <=> NotTruncated(j, l)
  BY <1>1, <1>10, <1>11, PieceTruncates
<1>13. \A j \in Inodes : \A l : Address(j, l)' = Address(j, l)
  BY <1>7 DEF Address
<1>14. \A j \in Inodes \ {i} : SameIn(j)
  <2>1. PICK X : X = {b}
    OBVIOUS
  <2>2. \A d \in X : d \notin used \/ \E l \in Slot : Has(i, l) /\ BlockIn(i, l) = d
    BY <1>6, <2>1, SlotsAre
  <2>3. \A j \in Inodes \ {i} : addrs'[j] = addrs[j] /\ size'[j] = size[j]
    BY <1>7
  <2>4. \A d \in Numbers \ X : bytes'[d] = bytes[d] /\ entries'[d] = entries[d]
    BY <1>7, <1>8, <2>1
  <2> QED
    BY <2>2, <2>3, <2>4, Elsewhere DEF IInv
<1>15. DiskOK'
  BY <1>7, <1>8 DEF IInv, TypeOK, DiskOK
<1>16. Bitmap'
  <2>1. \A j \in Inodes, l \in Slot : BlockIn(j, l)' = BlockIn(j, l)
    BY <1>7, <1>13 DEF BlockIn
  <2>2. \A j \in Inodes, l \in Slot : Has(j, l)' <=> Has(j, l)
    BY <1>12, <2>1 DEF Has
  <2> QED
    BY <1>7, <2>1, <2>2, BitmapKept DEF IInv
<1>17. MappedIn(i)'
  BY <1>1, <1>7, <1>13 DEF IInv, Mapped, MappedIn
<1>18. /\ Ip(p)' = i /\ Off(p)' = off /\ Writei(p)' /\ ~Itrunc(p)'
  BY <1>1, <1>2, <1>7, <1>10, <1>11 DEF Ip, Off, Writei, Itrunc
\* Which bytes change.
<1>19. ASSUME NEW x \in Nat, x < MaxSize, Address(i, x \div BSIZE) # 0
       PROVE  Byte(i, x)' = IF x \in a .. a + m - 1 THEN Letter[p] ELSE Byte(i, x)
  <2>1. x \div BSIZE \in DataSlot /\ x % BSIZE \in 0 .. BSIZE - 1
    BY <1>19, BlockOf
  <2>2. PICK l \in DataSlot, r \in 0 .. BSIZE - 1 : l = x \div BSIZE /\ r = x % BSIZE
    BY <2>1
  <2>3. m <= BSIZE - (a % BSIZE)
    BY <1>4, <1>5
  <2>4. /\ x \in a .. a + m - 1 => l = k
        /\ l = k => (r \in start .. start + m - 1 <=> x \in a .. a + m - 1)
    BY <1>3, <1>4, <2>2, <2>3, Covers
  <2>5. Byte(i, x) = bytes[Address(i, l)][r] /\ Byte(i, x)' = bytes'[Address(i, l)][r]
    BY <1>13, <2>2 DEF Byte
  <2>6. CASE l = k
    <3>1. bytes'[b][r] = IF r \in start .. start + m - 1 THEN Letter[p] ELSE bytes[b][r]
      BY <1>8
    <3> QED
      BY <1>6, <2>4, <2>5, <2>6, <3>1
  <2>7. CASE l # k
    <3>1. Has(i, l) /\ BlockIn(i, l) = Address(i, l)
      BY <1>1, <1>19, <2>2, HasThem, SlotsAre DEF IInv, BlockIn
    <3>2. Address(i, l) \in used /\ Address(i, l) # b
      BY <1>6, <2>7, <3>1, SlotsAre DEF IInv, Bitmap
    <3>3. Address(i, l) \in Numbers \ {b}
      BY <3>2 DEF IInv, TypeOK, DiskOK
    <3> QED
      BY <1>8, <2>4, <2>5, <2>7, <3>3
  <2> QED
    BY <2>6, <2>7
<1>20. CallSound(p)'
  <2>1. WriteSound(p)'
    BY <1>1, <1>7, <1>10, <1>11 DEF IInv, Calls, WriteSound
  <2>2. PieceSound(p)'
    <3>1. call[p].n \in 1 .. MaxPiece /\ call[p].n <= call[p].left
      BY <1>1 DEF IInv, Calls, PieceSound
    <3>2. tot + m \in 0 .. n
      BY <1>2, <1>5
    <3> QED
      BY <1>1, <1>2, <1>7, <1>10, <1>11, <1>18, <3>1, <3>2 DEF PieceSound
  <2>3. TruncSound(p)'
    BY <1>10, <1>11, <1>18 DEF TruncSound
  <2>4. WrittenBy(p)'
    <3>1. PieceIn(p, i, off, a)
      BY <1>1, <1>2, <1>3 DEF IInv, Written, WrittenBy
    <3>2. off <= a /\ a + m \in Nat /\ a + m <= MaxSize
      BY <1>2, <1>3, <1>5, Constants
    <3>3. ASSUME NEW x \in off .. a + m - 1
          PROVE  Address(i, x \div BSIZE)' # 0 /\ Byte(i, x)' = Letter[p]
      <4>1. x \in Nat /\ x < MaxSize
        BY <3>2, Constants
      <4>2. CASE x \in a .. a + m - 1
        <5>1. m <= BSIZE - (a % BSIZE)
          BY <1>4, <1>5
        <5>2. x \div BSIZE = k
          BY <1>3, <4>1, <4>2, <5>1, Covers
        <5>3. Address(i, x \div BSIZE) # 0
          BY <1>6, <5>2
        <5> QED
          BY <1>13, <1>19, <4>1, <4>2, <5>3
      <4>3. CASE x \notin a .. a + m - 1
        <5>1. x \in off .. a - 1
          BY <3>2, <4>3
        <5>2. Address(i, x \div BSIZE) # 0 /\ Byte(i, x) = Letter[p]
          BY <3>1, <5>1 DEF PieceIn
        <5> QED
          BY <1>13, <1>19, <4>1, <4>3, <5>2
      <4> QED
        BY <4>2, <4>3
    <3>4. ASSUME NEW x \in 0 .. size[i] - 1, x < off \/ x >= a + m
          PROVE  Byte(i, x)' = before[i][x + 1]
      <4>1. x \in Nat /\ x < MaxSize
        BY SizeIs DEF IInv
      <4>2. Address(i, x \div BSIZE) # 0
        BY <1>1 DEF IInv, Mapped, MappedIn
      <4>3. x \notin a .. a + m - 1 /\ (x < off \/ x >= a)
        BY <3>2, <3>4, <4>1
      <4>4. Byte(i, x) = before[i][x + 1]
        BY <3>1, <4>3 DEF PieceIn
      <4> QED
        BY <1>19, <4>1, <4>2, <4>3, <4>4
    <3>5. PieceIn(p, i, off, a + m)'
      BY <1>7, <3>1, <3>3, <3>4 DEF PieceIn
    <3>6. Off(p)' + call'[p].tot = a + m
      BY <1>3, <1>10, <1>11, <1>18
    <3> QED
      BY <1>18, <3>5, <3>6 DEF WrittenBy
  <2>5. LoggedBy(p)'
    <3>1. call[p].logged \subseteq OwnBlocks(p)
      BY <1>1 DEF IInv, Logged, LoggedBy
    <3>2. Through(p)' = Through(p)
      BY <1>2, <1>10, <1>11, <1>18 DEF Through
    <3>3. OwnBlocks(p)' = OwnBlocks(p)
      BY <1>1, <1>7, <1>13, <1>18, <3>2 DEF OwnBlocks
    <3>4. b \in OwnBlocks(p)
      BY <1>1, <1>6 DEF OwnBlocks
    <3> QED
      BY <1>10, <1>11, <1>18, <3>1, <3>3, <3>4 DEF LoggedBy
  <2> QED
    BY <2>1, <2>2, <2>3, <2>4, <2>5 DEF CallSound
<1> QED
  BY <1>1, <1>7, <1>10, <1>11, <1>14, <1>15, <1>16, <1>17, <1>20, PieceStep

\* A step of itrunc() of inode i, with its own blocks.
LEMMA TruncStep ==
  ASSUME IInv, ~panicked, NEW p \in Procs, NEW i \in Inodes, lock[i] = p, call[p].ip = i,
         NEW c \in CallRecord, call' = [call EXCEPT ![p] = c],
         lock' \in [Inodes -> Procs \cup {Nothing}], before' \in [Inodes -> Seq(Nat)], UNCHANGED <<file, panicked>>,
         \A j \in Inodes \ {i} : SameIn(j) /\ lock'[j] = lock[j] /\ before'[j] = before[j],
         DiskOK', Bitmap', MappedIn(i)', CallSound(p)'
  PROVE  IInv' /\ FreeStays
<1>1. call'[p] = c /\ \A q \in Procs \ {p} : call'[q] = call[q]
  BY DEF IInv, TypeOK
<1>2. TypeOK'
  BY DEF IInv, TypeOK
<1>3. ASSUME NEW q \in Procs \ {p} PROVE CallSound(q)'
  <2>1. Writes(q) => file'[call[q].file] # Nothing
    BY DEF IInv, Calls, WriteSound
  <2>2. Writei(q) => Ip(q) \in Inodes \ {i} /\ lock[Ip(q)] = q
    BY OneWorker DEF IInv
  <2>3. Itrunc(q) => call[q].ip \in Inodes \ {i} /\ lock[call[q].ip] = q
    BY OneWorker DEF IInv
  <2>4. Itrunc(q) => \A g \in Files : file'[g] # Nothing => file'[g].ip # call[q].ip
    BY DEF IInv, Calls, TruncSound
  <2> QED
    BY <1>1, <2>1, <2>2, <2>3, <2>4, OthersGoOn DEF IInv
<1>4. Calls' /\ Written' /\ Logged'
  BY <1>3, AllSound
<1>5. Mapped'
  <2>1. ASSUME NEW j \in Inodes \ {i} PROVE MappedIn(j)'
    <3>1. Whole(j)' => Whole(j)
      BY <1>1 DEF Whole
    <3> QED
      BY <3>1, MappedKept DEF IInv, SameIn
  <2> QED
    BY <2>1 DEF Mapped
<1>6. FreeStays
  BY Constants DEF FreeStays
<1> QED
  BY <1>2, <1>4, <1>5, <1>6 DEF IInv, NeverFreesFree

LEMMA TruncIs ==
  ASSUME IInv, NEW p \in Procs, Itrunc(p)
  PROVE  \E i \in Inodes, k \in Slot :
           /\ i = call[p].ip /\ k = call[p].tot /\ lock[i] = p
           /\ \A l \in 0 .. (NDIRECT - 1) : l < k => addrs[i][l] = 0
           /\ \A f \in Files : file[f] # Nothing => file[f].ip # i
           /\ \A q \in Procs \ {p} : call[q].ip # i
           /\ \A l \in Slot : NotTruncated(i, l) <=> l >= k
<1>1. PICK i \in Inodes, k \in Slot :
        /\ i = call[p].ip /\ k = call[p].tot /\ lock[i] = p
        /\ \A l \in 0 .. (NDIRECT - 1) : l < k => addrs[i][l] = 0
        /\ \A f \in Files : file[f] # Nothing => file[f].ip # i
  BY DEF IInv, Calls, TruncSound
<1>2. ASSUME NEW q \in Procs \ {p} PROVE call[q].ip # i
  <2>1. Itrunc(q) => call[q].ip \in Inodes \ {i}
    BY <1>1, OneWorker DEF IInv
  <2>2. ~Itrunc(q) => call[q].ip = Nothing
    BY DEF IInv, Calls, TruncSound
  <2> QED
    BY <2>1, <2>2, Constants
<1>3. \A l \in Slot : NotTruncated(i, l) <=> l >= k
  BY <1>1, <1>2 DEF NotTruncated
<1> QED
  BY <1>1, <1>2, <1>3

LEMMA TruncBlockStep ==
  ASSUME IInv, NEW p \in Procs, TruncBlock(p), ~panicked
  PROVE  IInv' /\ FreeStays
<1>0. Itrunc(p)
  BY DEF TruncBlock, Itrunc
<1>1. PICK i \in Inodes, k \in Slot :
        /\ i = call[p].ip /\ k = call[p].tot /\ lock[i] = p
        /\ \A l \in 0 .. (NDIRECT - 1) : l < k => addrs[i][l] = 0
        /\ \A f \in Files : file[f] # Nothing => file[f].ip # i
        /\ \A q \in Procs \ {p} : call[q].ip # i
        /\ \A l \in Slot : NotTruncated(i, l) <=> l >= k
  BY <1>0, TruncIs
<1>2. /\ k < NDATA
      /\ IF Address(i, k) = 0 THEN UNCHANGED <<used, addrs, panicked>>
         ELSE /\ bfree(Address(i, k))
              /\ addrs' = IF k < NDIRECT THEN [addrs EXCEPT ![i][k] = 0] ELSE addrs
      /\ call' = [call EXCEPT ![p].tot = @ + 1]
      /\ UNCHANGED <<size, bytes, entries, lock, file, before>>
  BY <1>1 DEF TruncBlock, NDATA
<1>3. k \in DataSlot /\ k \in Nat /\ k + 1 \in Slot /\ NDATA # k /\ NDATA \in Slot
  BY <1>2, Constants DEF DataSlot, Slot
<1>4. PICK c : c = [call[p] EXCEPT !.tot = k + 1]
  OBVIOUS
<1>5. c \in CallRecord /\ c.name = "itrunc" /\ c.ip = i /\ c.tot = k + 1 /\ c.logged = {}
  <2>1. call[p] \in CallRecord /\ call[p].name = "itrunc" /\ call[p].logged = {}
    BY <1>0 DEF IInv, TypeOK, Itrunc, Writei, Logged, LoggedBy
  <2> QED
    BY <1>1, <1>3, <1>4, <2>1 DEF CallRecord
<1>6. call' = [call EXCEPT ![p] = c] /\ call'[p] = c /\ \A q \in Procs \ {p} : call'[q] = call[q]
  BY <1>1, <1>2, <1>4 DEF IInv, TypeOK
<1>7. \A l \in Slot : NotTruncated(i, l)' <=> l >= k + 1
  BY <1>1, <1>5, <1>6 DEF NotTruncated
<1>8. \A j \in Inodes \ {i} : \A l \in Slot : NotTruncated(j, l)' <=> NotTruncated(j, l)
  BY <1>1, <1>5, <1>6 DEF NotTruncated
<1>9. \A l \in Slot \ {k} : l >= k <=> l >= k + 1
  BY <1>3 DEF Slot
<1>10. PICK b \in Numbers \cup {0} : b = Address(i, k) /\ b = BlockIn(i, k)
  BY <1>3, AddressIs, SlotsAre DEF IInv, BlockIn
<1>11. b # 0 => Has(i, k) /\ b \in used /\ used' = used \ {b}
  <2>1. b # 0 => Has(i, k)
    BY <1>1, <1>3, <1>10, SlotsAre DEF Has
  <2>2. b # 0 => b \in used
    BY <1>3, <1>10, <2>1, SlotsAre DEF IInv, Bitmap
  <2> QED
    BY <1>2, <1>10, <2>1, <2>2 DEF bfree
<1>12. panicked' = panicked
  BY <1>2, <1>10, <1>11 DEF bfree
<1>13. /\ b = 0 => used' = used /\ addrs' = addrs
       /\ b # 0 /\ k < NDIRECT => addrs' = [addrs EXCEPT ![i][k] = 0]
       /\ ~(k < NDIRECT) => addrs' = addrs
  BY <1>2, <1>10
<1>14. /\ \A j \in Inodes \ {i} : addrs'[j] = addrs[j]
       /\ \A l \in 0 .. NDIRECT : l # k => addrs'[i][l] = addrs[i][l]
       /\ k < NDIRECT => addrs'[i][k] = 0
       /\ addrs' \in [Inodes -> [0 .. NDIRECT -> Numbers \cup {0}]]
  <2>1. addrs \in [Inodes -> [0 .. NDIRECT -> Numbers \cup {0}]]
    BY DEF IInv, TypeOK, DiskOK
  <2>2. CASE b = 0
    <3>1. k < NDIRECT => addrs[i][k] = 0
      BY <1>10, <2>2 DEF Address
    <3> QED
      BY <1>13, <2>1, <2>2, <3>1
  <2>3. CASE ~(k < NDIRECT)
    BY <1>13, <2>1, <2>3
  <2>4. CASE b # 0 /\ k < NDIRECT
    <3>1. k \in 0 .. NDIRECT
      BY <1>3, <2>4, Constants
    <3>2. addrs'[i] = [addrs[i] EXCEPT ![k] = 0] /\ (\A j \in Inodes \ {i} : addrs'[j] = addrs[j])
      BY <1>13, <2>1, <2>4
    <3>3. addrs'[i][k] = 0 /\ \A l \in 0 .. NDIRECT : l # k => addrs'[i][l] = addrs[i][l]
      BY <2>1, <3>1, <3>2
    <3>4. addrs' \in [Inodes -> [0 .. NDIRECT -> Numbers \cup {0}]]
      <4>1. PICK w : w = [addrs[i] EXCEPT ![k] = 0]
        OBVIOUS
      <4>2. w \in [0 .. NDIRECT -> Numbers \cup {0}]
        BY <2>1, <3>1, <4>1
      <4>3. addrs' = [addrs EXCEPT ![i] = w]
        BY <1>13, <2>4, <4>1
      <4> QED
        BY <2>1, <4>2, <4>3
    <3> QED
      BY <3>2, <3>3, <3>4
  <2> QED
    BY <2>2, <2>3, <2>4
<1>15. addrs'[i][NDIRECT] = addrs[i][NDIRECT]
  <2>1. CASE k = NDIRECT
    BY <1>13, <2>1, Constants
  <2>2. CASE k # NDIRECT
    BY <1>14, <2>2, Constants
  <2> QED
    BY <2>1, <2>2
<1>16. \A l \in DataSlot \ {k} : Address(i, l)' = Address(i, l)
  BY <1>2, <1>14, <1>15, Constants DEF Address, DataSlot
<1>17. \A l \in Slot \ {k} : BlockIn(i, l)' = BlockIn(i, l)
  BY <1>15, <1>16, SlotsAre DEF BlockIn
<1>18. \A j \in Inodes \ {i} : SameIn(j)
  <2> SUFFICES ASSUME NEW j \in Inodes \ {i} PROVE SameIn(j)
    OBVIOUS
  <2>1. addrs'[j] = addrs[j]
    BY <1>14
  <2> QED
    BY <1>2, <2>1 DEF SameIn, KeepsData, Address
<1>19. DiskOK'
  <2>1. used' \subseteq Numbers
    BY <1>11, <1>13 DEF IInv, TypeOK, DiskOK
  <2> QED
    BY <1>2, <1>14, <2>1 DEF IInv, TypeOK, DiskOK
<1>20. Bitmap'
  <2>1. ASSUME NEW j \in Inodes, NEW l \in Slot
        PROVE  /\ Has(j, l)' <=> Has(j, l) /\ ~(j = i /\ l = k)
               /\ Has(j, l)' => BlockIn(j, l)' = BlockIn(j, l)
               /\ Has(j, l) /\ ~(j = i /\ l = k) => BlockIn(j, l)' = BlockIn(j, l)
    <3>1. CASE j # i
      BY <1>8, <1>18, <3>1, SameSlots
    <3>2. CASE j = i /\ l # k
      BY <1>1, <1>7, <1>9, <1>17, <3>2 DEF Has
    <3>3. CASE j = i /\ l = k
      <4>1. ~(k >= k + 1)
        BY <1>3
      <4> QED
        BY <1>7, <3>3, <4>1 DEF Has
    <3> QED
      BY <3>1, <3>2, <3>3
  <2>2. CASE b = 0
    <3>1. ~Has(i, k)
      BY <1>10, <2>2 DEF Has
    <3>2. \A j \in Inodes, l \in Slot : (Has(j, l)' <=> Has(j, l)) /\ (Has(j, l) => BlockIn(j, l)' = BlockIn(j, l))
      BY <2>1, <3>1
    <3> QED
      BY <1>13, <2>2, <3>2, BitmapKept DEF IInv
  <2>3. CASE b # 0
    BY <1>10, <1>11, <2>1, <2>3, BitmapShrinks DEF IInv
  <2> QED
    BY <2>2, <2>3
<1>21. MappedIn(i)'
  BY <1>5, <1>6 DEF MappedIn, Whole
<1>22. CallSound(p)'
  <2>1. ASSUME NEW l \in 0 .. (NDIRECT - 1), l < k + 1 PROVE addrs'[i][l] = 0
    <3>1. l \in 0 .. NDIRECT /\ (l < k \/ (l = k /\ k < NDIRECT))
      BY <1>3, <2>1, Constants
    <3> QED
      BY <1>1, <1>14, <3>1
  <2>2. TruncSound(p)'
    <3>1. lock'[i] = p /\ \A f \in Files : file'[f] # Nothing => file'[f].ip # i
      BY <1>1, <1>2
    <3> QED
      BY <1>3, <1>5, <1>6, <2>1, <3>1 DEF TruncSound, Itrunc
  <2> QED
    BY <1>5, <1>6, <2>2 DEF CallSound, WriteSound, PieceSound, WrittenBy, LoggedBy, Writes, Writei
<1>23. /\ lock' \in [Inodes -> Procs \cup {Nothing}] /\ before' \in [Inodes -> Seq(Nat)]
       /\ \A j \in Inodes \ {i} : SameIn(j) /\ lock'[j] = lock[j] /\ before'[j] = before[j]
  BY <1>2, <1>18 DEF IInv, TypeOK
<1> QED
  BY <1>1, <1>2, <1>5, <1>6, <1>12, <1>19, <1>20, <1>21, <1>22, <1>23, TruncStep

LEMMA TruncEndStep ==
  ASSUME IInv, NEW p \in Procs, TruncEnd(p), ~panicked
  PROVE  IInv' /\ FreeStays
<1>0. Itrunc(p)
  BY DEF TruncEnd, Itrunc
<1>1. PICK i \in Inodes, k \in Slot :
        /\ i = call[p].ip /\ k = call[p].tot /\ lock[i] = p
        /\ \A l \in 0 .. (NDIRECT - 1) : l < k => addrs[i][l] = 0
        /\ \A f \in Files : file[f] # Nothing => file[f].ip # i
        /\ \A q \in Procs \ {p} : call[q].ip # i
        /\ \A l \in Slot : NotTruncated(i, l) <=> l >= k
  BY <1>0, TruncIs
<1>2. PICK x : x = addrs[i][NDIRECT] /\ x = BlockIn(i, NDATA)
  BY DEF BlockIn
<1>3. /\ k = NDATA
      /\ IF x = 0 THEN UNCHANGED <<used, addrs, panicked>>
         ELSE bfree(x) /\ addrs' = [addrs EXCEPT ![i][NDIRECT] = 0]
      /\ size' = [size EXCEPT ![i] = 0]
      /\ lock' = [lock EXCEPT ![i] = Nothing] /\ before' = [before EXCEPT ![i] = <<>>]
      /\ call' = [call EXCEPT ![p] = NoCall]
      /\ UNCHANGED <<bytes, entries, file>>
  BY <1>1, <1>2 DEF TruncEnd, NDATA, Iunlock
<1>4. NoCall \in CallRecord /\ NoCall.ip = Nothing /\ NoCall.name = "none" /\ NoCall.logged = {}
  BY DEF NoCall, CallRecord
<1>5. call'[p] = NoCall /\ \A q \in Procs \ {p} : call'[q] = call[q]
  BY <1>3 DEF IInv, TypeOK
<1>6. Whole(i)' /\ \A l \in Slot : NotTruncated(i, l)'
  BY <1>1, <1>4, <1>5, Constants DEF Whole, NotTruncated
<1>7. \A j \in Inodes \ {i} : \A l \in Slot : NotTruncated(j, l)' <=> NotTruncated(j, l)
  BY <1>1, <1>4, <1>5, Constants DEF NotTruncated
<1>8. x # 0 => Has(i, NDATA) /\ x \in used /\ used' = used \ {x} /\ panicked' = panicked
  <2>1. x # 0 => Has(i, NDATA)
    BY <1>2, HasThem DEF IInv
  <2>2. x # 0 => x \in used
    BY <1>2, <2>1, SlotsAre DEF IInv, Bitmap
  <2> QED
    BY <1>3, <2>1, <2>2 DEF bfree
<1>9. panicked' = panicked
  BY <1>3, <1>8
<1>10. addrs \in [Inodes -> [0 .. NDIRECT -> Numbers \cup {0}]] /\ NDIRECT \in 0 .. NDIRECT
  BY Constants DEF IInv, TypeOK, DiskOK
<1>11. /\ \A j \in Inodes \ {i} : addrs'[j] = addrs[j]
       /\ \A l \in 0 .. NDIRECT : addrs'[i][l] = 0
       /\ addrs' \in [Inodes -> [0 .. NDIRECT -> Numbers \cup {0}]]
  <2>1. ASSUME NEW l \in 0 .. NDIRECT, l # NDIRECT PROVE addrs[i][l] = 0
    <3>1. l \in 0 .. (NDIRECT - 1) /\ l < k
      BY <1>3, <2>1, Constants
    <3> QED
      BY <1>1, <3>1
  <2>2. CASE x = 0
    <3>1. addrs' = addrs
      BY <1>3, <2>2
    <3>2. addrs[i][NDIRECT] = 0
      BY <1>2, <2>2
    <3> QED
      BY <1>10, <2>1, <3>1, <3>2
  <2>3. CASE x # 0
    <3>1. PICK w : w = [addrs[i] EXCEPT ![NDIRECT] = 0]
      OBVIOUS
    <3>2. addrs' = [addrs EXCEPT ![i] = w]
      BY <1>3, <2>3, <3>1
    <3>3. w \in [0 .. NDIRECT -> Numbers \cup {0}] /\ \A l \in 0 .. NDIRECT : w[l] = 0
      BY <1>10, <2>1, <3>1
    <3> QED
      BY <1>10, <3>2, <3>3
  <2> QED
    BY <2>2, <2>3
<1>12. addrs'[i][NDIRECT] = 0 /\ \A l \in DataSlot : Address(i, l)' = 0
  BY <1>10, <1>11, Constants DEF Address, DataSlot
<1>13. \A l \in Slot : BlockIn(i, l)' = 0 /\ ~Has(i, l)'
  BY <1>12, SlotsAre DEF BlockIn, Has
<1>14. \A j \in Inodes \ {i} : SameIn(j)
  <2> SUFFICES ASSUME NEW j \in Inodes \ {i} PROVE SameIn(j)
    OBVIOUS
  <2>1. addrs'[j] = addrs[j] /\ size'[j] = size[j]
    BY <1>3, <1>11 DEF IInv, TypeOK, DiskOK
  <2> QED
    BY <1>3, <2>1 DEF SameIn, KeepsData, Address
<1>15. DiskOK'
  <2>1. used' \subseteq Numbers
    BY <1>3, <1>8 DEF IInv, TypeOK, DiskOK
  <2>2. 0 \in 0 .. MaxSize
    BY Constants
  <2>3. size' \in [Inodes -> 0 .. MaxSize]
    BY <1>3, <2>2 DEF IInv, TypeOK, DiskOK
  <2> QED
    BY <1>3, <1>11, <2>1, <2>3 DEF IInv, TypeOK, DiskOK
<1>16. Bitmap'
  <2>1. \A l \in Slot : l # NDATA => ~Has(i, l)
    <3>1. \A l \in Slot : l # NDATA => ~(l >= NDATA)
      BY Constants DEF Slot
    <3> QED
      BY <1>1, <1>3, <3>1 DEF Has
  <2>2. ASSUME NEW j \in Inodes, NEW l \in Slot
        PROVE  /\ Has(j, l)' <=> Has(j, l) /\ ~(j = i /\ l = NDATA)
               /\ Has(j, l)' => BlockIn(j, l)' = BlockIn(j, l)
               /\ Has(j, l) /\ ~(j = i /\ l = NDATA) => BlockIn(j, l)' = BlockIn(j, l)
    <3>1. CASE j # i
      BY <1>7, <1>14, <3>1, SameSlots
    <3>2. CASE j = i
      BY <1>13, <2>1, <3>2
    <3> QED
      BY <3>1, <3>2
  <2>3. CASE x = 0
    <3>1. ~Has(i, NDATA)
      BY <1>2, <2>3 DEF Has
    <3>2. \A j \in Inodes, l \in Slot : (Has(j, l)' <=> Has(j, l)) /\ (Has(j, l) => BlockIn(j, l)' = BlockIn(j, l))
      BY <2>2, <3>1
    <3>3. used' = used
      BY <1>3, <2>3
    <3> QED
      BY <3>2, <3>3, BitmapKept DEF IInv
  <2>4. CASE x # 0
    BY <1>2, <1>8, <2>2, <2>4, SlotsAre, BitmapShrinks DEF IInv
  <2> QED
    BY <2>3, <2>4
<1>17. MappedIn(i)'
  <2>1. size'[i] = 0
    BY <1>3 DEF IInv, TypeOK, DiskOK
  <2> QED
    BY <2>1 DEF MappedIn
<1>18. CallSound(p)'
  BY <1>4, <1>5 DEF CallSound, WriteSound, PieceSound, TruncSound, WrittenBy, LoggedBy, Writes, Writei, Itrunc
<1>19. /\ lock' \in [Inodes -> Procs \cup {Nothing}] /\ before' \in [Inodes -> Seq(Nat)]
       /\ \A j \in Inodes \ {i} : SameIn(j) /\ lock'[j] = lock[j] /\ before'[j] = before[j]
  BY <1>3, <1>14 DEF IInv, TypeOK
<1> QED
  BY <1>1, <1>3, <1>4, <1>9, <1>15, <1>16, <1>17, <1>18, <1>19, TruncStep

-----------------------------------------------------------------------------
(* The invariant. *)

LEMMA InitInvariant == Init => IInv
<1> SUFFICES ASSUME Init PROVE IInv
  OBVIOUS
<1>1. TypeOK
  <2>1. NoCall \in CallRecord
    BY DEF NoCall, CallRecord
  <2>2. DiskOK
    BY Zeros, Constants DEF Init, DiskOK
  <2> QED
    BY <2>1, <2>2 DEF Init, TypeOK
<1>2. \A p \in Procs : call[p].name = "none" /\ call[p].ip = Nothing /\ call[p].logged = {}
  BY DEF Init, NoCall
<1>3. Calls /\ Written /\ Logged
  BY <1>2 DEF Calls, Written, Logged, WriteSound, PieceSound, TruncSound, WrittenBy, LoggedBy, Writes, Writei, Itrunc
<1>4. \A i \in Inodes, k \in Slot : ~Has(i, k)
  <2> SUFFICES ASSUME NEW i \in Inodes, NEW k \in Slot PROVE BlockIn(i, k) = 0
    BY DEF Has
  <2>1. \A l \in 0 .. NDIRECT : addrs[i][l] = 0
    BY DEF Init
  <2>2. addrs[i][NDIRECT] = 0
    BY <2>1, Constants
  <2>3. \A l \in DataSlot : Address(i, l) = 0
    BY <2>1, <2>2, Constants DEF Address, DataSlot
  <2> QED
    BY <2>2, <2>3, SlotsAre DEF BlockIn
<1>5. Bitmap
  BY <1>4 DEF Init, Bitmap
<1>6. Mapped
  <2>1. \A i \in Inodes : size[i] = 0
    BY DEF Init
  <2> QED
    BY <2>1 DEF Mapped, MappedIn
<1> QED
  BY <1>1, <1>3, <1>5, <1>6 DEF Init, IInv, NeverFreesFree

LEMMA NextInvariant == IInv /\ [Next]_vars => IInv'
<1> SUFFICES ASSUME IInv, [Next]_vars PROVE IInv'
  OBVIOUS
<1>1. CASE UNCHANGED vars
  <2>1. UNCHANGED disk /\ UNCHANGED <<lock, file, call, before, panicked>>
    BY <1>1 DEF vars
  <2>2. ASSUME NEW q \in Procs
        PROVE  /\ Writes(q) => file'[call[q].file] # Nothing
               /\ Writei(q) => file'[call[q].file] = file[call[q].file]
               /\ Itrunc(q) => \A f \in Files : file'[f] # Nothing => file'[f].ip # call[q].ip
    BY <2>1 DEF IInv, Calls, WriteSound, TruncSound
  <2>3. file' \in [Files -> [ip : Inodes, off : Nat] \cup {Nothing}]
    BY <2>1 DEF IInv, TypeOK
  <2> QED
    BY <2>1, <2>2, <2>3, TableStep
<1>2. CASE Next
  <2>1. ~panicked
    BY <1>2 DEF Next
  <2>2. CASE \E p \in Procs, f \in Files : \E n \in Counts[p] : fileread(p, f, n)
    BY <2>1, <2>2, FilereadStep
  <2>3. CASE \E p \in Procs : Step(p)
    <3> SUFFICES ASSUME NEW p \in Procs, Step(p) PROVE IInv'
      BY <2>3
    <3>1. CASE WriteBegin(p)
      BY <2>1, <3>1, WriteBeginStep
    <3>2. CASE MapIndirect(p)
      BY <2>1, <3>2, MapIndirectStep
    <3>3. CASE MapBlock(p)
      BY <2>1, <3>3, MapBlockStep
    <3>4. CASE WriteBlock(p)
      BY <2>1, <3>4, WriteBlockStep
    <3>5. CASE WriteEnd(p)
      BY <2>1, <3>5, WriteEndStep
    <3>6. CASE TruncBlock(p)
      BY <2>1, <3>6, TruncBlockStep
    <3>7. CASE TruncEnd(p)
      BY <2>1, <3>7, TruncEndStep
    <3>8. CASE \E f \in Files, n \in Counts[p] : filewrite(p, f, n)
      BY <2>1, <3>8, FilewriteStep
    <3>9. CASE \E i \in Inodes : TruncBegin(p, i)
      BY <2>1, <3>9, TruncBeginStep
    <3> QED
      BY <3>1, <3>2, <3>3, <3>4, <3>5, <3>6, <3>7, <3>8, <3>9 DEF Step
  <2>4. CASE \E f \in Files : close(f) \/ \E i \in Inodes : open(f, i)
    BY <2>1, <2>4, OpenStep, CloseStep
  <2> QED
    BY <1>2, <2>2, <2>3, <2>4 DEF Next
<1> QED
  BY <1>1, <1>2

LEMMA Invariant == Spec => []IInv
BY InitInvariant, NextInvariant, PTL DEF Spec

-----------------------------------------------------------------------------
(* What the run checks of it: the places of the blocks of an inode.         *)

PlaceOf(k) == IF k = NDATA THEN <<"indirect", NDIRECT>> ELSE <<"block", k>>

LEMMA DoneIs ==
  ASSUME IInv, NEW i \in Inodes
  PROVE  Done(i) \in Slot /\ \A l \in DataSlot : NotTruncated(i, l) <=> l >= Done(i)
<1>1. CASE Truncating(i)
  <2>1. PICK p \in Procs : call[p].ip = i
    BY <1>1 DEF Truncating
  <2>2. Itrunc(p)
    BY <2>1, Constants DEF IInv, Calls, TruncSound
  <2>3. PICK k \in Slot : /\ k = call[p].tot /\ lock[i] = p
                          /\ \A l \in Slot : NotTruncated(i, l) <=> l >= k
    BY <2>1, <2>2, TruncIs
  <2>4. Done(i) = k
    BY <1>1, <2>3 DEF Done
  <2> QED
    BY <2>3, <2>4, SlotsAre
<1>2. CASE ~Truncating(i)
  <2>1. Done(i) = 0 /\ 0 \in Slot /\ \A l \in DataSlot : l >= 0
    BY <1>2, Constants DEF Done, Slot, DataSlot
  <2>2. \A l \in DataSlot : NotTruncated(i, l)
    BY <1>2 DEF Truncating, NotTruncated
  <2> QED
    BY <2>1, <2>2
<1> QED
  BY <1>1, <1>2

LEMMA PlacesAre ==
  ASSUME IInv, NEW i \in Inodes
  PROVE  /\ \A k \in Slot : Has(i, k) => PlaceOf(k) \in Places(i) /\ At(i, PlaceOf(k)) = BlockIn(i, k)
         /\ \A place \in Places(i) : \E k \in Slot : place = PlaceOf(k) /\ Has(i, k) /\ At(i, place) = BlockIn(i, k)
<1>1. Done(i) \in Nat /\ \A l \in DataSlot : NotTruncated(i, l) <=> l >= Done(i)
  BY DoneIs, Constants DEF Slot
<1>2. \A l \in Done(i) .. NDIRECT + NINDIRECT - 1 : l \in DataSlot
  BY <1>1, Constants DEF DataSlot, NDATA
<1>3. ASSUME NEW k \in Slot, Has(i, k) PROVE PlaceOf(k) \in Places(i) /\ At(i, PlaceOf(k)) = BlockIn(i, k)
  <2>1. CASE k = NDATA
    <3>1. PlaceOf(k) = <<"indirect", NDIRECT>> /\ addrs[i][NDIRECT] # 0 /\ BlockIn(i, k) = addrs[i][NDIRECT]
      BY <1>3, <2>1 DEF PlaceOf, Has, BlockIn
    <3> QED
      BY <3>1 DEF Places, At
  <2>2. CASE k # NDATA
    <3>1. k \in DataSlot /\ PlaceOf(k) = <<"block", k>> /\ Address(i, k) # 0 /\ BlockIn(i, k) = Address(i, k) /\ k >= Done(i)
      BY <1>1, <1>3, <2>2, SlotsAre DEF PlaceOf, Has, BlockIn
    <3>2. k \in Done(i) .. NDIRECT + NINDIRECT - 1
      BY <1>1, <3>1, Constants DEF DataSlot, NDATA
    <3> QED
      BY <3>1, <3>2 DEF Places, At
  <2> QED
    BY <2>1, <2>2
<1>4. ASSUME NEW place \in Places(i)
      PROVE  \E k \in Slot : place = PlaceOf(k) /\ Has(i, k) /\ At(i, place) = BlockIn(i, k)
  <2>1. CASE place = <<"indirect", NDIRECT>> /\ addrs[i][NDIRECT] # 0
    <3>1. Has(i, NDATA) /\ PlaceOf(NDATA) = place /\ At(i, place) = BlockIn(i, NDATA)
      BY <2>1, HasThem DEF IInv, PlaceOf, At, BlockIn
    <3> QED
      BY <3>1, SlotsAre
  <2>2. CASE \E l \in Done(i) .. NDIRECT + NINDIRECT - 1 : Address(i, l) # 0 /\ place = <<"block", l>>
    <3>1. PICK l \in Done(i) .. NDIRECT + NINDIRECT - 1 : Address(i, l) # 0 /\ place = <<"block", l>>
      BY <2>2
    <3>2. l \in DataSlot /\ l >= Done(i) /\ l # NDATA /\ l \in Slot
      BY <1>1, <1>2, Constants DEF DataSlot, Slot
    <3>3. Has(i, l) /\ BlockIn(i, l) = Address(i, l) /\ PlaceOf(l) = place
      BY <1>1, <3>1, <3>2 DEF Has, BlockIn, PlaceOf
    <3>4. At(i, place) = Address(i, l)
      BY <3>1 DEF At
    <3> QED
      BY <3>2, <3>3, <3>4
  <2> QED
    BY <2>1, <2>2 DEF Places
<1> QED
  BY <1>3, <1>4

LEMMA PlacesDiffer ==
  ASSUME NEW k \in Slot, NEW l \in Slot, PlaceOf(k) = PlaceOf(l)
  PROVE  k = l
<1>1. \A x, y : <<"indirect", x>> # <<"block", y>>
  OBVIOUS
<1>2. \A x, y : <<"block", x>> = <<"block", y>> => x = y
  OBVIOUS
<1> QED
  BY <1>1, <1>2 DEF PlaceOf

LEMMA AllPlacesAre ==
  ASSUME IInv
  PROVE  /\ {At(x[1], x[2]) : x \in AllPlaces} = used
         /\ \A x, y \in AllPlaces : At(x[1], x[2]) = At(y[1], y[2]) => x = y
<1>1. ASSUME NEW x \in AllPlaces
      PROVE  \E i \in Inodes, k \in Slot : x = <<i, PlaceOf(k)>> /\ Has(i, k) /\ At(x[1], x[2]) = BlockIn(i, k)
  <2>1. PICK i \in Inodes : \E y \in Places(i) : x = <<i, y>>
    BY DEF AllPlaces
  <2>p. PICK place \in Places(i) : x = <<i, place>>
    BY <2>1
  <2>2. PICK k \in Slot : place = PlaceOf(k) /\ Has(i, k) /\ At(i, place) = BlockIn(i, k)
    BY PlacesAre
  <2>3. x[1] = i /\ x[2] = place
    BY <2>p
  <2> QED
    BY <2>p, <2>2, <2>3
<1>2. ASSUME NEW i \in Inodes, NEW k \in Slot, Has(i, k)
      PROVE  \E x \in AllPlaces : At(x[1], x[2]) = BlockIn(i, k)
  <2>1. PICK place \in Places(i) : At(i, place) = BlockIn(i, k)
    BY <1>2, PlacesAre
  <2>2. PICK x : x = <<i, place>>
    OBVIOUS
  <2>3. x \in AllPlaces
    BY <2>2 DEF AllPlaces
  <2>4. x[1] = i /\ x[2] = place
    BY <2>2
  <2> QED
    BY <2>1, <2>3, <2>4
<1>3. \A x \in AllPlaces : At(x[1], x[2]) \in used
  BY <1>1 DEF IInv, Bitmap
<1>4. ASSUME NEW b \in used PROVE \E x \in AllPlaces : At(x[1], x[2]) = b
  <2>1. PICK i \in Inodes, k \in Slot : Has(i, k) /\ BlockIn(i, k) = b
    BY DEF IInv, Bitmap
  <2> QED
    BY <1>2, <2>1
<1>5. ASSUME NEW x \in AllPlaces, NEW y \in AllPlaces, At(x[1], x[2]) = At(y[1], y[2]) PROVE x = y
  <2>1. PICK i \in Inodes, k \in Slot : x = <<i, PlaceOf(k)>> /\ Has(i, k) /\ At(x[1], x[2]) = BlockIn(i, k)
    BY <1>1
  <2>2. PICK j \in Inodes, l \in Slot : y = <<j, PlaceOf(l)>> /\ Has(j, l) /\ At(y[1], y[2]) = BlockIn(j, l)
    BY <1>1
  <2>3. BlockIn(i, k) = BlockIn(j, l)
    BY <1>5, <2>1, <2>2
  <2>4. i = j /\ k = l
    BY <2>1, <2>2, <2>3 DEF IInv, Bitmap
  <2> QED
    BY <2>1, <2>2, <2>4
<1> QED
  BY <1>3, <1>4, <1>5

-----------------------------------------------------------------------------
(* A transaction fits. *)

\* MaxPiece is a whole number of blocks, and the log holds twice that many and
\* four more.
LEMMA PieceFits ==
  \E f \in Nat \ {0} : MaxPiece = f * BSIZE /\ 2 * f + 4 <= MAXOPBLOCKS
<1>1. PICK x \in Int : x = MAXOPBLOCKS - 1 - 1 - 2
  BY Constants
<1>2. PICK f \in Int : f = x \div 2 /\ 2 * f <= x
  OBVIOUS
<1>3. MaxPiece = f * BSIZE
  BY <1>1, <1>2 DEF MaxPiece
<1>4. f > 0
  <2>1. SUFFICES ASSUME f <= 0 PROVE FALSE
    BY <1>2
  <2>2. f * BSIZE <= 0 * BSIZE
    BY <2>1, <1>2, Constants, Factors
  <2>3. 0 * BSIZE = 0
    BY Constants
  <2> QED
    BY <1>3, <2>2, <2>3, Constants
<1> QED
  BY <1>1, <1>2, <1>3, <1>4, Constants

LEMMA ImageIsSmall ==
  ASSUME NEW S, IsFiniteSet(S), NEW f, NEW T, T = {f[x] : x \in S}
  PROVE  IsFiniteSet(T) /\ Cardinality(T) <= Cardinality(S)
<1>1. PICK g : g = [x \in S |-> f[x]]
  OBVIOUS
<1>2. g \in [S -> T] /\ \A t \in T : \E x \in S : g[x] = t
  BY <1>1
<1>3. g \in Surjection(S, T)
  BY <1>2 DEF Surjection
<1> QED
  BY <1>3, FS_Surjection

AtMost(S, n) == IsFiniteSet(S) /\ Cardinality(S) \in Nat /\ Cardinality(S) <= n

LEMMA OneMore ==
  ASSUME NEW S, NEW n \in Nat, AtMost(S, n), NEW x
  PROVE  AtMost(S \cup {x}, n + 1)
<1>1. IsFiniteSet(S)
  BY DEF AtMost
<1>2. IsFiniteSet(S \cup {x}) /\ Cardinality(S \cup {x}) = IF x \in S THEN Cardinality(S) ELSE Cardinality(S) + 1
  BY <1>1, FS_AddElement
<1>3. Cardinality(S) \in Nat /\ Cardinality(S) <= n
  BY DEF AtMost
<1> QED
  BY <1>2, <1>3 DEF AtMost

LEMMA SmallerSet ==
  ASSUME NEW S, NEW n \in Nat, AtMost(S, n), NEW T \in SUBSET S
  PROVE  AtMost(T, n)
<1>1. IsFiniteSet(S) /\ Cardinality(S) \in Nat /\ Cardinality(S) <= n
  BY DEF AtMost
<1>2. IsFiniteSet(T) /\ Cardinality(T) <= Cardinality(S)
  BY <1>1, FS_Subset
<1>3. Cardinality(T) \in Nat
  BY <1>2, FS_CardinalityType
<1> QED
  BY <1>1, <1>2, <1>3 DEF AtMost

LEMMA FitsInTheLog ==
  ASSUME IInv, NEW p \in Procs
  PROVE  Cardinality(call[p].logged \cup {INODE}) <= MAXOPBLOCKS
<1>1. PICK f \in Nat \ {0} : MaxPiece = f * BSIZE /\ 2 * f + 4 <= MAXOPBLOCKS
  BY PieceFits
<1>2. CASE ~Writei(p)
  <2>1. call[p].logged = {}
    BY <1>2 DEF IInv, Logged, LoggedBy
  <2>2. call[p].logged \cup {INODE} = {INODE}
    BY <2>1
  <2>3. Cardinality(call[p].logged \cup {INODE}) = 1
    BY <2>2, FS_Singleton, Zenon
  <2> QED
    BY <1>1, <2>3, Constants
<1>3. CASE Writei(p)
  <2>1. PICK i \in Inodes, off \in Nat, n \in Nat \ {0} : i = Ip(p) /\ off = Off(p) /\ n = call[p].n /\ n <= MaxPiece
    BY <1>3, WriterIs DEF IInv, Writes, Writei
  <2>2. PICK lo \in Nat, hi \in Nat : /\ Through(p) = lo .. hi /\ lo <= hi /\ hi <= lo + f
    <3>1. n <= f * BSIZE
      BY <1>1, <2>1
    <3>2. /\ off \div BSIZE \in Nat /\ (off + n - 1) \div BSIZE \in Nat
          /\ off \div BSIZE <= (off + n - 1) \div BSIZE
          /\ (off + n - 1) \div BSIZE <= off \div BSIZE + f
      BY <3>1, PieceBlocks
    <3>3. Through(p) = (off \div BSIZE) .. ((off + n - 1) \div BSIZE)
      BY <2>1 DEF Through
    <3> QED
      BY <3>2, <3>3
  <2>3. PICK w \in Nat : IsFiniteSet(Through(p)) /\ Cardinality(Through(p)) = w /\ w <= f + 1
    <3>1. IsFiniteSet(lo .. hi) /\ Cardinality(lo .. hi) = IF lo > hi THEN 0 ELSE hi - lo + 1
      BY FS_Interval
    <3>2. Cardinality(lo .. hi) = hi - lo + 1 /\ hi - lo + 1 \in Nat /\ hi - lo + 1 <= f + 1
      BY <2>2, <3>1
    <3> QED
      BY <2>2, <3>1, <3>2
  <2>4. PICK T : T = {Address(i, bn) : bn \in Through(p)}
    OBVIOUS
  <2>5. AtMost(T, w)
    <3>1. PICK g : g = [bn \in Through(p) |-> Address(i, bn)]
      OBVIOUS
    <3>2. T = {g[bn] : bn \in Through(p)}
      BY <2>4, <3>1
    <3>3. IsFiniteSet(T) /\ Cardinality(T) <= Cardinality(Through(p))
      BY <2>3, <3>2, ImageIsSmall
    <3>4. Cardinality(T) \in Nat
      BY <3>3, FS_CardinalityType
    <3> QED
      BY <2>3, <3>3, <3>4 DEF AtMost
  <2>6. PICK U : U = ((T \cup {BITMAP}) \cup {addrs[i][NDIRECT]}) \cup {INODE}
    OBVIOUS
  <2>7. AtMost(U, w + 3)
    <3>1. PICK A, B : A = T \cup {BITMAP} /\ B = A \cup {addrs[i][NDIRECT]}
      OBVIOUS
    <3>2. PICK x \in Nat, y \in Nat : x = w + 1 /\ y = x + 1 /\ w + 3 = y + 1
      BY <2>3
    <3>3. AtMost(A, x)
      BY <2>5, <3>1, <3>2, OneMore
    <3>4. AtMost(B, y)
      BY <3>1, <3>2, <3>3, OneMore
    <3>5. U = B \cup {INODE}
      BY <2>6, <3>1
    <3> QED
      BY <3>2, <3>4, <3>5, OneMore
  <2>8. call[p].logged \cup {INODE} \in SUBSET U
    BY <1>3, <2>1, <2>4, <2>6 DEF IInv, Logged, LoggedBy, OwnBlocks
  <2>9. AtMost(call[p].logged \cup {INODE}, w + 3)
    BY <2>7, <2>8, SmallerSet
  <2>10. w + 3 <= MAXOPBLOCKS
    BY <1>1, <2>3, Constants
  <2> QED
    BY <2>3, <2>9, <2>10, Constants DEF AtMost
<1> QED
  BY <1>2, <1>3

LEMMA InvariantSuffices == IInv => BlocksInv
<1> SUFFICES ASSUME IInv PROVE BlocksInv
  OBVIOUS
<1>1. \A i \in Inodes : lock[i] = Nothing => \A k \in 0 .. size[i] - 1 : Address(i, k \div BSIZE) # 0
  BY FreeIsWhole DEF IInv, Mapped, MappedIn
<1>2. panicked => used = Numbers
  BY DEF IInv, NeverFreesFree
<1> QED
  BY <1>1, <1>2, AllPlacesAre, FitsInTheLog DEF BlocksInv

(* A block that the bitmap has as used is in one place of one inode, where  *)
(* itrunc() has not got to yet; a block in a place is used; a file that is  *)
(* not locked has all its blocks; no piece of filewrite() logs more than    *)
(* MAXOPBLOCKS; and itrunc() never frees a free block: with any number of   *)
(* processes in the middle of a write() or an itrunc() (balloc, bfree,      *)
(* bmap, itrunc of fs.c, filewrite of file.c).                              *)
THEOREM BlocksCorrect == Spec => []BlocksInv
BY Invariant, InvariantSuffices, PTL

-----------------------------------------------------------------------------
(* The calls and sequences of bytes. *)

TextOf(i) == IF lock[i] = Nothing THEN Text(i) ELSE before[i]
TextsSame == \A i \in Inodes : TextOf(i)' = TextOf(i)

\* A step that leaves the locks alone, and the blocks of the inodes that are free.
LEMMA TextsStay ==
  ASSUME IInv, FreeStays, UNCHANGED <<lock, before>>
  PROVE  TextsSame
<1> SUFFICES ASSUME NEW i \in Inodes PROVE TextOf(i)' = TextOf(i)
  BY DEF TextsSame
<1>1. CASE lock[i] = Nothing
  <2>1. Text(i)' = Text(i)
    BY <1>1, FreeIsWhole, TextKept DEF IInv, FreeStays, SameIn
  <2> QED
    BY <1>1, <2>1 DEF TextOf
<1>2. CASE lock[i] # Nothing
  BY <1>2 DEF TextOf
<1> QED
  BY <1>1, <1>2

LEMMA DiskTexts ==
  ASSUME UNCHANGED disk
  PROVE  \A i \in Inodes : Text(i)' = Text(i)
BY DEF disk, Text, Address

\* A step that locks an inode.
LEMMA LockedText ==
  ASSUME IInv, NEW p \in Procs, NEW i \in Inodes, Ilock(p, i), UNCHANGED disk
  PROVE  TextsSame
<1> SUFFICES ASSUME NEW j \in Inodes PROVE TextOf(j)' = TextOf(j)
  BY DEF TextsSame
<1>1. lock[i] = Nothing /\ lock' = [lock EXCEPT ![i] = p] /\ before' = [before EXCEPT ![i] = Text(i)]
  BY DEF Ilock
<1>2. lock'[i] = p /\ before'[i] = Text(i) /\ (j # i => lock'[j] = lock[j] /\ before'[j] = before[j])
  BY <1>1 DEF IInv, TypeOK
<1>3. Text(j)' = Text(j)
  BY DiskTexts
<1> QED
  BY <1>1, <1>2, <1>3, Constants DEF TextOf

\* What a step is for those who see sequences of bytes.
SeenAsOpen(f, i) == TextsSame /\ file[f] = Nothing /\ file' = [file EXCEPT ![f] = [ip |-> i, off |-> 0]]
SeenAsClose(f) == TextsSame /\ file' = [file EXCEPT ![f] = Nothing]
SeenAsWrite(p, f, i, off, n) ==
  /\ file[f] # Nothing /\ file[f].ip = i /\ file[f].off = off /\ off + n <= MaxSize
  /\ TextOf(i)' = Abstract!Overlaid(TextOf(i), off, n, Letter[p])
  /\ \A j \in Inodes \ {i} : TextOf(j)' = TextOf(j)
  /\ file' = [file EXCEPT ![f].off = @ + n]
SeenAsDiscard(i) ==
  /\ \A f \in Files : file[f] # Nothing => file[f].ip # i
  /\ TextOf(i)' = <<>> /\ \A j \in Inodes \ {i} : TextOf(j)' = TextOf(j)
  /\ file' = file
SeenAsRead(f, end) ==
  /\ file[f] # Nothing /\ file[f].ip \in Inodes /\ end \in file[f].off .. Len(TextOf(file[f].ip))
  /\ got' = SubSeq(TextOf(file[f].ip), file[f].off + 1, end)
  /\ file' = [file EXCEPT ![f].off = end]
  /\ TextsSame

Seen ==
  \/ TextsSame /\ file' = file
  \/ \E f \in Files, i \in Inodes : SeenAsOpen(f, i)
  \/ \E f \in Files : SeenAsClose(f)
  \/ \E p \in Procs, f \in Files, i \in Inodes, off \in Nat, n \in 1 .. MaxPiece : SeenAsWrite(p, f, i, off, n)
  \/ \E i \in Inodes : SeenAsDiscard(i)

LEMMA WriteSeen ==
  ASSUME IInv, NEW p \in Procs, WriteEnd(p)
  PROVE  Seen
<1>0. Writei(p) /\ Writes(p) /\ call[p].tot = call[p].n
  BY DEF WriteEnd, Writei, Writes
<1>1. PICK i \in Inodes, off \in Nat, n \in Nat \ {0}, f \in Files :
        i = Ip(p) /\ off = Off(p) /\ n = call[p].n /\ f = call[p].file
  BY <1>0, WriterIs DEF IInv
<1>2. /\ file[f] # Nothing /\ file[f].ip = i /\ file[f].off = off
      /\ Whole(i) /\ lock[i] = p /\ n <= MaxPiece /\ off <= size[i] /\ off + n <= MaxSize
  <2>1. file[f] # Nothing
    BY <1>0, <1>1 DEF IInv, Calls, WriteSound
  <2> QED
    BY <1>0, <1>1, <2>1, WriterIs DEF IInv, Ip, Off
<1>3. /\ size' = [size EXCEPT ![i] = NewSize(i, off + n)]
      /\ file' = [file EXCEPT ![f].off = off + n]
      /\ lock' = [lock EXCEPT ![i] = Nothing]
      /\ before' = [before EXCEPT ![i] = <<>>]
      /\ UNCHANGED <<used, addrs, bytes, entries>>
  BY <1>1 DEF WriteEnd, Iunlock
<1>4. PICK s \in Nat : s = NewSize(i, off + n) /\ s = IF off + n > size[i] THEN off + n ELSE size[i]
  <2>1. size[i] \in Nat
    BY SizeIs DEF IInv
  <2> QED
    BY <2>1 DEF NewSize
<1>5. size'[i] = s /\ lock'[i] = Nothing
  BY <1>3, <1>4 DEF IInv, TypeOK, DiskOK
<1>6. \A j, bn : Address(j, bn)' = Address(j, bn)
  BY <1>3 DEF Address
<1>7. /\ Len(before[i]) = size[i]
      /\ \A k \in off .. off + n - 1 : Address(i, k \div BSIZE) # 0 /\ Byte(i, k) = Letter[p]
      /\ \A k \in 0 .. size[i] - 1 : k < off \/ k >= off + n => Byte(i, k) = before[i][k + 1]
  <2>1. PieceIn(p, i, off, off + n)
    BY <1>0, <1>1 DEF IInv, Written, WrittenBy
  <2> QED
    BY <2>1 DEF PieceIn
<1>8. ASSUME NEW k \in 1 .. s
      PROVE  /\ Address(i, (k - 1) \div BSIZE) # 0
             /\ Byte(i, k - 1) = IF k > off /\ k <= off + n THEN Letter[p] ELSE before[i][k]
  <2>1. size[i] \in Nat
    BY SizeIs DEF IInv
  <2>2. CASE k > off /\ k <= off + n
    <3>1. k - 1 \in off .. off + n - 1
      BY <2>2
    <3> QED
      BY <1>7, <2>2, <3>1
  <2>3. CASE ~(k > off /\ k <= off + n)
    <3>1. k - 1 \in 0 .. size[i] - 1 /\ (k - 1 < off \/ k - 1 >= off + n) /\ (k - 1) + 1 = k
      BY <1>2, <1>4, <2>1, <2>3
    <3>2. Address(i, (k - 1) \div BSIZE) # 0
      BY <1>2, <3>1 DEF IInv, Mapped, MappedIn
    <3>3. Byte(i, k - 1) = before[i][(k - 1) + 1]
      BY <1>7, <3>1
    <3> QED
      BY <2>3, <3>1, <3>2, <3>3
  <2> QED
    BY <2>2, <2>3
<1>9. Text(i)' = [k \in 1 .. s |-> IF k > off /\ k <= off + n THEN Letter[p] ELSE before[i][k]]
  <2>1. Text(i)' = [k \in 1 .. s |-> IF Address(i, (k - 1) \div BSIZE) = 0 THEN 0 ELSE Byte(i, k - 1)]
    BY <1>3, <1>5, <1>6 DEF Text, Byte
  <2> QED
    BY <1>8, <2>1
<1>10. TextOf(i)' = Abstract!Overlaid(TextOf(i), off, n, Letter[p])
  <2>1. TextOf(i) = before[i]
    BY <1>2, Constants DEF TextOf
  <2>2. TextOf(i)' = Text(i)'
    BY <1>5 DEF TextOf
  <2> QED
    BY <1>4, <1>7, <1>9, <2>1, <2>2 DEF Abstract!Overlaid
<1>11. ASSUME NEW j \in Inodes \ {i} PROVE TextOf(j)' = TextOf(j)
  <2>1. size'[j] = size[j] /\ lock'[j] = lock[j] /\ before'[j] = before[j]
    BY <1>3 DEF IInv, TypeOK, DiskOK
  <2>2. Text(j)' = Text(j)
    BY <1>3, <1>6, <2>1 DEF Text
  <2> QED
    BY <2>1, <2>2 DEF TextOf
<1>12. file' = [file EXCEPT ![f].off = @ + n]
  BY <1>2, <1>3
<1>13. n \in 1 .. MaxPiece
  BY <1>2, Constants
<1>14. SeenAsWrite(p, f, i, off, n)
  BY <1>2, <1>10, <1>11, <1>12 DEF SeenAsWrite
<1> QED
  BY <1>13, <1>14 DEF Seen

LEMMA DiscardSeen ==
  ASSUME IInv, NEW p \in Procs, TruncEnd(p)
  PROVE  Seen
<1>1. PICK i \in Inodes :
        /\ i = call[p].ip /\ lock[i] = p
        /\ \A f \in Files : file[f] # Nothing => file[f].ip # i
  BY TruncIs DEF TruncEnd, Itrunc
<1>2. /\ size' = [size EXCEPT ![i] = 0]
      /\ lock' = [lock EXCEPT ![i] = Nothing] /\ before' = [before EXCEPT ![i] = <<>>]
      /\ addrs' \in {addrs, [addrs EXCEPT ![i][NDIRECT] = 0]}
      /\ UNCHANGED <<bytes, entries, file>>
  BY <1>1 DEF TruncEnd, Iunlock
<1>3. TextOf(i)' = <<>>
  <2>1. size'[i] = 0 /\ lock'[i] = Nothing
    BY <1>2 DEF IInv, TypeOK, DiskOK
  <2>2. Text(i)' = <<>>
    BY <2>1 DEF Text
  <2> QED
    BY <2>1, <2>2 DEF TextOf
<1>4. ASSUME NEW j \in Inodes \ {i} PROVE TextOf(j)' = TextOf(j)
  <2>1. size'[j] = size[j] /\ lock'[j] = lock[j] /\ before'[j] = before[j] /\ addrs'[j] = addrs[j]
    BY <1>2 DEF IInv, TypeOK, DiskOK
  <2>2. Text(j)' = Text(j)
    BY <1>2, <2>1 DEF Text, Address
  <2> QED
    BY <2>1, <2>2 DEF TextOf
<1>5. SeenAsDiscard(i)
  BY <1>1, <1>2, <1>3, <1>4 DEF SeenAsDiscard
<1> QED
  BY <1>5 DEF Seen

LEMMA ReadSeen ==
  ASSUME IInv, NEW p \in Procs, NEW f \in Files, NEW n \in Counts[p], fileread(p, f, n)
  PROVE  \E end : SeenAsRead(f, end)
<1>1. PICK i : i = file[f].ip /\ file[f] # Nothing
  BY DEF fileread
<1>2. i \in Inodes /\ file[f].off \in Nat /\ n \in Nat
  BY <1>1, FileIs, Constants DEF IInv
<1>3. size[i] \in Nat
  BY <1>2, SizeIs DEF IInv
<1>4. PICK end \in Nat : end = Min({file[f].off + n, size[i]}) /\ end \in {file[f].off + n, size[i]} /\ end <= size[i]
  <2>1. file[f].off + n \in Nat
    BY <1>2
  <2> QED
    BY <1>3, <2>1, LesserOf
<1>5. /\ lock[i] = Nothing /\ file[f].off <= size[i]
      /\ got' = SubSeq(Text(i), file[f].off + 1, end)
      /\ file' = [file EXCEPT ![f].off = end]
      /\ UNCHANGED <<disk, lock, before>>
  BY <1>1, <1>4 DEF fileread
<1>6. TextOf(i) = Text(i) /\ Len(Text(i)) = size[i]
  BY <1>2, <1>5, FreeIsWhole, TextIs DEF IInv, TextOf
<1>7. TextsSame
  BY <1>5, DiskTexts DEF TextsSame, TextOf
<1>8. end \in file[f].off .. Len(TextOf(i))
  BY <1>2, <1>3, <1>4, <1>5, <1>6
<1> QED
  BY <1>1, <1>2, <1>5, <1>6, <1>7, <1>8 DEF SeenAsRead

LEMMA StepSeen ==
  ASSUME IInv, ~panicked, NEW p \in Procs, Step(p)
  PROVE  Seen
<1>1. CASE WriteBegin(p)
  <2>1. Ip(p) \in Inodes
    BY <1>1, WriterIs DEF IInv, WriteBegin, Writes
  <2>2. UNCHANGED disk /\ file' = file /\ (UNCHANGED <<lock, before>> \/ Ilock(p, Ip(p)))
    BY <1>1 DEF WriteBegin
  <2>3. UNCHANGED <<lock, before>> => TextsSame
    BY <2>2, DiskTexts DEF TextsSame, TextOf
  <2> QED
    BY <2>1, <2>2, <2>3, LockedText DEF Seen
<1>2. CASE MapIndirect(p)
  BY <1>2, MapIndirectStep, TextsStay DEF MapIndirect, Seen
<1>3. CASE MapBlock(p)
  BY <1>3, MapBlockStep, TextsStay DEF MapBlock, Seen
<1>4. CASE WriteBlock(p)
  BY <1>4, WriteBlockStep, TextsStay DEF WriteBlock, Seen
<1>5. CASE WriteEnd(p)
  BY <1>5, WriteSeen
<1>6. CASE TruncBlock(p)
  BY <1>6, TruncBlockStep, TextsStay DEF TruncBlock, Seen
<1>7. CASE TruncEnd(p)
  BY <1>7, DiscardSeen
<1>8. CASE \E f \in Files, n \in Counts[p] : filewrite(p, f, n)
  <2>1. UNCHANGED disk /\ UNCHANGED <<lock, before>> /\ file' = file
    BY <1>8 DEF filewrite
  <2>2. TextsSame
    BY <2>1, DiskTexts DEF TextsSame, TextOf
  <2> QED
    BY <2>1, <2>2 DEF Seen
<1>9. CASE \E i \in Inodes : TruncBegin(p, i)
  <2>1. PICK i \in Inodes : TruncBegin(p, i)
    BY <1>9
  <2>2. Ilock(p, i) /\ UNCHANGED disk /\ file' = file
    BY <2>1 DEF TruncBegin
  <2> QED
    BY <2>2, LockedText DEF Seen
<1> QED
  BY <1>1, <1>2, <1>3, <1>4, <1>5, <1>6, <1>7, <1>8, <1>9 DEF Step

LEMMA TableSeen ==
  ASSUME NEW f \in Files, close(f) \/ \E i \in Inodes : open(f, i)
  PROVE  Seen
<1>1. CASE close(f)
  <2>1. UNCHANGED disk /\ UNCHANGED <<lock, before>> /\ file' = [file EXCEPT ![f] = Nothing]
    BY <1>1 DEF close
  <2>2. SeenAsClose(f)
    BY <2>1, DiskTexts DEF SeenAsClose, TextsSame, TextOf
  <2> QED
    BY <2>2 DEF Seen
<1>2. CASE \E i \in Inodes : open(f, i)
  <2>1. PICK i \in Inodes : open(f, i)
    BY <1>2
  <2>2. UNCHANGED disk /\ UNCHANGED <<lock, before>> /\ file[f] = Nothing /\ file' = [file EXCEPT ![f] = [ip |-> i, off |-> 0]]
    BY <2>1 DEF open
  <2>3. SeenAsOpen(f, i)
    BY <2>2, DiskTexts DEF SeenAsOpen, TextsSame, TextOf
  <2> QED
    BY <2>3 DEF Seen
<1> QED
  BY <1>1, <1>2

Texts == [i \in Inodes |-> TextOf(i)]

LEMMA TextsChange ==
  /\ TextsSame => Texts' = Texts
  /\ \A i \in Inodes : \A t : TextOf(i)' = t /\ (\A j \in Inodes \ {i} : TextOf(j)' = TextOf(j)) => Texts' = [Texts EXCEPT ![i] = t]
BY DEF TextsSame, Texts

LEMMA InitRefines == Init => Abstract!Init
<1> SUFFICES ASSUME Init PROVE Abstract!Init
  OBVIOUS
<1>1. ASSUME NEW i \in Inodes PROVE TextOf(i) = <<>>
  <2>1. size[i] = 0 /\ lock[i] = Nothing
    BY DEF Init
  <2>2. Text(i) = <<>>
    BY <2>1 DEF Text
  <2> QED
    BY <2>1, <2>2 DEF TextOf
<1> QED
  BY <1>1 DEF Init, Abstract!Init, TextOf

LEMMA NextRefines == IInv /\ [Next]_vars => [Abstract!Next]_<<Texts, file, got>>
<1> SUFFICES ASSUME IInv, [Next]_vars PROVE Abstract!Next \/ UNCHANGED <<Texts, file, got>>
  OBVIOUS
<1>0. /\ Texts = [i \in Inodes |-> IF lock[i] = Nothing THEN Text(i) ELSE before[i]]
      /\ Texts' = [i \in Inodes |-> IF lock[i] = Nothing THEN Text(i) ELSE before[i]]'
  BY DEF Texts, TextOf
<1>1. CASE UNCHANGED vars
  <2>1. UNCHANGED disk /\ UNCHANGED <<lock, file, before, got>>
    BY <1>1 DEF vars
  <2>2. TextsSame
    BY <2>1, DiskTexts DEF TextsSame, TextOf
  <2> QED
    BY <2>1, <2>2, TextsChange
<1>2. CASE \E p \in Procs, f \in Files : \E n \in Counts[p] : fileread(p, f, n)
  <2>0. PICK f \in Files : \E end : SeenAsRead(f, end)
    BY <1>2, ReadSeen
  <2>1. PICK end : SeenAsRead(f, end)
    BY <2>0
  <2>2. Texts' = Texts
    BY <2>1, TextsChange DEF SeenAsRead
  <2>3. Abstract!Read(f)
    BY <1>0, <2>1, <2>2 DEF SeenAsRead, Abstract!Read, Texts
  <2> QED
    BY <2>3 DEF Abstract!Next
<1>3. CASE Seen /\ got' = <<>>
  <2>1. CASE TextsSame /\ file' = file
    BY <1>0, <1>3, <2>1, TextsChange DEF Abstract!Next
  <2>2. CASE \E f \in Files, i \in Inodes : SeenAsOpen(f, i)
    <3>1. PICK f \in Files, i \in Inodes : SeenAsOpen(f, i)
      BY <2>2
    <3>2. Abstract!Open(f, i)
      BY <1>0, <3>1, TextsChange DEF SeenAsOpen, Abstract!Open
    <3> QED
      BY <1>3, <3>2 DEF Abstract!Next
  <2>3. CASE \E f \in Files : SeenAsClose(f)
    <3>1. PICK f \in Files : SeenAsClose(f)
      BY <2>3
    <3>2. Abstract!Close(f)
      BY <1>0, <3>1, TextsChange DEF SeenAsClose, Abstract!Close
    <3> QED
      BY <1>3, <3>2 DEF Abstract!Next
  <2>4. CASE \E p \in Procs, f \in Files, i \in Inodes, off \in Nat, n \in 1 .. MaxPiece : SeenAsWrite(p, f, i, off, n)
    <3>1. PICK p \in Procs, f \in Files, i \in Inodes, off \in Nat, n \in 1 .. MaxPiece : SeenAsWrite(p, f, i, off, n)
      BY <2>4
    <3>2. Texts' = [Texts EXCEPT ![i] = Abstract!Overlaid(TextOf(i), off, n, Letter[p])]
      BY <3>1, TextsChange DEF SeenAsWrite
    <3>3. Texts[i] = TextOf(i)
      BY DEF Texts
    <3>4. Abstract!Write(p, f)
      BY <1>0, <3>1, <3>2, <3>3 DEF SeenAsWrite, Abstract!Write
    <3> QED
      BY <1>3, <3>4 DEF Abstract!Next
  <2>5. CASE \E i \in Inodes : SeenAsDiscard(i)
    <3>1. PICK i \in Inodes : SeenAsDiscard(i)
      BY <2>5
    <3>2. Texts' = [Texts EXCEPT ![i] = <<>>]
      BY <3>1, TextsChange DEF SeenAsDiscard
    <3>3. Abstract!Discard(i)
      BY <1>0, <3>1, <3>2 DEF SeenAsDiscard, Abstract!Discard
    <3> QED
      BY <1>3, <3>3 DEF Abstract!Next
  <2> QED
    BY <1>3, <2>1, <2>2, <2>3, <2>4, <2>5 DEF Seen
<1>4. CASE Next
  <2>1. ~panicked
    BY <1>4 DEF Next
  <2>2. (\E p \in Procs : Step(p)) /\ got' = <<>> => Seen /\ got' = <<>>
    BY <2>1, StepSeen
  <2>3. (\E f \in Files : close(f) \/ \E i \in Inodes : open(f, i)) /\ got' = <<>> => Seen /\ got' = <<>>
    BY TableSeen
  <2> QED
    BY <1>2, <1>3, <1>4, <2>2, <2>3 DEF Next
<1> QED
  BY <1>1, <1>4

(* Whatever blocks and pieces a write() goes in, with the pieces of others  *)
(* in between: it puts each piece into a sequence of bytes at once, at the  *)
(* offset that the open file has, and read() reads that sequence (filewrite *)
(* and fileread of file.c, readi and writei of fs.c).                       *)
THEOREM Refinement == Spec => ImplementsTextFiles
<1>1. IInv /\ [Next]_vars => [Abstract!Next]_<<[i \in Inodes |-> IF lock[i] = Nothing THEN Text(i) ELSE before[i]], file, got>>
  <2> SUFFICES ASSUME IInv, [Next]_vars
               PROVE  \/ Abstract!Next
                      \/ UNCHANGED <<[i \in Inodes |-> IF lock[i] = Nothing THEN Text(i) ELSE before[i]], file, got>>
    OBVIOUS
  <2>1. /\ Texts = [i \in Inodes |-> IF lock[i] = Nothing THEN Text(i) ELSE before[i]]
        /\ Texts' = [i \in Inodes |-> IF lock[i] = Nothing THEN Text(i) ELSE before[i]]'
    BY DEF Texts, TextOf
  <2>2. Abstract!Next \/ UNCHANGED <<Texts, file, got>>
    BY NextRefines
  <2> QED
    BY <2>1, <2>2
<1> QED
  BY <1>1, InitRefines, Invariant, PTL DEF Spec, ImplementsTextFiles, Abstract!Spec
=============================================================================
