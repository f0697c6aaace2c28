------------------------------- MODULE Blocks -------------------------------
(***************************************************************************)
(* The contents of files (fileread and filewrite of file.c, readi, writei, *)
(* bmap, itrunc, balloc and bfree of fs.c): the blocks of an inode, of     *)
(* which all but the first NDIRECT are found through another block, and    *)
(* the bitmap of the blocks in use.                                        *)
(*                                                                         *)
(* filewrite() goes in pieces, each with the inode locked and in a         *)
(* transaction of its own.  A step is what is done with one block; its     *)
(* buffer is locked.  How names and links lead to inodes is in FileSystem. *)
(***************************************************************************)
EXTENDS Integers, Sequences, FiniteSets, FiniteSetsExt

CONSTANTS
  Procs, Inodes,
  Files,        \* entries of the table of open files
  NBLOCKS,      \* blocks for data, which one block of the bitmap describes
  BSIZE, NDIRECT, NINDIRECT, MAXOPBLOCKS,
  Counts,       \* the lengths that each process asks of read() and write()
  Letter,       \* the byte that each process writes
  Nothing

Numbers == 1 .. NBLOCKS
MaxPiece == ((MAXOPBLOCKS - 1 - 1 - 2) \div 2) * BSIZE
MaxSize == (NDIRECT + NINDIRECT) * BSIZE

ASSUME BlocksAssumption ==
  /\ {NBLOCKS, BSIZE, NDIRECT, NINDIRECT} \subseteq Nat \ {0} /\ MAXOPBLOCKS \in Nat /\ MaxPiece > 0
  /\ Counts \in [Procs -> SUBSET (Nat \ {0})] /\ Letter \in [Procs -> Nat]
  /\ Nothing \notin Procs \cup Inodes \cup [ip : Inodes, off : Nat]

VARIABLES
  used,         \* the bitmap
  addrs, size,  \* of each inode; the last of addrs is the indirect block
  bytes,        \* of each block, as data
  entries,      \* of each block, as an indirect block
  lock,         \* who has locked each inode
  file,         \* of each open file: its inode and offset
  call,         \* what each process is in the middle of
  got,          \* what a read() has just returned
  before,       \* (history) the text of an inode when it was locked
  panicked

disk == <<used, addrs, size, bytes, entries>>
vars == <<disk, lock, file, call, got, before, panicked>>

(* The numbers of two more blocks, for call.logged.                         *)
BITMAP == 0
INODE == NBLOCKS + 1

NoCall == [name |-> "none", file |-> Nothing, left |-> 0, n |-> 0, tot |-> 0, ip |-> Nothing, logged |-> {}]

ZeroBytes == [k \in 0 .. BSIZE - 1 |-> 0]
NoEntries == [k \in 0 .. NINDIRECT - 1 |-> 0]

Init ==
  /\ used = {}
  /\ addrs = [i \in Inodes |-> [k \in 0 .. NDIRECT |-> 0]]
  /\ size = [i \in Inodes |-> 0]
  /\ bytes = [b \in Numbers |-> ZeroBytes]
  /\ entries = [b \in Numbers |-> NoEntries]
  /\ lock = [i \in Inodes |-> Nothing]
  /\ file = [f \in Files |-> Nothing]
  /\ call = [p \in Procs |-> NoCall]
  /\ got = <<>>
  /\ before = [i \in Inodes |-> <<>>]
  /\ panicked = FALSE

(* The address of block bn of inode i, and what can be read of i.           *)
Address(i, bn) == IF bn < NDIRECT THEN addrs[i][bn]
                  ELSE IF addrs[i][NDIRECT] = 0 THEN 0
                  ELSE entries[addrs[i][NDIRECT]][bn - NDIRECT]

Text(i) == [k \in 1 .. size[i] |->
              LET b == Address(i, (k - 1) \div BSIZE)
              IN IF b = 0 THEN 0 ELSE bytes[b][(k - 1) % BSIZE]]

Ilock(p, i) == /\ lock[i] = Nothing
               /\ lock' = [lock EXCEPT ![i] = p]
               /\ before' = [before EXCEPT ![i] = Text(i)]

Iunlock(i) == /\ lock' = [lock EXCEPT ![i] = Nothing]
              /\ before' = [before EXCEPT ![i] = <<>>]

-----------------------------------------------------------------------------
(* balloc(): the first free block, zeroed.                                  *)

NewBlock == Min(Numbers \ used)

NotZeroed(b) == UNCHANGED <<bytes, entries>>          \* mutant: no bzero()
Zeroed(b) == /\ bytes' = [bytes EXCEPT ![b] = ZeroBytes]
             /\ entries' = [entries EXCEPT ![b] = NoEntries]

balloc == /\ Numbers \ used # {}
          /\ used' = used \cup {NewBlock}
          /\ Zeroed(NewBlock)

OutOfBlocks == Numbers \ used = {} /\ panicked' = TRUE /\ UNCHANGED <<disk, call>>

-----------------------------------------------------------------------------
(* filewrite()                                                              *)

filewrite(p, f, n) ==
  /\ call[p] = NoCall /\ file[f] # Nothing
  /\ call' = [call EXCEPT ![p] = [NoCall EXCEPT !.name = "write", !.file = f, !.left = n]]
  /\ UNCHANGED <<disk, lock, file, before, panicked>>

Ip(p) == file[call[p].file].ip
Off(p) == file[call[p].file].off

(* A piece: the checks of writei().                                         *)
WriteBegin(p) ==
  LET n == Min({call[p].left, MaxPiece})
  IN /\ call[p].name = "write" /\ lock[Ip(p)] = Nothing
     /\ IF Off(p) > size[Ip(p)] \/ Off(p) + n > MaxSize
        THEN call' = [call EXCEPT ![p] = NoCall] /\ UNCHANGED <<lock, before>>
        ELSE /\ call' = [call EXCEPT ![p].name = "writei", ![p].n = n, ![p].tot = 0, ![p].logged = {}]
             /\ Ilock(p, Ip(p))
     /\ UNCHANGED <<disk, file, panicked>>

Place(p) == Off(p) + call[p].tot
BlockNo(p) == Place(p) \div BSIZE
Writing(p) == call[p].name = "writei" /\ call[p].tot < call[p].n

Logs(p, blocks) == call' = [call EXCEPT ![p].logged = @ \cup blocks]

(* bmap() allocates the indirect block, or the block itself.                *)
NeedsIndirect(p) == BlockNo(p) >= NDIRECT /\ addrs[Ip(p)][NDIRECT] = 0

MapIndirect(p) ==
  /\ Writing(p) /\ NeedsIndirect(p)
  /\ \/ OutOfBlocks
     \/ /\ balloc
        /\ addrs' = [addrs EXCEPT ![Ip(p)][NDIRECT] = NewBlock]
        /\ Logs(p, {BITMAP, NewBlock})
        /\ UNCHANGED <<size, panicked>>
  /\ UNCHANGED <<lock, file, before>>

MapBlock(p) ==
  /\ Writing(p) /\ ~NeedsIndirect(p) /\ Address(Ip(p), BlockNo(p)) = 0
  /\ \/ OutOfBlocks
     \/ /\ Numbers \ used # {}
        /\ used' = used \cup {NewBlock}
        /\ IF BlockNo(p) < NDIRECT
           THEN /\ addrs' = [addrs EXCEPT ![Ip(p)][BlockNo(p)] = NewBlock]
                /\ Zeroed(NewBlock)
                /\ Logs(p, {BITMAP, NewBlock})
           ELSE LET indirect == addrs[Ip(p)][NDIRECT]
                IN /\ bytes' = [bytes EXCEPT ![NewBlock] = ZeroBytes]
                   /\ entries' = [entries EXCEPT ![NewBlock] = NoEntries,
                                                 ![indirect][BlockNo(p) - NDIRECT] = NewBlock]
                   /\ Logs(p, {BITMAP, NewBlock, indirect})
                   /\ UNCHANGED addrs
        /\ UNCHANGED <<size, panicked>>
  /\ UNCHANGED <<lock, file, before>>

(* A turn of the loop of writei(), the block being there.                   *)
WriteBlock(p) ==
  LET b == Address(Ip(p), BlockNo(p))
      start == Place(p) % BSIZE
      m == Min({call[p].n - call[p].tot, BSIZE - start})
  IN /\ Writing(p) /\ ~NeedsIndirect(p) /\ b # 0
     /\ bytes' = [bytes EXCEPT ![b] = [k \in DOMAIN @ |-> IF k \in start .. start + m - 1 THEN Letter[p] ELSE @[k]]]
     /\ call' = [call EXCEPT ![p].tot = @ + m, ![p].logged = @ \cup {b}]
     /\ UNCHANGED <<used, addrs, size, entries, lock, file, before, panicked>>

AlwaysEnd(i, end) == end                              \* mutant: no test of the old size
NewSize(i, end) == IF end > size[i] THEN end ELSE size[i]

WriteEnd(p) ==
  LET end == Off(p) + call[p].n
      left == call[p].left - call[p].n
  IN /\ call[p].name = "writei" /\ call[p].tot = call[p].n
     /\ size' = [size EXCEPT ![Ip(p)] = NewSize(Ip(p), end)]
     /\ file' = [file EXCEPT ![call[p].file].off = end]
     /\ call' = [call EXCEPT ![p] = IF left = 0 THEN NoCall
                                    ELSE [NoCall EXCEPT !.name = "write", !.file = call[p].file, !.left = left]]
     /\ Iunlock(Ip(p))
     /\ UNCHANGED <<used, addrs, bytes, entries, panicked>>

-----------------------------------------------------------------------------
(* fileread(): a step, under the lock.  Where a block has no address bmap() *)
(* would allocate it outside of any transaction; that there is none         *)
(* is a part of BlocksInv.                                                  *)
fileread(p, f, n) ==
  LET i == file[f].ip
      end == Min({file[f].off + n, size[i]})
  IN /\ call[p] = NoCall /\ file[f] # Nothing
     /\ lock[i] = Nothing
     /\ file[f].off <= size[i]
     /\ got' = SubSeq(Text(i), file[f].off + 1, end)
     /\ file' = [file EXCEPT ![f].off = end]
     /\ UNCHANGED <<disk, lock, call, before, panicked>>

-----------------------------------------------------------------------------
(* open() and the last close() of a file.                                   *)

Truncating(i) == \E p \in Procs : call[p].ip = i

open(f, i) ==
  /\ file[f] = Nothing /\ ~Truncating(i)
  /\ file' = [file EXCEPT ![f] = [ip |-> i, off |-> 0]]
  /\ UNCHANGED <<disk, lock, call, before, panicked>>

close(f) ==
  /\ file[f] # Nothing /\ \A p \in Procs : call[p].file # f
  /\ file' = [file EXCEPT ![f] = Nothing]
  /\ UNCHANGED <<disk, lock, call, before, panicked>>

(* itrunc(), which iput() calls with the last reference to a file that has  *)
(* no name any more.                                                        *)
TruncBegin(p, i) ==
  /\ call[p] = NoCall
  /\ \A f \in Files : file[f] # Nothing => file[f].ip # i
  /\ Ilock(p, i)
  /\ call' = [call EXCEPT ![p] = [NoCall EXCEPT !.name = "itrunc", !.ip = i]]
  /\ UNCHANGED <<disk, file, panicked>>

bfree(b) == IF b \in used THEN used' = used \ {b} /\ UNCHANGED panicked
            ELSE panicked' = TRUE /\ UNCHANGED used      \* "freeing free block"

(* The block in turn: of the indirect block the entries are only read.      *)
TruncBlock(p) ==
  LET i == call[p].ip
      k == call[p].tot
      b == Address(i, k)
  IN /\ call[p].name = "itrunc" /\ k < NDIRECT + NINDIRECT
     /\ IF b = 0 THEN UNCHANGED <<used, addrs, panicked>>
        ELSE /\ bfree(b)
             /\ addrs' = IF k < NDIRECT THEN [addrs EXCEPT ![i][k] = 0] ELSE addrs
     /\ call' = [call EXCEPT ![p].tot = @ + 1]
     /\ UNCHANGED <<size, bytes, entries, lock, file, before>>

TruncEnd(p) ==
  LET i == call[p].ip
  IN /\ call[p].name = "itrunc" /\ call[p].tot = NDIRECT + NINDIRECT
     /\ IF addrs[i][NDIRECT] = 0 THEN UNCHANGED <<used, addrs, panicked>>
        ELSE bfree(addrs[i][NDIRECT]) /\ addrs' = [addrs EXCEPT ![i][NDIRECT] = 0]
     /\ size' = [size EXCEPT ![i] = 0]
     /\ Iunlock(i)
     /\ call' = [call EXCEPT ![p] = NoCall]
     /\ UNCHANGED <<bytes, entries, file>>

Step(p) ==
  \/ WriteBegin(p) \/ MapIndirect(p) \/ MapBlock(p) \/ WriteBlock(p) \/ WriteEnd(p)
  \/ TruncBlock(p) \/ TruncEnd(p)
  \/ \E f \in Files, n \in Counts[p] : filewrite(p, f, n)
  \/ \E i \in Inodes : TruncBegin(p, i)

Next == ~panicked /\
  \/ \E p \in Procs, f \in Files : \E n \in Counts[p] : fileread(p, f, n)
  \/ /\ \/ \E p \in Procs : Step(p)
        \/ \E f \in Files : close(f) \/ \E i \in Inodes : open(f, i)
     /\ got' = <<>>

Spec == Init /\ [][Next]_vars

-----------------------------------------------------------------------------
(* The blocks that inode i has: itrunc() is done with those before `from`.  *)
Done(i) == IF Truncating(i) THEN call[lock[i]].tot ELSE 0

Places(i) ==
  {<<"block", bn>> : bn \in {k \in Done(i) .. NDIRECT + NINDIRECT - 1 : Address(i, k) # 0}}
    \cup (IF addrs[i][NDIRECT] # 0 THEN {<<"indirect", NDIRECT>>} ELSE {})

At(i, place) == IF place[1] = "block" THEN Address(i, place[2]) ELSE addrs[i][NDIRECT]

AllPlaces == UNION {{<<i, x>> : x \in Places(i)} : i \in Inodes}

(* A block that the bitmap has as used is in one place, once, and one that  *)
(* is in a place is used, with balloc() and itrunc() of several files under *)
(* way (fs.c); a file that is not locked has all its blocks; and the blocks *)
(* that a piece of filewrite() logs (file.c), with the bitmap and the inode *)
(* itself, are no more than an operation may write.                         *)
BlocksInv ==
  /\ {At(x[1], x[2]) : x \in AllPlaces} = used
  /\ \A x, y \in AllPlaces : At(x[1], x[2]) = At(y[1], y[2]) => x = y
  /\ \A i \in Inodes : lock[i] = Nothing => \A k \in 0 .. size[i] - 1 : Address(i, k \div BSIZE) # 0
  /\ \A p \in Procs : Cardinality(call[p].logged \cup {INODE}) <= MAXOPBLOCKS
  /\ panicked => used = Numbers

(* An inode that is locked still has its old text for the others.           *)
Abstract == INSTANCE TextFiles WITH
  text <- [i \in Inodes |-> IF lock[i] = Nothing THEN Text(i) ELSE before[i]]

(* Whatever pieces and blocks a write() goes in, it and read() work on a    *)
(* sequence of bytes, and the offset that two processes share never lets    *)
(* one overwrite the other (writei, file.c).                                *)
ImplementsTextFiles == Abstract!Spec
=============================================================================
