-------------------------------- MODULE Heap --------------------------------
(***************************************************************************)
(* malloc() and free() of the user library (umalloc.c): a circular list of *)
(* free blocks in the order of their addresses, each with a header, and    *)
(* the stacks that thread_create() takes from it and thread_join() gives   *)
(* back (ulib.c).  Addresses and sizes are counted in headers.             *)
(***************************************************************************)
EXTENDS Integers, Sequences, SequencesExt, FiniteSetsExt

CONSTANTS
  Top,         \* sbrk() fails beyond this address
  MinCore,     \* 4096 in morecore()
  PageUnits,   \* PGSIZE
  Wants,       \* the sizes asked of malloc(), with the header
  None

Base == 0      \* the address of base, below all that sbrk() gives
Addr == 0 .. Top

ConstantsAssumption ==
  /\ Top \in Nat /\ MinCore \in Nat \ {0} /\ PageUnits \in Nat \ {0}
  /\ Wants \subseteq Nat \ {0, 1} /\ None \notin Nat

VARIABLES
  hdr,         \* what each address holds, read as a header: ptr, size
  freep,
  brk,         \* the address that sbrk() gives next
  live,        \* (history) the blocks that the program has: [addr, size]
  stacks,      \* those that are a thread's, with the address that it was given
  want,        \* what malloc() is looking for, or 0
  strayed      \* (history) an address was freed that malloc() had not given

vars == <<hdr, freep, brk, live, stacks, want, strayed>>

NoHeader == [ptr |-> 0, size |-> 0]

Init ==
  /\ hdr = [a \in Addr |-> NoHeader]
  /\ freep = None
  /\ brk = 1
  /\ live = {} /\ stacks = {}
  /\ want = 0
  /\ strayed = FALSE

-----------------------------------------------------------------------------
(* The list h from p, Top steps long: several times around.                 *)
From(h, p) ==
  LET steps[n \in 0 .. Top] == IF n = 0 THEN <<p>>
                               ELSE LET list == steps[n - 1] IN Append(list, h[Last(list)].ptr)
  IN steps[Top]

(* free(): bp belongs after the first p of the list that is before it.      *)
Before(h, p, bp) == \/ p < bp /\ bp < h[p].ptr
                    \/ p >= h[p].ptr /\ (bp > p \/ bp < h[p].ptr)

(* bp takes in the block after it, then the one before takes in bp.  Of a   *)
(* header that is now inside a block nothing is kept: nobody reads it.      *)
Join(h, a, b) == [h EXCEPT ![a] = [ptr |-> h[b].ptr, size |-> h[a].size + h[b].size], ![b] = NoHeader]

AfterOnly(h, p, bp) ==                                \* mutant: no merging downwards
  LET next == h[p].ptr
      linked == [h EXCEPT ![p].ptr = bp, ![bp].ptr = next]
  IN IF bp + h[bp].size = next THEN Join(linked, bp, next) ELSE linked
Inserted(h, p, bp) ==
  LET next == h[p].ptr
      linked == [h EXCEPT ![p].ptr = bp, ![bp].ptr = next]
      upper == IF bp + h[bp].size = next THEN Join(linked, bp, next) ELSE linked
  IN IF p + h[p].size = bp THEN Join(upper, p, bp) ELSE upper

Freed(h, bp) ==
  LET list == From(h, freep)
      p == list[Min({n \in DOMAIN list : Before(h, list[n], bp)})]
  IN hdr' = Inserted(h, p, bp) /\ freep' = p

free(block) ==
  /\ want = 0 /\ block \in live
  /\ Freed(hdr, block.addr)
  /\ live' = live \ {block}
  /\ UNCHANGED <<brk, want>>

-----------------------------------------------------------------------------
(* malloc(): the search begins behind freep.                                *)

malloc(n) ==
  /\ want = 0
  /\ want' = n
  /\ IF freep = None
     THEN /\ freep' = Base
          /\ hdr' = [hdr EXCEPT ![Base] = [ptr |-> Base, size |-> 0]]
     ELSE UNCHANGED <<freep, hdr>>
  /\ UNCHANGED <<brk, live, stacks, strayed>>

(* The places in list, once around, of the blocks that are large enough.    *)
Fits(list) == LET around == Min({n \in 2 .. Len(list) : list[n] = freep})
              IN {n \in 2 .. around : hdr[list[n]].size >= want}

(* thread_create() takes two pages and hands out the first address in them  *)
(* that is a multiple of a page, where the heap begins (at 1) with a page.  *)
StackSize == 2 * PageUnits + 1
Aligned(a) == 1 + ((a - 1 + PageUnits - 1) \div PageUnits) * PageUnits

(* The first fit, or its upper end.                                         *)
Found ==
  LET list == From(hdr, freep)
      fits == Fits(list)
      prevp == list[Min(fits) - 1]
      p == list[Min(fits)]
      rest == hdr[p].size - want
      block == [addr |-> p + rest, size |-> want]
  IN /\ want > 0 /\ fits # {}
     /\ hdr' = IF rest = 0 THEN [hdr EXCEPT ![prevp].ptr = hdr[p].ptr, ![p].ptr = 0]
               ELSE [hdr EXCEPT ![p].size = rest, ![p + rest].size = want]
     /\ freep' = prevp
     /\ live' = live \cup {block}
     /\ want' = 0
     /\ stacks' \in {stacks} \cup
          (IF want = StackSize THEN {stacks \cup {[block |-> block, given |-> Aligned(block.addr + 1)]}} ELSE {})
     /\ UNCHANGED <<brk, strayed>>

(* morecore(), or 0 where sbrk() fails; malloc() then looks again.          *)
More ==
  LET nu == IF want < MinCore THEN MinCore ELSE want
  IN /\ want > 0 /\ Fits(From(hdr, freep)) = {}
     /\ IF brk + nu > Top + 1 THEN want' = 0 /\ UNCHANGED <<hdr, freep, brk>>
        ELSE /\ Freed([hdr EXCEPT ![brk].size = nu], brk)
             /\ brk' = brk + nu
             /\ UNCHANGED want
     /\ UNCHANGED <<live, stacks, strayed>>

-----------------------------------------------------------------------------
(* thread_join() frees the address that was handed out.  Where that is not  *)
(* the one that malloc() gave, free() takes what is before it for a header: *)
(* nothing is said of what comes after.                                     *)
thread_join(s) ==
  /\ want = 0 /\ s \in stacks
  /\ stacks' = stacks \ {s}
  /\ IF s.given - 1 = s.block.addr
     THEN free(s.block) /\ UNCHANGED strayed
     ELSE strayed' = TRUE /\ UNCHANGED <<hdr, freep, live, brk, want>>

(* join() is -1 for a thread that has made none: what stack points to was   *)
(* never set, and is freed all the same.                                    *)
thread_join_nobody ==
  /\ want = 0
  /\ strayed' = TRUE
  /\ UNCHANGED <<hdr, freep, brk, live, stacks, want>>

FreeBlock == \E block \in live :
  /\ \A s \in stacks : s.block # block
  /\ free(block)
  /\ UNCHANGED <<stacks, strayed>>

Next == ~strayed /\
  \/ \E n \in Wants : malloc(n)
  \/ Found \/ More \/ FreeBlock
  \/ thread_join_nobody
  \/ \E s \in stacks : thread_join(s)

Spec == Init /\ [][Next]_vars

-----------------------------------------------------------------------------
Units(a, n) == a .. a + n - 1
Blocks(list) == {[addr |-> a, size |-> hdr[a].size] : a \in list \ {Base}}

(* The free blocks and those of the program are the whole of what sbrk()    *)
(* has given, none of it twice; the list comes back to base in the order of *)
(* addresses, and no two neighbours in it are left unmerged.                *)
ListSound(list) ==
  /\ Base \in list
  /\ \A a \in list : hdr[a].ptr > a \/ hdr[a].ptr = Base
  /\ \A b, c \in Blocks(list) : b.addr + b.size # c.addr
  /\ Blocks(list) \cap live = {}

Tiled(blocks) ==
  /\ UNION {Units(b.addr, b.size) : b \in blocks} = 1 .. brk - 1
  /\ \A b, c \in blocks : b # c => Units(b.addr, b.size) \cap Units(c.addr, c.size) = {}

(* Until an address is freed that malloc() did not give (umalloc.c).        *)
HeapInv == ~strayed =>
  /\ freep # None => LET list == ToSet(From(hdr, freep))
                     IN ListSound(list) /\ Tiled(Blocks(list) \cup live)
  /\ \A b \in live : hdr[b.addr].size = b.size
=============================================================================
