----------------------------- MODULE AddrSpace ------------------------------
(***************************************************************************)
(* The size of an address space and the pages that are mapped in it        *)
(* (growproc, fork, clone, wait and join of proc.c, allocuvm, deallocuvm,  *)
(* copyuvm and freevm of vm.c).  Every thread has a size of its own, sz,   *)
(* for the space that it shares.                                           *)
(*                                                                         *)
(* growproc(), wait() and join() run under ptable.lock: a step each.       *)
(* fork() copies page by page and clone() copies the size without a lock.  *)
(* A slot is an entry of the process table, as in Threads, which has the   *)
(* sleeping and waking that is left out here.                              *)
(***************************************************************************)
EXTENDS Integers, FiniteSets

CONSTANTS
  Slots, InitSlot,
  Spaces,      \* page directories
  NoSpace, NoSlot,
  Frames,      \* pages of memory for users, at the start
  PGSIZE, KERNBASE,
  InitSz,      \* the size of the first process
  Amounts      \* the arguments of sbrk()

Pages == {i \in 0 .. KERNBASE : i * PGSIZE < KERNBASE}

ASSUME ConstantsAssumption ==
  /\ InitSlot \in Slots /\ NoSlot \notin Slots
  /\ Spaces # {} /\ IsFiniteSet(Spaces) /\ NoSpace \notin Spaces
  /\ PGSIZE \in Nat \ {0} /\ KERNBASE \in Nat /\ InitSz \in 1 .. KERNBASE - 1
  /\ Frames \in Nat /\ Frames * PGSIZE >= InitSz /\ Amounts \subseteq Int

VARIABLES
  state, space, sz, parent,   \* of each slot, as in struct proc
  mapped,      \* the pages mapped in each space
  inUse,       \* the page directories that are allocated
  free,        \* how many pages kalloc() has left
  call,        \* the fork() or clone() of each slot that is under way
  panicked,
  disturbed    \* (history) sbrk() met a fork() or clone() in its space, or freed all of it

tables == <<state, space, sz, parent>>
memory == <<mapped, inUse, free>>
vars == <<tables, memory, call, panicked, disturbed>>

NoCall == [name |-> "none", child |-> NoSlot, to |-> NoSpace, size |-> 0, page |-> 0]

(* The pages that begin at a or after and before b: those from PGROUNDUP(a). *)
PagesIn(a, b) == {i \in Pages : a <= i * PGSIZE /\ i * PGSIZE < b}

Init ==
  /\ state = [p \in Slots |-> IF p = InitSlot THEN "live" ELSE "unused"]
  /\ \E s \in Spaces :
       /\ space = [p \in Slots |-> IF p = InitSlot THEN s ELSE NoSpace]
       /\ inUse = {s}
       /\ mapped = [t \in Spaces |-> IF t = s THEN PagesIn(0, InitSz) ELSE {}]
  /\ sz = [p \in Slots |-> IF p = InitSlot THEN InitSz ELSE 0]
  /\ parent = [p \in Slots |-> NoSlot]
  /\ free = Frames - Cardinality(PagesIn(0, InitSz))
  /\ call = [p \in Slots |-> NoCall]
  /\ panicked = FALSE
  /\ disturbed = FALSE

User(p) == state[p] = "live" /\ call[p] = NoCall
SameSpace(p) == {q \in Slots : q # p /\ space[q] = space[p]}

-----------------------------------------------------------------------------
(* sbrk(n): the size is set in every slot of the space that is in use.      *)

OnlyCaller(p) == {p}                                  \* mutant
Sharers(p) == {p} \cup {q \in SameSpace(p) : state[q] # "unused"}

SetSize(p, size) == sz' = [q \in Slots |-> IF q \in Sharers(p) THEN size ELSE sz[q]]

Disturbs(p) == \E q \in SameSpace(p) : state[q] = "live" /\ call[q] # NoCall

(* allocuvm(): pages in ascending order, a frame for each before the test   *)
(* that it is not mapped; without a frame it unmaps the range again.        *)
Grow(p, n) ==
  LET old == sz[p]
      new == old + n
      wanted == PagesIn(old, new)
      there == wanted \cap mapped[space[p]]
      remap == \E i \in there : Cardinality({j \in wanted : j < i}) < free
  IN /\ n > 0
     /\ IF new >= KERNBASE THEN UNCHANGED <<sz, mapped, free, panicked>>
        ELSE IF remap THEN /\ panicked' = TRUE
                           /\ UNCHANGED <<sz, mapped, free>>
        ELSE IF Cardinality(wanted) > free
             THEN /\ mapped' = [mapped EXCEPT ![space[p]] = @ \ wanted]
                  /\ free' = free + Cardinality(there)
                  /\ UNCHANGED <<sz, panicked>>
             ELSE /\ mapped' = [mapped EXCEPT ![space[p]] = @ \cup wanted]
                  /\ free' = free - Cardinality(wanted)
                  /\ SetSize(p, new)
                  /\ UNCHANGED panicked
     /\ disturbed' = (disturbed \/ Disturbs(p))

(* deallocuvm(): a size below 0 is a large one, and nothing happens; the    *)
(* size 0 is taken for an error, after the pages are gone.                  *)
Shrink(p, n) ==
  LET new == sz[p] + n
      gone == PagesIn(new, sz[p]) \cap mapped[space[p]]
  IN /\ n < 0
     /\ IF new < 0 THEN SetSize(p, sz[p]) /\ UNCHANGED <<mapped, free>>
        ELSE /\ mapped' = [mapped EXCEPT ![space[p]] = @ \ gone]
             /\ free' = free + Cardinality(gone)
             /\ IF new = 0 THEN UNCHANGED sz ELSE SetSize(p, new)
     /\ disturbed' = (disturbed \/ Disturbs(p) \/ new = 0)
     /\ UNCHANGED panicked

sys_sbrk(p, n) ==
  /\ User(p)
  /\ Grow(p, n) \/ Shrink(p, n)
  /\ UNCHANGED <<state, space, parent, inUse, call>>

-----------------------------------------------------------------------------
(* fork()                                                                   *)

(* allocproc() and setupkvm(); copyuvm() has its argument.                  *)
ForkBegin(p, q) ==
  /\ User(p) /\ state[q] = "unused"
  /\ \E s \in Spaces \ inUse :
       /\ inUse' = inUse \cup {s}
       /\ call' = [call EXCEPT ![p] = [name |-> "fork", child |-> q, to |-> s, size |-> sz[p], page |-> 0]]
  /\ state' = [state EXCEPT ![q] = "embryo"]
  /\ UNCHANGED <<space, sz, parent, mapped, free, panicked, disturbed>>

(* There is no page for a page directory.                                   *)
ForkFails(p, q) ==
  /\ User(p) /\ state[q] = "unused" /\ Spaces \ inUse = {}
  /\ space' = [space EXCEPT ![q] = NoSpace]
  /\ UNCHANGED <<state, sz, parent, memory, call, panicked, disturbed>>

Copying(p) == call[p].name = "fork" /\ call[p].page * PGSIZE < call[p].size

(* A page that is not there is a panic, before a frame is asked for.        *)
CopyPage(p) ==
  /\ Copying(p)
  /\ IF call[p].page \in mapped[space[p]]
     THEN /\ free > 0
          /\ mapped' = [mapped EXCEPT ![call[p].to] = @ \cup {call[p].page}]
          /\ free' = free - 1
          /\ call' = [call EXCEPT ![p].page = @ + 1]
          /\ UNCHANGED panicked
     ELSE panicked' = TRUE /\ UNCHANGED <<mapped, free, call>>     \* "page not present"
  /\ UNCHANGED <<tables, inUse, disturbed>>

(* kalloc() fails: freevm() of the copy.                                    *)
CopyFails(p) ==
  /\ Copying(p) /\ free = 0 /\ call[p].page \in mapped[space[p]]
  /\ mapped' = [mapped EXCEPT ![call[p].to] = {}]
  /\ free' = free + Cardinality(mapped[call[p].to])
  /\ inUse' = inUse \ {call[p].to}
  /\ state' = [state EXCEPT ![call[p].child] = "unused"]
  /\ space' = [space EXCEPT ![call[p].child] = NoSpace]
  /\ call' = [call EXCEPT ![p] = NoCall]
  /\ UNCHANGED <<sz, parent, panicked, disturbed>>

(* The size is read again after the copy.                                   *)
ForkEnd(p) ==
  /\ call[p].name = "fork" /\ ~Copying(p)
  /\ LET q == call[p].child
     IN /\ state' = [state EXCEPT ![q] = "live"]
        /\ space' = [space EXCEPT ![q] = call[p].to]
        /\ sz' = [sz EXCEPT ![q] = sz[p]]
        /\ parent' = [parent EXCEPT ![q] = p]
  /\ call' = [call EXCEPT ![p] = NoCall]
  /\ UNCHANGED <<memory, panicked, disturbed>>

-----------------------------------------------------------------------------
(* clone(): the size is loaded by the first step and stored by the second.  *)

CloneBegin(p, q) ==
  /\ User(p) /\ state[q] = "unused"
  /\ state' = [state EXCEPT ![q] = "embryo"]
  /\ space' = [space EXCEPT ![q] = space[p]]
  /\ call' = [call EXCEPT ![p] = [name |-> "clone", child |-> q, to |-> NoSpace, size |-> sz[p], page |-> 0]]
  /\ UNCHANGED <<sz, parent, memory, panicked, disturbed>>

CloneEnd(p) ==
  /\ call[p].name = "clone"
  /\ LET q == call[p].child
     IN /\ state' = [state EXCEPT ![q] = "live"]
        /\ sz' = [sz EXCEPT ![q] = call[p].size]
        /\ parent' = [parent EXCEPT ![q] = p]
  /\ call' = [call EXCEPT ![p] = NoCall]
  /\ UNCHANGED <<space, memory, panicked, disturbed>>

-----------------------------------------------------------------------------
(* exit(), wait() and join()                                                *)

exit(p) ==
  /\ User(p) /\ p # InitSlot
  /\ state' = [state EXCEPT ![p] = "zombie"]
  /\ parent' = [q \in Slots |-> IF parent[q] = p THEN InitSlot ELSE parent[q]]
  /\ UNCHANGED <<space, sz, memory, call, panicked, disturbed>>

Reaped(q) == /\ state' = [state EXCEPT ![q] = "unused"]
             /\ parent' = [parent EXCEPT ![q] = NoSlot]
             /\ UNCHANGED <<sz, call, panicked, disturbed>>

(* join() leaves the page directory in the slot.                            *)
join(p, q) ==
  /\ User(p) /\ parent[q] = p /\ space[q] = space[p] /\ state[q] = "zombie"
  /\ Reaped(q)
  /\ UNCHANGED <<space, memory>>

(* wait() frees the space that no other slot has, of whatever state; the    *)
(* slot then keeps its page directory.                                      *)
NotShared(q) == FALSE                                 \* mutant
Shared(q) == SameSpace(q) # {}

wait(p, q) ==
  /\ User(p) /\ parent[q] = p /\ space[q] # space[p] /\ state[q] = "zombie"
  /\ Reaped(q)
  /\ IF Shared(q) THEN space' = [space EXCEPT ![q] = NoSpace] /\ UNCHANGED memory
     ELSE /\ mapped' = [mapped EXCEPT ![space[q]] = {}]
          /\ free' = free + Cardinality(mapped[space[q]])
          /\ inUse' = inUse \ {space[q]}
          /\ UNCHANGED space

Next == ~panicked /\ \E p \in Slots :
  \/ \E n \in Amounts : sys_sbrk(p, n)
  \/ CopyPage(p) \/ CopyFails(p) \/ ForkEnd(p) \/ CloneEnd(p) \/ exit(p)
  \/ \E q \in Slots : ForkBegin(p, q) \/ ForkFails(p, q) \/ CloneBegin(p, q) \/ join(p, q) \/ wait(p, q)

Spec == Init /\ [][Next]_vars

-----------------------------------------------------------------------------
(* Properties.                                                              *)

TypeOK ==
  /\ state \in [Slots -> {"unused", "embryo", "live", "zombie"}]
  /\ space \in [Slots -> Spaces \cup {NoSpace}]
  /\ sz \in [Slots -> 0 .. KERNBASE - 1]
  /\ parent \in [Slots -> Slots \cup {NoSlot}]
  /\ mapped \in [Spaces -> SUBSET Pages] /\ inUse \subseteq Spaces
  /\ free \in 0 .. Frames
  /\ call \in [Slots -> [name : {"none", "fork", "clone"}, child : Slots \cup {NoSlot},
                         to : Spaces \cup {NoSpace}, size : 0 .. KERNBASE, page : 0 .. KERNBASE]]
  /\ panicked \in BOOLEAN /\ disturbed \in BOOLEAN

FramesAccounted ==
  /\ free + Cardinality({x \in Spaces \X Pages : x[2] \in mapped[x[1]]}) = Frames
  /\ \A s \in Spaces \ inUse : mapped[s] = {}

SizesAgree == \A p \in Slots :
  state[p] = "live" => space[p] \in inUse /\ mapped[space[p]] = PagesIn(0, sz[p])

(* No frame is lost or mapped twice (kalloc() and kfree() of vm.c).         *)
MemoryInv == TypeOK /\ FramesAccounted

(* As long as no sbrk() has come between a fork() or clone() of the same    *)
(* space, every thread knows the size of its space to the page, and neither *)
(* mappages() (vm.c) nor copyuvm() panics.                                  *)
SizesKnown == ~disturbed => SizesAgree /\ ~panicked

(* Why SizesKnown holds: what a call under way has counted on.              *)
CallsSound == \A p \in Slots : call[p] # NoCall =>
  /\ state[p] = "live" /\ call[p].child \in Slots /\ state[call[p].child] = "embryo"
  /\ call[p].name \in {"fork", "clone"}
  /\ \A r \in Slots \ {p} : call[r] # NoCall => call[r].child # call[p].child
  /\ call[p].name = "clone" => space[call[p].child] = space[p]
  /\ ~disturbed => call[p].size = sz[p]

CopiesApart == \A p \in Slots : call[p].name = "fork" =>
  /\ call[p].to \in inUse
  /\ \A r \in Slots : state[r] \in {"live", "zombie"} => space[r] # call[p].to
  /\ \A r \in Slots \ {p} : call[r].name = "fork" => call[r].to # call[p].to
  /\ mapped[call[p].to] = {i \in Pages : i < call[p].page}
  /\ \A i \in Pages : i < call[p].page => i * PGSIZE < call[p].size

SpacesSound ==
  /\ \A p \in Slots : state[p] \in {"live", "zombie"} => space[p] \in inUse
  /\ \A s \in Spaces \ inUse : mapped[s] = {}

SizeInv == CallsSound /\ CopiesApart /\ SpacesSound /\ SizesKnown

(* A page of a space in which threads live comes or goes only by a sbrk()   *)
(* of one of them that changes its size: wait() and fork(), one that fails  *)
(* included, leave it alone (growproc, wait, fork of proc.c).               *)
PagesKept == [][\A p \in Slots :
  /\ state[p] = "live" /\ state'[p] = "live"
  /\ ~disturbed' /\ mapped'[space[p]] # mapped[space[p]]
  => \E q \in Slots : /\ space[q] = space[p] /\ state[q] = "live"
                      /\ sz'[q] # sz[q]]_vars
=============================================================================
