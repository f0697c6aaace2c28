------------------------------ MODULE BlockStore ------------------------------
(***************************************************************************)
(* What the buffer cache promises (the interface at the head of bio.c):    *)
(* each block has one content, which only the process that has the block   *)
(* may change, and which gets to the disk without being changed.           *)
(***************************************************************************)
CONSTANTS Proc, Block, Value

VARIABLES
  contents,   \* what whoever reads a block finds
  stored,     \* what is on the disk
  has         \* the blocks that each process has between bread() and brelse()

vars == <<contents, stored, has>>

Init ==
  /\ stored \in [Block -> Value]
  /\ contents = stored
  /\ has = [p \in Proc |-> {}]

Get(p, blk) ==
  /\ \A q \in Proc : blk \notin has[q]
  /\ has' = [has EXCEPT ![p] = @ \cup {blk}]
  /\ UNCHANGED <<contents, stored>>

Write(p, blk, v) ==
  /\ blk \in has[p]
  /\ contents' = [contents EXCEPT ![blk] = v]
  /\ UNCHANGED <<stored, has>>

Store(blk) ==
  /\ stored' = [stored EXCEPT ![blk] = contents[blk]]
  /\ UNCHANGED <<contents, has>>

Put(p, blk) ==
  /\ blk \in has[p]
  /\ has' = [has EXCEPT ![p] = @ \ {blk}]
  /\ UNCHANGED <<contents, stored>>

Next == \E blk \in Block :
  \/ Store(blk)
  \/ \E p \in Proc : Get(p, blk) \/ Put(p, blk) \/ \E v \in Value : Write(p, blk, v)

Spec == Init /\ [][Next]_vars
=============================================================================
