---------------------------- MODULE MCBufferCache ----------------------------
(* Model checking of BufferCache: only block 1 changes, so that a buffer     *)
(* recycled from it or for it is told from the others.                       *)
EXTENDS BufferCache

OneChanges == [blk \in Block |-> IF blk = 1 THEN Value ELSE {0}]
=============================================================================
