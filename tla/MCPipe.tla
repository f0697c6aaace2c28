-------------------------------- MODULE MCPipe --------------------------------
(* Model checking of Pipe.  The ring holds two bytes, a word four values: one  *)
(* writer can fill the ring in a single call, and the counters wrap.           *)
EXTENDS Pipe

CONSTANT w1

BytesOf == [w \in Writer |-> IF w = w1 THEN 3 ELSE 1]
=============================================================================
