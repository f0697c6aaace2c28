------------------------------ MODULE ByteStream ------------------------------
(* What a pipe promises: a stream of bytes that come out in the order they    *)
(* went in, each once, of which at most Capacity are under way.               *)
EXTENDS Integers, Sequences, SequencesExt

CONSTANT Byte, Capacity

VARIABLES sent, received

Init == sent = <<>> /\ received = <<>>

\* Some bytes go in at the end.
Send ==
  /\ sent' \in Seq(Byte)
  /\ IsPrefix(sent, sent')
  /\ Len(sent') - Len(received) <= Capacity
  /\ UNCHANGED received

\* Some bytes come out at the front.
Receive ==
  /\ IsPrefix(received, received') /\ IsPrefix(received', sent)
  /\ UNCHANGED sent

Spec == Init /\ [][Send \/ Receive]_<<sent, received>>
=============================================================================
