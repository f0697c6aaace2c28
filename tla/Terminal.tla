------------------------------ MODULE Terminal ------------------------------
(***************************************************************************)
(* What the console promises to those who type and to those who read: a    *)
(* line can be edited until it is ended, read() gives the ended lines in   *)
(* the order of typing, no character twice, and no read goes past the end  *)
(* of a line or past ^D.                                                   *)
(***************************************************************************)
EXTENDS Naturals, Sequences, SequencesExt

CONSTANTS
  Readers, Chars, NL, EOF,
  Room,        \* characters that are typed and not yet read
  Counts       \* how many characters a read() asks for

VARIABLES
  line,        \* what is being typed
  ready,       \* what has been ended and not read
  asked,       \* how many characters each reader asked for, 0 when it is not in read()
  got,         \* what it has been given of them
  killed

Init ==
  /\ line = <<>> /\ ready = <<>>
  /\ asked = [p \in Readers |-> 0] /\ got = [p \in Readers |-> <<>>]
  /\ killed = [p \in Readers |-> FALSE]

(* A line ends with NL or EOF, or because there is no more room.            *)
Type(c) ==
  /\ Len(ready) + Len(line) < Room
  /\ IF c \in {NL, EOF} \/ Len(ready) + Len(line) + 1 = Room
     THEN ready' = ready \o Append(line, c) /\ line' = <<>>
     ELSE line' = Append(line, c) /\ UNCHANGED ready
  /\ UNCHANGED <<asked, got, killed>>

Edit == /\ line # <<>> /\ (line' = <<>> \/ line' = Front(line))
        /\ UNCHANGED <<ready, asked, got, killed>>

Read(p) ==
  /\ asked[p] = 0 /\ ~killed[p]
  /\ \E n \in Counts : asked' = [asked EXCEPT ![p] = n]
  /\ got' = [got EXCEPT ![p] = <<>>]
  /\ UNCHANGED <<line, ready, killed>>

Returns(p) == asked' = [asked EXCEPT ![p] = 0]

(* Characters of one line go to the reader; it returns when it has all that *)
(* it asked for, or the end of the line, or an EOF comes next.              *)
Deliver(p) == \E n \in 1 .. Len(ready) :
  LET some == SubSeq(ready, 1, n)
      rest == SubSeq(ready, n + 1, Len(ready))
  IN /\ asked[p] > 0 /\ Len(got[p]) + n <= asked[p]
     /\ EOF \notin ToSet(some) /\ NL \notin ToSet(Front(some))
     /\ got' = [got EXCEPT ![p] = @ \o some]
     /\ ready' = rest
     /\ \/ /\ Last(some) = NL \/ Len(got'[p]) = asked[p] \/ (rest # <<>> /\ rest[1] = EOF)
           /\ Returns(p)
        \/ /\ rest = <<>> /\ Last(some) # NL /\ Len(got'[p]) < asked[p]
           /\ UNCHANGED asked \/ (killed[p] /\ Returns(p))
     /\ UNCHANGED <<line, killed>>

(* An EOF is the read() that returns nothing, and is used up by it; whoever *)
(* has read something before leaves it to the next.                         *)
End(p) ==
  /\ asked[p] > 0 /\ ready # <<>> /\ Head(ready) = EOF
  /\ ready' = IF got[p] = <<>> THEN Tail(ready) ELSE ready
  /\ Returns(p)
  /\ UNCHANGED <<line, got, killed>>

(* Only who is killed returns without either.                               *)
GiveUp(p) == /\ asked[p] > 0 /\ ready = <<>> /\ killed[p] /\ Returns(p)
             /\ UNCHANGED <<line, ready, got, killed>>

(* Killed, or replaced by another one.                                      *)
Kill(p) == /\ killed' = [killed EXCEPT ![p] = ~@] /\ (killed[p] => asked[p] = 0)
           /\ UNCHANGED <<line, ready, asked, got>>

Next == \/ \E c \in Chars \cup {NL, EOF} : Type(c)
        \/ Edit
        \/ \E p \in Readers : Read(p) \/ Deliver(p) \/ End(p) \/ GiveUp(p) \/ Kill(p)

Spec == Init /\ [][Next]_<<line, ready, asked, got, killed>>
=============================================================================
