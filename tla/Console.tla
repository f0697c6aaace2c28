------------------------------- MODULE Console ------------------------------
(***************************************************************************)
(* The console (console.c): what is typed, in a ring that the interrupt    *)
(* of the keyboard fills, and read() of it.  cons.lock is held through a   *)
(* character of the interrupt and through a piece of consoleread() up to   *)
(* the sleep or the return: each is one step.  kill() takes another lock.  *)
(***************************************************************************)
EXTENDS Naturals, Sequences, FiniteSetsExt, SequencesExt

CONSTANTS
  Readers, Chars, NL, EOF,
  INPUT_BUF,   \* the size of the ring, a divisor of Word
  Word,        \* the counters are modulo Word (2^32)
  Counts       \* the lengths of the read()s

VARIABLES
  buf, r, w, e,     \* struct input
  pc,               \* of each reader: "user", "read", "falling" asleep, "asleep"
  asked,            \* target, 0 outside of consoleread()
  got,              \* what has been stored at dst
  killed

ASSUME ConsoleAssumption ==
  /\ INPUT_BUF \in Nat \ {0} /\ Word \in Nat \ {0} /\ INPUT_BUF < Word
  /\ (Word % INPUT_BUF) = 0 /\ Counts \subseteq Nat \ {0}

input == <<buf, r, w, e>>
reader == <<pc, asked, got, killed>>
consoleVars == <<input, reader>>

ConsoleInit ==
  /\ buf = [k \in 0 .. INPUT_BUF - 1 |-> NL] /\ r = 0 /\ w = 0 /\ e = 0
  /\ pc = [p \in Readers |-> "user"]
  /\ asked = [p \in Readers |-> 0] /\ got = [p \in Readers |-> <<>>]
  /\ killed = [p \in Readers |-> FALSE]

Minus(x, y) == (x + Word - y) % Word
Before(x) == buf[Minus(x, 1) % INPUT_BUF]

(* What lies in the ring from counter x up to counter y.                    *)
Between(x, y) == [k \in 1 .. Minus(y, x) |-> buf[(x + k - 1) % INPUT_BUF]]

(* cons.lock is held by a reader until sleep() has ptable.lock.             *)
LockFree == \A p \in Readers : pc[p] # "falling"

-----------------------------------------------------------------------------
(* consoleintr(), one character (`\r' is NL; others change nothing here).   *)

WakeNobody == UNCHANGED pc                            \* mutant
Wakeup == pc' = [p \in Readers |-> IF pc[p] = "asleep" THEN "read" ELSE pc[p]]

Typed(c) ==
  /\ LockFree /\ Minus(e, r) < INPUT_BUF
  /\ buf' = [buf EXCEPT ![e % INPUT_BUF] = c]
  /\ e' = (e + 1) % Word
  /\ IF c \in {NL, EOF} \/ e' = (r + INPUT_BUF) % Word
     THEN w' = e' /\ Wakeup
     ELSE UNCHANGED <<w, pc>>
  /\ UNCHANGED <<r, asked, got, killed>>

Backspace ==
  /\ LockFree /\ e # w
  /\ e' = Minus(e, 1)
  /\ UNCHANGED <<buf, r, w, reader>>

(* Back to the place behind the last NL.                                    *)
KillLine ==
  /\ LockFree /\ e # w
  /\ LET back == {k \in 0 .. Minus(e, w) : k = Minus(e, w) \/ Before(Minus(e, k)) = NL}
     IN e' = Minus(e, Min(back))
  /\ UNCHANGED <<buf, r, w, reader>>

-----------------------------------------------------------------------------
(* consoleread()                                                            *)

read(p, n) ==
  /\ pc[p] = "user" /\ ~killed[p]
  /\ pc' = [pc EXCEPT ![p] = "read"]
  /\ asked' = [asked EXCEPT ![p] = n]
  /\ got' = [got EXCEPT ![p] = <<>>]
  /\ UNCHANGED <<input, killed>>

Goto(p, place) == pc' = [pc EXCEPT ![p] = place]
Returns(p) == Goto(p, "user") /\ asked' = [asked EXCEPT ![p] = 0]

(* Where the loop over what is there ends: at the end of a line, at EOF, or *)
(* when dst is full.                                                        *)
Ends(p, there) == {k \in DOMAIN there : there[k] \in {NL, EOF} \/ k = asked[p] - Len(got[p])}

Taken(p, data) == got' = [got EXCEPT ![p] = @ \o data]
Advance(k) == r' = (r + k) % Word

(* mutant: the EOF is used up by those who have read something              *)
EofAlways(k, first) == Advance(k)
EofKept(k, first) == Advance(IF first THEN k ELSE k - 1)

ReadEnds(p) ==
  LET there == Between(r, w)
      k == Min(Ends(p, there))
      data == SubSeq(there, 1, IF there[k] = EOF THEN k - 1 ELSE k)
  IN /\ LockFree /\ pc[p] = "read" /\ Ends(p, there) # {}
     /\ Taken(p, data)
     /\ IF there[k] = EOF THEN EofKept(k, got'[p] = <<>>) ELSE Advance(k)
     /\ Returns(p)
     /\ UNCHANGED <<buf, w, e, killed>>

(* The ring is empty before the read is done.                               *)
ReadWaits(p) ==
  LET there == Between(r, w)
  IN /\ LockFree /\ pc[p] = "read" /\ Ends(p, there) = {}
     /\ Taken(p, there) /\ Advance(Len(there))
     /\ IF killed[p] THEN Returns(p) ELSE Goto(p, "falling") /\ UNCHANGED asked
     /\ UNCHANGED <<buf, w, e, killed>>

sleep(p) == pc[p] = "falling" /\ Goto(p, "asleep") /\ UNCHANGED <<input, asked, got, killed>>

kill(p) ==
  /\ ~killed[p]
  /\ killed' = [killed EXCEPT ![p] = TRUE]
  /\ Goto(p, IF pc[p] = "asleep" THEN "read" ELSE pc[p])
  /\ UNCHANGED <<input, asked, got>>

(* A killed process is gone (exit() in trap()), another one reads.          *)
Replaced(p) ==
  /\ killed[p] /\ pc[p] = "user"
  /\ killed' = [killed EXCEPT ![p] = FALSE]
  /\ UNCHANGED <<input, pc, asked, got>>

ConsoleNext ==
  \/ \E c \in Chars \cup {NL, EOF} : Typed(c)
  \/ Backspace \/ KillLine
  \/ \E p \in Readers : \/ \E n \in Counts : read(p, n)
                        \/ ReadEnds(p) \/ ReadWaits(p) \/ sleep(p) \/ kill(p) \/ Replaced(p)

ConsoleSpec == ConsoleInit /\ [][ConsoleNext]_consoleVars

-----------------------------------------------------------------------------
(* Nobody sleeps beside a line that is ready, although a reader may put the *)
(* EOF back; a ring that is full has been handed to the readers, or nothing *)
(* could ever be typed or read again; and the line that is being typed has  *)
(* no end in it, so that erasing it stops where it began (console.c).       *)
ConsoleInv ==
  /\ \A p \in Readers : pc[p] \in {"falling", "asleep"} => r = w
  /\ Minus(e, r) <= INPUT_BUF /\ Minus(w, r) <= Minus(e, r)
  /\ Minus(e, r) = INPUT_BUF => w = e
  /\ ToSet(Between(w, e)) \cap {NL, EOF} = {}

Abstract == INSTANCE Terminal WITH
  line <- Between(w, e), ready <- Between(r, w), Room <- INPUT_BUF

(* What is typed comes out as lines, in order and once, and read() stops at *)
(* the end of a line and at ^D (consoleintr and consoleread of console.c).  *)
ImplementsTerminal == Abstract!Spec
=============================================================================
