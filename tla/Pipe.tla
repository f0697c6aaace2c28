-------------------------------- MODULE Pipe --------------------------------
(***************************************************************************)
(* A pipe of xv6 (pipe.c) that several processes write to and several read *)
(* from: the ring of PIPESIZE bytes and its two counters, the sleeps on    *)
(* &p->nread and &p->nwrite, the closing of the two ends, and the kills    *)
(* that end a sleep.                                                       *)
(*                                                                         *)
(* A step is what is done under p->lock without letting go of it; only the *)
(* look at killed and the sleep() after it are two steps, since kill()     *)
(* takes ptable.lock and not p->lock.  The pipe starts out allocated, each *)
(* process with the one end it uses.                                       *)
(***************************************************************************)
EXTENDS Integers, Sequences, SequencesExt, FiniteSets

CONSTANTS
  Reader, Writer,   \* the processes that hold the read end, the write end
  Killable,         \* the processes that may be killed
  PIPESIZE,
  Word,             \* the values of a uint, scaled down
  NoByte,           \* what kalloc() left in the page
  MaxCall,          \* bytes that one call asks for, at most
  MaxBytes          \* bytes that each writer offers over its life, at most

ASSUME ConstantsAssumption ==
  /\ Reader # {} /\ Writer # {} /\ Reader \cap Writer = {} /\ Killable \subseteq Reader \cup Writer
  /\ PIPESIZE \in Nat \ {0}
  /\ Word \in Nat /\ Word > PIPESIZE /\ Word % PIPESIZE = 0
  /\ MaxCall \in Nat /\ MaxBytes \in [Writer -> Nat]

Proc == Reader \cup Writer
Byte == UNION {{w} \X (1..MaxBytes[w]) : w \in Writer}   \* who wrote it, his how manieth

VARIABLES
  page,                   \* the page of the struct pipe is allocated
  data, nread, nwrite,    \* the ring
  readopen, writeopen,
  pc,                     \* where each process stands
  killed,
  left,                   \* what a write() has still to put into the ring
  want,                   \* how much a read() asks for
  offered,                \* how many bytes a writer has offered so far
  sent, received,         \* the bytes that went in, that came out (history)
  sawEof                  \* the readers to whom read() returned 0 (history)

ring == <<data, nread, nwrite>>
ends == <<page, readopen, writeopen>>
history == <<sent, received, sawEof>>
vars == <<ring, ends, pc, killed, left, want, offered, history>>

(* Control points.                                                          *)
(*   "user"     outside of the pipe                                         *)
(*   "call"     in read() or write(), about to acquire p->lock              *)
(*   "falling"  about to sleep(), with p->lock                              *)
(*   "asleep"   in sleep(), without it                                      *)
(*   "closed"   it has closed its end, maybe in exit()                      *)
PC == {"user", "call", "falling", "asleep", "closed"}
Busy == {"call", "falling", "asleep"}

Init ==
  /\ page = TRUE /\ readopen = TRUE /\ writeopen = TRUE
  /\ data = [i \in 0..(PIPESIZE - 1) |-> NoByte]
  /\ nread = 0 /\ nwrite = 0
  /\ pc = [p \in Proc |-> "user"]
  /\ killed = [p \in Proc |-> FALSE]
  /\ left = [w \in Writer |-> <<>>]
  /\ want = [r \in Reader |-> 0]
  /\ offered = [w \in Writer |-> 0]
  /\ sent = <<>> /\ received = <<>> /\ sawEof = {}

\* p->lock is free: whoever else takes it lets go of it within a step.
LockFree == \A p \in Proc : pc[p] # "falling"

Full == nwrite = (nread + PIPESIZE) % Word
Empty == nread = nwrite
Used == (nwrite - nread) % Word

\* wakeup(&p->nread) wakes Reader, wakeup(&p->nwrite) wakes Writer; p goes to.
WakeupAndGoto(sleepers, p, to) ==
  pc' = [q \in Proc |-> IF q = p THEN to
                        ELSE IF q \in sleepers /\ pc[q] = "asleep" THEN "call" ELSE pc[q]]

Goto(p, to) == WakeupAndGoto({}, p, to)

-----------------------------------------------------------------------------
(* pipewrite() *)

WriteCall(w, n) ==
  /\ pc[w] = "user" /\ ~killed[w]
  /\ offered[w] + n <= MaxBytes[w]
  /\ left' = [left EXCEPT ![w] = [i \in 1..n |-> <<w, offered[w] + i>>]]
  /\ offered' = [offered EXCEPT ![w] = @ + n]
  /\ Goto(w, "call")
  /\ UNCHANGED <<ring, ends, killed, want, history>>

\* The first n bytes that w has left go into the ring.
Put(w, n) ==
  /\ data' = [i \in DOMAIN data |->
                IF (i - nwrite) % PIPESIZE < n THEN left[w][1 + ((i - nwrite) % PIPESIZE)] ELSE data[i]]
  /\ nwrite' = (nwrite + n) % Word
  /\ sent' = sent \o SubSeq(left[w], 1, n)

\* Mutant of Room: one byte more than there is.
RoomAndOne == PIPESIZE + 1 - Used

Room == PIPESIZE - Used

\* Everything is written: wakeup(&p->nread), return n.
WriteDone(w) ==
  /\ pc[w] = "call" /\ LockFree /\ Len(left[w]) <= Room
  /\ Put(w, Len(left[w]))
  /\ left' = [left EXCEPT ![w] = <<>>]
  /\ WakeupAndGoto(Reader, w, "user")
  /\ UNCHANGED <<nread, ends, killed, want, offered, received, sawEof>>

\* The ring is full before that: wakeup(&p->nread), and on to sleep().
WriteFull(w) ==
  /\ pc[w] = "call" /\ LockFree /\ Len(left[w]) > Room
  /\ readopen /\ ~killed[w]
  /\ Put(w, Room)
  /\ left' = [left EXCEPT ![w] = SubSeq(@, Room + 1, Len(@))]
  /\ WakeupAndGoto(Reader, w, "falling")
  /\ UNCHANGED <<nread, ends, killed, want, offered, received, sawEof>>

\* The ring is full and nobody reads any more, or the writer is killed: return
\* -1.  What has been put into the ring stays there, and no reader is woken.
WriteFails(w) ==
  /\ pc[w] = "call" /\ LockFree /\ Len(left[w]) > Room
  /\ ~readopen \/ killed[w]
  /\ Put(w, Room)
  /\ left' = [left EXCEPT ![w] = <<>>]
  /\ Goto(w, "user")
  /\ UNCHANGED <<nread, ends, killed, want, offered, received, sawEof>>

-----------------------------------------------------------------------------
(* piperead() *)

ReadCall(r, n) ==
  /\ pc[r] = "user" /\ ~killed[r]
  /\ want' = [want EXCEPT ![r] = n]
  /\ Goto(r, "call")
  /\ UNCHANGED <<ring, ends, killed, left, offered, history>>

\* The condition of the wait.
NothingYet == Empty /\ writeopen

ReadKilled(r) ==
  /\ pc[r] = "call" /\ LockFree /\ NothingYet /\ killed[r]
  /\ want' = [want EXCEPT ![r] = 0]
  /\ Goto(r, "user")
  /\ UNCHANGED <<ring, ends, killed, left, offered, history>>

ReadEmpty(r) ==
  /\ pc[r] = "call" /\ LockFree /\ NothingYet /\ ~killed[r]
  /\ Goto(r, "falling")
  /\ UNCHANGED <<ring, ends, killed, left, want, offered, history>>

\* What is there, up to what is asked for: wakeup(&p->nwrite), return i.
ReadTake(r) ==
  LET n == IF want[r] <= Used THEN want[r] ELSE Used
  IN  /\ pc[r] = "call" /\ LockFree /\ ~NothingYet
      /\ received' = received \o [i \in 1..n |-> data[(nread + i - 1) % PIPESIZE]]
      /\ nread' = (nread + n) % Word
      /\ sawEof' = IF n = 0 THEN sawEof \cup {r} ELSE sawEof
      /\ want' = [want EXCEPT ![r] = 0]
      /\ WakeupAndGoto(Writer, r, "user")
      /\ UNCHANGED <<data, nwrite, ends, killed, left, offered, sent>>

-----------------------------------------------------------------------------
(* sleep(), pipeclose(), kill() *)

Sleep(p) ==
  /\ pc[p] = "falling"
  /\ Goto(p, "asleep")
  /\ UNCHANGED <<ring, ends, killed, left, want, offered, history>>

\* Others hold the end that p holds.
EndShared(p) ==
  \E q \in (IF p \in Writer THEN Writer ELSE Reader) \ {p} : pc[q] # "closed"

\* fileclose() by one of several holders.
CloseShared(p) ==
  /\ pc[p] = "user" /\ EndShared(p)
  /\ Goto(p, "closed")
  /\ UNCHANGED <<ring, ends, killed, left, want, offered, history>>

\* Mutant of Pipeclose: the page goes with the read end.
PipecloseAtRead(p) ==
  /\ pc[p] = "user" /\ ~EndShared(p) /\ LockFree
  /\ readopen' = (readopen /\ p \in Writer)
  /\ writeopen' = (writeopen /\ p \in Reader)
  /\ page' = readopen'
  /\ WakeupAndGoto(IF p \in Writer THEN Reader ELSE Writer, p, "closed")
  /\ UNCHANGED <<ring, killed, left, want, offered, history>>

\* Mutant of Pipeclose: the other end is not told.
PipecloseSilent(p) ==
  /\ pc[p] = "user" /\ ~EndShared(p) /\ LockFree
  /\ readopen' = (readopen /\ p \in Writer)
  /\ writeopen' = (writeopen /\ p \in Reader)
  /\ page' = (readopen' \/ writeopen')
  /\ Goto(p, "closed")
  /\ UNCHANGED <<ring, killed, left, want, offered, history>>

\* fileclose() by the last holder: pipeclose() tells the other end, and frees
\* the page if that is closed.
Pipeclose(p) ==
  /\ pc[p] = "user" /\ ~EndShared(p) /\ LockFree
  /\ readopen' = (readopen /\ p \in Writer)
  /\ writeopen' = (writeopen /\ p \in Reader)
  /\ page' = (readopen' \/ writeopen')
  /\ WakeupAndGoto(IF p \in Writer THEN Reader ELSE Writer, p, "closed")
  /\ UNCHANGED <<ring, killed, left, want, offered, history>>

Close(p) == CloseShared(p) \/ Pipeclose(p)

\* kill() marks p and wakes it if it is asleep, but not if it is about to be.
Kill(p) ==
  /\ p \in Killable /\ ~killed[p]
  /\ killed' = [killed EXCEPT ![p] = TRUE]
  /\ Goto(p, IF pc[p] = "asleep" THEN "call" ELSE pc[p])
  /\ UNCHANGED <<ring, ends, left, want, offered, history>>

-----------------------------------------------------------------------------

pipewrite(w) == WriteDone(w) \/ WriteFull(w) \/ WriteFails(w)
piperead(r) == ReadKilled(r) \/ ReadEmpty(r) \/ ReadTake(r)

\* A process goes on with its call.
Proceed(p) == Sleep(p) \/ (p \in Writer /\ pipewrite(p)) \/ (p \in Reader /\ piperead(p))

Next ==
  \/ \E p \in Proc : Proceed(p) \/ Close(p) \/ Kill(p)
  \/ \E n \in 1..MaxCall : \/ \E w \in Writer : WriteCall(w, n)
                           \/ \E r \in Reader : ReadCall(r, n)

Spec == Init /\ [][Next]_vars

\* The scheduler runs every process that is not asleep, a spinlock is got in
\* the end, and a killed process exits when it is back from the call.  Nothing
\* obliges a process to read, to write or to close.
Fairness == \A p \in Proc : WF_vars(Proceed(p)) /\ WF_vars(killed[p] /\ Close(p))

LiveSpec == Spec /\ Fairness

-----------------------------------------------------------------------------
(* Properties *)

TypeOK ==
  /\ page \in BOOLEAN /\ readopen \in BOOLEAN /\ writeopen \in BOOLEAN
  /\ data \in [0..(PIPESIZE - 1) -> Byte \cup {NoByte}]
  /\ nread \in 0..(Word - 1) /\ nwrite \in 0..(Word - 1)
  /\ pc \in [Proc -> PC]
  /\ killed \in [Proc -> BOOLEAN]
  /\ left \in [Writer -> Seq(Byte)]
  /\ want \in [Reader -> 0..MaxCall]
  /\ \A w \in Writer : offered[w] \in 0..MaxBytes[w]
  /\ sent \in Seq(Byte) /\ received \in Seq(Byte)
  /\ sawEof \subseteq Reader

\* No reader sleeps beside bytes it could take and no writer beside room it
\* could use or an end that is closed, so that the two ends never wait for each
\* other.  One exception: a killed writer that has filled the pipe leaves
\* without a word to the readers.
SleepersHaveReason ==
  LockFree =>
    /\ \A r \in Reader : pc[r] = "asleep" =>
         writeopen /\ (Empty \/ \E w \in Writer : killed[w])
    /\ \A w \in Writer : pc[w] = "asleep" => Full /\ readopen

\* read() returns 0 only when nothing more will come: every writer has closed
\* its end and every byte written has been read.
EofIsEnd == sawEof # {} => ~writeopen /\ received = sent

\* The page of the pipe is freed when the last process closes its end, not
\* before and not later, whichever end is the last.
PageLive == page <=> \E p \in Proc : pc[p] # "closed"

\* Sleepers, the end of the stream and the page of a pipe (pipe.c).
PipeInv == TypeOK /\ SleepersHaveReason /\ EofIsEnd /\ PageLive

\* The ring and its counters, which wrap, carry every byte once and in order.
Stream == INSTANCE ByteStream WITH Capacity <- PIPESIZE

ImplementsByteStream == Stream!Spec

\* A call ends if the other end is closed, or if its process is killed before
\* it tests that: a kill that comes between the test and the sleep is lost.
Orphaned(p) == IF p \in Writer THEN ~readopen ELSE ~writeopen
CallsEnd ==
  \A p \in Proc :
    /\ pc[p] \in Busy /\ Orphaned(p) ~> pc[p] \notin Busy
    /\ pc[p] = "call" /\ killed[p] ~> pc[p] \notin Busy
=============================================================================
