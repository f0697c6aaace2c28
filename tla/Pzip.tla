--------------------------------- MODULE Pzip ---------------------------------
(***************************************************************************)
(* The parallel zip (pzip.c): a producer cuts the files into chunks and    *)
(* puts them into a ring; when it is done, consumers take them, compress   *)
(* each one alone and store the result at the place of its chunk; main()   *)
(* joins them and prints the results, merging the runs that meet at the    *)
(* edge of two chunks.                                                     *)
(*                                                                         *)
(* A run is a pair <<count, character>>.  mmap() and the file names are    *)
(* left out: a file is the sequence of its characters.                     *)
(***************************************************************************)
EXTENDS Integers, Sequences, SequencesExt

CONSTANTS
  Inputs,      \* the command lines: sequences of files
  NPROCS,      \* get_nprocs()
  chunk_size,
  q_size,      \* the slots of the ring
  NoResult,    \* an element of result[] that nobody has written
  Word         \* 2^32, the width of int: taken is kept modulo Word

ConstantsAssumption ==
  /\ NPROCS \in Nat \ {0} /\ chunk_size \in Nat \ {0} /\ q_size \in Nat \ {0}
  /\ Word \in Nat \ {0}

VARIABLES
  files,           \* the files on the command line
  main,            \* where main() stands
  chunk_of_files,  \* the chunks of each file that the producer has opened
  chunkno,         \* the chunks of the last of them that are in the ring
  queue, nextIn, nextOut, taken,
  result,          \* the compressed chunks
  started,         \* the consumers that have been created
  pc,              \* where each consumer stands
  held,            \* input: the chunk it took last
  out,             \* what has been printed
  overran          \* history: get() was called on an empty ring

ring == <<queue, nextIn, nextOut, taken>>
vars == <<files, main, chunk_of_files, chunkno, ring, result, started, pc, held, out, overran>>

Slots == 0..(q_size - 1)
Thread == 1..NPROCS

\* queue[] is static, so that a slot never used reads as the chunk of size 0
\* at the start of the first file.
ZeroChunk == [file |-> 0, id |-> 0, chars |-> <<>>]

Init ==
  /\ files \in Inputs
  /\ main = "produce"
  /\ chunk_of_files = <<>>
  /\ chunkno = 0
  /\ queue = [s \in Slots |-> ZeroChunk]
  /\ nextIn = 0 /\ nextOut = 0 /\ taken = 0
  /\ result = <<>>
  /\ started = 0
  /\ pc = [t \in Thread |-> "get"]
  /\ held = [t \in Thread |-> ZeroChunk]
  /\ out = <<>>
  /\ overran = FALSE

-----------------------------------------------------------------------------
(* The producer *)

Sum(counts) == FoldLeft(+, 0, counts)
N_chunks == Sum(chunk_of_files)

\* my_ceil(size / chunk_size)
ChunkCount(f) == (Len(f) + chunk_size - 1) \div chunk_size

\* Mutant of LastChunkSize: it is 0 for a multiple of chunk_size.
LastChunkSizeMod(f) == Len(f) % chunk_size

LastChunkSize(f) ==
  IF ChunkCount(f) > Len(f) \div chunk_size THEN Len(f) % chunk_size ELSE chunk_size

\* The chunk j of file f, both counted from 0.
ChunkOf(f, j) ==
  LET size == IF j = ChunkCount(f) - 1 THEN LastChunkSize(f) ELSE chunk_size
  IN  SubSeq(f, j * chunk_size + 1, j * chunk_size + size)

\* The next file is opened and mapped, which fails for an empty one.
OpenFile ==
  LET i == Len(chunk_of_files)
      f == files[i + 1]
  IN  /\ main = "produce"
      /\ i > 0 => chunkno = chunk_of_files[i]
      /\ i < Len(files)
      /\ main' = IF f = <<>> THEN "exit" ELSE main
      /\ chunk_of_files' = Append(chunk_of_files, ChunkCount(f))
      /\ chunkno' = 0
      /\ UNCHANGED <<files, ring, result, started, pc, held, out, overran>>

\* put(): nothing keeps the producer from going round the ring.
PutChunk ==
  LET i == Len(chunk_of_files)
  IN  /\ main = "produce"
      /\ i > 0 /\ chunkno < chunk_of_files[i]
      /\ queue' = [queue EXCEPT ![nextIn] =
                     [file |-> i - 1, id |-> chunkno, chars |-> ChunkOf(files[i], chunkno)]]
      /\ nextIn' = (nextIn + 1) % q_size
      /\ taken' = (taken + 1) % Word
      /\ chunkno' = chunkno + 1
      /\ UNCHANGED <<files, main, chunk_of_files, nextOut, result, started, pc, held, out, overran>>

\* pthread_join(producer)
JoinProducer ==
  /\ main = "produce"
  /\ Len(chunk_of_files) = Len(files) /\ chunkno = chunk_of_files[Len(files)]
  /\ main' = "consume"
  /\ result' = [c \in 1..N_chunks |-> NoResult]
  /\ UNCHANGED <<files, chunk_of_files, chunkno, ring, started, pc, held, out, overran>>

-----------------------------------------------------------------------------
(* The consumers *)

N_threads == IF NPROCS <= N_chunks THEN NPROCS ELSE N_chunks

CreateConsumer ==
  /\ main = "consume"
  /\ started < N_threads
  /\ started' = started + 1
  /\ UNCHANGED <<files, main, chunk_of_files, chunkno, ring, result, pc, held, out, overran>>

\* Mutant of Get: the chunk taken is not counted.
GetUncounted(t) ==
  /\ t <= started /\ pc[t] = "get"
  /\ held' = [held EXCEPT ![t] = queue[nextOut]]
  /\ nextOut' = (nextOut + 1) % q_size
  /\ overran' = (overran \/ taken = 0)
  /\ pc' = [pc EXCEPT ![t] = "encode"]
  /\ UNCHANGED <<files, main, chunk_of_files, chunkno, queue, nextIn, taken, result, started, out>>

\* Mutant of Get: get() does not move on.
GetStuck(t) ==
  /\ t <= started /\ pc[t] = "get"
  /\ held' = [held EXCEPT ![t] = queue[nextOut]]
  /\ taken' = (taken - 1) % Word
  /\ overran' = (overran \/ taken = 0)
  /\ pc' = [pc EXCEPT ![t] = "encode"]
  /\ UNCHANGED <<files, main, chunk_of_files, chunkno, queue, nextIn, nextOut, result, started, out>>

\* get(), under q_lock: it does not look whether there is anything to take.
Get(t) ==
  /\ t <= started /\ pc[t] = "get"
  /\ held' = [held EXCEPT ![t] = queue[nextOut]]
  /\ nextOut' = (nextOut + 1) % q_size
  /\ taken' = (taken - 1) % Word
  /\ overran' = (overran \/ taken = 0)
  /\ pc' = [pc EXCEPT ![t] = "encode"]
  /\ UNCHANGED <<files, main, chunk_of_files, chunkno, queue, nextIn, result, started, out>>

\* Appends one character to a sequence of runs.
AddChar(runs, char) ==
  IF runs # <<>> /\ Last(runs)[2] = char
  THEN [runs EXCEPT ![Len(runs)][1] = @ + 1]
  ELSE Append(runs, <<1, char>>)

rle_encoding(chars) == FoldLeft(AddChar, <<>>, chars)

\* The place of a chunk in result[], whose first element is number 1 here.
ChunkId(chunk) == 1 + Sum(SubSeq(chunk_of_files, 1, chunk.file)) + chunk.id

\* result[c_id] = rle_encoding(input): each consumer writes its own element.
Encode(t) ==
  /\ pc[t] = "encode"
  /\ result' = [result EXCEPT ![ChunkId(held[t])] = rle_encoding(held[t].chars)]
  /\ pc' = [pc EXCEPT ![t] = "test"]
  /\ UNCHANGED <<files, main, chunk_of_files, chunkno, ring, started, held, out, overran>>

\* while(taken != 0), read without q_lock.
TestTaken(t) ==
  /\ pc[t] = "test"
  /\ pc' = [pc EXCEPT ![t] = IF taken # 0 THEN "get" ELSE "return"]
  /\ UNCHANGED <<files, main, chunk_of_files, chunkno, ring, result, started, held, out, overran>>

consume(t) == Get(t) \/ Encode(t) \/ TestTaken(t)

-----------------------------------------------------------------------------
(* print_queue() *)

\* The last run of one chunk goes into the first of the next if the character
\* is the same.
MergeRuns(printed, runs) ==
  IF printed # <<>> /\ runs # <<>> /\ Last(printed)[2] = Head(runs)[2]
  THEN Front(printed) \o << <<Last(printed)[1] + Head(runs)[1], Head(runs)[2]>> >> \o Tail(runs)
  ELSE printed \o runs

\* All consumers have returned.  An element of result[] that is still what
\* malloc() gave has no characters to look at.
PrintQueue ==
  /\ main = "consume"
  /\ started = N_threads /\ \A t \in 1..started : pc[t] = "return"
  /\ IF NoResult \in Range(result)
     THEN main' = "crash" /\ UNCHANGED out
     ELSE main' = "done" /\ out' = FoldLeft(MergeRuns, <<>>, result)
  /\ UNCHANGED <<files, chunk_of_files, chunkno, ring, result, started, pc, held, overran>>

-----------------------------------------------------------------------------

Main == OpenFile \/ PutChunk \/ JoinProducer \/ CreateConsumer \/ PrintQueue

Next == Main \/ \E t \in Thread : consume(t)

Spec == Init /\ [][Next]_vars

\* The operating system lets every thread run.
LiveSpec == Spec /\ WF_vars(Main) /\ \A t \in Thread : WF_vars(consume(t))

-----------------------------------------------------------------------------
(* Properties *)

Chunk(c) == [file : Nat, id : Nat, chars : Seq(c)]

Ended == {"exit", "crash", "done"}

Char == UNION {Range(f) : f \in Range(files)}

Runs == Seq((Nat \ {0}) \X Char)

TypeOK ==
  /\ files \in Inputs
  /\ main \in {"produce", "consume"} \cup Ended
  /\ Len(chunk_of_files) <= Len(files)
  /\ nextIn \in Slots /\ nextOut \in Slots /\ taken \in 0..(Word - 1)
  /\ \A s \in Slots : queue[s] \in Chunk(Char)
  /\ \A c \in DOMAIN result : result[c] \in Runs \cup {NoResult}
  /\ started \in 0..NPROCS
  /\ pc \in [Thread -> {"get", "encode", "test", "return"}]
  /\ \A t \in Thread : held[t] \in Chunk(Char)
  /\ out \in Runs
  /\ overran \in BOOLEAN

\* The slots that get() has still to come to, as long as it has not gone past
\* nextIn.
Waiting == {(nextOut + k) % q_size : k \in 0..(taken - 1)}

\* The chunk that belongs at place c of the result.
AtPlace(chunk, c) == ChunkId(chunk) = c

\* As long as no consumer has taken from the empty ring, every chunk is waiting
\* in one slot, or in the hands of one consumer, or has its result in place:
\* none is lost and none is taken twice, whichever consumers are slow.
ChunksAccounted ==
  main = "consume" /\ ~overran =>
    \A c \in DOMAIN result :
      LET waiting == {s \in Waiting : AtPlace(queue[s], c)}
          takers == {t \in Thread : pc[t] = "encode" /\ AtPlace(held[t], c)}
      IN  \/ \E s \in Slots : waiting = {s} /\ takers = {} /\ result[c] = NoResult
          \/ \E t \in Thread : takers = {t} /\ waiting = {} /\ result[c] = NoResult
          \/ waiting = {} /\ takers = {} /\ result[c] # NoResult

\* The ring of put() and get() loses nothing (pzip.c).
RingInv == TypeOK /\ ChunksAccounted

\* The reference: runs that spell the files, none of which could be longer.
Expand(runs) == FlattenSeq([i \in DOMAIN runs |-> [k \in 1..runs[i][1] |-> runs[i][2]]])

IsZipOf(runs, text) ==
  /\ Expand(runs) = text
  /\ \A i \in 1..(Len(runs) - 1) : runs[i][2] # runs[i + 1][2]

\* The program prints the zip of its files, in their order.
ZipsCorrectly ==
  main \in {"done", "crash"} => main = "done" /\ IsZipOf(out, FlattenSeq(files))

\* It does so whenever no consumer has taken from the empty ring.
ZipsCorrectlyInStep == ~overran => ZipsCorrectly

\* The program comes to an end.  It need not (README.md, section 5).
Terminates == <>(main \in Ended)

\* It does so, with all chunks encoded by whichever consumers were fast, unless
\* some consumer takes from the empty ring.
TerminatesInStep == <>(main \in Ended \/ overran)
=============================================================================
