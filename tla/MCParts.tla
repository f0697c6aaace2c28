------------------------------- MODULE MCParts ------------------------------
(***************************************************************************)
(* Five parts that have nothing to do with each other, each on its own: a  *)
(* behaviour is one of the part that `which` names, the others stand still.*)
(***************************************************************************)
EXTENDS Blocks, TLC

CONSTANTS p1, p2, c1, c2

VARIABLES which,
  input, left, last, count, out,
  state, tickets, running, winner,
  main, mappers, reducers, current_file, current_partition, pc, todo, seen, bsize,
  table, bucketsize, locks, keylock, rpc, part, list, reducer_arr, values, reduced,
  files, mainZ, chunk_of_files, chunkno, queue, nextIn, nextOut, taken, result, started, pcZ, held, outZ, overran

zip == <<input, left, last, count, out>>
lottery == <<state, tickets, running, winner>>
mapreduce == <<main, mappers, reducers, current_file, current_partition, pc, todo, seen, bsize,
               table, bucketsize, locks, keylock, rpc, part, list, reducer_arr, values, reduced>>
pzip == <<files, mainZ, chunk_of_files, chunkno, queue, nextIn, nextOut, taken, result, started, pcZ, held, outZ, overran>>
partsVars == <<which, zip, lottery, vars, mapreduce, pzip>>

RunLength == INSTANCE RunLength WITH
  Chars <- {1, 2, 0, 255}, NUL <- 0, FF <- 255, MaxFiles <- 2, MaxLength <- 3

Lottery == INSTANCE Lottery WITH
  Cpus <- {c1, c2}, NPROC <- 3, Tickets <- {0, 1, 3}, Modulus <- 4, Nobody <- Nothing

SomeCounts == p1 :> {3} @@ p2 :> {1}
SomeLetters == p1 :> 1 @@ p2 :> 0

(* Three keys, of which 1 and 2 share a partition and 1 and 3 a place.  The *)
(* files share keys, repeat a pair, and one of them is empty.               *)
FourFiles == << << <<1, 7>>, <<2, 7>> >>, << <<2, 7>>, <<3, 8>> >>, <<>>, << <<1, 9>>, <<3, 8>>, <<1, 9>> >> >>

MapReduce == INSTANCE MapReduce WITH
  num_mappers <- 3, num_reducers <- 2, Emits <- FourFiles,
  partitioner <- <<0, 0, 1>>, hash <- <<0, 1, 0>>, NoOne <- Nothing, size <- bsize

(* Command lines of one or two files of two characters, smaller than        *)
(* chunk_size * q_size as pzip.c asks, so that their chunks fit into the    *)
(* ring.  Of two that differ by an exchange of the characters one is enough.*)
Texts == UNION {[1..n -> {1, 2}] : n \in 0..4}
SmallInputs == {<<f>> : f \in Texts} \cup {fs \in Texts \X Texts : Len(fs[1]) + Len(fs[2]) < 6}
OneOfTwo == {fs \in SmallInputs : fs[1] # <<>> => fs[1][1] = 1}

Pzip == INSTANCE Pzip WITH
  Inputs <- OneOfTwo, NPROCS <- 2, chunk_size <- 2, q_size <- 3, NoResult <- Nothing, Word <- 6,
  main <- mainZ, pc <- pcZ, out <- outZ

ASSUME PartsAssumption ==
  /\ RunLength!ConstantsAssumption /\ Lottery!ConstantsAssumption
  /\ MapReduce!ConstantsAssumption /\ Pzip!ConstantsAssumption

PartsInit ==
  /\ which \in {"zip", "lottery", "blocks", "mapreduce", "pzip"}
  /\ IF which = "zip" THEN RunLength!Init
     ELSE input = <<>> /\ left = <<>> /\ last = 0 /\ count = 1 /\ out = <<>>
  /\ Pzip!Init /\ (which # "pzip" => files = <<<<>>>>)
  /\ Lottery!Init /\ Init /\ MapReduce!Init

ZipStep == which = "zip" /\ RunLength!Next /\ UNCHANGED <<which, lottery, vars, mapreduce, pzip>>
LotteryStep == which = "lottery" /\ Lottery!Next /\ UNCHANGED <<which, zip, vars, mapreduce, pzip>>
BlocksStep == which = "blocks" /\ Next /\ UNCHANGED <<which, zip, lottery, mapreduce, pzip>>
MapReduceStep == which = "mapreduce" /\ MapReduce!Next /\ UNCHANGED <<which, zip, lottery, vars, pzip>>
PzipStep == which = "pzip" /\ Pzip!Next /\ UNCHANGED <<which, zip, lottery, vars, mapreduce>>

PartsNext == ZipStep \/ LotteryStep \/ BlocksStep \/ MapReduceStep \/ PzipStep

(* The fairness of Lottery, MapReduce and Pzip, where they are what runs.    *)
OthersThanLottery == <<which, zip, vars, mapreduce, pzip>>
OthersThanMapReduce == <<which, zip, lottery, vars, pzip>>
OthersThanPzip == <<which, zip, lottery, vars, mapreduce>>

yield(c) == which = "lottery" /\ Lottery!yield(c) /\ UNCHANGED OthersThanLottery
DrawsZero(c) == which = "lottery" /\ Lottery!Pass(c, 0) /\ UNCHANGED OthersThanLottery

MR_Run == which = "mapreduce" /\ MapReduce!MR_Run /\ UNCHANGED OthersThanMapReduce
mapper_thread(t) == which = "mapreduce" /\ MapReduce!mapper_thread(t) /\ UNCHANGED OthersThanMapReduce
reduce_thread(t) == which = "mapreduce" /\ MapReduce!reduce_thread(t) /\ UNCHANGED OthersThanMapReduce

Main == which = "pzip" /\ Pzip!Main /\ UNCHANGED OthersThanPzip
consume(t) == which = "pzip" /\ Pzip!consume(t) /\ UNCHANGED OthersThanPzip

mainVars == <<main, mappers, reducers>>
mapVars == <<pc, todo>>
reduceVars == <<rpc, values>>

Fairness ==
  /\ \A c \in {c1, c2} : WF_lottery(yield(c)) /\ SF_lottery(DrawsZero(c))
  /\ WF_mainVars(MR_Run)
  /\ \A t \in MapReduce!Mapper : SF_mapVars(mapper_thread(t))
  /\ \A t \in MapReduce!Reducer : WF_reduceVars(reduce_thread(t))
  /\ WF_pzip(Main) /\ \A t \in 1..2 : WF_pzip(consume(t))

PartsSpec == PartsInit /\ [][PartsNext]_partsVars /\ Fairness

(* my-unzip gives back what my-zip was given (my-zip.c, my-unzip.c).        *)
UnzipInvertsZip == which = "zip" => RunLength!UnzipInvertsZip

(* No RUNNABLE process is passed over for ever (scheduler, proc.c of 2b).   *)
EveryoneRuns == which = "lottery" => Lottery!EveryoneRuns

(* No pair is lost in the tables of ht_put(), and the array that a reducer  *)
(* makes for the keys has room for them (mapreduce.c).                      *)
TableInv == MapReduce!TableInv

(* Every value that is emitted reaches Reduce() once (mapreduce.c).         *)
ReducesAll == MapReduce!ReducesAll

(* MR_Run() returns (mapreduce.c).                                          *)
Finishes == which = "mapreduce" => MapReduce!Finishes

(* The ring of put() and get() loses nothing (pzip.c).                      *)
RingInv == which = "pzip" => Pzip!RingInv

(* pzip prints the zip of its files, unless a consumer has taken from the   *)
(* empty ring (pzip.c).                                                     *)
ZipsCorrectlyInStep == which = "pzip" => Pzip!ZipsCorrectlyInStep

(* pzip comes to an end, unless a consumer takes from the empty ring        *)
(* (pzip.c).                                                                *)
TerminatesInStep == which = "pzip" => Pzip!TerminatesInStep
=============================================================================
