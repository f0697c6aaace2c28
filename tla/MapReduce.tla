------------------------------ MODULE MapReduce ------------------------------
(***************************************************************************)
(* The MapReduce library (mapreduce.c): mapper threads take files from a   *)
(* common counter and emit pairs into the hash tables of the partitions;   *)
(* when main() has joined them, reducer threads take the partitions, sort  *)
(* the keys of each and hand the values of every key to the user's         *)
(* Reduce() one at a time.                                                 *)
(*                                                                         *)
(* A table is a function from places to chains of buckets, a bucket a      *)
(* record of a key and its values.  Memory is never short.                 *)
(***************************************************************************)
EXTENDS Integers, Sequences, SequencesExt, FiniteSets

CONSTANTS
  num_mappers, num_reducers,  \* the threads that MR_Run() is asked for
  Emits,        \* for each file, the pairs <<key, value>> that Map() emits
  partitioner,  \* the partition of each key
  hash,         \* the place of each key in the table of its partition
  NoOne         \* the holder of a mutex that is free

Key == DOMAIN hash

ConstantsAssumption ==
  /\ num_mappers \in Nat \ {0} /\ num_reducers \in Nat \ {0}
  /\ Key \subseteq Int
  /\ partitioner \in [Key -> 0..(num_reducers - 1)]
  /\ NoOne \notin Int

VARIABLES
  main,                             \* where MR_Run() stands
  mappers, reducers,                \* the threads it has created
  current_file, current_partition,
  pc,                               \* where each mapper stands
  todo,                             \* what its Map() has still to emit
  seen,                             \* list: the chain that ht_put() has found
  size,                             \* bucketsize as the mapper has read it
  table, bucketsize,                \* ht->list and ht->bucketsize
  locks, keylock,                   \* the holders of ht->locks, ht->keylock
  rpc,                              \* where each reducer stands
  part, list,                       \* its partition, and the keys left in it
  reducer_arr,                      \* the key being reduced in each partition
  values,                           \* the values its Reduce() has been given
  reduced                           \* the calls of Reduce() that have returned

mapVars == <<mappers, current_file, pc, todo, seen, size>>
tableVars == <<table, bucketsize, locks, keylock>>
reduceVars == <<reducers, current_partition, rpc, part, list, reducer_arr, values, reduced>>
vars == <<main, mapVars, tableVars, reduceVars>>

file_number == Len(Emits)
Partition == 0..(num_reducers - 1)
Place == Range(hash)
Mapper == 1..(num_mappers + 1)   \* one more than asked for: see CreateMapper
Reducer == 1..num_reducers

Init ==
  /\ main = "map"
  /\ mappers = 0 /\ reducers = 0
  /\ current_file = 1 /\ current_partition = 0
  /\ pc = [t \in Mapper |-> "file"]
  /\ todo = [t \in Mapper |-> <<>>]
  /\ seen = [t \in Mapper |-> <<>>]
  /\ size = [t \in Mapper |-> 0]
  /\ table = [p \in Partition |-> [h \in Place |-> <<>>]]
  /\ bucketsize = [p \in Partition |-> 0]
  /\ locks = [p \in Partition |-> [h \in Place |-> NoOne]]
  /\ keylock = [p \in Partition |-> NoOne]
  /\ rpc = [t \in Reducer |-> "partition"]
  /\ part = [t \in Reducer |-> 0]
  /\ list = [t \in Reducer |-> <<>>]
  /\ reducer_arr = [p \in Partition |-> NoOne]
  /\ values = [t \in Reducer |-> <<>>]
  /\ reduced = [p \in Partition |-> <<>>]

-----------------------------------------------------------------------------
(* The mappers *)

Goto(t, to) == pc' = [pc EXCEPT ![t] = to]

\* mapper_thread(), under file_lock: the next file, or the end.
NextFile(t) ==
  /\ t <= mappers /\ pc[t] = "file"
  /\ IF current_file > file_number
     THEN Goto(t, "return") /\ UNCHANGED <<current_file, todo>>
     ELSE /\ todo' = [todo EXCEPT ![t] = Emits[current_file]]
          /\ current_file' = current_file + 1
          /\ Goto(t, "emit")
  /\ UNCHANGED <<main, mappers, seen, size, tableVars, reduceVars>>

MapReturns(t) ==
  /\ pc[t] = "emit" /\ todo[t] = <<>>
  /\ Goto(t, "file")
  /\ UNCHANGED <<main, mappers, current_file, todo, seen, size, tableVars, reduceVars>>

\* The pair that MR_Emit() is called with, its partition and its place there.
KeyOf(t) == Head(todo[t])[1]
ValueOf(t) == Head(todo[t])[2]
PartOf(t) == partitioner[KeyOf(t)]
PlaceOf(t) == hash[KeyOf(t)]

\* Mutant of PutLock: the place is not locked.
PutUnlocked(t) ==
  /\ pc[t] = "emit" /\ todo[t] # <<>>
  /\ seen' = [seen EXCEPT ![t] = table[PartOf(t)][PlaceOf(t)]]
  /\ Goto(t, "put")
  /\ UNCHANGED <<main, mappers, current_file, todo, size, tableVars, reduceVars>>

\* ht_put() locks the place and reads its chain.
PutLock(t) ==
  /\ pc[t] = "emit" /\ todo[t] # <<>>
  /\ locks[PartOf(t)][PlaceOf(t)] = NoOne
  /\ locks' = [locks EXCEPT ![PartOf(t)][PlaceOf(t)] = t]
  /\ seen' = [seen EXCEPT ![t] = table[PartOf(t)][PlaceOf(t)]]
  /\ Goto(t, "put")
  /\ UNCHANGED <<main, mappers, current_file, todo, size, table, bucketsize, keylock, reduceVars>>

KeysIn(chain) == {chain[i].key : i \in DOMAIN chain}

Emitted(t) ==
  /\ todo' = [todo EXCEPT ![t] = Tail(todo[t])]
  /\ Goto(t, "emit")

Unlock(t) == locks' = [locks EXCEPT ![PartOf(t)][PlaceOf(t)] = NoOne]

\* Mutant of PutValue: the early return forgets the lock.
PutValueLocked(t) ==
  /\ pc[t] = "put" /\ KeyOf(t) \in KeysIn(seen[t])
  /\ table' = [table EXCEPT ![PartOf(t)][PlaceOf(t)] =
                 [i \in DOMAIN @ |-> IF @[i].key # KeyOf(t) THEN @[i]
                                     ELSE [@[i] EXCEPT !.values = <<ValueOf(t)>> \o @]]]
  /\ Emitted(t)
  /\ UNCHANGED <<main, mappers, current_file, seen, size, bucketsize, locks, keylock, reduceVars>>

\* The key is there: its list of values grows at the front.
PutValue(t) ==
  /\ pc[t] = "put" /\ KeyOf(t) \in KeysIn(seen[t])
  /\ table' = [table EXCEPT ![PartOf(t)][PlaceOf(t)] =
                 [i \in DOMAIN @ |-> IF @[i].key # KeyOf(t) THEN @[i]
                                     ELSE [@[i] EXCEPT !.values = <<ValueOf(t)>> \o @]]]
  /\ Unlock(t)
  /\ Emitted(t)
  /\ UNCHANGED <<main, mappers, current_file, seen, size, bucketsize, keylock, reduceVars>>

\* A new key.  ht->bucketsize++, under keylock: the read, then the write.
CountKey(t) ==
  /\ pc[t] = "put" /\ KeyOf(t) \notin KeysIn(seen[t])
  /\ keylock[PartOf(t)] = NoOne
  /\ keylock' = [keylock EXCEPT ![PartOf(t)] = t]
  /\ size' = [size EXCEPT ![t] = bucketsize[PartOf(t)]]
  /\ Goto(t, "key")
  /\ UNCHANGED <<main, mappers, current_file, todo, seen, table, bucketsize, locks, reduceVars>>

\* The new bucket goes in front of the chain that ht_put() has walked.
PutKey(t) ==
  /\ pc[t] = "key"
  /\ bucketsize' = [bucketsize EXCEPT ![PartOf(t)] = size[t] + 1]
  /\ keylock' = [keylock EXCEPT ![PartOf(t)] = NoOne]
  /\ table' = [table EXCEPT ![PartOf(t)][PlaceOf(t)] =
                 <<[key |-> KeyOf(t), values |-> <<ValueOf(t)>>]>> \o seen[t]]
  /\ Unlock(t)
  /\ Emitted(t)
  /\ UNCHANGED <<main, mappers, current_file, seen, size, reduceVars>>

ht_put(t) == PutLock(t) \/ PutValue(t) \/ CountKey(t) \/ PutKey(t)

mapper_thread(t) == NextFile(t) \/ MapReturns(t) \/ ht_put(t)

-----------------------------------------------------------------------------
(* The reducers *)

\* All buckets of partition p, of every place.
Buckets(p) == UNION {Range(table[p][h]) : h \in Place}

ReducerGoto(t, to) == rpc' = [rpc EXCEPT ![t] = to]

\* reduce_thread(), under file_lock: the next partition, or the end; then the
\* keys of the partition, sorted.
NextPartition(t) ==
  LET p == current_partition
  IN  /\ t <= reducers /\ rpc[t] = "partition"
      /\ IF p >= num_reducers
         THEN ReducerGoto(t, "return") /\ UNCHANGED <<current_partition, part, list>>
         ELSE /\ current_partition' = p + 1
              /\ part' = [part EXCEPT ![t] = p]
              /\ list' = [list EXCEPT ![t] = SetToSortSeq({b.key : b \in Buckets(p)}, <)]
              /\ ReducerGoto(t, "key")
      /\ UNCHANGED <<main, mapVars, tableVars, reducers, reducer_arr, values, reduced>>

PartitionDone(t) ==
  /\ rpc[t] = "key" /\ list[t] = <<>>
  /\ ReducerGoto(t, "partition")
  /\ UNCHANGED <<main, mapVars, tableVars, reducers, current_partition, part, list, reducer_arr,
                 values, reduced>>

\* Reduce() is called with the next key.
CallReduce(t) ==
  /\ rpc[t] = "key" /\ list[t] # <<>>
  /\ reducer_arr' = [reducer_arr EXCEPT ![part[t]] = Head(list[t])]
  /\ values' = [values EXCEPT ![t] = <<>>]
  /\ ReducerGoto(t, "reduce")
  /\ UNCHANGED <<main, mapVars, tableVars, reducers, current_partition, part, list, reduced>>

\* get_next(), which Reduce() calls until it returns NULL: the bucket's cursor
\* moves down its list of values.  Here the values delivered leave the list.
GetNext(t) ==
  LET p == part[t]
      h == hash[reducer_arr[p]]
      chain == table[p][h]
      b == CHOOSE i \in DOMAIN chain : chain[i].key = reducer_arr[p]
  IN  /\ rpc[t] = "reduce"
      /\ IF chain[b].values # <<>>
         THEN /\ values' = [values EXCEPT ![t] = Append(@, Head(chain[b].values))]
              /\ table' = [table EXCEPT ![p][h][b].values = Tail(@)]
              /\ UNCHANGED <<rpc, list, reduced>>
         ELSE /\ reduced' = [reduced EXCEPT ![p] = Append(@, <<Head(list[t]), values[t]>>)]
              /\ list' = [list EXCEPT ![t] = Tail(@)]
              /\ ReducerGoto(t, "key")
              /\ UNCHANGED <<values, table>>
      /\ UNCHANGED <<main, mapVars, bucketsize, locks, keylock, reducers, current_partition, part,
                     reducer_arr>>

reduce_thread(t) == NextPartition(t) \/ PartitionDone(t) \/ CallReduce(t) \/ GetNext(t)

-----------------------------------------------------------------------------
(* MR_Run() *)

\* The condition of both loops over the mappers, with i = mappers: true once
\* more than asked for if there are as many files as mappers.
MoreMappers == mappers < num_mappers \/ mappers = file_number

CreateMapper ==
  /\ main = "map" /\ MoreMappers
  /\ mappers' = mappers + 1
  /\ UNCHANGED <<main, current_file, pc, todo, seen, size, tableVars, reduceVars>>

\* Mutant of JoinMappers: the first mapper alone is waited for.
JoinFirstMapper ==
  /\ main = "map" /\ ~MoreMappers
  /\ pc[1] = "return"
  /\ main' = "reduce"
  /\ UNCHANGED <<mapVars, tableVars, reduceVars>>

JoinMappers ==
  /\ main = "map" /\ ~MoreMappers
  /\ \A t \in 1..mappers : pc[t] = "return"
  /\ main' = "reduce"
  /\ UNCHANGED <<mapVars, tableVars, reduceVars>>

CreateReducer ==
  /\ main = "reduce" /\ reducers < num_reducers
  /\ reducers' = reducers + 1
  /\ UNCHANGED <<main, mapVars, tableVars, current_partition, rpc, part, list, reducer_arr,
                 values, reduced>>

\* The reducers are joined and the tables freed.
JoinReducers ==
  /\ main = "reduce" /\ reducers = num_reducers
  /\ \A t \in Reducer : rpc[t] = "return"
  /\ main' = "done"
  /\ UNCHANGED <<mapVars, tableVars, reduceVars>>

MR_Run == CreateMapper \/ JoinMappers \/ CreateReducer \/ JoinReducers

Next ==
  \/ MR_Run
  \/ \E t \in Mapper : mapper_thread(t)
  \/ \E t \in Reducer : reduce_thread(t)

Spec == Init /\ [][Next]_vars

\* The operating system lets every thread run, and a mutex that is released
\* again and again is got in the end; Map() and Reduce() return.
Fairness ==
  /\ WF_vars(MR_Run)
  /\ \A t \in Mapper : SF_vars(mapper_thread(t))
  /\ \A t \in Reducer : WF_vars(reduce_thread(t))

LiveSpec == Spec /\ Fairness

-----------------------------------------------------------------------------
(* Properties *)

Bucket == [key : Key, values : Seq(Int)]

TypeOK ==
  /\ main \in {"map", "reduce", "done"}
  /\ mappers \in 0..(num_mappers + 1) /\ reducers \in 0..num_reducers
  /\ current_file \in 1..(file_number + 1)
  /\ current_partition \in 0..num_reducers
  /\ pc \in [Mapper -> {"file", "emit", "put", "key", "return"}]
  /\ todo \in [Mapper -> Seq(Key \X Int)]
  /\ seen \in [Mapper -> Seq(Bucket)]
  /\ size \in [Mapper -> Nat]
  /\ table \in [Partition -> [Place -> Seq(Bucket)]]
  /\ bucketsize \in [Partition -> Nat]
  /\ locks \in [Partition -> [Place -> Mapper \cup {NoOne}]]
  /\ keylock \in [Partition -> Mapper \cup {NoOne}]
  /\ rpc \in [Reducer -> {"partition", "key", "reduce", "return"}]
  /\ part \in [Reducer -> Partition]
  /\ list \in [Reducer -> Seq(Key)]
  /\ reducer_arr \in [Partition -> Key \cup {NoOne}]
  /\ values \in [Reducer -> Seq(Int)]
  /\ reduced \in [Partition -> Seq(Key \X Seq(Int))]

\* Where each emitted pair comes from.
Origins == UNION {{f} \X DOMAIN Emits[f] : f \in DOMAIN Emits}
PairAt(o) == Emits[o[1]][o[2]]
KeysEmitted(p) == {k \in Key : partitioner[k] = p /\ \E o \in Origins : PairAt(o)[1] = k}

\* The places of v in the lists of values of key k.
Kept(k, v) ==
  LET chain == table[partitioner[k]][hash[k]]
  IN  UNION {{<<i, j>> : j \in {n \in DOMAIN chain[i].values : chain[i].values[n] = v}} :
               i \in {n \in DOMAIN chain : chain[n].key = k}}

\* The places of <<k, v>> in what the mappers and the files have still to give.
ToEmit(k, v) ==
  {o \in Origins : o[1] >= current_file /\ PairAt(o) = <<k, v>>}
    \cup UNION {{<<NoOne, t, i>> : i \in {n \in DOMAIN todo[t] : todo[t][n] = <<k, v>>}} : t \in Mapper}

\* While the mappers run no pair is lost or put twice: however their calls of
\* ht_put() interleave on one chain, what is in the tables and what is still to
\* be emitted makes up what the files give, and every key has one bucket.
NoPairLost ==
  main = "map" =>
    /\ \A o \in Origins :
         LET k == PairAt(o)[1]
             v == PairAt(o)[2]
         IN  Cardinality(Kept(k, v)) + Cardinality(ToEmit(k, v))
               = Cardinality({q \in Origins : PairAt(q) = <<k, v>>})
    /\ \A p \in Partition, h \in Place :
         Cardinality(KeysIn(table[p][h])) = Len(table[p][h])

\* The array of bucketsize pointers on the stack of reduce_thread() has room
\* for all keys of the partition, no more and no less: qsort() sorts that many.
ListFits ==
  main # "map" => \A p \in Partition :
    bucketsize[p] = Cardinality({b.key : b \in Buckets(p)})

\* The tables of ht_put() while the mappers fill them and after (mapreduce.c).
TableInv == TypeOK /\ NoPairLost /\ ListFits

\* The values vs are those emitted with key k, each as often.
AllValuesOf(k, vs) ==
  \A v \in {PairAt(o)[2] : o \in Origins} \cup Range(vs) :
    Cardinality({i \in DOMAIN vs : vs[i] = v}) = Cardinality({o \in Origins : PairAt(o) = <<k, v>>})

\* In the end Reduce() has been called once with each key that was emitted, in
\* the ascending order of the keys of its partition, and was given every value
\* emitted with that key exactly as often as it was emitted.
ReducesAll ==
  main = "done" => \A p \in Partition :
    /\ [i \in DOMAIN reduced[p] |-> reduced[p][i][1]] = SetToSortSeq(KeysEmitted(p), <)
    /\ \A i \in DOMAIN reduced[p] : AllValuesOf(reduced[p][i][1], reduced[p][i][2])

\* MR_Run() returns.
Finishes == <>(main = "done")
=============================================================================
