----------------------------- MODULE RunLength ------------------------------
(***************************************************************************)
(* my-zip.c and my-unzip.c of project 1a: files are read one after another *)
(* into one stream of pairs, how often and which character.                *)
(***************************************************************************)
EXTENDS Integers, Sequences, SequencesExt

CONSTANTS
  Chars,
  NUL,         \* '\0': my-zip takes it for "no character yet"
  FF,          \* (char)255, which is also what getc() gives at the end
  MaxFiles, MaxLength

ConstantsAssumption ==
  NUL # FF /\ {NUL, FF} \subseteq Chars /\ MaxFiles \in Nat \ {0} /\ MaxLength \in Nat

Inputs == UNION {[1 .. n -> BoundedSeq(Chars, MaxLength)] : n \in 1 .. MaxFiles}

VARIABLES
  input,       \* the files that my-zip was given
  left,        \* those that it has not read
  last, count, \* the character of the run it is in, and how often
  out          \* what it has written

vars == <<input, left, last, count, out>>

Init ==
  /\ input \in Inputs
  /\ left = input
  /\ last = NUL
  /\ count = 1
  /\ out = <<>>

Pair(n, c) == [count |-> n, char |-> c]

(* The loop over a file: a run is written when another character follows.   *)
(* It ends at the first FF, at the end or not.                              *)
RunKept(st, c) ==                                     \* mutant: the count goes on
  IF st.done \/ c = FF THEN [st EXCEPT !.done = TRUE]
  ELSE IF c = st.last THEN [st EXCEPT !.count = @ + 1]
  ELSE [st EXCEPT !.out = Append(@, Pair(st.count, st.last)), !.last = c]
Run(st, c) ==
  IF st.done \/ c = FF THEN [st EXCEPT !.done = TRUE]
  ELSE IF c = st.last THEN [st EXCEPT !.count = @ + 1]
  ELSE [st EXCEPT !.out = Append(@, Pair(st.count, st.last)), !.count = 1, !.last = c]

Read(st, chars) ==
  LET upTo[n \in 0 .. Len(chars)] == IF n = 0 THEN st ELSE Run(upTo[n - 1], chars[n])
  IN upTo[Len(chars)]

(* The first character of a file is read apart, as long as there is none;   *)
(* of an empty file that is FF.                                             *)
ZipFile ==
  /\ left # <<>>
  /\ LET file == Head(left)
         apart == last = NUL
         first == IF ~apart THEN last ELSE IF file = <<>> THEN FF ELSE Head(file)
         rest == IF apart /\ file # <<>> THEN Tail(file) ELSE file
         end == Read([last |-> first, count |-> count, out |-> out, done |-> FALSE], rest)
     IN /\ last' = end.last
        /\ IF Len(left) = 1 THEN count' = 1 /\ out' = Append(end.out, Pair(end.count, end.last))
           ELSE count' = end.count /\ out' = end.out
  /\ left' = Tail(left)
  /\ UNCHANGED input

Next == ZipFile

Spec == Init /\ [][Next]_vars

-----------------------------------------------------------------------------
(* my-unzip                                                                 *)
Unzip(pairs) == FlattenSeq([n \in DOMAIN pairs |-> [k \in 1 .. pairs[n].count |-> pairs[n].char]])

Plain(files) == \A n \in DOMAIN files : NUL \notin ToSet(files[n]) /\ FF \notin ToSet(files[n])

(* "if multiple files are passed to my-zip, they are compressed into a      *)
(* single compressed output, and when unzipped, will turn into a single     *)
(* uncompressed stream" (README.md of 1a), of the longest runs there are:   *)
(* for files of plain characters of which the first is not empty.           *)
UnzipInvertsZip ==
  left = <<>> /\ Plain(input) /\ input[1] # <<>> =>
    /\ Unzip(out) = FlattenSeq(input)
    /\ \A n \in 1 .. Len(out) - 1 : out[n].char # out[n + 1].char
=============================================================================
