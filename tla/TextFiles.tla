------------------------------ MODULE TextFiles -----------------------------
(***************************************************************************)
(* What read() and write() promise of the files that are open: a file is a *)
(* sequence of bytes, and each piece of a write, of at most MaxPiece, is   *)
(* put into it at the place where the open file has got to, at once.       *)
(***************************************************************************)
EXTENDS Integers, Sequences

CONSTANTS Procs, Letter, Inodes, Files, Nothing, MaxPiece, MaxSize

VARIABLES
  text,        \* of each inode
  file,        \* of each open file: its inode and offset
  got          \* what a read() has just returned

Init ==
  /\ text = [i \in Inodes |-> <<>>]
  /\ file = [f \in Files |-> Nothing]
  /\ got = <<>>

Open(f, i) ==
  /\ file[f] = Nothing
  /\ file' = [file EXCEPT ![f] = [ip |-> i, off |-> 0]]
  /\ UNCHANGED text

Close(f) == file' = [file EXCEPT ![f] = Nothing] /\ UNCHANGED text

(* t with n times b after its first `at` bytes.                             *)
Overlaid(t, at, n, b) ==
  LET new == at + n
  IN [k \in 1 .. IF new > Len(t) THEN new ELSE Len(t) |-> IF k > at /\ k <= new THEN b ELSE t[k]]

Write(p, f) ==
  /\ file[f] # Nothing
  /\ \E n \in 1 .. MaxPiece :
       /\ file[f].off + n <= MaxSize
       /\ text' = [text EXCEPT ![file[f].ip] = Overlaid(@, file[f].off, n, Letter[p])]
       /\ file' = [file EXCEPT ![f].off = @ + n]

Read(f) ==
  /\ file[f] # Nothing
  /\ \E end \in file[f].off .. Len(text[file[f].ip]) :
       /\ got' = SubSeq(text[file[f].ip], file[f].off + 1, end)
       /\ file' = [file EXCEPT ![f].off = end]
  /\ UNCHANGED text

(* Of a file that nobody has open.                                          *)
Discard(i) ==
  /\ \A f \in Files : file[f] # Nothing => file[f].ip # i
  /\ text' = [text EXCEPT ![i] = <<>>]
  /\ UNCHANGED file

Next ==
  \/ \E f \in Files : Read(f)
  \/ /\ \/ \E f \in Files, i \in Inodes : Open(f, i)
        \/ \E f \in Files : Close(f) \/ \E p \in Procs : Write(p, f)
        \/ \E i \in Inodes : Discard(i)
        \/ UNCHANGED <<text, file>>
     /\ got' = <<>>

Spec == Init /\ [][Next]_<<text, file, got>>
=============================================================================
