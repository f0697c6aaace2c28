------------------------------ MODULE Namespace ------------------------------
(***************************************************************************)
(* What the inode layer promises: names and what they stand for change one *)
(* at a time, and an inode is free only when neither a name nor a process  *)
(* has it.                                                                 *)
(***************************************************************************)
CONSTANTS Inode, Name, NoInode

VARIABLES
  kind,    \* "free", "file" or "dir"
  names,   \* what each name in a directory stands for
  used     \* inodes that are a current directory or an open file

vars == <<kind, names, used>>

NoNames == [n \in Name |-> NoInode]
Named(i) == \E d \in Inode, n \in Name : names[d][n] = i

Init ==
  /\ kind \in [Inode -> {"free", "file", "dir"}]
  /\ names = [i \in Inode |-> NoNames]
  /\ used = {i \in Inode : kind[i] = "dir"}

Create(d, n, i, k) ==
  /\ kind[d] = "dir" /\ names[d][n] = NoInode
  /\ kind[i] = "free" /\ k # "free"
  /\ kind' = [kind EXCEPT ![i] = k]
  /\ names' = [names EXCEPT ![d][n] = i, ![i] = NoNames]
  /\ UNCHANGED used

(* Only files have a second name.                                          *)
Link(d, n, i) ==
  /\ kind[d] = "dir" /\ names[d][n] = NoInode
  /\ kind[i] = "file"
  /\ names' = [names EXCEPT ![d][n] = i]
  /\ UNCHANGED <<kind, used>>

Unlink(d, n) ==
  /\ names[d][n] # NoInode
  /\ names[names[d][n]] = NoNames
  /\ names' = [names EXCEPT ![d][n] = NoInode]
  /\ UNCHANGED <<kind, used>>

Free(i) ==
  /\ kind[i] # "free" /\ ~Named(i) /\ i \notin used
  /\ kind' = [kind EXCEPT ![i] = "free"]
  /\ names' = [names EXCEPT ![i] = NoNames]
  /\ UNCHANGED used

Use == /\ used' \subseteq {i \in Inode : kind[i] # "free"}
       /\ UNCHANGED <<kind, names>>

Next ==
  \/ Use
  \/ \E i \in Inode :
       \/ Free(i)
       \/ \E d \in Inode, n \in Name :
            Unlink(d, n) \/ Link(d, n, i) \/ \E k \in {"file", "dir"} : Create(d, n, i, k)

Spec == Init /\ [][Next]_vars
=============================================================================
