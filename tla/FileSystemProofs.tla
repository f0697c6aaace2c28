-------------------------- MODULE FileSystemProofs --------------------------
(***************************************************************************)
(* References and links are counted, nothing in use is freed, ilock() and  *)
(* unlink() do not panic, and names change as Namespace says: for any      *)
(* processes, inodes, names, files and descriptors, and any paths without  *)
(* "..".                                                                   *)
(***************************************************************************)
EXTENDS FileSystem, FiniteSetTheorems, SequenceTheorems, WellFoundedInduction, TLAPS

Elems == Seq(Names \cup {"."})
GoodPath == [abs : BOOLEAN, elems : Elems]

Dos == {"iput", "itrunc", "unref", "iunlockput", "walk", "link", "link_dp", "link_bad", "unlink", "unlink_ip",
        "unlink_count", "create", "create_found", "opened", "open", "chdir", "fileclose", "exit", "panic"}
Args == {"", "inode", "parent", "file", "dir", "read", "write", "ialloc: no inodes"} \cup Files
FrameSet == [do : Dos, i : Inums \cup {0}, ip : Inums \cup {0}, path : Seq(GoodPath) \cup Elems, arg : Args]

(* The frames that namex() returns an inode to, and which it has to find.   *)
Waiters == {"link", "link_dp", "unlink", "create", "open", "chdir"}
Want(do) == IF do \in {"link", "open", "chdir"} THEN "inode" ELSE "parent"

FrameOK(f) ==
  /\ f \in FrameSet
  /\ f.do \in {"fileclose", "exit"} => f.i = 0
  /\ f.do \in {"iput", "itrunc", "unref", "walk", "link_bad", "unlink_ip", "unlink_count", "create_found", "panic"} => f.i # 0
  /\ f.ip # 0 <=> f.do \in {"link_dp", "unlink_ip"}
  /\ f.do = "walk" => f.path \in Elems \ {<<>>} /\ f.arg \in {"inode", "parent"}
  /\ f.do = "link" => f.path \in Seq(GoodPath) /\ Len(f.path) = 1
  /\ f.do \in {"link_dp", "unlink", "unlink_ip", "create"} => f.path \in Elems \ {<<>>}
  /\ f.do = "unlink_ip" => Last(f.path) \in Names
  /\ f.do \in {"create", "create_found"} => f.arg \in {"file", "dir"}
  /\ f.do = "fileclose" => f.arg \in Files
  /\ f.do = "panic" => f.arg = "ialloc: no inodes"

Waiting(f) == f.i = 0 /\ f.do \in Waiters \cup {"iunlockput", "opened"}

(* What may come after what.                                                *)
Leads(f, g) ==
  /\ f.do \in {"iput", "itrunc", "unref", "iunlockput", "fileclose", "walk", "create", "create_found"}
  /\ f.do = "iunlockput" => f.i # 0
  /\ g.do \notin {"itrunc", "unref", "unlink_ip", "panic"}
  /\ f.do = "walk" => g.do \in Waiters /\ g.i = 0 /\ Want(g.do) = f.arg
  /\ f.do \in {"create", "create_found"} =>
       g.i = 0 /\ g.do = IF f.arg = "dir" THEN "iunlockput" ELSE "opened"
  /\ f.do \notin {"walk", "create", "create_found"} => ~Waiting(g)
Ends(f) == f.do \notin {"walk", "create", "create_found"}

Inner(s) ==
  /\ s \in Seq(FrameSet)
  /\ \A k \in 1 .. Len(s) : FrameOK(s[k])
  /\ \A k \in 1 .. Len(s) - 1 : Leads(s[k], s[k + 1])
  /\ s # <<>> => Ends(s[Len(s)])
Shape(s) == Inner(s) /\ (s # <<>> => ~Waiting(s[1]))
Shapes == todo \in [Procs -> Seq(FrameSet)] /\ \A p \in Procs : Shape(todo[p])

Sound(p, f) ==
  /\ f.do # "unref" => \A j \in {f.i, f.ip} \ {0} : dinode[j].type # "free"
  /\ f.do \in {"link_dp", "unlink", "create"} /\ f.i # 0 => dinode[f.i].type = "dir"
  /\ f.do = "link_dp" => dinode[f.ip].type = "file"
  /\ f.do = "unlink_ip" => dinode[f.ip].type = "dir" /\ entries[f.ip][Last(f.path)] = f.i /\ icache[f.ip].valid
  /\ f.do = "unlink_count" => icache[f.i].valid
  /\ f.do = "itrunc" => icache[f.i].valid /\ icache[f.i].nlink = 0 /\ icache[f.i].ref = 1
  /\ cwd[p] = 0 => f.do \in {"iput", "itrunc", "unref"}
Frames(s) == {s[k] : k \in 1 .. Len(s)}
AllSound(p, s) == \A f \in Frames(s) : Sound(p, f)
SoundFrames == \A p \in Procs : AllSound(p, todo[p])

Coherent == \A i \in Inums : icache[i].valid =>
  icache[i].type = dinode[i].type /\ icache[i].nlink = dinode[i].nlink /\ dinode[i].type # "free"

Fiber(g, S, v) == Cardinality({x \in S : g[x] = v})
Count(s, F) == Cardinality({k \in DOMAIN s : s[k] \in F})
DueIn(T) == UNION {{<<p, k>> : k \in DOMAIN T[p]} : p \in Procs}
TotalIn(T, F) == Cardinality({d \in DueIn(T) : T[d[1]][d[2]] \in F})
Total(F) == TotalIn(todo, F)
HasI(i) == {f \in FrameSet : f.i = i}
HasIp(i) == {f \in FrameSet : f.ip = i}
Closes(f) == {g \in FrameSet : g.do = "fileclose" /\ g.arg = f}
OwesTo(i) == {f \in FrameSet : Owes(f, i)}
Claims(i) == {f \in FrameSet : \/ f.i = i /\ f.do \in {"itrunc", "iunlockput", "unlink_count", "opened"}
                               \/ f.ip = i /\ f.do = "unlink_ip"}

HeldOnce == \A i \in Inums, p \in Procs : Count(todo[p], Claims(i)) = IF holder[i] = p THEN 1 ELSE 0

IpOf == [f \in Files |-> file[f].ip]
Kept(i) == Fiber(cwd, Procs, i) + Fiber(IpOf, Files, i)
RefsBalance == \A i \in Inums : icache[i].ref = Kept(i) + Total(HasI(i)) + Total(HasIp(i))

FdOf == [x \in Procs \X Fds |-> ofile[x[1]][x[2]]]
FilesBalance ==
  /\ \A f \in Files : file[f].ref = Fiber(FdOf, Procs \X Fds, f) + Total(Closes(f))
  /\ \A f \in Files : file[f].ref = 0 <=> file[f].ip = 0
  /\ \A p \in Procs, d \in Fds : cwd[p] = 0 => ofile[p][d] = None

EntryOf == [x \in Inums \X Names |-> entries[x[1]][x[2]]]
NamesOf(i) == Fiber(EntryOf, Inums \X Names, i)
IsDir(i) == i # 0 /\ dinode[i].type = "dir"
DirOf(i) == [n \in Names |-> IsDir(entries[i][n])]
SubdirsOf(i) == Fiber(DirOf(i), Names, TRUE)
LinksBalance ==
  /\ \A i \in Inums \ lost : dinode[i].type # "free" =>
       dinode[i].nlink = NamesOf(i) + SubdirsOf(i) + Total(OwesTo(i)) + (IF i = Root THEN 1 ELSE 0)
  /\ \A i \in lost : dinode[i].type = "file" /\ dinode[i].nlink >= NamesOf(i) + Total(OwesTo(i)) + 1
  /\ \A i \in Inums, n \in Names : entries[i][n] # 0 =>
       dinode[entries[i][n]].type # "free" /\ dinode[i].type = "dir"
  /\ \A i \in Inums : entries[i]["."] \in {0, i} /\ (dinode[i].type = "dir" => entries[i]["."] = i)
  /\ dinode[Root].type = "dir"

InUse ==
  /\ \A p \in Procs : cwd[p] # 0 => dinode[cwd[p]].type = "dir"
  /\ \A f \in Files : file[f].ip # 0 => dinode[file[f].ip].type # "free"

IInv == TypeOK /\ Shapes /\ SoundFrames /\ Coherent /\ HeldOnce /\ RefsBalance /\ FilesBalance /\ LinksBalance /\ InUse

-----------------------------------------------------------------------------
(* Counting. *)

In(f, F) == IF f \in F THEN 1 ELSE 0
Eq(a, b) == IF a = b THEN 1 ELSE 0

LEMMA Constants ==
  /\ Root \in Inums /\ 0 \notin Inums /\ Inums \subseteq Nat /\ IsFiniteSet(Inums)
  /\ IsFiniteSet(Procs) /\ IsFiniteSet(Files) /\ IsFiniteSet(Fds) /\ IsFiniteSet(Names)
  /\ InitProc \in Procs /\ None \notin Procs /\ None \notin Files
  /\ "." \notin Names /\ ".." \notin Names
<1>1. IsFiniteSet(Inums)
  BY ConstantsAssumption, FS_Interval DEF Inums
<1> QED
  BY <1>1, ConstantsAssumption DEF Inums, Root, Dots

\* Sets that correspond one to one have as many elements.
LEMMA Correspond ==
  ASSUME NEW S, NEW T, IsFiniteSet(S), NEW g \in [S -> T],
         \A t \in T : \E x \in S : g[x] = t, \A x, y \in S : g[x] = g[y] => x = y
  PROVE  IsFiniteSet(T) /\ Cardinality(T) = Cardinality(S)
<1>1. g \in Bijection(S, T)
  BY DEF Bijection, Injection, Surjection, IsInjective
<1> QED
  BY <1>1, FS_Bijection DEF ExistsBijection

LEMMA Disjoint ==
  ASSUME NEW S, NEW T, IsFiniteSet(S), IsFiniteSet(T), S \cap T = {}
  PROVE  IsFiniteSet(S \cup T) /\ Cardinality(S \cup T) = Cardinality(S) + Cardinality(T)
<1>1. Cardinality(S \cap T) = 0
  BY FS_EmptySet
<1>2. Cardinality(S) \in Nat /\ Cardinality(T) \in Nat
  BY FS_CardinalityType
<1>3. IsFiniteSet(S \cup T) /\ Cardinality(S \cup T) = Cardinality(S) + Cardinality(T) - Cardinality(S \cap T)
  BY FS_Union, Zenon
<1> QED
  BY <1>1, <1>2, <1>3

\* How many elements have the value v, if one element changes.
AllBut(S, a, g, h) == IsFiniteSet(S) /\ a \in S /\ \A x \in S \ {a} : h[x] = g[x]

LEMMA FiberChange ==
  ASSUME NEW S, NEW g, NEW h, NEW a, AllBut(S, a, g, h), NEW v
  PROVE  /\ Fiber(g, S, v) \in Nat /\ Fiber(h, S, v) \in Nat
         /\ Fiber(h, S, v) = Fiber(g, S, v) - Eq(g[a], v) + Eq(h[a], v)
<1> IsFiniteSet(S) /\ a \in S /\ \A x \in S \ {a} : h[x] = g[x]
  BY DEF AllBut
<1>1. PICK R : R = {x \in S \ {a} : g[x] = v}
  OBVIOUS
<1>2. IsFiniteSet(R) /\ a \notin R
  BY <1>1, FS_Subset
<1>3. Cardinality(R) \in Nat
  BY <1>2, FS_CardinalityType
<1>4. Fiber(g, S, v) = Cardinality(R) + Eq(g[a], v)
  <2>1. CASE g[a] = v
    <3>1. {x \in S : g[x] = v} = R \cup {a}
      BY <1>1, <2>1
    <3> QED
      BY <1>2, <1>3, <2>1, <3>1, FS_AddElement DEF Fiber, Eq
  <2>2. CASE g[a] # v
    <3>1. {x \in S : g[x] = v} = R
      BY <1>1, <2>2
    <3>2. Fiber(g, S, v) = Cardinality(R)
      BY <3>1, Zenon DEF Fiber
    <3>3. Eq(g[a], v) = 0
      BY <2>2 DEF Eq
    <3> QED
      BY <1>3, <3>2, <3>3
  <2> QED
    BY <2>1, <2>2
<1>5. Fiber(h, S, v) = Cardinality(R) + Eq(h[a], v)
  <2>1. CASE h[a] = v
    <3>1. {x \in S : h[x] = v} = R \cup {a}
      BY <1>1, <2>1
    <3> QED
      BY <1>2, <1>3, <2>1, <3>1, FS_AddElement DEF Fiber, Eq
  <2>2. CASE h[a] # v
    <3>1. {x \in S : h[x] = v} = R
      BY <1>1, <2>2
    <3>2. Fiber(h, S, v) = Cardinality(R)
      BY <3>1, Zenon DEF Fiber
    <3>3. Eq(h[a], v) = 0
      BY <2>2 DEF Eq
    <3> QED
      BY <1>3, <3>2, <3>3
  <2> QED
    BY <2>1, <2>2
<1> QED
  BY <1>3, <1>4, <1>5 DEF Eq

LEMMA FiberIs ==
  ASSUME NEW S, IsFiniteSet(S), NEW g, NEW v
  PROVE  /\ Fiber(g, S, v) \in Nat
         /\ Fiber(g, S, v) = 0 <=> \A x \in S : g[x] # v
<1>1. IsFiniteSet({x \in S : g[x] = v})
  BY FS_Subset
<1>2. Cardinality({x \in S : g[x] = v}) = 0 <=> {x \in S : g[x] = v} = {}
  BY <1>1, FS_EmptySet
<1> QED
  BY <1>1, <1>2, FS_CardinalityType DEF Fiber

LEMMA FiberSame ==
  ASSUME NEW S, NEW g, NEW h, NEW v, \A x \in S : h[x] = v <=> g[x] = v
  PROVE  Fiber(h, S, v) = Fiber(g, S, v)
<1>1. {x \in S : h[x] = v} = {x \in S : g[x] = v}
  OBVIOUS
<1> QED
  BY <1>1 DEF Fiber

\* How many frames of a sequence are in F.
LEMMA CountIs ==
  ASSUME NEW S, NEW s \in Seq(S), NEW F
  PROVE  /\ Count(s, F) \in Nat
         /\ Count(s, F) = 0 <=> \A k \in 1 .. Len(s) : s[k] \notin F
<1>1. DOMAIN s = 1 .. Len(s) /\ Len(s) \in Nat
  BY LenProperties
<1>2. IsFiniteSet(1 .. Len(s))
  BY <1>1, FS_Interval
<1>3. IsFiniteSet({k \in DOMAIN s : s[k] \in F})
  BY <1>1, <1>2, FS_Subset
<1>4. Cardinality({k \in DOMAIN s : s[k] \in F}) = 0 <=> {k \in DOMAIN s : s[k] \in F} = {}
  BY <1>3, FS_EmptySet
<1> QED
  BY <1>1, <1>3, <1>4, FS_CardinalityType DEF Count

LEMMA CountNone == ASSUME NEW F PROVE Count(<<>>, F) = 0
<1>1. {k \in DOMAIN <<>> : <<>>[k] \in F} = {}
  OBVIOUS
<1> QED
  BY <1>1, FS_EmptySet DEF Count

\* The sequences of frames are built at their heads.
LEMMA ConsIs ==
  ASSUME NEW S, NEW f \in S, NEW s \in Seq(S)
  PROVE  /\ <<f>> \o s \in Seq(S) /\ Len(<<f>> \o s) = Len(s) + 1 /\ <<f>> \o s # <<>>
         /\ (<<f>> \o s)[1] = f /\ \A k \in 1 .. Len(s) : (<<f>> \o s)[k + 1] = s[k]
         /\ Head(<<f>> \o s) = f /\ Tail(<<f>> \o s) = s
<1>1. Len(s) \in Nat /\ <<f>> \in Seq(S) /\ Len(<<f>>) = 1 /\ <<f>>[1] = f
  OBVIOUS
<1>2. /\ <<f>> \o s \in Seq(S) /\ Len(<<f>> \o s) = Len(s) + 1
      /\ (<<f>> \o s)[1] = f /\ \A k \in 1 .. Len(s) : (<<f>> \o s)[k + 1] = s[k]
  BY <1>1
<1>3. <<f>> \o s # <<>>
  BY <1>1, <1>2
<1>4. Head(<<f>> \o s) = f /\ Tail(<<f>> \o s) = s
  <2>1. Head(<<f>> \o s) = f
    BY <1>2, <1>3
  <2>2. Len(Tail(<<f>> \o s)) = Len(s) /\ Tail(<<f>> \o s) \in Seq(S)
    BY <1>1, <1>2, <1>3, HeadTailProperties
  <2>3. \A k \in 1 .. Len(s) : Tail(<<f>> \o s)[k] = s[k]
    BY <1>1, <1>2, <1>3, HeadTailProperties
  <2> QED
    BY <2>1, <2>2, <2>3, SeqEqual
<1> QED
  BY <1>2, <1>3, <1>4

LEMMA CountCons ==
  ASSUME NEW S, NEW f \in S, NEW s \in Seq(S), NEW F
  PROVE  Count(<<f>> \o s, F) = Count(s, F) + In(f, F)
<1>1. PICK t : t = <<f>> \o s
  OBVIOUS
<1>2. /\ t \in Seq(S) /\ Len(t) = Len(s) + 1 /\ Len(s) \in Nat /\ t[1] = f
      /\ \A k \in 1 .. Len(s) : t[k + 1] = s[k]
  BY <1>1, ConsIs
<1>3. DOMAIN t = 1 .. Len(s) + 1 /\ DOMAIN s = 1 .. Len(s)
  BY <1>2
<1>4. PICK K : K = {k \in DOMAIN s : s[k] \in F}
  OBVIOUS
<1>5. PICK L : L = {k \in DOMAIN t : k # 1 /\ t[k] \in F}
  OBVIOUS
<1>6. IsFiniteSet(K)
  <2>1. IsFiniteSet(1 .. Len(s))
    BY <1>2, FS_Interval
  <2> QED
    BY <1>3, <1>4, <2>1, FS_Subset
<1>7. IsFiniteSet(L) /\ Cardinality(L) = Cardinality(K)
  <2>1. PICK g : g = [k \in K |-> k + 1]
    OBVIOUS
  <2>2. g \in [K -> L]
    BY <1>2, <1>3, <1>4, <1>5, <2>1
  <2>3. \A l \in L : \E k \in K : g[k] = l
    <3>1. TAKE l \in L
    <3>2. l \in 2 .. Len(s) + 1 /\ t[l] \in F
      BY <1>2, <1>3, <1>5
    <3>3. l - 1 \in 1 .. Len(s) /\ (l - 1) + 1 = l
      BY <1>2, <3>2
    <3>4. s[l - 1] = t[l]
      BY <1>2, <3>3
    <3>5. l - 1 \in K
      BY <1>3, <1>4, <3>2, <3>3, <3>4
    <3>6. g[l - 1] = l
      BY <2>1, <3>3, <3>5
    <3> QED
      BY <3>5, <3>6
  <2>4. \A x, y \in K : g[x] = g[y] => x = y
    BY <1>3, <1>4, <2>1
  <2> QED
    BY <1>6, <2>2, <2>3, <2>4, Correspond
<1>8. Cardinality(L) \in Nat
  BY <1>7, FS_CardinalityType
<1>9. 1 \in DOMAIN t /\ 1 \notin L
  BY <1>2, <1>3, <1>5
<1>10. Count(t, F) = Cardinality(L) + In(f, F)
  <2>1. CASE f \in F
    <3>1. {k \in DOMAIN t : t[k] \in F} = L \cup {1}
      BY <1>2, <1>5, <1>9, <2>1
    <3> QED
      BY <1>7, <1>8, <1>9, <2>1, <3>1, FS_AddElement DEF Count, In
  <2>2. CASE f \notin F
    <3>1. {k \in DOMAIN t : t[k] \in F} = L
      BY <1>2, <1>5, <2>2
    <3>2. Count(t, F) = Cardinality(L)
      BY <3>1, Zenon DEF Count
    <3>3. In(f, F) = 0
      BY <2>2 DEF In
    <3> QED
      BY <1>8, <3>2, <3>3
  <2> QED
    BY <2>1, <2>2
<1> QED
  BY <1>1, <1>4, <1>7, <1>10 DEF Count

\* The frames of all processes.
Stacks == [Procs -> Seq(FrameSet)]
DueFor(T, p, F) == {<<p, k>> : k \in {j \in DOMAIN T[p] : T[p][j] \in F}}
DueOthers(T, p, F) == {d \in DueIn(T) : d[1] # p /\ T[d[1]][d[2]] \in F}

LEMMA DueFinite == ASSUME NEW T \in Stacks PROVE IsFiniteSet(DueIn(T))
<1>1. ASSUME NEW p \in Procs PROVE IsFiniteSet({<<p, k>> : k \in DOMAIN T[p]})
  <2>1. DOMAIN T[p] = 1 .. Len(T[p]) /\ Len(T[p]) \in Nat
    BY DEF Stacks
  <2>2. IsFiniteSet(DOMAIN T[p])
    BY <2>1, FS_Interval
  <2>3. PICK K : K = DOMAIN T[p]
    OBVIOUS
  <2>4. PICK L : L = {<<p, k>> : k \in K}
    OBVIOUS
  <2>5. PICK g : g = [k \in K |-> <<p, k>>]
    OBVIOUS
  <2>6. g \in [K -> L] /\ (\A l \in L : \E k \in K : g[k] = l) /\ \A x, y \in K : g[x] = g[y] => x = y
    BY <2>4, <2>5
  <2>7. IsFiniteSet(L)
    BY <2>2, <2>3, <2>6, Correspond
  <2> QED
    BY <2>3, <2>4, <2>7
<1>2. PICK D : D = {{<<p, k>> : k \in DOMAIN T[p]} : p \in Procs}
  OBVIOUS
<1>3. IsFiniteSet(D)
  <2>1. PICK g : g = [p \in Procs |-> {<<p, k>> : k \in DOMAIN T[p]}]
    OBVIOUS
  <2>2. g \in Surjection(Procs, D)
    BY <1>2, <2>1 DEF Surjection
  <2> QED
    BY <2>2, Constants, FS_Surjection
<1>4. \A X \in D : IsFiniteSet(X)
  BY <1>1, <1>2
<1>5. IsFiniteSet(UNION D)
  BY <1>3, <1>4, FS_UNION
<1> QED
  BY <1>2, <1>5 DEF DueIn

LEMMA DueOf ==
  ASSUME NEW T \in Stacks, NEW p \in Procs, NEW F
  PROVE  /\ IsFiniteSet(DueOthers(T, p, F)) /\ Cardinality(DueOthers(T, p, F)) \in Nat
         /\ TotalIn(T, F) = Cardinality(DueOthers(T, p, F)) + Count(T[p], F)
         /\ TotalIn(T, F) \in Nat /\ Count(T[p], F) \in Nat
<1>1. T[p] \in Seq(FrameSet)
  BY DEF Stacks
<1>2. IsFiniteSet(DueOthers(T, p, F))
  BY DueFinite, FS_Subset DEF DueOthers
<1>3. PICK K : K = {j \in DOMAIN T[p] : T[p][j] \in F}
  OBVIOUS
<1>4. IsFiniteSet(K)
  <2>1. DOMAIN T[p] = 1 .. Len(T[p]) /\ Len(T[p]) \in Nat
    BY <1>1
  <2>2. IsFiniteSet(DOMAIN T[p])
    BY <2>1, FS_Interval
  <2> QED
    BY <1>3, <2>2, FS_Subset
<1>5. PICK L : L = {<<p, k>> : k \in K}
  OBVIOUS
<1>6. IsFiniteSet(L) /\ Cardinality(L) = Cardinality(K)
  <2>1. PICK g : g = [k \in K |-> <<p, k>>]
    OBVIOUS
  <2>2. g \in [K -> L] /\ (\A l \in L : \E k \in K : g[k] = l) /\ \A x, y \in K : g[x] = g[y] => x = y
    BY <1>5, <2>1
  <2> QED
    BY <1>4, <2>2, Correspond
<1>7. {d \in DueIn(T) : T[d[1]][d[2]] \in F} = DueOthers(T, p, F) \cup L
  BY <1>3, <1>5 DEF DueIn, DueOthers
<1>8. DueOthers(T, p, F) \cap L = {}
  BY <1>5 DEF DueOthers
<1>9. TotalIn(T, F) = Cardinality(DueOthers(T, p, F)) + Cardinality(L)
  BY <1>2, <1>6, <1>7, <1>8, Disjoint DEF TotalIn
<1>10. Cardinality(K) = Count(T[p], F)
  BY <1>3 DEF Count
<1>11. Cardinality(DueOthers(T, p, F)) \in Nat /\ Count(T[p], F) \in Nat
  BY <1>1, <1>2, CountIs, FS_CardinalityType
<1> QED
  BY <1>2, <1>6, <1>9, <1>10, <1>11

LEMMA TotalChange ==
  ASSUME NEW T \in Stacks, NEW U \in Stacks, NEW p \in Procs, \A q \in Procs \ {p} : U[q] = T[q], NEW F
  PROVE  TotalIn(U, F) = TotalIn(T, F) - Count(T[p], F) + Count(U[p], F)
<1>1. DueOthers(U, p, F) = DueOthers(T, p, F)
  <2>1. ASSUME NEW d PROVE d \in DueOthers(U, p, F) <=> d \in DueOthers(T, p, F)
    BY DEF DueOthers, DueIn
  <2> QED
    BY <2>1
<1>2. /\ TotalIn(T, F) = Cardinality(DueOthers(T, p, F)) + Count(T[p], F)
      /\ Cardinality(DueOthers(T, p, F)) \in Nat /\ Count(T[p], F) \in Nat
  BY DueOf
<1>3. /\ TotalIn(U, F) = Cardinality(DueOthers(U, p, F)) + Count(U[p], F) /\ Count(U[p], F) \in Nat
  BY DueOf
<1> QED
  BY <1>1, <1>2, <1>3

\* A frame is counted.
LEMMA TotalOne ==
  ASSUME NEW T \in Stacks, NEW p \in Procs, NEW k \in 1 .. Len(T[p]), NEW F, T[p][k] \in F
  PROVE  /\ TotalIn(T, F) \in Nat /\ TotalIn(T, F) >= 1 /\ Count(T[p], F) >= 1
         /\ TotalIn(T, F) = 1 => \A q \in Procs, j \in Nat : j \in 1 .. Len(T[q]) /\ T[q][j] \in F => q = p /\ j = k
<1>1. PICK X : X = {d \in DueIn(T) : T[d[1]][d[2]] \in F}
  OBVIOUS
<1>2. IsFiniteSet(X)
  BY <1>1, DueFinite, FS_Subset
<1>3. ASSUME NEW q \in Procs, NEW j \in 1 .. Len(T[q]), T[q][j] \in F
      PROVE  <<q, j>> \in X
  <2>1. DOMAIN T[q] = 1 .. Len(T[q])
    BY DEF Stacks
  <2> QED
    BY <1>1, <1>3, <2>1 DEF DueIn
<1>4. <<p, k>> \in X
  BY <1>3
<1>5. Cardinality(X) \in Nat /\ Cardinality(X) # 0
  BY <1>2, <1>4, FS_CardinalityType, FS_EmptySet
<1>6. TotalIn(T, F) = Cardinality(X)
  BY <1>1 DEF TotalIn
<1>7. Cardinality(X) = 1 => \E x : X = {x}
  BY <1>2, FS_Singleton
<1>8. TotalIn(T, F) = 1 => \A q \in Procs, j \in Nat : j \in 1 .. Len(T[q]) /\ T[q][j] \in F => q = p /\ j = k
  <2> SUFFICES ASSUME TotalIn(T, F) = 1, NEW q \in Procs, NEW j \in Nat, j \in 1 .. Len(T[q]), T[q][j] \in F
               PROVE  q = p /\ j = k
    OBVIOUS
  <2>1. PICK x : X = {x}
    BY <1>6, <1>7
  <2>2. <<q, j>> = x /\ <<p, k>> = x
    BY <1>3, <1>4, <2>1
  <2> QED
    BY <2>2
<1>9. Count(T[p], F) \in Nat /\ Count(T[p], F) # 0
  <2>1. T[p] \in Seq(FrameSet)
    BY DEF Stacks
  <2> QED
    BY <2>1, CountIs
<1> QED
  BY <1>5, <1>6, <1>8, <1>9

LEMMA TotalNone ==
  ASSUME NEW T \in Stacks, NEW F
  PROVE  /\ TotalIn(T, F) \in Nat
         /\ TotalIn(T, F) = 0 <=> \A p \in Procs : \A k \in 1 .. Len(T[p]) : T[p][k] \notin F
<1>1. PICK X : X = {d \in DueIn(T) : T[d[1]][d[2]] \in F}
  OBVIOUS
<1>2. IsFiniteSet(X)
  BY <1>1, DueFinite, FS_Subset
<1>3. TotalIn(T, F) = Cardinality(X) /\ Cardinality(X) \in Nat /\ (Cardinality(X) = 0 <=> X = {})
  BY <1>1, <1>2, FS_CardinalityType, FS_EmptySet DEF TotalIn
<1>4. \A p \in Procs : DOMAIN T[p] = 1 .. Len(T[p])
  BY DEF Stacks
<1>5. ASSUME NEW p \in Procs, NEW k \in 1 .. Len(T[p]), T[p][k] \in F
      PROVE  <<p, k>> \in X
  BY <1>1, <1>4, <1>5 DEF DueIn
<1>6. ASSUME NEW x \in X
      PROVE  \E p \in Procs : \E k \in 1 .. Len(T[p]) : T[p][k] \in F
  BY <1>1, <1>4 DEF DueIn
<1> QED
  BY <1>3, <1>5, <1>6

-----------------------------------------------------------------------------
(* What the frames of one process own, owe, hold and close. *)

Refs(s, i) == Count(s, HasI(i)) + Count(s, HasIp(i))
Owed(s, i) == Count(s, OwesTo(i))
Claimed(s, i) == Count(s, Claims(i))
Closing(s, f) == Count(s, Closes(f))

FRefs(f, i) == Eq(f.i, i) + Eq(f.ip, i)
FOwed(f, i) == IF f.do = "link_dp" THEN Eq(f.ip, i)
               ELSE IF f.do \in {"link_bad", "unlink_count"} THEN Eq(f.i, i) ELSE 0
FClaimed(f, i) == IF f.do = "unlink_ip" THEN Eq(f.ip, i)
                  ELSE IF f.do \in {"itrunc", "iunlockput", "unlink_count", "opened"} THEN Eq(f.i, i) ELSE 0
FClosing(f, g) == IF f.do = "fileclose" THEN Eq(f.arg, g) ELSE 0

\* The frame f before those of r makes t.
Adds(t, f, r) ==
  /\ \A i \in Inums : /\ Refs(t, i) = Refs(r, i) + FRefs(f, i) /\ Owed(t, i) = Owed(r, i) + FOwed(f, i)
                      /\ Claimed(t, i) = Claimed(r, i) + FClaimed(f, i)
  /\ \A g \in Files : Closing(t, g) = Closing(r, g) + FClosing(f, g)
Naturals(s) == /\ \A i \in Inums : Refs(s, i) \in Nat /\ Owed(s, i) \in Nat /\ Claimed(s, i) \in Nat
               /\ \A g \in Files : Closing(s, g) \in Nat
\* Frames that own, owe, hold and close nothing.
Weightless(s) == /\ \A i \in Inums : Refs(s, i) = 0 /\ Owed(s, i) = 0 /\ Claimed(s, i) = 0
                 /\ \A g \in Files : Closing(s, g) = 0

LEMMA NaturalsOf == ASSUME NEW s \in Seq(FrameSet) PROVE Naturals(s)
<1>1. \A F : Count(s, F) \in Nat
  BY CountIs
<1> QED
  BY <1>1 DEF Naturals, Refs, Owed, Claimed, Closing

LEMMA NoFrames == Weightless(<<>>) /\ Naturals(<<>>)
<1>1. PICK e : e = <<>>
  OBVIOUS
<1>2. \A F : Count(e, F) = 0
  BY <1>1, CountNone
<1>3. Weightless(e) /\ Naturals(e)
  BY <1>2 DEF Weightless, Naturals, Refs, Owed, Claimed, Closing
<1> QED
  BY <1>1, <1>3

LEMMA AddsCons ==
  ASSUME NEW f \in FrameSet, NEW r \in Seq(FrameSet)
  PROVE  Adds(<<f>> \o r, f, r) /\ Naturals(r) /\ Naturals(<<f>> \o r)
<1>1. PICK t : t = <<f>> \o r
  OBVIOUS
<1>2. \A F : Count(t, F) = Count(r, F) + In(f, F) /\ Count(r, F) \in Nat
  BY <1>1, CountCons, CountIs
<1>3. ASSUME NEW i \in Inums PROVE In(f, HasI(i)) = Eq(f.i, i) /\ In(f, HasIp(i)) = Eq(f.ip, i)
  BY DEF In, Eq, HasI, HasIp
<1>4. ASSUME NEW i \in Inums PROVE In(f, OwesTo(i)) = FOwed(f, i)
  BY DEF In, Eq, OwesTo, Owes, FOwed
<1>5. ASSUME NEW i \in Inums PROVE In(f, Claims(i)) = FClaimed(f, i)
  BY DEF In, Eq, Claims, FClaimed
<1>6. ASSUME NEW g \in Files PROVE In(f, Closes(g)) = FClosing(f, g)
  BY DEF In, Eq, Closes, FClosing
<1>7. \A i, j : Eq(i, j) \in Nat
  BY DEF Eq
<1>8. Adds(t, f, r)
  BY <1>2, <1>3, <1>4, <1>5, <1>6, <1>7 DEF Adds, Refs, Owed, Claimed, Closing, FRefs
<1>9. Naturals(r) /\ Naturals(t)
  BY <1>1, NaturalsOf, ConsIs
<1> QED
  BY <1>1, <1>8, <1>9

-----------------------------------------------------------------------------
(* The frames of a process. *)

LEMMA Pushed ==
  ASSUME NEW f, FrameOK(f), NEW r, Inner(r), r = <<>> => Ends(f), r # <<>> => Leads(f, r[1])
  PROVE  /\ Inner(<<f>> \o r) /\ (<<f>> \o r)[1] = f /\ <<f>> \o r # <<>>
         /\ Adds(<<f>> \o r, f, r) /\ Naturals(r)
<1>1. f \in FrameSet /\ r \in Seq(FrameSet)
  BY DEF FrameOK, Inner
<1>2. PICK t : t = <<f>> \o r
  OBVIOUS
<1>3. /\ t \in Seq(FrameSet) /\ Len(t) = Len(r) + 1 /\ t # <<>> /\ t[1] = f
      /\ \A k \in 1 .. Len(r) : t[k + 1] = r[k]
  BY <1>1, <1>2, ConsIs
<1>4. Len(r) \in Nat /\ (r = <<>> <=> Len(r) = 0)
  BY <1>1, EmptySeq
<1>5. \A k \in 1 .. Len(t) : k = 1 \/ (k - 1 \in 1 .. Len(r) /\ t[k] = r[k - 1])
  BY <1>3, <1>4
<1>6. \A k \in 1 .. Len(t) : FrameOK(t[k])
  BY <1>3, <1>5 DEF Inner
<1>7. ASSUME NEW k \in 1 .. Len(t) - 1 PROVE Leads(t[k], t[k + 1])
  <2>1. k \in 1 .. Len(r) /\ t[k + 1] = r[k]
    BY <1>3, <1>4
  <2>2. CASE k = 1
    BY <1>3, <1>4, <2>1, <2>2
  <2>3. CASE k # 1
    <3>1. k - 1 \in 1 .. Len(r) - 1 /\ t[k] = r[k - 1] /\ (k - 1) + 1 = k
      BY <1>4, <1>5, <2>1, <2>3
    <3>2. Leads(r[k - 1], r[(k - 1) + 1])
      BY <3>1 DEF Inner
    <3> QED
      BY <2>1, <3>1, <3>2
  <2> QED
    BY <2>2, <2>3
<1>8. Ends(t[Len(t)])
  <2>1. CASE r = <<>>
    BY <1>3, <1>4, <2>1
  <2>2. CASE r # <<>>
    <3>1. t[Len(t)] = r[Len(r)]
      BY <1>3, <1>4, <2>2
    <3> QED
      BY <2>2, <3>1 DEF Inner
  <2> QED
    BY <2>1, <2>2
<1>9. Inner(t)
  BY <1>3, <1>6, <1>7, <1>8 DEF Inner
<1> QED
  BY <1>1, <1>2, <1>3, <1>9, AddsCons

LEMMA InnerEmpty == Inner(<<>>) /\ Shape(<<>>)
  BY DEF Inner, Shape

\* What is left without the first frame.
LEMMA Popped ==
  ASSUME NEW s, Inner(s), s # <<>>
  PROVE  /\ FrameOK(Head(s)) /\ Head(s) \in FrameSet /\ Head(s) = s[1] /\ 1 \in 1 .. Len(s)
         /\ Inner(Tail(s)) /\ Tail(s) \in Seq(FrameSet)
         /\ Tail(s) = <<>> => Ends(Head(s))
         /\ Tail(s) # <<>> => Leads(Head(s), Tail(s)[1])
         /\ \A k \in 1 .. Len(Tail(s)) : k + 1 \in 1 .. Len(s) /\ Tail(s)[k] = s[k + 1]
         /\ Adds(s, Head(s), Tail(s)) /\ Naturals(s) /\ Naturals(Tail(s))
<1>1. s \in Seq(FrameSet) /\ Len(s) \in Nat /\ Len(s) # 0
  BY EmptySeq DEF Inner
<1>2. PICK r : r = Tail(s)
  OBVIOUS
<1>3. PICK f : f = Head(s)
  OBVIOUS
<1>4. /\ f = s[1] /\ f \in FrameSet /\ r \in Seq(FrameSet) /\ Len(r) = Len(s) - 1
      /\ \A k \in 1 .. Len(r) : r[k] = s[k + 1]
  BY <1>1, <1>2, <1>3, HeadTailProperties
<1>5. FrameOK(f)
  BY <1>1, <1>4 DEF Inner
<1>6. \A k \in 1 .. Len(r) : k + 1 \in 1 .. Len(s) /\ r[k] = s[k + 1]
  BY <1>1, <1>4
<1>7. Inner(r)
  <2>1. \A k \in 1 .. Len(r) : FrameOK(r[k])
    BY <1>6 DEF Inner
  <2>2. ASSUME NEW k \in 1 .. Len(r) - 1 PROVE Leads(r[k], r[k + 1])
    <3>1. k \in 1 .. Len(r) /\ k + 1 \in 1 .. Len(r) /\ k + 1 \in 1 .. Len(s) - 1
      BY <1>1, <1>4
    <3>2. r[k] = s[k + 1] /\ r[k + 1] = s[(k + 1) + 1]
      BY <1>6, <3>1
    <3> QED
      BY <3>1, <3>2 DEF Inner
  <2>3. ASSUME r # <<>> PROVE Ends(r[Len(r)])
    <3>1. Len(r) # 0
      BY <1>4, <2>3, EmptySeq
    <3>2. r[Len(r)] = s[Len(s)]
      BY <1>1, <1>4, <3>1
    <3> QED
      BY <3>2 DEF Inner
  <2> QED
    BY <1>4, <2>1, <2>2, <2>3 DEF Inner
<1>8. r = <<>> => Ends(f)
  <2>1. r = <<>> => Len(s) = 1
    BY <1>1, <1>4
  <2> QED
    BY <1>4, <2>1 DEF Inner
<1>9. ASSUME r # <<>> PROVE Leads(f, r[1])
  <2>1. Len(r) # 0 /\ Len(r) \in Nat
    BY <1>4, <1>9, EmptySeq
  <2>2. 1 \in 1 .. Len(s) - 1 /\ r[1] = s[1 + 1]
    BY <1>1, <1>4, <2>1
  <2> QED
    BY <1>4, <2>2 DEF Inner
<1>10. s = <<f>> \o r
  <2>1. <<f>> \o r \in Seq(FrameSet) /\ Len(<<f>> \o r) = Len(s)
    BY <1>1, <1>4, ConsIs
  <2>2. \A k \in 1 .. Len(s) : (<<f>> \o r)[k] = s[k]
    <3>1. TAKE k \in 1 .. Len(s)
    <3>2. CASE k = 1
      BY <1>4, <3>2, ConsIs
    <3>3. CASE k # 1
      <4>1. k - 1 \in 1 .. Len(r) /\ (k - 1) + 1 = k
        BY <1>1, <1>4, <3>3
      <4>2. (<<f>> \o r)[(k - 1) + 1] = r[k - 1] /\ r[k - 1] = s[(k - 1) + 1]
        BY <1>4, <1>6, <4>1, ConsIs
      <4> QED
        BY <4>1, <4>2
    <3> QED
      BY <3>2, <3>3
  <2> QED
    BY <1>1, <2>1, <2>2, SeqEqual
<1>11. Adds(s, f, r) /\ Naturals(r) /\ Naturals(s)
  BY <1>4, <1>10, AddsCons
<1>12. 1 \in 1 .. Len(s)
  BY <1>1
<1> QED
  BY <1>2, <1>3, <1>4, <1>5, <1>6, <1>7, <1>8, <1>9, <1>11, <1>12

LEMMA FramesOf ==
  ASSUME NEW f \in FrameSet, NEW r \in Seq(FrameSet)
  PROVE  Frames(<<f>> \o r) = {f} \cup Frames(r)
<1>1. PICK t : t = <<f>> \o r
  OBVIOUS
<1>2. Len(r) \in Nat /\ Len(t) = Len(r) + 1 /\ t[1] = f /\ \A k \in 1 .. Len(r) : t[k + 1] = r[k]
  BY <1>1, ConsIs
<1>3. ASSUME NEW k \in 1 .. Len(t) PROVE t[k] \in {f} \cup Frames(r)
  <2>1. CASE k = 1
    BY <1>2, <2>1
  <2>2. CASE k # 1
    <3>1. k - 1 \in 1 .. Len(r) /\ (k - 1) + 1 = k
      BY <1>2, <2>2
    <3> QED
      BY <1>2, <3>1 DEF Frames
  <2> QED
    BY <2>1, <2>2
<1>4. f \in Frames(t)
  BY <1>2 DEF Frames
<1>5. ASSUME NEW k \in 1 .. Len(r) PROVE r[k] \in Frames(t)
  <2>1. k + 1 \in 1 .. Len(t)
    BY <1>2
  <2> QED
    BY <1>2, <2>1 DEF Frames
<1> QED
  BY <1>1, <1>3, <1>4, <1>5 DEF Frames

LEMMA NoFrame == Frames(<<>>) = {}
  BY DEF Frames

LEMMA FramesPopped ==
  ASSUME NEW s, Inner(s), s # <<>>
  PROVE  Frames(s) = {Head(s)} \cup Frames(Tail(s))
<1>1. PICK r : r = Tail(s)
  OBVIOUS
<1>2. s \in Seq(FrameSet) /\ Len(s) \in Nat /\ Len(s) # 0
  BY EmptySeq DEF Inner
<1>3. Len(r) = Len(s) - 1 /\ Head(s) = s[1] /\ \A k \in 1 .. Len(r) : r[k] = s[k + 1]
  BY <1>1, <1>2, HeadTailProperties
<1>4. ASSUME NEW k \in 1 .. Len(s) PROVE s[k] \in {Head(s)} \cup Frames(r)
  <2>1. CASE k = 1
    BY <1>3, <2>1
  <2>2. CASE k # 1
    <3>1. k - 1 \in 1 .. Len(r) /\ (k - 1) + 1 = k
      BY <1>2, <1>3, <2>2
    <3> QED
      BY <1>3, <3>1 DEF Frames
  <2> QED
    BY <2>1, <2>2
<1>5. Head(s) \in Frames(s)
  BY <1>2, <1>3 DEF Frames
<1>6. ASSUME NEW k \in 1 .. Len(r) PROVE r[k] \in Frames(s)
  <2>1. k + 1 \in 1 .. Len(s)
    BY <1>2, <1>3
  <2> QED
    BY <1>3, <2>1 DEF Frames
<1> QED
  BY <1>1, <1>4, <1>5, <1>6 DEF Frames

LEMMA OneFrame ==
  ASSUME NEW f, FrameOK(f), Ends(f)
  PROVE  /\ Inner(<<f>>) /\ <<f>>[1] = f /\ <<f>> # <<>> /\ Frames(<<f>>) = {f}
         /\ Adds(<<f>>, f, <<>>)
<1>1. PICK e : e = <<>>
  OBVIOUS
<1>2. Inner(e) /\ Frames(e) = {}
  BY <1>1, InnerEmpty, NoFrame
<1>3. f \in FrameSet /\ e \in Seq(FrameSet)
  BY <1>2 DEF FrameOK, Inner
<1>4. <<f>> \o e = <<f>>
  BY <1>1, <1>3
<1>5. /\ Inner(<<f>> \o e) /\ (<<f>> \o e)[1] = f /\ <<f>> \o e # <<>> /\ Adds(<<f>> \o e, f, e)
  BY <1>1, <1>2, Pushed
<1>6. Frames(<<f>> \o e) = {f}
  BY <1>2, <1>3, FramesOf
<1> QED
  BY <1>1, <1>4, <1>5, <1>6

LEMMA TwoFrames ==
  ASSUME NEW f, FrameOK(f), NEW g, FrameOK(g), Ends(g), Leads(f, g)
  PROVE  /\ Inner(<<f, g>>) /\ <<f, g>>[1] = f /\ <<f, g>> # <<>> /\ Frames(<<f, g>>) = {f, g}
         /\ Adds(<<f, g>>, f, <<g>>) /\ Adds(<<g>>, g, <<>>)
<1>1. PICK e : e = <<g>>
  OBVIOUS
<1>2. Inner(e) /\ Frames(e) = {g} /\ e[1] = g /\ e # <<>> /\ Adds(e, g, <<>>)
  BY <1>1, OneFrame
<1>3. f \in FrameSet /\ e \in Seq(FrameSet) /\ g \in FrameSet
  BY <1>2 DEF FrameOK, Inner
<1>4. <<f>> \o e = <<f, g>>
  <2>1. Len(e) = 1 /\ e[1] = g
    BY <1>1
  <2>2. PICK t : t = <<f>> \o e
    OBVIOUS
  <2>3. t \in Seq(FrameSet) /\ Len(t) = Len(e) + 1 /\ t[1] = f /\ \A k \in 1 .. Len(e) : t[k + 1] = e[k]
    BY <1>3, <2>2, ConsIs
  <2>4. t \in Seq(FrameSet) /\ Len(t) = 2 /\ t[1] = f /\ t[2] = g
    BY <2>1, <2>3
  <2>5. t = <<f, g>>
    BY <2>4
  <2> QED
    BY <2>2, <2>5
<1>5. /\ Inner(<<f>> \o e) /\ (<<f>> \o e)[1] = f /\ <<f>> \o e # <<>> /\ Adds(<<f>> \o e, f, e)
  BY <1>2, Pushed
<1>6. Frames(<<f>> \o e) = {f, g}
  BY <1>2, <1>3, FramesOf
<1> QED
  BY <1>1, <1>2, <1>4, <1>5, <1>6

\* What namex() returns an inode to: r has it as its first frame.
Continuation(r, want) ==
  /\ r \in Seq(FrameSet) /\ r # <<>> /\ Tail(r) \in Seq(FrameSet)
  /\ r[1] \in FrameSet /\ r[1].do \in Waiters /\ r[1].i = 0 /\ Want(r[1].do) = want
  /\ r[1].ip # 0 <=> r[1].do = "link_dp"
  /\ Frames(r) = {r[1]} \cup Frames(Tail(r))
  /\ Weightless(Tail(r)) /\ Adds(r, r[1], Tail(r))

LEMMA OneContinuation ==
  ASSUME NEW f \in FrameSet, f.do \in Waiters, f.i = 0, f.ip # 0 <=> f.do = "link_dp"
  PROVE  Continuation(<<f>>, Want(f.do)) /\ Frames(<<f>>) = {f}
<1>1. PICK e : e = <<>>
  OBVIOUS
<1>2. e \in Seq(FrameSet) /\ Frames(e) = {} /\ Weightless(e)
  BY <1>1, InnerEmpty, NoFrame, NoFrames
<1>3. PICK r : r = <<f>> \o e
  OBVIOUS
<1>4. r \in Seq(FrameSet) /\ r # <<>> /\ r[1] = f /\ Tail(r) = e
  BY <1>2, <1>3, ConsIs
<1>5. Adds(r, f, e)
  BY <1>2, <1>3, AddsCons
<1>6. Frames(r) = {f} \cup Frames(e)
  BY <1>2, <1>3, FramesOf
<1>7. r = <<f>>
  BY <1>1, <1>3
<1> QED
  BY <1>2, <1>4, <1>5, <1>6, <1>7 DEF Continuation

LEMMA AfterWalk ==
  ASSUME NEW s, Inner(s), s # <<>>, Head(s).do = "walk"
  PROVE  /\ Continuation(Tail(s), Head(s).arg) /\ Inner(Tail(s)) /\ Head(s).arg \in {"inode", "parent"}
         /\ Head(s).path \in Elems \ {<<>>}
<1>1. PICK r : r = Tail(s)
  OBVIOUS
<1>2. PICK w : w = Head(s)
  OBVIOUS
<1>3. FrameOK(w) /\ Inner(r) /\ r # <<>> /\ Leads(w, r[1]) /\ w.do = "walk"
  BY <1>1, <1>2, Popped DEF Ends
<1>4. w.arg \in {"inode", "parent"} /\ w.path \in Elems \ {<<>>}
  BY <1>3 DEF FrameOK
<1>5. r[1].do \in Waiters /\ r[1].i = 0 /\ Want(r[1].do) = w.arg
  BY <1>3 DEF Leads
<1>6. PICK g : g = r[1]
  OBVIOUS
<1>7. PICK u : u = Tail(r)
  OBVIOUS
<1>8. /\ FrameOK(g) /\ g \in FrameSet /\ Inner(u) /\ u \in Seq(FrameSet) /\ Adds(r, g, u)
      /\ u = <<>> => Ends(g)
      /\ u # <<>> => Leads(g, u[1])
  BY <1>3, <1>6, <1>7, Popped
<1>9. g.ip # 0 <=> g.do = "link_dp"
  <2>1. g.do # "unlink_ip"
    BY <1>5, <1>6 DEF Waiters
  <2> QED
    BY <1>8, <2>1 DEF FrameOK
<1>10. Weightless(u)
  <2>1. CASE u = <<>>
    BY <2>1, NoFrames
  <2>2. CASE u # <<>>
    <3>1. PICK h : h = u[1]
      OBVIOUS
    <3>2. g.do = "create" /\ h.i = 0 /\ h.do \in {"iunlockput", "opened"}
      BY <1>5, <1>6, <1>8, <2>2, <3>1 DEF Leads, Waiters
    <3>3. /\ FrameOK(h) /\ Inner(Tail(u)) /\ Adds(u, h, Tail(u))
          /\ Tail(u) # <<>> => Leads(h, Tail(u)[1])
      BY <1>8, <2>2, <3>1, Popped
    <3>4. Tail(u) = <<>>
      BY <3>2, <3>3 DEF Leads
    <3>5. h.ip = 0
      BY <3>2, <3>3 DEF FrameOK
    <3>6. Weightless(Tail(u))
      BY <3>4, NoFrames
    <3>7. ASSUME NEW i \in Inums PROVE FRefs(h, i) = 0 /\ FOwed(h, i) = 0 /\ FClaimed(h, i) = 0
      BY <3>2, <3>5, Constants DEF FRefs, FOwed, FClaimed, Eq
    <3>8. ASSUME NEW f \in Files PROVE FClosing(h, f) = 0
      BY <3>2 DEF FClosing
    <3> QED
      BY <3>3, <3>6, <3>7, <3>8 DEF Weightless, Adds
  <2> QED
    BY <2>1, <2>2
<1>11. Frames(r) = {g} \cup Frames(u)
  BY <1>3, <1>6, <1>7, FramesPopped, Popped
<1>12. r \in Seq(FrameSet)
  BY <1>3 DEF Inner
<1> QED
  BY <1>1, <1>2, <1>3, <1>4, <1>5, <1>6, <1>7, <1>8, <1>9, <1>10, <1>11, <1>12 DEF Continuation

LEMMA ThreeFrames ==
  ASSUME NEW f, FrameOK(f), NEW g, FrameOK(g), NEW h, FrameOK(h), Ends(h), Leads(f, g), Leads(g, h)
  PROVE  /\ Inner(<<f, g, h>>) /\ <<f, g, h>>[1] = f /\ <<f, g, h>> # <<>> /\ Frames(<<f, g, h>>) = {f, g, h}
         /\ Adds(<<f, g, h>>, f, <<g, h>>) /\ Adds(<<g, h>>, g, <<h>>) /\ Adds(<<h>>, h, <<>>)
<1>1. PICK e : e = <<g, h>>
  OBVIOUS
<1>2. Inner(e) /\ Frames(e) = {g, h} /\ e[1] = g /\ e # <<>> /\ Adds(e, g, <<h>>) /\ Adds(<<h>>, h, <<>>)
  BY <1>1, TwoFrames
<1>3. f \in FrameSet /\ e \in Seq(FrameSet) /\ g \in FrameSet
  BY <1>2 DEF FrameOK, Inner
<1>4. <<f>> \o e = <<f, g, h>>
  <2>1. Len(e) = 2 /\ e[1] = g /\ e[2] = h
    BY <1>1
  <2>2. PICK t : t = <<f>> \o e
    OBVIOUS
  <2>3. t \in Seq(FrameSet) /\ Len(t) = Len(e) + 1 /\ t[1] = f /\ \A k \in 1 .. Len(e) : t[k + 1] = e[k]
    BY <1>3, <2>2, ConsIs
  <2>4. t \in Seq(FrameSet) /\ Len(t) = 3 /\ t[1] = f /\ t[2] = g /\ t[3] = h
    BY <2>1, <2>3
  <2>5. t = <<f, g, h>>
    BY <2>4
  <2> QED
    BY <2>2, <2>5
<1>5. /\ Inner(<<f>> \o e) /\ (<<f>> \o e)[1] = f /\ <<f>> \o e # <<>> /\ Adds(<<f>> \o e, f, e)
  BY <1>2, Pushed
<1>6. Frames(<<f>> \o e) = {f, g, h}
  BY <1>2, <1>3, FramesOf
<1> QED
  BY <1>1, <1>2, <1>4, <1>5, <1>6

\* The frames t owe, hold and close what those of r do; they own one more reference, to i.
Alike(t, r) ==
  /\ \A j \in Inums : Owed(t, j) = Owed(r, j) /\ Claimed(t, j) = Claimed(r, j)
  /\ \A g \in Files : Closing(t, g) = Closing(r, g)
Owns(t, r, i) == \A j \in Inums : Refs(t, j) = Refs(r, j) + Eq(i, j)
\* frames that another one may come before
Good(t) == Inner(t) /\ (t # <<>> => ~Waiting(t[1]) /\ t[1].do \notin {"itrunc", "unref", "unlink_ip", "panic"})

LEMMA FrameIs ==
  ASSUME NEW d \in Dos, NEW i \in Inums \cup {0}, NEW ip \in Inums \cup {0},
         NEW path \in Seq(GoodPath) \cup Elems, NEW arg \in Args,
         NEW f, f = Frame(d, i, ip, path, arg)
  PROVE  f \in FrameSet /\ f.do = d /\ f.i = i /\ f.ip = ip /\ f.path = path /\ f.arg = arg
  BY DEF Frame, FrameSet

LEMMA PathlessIs ==
  ASSUME NEW d \in Dos, NEW i \in Inums \cup {0}, NEW ip \in Inums \cup {0}, NEW arg \in Args,
         NEW f, f = Frame(d, i, ip, <<>>, arg)
  PROVE  f \in FrameSet /\ f.do = d /\ f.i = i /\ f.ip = ip /\ f.arg = arg
<1>1. PICK e : e = <<>>
  OBVIOUS
<1>2. e \in Seq(GoodPath) \cup Elems
  BY <1>1 DEF Elems
<1>3. f = Frame(d, i, ip, e, arg)
  BY <1>1, Zenon
<1> QED
  BY <1>2, <1>3 DEF Frame, FrameSet

LEMMA IputIs ==
  ASSUME NEW i \in Inums
  PROVE  /\ FrameOK(Iput(i)) /\ Iput(i) \in FrameSet /\ Ends(Iput(i)) /\ ~Waiting(Iput(i))
         /\ Iput(i).do = "iput" /\ Iput(i).i = i /\ Iput(i).ip = 0
         /\ \A j \in Inums : FRefs(Iput(i), j) = Eq(i, j) /\ FOwed(Iput(i), j) = 0 /\ FClaimed(Iput(i), j) = 0
         /\ \A g \in Files : FClosing(Iput(i), g) = 0
         /\ \A g : ~Waiting(g) /\ g.do \notin {"itrunc", "unref", "unlink_ip", "panic"} => Leads(Iput(i), g)
<1>1. PICK f : f = Iput(i)
  OBVIOUS
<1>2. i # 0 /\ 0 \notin Inums
  BY Constants
<1>3. f \in FrameSet /\ f.do = "iput" /\ f.i = i /\ f.ip = 0
  <2>1. PICK d, z, a : d = "iput" /\ z = 0 /\ a = ""
    OBVIOUS
  <2>2. d \in Dos /\ a \in Args /\ i \in Inums \cup {0} /\ z \in Inums \cup {0}
    BY <2>1 DEF Dos, Args
  <2>3. f = Frame(d, i, z, <<>>, a)
    BY <1>1, <2>1 DEF Iput
  <2>4. f \in FrameSet /\ f.do = d /\ f.i = i /\ f.ip = z
    BY <2>2, <2>3, PathlessIs
  <2> QED
    BY <2>1, <2>4
<1>4. FrameOK(f) /\ Ends(f) /\ ~Waiting(f)
  BY <1>2, <1>3 DEF FrameOK, Ends, Waiting
<1>5. \A j \in Inums : FRefs(f, j) = Eq(i, j) /\ FOwed(f, j) = 0 /\ FClaimed(f, j) = 0
  BY <1>2, <1>3 DEF FRefs, FOwed, FClaimed, Eq
<1>6. \A g \in Files : FClosing(f, g) = 0
  BY <1>3 DEF FClosing
<1>7. \A g : ~Waiting(g) /\ g.do \notin {"itrunc", "unref", "unlink_ip", "panic"} => Leads(f, g)
  BY <1>3 DEF Leads
<1> QED
  BY <1>1, <1>3, <1>4, <1>5, <1>6, <1>7

LEMMA PushIput ==
  ASSUME NEW i \in Inums, NEW r, Good(r)
  PROVE  /\ Good(<<Iput(i)>> \o r) /\ Shape(<<Iput(i)>> \o r) /\ Frames(<<Iput(i)>> \o r) = {Iput(i)} \cup Frames(r)
         /\ Alike(<<Iput(i)>> \o r, r) /\ Owns(<<Iput(i)>> \o r, r, i)
<1>1. PICK t : t = <<Iput(i)>> \o r
  OBVIOUS
<1>2. Inner(t) /\ t[1] = Iput(i) /\ t # <<>> /\ Adds(t, Iput(i), r) /\ Naturals(r)
  BY <1>1, IputIs, Pushed DEF Good
<1>3. Frames(t) = {Iput(i)} \cup Frames(r)
  BY <1>1, IputIs, FramesOf DEF Good, Inner
<1>4. Alike(t, r) /\ Owns(t, r, i)
  BY <1>2, IputIs DEF Adds, Alike, Owns, Naturals
<1>5. Good(t) /\ Shape(t)
  BY <1>2, IputIs DEF Good, Shape
<1> QED
  BY <1>1, <1>3, <1>4, <1>5

LEMMA OneIput ==
  ASSUME NEW i \in Inums
  PROVE  /\ Good(<<Iput(i)>>) /\ Shape(<<Iput(i)>>) /\ Frames(<<Iput(i)>>) = {Iput(i)}
         /\ \A j \in Inums : Refs(<<Iput(i)>>, j) = Eq(i, j) /\ Owed(<<Iput(i)>>, j) = 0 /\ Claimed(<<Iput(i)>>, j) = 0
         /\ \A g \in Files : Closing(<<Iput(i)>>, g) = 0
<1>1. PICK t : t = <<Iput(i)>>
  OBVIOUS
<1>2. Inner(t) /\ t[1] = Iput(i) /\ t # <<>> /\ Frames(t) = {Iput(i)} /\ Adds(t, Iput(i), <<>>)
  BY <1>1, IputIs, OneFrame
<1>3. Good(t) /\ Shape(t)
  BY <1>2, IputIs DEF Good, Shape
<1>4. \A j \in Inums : Eq(i, j) \in Nat
  BY DEF Eq
<1>5. /\ \A j \in Inums : Refs(t, j) = Eq(i, j) /\ Owed(t, j) = 0 /\ Claimed(t, j) = 0
      /\ \A g \in Files : Closing(t, g) = 0
  BY <1>2, <1>4, IputIs, NoFrames DEF Adds, Weightless
<1> QED
  BY <1>1, <1>2, <1>3, <1>5

\* The frame that waits gets the inode, which it may hold from then on.
LEMMA Returned ==
  ASSUME NEW r, Inner(r), r # <<>>, Waiting(r[1]), NEW i \in Inums
  PROVE  /\ Good(Return(r, i)) /\ Shape(Return(r, i)) /\ Return(r, i) # <<>>
         /\ Frames(Return(r, i)) = {[r[1] EXCEPT !.i = i]} \cup Frames(Tail(r))
         /\ Frames(Tail(r)) \subseteq Frames(r) /\ r[1] \in Frames(r) /\ r[1] \in FrameSet
         /\ Owns(Return(r, i), r, i)
         /\ \A j \in Inums : /\ Owed(Return(r, i), j) = Owed(r, j)
                             /\ Claimed(Return(r, i), j) =
                                  Claimed(r, j) + IF r[1].do \in Waiters THEN 0 ELSE Eq(i, j)
         /\ \A g \in Files : Closing(Return(r, i), g) = Closing(r, g)
<1>1. PICK u : u = Tail(r)
  OBVIOUS
<1>2. PICK g : g = r[1]
  OBVIOUS
<1>3. /\ FrameOK(g) /\ g \in FrameSet /\ Inner(u) /\ Adds(r, g, u) /\ Naturals(u) /\ Naturals(r)
      /\ u = <<>> => Ends(g)
      /\ u # <<>> => Leads(g, u[1])
      /\ Frames(r) = {g} \cup Frames(u)
  BY <1>1, <1>2, Popped, FramesPopped
<1>4. PICK f : f = [g EXCEPT !.i = i]
  OBVIOUS
<1>5. f \in FrameSet /\ f.i = i /\ f.do = g.do /\ f.ip = g.ip /\ f.path = g.path /\ f.arg = g.arg
  BY <1>3, <1>4 DEF FrameSet
<1>6. g.i = 0 /\ g.do \in Waiters \cup {"iunlockput", "opened"} /\ i # 0
  BY <1>2, Constants DEF Waiting
<1>7. FrameOK(f)
  BY <1>3, <1>5, <1>6 DEF FrameOK, Waiters
<1>8. (u = <<>> => Ends(f)) /\ (u # <<>> => Leads(f, u[1]))
  BY <1>3, <1>5, <1>6 DEF Ends, Leads
<1>9. PICK t : t = Return(r, i)
  OBVIOUS
<1>10. t = <<f>> \o u
  BY <1>1, <1>2, <1>4, <1>9 DEF Return
<1>11. Inner(t) /\ t[1] = f /\ t # <<>> /\ Adds(t, f, u)
  BY <1>3, <1>7, <1>8, <1>10, Pushed
<1>12. Frames(t) = {f} \cup Frames(u)
  BY <1>3, <1>5, <1>10, FramesOf DEF Inner
<1>13. ~Waiting(f) /\ f.do \notin {"itrunc", "unref", "unlink_ip", "panic"}
  BY <1>5, <1>6 DEF Waiting, Waiters
<1>14. ASSUME NEW j \in Inums
       PROVE  /\ FRefs(f, j) = FRefs(g, j) + Eq(i, j) /\ FRefs(g, j) \in Nat /\ Eq(i, j) \in Nat
              /\ FOwed(f, j) = FOwed(g, j) /\ FOwed(f, j) \in Nat
              /\ FClaimed(g, j) = 0 /\ FClaimed(f, j) = IF g.do \in Waiters THEN 0 ELSE Eq(i, j)
  <2>1. j # 0
    BY Constants
  <2> QED
    BY <1>5, <1>6, <2>1 DEF FRefs, FOwed, FClaimed, Eq, Waiters
<1>15. ASSUME NEW h \in Files PROVE FClosing(f, h) = FClosing(g, h)
  BY <1>5 DEF FClosing
<1>16. Owns(t, r, i)
  BY <1>3, <1>11, <1>14 DEF Adds, Owns, Naturals
<1>17. /\ \A j \in Inums : /\ Owed(t, j) = Owed(r, j)
                           /\ Claimed(t, j) = Claimed(r, j) + IF g.do \in Waiters THEN 0 ELSE Eq(i, j)
       /\ \A h \in Files : Closing(t, h) = Closing(r, h)
  <2>1. ASSUME NEW j \in Inums
        PROVE  Owed(t, j) = Owed(r, j) /\ Claimed(t, j) = Claimed(r, j) + IF g.do \in Waiters THEN 0 ELSE Eq(i, j)
    <3>1. /\ Owed(t, j) = Owed(u, j) + FOwed(f, j) /\ Owed(r, j) = Owed(u, j) + FOwed(g, j)
          /\ Claimed(t, j) = Claimed(u, j) + FClaimed(f, j) /\ Claimed(r, j) = Claimed(u, j) + FClaimed(g, j)
          /\ Claimed(u, j) \in Nat
      BY <1>3, <1>11 DEF Adds, Naturals
    <3>2. Claimed(r, j) = Claimed(u, j)
      BY <1>14, <3>1
    <3> QED
      BY <1>14, <3>1, <3>2
  <2>2. ASSUME NEW h \in Files PROVE Closing(t, h) = Closing(r, h)
    BY <1>3, <1>11, <1>15 DEF Adds
  <2> QED
    BY <2>1, <2>2
<1> QED
  BY <1>1, <1>2, <1>3, <1>4, <1>9, <1>11, <1>12, <1>13, <1>16, <1>17 DEF Good, Shape

\* Without an inode only link() has something left to do.
LEMMA ReturnedZero ==
  ASSUME NEW r, NEW want, Continuation(r, want)
  PROVE  /\ Good(ReturnZero(r)) /\ Alike(ReturnZero(r), r) /\ \A j \in Inums : Refs(ReturnZero(r), j) = Refs(r, j)
         /\ \/ Frames(ReturnZero(r)) = {}
            \/ r[1].do = "link_dp" /\ Frames(ReturnZero(r)) = {Frame("link_bad", r[1].ip, 0, <<>>, "")}
         /\ r[1] \in Frames(r)
<1>1. PICK g : g = r[1]
  OBVIOUS
<1>2. PICK u : u = Tail(r)
  OBVIOUS
<1>3. /\ g \in FrameSet /\ g.do \in Waiters /\ g.i = 0 /\ (g.ip # 0 <=> g.do = "link_dp")
      /\ Weightless(u) /\ Adds(r, g, u) /\ g \in Frames(r)
  BY <1>1, <1>2 DEF Continuation
<1>4. PICK t : t = ReturnZero(r)
  OBVIOUS
<1>5. CASE g.do = "link_dp"
  <2>1. PICK f : f = Frame("link_bad", g.ip, 0, <<>>, "")
    OBVIOUS
  <2>2. g.ip \in Inums
    BY <1>3, <1>5 DEF FrameSet
  <2>3. f \in FrameSet /\ f.do = "link_bad" /\ f.i = g.ip /\ f.ip = 0
    <3>1. PICK d, b, z, a : b = g.ip /\ d = "link_bad" /\ z = 0 /\ a = ""
      OBVIOUS
    <3>2. d \in Dos /\ a \in Args /\ b \in Inums \cup {0} /\ z \in Inums \cup {0}
      BY <2>2, <3>1 DEF Dos, Args
    <3>3. f = Frame(d, b, z, <<>>, a)
      BY <2>1, <3>1
    <3>4. f \in FrameSet /\ f.do = d /\ f.i = b /\ f.ip = z
      BY <3>2, <3>3, PathlessIs
    <3> QED
      BY <3>1, <3>4
  <2>4. FrameOK(f) /\ Ends(f) /\ ~Waiting(f)
    BY <2>2, <2>3, Constants DEF FrameOK, Ends, Waiting, Waiters
  <2>5. t = <<f>>
    BY <1>1, <1>4, <1>5, <2>1 DEF ReturnZero
  <2>6. Inner(t) /\ t[1] = f /\ t # <<>> /\ Frames(t) = {f} /\ Adds(t, f, <<>>)
    BY <2>4, <2>5, OneFrame
  <2>7. ASSUME NEW j \in Inums
        PROVE  FRefs(f, j) = FRefs(g, j) /\ FOwed(f, j) = FOwed(g, j) /\ FClaimed(f, j) = 0 /\ FClaimed(g, j) = 0
               /\ FRefs(g, j) \in Nat /\ FOwed(g, j) \in Nat
    BY <1>3, <1>5, <2>3, Constants DEF FRefs, FOwed, FClaimed, Eq
  <2>8. ASSUME NEW h \in Files PROVE FClosing(f, h) = 0 /\ FClosing(g, h) = 0
    BY <1>5, <2>3 DEF FClosing
  <2>9. Alike(t, r) /\ \A j \in Inums : Refs(t, j) = Refs(r, j)
    BY <1>3, <2>6, <2>7, <2>8, NoFrames DEF Adds, Weightless, Alike
  <2>10. Good(t)
    BY <2>3, <2>4, <2>6 DEF Good
  <2> QED
    BY <1>1, <1>3, <1>4, <1>5, <2>1, <2>6, <2>9, <2>10
<1>6. CASE g.do # "link_dp"
  <2>1. t = <<>>
    BY <1>1, <1>4, <1>6 DEF ReturnZero
  <2>2. Good(t) /\ Frames(t) = {} /\ Weightless(t)
    BY <2>1, InnerEmpty, NoFrame, NoFrames DEF Good
  <2>3. ASSUME NEW j \in Inums PROVE FRefs(g, j) = 0 /\ FOwed(g, j) = 0 /\ FClaimed(g, j) = 0
    BY <1>3, <1>6, Constants DEF FRefs, FOwed, FClaimed, Eq, Waiters
  <2>4. ASSUME NEW h \in Files PROVE FClosing(g, h) = 0
    BY <1>3 DEF FClosing, Waiters
  <2>5. Alike(t, r) /\ \A j \in Inums : Refs(t, j) = Refs(r, j)
    BY <1>3, <2>2, <2>3, <2>4 DEF Adds, Weightless, Alike
  <2> QED
    BY <1>1, <1>3, <1>4, <2>2, <2>5
<1> QED
  BY <1>5, <1>6

\* The frames with which namex() goes on from ip own one more reference, to ip.
LEMMA NamexIs ==
  ASSUME NEW ip \in Inums, NEW path \in Elems, NEW want \in {"inode", "parent"}, NEW r, Continuation(r, want),
         path # <<>> \/ want = "inode" => Inner(r)
  PROVE  /\ Good(namex(ip, path, want, r)) /\ Owns(namex(ip, path, want, r), r, ip) /\ Alike(namex(ip, path, want, r), r)
         /\ \A f \in Frames(namex(ip, path, want, r)) :
              \/ f.do \in {"walk", "iput", "link", "open", "chdir"} /\ f.i = ip /\ f.ip = 0
              \/ f.do = "link_bad" /\ r[1].do = "link_dp" /\ f.i = r[1].ip /\ f.ip = 0
              \/ f \in Frames(r)
         /\ r[1] \in Frames(r)
<1>1. PICK t : t = namex(ip, path, want, r)
  OBVIOUS
<1>2. PICK g : g = r[1]
  OBVIOUS
<1>3. r # <<>> /\ g \in Frames(r) /\ g \in FrameSet /\ g.do \in Waiters /\ g.i = 0 /\ Want(g.do) = want /\ Waiting(g)
      /\ (g.ip # 0 <=> g.do = "link_dp")
  BY <1>2 DEF Continuation, Waiting
<1>4. CASE path # <<>>
  <2>1. PICK f : f = Frame("walk", ip, 0, path, want)
    OBVIOUS
  <2>2. f \in FrameSet /\ f.do = "walk" /\ f.i = ip /\ f.ip = 0 /\ f.path = path /\ f.arg = want
    <3>1. PICK d, z : d = "walk" /\ z = 0
      OBVIOUS
    <3>2. d \in Dos /\ want \in Args /\ ip \in Inums \cup {0} /\ z \in Inums \cup {0}
      BY <3>1 DEF Dos, Args
    <3>3. f = Frame(d, ip, z, path, want)
      BY <2>1, <3>1
    <3>4. f \in FrameSet /\ f.do = d /\ f.i = ip /\ f.ip = z /\ f.path = path /\ f.arg = want
      BY <3>2, <3>3, FrameIs
    <3> QED
      BY <3>1, <3>4
  <2>3. FrameOK(f)
    BY <1>4, <2>2, Constants DEF FrameOK
  <2>4. Leads(f, g)
    BY <1>3, <2>2 DEF Leads, Waiters
  <2>5. t = <<f>> \o r
    BY <1>1, <1>4, <2>1 DEF namex
  <2>6. Inner(t) /\ t[1] = f /\ t # <<>> /\ Adds(t, f, r) /\ Naturals(r)
    BY <1>2, <1>3, <1>4, <2>3, <2>4, <2>5, Pushed
  <2>7. Frames(t) = {f} \cup Frames(r)
    BY <1>4, <2>2, <2>5, FramesOf DEF Inner
  <2>8. \A j \in Inums : FRefs(f, j) = Eq(ip, j) /\ FOwed(f, j) = 0 /\ FClaimed(f, j) = 0
    BY <2>2, Constants DEF FRefs, FOwed, FClaimed, Eq
  <2>9. \A h \in Files : FClosing(f, h) = 0
    BY <2>2 DEF FClosing
  <2>10. Owns(t, r, ip) /\ Alike(t, r)
    BY <2>6, <2>8, <2>9 DEF Owns, Alike, Adds, Naturals
  <2>11. Good(t)
    BY <2>2, <2>6, Constants DEF Good, Waiting
  <2> QED
    BY <1>1, <1>2, <1>3, <2>2, <2>7, <2>10, <2>11
<1>5. CASE path = <<>> /\ want = "parent"
  <2>1. PICK u : u = ReturnZero(r)
    OBVIOUS
  <2>2. /\ Good(u) /\ Alike(u, r) /\ \A j \in Inums : Refs(u, j) = Refs(r, j)
        /\ \/ Frames(u) = {}
           \/ g.do = "link_dp" /\ Frames(u) = {Frame("link_bad", g.ip, 0, <<>>, "")}
    BY <1>2, <1>5, <2>1, ReturnedZero
  <2>3. t = <<Iput(ip)>> \o u
    BY <1>1, <1>5, <2>1 DEF namex
  <2>4. Good(t) /\ Frames(t) = {Iput(ip)} \cup Frames(u) /\ Alike(t, u) /\ Owns(t, u, ip)
    BY <2>2, <2>3, PushIput
  <2>5. Alike(t, r) /\ Owns(t, r, ip)
    BY <2>2, <2>4 DEF Alike, Owns
  <2>6. \A f \in Frames(t) : \/ f.do \in {"walk", "iput", "link", "open", "chdir"} /\ f.i = ip /\ f.ip = 0
                             \/ f.do = "link_bad" /\ g.do = "link_dp" /\ f.i = g.ip /\ f.ip = 0
    <3>1. PICK x : x = Frame("link_bad", g.ip, 0, <<>>, "")
      OBVIOUS
    <3>2. x.do = "link_bad" /\ x.i = g.ip /\ x.ip = 0
      BY <3>1 DEF Frame
    <3> QED
      BY <2>2, <2>4, <3>1, <3>2, IputIs
  <2> QED
    BY <1>1, <1>2, <1>3, <2>4, <2>5, <2>6
<1>6. CASE path = <<>> /\ want = "inode"
  <2>1. t = Return(r, ip)
    BY <1>1, <1>6 DEF namex
  <2>2. /\ Good(t) /\ Frames(t) = {[g EXCEPT !.i = ip]} \cup Frames(Tail(r)) /\ Frames(Tail(r)) \subseteq Frames(r)
        /\ Owns(t, r, ip)
        /\ \A j \in Inums : Owed(t, j) = Owed(r, j) /\ Claimed(t, j) = Claimed(r, j) + IF g.do \in Waiters THEN 0 ELSE Eq(ip, j)
        /\ \A h \in Files : Closing(t, h) = Closing(r, h)
    BY <1>2, <1>3, <1>6, <2>1, Returned
  <2>3. Naturals(r)
    BY NaturalsOf DEF Continuation
  <2>4. Alike(t, r)
    BY <1>3, <2>2, <2>3 DEF Alike, Naturals
  <2>5. g.do \in {"link", "open", "chdir"}
    BY <1>3, <1>6 DEF Want, Waiters
  <2>6. PICK f : f = [g EXCEPT !.i = ip]
    OBVIOUS
  <2>7. f.do = g.do /\ f.i = ip /\ f.ip = 0
    BY <1>3, <2>5, <2>6 DEF FrameSet
  <2> QED
    BY <1>1, <1>2, <1>3, <2>2, <2>4, <2>5, <2>6, <2>7
<1> QED
  BY <1>4, <1>5, <1>6

-----------------------------------------------------------------------------
(* Steps of one process. *)

LEMMA Stacked == ASSUME Shapes PROVE todo \in Stacks /\ \A p \in Procs : Inner(todo[p]) /\ todo[p] \in Seq(FrameSet)
  BY DEF Shapes, Stacks, Shape, Inner

\* An inode with one reference has one owner.
LEMMA RefOf ==
  ASSUME IInv, NEW q \in Procs, NEW k \in 1 .. Len(todo[q]), NEW i \in Inums, i \in {todo[q][k].i, todo[q][k].ip}
  PROVE  /\ icache[i].ref \in Nat /\ icache[i].ref >= 1
         /\ icache[i].ref = 1 =>
              /\ \A x \in Procs : cwd[x] # i
              /\ \A f \in Files : file[f].ip # i
              /\ \A x \in Procs : \A j \in 1 .. Len(todo[x]) : i \in {todo[x][j].i, todo[x][j].ip} => x = q /\ j = k
<1>1. todo \in Stacks /\ \A x \in Procs : todo[x] \in Seq(FrameSet) /\ Len(todo[x]) \in Nat
  BY Stacked DEF IInv
<1>2. PICK T : T = todo
  OBVIOUS
<1>3. PICK A : A = HasI(i)
  OBVIOUS
<1>4. PICK B : B = HasIp(i)
  OBVIOUS
<1>5. PICK c, d : c = Fiber(cwd, Procs, i) /\ d = Fiber(IpOf, Files, i)
  OBVIOUS
<1>6. icache[i].ref = c + d + TotalIn(T, A) + TotalIn(T, B)
  BY <1>2, <1>3, <1>4, <1>5 DEF IInv, RefsBalance, Kept, Total
<1>7. /\ c \in Nat /\ (c = 0 => \A x \in Procs : cwd[x] # i)
      /\ d \in Nat /\ (d = 0 => \A f \in Files : IpOf[f] # i)
  BY <1>5, Constants, FiberIs
<1>8. TotalIn(T, A) \in Nat /\ TotalIn(T, B) \in Nat
  BY <1>1, <1>2, TotalNone
<1>9. \A x \in Procs : \A j \in 1 .. Len(T[x]) :
        (T[x][j] \in A <=> T[x][j].i = i) /\ (T[x][j] \in B <=> T[x][j].ip = i)
  BY <1>1, <1>2, <1>3, <1>4 DEF HasI, HasIp
<1>10. T \in Stacks /\ k \in 1 .. Len(T[q])
  BY <1>1, <1>2
<1>11. CASE T[q][k] \in A
  <2>1. /\ TotalIn(T, A) >= 1
        /\ TotalIn(T, A) = 1 => \A x \in Procs, j \in Nat : j \in 1 .. Len(T[x]) /\ T[x][j] \in A => x = q /\ j = k
    BY <1>10, <1>11, TotalOne
  <2>2. icache[i].ref \in Nat /\ icache[i].ref >= 1 /\ (icache[i].ref = 1 => c = 0 /\ d = 0 /\ TotalIn(T, A) = 1 /\ TotalIn(T, B) = 0)
    BY <1>6, <1>7, <1>8, <2>1
  <2>3. TotalIn(T, B) = 0 => \A x \in Procs : \A j \in 1 .. Len(T[x]) : T[x][j] \notin B
    BY <1>10, TotalNone
  <2>4. \A f \in Files : IpOf[f] = file[f].ip
    BY DEF IpOf
  <2>5. ASSUME icache[i].ref = 1, NEW x \in Procs, NEW j \in 1 .. Len(todo[x]), i \in {todo[x][j].i, todo[x][j].ip}
        PROVE  x = q /\ j = k
    <3>1. T[x][j] \in A
      BY <1>2, <1>9, <2>2, <2>3, <2>5
    <3> QED
      BY <1>2, <2>1, <2>2, <2>5, <3>1
  <2> QED
    BY <1>7, <2>2, <2>4, <2>5
<1>12. CASE T[q][k] \in B
  <2>1. /\ TotalIn(T, B) >= 1
        /\ TotalIn(T, B) = 1 => \A x \in Procs, j \in Nat : j \in 1 .. Len(T[x]) /\ T[x][j] \in B => x = q /\ j = k
    BY <1>10, <1>12, TotalOne
  <2>2. icache[i].ref \in Nat /\ icache[i].ref >= 1 /\ (icache[i].ref = 1 => c = 0 /\ d = 0 /\ TotalIn(T, B) = 1 /\ TotalIn(T, A) = 0)
    BY <1>6, <1>7, <1>8, <2>1
  <2>3. TotalIn(T, A) = 0 => \A x \in Procs : \A j \in 1 .. Len(T[x]) : T[x][j] \notin A
    BY <1>10, TotalNone
  <2>4. \A f \in Files : IpOf[f] = file[f].ip
    BY DEF IpOf
  <2>5. ASSUME icache[i].ref = 1, NEW x \in Procs, NEW j \in 1 .. Len(todo[x]), i \in {todo[x][j].i, todo[x][j].ip}
        PROVE  x = q /\ j = k
    <3>1. T[x][j] \in B
      BY <1>2, <1>9, <2>2, <2>3, <2>5
    <3> QED
      BY <1>2, <2>1, <2>2, <2>5, <3>1
  <2> QED
    BY <1>7, <2>2, <2>4, <2>5
<1> QED
  BY <1>2, <1>9, <1>11, <1>12

\* What a process may use: what it owns, the root, what has a name; and an inode that nobody uses.
Named(i) == \E d \in Inums, n \in Names : entries[d][n] = i
Touches(p, i) == \/ todo[p] # <<>> /\ i \in {Top(p).i, Top(p).ip}
                 \/ cwd[p] = i \/ i = Root \/ Named(i) \/ dinode[i].type = "free"
Alone(p, i) == todo[p] # <<>> /\ Top(p).i = i /\ icache[i].ref = 1

\* A named inode has a link, and so has the root.
LEMMA LinkOf ==
  ASSUME IInv, NEW i \in Inums, Named(i) \/ i = Root
  PROVE  dinode[i].type # "free" /\ dinode[i].nlink \in Nat /\ dinode[i].nlink >= 1
<1>1. dinode[i].nlink \in Nat /\ \A j \in Inums, n \in Names : entries[j][n] \in Inums \cup {0}
  BY DEF IInv, TypeOK
<1>2. PICK N, W, S : N = NamesOf(i) /\ W = Total(OwesTo(i)) /\ S = SubdirsOf(i)
  OBVIOUS
<1>3. N \in Nat /\ (N = 0 => ~Named(i))
  <2>1. IsFiniteSet(Inums \X Names)
    BY Constants, FS_Product
  <2>2. N \in Nat /\ (N = 0 <=> \A x \in Inums \X Names : EntryOf[x] # i)
    BY <1>2, <2>1, FiberIs DEF NamesOf
  <2>3. ASSUME NEW d \in Inums, NEW n \in Names PROVE <<d, n>> \in Inums \X Names /\ EntryOf[<<d, n>>] = entries[d][n]
    BY DEF EntryOf
  <2>4. ASSUME N = 0, NEW d \in Inums, NEW n \in Names PROVE entries[d][n] # i
    <3>1. PICK x : x = <<d, n>>
      OBVIOUS
    <3> QED
      BY <2>2, <2>3, <2>4, <3>1
  <2> QED
    BY <2>2, <2>4 DEF Named
<1>4. W \in Nat
  BY <1>2, Stacked, TotalNone DEF IInv, Total
<1>5. S \in Nat
  BY <1>2, Constants, FiberIs DEF SubdirsOf
<1>6. dinode[i].type # "free"
  <2>1. CASE Named(i)
    BY <2>1, Constants DEF Named, IInv, LinksBalance
  <2>2. CASE i = Root
    BY <2>2 DEF IInv, LinksBalance
  <2> QED
    BY <2>1, <2>2
<1>7. CASE i \in lost
  BY <1>1, <1>2, <1>3, <1>4, <1>7 DEF IInv, LinksBalance
<1>8. CASE i \notin lost
  <2>1. dinode[i].nlink = N + S + W + (IF i = Root THEN 1 ELSE 0)
    BY <1>2, <1>6, <1>8 DEF IInv, LinksBalance
  <2>2. N >= 1 \/ i = Root
    BY <1>3
  <2> QED
    BY <1>1, <1>3, <1>4, <1>5, <1>6, <2>1, <2>2
<1> QED
  BY <1>7, <1>8

\* A process that frees only what it alone has a reference to, and writes only
\* directories that it holds, leaves the frames of others and those that it
\* comes to later as they have to be.
Careful(p) ==
  /\ \A i \in Inums : dinode[i].type # "free" /\ dinode'[i].type # dinode[i].type => Alone(p, i)
  /\ \A i \in Inums : icache'[i] # icache[i] => Touches(p, i)
  /\ \A i \in Inums : icache[i].valid /\ ~icache'[i].valid => Alone(p, i)
  /\ \A i \in Inums : entries'[i] # entries[i] => holder[i] \in {p, None} \/ dinode[i].type = "free"

LEMMA FrameStays ==
  ASSUME IInv, NEW p \in Procs, Careful(p), NEW q \in Procs, NEW k \in 1 .. Len(todo[q]), NEW f, f = todo[q][k],
         q = p => k # 1, cwd'[q] = 0 => cwd[q] = 0
  PROVE  Sound(q, f)'
<1>1. f \in FrameSet /\ FrameOK(f) /\ Sound(q, f) /\ Inner(todo[q]) /\ todo[q] \in Seq(FrameSet)
  BY Stacked DEF IInv, Shapes, Shape, Inner, SoundFrames, AllSound, Frames
<1>2. f.i \in Inums \cup {0} /\ f.ip \in Inums \cup {0}
  BY <1>1 DEF FrameSet
<1>3. \A i \in Inums : i \in {f.i, f.ip} => ~Alone(p, i)
  <2>1. SUFFICES ASSUME NEW i \in Inums, i \in {f.i, f.ip}, Alone(p, i) PROVE FALSE
    OBVIOUS
  <2>2. todo[p] # <<>> /\ todo[p] \in Seq(FrameSet) /\ Inner(todo[p])
    BY <2>1, Stacked DEF Alone, IInv
  <2>3. 1 \in 1 .. Len(todo[p]) /\ todo[p][1].i = i /\ icache[i].ref = 1
    BY <2>1, <2>2, Popped DEF Alone, Top
  <2>4. p = q /\ 1 = k
    BY <2>1, <2>3, RefOf
  <2> QED
    BY <2>4
<1>4. f.do # "unref" => \A j \in {f.i, f.ip} \ {0} : dinode'[j].type = dinode[j].type /\ dinode[j].type # "free"
  BY <1>1, <1>2, <1>3 DEF Sound, Careful
<1>5. ASSUME f.do = "unlink_ip" PROVE entries'[f.ip] = entries[f.ip] /\ icache'[f.ip].valid
  <2>1. f.ip \in Inums /\ f.ip # 0
    BY <1>1, <1>2, <1>5 DEF FrameOK
  <2>2. q # p
    <3>1. SUFFICES ASSUME q = p PROVE FALSE
      OBVIOUS
    <3>2. Len(todo[q]) \in Nat /\ k - 1 \in 1 .. Len(todo[q]) - 1 /\ (k - 1) + 1 = k
      BY <1>1, <3>1
    <3>3. Leads(todo[q][k - 1], f)
      BY <1>1, <3>2 DEF Inner
    <3> QED
      BY <1>5, <3>3 DEF Leads
  <2>3. holder[f.ip] = q
    <3>1. PICK b : b = f.ip
      OBVIOUS
    <3>2. f \in Claims(b)
      BY <1>1, <1>5, <3>1 DEF Claims
    <3>3. Count(todo[q], Claims(b)) # 0
      BY <1>1, <3>2, CountIs
    <3> QED
      BY <2>1, <3>1, <3>3 DEF IInv, HeldOnce
  <2>4. entries'[f.ip] = entries[f.ip]
    <3>1. dinode[f.ip].type # "free"
      BY <1>1, <1>5, <2>1 DEF Sound
    <3> QED
      BY <2>1, <2>2, <2>3, <3>1, Constants DEF Careful
  <2>5. icache'[f.ip].valid
    BY <1>1, <1>3, <1>5, <2>1 DEF Sound, Careful
  <2> QED
    BY <2>4, <2>5
<1>6. ASSUME f.do = "unlink_count" PROVE icache'[f.i].valid
  <2>1. f.i \in Inums
    BY <1>1, <1>2, <1>6 DEF FrameOK
  <2> QED
    BY <1>1, <1>3, <1>6, <2>1 DEF Sound, Careful
<1>7. ASSUME f.do = "itrunc" PROVE icache'[f.i] = icache[f.i]
  <2>1. f.i \in Inums /\ f.i # 0
    BY <1>1, <1>2, <1>7, Constants DEF FrameOK
  <2>2. q # p
    <3>1. SUFFICES ASSUME q = p PROVE FALSE
      OBVIOUS
    <3>2. Len(todo[q]) \in Nat /\ k - 1 \in 1 .. Len(todo[q]) - 1 /\ (k - 1) + 1 = k
      BY <1>1, <3>1
    <3>3. Leads(todo[q][k - 1], f)
      BY <1>1, <3>2 DEF Inner
    <3> QED
      BY <1>7, <3>3 DEF Leads
  <2>3. icache[f.i].valid /\ icache[f.i].nlink = 0 /\ icache[f.i].ref = 1
    BY <1>1, <1>7 DEF Sound
  <2>4. dinode[f.i].nlink = 0 /\ dinode[f.i].type # "free"
    BY <2>1, <2>3 DEF IInv, Coherent
  <2>5. ~Named(f.i) /\ f.i # Root
    BY <2>1, <2>4, LinkOf
  <2>6. cwd[p] # f.i
    BY <2>1, <2>3, RefOf
  <2>7. ASSUME todo[p] # <<>> PROVE f.i \notin {Top(p).i, Top(p).ip}
    <3>1. 1 \in 1 .. Len(todo[p]) /\ todo[p][1] = Top(p)
      BY <2>7, Stacked, Popped DEF Top, IInv
    <3> QED
      BY <2>1, <2>2, <2>3, <3>1, RefOf
  <2>8. ~Touches(p, f.i)
    BY <2>4, <2>5, <2>6, <2>7 DEF Touches
  <2> QED
    BY <2>1, <2>8 DEF Careful
<1>8. f.do # "unref" => \A j \in {f.i, f.ip} \ {0} : dinode'[j].type # "free"
  BY <1>4
<1>9. f.do \in {"link_dp", "unlink", "create"} /\ f.i # 0 => dinode'[f.i].type = "dir"
  BY <1>1, <1>4 DEF Sound
<1>10. f.do = "link_dp" => dinode'[f.ip].type = "file"
  BY <1>1, <1>4 DEF Sound, FrameOK
<1>11. f.do = "unlink_ip" => dinode'[f.ip].type = "dir" /\ entries'[f.ip][Last(f.path)] = f.i /\ icache'[f.ip].valid
  BY <1>1, <1>4, <1>5 DEF Sound, FrameOK
<1>12. f.do = "itrunc" => icache'[f.i].valid /\ icache'[f.i].nlink = 0 /\ icache'[f.i].ref = 1
  BY <1>1, <1>7 DEF Sound
<1>13. cwd'[q] = 0 => f.do \in {"iput", "itrunc", "unref"}
  BY <1>1 DEF Sound
<1> QED
  BY <1>6, <1>8, <1>9, <1>10, <1>11, <1>12, <1>13 DEF Sound

\* p goes on with the frames t.
Goes(p, t) == t \in Seq(FrameSet) /\ todo' = [todo EXCEPT ![p] = t]

LEMMA TotalStep ==
  ASSUME IInv, NEW p \in Procs, NEW t, Goes(p, t), NEW F
  PROVE  /\ Total(F)' = Total(F) - Count(todo[p], F) + Count(t, F)
         /\ Total(F) \in Nat /\ Count(todo[p], F) \in Nat /\ Count(t, F) \in Nat
<1>1. todo \in Stacks /\ t \in Seq(FrameSet) /\ todo[p] \in Seq(FrameSet)
  BY Stacked DEF IInv, Goes
<1>2. PICK T, U : T = todo /\ U = todo'
  OBVIOUS
<1>3. TotalIn(U, F) = TotalIn(T, F) - Count(T[p], F) + Count(t, F)
  <2>1. T \in Stacks /\ U \in Stacks /\ U[p] = t /\ \A q \in Procs \ {p} : U[q] = T[q]
    BY <1>1, <1>2 DEF Goes, Stacks
  <2>2. TotalIn(U, F) = TotalIn(T, F) - Count(T[p], F) + Count(U[p], F)
    BY <2>1, TotalChange
  <2> QED
    BY <2>1, <2>2
<1>4. TotalIn(T, F) \in Nat /\ Count(T[p], F) \in Nat /\ Count(t, F) \in Nat
  BY <1>1, <1>2, TotalNone, CountIs
<1> QED
  BY <1>2, <1>3, <1>4 DEF Total

LEMMA KeptNat == ASSUME NEW i PROVE Kept(i) \in Nat /\ Kept(i)' \in Nat
<1>1. Fiber(cwd, Procs, i) \in Nat /\ Fiber(IpOf, Files, i) \in Nat
  BY Constants, FiberIs
<1>2. Fiber(cwd', Procs, i) \in Nat /\ Fiber(IpOf', Files, i) \in Nat
  BY Constants, FiberIs
<1> QED
  BY <1>1, <1>2 DEF Kept

\* What the references to i gain, its owners do.
RefsMove(p, t) == \A i \in Inums :
  icache'[i].ref = icache[i].ref - Kept(i) + Kept(i)' - Refs(todo[p], i) + Refs(t, i)

LEMMA RefsStep ==
  ASSUME IInv, NEW p \in Procs, NEW t, Goes(p, t), RefsMove(p, t)
  PROVE  RefsBalance'
<1>1. ASSUME NEW i \in Inums
      PROVE  icache'[i].ref = Kept(i)' + Total(HasI(i))' + Total(HasIp(i))'
  <2>1. PICK A, B : A = HasI(i) /\ B = HasIp(i)
    OBVIOUS
  <2>2. /\ Total(A)' = Total(A) - Count(todo[p], A) + Count(t, A)
        /\ Total(A) \in Nat /\ Count(todo[p], A) \in Nat /\ Count(t, A) \in Nat
        /\ Total(B)' = Total(B) - Count(todo[p], B) + Count(t, B)
        /\ Total(B) \in Nat /\ Count(todo[p], B) \in Nat /\ Count(t, B) \in Nat
    BY TotalStep
  <2>3. Kept(i) \in Nat /\ Kept(i)' \in Nat
    BY KeptNat
  <2>4. icache[i].ref = Kept(i) + Total(A) + Total(B)
    BY <2>1 DEF IInv, RefsBalance
  <2>5. Refs(todo[p], i) = Count(todo[p], A) + Count(todo[p], B) /\ Refs(t, i) = Count(t, A) + Count(t, B)
    BY <2>1 DEF Refs
  <2>6. icache'[i].ref = Kept(i)' + Total(A)' + Total(B)'
    BY <2>2, <2>3, <2>4, <2>5 DEF RefsMove
  <2>7. HasI(i)' = A /\ HasIp(i)' = B
    BY <2>1 DEF HasI, HasIp
  <2> QED
    BY <2>1, <2>6
<1> QED
  BY <1>1 DEF RefsBalance

HoldsMove(p, t) == \A i \in Inums :
  /\ Claimed(t, i) = IF holder'[i] = p THEN 1 ELSE 0
  /\ \A q \in Procs \ {p} : holder'[i] = q <=> holder[i] = q

LEMMA HoldsStep ==
  ASSUME IInv, NEW p \in Procs, NEW t, Goes(p, t), HoldsMove(p, t)
  PROVE  HeldOnce'
<1>1. todo \in [Procs -> Seq(FrameSet)]
  BY DEF IInv, Shapes
<1>2. todo'[p] = t /\ \A q \in Procs \ {p} : todo'[q] = todo[q]
  BY <1>1 DEF Goes
<1>3. ASSUME NEW i \in Inums, NEW q \in Procs
      PROVE  Count(todo'[q], Claims(i)) = IF holder'[i] = q THEN 1 ELSE 0
  <2>1. CASE q = p
    BY <1>2, <2>1 DEF HoldsMove, Claimed
  <2>2. CASE q # p
    BY <1>2, <2>2 DEF HoldsMove, IInv, HeldOnce
  <2> QED
    BY <2>1, <2>2
<1> QED
  BY <1>3 DEF HeldOnce

FdsMove(p, t) ==
  /\ \A f \in Files : Closing(t, f) = Closing(todo[p], f)
  /\ file' = file /\ ofile' = ofile /\ \A q \in Procs : cwd'[q] = 0 => cwd[q] = 0

LEMMA FdsStay ==
  ASSUME IInv, NEW p \in Procs, NEW t, Goes(p, t), FdsMove(p, t)
  PROVE  FilesBalance'
<1>1. \A f \in Files : Total(Closes(f))' = Total(Closes(f))
  <2>1. TAKE f \in Files
  <2>2. PICK A : A = Closes(f)
    OBVIOUS
  <2>3. /\ Total(A)' = Total(A) - Count(todo[p], A) + Count(t, A)
        /\ Total(A) \in Nat /\ Count(todo[p], A) \in Nat /\ Count(t, A) \in Nat
    BY TotalStep
  <2>4. Count(t, A) = Count(todo[p], A)
    BY <2>2 DEF FdsMove, Closing
  <2>5. Closes(f)' = A
    BY <2>2 DEF Closes
  <2> QED
    BY <2>2, <2>3, <2>4, <2>5
<1>2. FdOf' = FdOf /\ file' = file /\ ofile' = ofile /\ \A q \in Procs : cwd'[q] = 0 => cwd[q] = 0
  BY DEF FdOf, FdsMove
<1>3. \A f \in Files : file'[f].ref = Fiber(FdOf', Procs \X Fds, f) + Total(Closes(f))'
  BY <1>1, <1>2 DEF IInv, FilesBalance
<1> QED
  BY <1>2, <1>3 DEF IInv, FilesBalance

LEMMA OwedStep ==
  ASSUME IInv, NEW p \in Procs, NEW t, Goes(p, t), NEW i \in Inums
  PROVE  /\ Total(OwesTo(i))' = Total(OwesTo(i)) - Owed(todo[p], i) + Owed(t, i)
         /\ Total(OwesTo(i)) \in Nat /\ Owed(todo[p], i) \in Nat /\ Owed(t, i) \in Nat
<1>1. PICK A : A = OwesTo(i)
  OBVIOUS
<1>2. /\ Total(A)' = Total(A) - Count(todo[p], A) + Count(t, A)
      /\ Total(A) \in Nat /\ Count(todo[p], A) \in Nat /\ Count(t, A) \in Nat
  BY TotalStep
<1>3. OwesTo(i)' = A
  BY <1>1 DEF OwesTo, Owes
<1> QED
  BY <1>1, <1>2, <1>3 DEF Owed

LinksMove(p, t) ==
  /\ dinode' = dinode /\ entries' = entries /\ lost' = lost
  /\ \A i \in Inums : Owed(t, i) = Owed(todo[p], i)

LEMMA LinksStay ==
  ASSUME IInv, NEW p \in Procs, NEW t, Goes(p, t), LinksMove(p, t)
  PROVE  LinksBalance'
<1>1. \A i \in Inums : Total(OwesTo(i))' = Total(OwesTo(i))
  <2>1. TAKE i \in Inums
  <2>2. /\ Total(OwesTo(i))' = Total(OwesTo(i)) - Owed(todo[p], i) + Owed(t, i)
        /\ Total(OwesTo(i)) \in Nat /\ Owed(todo[p], i) \in Nat /\ Owed(t, i) \in Nat
    BY OwedStep
  <2> QED
    BY <2>2 DEF LinksMove
<1>2. dinode' = dinode /\ entries' = entries /\ lost' = lost
  BY DEF LinksMove
<1>3. \A i : NamesOf(i)' = NamesOf(i) /\ SubdirsOf(i)' = SubdirsOf(i)
  BY <1>2 DEF NamesOf, EntryOf, SubdirsOf, DirOf, IsDir
<1>4. LinksBalance
  BY DEF IInv
<1>5. \A i \in Inums \ lost' : dinode'[i].type # "free" =>
        dinode'[i].nlink = NamesOf(i)' + SubdirsOf(i)' + Total(OwesTo(i))' + (IF i = Root THEN 1 ELSE 0)
  BY <1>1, <1>2, <1>3, <1>4 DEF LinksBalance
<1>6. lost \subseteq Inums
  BY DEF IInv, TypeOK
<1>7. \A i \in lost' : dinode'[i].type = "file" /\ dinode'[i].nlink >= NamesOf(i)' + Total(OwesTo(i))' + 1
  BY <1>1, <1>2, <1>3, <1>4, <1>6 DEF LinksBalance
<1> QED
  BY <1>2, <1>4, <1>5, <1>7 DEF LinksBalance

LEMMA FramesStep ==
  ASSUME IInv, NEW p \in Procs, NEW t, Goes(p, t), Careful(p), AllSound(p, t)',
         \A q \in Procs \ {p} : cwd'[q] = 0 => cwd[q] = 0
  PROVE  SoundFrames'
<1>1. todo \in [Procs -> Seq(FrameSet)]
  BY DEF IInv, Shapes
<1>2. todo'[p] = t /\ \A q \in Procs \ {p} : todo'[q] = todo[q]
  BY <1>1 DEF Goes
<1>3. ASSUME NEW q \in Procs, NEW f \in Frames(todo'[q]) PROVE Sound(q, f)'
  <2>1. CASE q = p
    BY <1>2, <1>3, <2>1 DEF AllSound
  <2>2. CASE q # p
    <3>1. PICK k \in 1 .. Len(todo[q]) : f = todo[q][k]
      BY <1>2, <1>3, <2>2 DEF Frames
    <3> QED
      BY <2>2, <3>1, FrameStays
  <2> QED
    BY <2>1, <2>2
<1> QED
  BY <1>3 DEF SoundFrames, AllSound

LEMMA RestStays ==
  ASSUME IInv, NEW p \in Procs, Careful(p), todo[p] # <<>>, cwd'[p] = 0 => cwd[p] = 0, NEW r, r = Rest(p)
  PROVE  AllSound(p, r)'
<1>1. Inner(todo[p])
  BY Stacked DEF IInv
<1>2. \A k \in 1 .. Len(r) : k + 1 \in 1 .. Len(todo[p]) /\ r[k] = todo[p][k + 1]
  BY <1>1, Popped DEF Rest
<1>3. ASSUME NEW f \in Frames(r) PROVE Sound(p, f)'
  <2>1. PICK k \in 1 .. Len(r) : f = r[k]
    BY <1>3 DEF Frames
  <2>2. PICK l : l = k + 1
    OBVIOUS
  <2>3. l \in 1 .. Len(todo[p]) /\ f = todo[p][l] /\ l # 1
    BY <1>2, <2>1, <2>2
  <2> QED
    BY <2>3, FrameStays
<1> QED
  BY <1>3 DEF AllSound

LEMMA ShapesStep ==
  ASSUME IInv, NEW p \in Procs, NEW t, Goes(p, t), Shape(t)
  PROVE  Shapes'
<1>1. todo \in [Procs -> Seq(FrameSet)] /\ \A q \in Procs : Shape(todo[q])
  BY DEF IInv, Shapes
<1>2. todo' \in [Procs -> Seq(FrameSet)] /\ \A q \in Procs : todo'[q] = IF q = p THEN t ELSE todo[q]
  BY <1>1 DEF Goes
<1>3. \A q \in Procs : Shape(todo'[q])
  BY <1>1, <1>2
<1> QED
  BY <1>2, <1>3 DEF Shapes

Inodes == [ref : Nat, valid : BOOLEAN, type : Types, nlink : Nat]

\* A step that writes nothing to the disk and no descriptors.
Memory(p, t) ==
  /\ dinode' = dinode /\ entries' = entries /\ lost' = lost /\ file' = file /\ ofile' = ofile /\ cwd' = cwd
  /\ icache' \in [Inums -> Inodes] /\ holder' \in [Inums -> Procs \cup {None}]
  /\ Goes(p, t) /\ Shape(t) /\ AllSound(p, t)'
  /\ \A i \in Inums : icache'[i].ref = icache[i].ref - Refs(todo[p], i) + Refs(t, i)
  /\ \A i \in Inums : icache'[i].valid =>
       icache'[i].type = dinode[i].type /\ icache'[i].nlink = dinode[i].nlink /\ dinode[i].type # "free"
  /\ \A i \in Inums : icache'[i] # icache[i] => Touches(p, i)
  /\ \A i \in Inums : icache[i].valid /\ ~icache'[i].valid => Alone(p, i)
  /\ HoldsMove(p, t)
  /\ \A i \in Inums : Owed(t, i) = Owed(todo[p], i)
  /\ \A f \in Files : Closing(t, f) = Closing(todo[p], f)

LEMMA MemoryStep ==
  ASSUME IInv, NEW p \in Procs, NEW t, Memory(p, t)
  PROVE  IInv'
<1>1. TypeOK'
  BY DEF Memory, IInv, TypeOK, Inodes
<1>2. Careful(p)
  BY DEF Memory, Careful
<1>3. RefsMove(p, t)
  <2>1. ASSUME NEW i \in Inums PROVE Kept(i)' = Kept(i) /\ Kept(i) \in Nat
    BY KeptNat DEF Memory, Kept, IpOf
  <2>2. \A i \in Inums : icache[i].ref \in Nat
    BY DEF IInv, TypeOK
  <2>3. Naturals(t) /\ Naturals(todo[p])
    BY NaturalsOf, Stacked DEF Memory, Goes, IInv
  <2> QED
    BY <2>1, <2>2, <2>3 DEF Memory, RefsMove, Naturals
<1>4. Shapes'
  BY ShapesStep DEF Memory
<1>5. SoundFrames'
  BY <1>2, FramesStep DEF Memory
<1>6. Coherent'
  BY DEF Memory, Coherent
<1>7. HeldOnce'
  BY HoldsStep DEF Memory
<1>8. RefsBalance'
  BY <1>3, RefsStep DEF Memory
<1>9. FilesBalance'
  <2>1. FdsMove(p, t)
    BY DEF Memory, FdsMove
  <2> QED
    BY <2>1, FdsStay DEF Memory
<1>10. LinksBalance'
  <2>1. LinksMove(p, t)
    BY DEF Memory, LinksMove
  <2> QED
    BY <2>1, LinksStay DEF Memory
<1>11. InUse'
  BY DEF Memory, IInv, InUse
<1> QED
  BY <1>1, <1>4, <1>5, <1>6, <1>7, <1>8, <1>9, <1>10, <1>11 DEF IInv

\* The frame that is next, and the others.
LEMMA TopIs ==
  ASSUME IInv, NEW p \in Procs, todo[p] # <<>>
  PROVE  /\ FrameOK(Top(p)) /\ Top(p) \in FrameSet /\ Top(p).i \in Inums \cup {0} /\ Top(p).ip \in Inums \cup {0}
         /\ ~Waiting(Top(p)) /\ Sound(p, Top(p))
         /\ Inner(Rest(p)) /\ Rest(p) \in Seq(FrameSet) /\ Adds(todo[p], Top(p), Rest(p))
         /\ Naturals(Rest(p)) /\ Naturals(todo[p])
         /\ Rest(p) = <<>> => Ends(Top(p))
         /\ Rest(p) # <<>> => Leads(Top(p), Rest(p)[1])
         /\ Top(p).do \notin {"walk", "create", "create_found"} => Good(Rest(p))
         /\ Top(p).do \in {"link", "link_dp", "link_bad", "unlink", "unlink_ip", "unlink_count", "opened", "open", "chdir", "exit"} =>
              Rest(p) = <<>> /\ Weightless(Rest(p))
         /\ Top(p) \in Frames(todo[p])
<1>1. Inner(todo[p]) /\ ~Waiting(todo[p][1])
  BY DEF IInv, Shapes, Shape
<1>2. PICK s, f, r : s = todo[p] /\ f = Top(p) /\ r = Rest(p)
  OBVIOUS
<1>3. /\ FrameOK(f) /\ f \in FrameSet /\ f = s[1] /\ 1 \in 1 .. Len(s)
      /\ Inner(r) /\ r \in Seq(FrameSet)
      /\ r = <<>> => Ends(f)
      /\ r # <<>> => Leads(f, r[1])
      /\ Adds(s, f, r) /\ Naturals(s) /\ Naturals(r)
  BY <1>1, <1>2, Popped DEF Top, Rest
<1>4. Sound(p, f) /\ f \in Frames(s)
  BY <1>2, <1>3 DEF IInv, SoundFrames, AllSound, Frames
<1>5. f.i \in Inums \cup {0} /\ f.ip \in Inums \cup {0}
  BY <1>3 DEF FrameSet
<1>6. f.do \notin {"walk", "create", "create_found"} => Good(r)
  BY <1>3 DEF Good, Leads
<1>7. f.do \in {"link", "link_dp", "link_bad", "unlink", "unlink_ip", "unlink_count", "opened", "open", "chdir", "exit"} =>
        r = <<>> /\ Weightless(r)
  BY <1>3, NoFrames DEF Leads
<1> QED
  BY <1>1, <1>2, <1>3, <1>4, <1>5, <1>6, <1>7

\* The sleep-locks.
LEMMA HoldsNothing ==
  ASSUME IInv, NEW p \in Procs, NEW t, holder' = holder, \A j \in Inums : Claimed(t, j) = Claimed(todo[p], j)
  PROVE  HoldsMove(p, t) /\ holder' \in [Inums -> Procs \cup {None}]
  BY DEF HoldsMove, IInv, TypeOK, HeldOnce, Claimed

LEMMA Holds ==
  ASSUME IInv, NEW p \in Procs, NEW t, NEW i \in Inums, CanLock(i), holder' = [holder EXCEPT ![i] = p],
         \A j \in Inums : Claimed(t, j) = Claimed(todo[p], j) + Eq(i, j)
  PROVE  HoldsMove(p, t) /\ holder' \in [Inums -> Procs \cup {None}]
<1>1. holder \in [Inums -> Procs \cup {None}] /\ None \notin Procs
  BY Constants DEF IInv, TypeOK
<1>2. \A j \in Inums : Claimed(todo[p], j) = IF holder[j] = p THEN 1 ELSE 0
  BY DEF IInv, HeldOnce, Claimed
<1>3. \A j \in Inums : holder'[j] = IF j = i THEN p ELSE holder[j]
  BY <1>1
<1> QED
  BY <1>1, <1>2, <1>3 DEF HoldsMove, CanLock, Eq

LEMMA Releases ==
  ASSUME IInv, NEW p \in Procs, NEW t, Naturals(t), NEW i \in Inums, holder' = [holder EXCEPT ![i] = None],
         \A j \in Inums : Claimed(t, j) + Eq(i, j) = Claimed(todo[p], j)
  PROVE  HoldsMove(p, t) /\ holder[i] = p /\ holder' \in [Inums -> Procs \cup {None}]
<1>1. holder \in [Inums -> Procs \cup {None}] /\ None \notin Procs
  BY Constants DEF IInv, TypeOK
<1>2. \A j \in Inums : Claimed(todo[p], j) = IF holder[j] = p THEN 1 ELSE 0
  BY DEF IInv, HeldOnce, Claimed
<1>3. \A j \in Inums : holder'[j] = IF j = i THEN None ELSE holder[j]
  BY <1>1
<1>4. \A j \in Inums : Claimed(t, j) \in Nat
  BY DEF Naturals
<1>5. holder[i] = p
  BY <1>2, <1>4 DEF Eq
<1> QED
  BY <1>1, <1>2, <1>3, <1>4, <1>5 DEF HoldsMove, Eq

\* The cache.
Fits(c) ==
  /\ c \in [Inums -> Inodes]
  /\ \A i \in Inums : c[i].valid => c[i].type = dinode[i].type /\ c[i].nlink = dinode[i].nlink /\ dinode[i].type # "free"

LEMMA CacheFits == ASSUME IInv PROVE Fits(icache)
  BY DEF IInv, TypeOK, Coherent, Fits, Inodes

LEMMA LockedFits ==
  ASSUME IInv, NEW i \in Inums, dinode[i].type # "free"
  PROVE  /\ Fits(Cache(i, Ilocked(i)))
         /\ \A k \in Inums : Cache(i, Ilocked(i))[k].ref = icache[k].ref
         /\ \A k \in Inums : k # i => Cache(i, Ilocked(i))[k] = icache[k]
         /\ \A k \in Inums : icache[k].valid => Cache(i, Ilocked(i))[k].valid
         /\ Cache(i, Ilocked(i))[i] = Ilocked(i)
         /\ Ilocked(i) \in Inodes /\ Ilocked(i).valid /\ Ilocked(i).ref = icache[i].ref
         /\ Ilocked(i).type = dinode[i].type /\ Ilocked(i).nlink = dinode[i].nlink
<1>1. icache \in [Inums -> Inodes] /\ dinode \in [Inums -> [type : Types, nlink : Nat]]
  BY DEF IInv, TypeOK, Inodes
<1>2. PICK in : in = Ilocked(i)
  OBVIOUS
<1>3. /\ in \in Inodes /\ in.valid /\ in.ref = icache[i].ref /\ in.type = dinode[i].type /\ in.nlink = dinode[i].nlink
  BY <1>1, <1>2 DEF Ilocked, Inodes, IInv, Coherent
<1>4. PICK c : c = Cache(i, in)
  OBVIOUS
<1>5. c \in [Inums -> Inodes] /\ \A k \in Inums : c[k] = IF k = i THEN in ELSE icache[k]
  BY <1>1, <1>3, <1>4 DEF Cache
<1>6. Fits(c)
  BY <1>3, <1>5 DEF Fits, IInv, Coherent
<1> QED
  BY <1>2, <1>3, <1>4, <1>5, <1>6

WithRef(c, j) == [c EXCEPT ![j].ref = @ + 1]

LEMMA RefFits ==
  ASSUME NEW c, Fits(c), NEW j \in Inums
  PROVE  /\ Fits(WithRef(c, j))
         /\ \A k \in Inums : WithRef(c, j)[k].ref = c[k].ref + Eq(j, k) /\ WithRef(c, j)[k].valid = c[k].valid
         /\ \A k \in Inums : k # j => WithRef(c, j)[k] = c[k]
<1>0. PICK d : d = WithRef(c, j)
  OBVIOUS
<1>1. c \in [Inums -> Inodes]
  BY DEF Fits
<1>2. PICK in : in = [c[j] EXCEPT !.ref = @ + 1]
  OBVIOUS
<1>3. in \in Inodes /\ in.ref = c[j].ref + 1 /\ in.valid = c[j].valid /\ in.type = c[j].type /\ in.nlink = c[j].nlink
  BY <1>1, <1>2 DEF Inodes
<1>4. d \in [Inums -> Inodes] /\ \A k \in Inums : d[k] = IF k = j THEN in ELSE c[k]
  BY <1>0, <1>1, <1>2, <1>3 DEF WithRef
<1>5. \A k \in Inums : c[k].ref \in Nat
  BY <1>1 DEF Inodes
<1>6. Fits(d) /\ \A k \in Inums : d[k].ref = c[k].ref + Eq(j, k) /\ d[k].valid = c[k].valid /\ (k # j => d[k] = c[k])
  BY <1>3, <1>4, <1>5 DEF Fits, Eq
<1> QED
  BY <1>0, <1>6

LEMMA IputSound ==
  ASSUME NEW p, NEW i \in Inums, dinode'[i].type # "free"
  PROVE  Sound(p, Iput(i))'
  BY IputIs DEF Sound

-----------------------------------------------------------------------------
(* iput() and namex(). *)

LEMMA IputUnrefStep == ASSUME IInv, NEW p \in Procs, IputUnref(p) PROVE IInv'
<1>1. PICK f, r, i : f = Top(p) /\ r = Rest(p) /\ i = f.i
  OBVIOUS
<1>2. todo[p] # <<>> /\ f.do = "unref"
  BY <1>1 DEF IputUnref, At, Top
<1>3. /\ FrameOK(f) /\ f.i \in Inums \cup {0} /\ Good(r) /\ r \in Seq(FrameSet) /\ Adds(todo[p], f, r) /\ Naturals(r)
      /\ Naturals(todo[p])
  BY <1>1, <1>2, TopIs
<1>4. i \in Inums /\ f.ip = 0 /\ 0 \notin Inums
  BY <1>1, <1>2, <1>3, Constants DEF FrameOK
<1>5. icache[i].ref \in Nat /\ icache[i].ref >= 1
  <2>1. 1 \in 1 .. Len(todo[p]) /\ todo[p][1].i = i
    BY <1>1, <1>2, Stacked, Popped DEF IInv, Top
  <2> QED
    BY <1>4, <2>1, RefOf
<1>6. /\ \A j \in Inums : /\ Refs(todo[p], j) = Refs(r, j) + Eq(i, j) /\ Owed(r, j) = Owed(todo[p], j)
                          /\ Claimed(r, j) = Claimed(todo[p], j)
      /\ \A g \in Files : Closing(r, g) = Closing(todo[p], g)
  BY <1>1, <1>2, <1>3, <1>4 DEF Adds, FRefs, FOwed, FClaimed, FClosing, Eq, Naturals
<1>7. Fits(icache) /\ icache \in [Inums -> Inodes]
  BY CacheFits DEF Fits
<1>8. PICK in : in = Unref(i)
  OBVIOUS
<1>9. /\ in \in Inodes /\ in.ref = icache[i].ref - 1
      /\ in.valid => icache[i].valid /\ in.type = icache[i].type /\ in.nlink = icache[i].nlink
      /\ icache[i].valid /\ ~in.valid => icache[i].ref = 1
  BY <1>4, <1>5, <1>7, <1>8 DEF Unref, Uncached, Inodes, Types
<1>10. \A k \in Inums : icache'[k] = IF k = i THEN in ELSE icache[k]
  BY <1>1, <1>7, <1>8 DEF IputUnref, Cache
<1>11. icache' \in [Inums -> Inodes]
  BY <1>1, <1>7, <1>8, <1>9 DEF IputUnref, Cache
<1>12. /\ dinode' = dinode /\ entries' = entries /\ lost' = lost /\ file' = file /\ ofile' = ofile /\ cwd' = cwd
       /\ holder' = holder /\ Goes(p, r)
  BY <1>1, <1>3 DEF IputUnref, disk, opened, Continue, Goes
<1>13. \A k \in Inums : icache'[k] # icache[k] => Touches(p, k)
  BY <1>1, <1>2, <1>10 DEF Touches
<1>14. \A k \in Inums : icache[k].valid /\ ~icache'[k].valid => Alone(p, k)
  BY <1>1, <1>2, <1>9, <1>10 DEF Alone
<1>15. \A k \in Inums : icache'[k].valid =>
         icache'[k].type = dinode[k].type /\ icache'[k].nlink = dinode[k].nlink /\ dinode[k].type # "free"
  BY <1>7, <1>9, <1>10 DEF Fits
<1>16. \A k \in Inums : icache'[k].ref = icache[k].ref - Refs(todo[p], k) + Refs(r, k)
  <2>1. TAKE k \in Inums
  <2>2. icache[k].ref \in Nat /\ Refs(r, k) \in Nat
    BY <1>3, <1>7 DEF Inodes, Naturals
  <2> QED
    BY <1>5, <1>6, <1>9, <1>10, <2>2 DEF Eq
<1>17. HoldsMove(p, r) /\ holder' \in [Inums -> Procs \cup {None}]
  BY <1>6, <1>12, HoldsNothing
<1>18. AllSound(p, r)'
  <2>1. Careful(p)
    BY <1>12, <1>13, <1>14 DEF Careful
  <2> QED
    BY <1>1, <1>2, <1>12, <2>1, RestStays
<1>19. Shape(r)
  BY <1>3 DEF Good, Shape
<1>20. Memory(p, r)
  BY <1>6, <1>11, <1>12, <1>13, <1>14, <1>15, <1>16, <1>17, <1>18, <1>19 DEF Memory
<1> QED
  BY <1>20, MemoryStep

LEMMA IunlockputStepStep == ASSUME IInv, NEW p \in Procs, IunlockputStep(p) PROVE IInv'
<1>1. PICK f, r, i : f = Top(p) /\ r = Rest(p) /\ i = f.i
  OBVIOUS
<1>2. todo[p] # <<>> /\ f.do = "iunlockput"
  BY <1>1 DEF IunlockputStep, At, Top
<1>3. /\ FrameOK(f) /\ f.i \in Inums \cup {0} /\ Good(r) /\ r \in Seq(FrameSet) /\ Adds(todo[p], f, r) /\ Naturals(r)
      /\ Naturals(todo[p]) /\ ~Waiting(f) /\ Sound(p, f)
  BY <1>1, <1>2, TopIs
<1>4. i \in Inums /\ f.ip = 0 /\ 0 \notin Inums
  BY <1>1, <1>2, <1>3, Constants DEF FrameOK, Waiting
<1>5. PICK t : t = <<Iput(i)>> \o r
  OBVIOUS
<1>6. Good(t) /\ Shape(t) /\ Frames(t) = {Iput(i)} \cup Frames(r) /\ Alike(t, r) /\ Owns(t, r, i)
  BY <1>3, <1>4, <1>5, PushIput
<1>7. t \in Seq(FrameSet) /\ Naturals(t)
  BY <1>6, NaturalsOf DEF Good, Inner
<1>8. /\ \A j \in Inums : /\ Refs(t, j) = Refs(todo[p], j) /\ Owed(t, j) = Owed(todo[p], j)
                          /\ Claimed(t, j) + Eq(i, j) = Claimed(todo[p], j)
      /\ \A g \in Files : Closing(t, g) = Closing(todo[p], g)
  BY <1>1, <1>2, <1>3, <1>4, <1>6, SMTT(30) DEF Adds, FRefs, FOwed, FClaimed, FClosing, Eq, Naturals, Alike, Owns
<1>9. /\ dinode' = dinode /\ entries' = entries /\ lost' = lost /\ file' = file /\ ofile' = ofile /\ cwd' = cwd
      /\ icache' = icache /\ holder' = [holder EXCEPT ![i] = None] /\ Goes(p, t)
  BY <1>1, <1>5, <1>7 DEF IunlockputStep, disk, opened, Continue, Goes
<1>10. Fits(icache)
  BY CacheFits
<1>11. HoldsMove(p, t) /\ holder' \in [Inums -> Procs \cup {None}]
  BY <1>4, <1>7, <1>8, <1>9, Releases
<1>12. AllSound(p, t)'
  <2>1. Careful(p)
    BY <1>9 DEF Careful
  <2>2. AllSound(p, r)'
    BY <1>1, <1>2, <1>9, <2>1, RestStays
  <2>3. dinode'[i].type # "free"
    BY <1>1, <1>2, <1>3, <1>4, <1>9 DEF Sound
  <2>4. Sound(p, Iput(i))'
    BY <1>4, <2>3, IputSound
  <2> QED
    BY <1>6, <2>2, <2>4 DEF AllSound
<1>13. \A k \in Inums : icache'[k].ref = icache[k].ref - Refs(todo[p], k) + Refs(t, k)
  BY <1>3, <1>8, <1>9, <1>10 DEF Naturals, Fits, Inodes
<1>14. Memory(p, t)
  BY <1>6, <1>8, <1>9, <1>10, <1>11, <1>12, <1>13 DEF Memory, Fits
<1> QED
  BY <1>14, MemoryStep

LEMMA IputTestStep == ASSUME IInv, NEW p \in Procs, IputTest(p) PROVE IInv'
<1>1. PICK f, r, i : f = Top(p) /\ r = Rest(p) /\ i = f.i
  OBVIOUS
<1>2. todo[p] # <<>> /\ f.do = "iput" /\ CanLock(i)
  BY <1>1 DEF IputTest, At, Top
<1>3. /\ FrameOK(f) /\ f \in FrameSet /\ f.i \in Inums \cup {0} /\ Good(r) /\ r \in Seq(FrameSet)
      /\ Adds(todo[p], f, r) /\ Naturals(r) /\ Naturals(todo[p]) /\ Sound(p, f)
      /\ r # <<>> => Leads(f, r[1])
  BY <1>1, <1>2, TopIs
<1>4. i \in Inums /\ f.ip = 0 /\ 0 \notin Inums
  BY <1>1, <1>2, <1>3, Constants DEF FrameOK
<1>5. PICK do : do = IF Unused(i) THEN "itrunc" ELSE "unref"
  OBVIOUS
<1>6. PICK g : g = [f EXCEPT !.do = do]
  OBVIOUS
<1>7. g \in FrameSet /\ g.do = do /\ g.i = i /\ g.ip = 0
  BY <1>1, <1>3, <1>4, <1>5, <1>6 DEF FrameSet, Dos
<1>8. FrameOK(g) /\ Ends(g) /\ ~Waiting(g) /\ (r # <<>> => Leads(g, r[1]))
  BY <1>2, <1>3, <1>4, <1>5, <1>7 DEF FrameOK, Ends, Waiting, Waiters, Leads
<1>9. PICK t : t = <<g>> \o r
  OBVIOUS
<1>10. Inner(t) /\ t[1] = g /\ t # <<>> /\ Adds(t, g, r) /\ Frames(t) = {g} \cup Frames(r)
  BY <1>3, <1>7, <1>8, <1>9, Pushed, FramesOf DEF Good
<1>11. t \in Seq(FrameSet) /\ Naturals(t) /\ Shape(t)
  BY <1>8, <1>10, NaturalsOf DEF Inner, Shape
<1>12. /\ \A j \in Inums : /\ Refs(t, j) = Refs(todo[p], j) /\ Owed(t, j) = Owed(todo[p], j)
                           /\ Claimed(t, j) = Claimed(todo[p], j) + IF Unused(i) THEN Eq(i, j) ELSE 0
       /\ \A h \in Files : Closing(t, h) = Closing(todo[p], h)
  <2>1. ASSUME NEW j \in Inums
        PROVE  /\ FRefs(g, j) = FRefs(f, j) /\ FOwed(g, j) = 0 /\ FOwed(f, j) = 0
               /\ FClaimed(f, j) = 0 /\ FClaimed(g, j) = IF Unused(i) THEN Eq(i, j) ELSE 0
               /\ FRefs(f, j) \in Nat /\ Eq(i, j) \in Nat
    BY <1>1, <1>2, <1>4, <1>5, <1>7 DEF FRefs, FOwed, FClaimed, Eq
  <2>2. ASSUME NEW h \in Files PROVE FClosing(g, h) = 0 /\ FClosing(f, h) = 0
    BY <1>2, <1>5, <1>7 DEF FClosing
  <2> QED
    BY <1>3, <1>10, <2>1, <2>2 DEF Adds, Naturals
<1>13. /\ dinode' = dinode /\ entries' = entries /\ lost' = lost /\ file' = file /\ ofile' = ofile /\ cwd' = cwd
       /\ icache' = icache /\ Goes(p, t)
  BY <1>1, <1>5, <1>6, <1>9, <1>11 DEF IputTest, disk, opened, Continue, Goes
<1>14. Fits(icache)
  BY CacheFits
<1>15. HoldsMove(p, t) /\ holder' \in [Inums -> Procs \cup {None}]
  <2>1. CASE Unused(i)
    <3>1. holder' = [holder EXCEPT ![i] = p]
      BY <1>1, <2>1 DEF IputTest
    <3>2. \A j \in Inums : Claimed(t, j) = Claimed(todo[p], j) + Eq(i, j)
      BY <1>12, <2>1
    <3> QED
      BY <1>2, <1>4, <3>1, <3>2, Holds
  <2>2. CASE ~Unused(i)
    <3>1. holder' = holder
      BY <1>1, <2>2 DEF IputTest
    <3>2. \A j \in Inums : Claimed(t, j) = Claimed(todo[p], j)
      BY <1>3, <1>12, <2>2 DEF Naturals
    <3> QED
      BY <3>1, <3>2, HoldsNothing
  <2> QED
    BY <2>1, <2>2
<1>16. AllSound(p, t)'
  <2>1. Careful(p)
    BY <1>13 DEF Careful
  <2>2. AllSound(p, r)'
    BY <1>1, <1>2, <1>13, <2>1, RestStays
  <2>3. dinode'[i].type # "free"
    BY <1>1, <1>2, <1>3, <1>4, <1>13 DEF Sound
  <2>4. Sound(p, g)'
    BY <1>5, <1>7, <1>13, <2>3 DEF Sound, Unused
  <2> QED
    BY <1>10, <2>2, <2>4 DEF AllSound
<1>17. \A k \in Inums : icache'[k].ref = icache[k].ref - Refs(todo[p], k) + Refs(t, k)
  BY <1>3, <1>12, <1>13, <1>14 DEF Naturals, Fits, Inodes
<1>18. Memory(p, t)
  BY <1>11, <1>12, <1>13, <1>14, <1>15, <1>16, <1>17 DEF Memory, Fits
<1> QED
  BY <1>18, MemoryStep

\* The frames with which namex() goes on are sound if the inode is in use.
NamexFrames(t, r, ip) ==
  /\ r[1] \in Frames(r)
  /\ \A f \in Frames(t) : \/ f.do \in {"walk", "iput", "link", "open", "chdir"} /\ f.i = ip /\ f.ip = 0
                          \/ f.do = "link_bad" /\ r[1].do = "link_dp" /\ f.i = r[1].ip /\ f.ip = 0
                          \/ f \in Frames(r)

LEMMA NamexSound ==
  ASSUME NEW p \in Procs, NEW t, NEW r, NEW ip \in Inums, NamexFrames(t, r, ip),
         AllSound(p, r)', dinode'[ip].type # "free", cwd'[p] # 0
  PROVE  AllSound(p, t)'
<1>1. ASSUME NEW f \in Frames(t) PROVE Sound(p, f)'
  <2>1. CASE f.do \in {"walk", "iput", "link", "open", "chdir"} /\ f.i = ip /\ f.ip = 0
    BY <2>1 DEF Sound
  <2>2. CASE f.do = "link_bad" /\ r[1].do = "link_dp" /\ f.i = r[1].ip /\ f.ip = 0
    <3>1. Sound(p, r[1])'
      BY DEF AllSound, NamexFrames
    <3>2. dinode'[f.i].type # "free"
      BY <2>2, <3>1 DEF Sound
    <3> QED
      BY <2>2, <3>2 DEF Sound
  <2>3. CASE f \in Frames(r)
    BY <2>3 DEF AllSound
  <2> QED
    BY <1>1, <2>1, <2>2, <2>3 DEF NamexFrames
<1> QED
  BY <1>1 DEF AllSound

\* What a directory names is in use.
LEMMA NextIs ==
  ASSUME IInv, NEW d \in Inums, dinode[d].type = "dir", NEW n \in Names \cup {"."}, entries[d][n] # 0
  PROVE  /\ entries[d][n] \in Inums /\ dinode[entries[d][n]].type # "free"
         /\ entries[d][n] = d \/ Named(entries[d][n])
<1>1. entries[d][n] \in Inums
  BY DEF IInv, TypeOK, Dots
<1>2. CASE n = "."
  BY <1>1, <1>2 DEF IInv, LinksBalance
<1>3. CASE n # "."
  BY <1>1, <1>3 DEF IInv, LinksBalance, Named
<1> QED
  BY <1>2, <1>3

LEMMA PathIs ==
  ASSUME NEW path \in Elems, path # <<>>
  PROVE  Head(path) \in Names \cup {"."} /\ Last(path) \in Names \cup {"."} /\ Tail(path) \in Elems
<1>1. Len(path) \in Nat /\ Len(path) # 0 /\ \A k \in 1 .. Len(path) : path[k] \in Names \cup {"."}
  BY DEF Elems
<1>2. Head(path) \in Names \cup {"."} /\ Tail(path) \in Elems
  BY HeadTailProperties DEF Elems
<1>3. Last(path) = path[Len(path)]
  BY DEF Last
<1>4. Len(path) \in 1 .. Len(path)
  BY <1>1
<1> QED
  BY <1>1, <1>2, <1>3, <1>4

LEMMA WalkElementStep == ASSUME IInv, NEW p \in Procs, WalkElement(p) PROVE IInv'
<1>1. PICK f, r, i : f = Top(p) /\ r = Rest(p) /\ i = f.i
  OBVIOUS
<1>2. todo[p] # <<>> /\ f.do = "walk" /\ CanLock(i)
  BY <1>1 DEF WalkElement, At, Top
<1>3. /\ FrameOK(f) /\ f \in FrameSet /\ f.i \in Inums \cup {0} /\ Inner(r) /\ r \in Seq(FrameSet)
      /\ Adds(todo[p], f, r) /\ Naturals(r) /\ Naturals(todo[p]) /\ Sound(p, f)
  BY <1>1, <1>2, TopIs
<1>4. i \in Inums /\ f.ip = 0 /\ 0 \notin Inums
  BY <1>1, <1>2, <1>3, Constants DEF FrameOK
<1>5. Continuation(r, f.arg) /\ f.arg \in {"inode", "parent"} /\ f.path \in Elems \ {<<>>}
  BY <1>1, <1>2, Stacked, AfterWalk DEF IInv, Top, Rest
<1>6. Head(f.path) \in Names \cup {"."} /\ Tail(f.path) \in Elems
  BY <1>5, PathIs
<1>7. dinode[i].type # "free" /\ cwd[p] # 0
  BY <1>1, <1>2, <1>3, <1>4 DEF Sound
<1>8. PICK in, next : in = Ilocked(i) /\ next = entries[i][Head(f.path)]
  OBVIOUS
<1>9. PICK c : c = Cache(i, in)
  OBVIOUS
<1>10. /\ Fits(c) /\ in.type = dinode[i].type
       /\ \A k \in Inums : c[k].ref = icache[k].ref
       /\ \A k \in Inums : k # i => c[k] = icache[k]
       /\ \A k \in Inums : icache[k].valid => c[k].valid
  BY <1>4, <1>7, <1>8, <1>9, LockedFits
<1>11. /\ dinode' = dinode /\ entries' = entries /\ lost' = lost /\ file' = file /\ ofile' = ofile /\ cwd' = cwd
       /\ holder' = holder
  BY DEF WalkElement, disk, opened
<1>12. /\ \A j \in Inums : /\ Refs(todo[p], j) = Refs(r, j) + Eq(i, j) /\ Owed(todo[p], j) = Owed(r, j)
                           /\ Claimed(todo[p], j) = Claimed(r, j)
       /\ \A g \in Files : Closing(todo[p], g) = Closing(r, g)
  BY <1>1, <1>2, <1>3, <1>4 DEF Adds, FRefs, FOwed, FClaimed, FClosing, Eq, Naturals
<1>13. Touches(p, i)
  BY <1>1, <1>2 DEF Touches
<1>14. Fits(icache)
  BY CacheFits
<1>19. \A k \in Inums : icache[k].ref \in Nat /\ Refs(r, k) \in Nat /\ \A j : Eq(j, k) \in Nat
  BY <1>3, <1>14 DEF Naturals, Fits, Inodes, Eq
\* what each turn has to show of the frames t and the cache
<1>15. ASSUME NEW t, Goes(p, t), Good(t), Alike(t, r), AllSound(p, r)' => AllSound(p, t)', Fits(icache'),
              \A k \in Inums : icache'[k].ref = icache[k].ref - Refs(todo[p], k) + Refs(t, k),
              \A k \in Inums : icache'[k] # icache[k] => Touches(p, k),
              \A k \in Inums : icache[k].valid => icache'[k].valid
       PROVE  IInv'
  <2>1. AllSound(p, t)'
    <3>1. Careful(p)
      BY <1>11, <1>15 DEF Careful
    <3>2. AllSound(p, r)'
      BY <1>1, <1>2, <1>11, <3>1, RestStays
    <3> QED
      BY <1>15, <3>2
  <2>2. \A j \in Inums : Owed(t, j) = Owed(todo[p], j) /\ Claimed(t, j) = Claimed(todo[p], j)
    BY <1>12, <1>15 DEF Alike
  <2>3. \A g \in Files : Closing(t, g) = Closing(todo[p], g)
    BY <1>12, <1>15 DEF Alike
  <2>4. HoldsMove(p, t) /\ holder' \in [Inums -> Procs \cup {None}]
    BY <1>11, <2>2, HoldsNothing
  <2>5. Shape(t)
    BY <1>15 DEF Good, Shape
  <2>6. Memory(p, t)
    BY <1>11, <1>15, <2>1, <2>2, <2>3, <2>4, <2>5 DEF Memory, Fits
  <2> QED
    BY <2>6, MemoryStep
<1>16. CASE in.type # "dir" \/ (next = 0 /\ ~(f.arg = "parent" /\ Len(f.path) = 1))
  <2>1. icache' = c /\ todo' = [todo EXCEPT ![p] = <<Iput(i)>> \o ReturnZero(r)]
    BY <1>1, <1>8, <1>9, <1>16 DEF WalkElement, Continue
  <2>2. PICK u, t : u = ReturnZero(r) /\ t = <<Iput(i)>> \o u
    OBVIOUS
  <2>3. /\ Good(u) /\ Alike(u, r) /\ r[1] \in Frames(r) /\ \A j \in Inums : Refs(u, j) = Refs(r, j)
        /\ Frames(u) = {} \/ (r[1].do = "link_dp" /\ Frames(u) = {Frame("link_bad", r[1].ip, 0, <<>>, "")})
    BY <1>5, <2>2, ReturnedZero
  <2>4. Good(t) /\ Frames(t) = {Iput(i)} \cup Frames(u) /\ Alike(t, u) /\ Owns(t, u, i)
    BY <1>4, <2>2, <2>3, PushIput
  <2>5. Goes(p, t)
    BY <2>1, <2>2, <2>4 DEF Goes, Good, Inner
  <2>6. NamexFrames(t, r, i)
    <3>1. PICK x : x = Frame("link_bad", r[1].ip, 0, <<>>, "")
      OBVIOUS
    <3>2. x.do = "link_bad" /\ x.i = r[1].ip /\ x.ip = 0
      BY <3>1 DEF Frame
    <3> QED
      BY <1>4, <2>3, <2>4, <3>1, <3>2, IputIs, ZenonT(60) DEF NamexFrames
  <2>7. AllSound(p, r)' => AllSound(p, t)'
    BY <1>4, <1>7, <1>11, <2>6, NamexSound
  <2>8. Alike(t, r)
    BY <2>3, <2>4 DEF Alike
  <2>9. \A k \in Inums : icache'[k].ref = icache[k].ref - Refs(todo[p], k) + Refs(t, k)
    <3>1. TAKE k \in Inums
    <3>2. Refs(t, k) = Refs(r, k) + Eq(i, k) /\ Refs(todo[p], k) = Refs(r, k) + Eq(i, k)
      BY <1>12, <2>3, <2>4 DEF Owns
    <3>3. icache'[k].ref = icache[k].ref
      BY <1>10, <2>1
    <3> QED
      BY <1>19, <3>2, <3>3
  <2> QED
    BY <1>10, <1>13, <1>15, <2>1, <2>4, <2>5, <2>7, <2>8, <2>9
<1>17. CASE in.type = "dir" /\ f.arg = "parent" /\ Len(f.path) = 1
  <2>1. icache' = c /\ todo' = [todo EXCEPT ![p] = Return(r, i)]
    BY <1>1, <1>8, <1>9, <1>17 DEF WalkElement, Continue
  <2>2. PICK t, g : t = Return(r, i) /\ g = r[1]
    OBVIOUS
  <2>3. r # <<>> /\ Waiting(g) /\ g.do \in {"link_dp", "unlink", "create"} /\ (g.ip # 0 <=> g.do = "link_dp")
    BY <1>5, <1>17, <2>2 DEF Continuation, Waiting, Want, Waiters
  <2>4. /\ Good(t) /\ Frames(t) = {[g EXCEPT !.i = i]} \cup Frames(Tail(r)) /\ Frames(Tail(r)) \subseteq Frames(r)
        /\ g \in Frames(r) /\ g \in FrameSet /\ Owns(t, r, i)
        /\ \A j \in Inums : Owed(t, j) = Owed(r, j) /\ Claimed(t, j) = Claimed(r, j) + IF g.do \in Waiters THEN 0 ELSE Eq(i, j)
        /\ \A h \in Files : Closing(t, h) = Closing(r, h)
    BY <1>3, <1>4, <2>2, <2>3, Returned
  <2>5. Goes(p, t)
    BY <2>1, <2>2, <2>4 DEF Goes, Good, Inner
  <2>6. Alike(t, r)
    BY <1>3, <2>3, <2>4 DEF Alike, Naturals, Waiters
  <2>7. ASSUME AllSound(p, r)' PROVE AllSound(p, t)'
    <3>1. PICK h : h = [g EXCEPT !.i = i]
      OBVIOUS
    <3>2. h.do = g.do /\ h.i = i /\ h.ip = g.ip
      BY <2>4, <3>1 DEF FrameSet
    <3>3. Sound(p, g)'
      BY <2>4, <2>7 DEF AllSound
    <3>4. dinode'[i].type = "dir" /\ cwd'[p] # 0
      BY <1>7, <1>10, <1>11, <1>17
    <3>5. Sound(p, h)'
      BY <2>3, <3>2, <3>3, <3>4 DEF Sound
    <3> QED
      BY <2>4, <2>7, <3>1, <3>5 DEF AllSound
  <2>8. \A k \in Inums : icache'[k].ref = icache[k].ref - Refs(todo[p], k) + Refs(t, k)
    BY <1>10, <1>12, <1>19, <2>1, <2>4 DEF Owns
  <2> QED
    BY <1>10, <1>13, <1>15, <2>1, <2>4, <2>5, <2>6, <2>7, <2>8
<1>18. CASE in.type = "dir" /\ next # 0 /\ ~(f.arg = "parent" /\ Len(f.path) = 1)
  <2>1. /\ icache' = [c EXCEPT ![next].ref = @ + 1]
        /\ todo' = [todo EXCEPT ![p] = <<Iput(i)>> \o namex(next, Tail(f.path), f.arg, r)]
    BY <1>1, <1>8, <1>9, <1>18 DEF WalkElement, Continue, CacheAndRef
  <2>2. next \in Inums /\ dinode[next].type # "free" /\ (next = i \/ Named(next))
    BY <1>4, <1>6, <1>8, <1>10, <1>18, NextIs
  <2>3. PICK u, t : u = namex(next, Tail(f.path), f.arg, r) /\ t = <<Iput(i)>> \o u
    OBVIOUS
  <2>4. /\ Good(u) /\ Owns(u, r, next) /\ Alike(u, r) /\ NamexFrames(u, r, next)
    BY <1>3, <1>5, <1>6, <2>2, <2>3, NamexIs DEF NamexFrames
  <2>5. Good(t) /\ Frames(t) = {Iput(i)} \cup Frames(u) /\ Alike(t, u) /\ Owns(t, u, i)
    BY <1>4, <2>3, <2>4, PushIput
  <2>6. Goes(p, t)
    BY <2>1, <2>3, <2>5 DEF Goes, Good, Inner
  <2>7. ASSUME AllSound(p, r)' PROVE AllSound(p, t)'
    <3>1. AllSound(p, u)'
      BY <1>7, <1>11, <2>2, <2>4, <2>7, NamexSound
    <3>2. Sound(p, Iput(i))'
      BY <1>4, <1>7, <1>11, IputSound
    <3> QED
      BY <2>5, <3>1, <3>2 DEF AllSound
  <2>8. Alike(t, r)
    BY <2>4, <2>5 DEF Alike
  <2>9. /\ Fits(icache')
        /\ \A k \in Inums : icache'[k].ref = c[k].ref + Eq(next, k) /\ icache'[k].valid = c[k].valid
        /\ \A k \in Inums : k # next => icache'[k] = c[k]
    <3>1. icache' = WithRef(c, next)
      BY <2>1 DEF WithRef
    <3> QED
      BY <1>10, <2>2, <3>1, RefFits
  <2>10. \A k \in Inums : icache'[k].ref = icache[k].ref - Refs(todo[p], k) + Refs(t, k)
    BY <1>10, <1>12, <1>19, <2>4, <2>5, <2>9 DEF Owns
  <2>11. \A k \in Inums : icache'[k] # icache[k] => Touches(p, k)
    BY <1>10, <1>13, <2>2, <2>9 DEF Touches
  <2> QED
    BY <1>10, <1>15, <2>5, <2>6, <2>7, <2>8, <2>9, <2>10, <2>11
<1> QED
  BY <1>16, <1>17, <1>18

\* A system call begins: what comes after namex() has no inode yet.
Fresh(r) == \A f \in Frames(r) :
  f.i = 0 /\ f.ip = 0 /\ f.do \in {"link", "unlink", "create", "iunlockput", "opened", "open", "chdir"}

LEMMA NameiStep ==
  ASSUME IInv, NEW p \in Procs, NEW path \in GoodPath, NEW want \in {"inode", "parent"}, NEW r,
         Continuation(r, want), Weightless(r), Fresh(r), path.elems # <<>> \/ want = "inode" => Inner(r),
         NameiThen(p, path, want, r)
  PROVE  IInv'
<1>1. todo[p] = <<>> /\ cwd[p] # 0
  BY DEF NameiThen, Idle
<1>2. PICK i : i = Start(p, path)
  OBVIOUS
<1>3. i \in Inums /\ dinode[i].type # "free" /\ Touches(p, i)
  <2>1. cwd[p] \in Inums /\ dinode[cwd[p]].type = "dir" /\ dinode[Root].type = "dir" /\ Root \in Inums
    BY <1>1, Constants DEF IInv, TypeOK, InUse, LinksBalance
  <2> QED
    BY <1>2, <2>1 DEF Start, Touches
<1>4. path.elems \in Elems
  BY DEF GoodPath
<1>5. PICK t : t = namex(i, path.elems, want, r)
  OBVIOUS
<1>6. Good(t) /\ Owns(t, r, i) /\ Alike(t, r) /\ NamexFrames(t, r, i)
  BY <1>3, <1>4, <1>5, NamexIs DEF NamexFrames
<1>7. Weightless(todo[p])
  BY <1>1, NoFrames
<1>8. t \in Seq(FrameSet) /\ Shape(t)
  BY <1>6 DEF Good, Shape, Inner
<1>9. /\ dinode' = dinode /\ entries' = entries /\ lost' = lost /\ file' = file /\ ofile' = ofile /\ cwd' = cwd
      /\ holder' = holder /\ icache' = WithRef(icache, i) /\ Goes(p, t)
  BY <1>2, <1>5, <1>8 DEF NameiThen, disk, opened, Continue, Goes, WithRef
<1>10. Fits(icache)
  BY CacheFits
<1>11. /\ Fits(icache')
       /\ \A k \in Inums : icache'[k].ref = icache[k].ref + Eq(i, k) /\ icache'[k].valid = icache[k].valid
       /\ \A k \in Inums : k # i => icache'[k] = icache[k]
  BY <1>3, <1>9, <1>10, RefFits
<1>12. \A j \in Inums : Refs(t, j) = Eq(i, j) /\ Refs(todo[p], j) = 0 /\ icache[j].ref \in Nat /\ Eq(i, j) \in Nat
  BY <1>6, <1>7, <1>10 DEF Owns, Weightless, Fits, Inodes, Eq
<1>13. \A j \in Inums : Owed(t, j) = Owed(todo[p], j) /\ Claimed(t, j) = Claimed(todo[p], j)
  BY <1>6, <1>7 DEF Alike, Weightless
<1>14. \A g \in Files : Closing(t, g) = Closing(todo[p], g)
  BY <1>6, <1>7 DEF Alike, Weightless
<1>15. HoldsMove(p, t) /\ holder' \in [Inums -> Procs \cup {None}]
  BY <1>9, <1>13, HoldsNothing
<1>16. AllSound(p, t)'
  <2>1. AllSound(p, r)'
    BY <1>1, <1>9 DEF AllSound, Sound, Fresh
  <2> QED
    BY <1>1, <1>3, <1>6, <1>9, <2>1, NamexSound
<1>17. \A j \in Inums : icache'[j].ref = icache[j].ref - Refs(todo[p], j) + Refs(t, j)
  BY <1>11, <1>12
<1>18. Memory(p, t)
  BY <1>3, <1>8, <1>9, <1>11, <1>13, <1>14, <1>15, <1>16, <1>17 DEF Memory, Fits
<1> QED
  BY <1>18, MemoryStep

LEMMA TwoContinuation ==
  ASSUME NEW f \in FrameSet, NEW g \in FrameSet, f.do = "create", f.i = 0, f.ip = 0,
         g.do \in {"iunlockput", "opened"}, g.i = 0, g.ip = 0
  PROVE  Continuation(<<f, g>>, "parent") /\ Frames(<<f, g>>) = {f, g} /\ Weightless(<<f, g>>)
<1>1. PICK e : e = <<g>>
  OBVIOUS
<1>2. e \in Seq(FrameSet) /\ Frames(e) = {g} /\ Weightless(e)
  <2>1. PICK n : n = <<>>
    OBVIOUS
  <2>2. n \in Seq(FrameSet) /\ Frames(n) = {} /\ Weightless(n) /\ e = <<g>> \o n
    BY <1>1, <2>1, InnerEmpty, NoFrame, NoFrames
  <2>3. Frames(e) = {g} /\ Adds(e, g, n) /\ e \in Seq(FrameSet)
    BY <2>2, FramesOf, AddsCons, ConsIs
  <2>4. ASSUME NEW j \in Inums PROVE FRefs(g, j) = 0 /\ FOwed(g, j) = 0 /\ FClaimed(g, j) = 0
    BY Constants DEF FRefs, FOwed, FClaimed, Eq
  <2>5. ASSUME NEW h \in Files PROVE FClosing(g, h) = 0
    BY DEF FClosing
  <2> QED
    BY <2>2, <2>3, <2>4, <2>5 DEF Adds, Weightless
<1>3. PICK r : r = <<f>> \o e
  OBVIOUS
<1>4. r \in Seq(FrameSet) /\ r # <<>> /\ r[1] = f /\ Tail(r) = e
  BY <1>2, <1>3, ConsIs
<1>5. Adds(r, f, e) /\ Frames(r) = {f} \cup Frames(e)
  BY <1>2, <1>3, AddsCons, FramesOf
<1>6. r = <<f, g>>
  <2>1. Len(e) = 1 /\ e[1] = g
    BY <1>1
  <2>2. Len(r) = Len(e) + 1 /\ \A k \in 1 .. Len(e) : r[k + 1] = e[k]
    BY <1>2, <1>3, ConsIs
  <2>3. Len(r) = 2 /\ r[1] = f /\ r[2] = g
    BY <1>4, <2>1, <2>2
  <2> QED
    BY <1>4, <2>3
<1>7. Continuation(r, "parent")
  BY <1>2, <1>4, <1>5 DEF Continuation, Waiters, Want
<1>8. Weightless(r)
  <2>1. ASSUME NEW j \in Inums PROVE FRefs(f, j) = 0 /\ FOwed(f, j) = 0 /\ FClaimed(f, j) = 0
    BY Constants DEF FRefs, FOwed, FClaimed, Eq
  <2>2. ASSUME NEW h \in Files PROVE FClosing(f, h) = 0
    BY DEF FClosing
  <2> QED
    BY <1>2, <1>5, <2>1, <2>2 DEF Adds, Weightless
<1> QED
  BY <1>2, <1>5, <1>6, <1>7, <1>8

LEMMA OneFresh ==
  ASSUME NEW f \in FrameSet, f.do \in {"link", "unlink", "open", "chdir"}, f.i = 0, f.ip = 0
  PROVE  Continuation(<<f>>, Want(f.do)) /\ Fresh(<<f>>) /\ Weightless(<<f>>)
<1>1. PICK r : r = <<f>>
  OBVIOUS
<1>2. Continuation(r, Want(f.do)) /\ Frames(r) = {f}
  BY <1>1, OneContinuation DEF Waiters
<1>3. r[1] = f
  BY <1>1
<1>4. ASSUME NEW j \in Inums PROVE FRefs(f, j) = 0 /\ FOwed(f, j) = 0 /\ FClaimed(f, j) = 0
  BY Constants DEF FRefs, FOwed, FClaimed, Eq
<1>5. ASSUME NEW h \in Files PROVE FClosing(f, h) = 0
  BY DEF FClosing
<1>6. Weightless(r)
  BY <1>2, <1>3, <1>4, <1>5 DEF Continuation, Adds, Weightless
<1> QED
  BY <1>1, <1>2, <1>6 DEF Fresh

LEMMA CreateCall ==
  ASSUME IInv, NEW p \in Procs, NEW path \in GoodPath, NEW type \in {"file", "dir"}, NEW g \in FrameSet, FrameOK(g),
         g.i = 0, g.ip = 0, g.do = IF type = "dir" THEN "iunlockput" ELSE "opened", Create(p, path, type, g)
  PROVE  IInv'
<1>1. PICK f : f = Frame("create", 0, 0, path.elems, type)
  OBVIOUS
<1>2. path.elems \in Elems
  BY DEF GoodPath
<1>3. f \in FrameSet /\ f.do = "create" /\ f.i = 0 /\ f.ip = 0 /\ f.path = path.elems /\ f.arg = type
  <2>1. PICK d, z, q : d = "create" /\ z = 0 /\ q = path.elems
    OBVIOUS
  <2>2. d \in Dos /\ type \in Args /\ z \in Inums \cup {0} /\ q \in Seq(GoodPath) \cup Elems
    BY <1>2, <2>1 DEF Dos, Args
  <2>3. f = Frame(d, z, z, q, type)
    BY <1>1, <2>1
  <2>4. f \in FrameSet /\ f.do = d /\ f.i = z /\ f.ip = z /\ f.path = q /\ f.arg = type
    BY <2>2, <2>3, FrameIs
  <2> QED
    BY <2>1, <2>4
<1>4. PICK r : r = <<f, g>>
  OBVIOUS
<1>5. Continuation(r, "parent") /\ Frames(r) = {f, g} /\ Weightless(r)
  BY <1>3, <1>4, TwoContinuation
<1>6. Fresh(r)
  BY <1>3, <1>5 DEF Fresh
<1>7. ASSUME path.elems # <<>> PROVE Inner(r)
  <2>1. FrameOK(f)
    BY <1>2, <1>3, <1>7 DEF FrameOK
  <2>2. Leads(f, g) /\ Ends(g)
    BY <1>3 DEF Leads, Ends
  <2> QED
    BY <1>4, <2>1, <2>2, TwoFrames
<1>8. NameiThen(p, path, "parent", r)
  BY <1>1, <1>4 DEF Create
<1> QED
  BY <1>5, <1>6, <1>7, <1>8, NameiStep

LEMMA OneCall ==
  ASSUME IInv, NEW p \in Procs, NEW path \in GoodPath, NEW f \in FrameSet,
         f.do \in {"link", "unlink", "open", "chdir"}, f.i = 0, f.ip = 0,
         f.do = "link" => f.path \in Seq(GoodPath) /\ Len(f.path) = 1,
         f.do = "unlink" => f.path = path.elems,
         NameiThen(p, path, Want(f.do), <<f>>)
  PROVE  IInv'
<1>1. PICK r : r = <<f>>
  OBVIOUS
<1>2. Continuation(r, Want(f.do)) /\ Fresh(r) /\ Weightless(r)
  BY <1>1, OneFresh
<1>3. ASSUME path.elems # <<>> \/ Want(f.do) = "inode" PROVE Inner(r)
  <2>1. path.elems \in Elems
    BY DEF GoodPath
  <2>2. FrameOK(f) /\ Ends(f)
    BY <1>3, <2>1 DEF FrameOK, Ends, Want
  <2> QED
    BY <1>1, <2>2, OneFrame
<1>4. Want(f.do) \in {"inode", "parent"}
  BY DEF Want
<1> QED
  BY <1>1, <1>2, <1>3, <1>4, NameiStep

LEMMA MkdirStep == ASSUME IInv, NEW p \in Procs, NEW path \in GoodPath, sys_mkdir(p, path) PROVE IInv'
<1>1. PICK g : g = Iunlockput(0)
  OBVIOUS
<1>2. g \in FrameSet /\ g.do = "iunlockput" /\ g.i = 0 /\ g.ip = 0
  <2>1. PICK d, z, a : d = "iunlockput" /\ z = 0 /\ a = ""
    OBVIOUS
  <2>2. d \in Dos /\ a \in Args /\ z \in Inums \cup {0}
    BY <2>1 DEF Dos, Args
  <2>3. g = Frame(d, z, z, <<>>, a)
    BY <1>1, <2>1 DEF Iunlockput
  <2>4. g \in FrameSet /\ g.do = d /\ g.i = z /\ g.ip = z
    BY <2>2, <2>3, PathlessIs, SMTT(30)
  <2> QED
    BY <2>1, <2>4
<1>3. FrameOK(g)
  BY <1>2 DEF FrameOK
<1>4. Create(p, path, "dir", g)
  BY <1>1 DEF sys_mkdir
<1> QED
  BY <1>2, <1>3, <1>4, CreateCall

LEMMA OpenStep ==
  ASSUME IInv, NEW p \in Procs, NEW path \in GoodPath, NEW mode \in {"create", "read", "write"}, sys_open(p, path, mode)
  PROVE  IInv'
<1>1. CASE mode = "create"
  <2>1. PICK g : g = Frame("opened", 0, 0, <<>>, "")
    OBVIOUS
  <2>2. g \in FrameSet /\ g.do = "opened" /\ g.i = 0 /\ g.ip = 0
    <3>1. PICK d, z, a : d = "opened" /\ z = 0 /\ a = ""
      OBVIOUS
    <3>2. d \in Dos /\ a \in Args /\ z \in Inums \cup {0}
      BY <3>1 DEF Dos, Args
    <3>3. g = Frame(d, z, z, <<>>, a)
      BY <2>1, <3>1
    <3>4. g \in FrameSet /\ g.do = d /\ g.i = z /\ g.ip = z
      BY <3>2, <3>3, PathlessIs
    <3> QED
      BY <3>1, <3>4
  <2>3. FrameOK(g)
    BY <2>2 DEF FrameOK
  <2>4. Create(p, path, "file", g)
    BY <1>1, <2>1 DEF sys_open
  <2> QED
    BY <2>2, <2>3, <2>4, CreateCall
<1>2. CASE mode # "create"
  <2>1. PICK f : f = Frame("open", 0, 0, <<>>, mode)
    OBVIOUS
  <2>2. f \in FrameSet /\ f.do = "open" /\ f.i = 0 /\ f.ip = 0
    <3>1. PICK d, z : d = "open" /\ z = 0
      OBVIOUS
    <3>2. d \in Dos /\ mode \in Args /\ z \in Inums \cup {0}
      BY <1>2, <3>1 DEF Dos, Args
    <3>3. f = Frame(d, z, z, <<>>, mode)
      BY <2>1, <3>1
    <3>4. f \in FrameSet /\ f.do = d /\ f.i = z /\ f.ip = z
      BY <3>2, <3>3, PathlessIs
    <3> QED
      BY <3>1, <3>4
  <2>3. NameiThen(p, path, Want(f.do), <<f>>)
    BY <1>2, <2>1, <2>2 DEF sys_open, Want
  <2> QED
    BY <2>2, <2>3, OneCall
<1> QED
  BY <1>1, <1>2

LEMMA UnlinkStep == ASSUME IInv, NEW p \in Procs, NEW path \in GoodPath, sys_unlink(p, path) PROVE IInv'
<1>1. PICK f : f = Frame("unlink", 0, 0, path.elems, "")
  OBVIOUS
<1>2. f \in FrameSet /\ f.do = "unlink" /\ f.i = 0 /\ f.ip = 0 /\ f.path = path.elems
  <2>1. PICK d, z, q, a : d = "unlink" /\ z = 0 /\ q = path.elems /\ a = ""
    OBVIOUS
  <2>5. path.elems \in Elems
    BY DEF GoodPath
  <2>2. d \in Dos /\ a \in Args /\ z \in Inums \cup {0} /\ q \in Seq(GoodPath) \cup Elems
    BY <2>1, <2>5 DEF Dos, Args
  <2>3. f = Frame(d, z, z, q, a)
    BY <1>1, <2>1
  <2>4. f \in FrameSet /\ f.do = d /\ f.i = z /\ f.ip = z /\ f.path = q
    BY <2>2, <2>3 DEF Frame, FrameSet
  <2> QED
    BY <2>1, <2>4
<1>3. NameiThen(p, path, Want(f.do), <<f>>)
  BY <1>1, <1>2 DEF sys_unlink, Want
<1> QED
  BY <1>2, <1>3, OneCall

LEMMA ChdirCall == ASSUME IInv, NEW p \in Procs, NEW path \in GoodPath, sys_chdir(p, path) PROVE IInv'
<1>1. PICK f : f = Frame("chdir", 0, 0, <<>>, "")
  OBVIOUS
<1>2. f \in FrameSet /\ f.do = "chdir" /\ f.i = 0 /\ f.ip = 0
  <2>1. PICK d, z, a : d = "chdir" /\ z = 0 /\ a = ""
    OBVIOUS
  <2>2. d \in Dos /\ a \in Args /\ z \in Inums \cup {0}
    BY <2>1 DEF Dos, Args
  <2>3. f = Frame(d, z, z, <<>>, a)
    BY <1>1, <2>1
  <2>4. f \in FrameSet /\ f.do = d /\ f.i = z /\ f.ip = z
    BY <2>2, <2>3, PathlessIs, SMTT(30)
  <2> QED
    BY <2>1, <2>4
<1>3. NameiThen(p, path, Want(f.do), <<f>>)
  BY <1>1, <1>2 DEF sys_chdir, Want
<1> QED
  BY <1>2, <1>3, OneCall

LEMMA LinkStep ==
  ASSUME IInv, NEW p \in Procs, NEW old \in GoodPath, NEW new \in GoodPath, sys_link(p, old, new)
  PROVE  IInv'
<1>1. PICK f : f = Frame("link", 0, 0, <<new>>, "")
  OBVIOUS
<1>2. f \in FrameSet /\ f.do = "link" /\ f.i = 0 /\ f.ip = 0 /\ f.path \in Seq(GoodPath) /\ Len(f.path) = 1
  <2>1. PICK d, z, q, a : d = "link" /\ z = 0 /\ q = <<new>> /\ a = ""
    OBVIOUS
  <2>2. q \in Seq(GoodPath) /\ Len(q) = 1
    <3>1. PICK G : G = GoodPath
      OBVIOUS
    <3>2. new \in G
      BY <3>1
    <3>3. <<new>> \in Seq(G) /\ Len(<<new>>) = 1
      BY <3>2
    <3> QED
      BY <2>1, <3>1, <3>3
  <2>3. d \in Dos /\ a \in Args /\ z \in Inums \cup {0} /\ q \in Seq(GoodPath) \cup Elems
    BY <2>1, <2>2 DEF Dos, Args
  <2>4. f = Frame(d, z, z, q, a)
    BY <1>1, <2>1
  <2>5. f \in FrameSet /\ f.do = d /\ f.i = z /\ f.ip = z /\ f.path = q
    BY <2>2, <2>3, <2>4 DEF Frame, FrameSet
  <2> QED
    BY <2>1, <2>2, <2>5
<1>3. NameiThen(p, old, Want(f.do), <<f>>)
  BY <1>1, <1>2 DEF sys_link, Want
<1> QED
  BY <1>2, <1>3, OneCall

-----------------------------------------------------------------------------
(* Steps that only read an inode and leave its lock, its slot or a reference. *)

Plain(d, i) == Frame(d, i, 0, <<>>, "")

LEMMA PlainIs ==
  ASSUME NEW d \in Dos, NEW i \in Inums, NEW f, f = Plain(d, i),
         d = "link_bad" \/ d = "unlink_count" \/ d = "opened" \/ d = "iunlockput"
  PROVE  /\ FrameOK(f) /\ f \in FrameSet /\ f.do = d /\ f.i = i /\ f.ip = 0 /\ Ends(f) /\ ~Waiting(f)
         /\ \A j \in Inums : /\ FRefs(f, j) = Eq(i, j)
                             /\ FOwed(f, j) = IF d = "link_bad" \/ d = "unlink_count" THEN Eq(i, j) ELSE 0
                             /\ FClaimed(f, j) = IF d = "link_bad" THEN 0 ELSE Eq(i, j)
         /\ \A g \in Files : FClosing(f, g) = 0
<1>1. i # 0 /\ 0 \notin Inums
  BY Constants
<1>2. f \in FrameSet /\ f.do = d /\ f.i = i /\ f.ip = 0
  <2>1. PICK z, a : z = 0 /\ a = ""
    OBVIOUS
  <2>2. a \in Args /\ i \in Inums \cup {0} /\ z \in Inums \cup {0}
    BY <2>1 DEF Args
  <2>3. f = Frame(d, i, z, <<>>, a)
    BY <2>1 DEF Plain
  <2>4. f \in FrameSet /\ f.do = d /\ f.i = i /\ f.ip = z
    BY <2>2, <2>3, PathlessIs
  <2> QED
    BY <2>1, <2>4
<1>3. FrameOK(f) /\ Ends(f) /\ ~Waiting(f)
  BY <1>1, <1>2 DEF FrameOK, Ends, Waiting
<1>4. ASSUME NEW j \in Inums
      PROVE  /\ FRefs(f, j) = Eq(i, j)
             /\ FOwed(f, j) = IF d = "link_bad" \/ d = "unlink_count" THEN Eq(i, j) ELSE 0
             /\ FClaimed(f, j) = IF d = "link_bad" THEN 0 ELSE Eq(i, j)
  <2>1. Eq(f.ip, j) = 0 /\ Eq(f.i, j) = Eq(i, j) /\ Eq(i, j) \in Nat
    BY <1>1, <1>2 DEF Eq
  <2>2. FRefs(f, j) = Eq(i, j)
    BY <2>1 DEF FRefs
  <2>3. FOwed(f, j) = IF d = "link_bad" \/ d = "unlink_count" THEN Eq(i, j) ELSE 0
    BY <1>2, <2>1 DEF FOwed
  <2>4. FClaimed(f, j) = IF d = "link_bad" THEN 0 ELSE Eq(i, j)
    BY <1>2, <2>1 DEF FClaimed
  <2> QED
    BY <2>2, <2>3, <2>4
<1>5. \A g \in Files : FClosing(f, g) = 0
  BY <1>2 DEF FClosing
<1> QED
  BY <1>2, <1>3, <1>4, <1>5

\* The cache with i's slot filled, and one more reference to j unless j is 0.
LockedCache(i, j) == IF j = 0 THEN Cache(i, Ilocked(i)) ELSE WithRef(Cache(i, Ilocked(i)), j)

LEMMA Locked ==
  ASSUME IInv, NEW p \in Procs, todo[p] # <<>>, NEW i \in Inums, i \in {Top(p).i, Top(p).ip}, dinode[i].type # "free",
         NEW j \in Inums \cup {0}, j # 0 => Touches(p, j), icache' = LockedCache(i, j)
  PROVE  /\ Fits(icache') /\ \A k \in Inums : icache'[k].ref = icache[k].ref + Eq(j, k)
         /\ \A k \in Inums : icache'[k] # icache[k] => Touches(p, k)
         /\ icache'[i].valid /\ \A k \in Inums : icache[k].valid => icache'[k].valid
         /\ dinode' = dinode /\ entries' = entries => Careful(p)
<1>1. PICK c : c = Cache(i, Ilocked(i))
  OBVIOUS
<1>2. /\ Fits(c)
      /\ \A k \in Inums : c[k].ref = icache[k].ref
      /\ \A k \in Inums : k # i => c[k] = icache[k]
      /\ c[i].valid /\ \A k \in Inums : icache[k].valid => c[k].valid
  BY <1>1, LockedFits
<1>3. Touches(p, i)
  BY DEF Touches
<1>4. \A k \in Inums : icache[k].ref \in Nat /\ k # 0
  BY CacheFits, Constants DEF Fits, Inodes
<1>5. CASE j = 0
  <2>1. icache' = c
    BY <1>1, <1>5 DEF LockedCache
  <2>2. \A k \in Inums : icache'[k].ref = icache[k].ref + Eq(j, k)
    <3>1. TAKE k \in Inums
    <3>2. Eq(j, k) = 0 /\ icache'[k].ref = icache[k].ref /\ icache[k].ref \in Nat
      BY <1>2, <1>4, <1>5, <2>1 DEF Eq
    <3> QED
      BY <3>2
  <2>3. \A k \in Inums : icache'[k] # icache[k] => Touches(p, k)
    BY <1>2, <1>3, <2>1
  <2> QED
    BY <1>2, <2>1, <2>2, <2>3 DEF Careful
<1>6. CASE j # 0
  <2>1. icache' = WithRef(c, j) /\ j \in Inums
    BY <1>1, <1>6 DEF LockedCache
  <2>2. /\ Fits(icache')
        /\ \A k \in Inums : icache'[k].ref = c[k].ref + Eq(j, k) /\ icache'[k].valid = c[k].valid
        /\ \A k \in Inums : k # j => icache'[k] = c[k]
    BY <1>2, <2>1, RefFits
  <2>3. \A k \in Inums : icache'[k] # icache[k] => Touches(p, k)
    BY <1>2, <1>3, <1>6, <2>2
  <2>4. \A k \in Inums : icache'[k].ref = icache[k].ref + Eq(j, k)
    BY <1>2, <2>2
  <2> QED
    BY <1>2, <2>2, <2>3, <2>4 DEF Careful
<1> QED
  BY <1>5, <1>6

LockMove(p, i, j, t) ==
  /\ dinode' = dinode /\ entries' = entries /\ lost' = lost /\ file' = file /\ ofile' = ofile /\ cwd' = cwd
  /\ icache' = LockedCache(i, j) /\ holder' \in [Inums -> Procs \cup {None}] /\ HoldsMove(p, t)
  /\ Goes(p, t) /\ Shape(t) /\ AllSound(p, t)'
  /\ \A k \in Inums : Refs(t, k) = Refs(todo[p], k) + Eq(j, k) /\ Owed(t, k) = Owed(todo[p], k)
  /\ \A g \in Files : Closing(t, g) = Closing(todo[p], g)

LEMMA LockStep ==
  ASSUME IInv, NEW p \in Procs, todo[p] # <<>>, NEW i \in Inums, i \in {Top(p).i, Top(p).ip}, dinode[i].type # "free",
         NEW j \in Inums \cup {0}, j # 0 => Touches(p, j), NEW t, LockMove(p, i, j, t)
  PROVE  IInv'
<1>1. /\ Fits(icache') /\ \A k \in Inums : icache'[k].ref = icache[k].ref + Eq(j, k)
      /\ \A k \in Inums : icache'[k] # icache[k] => Touches(p, k)
      /\ \A k \in Inums : icache[k].valid => icache'[k].valid
  BY Locked DEF LockMove
<1>2. \A k \in Inums : icache[k].ref \in Nat /\ Eq(j, k) \in Nat /\ Refs(todo[p], k) \in Nat
  BY CacheFits, TopIs DEF Fits, Inodes, Eq, Naturals
<1>3. \A k \in Inums : icache'[k].ref = icache[k].ref - Refs(todo[p], k) + Refs(t, k)
  <2>1. TAKE k \in Inums
  <2>2. Refs(t, k) = Refs(todo[p], k) + Eq(j, k) /\ icache'[k].ref = icache[k].ref + Eq(j, k)
    BY <1>1 DEF LockMove
  <2> QED
    BY <1>2, <2>2
<1>4. Memory(p, t)
  BY <1>1, <1>3 DEF Memory, LockMove, Fits
<1> QED
  BY <1>4, MemoryStep

\* What a system call owns by its first frame, which neither owes nor holds anything.
Asking == {"link", "unlink", "open", "chdir", "create", "create_found"}

LEMMA AskingIs ==
  ASSUME IInv, NEW p \in Procs, todo[p] # <<>>, Top(p).do \in Asking, NEW i, i = Top(p).i
  PROVE  /\ i \in Inums /\ i # 0 /\ Top(p).ip = 0 /\ dinode[i].type # "free" /\ cwd[p] # 0
         /\ Weightless(Rest(p))
         /\ \A j \in Inums : /\ Refs(todo[p], j) = Eq(i, j) /\ Owed(todo[p], j) = 0
                             /\ Claimed(todo[p], j) = 0 /\ Eq(i, j) \in Nat /\ Eq(0, j) = 0
         /\ \A h \in Files : Closing(todo[p], h) = 0
         /\ Top(p).do \in {"create", "create_found"} =>
              /\ Inner(Rest(p)) /\ Rest(p) # <<>> /\ Waiting(Rest(p)[1]) /\ Tail(Rest(p)) = <<>>
              /\ Rest(p)[1].do = IF Top(p).arg = "dir" THEN "iunlockput" ELSE "opened"
              /\ Rest(p)[1].ip = 0
<1>1. PICK f, r : f = Top(p) /\ r = Rest(p)
  OBVIOUS
<1>2. f.do \in Asking
  BY <1>1
<1>3. /\ FrameOK(f) /\ f.i \in Inums \cup {0} /\ Adds(todo[p], f, r) /\ Sound(p, f) /\ ~Waiting(f) /\ Inner(r)
      /\ r = <<>> => Ends(f)
      /\ r # <<>> => Leads(f, r[1])
      /\ f.do \in {"link", "unlink", "open", "chdir"} => Weightless(r)
  BY <1>1, TopIs
<1>4. i \in Inums /\ f.ip = 0 /\ i # 0 /\ 0 \notin Inums
  BY <1>1, <1>2, <1>3, Constants DEF FrameOK, Waiting, Waiters, Asking
<1>5. dinode[i].type # "free" /\ cwd[p] # 0
  BY <1>1, <1>2, <1>3, <1>4 DEF Sound, Asking
<1>6. ASSUME f.do \in {"create", "create_found"}
      PROVE  /\ r # <<>> /\ Waiting(r[1]) /\ Tail(r) = <<>> /\ Weightless(r) /\ r[1].ip = 0
             /\ r[1].do = IF f.arg = "dir" THEN "iunlockput" ELSE "opened"
  <2>1. r # <<>>
    BY <1>3, <1>6 DEF Ends
  <2>2. PICK h, u : h = r[1] /\ u = Tail(r)
    OBVIOUS
  <2>3. h.i = 0 /\ h.do = IF f.arg = "dir" THEN "iunlockput" ELSE "opened"
    BY <1>3, <1>6, <2>1, <2>2 DEF Leads
  <2>4. /\ FrameOK(h) /\ Inner(u) /\ Adds(r, h, u)
        /\ u # <<>> => Leads(h, u[1])
    BY <1>3, <2>1, <2>2, Popped
  <2>5. u = <<>>
    BY <2>3, <2>4 DEF Leads
  <2>6. h.ip = 0
    BY <2>3, <2>4 DEF FrameOK
  <2>7. Weightless(u)
    BY <2>5, NoFrames
  <2>8. ASSUME NEW j \in Inums PROVE FRefs(h, j) = 0 /\ FOwed(h, j) = 0 /\ FClaimed(h, j) = 0
    <3>1. Eq(h.i, j) = 0 /\ Eq(h.ip, j) = 0
      BY <2>3, <2>6, Constants DEF Eq
    <3> QED
      BY <2>3, <3>1 DEF FRefs, FOwed, FClaimed
  <2>9. ASSUME NEW g \in Files PROVE FClosing(h, g) = 0
    BY <2>3 DEF FClosing
  <2>10. Weightless(r)
    BY <2>4, <2>7, <2>8, <2>9 DEF Weightless, Adds
  <2>11. Waiting(h)
    BY <2>3 DEF Waiting
  <2> QED
    BY <2>1, <2>2, <2>3, <2>5, <2>6, <2>10, <2>11
<1>7. Weightless(r)
  BY <1>2, <1>3, <1>6 DEF Asking
<1>8. ASSUME NEW j \in Inums
      PROVE  FRefs(f, j) = Eq(i, j) /\ FOwed(f, j) = 0 /\ FClaimed(f, j) = 0 /\ Eq(i, j) \in Nat /\ Eq(0, j) = 0
  <2>1. Eq(f.ip, j) = 0 /\ Eq(0, j) = 0 /\ Eq(f.i, j) = Eq(i, j) /\ Eq(i, j) \in Nat
    BY <1>1, <1>4 DEF Eq
  <2> QED
    BY <1>2, <2>1 DEF FRefs, FOwed, FClaimed, Asking
<1>9. \A h \in Files : FClosing(f, h) = 0
  BY <1>2 DEF FClosing, Asking
<1>10. /\ \A j \in Inums : Refs(todo[p], j) = Eq(i, j) /\ Owed(todo[p], j) = 0 /\ Claimed(todo[p], j) = 0
       /\ \A h \in Files : Closing(todo[p], h) = 0
  BY <1>3, <1>7, <1>8, <1>9 DEF Adds, Weightless
<1> QED
  BY <1>1, <1>3, <1>4, <1>5, <1>6, <1>7, <1>8, <1>10

LEMMA PutsIt ==
  ASSUME IInv, NEW p \in Procs, todo[p] # <<>>, Top(p).do \in Asking,
         UNCHANGED <<disk, holder, opened, lost>>, NEW i, i = Top(p).i, icache' = Cache(i, Ilocked(i)),
         Continue(p, <<Iput(i)>>)
  PROVE  IInv'
<1>1. /\ i \in Inums /\ dinode[i].type # "free" /\ cwd[p] # 0
      /\ \A j \in Inums : Refs(todo[p], j) = Eq(i, j) /\ Owed(todo[p], j) = 0 /\ Claimed(todo[p], j) = 0 /\ Eq(i, j) \in Nat /\ Eq(0, j) = 0
      /\ \A h \in Files : Closing(todo[p], h) = 0
  BY AskingIs
<1>2. /\ dinode' = dinode /\ entries' = entries /\ lost' = lost /\ file' = file /\ ofile' = ofile /\ cwd' = cwd /\ holder' = holder
  BY DEF disk, opened
<1>3. PICK z : z = 0
  OBVIOUS
<1>4. icache' = LockedCache(i, z)
  BY <1>3 DEF LockedCache
<1>5. PICK t : t = <<Iput(i)>>
  OBVIOUS
<1>6. /\ Good(t) /\ Shape(t) /\ Frames(t) = {Iput(i)}
      /\ \A j \in Inums : Refs(t, j) = Eq(i, j) /\ Owed(t, j) = 0 /\ Claimed(t, j) = 0
      /\ \A g \in Files : Closing(t, g) = 0
  BY <1>1, <1>5, OneIput
<1>7. Goes(p, t)
  BY <1>5, <1>6 DEF Goes, Good, Inner, Continue
<1>8. AllSound(p, t)'
  BY <1>1, <1>2, <1>6, IputSound DEF AllSound
<1>9. HoldsMove(p, t) /\ holder' \in [Inums -> Procs \cup {None}]
  BY <1>1, <1>2, <1>6, HoldsNothing
<1>10. LockMove(p, i, z, t)
  BY <1>1, <1>2, <1>3, <1>4, <1>6, <1>7, <1>8, <1>9 DEF LockMove
<1> QED
  BY <1>1, <1>3, <1>10, LockStep

LEMMA OpenExistingStep == ASSUME IInv, NEW p \in Procs, OpenExisting(p) PROVE IInv'
<1>1. PICK f, r, i : f = Top(p) /\ r = Rest(p) /\ i = f.i
  OBVIOUS
<1>2. todo[p] # <<>> /\ f.do = "open" /\ CanLock(i)
  BY <1>1 DEF OpenExisting, At, Top
<1>3. /\ i \in Inums /\ dinode[i].type # "free" /\ cwd[p] # 0
      /\ \A j \in Inums : Refs(todo[p], j) = Eq(i, j) /\ Owed(todo[p], j) = 0 /\ Claimed(todo[p], j) = 0 /\ Eq(i, j) \in Nat /\ Eq(0, j) = 0
      /\ \A h \in Files : Closing(todo[p], h) = 0
  BY <1>1, <1>2, AskingIs DEF Asking
<1>4. /\ dinode' = dinode /\ entries' = entries /\ lost' = lost /\ file' = file /\ ofile' = ofile /\ cwd' = cwd
      /\ icache' = Cache(i, Ilocked(i)) /\ UNCHANGED <<disk, opened, lost>>
  BY <1>1 DEF OpenExisting, disk, opened
<1>5. PICK z : z = 0
  OBVIOUS
<1>6. icache' = LockedCache(i, z)
  BY <1>4, <1>5 DEF LockedCache
<1>7. CASE Ilocked(i).type = "dir" /\ f.arg # "read"
  <2>1. UNCHANGED holder /\ Continue(p, <<Iput(i)>>)
    BY <1>1, <1>7 DEF OpenExisting
  <2> QED
    BY <1>1, <1>2, <1>4, <2>1, PutsIt DEF Asking
<1>8. CASE ~(Ilocked(i).type = "dir" /\ f.arg # "read")
  <2>1. PICK g : g = Plain("opened", i)
    OBVIOUS
  <2>2. holder' = [holder EXCEPT ![i] = p] /\ todo' = [todo EXCEPT ![p] = <<g>>]
    BY <1>1, <1>8, <2>1 DEF OpenExisting, Continue, Plain
  <2>3. /\ FrameOK(g) /\ g.do = "opened" /\ g.i = i /\ g.ip = 0 /\ Ends(g) /\ ~Waiting(g)
        /\ \A j \in Inums : FRefs(g, j) = Eq(i, j) /\ FOwed(g, j) = 0 /\ FClaimed(g, j) = Eq(i, j)
        /\ \A h \in Files : FClosing(g, h) = 0
    <3>1. PICK d : d = "opened"
      OBVIOUS
    <3>2. g = Plain(d, i) /\ d \in Dos /\ (d = "link_bad" \/ d = "unlink_count" \/ d = "opened" \/ d = "iunlockput")
      BY <2>1, <3>1 DEF Dos
    <3>3. /\ FrameOK(g) /\ g.do = d /\ g.i = i /\ g.ip = 0 /\ Ends(g) /\ ~Waiting(g)
          /\ \A j \in Inums : /\ FRefs(g, j) = Eq(i, j)
                              /\ FOwed(g, j) = IF d = "link_bad" \/ d = "unlink_count" THEN Eq(i, j) ELSE 0
                              /\ FClaimed(g, j) = IF d = "link_bad" THEN 0 ELSE Eq(i, j)
          /\ \A h \in Files : FClosing(g, h) = 0
      BY <1>3, <3>2, PlainIs
    <3> QED
      BY <3>1, <3>3
  <2>4. PICK t : t = <<g>>
    OBVIOUS
  <2>5. Inner(t) /\ t[1] = g /\ t # <<>> /\ Frames(t) = {g} /\ Adds(t, g, <<>>)
    BY <2>3, <2>4, OneFrame
  <2>6. Shape(t) /\ Goes(p, t)
    BY <2>2, <2>3, <2>4, <2>5 DEF Shape, Goes, Inner
  <2>7. /\ \A j \in Inums : Refs(t, j) = Eq(i, j) /\ Owed(t, j) = 0 /\ Claimed(t, j) = Eq(i, j)
        /\ \A h \in Files : Closing(t, h) = 0
    BY <1>3, <2>3, <2>5, NoFrames DEF Adds, Weightless
  <2>8. AllSound(p, t)'
    BY <1>3, <1>4, <2>3, <2>5 DEF AllSound, Sound
  <2>9. HoldsMove(p, t) /\ holder' \in [Inums -> Procs \cup {None}]
    <3>1. \A j \in Inums : Claimed(t, j) = Claimed(todo[p], j) + Eq(i, j)
      BY <1>3, <2>7
    <3> QED
      BY <1>2, <1>3, <2>2, <3>1, Holds
  <2>10. LockMove(p, i, z, t)
    BY <1>3, <1>4, <1>5, <1>6, <2>6, <2>7, <2>8, <2>9 DEF LockMove
  <2> QED
    BY <1>1, <1>2, <1>3, <1>5, <2>10, LockStep
<1> QED
  BY <1>7, <1>8

LEMMA CreateReturnStep == ASSUME IInv, NEW p \in Procs, CreateReturn(p) PROVE IInv'
<1>1. PICK f, r, i : f = Top(p) /\ r = Rest(p) /\ i = f.i
  OBVIOUS
<1>2. todo[p] # <<>> /\ f.do = "create_found" /\ CanLock(i)
  BY <1>1 DEF CreateReturn, At, Top
<1>3. /\ i \in Inums /\ dinode[i].type # "free" /\ cwd[p] # 0 /\ Weightless(r)
      /\ \A j \in Inums : Refs(todo[p], j) = Eq(i, j) /\ Owed(todo[p], j) = 0 /\ Claimed(todo[p], j) = 0 /\ Eq(i, j) \in Nat /\ Eq(0, j) = 0
      /\ \A h \in Files : Closing(todo[p], h) = 0
      /\ Inner(r) /\ r # <<>> /\ Waiting(r[1]) /\ Tail(r) = <<>> /\ r[1].ip = 0
      /\ r[1].do = IF f.arg = "dir" THEN "iunlockput" ELSE "opened"
  BY <1>1, <1>2, AskingIs DEF Asking
<1>4. /\ dinode' = dinode /\ entries' = entries /\ lost' = lost /\ file' = file /\ ofile' = ofile /\ cwd' = cwd
      /\ icache' = Cache(i, Ilocked(i)) /\ UNCHANGED <<disk, opened, lost>>
  BY <1>1 DEF CreateReturn, disk, opened
<1>5. CASE f.arg = "file" /\ Ilocked(i).type = "file"
  <2>1. holder' = [holder EXCEPT ![i] = p] /\ todo' = [todo EXCEPT ![p] = Return(r, i)]
    BY <1>1, <1>5 DEF CreateReturn, Continue
  <2>2. PICK t, g : t = Return(r, i) /\ g = r[1]
    OBVIOUS
  <2>3. /\ Good(t) /\ Shape(t) /\ Frames(t) = {[g EXCEPT !.i = i]} \cup Frames(Tail(r)) /\ g \in FrameSet /\ Owns(t, r, i)
        /\ \A j \in Inums : Owed(t, j) = Owed(r, j) /\ Claimed(t, j) = Claimed(r, j) + IF g.do \in Waiters THEN 0 ELSE Eq(i, j)
        /\ \A h \in Files : Closing(t, h) = Closing(r, h)
    BY <1>3, <2>2, Returned
  <2>4. g.do = "opened"
    BY <1>3, <1>5, <2>2
  <2>5. g.do \notin Waiters
    BY <2>4 DEF Waiters
  <2>6. /\ \A j \in Inums : Refs(t, j) = Eq(i, j) /\ Owed(t, j) = 0 /\ Claimed(t, j) = Eq(i, j)
        /\ \A h \in Files : Closing(t, h) = 0
    BY <1>3, <2>3, <2>5 DEF Owns, Weightless
  <2>7. Goes(p, t)
    BY <2>1, <2>2, <2>3 DEF Goes, Good, Inner
  <2>8. AllSound(p, t)'
    <3>1. PICK h : h = [g EXCEPT !.i = i]
      OBVIOUS
    <3>2. h.do = "opened" /\ h.i = i /\ h.ip = 0
      BY <1>3, <2>2, <2>3, <2>4, <3>1 DEF FrameSet
    <3>3. Frames(t) = {h}
      BY <1>3, <2>3, <3>1, NoFrame
    <3> QED
      BY <1>3, <1>4, <3>2, <3>3 DEF AllSound, Sound
  <2>9. HoldsMove(p, t) /\ holder' \in [Inums -> Procs \cup {None}]
    <3>1. \A j \in Inums : Claimed(t, j) = Claimed(todo[p], j) + Eq(i, j)
      BY <1>3, <2>6
    <3> QED
      BY <1>2, <1>3, <2>1, <3>1, Holds
  <2>10. PICK z : z = 0
    OBVIOUS
  <2>11. icache' = LockedCache(i, z)
    BY <1>4, <2>10 DEF LockedCache
  <2>12. LockMove(p, i, z, t)
    BY <1>3, <1>4, <2>3, <2>6, <2>7, <2>8, <2>9, <2>10, <2>11 DEF LockMove
  <2> QED
    BY <1>1, <1>2, <1>3, <2>10, <2>12, LockStep
<1>6. CASE ~(f.arg = "file" /\ Ilocked(i).type = "file")
  <2>1. UNCHANGED holder /\ Continue(p, <<Iput(i)>>)
    BY <1>1, <1>6 DEF CreateReturn
  <2> QED
    BY <1>1, <1>2, <1>4, <2>1, PutsIt DEF Asking
<1> QED
  BY <1>5, <1>6

LEMMA UnlinkLookupStep == ASSUME IInv, NEW p \in Procs, UnlinkLookup(p) PROVE IInv'
<1>1. PICK f, i : f = Top(p) /\ i = f.i
  OBVIOUS
<1>2. todo[p] # <<>> /\ f.do = "unlink" /\ CanLock(i)
  BY <1>1 DEF UnlinkLookup, At, Top
<1>3. /\ i \in Inums /\ i # 0 /\ dinode[i].type # "free" /\ cwd[p] # 0
      /\ \A j \in Inums : Refs(todo[p], j) = Eq(i, j) /\ Owed(todo[p], j) = 0 /\ Claimed(todo[p], j) = 0 /\ Eq(i, j) \in Nat /\ Eq(0, j) = 0
      /\ \A h \in Files : Closing(todo[p], h) = 0
  BY <1>1, <1>2, AskingIs DEF Asking
<1>4. dinode' = dinode /\ entries' = entries /\ lost' = lost /\ file' = file /\ ofile' = ofile /\ cwd' = cwd
      /\ UNCHANGED <<disk, opened, lost>>
  BY DEF UnlinkLookup, disk, opened
<1>5. FrameOK(f) /\ f \in FrameSet /\ Sound(p, f)
  BY <1>1, <1>2, TopIs
<1>6. f.path \in Elems \ {<<>>} /\ dinode[i].type = "dir"
  BY <1>1, <1>2, <1>3, <1>5 DEF FrameOK, Sound
<1>7. PICK n, ip : n = Last(f.path) /\ ip = entries[i][n]
  OBVIOUS
<1>8. n \in Names \cup {"."}
  BY <1>6, <1>7, PathIs
<1>9. CASE n \in Dots \/ ip = 0
  <2>1. icache' = Cache(i, Ilocked(i)) /\ UNCHANGED holder /\ Continue(p, <<Iput(i)>>)
    BY <1>1, <1>7, <1>9 DEF UnlinkLookup, LastName
  <2> QED
    BY <1>1, <1>2, <1>4, <2>1, PutsIt DEF Asking
<1>10. CASE ~(n \in Dots \/ ip = 0)
  <2>1. n \in Names /\ ip \in Inums /\ dinode[ip].type # "free" /\ Named(ip)
    <3>1. n \in Names
      BY <1>8, <1>10 DEF Dots
    <3> QED
      BY <1>3, <1>6, <1>7, <1>8, <1>10, <3>1, NextIs DEF Named
  <2>2. PICK g : g = [f EXCEPT !.do = "unlink_ip", !.i = ip, !.ip = i]
    OBVIOUS
  <2>3. g \in FrameSet /\ g.do = "unlink_ip" /\ g.i = ip /\ g.ip = i /\ g.path = f.path
    BY <1>3, <1>5, <2>1, <2>2 DEF FrameSet, Dos
  <2>4. FrameOK(g) /\ Ends(g) /\ ~Waiting(g)
    BY <1>3, <1>6, <1>7, <2>1, <2>3, Constants DEF FrameOK, Ends, Waiting
  <2>5. PICK t : t = <<g>>
    OBVIOUS
  <2>6. Inner(t) /\ t[1] = g /\ t # <<>> /\ Frames(t) = {g} /\ Adds(t, g, <<>>)
    BY <2>4, <2>5, OneFrame
  <2>7. /\ icache' = CacheAndRef(i, Ilocked(i), ip) /\ holder' = [holder EXCEPT ![i] = p]
        /\ todo' = [todo EXCEPT ![p] = t]
    BY <1>1, <1>7, <1>10, <2>2, <2>5 DEF UnlinkLookup, LastName, Continue
  <2>8. icache' = LockedCache(i, ip) /\ ip # 0
    BY <1>10, <2>7 DEF LockedCache, WithRef, CacheAndRef
  <2>9. Shape(t) /\ Goes(p, t)
    BY <2>4, <2>6, <2>7 DEF Shape, Goes, Inner
  <2>10. ASSUME NEW j \in Inums PROVE FRefs(g, j) = Eq(ip, j) + Eq(i, j) /\ FOwed(g, j) = 0 /\ FClaimed(g, j) = Eq(i, j)
                                      /\ Eq(ip, j) \in Nat
    BY <2>3 DEF FRefs, FOwed, FClaimed, Eq
  <2>11. /\ \A j \in Inums : Refs(t, j) = Eq(i, j) + Eq(ip, j) /\ Owed(t, j) = 0 /\ Claimed(t, j) = Eq(i, j)
         /\ \A h \in Files : Closing(t, h) = 0
    <3>1. \A h \in Files : FClosing(g, h) = 0
      BY <2>3 DEF FClosing
    <3> QED
      BY <1>3, <2>6, <2>10, <3>1, NoFrames DEF Adds, Weightless
  <2>12. HoldsMove(p, t) /\ holder' \in [Inums -> Procs \cup {None}]
    <3>1. \A j \in Inums : Claimed(t, j) = Claimed(todo[p], j) + Eq(i, j)
      BY <1>3, <2>11
    <3> QED
      BY <1>2, <1>3, <2>7, <3>1, Holds
  <2>13. AllSound(p, t)'
    <3>1. icache'[i].valid
      BY <1>1, <1>2, <1>3, <2>1, <2>8, Locked DEF Touches
    <3>2. Sound(p, g)'
      BY <1>3, <1>4, <1>6, <1>7, <2>1, <2>3, <3>1 DEF Sound
    <3> QED
      BY <2>6, <3>2 DEF AllSound
  <2>14. Touches(p, ip)
    BY <2>1 DEF Touches
  <2>15. LockMove(p, i, ip, t)
    BY <1>3, <1>4, <2>8, <2>9, <2>11, <2>12, <2>13 DEF LockMove
  <2> QED
    BY <1>1, <1>2, <1>3, <2>1, <2>14, <2>15, LockStep
<1> QED
  BY <1>9, <1>10

LEMMA TwoJoin ==
  ASSUME NEW S, NEW h \in S, NEW g \in S
  PROVE  <<h>> \in Seq(S) /\ <<g>> \in Seq(S) /\ <<h>> \o <<g>> = <<h, g>>
<1>1. PICK e, x : e = <<g>> /\ x = <<h>>
  OBVIOUS
<1>2. e \in Seq(S) /\ x \in Seq(S) /\ Len(e) = 1 /\ e[1] = g
  BY <1>1
<1>3. PICK t : t = <<h>> \o e
  OBVIOUS
<1>4. t \in Seq(S) /\ Len(t) = Len(e) + 1 /\ t[1] = h /\ \A k \in 1 .. Len(e) : t[k + 1] = e[k]
  BY <1>2, <1>3, ConsIs
<1>5. t \in Seq(S) /\ Len(t) = 2 /\ t[1] = h /\ t[2] = g
  BY <1>2, <1>4
<1>6. t = <<h, g>>
  BY <1>5
<1> QED
  BY <1>1, <1>2, <1>3, <1>6

LEMMA CreateFoundStep == ASSUME IInv, NEW p \in Procs, CreateFound(p) PROVE IInv'
<1>1. PICK f, r, i : f = Top(p) /\ r = Rest(p) /\ i = f.i
  OBVIOUS
<1>2. todo[p] # <<>> /\ f.do = "create" /\ CanLock(i)
  BY <1>1 DEF CreateFound, At, Top
<1>3. /\ i \in Inums /\ i # 0 /\ dinode[i].type # "free" /\ cwd[p] # 0 /\ Weightless(r)
      /\ \A j \in Inums : Refs(todo[p], j) = Eq(i, j) /\ Owed(todo[p], j) = 0 /\ Claimed(todo[p], j) = 0 /\ Eq(i, j) \in Nat /\ Eq(0, j) = 0
      /\ \A h \in Files : Closing(todo[p], h) = 0
      /\ Inner(r) /\ r # <<>> /\ Waiting(r[1])
      /\ r[1].do = IF f.arg = "dir" THEN "iunlockput" ELSE "opened"
  BY <1>1, <1>2, AskingIs DEF Asking
<1>4. dinode' = dinode /\ entries' = entries /\ lost' = lost /\ file' = file /\ ofile' = ofile /\ cwd' = cwd /\ holder' = holder
  BY DEF CreateFound, disk, opened
<1>5. FrameOK(f) /\ f \in FrameSet /\ Sound(p, f)
  BY <1>1, <1>2, TopIs
<1>6. f.path \in Elems \ {<<>>} /\ dinode[i].type = "dir" /\ f.arg \in {"file", "dir"}
  BY <1>1, <1>2, <1>3, <1>5 DEF FrameOK, Sound
<1>7. PICK n, ip : n = Last(f.path) /\ ip = entries[i][n]
  OBVIOUS
<1>8. n \in Names \cup {"."}
  BY <1>6, <1>7, PathIs
<1>9. PICK g : g = Frame("create_found", ip, 0, <<>>, f.arg)
  OBVIOUS
<1>10. /\ ip # 0 /\ icache' = CacheAndRef(i, Ilocked(i), ip) /\ todo' = [todo EXCEPT ![p] = <<Iput(i), g>> \o r]
  BY <1>1, <1>7, <1>9 DEF CreateFound, LastName, Continue
<1>11. ip \in Inums /\ dinode[ip].type # "free" /\ (ip = i \/ Named(ip))
  BY <1>3, <1>6, <1>7, <1>8, <1>10, NextIs
<1>12. g \in FrameSet /\ g.do = "create_found" /\ g.i = ip /\ g.ip = 0 /\ g.arg = f.arg
  <2>1. PICK d, z, a : d = "create_found" /\ z = 0 /\ a = f.arg
    OBVIOUS
  <2>2. d \in Dos /\ a \in Args /\ ip \in Inums \cup {0} /\ z \in Inums \cup {0}
    BY <1>6, <1>11, <2>1 DEF Dos, Args
  <2>3. g = Frame(d, ip, z, <<>>, a)
    BY <1>9, <2>1
  <2>4. g \in FrameSet /\ g.do = d /\ g.i = ip /\ g.ip = z /\ g.arg = a
    BY <2>2, <2>3, PathlessIs
  <2> QED
    BY <2>1, <2>4
<1>13. FrameOK(g) /\ ~Waiting(g) /\ Leads(g, r[1])
  <2>1. r[1].i = 0 /\ r[1].do \notin {"itrunc", "unref", "unlink_ip", "panic"}
    BY <1>3 DEF Waiting, Waiters
  <2> QED
    BY <1>3, <1>6, <1>10, <1>12, <2>1 DEF FrameOK, Waiting, Waiters, Leads
<1>14. PICK u : u = <<g>> \o r
  OBVIOUS
<1>15. Inner(u) /\ u[1] = g /\ u # <<>> /\ Adds(u, g, r) /\ Frames(u) = {g} \cup Frames(r)
  BY <1>3, <1>12, <1>13, <1>14, Pushed, FramesOf DEF Inner
<1>16. Good(u)
  BY <1>12, <1>13, <1>15 DEF Good
<1>17. PICK t : t = <<Iput(i)>> \o u
  OBVIOUS
<1>18. Good(t) /\ Shape(t) /\ Frames(t) = {Iput(i)} \cup Frames(u) /\ Alike(t, u) /\ Owns(t, u, i)
  BY <1>3, <1>16, <1>17, PushIput
<1>19. t = <<Iput(i), g>> \o r
  <2>1. PICK h : h = Iput(i)
    OBVIOUS
  <2>2. h \in FrameSet /\ r \in Seq(FrameSet)
    BY <1>3, <2>1, IputIs DEF Inner
  <2>3. <<h>> \in Seq(FrameSet) /\ <<g>> \in Seq(FrameSet) /\ <<h>> \o <<g>> = <<h, g>>
    BY <1>12, <2>2, TwoJoin
  <2>4. <<h>> \o (<<g>> \o r) = (<<h>> \o <<g>>) \o r
    BY <2>2, <2>3, ConcatAssociative
  <2> QED
    BY <1>14, <1>17, <2>1, <2>3, <2>4
<1>20. Goes(p, t)
  BY <1>10, <1>18, <1>19 DEF Goes, Good, Inner
<1>21. ASSUME NEW j \in Inums PROVE FRefs(g, j) = Eq(ip, j) /\ FOwed(g, j) = 0 /\ FClaimed(g, j) = 0 /\ Eq(ip, j) \in Nat
  <2>1. Eq(g.i, j) = Eq(ip, j) /\ Eq(g.ip, j) = 0 /\ Eq(ip, j) \in Nat
    BY <1>3, <1>12 DEF Eq
  <2> QED
    BY <1>12, <2>1 DEF FRefs, FOwed, FClaimed
<1>22. /\ \A j \in Inums : Refs(t, j) = Eq(i, j) + Eq(ip, j) /\ Owed(t, j) = 0 /\ Claimed(t, j) = 0
       /\ \A h \in Files : Closing(t, h) = 0
  <2>1. \A h \in Files : FClosing(g, h) = 0
    BY <1>12 DEF FClosing
  <2>2. /\ \A j \in Inums : Refs(u, j) = Eq(ip, j) /\ Owed(u, j) = 0 /\ Claimed(u, j) = 0
        /\ \A h \in Files : Closing(u, h) = 0
    BY <1>3, <1>15, <1>21, <2>1 DEF Adds, Weightless
  <2> QED
    BY <1>3, <1>18, <1>21, <2>2 DEF Alike, Owns
<1>23. HoldsMove(p, t) /\ holder' \in [Inums -> Procs \cup {None}]
  BY <1>3, <1>4, <1>22, HoldsNothing
<1>24. icache' = LockedCache(i, ip)
  BY <1>10 DEF LockedCache, WithRef, CacheAndRef
<1>25. Touches(p, ip)
  BY <1>1, <1>2, <1>11 DEF Touches
<1>26. AllSound(p, t)'
  <2>1. Careful(p)
    BY <1>1, <1>2, <1>3, <1>4, <1>11, <1>24, <1>25, Locked
  <2>2. AllSound(p, r)'
    BY <1>1, <1>2, <1>4, <2>1, RestStays
  <2>3. Sound(p, g)'
    BY <1>3, <1>4, <1>11, <1>12 DEF Sound
  <2>4. Sound(p, Iput(i))'
    BY <1>3, <1>4, IputSound
  <2> QED
    BY <1>15, <1>18, <2>2, <2>3, <2>4 DEF AllSound
<1>27. LockMove(p, i, ip, t)
  BY <1>3, <1>4, <1>18, <1>20, <1>22, <1>23, <1>24, <1>26 DEF LockMove
<1> QED
  BY <1>1, <1>2, <1>3, <1>11, <1>25, <1>27, LockStep

-----------------------------------------------------------------------------
(* Steps that write an inode. *)

LEMMA RefIs ==
  ASSUME NEW c \in [Inums -> Inodes], NEW j \in Inums
  PROVE  /\ WithRef(c, j) \in [Inums -> Inodes]
         /\ \A k \in Inums : /\ WithRef(c, j)[k].ref = c[k].ref + Eq(j, k) /\ WithRef(c, j)[k].valid = c[k].valid
                             /\ WithRef(c, j)[k].type = c[k].type /\ WithRef(c, j)[k].nlink = c[k].nlink
         /\ \A k \in Inums : k # j => WithRef(c, j)[k] = c[k]
<1>1. PICK d : d = WithRef(c, j)
  OBVIOUS
<1>2. PICK in : in = [c[j] EXCEPT !.ref = @ + 1]
  OBVIOUS
<1>3. in \in Inodes /\ in.ref = c[j].ref + 1 /\ in.valid = c[j].valid /\ in.type = c[j].type /\ in.nlink = c[j].nlink
  BY <1>2 DEF Inodes
<1>4. d \in [Inums -> Inodes] /\ \A k \in Inums : d[k] = IF k = j THEN in ELSE c[k]
  BY <1>1, <1>2, <1>3 DEF WithRef
<1>5. \A k \in Inums : c[k].ref \in Nat
  BY DEF Inodes
<1>6. \A k \in Inums : /\ d[k].ref = c[k].ref + Eq(j, k) /\ d[k].valid = c[k].valid
                       /\ d[k].type = c[k].type /\ d[k].nlink = c[k].nlink
                       /\ k # j => d[k] = c[k]
  BY <1>3, <1>4, <1>5 DEF Eq
<1> QED
  BY <1>1, <1>4, <1>6

\* A step that writes the disk and touches neither files nor current directories.
Disk(p, t) ==
  /\ file' = file /\ ofile' = ofile /\ cwd' = cwd
  /\ dinode' \in [Inums -> [type : Types, nlink : Nat]]
  /\ entries' \in [Inums -> [Names \cup Dots -> Inums \cup {0}]] /\ lost' \subseteq Inums
  /\ holder' \in [Inums -> Procs \cup {None}] /\ HoldsMove(p, t)
  /\ Goes(p, t) /\ Shape(t) /\ AllSound(p, t)' /\ Careful(p) /\ Fits(icache)'
  /\ \A i \in Inums : icache'[i].ref = icache[i].ref - Refs(todo[p], i) + Refs(t, i)
  /\ \A f \in Files : Closing(t, f) = Closing(todo[p], f)
  /\ LinksBalance'

LEMMA AloneIs ==
  ASSUME IInv, NEW p \in Procs, NEW i \in Inums, Alone(p, i)
  PROVE  (\A x \in Procs : cwd[x] # i) /\ \A f \in Files : file[f].ip # i
<1>1. 1 \in 1 .. Len(todo[p]) /\ todo[p][1].i = i /\ icache[i].ref = 1
  BY Stacked, Popped DEF IInv, Alone, Top
<1> QED
  BY <1>1, RefOf

LEMMA DiskStep ==
  ASSUME IInv, NEW p \in Procs, NEW t, Disk(p, t)
  PROVE  IInv'
<1>1. TypeOK'
  BY DEF Disk, IInv, TypeOK, Inodes, Fits
<1>2. RefsMove(p, t)
  <2>1. ASSUME NEW i \in Inums PROVE Kept(i)' = Kept(i) /\ Kept(i) \in Nat
    BY KeptNat DEF Disk, Kept, IpOf
  <2>2. \A i \in Inums : icache[i].ref \in Nat
    BY DEF IInv, TypeOK
  <2>3. Naturals(t) /\ Naturals(todo[p])
    BY NaturalsOf, Stacked DEF Disk, Goes, IInv
  <2> QED
    BY <2>1, <2>2, <2>3 DEF Disk, RefsMove, Naturals
<1>3. Shapes'
  BY ShapesStep DEF Disk
<1>4. SoundFrames'
  BY FramesStep DEF Disk
<1>5. Coherent'
  BY DEF Disk, Coherent, Fits
<1>6. HeldOnce'
  BY HoldsStep DEF Disk
<1>7. RefsBalance'
  BY <1>2, RefsStep DEF Disk
<1>8. FilesBalance'
  <2>1. FdsMove(p, t)
    BY DEF Disk, FdsMove
  <2> QED
    BY <2>1, FdsStay DEF Disk
<1>9. InUse'
  <2>1. ASSUME NEW q \in Procs, cwd'[q] # 0 PROVE dinode'[cwd'[q]].type = "dir"
    <3>1. cwd'[q] = cwd[q] /\ cwd[q] \in Inums /\ dinode[cwd[q]].type = "dir"
      BY <2>1 DEF Disk, IInv, InUse, TypeOK
    <3>2. ~Alone(p, cwd[q])
      BY <3>1, AloneIs
    <3> QED
      BY <3>1, <3>2 DEF Disk, Careful
  <2>2. ASSUME NEW f \in Files, file'[f].ip # 0 PROVE dinode'[file'[f].ip].type # "free"
    <3>1. file'[f].ip = file[f].ip /\ file[f].ip \in Inums /\ dinode[file[f].ip].type # "free"
      BY <2>2 DEF Disk, IInv, InUse, TypeOK
    <3>2. ~Alone(p, file[f].ip)
      BY <3>1, AloneIs
    <3> QED
      BY <3>1, <3>2 DEF Disk, Careful
  <2> QED
    BY <2>1, <2>2 DEF InUse
<1>10. LinksBalance'
  BY DEF Disk
<1> QED
  BY <1>1, <1>3, <1>4, <1>5, <1>6, <1>7, <1>8, <1>9, <1>10 DEF IInv

\* What is written back to i is what the cache has from then on.
LEMMA WrittenFits ==
  ASSUME IInv, NEW i \in Inums, dinode[i].type # "free",
         NEW in \in Inodes, in.valid, in.type = dinode[i].type, in.ref = icache[i].ref, Iupdate(i, in), NEW c, c = Cache(i, in)
  PROVE  /\ c \in [Inums -> Inodes] /\ Fits(c)'
         /\ \A k \in Inums : c[k].ref = icache[k].ref
         /\ \A k \in Inums : k # i => c[k] = icache[k]
         /\ c[i] = in /\ \A k \in Inums : icache[k].valid => c[k].valid
         /\ dinode' \in [Inums -> [type : Types, nlink : Nat]]
         /\ \A k \in Inums : /\ dinode'[k].type = dinode[k].type
                             /\ dinode'[k].nlink = IF k = i THEN in.nlink ELSE dinode[k].nlink
<1>1. Fits(icache) /\ icache \in [Inums -> Inodes] /\ dinode \in [Inums -> [type : Types, nlink : Nat]]
  BY CacheFits DEF Fits, IInv, TypeOK
<1>3. c \in [Inums -> Inodes] /\ \A k \in Inums : c[k] = IF k = i THEN in ELSE icache[k]
  BY <1>1 DEF Cache
<1>4. PICK e : e = [type |-> in.type, nlink |-> in.nlink]
  OBVIOUS
<1>5. e \in [type : Types, nlink : Nat] /\ e.type = in.type /\ e.nlink = in.nlink
  BY <1>4 DEF Inodes
<1>6. dinode' \in [Inums -> [type : Types, nlink : Nat]] /\ \A k \in Inums : dinode'[k] = IF k = i THEN e ELSE dinode[k]
  BY <1>1, <1>4, <1>5 DEF Iupdate
<1>7. \A k \in Inums : dinode'[k].type = dinode[k].type /\ dinode'[k].nlink = IF k = i THEN in.nlink ELSE dinode[k].nlink
  BY <1>5, <1>6
<1>8. Fits(c)'
  BY <1>1, <1>3, <1>7 DEF Fits
<1> QED
  BY <1>3, <1>6, <1>7, <1>8

\* nlink changes by what is owed for it.
NlinkMove(p, t) ==
  /\ entries' = entries /\ lost' = lost
  /\ \A i \in Inums : dinode'[i].type = dinode[i].type /\ dinode'[i].nlink = dinode[i].nlink - Owed(todo[p], i) + Owed(t, i)

LEMMA NlinkStep ==
  ASSUME IInv, NEW p \in Procs, NEW t, Goes(p, t), NlinkMove(p, t)
  PROVE  LinksBalance'
<1>1. entries' = entries /\ lost' = lost /\ lost \subseteq Inums /\ LinksBalance
  BY DEF NlinkMove, IInv, TypeOK
<1>2. \A i \in Inums, n \in Names : entries[i][n] \in Inums \cup {0}
  BY DEF IInv, TypeOK
<1>3. ASSUME NEW i \in Inums
      PROVE  /\ NamesOf(i)' = NamesOf(i) /\ NamesOf(i) \in Nat
             /\ SubdirsOf(i)' = SubdirsOf(i) /\ SubdirsOf(i) \in Nat
  <2>1. NamesOf(i)' = NamesOf(i)
    BY <1>1 DEF NamesOf, EntryOf
  <2>2. NamesOf(i) \in Nat
    BY Constants, FS_Product, FiberIs DEF NamesOf
  <2>3. PICK g, h : g = DirOf(i) /\ h = DirOf(i)'
    OBVIOUS
  <2>4. ASSUME NEW n \in Names PROVE h[n] = TRUE <=> g[n] = TRUE
    <3>1. entries[i][n] = 0 \/ dinode'[entries[i][n]].type = dinode[entries[i][n]].type
      BY <1>2 DEF NlinkMove
    <3>2. g[n] = IsDir(entries[i][n]) /\ h[n] = IsDir(entries[i][n])'
      BY <2>3 DEF DirOf
    <3> QED
      BY <1>1, <3>1, <3>2 DEF IsDir
  <2>5. PICK v : v = TRUE
    OBVIOUS
  <2>6. \A n \in Names : h[n] = v <=> g[n] = v
    BY <2>4, <2>5, Zenon
  <2>7. Fiber(h, Names, v) = Fiber(g, Names, v)
    BY <2>6, FiberSame
  <2>8. SubdirsOf(i) = Fiber(g, Names, v) /\ SubdirsOf(i)' = Fiber(h, Names, v)
    BY <2>3, <2>5, Zenon DEF SubdirsOf
  <2>9. SubdirsOf(i) \in Nat
    BY <2>8, Constants, FiberIs
  <2> QED
    BY <2>1, <2>2, <2>7, <2>8, <2>9
<1>4. \A i \in Inums : /\ Total(OwesTo(i))' = Total(OwesTo(i)) - Owed(todo[p], i) + Owed(t, i)
                       /\ Total(OwesTo(i)) \in Nat /\ Owed(todo[p], i) \in Nat /\ Owed(t, i) \in Nat
  BY OwedStep
<1>5. \A i \in Inums : dinode[i].nlink \in Nat
  BY DEF IInv, TypeOK
<1>6. ASSUME NEW i \in Inums \ lost', dinode'[i].type # "free"
      PROVE  dinode'[i].nlink = NamesOf(i)' + SubdirsOf(i)' + Total(OwesTo(i))' + (IF i = Root THEN 1 ELSE 0)
  <2>1. dinode[i].nlink = NamesOf(i) + SubdirsOf(i) + Total(OwesTo(i)) + (IF i = Root THEN 1 ELSE 0)
    BY <1>1, <1>6 DEF NlinkMove, LinksBalance
  <2>2. dinode'[i].nlink = dinode[i].nlink - Owed(todo[p], i) + Owed(t, i)
    BY DEF NlinkMove
  <2> QED
    BY <1>3, <1>4, <2>1, <2>2
<1>7. ASSUME NEW i \in lost' PROVE dinode'[i].type = "file" /\ dinode'[i].nlink >= NamesOf(i)' + Total(OwesTo(i))' + 1
  <2>1. i \in Inums /\ dinode[i].type = "file" /\ dinode[i].nlink >= NamesOf(i) + Total(OwesTo(i)) + 1
    BY <1>1 DEF LinksBalance
  <2>2. dinode'[i].nlink = dinode[i].nlink - Owed(todo[p], i) + Owed(t, i) /\ dinode'[i].type = "file"
    BY <2>1 DEF NlinkMove
  <2> QED
    BY <1>3, <1>4, <1>5, <2>1, <2>2
<1>8. \A i \in Inums, n \in Names : entries'[i][n] # 0 => dinode'[entries'[i][n]].type # "free" /\ dinode'[i].type = "dir"
  BY <1>1, <1>2 DEF NlinkMove, LinksBalance
<1>9. \A i \in Inums : entries'[i]["."] \in {0, i} /\ (dinode'[i].type = "dir" => entries'[i]["."] = i)
  BY <1>1 DEF NlinkMove, LinksBalance
<1>10. dinode'[Root].type = "dir"
  BY <1>1, Constants DEF NlinkMove, LinksBalance
<1> QED
  BY <1>6, <1>7, <1>8, <1>9, <1>10 DEF LinksBalance

\* What is owed is still counted.
LEMMA OwedLink ==
  ASSUME IInv, NEW p \in Procs, NEW i \in Inums, dinode[i].type # "free", Owed(todo[p], i) # 0
  PROVE  dinode[i].nlink \in Nat /\ dinode[i].nlink >= 1
<1>1. Total(OwesTo(i)) \in Nat /\ Total(OwesTo(i)) >= 1
  <2>1. PICK A : A = OwesTo(i)
    OBVIOUS
  <2>2. todo \in Stacks
    BY Stacked DEF IInv
  <2>3. /\ TotalIn(todo, A) = Cardinality(DueOthers(todo, p, A)) + Count(todo[p], A)
        /\ Cardinality(DueOthers(todo, p, A)) \in Nat /\ Count(todo[p], A) \in Nat
    BY <2>2, DueOf
  <2>4. Count(todo[p], A) # 0
    BY <2>1 DEF Owed
  <2> QED
    BY <2>1, <2>3, <2>4 DEF Total
<1>2. NamesOf(i) \in Nat /\ SubdirsOf(i) \in Nat
  BY Constants, FS_Product, FiberIs DEF NamesOf, SubdirsOf
<1>3. dinode[i].nlink \in Nat
  BY DEF IInv, TypeOK
<1>4. CASE i \in lost
  BY <1>1, <1>2, <1>3, <1>4 DEF IInv, LinksBalance
<1>5. CASE i \notin lost
  <2>1. dinode[i].nlink = NamesOf(i) + SubdirsOf(i) + Total(OwesTo(i)) + (IF i = Root THEN 1 ELSE 0)
    BY <1>5 DEF IInv, LinksBalance
  <2> QED
    BY <1>1, <1>2, <1>3, <2>1
<1> QED
  BY <1>4, <1>5

CountMove(p, i, in, j, t) ==
  /\ UNCHANGED <<entries, opened, lost>> /\ Iupdate(i, in)
  /\ icache' = IF j = 0 THEN Cache(i, in) ELSE WithRef(Cache(i, in), j)
  /\ holder' \in [Inums -> Procs \cup {None}] /\ HoldsMove(p, t)
  /\ Goes(p, t) /\ Shape(t) /\ AllSound(p, t)'
  /\ \A k \in Inums : Refs(t, k) = Refs(todo[p], k) + Eq(j, k) /\ (k # i => Owed(t, k) = Owed(todo[p], k))
  /\ in.nlink = dinode[i].nlink - Owed(todo[p], i) + Owed(t, i)
  /\ \A g \in Files : Closing(t, g) = Closing(todo[p], g)

LEMMA CountStep ==
  ASSUME IInv, NEW p \in Procs, todo[p] # <<>>, NEW i \in Inums, i = Top(p).i, dinode[i].type # "free",
         NEW in \in Inodes, in.valid, in.type = dinode[i].type, in.ref = icache[i].ref,
         NEW j \in Inums \cup {0}, j # 0 => Touches(p, j), NEW t, CountMove(p, i, in, j, t)
  PROVE  IInv'
<1>1. PICK c : c = Cache(i, in)
  OBVIOUS
<1>2. /\ c \in [Inums -> Inodes] /\ Fits(c)'
      /\ \A k \in Inums : c[k].ref = icache[k].ref
      /\ \A k \in Inums : k # i => c[k] = icache[k]
      /\ \A k \in Inums : icache[k].valid => c[k].valid
      /\ dinode' \in [Inums -> [type : Types, nlink : Nat]]
      /\ \A k \in Inums : /\ dinode'[k].type = dinode[k].type
                          /\ dinode'[k].nlink = IF k = i THEN in.nlink ELSE dinode[k].nlink
  BY <1>1, WrittenFits DEF CountMove
<1>3. Touches(p, i)
  BY DEF Touches
<1>4. \A k \in Inums : icache[k].ref \in Nat /\ k # 0
  BY CacheFits, Constants DEF Fits, Inodes
<1>5. /\ Fits(icache)' /\ \A k \in Inums : icache'[k].ref = icache[k].ref + Eq(j, k)
      /\ \A k \in Inums : icache'[k] # icache[k] => Touches(p, k)
      /\ \A k \in Inums : icache[k].valid => icache'[k].valid
  <2>1. CASE j = 0
    <3>1. icache' = c
      BY <1>1, <2>1 DEF CountMove
    <3>2. ASSUME NEW k \in Inums PROVE icache'[k].ref = icache[k].ref + Eq(j, k)
      <4>1. Eq(j, k) = 0 /\ icache'[k].ref = icache[k].ref /\ icache[k].ref \in Nat
        BY <1>2, <1>4, <2>1, <3>1 DEF Eq
      <4> QED
        BY <4>1
    <3>3. Fits(icache)'
      BY <1>2, <3>1 DEF Fits
    <3> QED
      BY <1>2, <1>3, <3>1, <3>2, <3>3
  <2>2. CASE j # 0
    <3>1. icache' = WithRef(c, j) /\ j \in Inums
      BY <1>1, <2>2 DEF CountMove
    <3>2. /\ icache' \in [Inums -> Inodes]
          /\ \A k \in Inums : /\ icache'[k].ref = c[k].ref + Eq(j, k) /\ icache'[k].valid = c[k].valid
                              /\ icache'[k].type = c[k].type /\ icache'[k].nlink = c[k].nlink
          /\ \A k \in Inums : k # j => icache'[k] = c[k]
      BY <1>2, <3>1, RefIs
    <3>3. Fits(icache)'
      BY <1>2, <3>2 DEF Fits
    <3>4. \A k \in Inums : icache'[k] # icache[k] => Touches(p, k)
      BY <1>2, <1>3, <2>2, <3>2
    <3>5. \A k \in Inums : icache'[k].ref = icache[k].ref + Eq(j, k)
      BY <1>2, <3>2
    <3> QED
      BY <1>2, <3>2, <3>3, <3>4, <3>5
  <2> QED
    BY <2>1, <2>2
<1>6. entries' = entries /\ lost' = lost /\ file' = file /\ ofile' = ofile /\ cwd' = cwd
  BY DEF CountMove, opened
<1>7. Careful(p)
  BY <1>2, <1>5, <1>6 DEF Careful
<1>8. LinksBalance'
  <2>1. ASSUME NEW k \in Inums PROVE dinode'[k].nlink = dinode[k].nlink - Owed(todo[p], k) + Owed(t, k)
    <3>1. Owed(todo[p], k) \in Nat /\ dinode[k].nlink \in Nat
      BY Stacked, NaturalsOf DEF IInv, TypeOK, Naturals
    <3> QED
      BY <1>2, <3>1 DEF CountMove
  <2>2. NlinkMove(p, t)
    BY <1>2, <1>6, <2>1 DEF NlinkMove
  <2> QED
    BY <2>2, NlinkStep DEF CountMove
<1>9. \A k \in Inums : icache'[k].ref = icache[k].ref - Refs(todo[p], k) + Refs(t, k)
  <2>1. TAKE k \in Inums
  <2>2. Eq(j, k) \in Nat /\ Refs(todo[p], k) \in Nat
    BY TopIs DEF Eq, Naturals
  <2>3. Refs(t, k) = Refs(todo[p], k) + Eq(j, k) /\ icache'[k].ref = icache[k].ref + Eq(j, k)
    BY <1>5 DEF CountMove
  <2> QED
    BY <1>4, <2>2, <2>3
<1>10. entries' \in [Inums -> [Names \cup Dots -> Inums \cup {0}]] /\ lost' \subseteq Inums
  BY <1>6 DEF IInv, TypeOK
<1>11. Disk(p, t)
  BY <1>2, <1>5, <1>6, <1>7, <1>8, <1>9, <1>10 DEF Disk, CountMove
<1> QED
  BY <1>11, DiskStep

LEMMA LinkBadStep == ASSUME IInv, NEW p \in Procs, LinkBad(p) PROVE IInv'
<1>1. PICK f, r, i : f = Top(p) /\ r = Rest(p) /\ i = f.i
  OBVIOUS
<1>2. todo[p] # <<>> /\ f.do = "link_bad" /\ CanLock(i)
  BY <1>1 DEF LinkBad, At, Top
<1>3. /\ FrameOK(f) /\ f.i \in Inums \cup {0} /\ Weightless(r) /\ Adds(todo[p], f, r) /\ Sound(p, f)
  BY <1>1, <1>2, TopIs
<1>4. i \in Inums /\ f.ip = 0 /\ i # 0 /\ 0 \notin Inums
  BY <1>1, <1>2, <1>3, Constants DEF FrameOK
<1>5. dinode[i].type # "free"
  BY <1>1, <1>2, <1>3, <1>4 DEF Sound
<1>6. ASSUME NEW j \in Inums PROVE FRefs(f, j) = Eq(i, j) /\ FOwed(f, j) = Eq(i, j) /\ FClaimed(f, j) = 0 /\ Eq(i, j) \in Nat /\ Eq(0, j) = 0
  <2>1. Eq(f.i, j) = Eq(i, j) /\ Eq(f.ip, j) = 0 /\ Eq(0, j) = 0 /\ Eq(i, j) \in Nat
    BY <1>1, <1>4 DEF Eq
  <2> QED
    BY <1>2, <2>1 DEF FRefs, FOwed, FClaimed
<1>7. /\ \A j \in Inums : Refs(todo[p], j) = Eq(i, j) /\ Owed(todo[p], j) = Eq(i, j) /\ Claimed(todo[p], j) = 0
      /\ \A h \in Files : Closing(todo[p], h) = 0
  <2>1. \A h \in Files : FClosing(f, h) = 0
    BY <1>2 DEF FClosing
  <2> QED
    BY <1>3, <1>6, <2>1 DEF Adds, Weightless
<1>8. Eq(i, i) = 1 /\ \A j \in Inums : j # i => Eq(i, j) = 0
  BY DEF Eq
<1>9. dinode[i].nlink \in Nat /\ dinode[i].nlink >= 1
  BY <1>4, <1>5, <1>7, <1>8, OwedLink
<1>10. PICK in : in = [Ilocked(i) EXCEPT !.nlink = @ - 1]
  OBVIOUS
<1>11. in \in Inodes /\ in.valid /\ in.type = dinode[i].type /\ in.ref = icache[i].ref /\ in.nlink = dinode[i].nlink - 1
  <2>1. Ilocked(i) \in Inodes /\ Ilocked(i).valid /\ Ilocked(i).ref = icache[i].ref
        /\ Ilocked(i).type = dinode[i].type /\ Ilocked(i).nlink = dinode[i].nlink
    BY <1>4, <1>5, LockedFits
  <2> QED
    BY <1>9, <1>10, <2>1 DEF Inodes
<1>12. PICK t, z : t = <<Iput(i)>> /\ z = 0
  OBVIOUS
<1>13. /\ UNCHANGED <<entries, opened, lost>> /\ Iupdate(i, in) /\ icache' = Cache(i, in) /\ holder' = holder
       /\ todo' = [todo EXCEPT ![p] = t]
  BY <1>1, <1>10, <1>12 DEF LinkBad, Continue
<1>14. /\ Good(t) /\ Shape(t) /\ Frames(t) = {Iput(i)}
       /\ \A j \in Inums : Refs(t, j) = Eq(i, j) /\ Owed(t, j) = 0 /\ Claimed(t, j) = 0
       /\ \A g \in Files : Closing(t, g) = 0
  BY <1>4, <1>12, OneIput
<1>15. Goes(p, t)
  BY <1>13, <1>14 DEF Goes, Good, Inner
<1>16. AllSound(p, t)'
  <2>1. PICK c : c = Cache(i, in)
    OBVIOUS
  <2>2. dinode'[i].type # "free"
    BY <1>4, <1>5, <1>11, <1>13, <2>1, WrittenFits
  <2> QED
    BY <1>4, <1>14, <2>2, IputSound DEF AllSound
<1>17. HoldsMove(p, t) /\ holder' \in [Inums -> Procs \cup {None}]
  BY <1>7, <1>13, <1>14, HoldsNothing
<1>18. in.nlink = dinode[i].nlink - Owed(todo[p], i) + Owed(t, i)
  BY <1>4, <1>7, <1>8, <1>9, <1>11, <1>14
<1>19. CountMove(p, i, in, z, t)
  BY <1>6, <1>7, <1>8, <1>12, <1>13, <1>14, <1>15, <1>16, <1>17, <1>18 DEF CountMove
<1> QED
  BY <1>1, <1>2, <1>4, <1>5, <1>11, <1>12, <1>19, CountStep

LEMMA UnlinkCountStep == ASSUME IInv, NEW p \in Procs, UnlinkCount(p) PROVE IInv'
<1>1. PICK f, r, i : f = Top(p) /\ r = Rest(p) /\ i = f.i
  OBVIOUS
<1>2. todo[p] # <<>> /\ f.do = "unlink_count"
  BY <1>1 DEF UnlinkCount, At, Top
<1>3. /\ FrameOK(f) /\ f.i \in Inums \cup {0} /\ Weightless(r) /\ Adds(todo[p], f, r) /\ Sound(p, f)
  BY <1>1, <1>2, TopIs
<1>4. i \in Inums /\ f.ip = 0 /\ i # 0 /\ 0 \notin Inums
  BY <1>1, <1>2, <1>3, Constants DEF FrameOK
<1>5. dinode[i].type # "free" /\ icache[i].valid
  BY <1>1, <1>2, <1>3, <1>4 DEF Sound
<1>6. ASSUME NEW j \in Inums PROVE FRefs(f, j) = Eq(i, j) /\ FOwed(f, j) = Eq(i, j) /\ FClaimed(f, j) = Eq(i, j) /\ Eq(i, j) \in Nat /\ Eq(0, j) = 0
  <2>1. Eq(f.i, j) = Eq(i, j) /\ Eq(f.ip, j) = 0 /\ Eq(0, j) = 0 /\ Eq(i, j) \in Nat
    BY <1>1, <1>4 DEF Eq
  <2> QED
    BY <1>2, <2>1 DEF FRefs, FOwed, FClaimed
<1>7. /\ \A j \in Inums : Refs(todo[p], j) = Eq(i, j) /\ Owed(todo[p], j) = Eq(i, j) /\ Claimed(todo[p], j) = Eq(i, j)
      /\ \A h \in Files : Closing(todo[p], h) = 0
  <2>1. \A h \in Files : FClosing(f, h) = 0
    BY <1>2 DEF FClosing
  <2> QED
    BY <1>3, <1>6, <2>1 DEF Adds, Weightless
<1>8. Eq(i, i) = 1 /\ \A j \in Inums : j # i => Eq(i, j) = 0
  BY DEF Eq
<1>9. dinode[i].nlink \in Nat /\ dinode[i].nlink >= 1
  BY <1>4, <1>5, <1>7, <1>8, OwedLink
<1>10. PICK in : in = [icache[i] EXCEPT !.nlink = @ - 1]
  OBVIOUS
<1>11. in \in Inodes /\ in.valid /\ in.type = dinode[i].type /\ in.ref = icache[i].ref /\ in.nlink = dinode[i].nlink - 1
  <2>1. icache[i] \in Inodes /\ icache[i].type = dinode[i].type /\ icache[i].nlink = dinode[i].nlink
    BY <1>4, <1>5, CacheFits DEF Fits
  <2> QED
    BY <1>5, <1>9, <1>10, <2>1 DEF Inodes
<1>12. PICK t, z : t = <<Iput(i)>> /\ z = 0
  OBVIOUS
<1>13. /\ UNCHANGED <<entries, opened, lost>> /\ Iupdate(i, in) /\ icache' = Cache(i, in)
       /\ holder' = [holder EXCEPT ![i] = None] /\ todo' = [todo EXCEPT ![p] = t]
  BY <1>1, <1>10, <1>12 DEF UnlinkCount, Continue
<1>14. /\ Good(t) /\ Shape(t) /\ Frames(t) = {Iput(i)}
       /\ \A j \in Inums : Refs(t, j) = Eq(i, j) /\ Owed(t, j) = 0 /\ Claimed(t, j) = 0
       /\ \A g \in Files : Closing(t, g) = 0
  BY <1>4, <1>12, OneIput
<1>15. Goes(p, t) /\ Naturals(t)
  BY <1>13, <1>14, NaturalsOf DEF Goes, Good, Inner
<1>16. AllSound(p, t)'
  <2>1. PICK c : c = Cache(i, in)
    OBVIOUS
  <2>2. dinode'[i].type # "free"
    BY <1>4, <1>5, <1>11, <1>13, <2>1, WrittenFits
  <2> QED
    BY <1>4, <1>14, <2>2, IputSound DEF AllSound
<1>17. HoldsMove(p, t) /\ holder' \in [Inums -> Procs \cup {None}]
  <2>1. \A j \in Inums : Claimed(t, j) + Eq(i, j) = Claimed(todo[p], j)
    BY <1>6, <1>7, <1>14
  <2> QED
    BY <1>4, <1>13, <1>15, <2>1, Releases
<1>18. in.nlink = dinode[i].nlink - Owed(todo[p], i) + Owed(t, i)
  BY <1>4, <1>7, <1>8, <1>9, <1>11, <1>14
<1>19. CountMove(p, i, in, z, t)
  BY <1>6, <1>7, <1>8, <1>12, <1>13, <1>14, <1>15, <1>16, <1>17, <1>18 DEF CountMove
<1> QED
  BY <1>1, <1>2, <1>4, <1>5, <1>11, <1>12, <1>19, CountStep

LEMMA StartIs ==
  ASSUME IInv, NEW p \in Procs, cwd[p] # 0, NEW path
  PROVE  Start(p, path) \in Inums /\ dinode[Start(p, path)].type = "dir" /\ Touches(p, Start(p, path))
<1>1. cwd[p] \in Inums /\ dinode[cwd[p]].type = "dir" /\ dinode[Root].type = "dir" /\ Root \in Inums
  BY Constants DEF IInv, TypeOK, InUse, LinksBalance
<1> QED
  BY <1>1 DEF Start, Touches

LEMMA LinkCountStep == ASSUME IInv, NEW p \in Procs, LinkCount(p) PROVE IInv'
<1>1. PICK f, i : f = Top(p) /\ i = f.i
  OBVIOUS
<1>2. todo[p] # <<>> /\ f.do = "link" /\ CanLock(i)
  BY <1>1 DEF LinkCount, At, Top
<1>3. /\ i \in Inums /\ i # 0 /\ dinode[i].type # "free" /\ cwd[p] # 0
      /\ \A j \in Inums : Refs(todo[p], j) = Eq(i, j) /\ Owed(todo[p], j) = 0 /\ Claimed(todo[p], j) = 0 /\ Eq(i, j) \in Nat /\ Eq(0, j) = 0
      /\ \A h \in Files : Closing(todo[p], h) = 0
  BY <1>1, <1>2, AskingIs DEF Asking
<1>4. UNCHANGED <<entries, holder, opened, lost>>
  BY DEF LinkCount
<1>5. FrameOK(f)
  BY <1>1, <1>2, TopIs
<1>6. PICK new, start : new = f.path[1] /\ start = Start(p, new)
  OBVIOUS
<1>7. new \in GoodPath /\ new.elems \in Elems
  <2>1. f.path \in Seq(GoodPath) /\ Len(f.path) = 1
    BY <1>2, <1>5 DEF FrameOK
  <2>2. new \in GoodPath
    BY <1>6, <2>1
  <2> QED
    BY <2>2 DEF GoodPath
<1>8. CASE Ilocked(i).type = "dir"
  <2>1. UNCHANGED dinode /\ icache' = Cache(i, Ilocked(i)) /\ Continue(p, <<Iput(i)>>)
    BY <1>1, <1>8 DEF LinkCount
  <2>2. UNCHANGED <<disk, holder, opened, lost>>
    BY <1>4, <2>1 DEF disk
  <2> QED
    BY <1>1, <1>2, <2>1, <2>2, PutsIt DEF Asking
<1>9. CASE Ilocked(i).type # "dir"
  <2>1. PICK in : in = [Ilocked(i) EXCEPT !.nlink = @ + 1]
    OBVIOUS
  <2>2. PICK g : g = Frame("link_dp", 0, i, new.elems, "")
    OBVIOUS
  <2>3. PICK r : r = <<g>>
    OBVIOUS
  <2>4. PICK t, want : want = "parent" /\ t = namex(start, new.elems, want, r)
    OBVIOUS
  <2>5. /\ Iupdate(i, in) /\ icache' = CacheAndRef(i, in, start) /\ todo' = [todo EXCEPT ![p] = t]
    BY <1>1, <1>6, <1>9, <2>1, <2>2, <2>3, <2>4 DEF LinkCount, Continue
  <2>6. /\ Ilocked(i) \in Inodes /\ Ilocked(i).valid /\ Ilocked(i).ref = icache[i].ref
        /\ Ilocked(i).type = dinode[i].type /\ Ilocked(i).nlink = dinode[i].nlink
    BY <1>3, LockedFits
  <2>7. in \in Inodes /\ in.valid /\ in.type = dinode[i].type /\ in.ref = icache[i].ref /\ in.nlink = dinode[i].nlink + 1
        /\ dinode[i].nlink \in Nat
    BY <2>1, <2>6 DEF Inodes
  <2>8. start \in Inums /\ dinode[start].type = "dir" /\ Touches(p, start)
    BY <1>3, <1>6, StartIs
  <2>9. g \in FrameSet /\ g.do = "link_dp" /\ g.i = 0 /\ g.ip = i /\ g.path = new.elems
    <3>1. PICK d, z, q, a : d = "link_dp" /\ z = 0 /\ q = new.elems /\ a = ""
      OBVIOUS
    <3>2. d \in Dos /\ a \in Args /\ z \in Inums \cup {0} /\ i \in Inums \cup {0} /\ q \in Elems
      BY <1>3, <1>7, <3>1 DEF Dos, Args
    <3>3. g = Frame(d, z, i, q, a)
      BY <2>2, <3>1
    <3>4. g \in FrameSet /\ g.do = d /\ g.i = z /\ g.ip = i /\ g.path = q
      BY <3>2, <3>3 DEF Frame, FrameSet
    <3> QED
      BY <3>1, <3>4
  <2>10. Continuation(r, want) /\ Frames(r) = {g} /\ r[1] = g
    <3>1. g.do \in Waiters /\ Want(g.do) = "parent"
      BY <2>9 DEF Waiters, Want
    <3>2. Continuation(<<g>>, Want(g.do)) /\ Frames(<<g>>) = {g}
      BY <1>3, <2>9, <3>1, OneContinuation
    <3> QED
      BY <2>3, <2>4, <3>1, <3>2
  <2>11. ASSUME new.elems # <<>> PROVE Inner(r)
    <3>1. FrameOK(g) /\ Ends(g)
      BY <1>3, <1>7, <2>9, <2>11 DEF FrameOK, Ends
    <3> QED
      BY <2>3, <3>1, OneFrame
  <2>12. Good(t) /\ Owns(t, r, start) /\ Alike(t, r) /\ NamexFrames(t, r, start)
    <3>1. want \in {"inode", "parent"} /\ want # "inode"
      BY <2>4
    <3>2. new.elems # <<>> \/ want = "inode" => Inner(r)
      BY <2>11, <3>1
    <3> QED
      BY <1>7, <2>4, <2>8, <2>10, <3>1, <3>2, NamexIs DEF NamexFrames
  <2>13. /\ \A j \in Inums : Refs(r, j) = Eq(i, j) /\ Owed(r, j) = Eq(i, j) /\ Claimed(r, j) = 0
         /\ \A h \in Files : Closing(r, h) = 0
    <3>1. Weightless(Tail(r)) /\ Adds(r, g, Tail(r))
      BY <2>10 DEF Continuation
    <3>2. ASSUME NEW j \in Inums PROVE FRefs(g, j) = Eq(i, j) /\ FOwed(g, j) = Eq(i, j) /\ FClaimed(g, j) = 0 /\ Eq(i, j) \in Nat
      <4>1. Eq(g.i, j) = 0 /\ Eq(g.ip, j) = Eq(i, j) /\ Eq(i, j) \in Nat
        BY <1>3, <2>9 DEF Eq
      <4> QED
        BY <2>9, <4>1 DEF FRefs, FOwed, FClaimed
    <3>3. \A h \in Files : FClosing(g, h) = 0
      BY <2>9 DEF FClosing
    <3> QED
      BY <3>1, <3>2, <3>3 DEF Adds, Weightless
  <2>14. /\ \A j \in Inums : Refs(t, j) = Eq(i, j) + Eq(start, j) /\ Owed(t, j) = Eq(i, j) /\ Claimed(t, j) = 0
         /\ \A h \in Files : Closing(t, h) = 0
    BY <2>12, <2>13 DEF Owns, Alike
  <2>15. Goes(p, t) /\ Shape(t)
    BY <2>5, <2>12 DEF Goes, Good, Inner, Shape
  <2>16. HoldsMove(p, t) /\ holder' \in [Inums -> Procs \cup {None}]
    BY <1>3, <1>4, <2>14, HoldsNothing
  <2>17. AllSound(p, t)'
    <3>1. PICK c : c = Cache(i, in)
      OBVIOUS
    <3>2. \A k \in Inums : dinode'[k].type = dinode[k].type
      BY <1>3, <2>5, <2>7, <3>1, WrittenFits
    <3>3. dinode[i].type = "file"
      <4>1. dinode[i].type \in Types
        BY <1>3 DEF IInv, TypeOK
      <4> QED
        BY <1>3, <1>9, <2>6, <4>1 DEF Types
    <3>4. cwd'[p] # 0
      BY <1>3, <1>4 DEF opened
    <3>5. Sound(p, g)'
      BY <1>3, <2>9, <3>2, <3>3, <3>4 DEF Sound
    <3>6. AllSound(p, r)'
      BY <2>10, <3>5 DEF AllSound
    <3>7. dinode'[start].type # "free"
      BY <2>8, <3>2
    <3> QED
      BY <2>8, <2>12, <3>4, <3>6, <3>7, NamexSound
  <2>18. start # 0 /\ icache' = WithRef(Cache(i, in), start)
    BY <2>5, <2>8, Constants DEF CacheAndRef, WithRef
  <2>19. Eq(i, i) = 1 /\ \A j \in Inums : j # i => Eq(i, j) = 0
    BY DEF Eq
  <2>20. in.nlink = dinode[i].nlink - Owed(todo[p], i) + Owed(t, i)
    BY <1>3, <2>7, <2>14, <2>19
  <2>21. UNCHANGED <<entries, opened, lost>>
    BY <1>4
  <2>22. CountMove(p, i, in, start, t)
    BY <1>3, <2>5, <2>14, <2>15, <2>16, <2>17, <2>18, <2>19, <2>20, <2>21 DEF CountMove
  <2> QED
    BY <1>1, <1>2, <1>3, <2>7, <2>8, <2>22, CountStep
<1> QED
  BY <1>8, <1>9

-----------------------------------------------------------------------------
(* One entry of one directory changes.                                      *)

LEMMA NamesChange ==
  ASSUME NEW d \in Inums, NEW n \in Names, NEW v,
         \A x \in Inums, m \in Names : x # d \/ m # n => entries'[x][m] = entries[x][m]
  PROVE  /\ NamesOf(v) \in Nat /\ NamesOf(v)' \in Nat
         /\ NamesOf(v)' = NamesOf(v) - Eq(entries[d][n], v) + Eq(entries'[d][n], v)
<1>1. PICK S, g, h, a : S = Inums \X Names /\ g = EntryOf /\ h = EntryOf' /\ a = <<d, n>>
  OBVIOUS
<1>2. IsFiniteSet(S) /\ a \in S
  BY <1>1, Constants, FS_Product
<1>3. g[a] = entries[d][n] /\ h[a] = entries'[d][n]
  BY <1>1, <1>2 DEF EntryOf
<1>4. ASSUME NEW x \in S \ {a} PROVE h[x] = g[x]
  <2>1. PICK y, m : x = <<y, m>> /\ y \in Inums /\ m \in Names /\ (y # d \/ m # n)
    BY <1>1
  <2>2. h[x] = entries'[y][m] /\ g[x] = entries[y][m]
    BY <1>1, <2>1 DEF EntryOf
  <2> QED
    BY <2>1, <2>2
<1>5. /\ Fiber(g, S, v) \in Nat /\ Fiber(h, S, v) \in Nat
      /\ Fiber(h, S, v) = Fiber(g, S, v) - Eq(g[a], v) + Eq(h[a], v)
  <2>1. \A x \in S \ {a} : h[x] = g[x]
    BY <1>4
  <2>2. IsFiniteSet(S) /\ a \in S
    BY <1>2
  <2>3. AllBut(S, a, g, h)
    BY <2>1, <2>2 DEF AllBut
  <2> QED
    BY <2>3, FiberChange
<1>6. NamesOf(v) = Fiber(g, S, v) /\ NamesOf(v)' = Fiber(h, S, v)
  BY <1>1 DEF NamesOf
<1> QED
  BY <1>3, <1>5, <1>6

LEMMA NamesSame == ASSUME \A x \in Inums, m \in Names : entries'[x][m] = entries[x][m], NEW v PROVE NamesOf(v)' = NamesOf(v)
<1>1. EntryOf' = EntryOf
  <2>1. ASSUME NEW x \in Inums \X Names PROVE entries'[x[1]][x[2]] = entries[x[1]][x[2]]
    OBVIOUS
  <2> QED
    BY <2>1 DEF EntryOf
<1> QED
  BY <1>1 DEF NamesOf

LEMMA SubdirsChange ==
  ASSUME NEW d \in Inums, NEW n \in Names, \A m \in Names \ {n} : IsDir(entries[d][m])' <=> IsDir(entries[d][m])
  PROVE  /\ SubdirsOf(d) \in Nat /\ SubdirsOf(d)' \in Nat
         /\ SubdirsOf(d)' = SubdirsOf(d) - (IF IsDir(entries[d][n]) THEN 1 ELSE 0) + (IF IsDir(entries[d][n])' THEN 1 ELSE 0)
<1>1. PICK g, h, v : g = DirOf(d) /\ h = DirOf(d)' /\ v = TRUE
  OBVIOUS
<1>2. ASSUME NEW m \in Names PROVE g[m] = IsDir(entries[d][m]) /\ h[m] = IsDir(entries[d][m])'
  BY <1>1 DEF DirOf
<1>3. ASSUME NEW m \in Names \ {n} PROVE h[m] = g[m]
  <2>1. g[m] = IsDir(entries[d][m]) /\ h[m] = IsDir(entries[d][m])'
    BY <1>2
  <2>2. IsDir(entries[d][m]) \in BOOLEAN /\ IsDir(entries[d][m])' \in BOOLEAN
    BY DEF IsDir
  <2>3. IsDir(entries[d][m])' = IsDir(entries[d][m])
    BY <2>2
  <2> QED
    BY <2>1, <2>3, Zenon
<1>4. /\ Fiber(g, Names, v) \in Nat /\ Fiber(h, Names, v) \in Nat
      /\ Fiber(h, Names, v) = Fiber(g, Names, v) - Eq(g[n], v) + Eq(h[n], v)
  <2>1. \A m \in Names \ {n} : h[m] = g[m]
    BY <1>3
  <2>2. IsFiniteSet(Names)
    BY Constants
  <2>3. AllBut(Names, n, g, h)
    BY <2>1, <2>2 DEF AllBut
  <2> QED
    BY <2>3, FiberChange
<1>5. Eq(g[n], v) = IF IsDir(entries[d][n]) THEN 1 ELSE 0
  <2>1. g[n] = IsDir(entries[d][n])
    BY <1>2
  <2>2. g[n] = v <=> IsDir(entries[d][n])
    BY <1>1, <2>1, Zenon DEF IsDir
  <2> QED
    BY <2>2, Zenon DEF Eq
<1>6. Eq(h[n], v) = IF IsDir(entries[d][n])' THEN 1 ELSE 0
  <2>1. h[n] = IsDir(entries[d][n])'
    BY <1>2
  <2>2. h[n] = v <=> IsDir(entries[d][n])'
    BY <1>1, <2>1, Zenon DEF IsDir
  <2> QED
    BY <2>2, Zenon DEF Eq
<1>7. SubdirsOf(d) = Fiber(g, Names, v) /\ SubdirsOf(d)' = Fiber(h, Names, v)
  BY <1>1, Zenon DEF SubdirsOf
<1> QED
  BY <1>4, <1>5, <1>6, <1>7

LEMMA SubdirsSame ==
  ASSUME NEW d \in Inums, \A m \in Names : IsDir(entries[d][m])' <=> IsDir(entries[d][m])
  PROVE  SubdirsOf(d)' = SubdirsOf(d) /\ SubdirsOf(d) \in Nat
<1>1. PICK g, h, v : g = DirOf(d) /\ h = DirOf(d)' /\ v = TRUE
  OBVIOUS
<1>2. ASSUME NEW m \in Names PROVE h[m] = v <=> g[m] = v
  <2>1. g[m] = IsDir(entries[d][m]) /\ h[m] = IsDir(entries[d][m])'
    BY <1>1 DEF DirOf
  <2>2. (g[m] = v <=> IsDir(entries[d][m])) /\ (h[m] = v <=> IsDir(entries[d][m])')
    BY <1>1, <2>1, Zenon DEF IsDir
  <2> QED
    BY <2>2
<1>3. Fiber(h, Names, v) = Fiber(g, Names, v)
  BY <1>2, FiberSame
<1>4. Fiber(g, Names, v) \in Nat
  BY Constants, FiberIs
<1>5. SubdirsOf(d) = Fiber(g, Names, v) /\ SubdirsOf(d)' = Fiber(h, Names, v)
  BY <1>1, Zenon DEF SubdirsOf
<1> QED
  BY <1>3, <1>4, <1>5

LEMMA LinkDpIs ==
  ASSUME IInv, NEW p \in Procs, todo[p] # <<>>, Top(p).do = "link_dp", NEW d, d = Top(p).i, NEW i, i = Top(p).ip, NEW n, n = LastName(Top(p))
  PROVE  /\ d \in Inums /\ i \in Inums /\ d # i /\ cwd[p] # 0 /\ n \in Names \cup {"."}
         /\ dinode[d].type = "dir" /\ dinode[i].type = "file"
         /\ \A j \in Inums : /\ Refs(todo[p], j) = Eq(d, j) + Eq(i, j) /\ Owed(todo[p], j) = Eq(i, j)
                             /\ Claimed(todo[p], j) = 0 /\ Eq(i, j) \in Nat /\ Eq(d, j) \in Nat /\ Eq(0, j) = 0
         /\ \A h \in Files : Closing(todo[p], h) = 0
<1>1. PICK f, r : f = Top(p) /\ r = Rest(p)
  OBVIOUS
<1>2. /\ FrameOK(f) /\ f.i \in Inums \cup {0} /\ f.ip \in Inums \cup {0} /\ Weightless(r) /\ Adds(todo[p], f, r) /\ Sound(p, f)
      /\ ~Waiting(f)
  BY <1>1, TopIs
<1>3. d \in Inums /\ i \in Inums /\ d # 0 /\ i # 0 /\ f.do = "link_dp" /\ f.i = d /\ f.ip = i /\ 0 \notin Inums
  BY <1>1, <1>2, Constants DEF FrameOK, Waiting, Waiters
<1>4. dinode[d].type = "dir" /\ dinode[i].type = "file" /\ cwd[p] # 0
  BY <1>2, <1>3 DEF Sound
<1>5. n \in Names \cup {"."}
  <2>1. f.path \in Elems /\ f.path # <<>>
    BY <1>2, <1>3 DEF FrameOK
  <2> QED
    BY <1>1, <2>1, PathIs DEF LastName
<1>6. ASSUME NEW j \in Inums PROVE FRefs(f, j) = Eq(d, j) + Eq(i, j) /\ FOwed(f, j) = Eq(i, j) /\ FClaimed(f, j) = 0
                                   /\ Eq(i, j) \in Nat /\ Eq(d, j) \in Nat /\ Eq(0, j) = 0
  BY <1>3 DEF FRefs, FOwed, FClaimed, Eq
<1>7. \A h \in Files : FClosing(f, h) = 0
  BY <1>3 DEF FClosing
<1>8. /\ \A j \in Inums : /\ Refs(todo[p], j) = Eq(d, j) + Eq(i, j) /\ Owed(todo[p], j) = Eq(i, j) /\ Claimed(todo[p], j) = 0
      /\ \A h \in Files : Closing(todo[p], h) = 0
  BY <1>2, <1>6, <1>7 DEF Adds, Weightless
<1> QED
  BY <1>3, <1>4, <1>5, <1>6, <1>8

LEMMA LinkThere ==
  ASSUME IInv, NEW p \in Procs, LinkEntry(p), entries[Top(p).i][LastName(Top(p))] # 0
  PROVE  IInv'
<1>1. PICK f, d, i, n, j : f = Top(p) /\ d = f.i /\ i = f.ip /\ n = LastName(f) /\ j = entries[d][n]
  OBVIOUS
<1>2. todo[p] # <<>> /\ f.do = "link_dp" /\ CanLock(d) /\ j # 0
  BY <1>1 DEF LinkEntry, At, Top
<1>3. /\ d \in Inums /\ i \in Inums /\ d # i /\ cwd[p] # 0 /\ n \in Names \cup {"."}
      /\ dinode[d].type = "dir" /\ dinode[i].type = "file"
      /\ \A k \in Inums : /\ Refs(todo[p], k) = Eq(d, k) + Eq(i, k) /\ Owed(todo[p], k) = Eq(i, k)
                          /\ Claimed(todo[p], k) = 0 /\ Eq(i, k) \in Nat /\ Eq(d, k) \in Nat /\ Eq(0, k) = 0
      /\ \A h \in Files : Closing(todo[p], h) = 0
  BY <1>1, <1>2, LinkDpIs, SMTT(30)
<1>4. j \in Inums /\ dinode[j].type # "free" /\ (j = d \/ Named(j))
  BY <1>1, <1>2, <1>3, NextIs
<1>5. PICK a, b : a = "iunlockput" /\ b = "link_bad"
  OBVIOUS
<1>6. PICK g, h, e : g = Plain(a, d) /\ h = Plain(b, i) /\ e = Iput(j)
  OBVIOUS
<1>7. /\ FrameOK(g) /\ g.do = a /\ g.i = d /\ g.ip = 0 /\ ~Waiting(g)
      /\ \A k \in Inums : FRefs(g, k) = Eq(d, k) /\ FOwed(g, k) = 0 /\ FClaimed(g, k) = Eq(d, k)
      /\ \A m \in Files : FClosing(g, m) = 0
  <2>1. a \in Dos /\ (a = "link_bad" \/ a = "unlink_count" \/ a = "opened" \/ a = "iunlockput") /\ a # "link_bad" /\ a # "unlink_count"
    BY <1>5 DEF Dos
  <2> QED
    BY <1>3, <1>6, <2>1, PlainIs
<1>8. /\ FrameOK(h) /\ h.do = b /\ h.i = i /\ h.ip = 0 /\ ~Waiting(h) /\ Ends(h)
      /\ \A k \in Inums : FRefs(h, k) = Eq(i, k) /\ FOwed(h, k) = Eq(i, k) /\ FClaimed(h, k) = 0
      /\ \A m \in Files : FClosing(h, m) = 0
  <2>1. b \in Dos /\ (b = "link_bad" \/ b = "unlink_count" \/ b = "opened" \/ b = "iunlockput") /\ (b = "link_bad" \/ b = "unlink_count")
        /\ b = "link_bad"
    BY <1>5 DEF Dos
  <2> QED
    BY <1>3, <1>6, <2>1, PlainIs
<1>9. /\ FrameOK(e) /\ e.do = "iput" /\ e.i = j /\ e.ip = 0 /\ ~Waiting(e)
      /\ \A k \in Inums : FRefs(e, k) = Eq(j, k) /\ FOwed(e, k) = 0 /\ FClaimed(e, k) = 0
      /\ \A m \in Files : FClosing(e, m) = 0
      /\ \A x : ~Waiting(x) /\ x.do \notin {"itrunc", "unref", "unlink_ip", "panic"} => Leads(e, x)
  BY <1>4, <1>6, IputIs
<1>10. Leads(e, g)
  BY <1>5, <1>7, <1>9
<1>11. Leads(g, h)
  <2>1. d # 0
    BY <1>3, Constants
  <2> QED
    BY <1>5, <1>7, <1>8, <2>1 DEF Leads
<1>12. PICK t : t = <<e, g, h>>
  OBVIOUS
<1>13. /\ Inner(t) /\ t[1] = e /\ t # <<>> /\ Frames(t) = {e, g, h}
       /\ Adds(t, e, <<g, h>>) /\ Adds(<<g, h>>, g, <<h>>) /\ Adds(<<h>>, h, <<>>)
  BY <1>7, <1>8, <1>9, <1>10, <1>11, <1>12, ThreeFrames
<1>14. Eq(j, j) = 1 /\ \A k \in Inums : Eq(j, k) \in Nat
  BY DEF Eq
<1>15. /\ \A k \in Inums : Refs(t, k) = Eq(d, k) + Eq(i, k) + Eq(j, k) /\ Owed(t, k) = Eq(i, k) /\ Claimed(t, k) = Eq(d, k)
       /\ \A m \in Files : Closing(t, m) = 0
  <2>1. /\ \A k \in Inums : Refs(<<h>>, k) = Eq(i, k) /\ Owed(<<h>>, k) = Eq(i, k) /\ Claimed(<<h>>, k) = 0
        /\ \A m \in Files : Closing(<<h>>, m) = 0
    BY <1>3, <1>8, <1>13, NoFrames DEF Adds, Weightless
  <2>2. /\ \A k \in Inums : Refs(<<g, h>>, k) = Eq(i, k) + Eq(d, k) /\ Owed(<<g, h>>, k) = Eq(i, k) /\ Claimed(<<g, h>>, k) = Eq(d, k)
        /\ \A m \in Files : Closing(<<g, h>>, m) = 0
    BY <1>3, <1>7, <1>13, <2>1 DEF Adds
  <2>3. ASSUME NEW k \in Inums PROVE Refs(t, k) = Eq(d, k) + Eq(i, k) + Eq(j, k) /\ Owed(t, k) = Eq(i, k) /\ Claimed(t, k) = Eq(d, k)
    <3>1. /\ Refs(t, k) = Refs(<<g, h>>, k) + Eq(j, k) /\ Owed(t, k) = Owed(<<g, h>>, k) + 0
          /\ Claimed(t, k) = Claimed(<<g, h>>, k) + 0
      BY <1>9, <1>13 DEF Adds
    <3> QED
      BY <1>3, <1>14, <2>2, <3>1
  <2>4. \A m \in Files : Closing(t, m) = Closing(<<g, h>>, m) + 0
    BY <1>9, <1>13 DEF Adds
  <2> QED
    BY <2>2, <2>3, <2>4
<1>16. /\ dinode' = dinode /\ entries' = entries /\ lost' = lost /\ file' = file /\ ofile' = ofile /\ cwd' = cwd
       /\ icache' = LockedCache(d, j) /\ holder' = [holder EXCEPT ![d] = p] /\ todo' = [todo EXCEPT ![p] = t]
  <2>1. /\ icache' = CacheAndRef(d, Ilocked(d), j) /\ holder' = [holder EXCEPT ![d] = p]
        /\ Continue(p, <<Iput(j), Iunlockput(d), Frame("link_bad", i, 0, <<>>, "")>>)
        /\ UNCHANGED entries /\ UNCHANGED <<dinode, opened, lost>>
    BY <1>1, <1>2 DEF LinkEntry
  <2>2. Iunlockput(d) = g /\ Frame("link_bad", i, 0, <<>>, "") = h
    BY <1>5, <1>6 DEF Plain, Iunlockput
  <2> QED
    BY <1>2, <1>6, <1>12, <2>1, <2>2 DEF Continue, opened, LockedCache, CacheAndRef, WithRef
<1>17. Shape(t) /\ Goes(p, t)
  BY <1>9, <1>13, <1>16 DEF Shape, Goes, Inner
<1>18. HoldsMove(p, t) /\ holder' \in [Inums -> Procs \cup {None}]
  <2>1. \A k \in Inums : Claimed(t, k) = Claimed(todo[p], k) + Eq(d, k)
    BY <1>3, <1>15
  <2> QED
    BY <1>2, <1>3, <1>16, <2>1, Holds
<1>19. AllSound(p, t)'
  <2>1. Sound(p, e)' /\ Sound(p, g)' /\ Sound(p, h)'
    BY <1>3, <1>4, <1>5, <1>7, <1>8, <1>9, <1>16 DEF Sound
  <2> QED
    BY <1>13, <2>1 DEF AllSound
<1>20. LockMove(p, d, j, t)
  BY <1>3, <1>15, <1>16, <1>17, <1>18, <1>19 DEF LockMove
<1>21. Touches(p, j)
  BY <1>1, <1>2, <1>4 DEF Touches
<1> QED
  BY <1>1, <1>2, <1>3, <1>4, <1>20, <1>21, LockStep

LEMMA TwoIputs ==
  ASSUME NEW d \in Inums, NEW i \in Inums, NEW t, t = <<Iput(d), Iput(i)>>
  PROVE  /\ Inner(t) /\ Shape(t) /\ Frames(t) = {Iput(d), Iput(i)}
         /\ \A j \in Inums : Refs(t, j) = Eq(i, j) + Eq(d, j) /\ Owed(t, j) = 0 /\ Claimed(t, j) = 0
         /\ \A g \in Files : Closing(t, g) = 0
<1>1. PICK r : r = <<Iput(i)>>
  OBVIOUS
<1>2. /\ Good(r)
      /\ \A j \in Inums : Refs(r, j) = Eq(i, j) /\ Owed(r, j) = 0 /\ Claimed(r, j) = 0
      /\ \A g \in Files : Closing(r, g) = 0
      /\ Frames(r) = {Iput(i)}
  BY <1>1, OneIput
<1>3. t = <<Iput(d)>> \o r
  <2>1. PICK g, h : g = Iput(d) /\ h = Iput(i)
    OBVIOUS
  <2>2. g \in FrameSet /\ h \in FrameSet
    BY <2>1, IputIs
  <2>3. <<g>> \o <<h>> = <<g, h>>
    BY <2>2, TwoJoin
  <2> QED
    BY <1>1, <2>1, <2>3
<1>4. /\ Good(t) /\ Shape(t) /\ Frames(t) = {Iput(d)} \cup Frames(r) /\ Alike(t, r) /\ Owns(t, r, d)
  BY <1>2, <1>3, PushIput
<1> QED
  BY <1>2, <1>4 DEF Alike, Owns, Good

Directories == [Inums -> [Names \cup Dots -> Inums \cup {0}]]
WithEntry(e, d, n, v) == [e EXCEPT ![d][n] = v]

Entered(h, e, d, n, v) ==
  /\ h \in Directories /\ h[d][n] = v
  /\ \A x \in Inums, m \in Names : x # d \/ m # n => h[x][m] = e[x][m]
  /\ \A x \in Inums : x # d => h[x] = e[x]
  /\ \A x \in Inums : h[x]["."] = e[x]["."]

LEMMA EntryIs ==
  ASSUME NEW e \in Directories, NEW d \in Inums, NEW n \in Names, NEW v \in Inums \cup {0}, NEW h, h = WithEntry(e, d, n, v)
  PROVE  Entered(h, e, d, n, v)
<1>1. PICK y : y = [e[d] EXCEPT ![n] = v]
  OBVIOUS
<1>2. h = [e EXCEPT ![d] = y]
  BY <1>1 DEF WithEntry
<1>3. e[d] \in [Names \cup Dots -> Inums \cup {0}] /\ e \in [Inums -> [Names \cup Dots -> Inums \cup {0}]]
  BY DEF Directories
<1>4. PICK D : D = Names \cup Dots
  OBVIOUS
<1>5. n \in D /\ "." \in D /\ n # "." /\ \A m \in Names : m \in D
  BY <1>4, Constants DEF Dots
<1>6. y \in [D -> Inums \cup {0}] /\ y[n] = v /\ (\A m \in D : m # n => y[m] = e[d][m])
  BY <1>1, <1>3, <1>4, <1>5
<1>7. h \in [Inums -> [D -> Inums \cup {0}]] /\ h[d] = y /\ \A x \in Inums : x # d => h[x] = e[x]
  BY <1>2, <1>3, <1>4, <1>6
<1> QED
  BY <1>4, <1>5, <1>6, <1>7, ZenonT(60) DEF Directories, Entered

LEMMA LinkNew ==
  ASSUME IInv, NEW p \in Procs, LinkEntry(p), entries[Top(p).i][LastName(Top(p))] = 0
  PROVE  IInv'
<1>1. PICK f, d, i, n, z : f = Top(p) /\ d = f.i /\ i = f.ip /\ n = LastName(f) /\ z = 0
  OBVIOUS
<1>2. todo[p] # <<>> /\ f.do = "link_dp" /\ CanLock(d) /\ entries[d][n] = 0
  BY <1>1 DEF LinkEntry, At, Top
<1>3. /\ d \in Inums /\ i \in Inums /\ d # i /\ cwd[p] # 0 /\ n \in Names \cup {"."}
      /\ dinode[d].type = "dir" /\ dinode[i].type = "file"
      /\ \A k \in Inums : /\ Refs(todo[p], k) = Eq(d, k) + Eq(i, k) /\ Owed(todo[p], k) = Eq(i, k)
                          /\ Claimed(todo[p], k) = 0 /\ Eq(i, k) \in Nat /\ Eq(d, k) \in Nat /\ Eq(0, k) = 0
      /\ \A h \in Files : Closing(todo[p], h) = 0
  BY <1>1, <1>2, LinkDpIs
<1>4. /\ LinksBalance /\ entries \in [Inums -> [Names \cup Dots -> Inums \cup {0}]] /\ lost \subseteq Inums
      /\ dinode \in [Inums -> [type : Types, nlink : Nat]]
  BY DEF IInv, TypeOK
<1>5. n \in Names
  BY <1>2, <1>3, <1>4, Constants DEF LinksBalance
<1>6. PICK t : t = <<Iput(d), Iput(i)>>
  OBVIOUS
<1>7. /\ dinode' = dinode /\ lost' = lost /\ file' = file /\ ofile' = ofile /\ cwd' = cwd /\ holder' = holder
      /\ entries' = [entries EXCEPT ![d][n] = i] /\ icache' = LockedCache(d, z) /\ todo' = [todo EXCEPT ![p] = t]
  BY <1>1, <1>2, <1>6 DEF LinkEntry, opened, Continue, LockedCache
<1>8. /\ Inner(t) /\ Shape(t) /\ Frames(t) = {Iput(d), Iput(i)}
      /\ \A j \in Inums : Refs(t, j) = Eq(i, j) + Eq(d, j) /\ Owed(t, j) = 0 /\ Claimed(t, j) = 0
      /\ \A g \in Files : Closing(t, g) = 0
  BY <1>3, <1>6, TwoIputs
<1>9. Goes(p, t)
  BY <1>7, <1>8 DEF Goes, Inner
<1>10. /\ entries' \in [Inums -> [Names \cup Dots -> Inums \cup {0}]] /\ entries'[d][n] = i
       /\ \A x \in Inums, m \in Names : x # d \/ m # n => entries'[x][m] = entries[x][m]
       /\ \A x \in Inums : x # d => entries'[x] = entries[x]
       /\ \A x \in Inums : entries'[x]["."] = entries[x]["."]
  <2>1. PICK e, h : e = entries /\ h = entries'
    OBVIOUS
  <2>2. e \in Directories /\ h = WithEntry(e, d, n, i) /\ i \in Inums \cup {0}
    BY <1>3, <1>4, <1>7, <2>1 DEF Directories, WithEntry
  <2>3. Entered(h, e, d, n, i)
    BY <1>3, <1>5, <2>2, EntryIs
  <2> QED
    BY <2>1, <2>3 DEF Directories, Entered
<1>11. Fits(icache') /\ (\A k \in Inums : icache'[k].ref = icache[k].ref + Eq(z, k))
       /\ (\A k \in Inums : icache'[k] # icache[k] => Touches(p, k))
       /\ \A k \in Inums : icache[k].valid => icache'[k].valid
  BY <1>1, <1>2, <1>3, <1>7, Locked, SMTT(30)
<1>12. Careful(p)
  BY <1>2, <1>7, <1>10, <1>11 DEF Careful, CanLock
<1>13. AllSound(p, t)'
  <2>1. dinode'[d].type # "free" /\ dinode'[i].type # "free"
    BY <1>3, <1>7
  <2>2. Sound(p, Iput(d))' /\ Sound(p, Iput(i))'
    BY <1>3, <2>1, IputSound
  <2> QED
    BY <1>8, <2>2 DEF AllSound
<1>14. HoldsMove(p, t) /\ holder' \in [Inums -> Procs \cup {None}]
  BY <1>3, <1>7, <1>8, HoldsNothing
<1>15. Fits(icache)'
  BY <1>7, <1>11 DEF Fits
<1>16. \A k \in Inums : icache'[k].ref = icache[k].ref - Refs(todo[p], k) + Refs(t, k)
  <2>1. TAKE k \in Inums
  <2>2. icache[k].ref \in Nat /\ icache'[k].ref = icache[k].ref + 0
    BY <1>1, <1>3, <1>11 DEF IInv, TypeOK
  <2> QED
    BY <1>3, <1>8, <2>2
<1>17. ASSUME NEW k \in Inums
       PROVE  /\ NamesOf(k)' = NamesOf(k) + Eq(i, k) /\ NamesOf(k) \in Nat
              /\ SubdirsOf(k)' = SubdirsOf(k) /\ SubdirsOf(k) \in Nat
              /\ Total(OwesTo(k))' = Total(OwesTo(k)) - Eq(i, k) /\ Total(OwesTo(k)) \in Nat /\ Eq(i, k) \in Nat
  <2>1. /\ NamesOf(k) \in Nat /\ NamesOf(k)' \in Nat
        /\ NamesOf(k)' = NamesOf(k) - Eq(entries[d][n], k) + Eq(entries'[d][n], k)
    BY <1>3, <1>5, <1>10, NamesChange
  <2>2. Eq(entries[d][n], k) = 0 /\ Eq(entries'[d][n], k) = Eq(i, k) /\ Eq(i, k) \in Nat
    BY <1>2, <1>3, <1>10
  <2>3. ASSUME NEW m \in Names PROVE IsDir(entries[k][m])' <=> IsDir(entries[k][m])
    <3>1. CASE k = d /\ m = n
      BY <1>2, <1>3, <1>7, <1>10, <3>1 DEF IsDir
    <3>2. CASE k # d \/ m # n
      BY <1>7, <1>10, <3>2 DEF IsDir
    <3> QED
      BY <3>1, <3>2
  <2>4. SubdirsOf(k)' = SubdirsOf(k) /\ SubdirsOf(k) \in Nat
    BY <2>3, SubdirsSame
  <2>5. /\ Total(OwesTo(k))' = Total(OwesTo(k)) - Owed(todo[p], k) + Owed(t, k)
        /\ Total(OwesTo(k)) \in Nat
    BY <1>9, OwedStep
  <2>6. Total(OwesTo(k))' = Total(OwesTo(k)) - Eq(i, k)
    BY <1>3, <1>8, <2>2, <2>5
  <2> QED
    BY <2>1, <2>2, <2>4, <2>5, <2>6
<1>18. LinksBalance'
  <2>1. ASSUME NEW k \in Inums \ lost', dinode'[k].type # "free"
        PROVE  dinode'[k].nlink = NamesOf(k)' + SubdirsOf(k)' + Total(OwesTo(k))' + (IF k = Root THEN 1 ELSE 0)
    <3>1. dinode[k].nlink = NamesOf(k) + SubdirsOf(k) + Total(OwesTo(k)) + (IF k = Root THEN 1 ELSE 0) /\ dinode[k].nlink \in Nat
      BY <1>4, <1>7, <2>1 DEF LinksBalance
    <3> QED
      BY <1>7, <1>17, <3>1
  <2>2. ASSUME NEW k \in lost' PROVE dinode'[k].type = "file" /\ dinode'[k].nlink >= NamesOf(k)' + Total(OwesTo(k))' + 1
    <3>1. k \in Inums /\ dinode[k].type = "file" /\ dinode[k].nlink >= NamesOf(k) + Total(OwesTo(k)) + 1 /\ dinode[k].nlink \in Nat
      BY <1>4, <1>7, <2>2 DEF LinksBalance
    <3> QED
      BY <1>7, <1>17, <3>1
  <2>3. ASSUME NEW x \in Inums, NEW m \in Names, entries'[x][m] # 0
        PROVE  dinode'[entries'[x][m]].type # "free" /\ dinode'[x].type = "dir"
    <3>1. CASE x = d /\ m = n
      BY <1>3, <1>7, <1>10, <3>1
    <3>2. CASE x # d \/ m # n
      BY <1>4, <1>7, <1>10, <2>3, <3>2 DEF LinksBalance
    <3> QED
      BY <3>1, <3>2
  <2>4. \A x \in Inums : entries'[x]["."] \in {0, x} /\ (dinode'[x].type = "dir" => entries'[x]["."] = x)
    BY <1>4, <1>7, <1>10 DEF LinksBalance
  <2>5. dinode'[Root].type = "dir"
    BY <1>4, <1>7 DEF LinksBalance
  <2> QED
    BY <2>1, <2>2, <2>3, <2>4, <2>5 DEF LinksBalance
<1>19. Disk(p, t)
  BY <1>3, <1>4, <1>7, <1>8, <1>9, <1>10, <1>12, <1>13, <1>14, <1>15, <1>16, <1>18 DEF Disk
<1> QED
  BY <1>19, DiskStep

LEMMA LinkEntryStep == ASSUME IInv, NEW p \in Procs, LinkEntry(p) PROVE IInv'
  BY LinkThere, LinkNew

LEMMA PutThen ==
  ASSUME NEW i \in Inums, NEW g, FrameOK(g), Ends(g), ~Waiting(g), g.do \notin {"itrunc", "unref", "unlink_ip", "panic"},
         NEW t, t = <<Iput(i), g>>
  PROVE  /\ Inner(t) /\ Shape(t) /\ Frames(t) = {Iput(i), g}
         /\ \A j \in Inums : /\ Refs(t, j) = FRefs(g, j) + Eq(i, j) /\ Owed(t, j) = FOwed(g, j)
                             /\ Claimed(t, j) = FClaimed(g, j)
         /\ \A h \in Files : Closing(t, h) = FClosing(g, h)
<1>1. g \in FrameSet
  BY DEF FrameOK
<1>2. PICK r : r = <<g>>
  OBVIOUS
<1>3. Inner(r) /\ r[1] = g /\ r # <<>> /\ Frames(r) = {g} /\ Adds(r, g, <<>>)
  BY <1>2, OneFrame
<1>4. Good(r)
  BY <1>3 DEF Good
<1>5. t = <<Iput(i)>> \o r
  <2>1. PICK h : h = Iput(i)
    OBVIOUS
  <2>2. h \in FrameSet
    BY <2>1, IputIs
  <2>3. <<h>> \o <<g>> = <<h, g>>
    BY <1>1, <2>2, TwoJoin
  <2> QED
    BY <1>2, <2>1, <2>3
<1>6. /\ Good(t) /\ Shape(t) /\ Frames(t) = {Iput(i)} \cup Frames(r) /\ Alike(t, r) /\ Owns(t, r, i)
  BY <1>4, <1>5, PushIput
<1>7. /\ \A j \in Inums : FRefs(g, j) \in Nat /\ FOwed(g, j) \in Nat /\ FClaimed(g, j) \in Nat
      /\ \A h \in Files : FClosing(g, h) \in Nat
  BY DEF FRefs, FOwed, FClaimed, FClosing, Eq
<1>8. /\ \A j \in Inums : Refs(r, j) = FRefs(g, j) /\ Owed(r, j) = FOwed(g, j) /\ Claimed(r, j) = FClaimed(g, j)
      /\ \A h \in Files : Closing(r, h) = FClosing(g, h)
  BY <1>3, <1>7, NoFrames DEF Adds, Weightless
<1> QED
  BY <1>3, <1>6, <1>8 DEF Alike, Owns, Good

LEMMA UnlinkIpIs ==
  ASSUME IInv, NEW p \in Procs, todo[p] # <<>>, Top(p).do = "unlink_ip", NEW i, i = Top(p).i, NEW d, d = Top(p).ip, NEW n, n = LastName(Top(p))
  PROVE  /\ d \in Inums /\ i \in Inums /\ cwd[p] # 0 /\ n \in Names /\ entries[d][n] = i /\ icache[d].valid
         /\ holder[d] = p /\ dinode[d].type = "dir" /\ dinode[i].type # "free"
         /\ \A j \in Inums : /\ Refs(todo[p], j) = Eq(d, j) + Eq(i, j) /\ Owed(todo[p], j) = 0
                             /\ Claimed(todo[p], j) = Eq(d, j) /\ Eq(i, j) \in Nat /\ Eq(d, j) \in Nat /\ Eq(0, j) = 0
         /\ \A h \in Files : Closing(todo[p], h) = 0
<1>1. PICK f, r : f = Top(p) /\ r = Rest(p)
  OBVIOUS
<1>2. /\ FrameOK(f) /\ f.i \in Inums \cup {0} /\ f.ip \in Inums \cup {0} /\ Weightless(r) /\ Adds(todo[p], f, r) /\ Sound(p, f)
  BY <1>1, TopIs
<1>3. d \in Inums /\ i \in Inums /\ d # 0 /\ i # 0 /\ f.do = "unlink_ip" /\ f.i = i /\ f.ip = d /\ 0 \notin Inums
  BY <1>1, <1>2, Constants DEF FrameOK
<1>4. n \in Names
  BY <1>1, <1>2 DEF FrameOK, LastName
<1>5. dinode[d].type = "dir" /\ dinode[i].type # "free" /\ cwd[p] # 0 /\ entries[d][n] = i /\ icache[d].valid
  BY <1>1, <1>2, <1>3 DEF Sound, LastName
<1>6. ASSUME NEW j \in Inums PROVE FRefs(f, j) = Eq(i, j) + Eq(d, j) /\ FOwed(f, j) = 0 /\ FClaimed(f, j) = Eq(d, j)
                                   /\ Eq(i, j) \in Nat /\ Eq(d, j) \in Nat /\ Eq(0, j) = 0
  BY <1>3 DEF FRefs, FOwed, FClaimed, Eq
<1>7. \A h \in Files : FClosing(f, h) = 0
  BY <1>3 DEF FClosing
<1>8. /\ \A j \in Inums : /\ Refs(todo[p], j) = Eq(d, j) + Eq(i, j) /\ Owed(todo[p], j) = 0 /\ Claimed(todo[p], j) = Eq(d, j)
      /\ \A h \in Files : Closing(todo[p], h) = 0
  BY <1>2, <1>6, <1>7 DEF Adds, Weightless
<1>9. holder[d] = p
  <2>1. Claimed(todo[p], d) = 1
    BY <1>3, <1>8 DEF Eq
  <2> QED
    BY <1>3, <2>1 DEF IInv, HeldOnce, Claimed
<1> QED
  BY <1>3, <1>4, <1>5, <1>6, <1>8, <1>9

\* what unlink() finds at the entry
Unlinking(p, d, i, n) ==
  /\ d \in Inums /\ i \in Inums /\ d # i /\ cwd[p] # 0 /\ n \in Names /\ entries[d][n] = i /\ icache[d].valid
  /\ holder[d] = p /\ holder[i] = None /\ dinode[d].type = "dir" /\ dinode[i].type # "free"
  /\ \A j \in Inums : /\ Refs(todo[p], j) = Eq(d, j) + Eq(i, j) /\ Owed(todo[p], j) = 0
                      /\ Claimed(todo[p], j) = Eq(d, j) /\ Eq(i, j) \in Nat /\ Eq(d, j) \in Nat /\ Eq(0, j) = 0
  /\ \A h \in Files : Closing(todo[p], h) = 0
  /\ Ilocked(i) \in Inodes /\ Ilocked(i).valid /\ Ilocked(i).ref = icache[i].ref
  /\ Ilocked(i).type = dinode[i].type /\ Ilocked(i).nlink = dinode[i].nlink /\ Ilocked(i).nlink >= 1
  /\ todo[p] # <<>> /\ i = Top(p).i /\ d = Top(p).ip

LEMMA UnlinkingIs ==
  ASSUME IInv, NEW p \in Procs, UnlinkEntry(p)
  PROVE  Unlinking(p, Top(p).ip, Top(p).i, LastName(Top(p)))
<1>1. PICK f, d, i, n : f = Top(p) /\ d = f.ip /\ i = f.i /\ n = LastName(f)
  OBVIOUS
<1>2. todo[p] # <<>> /\ f.do = "unlink_ip" /\ holder[i] = None
  BY <1>1 DEF UnlinkEntry, At, Top, CanLock
<1>3. /\ d \in Inums /\ i \in Inums /\ cwd[p] # 0 /\ n \in Names /\ entries[d][n] = i /\ icache[d].valid
      /\ holder[d] = p /\ dinode[d].type = "dir" /\ dinode[i].type # "free"
      /\ \A j \in Inums : /\ Refs(todo[p], j) = Eq(d, j) + Eq(i, j) /\ Owed(todo[p], j) = 0
                          /\ Claimed(todo[p], j) = Eq(d, j) /\ Eq(i, j) \in Nat /\ Eq(d, j) \in Nat /\ Eq(0, j) = 0
      /\ \A h \in Files : Closing(todo[p], h) = 0
  BY <1>1, <1>2, UnlinkIpIs
<1>4. d # i
  BY <1>2, <1>3, Constants
<1>5. /\ Ilocked(i) \in Inodes /\ Ilocked(i).valid /\ Ilocked(i).ref = icache[i].ref
      /\ Ilocked(i).type = dinode[i].type /\ Ilocked(i).nlink = dinode[i].nlink
  BY <1>3, LockedFits
<1>6. dinode[i].nlink \in Nat /\ dinode[i].nlink >= 1
  BY <1>3, LinkOf DEF Named
<1> QED
  BY <1>1, <1>2, <1>3, <1>4, <1>5, <1>6 DEF Unlinking

LEMMA UnlinkBusy ==
  ASSUME IInv, NEW p \in Procs, NEW d, NEW i, NEW n, Unlinking(p, d, i, n),
         icache' = Cache(i, Ilocked(i)), Continue(p, <<Iput(i), Iunlockput(d)>>), UNCHANGED <<disk, holder, opened, lost>>
  PROVE  IInv'
<1>1. PICK a, z : a = "iunlockput" /\ z = 0
  OBVIOUS
<1>2. PICK g, t : g = Plain(a, d) /\ t = <<Iput(i), g>>
  OBVIOUS
<1>3. /\ d \in Inums /\ i \in Inums /\ d # i /\ cwd[p] # 0 /\ dinode[d].type = "dir" /\ dinode[i].type # "free"
      /\ \A j \in Inums : /\ Refs(todo[p], j) = Eq(d, j) + Eq(i, j) /\ Owed(todo[p], j) = 0
                          /\ Claimed(todo[p], j) = Eq(d, j) /\ Eq(i, j) \in Nat /\ Eq(d, j) \in Nat /\ Eq(0, j) = 0
      /\ \A h \in Files : Closing(todo[p], h) = 0
      /\ todo[p] # <<>> /\ i = Top(p).i
  BY DEF Unlinking
<1>4. /\ FrameOK(g) /\ g.do = a /\ g.i = d /\ g.ip = 0 /\ ~Waiting(g) /\ Ends(g)
      /\ \A k \in Inums : FRefs(g, k) = Eq(d, k) /\ FOwed(g, k) = 0 /\ FClaimed(g, k) = Eq(d, k)
      /\ \A m \in Files : FClosing(g, m) = 0
  <2>1. a \in Dos /\ (a = "link_bad" \/ a = "unlink_count" \/ a = "opened" \/ a = "iunlockput") /\ a # "link_bad" /\ a # "unlink_count"
    BY <1>1 DEF Dos
  <2> QED
    BY <1>2, <1>3, <2>1, PlainIs
<1>5. /\ Inner(t) /\ Shape(t) /\ Frames(t) = {Iput(i), g}
      /\ \A j \in Inums : /\ Refs(t, j) = FRefs(g, j) + Eq(i, j) /\ Owed(t, j) = FOwed(g, j)
                          /\ Claimed(t, j) = FClaimed(g, j)
      /\ \A h \in Files : Closing(t, h) = FClosing(g, h)
  <2>1. g.do \notin {"itrunc", "unref", "unlink_ip", "panic"}
    BY <1>1, <1>4
  <2> QED
    BY <1>2, <1>3, <1>4, <2>1, PutThen
<1>6. /\ dinode' = dinode /\ entries' = entries /\ lost' = lost /\ file' = file /\ ofile' = ofile /\ cwd' = cwd /\ holder' = holder
      /\ icache' = LockedCache(i, z) /\ todo' = [todo EXCEPT ![p] = t]
  <2>1. g = Iunlockput(d)
    BY <1>1, <1>2 DEF Plain, Iunlockput
  <2> QED
    BY <1>1, <1>2, <2>1 DEF disk, opened, LockedCache, Continue
<1>7. Goes(p, t)
  BY <1>5, <1>6 DEF Goes, Inner
<1>8. \A j \in Inums : Refs(t, j) = Refs(todo[p], j) + Eq(z, j) /\ Owed(t, j) = Owed(todo[p], j) /\ Claimed(t, j) = Claimed(todo[p], j)
  BY <1>1, <1>3, <1>4, <1>5
<1>9. HoldsMove(p, t) /\ holder' \in [Inums -> Procs \cup {None}]
  BY <1>6, <1>8, HoldsNothing
<1>10. AllSound(p, t)'
  <2>1. Sound(p, g)'
    BY <1>1, <1>3, <1>4, <1>6 DEF Sound
  <2>2. Sound(p, Iput(i))'
    BY <1>3, <1>6, IputSound
  <2> QED
    BY <1>5, <2>1, <2>2 DEF AllSound
<1>11. LockMove(p, i, z, t)
  BY <1>3, <1>4, <1>5, <1>6, <1>7, <1>8, <1>9, <1>10 DEF LockMove
<1> QED
  BY <1>1, <1>3, <1>11, LockStep

\* the second half of unlink(): the entry goes, the directory is put, and the count is owed
Removes(p, d, i, n, parent, t) ==
  /\ parent = [icache[d] EXCEPT !.nlink = IF dinode[i].type = "dir" THEN @ - 1 ELSE @]
  /\ entries' = WithEntry(entries, d, n, 0)
  /\ Iupdate(d, parent)
  /\ icache' = [Cache(i, Ilocked(i)) EXCEPT ![d] = parent]
  /\ holder' = [holder EXCEPT ![i] = p, ![d] = None]
  /\ t = <<Iput(d), Plain("unlink_count", i)>>
  /\ todo' = [todo EXCEPT ![p] = t]
  /\ UNCHANGED <<opened, lost>>

\* a directory in a directory counts
LEMMA ParentLink ==
  ASSUME IInv, NEW p \in Procs, NEW d, NEW i, NEW n, Unlinking(p, d, i, n), dinode[i].type = "dir"
  PROVE  dinode[d].nlink \in Nat /\ dinode[d].nlink >= 1 /\ SubdirsOf(d) \in Nat /\ SubdirsOf(d) >= 1
<1>1. d \in Inums /\ i \in Inums /\ n \in Names /\ entries[d][n] = i /\ dinode[d].type = "dir"
  BY DEF Unlinking
<1>2. SubdirsOf(d) \in Nat /\ SubdirsOf(d) >= 1
  <2>1. PICK g, v : g = DirOf(d) /\ v = TRUE
    OBVIOUS
  <2>2. i # 0
    BY <1>1, Constants
  <2>3. IsDir(entries[d][n])
    BY <1>1, <2>2 DEF IsDir
  <2>4. g[n] = IsDir(entries[d][n])
    BY <1>1, <2>1 DEF DirOf
  <2>5. g[n] = v
    BY <2>1, <2>3, <2>4, Zenon DEF IsDir
  <2>6. Fiber(g, Names, v) \in Nat /\ (Fiber(g, Names, v) = 0 <=> \A x \in Names : g[x] # v)
    BY Constants, FiberIs
  <2>7. Fiber(g, Names, v) \in Nat /\ Fiber(g, Names, v) # 0
    BY <1>1, <2>5, <2>6
  <2>8. SubdirsOf(d) = Fiber(g, Names, v)
    BY <2>1, Zenon DEF SubdirsOf
  <2> QED
    BY <2>7, <2>8
<1>3. d \notin lost
  BY <1>1 DEF IInv, LinksBalance
<1>4. dinode[d].nlink = NamesOf(d) + SubdirsOf(d) + Total(OwesTo(d)) + (IF d = Root THEN 1 ELSE 0)
  BY <1>1, <1>3 DEF IInv, LinksBalance
<1>5. NamesOf(d) \in Nat
  BY Constants, FS_Product, FiberIs DEF NamesOf
<1>6. Total(OwesTo(d)) \in Nat
  BY Stacked, TotalNone DEF IInv, Total
<1> QED
  BY <1>2, <1>4, <1>5, <1>6

LEMMA UnlinkRemoves ==
  ASSUME IInv, NEW p \in Procs, NEW d, NEW i, NEW n, Unlinking(p, d, i, n), NEW parent, NEW t, Removes(p, d, i, n, parent, t)
  PROVE  IInv'
<1>1. /\ d \in Inums /\ i \in Inums /\ d # i /\ cwd[p] # 0 /\ n \in Names /\ entries[d][n] = i /\ icache[d].valid
      /\ holder[d] = p /\ holder[i] = None /\ dinode[d].type = "dir" /\ dinode[i].type # "free"
      /\ \A j \in Inums : /\ Refs(todo[p], j) = Eq(d, j) + Eq(i, j) /\ Owed(todo[p], j) = 0
                          /\ Claimed(todo[p], j) = Eq(d, j) /\ Eq(i, j) \in Nat /\ Eq(d, j) \in Nat /\ Eq(0, j) = 0
      /\ \A h \in Files : Closing(todo[p], h) = 0
      /\ todo[p] # <<>> /\ i = Top(p).i /\ d = Top(p).ip
  BY DEF Unlinking
<1>2. /\ LinksBalance /\ entries \in Directories /\ lost \subseteq Inums
      /\ dinode \in [Inums -> [type : Types, nlink : Nat]] /\ holder \in [Inums -> Procs \cup {None}]
  BY DEF IInv, TypeOK, Directories
<1>3. PICK less : less = IF dinode[i].type = "dir" THEN 1 ELSE 0
  OBVIOUS
<1>4. /\ parent \in Inodes /\ parent.valid /\ parent.type = dinode[d].type /\ parent.ref = icache[d].ref
      /\ parent.nlink = dinode[d].nlink - less /\ less \in Nat /\ dinode[d].nlink \in Nat
  <2>1. icache[d] \in Inodes /\ icache[d].type = dinode[d].type /\ icache[d].nlink = dinode[d].nlink
    BY <1>1, CacheFits DEF Fits
  <2>2. CASE dinode[i].type = "dir"
    <3>1. dinode[d].nlink \in Nat /\ dinode[d].nlink >= 1
      BY <2>2, ParentLink
    <3>2. parent = [icache[d] EXCEPT !.nlink = @ - 1]
      BY <2>2 DEF Removes
    <3> QED
      BY <1>1, <1>3, <2>1, <2>2, <3>1, <3>2 DEF Inodes
  <2>3. CASE dinode[i].type # "dir"
    <3>1. parent = [icache[d] EXCEPT !.nlink = @]
      BY <2>3 DEF Removes
    <3>2. PICK c, m : c = icache[d] /\ m = c.nlink
      OBVIOUS
    <3>3. c \in Inodes /\ parent = [c EXCEPT !.nlink = m] /\ m \in Nat
      BY <2>1, <3>1, <3>2 DEF Inodes
    <3>4. parent \in Inodes /\ parent.valid = c.valid /\ parent.type = c.type /\ parent.ref = c.ref /\ parent.nlink = m
      BY <3>3 DEF Inodes
    <3>5. less = 0 /\ dinode[d].nlink \in Nat /\ m = dinode[d].nlink
      BY <1>1, <1>2, <1>3, <2>1, <2>3, <3>2
    <3> QED
      BY <1>1, <2>1, <3>2, <3>4, <3>5
  <2> QED
    BY <2>2, <2>3
<1>5. Entered(entries', entries, d, n, 0)
  <2>1. PICK e, h, z : e = entries /\ h = entries' /\ z = 0
    OBVIOUS
  <2>2. e \in Directories /\ h = WithEntry(e, d, n, z) /\ z \in Inums \cup {0}
    BY <1>2, <2>1 DEF Removes
  <2>3. Entered(h, e, d, n, z)
    BY <1>1, <2>2, EntryIs
  <2> QED
    BY <2>1, <2>3
<1>6. /\ entries' \in [Inums -> [Names \cup Dots -> Inums \cup {0}]] /\ entries'[d][n] = 0
      /\ \A x \in Inums, m \in Names : x # d \/ m # n => entries'[x][m] = entries[x][m]
      /\ \A x \in Inums : x # d => entries'[x] = entries[x]
      /\ \A x \in Inums : entries'[x]["."] = entries[x]["."]
  BY <1>5 DEF Entered, Directories
<1>7. /\ dinode' \in [Inums -> [type : Types, nlink : Nat]]
      /\ \A k \in Inums : /\ dinode'[k].type = dinode[k].type
                          /\ dinode'[k].nlink = IF k = d THEN parent.nlink ELSE dinode[k].nlink
  <2>1. PICK c : c = Cache(d, parent)
    OBVIOUS
  <2>2. Iupdate(d, parent) /\ dinode[d].type # "free"
    BY <1>1 DEF Removes
  <2>3. parent \in Inodes /\ parent.valid /\ parent.type = dinode[d].type /\ parent.ref = icache[d].ref /\ d \in Inums
    BY <1>1, <1>4
  <2> HIDE <1>1, <1>4
  <2> QED
    BY <2>1, <2>2, <2>3, WrittenFits
<1>8. /\ icache' \in [Inums -> Inodes] /\ icache'[d] = parent /\ icache'[i] = Ilocked(i)
      /\ \A k \in Inums : k # d /\ k # i => icache'[k] = icache[k]
  <2>1. icache \in [Inums -> Inodes] /\ Ilocked(i) \in Inodes
    BY CacheFits DEF Fits, Unlinking
  <2> QED
    BY <1>1, <1>4, <2>1 DEF Removes, Cache
<1>9. /\ \A k \in Inums : icache'[k].ref = icache[k].ref
      /\ \A k \in Inums : icache'[k] # icache[k] => Touches(p, k)
      /\ \A k \in Inums : icache[k].valid => icache'[k].valid
      /\ icache'[i].valid
  BY <1>1, <1>4, <1>8 DEF Touches, Unlinking
<1>10. Fits(icache)'
  <2>1. ASSUME NEW k \in Inums, icache'[k].valid
        PROVE  icache'[k].type = dinode'[k].type /\ icache'[k].nlink = dinode'[k].nlink /\ dinode'[k].type # "free"
    <3>1. CASE k = d
      BY <1>1, <1>4, <1>7, <1>8, <3>1
    <3>2. CASE k = i
      BY <1>1, <1>7, <1>8, <3>2 DEF Unlinking
    <3>3. CASE k # d /\ k # i
      BY <1>7, <1>8, <2>1, <3>3, CacheFits DEF Fits
    <3> QED
      BY <3>1, <3>2, <3>3
  <2> QED
    BY <1>8, <2>1 DEF Fits
<1>11. Careful(p)
  BY <1>1, <1>6, <1>7, <1>9 DEF Careful
<1>12. PICK a : a = "unlink_count"
  OBVIOUS
<1>13. PICK g : g = Plain(a, i)
  OBVIOUS
<1>14. /\ FrameOK(g) /\ g.do = a /\ g.i = i /\ g.ip = 0 /\ ~Waiting(g) /\ Ends(g)
       /\ \A k \in Inums : FRefs(g, k) = Eq(i, k) /\ FOwed(g, k) = Eq(i, k) /\ FClaimed(g, k) = Eq(i, k)
       /\ \A m \in Files : FClosing(g, m) = 0
  <2>1. a \in Dos /\ (a = "link_bad" \/ a = "unlink_count" \/ a = "opened" \/ a = "iunlockput") /\ a # "link_bad"
        /\ (a = "link_bad" \/ a = "unlink_count")
    BY <1>12 DEF Dos
  <2> QED
    BY <1>1, <1>13, <2>1, PlainIs
<1>15. t = <<Iput(d), g>> /\ todo' = [todo EXCEPT ![p] = t]
  BY <1>12, <1>13 DEF Removes
<1>16. /\ Inner(t) /\ Shape(t) /\ Frames(t) = {Iput(d), g}
       /\ \A j \in Inums : Refs(t, j) = Eq(i, j) + Eq(d, j) /\ Owed(t, j) = Eq(i, j) /\ Claimed(t, j) = Eq(i, j)
       /\ \A h \in Files : Closing(t, h) = 0
  <2>1. g.do \notin {"itrunc", "unref", "unlink_ip", "panic"}
    BY <1>12, <1>14
  <2>2. /\ Inner(t) /\ Shape(t) /\ Frames(t) = {Iput(d), g}
        /\ \A j \in Inums : /\ Refs(t, j) = FRefs(g, j) + Eq(d, j) /\ Owed(t, j) = FOwed(g, j)
                            /\ Claimed(t, j) = FClaimed(g, j)
        /\ \A h \in Files : Closing(t, h) = FClosing(g, h)
    BY <1>1, <1>14, <1>15, <2>1, PutThen
  <2> QED
    BY <1>14, <2>2
<1>17. Goes(p, t)
  BY <1>15, <1>16 DEF Goes, Inner
<1>18. HoldsMove(p, t) /\ holder' \in [Inums -> Procs \cup {None}]
  <2>1. /\ holder' \in [Inums -> Procs \cup {None}] /\ holder'[i] = p /\ holder'[d] = None
        /\ \A k \in Inums : k # i /\ k # d => holder'[k] = holder[k]
    BY <1>1, <1>2 DEF Removes
  <2>2. ASSUME NEW k \in Inums PROVE holder[k] = p <=> k = d
    <3>1. Claimed(todo[p], k) = IF holder[k] = p THEN 1 ELSE 0
      BY DEF IInv, HeldOnce, Claimed
    <3> QED
      BY <1>1, <3>1 DEF Eq
  <2>3. ASSUME NEW k \in Inums PROVE Claimed(t, k) = IF holder'[k] = p THEN 1 ELSE 0
    <3>1. Claimed(t, k) = IF i = k THEN 1 ELSE 0
      BY <1>16 DEF Eq
    <3>2. p # None
      BY Constants
    <3> QED
      BY <2>1, <2>2, <3>1, <3>2
  <2>4. ASSUME NEW k \in Inums, NEW q \in Procs \ {p} PROVE holder'[k] = q <=> holder[k] = q
    BY <1>1, <2>1, Constants, SMTT(30)
  <2> QED
    BY <2>1, <2>3, <2>4 DEF HoldsMove
<1>19. lost' = lost /\ file' = file /\ ofile' = ofile /\ cwd' = cwd
  BY DEF Removes, opened
<1>20. AllSound(p, t)'
  <2>1. Sound(p, Iput(d))'
    BY <1>1, <1>7, IputSound
  <2>2. Sound(p, g)'
    BY <1>1, <1>7, <1>9, <1>12, <1>14, <1>19 DEF Sound
  <2> QED
    BY <1>16, <2>1, <2>2 DEF AllSound
<1>21. \A k \in Inums : icache'[k].ref = icache[k].ref - Refs(todo[p], k) + Refs(t, k)
  <2>1. TAKE k \in Inums
  <2>2. icache[k].ref \in Nat /\ icache'[k].ref = icache[k].ref
    BY <1>9 DEF IInv, TypeOK
  <2> QED
    BY <1>1, <1>16, <2>2
<1>22. ASSUME NEW k \in Inums
       PROVE  /\ NamesOf(k)' = NamesOf(k) - Eq(i, k) /\ NamesOf(k) \in Nat
              /\ SubdirsOf(k)' = SubdirsOf(k) - (IF k = d THEN less ELSE 0) /\ SubdirsOf(k) \in Nat
              /\ Total(OwesTo(k))' = Total(OwesTo(k)) + Eq(i, k) /\ Total(OwesTo(k)) \in Nat /\ Eq(i, k) \in Nat
  <2>1. /\ NamesOf(k) \in Nat /\ NamesOf(k)' \in Nat
        /\ NamesOf(k)' = NamesOf(k) - Eq(entries[d][n], k) + Eq(entries'[d][n], k)
    BY <1>1, <1>6, NamesChange
  <2>2. Eq(entries[d][n], k) = Eq(i, k) /\ Eq(entries'[d][n], k) = 0 /\ Eq(i, k) \in Nat
    BY <1>1, <1>6
  <2>3. ASSUME NEW m \in Names, k # d \/ m # n PROVE IsDir(entries[k][m])' <=> IsDir(entries[k][m])
    <3>1. entries'[k][m] = entries[k][m] /\ entries[k][m] \in Inums \cup {0}
      BY <1>2, <1>6, <2>3 DEF Directories
    <3> QED
      BY <1>7, <3>1 DEF IsDir
  <2>4. CASE k = d
    <3>1. \A m \in Names \ {n} : IsDir(entries[d][m])' <=> IsDir(entries[d][m])
      BY <2>3, <2>4
    <3>2. /\ SubdirsOf(d) \in Nat /\ SubdirsOf(d)' \in Nat
          /\ SubdirsOf(d)' = SubdirsOf(d) - (IF IsDir(entries[d][n]) THEN 1 ELSE 0) + (IF IsDir(entries[d][n])' THEN 1 ELSE 0)
      BY <1>1, <3>1, SubdirsChange
    <3>3. ~IsDir(entries[d][n])'
      BY <1>6 DEF IsDir
    <3>4. IsDir(entries[d][n]) <=> dinode[i].type = "dir"
      BY <1>1, Constants DEF IsDir
    <3>5. SubdirsOf(d)' = SubdirsOf(d) - less
      BY <1>3, <1>4, <3>2, <3>3, <3>4
    <3>6. /\ Total(OwesTo(k))' = Total(OwesTo(k)) - Owed(todo[p], k) + Owed(t, k)
          /\ Total(OwesTo(k)) \in Nat
      BY <1>17, OwedStep
    <3> QED
      BY <1>1, <1>16, <2>1, <2>2, <2>4, <3>2, <3>5, <3>6
  <2>5. CASE k # d
    <3>1. SubdirsOf(k)' = SubdirsOf(k) /\ SubdirsOf(k) \in Nat
      BY <2>3, <2>5, SubdirsSame
    <3>2. /\ Total(OwesTo(k))' = Total(OwesTo(k)) - Owed(todo[p], k) + Owed(t, k)
          /\ Total(OwesTo(k)) \in Nat
      BY <1>17, OwedStep
    <3> QED
      BY <1>1, <1>16, <2>1, <2>2, <2>5, <3>1, <3>2
  <2> QED
    BY <2>4, <2>5
<1>23. LinksBalance'
  <2>1. ASSUME NEW k \in Inums \ lost', dinode'[k].type # "free"
        PROVE  dinode'[k].nlink = NamesOf(k)' + SubdirsOf(k)' + Total(OwesTo(k))' + (IF k = Root THEN 1 ELSE 0)
    <3>1. dinode[k].nlink = NamesOf(k) + SubdirsOf(k) + Total(OwesTo(k)) + (IF k = Root THEN 1 ELSE 0) /\ dinode[k].nlink \in Nat
      BY <1>2, <1>7, <1>19, <2>1 DEF LinksBalance
    <3>2. dinode'[k].nlink = dinode[k].nlink - (IF k = d THEN less ELSE 0)
      BY <1>4, <1>7, <3>1
    <3> QED
      BY <1>4, <1>22, <3>1, <3>2
  <2>2. ASSUME NEW k \in lost' PROVE dinode'[k].type = "file" /\ dinode'[k].nlink >= NamesOf(k)' + Total(OwesTo(k))' + 1
    <3>1. k \in Inums /\ dinode[k].type = "file" /\ dinode[k].nlink >= NamesOf(k) + Total(OwesTo(k)) + 1 /\ dinode[k].nlink \in Nat
      BY <1>2, <1>19, <2>2 DEF LinksBalance
    <3>2. k # d
      BY <1>1, <3>1
    <3>3. dinode'[k].nlink = dinode[k].nlink /\ dinode'[k].type = "file"
      BY <1>7, <3>1, <3>2
    <3> QED
      BY <1>22, <3>1, <3>3
  <2>3. ASSUME NEW x \in Inums, NEW m \in Names, entries'[x][m] # 0
        PROVE  dinode'[entries'[x][m]].type # "free" /\ dinode'[x].type = "dir"
    <3>1. x # d \/ m # n
      BY <1>6, <2>3
    <3>2. entries'[x][m] = entries[x][m] /\ entries[x][m] \in Inums
      BY <1>2, <1>6, <2>3, <3>1 DEF Directories
    <3> QED
      BY <1>2, <1>7, <2>3, <3>2 DEF LinksBalance
  <2>4. \A x \in Inums : entries'[x]["."] \in {0, x} /\ (dinode'[x].type = "dir" => entries'[x]["."] = x)
    BY <1>2, <1>6, <1>7 DEF LinksBalance
  <2>5. dinode'[Root].type = "dir"
    BY <1>2, <1>7, Constants DEF LinksBalance
  <2> QED
    BY <2>1, <2>2, <2>3, <2>4, <2>5 DEF LinksBalance
<1>24. lost' \subseteq Inums
  BY <1>2, <1>19
<1>25. \A h \in Files : Closing(t, h) = Closing(todo[p], h)
  BY <1>1, <1>16
<1>26. Disk(p, t)
  BY <1>6, <1>7, <1>10, <1>11, <1>16, <1>17, <1>18, <1>19, <1>20, <1>21, <1>23, <1>24, <1>25 DEF Disk
<1> QED
  BY <1>26, DiskStep

LEMMA UnlinkEntryStep == ASSUME IInv, NEW p \in Procs, UnlinkEntry(p) PROVE IInv'
<1>1. PICK d, i, n : d = Top(p).ip /\ i = Top(p).i /\ n = LastName(Top(p))
  OBVIOUS
<1>2. Unlinking(p, d, i, n)
  BY <1>1, UnlinkingIs
<1>3. PICK parent, t : /\ parent = [icache[d] EXCEPT !.nlink = IF dinode[i].type = "dir" THEN @ - 1 ELSE @]
                       /\ t = <<Iput(d), Plain("unlink_count", i)>>
  OBVIOUS
<1>4. ~(Ilocked(i).nlink < 1) /\ Ilocked(i).type = dinode[i].type
  BY <1>2 DEF Unlinking, Inodes
<1>5. \/ icache' = Cache(i, Ilocked(i)) /\ Continue(p, <<Iput(i), Iunlockput(d)>>) /\ UNCHANGED <<disk, holder, opened, lost>>
      \/ Removes(p, d, i, n, parent, t)
  <2>1. parent = [icache[d] EXCEPT !.nlink = IF Ilocked(i).type = "dir" THEN @ - 1 ELSE @]
    BY <1>3, <1>4
  <2> QED
    BY <1>1, <1>3, <1>4, <2>1 DEF UnlinkEntry, Removes, Continue, WithEntry, Plain
<1> QED
  BY <1>2, <1>5, UnlinkBusy, UnlinkRemoves

-----------------------------------------------------------------------------
(* A free inode has no names, no entries and no locks, and nobody is to     *)
(* change its count.                                                        *)

LEMMA FreeIs ==
  ASSUME IInv, NEW i \in Inums, dinode[i].type = "free"
  PROVE  /\ i # Root /\ i \notin lost /\ ~icache[i].valid /\ ~Named(i)
         /\ \A n \in Names : entries[i][n] = 0
         /\ NamesOf(i) = 0 /\ Total(OwesTo(i)) = 0 /\ SubdirsOf(i) = 0
<1>1. LinksBalance /\ Coherent /\ SoundFrames /\ Shapes
  BY DEF IInv
<1>2. i # Root /\ i \notin lost /\ ~icache[i].valid
  BY <1>1 DEF LinksBalance, Coherent
<1>3. ~Named(i) /\ \A n \in Names : entries[i][n] = 0
  <2>1. i # 0
    BY Constants
  <2> QED
    BY <1>1, <2>1 DEF LinksBalance, Named
<1>4. NamesOf(i) = 0
  <2>1. PICK g, S : g = EntryOf /\ S = Inums \X Names
    OBVIOUS
  <2>2. \A x \in S : g[x] # i
    BY <1>3, <2>1 DEF EntryOf, Named
  <2>3. IsFiniteSet(S)
    BY <2>1, Constants, FS_Product
  <2>4. Fiber(g, S, i) = 0
    BY <2>2, <2>3, FiberIs
  <2> QED
    BY <2>1, <2>4 DEF NamesOf
<1>5. SubdirsOf(i) = 0
  <2>1. PICK g, v : g = DirOf(i) /\ v = TRUE
    OBVIOUS
  <2>2. ASSUME NEW n \in Names PROVE g[n] # v
    <3>1. g[n] = IsDir(entries[i][n])
      BY <2>1 DEF DirOf
    <3>2. ~IsDir(entries[i][n])
      BY <1>3 DEF IsDir
    <3> QED
      BY <2>1, <3>1, <3>2, Zenon DEF IsDir
  <2>3. Fiber(g, Names, v) = 0
    BY <2>2, Constants, FiberIs
  <2> QED
    BY <2>1, <2>3, Zenon DEF SubdirsOf
<1>6. Total(OwesTo(i)) = 0
  <2>1. PICK F : F = OwesTo(i)
    OBVIOUS
  <2>2. ASSUME NEW p \in Procs, NEW k \in 1 .. Len(todo[p]) PROVE todo[p][k] \notin F
    <3>1. PICK f : f = todo[p][k]
      OBVIOUS
    <3>2. Sound(p, f)
      BY <1>1, <3>1 DEF SoundFrames, AllSound, Frames
    <3>3. i # 0
      BY Constants
    <3> QED
      BY <2>1, <3>1, <3>2, <3>3 DEF OwesTo, Owes, Sound
  <2>3. TotalIn(todo, F) = 0
    BY <2>2, Stacked, TotalNone DEF IInv
  <2> QED
    BY <2>1, <2>3 DEF Total
<1> QED
  BY <1>2, <1>3, <1>4, <1>5, <1>6

LEMMA LeastOf ==
  ASSUME NEW S \in SUBSET Nat, S # {}
  PROVE  Min(S) \in S /\ \A x \in S : Min(S) <= x
<1>1. IsWellFoundedOn(OpToRel(<, Nat), Nat)
  BY NatLessThanWellFounded
<1>2. PICK least \in S : \A t \in S : <<t, least>> \notin OpToRel(<, Nat)
  BY <1>1, WFMin
<1>3. ASSUME NEW t \in S PROVE least <= t
  <2>1. t \in Nat /\ least \in Nat
    OBVIOUS
  <2>2. ~(t < least)
    BY <1>2, <2>1 DEF OpToRel
  <2> QED
    BY <2>1, <2>2
<1> QED
  BY <1>3 DEF Min

\* what create() finds, and the frames it leaves for the inode i
Creating(p, d, n, arg, r) ==
  /\ d \in Inums /\ d # 0 /\ n \in Names /\ entries[d][n] = 0 /\ holder[d] = None /\ dinode[d].type = "dir" /\ cwd[p] # 0
  /\ arg \in {"file", "dir"} /\ todo[p] # <<>> /\ d = Top(p).i
  /\ \A j \in Inums : Refs(todo[p], j) = Eq(d, j) /\ Owed(todo[p], j) = 0 /\ Claimed(todo[p], j) = 0 /\ Eq(d, j) \in Nat
  /\ \A h \in Files : Closing(todo[p], h) = 0
  /\ Weightless(r) /\ Inner(r) /\ r # <<>> /\ Waiting(r[1]) /\ Tail(r) = <<>> /\ r[1].ip = 0
  /\ r[1].do = IF arg = "dir" THEN "iunlockput" ELSE "opened"

LEMMA CreatingIs ==
  ASSUME IInv, NEW p \in Procs, CreateNew(p)
  PROVE  Creating(p, Top(p).i, LastName(Top(p)), Top(p).arg, Rest(p))
<1>1. PICK f, r, d, n : f = Top(p) /\ r = Rest(p) /\ d = f.i /\ n = LastName(f)
  OBVIOUS
<1>2. todo[p] # <<>> /\ f.do = "create" /\ holder[d] = None /\ entries[d][n] = 0
  BY <1>1 DEF CreateNew, At, Top, CanLock
<1>3. /\ d \in Inums /\ d # 0 /\ dinode[d].type # "free" /\ cwd[p] # 0 /\ Weightless(r)
      /\ \A j \in Inums : Refs(todo[p], j) = Eq(d, j) /\ Owed(todo[p], j) = 0 /\ Claimed(todo[p], j) = 0 /\ Eq(d, j) \in Nat
      /\ \A h \in Files : Closing(todo[p], h) = 0
      /\ Inner(r) /\ r # <<>> /\ Waiting(r[1]) /\ Tail(r) = <<>> /\ r[1].ip = 0
      /\ r[1].do = IF f.arg = "dir" THEN "iunlockput" ELSE "opened"
  BY <1>1, <1>2, AskingIs DEF Asking
<1>4. FrameOK(f) /\ Sound(p, f)
  BY <1>1, <1>2, TopIs
<1>5. f.path \in Elems /\ f.path # <<>> /\ dinode[d].type = "dir" /\ f.arg \in {"file", "dir"}
  BY <1>1, <1>2, <1>3, <1>4 DEF FrameOK, Sound
<1>6. n \in Names
  <2>1. n \in Names \cup {"."}
    BY <1>1, <1>5, PathIs DEF LastName
  <2>2. entries[d]["."] = d
    BY <1>3, <1>5 DEF IInv, LinksBalance
  <2> QED
    BY <1>2, <1>3, <2>1, <2>2
<1> QED
  BY <1>1, <1>2, <1>3, <1>5, <1>6 DEF Creating

NoInodes(i) == <<Frame("panic", i, 0, <<>>, "ialloc: no inodes")>>

LEMMA CreatePanics ==
  ASSUME IInv, NEW p \in Procs, NEW d, NEW n, NEW arg, NEW r, Creating(p, d, n, arg, r),
         Continue(p, NoInodes(d)), UNCHANGED <<disk, inodes, opened, lost>>
  PROVE  IInv'
<1>1. /\ d \in Inums /\ d # 0 /\ dinode[d].type = "dir" /\ cwd[p] # 0 /\ 0 \notin Inums
      /\ \A j \in Inums : Refs(todo[p], j) = Eq(d, j) /\ Owed(todo[p], j) = 0 /\ Claimed(todo[p], j) = 0 /\ Eq(d, j) \in Nat
      /\ \A h \in Files : Closing(todo[p], h) = 0
  BY Constants DEF Creating
<1>2. PICK a, z, s : a = "panic" /\ z = 0 /\ s = "ialloc: no inodes"
  OBVIOUS
<1>3. PICK g : g = Frame(a, d, z, <<>>, s)
  OBVIOUS
<1>4. g \in FrameSet /\ g.do = a /\ g.i = d /\ g.ip = z /\ g.arg = s
  <2>1. a \in Dos /\ s \in Args /\ d \in Inums \cup {0} /\ z \in Inums \cup {0}
    BY <1>1, <1>2 DEF Dos, Args
  <2> QED
    BY <1>3, <2>1, PathlessIs
<1>5. FrameOK(g) /\ Ends(g) /\ ~Waiting(g)
  BY <1>1, <1>2, <1>4 DEF FrameOK, Ends, Waiting
<1>6. PICK t : t = <<g>>
  OBVIOUS
<1>7. Inner(t) /\ t[1] = g /\ t # <<>> /\ Frames(t) = {g} /\ Adds(t, g, <<>>)
  BY <1>5, <1>6, OneFrame
<1>8. ASSUME NEW j \in Inums PROVE FRefs(g, j) = Eq(d, j) /\ FOwed(g, j) = 0 /\ FClaimed(g, j) = 0
  <2>1. Eq(g.i, j) = Eq(d, j) /\ Eq(g.ip, j) = 0 /\ Eq(d, j) \in Nat
    BY <1>1, <1>2, <1>4 DEF Eq
  <2>2. g.do = "panic"
    BY <1>2, <1>4
  <2> QED
    BY <2>1, <2>2 DEF FRefs, FOwed, FClaimed
<1>9. /\ \A j \in Inums : Refs(t, j) = Eq(d, j) /\ Owed(t, j) = 0 /\ Claimed(t, j) = 0
      /\ \A h \in Files : Closing(t, h) = 0
  <2>1. \A h \in Files : FClosing(g, h) = 0
    BY <1>2, <1>4 DEF FClosing
  <2> QED
    BY <1>1, <1>7, <1>8, <2>1, NoFrames DEF Adds, Weightless
<1>10. /\ dinode' = dinode /\ entries' = entries /\ lost' = lost /\ file' = file /\ ofile' = ofile /\ cwd' = cwd
       /\ icache' = icache /\ holder' = holder /\ todo' = [todo EXCEPT ![p] = t]
  BY <1>2, <1>3, <1>6 DEF disk, inodes, opened, Continue, NoInodes
<1>11. Shape(t) /\ Goes(p, t)
  BY <1>5, <1>7, <1>10 DEF Shape, Goes, Inner
<1>12. HoldsMove(p, t) /\ holder' \in [Inums -> Procs \cup {None}]
  BY <1>1, <1>9, <1>10, HoldsNothing
<1>13. AllSound(p, t)'
  <2>1. Sound(p, g)'
    BY <1>1, <1>2, <1>4, <1>10 DEF Sound
  <2> QED
    BY <1>7, <2>1 DEF AllSound
<1>14. \A k \in Inums : icache'[k].ref = icache[k].ref - Refs(todo[p], k) + Refs(t, k)
  <2>1. TAKE k \in Inums
  <2>2. icache[k].ref \in Nat
    BY DEF IInv, TypeOK
  <2> QED
    BY <1>1, <1>9, <1>10, <2>2
<1>15. icache' \in [Inums -> Inodes]
       /\ \A k \in Inums : icache'[k].valid =>
             icache'[k].type = dinode[k].type /\ icache'[k].nlink = dinode[k].nlink /\ dinode[k].type # "free"
  BY <1>10, CacheFits DEF Fits
<1>16. Memory(p, t)
  BY <1>1, <1>9, <1>10, <1>11, <1>12, <1>13, <1>14, <1>15 DEF Memory
<1> QED
  BY <1>16, MemoryStep

\* create() of the inode i
Creates(p, d, n, arg, r, i, in, parent, dir, t) ==
  /\ i \in Inums /\ dinode[i].type = "free" /\ holder[i] = None
  /\ in = [icache[i] EXCEPT !.ref = @ + 1, !.valid = TRUE, !.type = arg, !.nlink = 1]
  /\ parent = [Ilocked(d) EXCEPT !.nlink = IF arg = "dir" THEN @ + 1 ELSE @]
  /\ dir = IF arg = "dir" THEN [NoEntries EXCEPT !["."] = i, ![".."] = d] ELSE NoEntries
  /\ dinode' = [dinode EXCEPT ![i] = [type |-> in.type, nlink |-> 1],
                              ![d] = [type |-> parent.type, nlink |-> parent.nlink]]
  /\ entries' = [entries EXCEPT ![i] = dir, ![d][n] = i]
  /\ icache' = [icache EXCEPT ![i] = in, ![d] = parent]
  /\ holder' = [holder EXCEPT ![i] = p]
  /\ t = <<Iput(d)>> \o Return(r, i)
  /\ todo' = [todo EXCEPT ![p] = t]
  /\ UNCHANGED <<opened, lost>>

\* the disk after it
Created(d, n, arg, i) ==
  /\ d # i /\ i # Root /\ i \notin lost /\ i # 0
  /\ dinode' \in [Inums -> [type : Types, nlink : Nat]] /\ dinode'[i].type = arg /\ dinode'[i].nlink = 1
  /\ \A k \in Inums : k # i => dinode'[k].type = dinode[k].type
  /\ dinode'[d].nlink = dinode[d].nlink + (IF arg = "dir" THEN 1 ELSE 0)
  /\ \A k \in Inums : k # i /\ k # d => dinode'[k] = dinode[k]
  /\ entries' \in Directories /\ entries'[d][n] = i
  /\ \A x \in Inums, m \in Names : x # d \/ m # n => entries'[x][m] = entries[x][m]
  /\ \A m \in Names : entries'[i][m] = 0 /\ entries[i][m] = 0
  /\ \A x \in Inums : x # d /\ x # i => entries'[x] = entries[x]
  /\ \A x \in Inums : x # i => entries'[x]["."] = entries[x]["."]
  /\ entries'[i]["."] = IF arg = "dir" THEN i ELSE 0

LEMMA CreatedIs ==
  ASSUME IInv, NEW p \in Procs, NEW d, NEW n, NEW arg, NEW r, Creating(p, d, n, arg, r),
         NEW i, NEW in, NEW parent, NEW dir, NEW t, Creates(p, d, n, arg, r, i, in, parent, dir, t)
  PROVE  /\ Created(d, n, arg, i)
         /\ icache' \in [Inums -> Inodes] /\ icache'[i] = in /\ icache'[d] = parent
         /\ \A k \in Inums : k # i /\ k # d => icache'[k] = icache[k]
         /\ in.ref = icache[i].ref + 1 /\ in.valid /\ in.type = arg /\ in.nlink = 1
         /\ parent.ref = icache[d].ref /\ parent.valid /\ parent.type = dinode'[d].type /\ parent.nlink = dinode'[d].nlink
<1>1. /\ d \in Inums /\ n \in Names /\ dinode[d].type = "dir" /\ arg \in {"file", "dir"}
      /\ i \in Inums /\ dinode[i].type = "free"
  BY DEF Creating, Creates
<1>2. /\ i # Root /\ i \notin lost /\ i # 0 /\ d # i /\ \A m \in Names : entries[i][m] = 0
  BY <1>1, FreeIs, Constants
<1>3. /\ icache \in [Inums -> Inodes] /\ dinode \in [Inums -> [type : Types, nlink : Nat]] /\ entries \in Directories
  BY CacheFits DEF IInv, TypeOK, Fits, Directories
<1>4. /\ Ilocked(d) \in Inodes /\ Ilocked(d).valid /\ Ilocked(d).ref = icache[d].ref
      /\ Ilocked(d).type = dinode[d].type /\ Ilocked(d).nlink = dinode[d].nlink
  BY <1>1, LockedFits
<1>5. in \in Inodes /\ in.ref = icache[i].ref + 1 /\ in.valid /\ in.type = arg /\ in.nlink = 1
  <2>1. PICK c, m, v, l : c = icache[i] /\ m = c.ref + 1 /\ v = TRUE /\ l = 1
    OBVIOUS
  <2>2. c \in Inodes
    BY <1>1, <1>3, <2>1
  <2>3. in = [c EXCEPT !.ref = m, !.valid = v, !.type = arg, !.nlink = l]
    BY <2>1 DEF Creates
  <2>4. arg \in Types /\ m \in Nat /\ v \in BOOLEAN /\ l \in Nat
    BY <1>1, <2>1, <2>2 DEF Types, Inodes
  <2>5. in \in Inodes /\ in.ref = m /\ in.valid = v /\ in.type = arg /\ in.nlink = l
    BY <2>2, <2>3, <2>4 DEF Inodes
  <2> QED
    BY <2>1, <2>5
<1>6. /\ parent \in Inodes /\ parent.ref = icache[d].ref /\ parent.valid /\ parent.type = dinode[d].type
      /\ parent.nlink = dinode[d].nlink + (IF arg = "dir" THEN 1 ELSE 0)
  <2>1. PICK c, m : c = Ilocked(d) /\ m = IF arg = "dir" THEN c.nlink + 1 ELSE c.nlink
    OBVIOUS
  <2>2. c \in Inodes /\ parent = [c EXCEPT !.nlink = m] /\ m \in Nat
    BY <1>4, <2>1 DEF Creates, Inodes
  <2>3. parent \in Inodes /\ parent.valid = c.valid /\ parent.type = c.type /\ parent.ref = c.ref /\ parent.nlink = m
    BY <2>2 DEF Inodes
  <2>4. dinode[d].nlink \in Nat
    BY <1>1, <1>3
  <2> QED
    BY <1>4, <2>1, <2>3, <2>4
<1>7. /\ icache' \in [Inums -> Inodes] /\ icache'[i] = in /\ icache'[d] = parent
      /\ \A k \in Inums : k # i /\ k # d => icache'[k] = icache[k]
  BY <1>1, <1>2, <1>3, <1>5, <1>6 DEF Creates
<1>8. /\ dinode' \in [Inums -> [type : Types, nlink : Nat]] /\ dinode'[i].type = arg /\ dinode'[i].nlink = 1
      /\ dinode'[d].type = dinode[d].type /\ dinode'[d].nlink = parent.nlink
      /\ \A k \in Inums : k # i /\ k # d => dinode'[k] = dinode[k]
  <2>1. PICK x, y : x = [type |-> in.type, nlink |-> 1] /\ y = [type |-> parent.type, nlink |-> parent.nlink]
    OBVIOUS
  <2>2. x \in [type : Types, nlink : Nat] /\ x.type = arg /\ x.nlink = 1
    BY <1>1, <1>5, <2>1 DEF Types
  <2>3. y \in [type : Types, nlink : Nat] /\ y.type = dinode[d].type /\ y.nlink = parent.nlink
    BY <1>6, <2>1 DEF Inodes
  <2>4. dinode' = [dinode EXCEPT ![i] = x, ![d] = y]
    BY <2>1 DEF Creates
  <2> QED
    BY <1>1, <1>2, <1>3, <2>2, <2>3, <2>4
<1>9. PICK D : D = Names \cup Dots
  OBVIOUS
<1>10. "." \in D /\ ".." \in D /\ "." \notin Names /\ ".." \notin Names /\ \A m \in Names : m \in D
  BY <1>9, Constants DEF Dots
<1>11. dir \in [D -> Inums \cup {0}] /\ (\A m \in Names : dir[m] = 0) /\ dir["."] = IF arg = "dir" THEN i ELSE 0
  <2>1. PICK e : e = NoEntries
    OBVIOUS
  <2>2. e \in [D -> Inums \cup {0}] /\ \A m \in D : e[m] = 0
    BY <1>9, <2>1 DEF NoEntries
  <2>3. dir = IF arg = "dir" THEN [e EXCEPT !["."] = i, ![".."] = d] ELSE e
    BY <2>1 DEF Creates
  <2> QED
    BY <1>1, <1>10, <2>2, <2>3
<1>12. PICK h, e : h = [entries EXCEPT ![i] = dir] /\ e = entries'
  OBVIOUS
<1>13. h \in Directories /\ h[i] = dir /\ \A x \in Inums : x # i => h[x] = entries[x]
  BY <1>1, <1>3, <1>9, <1>11, <1>12 DEF Directories
<1>14. Entered(e, h, d, n, i)
  <2>1. e = WithEntry(h, d, n, i)
    BY <1>12 DEF Creates, WithEntry
  <2>2. i \in Inums \cup {0}
    BY <1>1
  <2> QED
    BY <1>1, <1>13, <2>1, <2>2, EntryIs
<1>15. /\ e \in Directories /\ e[d][n] = i
       /\ \A x \in Inums, m \in Names : x # d \/ m # n => e[x][m] = h[x][m]
       /\ \A x \in Inums : x # d => e[x] = h[x]
       /\ \A x \in Inums : e[x]["."] = h[x]["."]
  BY <1>14 DEF Entered
<1>16. /\ \A m \in Names : e[i][m] = 0
       /\ \A x \in Inums, m \in Names : x # d \/ m # n => e[x][m] = entries[x][m]
       /\ \A x \in Inums : x # d /\ x # i => e[x] = entries[x]
       /\ \A x \in Inums : x # i => e[x]["."] = entries[x]["."]
       /\ e[i]["."] = IF arg = "dir" THEN i ELSE 0
  BY <1>1, <1>2, <1>11, <1>13, <1>15
<1>17. Created(d, n, arg, i)
  <2>1. \A k \in Inums : k # i => dinode'[k].type = dinode[k].type
    BY <1>8
  <2> QED
    BY <1>2, <1>6, <1>8, <1>12, <1>15, <1>16, <2>1 DEF Created
<1> QED
  BY <1>5, <1>6, <1>7, <1>8, <1>17

LEMMA CreatedLinks ==
  ASSUME IInv, NEW p \in Procs, NEW d, NEW n, NEW arg, NEW r, Creating(p, d, n, arg, r), NEW i \in Inums, dinode[i].type = "free",
         Created(d, n, arg, i), lost' = lost, NEW t, Goes(p, t), \A k \in Inums : Owed(t, k) = 0
  PROVE  LinksBalance'
<1>1. /\ d \in Inums /\ n \in Names /\ dinode[d].type = "dir" /\ arg \in {"file", "dir"} /\ entries[d][n] = 0
      /\ \A k \in Inums : Owed(todo[p], k) = 0
  BY DEF Creating
<1>2. /\ d # i /\ i # Root /\ i \notin lost /\ i # 0
      /\ dinode' \in [Inums -> [type : Types, nlink : Nat]] /\ dinode'[i].type = arg /\ dinode'[i].nlink = 1
      /\ \A k \in Inums : k # i => dinode'[k].type = dinode[k].type
      /\ dinode'[d].nlink = dinode[d].nlink + (IF arg = "dir" THEN 1 ELSE 0)
      /\ \A k \in Inums : k # i /\ k # d => dinode'[k] = dinode[k]
      /\ entries' \in Directories /\ entries'[d][n] = i
      /\ \A x \in Inums, m \in Names : x # d \/ m # n => entries'[x][m] = entries[x][m]
      /\ \A m \in Names : entries'[i][m] = 0 /\ entries[i][m] = 0
      /\ \A x \in Inums : x # i => entries'[x]["."] = entries[x]["."]
      /\ entries'[i]["."] = IF arg = "dir" THEN i ELSE 0
  BY DEF Created
<1>3. LinksBalance /\ entries \in Directories /\ dinode \in [Inums -> [type : Types, nlink : Nat]] /\ lost \subseteq Inums
  BY DEF IInv, TypeOK, Directories
<1>4. ~Named(i) /\ NamesOf(i) = 0 /\ Total(OwesTo(i)) = 0 /\ SubdirsOf(i) = 0
  BY FreeIs
<1>5. ASSUME NEW k \in Inums, NEW m \in Names, k # d \/ m # n PROVE IsDir(entries[k][m])' <=> IsDir(entries[k][m])
  <2>1. entries'[k][m] = entries[k][m] /\ entries[k][m] \in Inums \cup {0} /\ entries[k][m] # i
    BY <1>1, <1>2, <1>3, <1>4, <1>5, Constants DEF Directories, Named
  <2> QED
    BY <1>2, <2>1 DEF IsDir
<1>6. PICK more : more = IF arg = "dir" THEN 1 ELSE 0
  OBVIOUS
<1>7. ASSUME NEW k \in Inums
      PROVE  /\ NamesOf(k)' = NamesOf(k) + Eq(i, k) /\ NamesOf(k) \in Nat /\ Eq(i, k) \in Nat
             /\ Total(OwesTo(k))' = Total(OwesTo(k)) /\ Total(OwesTo(k)) \in Nat
  <2>1. /\ NamesOf(k) \in Nat /\ NamesOf(k)' \in Nat
        /\ NamesOf(k)' = NamesOf(k) - Eq(entries[d][n], k) + Eq(entries'[d][n], k)
    BY <1>1, <1>2, NamesChange
  <2>2. Eq(entries[d][n], k) = 0 /\ Eq(entries'[d][n], k) = Eq(i, k) /\ Eq(i, k) \in Nat
    BY <1>1, <1>2, Constants DEF Eq
  <2>3. /\ Total(OwesTo(k))' = Total(OwesTo(k)) - Owed(todo[p], k) + Owed(t, k)
        /\ Total(OwesTo(k)) \in Nat
    BY OwedStep
  <2> QED
    BY <1>1, <2>1, <2>2, <2>3
<1>8. SubdirsOf(d)' = SubdirsOf(d) + more /\ SubdirsOf(d) \in Nat /\ more \in Nat
  <2>1. \A m \in Names \ {n} : IsDir(entries[d][m])' <=> IsDir(entries[d][m])
    BY <1>1, <1>5
  <2>2. /\ SubdirsOf(d) \in Nat /\ SubdirsOf(d)' \in Nat
        /\ SubdirsOf(d)' = SubdirsOf(d) - (IF IsDir(entries[d][n]) THEN 1 ELSE 0) + (IF IsDir(entries[d][n])' THEN 1 ELSE 0)
    BY <1>1, <2>1, SubdirsChange
  <2>3. ~IsDir(entries[d][n])
    BY <1>1 DEF IsDir
  <2>4. IsDir(entries[d][n])' <=> arg = "dir"
    BY <1>2 DEF IsDir
  <2> QED
    BY <1>6, <2>2, <2>3, <2>4
<1>9. ASSUME NEW k \in Inums, k # d PROVE SubdirsOf(k)' = SubdirsOf(k) /\ SubdirsOf(k) \in Nat
  <2>1. \A m \in Names : IsDir(entries[k][m])' <=> IsDir(entries[k][m])
    BY <1>5, <1>9
  <2> QED
    BY <2>1, SubdirsSame
<1>10. ASSUME NEW k \in Inums \ lost', dinode'[k].type # "free"
       PROVE  dinode'[k].nlink = NamesOf(k)' + SubdirsOf(k)' + Total(OwesTo(k))' + (IF k = Root THEN 1 ELSE 0)
  <2>1. CASE k = i
    <3>1. NamesOf(k)' = 1 /\ Total(OwesTo(k))' = 0
      BY <1>4, <1>7, <2>1 DEF Eq
    <3>2. SubdirsOf(k)' = 0
      BY <1>2, <1>4, <1>9, <2>1
    <3> QED
      BY <1>2, <2>1, <3>1, <3>2
  <2>2. CASE k = d
    <3>1. dinode[k].nlink = NamesOf(k) + SubdirsOf(k) + Total(OwesTo(k)) + (IF k = Root THEN 1 ELSE 0) /\ dinode[k].nlink \in Nat
      BY <1>1, <1>3, <1>10, <2>2 DEF LinksBalance
    <3>2. NamesOf(k)' = NamesOf(k)
      BY <1>2, <1>7, <2>2 DEF Eq
    <3>3. dinode'[k].nlink = dinode[k].nlink + more
      BY <1>2, <1>6, <2>2
    <3> QED
      BY <1>7, <1>8, <2>2, <3>1, <3>2, <3>3
  <2>3. CASE k # i /\ k # d
    <3>1. dinode[k].nlink = NamesOf(k) + SubdirsOf(k) + Total(OwesTo(k)) + (IF k = Root THEN 1 ELSE 0) /\ dinode[k].nlink \in Nat
      BY <1>2, <1>3, <1>10, <2>3 DEF LinksBalance
    <3>2. NamesOf(k)' = NamesOf(k)
      BY <1>7, <2>3 DEF Eq
    <3>3. dinode'[k].nlink = dinode[k].nlink
      BY <1>2, <2>3
    <3> QED
      BY <1>7, <1>9, <2>3, <3>1, <3>2, <3>3
  <2> QED
    BY <2>1, <2>2, <2>3
<1>11. ASSUME NEW k \in lost' PROVE dinode'[k].type = "file" /\ dinode'[k].nlink >= NamesOf(k)' + Total(OwesTo(k))' + 1
  <2>1. k \in Inums /\ k \in lost /\ dinode[k].type = "file" /\ dinode[k].nlink >= NamesOf(k) + Total(OwesTo(k)) + 1
    BY <1>3 DEF LinksBalance
  <2>2. k # i /\ k # d
    BY <1>1, <1>2, <2>1
  <2>3. dinode'[k] = dinode[k] /\ NamesOf(k)' = NamesOf(k)
    BY <1>2, <1>7, <2>1, <2>2 DEF Eq
  <2> QED
    BY <1>7, <2>1, <2>3
<1>12. ASSUME NEW x \in Inums, NEW m \in Names, entries'[x][m] # 0
       PROVE  dinode'[entries'[x][m]].type # "free" /\ dinode'[x].type = "dir"
  <2>1. x # i
    BY <1>2, <1>12
  <2>2. CASE x = d /\ m = n
    BY <1>1, <1>2, <2>1, <2>2
  <2>3. CASE x # d \/ m # n
    <3>1. entries'[x][m] = entries[x][m] /\ entries[x][m] \in Inums /\ entries[x][m] # i
      BY <1>2, <1>3, <1>4, <1>12, <2>3 DEF Directories, Named
    <3>2. dinode[entries[x][m]].type # "free" /\ dinode[x].type = "dir"
      BY <1>3, <1>12, <3>1 DEF LinksBalance
    <3> QED
      BY <1>2, <2>1, <3>1, <3>2
  <2> QED
    BY <2>2, <2>3
<1>13. ASSUME NEW x \in Inums PROVE entries'[x]["."] \in {0, x} /\ (dinode'[x].type = "dir" => entries'[x]["."] = x)
  <2>1. CASE x = i
    BY <1>2, <2>1
  <2>2. CASE x # i
    <3>1. entries'[x]["."] = entries[x]["."] /\ dinode'[x].type = dinode[x].type
      BY <1>2, <2>2
    <3> QED
      BY <1>3, <3>1 DEF LinksBalance
  <2> QED
    BY <2>1, <2>2
<1>14. dinode'[Root].type = "dir"
  BY <1>2, <1>3, Constants DEF LinksBalance
<1> QED
  BY <1>10, <1>11, <1>12, <1>13, <1>14 DEF LinksBalance

LEMMA CreatesStep ==
  ASSUME IInv, NEW p \in Procs, NEW d, NEW n, NEW arg, NEW r, Creating(p, d, n, arg, r),
         NEW i, NEW in, NEW parent, NEW dir, NEW t, Creates(p, d, n, arg, r, i, in, parent, dir, t)
  PROVE  IInv'
<1>1. /\ d \in Inums /\ n \in Names /\ holder[d] = None /\ cwd[p] # 0 /\ dinode[d].type = "dir"
      /\ arg \in {"file", "dir"} /\ todo[p] # <<>> /\ d = Top(p).i
      /\ \A j \in Inums : Refs(todo[p], j) = Eq(d, j) /\ Owed(todo[p], j) = 0 /\ Claimed(todo[p], j) = 0 /\ Eq(d, j) \in Nat
      /\ \A h \in Files : Closing(todo[p], h) = 0
      /\ Weightless(r) /\ Inner(r) /\ r # <<>> /\ Waiting(r[1]) /\ Tail(r) = <<>> /\ r[1].ip = 0
      /\ r[1].do = IF arg = "dir" THEN "iunlockput" ELSE "opened"
  BY DEF Creating
<1>2. /\ i \in Inums /\ dinode[i].type = "free" /\ holder[i] = None /\ holder' = [holder EXCEPT ![i] = p]
      /\ t = <<Iput(d)>> \o Return(r, i) /\ todo' = [todo EXCEPT ![p] = t]
      /\ lost' = lost /\ file' = file /\ ofile' = ofile /\ cwd' = cwd
  BY DEF Creates, opened
<1>3. /\ Created(d, n, arg, i)
      /\ icache' \in [Inums -> Inodes] /\ icache'[i] = in /\ icache'[d] = parent
      /\ \A k \in Inums : k # i /\ k # d => icache'[k] = icache[k]
      /\ in.ref = icache[i].ref + 1 /\ in.valid /\ in.type = arg /\ in.nlink = 1
      /\ parent.ref = icache[d].ref /\ parent.valid /\ parent.type = dinode'[d].type /\ parent.nlink = dinode'[d].nlink
  BY CreatedIs
<1>4. /\ d # i /\ dinode' \in [Inums -> [type : Types, nlink : Nat]] /\ dinode'[i].type = arg /\ dinode'[i].nlink = 1
      /\ \A k \in Inums : k # i => dinode'[k].type = dinode[k].type
      /\ \A k \in Inums : k # i /\ k # d => dinode'[k] = dinode[k]
      /\ entries' \in Directories /\ \A x \in Inums : x # d /\ x # i => entries'[x] = entries[x]
  BY <1>3 DEF Created
<1>5. PICK u, g : u = Return(r, i) /\ g = r[1]
  OBVIOUS
<1>6. /\ Good(u) /\ u # <<>> /\ Frames(u) = {[g EXCEPT !.i = i]} \cup Frames(Tail(r)) /\ g \in FrameSet /\ Owns(u, r, i)
      /\ \A j \in Inums : Owed(u, j) = Owed(r, j) /\ Claimed(u, j) = Claimed(r, j) + IF g.do \in Waiters THEN 0 ELSE Eq(i, j)
      /\ \A h \in Files : Closing(u, h) = Closing(r, h)
  BY <1>1, <1>2, <1>5, Returned
<1>7. g.do \in {"iunlockput", "opened"} /\ g.do \notin Waiters
  BY <1>1, <1>5 DEF Waiters
<1>8. \A j \in Inums : Eq(i, j) \in Nat
  BY DEF Eq
<1>9. /\ \A j \in Inums : Refs(u, j) = Eq(i, j) /\ Owed(u, j) = 0 /\ Claimed(u, j) = Eq(i, j)
      /\ \A h \in Files : Closing(u, h) = 0
  BY <1>1, <1>6, <1>7, <1>8 DEF Owns, Weightless
<1>10. Good(t) /\ Shape(t) /\ Frames(t) = {Iput(d)} \cup Frames(u) /\ Alike(t, u) /\ Owns(t, u, d)
  BY <1>1, <1>2, <1>5, <1>6, PushIput
<1>11. /\ \A j \in Inums : Refs(t, j) = Eq(i, j) + Eq(d, j) /\ Owed(t, j) = 0 /\ Claimed(t, j) = Eq(i, j)
       /\ \A h \in Files : Closing(t, h) = 0
  BY <1>9, <1>10 DEF Alike, Owns
<1>12. Goes(p, t)
  BY <1>2, <1>10 DEF Goes, Good, Inner
<1>13. LinksBalance'
  BY <1>2, <1>3, <1>11, <1>12, CreatedLinks
<1>14. /\ \A k \in Inums : icache'[k].ref = icache[k].ref + Eq(i, k)
       /\ \A k \in Inums : icache'[k] # icache[k] => Touches(p, k)
       /\ \A k \in Inums : icache[k].valid => icache'[k].valid
  <2>1. ASSUME NEW k \in Inums PROVE icache'[k].ref = icache[k].ref + Eq(i, k)
    <3>1. icache[k].ref \in Nat
      BY DEF IInv, TypeOK
    <3>2. CASE k = i
      BY <1>3, <3>2 DEF Eq
    <3>3. CASE k # i
      <4>1. Eq(i, k) = 0 /\ icache'[k].ref = icache[k].ref
        BY <1>3, <1>4, <3>3 DEF Eq
      <4> QED
        BY <3>1, <4>1
    <3> QED
      BY <3>2, <3>3
  <2>2. Touches(p, i) /\ Touches(p, d)
    BY <1>1, <1>2 DEF Touches
  <2> QED
    BY <1>3, <2>1, <2>2
<1>15. Fits(icache)'
  <2>1. ASSUME NEW k \in Inums, icache'[k].valid
        PROVE  icache'[k].type = dinode'[k].type /\ icache'[k].nlink = dinode'[k].nlink /\ dinode'[k].type # "free"
    <3>1. CASE k = d
      BY <1>1, <1>3, <1>4, <3>1
    <3>2. CASE k = i
      BY <1>1, <1>3, <1>4, <3>2
    <3>3. CASE k # d /\ k # i
      <4>1. icache'[k] = icache[k] /\ dinode'[k] = dinode[k]
        BY <1>3, <1>4, <3>3
      <4>2. Fits(icache)
        BY CacheFits
      <4> QED
        BY <2>1, <4>1, <4>2 DEF Fits
    <3> QED
      BY <3>1, <3>2, <3>3
  <2> QED
    BY <1>3, <2>1 DEF Fits
<1>16. Careful(p)
  <2>1. \A k \in Inums : dinode[k].type # "free" /\ dinode'[k].type # dinode[k].type => Alone(p, k)
    BY <1>2, <1>4
  <2>2. \A k \in Inums : entries'[k] # entries[k] => holder[k] \in {p, None} \/ dinode[k].type = "free"
    BY <1>1, <1>2, <1>4
  <2> QED
    BY <1>14, <2>1, <2>2 DEF Careful
<1>17. HoldsMove(p, t) /\ holder' \in [Inums -> Procs \cup {None}]
  <2>1. \A j \in Inums : Claimed(t, j) = Claimed(todo[p], j) + Eq(i, j)
    BY <1>1, <1>8, <1>11
  <2>2. CanLock(i) /\ holder' = [holder EXCEPT ![i] = p] /\ i \in Inums
    BY <1>2 DEF CanLock
  <2> QED
    BY <2>1, <2>2, Holds
<1>18. AllSound(p, t)'
  <2>1. PICK h : h = [g EXCEPT !.i = i]
    OBVIOUS
  <2>2. h.do \in {"iunlockput", "opened"} /\ h.i = i /\ h.ip = 0
    BY <1>1, <1>5, <1>6, <1>7, <2>1 DEF FrameSet
  <2>3. Frames(t) = {Iput(d), h}
    BY <1>1, <1>6, <1>10, <2>1, NoFrame
  <2>4. dinode'[i].type # "free" /\ dinode'[d].type # "free"
    BY <1>1, <1>4
  <2>5. Sound(p, Iput(d))'
    BY <1>1, <2>4, IputSound
  <2>6. Sound(p, h)'
    BY <1>1, <1>2, <2>2, <2>4 DEF Sound
  <2> QED
    BY <2>3, <2>5, <2>6 DEF AllSound
<1>19. \A k \in Inums : icache'[k].ref = icache[k].ref - Refs(todo[p], k) + Refs(t, k)
  <2>1. TAKE k \in Inums
  <2>2. icache[k].ref \in Nat /\ icache'[k].ref = icache[k].ref + Eq(i, k)
    BY <1>14 DEF IInv, TypeOK
  <2>3. Refs(todo[p], k) = Eq(d, k) /\ Refs(t, k) = Eq(i, k) + Eq(d, k) /\ Eq(i, k) \in Nat /\ Eq(d, k) \in Nat
    BY <1>1, <1>8, <1>11
  <2> QED
    BY <2>2, <2>3
<1>20. lost' \subseteq Inums /\ \A h \in Files : Closing(t, h) = Closing(todo[p], h)
  BY <1>1, <1>2, <1>11 DEF IInv, TypeOK
<1>21. Disk(p, t)
  BY <1>2, <1>4, <1>10, <1>12, <1>13, <1>15, <1>16, <1>17, <1>18, <1>19, <1>20 DEF Disk, Directories
<1> QED
  BY <1>21, DiskStep

LEMMA CreateIs ==
  ASSUME IInv, NEW p \in Procs, CreateNew(p), FreeInums # {},
         NEW d, NEW n, NEW arg, NEW r, d = Top(p).i, n = LastName(Top(p)), arg = Top(p).arg, r = Rest(p)
  PROVE  \E i, in, parent, dir, t : Creates(p, d, n, arg, r, i, in, parent, dir, t)
<1>1. PICK i : i = Min(FreeInums)
  OBVIOUS
<1>2. i \in Inums /\ dinode[i].type = "free"
  <2>1. FreeInums \in SUBSET Nat
    BY Constants DEF FreeInums
  <2>2. i \in FreeInums
    BY <1>1, <2>1, LeastOf
  <2> QED
    BY <2>2 DEF FreeInums
<1>3. ~icache[i].valid
  BY <1>2, FreeIs
<1>4. PICK in, parent, dir, t :
        /\ in = [icache[i] EXCEPT !.ref = @ + 1, !.valid = TRUE, !.type = arg, !.nlink = 1]
        /\ parent = [Ilocked(d) EXCEPT !.nlink = IF arg = "dir" THEN @ + 1 ELSE @]
        /\ dir = IF arg = "dir" THEN [NoEntries EXCEPT !["."] = i, ![".."] = d] ELSE NoEntries
        /\ t = <<Iput(d)>> \o Return(r, i)
  OBVIOUS
<1>5. in = [icache[i] EXCEPT !.ref = @ + 1, !.valid = TRUE, !.type = IF icache[i].valid THEN @ ELSE arg, !.nlink = 1]
  BY <1>3, <1>4
<1>6. Creates(p, d, n, arg, r, i, in, parent, dir, t)
  BY <1>1, <1>2, <1>4, <1>5, ZenonT(60) DEF CreateNew, Creates, CanLock, Continue
<1> QED
  BY <1>6

LEMMA CreateNewStep == ASSUME IInv, NEW p \in Procs, CreateNew(p) PROVE IInv'
<1>1. PICK d, n, arg, r : d = Top(p).i /\ n = LastName(Top(p)) /\ arg = Top(p).arg /\ r = Rest(p)
  OBVIOUS
<1>2. Creating(p, d, n, arg, r)
  BY <1>1, CreatingIs
<1>3. CASE FreeInums = {}
  <2>1. Continue(p, NoInodes(d)) /\ UNCHANGED <<disk, inodes, opened, lost>>
    BY <1>1, <1>3 DEF CreateNew, NoInodes
  <2> QED
    BY <1>2, <2>1, CreatePanics
<1>4. CASE FreeInums # {}
  <2>1. PICK i, in, parent, dir, t : Creates(p, d, n, arg, r, i, in, parent, dir, t)
    BY <1>1, <1>4, CreateIs
  <2> QED
    BY <1>2, <2>1, CreatesStep
<1> QED
  BY <1>3, <1>4

-----------------------------------------------------------------------------
(* An inode that goes: it has no names, and what had names in it is lost.   *)

LEMMA FiberLess ==
  ASSUME NEW S, IsFiniteSet(S), NEW g, NEW h, NEW v, \A x \in S : h[x] = v => g[x] = v
  PROVE  /\ Fiber(h, S, v) \in Nat /\ Fiber(g, S, v) \in Nat /\ Fiber(h, S, v) <= Fiber(g, S, v)
         /\ (\E a \in S : g[a] = v /\ h[a] # v) => Fiber(h, S, v) + 1 <= Fiber(g, S, v)
<1>1. PICK A, B : A = {x \in S : g[x] = v} /\ B = {x \in S : h[x] = v}
  OBVIOUS
<1>2. B \subseteq A /\ A \subseteq S
  BY <1>1
<1>3. IsFiniteSet(A) /\ IsFiniteSet(B) /\ Cardinality(B) <= Cardinality(A) /\ (Cardinality(A) = Cardinality(B) => A = B)
  BY <1>2, FS_Subset
<1>4. Cardinality(A) \in Nat /\ Cardinality(B) \in Nat
  BY <1>3, FS_CardinalityType
<1>5. ASSUME NEW a \in S, g[a] = v, h[a] # v PROVE A # B
  BY <1>1, <1>5
<1> QED
  BY <1>1, <1>3, <1>4, <1>5 DEF Fiber

Gone(p, i) ==
  /\ i \in Inums /\ i # 0 /\ i # Root /\ i \notin lost /\ dinode[i].type # "free" /\ Alone(p, i)
  /\ ~Named(i) /\ \A n \in Names : ~IsDir(entries[i][n])
  /\ icache[i].valid

LEMMA GoneIs ==
  ASSUME IInv, NEW p \in Procs, todo[p] # <<>>, Top(p).do = "itrunc", NEW i, i = Top(p).i
  PROVE  Gone(p, i)
<1>1. FrameOK(Top(p)) /\ Sound(p, Top(p)) /\ Top(p).i \in Inums \cup {0}
  BY TopIs
<1>2. i \in Inums /\ i # 0 /\ 0 \notin Inums
  BY <1>1, Constants DEF FrameOK
<1>3. icache[i].valid /\ icache[i].nlink = 0 /\ icache[i].ref = 1
  BY <1>1 DEF Sound
<1>4. dinode[i].type # "free" /\ dinode[i].nlink = 0
  BY <1>2, <1>3 DEF IInv, Coherent
<1>5. ~Named(i) /\ i # Root
  BY <1>2, <1>4, LinkOf
<1>6. PICK N, W, S : N = NamesOf(i) /\ W = Total(OwesTo(i)) /\ S = SubdirsOf(i)
  OBVIOUS
<1>7. N \in Nat /\ W \in Nat
  <2>1. IsFiniteSet(Inums \X Names)
    BY Constants, FS_Product
  <2>2. N \in Nat
    BY <1>6, <2>1, FiberIs DEF NamesOf
  <2> QED
    BY <1>6, <2>2, Stacked, TotalNone DEF IInv, Total
<1>8. i \notin lost
  BY <1>4, <1>6, <1>7 DEF IInv, LinksBalance
<1>9. PICK g, v : g = DirOf(i) /\ v = TRUE
  OBVIOUS
<1>10. S = Fiber(g, Names, v)
  BY <1>6, <1>9 DEF SubdirsOf
<1>11. S \in Nat /\ (S = 0 => \A n \in Names : g[n] # v)
  BY <1>10, Constants, FiberIs
<1>12. S = 0
  BY <1>2, <1>4, <1>5, <1>6, <1>7, <1>8, <1>11 DEF IInv, LinksBalance
<1>13. ASSUME NEW n \in Names PROVE ~IsDir(entries[i][n])
  <2>1. g[n] = IsDir(entries[i][n])
    BY <1>9 DEF DirOf
  <2>2. g[n] # v
    BY <1>11, <1>12
  <2> QED
    BY <1>9, <2>1, <2>2, Zenon
<1> QED
  BY <1>2, <1>3, <1>4, <1>5, <1>8, <1>13 DEF Gone, Alone

\* the disk after it
Freed(i) ==
  /\ dinode' \in [Inums -> [type : Types, nlink : Nat]] /\ dinode'[i].type = "free"
  /\ \A k \in Inums : k # i => dinode'[k] = dinode[k]
  /\ entries' \in Directories /\ entries'[i] = NoEntries /\ \A n \in Names : entries'[i][n] = 0
  /\ entries'[i]["."] = 0
  /\ \A x \in Inums : x # i => entries'[x] = entries[x]
  /\ lost' = (lost \ {i}) \cup ({entries[i][n] : n \in Names} \ {0})

LEMMA FreedLinks ==
  ASSUME IInv, NEW p \in Procs, NEW i, Gone(p, i), Freed(i), NEW t, Goes(p, t), \A k \in Inums : Owed(t, k) = Owed(todo[p], k)
  PROVE  LinksBalance' /\ lost' \subseteq Inums
<1>1. i \in Inums /\ i # 0 /\ 0 \notin Inums /\ i # Root /\ Root \in Inums
  BY Constants DEF Gone
<1>2. entries \in Directories /\ lost \subseteq Inums /\ dinode \in [Inums -> [type : Types, nlink : Nat]]
  BY DEF IInv, TypeOK, Directories
<1>3. LinksBalance
  BY DEF IInv
<1>4. \A x \in Inums, n \in Names : entries[x][n] \in Inums \cup {0} /\ entries[x][n] # i
  BY <1>2 DEF Directories, Gone, Named
<1>5. lost' \subseteq Inums
  BY <1>1, <1>2, <1>4 DEF Freed
<1>6. \A x \in Inums, n \in Names : entries'[x][n] # 0 => x # i /\ entries'[x][n] = entries[x][n]
  BY DEF Freed
<1>7. ASSUME NEW k \in Inums
      PROVE  /\ Total(OwesTo(k))' = Total(OwesTo(k)) /\ Total(OwesTo(k)) \in Nat
             /\ SubdirsOf(k) \in Nat /\ NamesOf(k) \in Nat /\ NamesOf(k)' \in Nat /\ NamesOf(k)' <= NamesOf(k)
             /\ (\E n \in Names : entries[i][n] = k) => NamesOf(k)' + 1 <= NamesOf(k)
             /\ ~(\E n \in Names : entries[i][n] = k) => NamesOf(k)' = NamesOf(k)
  <2>1. Total(OwesTo(k))' = Total(OwesTo(k)) /\ Total(OwesTo(k)) \in Nat
    <3>1. /\ Total(OwesTo(k))' = Total(OwesTo(k)) - Owed(todo[p], k) + Owed(t, k)
          /\ Total(OwesTo(k)) \in Nat /\ Owed(todo[p], k) \in Nat /\ Owed(t, k) \in Nat
      BY OwedStep
    <3> QED
      BY <3>1
  <2>2. SubdirsOf(k) \in Nat
    BY Constants, FiberIs DEF SubdirsOf
  <2>3. PICK g, h, S : g = EntryOf /\ h = EntryOf' /\ S = Inums \X Names
    OBVIOUS
  <2>4. IsFiniteSet(S)
    BY <2>3, Constants, FS_Product
  <2>5. ASSUME NEW x \in S PROVE h[x] = k => g[x] = k
    <3>1. PICK d \in Inums, n \in Names : x = <<d, n>>
      BY <2>3
    <3>2. g[x] = entries[d][n] /\ h[x] = entries'[d][n]
      BY <2>3, <3>1 DEF EntryOf
    <3> QED
      BY <1>1, <1>6, <3>2
  <2>6. /\ Fiber(h, S, k) \in Nat /\ Fiber(g, S, k) \in Nat /\ Fiber(h, S, k) <= Fiber(g, S, k)
        /\ (\E a \in S : g[a] = k /\ h[a] # k) => Fiber(h, S, k) + 1 <= Fiber(g, S, k)
    BY <2>4, <2>5, FiberLess
  <2>7. NamesOf(k) = Fiber(g, S, k) /\ NamesOf(k)' = Fiber(h, S, k)
    BY <2>3 DEF NamesOf
  <2>8. ASSUME NEW n \in Names, entries[i][n] = k PROVE NamesOf(k)' + 1 <= NamesOf(k)
    <3>1. PICK a : a = <<i, n>>
      OBVIOUS
    <3>2. a \in S /\ g[a] = k /\ h[a] = 0
      BY <1>1, <2>3, <2>8, <3>1 DEF EntryOf, Freed
    <3>3. k # 0
      BY <1>1
    <3> QED
      BY <2>6, <2>7, <3>2, <3>3
  <2>9. ASSUME ~\E n \in Names : entries[i][n] = k PROVE NamesOf(k)' = NamesOf(k)
    <3>1. ASSUME NEW x \in S PROVE h[x] = k <=> g[x] = k
      <4>1. PICK d \in Inums, n \in Names : x = <<d, n>>
        BY <2>3
      <4>2. g[x] = entries[d][n] /\ h[x] = entries'[d][n]
        BY <2>3, <4>1 DEF EntryOf
      <4>3. d # i => entries'[d][n] = entries[d][n]
        BY DEF Freed
      <4>4. d = i => entries[d][n] # k /\ entries'[d][n] # k
        BY <1>1, <2>9 DEF Freed
      <4> QED
        BY <4>2, <4>3, <4>4
    <3>2. Fiber(h, S, k) = Fiber(g, S, k)
      BY <3>1, FiberSame
    <3> QED
      BY <2>7, <3>2
  <2> QED
    BY <2>1, <2>2, <2>6, <2>7, <2>8, <2>9
<1>8. ASSUME NEW k \in Inums, k # i PROVE SubdirsOf(k)' = SubdirsOf(k)
  <2>1. ASSUME NEW m \in Names PROVE IsDir(entries[k][m])' <=> IsDir(entries[k][m])
    <3>1. entries'[k][m] = entries[k][m] /\ entries[k][m] \in Inums \cup {0} /\ entries[k][m] # i
      BY <1>4, <1>8 DEF Freed
    <3> QED
      BY <3>1 DEF IsDir, Freed
  <2> QED
    BY <2>1, SubdirsSame
<1>9. ASSUME NEW k \in Inums \ lost', dinode'[k].type # "free"
      PROVE  dinode'[k].nlink = NamesOf(k)' + SubdirsOf(k)' + Total(OwesTo(k))' + (IF k = Root THEN 1 ELSE 0)
  <2>1. k # i /\ k \in Inums /\ k # 0
    BY <1>1, <1>9 DEF Freed
  <2>2. k \notin lost /\ ~\E n \in Names : entries[i][n] = k
    BY <1>9, <2>1 DEF Freed
  <2>3. dinode'[k] = dinode[k]
    BY <2>1 DEF Freed
  <2>4. dinode[k].nlink = NamesOf(k) + SubdirsOf(k) + Total(OwesTo(k)) + (IF k = Root THEN 1 ELSE 0)
    BY <1>3, <1>9, <2>1, <2>2, <2>3 DEF LinksBalance
  <2>5. NamesOf(k)' = NamesOf(k) /\ SubdirsOf(k)' = SubdirsOf(k) /\ Total(OwesTo(k))' = Total(OwesTo(k))
    BY <1>7, <1>8, <2>1, <2>2
  <2> QED
    BY <2>3, <2>4, <2>5
<1>10. ASSUME NEW k \in lost'
       PROVE  dinode'[k].type = "file" /\ dinode'[k].nlink >= NamesOf(k)' + Total(OwesTo(k))' + 1
  <2>1. k \in Inums /\ ((k \in lost /\ k # i) \/ \E n \in Names : entries[i][n] = k)
    BY <1>5, <1>10 DEF Freed
  <2>2. k # i
    BY <1>1, <1>4, <2>1
  <2>3. dinode'[k] = dinode[k] /\ dinode[k].nlink \in Nat /\ dinode[k].type \in Types
    BY <1>2, <2>1, <2>2 DEF Freed
  <2>4. PICK N, M, W, S : N = NamesOf(k) /\ M = NamesOf(k)' /\ W = Total(OwesTo(k)) /\ S = SubdirsOf(k)
    OBVIOUS
  <2>5. /\ N \in Nat /\ M \in Nat /\ W \in Nat /\ S \in Nat /\ M <= N /\ Total(OwesTo(k))' = W
        /\ (\E n \in Names : entries[i][n] = k) => M + 1 <= N
    BY <1>7, <2>1, <2>4
  <2>6. CASE k \in lost
    <3>1. dinode[k].type = "file" /\ dinode[k].nlink >= N + W + 1
      BY <1>3, <2>4, <2>6 DEF LinksBalance
    <3>2. dinode[k].nlink >= M + W + 1
      BY <2>3, <2>5, <3>1
    <3> QED
      BY <2>3, <2>4, <2>5, <3>1, <3>2
  <2>7. CASE k \notin lost
    <3>1. PICK n \in Names : entries[i][n] = k
      BY <2>1, <2>7
    <3>2. dinode[k].type # "free" /\ dinode[k].type # "dir" /\ k # Root
      BY <1>1, <1>3, <2>1, <3>1 DEF LinksBalance, Gone, IsDir
    <3>3. dinode[k].nlink = N + S + W
      BY <1>3, <2>1, <2>3, <2>4, <2>5, <2>7, <3>2 DEF LinksBalance
    <3>4. dinode[k].nlink >= M + W + 1
      BY <2>3, <2>5, <3>1, <3>3
    <3> QED
      BY <2>3, <2>4, <2>5, <3>2, <3>4 DEF Types
  <2> QED
    BY <2>6, <2>7
<1>11. ASSUME NEW x \in Inums, NEW n \in Names, entries'[x][n] # 0
       PROVE  dinode'[entries'[x][n]].type # "free" /\ dinode'[x].type = "dir"
  <2>1. x # i /\ entries'[x][n] = entries[x][n] /\ entries[x][n] \in Inums /\ entries[x][n] # i
    BY <1>4, <1>6, <1>11
  <2> QED
    BY <1>3, <1>11, <2>1 DEF LinksBalance, Freed
<1>12. \A x \in Inums : entries'[x]["."] \in {0, x} /\ (dinode'[x].type = "dir" => entries'[x]["."] = x)
  <2>1. TAKE x \in Inums
  <2>2. CASE x = i
    BY <2>2 DEF Freed
  <2>3. CASE x # i
    BY <1>3, <2>3 DEF LinksBalance, Freed
  <2> QED
    BY <2>2, <2>3
<1>13. dinode'[Root].type = "dir"
  BY <1>1, <1>3 DEF LinksBalance, Freed
<1> QED
  BY <1>5, <1>9, <1>10, <1>11, <1>12, <1>13 DEF LinksBalance

LEMMA FreedIs ==
  ASSUME IInv, NEW i \in Inums, Iupdate(i, [type |-> "free", nlink |-> icache[i].nlink]),
         entries' = [entries EXCEPT ![i] = NoEntries],
         lost' = (lost \ {i}) \cup ({entries[i][n] : n \in Names} \ {0})
  PROVE  Freed(i)
<1>1. /\ entries \in Directories /\ dinode \in [Inums -> [type : Types, nlink : Nat]]
      /\ icache[i].nlink \in Nat
  BY DEF IInv, TypeOK, Directories
<1>2. PICK m : m = [type |-> "free", nlink |-> icache[i].nlink]
  OBVIOUS
<1>3. m \in [type : Types, nlink : Nat] /\ m.type = "free"
  BY <1>1, <1>2 DEF Types
<1>4. dinode' = [dinode EXCEPT ![i] = m]
  BY <1>2 DEF Iupdate
<1>5. dinode' \in [Inums -> [type : Types, nlink : Nat]] /\ dinode'[i] = m /\ \A k \in Inums : k # i => dinode'[k] = dinode[k]
  BY <1>1, <1>3, <1>4
<1>6. PICK e : e = NoEntries
  OBVIOUS
<1>7. e \in [Names \cup Dots -> Inums \cup {0}] /\ (\A n \in Names : e[n] = 0) /\ e["."] = 0
  BY <1>6 DEF NoEntries, Dots
<1>8. entries' = [entries EXCEPT ![i] = e]
  BY <1>6
<1>9. entries' \in Directories /\ entries'[i] = e /\ \A x \in Inums : x # i => entries'[x] = entries[x]
  BY <1>1, <1>7, <1>8 DEF Directories
<1> QED
  BY <1>3, <1>5, <1>6, <1>7, <1>9 DEF Freed

LEMMA IputFreeStep == ASSUME IInv, NEW p \in Procs, IputFree(p) PROVE IInv'
<1>1. PICK f, r, i : f = Top(p) /\ r = Rest(p) /\ i = f.i
  OBVIOUS
<1>2. todo[p] # <<>> /\ f.do = "itrunc"
  BY <1>1 DEF IputFree, At, Top
<1>3. /\ FrameOK(f) /\ f \in FrameSet /\ f.i \in Inums \cup {0} /\ Good(r) /\ r \in Seq(FrameSet)
      /\ Adds(todo[p], f, r) /\ Naturals(r) /\ Naturals(todo[p])
      /\ r # <<>> => Leads(f, r[1])
  BY <1>1, <1>2, TopIs
<1>4. i \in Inums /\ f.ip = 0 /\ 0 \notin Inums
  BY <1>1, <1>2, <1>3, Constants DEF FrameOK
<1>5. Gone(p, i)
  BY <1>1, <1>2, GoneIs
<1>6. PICK g : g = [f EXCEPT !.do = "unref"]
  OBVIOUS
<1>7. g \in FrameSet /\ g.do = "unref" /\ g.i = i /\ g.ip = 0
  BY <1>1, <1>3, <1>4, <1>6 DEF FrameSet, Dos
<1>8. FrameOK(g) /\ Ends(g) /\ ~Waiting(g) /\ (r # <<>> => Leads(g, r[1]))
  BY <1>2, <1>3, <1>4, <1>7 DEF FrameOK, Ends, Waiting, Waiters, Leads
<1>9. PICK t : t = <<g>> \o r
  OBVIOUS
<1>10. Inner(t) /\ t[1] = g /\ t # <<>> /\ Adds(t, g, r) /\ Frames(t) = {g} \cup Frames(r)
  BY <1>3, <1>7, <1>8, <1>9, Pushed, FramesOf DEF Good
<1>11. t \in Seq(FrameSet) /\ Naturals(t) /\ Shape(t)
  BY <1>8, <1>10, NaturalsOf DEF Inner, Shape
<1>12. /\ \A j \in Inums : /\ Refs(t, j) = Refs(todo[p], j) /\ Owed(t, j) = Owed(todo[p], j)
                           /\ Claimed(t, j) + Eq(i, j) = Claimed(todo[p], j)
       /\ \A h \in Files : Closing(t, h) = Closing(todo[p], h)
  <2>1. ASSUME NEW j \in Inums
        PROVE  /\ FRefs(g, j) = FRefs(f, j) /\ FOwed(g, j) = 0 /\ FOwed(f, j) = 0
               /\ FClaimed(f, j) = Eq(i, j) /\ FClaimed(g, j) = 0
               /\ FRefs(f, j) \in Nat /\ Eq(i, j) \in Nat
    BY <1>1, <1>2, <1>4, <1>7 DEF FRefs, FOwed, FClaimed, Eq
  <2>2. ASSUME NEW h \in Files PROVE FClosing(g, h) = 0 /\ FClosing(f, h) = 0
    BY <1>2, <1>7 DEF FClosing
  <2> QED
    BY <1>3, <1>10, <2>1, <2>2 DEF Adds, Naturals
<1>13. /\ Iupdate(i, [type |-> "free", nlink |-> icache[i].nlink])
       /\ entries' = [entries EXCEPT ![i] = NoEntries]
       /\ lost' = (lost \ {i}) \cup ({entries[i][n] : n \in Names} \ {0})
       /\ icache' = [icache EXCEPT ![i].type = "free", ![i].valid = FALSE]
       /\ holder' = [holder EXCEPT ![i] = None]
       /\ file' = file /\ ofile' = ofile /\ cwd' = cwd
       /\ todo' = [todo EXCEPT ![p] = t]
  BY <1>1, <1>6, <1>9 DEF IputFree, opened, Continue
<1>14. Goes(p, t)
  BY <1>11, <1>13 DEF Goes
<1>15. Freed(i)
  BY <1>4, <1>13, FreedIs
<1>16. LinksBalance' /\ lost' \subseteq Inums
  BY <1>5, <1>12, <1>14, <1>15, FreedLinks
<1>17. /\ icache' \in [Inums -> Inodes] /\ ~icache'[i].valid /\ icache'[i].ref = icache[i].ref
       /\ \A k \in Inums : k # i => icache'[k] = icache[k]
  <2>1. Fits(icache) /\ icache \in [Inums -> Inodes]
    BY CacheFits DEF Fits
  <2>2. PICK m : m = [icache[i] EXCEPT !.type = "free", !.valid = FALSE]
    OBVIOUS
  <2>3. m \in Inodes /\ ~m.valid /\ m.ref = icache[i].ref
    BY <1>4, <2>1, <2>2 DEF Inodes, Types
  <2>4. icache' = [icache EXCEPT ![i] = m]
    BY <1>4, <1>13, <2>1, <2>2
  <2> QED
    BY <1>4, <2>1, <2>3, <2>4
<1>18. Fits(icache)'
  <2>1. Fits(icache)
    BY CacheFits
  <2> QED
    BY <1>15, <1>17, <2>1 DEF Fits, Freed
<1>19. HoldsMove(p, t) /\ holder[i] = p /\ holder' \in [Inums -> Procs \cup {None}]
  BY <1>4, <1>11, <1>12, <1>13, Releases
<1>20. Careful(p)
  <2>1. \A k \in Inums : icache'[k] # icache[k] => Touches(p, k)
    BY <1>1, <1>2, <1>17 DEF Touches
  <2> QED
    BY <1>5, <1>15, <1>17, <1>19, <2>1 DEF Careful, Freed, Gone
<1>21. AllSound(p, t)'
  <2>1. AllSound(p, r)'
    BY <1>1, <1>2, <1>13, <1>20, RestStays
  <2>2. Sound(p, g)'
    BY <1>7 DEF Sound
  <2> QED
    BY <1>10, <2>1, <2>2 DEF AllSound
<1>22. \A k \in Inums : icache'[k].ref = icache[k].ref - Refs(todo[p], k) + Refs(t, k)
  <2>1. TAKE k \in Inums
  <2>2. icache[k].ref \in Nat /\ Refs(todo[p], k) \in Nat
    BY <1>3 DEF IInv, TypeOK, Naturals
  <2>3. icache'[k].ref = icache[k].ref /\ Refs(t, k) = Refs(todo[p], k)
    BY <1>12, <1>17
  <2> QED
    BY <2>2, <2>3
<1>23. dinode' \in [Inums -> [type : Types, nlink : Nat]] /\ entries' \in [Inums -> [Names \cup Dots -> Inums \cup {0}]]
  BY <1>15 DEF Freed, Directories
<1>24. Disk(p, t)
  BY <1>11, <1>12, <1>13, <1>14, <1>16, <1>18, <1>19, <1>20, <1>21, <1>22, <1>23 DEF Disk
<1> QED
  BY <1>24, DiskStep

-----------------------------------------------------------------------------
(* Steps on the open files and the current directories.                     *)

Fd(f) == Fiber(FdOf, Procs \X Fds, f)

FilesMove(p, t) == \A f \in Files :
  file'[f].ref = file[f].ref - Fd(f) + Fd(f)' - Closing(todo[p], f) + Closing(t, f)

LEMMA FdNat == ASSUME NEW f PROVE Fd(f) \in Nat /\ Fd(f)' \in Nat
<1>1. IsFiniteSet(Procs \X Fds)
  BY Constants, FS_Product
<1>2. PICK S : S = Procs \X Fds
  OBVIOUS
<1>3. Fiber(FdOf, S, f) \in Nat /\ Fiber(FdOf', S, f) \in Nat
  BY <1>1, <1>2, FiberIs
<1> QED
  BY <1>2, <1>3 DEF Fd

LEMMA FilesStep ==
  ASSUME IInv, NEW p \in Procs, NEW t, Goes(p, t), FilesMove(p, t)
  PROVE  \A f \in Files : file'[f].ref = Fd(f)' + Total(Closes(f))'
<1>1. TAKE f \in Files
<1>2. PICK A : A = Closes(f)
  OBVIOUS
<1>3. /\ Total(A)' = Total(A) - Count(todo[p], A) + Count(t, A)
      /\ Total(A) \in Nat /\ Count(todo[p], A) \in Nat /\ Count(t, A) \in Nat
  BY TotalStep
<1>4. Fd(f) \in Nat /\ Fd(f)' \in Nat
  BY FdNat
<1>5. file[f].ref = Fd(f) + Total(A)
  BY <1>2 DEF IInv, FilesBalance, Fd
<1>6. Closing(todo[p], f) = Count(todo[p], A) /\ Closing(t, f) = Count(t, A)
  BY <1>2 DEF Closing
<1>7. file'[f].ref = Fd(f)' + Total(A)'
  BY <1>3, <1>4, <1>5, <1>6 DEF FilesMove
<1>8. Closes(f)' = A
  BY <1>2 DEF Closes
<1> QED
  BY <1>2, <1>7, <1>8

WithFd(o, p, d, v) == [o EXCEPT ![p][d] = v]

LEMMA FdChange ==
  ASSUME IInv, NEW p \in Procs, NEW d \in Fds, NEW v \in Files \cup {None}, ofile' = WithFd(ofile, p, d, v)
  PROVE  /\ ofile' \in [Procs -> [Fds -> Files \cup {None}]] /\ ofile'[p][d] = v
         /\ \A q \in Procs, e \in Fds : q # p \/ e # d => ofile'[q][e] = ofile[q][e]
         /\ \A f \in Files : Fd(f)' = Fd(f) - Eq(ofile[p][d], f) + Eq(v, f)
<1>1. ofile \in [Procs -> [Fds -> Files \cup {None}]] /\ ofile' = [ofile EXCEPT ![p][d] = v]
  BY DEF IInv, TypeOK, WithFd
<1>2. /\ ofile' \in [Procs -> [Fds -> Files \cup {None}]] /\ ofile'[p][d] = v
      /\ \A q \in Procs, e \in Fds : q # p \/ e # d => ofile'[q][e] = ofile[q][e]
  BY <1>1
<1>3. ASSUME NEW f \in Files PROVE Fd(f)' = Fd(f) - Eq(ofile[p][d], f) + Eq(v, f)
  <2>1. PICK g, h, S, a : g = FdOf /\ h = FdOf' /\ S = Procs \X Fds /\ a = <<p, d>>
    OBVIOUS
  <2>2. a \in S /\ g[a] = ofile[p][d] /\ h[a] = v
    BY <1>2, <2>1 DEF FdOf
  <2>3. AllBut(S, a, g, h)
    <3>1. ASSUME NEW x \in S \ {a} PROVE h[x] = g[x]
      <4>1. PICK q \in Procs, e \in Fds : x = <<q, e>>
        BY <2>1
      <4>2. q # p \/ e # d
        BY <2>1, <3>1, <4>1
      <4>3. g[x] = ofile[q][e] /\ h[x] = ofile'[q][e]
        BY <2>1, <4>1 DEF FdOf
      <4> QED
        BY <1>2, <4>2, <4>3
    <3>2. IsFiniteSet(S)
      BY <2>1, Constants, FS_Product
    <3> QED
      BY <2>2, <3>1, <3>2 DEF AllBut
  <2>4. Fiber(h, S, f) = Fiber(g, S, f) - Eq(g[a], f) + Eq(h[a], f)
    BY <2>3, FiberChange
  <2> QED
    BY <2>1, <2>2, <2>4 DEF Fd
<1> QED
  BY <1>2, <1>3

LEMMA CwdChange ==
  ASSUME IInv, NEW p \in Procs, NEW i \in Inums \cup {0}, cwd' = [cwd EXCEPT ![p] = i], NEW k
  PROVE  /\ Fiber(cwd', Procs, k) = Fiber(cwd, Procs, k) - Eq(cwd[p], k) + Eq(i, k)
         /\ Fiber(cwd, Procs, k) \in Nat /\ Fiber(cwd', Procs, k) \in Nat
<1>1. cwd \in [Procs -> Inums \cup {0}]
  BY DEF IInv, TypeOK
<1>2. PICK g, h : g = cwd /\ h = cwd'
  OBVIOUS
<1>3. h[p] = i /\ \A x \in Procs \ {p} : h[x] = g[x]
  BY <1>1, <1>2
<1>4. AllBut(Procs, p, g, h)
  BY <1>3, Constants DEF AllBut
<1>5. Fiber(g, Procs, k) \in Nat /\ Fiber(h, Procs, k) \in Nat /\ Fiber(h, Procs, k) = Fiber(g, Procs, k) - Eq(g[p], k) + Eq(h[p], k)
  BY <1>4, FiberChange
<1> QED
  BY <1>2, <1>3, <1>5

LEMMA IpChange ==
  ASSUME NEW f \in Files, \A g \in Files \ {f} : file'[g].ip = file[g].ip, NEW k
  PROVE  /\ Fiber(IpOf', Files, k) = Fiber(IpOf, Files, k) - Eq(file[f].ip, k) + Eq(file'[f].ip, k)
         /\ Fiber(IpOf, Files, k) \in Nat /\ Fiber(IpOf', Files, k) \in Nat
<1>1. PICK g, h : g = IpOf /\ h = IpOf'
  OBVIOUS
<1>2. g[f] = file[f].ip /\ h[f] = file'[f].ip /\ \A x \in Files \ {f} : h[x] = g[x]
  BY <1>1 DEF IpOf
<1>3. AllBut(Files, f, g, h)
  BY <1>2, Constants DEF AllBut
<1>4. Fiber(g, Files, k) \in Nat /\ Fiber(h, Files, k) \in Nat /\ Fiber(h, Files, k) = Fiber(g, Files, k) - Eq(g[f], k) + Eq(h[f], k)
  BY <1>3, FiberChange
<1> QED
  BY <1>1, <1>2, <1>4

Handles(p, t) ==
  /\ dinode' = dinode /\ entries' = entries /\ lost' = lost
  /\ file' \in [Files -> [ref : Nat, ip : Inums \cup {0}]]
  /\ ofile' \in [Procs -> [Fds -> Files \cup {None}]]
  /\ cwd' \in [Procs -> Inums \cup {0}]
  /\ holder' \in [Inums -> Procs \cup {None}] /\ HoldsMove(p, t)
  /\ Goes(p, t) /\ Shape(t) /\ AllSound(p, t)' /\ Careful(p) /\ Fits(icache') /\ RefsMove(p, t) /\ FilesMove(p, t)
  /\ \A i \in Inums : Owed(t, i) = Owed(todo[p], i)
  /\ \A f \in Files : file'[f].ref = 0 <=> file'[f].ip = 0
  /\ \A f \in Files : file'[f].ip # 0 => dinode[file'[f].ip].type # "free"
  /\ \A q \in Procs : cwd'[q] = 0 => \A d \in Fds : ofile'[q][d] = None
  /\ \A q \in Procs : cwd'[q] # 0 => dinode[cwd'[q]].type = "dir"
  /\ \A q \in Procs \ {p} : cwd'[q] = 0 => cwd[q] = 0

LEMMA HandlesStep ==
  ASSUME IInv, NEW p \in Procs, NEW t, Handles(p, t)
  PROVE  IInv'
<1>1. TypeOK'
  BY DEF Handles, IInv, TypeOK, Inodes, Fits
<1>2. Shapes'
  BY ShapesStep DEF Handles
<1>3. SoundFrames'
  BY FramesStep DEF Handles
<1>4. Coherent'
  BY DEF Handles, Coherent, Fits
<1>5. HeldOnce'
  BY HoldsStep DEF Handles
<1>6. RefsBalance'
  BY RefsStep DEF Handles
<1>7. FilesBalance'
  <2>1. \A f \in Files : file'[f].ref = Fd(f)' + Total(Closes(f))'
    BY FilesStep DEF Handles
  <2> QED
    BY <2>1 DEF Handles, FilesBalance, Fd
<1>8. LinksBalance'
  <2>1. LinksMove(p, t)
    BY DEF Handles, LinksMove
  <2> QED
    BY <2>1, LinksStay DEF Handles
<1>9. InUse'
  BY DEF Handles, InUse
<1> QED
  BY <1>1, <1>2, <1>3, <1>4, <1>5, <1>6, <1>7, <1>8, <1>9 DEF IInv

\* Who has a descriptor of f or is to close it has a reference to f.
LEMMA FileOf ==
  ASSUME IInv, NEW f \in Files, (\E q \in Procs, d \in Fds : ofile[q][d] = f) \/ (\E q \in Procs : Closing(todo[q], f) # 0)
  PROVE  /\ file[f].ref \in Nat /\ file[f].ref >= 1 /\ file[f].ip \in Inums /\ dinode[file[f].ip].type # "free"
<1>1. file[f].ref \in Nat /\ file[f].ip \in Inums \cup {0}
  BY DEF IInv, TypeOK
<1>2. PICK A : A = Closes(f)
  OBVIOUS
<1>3. file[f].ref = Fd(f) + Total(A) /\ Fd(f) \in Nat /\ Fd(f)' \in Nat
  BY <1>2, FdNat DEF IInv, FilesBalance, Fd
<1>4. todo \in Stacks
  BY Stacked DEF IInv
<1>5. PICK T : T = todo
  OBVIOUS
<1>6. Total(A) \in Nat
  BY <1>4, TotalNone DEF Total
<1>7. ASSUME NEW q \in Procs, NEW d \in Fds, ofile[q][d] = f PROVE Fd(f) # 0
  <2>1. PICK g, S, a : g = FdOf /\ S = Procs \X Fds /\ a = <<q, d>>
    OBVIOUS
  <2>2. a \in S /\ g[a] = f
    BY <1>7, <2>1 DEF FdOf
  <2>3. IsFiniteSet(S)
    BY <2>1, Constants, FS_Product
  <2>4. Fiber(g, S, f) # 0
    BY <2>2, <2>3, FiberIs
  <2> QED
    BY <2>1, <2>4 DEF Fd
<1>8. ASSUME NEW q \in Procs, Closing(todo[q], f) # 0 PROVE Total(A) # 0
  <2>1. Count(T[q], A) # 0
    BY <1>2, <1>5, <1>8 DEF Closing
  <2>2. /\ TotalIn(T, A) = Cardinality(DueOthers(T, q, A)) + Count(T[q], A)
        /\ Cardinality(DueOthers(T, q, A)) \in Nat /\ Count(T[q], A) \in Nat
    BY <1>4, <1>5, DueOf
  <2> QED
    BY <1>5, <2>1, <2>2 DEF Total
<1>9. file[f].ref >= 1
  BY <1>1, <1>3, <1>6, <1>7, <1>8
<1>10. file[f].ip # 0
  BY <1>1, <1>9 DEF IInv, FilesBalance
<1> QED
  BY <1>1, <1>9, <1>10 DEF IInv, InUse

LEMMA OpenedIs ==
  ASSUME IInv, NEW p \in Procs, todo[p] # <<>>, Top(p).do = "opened", NEW i, i = Top(p).i
  PROVE  /\ i \in Inums /\ dinode[i].type # "free" /\ cwd[p] # 0
         /\ \A j \in Inums : /\ Refs(todo[p], j) = Eq(i, j) /\ Owed(todo[p], j) = 0
                             /\ Claimed(todo[p], j) = Eq(i, j) /\ Eq(i, j) \in Nat /\ Eq(0, j) = 0
         /\ \A h \in Files : Closing(todo[p], h) = 0
<1>1. PICK f, r : f = Top(p) /\ r = Rest(p)
  OBVIOUS
<1>2. /\ FrameOK(f) /\ f.i \in Inums \cup {0} /\ Weightless(r) /\ Adds(todo[p], f, r) /\ Sound(p, f) /\ ~Waiting(f)
  BY <1>1, TopIs
<1>3. i \in Inums /\ f.ip = 0 /\ i # 0 /\ 0 \notin Inums
  BY <1>1, <1>2, Constants DEF FrameOK, Waiting
<1>4. dinode[i].type # "free" /\ cwd[p] # 0
  BY <1>1, <1>2, <1>3 DEF Sound
<1>5. ASSUME NEW j \in Inums PROVE FRefs(f, j) = Eq(i, j) /\ FOwed(f, j) = 0 /\ FClaimed(f, j) = Eq(i, j) /\ Eq(i, j) \in Nat /\ Eq(0, j) = 0
  <2>1. Eq(f.i, j) = Eq(i, j) /\ Eq(f.ip, j) = 0 /\ Eq(0, j) = 0 /\ Eq(i, j) \in Nat
    BY <1>1, <1>3 DEF Eq
  <2> QED
    BY <1>1, <2>1 DEF FRefs, FOwed, FClaimed
<1>6. \A h \in Files : FClosing(f, h) = 0
  BY <1>1 DEF FClosing
<1>7. /\ \A j \in Inums : Refs(todo[p], j) = Eq(i, j) /\ Owed(todo[p], j) = 0 /\ Claimed(todo[p], j) = Eq(i, j)
      /\ \A h \in Files : Closing(todo[p], h) = 0
  BY <1>2, <1>5, <1>6 DEF Adds, Weightless
<1> QED
  BY <1>3, <1>4, <1>5, <1>7

Releasing(p, i, t) == /\ i \in Inums /\ Naturals(t) /\ holder' = [holder EXCEPT ![i] = None]
                       /\ \A j \in Inums : Claimed(t, j) + Eq(i, j) = Claimed(todo[p], j)

LEMMA ReleasingIs ==
  ASSUME IInv, NEW p \in Procs, NEW i, NEW t, Releasing(p, i, t)
  PROVE  HoldsMove(p, t) /\ holder' \in [Inums -> Procs \cup {None}]
<1>1. i \in Inums /\ Naturals(t) /\ holder' = [holder EXCEPT ![i] = None]
  BY DEF Releasing
<1>2. \A j \in Inums : Claimed(t, j) + Eq(i, j) = Claimed(todo[p], j)
  BY DEF Releasing
<1> QED
  BY <1>1, <1>2, Releases

LEMMA FreeOnes ==
  ASSUME NEW p \in Procs
  PROVE  /\ FreeFds(p) # {} => Min(FreeFds(p)) \in Fds /\ ofile[p][Min(FreeFds(p))] = None
         /\ FreeFiles # {} => Min(FreeFiles) \in Files /\ file[Min(FreeFiles)].ref = 0
<1>1. FreeFds(p) \in SUBSET Nat /\ FreeFiles \in SUBSET Nat
  BY ConstantsAssumption DEF FreeFds, FreeFiles
<1>2. FreeFds(p) # {} => Min(FreeFds(p)) \in FreeFds(p)
  BY <1>1, LeastOf
<1>3. FreeFiles # {} => Min(FreeFiles) \in FreeFiles
  BY <1>1, LeastOf
<1> QED
  BY <1>2, <1>3 DEF FreeFds, FreeFiles

\* A file of it that gets no descriptor.
OpensNone(p, i) == /\ holder' = [holder EXCEPT ![i] = None] /\ Continue(p, <<Iput(i)>>)
                   /\ UNCHANGED <<disk, icache, opened, lost>>

LEMMA OpenNone ==
  ASSUME IInv, NEW p \in Procs, todo[p] # <<>>, Top(p).do = "opened", NEW i, i = Top(p).i, OpensNone(p, i)
  PROVE  IInv'
<1>1. /\ i \in Inums /\ dinode[i].type # "free" /\ cwd[p] # 0
      /\ \A j \in Inums : /\ Refs(todo[p], j) = Eq(i, j) /\ Owed(todo[p], j) = 0
                          /\ Claimed(todo[p], j) = Eq(i, j) /\ Eq(i, j) \in Nat /\ Eq(0, j) = 0
      /\ \A h \in Files : Closing(todo[p], h) = 0
  BY OpenedIs
<1>2. /\ dinode' = dinode /\ entries' = entries /\ lost' = lost /\ file' = file /\ ofile' = ofile /\ cwd' = cwd /\ icache' = icache
  BY DEF disk, opened, OpensNone
<1>3. PICK t : t = <<Iput(i)>>
  OBVIOUS
<1>4. /\ Good(t) /\ Shape(t) /\ Frames(t) = {Iput(i)}
      /\ \A j \in Inums : Refs(t, j) = Eq(i, j) /\ Owed(t, j) = 0 /\ Claimed(t, j) = 0
      /\ \A g \in Files : Closing(t, g) = 0
  BY <1>1, <1>3, OneIput
<1>5. Goes(p, t) /\ Naturals(t)
  BY <1>3, <1>4, NaturalsOf DEF Goes, Good, Inner, Continue, OpensNone
<1>6. AllSound(p, t)'
  BY <1>1, <1>2, <1>4, IputSound DEF AllSound
<1>7. HoldsMove(p, t) /\ holder' \in [Inums -> Procs \cup {None}]
  <2>1. \A j \in Inums : Claimed(t, j) + Eq(i, j) = Claimed(todo[p], j)
    BY <1>1, <1>4
  <2>2. Releasing(p, i, t)
    BY <1>1, <1>5, <2>1 DEF OpensNone, Releasing
  <2> QED
    BY <2>2, ReleasingIs
<1>8. Fits(icache)
  BY CacheFits
<1>9. \A k \in Inums : icache'[k].ref = icache[k].ref - Refs(todo[p], k) + Refs(t, k)
  BY <1>1, <1>2, <1>4, <1>8 DEF Fits, Inodes
<1>10. Memory(p, t)
  BY <1>1, <1>2, <1>4, <1>5, <1>6, <1>7, <1>8, <1>9 DEF Memory, Fits
<1> QED
  BY <1>10, MemoryStep

\* A file of it with the descriptor d.
Opens(p, i, d, f) == /\ holder' = [holder EXCEPT ![i] = None] /\ file' = [file EXCEPT ![f] = [ref |-> 1, ip |-> i]]
                     /\ ofile' = WithFd(ofile, p, d, f) /\ Continue(p, <<>>) /\ UNCHANGED <<disk, icache, cwd, lost>>

LEMMA OpenSome ==
  ASSUME IInv, NEW p \in Procs, todo[p] # <<>>, Top(p).do = "opened", NEW i, i = Top(p).i,
         NEW d \in Fds, ofile[p][d] = None, NEW f \in Files, file[f].ref = 0, Opens(p, i, d, f)
  PROVE  IInv'
<1>1. /\ i \in Inums /\ dinode[i].type # "free" /\ cwd[p] # 0
      /\ \A j \in Inums : /\ Refs(todo[p], j) = Eq(i, j) /\ Owed(todo[p], j) = 0
                          /\ Claimed(todo[p], j) = Eq(i, j) /\ Eq(i, j) \in Nat /\ Eq(0, j) = 0
      /\ \A h \in Files : Closing(todo[p], h) = 0
  BY OpenedIs
<1>2. /\ dinode' = dinode /\ entries' = entries /\ lost' = lost /\ cwd' = cwd /\ icache' = icache
  BY DEF disk, Opens
<1>3. PICK t : t = <<>>
  OBVIOUS
<1>4. Weightless(t) /\ Naturals(t) /\ Shape(t) /\ Frames(t) = {} /\ Inner(t)
  BY <1>3, NoFrames, NoFrame, InnerEmpty
<1>5. Goes(p, t)
  BY <1>3, <1>4 DEF Goes, Inner, Continue, Opens
<1>6. HoldsMove(p, t) /\ holder' \in [Inums -> Procs \cup {None}]
  <2>1. \A j \in Inums : Claimed(t, j) + Eq(i, j) = Claimed(todo[p], j)
    BY <1>1, <1>4 DEF Weightless
  <2>2. Releasing(p, i, t)
    BY <1>1, <1>4, <2>1 DEF Opens, Releasing
  <2> QED
    BY <2>2, ReleasingIs
<1>7. file \in [Files -> [ref : Nat, ip : Inums \cup {0}]] /\ file[f].ip = 0 /\ 0 \notin Inums
  BY Constants DEF IInv, TypeOK, FilesBalance
<1>8. PICK m : m = [ref |-> 1, ip |-> i]
  OBVIOUS
<1>9. m \in [ref : Nat, ip : Inums \cup {0}] /\ m.ref = 1 /\ m.ip = i
  BY <1>1, <1>8
<1>10. file' \in [Files -> [ref : Nat, ip : Inums \cup {0}]] /\ file'[f] = m /\ \A g \in Files \ {f} : file'[g] = file[g]
  BY <1>7, <1>8, <1>9 DEF Opens
<1>11. /\ ofile' \in [Procs -> [Fds -> Files \cup {None}]]
       /\ \A q \in Procs, e \in Fds : q # p \/ e # d => ofile'[q][e] = ofile[q][e]
       /\ \A g \in Files : Fd(g)' = Fd(g) - Eq(ofile[p][d], g) + Eq(f, g)
  BY FdChange DEF Opens
<1>12. FilesMove(p, t)
  <2>1. ASSUME NEW g \in Files PROVE file'[g].ref = file[g].ref - Fd(g) + Fd(g)' - Closing(todo[p], g) + Closing(t, g)
    <3>1. Fd(g) \in Nat /\ file[g].ref \in Nat /\ Closing(todo[p], g) = 0 /\ Closing(t, g) = 0
      BY <1>1, <1>4, <1>7, FdNat DEF Weightless
    <3>2. Eq(ofile[p][d], g) = 0
      BY Constants DEF Eq
    <3>3. file'[g].ref = file[g].ref + Eq(f, g) /\ Eq(f, g) \in Nat
      BY <1>7, <1>9, <1>10 DEF Eq
    <3>4. Fd(g)' = Fd(g) + Eq(f, g)
      BY <1>11, <3>1, <3>2, <3>3
    <3> QED
      BY <3>1, <3>3, <3>4
  <2> QED
    BY <2>1 DEF FilesMove
<1>13. RefsMove(p, t)
  <2>1. ASSUME NEW k \in Inums PROVE icache'[k].ref = icache[k].ref - Kept(k) + Kept(k)' - Refs(todo[p], k) + Refs(t, k)
    <3>1. icache'[k].ref = icache[k].ref /\ icache[k].ref \in Nat
      BY <1>2 DEF IInv, TypeOK
    <3>2. Refs(todo[p], k) = Eq(i, k) /\ Refs(t, k) = 0 /\ Eq(i, k) \in Nat /\ Eq(0, k) = 0
      BY <1>1, <1>4 DEF Weightless
    <3>3. PICK u, v, w : u = Fiber(IpOf, Files, k) /\ v = Fiber(IpOf', Files, k) /\ w = Fiber(cwd, Procs, k)
      OBVIOUS
    <3>4. v = u - Eq(file[f].ip, k) + Eq(file'[f].ip, k) /\ u \in Nat /\ v \in Nat
      BY <1>10, <3>3, IpChange
    <3>5. Kept(k) = w + u /\ Kept(k)' = w + v /\ w \in Nat
      BY <1>2, <3>3, Constants, FiberIs DEF Kept
    <3> QED
      BY <1>7, <1>9, <1>10, <3>1, <3>2, <3>4, <3>5, SMTT(30)
  <2> QED
    BY <2>1 DEF RefsMove
<1>14. Fits(icache') /\ Careful(p) /\ AllSound(p, t)'
  <2>1. Fits(icache)
    BY CacheFits
  <2> QED
    BY <1>2, <1>4, <2>1 DEF Careful, AllSound
<1>15. /\ \A g \in Files : file'[g].ref = 0 <=> file'[g].ip = 0
       /\ \A g \in Files : file'[g].ip # 0 => dinode[file'[g].ip].type # "free"
  <2>1. ASSUME NEW g \in Files
        PROVE  (file'[g].ref = 0 <=> file'[g].ip = 0) /\ (file'[g].ip # 0 => dinode[file'[g].ip].type # "free")
    <3>1. CASE g = f
      BY <1>1, <1>7, <1>9, <1>10, <3>1
    <3>2. CASE g # f
      BY <1>10, <3>2 DEF IInv, FilesBalance, InUse
    <3> QED
      BY <3>1, <3>2
  <2> QED
    BY <2>1
<1>16. /\ cwd' \in [Procs -> Inums \cup {0}]
       /\ \A q \in Procs : cwd'[q] = 0 => \A e \in Fds : ofile'[q][e] = None
       /\ \A q \in Procs : cwd'[q] # 0 => dinode[cwd'[q]].type = "dir"
       /\ \A q \in Procs \ {p} : cwd'[q] = 0 => cwd[q] = 0
  <2>1. cwd' \in [Procs -> Inums \cup {0}]
    BY <1>2 DEF IInv, TypeOK
  <2>2. ASSUME NEW q \in Procs, cwd'[q] = 0, NEW e \in Fds PROVE ofile'[q][e] = None
    <3>1. q # p /\ ofile[q][e] = None
      BY <1>1, <1>2, <2>2 DEF IInv, FilesBalance
    <3> QED
      BY <1>11, <3>1
  <2> QED
    BY <1>2, <2>1, <2>2 DEF IInv, InUse
<1>17. \A j \in Inums : Owed(t, j) = Owed(todo[p], j)
  BY <1>1, <1>4 DEF Weightless
<1>18. Handles(p, t)
  BY <1>2, <1>4, <1>5, <1>6, <1>10, <1>11, <1>12, <1>13, <1>14, <1>15, <1>16, <1>17 DEF Handles
<1> QED
  BY <1>18, HandlesStep

LEMMA OpenFileStep == ASSUME IInv, NEW p \in Procs, OpenFile(p) PROVE IInv'
<1>1. todo[p] # <<>> /\ Top(p).do = "opened"
  BY DEF OpenFile, At, Top
<1>2. CASE FreeFds(p) # {} /\ FreeFiles # {}
  BY <1>1, <1>2, FreeOnes, OpenSome DEF OpenFile, Opens, WithFd
<1>3. CASE FreeFds(p) = {} \/ FreeFiles = {}
  BY <1>1, <1>3, OpenNone DEF OpenFile, OpensNone, opened
<1> QED
  BY <1>2, <1>3

-----------------------------------------------------------------------------
(* chdir(), close(), dup(), fork() and exit().                              *)

Changes(p, i) == /\ icache' = Cache(i, Ilocked(i)) /\ cwd' = [cwd EXCEPT ![p] = i] /\ Continue(p, <<Iput(cwd[p])>>)
                 /\ UNCHANGED <<disk, holder, file, ofile, lost>>

LEMMA ChangesStep ==
  ASSUME IInv, NEW p \in Procs, todo[p] # <<>>, Top(p).do = "chdir", NEW i, i = Top(p).i, Changes(p, i), Ilocked(i).type = "dir"
  PROVE  IInv'
<1>1. /\ i \in Inums /\ dinode[i].type # "free" /\ cwd[p] # 0
      /\ \A j \in Inums : Refs(todo[p], j) = Eq(i, j) /\ Owed(todo[p], j) = 0 /\ Claimed(todo[p], j) = 0 /\ Eq(i, j) \in Nat /\ Eq(0, j) = 0
      /\ \A h \in Files : Closing(todo[p], h) = 0
  BY AskingIs DEF Asking
<1>2. /\ dinode' = dinode /\ entries' = entries /\ lost' = lost /\ file' = file /\ ofile' = ofile /\ holder' = holder
  BY DEF disk, Changes
<1>3. PICK z, c : z = 0 /\ c = cwd[p]
  OBVIOUS
<1>4. dinode[i].type = "dir"
  <2>1. Ilocked(i).type = dinode[i].type
    BY <1>1, LockedFits
  <2> QED
    BY <2>1
<1>5. /\ Fits(icache') /\ (\A k \in Inums : icache'[k].ref = icache[k].ref + Eq(z, k)) /\ Careful(p)
  <2>1. icache' = LockedCache(i, z)
    BY <1>3 DEF LockedCache, Changes
  <2>2. i \in {Top(p).i, Top(p).ip} /\ z \in Inums \cup {0} /\ (z # 0 => Touches(p, z))
    BY <1>3
  <2> QED
    BY <1>1, <1>2, <2>1, <2>2, Locked
<1>6. c \in Inums /\ dinode[c].type = "dir" /\ c # 0 /\ cwd \in [Procs -> Inums \cup {0}]
  BY <1>1, <1>3 DEF IInv, TypeOK, InUse
<1>7. PICK t : t = <<Iput(c)>>
  OBVIOUS
<1>8. /\ Good(t) /\ Shape(t) /\ Frames(t) = {Iput(c)}
      /\ \A j \in Inums : Refs(t, j) = Eq(c, j) /\ Owed(t, j) = 0 /\ Claimed(t, j) = 0
      /\ \A g \in Files : Closing(t, g) = 0
  BY <1>6, <1>7, OneIput
<1>9. Goes(p, t)
  BY <1>3, <1>7, <1>8 DEF Goes, Good, Inner, Continue, Changes
<1>10. AllSound(p, t)'
  <2>1. dinode'[c].type # "free"
    BY <1>2, <1>6
  <2> QED
    BY <1>6, <1>8, <2>1, IputSound DEF AllSound
<1>11. HoldsMove(p, t) /\ holder' \in [Inums -> Procs \cup {None}]
  BY <1>1, <1>2, <1>8, HoldsNothing
<1>12. cwd' \in [Procs -> Inums \cup {0}] /\ cwd'[p] = i /\ \A q \in Procs \ {p} : cwd'[q] = cwd[q]
  BY <1>1, <1>6 DEF Changes
<1>13. RefsMove(p, t)
  <2>1. ASSUME NEW k \in Inums PROVE icache'[k].ref = icache[k].ref - Kept(k) + Kept(k)' - Refs(todo[p], k) + Refs(t, k)
    <3>1. icache'[k].ref = icache[k].ref /\ icache[k].ref \in Nat
      BY <1>1, <1>3, <1>5 DEF IInv, TypeOK
    <3>2. Refs(todo[p], k) = Eq(i, k) /\ Refs(t, k) = Eq(c, k) /\ Eq(i, k) \in Nat /\ Eq(c, k) \in Nat
      BY <1>1, <1>8 DEF Eq
    <3>3. PICK u, v, w : u = Fiber(cwd, Procs, k) /\ v = Fiber(cwd', Procs, k) /\ w = Fiber(IpOf, Files, k)
      OBVIOUS
    <3>4. v = u - Eq(c, k) + Eq(i, k) /\ u \in Nat /\ v \in Nat
      BY <1>1, <1>3, <3>3, CwdChange, ZenonT(60) DEF Changes
    <3>5. Kept(k) = u + w /\ Kept(k)' = v + w /\ w \in Nat
      BY <1>2, <3>3, Constants, FiberIs DEF Kept, IpOf
    <3> QED
      BY <3>1, <3>2, <3>4, <3>5
  <2> QED
    BY <2>1 DEF RefsMove
<1>14. FilesMove(p, t)
  <2>1. ASSUME NEW g \in Files PROVE file'[g].ref = file[g].ref - Fd(g) + Fd(g)' - Closing(todo[p], g) + Closing(t, g)
    <3>1. Fd(g) \in Nat /\ Fd(g)' = Fd(g) /\ file[g].ref \in Nat
      BY <1>2, FdNat DEF Fd, FdOf, IInv, TypeOK
    <3> QED
      BY <1>1, <1>2, <1>8, <3>1
  <2> QED
    BY <2>1 DEF FilesMove
<1>15. /\ \A g \in Files : file'[g].ref = 0 <=> file'[g].ip = 0
       /\ \A g \in Files : file'[g].ip # 0 => dinode[file'[g].ip].type # "free"
  BY <1>2 DEF IInv, FilesBalance, InUse
<1>16. /\ \A q \in Procs : cwd'[q] = 0 => \A e \in Fds : ofile'[q][e] = None
       /\ \A q \in Procs : cwd'[q] # 0 => dinode[cwd'[q]].type = "dir"
       /\ \A q \in Procs \ {p} : cwd'[q] = 0 => cwd[q] = 0
  <2>1. i # 0
    BY <1>1, Constants
  <2>2. ASSUME NEW q \in Procs, cwd'[q] = 0, NEW e \in Fds PROVE ofile'[q][e] = None
    <3>1. cwd[q] = 0
      BY <1>12, <2>1, <2>2
    <3> QED
      BY <1>2, <3>1 DEF IInv, FilesBalance
  <2>3. ASSUME NEW q \in Procs, cwd'[q] # 0 PROVE dinode[cwd'[q]].type = "dir"
    BY <1>4, <1>12, <2>3 DEF IInv, InUse
  <2> QED
    BY <1>12, <2>2, <2>3
<1>17. /\ file' \in [Files -> [ref : Nat, ip : Inums \cup {0}]]
       /\ ofile' \in [Procs -> [Fds -> Files \cup {None}]]
  BY <1>2 DEF IInv, TypeOK
<1>18. \A j \in Inums : Owed(t, j) = Owed(todo[p], j)
  BY <1>1, <1>8
<1>19. Handles(p, t)
  BY <1>2, <1>5, <1>8, <1>9, <1>10, <1>11, <1>12, <1>13, <1>14, <1>15, <1>16, <1>17, <1>18 DEF Handles
<1> QED
  BY <1>19, HandlesStep

LEMMA ChdirStep == ASSUME IInv, NEW p \in Procs, Chdir(p) PROVE IInv'
<1>1. todo[p] # <<>> /\ Top(p).do = "chdir" /\ Top(p).do \in Asking
  BY DEF Chdir, At, Top, Asking
<1>2. PICK i : i = Top(p).i
  OBVIOUS
<1>3. CASE Ilocked(i).type = "dir"
  <2>1. Changes(p, i)
    BY <1>2, <1>3 DEF Chdir, Changes
  <2> QED
    BY <1>1, <1>2, <1>3, <2>1, ChangesStep
<1>4. CASE Ilocked(i).type # "dir"
  <2>1. icache' = Cache(i, Ilocked(i)) /\ Continue(p, <<Iput(i)>>) /\ UNCHANGED <<disk, holder, opened, lost>>
    BY <1>2, <1>4 DEF Chdir, opened
  <2> QED
    BY <1>1, <1>2, <2>1, PutsIt
<1> QED
  BY <1>3, <1>4

\* The frame that closes f, and the one that exits.
Exits == Frame("exit", 0, 0, <<>>, "")

LEMMA FilecloseIs ==
  ASSUME NEW f \in Files, NEW c, c = Fileclose(f)
  PROVE  /\ FrameOK(c) /\ c \in FrameSet /\ Ends(c) /\ ~Waiting(c)
         /\ c.do = "fileclose" /\ c.i = 0 /\ c.ip = 0 /\ c.arg = f
         /\ \A j \in Inums : FRefs(c, j) = 0 /\ FOwed(c, j) = 0 /\ FClaimed(c, j) = 0
         /\ \A g \in Files : FClosing(c, g) = Eq(f, g)
<1>1. PICK d, z : d = "fileclose" /\ z = 0
  OBVIOUS
<1>2. d \in Dos /\ z \in Inums \cup {0} /\ f \in Args
  BY <1>1 DEF Dos, Args
<1>3. c = Frame(d, z, z, <<>>, f)
  BY <1>1 DEF Fileclose
<1>4. c \in FrameSet /\ c.do = d /\ c.i = z /\ c.ip = z /\ c.arg = f
  BY <1>2, <1>3, PathlessIs
<1>5. FrameOK(c) /\ Ends(c) /\ ~Waiting(c)
  BY <1>1, <1>4 DEF FrameOK, Ends, Waiting, Waiters
<1>6. ASSUME NEW j \in Inums PROVE FRefs(c, j) = 0 /\ FOwed(c, j) = 0 /\ FClaimed(c, j) = 0
  <2>1. Eq(c.i, j) = 0 /\ Eq(c.ip, j) = 0
    BY <1>1, <1>4, Constants DEF Eq
  <2> QED
    BY <1>1, <1>4, <2>1 DEF FRefs, FOwed, FClaimed
<1>7. \A g \in Files : FClosing(c, g) = Eq(f, g)
  BY <1>1, <1>4 DEF FClosing
<1> QED
  BY <1>1, <1>4, <1>5, <1>6, <1>7

LEMMA ExitsIs ==
  ASSUME NEW c, c = Exits
  PROVE  /\ FrameOK(c) /\ c \in FrameSet /\ Ends(c) /\ ~Waiting(c)
         /\ c.do = "exit" /\ c.i = 0 /\ c.ip = 0
         /\ \A j \in Inums : FRefs(c, j) = 0 /\ FOwed(c, j) = 0 /\ FClaimed(c, j) = 0
         /\ \A g \in Files : FClosing(c, g) = 0
<1>1. PICK d, z : d = "exit" /\ z = 0
  OBVIOUS
<1>2. PICK a \in Args : c = Frame(d, z, z, <<>>, a) /\ d \in Dos /\ z \in Inums \cup {0}
  BY <1>1 DEF Dos, Args, Exits
<1>3. c \in FrameSet /\ c.do = d /\ c.i = z /\ c.ip = z
  BY <1>2, PathlessIs
<1>4. FrameOK(c) /\ Ends(c) /\ ~Waiting(c)
  BY <1>1, <1>3 DEF FrameOK, Ends, Waiting, Waiters
<1>5. ASSUME NEW j \in Inums PROVE FRefs(c, j) = 0 /\ FOwed(c, j) = 0 /\ FClaimed(c, j) = 0
  <2>1. Eq(c.i, j) = 0 /\ Eq(c.ip, j) = 0
    BY <1>1, <1>3, Constants DEF Eq
  <2> QED
    BY <1>1, <1>3, <2>1 DEF FRefs, FOwed, FClaimed
<1>6. \A g \in Files : FClosing(c, g) = 0
  BY <1>1, <1>3 DEF FClosing
<1> QED
  BY <1>1, <1>3, <1>4, <1>5, <1>6

CloseFrames(f, t) == t = <<Fileclose(f)>> \/ t = <<Fileclose(f), Exits>>

LEMMA CloseFramesIs ==
  ASSUME NEW f \in Files, NEW t, CloseFrames(f, t)
  PROVE  /\ Shape(t) /\ Inner(t) /\ \A p : cwd'[p] # 0 => AllSound(p, t)'
         /\ \A j \in Inums : Refs(t, j) = 0 /\ Owed(t, j) = 0 /\ Claimed(t, j) = 0
         /\ \A g \in Files : Closing(t, g) = Eq(f, g)
<1>1. PICK c, e : c = Fileclose(f) /\ e = Exits
  OBVIOUS
<1>2. /\ FrameOK(c) /\ c \in FrameSet /\ Ends(c) /\ ~Waiting(c)
      /\ c.do = "fileclose" /\ c.i = 0 /\ c.ip = 0 /\ c.arg = f
      /\ \A j \in Inums : FRefs(c, j) = 0 /\ FOwed(c, j) = 0 /\ FClaimed(c, j) = 0
      /\ \A g \in Files : FClosing(c, g) = Eq(f, g)
  BY <1>1, FilecloseIs
<1>3. /\ FrameOK(e) /\ e \in FrameSet /\ Ends(e) /\ ~Waiting(e)
      /\ e.do = "exit" /\ e.i = 0 /\ e.ip = 0
      /\ \A j \in Inums : FRefs(e, j) = 0 /\ FOwed(e, j) = 0 /\ FClaimed(e, j) = 0
      /\ \A g \in Files : FClosing(e, g) = 0
  BY <1>1, ExitsIs
<1>5. ASSUME NEW p, cwd'[p] # 0 PROVE Sound(p, c)' /\ Sound(p, e)'
  BY <1>2, <1>3, <1>5 DEF Sound
<1>6. \A g \in Files : Eq(f, g) \in Nat
  BY DEF Eq
<1>7. Weightless(<<>>)
  BY NoFrames
<1>8. CASE t = <<c>>
  <2>1. Inner(t) /\ t[1] = c /\ Frames(t) = {c} /\ Adds(t, c, <<>>)
    BY <1>2, <1>8, OneFrame
  <2>2. /\ \A j \in Inums : Refs(t, j) = 0 /\ Owed(t, j) = 0 /\ Claimed(t, j) = 0
        /\ \A g \in Files : Closing(t, g) = Eq(f, g)
    BY <1>2, <1>6, <1>7, <2>1 DEF Adds, Weightless
  <2> QED
    BY <1>2, <1>5, <2>1, <2>2 DEF Shape, AllSound
<1>9. CASE t = <<c, e>>
  <2>1. Leads(c, e)
    BY <1>2, <1>3 DEF Leads
  <2>2. Inner(t) /\ t[1] = c /\ Frames(t) = {c, e} /\ Adds(t, c, <<e>>) /\ Adds(<<e>>, e, <<>>)
    BY <1>2, <1>3, <1>9, <2>1, TwoFrames
  <2>3. PICK r : r = <<e>>
    OBVIOUS
  <2>4. Weightless(r)
    BY <1>3, <1>7, <2>2, <2>3 DEF Adds, Weightless
  <2>5. /\ \A j \in Inums : Refs(t, j) = 0 /\ Owed(t, j) = 0 /\ Claimed(t, j) = 0
        /\ \A g \in Files : Closing(t, g) = Eq(f, g)
    BY <1>2, <1>6, <2>2, <2>3, <2>4 DEF Adds, Weightless
  <2> QED
    BY <1>2, <1>5, <2>2, <2>5 DEF Shape, AllSound
<1> QED
  BY <1>1, <1>8, <1>9 DEF CloseFrames

Drops(p, d, t) ==
  /\ d \in Fds /\ ofile[p][d] # None /\ CloseFrames(ofile[p][d], t)
  /\ ofile' = WithFd(ofile, p, d, None) /\ todo' = [todo EXCEPT ![p] = t]
  /\ UNCHANGED <<disk, inodes, file, cwd, lost>>

LEMMA DropsStep ==
  ASSUME IInv, NEW p \in Procs, Weightless(todo[p]), cwd[p] # 0, NEW d, NEW t, Drops(p, d, t)
  PROVE  IInv'
<1>1. /\ dinode' = dinode /\ entries' = entries /\ lost' = lost /\ file' = file /\ cwd' = cwd /\ holder' = holder /\ icache' = icache
      /\ d \in Fds
  BY DEF disk, inodes, Drops
<1>2. PICK f : f = ofile[p][d]
  OBVIOUS
<1>3. f \in Files
  BY <1>2 DEF Drops, IInv, TypeOK
<1>4. CloseFrames(f, t)
  BY <1>2 DEF Drops
<1>5. /\ Shape(t) /\ Inner(t) /\ AllSound(p, t)'
      /\ \A j \in Inums : Refs(t, j) = 0 /\ Owed(t, j) = 0 /\ Claimed(t, j) = 0
      /\ \A g \in Files : Closing(t, g) = Eq(f, g)
  BY <1>1, <1>3, <1>4, CloseFramesIs
<1>6. Goes(p, t)
  BY <1>5 DEF Goes, Inner, Drops
<1>7. PICK v : v = None
  OBVIOUS
<1>8. ofile' = WithFd(ofile, p, d, v) /\ v \in Files \cup {None}
  BY <1>7 DEF Drops
<1>9. /\ ofile' \in [Procs -> [Fds -> Files \cup {None}]] /\ ofile'[p][d] = v
      /\ \A q \in Procs, e \in Fds : q # p \/ e # d => ofile'[q][e] = ofile[q][e]
      /\ \A g \in Files : Fd(g)' = Fd(g) - Eq(f, g) + Eq(v, g)
  BY <1>1, <1>2, <1>8, FdChange
<1>10. HoldsMove(p, t) /\ holder' \in [Inums -> Procs \cup {None}]
  <2>1. \A j \in Inums : Claimed(t, j) = Claimed(todo[p], j)
    BY <1>5 DEF Weightless
  <2> QED
    BY <1>1, <2>1, HoldsNothing
<1>11. Fits(icache') /\ Careful(p)
  <2>1. Fits(icache)
    BY CacheFits
  <2> QED
    BY <1>1, <2>1 DEF Careful
<1>12. RefsMove(p, t)
  <2>1. ASSUME NEW k \in Inums PROVE icache'[k].ref = icache[k].ref - Kept(k) + Kept(k)' - Refs(todo[p], k) + Refs(t, k)
    <3>1. Kept(k)' = Kept(k) /\ Kept(k) \in Nat /\ icache[k].ref \in Nat /\ icache'[k].ref = icache[k].ref
      BY <1>1, KeptNat DEF Kept, IpOf, IInv, TypeOK
    <3>2. Refs(todo[p], k) = 0 /\ Refs(t, k) = 0
      BY <1>5 DEF Weightless
    <3> QED
      BY <3>1, <3>2
  <2> QED
    BY <2>1 DEF RefsMove
<1>13. FilesMove(p, t)
  <2>1. ASSUME NEW g \in Files PROVE file'[g].ref = file[g].ref - Fd(g) + Fd(g)' - Closing(todo[p], g) + Closing(t, g)
    <3>1. Fd(g) \in Nat /\ file[g].ref \in Nat /\ file'[g].ref = file[g].ref
      BY <1>1, FdNat DEF IInv, TypeOK
    <3>2. Closing(todo[p], g) = 0 /\ Closing(t, g) = Eq(f, g) /\ Eq(f, g) \in Nat /\ Eq(v, g) = 0
      BY <1>5, <1>7, Constants DEF Weightless, Eq
    <3>3. Fd(g)' = Fd(g) - Eq(f, g) + Eq(v, g)
      BY <1>9
    <3> QED
      BY <3>1, <3>2, <3>3
  <2> QED
    BY <2>1 DEF FilesMove
<1>14. /\ file' \in [Files -> [ref : Nat, ip : Inums \cup {0}]] /\ cwd' \in [Procs -> Inums \cup {0}]
       /\ \A g \in Files : file'[g].ref = 0 <=> file'[g].ip = 0
       /\ \A g \in Files : file'[g].ip # 0 => dinode[file'[g].ip].type # "free"
       /\ \A q \in Procs : cwd'[q] # 0 => dinode[cwd'[q]].type = "dir"
       /\ \A q \in Procs \ {p} : cwd'[q] = 0 => cwd[q] = 0
  BY <1>1 DEF IInv, TypeOK, FilesBalance, InUse
<1>15. ASSUME NEW q \in Procs, cwd'[q] = 0, NEW e \in Fds PROVE ofile'[q][e] = None
  <2>1. q # p /\ ofile[q][e] = None
    BY <1>1, <1>15 DEF IInv, FilesBalance
  <2> QED
    BY <1>9, <2>1
<1>16. \A j \in Inums : Owed(t, j) = Owed(todo[p], j)
  BY <1>5 DEF Weightless
<1>17. Handles(p, t)
  BY <1>1, <1>5, <1>6, <1>9, <1>10, <1>11, <1>12, <1>13, <1>14, <1>15, <1>16 DEF Handles
<1> QED
  BY <1>17, HandlesStep

LEMMA CloseStep == ASSUME IInv, NEW p \in Procs, sys_close(p) PROVE IInv'
<1>1. todo[p] = <<>> /\ cwd[p] # 0
  BY DEF sys_close, Idle
<1>2. Weightless(todo[p])
  BY <1>1, NoFrames
<1>3. PICK d \in Fds \ FreeFds(p) : /\ ofile' = WithFd(ofile, p, d, None)
                                    /\ Continue(p, <<Fileclose(ofile[p][d])>>)
  BY DEF sys_close, WithFd
<1>4. PICK t : t = <<Fileclose(ofile[p][d])>>
  OBVIOUS
<1>5. Drops(p, d, t)
  BY <1>3, <1>4 DEF Drops, CloseFrames, sys_close, Continue, FreeFds
<1> QED
  BY <1>1, <1>2, <1>5, DropsStep

-----------------------------------------------------------------------------
\* close() of what f is the file of
LEMMA UnclosedIs ==
  ASSUME IInv, NEW f \in Files, file[f].ref >= 1, NEW m, m = Unclosed(f)
  PROVE  /\ m \in [ref : Nat, ip : Inums \cup {0}] /\ m.ref = file[f].ref - 1 /\ (m.ref = 0 <=> m.ip = 0)
         /\ m.ip \in {0, file[f].ip} /\ (m.ip = 0 <=> file[f].ref = 1)
<1>1. file[f] \in [ref : Nat, ip : Inums \cup {0}] /\ (file[f].ref = 0 <=> file[f].ip = 0)
  BY DEF IInv, TypeOK, FilesBalance
<1>2. CASE file[f].ref = 1
  BY <1>1, <1>2 DEF Unclosed, Closed
<1>3. CASE file[f].ref # 1
  <2>1. PICK c : c = file[f]
    OBVIOUS
  <2>2. PICK n : n = c.ref - 1
    OBVIOUS
  <2>3. n \in Nat /\ n # 0 /\ m = [c EXCEPT !.ref = n]
    BY <1>1, <1>3, <2>1, <2>2 DEF Unclosed
  <2>4. m \in [ref : Nat, ip : Inums \cup {0}] /\ m.ref = n /\ m.ip = c.ip
    BY <1>1, <2>1, <2>3
  <2> QED
    BY <1>1, <1>3, <2>1, <2>2, <2>3, <2>4
<1> QED
  BY <1>2, <1>3

FileIs(p, f, r, i) ==
  /\ f \in Files /\ cwd[p] # 0 /\ Good(r) /\ r \in Seq(FrameSet) /\ Naturals(r)
  /\ \A j \in Inums : /\ Refs(todo[p], j) = Refs(r, j) /\ Owed(todo[p], j) = Owed(r, j)
                      /\ Claimed(todo[p], j) = Claimed(r, j)
  /\ \A g \in Files : Closing(todo[p], g) = Closing(r, g) + Eq(f, g)
  /\ file[f].ref \in Nat /\ file[f].ref >= 1 /\ i = file[f].ip /\ i \in Inums /\ dinode[i].type # "free"

LEMMA FileFrame ==
  ASSUME IInv, NEW p \in Procs, todo[p] # <<>>, Top(p).do = "fileclose"
  PROVE  FileIs(p, Top(p).arg, Rest(p), file[Top(p).arg].ip)
<1>1. PICK c, r, f : c = Top(p) /\ r = Rest(p) /\ f = c.arg
  OBVIOUS
<1>2. /\ FrameOK(c) /\ Good(r) /\ r \in Seq(FrameSet) /\ Adds(todo[p], c, r) /\ Naturals(r) /\ Sound(p, c)
  BY <1>1, TopIs
<1>3. f \in Files /\ c.i = 0 /\ c.ip = 0 /\ cwd[p] # 0
  BY <1>1, <1>2 DEF FrameOK, Sound
<1>4. ASSUME NEW j \in Inums PROVE FRefs(c, j) = 0 /\ FOwed(c, j) = 0 /\ FClaimed(c, j) = 0
  <2>1. Eq(c.i, j) = 0 /\ Eq(c.ip, j) = 0
    BY <1>3, Constants DEF Eq
  <2> QED
    BY <1>1, <2>1 DEF FRefs, FOwed, FClaimed
<1>5. \A g \in Files : FClosing(c, g) = Eq(f, g) /\ Eq(f, g) \in Nat
  BY <1>1 DEF FClosing, Eq
<1>6. /\ \A j \in Inums : /\ Refs(todo[p], j) = Refs(r, j) /\ Owed(todo[p], j) = Owed(r, j)
                          /\ Claimed(todo[p], j) = Claimed(r, j)
      /\ \A g \in Files : Closing(todo[p], g) = Closing(r, g) + Eq(f, g)
  BY <1>2, <1>4, <1>5 DEF Adds, Naturals
<1>7. Closing(todo[p], f) # 0
  BY <1>2, <1>3, <1>6 DEF Naturals, Eq
<1>8. /\ file[f].ref \in Nat /\ file[f].ref >= 1 /\ file[f].ip \in Inums /\ dinode[file[f].ip].type # "free"
  BY <1>3, <1>7, FileOf
<1> QED
  BY <1>1, <1>2, <1>3, <1>6, <1>8 DEF FileIs

\* The last close() goes on with the inode.
Dropping(p, f, r, i, t) ==
  /\ file' = [file EXCEPT ![f] = Unclosed(f)]
  /\ t = IF file[f].ref = 1 THEN <<Iput(i)>> \o r ELSE r
  /\ todo' = [todo EXCEPT ![p] = t]
  /\ UNCHANGED <<disk, inodes, ofile, cwd, lost>>

LEMMA ClosesStep ==
  ASSUME IInv, NEW p \in Procs, todo[p] # <<>>, NEW f, NEW r, r = Rest(p), NEW i, FileIs(p, f, r, i), NEW t, Dropping(p, f, r, i, t)
  PROVE  IInv'
<1>1. /\ dinode' = dinode /\ entries' = entries /\ lost' = lost /\ ofile' = ofile /\ cwd' = cwd /\ holder' = holder /\ icache' = icache
      /\ f \in Files /\ cwd[p] # 0 /\ i \in Inums /\ i = file[f].ip /\ dinode[i].type # "free"
  BY DEF disk, inodes, Dropping, FileIs
<1>2. PICK m, w : m = Unclosed(f) /\ w = IF file[f].ref = 1 THEN 1 ELSE 0
  OBVIOUS
<1>3. /\ m \in [ref : Nat, ip : Inums \cup {0}] /\ m.ref = file[f].ref - 1 /\ (m.ref = 0 <=> m.ip = 0)
      /\ m.ip \in {0, i} /\ (m.ip = 0 <=> file[f].ref = 1)
  BY <1>1, <1>2, UnclosedIs DEF FileIs
<1>4. file \in [Files -> [ref : Nat, ip : Inums \cup {0}]]
  BY DEF IInv, TypeOK
<1>5. file' \in [Files -> [ref : Nat, ip : Inums \cup {0}]] /\ file'[f] = m /\ \A g \in Files \ {f} : file'[g] = file[g]
  BY <1>1, <1>2, <1>3, <1>4 DEF Dropping
<1>6. Careful(p) /\ Fits(icache')
  <2>1. Fits(icache)
    BY CacheFits
  <2> QED
    BY <1>1, <2>1 DEF Careful
<1>7. /\ Good(t) /\ t \in Seq(FrameSet) /\ AllSound(p, t)'
      /\ \A j \in Inums : /\ Refs(t, j) = Refs(r, j) + (IF w = 1 THEN Eq(i, j) ELSE 0)
                          /\ Owed(t, j) = Owed(r, j) /\ Claimed(t, j) = Claimed(r, j)
      /\ \A g \in Files : Closing(t, g) = Closing(r, g)
  <2>1. AllSound(p, r)'
    BY <1>1, <1>6, RestStays
  <2>2. Good(r) /\ r \in Seq(FrameSet) /\ Naturals(r)
    BY DEF FileIs
  <2>3. CASE file[f].ref = 1
    <3>1. t = <<Iput(i)>> \o r /\ w = 1
      BY <1>2, <2>3 DEF Dropping
    <3>2. Good(t) /\ Frames(t) = {Iput(i)} \cup Frames(r) /\ Alike(t, r) /\ Owns(t, r, i)
      BY <1>1, <2>2, <3>1, PushIput
    <3>3. Sound(p, Iput(i))'
      BY <1>1, IputSound
    <3> QED
      BY <2>1, <3>1, <3>2, <3>3 DEF Good, Inner, AllSound, Alike, Owns
  <2>4. CASE file[f].ref # 1
    <3>1. t = r /\ w = 0
      BY <1>2, <2>4 DEF Dropping
    <3> QED
      BY <2>1, <2>2, <3>1 DEF Naturals
  <2> QED
    BY <2>3, <2>4
<1>8. Goes(p, t) /\ Shape(t)
  BY <1>7 DEF Goes, Good, Shape, Dropping
<1>9. HoldsMove(p, t) /\ holder' \in [Inums -> Procs \cup {None}]
  <2>1. \A j \in Inums : Claimed(t, j) = Claimed(todo[p], j)
    BY <1>7 DEF FileIs
  <2> QED
    BY <1>1, <2>1, HoldsNothing
<1>10. RefsMove(p, t)
  <2>1. ASSUME NEW k \in Inums PROVE icache'[k].ref = icache[k].ref - Kept(k) + Kept(k)' - Refs(todo[p], k) + Refs(t, k)
    <3>1. icache'[k].ref = icache[k].ref /\ icache[k].ref \in Nat
      BY <1>1 DEF IInv, TypeOK
    <3>2. Refs(todo[p], k) = Refs(r, k) /\ Refs(t, k) = Refs(r, k) + (IF w = 1 THEN Eq(i, k) ELSE 0) /\ Refs(r, k) \in Nat
      BY <1>7 DEF FileIs, Naturals
    <3>3. PICK u, v, x : u = Fiber(IpOf, Files, k) /\ v = Fiber(IpOf', Files, k) /\ x = Fiber(cwd, Procs, k)
      OBVIOUS
    <3>4. v = u - Eq(i, k) + Eq(m.ip, k) /\ u \in Nat /\ v \in Nat
      BY <1>1, <1>5, <3>3, IpChange
    <3>5. Kept(k) = x + u /\ Kept(k)' = x + v /\ x \in Nat
      BY <1>1, <3>3, Constants, FiberIs DEF Kept
    <3>6. Eq(m.ip, k) = (IF w = 1 THEN 0 ELSE Eq(i, k)) /\ Eq(i, k) \in Nat
      BY <1>2, <1>3, Constants DEF Eq
    <3> QED
      BY <3>1, <3>2, <3>4, <3>5, <3>6, SMTT(30)
  <2> QED
    BY <2>1 DEF RefsMove
<1>11. FilesMove(p, t)
  <2>1. ASSUME NEW g \in Files PROVE file'[g].ref = file[g].ref - Fd(g) + Fd(g)' - Closing(todo[p], g) + Closing(t, g)
    <3>1. Fd(g) \in Nat /\ Fd(g)' = Fd(g) /\ file[g].ref \in Nat
      BY <1>1, <1>4, FdNat DEF Fd, FdOf
    <3>2. Closing(todo[p], g) = Closing(r, g) + Eq(f, g) /\ Closing(t, g) = Closing(r, g) /\ Closing(r, g) \in Nat
      BY <1>7 DEF FileIs, Naturals
    <3>3. file'[g].ref = file[g].ref - Eq(f, g) /\ Eq(f, g) \in Nat
      BY <1>3, <1>5, <3>1 DEF Eq
    <3> QED
      BY <3>1, <3>2, <3>3
  <2> QED
    BY <2>1 DEF FilesMove
<1>12. ASSUME NEW g \in Files PROVE (file'[g].ref = 0 <=> file'[g].ip = 0) /\ (file'[g].ip # 0 => dinode[file'[g].ip].type # "free")
  <2>1. CASE g = f
    BY <1>1, <1>3, <1>5, <2>1
  <2>2. CASE g # f
    BY <1>5, <2>2 DEF IInv, FilesBalance, InUse
  <2> QED
    BY <2>1, <2>2
<1>13. /\ ofile' \in [Procs -> [Fds -> Files \cup {None}]] /\ cwd' \in [Procs -> Inums \cup {0}]
       /\ \A q \in Procs : cwd'[q] = 0 => \A e \in Fds : ofile'[q][e] = None
       /\ \A q \in Procs : cwd'[q] # 0 => dinode[cwd'[q]].type = "dir"
       /\ \A q \in Procs \ {p} : cwd'[q] = 0 => cwd[q] = 0
  BY <1>1 DEF IInv, TypeOK, FilesBalance, InUse
<1>14. \A j \in Inums : Owed(t, j) = Owed(todo[p], j)
  BY <1>7 DEF FileIs
<1>15. Handles(p, t)
  BY <1>1, <1>5, <1>6, <1>7, <1>8, <1>9, <1>10, <1>11, <1>12, <1>13, <1>14 DEF Handles
<1> QED
  BY <1>15, HandlesStep

LEMMA FilecloseStep == ASSUME IInv, NEW p \in Procs, fileclose(p) PROVE IInv'
<1>1. todo[p] # <<>> /\ Top(p).do = "fileclose"
  BY DEF fileclose, At, Top
<1>2. PICK f, r : f = Top(p).arg /\ r = Rest(p)
  OBVIOUS
<1>3. PICK i : i = file[f].ip
  OBVIOUS
<1>4. FileIs(p, f, r, i)
  BY <1>1, <1>2, <1>3, FileFrame
<1>5. PICK t : t = IF file[f].ref = 1 THEN <<Iput(i)>> \o r ELSE r
  OBVIOUS
<1>6. file \in [Files -> [ref : Nat, ip : Inums \cup {0}]] /\ f \in Files
  BY <1>4 DEF IInv, TypeOK, FileIs
<1>7. file' = [file EXCEPT ![f] = Unclosed(f)]
  BY <1>2 DEF fileclose
<1>8. todo' = [todo EXCEPT ![p] = t]
  <2>1. r \in Seq(FrameSet)
    BY <1>4 DEF FileIs
  <2>2. <<>> \o r = r
    BY <2>1
  <2>3. todo' = [todo EXCEPT ![p] = (IF file[f].ref = 1 THEN <<Iput(i)>> ELSE <<>>) \o r]
    BY <1>2, <1>3 DEF fileclose, Continue
  <2> QED
    BY <1>5, <2>2, <2>3
<1>9. UNCHANGED <<disk, inodes, ofile, cwd, lost>>
  BY Zenon DEF fileclose
<1>10. Dropping(p, f, r, i, t)
  BY <1>5, <1>7, <1>8, <1>9, Zenon DEF Dropping
<1> QED
  BY <1>1, <1>2, <1>4, <1>10, ClosesStep

-----------------------------------------------------------------------------
\* A process that has no call under way.
LEMMA StaysIdle ==
  ASSUME IInv, NEW p \in Procs, todo[p] = <<>>, todo' = todo, NEW t, t = <<>>
  PROVE  Goes(p, t) /\ Weightless(todo[p]) /\ Weightless(t) /\ Shape(t) /\ Frames(t) = {} /\ Naturals(t)
<1>1. todo' = [todo EXCEPT ![p] = t] /\ t \in Seq(FrameSet)
  BY DEF IInv, Shapes
<1> QED
  BY <1>1, NoFrames, NoFrame, InnerEmpty DEF Goes

Dups(p, d, e, f) ==
  /\ todo[p] = <<>> /\ cwd[p] # 0 /\ d \in Fds /\ e \in Fds /\ f \in Files /\ ofile[p][d] = None /\ ofile[p][e] = f
  /\ ofile' = WithFd(ofile, p, d, f)
  /\ file' = [file EXCEPT ![f].ref = @ + 1]
  /\ UNCHANGED <<disk, inodes, cwd, todo, lost>>

LEMMA DupsStep ==
  ASSUME IInv, NEW p \in Procs, NEW d, NEW e, NEW f, Dups(p, d, e, f)
  PROVE  IInv'
<1>1. /\ dinode' = dinode /\ entries' = entries /\ lost' = lost /\ cwd' = cwd /\ holder' = holder /\ icache' = icache /\ todo' = todo
      /\ todo[p] = <<>> /\ cwd[p] # 0 /\ d \in Fds /\ e \in Fds /\ f \in Files /\ ofile[p][d] = None /\ ofile[p][e] = f
  BY DEF disk, inodes, Dups
<1>2. PICK t : t = <<>>
  OBVIOUS
<1>3. Goes(p, t) /\ Weightless(todo[p]) /\ Weightless(t) /\ Shape(t) /\ Frames(t) = {}
  BY <1>1, <1>2, StaysIdle
<1>4. ofile' = WithFd(ofile, p, d, f)
  BY DEF Dups
<1>5. /\ ofile' \in [Procs -> [Fds -> Files \cup {None}]] /\ ofile'[p][d] = f
      /\ \A q \in Procs, c \in Fds : q # p \/ c # d => ofile'[q][c] = ofile[q][c]
      /\ \A g \in Files : Fd(g)' = Fd(g) - Eq(ofile[p][d], g) + Eq(f, g)
  BY <1>1, <1>4, FdChange
<1>6. file[f].ref \in Nat /\ file[f].ref >= 1 /\ file[f].ip \in Inums
  BY <1>1, FileOf
<1>7. /\ file' \in [Files -> [ref : Nat, ip : Inums \cup {0}]]
      /\ \A g \in Files : file'[g].ref = file[g].ref + Eq(f, g) /\ file'[g].ip = file[g].ip /\ file[g].ref \in Nat
  <2>1. file \in [Files -> [ref : Nat, ip : Inums \cup {0}]]
    BY DEF IInv, TypeOK
  <2>2. PICK m : m = [file[f] EXCEPT !.ref = @ + 1]
    OBVIOUS
  <2>3. m \in [ref : Nat, ip : Inums \cup {0}] /\ m.ref = file[f].ref + 1 /\ m.ip = file[f].ip
    BY <1>1, <2>1, <2>2
  <2>4. file' = [file EXCEPT ![f] = m]
    BY <2>2 DEF Dups
  <2>5. file' \in [Files -> [ref : Nat, ip : Inums \cup {0}]] /\ \A g \in Files : file'[g] = IF g = f THEN m ELSE file[g]
    BY <1>1, <2>1, <2>3, <2>4
  <2> QED
    BY <2>1, <2>3, <2>5 DEF Eq
<1>8. HoldsMove(p, t) /\ holder' \in [Inums -> Procs \cup {None}]
  <2>1. \A j \in Inums : Claimed(t, j) = Claimed(todo[p], j)
    BY <1>3 DEF Weightless
  <2> QED
    BY <1>1, <2>1, HoldsNothing
<1>9. Fits(icache') /\ Careful(p) /\ AllSound(p, t)'
  <2>1. Fits(icache)
    BY CacheFits
  <2> QED
    BY <1>1, <1>3, <2>1 DEF Careful, AllSound
<1>10. RefsMove(p, t)
  <2>1. ASSUME NEW k \in Inums PROVE icache'[k].ref = icache[k].ref - Kept(k) + Kept(k)' - Refs(todo[p], k) + Refs(t, k)
    <3>1. Kept(k)' = Kept(k) /\ Kept(k) \in Nat
      <4>1. IpOf' = IpOf
        BY <1>7 DEF IpOf
      <4> QED
        BY <1>1, <4>1, KeptNat DEF Kept
    <3>2. icache[k].ref \in Nat /\ icache'[k].ref = icache[k].ref
      BY <1>1 DEF IInv, TypeOK
    <3>3. Refs(todo[p], k) = 0 /\ Refs(t, k) = 0
      BY <1>3 DEF Weightless
    <3> QED
      BY <3>1, <3>2, <3>3
  <2> QED
    BY <2>1 DEF RefsMove
<1>11. FilesMove(p, t)
  <2>1. ASSUME NEW g \in Files PROVE file'[g].ref = file[g].ref - Fd(g) + Fd(g)' - Closing(todo[p], g) + Closing(t, g)
    <3>1. Fd(g) \in Nat /\ file[g].ref \in Nat /\ file'[g].ref = file[g].ref + Eq(f, g)
      BY <1>7, FdNat
    <3>2. Closing(todo[p], g) = 0 /\ Closing(t, g) = 0 /\ Eq(f, g) \in Nat /\ Eq(ofile[p][d], g) = 0
      BY <1>1, <1>3, Constants DEF Weightless, Eq
    <3>3. Fd(g)' = Fd(g) - Eq(ofile[p][d], g) + Eq(f, g)
      BY <1>5
    <3> QED
      BY <3>1, <3>2, <3>3
  <2> QED
    BY <2>1 DEF FilesMove
<1>12. ASSUME NEW g \in Files PROVE (file'[g].ref = 0 <=> file'[g].ip = 0) /\ (file'[g].ip # 0 => dinode[file'[g].ip].type # "free")
  <2>1. file'[g].ip = file[g].ip /\ (file[g].ref = 0 <=> file[g].ip = 0) /\ (file[g].ip # 0 => dinode[file[g].ip].type # "free")
    BY <1>7 DEF IInv, FilesBalance, InUse
  <2>2. file'[g].ref = 0 <=> file[g].ref = 0
    BY <1>6, <1>7, Constants DEF Eq
  <2> QED
    BY <2>1, <2>2
<1>13. /\ cwd' \in [Procs -> Inums \cup {0}]
       /\ \A q \in Procs : cwd'[q] # 0 => dinode[cwd'[q]].type = "dir"
       /\ \A q \in Procs \ {p} : cwd'[q] = 0 => cwd[q] = 0
  BY <1>1 DEF IInv, TypeOK, InUse
<1>14. ASSUME NEW q \in Procs, cwd'[q] = 0, NEW c \in Fds PROVE ofile'[q][c] = None
  <2>1. q # p /\ ofile[q][c] = None
    BY <1>1, <1>14 DEF IInv, FilesBalance
  <2> QED
    BY <1>5, <2>1
<1>15. \A j \in Inums : Owed(t, j) = Owed(todo[p], j)
  BY <1>3 DEF Weightless
<1>16. Handles(p, t)
  BY <1>1, <1>3, <1>5, <1>7, <1>8, <1>9, <1>10, <1>11, <1>12, <1>13, <1>14, <1>15 DEF Handles
<1> QED
  BY <1>16, HandlesStep

LEMMA DupStep == ASSUME IInv, NEW p \in Procs, sys_dup(p) PROVE IInv'
<1>1. todo[p] = <<>> /\ cwd[p] # 0 /\ FreeFds(p) # {}
  BY DEF sys_dup, Idle
<1>2. PICK d : d = Min(FreeFds(p))
  OBVIOUS
<1>3. d \in Fds /\ ofile[p][d] = None
  BY <1>1, <1>2, FreeOnes
<1>4. PICK e \in Fds \ FreeFds(p) : /\ ofile' = WithFd(ofile, p, d, ofile[p][e])
                                    /\ file' = [file EXCEPT ![ofile[p][e]].ref = @ + 1]
  BY <1>2 DEF sys_dup, WithFd
<1>5. PICK f : f = ofile[p][e]
  OBVIOUS
<1>6. f \in Files /\ e \in Fds
  BY <1>4, <1>5 DEF FreeFds, IInv, TypeOK
<1>7. Dups(p, d, e, f)
  BY <1>1, <1>3, <1>4, <1>5, <1>6 DEF Dups, sys_dup
<1> QED
  BY <1>7, DupsStep

\* The directory of a process that exits.
Leaves(p, t) ==
  /\ \A d \in Fds : ofile[p][d] = None
  /\ t = <<Iput(cwd[p])>> /\ todo' = [todo EXCEPT ![p] = t]
  /\ cwd' = [cwd EXCEPT ![p] = 0]
  /\ UNCHANGED <<disk, inodes, file, ofile, lost>>

LEMMA LeavesStep ==
  ASSUME IInv, NEW p \in Procs, Weightless(todo[p]), cwd[p] # 0, NEW t, Leaves(p, t)
  PROVE  IInv'
<1>1. /\ dinode' = dinode /\ entries' = entries /\ lost' = lost /\ file' = file /\ ofile' = ofile /\ holder' = holder /\ icache' = icache
  BY DEF disk, inodes, Leaves
<1>2. PICK z, c : z = 0 /\ c = cwd[p]
  OBVIOUS
<1>3. c \in Inums /\ dinode[c].type = "dir" /\ c # 0 /\ cwd \in [Procs -> Inums \cup {0}]
  BY <1>2 DEF IInv, TypeOK, InUse
<1>4. t = <<Iput(c)>>
  BY <1>2 DEF Leaves
<1>5. /\ Good(t) /\ Shape(t) /\ Frames(t) = {Iput(c)}
      /\ \A j \in Inums : Refs(t, j) = Eq(c, j) /\ Owed(t, j) = 0 /\ Claimed(t, j) = 0
      /\ \A g \in Files : Closing(t, g) = 0
  BY <1>3, <1>4, OneIput
<1>6. Goes(p, t)
  BY <1>5 DEF Goes, Good, Inner, Leaves
<1>7. AllSound(p, t)'
  <2>1. dinode'[c].type # "free"
    BY <1>1, <1>3
  <2> QED
    BY <1>3, <1>5, <2>1, IputSound DEF AllSound
<1>8. HoldsMove(p, t) /\ holder' \in [Inums -> Procs \cup {None}]
  <2>1. \A j \in Inums : Claimed(t, j) = Claimed(todo[p], j)
    BY <1>5 DEF Weightless
  <2> QED
    BY <1>1, <2>1, HoldsNothing
<1>9. cwd' \in [Procs -> Inums \cup {0}] /\ cwd'[p] = 0 /\ \A q \in Procs \ {p} : cwd'[q] = cwd[q]
  BY <1>3 DEF Leaves
<1>10. Fits(icache') /\ Careful(p)
  <2>1. Fits(icache)
    BY CacheFits
  <2> QED
    BY <1>1, <2>1 DEF Careful
<1>11. RefsMove(p, t)
  <2>1. ASSUME NEW k \in Inums PROVE icache'[k].ref = icache[k].ref - Kept(k) + Kept(k)' - Refs(todo[p], k) + Refs(t, k)
    <3>1. icache'[k].ref = icache[k].ref /\ icache[k].ref \in Nat
      BY <1>1 DEF IInv, TypeOK
    <3>2. Refs(todo[p], k) = 0 /\ Refs(t, k) = Eq(c, k) /\ Eq(c, k) \in Nat /\ Eq(z, k) = 0
      BY <1>2, <1>5, Constants DEF Weightless, Eq
    <3>3. PICK u, v, w : u = Fiber(cwd, Procs, k) /\ v = Fiber(cwd', Procs, k) /\ w = Fiber(IpOf, Files, k)
      OBVIOUS
    <3>4. cwd' = [cwd EXCEPT ![p] = z] /\ z \in Inums \cup {0}
      BY <1>2 DEF Leaves
    <3>5. v = u - Eq(c, k) + Eq(z, k) /\ u \in Nat /\ v \in Nat
      BY <1>2, <3>3, <3>4, CwdChange
    <3>6. Kept(k) = u + w /\ Kept(k)' = v + w /\ w \in Nat
      BY <1>1, <3>3, Constants, FiberIs DEF Kept, IpOf
    <3> QED
      BY <3>1, <3>2, <3>5, <3>6
  <2> QED
    BY <2>1 DEF RefsMove
<1>12. FilesMove(p, t)
  <2>1. ASSUME NEW g \in Files PROVE file'[g].ref = file[g].ref - Fd(g) + Fd(g)' - Closing(todo[p], g) + Closing(t, g)
    <3>1. Fd(g) \in Nat /\ Fd(g)' = Fd(g) /\ file[g].ref \in Nat
      BY <1>1, FdNat DEF Fd, FdOf, IInv, TypeOK
    <3>2. Closing(todo[p], g) = 0 /\ Closing(t, g) = 0
      BY <1>5 DEF Weightless
    <3> QED
      BY <1>1, <3>1, <3>2
  <2> QED
    BY <2>1 DEF FilesMove
<1>13. /\ file' \in [Files -> [ref : Nat, ip : Inums \cup {0}]] /\ ofile' \in [Procs -> [Fds -> Files \cup {None}]]
       /\ \A g \in Files : file'[g].ref = 0 <=> file'[g].ip = 0
       /\ \A g \in Files : file'[g].ip # 0 => dinode[file'[g].ip].type # "free"
  BY <1>1 DEF IInv, TypeOK, FilesBalance, InUse
<1>14. ASSUME NEW q \in Procs, cwd'[q] = 0, NEW d \in Fds PROVE ofile'[q][d] = None
  <2>1. CASE q = p
    BY <1>1, <2>1 DEF Leaves
  <2>2. CASE q # p
    BY <1>1, <1>9, <1>14, <2>2 DEF IInv, FilesBalance
  <2> QED
    BY <2>1, <2>2
<1>15. ASSUME NEW q \in Procs, cwd'[q] # 0 PROVE dinode[cwd'[q]].type = "dir"
  BY <1>9, <1>15 DEF IInv, InUse
<1>16. \A j \in Inums : Owed(t, j) = Owed(todo[p], j)
  BY <1>5 DEF Weightless
<1>17. \A q \in Procs \ {p} : cwd'[q] = 0 => cwd[q] = 0
  BY <1>9
<1>18. Handles(p, t)
  BY <1>1, <1>5, <1>6, <1>7, <1>8, <1>9, <1>10, <1>11, <1>12, <1>13, <1>14, <1>15, <1>16, <1>17 DEF Handles
<1> QED
  BY <1>18, HandlesStep

LEMMA ExitStep == ASSUME IInv, NEW p \in Procs, exit(p) PROVE IInv'
<1>1. Weightless(todo[p]) /\ cwd[p] # 0
  <2>1. CASE todo[p] = <<>> /\ cwd[p] # 0
    BY <2>1, NoFrames
  <2>2. CASE todo[p] # <<>> /\ Top(p).do = "exit"
    <3>1. PICK f, r : f = Top(p) /\ r = Rest(p)
      OBVIOUS
    <3>2. FrameOK(f) /\ Weightless(r) /\ Adds(todo[p], f, r) /\ Sound(p, f)
      BY <2>2, <3>1, TopIs
    <3>3. f.i = 0 /\ f.ip = 0 /\ cwd[p] # 0
      BY <2>2, <3>1, <3>2 DEF FrameOK, Sound
    <3>4. ASSUME NEW j \in Inums PROVE FRefs(f, j) = 0 /\ FOwed(f, j) = 0 /\ FClaimed(f, j) = 0
      <4>1. Eq(f.i, j) = 0 /\ Eq(f.ip, j) = 0
        BY <3>3, Constants DEF Eq
      <4> QED
        BY <2>2, <3>1, <4>1 DEF FRefs, FOwed, FClaimed
    <3>5. \A g \in Files : FClosing(f, g) = 0
      BY <2>2, <3>1 DEF FClosing
    <3> QED
      BY <3>2, <3>3, <3>4, <3>5 DEF Adds, Weightless
  <2> QED
    BY <2>1, <2>2 DEF exit, Idle, At, Top
<1>2. PICK fds, d : fds = Fds \ FreeFds(p) /\ d = Min(fds)
  OBVIOUS
<1>3. CASE fds # {}
  <2>1. fds \in SUBSET Nat
    BY <1>2, ConstantsAssumption
  <2>2. d \in Fds /\ ofile[p][d] # None
    <3>1. d \in fds
      BY <1>2, <1>3, <2>1, LeastOf
    <3> QED
      BY <1>2, <3>1 DEF FreeFds
  <2>3. PICK t : t = <<Fileclose(ofile[p][d]), Exits>>
    OBVIOUS
  <2>4. /\ ofile' = WithFd(ofile, p, d, None) /\ todo' = [todo EXCEPT ![p] = t]
        /\ UNCHANGED <<disk, inodes, file, cwd, lost>>
    BY <1>2, <1>3, <2>3, Zenon DEF exit, Exits, WithFd, Continue
  <2>5. Drops(p, d, t)
    BY <2>2, <2>3, <2>4 DEF Drops, CloseFrames
  <2> QED
    BY <1>1, <2>5, DropsStep
<1>4. CASE fds = {}
  <2>1. PICK t : t = <<Iput(cwd[p])>>
    OBVIOUS
  <2>2. Leaves(p, t)
    <3>1. \A e \in Fds : ofile[p][e] = None
      BY <1>2, <1>4 DEF FreeFds
    <3>2. cwd' = [cwd EXCEPT ![p] = 0] /\ Continue(p, <<Iput(cwd[p])>>) /\ UNCHANGED <<disk, inodes, file, ofile, lost>>
      BY <1>2, <1>4, Zenon DEF exit
    <3> QED
      BY <2>1, <3>1, <3>2 DEF Leaves, Continue
  <2> QED
    BY <1>1, <2>2, LeavesStep
<1> QED
  BY <1>3, <1>4

-----------------------------------------------------------------------------
\* The descriptors that fork() copies.
Row(p, f) == Cardinality({d \in Fds : ofile[p][d] = f})

LEMMA RowIs ==
  ASSUME IInv, NEW p \in Procs, NEW q \in Procs, \A d \in Fds : ofile[q][d] = None,
         ofile' = [ofile EXCEPT ![q] = ofile[p]], NEW f \in Files
  PROVE  Fd(f)' = Fd(f) + Row(p, f) /\ Row(p, f) \in Nat /\ Fd(f) \in Nat /\ Fd(f)' \in Nat /\ (Row(p, f) # 0 => Fd(f) # 0)
<1>1. ofile \in [Procs -> [Fds -> Files \cup {None}]] /\ f # None
  BY Constants DEF IInv, TypeOK
<1>2. \A x \in Procs, d \in Fds : ofile'[x][d] = IF x = q THEN ofile[p][d] ELSE ofile[x][d]
  BY <1>1
<1>3. PICK R, S, A, B, C : /\ R = {d \in Fds : ofile[p][d] = f} /\ S = Procs \X Fds
                           /\ A = {x \in S : FdOf[x] = f} /\ B = {q} \X R /\ C = {x \in S : FdOf'[x] = f}
  OBVIOUS
<1>4. IsFiniteSet(R) /\ IsFiniteSet(A) /\ Cardinality(R) \in Nat
  <2>1. R \subseteq Fds /\ A \subseteq S
    BY <1>3
  <2>2. IsFiniteSet(Fds) /\ IsFiniteSet(S)
    BY <1>3, Constants, FS_Product
  <2> QED
    BY <2>1, <2>2, FS_Subset, FS_CardinalityType
<1>5. IsFiniteSet(B) /\ Cardinality(B) = Cardinality(R)
  <2>1. IsFiniteSet({q}) /\ Cardinality({q}) = 1
    BY FS_Singleton
  <2>2. PICK Q : Q = {q}
    OBVIOUS
  <2>3. IsFiniteSet(Q \X R) /\ Cardinality(Q \X R) = Cardinality(Q) * Cardinality(R)
    BY <1>4, <2>1, <2>2, FS_Product
  <2> QED
    BY <1>3, <1>4, <2>1, <2>2, <2>3
<1>6. ASSUME NEW x \in Procs, NEW d \in Fds, NEW a, a = <<x, d>>
      PROVE  a \in S /\ FdOf[a] = ofile[x][d] /\ FdOf'[a] = ofile'[x][d] /\ (a \in B <=> x = q /\ d \in R)
  BY <1>3, <1>6 DEF FdOf
<1>7. A \cap B = {}
  <2>1. ASSUME NEW a \in A, a \in B PROVE FALSE
    <3>1. PICK x \in Procs, d \in Fds : a = <<x, d>>
      BY <1>3, <2>1
    <3> QED
      BY <1>1, <1>3, <1>6, <2>1, <3>1
  <2> QED
    BY <2>1
<1>8. C = A \cup B
  <2>1. B \subseteq S
    BY <1>3
  <2>2. ASSUME NEW a \in S PROVE a \in C <=> a \in A \cup B
    <3>1. PICK x \in Procs, d \in Fds : a = <<x, d>>
      BY <1>3
    <3>2. FdOf[a] = ofile[x][d] /\ FdOf'[a] = ofile'[x][d] /\ (a \in B <=> x = q /\ d \in R)
      BY <1>6, <3>1
    <3>3. CASE x = q
      BY <1>1, <1>2, <1>3, <3>2, <3>3
    <3>4. CASE x # q
      BY <1>2, <1>3, <3>2, <3>4
    <3> QED
      BY <3>3, <3>4
  <2> QED
    BY <1>3, <2>1, <2>2
<1>9. Cardinality(C) = Cardinality(A) + Cardinality(R)
  BY <1>4, <1>5, <1>7, <1>8, Disjoint
<1>10. Fd(f) = Cardinality(A) /\ Fd(f)' = Cardinality(C) /\ Row(p, f) = Cardinality(R)
  BY <1>3 DEF Fd, Fiber, Row
<1>11. Fd(f) \in Nat /\ Fd(f)' \in Nat
  BY FdNat
<1>12. ASSUME Row(p, f) # 0 PROVE Fd(f) # 0
  <2>1. R # {}
    BY <1>10, <1>12, FS_EmptySet
  <2>2. PICK d \in Fds : ofile[p][d] = f
    BY <1>3, <2>1
  <2>3. PICK a : a = <<p, d>>
    OBVIOUS
  <2>4. a \in A
    BY <1>3, <1>6, <2>2, <2>3
  <2>5. Cardinality(A) # 0
    BY <1>4, <2>4, FS_EmptySet
  <2> QED
    BY <1>10, <2>5
<1> QED
  BY <1>4, <1>9, <1>10, <1>11, <1>12

LEMMA ForkStep == ASSUME IInv, NEW p \in Procs, NEW q \in Procs, fork(p, q) PROVE IInv'
<1>1. /\ dinode' = dinode /\ entries' = entries /\ lost' = lost /\ holder' = holder /\ todo' = todo
      /\ todo[p] = <<>> /\ cwd[p] # 0 /\ cwd[q] = 0 /\ todo[q] = <<>> /\ p # q
  BY DEF disk, fork, Idle
<1>2. PICK t, c, z : t = <<>> /\ c = cwd[p] /\ z = 0
  OBVIOUS
<1>3. Goes(p, t) /\ Weightless(todo[p]) /\ Weightless(t) /\ Shape(t) /\ Frames(t) = {}
  BY <1>1, <1>2, StaysIdle
<1>4. c \in Inums /\ dinode[c].type = "dir" /\ cwd \in [Procs -> Inums \cup {0}] /\ 0 \notin Inums
  BY <1>1, <1>2, Constants DEF IInv, TypeOK, InUse
<1>5. ofile' = [ofile EXCEPT ![q] = ofile[p]] /\ ofile \in [Procs -> [Fds -> Files \cup {None}]]
  BY DEF fork, IInv, TypeOK
<1>6. \A d \in Fds : ofile[q][d] = None
  BY <1>1 DEF IInv, FilesBalance
<1>7. \A f \in Files : Fd(f)' = Fd(f) + Row(p, f) /\ Row(p, f) \in Nat /\ Fd(f) \in Nat /\ Fd(f)' \in Nat /\ (Row(p, f) # 0 => Fd(f) # 0)
  BY <1>5, <1>6, RowIs
<1>8. /\ file' \in [Files -> [ref : Nat, ip : Inums \cup {0}]]
      /\ \A g \in Files : file'[g].ref = file[g].ref + Row(p, g) /\ file'[g].ip = file[g].ip /\ file[g].ref \in Nat
  <2>1. file \in [Files -> [ref : Nat, ip : Inums \cup {0}]]
    BY DEF IInv, TypeOK
  <2>2. file' = [f \in Files |-> [file[f] EXCEPT !.ref = @ + Row(p, f)]]
    BY DEF fork, Row
  <2>3. ASSUME NEW g \in Files
        PROVE  /\ file'[g] \in [ref : Nat, ip : Inums \cup {0}] /\ file[g].ref \in Nat
               /\ file'[g].ref = file[g].ref + Row(p, g) /\ file'[g].ip = file[g].ip
    <3>1. PICK m, n : m = file[g] /\ n = Row(p, g)
      OBVIOUS
    <3>2. m \in [ref : Nat, ip : Inums \cup {0}] /\ n \in Nat
      BY <1>7, <2>1, <3>1
    <3>3. file'[g] = [m EXCEPT !.ref = @ + n]
      BY <2>2, <3>1
    <3> QED
      BY <3>1, <3>2, <3>3
  <2>4. DOMAIN file' = Files /\ file' = [f \in Files |-> file'[f]]
    BY <2>2
  <2> QED
    BY <2>3, <2>4
<1>9. HoldsMove(p, t) /\ holder' \in [Inums -> Procs \cup {None}]
  <2>1. \A j \in Inums : Claimed(t, j) = Claimed(todo[p], j)
    BY <1>3 DEF Weightless
  <2> QED
    BY <1>1, <2>1, HoldsNothing
<1>10. icache' = WithRef(icache, c) /\ cwd' = [cwd EXCEPT ![q] = c]
  BY <1>2 DEF fork, WithRef
<1>11. /\ Fits(icache')
       /\ \A k \in Inums : icache'[k].ref = icache[k].ref + Eq(c, k) /\ icache'[k].valid = icache[k].valid
       /\ \A k \in Inums : k # c => icache'[k] = icache[k]
  <2>1. Fits(icache)
    BY CacheFits
  <2> QED
    BY <1>4, <1>10, <2>1, RefFits
<1>12. Careful(p) /\ AllSound(p, t)'
  <2>1. Touches(p, c)
    BY <1>2 DEF Touches
  <2> QED
    BY <1>1, <1>3, <1>11, <2>1 DEF Careful, AllSound
<1>13. cwd' \in [Procs -> Inums \cup {0}] /\ cwd'[q] = c /\ \A x \in Procs \ {q} : cwd'[x] = cwd[x]
  BY <1>4, <1>10
<1>14. RefsMove(p, t)
  <2>1. ASSUME NEW k \in Inums PROVE icache'[k].ref = icache[k].ref - Kept(k) + Kept(k)' - Refs(todo[p], k) + Refs(t, k)
    <3>1. icache'[k].ref = icache[k].ref + Eq(c, k) /\ icache[k].ref \in Nat /\ Eq(c, k) \in Nat /\ Eq(z, k) = 0
      BY <1>2, <1>4, <1>11 DEF IInv, TypeOK, Eq
    <3>2. Refs(todo[p], k) = 0 /\ Refs(t, k) = 0
      BY <1>3 DEF Weightless
    <3>3. PICK u, v, w : u = Fiber(cwd, Procs, k) /\ v = Fiber(cwd', Procs, k) /\ w = Fiber(IpOf, Files, k)
      OBVIOUS
    <3>4. c \in Inums \cup {0} /\ cwd[q] = z
      BY <1>1, <1>2, <1>4
    <3>5. v = u - Eq(z, k) + Eq(c, k) /\ u \in Nat /\ v \in Nat
      BY <1>10, <3>3, <3>4, CwdChange
    <3>6. IpOf' = IpOf
      BY <1>8 DEF IpOf
    <3>7. Kept(k) = u + w /\ Kept(k)' = v + w /\ w \in Nat
      BY <3>3, <3>6, Constants, FiberIs DEF Kept
    <3> QED
      BY <3>1, <3>2, <3>5, <3>7
  <2> QED
    BY <2>1 DEF RefsMove
<1>15. FilesMove(p, t)
  <2>1. ASSUME NEW g \in Files PROVE file'[g].ref = file[g].ref - Fd(g) + Fd(g)' - Closing(todo[p], g) + Closing(t, g)
    <3>1. Closing(todo[p], g) = 0 /\ Closing(t, g) = 0
      BY <1>3 DEF Weightless
    <3> QED
      BY <1>7, <1>8, <3>1
  <2> QED
    BY <2>1 DEF FilesMove
<1>16. ASSUME NEW g \in Files PROVE (file'[g].ref = 0 <=> file'[g].ip = 0) /\ (file'[g].ip # 0 => dinode[file'[g].ip].type # "free")
  <2>1. file'[g].ip = file[g].ip /\ (file[g].ref = 0 <=> file[g].ip = 0) /\ (file[g].ip # 0 => dinode[file[g].ip].type # "free")
    BY <1>8 DEF IInv, FilesBalance, InUse
  <2>2. file[g].ref = 0 => Fd(g) = 0
    <3>1. PICK n : n = Total(Closes(g))
      OBVIOUS
    <3>2. n \in Nat
      BY <3>1, Stacked, TotalNone DEF IInv, Total
    <3>3. file[g].ref = Fd(g) + n
      BY <3>1 DEF IInv, FilesBalance, Fd
    <3> QED
      BY <1>7, <3>2, <3>3
  <2>3. file'[g].ref = 0 <=> file[g].ref = 0
    BY <1>7, <1>8, <2>2
  <2> QED
    BY <2>1, <2>3
<1>17. ofile' \in [Procs -> [Fds -> Files \cup {None}]]
  BY <1>5
<1>18. ASSUME NEW x \in Procs, cwd'[x] = 0, NEW d \in Fds PROVE ofile'[x][d] = None
  <2>1. x # q /\ cwd[x] = 0
    BY <1>4, <1>13, <1>18
  <2> QED
    BY <1>5, <2>1 DEF IInv, FilesBalance
<1>19. ASSUME NEW x \in Procs, cwd'[x] # 0 PROVE dinode[cwd'[x]].type = "dir"
  BY <1>4, <1>13, <1>19 DEF IInv, InUse
<1>20. \A x \in Procs \ {p} : cwd'[x] = 0 => cwd[x] = 0
  BY <1>1, <1>13
<1>21. \A j \in Inums : Owed(t, j) = Owed(todo[p], j)
  BY <1>3 DEF Weightless
<1>22. Handles(p, t)
  BY <1>1, <1>3, <1>8, <1>9, <1>11, <1>12, <1>13, <1>14, <1>15, <1>16, <1>17, <1>18, <1>19, <1>20, <1>21 DEF Handles
<1> QED
  BY <1>22, HandlesStep

-----------------------------------------------------------------------------
(* The memory of a system that has just started.                            *)

NewCache == [i \in Inums |-> IF i = Root THEN [Uncached EXCEPT !.ref = 1] ELSE Uncached]
NewFiles == [f \in Files |-> Closed]
NewFds == [p \in Procs |-> [d \in Fds |-> None]]
NewCwd == [p \in Procs |-> IF p = InitProc THEN Root ELSE 0]

LEMMA NewCacheIs ==
  ASSUME NEW c, c = NewCache
  PROVE  c \in [Inums -> Inodes] /\ \A k \in Inums : c[k].ref = Eq(Root, k) /\ ~c[k].valid
<1>1. PICK u, r : u = Uncached /\ r = [u EXCEPT !.ref = 1]
  OBVIOUS
<1>2. u \in Inodes /\ u.ref = 0 /\ ~u.valid
  BY <1>1 DEF Uncached, Inodes, Types
<1>3. r \in Inodes /\ r.ref = 1 /\ ~r.valid
  BY <1>1, <1>2 DEF Inodes
<1>4. c = [i \in Inums |-> IF i = Root THEN r ELSE u]
  BY <1>1 DEF NewCache
<1> QED
  BY <1>2, <1>3, <1>4 DEF Eq

LEMMA NewFilesIs ==
  ASSUME NEW c, c = NewFiles
  PROVE  c \in [Files -> [ref : Nat, ip : Inums \cup {0}]] /\ \A f \in Files : c[f].ref = 0 /\ c[f].ip = 0
<1>1. PICK u : u = Closed
  OBVIOUS
<1>2. u \in [ref : Nat, ip : Inums \cup {0}] /\ u.ref = 0 /\ u.ip = 0
  BY <1>1 DEF Closed
<1> QED
  BY <1>1, <1>2 DEF NewFiles

LEMMA NewCwdIs ==
  ASSUME NEW c, c = NewCwd
  PROVE  /\ c \in [Procs -> Inums \cup {0}] /\ \A p \in Procs : c[p] \in {0, Root}
         /\ \A k \in Inums : Fiber(c, Procs, k) = Eq(Root, k)
<1>1. c \in [Procs -> Inums \cup {0}] /\ \A p \in Procs : c[p] = IF p = InitProc THEN Root ELSE 0
  BY Constants DEF NewCwd
<1>2. ASSUME NEW k \in Inums PROVE Fiber(c, Procs, k) = Eq(Root, k)
  <2>1. InitProc \in Procs /\ k # 0
    BY Constants
  <2>2. CASE k = Root
    <3>1. {p \in Procs : c[p] = k} = {InitProc}
      BY <1>1, <2>1, <2>2
    <3> QED
      BY <2>2, <3>1, FS_Singleton DEF Fiber, Eq
  <2>3. CASE k # Root
    <3>1. {p \in Procs : c[p] = k} = {}
      BY <1>1, <2>1, <2>3
    <3> QED
      BY <2>3, <3>1, FS_EmptySet DEF Fiber, Eq
  <2> QED
    BY <2>2, <2>3
<1> QED
  BY <1>1, <1>2

LEMMA NoFiber ==
  ASSUME NEW S, NEW g, NEW v, \A x \in S : g[x] # v
  PROVE  Fiber(g, S, v) = 0
<1>1. {x \in S : g[x] = v} = {}
  OBVIOUS
<1> QED
  BY <1>1, FS_EmptySet DEF Fiber

LEMMA NoTotal ==
  ASSUME NEW T \in Stacks, \A p \in Procs : T[p] = <<>>, NEW F
  PROVE  TotalIn(T, F) = 0
<1>1. \A p \in Procs : 1 .. Len(T[p]) = {}
  OBVIOUS
<1> QED
  BY <1>1, TotalNone

LEMMA CrashStep == ASSUME IInv, Crash PROVE IInv'
<1>1. /\ icache' = NewCache /\ file' = NewFiles /\ ofile' = NewFds /\ cwd' = NewCwd
      /\ dinode' = dinode /\ entries' = entries /\ lost' = lost /\ holder' = holder /\ todo' = todo
      /\ \A p \in Procs : todo[p] = <<>>
  BY DEF Crash, NewCache, NewFiles, NewFds, NewCwd, disk
<1>2. icache' \in [Inums -> Inodes] /\ \A k \in Inums : icache'[k].ref = Eq(Root, k) /\ ~icache'[k].valid
  BY <1>1, NewCacheIs
<1>3. file' \in [Files -> [ref : Nat, ip : Inums \cup {0}]] /\ \A f \in Files : file'[f].ref = 0 /\ file'[f].ip = 0
  BY <1>1, NewFilesIs
<1>4. /\ cwd' \in [Procs -> Inums \cup {0}] /\ \A p \in Procs : cwd'[p] \in {0, Root}
      /\ \A k \in Inums : Fiber(cwd', Procs, k) = Eq(Root, k)
  BY <1>1, NewCwdIs
<1>5. ofile' \in [Procs -> [Fds -> Files \cup {None}]] /\ \A p \in Procs, d \in Fds : ofile'[p][d] = None
  BY <1>1 DEF NewFds
<1>6. todo \in Stacks /\ todo' \in Stacks
  BY <1>1, Stacked DEF IInv
<1>7. \A F : Total(F)' = 0
  <2>1. PICK T : T = todo'
    OBVIOUS
  <2>2. T \in Stacks /\ \A p \in Procs : T[p] = <<>>
    BY <1>1, <1>6, <2>1
  <2>3. \A F : TotalIn(T, F) = 0
    BY <2>2, NoTotal
  <2> QED
    BY <2>1, <2>3 DEF Total
<1>8. TypeOK'
  BY <1>1, <1>2, <1>3, <1>4, <1>5 DEF IInv, TypeOK, Inodes
<1>9. Shapes' /\ HeldOnce'
  <2>1. \A i : Claims(i)' = Claims(i)
    BY DEF Claims
  <2> QED
    BY <1>1, <2>1 DEF IInv, Shapes, HeldOnce
<1>10. SoundFrames'
  <2>1. \A p \in Procs : Frames(todo'[p]) = {}
    BY <1>1, NoFrame
  <2> QED
    BY <2>1 DEF SoundFrames, AllSound
<1>11. Coherent'
  BY <1>2 DEF Coherent
<1>12. RefsBalance'
  <2>1. ASSUME NEW k \in Inums PROVE icache'[k].ref = Kept(k)' + Total(HasI(k))' + Total(HasIp(k))'
    <3>1. PICK g : g = IpOf'
      OBVIOUS
    <3>2. \A f \in Files : g[f] # k
      BY <1>3, <3>1, Constants DEF IpOf
    <3>3. Fiber(g, Files, k) = 0
      BY <3>2, NoFiber
    <3>4. Kept(k)' = Eq(Root, k) /\ Eq(Root, k) \in Nat
      BY <1>4, <3>1, <3>3 DEF Kept, Eq
    <3>5. HasI(k)' = HasI(k) /\ HasIp(k)' = HasIp(k)
      BY DEF HasI, HasIp
    <3>6. Total(HasI(k))' = 0 /\ Total(HasIp(k))' = 0
      BY <1>7, <3>5
    <3> QED
      BY <1>2, <3>4, <3>6
  <2> QED
    BY <2>1 DEF RefsBalance
<1>13. FilesBalance'
  <2>1. ASSUME NEW f \in Files PROVE file'[f].ref = Fiber(FdOf', Procs \X Fds, f) + Total(Closes(f))'
    <3>1. PICK g, S : g = FdOf' /\ S = Procs \X Fds
      OBVIOUS
    <3>2. ASSUME NEW x \in S PROVE g[x] # f
      <4>1. PICK q \in Procs, d \in Fds : x = <<q, d>>
        BY <3>1
      <4> QED
        BY <1>5, <3>1, <4>1, Constants DEF FdOf
    <3>3. Fiber(g, S, f) = 0
      BY <3>2, NoFiber
    <3>4. Total(Closes(f))' = 0
      <4>1. Closes(f)' = Closes(f)
        BY DEF Closes
      <4> QED
        BY <1>7, <4>1
    <3> QED
      BY <1>3, <3>1, <3>3, <3>4
  <2> QED
    BY <1>3, <1>5, <2>1 DEF FilesBalance
<1>14. LinksBalance'
  <2>1. \A i : OwesTo(i)' = OwesTo(i)
    BY DEF OwesTo, Owes
  <2>2. \A i : NamesOf(i)' = NamesOf(i) /\ SubdirsOf(i)' = SubdirsOf(i)
    BY <1>1 DEF NamesOf, EntryOf, SubdirsOf, DirOf, IsDir
  <2>3. \A i : Total(OwesTo(i))' = Total(OwesTo(i))
    BY <1>1, <2>1 DEF Total
  <2>4. LinksBalance /\ lost \subseteq Inums
    BY DEF IInv, TypeOK
  <2>5. \A i \in Inums \ lost' : dinode'[i].type # "free" =>
          dinode'[i].nlink = NamesOf(i)' + SubdirsOf(i)' + Total(OwesTo(i))' + (IF i = Root THEN 1 ELSE 0)
    BY <1>1, <2>2, <2>3, <2>4 DEF LinksBalance
  <2>6. \A i \in lost' : dinode'[i].type = "file" /\ dinode'[i].nlink >= NamesOf(i)' + Total(OwesTo(i))' + 1
    BY <1>1, <2>2, <2>3, <2>4 DEF LinksBalance
  <2> QED
    BY <1>1, <2>4, <2>5, <2>6 DEF LinksBalance
<1>15. InUse'
  BY <1>1, <1>3, <1>4 DEF InUse, IInv, LinksBalance
<1> QED
  BY <1>8, <1>9, <1>10, <1>11, <1>12, <1>13, <1>14, <1>15 DEF IInv

-----------------------------------------------------------------------------
LEMMA InitStep == ASSUME Init PROVE IInv
<1>1. /\ icache = NewCache /\ file = NewFiles /\ ofile = NewFds /\ cwd = NewCwd
      /\ holder = [i \in Inums |-> None] /\ lost = {}
      /\ todo \in [Procs -> {<<>>}] /\ \A p \in Procs : todo[p] = <<>>
  BY DEF Init, NewCache, NewFiles, NewFds, NewCwd
<1>2. /\ dinode \in [Inums -> [type : Types, nlink : Nat]]
      /\ dinode[Root].type = "dir" /\ dinode[Root].nlink = 1
      /\ \A i \in Inums : i # Root => dinode[i].type = "free"
  BY Constants DEF Init, Types
<1>3. /\ entries \in Directories
      /\ \A i \in Inums, n \in Names : entries[i][n] = 0
      /\ entries[Root]["."] = Root /\ \A i \in Inums : i # Root => entries[i]["."] = 0
  <2>1. \A n \in Names : n \notin Dots
    BY ConstantsAssumption
  <2>2. "." \in Dots
    BY DEF Dots
  <2>3. entries = [i \in Inums |-> [n \in Names \cup Dots |-> IF i = Root /\ n \in Dots THEN Root ELSE 0]]
    BY DEF Init
  <2> QED
    BY <2>1, <2>2, <2>3, Constants DEF Directories
<1>4. icache \in [Inums -> Inodes] /\ \A k \in Inums : icache[k].ref = Eq(Root, k) /\ ~icache[k].valid
  BY <1>1, NewCacheIs
<1>5. file \in [Files -> [ref : Nat, ip : Inums \cup {0}]] /\ \A f \in Files : file[f].ref = 0 /\ file[f].ip = 0
  BY <1>1, NewFilesIs
<1>6. /\ cwd \in [Procs -> Inums \cup {0}] /\ \A p \in Procs : cwd[p] \in {0, Root}
      /\ \A k \in Inums : Fiber(cwd, Procs, k) = Eq(Root, k)
  BY <1>1, NewCwdIs
<1>7. ofile \in [Procs -> [Fds -> Files \cup {None}]] /\ \A p \in Procs, d \in Fds : ofile[p][d] = None
  BY <1>1 DEF NewFds
<1>8. todo \in Stacks
  <2>1. <<>> \in Seq(FrameSet)
    OBVIOUS
  <2> QED
    BY <1>1, <2>1 DEF Stacks
<1>9. \A F : Total(F) = 0
  BY <1>1, <1>8, NoTotal DEF Total
<1>10. TypeOK
  BY <1>1, <1>2, <1>3, <1>4, <1>5, <1>6, <1>7 DEF TypeOK, Inodes, Directories
<1>11. Shapes
  BY <1>1, <1>8, InnerEmpty DEF Shapes, Stacks
<1>12. HeldOnce
  <2>1. \A F : Count(<<>>, F) = 0
    BY CountNone
  <2>2. \A i \in Inums, p \in Procs : holder[i] # p
    BY <1>1, Constants
  <2> QED
    BY <1>1, <2>1, <2>2 DEF HeldOnce
<1>13. SoundFrames
  BY <1>1, NoFrame DEF SoundFrames, AllSound
<1>14. Coherent
  BY <1>4 DEF Coherent
<1>15. RefsBalance
  <2>1. ASSUME NEW k \in Inums PROVE icache[k].ref = Kept(k) + Total(HasI(k)) + Total(HasIp(k))
    <3>1. \A f \in Files : IpOf[f] # k
      BY <1>5, Constants DEF IpOf
    <3>2. Fiber(IpOf, Files, k) = 0
      BY <3>1, NoFiber
    <3>3. Kept(k) = Eq(Root, k) /\ Eq(Root, k) \in Nat
      BY <1>6, <3>2 DEF Kept, Eq
    <3> QED
      BY <1>4, <1>9, <3>3
  <2> QED
    BY <2>1 DEF RefsBalance
<1>16. FilesBalance
  <2>1. ASSUME NEW f \in Files PROVE file[f].ref = Fiber(FdOf, Procs \X Fds, f) + Total(Closes(f))
    <3>1. PICK S : S = Procs \X Fds
      OBVIOUS
    <3>2. ASSUME NEW x \in S PROVE FdOf[x] # f
      <4>1. PICK q \in Procs, d \in Fds : x = <<q, d>>
        BY <3>1
      <4> QED
        BY <1>7, <3>1, <4>1, Constants DEF FdOf
    <3>3. Fiber(FdOf, S, f) = 0
      BY <3>2, NoFiber
    <3> QED
      BY <1>5, <1>9, <3>1, <3>3
  <2> QED
    BY <1>5, <1>7, <2>1 DEF FilesBalance
<1>17. LinksBalance
  <2>1. ASSUME NEW i \in Inums PROVE NamesOf(i) = 0
    <3>1. PICK S : S = Inums \X Names
      OBVIOUS
    <3>2. \A x \in S : EntryOf[x] # i
      BY <1>3, <3>1, Constants DEF EntryOf
    <3> QED
      BY <3>1, <3>2, NoFiber DEF NamesOf
  <2>2. ASSUME NEW i \in Inums PROVE SubdirsOf(i) = 0
    <3>1. PICK v : v = TRUE
      OBVIOUS
    <3>2. ASSUME NEW n \in Names PROVE DirOf(i)[n] # v
      <4>1. DirOf(i)[n] = IsDir(entries[i][n])
        BY DEF DirOf
      <4>2. ~IsDir(entries[i][n])
        BY <1>3 DEF IsDir
      <4> QED
        BY <3>1, <4>1, <4>2, Zenon DEF IsDir
    <3>3. Fiber(DirOf(i), Names, v) = 0
      BY <3>2, NoFiber, Zenon
    <3> QED
      BY <3>1, <3>3, Zenon DEF SubdirsOf
  <2> QED
    BY <1>1, <1>2, <1>3, <1>9, <2>1, <2>2, Constants DEF LinksBalance
<1>18. InUse
  BY <1>2, <1>5, <1>6 DEF InUse
<1> QED
  BY <1>10, <1>11, <1>12, <1>13, <1>14, <1>15, <1>16, <1>17, <1>18 DEF IInv

-----------------------------------------------------------------------------
LEMMA Stutters == ASSUME IInv, UNCHANGED vars PROVE IInv'
<1>1. /\ dinode' = dinode /\ entries' = entries /\ icache' = icache /\ holder' = holder
      /\ file' = file /\ ofile' = ofile /\ cwd' = cwd /\ todo' = todo /\ lost' = lost
  BY DEF vars, disk, inodes, opened
<1>2. TypeOK'
  BY <1>1 DEF IInv, TypeOK
<1>3. Shapes' /\ Coherent' /\ InUse'
  BY <1>1 DEF IInv, Shapes, Coherent, InUse
<1>4. SoundFrames'
  BY <1>1 DEF IInv, SoundFrames, AllSound, Sound
<1>5. HeldOnce'
  <2>1. \A i : Claims(i)' = Claims(i)
    BY DEF Claims
  <2> QED
    BY <1>1, <2>1 DEF IInv, HeldOnce
<1>6. \A F : TotalIn(todo', F) = TotalIn(todo, F)
  BY <1>1
<1>7. RefsBalance'
  <2>1. \A i : HasI(i)' = HasI(i) /\ HasIp(i)' = HasIp(i)
    BY DEF HasI, HasIp
  <2>2. \A i : Kept(i)' = Kept(i)
    BY <1>1 DEF Kept, IpOf
  <2> QED
    BY <1>1, <2>1, <2>2 DEF IInv, RefsBalance, Total
<1>8. FilesBalance'
  <2>1. \A f : Closes(f)' = Closes(f)
    BY DEF Closes
  <2> QED
    BY <1>1, <2>1 DEF IInv, FilesBalance, FdOf, Total
<1>9. LinksBalance'
  <2>1. \A i : OwesTo(i)' = OwesTo(i)
    BY DEF OwesTo, Owes
  <2>2. \A i : NamesOf(i)' = NamesOf(i) /\ SubdirsOf(i)' = SubdirsOf(i)
    BY <1>1 DEF NamesOf, EntryOf, SubdirsOf, DirOf, IsDir
  <2>3. \A i : Total(OwesTo(i))' = Total(OwesTo(i))
    BY <1>1, <2>1 DEF Total
  <2> QED
    BY <1>1, <2>2, <2>3 DEF IInv, LinksBalance
<1> QED
  BY <1>2, <1>3, <1>4, <1>5, <1>7, <1>8, <1>9 DEF IInv

LEMMA GoodPaths == ASSUME NoDotDot PROVE Paths \subseteq GoodPath
  BY DEF NoDotDot, GoodPath, Elems

LEMMA BeginStep == ASSUME IInv, NoDotDot, NEW p \in Procs, Begin(p) PROVE IInv'
<1>1. ASSUME NEW path \in Paths, sys_mkdir(p, path) PROVE IInv'
  BY <1>1, GoodPaths, MkdirStep
<1>2. ASSUME NEW path \in Paths, sys_unlink(p, path) PROVE IInv'
  BY <1>2, GoodPaths, UnlinkStep
<1>3. ASSUME NEW path \in Paths, sys_chdir(p, path) PROVE IInv'
  BY <1>3, GoodPaths, ChdirCall
<1>4. ASSUME NEW path \in Paths, NEW new \in Paths, sys_link(p, path, new) PROVE IInv'
  BY <1>4, GoodPaths, LinkStep
<1>5. ASSUME NEW path \in Paths, NEW mode \in {"create", "read", "write"}, sys_open(p, path, mode) PROVE IInv'
  BY <1>5, GoodPaths, OpenStep
<1>6. ASSUME NEW q \in Procs, fork(p, q) PROVE IInv'
  BY <1>6, ForkStep
<1> QED
  BY <1>1, <1>2, <1>3, <1>4, <1>5, <1>6, DupStep, CloseStep, ExitStep, Zenon DEF Begin

LEMMA WorkStep == ASSUME IInv, NEW p \in Procs, Work(p) PROVE IInv'
  BY IputTestStep, IputFreeStep, IputUnrefStep, IunlockputStepStep, WalkElementStep, LinkCountStep, LinkEntryStep,
     LinkBadStep, UnlinkLookupStep, UnlinkEntryStep, UnlinkCountStep, CreateFoundStep, CreateReturnStep, CreateNewStep,
     OpenExistingStep, OpenFileStep, ChdirStep, FilecloseStep, Zenon DEF Work

LEMMA NextStep == ASSUME IInv, NoDotDot, [Next]_vars PROVE IInv'
<1>1. CASE Next
  <2>1. ASSUME NEW p \in Procs, Begin(p) PROVE IInv'
    BY <2>1, BeginStep
  <2>2. ASSUME NEW p \in Procs, Work(p) PROVE IInv'
    BY <2>2, WorkStep
  <2> QED
    BY <1>1, <2>1, <2>2, CrashStep, Zenon DEF Next
<1>2. CASE UNCHANGED vars
  BY <1>2, Stutters
<1> QED
  BY <1>1, <1>2

-----------------------------------------------------------------------------
(* The invariant in the model's own terms.                                  *)

LEMMA DueFrames ==
  ASSUME IInv
  PROVE  /\ Due = DueIn(todo)
         /\ \A d \in Due : Todo(d) = todo[d[1]][d[2]] /\ Todo(d) \in FrameSet
<1>1. Due = DueIn(todo)
  BY DEF Due, DueIn
<1>2. ASSUME NEW d \in Due PROVE Todo(d) \in FrameSet
  <2>1. PICK p \in Procs : d \in {<<p, k>> : k \in DOMAIN todo[p]}
    BY DEF Due
  <2>2. PICK k \in DOMAIN todo[p] : d = <<p, k>>
    BY <2>1
  <2>3. todo[p] \in Seq(FrameSet)
    BY Stacked DEF IInv
  <2> QED
    BY <2>2, <2>3 DEF Todo
<1> QED
  BY <1>1, <1>2 DEF Todo

LEMMA TotalDue ==
  ASSUME IInv, NEW F, NEW D, D \subseteq Due, \A d \in Due : d \in D <=> Todo(d) \in F
  PROVE  Total(F) = Cardinality(D)
<1>1. D = {d \in DueIn(todo) : todo[d[1]][d[2]] \in F}
  BY DueFrames
<1> QED
  BY <1>1, Zenon DEF Total, TotalIn

LEMMA CountsRefs == ASSUME IInv PROVE RefsCounted
<1> SUFFICES ASSUME NEW i \in Inums
             PROVE  icache[i].ref = Cardinality({p \in Procs : cwd[p] = i}) + Cardinality({f \in Files : file[f].ip = i})
                                    + Cardinality({d \in Due : Todo(d).i = i}) + Cardinality({d \in Due : Todo(d).ip = i})
  BY DEF RefsCounted
<1>1. PICK a, b, c, e : /\ a = {p \in Procs : cwd[p] = i} /\ b = {f \in Files : file[f].ip = i}
                        /\ c = {d \in Due : Todo(d).i = i} /\ e = {d \in Due : Todo(d).ip = i}
  OBVIOUS
<1>2. Fiber(cwd, Procs, i) = Cardinality(a)
  BY <1>1 DEF Fiber
<1>3. Fiber(IpOf, Files, i) = Cardinality(b)
  <2>1. {f \in Files : IpOf[f] = i} = b
    BY <1>1 DEF IpOf
  <2> QED
    BY <2>1, Zenon DEF Fiber
<1>4. Total(HasI(i)) = Cardinality(c)
  <2>1. c \subseteq Due /\ \A d \in Due : d \in c <=> Todo(d) \in HasI(i)
    BY <1>1, DueFrames DEF HasI
  <2> QED
    BY <2>1, TotalDue
<1>5. Total(HasIp(i)) = Cardinality(e)
  <2>1. e \subseteq Due /\ \A d \in Due : d \in e <=> Todo(d) \in HasIp(i)
    BY <1>1, DueFrames DEF HasIp
  <2> QED
    BY <2>1, TotalDue
<1>6. icache[i].ref = Fiber(cwd, Procs, i) + Fiber(IpOf, Files, i) + Total(HasI(i)) + Total(HasIp(i))
  BY DEF IInv, RefsBalance, Kept
<1>7. icache[i].ref = Cardinality(a) + Cardinality(b) + Cardinality(c) + Cardinality(e)
  BY <1>2, <1>3, <1>4, <1>5, <1>6
<1> QED
  BY <1>1, <1>7, Zenon

LEMMA CountsFiles == ASSUME IInv PROVE FilesCounted
<1> SUFFICES ASSUME NEW f \in Files
             PROVE  file[f].ref = Cardinality({x \in Procs \X Fds : ofile[x[1]][x[2]] = f})
                                  + Cardinality({d \in Due : Todo(d).do = "fileclose" /\ Todo(d).arg = f})
  BY DEF FilesCounted
<1>1. PICK a, c : /\ a = {x \in Procs \X Fds : ofile[x[1]][x[2]] = f}
                  /\ c = {d \in Due : Todo(d).do = "fileclose" /\ Todo(d).arg = f}
  OBVIOUS
<1>2. Fiber(FdOf, Procs \X Fds, f) = Cardinality(a)
  <2>1. {x \in Procs \X Fds : FdOf[x] = f} = a
    BY <1>1 DEF FdOf
  <2> QED
    BY <2>1, Zenon DEF Fiber
<1>3. Total(Closes(f)) = Cardinality(c)
  <2>1. c \subseteq Due /\ \A d \in Due : d \in c <=> Todo(d) \in Closes(f)
    BY <1>1, DueFrames DEF Closes
  <2> QED
    BY <2>1, TotalDue
<1>4. file[f].ref = Fiber(FdOf, Procs \X Fds, f) + Total(Closes(f))
  BY DEF IInv, FilesBalance
<1>5. file[f].ref = Cardinality(a) + Cardinality(c)
  BY <1>2, <1>3, <1>4
<1> QED
  BY <1>1, <1>5, Zenon

LEMMA CountsLinks == ASSUME IInv PROVE LinksCounted
<1> SUFFICES ASSUME NEW i \in Inums \ lost, dinode[i].type # "free"
             PROVE  dinode[i].nlink = Cardinality({x \in Inums \X Names : entries[x[1]][x[2]] = i})
                                      + Cardinality({n \in Names : entries[i][n] # 0 /\ dinode[entries[i][n]].type = "dir"})
                                      + Cardinality({d \in Due : Owes(Todo(d), i)})
                                      + (IF i = Root THEN 1 ELSE 0)
  BY DEF LinksCounted
<1>1. PICK a, b, c : /\ a = {x \in Inums \X Names : entries[x[1]][x[2]] = i}
                     /\ b = {n \in Names : entries[i][n] # 0 /\ dinode[entries[i][n]].type = "dir"}
                     /\ c = {d \in Due : Owes(Todo(d), i)}
  OBVIOUS
<1>2. NamesOf(i) = Cardinality(a)
  <2>1. {x \in Inums \X Names : EntryOf[x] = i} = a
    BY <1>1 DEF EntryOf
  <2> QED
    BY <2>1, Zenon DEF NamesOf, Fiber
<1>3. SubdirsOf(i) = Cardinality(b)
  <2>1. PICK v : v = TRUE
    OBVIOUS
  <2>2. ASSUME NEW n \in Names PROVE DirOf(i)[n] = v <=> n \in b
    <3>1. DirOf(i)[n] = IsDir(entries[i][n])
      BY DEF DirOf
    <3>2. n \in b <=> IsDir(entries[i][n])
      BY <1>1 DEF IsDir
    <3>3. IsDir(entries[i][n]) \in BOOLEAN
      BY DEF IsDir
    <3> QED
      BY <2>1, <3>1, <3>2, <3>3, Zenon
  <2>3. {n \in Names : DirOf(i)[n] = v} = b
    BY <1>1, <2>2
  <2> QED
    BY <2>1, <2>3, Zenon DEF SubdirsOf, Fiber
<1>4. Total(OwesTo(i)) = Cardinality(c)
  <2>1. c \subseteq Due /\ \A d \in Due : d \in c <=> Todo(d) \in OwesTo(i)
    BY <1>1, DueFrames DEF OwesTo
  <2> QED
    BY <2>1, TotalDue
<1>5. dinode[i].nlink = NamesOf(i) + SubdirsOf(i) + Total(OwesTo(i)) + (IF i = Root THEN 1 ELSE 0)
  BY DEF IInv, LinksBalance
<1>6. dinode[i].nlink = Cardinality(a) + Cardinality(b) + Cardinality(c) + (IF i = Root THEN 1 ELSE 0)
  BY <1>2, <1>3, <1>4, <1>5
<1> QED
  BY <1>1, <1>6, Zenon

LEMMA AccountsLocks == ASSUME IInv PROVE LocksAccounted
<1> SUFFICES ASSUME NEW i \in Inums, NEW p \in Procs
             PROVE  holder[i] = p <=> \E k \in DOMAIN todo[p] :
                      \/ todo[p][k].i = i /\ todo[p][k].do \in {"itrunc", "iunlockput", "unlink_count", "opened"}
                      \/ todo[p][k].ip = i /\ todo[p][k].do = "unlink_ip"
  BY DEF LocksAccounted
<1>1. todo[p] \in Seq(FrameSet)
  BY Stacked DEF IInv
<1>2. \A k \in DOMAIN todo[p] : todo[p][k] \in Claims(i) <=>
        \/ todo[p][k].i = i /\ todo[p][k].do \in {"itrunc", "iunlockput", "unlink_count", "opened"}
        \/ todo[p][k].ip = i /\ todo[p][k].do = "unlink_ip"
  BY <1>1 DEF Claims
<1>3. Count(todo[p], Claims(i)) = 0 <=> \A k \in DOMAIN todo[p] : todo[p][k] \notin Claims(i)
  BY <1>1, CountIs
<1>4. Count(todo[p], Claims(i)) = IF holder[i] = p THEN 1 ELSE 0
  BY DEF IInv, HeldOnce
<1> QED
  BY <1>2, <1>3, <1>4

LEMMA AllocatesUsed == ASSUME IInv PROVE UsedIsAllocated
  BY DEF IInv, LinksBalance, InUse, FilesBalance, UsedIsAllocated, TypeOK

LEMMA DoesNotPanic == ASSUME IInv PROVE NoInodePanic
<1>1. ~NoType
  BY DEF IInv, Coherent, NoType, TypeOK
<1>2. ASSUME NEW p \in Procs, At(p, "panic") PROVE Top(p).arg # "unlink: nlink < 1"
  <2>1. todo[p] # <<>> /\ Top(p).do = "panic"
    BY <1>2 DEF At, Top
  <2>2. FrameOK(Top(p))
    BY <2>1, TopIs
  <2>3. Top(p).arg = "ialloc: no inodes"
    BY <2>1, <2>2 DEF FrameOK
  <2> QED
    BY <2>3
<1> QED
  BY <1>1, <1>2 DEF NoInodePanic

-----------------------------------------------------------------------------
LEMMA Implied == ASSUME IInv PROVE FilesInv
  BY CountsRefs, CountsFiles, CountsLinks, AccountsLocks, AllocatesUsed, DoesNotPanic DEF IInv, FilesInv

\* The invariant is inductive.
LEMMA Invariance == NoDotDot => (Spec => []IInv)
<1>1. SUFFICES ASSUME NoDotDot PROVE Spec => []IInv
  OBVIOUS
<1>2. Init => IInv
  BY InitStep
<1>3. IInv /\ [Next]_vars => IInv'
  BY <1>1, NextStep
<1> QED
  BY <1>2, <1>3, PTL DEF Spec

(* For paths without "..": however the system calls of any number of        *)
(* processes interleave, each inode's ref is the number of the uses of it   *)
(* (iget(), idup(), iput()), each file's that of its descriptors (filedup(),*)
(* fileclose()), each nlink that of the names and subdirectories (link(),   *)
(* unlink(), create()); every sleep-lock is held by the process that is to  *)
(* release it; no inode in use is free, and ilock() and unlink() do not     *)
(* panic.                                                                   *)
THEOREM FilesCorrect == NoDotDot => (Spec => []FilesInv)
<1>1. IInv => FilesInv
  BY Implied
<1> QED
  BY <1>1, Invariance, PTL

-----------------------------------------------------------------------------
(* The refinement of Namespace: most steps change neither what an inode is  *)
(* nor what a name stands for, and four do what Namespace says.             *)

Kinds == [i \in Inums |-> dinode[i].type]
NamesIn == [i \in Inums |-> [n \in Names |-> entries[i][n]]]
UsedBy == ({cwd[p] : p \in Procs} \cup {file[f].ip : f \in Files}) \ {0}

Uses == /\ \A i \in Inums : dinode'[i].type = dinode[i].type
        /\ \A i \in Inums, n \in Names : entries'[i][n] = entries[i][n]

LEMMA UsesAll == ASSUME IInv, IInv', Uses PROVE Abstract!Use
<1>1. Kinds' = Kinds /\ NamesIn' = NamesIn
  BY DEF Uses, Kinds, NamesIn
<1>2. UsedBy' \subseteq {i \in Inums : Kinds[i] # "free"}
  <2>1. ASSUME NEW i \in UsedBy' PROVE i \in Inums /\ dinode'[i].type # "free"
    <3>1. CASE \E p \in Procs : cwd'[p] = i /\ i # 0
      BY <3>1 DEF IInv, InUse, TypeOK
    <3>2. CASE \E f \in Files : file'[f].ip = i /\ i # 0
      BY <3>2 DEF IInv, InUse, TypeOK
    <3> QED
      BY <2>1, <3>1, <3>2 DEF UsedBy
  <2> QED
    BY <2>1 DEF Uses, Kinds
<1> QED
  BY <1>1, <1>2 DEF Abstract!Use, Kinds, NamesIn, UsedBy

LEMMA DiskUses == ASSUME UNCHANGED disk PROVE Uses
  BY DEF Uses, disk

LEMMA KindUses ==
  ASSUME IInv, entries' = entries, NEW i \in Inums, NEW in, Iupdate(i, in), in.type = dinode[i].type
  PROVE  Uses
<1>1. dinode \in [Inums -> [type : Types, nlink : Nat]]
  BY DEF IInv, TypeOK
<1> QED
  BY <1>1 DEF Iupdate, Uses

LEMMA LinkCountUses == ASSUME IInv, NEW p \in Procs, LinkCount(p) PROVE Uses
<1>1. PICK i : i = Top(p).i
  OBVIOUS
<1>2. todo[p] # <<>> /\ Top(p).do = "link"
  BY DEF LinkCount, At, Top
<1>3. i \in Inums /\ dinode[i].type # "free"
  BY <1>1, <1>2, TopIs DEF Waiting, Waiters, Sound
<1>4. Ilocked(i) \in Inodes /\ Ilocked(i).type = dinode[i].type
  BY <1>3, LockedFits
<1>5. PICK in, more : in = Ilocked(i) /\ more = [in EXCEPT !.nlink = @ + 1]
  OBVIOUS
<1>6. more.type = dinode[i].type
  BY <1>4, <1>5 DEF Inodes
<1>7. entries' = entries /\ (dinode' = dinode \/ Iupdate(i, more))
  BY <1>1, <1>5 DEF LinkCount
<1> QED
  BY <1>3, <1>6, <1>7, DiskUses, KindUses DEF disk

LEMMA LinkBadUses == ASSUME IInv, NEW p \in Procs, LinkBad(p) PROVE Uses
<1>1. PICK i : i = Top(p).i
  OBVIOUS
<1>2. todo[p] # <<>> /\ Top(p).do = "link_bad"
  BY DEF LinkBad, At, Top
<1>3. i \in Inums /\ dinode[i].type # "free"
  BY <1>1, <1>2, TopIs DEF FrameOK, Sound
<1>4. Ilocked(i) \in Inodes /\ Ilocked(i).type = dinode[i].type
  BY <1>3, LockedFits
<1>5. PICK in, less : in = Ilocked(i) /\ less = [in EXCEPT !.nlink = @ - 1]
  OBVIOUS
<1>6. less.type = dinode[i].type
  BY <1>4, <1>5 DEF Inodes
<1>7. entries' = entries /\ Iupdate(i, less)
  BY <1>1, <1>5 DEF LinkBad
<1> QED
  BY <1>3, <1>6, <1>7, KindUses

LEMMA UnlinkCountUses == ASSUME IInv, NEW p \in Procs, UnlinkCount(p) PROVE Uses
<1>1. PICK i : i = Top(p).i
  OBVIOUS
<1>2. todo[p] # <<>> /\ Top(p).do = "unlink_count"
  BY DEF UnlinkCount, At, Top
<1>3. i \in Inums /\ icache[i].valid
  BY <1>1, <1>2, TopIs DEF FrameOK, Sound
<1>4. icache[i] \in Inodes /\ icache[i].type = dinode[i].type
  BY <1>3, CacheFits DEF Fits
<1>5. PICK in, less : in = icache[i] /\ less = [in EXCEPT !.nlink = @ - 1]
  OBVIOUS
<1>6. less.type = dinode[i].type
  BY <1>4, <1>5 DEF Inodes
<1>7. entries' = entries /\ Iupdate(i, less)
  BY <1>1, <1>5 DEF UnlinkCount
<1> QED
  BY <1>3, <1>6, <1>7, KindUses

\* itrunc() of an inode that nobody has.
LEMMA FreeSeen ==
  ASSUME IInv, NEW p \in Procs, IputFree(p)
  PROVE  \E i \in Inums : Abstract!Free(i)
<1>1. PICK i : i = Top(p).i
  OBVIOUS
<1>2. todo[p] # <<>> /\ Top(p).do = "itrunc"
  BY DEF IputFree, At, Top
<1>3. Gone(p, i)
  BY <1>1, <1>2, GoneIs
<1>4. /\ Iupdate(i, [type |-> "free", nlink |-> icache[i].nlink])
      /\ entries' = [entries EXCEPT ![i] = NoEntries]
      /\ lost' = (lost \ {i}) \cup ({entries[i][n] : n \in Names} \ {0})
      /\ file' = file /\ cwd' = cwd
  BY <1>1 DEF IputFree, opened
<1>5. i \in Inums /\ Kinds[i] # "free" /\ i # 0
  BY <1>3 DEF Gone, Kinds
<1>6. Freed(i)
  BY <1>4, <1>5, FreedIs
<1>7. Kinds' = [Kinds EXCEPT ![i] = "free"]
  BY <1>5, <1>6 DEF Freed, Kinds
<1>8. NamesIn' = [NamesIn EXCEPT ![i] = [n \in Names |-> 0]]
  BY <1>5, <1>6 DEF Freed, NamesIn
<1>9. \A d \in Inums, n \in Names : NamesIn[d][n] # i
  BY <1>3 DEF Gone, Named, NamesIn
<1>10. i \notin UsedBy
  <2>1. PICK k \in 1 .. Len(todo[p]) : todo[p][k] = Top(p)
    BY <1>2, TopIs DEF Frames
  <2>2. /\ \A q \in Procs : cwd[q] # i
        /\ \A f \in Files : file[f].ip # i
    BY <1>1, <1>3, <1>5, <2>1, RefOf DEF Gone, Alone
  <2> QED
    BY <2>2 DEF UsedBy
<1>11. UsedBy' = UsedBy
  BY <1>4 DEF UsedBy
<1>12. ~Abstract!Named(i)
  BY <1>9 DEF Abstract!Named, NamesIn
<1>13. Abstract!Free(i)
  BY <1>5, <1>7, <1>8, <1>10, <1>11, <1>12, Zenon DEF Abstract!Free, Abstract!NoNames, Kinds, NamesIn, UsedBy
<1> QED
  BY <1>5, <1>13

\* dirlink() of link(), if the name is new.
LEMMA LinkSeen ==
  ASSUME IInv, NEW p \in Procs, LinkEntry(p)
  PROVE  Uses \/ \E i, d \in Inums, n \in Names : Abstract!Link(d, n, i)
<1>1. PICK f, d, i, n : f = Top(p) /\ d = f.i /\ i = f.ip /\ n = LastName(f)
  OBVIOUS
<1>2. todo[p] # <<>> /\ f.do = "link_dp" /\ dinode' = dinode
  BY <1>1 DEF LinkEntry, At, Top
<1>3. d \in Inums /\ i \in Inums /\ n \in Names \cup {"."} /\ dinode[d].type = "dir" /\ dinode[i].type = "file"
  BY <1>1, <1>2, LinkDpIs
<1>4. CASE entries[d][n] # 0
  <2>1. entries' = entries
    BY <1>1, <1>4 DEF LinkEntry
  <2> QED
    BY <1>2, <2>1 DEF Uses
<1>5. CASE entries[d][n] = 0
  <2>1. LinksBalance /\ entries \in Directories
    BY DEF IInv, TypeOK, Directories
  <2>2. n \in Names
    BY <1>3, <1>5, <2>1, Constants DEF LinksBalance
  <2>3. entries' = WithEntry(entries, d, n, i) /\ cwd' = cwd /\ file' = file
    BY <1>1, <1>5 DEF LinkEntry, WithEntry, opened
  <2>4. NamesIn' = [NamesIn EXCEPT ![d][n] = i]
    BY <1>3, <2>1, <2>2, <2>3 DEF NamesIn, WithEntry, Directories
  <2>5. Kinds' = Kinds /\ Kinds[d] = "dir" /\ Kinds[i] = "file" /\ NamesIn[d][n] = 0 /\ UsedBy' = UsedBy
    BY <1>2, <1>3, <1>5, <2>2, <2>3 DEF Kinds, NamesIn, UsedBy
  <2>6. Abstract!Link(d, n, i)
    BY <2>4, <2>5, Zenon DEF Abstract!Link, Kinds, NamesIn, UsedBy
  <2> QED
    BY <1>3, <2>2, <2>6
<1> QED
  BY <1>4, <1>5

\* unlink() writes an empty entry over the name of a file or an empty directory.
LEMMA UnlinkSeen ==
  ASSUME IInv, NEW p \in Procs, UnlinkEntry(p)
  PROVE  Uses \/ \E d \in Inums, n \in Names : Abstract!Unlink(d, n)
<1>1. PICK d, i, n : d = Top(p).ip /\ i = Top(p).i /\ n = LastName(Top(p))
  OBVIOUS
<1>2. Unlinking(p, d, i, n)
  BY <1>1, UnlinkingIs
<1>3. /\ d \in Inums /\ i \in Inums /\ n \in Names /\ entries[d][n] = i /\ i # 0 /\ dinode[d].type = "dir"
      /\ icache[d].valid /\ Ilocked(i).type = dinode[i].type
  BY <1>2, Constants DEF Unlinking
<1>4. \/ UNCHANGED disk
      \/ /\ Ilocked(i).type = "dir" => isdirempty(i)
         /\ entries' = WithEntry(entries, d, n, 0)
         /\ Iupdate(d, [icache[d] EXCEPT !.nlink = IF Ilocked(i).type = "dir" THEN @ - 1 ELSE @])
         /\ cwd' = cwd /\ file' = file
  BY <1>1, Zenon DEF UnlinkEntry, WithEntry, opened, disk
<1>5. CASE UNCHANGED disk
  BY <1>5, DiskUses
<1>6. CASE /\ Ilocked(i).type = "dir" => isdirempty(i)
           /\ entries' = WithEntry(entries, d, n, 0)
           /\ Iupdate(d, [icache[d] EXCEPT !.nlink = IF Ilocked(i).type = "dir" THEN @ - 1 ELSE @])
           /\ cwd' = cwd /\ file' = file
  <2>1. LinksBalance /\ entries \in Directories /\ dinode \in [Inums -> [type : Types, nlink : Nat]]
    BY DEF IInv, TypeOK, Directories
  <2>2. \A m \in Names : entries[i][m] = 0
    BY <1>3, <1>6, <2>1 DEF LinksBalance, isdirempty
  <2>3. PICK c, v : c = icache[d] /\ v = IF Ilocked(i).type = "dir" THEN c.nlink - 1 ELSE c.nlink
    OBVIOUS
  <2>4. c \in Inodes /\ c.type = "dir"
    BY <1>3, <2>3, CacheFits DEF Fits
  <2>5. PICK parent : parent = [c EXCEPT !.nlink = v]
    OBVIOUS
  <2>6. Iupdate(d, parent) /\ parent.type = "dir"
    BY <1>6, <2>3, <2>4, <2>5 DEF Inodes
  <2>7. Kinds' = Kinds
    BY <1>3, <2>1, <2>6 DEF Kinds, Iupdate
  <2>8. NamesIn' = [NamesIn EXCEPT ![d][n] = 0]
    BY <1>3, <1>6, <2>1 DEF NamesIn, WithEntry, Directories
  <2>9. NamesIn[d][n] = i /\ NamesIn[i] = [m \in Names |-> 0] /\ UsedBy' = UsedBy
    BY <1>3, <1>6, <2>2 DEF NamesIn, UsedBy
  <2>10. NamesIn[d][n] # 0 /\ NamesIn[NamesIn[d][n]] = [m \in Names |-> 0]
    BY <1>3, <2>9
  <2>11. Abstract!Unlink(d, n)
    BY <2>7, <2>8, <2>9, <2>10, Zenon DEF Abstract!Unlink, Abstract!NoNames, Kinds, NamesIn, UsedBy
  <2> QED
    BY <1>3, <2>11
<1> QED
  BY <1>4, <1>5, <1>6

\* create() of a name that is new.
LEMMA CreateSeen ==
  ASSUME IInv, NEW p \in Procs, CreateNew(p)
  PROVE  Uses \/ \E i, d \in Inums, n \in Names, k \in {"file", "dir"} : Abstract!Create(d, n, i, k)
<1>1. PICK d, n, arg, r : d = Top(p).i /\ n = LastName(Top(p)) /\ arg = Top(p).arg /\ r = Rest(p)
  OBVIOUS
<1>2. Creating(p, d, n, arg, r)
  BY <1>1, CreatingIs
<1>3. CASE FreeInums = {}
  <2>1. UNCHANGED disk
    BY <1>3 DEF CreateNew
  <2> QED
    BY <2>1, DiskUses
<1>4. CASE FreeInums # {}
  <2>1. PICK i, in, parent, dir, t : Creates(p, d, n, arg, r, i, in, parent, dir, t)
    BY <1>1, <1>2, <1>4, CreateIs
  <2>2. Created(d, n, arg, i)
    BY <1>2, <2>1, CreatedIs
  <2>3. /\ d \in Inums /\ n \in Names /\ i \in Inums /\ arg \in {"file", "dir"} /\ d # i
        /\ entries[d][n] = 0 /\ dinode[d].type = "dir" /\ dinode[i].type = "free"
        /\ cwd' = cwd /\ file' = file
    BY <1>2, <2>1, <2>2 DEF Creating, Creates, Created, opened
  <2>4. Kinds' = [Kinds EXCEPT ![i] = arg]
    BY <2>2, <2>3 DEF Created, Kinds
  <2>5. NamesIn' = [NamesIn EXCEPT ![d][n] = i, ![i] = [m \in Names |-> 0]]
    <3>1. PICK a, b : a = NamesIn /\ b = NamesIn'
      OBVIOUS
    <3>2. a \in [Inums -> [Names -> {entries[x][m] : x \in Inums, m \in Names}]] /\ DOMAIN b = Inums
      BY <3>1 DEF NamesIn
    <3>3. \A x \in Inums, m \in Names : b[x] = [k \in Names |-> b[x][k]] /\ b[x][m] = entries'[x][m] /\ a[x][m] = entries[x][m]
      BY <3>1 DEF NamesIn
    <3>4. b[i] = [m \in Names |-> 0]
      BY <2>2, <2>3, <3>1 DEF Created, NamesIn
    <3>5. b[d] = [a[d] EXCEPT ![n] = i]
      BY <2>2, <2>3, <3>1 DEF Created, NamesIn
    <3>6. \A x \in Inums : x # d /\ x # i => b[x] = a[x]
      BY <2>2, <2>3, <3>1 DEF Created, NamesIn
    <3>7. b = [a EXCEPT ![d][n] = i, ![i] = [m \in Names |-> 0]]
      BY <2>3, <3>1, <3>2, <3>4, <3>5, <3>6 DEF NamesIn
    <3> QED
      BY <3>1, <3>7
  <2>6. Kinds[d] = "dir" /\ NamesIn[d][n] = 0 /\ Kinds[i] = "free" /\ arg # "free" /\ UsedBy' = UsedBy
    BY <2>3 DEF Kinds, NamesIn, UsedBy
  <2>7. Abstract!Create(d, n, i, arg)
    BY <2>4, <2>5, <2>6, Zenon DEF Abstract!Create, Abstract!NoNames, Kinds, NamesIn, UsedBy
  <2> QED
    BY <2>3, <2>7
<1> QED
  BY <1>3, <1>4

LEMMA BeginUses == ASSUME NEW p \in Procs, Begin(p) PROVE Uses
<1>1. ASSUME NEW path, NEW want, NEW frames, NameiThen(p, path, want, frames) PROVE Uses
  BY <1>1, DiskUses DEF NameiThen
<1>2. ASSUME NEW path \in Paths, sys_mkdir(p, path) PROVE Uses
  BY <1>1, <1>2, Zenon DEF sys_mkdir, Create
<1>3. ASSUME NEW path \in Paths, sys_unlink(p, path) PROVE Uses
  BY <1>1, <1>3, Zenon DEF sys_unlink
<1>4. ASSUME NEW path \in Paths, sys_chdir(p, path) PROVE Uses
  BY <1>1, <1>4, Zenon DEF sys_chdir
<1>5. ASSUME NEW path \in Paths, NEW new \in Paths, sys_link(p, path, new) PROVE Uses
  BY <1>1, <1>5, Zenon DEF sys_link
<1>6. ASSUME NEW path \in Paths, NEW mode, sys_open(p, path, mode) PROVE Uses
  BY <1>1, <1>6, Zenon DEF sys_open, Create
<1>7. ASSUME sys_dup(p) \/ sys_close(p) \/ exit(p) PROVE Uses
  BY <1>7, DiskUses, Zenon DEF sys_dup, sys_close, exit
<1>8. ASSUME NEW q \in Procs, fork(p, q) PROVE Uses
  BY <1>8, DiskUses DEF fork
<1> QED
  BY <1>2, <1>3, <1>4, <1>5, <1>6, <1>7, <1>8, Zenon DEF Begin

\* A step as Namespace sees it.
Seen == \/ Uses
        \/ \E i \in Inums : Abstract!Free(i)
        \/ \E i, d \in Inums, n \in Names : Abstract!Link(d, n, i)
        \/ \E d \in Inums, n \in Names : Abstract!Unlink(d, n)
        \/ \E i, d \in Inums, n \in Names, k \in {"file", "dir"} : Abstract!Create(d, n, i, k)

LEMMA WorkSeen == ASSUME IInv, NEW p \in Procs, Work(p) PROVE Seen
<1>1. ASSUME \/ IputTest(p) \/ IputUnref(p) \/ IunlockputStep(p) \/ WalkElement(p) \/ UnlinkLookup(p)
             \/ CreateFound(p) \/ CreateReturn(p) \/ OpenExisting(p) \/ OpenFile(p) \/ Chdir(p) \/ fileclose(p)
      PROVE  Uses
  BY <1>1, DiskUses, Zenon DEF IputTest, IputUnref, IunlockputStep, WalkElement, UnlinkLookup, CreateFound,
     CreateReturn, OpenExisting, OpenFile, Chdir, fileclose
<1>2. Uses => Seen
  BY DEF Seen
<1>3. ASSUME IputFree(p) PROVE Seen
  BY <1>3, FreeSeen DEF Seen
<1>4. ASSUME LinkEntry(p) PROVE Seen
  BY <1>4, LinkSeen DEF Seen
<1>5. ASSUME UnlinkEntry(p) PROVE Seen
  BY <1>5, UnlinkSeen DEF Seen
<1>6. ASSUME CreateNew(p) PROVE Seen
  BY <1>6, CreateSeen DEF Seen
<1> QED
  BY <1>1, <1>2, <1>3, <1>4, <1>5, <1>6, LinkCountUses, LinkBadUses, UnlinkCountUses, Zenon DEF Work

LEMMA NextSeen == ASSUME IInv, [Next]_vars PROVE Seen
<1>1. CASE Next
  <2>1. Crash => Uses
    BY DiskUses DEF Crash
  <2>2. Uses => Seen
    BY DEF Seen
  <2> QED
    BY <1>1, <2>1, <2>2, BeginUses, WorkSeen, Zenon DEF Next
<1>2. CASE UNCHANGED vars
  BY <1>2, DiskUses DEF vars, Seen
<1> QED
  BY <1>1, <1>2

LEMMA SeenRefines == ASSUME IInv, IInv', Seen PROVE Abstract!Next
  BY UsesAll, Zenon DEF Seen, Abstract!Next

LEMMA InitRefines == ASSUME Init PROVE Abstract!Init
<1>1. Kinds \in [Inums -> {"free", "file", "dir"}] /\ Kinds[Root] = "dir" /\ \A i \in Inums : i # Root => Kinds[i] = "free"
  BY Constants DEF Init, Kinds
<1>2. NamesIn = [i \in Inums |-> [n \in Names |-> 0]]
  <2>1. \A n \in Names : n \notin Dots
    BY ConstantsAssumption
  <2>2. entries = [i \in Inums |-> [n \in Names \cup Dots |-> IF i = Root /\ n \in Dots THEN Root ELSE 0]]
    BY DEF Init
  <2> QED
    BY <2>1, <2>2 DEF NamesIn
<1>3. UsedBy = {i \in Inums : Kinds[i] = "dir"}
  <2>1. file = NewFiles /\ cwd = NewCwd
    BY DEF Init, NewFiles, NewCwd
  <2>2. \A f \in Files : file[f].ip = 0
    BY <2>1, NewFilesIs
  <2>3. cwd[InitProc] = Root /\ \A p \in Procs : cwd[p] \in {0, Root}
    BY <2>1, Constants, NewCwdIs DEF NewCwd
  <2>4. UsedBy = {Root}
    BY <2>2, <2>3, Constants DEF UsedBy
  <2> QED
    BY <1>1, <2>4, Constants
<1> QED
  BY <1>1, <1>2, <1>3, Zenon DEF Abstract!Init, Abstract!NoNames, Kinds, NamesIn, UsedBy

(* For paths without "..": whatever the system calls of any number of       *)
(* processes interleave, each entry that dirlink() or unlink() writes and   *)
(* each inode that ialloc() or iput() turns into another kind is one step   *)
(* of a name space in which an inode becomes free only when no name, no     *)
(* current directory and no open file has it (create(), sys_link(),         *)
(* sys_unlink(), iput()).                                                   *)
THEOREM Refinement == NoDotDot => (Spec => ImplementsNamespace)
<1>1. IInv /\ IInv' /\ [Next]_vars => Abstract!Next
  BY NextSeen, SeenRefines
<1>2. Init => Abstract!Init
  BY InitRefines
<1> QED
  BY <1>1, <1>2, Invariance, PTL DEF Spec, ImplementsNamespace, Abstract!Spec
=============================================================================
