----------------------------- MODULE FileSystem -----------------------------
(***************************************************************************)
(* Inodes, directories and path names (fs.c), the system calls on them     *)
(* (sysfile.c) and the table of open files (file.c).                       *)
(*                                                                         *)
(* What a process still has to do of its system call is a sequence of      *)
(* frames; the first one is next.  A step is what one frame does while it  *)
(* holds the sleep-lock of one inode, or under icache.lock or ftable.lock. *)
(* Their blocks are the subject of Blocks: here a directory is its entries *)
(* and a file has no content.  Each system call is a transaction, so       *)
(* a crash takes place between them (Log implements AtomicDisk).           *)
(***************************************************************************)
EXTENDS Integers, Sequences, FiniteSets, FiniteSetsExt, SequencesExt

CONSTANTS
  Procs, InitProc, None,
  NInodes,     \* inodes on the disk: 1 is the root
  NInode,      \* slots of the inode cache
  Names,
  Files, Fds,  \* numbers: the lowest free one is taken
  Paths,       \* records [abs, elems]
  Calls        \* the system calls that each process makes

Root == 1
Inums == 1 .. NInodes
Dots == {".", ".."}
Path == [abs : BOOLEAN, elems : Seq(Names \cup Dots)]

ASSUME ConstantsAssumption ==
  /\ InitProc \in Procs /\ None \notin Procs \cup Files
  /\ NInodes \in Nat \ {0} /\ NInode \in Nat \ {0}
  /\ IsFiniteSet(Procs) /\ IsFiniteSet(Files) /\ IsFiniteSet(Fds) /\ IsFiniteSet(Names)
  /\ Files \subseteq Nat /\ Fds \subseteq Nat
  /\ Names \cap Dots = {} /\ Paths \subseteq Path
  /\ Calls \in [Procs -> SUBSET {"mkdir", "unlink", "chdir", "link", "create", "read", "write",
                                 "dup", "close", "exit", "fork"}]

VARIABLES
  dinode,      \* the inodes as the log has them: type, nlink
  entries,     \* the contents of a directory: a name's inode, or 0
  icache,      \* the cached inode: ref, valid, type, nlink
  holder,      \* who holds the sleep-lock of the inode
  file,        \* struct file: ref, ip
  ofile, cwd,  \* of each process; cwd is 0 in a process that does not exist
  todo,        \* of each process: the frames that are left
  lost         \* (history) inodes whose entry went down with its directory

disk == <<dinode, entries>>
inodes == <<icache, holder>>
opened == <<file, ofile, cwd>>
vars == <<disk, inodes, opened, todo, lost>>

Types == {"free", "file", "dir"}
NoEntries == [n \in Names \cup Dots |-> 0]
Uncached == [ref |-> 0, valid |-> FALSE, type |-> "free", nlink |-> 0]
Closed == [ref |-> 0, ip |-> 0]

(* A frame: what to do, with the inode i and a second one, ip, of each of   *)
(* which it owns a reference; the rest of a path; and an argument.          *)
Frame(do, i, ip, path, arg) ==
  [do |-> do, i |-> i, ip |-> ip, path |-> path, arg |-> arg]
Iput(i) == Frame("iput", i, 0, <<>>, "")
Iunlockput(i) == Frame("iunlockput", i, 0, <<>>, "")
Fileclose(f) == Frame("fileclose", 0, 0, <<>>, f)

Init ==
  /\ dinode = [i \in Inums |-> IF i = Root THEN [type |-> "dir", nlink |-> 1]
                               ELSE [type |-> "free", nlink |-> 0]]
  /\ entries = [i \in Inums |-> [n \in Names \cup Dots |->
                                   IF i = Root /\ n \in Dots THEN Root ELSE 0]]
  /\ icache = [i \in Inums |-> IF i = Root THEN [Uncached EXCEPT !.ref = 1] ELSE Uncached]
  /\ holder = [i \in Inums |-> None]
  /\ file = [f \in Files |-> Closed]
  /\ ofile = [p \in Procs |-> [d \in Fds |-> None]]
  /\ cwd = [p \in Procs |-> IF p = InitProc THEN Root ELSE 0]
  /\ todo = [p \in Procs |-> <<>>]
  /\ lost = {}

-----------------------------------------------------------------------------
(* Parts of steps.                                                          *)

Idle(p) == todo[p] = <<>> /\ cwd[p] # 0
At(p, do) == todo[p] # <<>> /\ Head(todo[p]).do = do
Top(p) == Head(todo[p])
Rest(p) == Tail(todo[p])
Continue(p, frames) == todo' = [todo EXCEPT ![p] = frames]

LastName(frame) == Last(frame.path)

(* ilock(i) by p: the cached inode, read from the disk if it is not valid.  *)
CanLock(i) == holder[i] = None
Ilocked(i) == IF icache[i].valid THEN icache[i]
              ELSE [icache[i] EXCEPT !.valid = TRUE, !.type = dinode[i].type, !.nlink = dinode[i].nlink]

(* iupdate() of an inode that is now in.                                    *)
Iupdate(i, in) == dinode' = [dinode EXCEPT ![i] = [type |-> in.type, nlink |-> in.nlink]]

(* The cache with the inode in in i's slot, and one more reference to j.    *)
Cache(i, in) == [icache EXCEPT ![i] = in]
CacheAndRef(i, in, j) == [Cache(i, in) EXCEPT ![j].ref = @ + 1]

(* namex() returns i, or 0: to the frame that asked for it.  Without the    *)
(* inode a system call is over, but for link(), which takes back its count. *)
Return(frames, i) == <<[frames[1] EXCEPT !.i = i]>> \o Tail(frames)
ReturnZero(frames) ==
  IF frames[1].do = "link_dp" THEN <<Frame("link_bad", frames[1].ip, 0, <<>>, "")>> ELSE <<>>

(* namex() at ip with path left, and what comes after it: iget() of the     *)
(* root or idup() of the current directory begin it.                        *)
namex(ip, path, want, rest) ==
  IF path # <<>> THEN <<Frame("walk", ip, 0, path, want)>> \o rest
  ELSE IF want = "parent" THEN <<Iput(ip)>> \o ReturnZero(rest)
  ELSE Return(rest, ip)
Start(p, path) == IF path.abs THEN Root ELSE cwd[p]

-----------------------------------------------------------------------------
(* iput() in three parts: the test under the sleep-lock, the truncation,    *)
(* and the reference.                                                       *)

UnusedByName(i) == icache[i].valid /\ icache[i].nlink = 0     \* mutant: no test of ref
Unused(i) == icache[i].valid /\ icache[i].nlink = 0 /\ icache[i].ref = 1

IputTest(p) ==
  /\ At(p, "iput") /\ CanLock(Top(p).i)
  /\ LET i == Top(p).i
     IN IF Unused(i)
        THEN /\ holder' = [holder EXCEPT ![i] = p]
             /\ Continue(p, <<[Top(p) EXCEPT !.do = "itrunc"]>> \o Rest(p))
        ELSE /\ UNCHANGED holder
             /\ Continue(p, <<[Top(p) EXCEPT !.do = "unref"]>> \o Rest(p))
  /\ UNCHANGED <<disk, icache, opened, lost>>

IputFree(p) ==
  /\ At(p, "itrunc")
  /\ LET i == Top(p).i
     IN /\ Iupdate(i, [type |-> "free", nlink |-> icache[i].nlink])
        /\ entries' = [entries EXCEPT ![i] = NoEntries]
        /\ lost' = (lost \ {i}) \cup ({entries[i][n] : n \in Names} \ {0})
        /\ icache' = [icache EXCEPT ![i].type = "free", ![i].valid = FALSE]
        /\ holder' = [holder EXCEPT ![i] = None]
        /\ Continue(p, <<[Top(p) EXCEPT !.do = "unref"]>> \o Rest(p))
  /\ UNCHANGED opened

Unref(i) == IF icache[i].ref = 1 THEN Uncached ELSE [icache[i] EXCEPT !.ref = @ - 1]
IputUnref(p) ==
  /\ At(p, "unref")
  /\ icache' = Cache(Top(p).i, Unref(Top(p).i))
  /\ Continue(p, Rest(p))
  /\ UNCHANGED <<disk, holder, opened, lost>>

IunlockputStep(p) ==
  /\ At(p, "iunlockput")
  /\ holder' = [holder EXCEPT ![Top(p).i] = None]
  /\ Continue(p, <<Iput(Top(p).i)>> \o Rest(p))
  /\ UNCHANGED <<disk, icache, opened, lost>>

(* One turn of namex()'s loop.                                              *)
WalkElement(p) ==
  /\ At(p, "walk") /\ CanLock(Top(p).i)
  /\ LET ip == Top(p).i
         in == Ilocked(ip)
         next == entries[ip][Head(Top(p).path)]
         stop == Top(p).arg = "parent" /\ Len(Top(p).path) = 1
     IN \/ /\ in.type # "dir" \/ (~stop /\ next = 0)
           /\ icache' = Cache(ip, in)
           /\ Continue(p, <<Iput(ip)>> \o ReturnZero(Rest(p)))
        \/ /\ in.type = "dir" /\ stop
           /\ icache' = Cache(ip, in)
           /\ Continue(p, Return(Rest(p), ip))
        \/ /\ in.type = "dir" /\ ~stop /\ next # 0
           /\ icache' = CacheAndRef(ip, in, next)
           /\ Continue(p, <<Iput(ip)>> \o namex(next, Tail(Top(p).path), Top(p).arg, Rest(p)))
  /\ UNCHANGED <<disk, holder, opened, lost>>

(* A system call begins with namei() or nameiparent() and goes on with what *)
(* is in frames.                                                            *)
NameiThen(p, path, want, frames) ==
  /\ Idle(p)
  /\ icache' = [icache EXCEPT ![Start(p, path)].ref = @ + 1]
  /\ Continue(p, namex(Start(p, path), path.elems, want, frames))
  /\ UNCHANGED <<disk, holder, opened, lost>>

-----------------------------------------------------------------------------
(* link()                                                                   *)

sys_link(p, old, new) ==
  NameiThen(p, old, "inode", <<Frame("link", 0, 0, <<new>>, "")>>)

LinkCount(p) ==
  /\ At(p, "link") /\ CanLock(Top(p).i)
  /\ LET ip == Top(p).i
         in == Ilocked(ip)
         new == Top(p).path[1]
         more == [in EXCEPT !.nlink = @ + 1]
     IN IF in.type = "dir"
        THEN /\ icache' = Cache(ip, in)
             /\ Continue(p, <<Iput(ip)>>)
             /\ UNCHANGED dinode
        ELSE /\ Iupdate(ip, more)
             /\ icache' = CacheAndRef(ip, more, Start(p, new))
             /\ Continue(p, namex(Start(p, new), new.elems, "parent",
                                  <<Frame("link_dp", 0, ip, new.elems, "")>>))
  /\ UNCHANGED <<entries, holder, opened, lost>>

(* dirlink() puts the reference to an entry that is there, with dp locked.  *)
LinkEntry(p) ==
  /\ At(p, "link_dp") /\ CanLock(Top(p).i)
  /\ LET dp == Top(p).i
         ip == Top(p).ip
         there == entries[dp][LastName(Top(p))]
     IN IF there # 0
        THEN /\ icache' = CacheAndRef(dp, Ilocked(dp), there)
             /\ holder' = [holder EXCEPT ![dp] = p]
             /\ Continue(p, <<Iput(there), Iunlockput(dp), Frame("link_bad", ip, 0, <<>>, "")>>)
             /\ UNCHANGED entries
        ELSE /\ icache' = Cache(dp, Ilocked(dp))
             /\ entries' = [entries EXCEPT ![dp][LastName(Top(p))] = ip]
             /\ Continue(p, <<Iput(dp), Iput(ip)>>)
             /\ UNCHANGED holder
  /\ UNCHANGED <<dinode, opened, lost>>

LinkBad(p) ==
  /\ At(p, "link_bad") /\ CanLock(Top(p).i)
  /\ LET ip == Top(p).i
         less == [Ilocked(ip) EXCEPT !.nlink = @ - 1]
     IN /\ Iupdate(ip, less)
        /\ icache' = Cache(ip, less)
        /\ Continue(p, <<Iput(ip)>>)
  /\ UNCHANGED <<entries, holder, opened, lost>>

-----------------------------------------------------------------------------
(* unlink()                                                                 *)

sys_unlink(p, path) ==
  NameiThen(p, path, "parent", <<Frame("unlink", 0, 0, path.elems, "")>>)

UnlinkLookup(p) ==
  /\ At(p, "unlink") /\ CanLock(Top(p).i)
  /\ LET dp == Top(p).i
         ip == entries[dp][LastName(Top(p))]
     IN IF LastName(Top(p)) \in Dots \/ ip = 0
        THEN /\ icache' = Cache(dp, Ilocked(dp))
             /\ Continue(p, <<Iput(dp)>>)
             /\ UNCHANGED holder
        ELSE /\ icache' = CacheAndRef(dp, Ilocked(dp), ip)
             /\ holder' = [holder EXCEPT ![dp] = p]
             /\ Continue(p, <<[Top(p) EXCEPT !.do = "unlink_ip", !.i = ip, !.ip = dp]>>)
  /\ UNCHANGED <<disk, opened, lost>>

NoSubdirectories(i) == dinode[i].nlink = 1     \* mutant: the count for the names
isdirempty(i) == \A n \in Names : entries[i][n] = 0

(* The directory is put while the inode is locked, and the count goes down  *)
(* only after.                                                              *)
UnlinkEntry(p) ==
  /\ At(p, "unlink_ip") /\ CanLock(Top(p).i)
  /\ LET ip == Top(p).i
         dp == Top(p).ip
         in == Ilocked(ip)
         below == in.type = "dir"
         parent == [icache[dp] EXCEPT !.nlink = IF below THEN @ - 1 ELSE @]
     IN \/ /\ in.nlink < 1
           /\ Continue(p, <<Frame("panic", ip, dp, <<>>, "unlink: nlink < 1")>>)
           /\ UNCHANGED <<disk, inodes>>
        \/ /\ in.nlink >= 1 /\ below /\ ~isdirempty(ip)
           /\ icache' = Cache(ip, in)
           /\ Continue(p, <<Iput(ip), Iunlockput(dp)>>)
           /\ UNCHANGED <<disk, holder>>
        \/ /\ in.nlink >= 1 /\ ~(below /\ ~isdirempty(ip))
           /\ entries' = [entries EXCEPT ![dp][LastName(Top(p))] = 0]
           /\ Iupdate(dp, parent)
           /\ icache' = [Cache(ip, in) EXCEPT ![dp] = parent]
           /\ holder' = [holder EXCEPT ![ip] = p, ![dp] = None]
           /\ Continue(p, <<Iput(dp), Frame("unlink_count", ip, 0, <<>>, "")>>)
  /\ UNCHANGED <<opened, lost>>

UnlinkCount(p) ==
  /\ At(p, "unlink_count")
  /\ LET ip == Top(p).i
         less == [icache[ip] EXCEPT !.nlink = @ - 1]
     IN /\ Iupdate(ip, less)
        /\ icache' = Cache(ip, less)
        /\ holder' = [holder EXCEPT ![ip] = None]
        /\ Continue(p, <<Iput(ip)>>)
  /\ UNCHANGED <<entries, opened, lost>>

-----------------------------------------------------------------------------
(* create(), for open() and mkdir()                                         *)

Create(p, path, type, then) ==
  NameiThen(p, path, "parent", <<Frame("create", 0, 0, path.elems, type), then>>)

CreateFound(p) ==
  /\ At(p, "create") /\ CanLock(Top(p).i)
  /\ LET dp == Top(p).i
         ip == entries[dp][LastName(Top(p))]
     IN /\ ip # 0
        /\ icache' = CacheAndRef(dp, Ilocked(dp), ip)
        /\ Continue(p, <<Iput(dp), Frame("create_found", ip, 0, <<>>, Top(p).arg)>> \o Rest(p))
  /\ UNCHANGED <<disk, holder, opened, lost>>

CreateReturn(p) ==
  /\ At(p, "create_found") /\ CanLock(Top(p).i)
  /\ LET ip == Top(p).i
         both == Top(p).arg = "file" /\ Ilocked(ip).type = "file"
     IN /\ icache' = Cache(ip, Ilocked(ip))
        /\ holder' = IF both THEN [holder EXCEPT ![ip] = p] ELSE holder
        /\ Continue(p, IF both THEN Return(Rest(p), ip) ELSE <<Iput(ip)>>)
  /\ UNCHANGED <<disk, opened, lost>>

(* ialloc() takes the first free inode.  Nobody else can have it locked but *)
(* an iput() that has not finished with it.  dp is put with ip locked.      *)
FreeInums == {i \in Inums : dinode[i].type = "free"}

CreateNew(p) ==
  /\ At(p, "create") /\ CanLock(Top(p).i)
  /\ entries[Top(p).i][LastName(Top(p))] = 0
  /\ IF FreeInums = {}
     THEN /\ Continue(p, <<Frame("panic", Top(p).i, 0, <<>>, "ialloc: no inodes")>>)
          /\ UNCHANGED <<disk, inodes>>
     ELSE LET dp == Top(p).i
              ip == Min(FreeInums)
              below == Top(p).arg = "dir"
              in == [icache[ip] EXCEPT !.ref = @ + 1, !.valid = TRUE, !.type = IF icache[ip].valid THEN @ ELSE Top(p).arg,
                                       !.nlink = 1]
              parent == [Ilocked(dp) EXCEPT !.nlink = IF below THEN @ + 1 ELSE @]
          IN /\ CanLock(ip)
             /\ dinode' = [dinode EXCEPT ![ip] = [type |-> in.type, nlink |-> 1],
                                         ![dp] = [type |-> parent.type, nlink |-> parent.nlink]]
             /\ entries' = [entries EXCEPT
                              ![ip] = IF below THEN [NoEntries EXCEPT !["."] = ip, ![".."] = dp] ELSE NoEntries,
                              ![dp][LastName(Top(p))] = ip]
             /\ icache' = [icache EXCEPT ![ip] = in, ![dp] = parent]
             /\ holder' = [holder EXCEPT ![ip] = p]
             /\ Continue(p, <<Iput(dp)>> \o Return(Rest(p), ip))
  /\ UNCHANGED <<opened, lost>>

sys_mkdir(p, path) == Create(p, path, "dir", Iunlockput(0))

-----------------------------------------------------------------------------
(* open(), chdir() and the files                                            *)

sys_open(p, path, mode) ==
  IF mode = "create" THEN Create(p, path, "file", Frame("opened", 0, 0, <<>>, ""))
  ELSE NameiThen(p, path, "inode", <<Frame("open", 0, 0, <<>>, mode)>>)

OpenExisting(p) ==
  /\ At(p, "open") /\ CanLock(Top(p).i)
  /\ LET ip == Top(p).i
         refused == Ilocked(ip).type = "dir" /\ Top(p).arg # "read"
     IN /\ icache' = Cache(ip, Ilocked(ip))
        /\ holder' = IF refused THEN holder ELSE [holder EXCEPT ![ip] = p]
        /\ Continue(p, IF refused THEN <<Iput(ip)>> ELSE <<Frame("opened", ip, 0, <<>>, "")>>)
  /\ UNCHANGED <<disk, opened, lost>>

(* filealloc() and fdalloc() by p; a file that gets no descriptor is closed. *)
FreeFds(p) == {d \in Fds : ofile[p][d] = None}
FreeFiles == {f \in Files : file[f].ref = 0}
OpenFile(p) ==
  /\ At(p, "opened")
  /\ holder' = [holder EXCEPT ![Top(p).i] = None]
  /\ \/ /\ FreeFds(p) # {} /\ FreeFiles # {}
        /\ file' = [file EXCEPT ![Min(FreeFiles)] = [ref |-> 1, ip |-> Top(p).i]]
        /\ ofile' = [ofile EXCEPT ![p][Min(FreeFds(p))] = Min(FreeFiles)]
        /\ Continue(p, <<>>)
     \/ /\ FreeFds(p) = {} \/ FreeFiles = {}
        /\ Continue(p, <<Iput(Top(p).i)>>)
        /\ UNCHANGED <<file, ofile>>
  /\ UNCHANGED <<disk, icache, cwd, lost>>

sys_chdir(p, path) == NameiThen(p, path, "inode", <<Frame("chdir", 0, 0, <<>>, "")>>)

(* cwd is p's own: it may change here, before the iput() of the old one.    *)
Chdir(p) ==
  /\ At(p, "chdir") /\ CanLock(Top(p).i)
  /\ LET ip == Top(p).i
         dir == Ilocked(ip).type = "dir"
     IN /\ icache' = Cache(ip, Ilocked(ip))
        /\ cwd' = IF dir THEN [cwd EXCEPT ![p] = ip] ELSE cwd
        /\ Continue(p, <<Iput(IF dir THEN cwd[p] ELSE ip)>>)
  /\ UNCHANGED <<disk, holder, file, ofile, lost>>

sys_dup(p) ==
  /\ Idle(p)
  /\ FreeFds(p) # {}
  /\ \E d \in Fds \ FreeFds(p) :
       /\ ofile' = [ofile EXCEPT ![p][Min(FreeFds(p))] = ofile[p][d]]
       /\ file' = [file EXCEPT ![ofile[p][d]].ref = @ + 1]
  /\ UNCHANGED <<disk, inodes, cwd, todo, lost>>

sys_close(p) ==
  /\ Idle(p)
  /\ \E d \in Fds \ FreeFds(p) :
       /\ ofile' = [ofile EXCEPT ![p][d] = None]
       /\ Continue(p, <<Fileclose(ofile[p][d])>>)
  /\ UNCHANGED <<disk, inodes, file, cwd, lost>>

Unclosed(f) == IF file[f].ref = 1 THEN Closed ELSE [file[f] EXCEPT !.ref = @ - 1]
fileclose(p) ==
  /\ At(p, "fileclose")
  /\ LET f == Top(p).arg
     IN /\ file' = [file EXCEPT ![f] = Unclosed(f)]
        /\ Continue(p, (IF file[f].ref = 1 THEN <<Iput(file[f].ip)>> ELSE <<>>) \o Rest(p))
  /\ UNCHANGED <<disk, inodes, ofile, cwd, lost>>

(* fork() as far as files go; q is an unused process.                       *)
fork(p, q) ==
  /\ Idle(p) /\ cwd[q] = 0 /\ todo[q] = <<>>
  /\ ofile' = [ofile EXCEPT ![q] = ofile[p]]
  /\ file' = [f \in Files |-> [file[f] EXCEPT !.ref = @ + Cardinality({d \in Fds : ofile[p][d] = f})]]
  /\ cwd' = [cwd EXCEPT ![q] = cwd[p]]
  /\ icache' = [icache EXCEPT ![cwd[p]].ref = @ + 1]
  /\ UNCHANGED <<disk, holder, todo, lost>>

(* The files are closed one after the other, then the directory is put.     *)
exit(p) ==
  /\ (Idle(p) /\ p # InitProc) \/ At(p, "exit")
  /\ LET fds == Fds \ FreeFds(p)
     IN \/ /\ fds # {}
           /\ ofile' = [ofile EXCEPT ![p][Min(fds)] = None]
           /\ Continue(p, <<Fileclose(ofile[p][Min(fds)]), Frame("exit", 0, 0, <<>>, "")>>)
           /\ UNCHANGED cwd
        \/ /\ fds = {}
           /\ cwd' = [cwd EXCEPT ![p] = 0]
           /\ Continue(p, <<Iput(cwd[p])>>)
           /\ UNCHANGED ofile
  /\ UNCHANGED <<disk, inodes, file, lost>>

(* A crash between transactions: the memory is gone, and init starts again. *)
Crash ==
  /\ \A p \in Procs : todo[p] = <<>>
  /\ icache' = [i \in Inums |-> IF i = Root THEN [Uncached EXCEPT !.ref = 1] ELSE Uncached]
  /\ file' = [f \in Files |-> Closed]
  /\ ofile' = [p \in Procs |-> [d \in Fds |-> None]]
  /\ cwd' = [p \in Procs |-> IF p = InitProc THEN Root ELSE 0]
  /\ UNCHANGED <<disk, holder, todo, lost>>

(* Where panic() stops the system: of ilock(), iget(), unlink(), ialloc().  *)
NoType == \E i \in Inums : icache[i].valid /\ icache[i].type = "free"
CacheFull == Cardinality({i \in Inums : icache[i].ref > 0}) > NInode
Panic == NoType \/ CacheFull \/ \E p \in Procs : At(p, "panic")

Begin(p) ==
  \/ \E path \in Paths :
       \/ "mkdir" \in Calls[p] /\ sys_mkdir(p, path)
       \/ "unlink" \in Calls[p] /\ sys_unlink(p, path)
       \/ "chdir" \in Calls[p] /\ sys_chdir(p, path)
       \/ "link" \in Calls[p] /\ \E new \in Paths : sys_link(p, path, new)
       \/ \E mode \in {"create", "read", "write"} \cap Calls[p] : sys_open(p, path, mode)
  \/ "dup" \in Calls[p] /\ sys_dup(p)
  \/ "close" \in Calls[p] /\ sys_close(p)
  \/ "exit" \in Calls[p] /\ exit(p)
  \/ "fork" \in Calls[p] /\ \E q \in Procs : fork(p, q)

Work(p) ==
  \/ IputTest(p) \/ IputFree(p) \/ IputUnref(p) \/ IunlockputStep(p)
  \/ WalkElement(p)
  \/ LinkCount(p) \/ LinkEntry(p) \/ LinkBad(p)
  \/ UnlinkLookup(p) \/ UnlinkEntry(p) \/ UnlinkCount(p)
  \/ CreateFound(p) \/ CreateReturn(p) \/ CreateNew(p)
  \/ OpenExisting(p) \/ OpenFile(p) \/ Chdir(p) \/ fileclose(p)

Next == ~Panic /\ (Crash \/ \E p \in Procs : Begin(p) \/ Work(p))

Spec == Init /\ [][Next]_vars

-----------------------------------------------------------------------------
(* Properties.                                                              *)

TypeOK ==
  /\ dinode \in [Inums -> [type : Types, nlink : Nat]]
  /\ entries \in [Inums -> [Names \cup Dots -> Inums \cup {0}]]
  /\ icache \in [Inums -> [ref : Nat, valid : BOOLEAN, type : Types, nlink : Nat]]
  /\ holder \in [Inums -> Procs \cup {None}]
  /\ file \in [Files -> [ref : Nat, ip : Inums \cup {0}]]
  /\ ofile \in [Procs -> [Fds -> Files \cup {None}]]
  /\ cwd \in [Procs -> Inums \cup {0}]
  /\ lost \subseteq Inums

Due == UNION {{<<p, k>> : k \in DOMAIN todo[p]} : p \in Procs}
Todo(d) == todo[d[1]][d[2]]

RefsCounted == \A i \in Inums :
  icache[i].ref = Cardinality({p \in Procs : cwd[p] = i}) + Cardinality({f \in Files : file[f].ip = i})
                  + Cardinality({d \in Due : Todo(d).i = i}) + Cardinality({d \in Due : Todo(d).ip = i})

FilesCounted == \A f \in Files :
  file[f].ref = Cardinality({x \in Procs \X Fds : ofile[x[1]][x[2]] = f})
                + Cardinality({d \in Due : Todo(d).do = "fileclose" /\ Todo(d).arg = f})

(* A frame that changes nlink later owes the difference.                    *)
Owes(frame, i) == \/ frame.do = "link_dp" /\ frame.ip = i
                  \/ frame.do \in {"link_bad", "unlink_count"} /\ frame.i = i
LinksCounted == \A i \in Inums \ lost : dinode[i].type # "free" =>
  dinode[i].nlink = Cardinality({x \in Inums \X Names : entries[x[1]][x[2]] = i})
                    + Cardinality({n \in Names : entries[i][n] # 0 /\ dinode[entries[i][n]].type = "dir"})
                    + Cardinality({d \in Due : Owes(Todo(d), i)})
                    + (IF i = Root THEN 1 ELSE 0)

LocksAccounted == \A i \in Inums, p \in Procs :
  holder[i] = p <=> \E k \in DOMAIN todo[p] :
    \/ todo[p][k].i = i /\ todo[p][k].do \in {"itrunc", "iunlockput", "unlink_count", "opened"}
    \/ todo[p][k].ip = i /\ todo[p][k].do = "unlink_ip"

UsedIsAllocated ==
  /\ \A i \in Inums, n \in Names : entries[i][n] # 0 => dinode[entries[i][n]].type # "free"
  /\ \A f \in Files : file[f].ref > 0 => dinode[file[f].ip].type # "free"
  /\ \A p \in Procs : cwd[p] # 0 => dinode[cwd[p]].type = "dir"

NoInodePanic == ~NoType /\ \A p \in Procs : At(p, "panic") => Top(p).arg # "unlink: nlink < 1"

(* Every reference and every link is counted, no inode that a name, a file  *)
(* or a process uses is free, locks are held by those who are to release    *)
(* them, and neither ilock() nor unlink() panics: for paths without "..",   *)
(* which in a directory that has been removed leads to an inode that may be *)
(* free.                                                                    *)
NoDotDot == Paths \subseteq [abs : BOOLEAN, elems : Seq(Names \cup {"."})]
FilesInv == TypeOK /\ RefsCounted /\ FilesCounted /\ LinksCounted /\ LocksAccounted
            /\ UsedIsAllocated /\ NoInodePanic

(* Whatever the system calls interleave, names change as single steps of a  *)
(* name space in which only files have two names, only empty directories    *)
(* go, and an inode becomes free when no name, current directory or open    *)
(* file is left (iput(), create(), sys_link(), sys_unlink()).               *)
Abstract == INSTANCE Namespace WITH
  Inode <- Inums, Name <- Names, NoInode <- 0,
  kind <- [i \in Inums |-> dinode[i].type],
  names <- [i \in Inums |-> [n \in Names |-> entries[i][n]]],
  used <- ({cwd[p] : p \in Procs} \cup {file[f].ip : f \in Files}) \ {0}
ImplementsNamespace == Abstract!Spec

(* "concurrent create/link/unlink of the same file" (usertests.c) goes on:  *)
(* no processes wait for each other's inodes in a circle.                   *)
Locking == {"iput", "walk", "link", "link_dp", "link_bad", "unlink", "unlink_ip",
            "create", "create_found", "open", "chdir"}
AwaitedBy(p) == IF \E do \in Locking : At(p, do) THEN holder[Top(p).i] ELSE None
NoCircularWait == ~\E S \in (SUBSET Procs) \ {{}} : \A p \in S : AwaitedBy(p) \in S
=============================================================================
