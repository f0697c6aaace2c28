--------------------------------- MODULE MCLog ---------------------------------
(* Model checking of two logs; a behaviour is one of the log that `which`      *)
(* names.  The one of Log itself is for its refinement: in run log it has a    *)
(* place for each block that begin_op() lets in, and two processes fill it; in *)
(* run log_overrun its LOGSIZE blocks include the header, as mkfs.c makes it,  *)
(* and it is overrun by a block, onto the first of the inodes.  The other one  *)
(* is for those who wait in begin_op() while two more go in and out.           *)
EXTENDS Log, TLC

CONSTANTS
  Inodes,   \* the first inode block, which comes after the log
  Third     \* a third process

InodeBlocks == [i \in NLOG..LOGSIZE |-> Inodes]

VARIABLES which,
  homeW, headW, loggedW, cacheW, lhW, outstandingW, committingW, pcW, callingW, wroteW, tailW, panickedW

waiting == <<homeW, headW, loggedW, cacheW, lhW, outstandingW, committingW, pcW, callingW, wroteW, tailW, panickedW>>
logVars == <<which, vars, waiting>>

Waiting == INSTANCE Log WITH
  Proc <- Proc \cup {Third}, Block <- {Inodes}, MAXOPBLOCKS <- 1, LOGSIZE <- 3, NLOG <- 3, OpBlocks <- 1,
  Behind <- 3 :> Inodes,
  home <- homeW, head <- headW, logged <- loggedW, cache <- cacheW, lh <- lhW, outstanding <- outstandingW,
  committing <- committingW, pc <- pcW, calling <- callingW, wrote <- wroteW, tail <- tailW, panicked <- panickedW

ASSUME WaitingAssumption == Waiting!ConstantsAssumption

NobodyIn == Waiting!Init /\ homeW = [b \in {Inodes} |-> 0]

TwoInit ==
  /\ Init /\ Waiting!Init
  /\ \/ which = "full" /\ NobodyIn
     \/ which = "wait" /\ home = [b \in Block |-> 0]

FullStep == which = "full" /\ Next /\ UNCHANGED <<which, waiting>>
WaitStep == which = "wait" /\ Waiting!Next /\ UNCHANGED <<which, vars>>

\* The fairness of each, where it is what runs.
Full(A) == which = "full" /\ A /\ UNCHANGED <<which, waiting>>
Wait(A) == which = "wait" /\ A /\ UNCHANGED <<which, vars>>

TwoFairness ==
  /\ WF_vars(Full(recover_from_log))
  /\ \A p \in Proc :
       /\ WF_vars(Full(pc[p] = "begin" /\ begin_op(p)))
       /\ WF_vars(Full(LogAppend(p)))
       /\ SF_vars(Full(end_op(p) \/ commit(p)))
  /\ WF_waiting(Wait(Waiting!recover_from_log))
  /\ \A p \in Proc \cup {Third} :
       /\ WF_waiting(Wait(pcW[p] = "begin" /\ Waiting!begin_op(p)))
       /\ WF_waiting(Wait(Waiting!LogAppend(p)))
       /\ SF_waiting(Wait(Waiting!end_op(p) \/ Waiting!commit(p)))

TwoSpec == TwoInit /\ [][FullStep \/ WaitStep]_logVars /\ TwoFairness

\* Nobody is forgotten in begin_op() (log.c).
NobodyForgotten == which = "wait" => Waiting!SleepersWake
================================================================================
