-------------------------------- MODULE OSSem --------------------------------
(***************************************************************************)
(* Counting semaphores (os_sem.c) on top of the kernel: tasks that wait in *)
(* priority order with or without a timeout, posts to one or all waiters,  *)
(* aborted waits, and all of it against delays, suspensions, priority      *)
(* changes and ticks.                                                      *)
(***************************************************************************)
EXTENDS OSWake

CONSTANTS
  Sem,           \* the semaphores, objects with a pend list
  SemInit,       \* the cnt arguments of OSSemCreate
  SemOpts        \* the opt arguments, subsets of {"ALL", "NO_SCHED"}

ASSUME SemAssumption == /\ Sem \subseteq Obj /\ NoTask \notin Sem
                        /\ SemInit \in [Sem -> 0 .. SemMax]
                        /\ SemOpts \subseteq SUBSET {"ALL", "NO_SCHED"}

VARIABLES
  Ctr,           \* the counter of each semaphore
  owed           \* history: tokens put in and not yet taken by a returned pend

svars == <<os, pc, arg, tickPtr, tmrCtr, boot, wake, rdy, Ctr, owed>>

SInit == WInit /\ Ctr = SemInit /\ owed = SemInit
-----------------------------------------------------------------------------
OSSemPend(t, s, timeout, block) ==
  /\ Call(t, "pend")
  /\ \/ /\ Ctr[s] > 0
        /\ Ctr' = [Ctr EXCEPT ![s] = @ - 1]
        /\ owed' = [owed EXCEPT ![s] = @ - 1]
        /\ UNCHANGED <<os, pc, arg>>
     \/ /\ Ctr[s] = 0 /\ block /\ os.OSSchedLockNestingCtr = 0
        /\ os' = OS_Pend(os, t, s, "SEM", timeout)
        /\ Goto(t, "pend")
        /\ arg' = [arg EXCEPT ![t] = s]
        /\ UNCHANGED <<Ctr, owed>>
  /\ UNCHANGED <<tickPtr, tmrCtr, boot, wake, rdy>>

\* The code after OSSched: a pend that ended with a post has taken a token.
OSSemPendReturn(t) ==
  /\ os.OSRunning /\ t = cur /\ pc[t] = "ret" /\ arg[t] \in Sem
  /\ owed' = IF os.PendStatus[t] = "OK" THEN [owed EXCEPT ![arg[t]] = @ - 1] ELSE owed
  /\ Goto(t, "app")
  /\ arg' = [arg EXCEPT ![t] = NoTask]
  /\ UNCHANGED <<os, tickPtr, tmrCtr, boot, wake, rdy, Ctr>>

\* Mutant of OSSemPost: the counter goes up whether or not a task waits.
MutSemPost(t, s, opt) ==
  /\ Call(t, "post") /\ Ctr[s] < SemMax
  /\ Ctr' = [Ctr EXCEPT ![s] = @ + 1]
  /\ owed' = [owed EXCEPT ![s] = @ + 1]
  /\ IF os.PendList[s] = <<>> THEN UNCHANGED <<pc, wake>>
     ELSE Goto(t, "wake") /\ wake' = [NoWake EXCEPT !.obj = s, !.n = 1, !.opt = opt]
  /\ UNCHANGED <<os, arg, tickPtr, tmrCtr, boot, rdy>>

\* Mutant of OSSemPost: the counter is not checked for overflow.
MutSemPostMax(t, s, opt) ==
  /\ Call(t, "post") /\ os.PendList[s] = <<>>
  /\ Ctr' = [Ctr EXCEPT ![s] = @ + 1]
  /\ owed' = [owed EXCEPT ![s] = @ + 1]
  /\ UNCHANGED wvars

\* OS_SemPost: without a waiter the counter goes up, unless it is at its limit;
\* with waiters the first one or all are readied.
OSSemPost(t, s, opt) ==
  /\ Call(t, "post")
  /\ \/ /\ os.PendList[s] = <<>> /\ Ctr[s] < SemMax
        /\ Ctr' = [Ctr EXCEPT ![s] = @ + 1]
        /\ owed' = [owed EXCEPT ![s] = @ + 1]
        /\ UNCHANGED <<pc, wake>>
     \/ /\ os.PendList[s] # <<>>
        /\ LET n == IF "ALL" \in opt THEN Len(os.PendList[s]) ELSE 1
           IN  /\ wake' = [NoWake EXCEPT !.obj = s, !.n = n, !.opt = opt]
               /\ owed' = [owed EXCEPT ![s] = @ + n]
        /\ Goto(t, "wake")
        /\ UNCHANGED Ctr
  /\ UNCHANGED <<os, arg, tickPtr, tmrCtr, boot, rdy>>

\* The loop goes past the first waiter only when opt is OS_OPT_PEND_ABORT_ALL
\* and nothing else.
OSSemPendAbort(t, s, opt) ==
  /\ Call(t, "pendabort") /\ os.PendList[s] # <<>>
  /\ wake' = [NoWake EXCEPT !.obj = s, !.n = IF opt = {"ALL"} THEN Len(os.PendList[s]) ELSE 1,
                             !.status = "ABORT", !.opt = opt]
  /\ Goto(t, "wake")
  /\ UNCHANGED <<os, arg, tickPtr, tmrCtr, boot, rdy, Ctr, owed>>

\* Mutant of OSSemSet: waiting tasks are not looked at.
MutSemSet(t, s, cnt) ==
  /\ Call(t, "set")
  /\ Ctr' = [Ctr EXCEPT ![s] = cnt]
  /\ owed' = [owed EXCEPT ![s] = @ + cnt - Ctr[s]]
  /\ UNCHANGED wvars

\* Refused while a task waits.
OSSemSet(t, s, cnt) ==
  /\ Call(t, "set") /\ (Ctr[s] > 0 \/ os.PendList[s] = <<>>)
  /\ Ctr' = [Ctr EXCEPT ![s] = cnt]
  /\ owed' = [owed EXCEPT ![s] = @ + cnt - Ctr[s]]
  /\ UNCHANGED wvars

SemStep(t) ==
  \/ \E s \in Sem, d \in Timeouts \cup {0}, block \in BOOLEAN : OSSemPend(t, s, d, block)
  \/ \E s \in Sem, opt \in SemOpts : OSSemPost(t, s, opt) \/ OSSemPendAbort(t, s, opt)
  \/ \E s \in Sem, n \in 0 .. SemMax : OSSemSet(t, s, n)
  \/ OSSemPendReturn(t)

\* A token in the hand of a task that is deleted goes with it.
TokenGone == owed' = [s \in Sem |-> owed[s] -
                        Cardinality({t \in Granted(s) : os'.TaskState[t] = "DEL"})]

SNext == \/ KNext /\ TokenGone /\ UNCHANGED <<wake, rdy, Ctr>>
         \/ \E t \in Task : SemStep(t)
         \/ \E t \in Task : WakeLoop(t) /\ UNCHANGED <<Ctr, owed>>

SSpec == SInit /\ [][SNext]_svars
-----------------------------------------------------------------------------
\* The semaphore's own variables have their types.
SemTypeOK == WakeTypeOK /\ Ctr \in [Sem -> 0 .. SemMax] /\ owed \in [Sem -> Int]

\* No token is lost or made up: what posts put in is in the counter, in the hand
\* of a task on its way out of OSSemPend, or taken; also when the post races
\* with a timeout, an abort or a suspension.
TokenConservation ==
  \A s \in Sem : owed[s] = Ctr[s] + Cardinality(Granted(s)) + InLoop(s)

\* Nobody waits while there is a token to take (OSSemPend, OSSemPost, OSSemSet).
NoWaiterWithToken == \A s \in Sem : os.PendList[s] # <<>> => Ctr[s] = 0

\* A post gives the token to a waiter of the highest priority there is (OS_SemPost
\* takes the head of the pend list); a deleted waiter is given none.
PostWakesHighest ==
  [][\A s \in Sem : \A t \in Range(os.PendList[s]) \ Range(os'.PendList[s]) :
       os'.PendStatus[t] = "OK" /\ os'.TaskState[t] # "DEL"
         => \A u \in Range(os'.PendList[s]) : os.Prio[t] <= os.Prio[u]]_svars
=============================================================================
