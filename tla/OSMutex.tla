------------------------------- MODULE OSMutex -------------------------------
(***************************************************************************)
(* Mutual exclusion semaphores with priority inheritance (os_mutex.c) on   *)
(* top of the kernel.  A task that waits raises the owner's priority to    *)
(* its own; the owner that hands the mutex over falls back to the priority *)
(* it had when it took it.                                                 *)
(***************************************************************************)
EXTENDS OSKernel

CONSTANTS
  Mutex,         \* the mutexes, objects with a pend list
  NestBound      \* model bound: the deepest nesting of pends by the owner

ASSUME MutexAssumption == Mutex \subseteq Obj /\ NoTask \notin Mutex /\ NestBound \in Nat

VARIABLES
  mtx,           \* the OS_MUTEX fields
  holds          \* history: pends on the mutex a task returned from, less its posts

mvars == <<os, pc, arg, tickPtr, tmrCtr, boot, mtx, holds>>

MInit == /\ KInit
         /\ mtx = [m \in Mutex |-> [OwnerTCBPtr |-> NoTask, OwnerNestingCtr |-> 0,
                                    OwnerOriginalPrio |-> PrioMax]]
         /\ holds = [t \in Task |-> [m \in Mutex |-> 0]]
-----------------------------------------------------------------------------
Take(t, m)  == holds' = [holds EXCEPT ![t][m] = @ + 1]
Leave(t, m) == holds' = [holds EXCEPT ![t][m] = @ - 1]

\* Mutant of RaiseOwner: only a ready owner is raised.
MutRaiseOwner(o, owner, prio) ==
  IF o.TaskState[owner] = "RDY"
  THEN OS_RdyListInsertHead(OS_PrioInsert([OS_RdyListRemove(o, owner) EXCEPT !.Prio[owner] = prio],
                                          prio), owner)
  ELSE o

\* The waiting task lends the owner its priority.
RaiseOwner(o, owner, prio) ==
  IF o.TaskState[owner] = "RDY"
  THEN OS_RdyListInsertHead(OS_PrioInsert([OS_RdyListRemove(o, owner) EXCEPT !.Prio[owner] = prio],
                                          prio), owner)
  ELSE IF o.TaskState[owner] \in Pending THEN OS_PendListChangePrio(o, owner, prio)
  ELSE [o EXCEPT !.Prio[owner] = prio]

\* Mutant of OSMutexPendFree: the mutex is taken from a task that is not ready.
MutMutexPendFree(t, m) ==
  /\ Call(t, "pend")
  /\ \/ mtx[m].OwnerNestingCtr = 0
     \/ mtx[m].OwnerTCBPtr \in Task \ {t} /\ os.TaskState[mtx[m].OwnerTCBPtr] # "RDY"
  /\ mtx' = [mtx EXCEPT ![m] = [OwnerTCBPtr |-> t, OwnerNestingCtr |-> 1,
                                OwnerOriginalPrio |-> os.Prio[t]]]
  /\ Take(t, m)
  /\ UNCHANGED kvars

\* Nobody holds the mutex: the caller gets it.
OSMutexPendFree(t, m) ==
  /\ Call(t, "pend") /\ mtx[m].OwnerNestingCtr = 0
  /\ mtx' = [mtx EXCEPT ![m] = [OwnerTCBPtr |-> t, OwnerNestingCtr |-> 1,
                                OwnerOriginalPrio |-> os.Prio[t]]]
  /\ Take(t, m)
  /\ UNCHANGED kvars

\* The caller holds it already: one level deeper, in 8-bit arithmetic.
OSMutexPendNested(t, m) ==
  /\ Call(t, "pend") /\ mtx[m].OwnerNestingCtr # 0 /\ mtx[m].OwnerTCBPtr = t
  /\ mtx[m].OwnerNestingCtr < NestBound
  /\ mtx' = [mtx EXCEPT ![m].OwnerNestingCtr = (@ + 1) % NestMod]
  /\ Take(t, m)
  /\ UNCHANGED kvars

\* Another task holds it: raise that task, wait.  A deleted owner below the
\* caller's priority makes the call fail.
OSMutexPendWait(t, m, timeout) ==
  LET owner == mtx[m].OwnerTCBPtr
      low   == os.Prio[owner] > os.Prio[t]
      o     == IF low THEN RaiseOwner(os, owner, os.Prio[t]) ELSE os
  IN  /\ Call(t, "pend") /\ mtx[m].OwnerNestingCtr # 0 /\ owner # t
      /\ os.OSSchedLockNestingCtr = 0
      /\ low => os.TaskState[owner] # "DEL"
      /\ os' = OS_Pend(o, t, m, "MUTEX", timeout)
      /\ Goto(t, "pend")
      /\ arg' = [arg EXCEPT ![t] = m]
      /\ UNCHANGED <<tickPtr, tmrCtr, boot, mtx, holds>>

\* The code after OSSched.
OSMutexPendReturn(t) ==
  /\ os.OSRunning /\ t = cur /\ pc[t] = "ret" /\ arg[t] \in Mutex
  /\ IF os.PendStatus[t] = "OK" THEN Take(t, arg[t]) ELSE UNCHANGED holds
  /\ Goto(t, "app")
  /\ arg' = [arg EXCEPT ![t] = NoTask]
  /\ UNCHANGED <<os, tickPtr, tmrCtr, boot, mtx>>

\* Mutant of Restore: the owner keeps the priority it was lent.
MutRestore(o, t, prio) == o

\* The owner's priority as it hands the mutex over.
Restore(o, t, prio) ==
  IF o.Prio[t] = prio THEN o
  ELSE [OS_RdyListInsertTail(OS_PrioInsert([OS_RdyListRemove(o, t) EXCEPT !.Prio[t] = prio],
                                           prio), t) EXCEPT !.OSPrioCur = prio]

OSMutexPost(t, m, opt) ==
  LET n    == (mtx[m].OwnerNestingCtr - 1) % NestMod
      next == Head(os.PendList[m])
      o    == Restore(os, t, mtx[m].OwnerOriginalPrio)
  IN  /\ Call(t, "post") /\ mtx[m].OwnerTCBPtr = t
      /\ \/ /\ n > 0
            /\ mtx' = [mtx EXCEPT ![m].OwnerNestingCtr = n]
            /\ UNCHANGED kvars
         \/ /\ n = 0 /\ os.PendList[m] = <<>>
            /\ mtx' = [mtx EXCEPT ![m].OwnerNestingCtr = 0, ![m].OwnerTCBPtr = NoTask]
            /\ UNCHANGED kvars
         \/ /\ n = 0 /\ os.PendList[m] # <<>>
            /\ mtx' = [mtx EXCEPT ![m] = [OwnerTCBPtr |-> next, OwnerNestingCtr |-> 1,
                                          OwnerOriginalPrio |-> os.Prio[next]]]
            /\ Step(t, OS_Post(o, m, next, NoMsg), IF opt = "NO_SCHED" THEN "app" ELSE "sched")
      /\ Leave(t, m)

MutexStep(t) ==
  \/ \E m \in Mutex : OSMutexPendFree(t, m) \/ OSMutexPendNested(t, m)
  \/ \E m \in Mutex, d \in Timeouts \cup {0} : OSMutexPendWait(t, m, d)
  \/ \E m \in Mutex, opt \in PostOpts : OSMutexPost(t, m, opt)
  \/ OSMutexPendReturn(t)

MNext == \/ KNext /\ UNCHANGED <<mtx, holds>>
         \/ \E t \in Task : MutexStep(t)

MSpec == MInit /\ [][MNext]_mvars
-----------------------------------------------------------------------------
\* The mutex was given to t, which has not yet returned from OSMutexPend.
Given(t, m) == /\ os.TaskState[t] # "DEL" /\ t \notin Creating
               /\ pc[t] \in {"pend", "ret"} /\ arg[t] = m
               /\ os.PendOn[t] = "NOTHING" /\ os.PendStatus[t] = "OK"

\* Mutual exclusion: a task between a successful OSMutexPend and its OSMutexPost
\* is the recorded owner, at the recorded depth, and no other task is inside;
\* also when the hand-over meets a timeout or a suspension.
MutexExclusive ==
  \A m \in Mutex, t \in Task :
    holds[t][m] + (IF Given(t, m) THEN 1 ELSE 0)
      = IF mtx[m].OwnerTCBPtr = t THEN mtx[m].OwnerNestingCtr ELSE 0

\* Priority inheritance: the owner is at least as urgent as every task that
\* waits for the mutex ("Raise owner's priority", OSMutexPend).
OwnerInherits ==
  \A m \in Mutex : \A t \in Range(os.PendList[m]) :
    os.Prio[mtx[m].OwnerTCBPtr] <= os.Prio[t]

\* Inheritance ends: a task that neither owns nor was given a mutex runs at the
\* priority it was created with ("Lower owner's priority back to its original
\* one", OSMutexPost).  For applications that do not change priorities.
PriorityRestored ==
  \A t \in AppTask : (\A m \in Mutex : mtx[m].OwnerTCBPtr # t) /\ os.TaskState[t] # "DEL"
                       => os.Prio[t] = TaskPrio[t]
=============================================================================
