------------------------------ MODULE OSKernel ------------------------------
(***************************************************************************)
(* The running kernel: application tasks that call its services, the tick  *)
(* interrupt, the tick task and the scheduler.  A critical section of the  *)
(* code is one step; between two of them, the tick interrupt may strike.   *)
(* Only the current task takes steps: the port keeps the threads of all    *)
(* others blocked.                                                         *)
(***************************************************************************)
EXTENDS OSCore

CONSTANTS
  BootOrder,     \* the tasks in the order OSInit and main() create them
  TaskPrio,      \* the priority each task is created with
  TaskQuanta,    \* the time_quanta each task is created with
  TmrTask,       \* OSTmrTaskTCB, or NoTask when OS_CFG_TMR_EN is 0
  TmrUpdateCnt,  \* OSTmrUpdateCnt: ticks between two signals to the timer task
  Calls,         \* the services each task calls
  Hazard,        \* legal but hazardous ways of calling them, see below
  Delays,        \* the dly and ticks arguments
  Timeouts,      \* the timeout arguments of the calls that wait, 0 is for ever
  Quanta,        \* the time quantum arguments, 0 asks for the default
  DlyOpts,       \* the opt arguments of OSTimeDly
  NewPrios,      \* the prio_new arguments
  PostOpts,      \* subset of {"NONE", "NO_SCHED"}
  LockMax,       \* 250 in the code: the deepest scheduler lock
  SuspendBound   \* model bound: how often a suspended task is suspended again

Services == {"dly", "suspend", "resume", "chprio", "lock", "yield", "rrcfg", "sempend",
             "sempost", "semabort", "semset", "create", "del", "timeset", "quanta",
             "pend", "post", "pendabort", "set", "qpend", "qpost", "qabort", "qflush",
             "tqpend", "multi", "flagpend", "flagpost"}

\* "late":     OSTimeDly with OS_OPT_TIME_MATCH and a time that is already past
\* "del_lock": OSTaskDel of the caller with the scheduler locked
Hazards == {"late", "del_lock"}

ASSUME KernelAssumption ==
  /\ BootOrder \in Seq(Task) /\ IdleTask \in Range(BootOrder)
  /\ \A i, j \in DOMAIN BootOrder : BootOrder[i] = BootOrder[j] => i = j
  /\ TaskPrio \in [Task -> Prio] /\ TaskQuanta \in [Task -> Nat]
  /\ TmrTask \in Task \cup {NoTask} /\ TmrUpdateCnt \in Nat \ {0}
  /\ Calls \in [Task -> SUBSET Services]
  /\ Calls[IdleTask] = {} /\ Calls[TickTask] = {"sempend"}
  /\ Hazard \subseteq Hazards
  /\ Delays \subseteq Tick /\ Timeouts \subseteq Tick /\ NewPrios \subseteq 0 .. PrioMax - 2
  /\ Quanta \subseteq Nat
  /\ DlyOpts \subseteq {"DLY", "TIMEOUT", "PERIODIC", "MATCH"}
  /\ PostOpts \subseteq {"NONE", "NO_SCHED"}
  /\ LockMax \in Nat /\ SuspendBound \in Nat

VARIABLES
  os,            \* the kernel data, see OSCore
  pc,            \* where each task is inside the kernel
  arg,           \* the TCB or object a task's call is about, kept across a gap
  tickPtr,       \* p_tcb of OS_TickListUpdate
  tmrCtr,        \* OSTmrUpdateCtr
  boot           \* how many tasks OSInit and main() have created

kvars == <<os, pc, arg, tickPtr, tmrCtr, boot>>

\* "app"    in its own code
\* "sched"  a service has left its critical section and is about to call OSSched
\* "pend"   the same in a call that waits; "ret" is its code after OSSched
\* "abort"  OSTaskSemPendAbort between its two critical sections
\* "create" OSTaskCreate has filled the TCB and not yet linked it
\* "update" the tick task has a tick to process; "spoke" it is in the loop,
\*          interrupts disabled
\* "wake"   a service readies the waiters of an object, interrupts disabled
PC == {"app", "sched", "pend", "ret", "abort", "create", "update", "spoke", "wake"}

AppTask == Task \ {IdleTask, TickTask}

KInit == /\ os = OSInit
         /\ pc = [t \in Task |-> "app"]
         /\ arg = [t \in Task |-> NoTask]
         /\ tickPtr = NoTask
         /\ tmrCtr = TmrUpdateCnt
         /\ boot = 0
-----------------------------------------------------------------------------
cur == os.OSTCBCurPtr

Goto(t, l) == pc' = [pc EXCEPT ![t] = l]

\* Task t runs its own code and calls a service.
Call(t, svc) == os.OSRunning /\ t = cur /\ pc[t] = "app" /\ svc \in Calls[t]

\* TCBs that OSTaskCreate has filled but not yet linked; the application does
\* not use a TCB before OSTaskCreate has returned.
Creating == {arg[t] : t \in {u \in Task : pc[u] = "create"}}

Target == AppTask \ Creating

\* Only the kernel data and the caller's place in it change.
Step(t, o, l) == os' = o /\ Goto(t, l) /\ UNCHANGED <<arg, tickPtr, tmrCtr, boot>>
-----------------------------------------------------------------------------
(* Start-up and task creation: os_core.c, os_task.c. *)

\* The first part of OSTaskCreate, outside any critical section.
FillTCB(o, t) ==
  LET q == TaskQuanta[t]
  IN  [OS_TaskInitTCB(o, t) EXCEPT !.Prio[t] = TaskPrio[t],
         !.TimeQuanta[t] = q,
         !.TimeQuantaCtr[t] = IF q = 0 THEN o.OSSchedRoundRobinDfltTimeQuanta ELSE q]

\* Its critical section.
LinkTCB(o, t) == OS_RdyListInsertTail(OS_PrioInsert(o, o.Prio[t]), t)

\* OSInit and main() create the tasks before the kernel runs.
Boot == /\ ~os.OSRunning /\ boot < Len(BootOrder)
        /\ LET t == BootOrder[boot + 1]
           IN  os' = LinkTCB(FillTCB(os, t), t)
        /\ boot' = boot + 1
        /\ UNCHANGED <<pc, arg, tickPtr, tmrCtr>>

OSStart == /\ ~os.OSRunning /\ boot = Len(BootOrder)
           /\ os' = [CtxSw(os) EXCEPT !.OSRunning = TRUE]
           /\ UNCHANGED <<pc, arg, tickPtr, tmrCtr, boot>>

OSTaskCreate(t, c) == /\ Call(t, "create") /\ c \in Target /\ os.TaskState[c] = "DEL"
                      /\ os' = FillTCB(os, c)
                      /\ Goto(t, "create")
                      /\ arg' = [arg EXCEPT ![t] = c]
                      /\ UNCHANGED <<tickPtr, tmrCtr, boot>>

OSTaskCreateLink(t) == /\ os.OSRunning /\ t = cur /\ pc[t] = "create"
                       /\ os' = LinkTCB(os, arg[t])
                       /\ pc' = [pc EXCEPT ![t] = "sched", ![arg[t]] = "app"]
                       /\ arg' = [arg EXCEPT ![t] = NoTask, ![arg[t]] = NoTask]
                       /\ UNCHANGED <<tickPtr, tmrCtr, boot>>

\* Mutant of OSTaskDel: a ready task is deleted without leaving the ready list.
MutTaskDel(t, c) ==
  /\ Call(t, "del") /\ c \in Target /\ pc[c] # "create" /\ os.TaskState[c] # "DEL"
  /\ c = t => os.OSSchedLockNestingCtr = 0
  /\ Step(t, [OS_TaskInitTCB(OS_PendListRemove(OS_TickListRemove(os, c), c), c)
                EXCEPT !.TaskState[c] = "DEL"], "sched")

\* A deleted TCB is filled with its initial values and marked.  A task in the
\* middle of OSTaskCreate is not deleted: its TCB would stay half made.
OSTaskDel(t, c) ==
  /\ Call(t, "del") /\ c \in Target /\ pc[c] # "create"
  /\ os.TaskState[c] # "DEL"
  /\ c = t => os.OSSchedLockNestingCtr = 0 \/ "del_lock" \in Hazard
  /\ LET s == os.TaskState[c]
         o == IF s = "RDY" THEN OS_RdyListRemove(os, c)
              ELSE IF s = "SUSPENDED" THEN os
              ELSE IF s \in Pending THEN OS_PendListRemove(OS_TickListRemove(os, c), c)
              ELSE OS_TickListRemove(os, c)
     IN  Step(t, [OS_TaskInitTCB(o, c) EXCEPT !.TaskState[c] = "DEL"], "sched")
-----------------------------------------------------------------------------
(* The scheduler: os_core.c. *)

\* OSSched; a task that is no longer ready is left here until it is again.
OSSched(t) == /\ os.OSRunning /\ t = cur /\ pc[t] \in {"sched", "pend"}
              /\ Step(t, Reschedule(os), IF pc[t] = "pend" THEN "ret" ELSE "app")

OSSchedLock(t) == /\ Call(t, "lock") /\ os.OSSchedLockNestingCtr < LockMax
                  /\ Step(t, [os EXCEPT !.OSSchedLockNestingCtr = @ + 1], "app")

\* Mutant of OSSchedUnlock: the last unlock does not call OSSched.
MutSchedUnlock(t) == /\ Call(t, "lock") /\ os.OSSchedLockNestingCtr > 0
                     /\ Step(t, [os EXCEPT !.OSSchedLockNestingCtr = @ - 1], "app")

OSSchedUnlock(t) == /\ Call(t, "lock") /\ os.OSSchedLockNestingCtr > 0
                    /\ Step(t, [os EXCEPT !.OSSchedLockNestingCtr = @ - 1],
                            IF os.OSSchedLockNestingCtr = 1 THEN "sched" ELSE "app")

OSSchedRoundRobinCfg(t, en, dflt) ==
  /\ Call(t, "rrcfg")
  /\ Step(t, [os EXCEPT !.OSSchedRoundRobinEn = en,
                        !.OSSchedRoundRobinDfltTimeQuanta = IF dflt > 0 THEN dflt ELSE DfltQuanta],
          "app")

OSSchedRoundRobinYield(t) ==
  /\ Call(t, "yield") /\ os.OSSchedLockNestingCtr = 0 /\ os.OSSchedRoundRobinEn
  /\ Len(os.OSRdyList[os.OSPrioCur]) >= 2
  /\ Step(t, Rotate(os, os.OSPrioCur), "sched")

OSTaskTimeQuantaSet(t, c, q) ==
  /\ Call(t, "quanta") /\ c \in Target
  /\ LET v == IF q = 0 THEN os.OSSchedRoundRobinDfltTimeQuanta ELSE q
     IN  Step(t, [os EXCEPT !.TimeQuanta[c] = v,
                            !.TimeQuantaCtr[c] = IF v > @ THEN v ELSE @], "app")

\* self: the caller passed a null TCB pointer.
OSTaskChangePrio(t, c, prio_new, self) ==
  /\ Call(t, "chprio") /\ c \in Target /\ (self => c = t)
  /\ os.TaskState[c] # "DEL"
  /\ LET s  == os.TaskState[c]
         o1 == OS_PrioInsert([OS_RdyListRemove(os, c) EXCEPT !.Prio[c] = prio_new], prio_new)
         o  == IF s = "RDY" THEN IF self THEN OS_RdyListInsertHead(o1, c)
                                         ELSE OS_RdyListInsertTail(o1, c)
               ELSE IF s \notin Pending \/ os.PendOn[c] \in {"TASK_Q", "TASK_SEM", "FLAG"}
               THEN [os EXCEPT !.Prio[c] = prio_new]
               ELSE IF os.PendOn[c] = "NOTHING" THEN os
               ELSE OS_PendListChangePrio(os, c, prio_new)
     IN  Step(t, o, "sched")
-----------------------------------------------------------------------------
(* Delays, suspension: os_time.c, os_task.c. *)

OSTimeDly(t, dly, opt) ==
  /\ Call(t, "dly") /\ os.OSSchedLockNestingCtr = 0
  /\ opt = "MATCH" \/ dly > 0
  /\ NoDelay(os, dly, opt) => "late" \in Hazard
  /\ LET o == OS_TickListInsert([os EXCEPT !.TaskState[t] = "DLY"], t, dly, opt)
     IN  IF NoDelay(os, dly, opt) THEN Step(t, o, "app")
                                  ELSE Step(t, OS_RdyListRemove(o, t), "sched")

OSTimeSet(t, ticks) == Call(t, "timeset") /\ Step(t, [os EXCEPT !.OSTickCtr = ticks], "app")

OSTaskSuspend(t, c) ==
  /\ Call(t, "suspend") /\ c \in Target /\ (c = t => os.OSSchedLockNestingCtr = 0)
  /\ os.TaskState[c] # "DEL"
  /\ LET s == os.TaskState[c]
         o == [os EXCEPT !.SuspendCtr[c] = 1,
                         !.TaskState[c] = CASE s = "RDY" -> "SUSPENDED"
                                            [] s = "DLY" -> "DLY_SUSPENDED"
                                            [] s = "PEND" -> "PEND_SUSPENDED"
                                            [] OTHER -> "PEND_TIMEOUT_SUSPENDED"]
     IN  \/ s \in Suspended /\ os.SuspendCtr[c] < SuspendBound
            /\ Step(t, [os EXCEPT !.SuspendCtr[c] = (@ + 1) % NestMod], "sched")
         \/ s \notin Suspended
            /\ Step(t, IF s = "RDY" THEN OS_RdyListRemove(o, c) ELSE o, "sched")

\* A task that is not suspended is left alone, and OSSched called all the same.
OSTaskResume(t, c) ==
  /\ Call(t, "resume") /\ c \in Target \ {t} /\ os.TaskState[c] # "DEL"
  /\ LET s == os.TaskState[c]
         o == [os EXCEPT !.SuspendCtr[c] = (@ - 1) % NestMod]
         r == [o EXCEPT !.TaskState[c] = CASE s = "SUSPENDED" -> "RDY"
                                           [] s = "DLY_SUSPENDED" -> "DLY"
                                           [] s = "PEND_SUSPENDED" -> "PEND"
                                           [] OTHER -> "PEND_TIMEOUT"]
     IN  Step(t, IF s \notin Suspended THEN os
                 ELSE IF o.SuspendCtr[c] # 0 THEN o
                 ELSE IF s = "SUSPENDED" THEN OS_TaskRdy(r, c) ELSE r, "sched")
-----------------------------------------------------------------------------
(* The semaphore inside each TCB: os_task.c. *)

\* Where a waiting call of task t returns to.
Resumption(t, ok) == IF t = TickTask /\ ok THEN "update" ELSE "app"

\* Mutant of OSTaskSemPend: the scheduler lock is not looked at.
MutTaskSemPend(t, timeout, block) ==
  /\ Call(t, "sempend") /\ (t = TickTask => timeout = 0 /\ block)
  /\ \/ /\ os.SemCtr[t] > 0
        /\ Step(t, [os EXCEPT !.SemCtr[t] = @ - 1], Resumption(t, TRUE))
     \/ /\ os.SemCtr[t] = 0 /\ block
        /\ Step(t, OS_Pend(os, t, NoObj, "TASK_SEM", timeout), "pend")

OSTaskSemPend(t, timeout, block) ==
  /\ Call(t, "sempend") /\ (t = TickTask => timeout = 0 /\ block)
  /\ \/ /\ os.SemCtr[t] > 0
        /\ Step(t, [os EXCEPT !.SemCtr[t] = @ - 1], Resumption(t, TRUE))
     \/ /\ os.SemCtr[t] = 0 /\ block /\ os.OSSchedLockNestingCtr = 0
        /\ Step(t, OS_Pend(os, t, NoObj, "TASK_SEM", timeout), "pend")

\* The code after OSSched in the call: the outcome is read once.
PendReturn(t) == /\ os.OSRunning /\ t = cur /\ pc[t] = "ret" /\ arg[t] = NoTask
                 /\ Step(t, os, Resumption(t, os.PendStatus[t] = "OK"))

WaitsForSignal(o, c) == o.TaskState[c] \in Pending /\ o.PendOn[c] = "TASK_SEM"

\* Mutant of OS_TaskSemPost: a suspended waiter is not recognized as a waiter.
MutSemPostSuspended(o, c) ==
  IF WaitsForSignal(o, c) /\ o.TaskState[c] \notin Suspended THEN OS_Post(o, NoObj, c, NoMsg)
  ELSE IF o.TaskState[c] = "DEL" \/ o.SemCtr[c] = SemMax THEN o
  ELSE [o EXCEPT !.SemCtr[c] = @ + 1]

\* Mutant of OS_TaskSemPost: the counter is not checked for overflow.
MutSemPostOverflow(o, c) ==
  IF WaitsForSignal(o, c) THEN OS_Post(o, NoObj, c, NoMsg)
  ELSE [o EXCEPT !.SemCtr[c] = @ + 1]

OS_TaskSemPost(o, c) ==
  IF WaitsForSignal(o, c) THEN OS_Post(o, NoObj, c, NoMsg)
  ELSE IF o.TaskState[c] = "DEL" \/ o.SemCtr[c] = SemMax THEN o
  ELSE [o EXCEPT !.SemCtr[c] = @ + 1]

OSTaskSemPost(t, c, opt) ==
  /\ Call(t, "sempost") /\ c \in Target
  /\ Step(t, OS_TaskSemPost(os, c),
          IF WaitsForSignal(os, c) /\ opt # "NO_SCHED" THEN "sched" ELSE "app")

OSTaskSemSet(t, c, cnt) ==
  /\ Call(t, "semset") /\ c \in Target
  /\ Step(t, [os EXCEPT !.SemCtr[c] = cnt], "app")

\* The check that the target waits for its semaphore, in a critical section of
\* its own ...
OSTaskSemPendAbort(t, c) ==
  /\ Call(t, "semabort") /\ c \in Target \ {t} /\ os.PendOn[c] = "TASK_SEM"
  /\ Goto(t, "abort")
  /\ arg' = [arg EXCEPT ![t] = c]
  /\ UNCHANGED <<os, tickPtr, tmrCtr, boot>>

\* ... and the abort in the next one.
OSTaskSemPendAbort2(t, opt) ==
  /\ os.OSRunning /\ t = cur /\ pc[t] = "abort"
  /\ os' = OS_PendAbort(os, NoObj, arg[t])
  /\ Goto(t, IF opt = "NO_SCHED" THEN "app" ELSE "sched")
  /\ arg' = [arg EXCEPT ![t] = NoTask]
  /\ UNCHANGED <<tickPtr, tmrCtr, boot>>
-----------------------------------------------------------------------------
(* Time: os_time.c, os_tick.c. *)

IntDisabled == os.OSRunning /\ pc[cur] \in {"spoke", "wake"}

\* Mutant of OSTimeTick: the timer task is not signalled.
MutTimeTick(o) == OS_SchedRoundRobin(OS_TaskSemPost(o, TickTask))

\* OSTimeTick: signal the tick task, slice, signal the timer task.
OSTimeTick(o) ==
  LET o1 == OS_SchedRoundRobin(OS_TaskSemPost(o, TickTask))
  IN  IF TmrTask # NoTask /\ tmrCtr = 1 THEN OS_TaskSemPost(o1, TmrTask) ELSE o1

\* The tick interrupt, one critical section in this port: OSIntEnter,
\* OSTimeTick, OSIntExit.
TickISR ==
  /\ os.OSRunning /\ ~IntDisabled
  /\ \E o \in {OSTimeTick(os)} : os' = Reschedule(o)
  /\ tmrCtr' = IF TmrTask = NoTask THEN tmrCtr
               ELSE IF tmrCtr = 1 THEN TmrUpdateCnt ELSE tmrCtr - 1
  /\ UNCHANGED <<pc, arg, tickPtr, boot>>

\* Mutant of OS_TickListUpdate: the spoke of the previous tick is processed.
MutTickListUpdate ==
  /\ os.OSRunning /\ cur = TickTask /\ pc[TickTask] = "update"
  /\ LET s == os.TickWheel[os.OSTickCtr % TickWheelSize]
     IN  /\ os' = [os EXCEPT !.OSTickCtr = (@ + 1) % TickMod]
         /\ tickPtr' = IF s = <<>> THEN NoTask ELSE Head(s)
  /\ Goto(TickTask, "spoke")
  /\ UNCHANGED <<arg, tmrCtr, boot>>

\* OS_TickListUpdate: the tick is counted and its spoke selected ...
OS_TickListUpdate ==
  /\ os.OSRunning /\ cur = TickTask /\ pc[TickTask] = "update"
  /\ LET ctr == (os.OSTickCtr + 1) % TickMod
         s   == os.TickWheel[ctr % TickWheelSize]
     IN  /\ os' = [os EXCEPT !.OSTickCtr = ctr]
         /\ tickPtr' = IF s = <<>> THEN NoTask ELSE Head(s)
  /\ Goto(TickTask, "spoke")
  /\ UNCHANGED <<arg, tmrCtr, boot>>

\* Mutant of TickListUpdateLoop: one task per tick.
MutTickListUpdateLoop ==
  /\ os.OSRunning /\ pc[cur] = "spoke"
  /\ os' = IF tickPtr # NoTask /\ os.TickCtrMatch[tickPtr] = os.OSTickCtr
           THEN Expire(os, tickPtr) ELSE os
  /\ Goto(cur, "app")
  /\ tickPtr' = NoTask
  /\ UNCHANGED <<arg, tmrCtr, boot>>

\* ... and the loop over its entries, up to the first that is not due.
TickListUpdateLoop ==
  /\ os.OSRunning /\ pc[cur] = "spoke"
  /\ LET s == os.TickWheel[os.OSTickCtr % TickWheelSize]
         t == tickPtr
     IN  IF t = NoTask \/ (os.TaskState[t] \in Timed /\ os.TickCtrMatch[t] # os.OSTickCtr)
         THEN /\ Goto(cur, "app")
              /\ tickPtr' = NoTask
              /\ UNCHANGED os
         ELSE /\ os' = Expire(os, t)
              /\ tickPtr' = After(s, t)
              /\ UNCHANGED pc
  /\ UNCHANGED <<arg, tmrCtr, boot>>
-----------------------------------------------------------------------------
\* The steps of task t inside a service or its own code.
TaskStep(t) ==
  \/ \E c \in Task : OSTaskCreate(t, c) \/ OSTaskDel(t, c)
                     \/ OSTaskSuspend(t, c) \/ OSTaskResume(t, c)
  \/ OSTaskCreateLink(t) \/ OSSched(t) \/ PendReturn(t)
  \/ OSSchedLock(t) \/ OSSchedUnlock(t) \/ OSSchedRoundRobinYield(t)
  \/ \E en \in BOOLEAN, q \in Quanta : OSSchedRoundRobinCfg(t, en, q)
  \/ \E c \in Task, q \in Quanta : OSTaskTimeQuantaSet(t, c, q)
  \/ \E c \in Task, p \in NewPrios, self \in BOOLEAN : OSTaskChangePrio(t, c, p, self)
  \/ \E d \in Delays, opt \in DlyOpts : OSTimeDly(t, d, opt)
  \/ \E d \in Delays : OSTimeSet(t, d)
  \/ \E d \in Timeouts \cup {0}, block \in BOOLEAN : OSTaskSemPend(t, d, block)
  \/ \E c \in Task, opt \in PostOpts : OSTaskSemPost(t, c, opt)
  \/ \E c \in Task, n \in 0 .. SemMax : OSTaskSemSet(t, c, n)
  \/ \E c \in Task : OSTaskSemPendAbort(t, c)
  \/ \E opt \in PostOpts : OSTaskSemPendAbort2(t, opt)

TickStep == OS_TickListUpdate \/ TickListUpdateLoop

KNext == Boot \/ OSStart \/ TickISR \/ TickStep \/ \E t \in Task : TaskStep(t)

KSpec == KInit /\ [][KNext]_kvars

\* The tick task's own loop: wait for a tick, process it.
TickTaskStep == \/ TickStep
                \/ OSTaskSemPend(TickTask, 0, TRUE) \/ OSSched(TickTask) \/ PendReturn(TickTask)

\* The hardware keeps ticking and the processor keeps executing the tick task
\* when it is the current one; nothing is assumed of the application.
KLive == KSpec /\ WF_kvars(Boot) /\ WF_kvars(OSStart) /\ WF_kvars(TickISR) /\ WF_kvars(TickTaskStep)
-----------------------------------------------------------------------------
(* Properties. *)

\* Every variable has its type; a gap in a call has the TCB it is about.
KTypeOK ==
  /\ os \in KState
  /\ pc \in [Task -> PC]
  /\ arg \in [Task -> Task \cup Obj \cup {NoTask, NoObj}]
  /\ \A t \in Task : pc[t] \in {"abort", "create"} => arg[t] \in AppTask
  /\ tickPtr \in Task \cup {NoTask}
  /\ tmrCtr \in 1 .. TmrUpdateCnt
  /\ boot \in 0 .. Len(BootOrder)
  /\ os.OSRunning => os.OSTCBCurPtr \in Task

RdySet == {t \in Task : os.TaskState[t] = "RDY"} \ Creating

\* The scheduler sees every ready task and no other: whatever services, ticks
\* and timeouts did, the ready lists hold each task in state RDY once, at its
\* own priority, and the bitmap marks the non-empty lists (OS_RdyListInsert,
\* OS_RdyListRemove and every service that pairs them with TaskState).
RdyIntegrity == RdyOK(os.OSRdyList, os.Prio, os.OSPrioTbl, RdySet)

\* A task that executes its own code, or holds the scheduler lock, is ready: no
\* service lets its caller run on after it has blocked, suspended or deleted it.
RunningIsReady ==
  os.OSRunning /\ (pc[cur] \notin {"sched", "pend"} \/ os.OSSchedLockNestingCtr > 0)
    => os.TaskState[cur] = "RDY" /\ cur \notin Creating

\* Preemption is never owed: with the scheduler unlocked, a task in its own code
\* is the first of the highest ready priority (OSSched, OSIntExit).  The tick
\* task is excepted: OS_TickListUpdate readies tasks without calling OSSched.
HighestRuns ==
  os.OSRunning /\ cur # TickTask /\ pc[cur] \notin {"sched", "pend"}
    /\ os.OSSchedLockNestingCtr = 0
    => cur = HighRdy(os)

\* The distance of a task's wake-up from now.
Remain(t) == Minus(os.TickCtrMatch[t], os.OSTickCtr)

\* A task waits on the tick wheel exactly when its state says that its wait is
\* timed: once, on the spoke of its match tick, in the order of expiry.
WheelIntegrity ==
  /\ \A s \in Spoke : IsList(os.TickWheel[s], {t \in Task : os.TickSpokePtr[t] = s})
  /\ \A t \in Task : os.TaskState[t] \in Timed <=> os.TickSpokePtr[t] # NoSpoke
  /\ \A t \in Task : os.TickSpokePtr[t] # NoSpoke
                       => os.TickSpokePtr[t] = os.TickCtrMatch[t] % TickWheelSize
  /\ \A s \in Spoke : \A i, j \in DOMAIN os.TickWheel[s] :
       i < j => Remain(os.TickWheel[s][i]) <= Remain(os.TickWheel[s][j])

\* No wake-up is missed: once the tick task has processed a tick, no timed task
\* is left whose match tick is the current one; it would sleep a whole turn of
\* the 32-bit tick counter (the early exit of OS_TickListUpdate's loop).
NoMissedTick ==
  ~IntDisabled => \A t \in Task : os.TaskState[t] \in Timed => Remain(t) > 0

\* Nobody oversleeps: no wait is longer than the longest one asked for or, for an
\* absolute time, than OS_TICK_TH_RDY allows, however late a periodic task calls
\* again and whatever stale match tick it counts from (OS_OPT_TIME_PERIODIC).
DelayBounded ==
  \A t \in Task : os.TaskState[t] \in Timed
    => \/ \E d \in Delays \cup Timeouts : Remain(t) <= d
       \/ "MATCH" \in DlyOpts /\ Remain(t) <= TickThRdy + 1

\* A signal is never lost on a sleeping task: a task that waits for its own
\* semaphore has no signal left in it (OSTaskSemPend, OS_TaskSemPost).
NoSignalWhileWaiting ==
  \A t \in Task : WaitsForSignal(os, t) => os.SemCtr[t] = 0

\* The suspension counter tells the truth about the state, through nested
\* suspensions and waits that end while the task is suspended.
SuspensionCounted ==
  \A t \in Task : os.TaskState[t] \in Suspended <=> os.SuspendCtr[t] > 0

\* What a task waits for agrees with its state, and a call that has returned
\* leaves nothing behind: no pend data, no PendOn (OS_Post, OS_PendAbort, Expire).
WaitIntegrity ==
  /\ \A t \in Task : os.TaskState[t] \in Pending <=> os.PendOn[t] # "NOTHING"
  /\ \A t \in Task : os.TaskState[t] \in Pending => pc[t] \in {"pend", "ret"}
  /\ \A obj \in Obj : IsList(os.PendList[obj], {t \in Task : obj \in os.PendData[t]})
  /\ \A t \in Task : os.PendData[t] # {} => os.TaskState[t] \in Pending
  /\ \A obj \in Obj : \A i, j \in DOMAIN os.PendList[obj] :
       i < j => os.Prio[os.PendList[obj][i]] <= os.Prio[os.PendList[obj][j]]

\* No step takes the processor from a task that holds the scheduler lock
\* (OSSched, OSIntExit).
NoSwitchWhileLocked ==
  [][os.OSSchedLockNestingCtr > 0 /\ os'.OSSchedLockNestingCtr > 0 => cur' = cur]_kvars

\* Without time slicing, a ready task gives way only to a higher priority:
\* OS_RdyListInsert puts a task of the running priority behind the running one.
NoPreemptionByEqual ==
  [][os.OSRunning /\ cur' # cur /\ os'.TaskState[cur] = "RDY" /\ ~os.OSSchedRoundRobinEn
       => os'.Prio[cur'] < os'.Prio[cur]]_kvars
-----------------------------------------------------------------------------
(* Liveness, for instances that do not lock the scheduler and whose tick task *)
(* has the highest priority.                                                  *)

\* A timed wait ends, whatever else the tasks do: with its delay over, with a
\* timeout, or earlier (OSTimeTick, OS_TickTask, OS_TickListUpdate).
TimedWaitEnds ==
  \A t \in AppTask \ {TmrTask} : os.TaskState[t] \in Timed ~> os.TaskState[t] \notin Timed

\* The timer task's wait for its next signal ends (OSTimeTick).
TmrTaskSignalled ==
  TmrTask # NoTask => (WaitsForSignal(os, TmrTask) ~> ~WaitsForSignal(os, TmrTask))

\* Tasks t and u compete at one priority under round-robin scheduling.
Peers(t, u) == /\ os.OSSchedRoundRobinEn
               /\ os.TaskState[t] = "RDY" /\ os.TaskState[u] = "RDY"
               /\ os.Prio[t] = os.Prio[u]

\* No starvation among peers: of two tasks that stay ready at one priority, the
\* second runs again and again if the first does, though neither blocks
\* (OS_SchedRoundRobin).
RoundRobinFair ==
  \A t, u \in AppTask :
    t # u => ([]<>(cur = t) => []<>(cur = u \/ ~Peers(t, u)))
=============================================================================
