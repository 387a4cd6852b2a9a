------------------------------- MODULE OSCore -------------------------------
(***************************************************************************)
(* The kernel data of uC/OS-III and the internal functions that change it: *)
(* ready lists (os_core.c), pend lists (os_core.c) and the tick wheel      *)
(* (os_tick.c).  The kernel state is one record; a C function that runs    *)
(* inside a critical section is an operator from that record to the next.  *)
(* Doubly linked lists are sequences, the priority bitmap is a set of      *)
(* priorities (OSPrio shows the bitmap implements it).                     *)
(***************************************************************************)
EXTENDS Integers, Sequences, FiniteSets, Functions

CONSTANTS
  Task,            \* the task control blocks (TCBs)
  IdleTask,        \* OSIdleTaskTCB
  TickTask,        \* OSTickTaskTCB
  Obj,             \* the kernel objects that own a pend list
  NoTask, NoObj,   \* null pointers
  Msg, NoMsg,      \* what a post can deliver, and the null message
  PrioMax,         \* OS_CFG_PRIO_MAX; the idle task has PrioMax - 1
  TickWheelSize,   \* OSCfg_TickWheelSize
  TickMod,         \* 2^32 in the code: OS_TICK arithmetic wraps here
  TickThRdy,       \* OS_TICK_TH_RDY: a larger distance means "already past"
  SemMax,          \* the largest OS_SEM_CTR
  NestMod,         \* 2^8 in the code: OS_NESTING_CTR arithmetic wraps here
  DfltQuanta       \* OSCfg_TickRate_Hz / 10, the default time quantum

ASSUME CoreAssumption ==
  /\ IdleTask \in Task /\ TickTask \in Task /\ IdleTask # TickTask
  /\ NoTask \notin Task /\ NoObj \notin Obj /\ NoMsg \notin Msg
  /\ PrioMax \in Nat \ {0, 1}
  /\ TickWheelSize \in Nat \ {0}
  /\ TickMod \in Nat \ {0, 1} /\ TickThRdy \in 0 .. TickMod - 1
  /\ SemMax \in Nat \ {0} /\ NestMod \in Nat \ {0, 1}
  /\ DfltQuanta \in Nat

Prio  == 0 .. PrioMax - 1
Tick  == 0 .. TickMod - 1
Spoke == 0 .. TickWheelSize - 1

OS_PRIO_INIT == PrioMax               \* the priority of a TCB without a task
NoSpoke      == TickWheelSize         \* TickSpokePtr = 0

\* OS_TASK_STATE_xxx, without the prefix.
Timed     == {"DLY", "DLY_SUSPENDED", "PEND_TIMEOUT", "PEND_TIMEOUT_SUSPENDED"}
Pending   == {"PEND", "PEND_SUSPENDED", "PEND_TIMEOUT", "PEND_TIMEOUT_SUSPENDED"}
Suspended == {"SUSPENDED", "DLY_SUSPENDED", "PEND_SUSPENDED", "PEND_TIMEOUT_SUSPENDED"}
State     == {"RDY", "DLY", "PEND", "PEND_TIMEOUT", "DEL"} \cup Suspended

\* OS_TASK_PEND_ON_xxx and OS_STATUS_PEND_xxx.
PendOnSet  == {"NOTHING", "TASK_SEM", "TASK_Q", "FLAG", "MULTI", "MUTEX", "Q", "SEM"}
StatusSet  == {"OK", "ABORT", "TIMEOUT", "DEL"}

\* The types of the kernel's global data and of the TCB fields.
KState ==
  [TaskState : [Task -> State],         Prio         : [Task -> 0 .. PrioMax],
   PendOn    : [Task -> PendOnSet],     PendStatus   : [Task -> StatusSet],
   PendData  : [Task -> SUBSET Obj],    MsgPtr       : [Task -> Msg \cup {NoMsg}],
   SuspendCtr: [Task -> 0 .. NestMod - 1], SemCtr    : [Task -> 0 .. SemMax],
   TickCtrMatch : [Task -> Tick],       TickCtrPrev  : [Task -> Tick],
   TickSpokePtr : [Task -> 0 .. TickWheelSize],
   TimeQuanta   : [Task -> Nat],        TimeQuantaCtr : [Task -> Nat],
   OSRdyList : [Prio -> Seq(Task)],     OSPrioTbl    : SUBSET Prio,
   PendList  : [Obj -> Seq(Task)],
   TickWheel : [Spoke -> Seq(Task)],    OSTickCtr    : Tick,
   OSTCBCurPtr : Task \cup {NoTask},    OSPrioCur    : Prio,
   OSRunning : BOOLEAN,                 OSSchedLockNestingCtr : Nat,
   OSSchedRoundRobinEn : BOOLEAN,       OSSchedRoundRobinDfltTimeQuanta : Nat]
-----------------------------------------------------------------------------
(* Linked lists as sequences. *)

\* The place of an element that occurs in a sequence.
Pos(s, t) == CHOOSE i \in DOMAIN s : s[i] = t

\* Unlink an element; a sequence without it stays as it is.
Unlink(s, t) == IF t \in Range(s)
                THEN SubSeq(s, 1, Pos(s, t) - 1) \o SubSeq(s, Pos(s, t) + 1, Len(s))
                ELSE s

\* Link a new element in front of the first member of Stop, else at the tail.
LinkBefore(s, t, Stop) ==
  LET stops == {i \in DOMAIN s : s[i] \in Stop}
      at    == IF stops = {} THEN Len(s) + 1
                             ELSE CHOOSE i \in stops : \A j \in stops : i <= j
  IN  SubSeq(s, 1, at - 1) \o <<t>> \o SubSeq(s, at, Len(s))

\* The element that follows t, or NoTask.
After(s, t) == IF t \in Range(s) /\ Pos(s, t) < Len(s) THEN s[Pos(s, t) + 1] ELSE NoTask
-----------------------------------------------------------------------------
(* Ready lists and the priority table: os_core.c, os_prio.c. *)

OS_PrioInsert(os, p) == [os EXCEPT !.OSPrioTbl = @ \cup {p}]

OS_PrioGetHighest(os) == CHOOSE p \in os.OSPrioTbl : \A q \in os.OSPrioTbl : p <= q

OS_RdyListInsertHead(os, t) == [os EXCEPT !.OSRdyList[os.Prio[t]] = <<t>> \o @]

OS_RdyListInsertTail(os, t) == [os EXCEPT !.OSRdyList[os.Prio[t]] = Append(@, t)]

\* Mutant of OS_RdyListInsert: a readied task always goes to the head.
MutRdyInsertHead(os, t) == OS_RdyListInsertHead(OS_PrioInsert(os, os.Prio[t]), t)

OS_RdyListInsert(os, t) ==
  LET o == OS_PrioInsert(os, os.Prio[t])
  IN  IF os.Prio[t] = os.OSPrioCur THEN OS_RdyListInsertTail(o, t)
                                   ELSE OS_RdyListInsertHead(o, t)

\* A TCB that is in no list has null links, which the code takes for the only
\* entry of the list: the list is emptied.
OS_RdyListRemove(os, t) ==
  LET p    == os.Prio[t]
      rest == IF t \in Range(os.OSRdyList[p]) THEN Unlink(os.OSRdyList[p], t) ELSE <<>>
  IN  [os EXCEPT !.OSRdyList[p] = rest,
                 !.OSPrioTbl    = IF rest = <<>> THEN @ \ {p} ELSE @]

\* Mutant of OS_RdyListMoveHeadToTail: a list of two entries is left alone.
MutMoveHeadToTail(os, p) ==
  [os EXCEPT !.OSRdyList[p] = IF Len(@) < 3 THEN @ ELSE Append(Tail(@), Head(@))]

OS_RdyListMoveHeadToTail(os, p) ==
  [os EXCEPT !.OSRdyList[p] = IF Len(@) < 2 THEN @ ELSE Append(Tail(@), Head(@))]

\* The task that OSSched, OSIntExit and OSStart select.
HighRdy(os) == Head(os.OSRdyList[OS_PrioGetHighest(os)])

\* OSCtxSw and OSIntCtxSw of the port: the selected task becomes the current one.
CtxSw(os) == [os EXCEPT !.OSTCBCurPtr = HighRdy(os), !.OSPrioCur = OS_PrioGetHighest(os)]

\* Mutant of Reschedule: the scheduler lock is not looked at.
MutReschedule(os) == IF HighRdy(os) = os.OSTCBCurPtr THEN os ELSE CtxSw(os)

\* The selection of OSSched and OSIntExit: none while the scheduler is locked.
Reschedule(os) ==
  IF os.OSSchedLockNestingCtr > 0 \/ HighRdy(os) = os.OSTCBCurPtr THEN os ELSE CtxSw(os)

\* A task's quantum starts again: TimeQuanta, or the default when it is 0.
Reload(os, t) ==
  [os EXCEPT !.TimeQuantaCtr[t] = IF os.TimeQuanta[t] = 0
                                  THEN os.OSSchedRoundRobinDfltTimeQuanta
                                  ELSE os.TimeQuanta[t]]

\* The list of priority p turns and its new head gets a fresh quantum.
Rotate(os, p) ==
  LET o == OS_RdyListMoveHeadToTail(os, p) IN Reload(o, Head(o.OSRdyList[p]))

\* The tick's share of round-robin scheduling, on the list of OSPrioCur.
OS_SchedRoundRobin(os) ==
  LET p == os.OSPrioCur
      s == os.OSRdyList[p]
      h == Head(s)
      o == [os EXCEPT !.TimeQuantaCtr[h] = IF @ > 0 THEN @ - 1 ELSE 0]
  IN  IF ~os.OSSchedRoundRobinEn \/ s = <<>> THEN os
      ELSE IF h = IdleTask THEN os
      ELSE IF o.TimeQuantaCtr[h] > 0 \/ Len(s) < 2 \/ os.OSSchedLockNestingCtr > 0 THEN o
      ELSE Rotate(o, p)
-----------------------------------------------------------------------------
(* The tick wheel: os_tick.c. *)

\* OS_TICK subtraction.
Minus(a, b) == (a - b) % TickMod

\* The error path of OS_TickListInsert: nothing to wait for.
NoDelay(os, time, opt) ==
  IF opt = "MATCH" THEN Minus(Minus(time, os.OSTickCtr), 1) > TickThRdy ELSE time = 0

\* Mutant of MatchTick: a period that was missed is not caught up with.
MutMatchTick(os, t, time, opt) ==
  IF opt = "MATCH" THEN time
  ELSE IF opt = "PERIODIC" THEN (os.TickCtrPrev[t] + time) % TickMod
  ELSE (os.OSTickCtr + time) % TickMod

\* The tick at which the wait ends.
MatchTick(os, t, time, opt) ==
  LET next == (os.TickCtrPrev[t] + time) % TickMod
  IN  IF opt = "MATCH" THEN time
      ELSE IF opt = "PERIODIC" /\ Minus(Minus(next, os.OSTickCtr), 1) < time THEN next
      ELSE (os.OSTickCtr + time) % TickMod

\* Mutant of OS_TickListInsert: the spoke is not kept in the order of expiry.
MutTickListInsert(os, t, time, opt) ==
  LET match == MatchTick(os, t, time, opt)
      spoke == match % TickWheelSize
  IN  IF NoDelay(os, time, opt)
      THEN [os EXCEPT !.TickCtrMatch[t] = 0, !.TickSpokePtr[t] = NoSpoke]
      ELSE [os EXCEPT !.TickCtrMatch[t] = match, !.TickSpokePtr[t] = spoke,
                      !.TickWheel[spoke] = Append(@, t)]

\* OS_TickListInsert; the error path only clears the TCB's tick fields.
OS_TickListInsert(os, t, time, opt) ==
  LET match  == MatchTick(os, t, time, opt)
      spoke  == match % TickWheelSize
      remain == Minus(match, os.OSTickCtr)
      later  == {u \in Task : remain <= Minus(os.TickCtrMatch[u], os.OSTickCtr)}
  IN  IF NoDelay(os, time, opt)
      THEN [os EXCEPT !.TickCtrMatch[t] = 0, !.TickSpokePtr[t] = NoSpoke]
      ELSE [os EXCEPT !.TickCtrMatch[t]   = match,
                      !.TickCtrPrev[t]    = IF opt = "PERIODIC" THEN match ELSE @,
                      !.TickSpokePtr[t]   = spoke,
                      !.TickWheel[spoke]  = LinkBefore(@, t, later)]

OS_TickListRemove(os, t) ==
  IF os.TickSpokePtr[t] = NoSpoke THEN os
  ELSE [os EXCEPT !.TickWheel[os.TickSpokePtr[t]] = Unlink(@, t),
                  !.TickSpokePtr[t] = NoSpoke,
                  !.TickCtrMatch[t] = 0]
-----------------------------------------------------------------------------
(* Blocking, readying, pend lists, posting and aborting: os_core.c. *)

OS_TaskBlock(os, t, timeout) ==
  LET o == IF timeout > 0 THEN OS_TickListInsert(os, t, timeout, "TIMEOUT") ELSE os
  IN  OS_RdyListRemove([o EXCEPT !.TaskState[t] = IF timeout > 0 THEN "PEND_TIMEOUT" ELSE "PEND"], t)

OS_TaskRdy(os, t) ==
  LET o == OS_TickListRemove(os, t)
  IN  IF os.TaskState[t] \in Suspended THEN o ELSE OS_RdyListInsert(o, t)

\* Behind every waiter of the same or a higher priority.
OS_PendListInsertPrio(os, obj, t) ==
  [os EXCEPT !.PendList[obj] = LinkBefore(@, t, {u \in Task : os.Prio[t] < os.Prio[u]})]

\* A task leaves every pend list its pend data names.
OS_PendListRemove(os, t) ==
  [os EXCEPT !.PendList = [obj \in Obj |-> IF obj \in os.PendData[t] THEN Unlink(@[obj], t)
                                                                     ELSE @[obj]],
             !.PendData[t] = {}]

\* Mutant of OS_PendListChangePrio: the waiter keeps its place.
MutPendListChangePrio(os, t, prio_new) == [os EXCEPT !.Prio[t] = prio_new]

\* A waiter of a new priority is moved to its place in every pend list it is in.
OS_PendListChangePrio(os, t, prio_new) ==
  LET o == [os EXCEPT !.Prio[t] = prio_new]
      behind == {u \in Task : prio_new < o.Prio[u]}
  IN  [o EXCEPT !.PendList = [obj \in Obj |->
         IF obj \in os.PendData[t] /\ Len(@[obj]) > 1
         THEN LinkBefore(Unlink(@[obj], t), t, behind)
         ELSE @[obj]]]

\* obj = NoObj for a task's own semaphore or queue, which have no pend list.
OS_Pend(os, t, obj, pending_on, timeout) ==
  LET o == OS_TaskBlock([os EXCEPT !.PendOn[t] = pending_on, !.PendStatus[t] = "OK"], t, timeout)
  IN  IF obj = NoObj THEN [o EXCEPT !.PendData[t] = {}]
      ELSE OS_PendListInsertPrio([o EXCEPT !.PendData[t] = {obj}], obj, t)

\* Mutant of EndWait: the wait of a suspended task makes it ready.
MutEndWait(os, obj, t, msg, status) ==
  LET o1 == IF obj = NoObj THEN os ELSE OS_PendListRemove(os, t)
      o2 == [o1 EXCEPT !.MsgPtr[t] = msg, !.PendStatus[t] = status, !.PendOn[t] = "NOTHING",
                       !.TaskState[t] = "RDY"]
  IN  IF os.TaskState[t] \in Pending THEN OS_TaskRdy(o2, t) ELSE os

\* A wait ends with the given status: OS_Post and OS_PendAbort alike.
EndWait(os, obj, t, msg, status) ==
  LET o1 == IF obj = NoObj THEN os ELSE OS_PendListRemove(os, t)
      o2 == [o1 EXCEPT !.MsgPtr[t] = msg, !.PendStatus[t] = status, !.PendOn[t] = "NOTHING"]
  IN  IF os.TaskState[t] \in {"PEND", "PEND_TIMEOUT"}
      THEN [OS_TaskRdy(o2, t) EXCEPT !.TaskState[t] = "RDY"]
      ELSE IF os.TaskState[t] \in {"PEND_SUSPENDED", "PEND_TIMEOUT_SUSPENDED"}
      THEN [OS_TickListRemove(o2, t) EXCEPT !.TaskState[t] = "SUSPENDED"]
      ELSE os

OS_Post(os, obj, t, msg) == EndWait(os, obj, t, msg, "OK")

OS_PendAbort(os, obj, t) == EndWait(os, obj, t, NoMsg, "ABORT")

\* What OS_TickListUpdate does with a task whose tick has come: a delay ends, a
\* wait times out (its pend list is left, whatever the object).
Expire(os, t) ==
  LET o == [OS_PendListRemove(os, t) EXCEPT !.MsgPtr[t] = NoMsg,
              !.PendStatus[t] = "TIMEOUT", !.PendOn[t] = "NOTHING"]
  IN  CASE os.TaskState[t] = "DLY" ->
             OS_TaskRdy([os EXCEPT !.TaskState[t] = "RDY"], t)
        [] os.TaskState[t] = "DLY_SUSPENDED" ->
             OS_TickListRemove([os EXCEPT !.TaskState[t] = "SUSPENDED"], t)
        [] os.TaskState[t] = "PEND_TIMEOUT" ->
             [OS_TaskRdy(o, t) EXCEPT !.TaskState[t] = "RDY"]
        [] os.TaskState[t] = "PEND_TIMEOUT_SUSPENDED" ->
             [OS_TickListRemove(o, t) EXCEPT !.TaskState[t] = "SUSPENDED"]
        [] OTHER -> os
-----------------------------------------------------------------------------
(* Task control blocks: os_task.c. *)

OS_TaskInitTCB(os, t) ==
  [os EXCEPT !.TaskState[t] = "RDY",      !.Prio[t] = OS_PRIO_INIT,
             !.PendOn[t] = "NOTHING",     !.PendStatus[t] = "OK",
             !.PendData[t] = {},          !.MsgPtr[t] = NoMsg,
             !.SuspendCtr[t] = 0,         !.SemCtr[t] = 0,
             !.TickCtrMatch[t] = 0,       !.TickCtrPrev[t] = TickMod \div 2,
             !.TickSpokePtr[t] = NoSpoke,
             !.TimeQuanta[t] = 0,         !.TimeQuantaCtr[t] = 0]

\* The globals as OSInit leaves them before it creates the kernel's own tasks.
OSInit ==
  [TaskState |-> [t \in Task |-> "DEL"],  Prio |-> [t \in Task |-> OS_PRIO_INIT],
   PendOn |-> [t \in Task |-> "NOTHING"], PendStatus |-> [t \in Task |-> "OK"],
   PendData |-> [t \in Task |-> {}],      MsgPtr |-> [t \in Task |-> NoMsg],
   SuspendCtr |-> [t \in Task |-> 0],     SemCtr |-> [t \in Task |-> 0],
   TickCtrMatch |-> [t \in Task |-> 0],   TickCtrPrev |-> [t \in Task |-> TickMod \div 2],
   TickSpokePtr |-> [t \in Task |-> NoSpoke],
   TimeQuanta |-> [t \in Task |-> 0],     TimeQuantaCtr |-> [t \in Task |-> 0],
   OSRdyList |-> [p \in Prio |-> <<>>],   OSPrioTbl |-> {},
   PendList |-> [obj \in Obj |-> <<>>],
   TickWheel |-> [s \in Spoke |-> <<>>],  OSTickCtr |-> 0,
   OSTCBCurPtr |-> NoTask,                OSPrioCur |-> 0,
   OSRunning |-> FALSE,                   OSSchedLockNestingCtr |-> 0,
   OSSchedRoundRobinEn |-> FALSE,         OSSchedRoundRobinDfltTimeQuanta |-> DfltQuanta]
-----------------------------------------------------------------------------
(* Well-formed lists. *)

\* The sequence lists exactly the members of S, each once.
IsList(s, S) == /\ Range(s) = S
                /\ \A i, j \in DOMAIN s : s[i] = s[j] => i = j

\* Ready lists rdy and priority table tbl hold exactly the tasks S, each in the
\* list of its priority.
RdyOK(rdy, prio, tbl, S) ==
  /\ \A t \in S : prio[t] \in Prio
  /\ \A p \in Prio : IsList(rdy[p], {t \in S : prio[t] = p})
  /\ tbl = {p \in Prio : rdy[p] # <<>>}

=============================================================================
