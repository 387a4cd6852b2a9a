--------------------------- MODULE OSMutex_proofs ---------------------------
(***************************************************************************)
(* Mutexes: one owner at a time, which inherits the priority of those that *)
(* wait for it and gives it back, whatever the kernel, the tick interrupt  *)
(* and the other services do meanwhile.                                    *)
(***************************************************************************)
EXTENDS OSMutex, OSWait_proofs

-----------------------------------------------------------------------------
(* What the kernel leaves to a task that nobody deletes. *)

\* No task changes a priority by OSTaskChangePrio.
FixedPrios == \A t \in Task : "chprio" \notin Calls[t]

\* A change of the kernel that deletes no task and takes only a task whose time is
\* up out of a pend list.
Spares(o, o2) ==
  \/ Quiet(o, o2)
  \/ \E t \in Task : \E st : Ends(o, o2, t, st) /\ (o.TaskState[t] \in Timed \/ o.PendData[t] = {})
  \/ \E t \in Task : \E time, opt : Sleeps(o, o2, t, time, opt)
  \/ \E c \in Task : \E st, n : Restates(o, o2, c, st, n)
  \/ ~FixedPrios /\ \E c \in Task : \E p : Repri(o, o2, c, p)
  \/ \E c \in Task : Resets(o, o2, c, "RDY") /\ o.TaskState[c] = "DEL" /\ o2.Prio[c] = TaskPrio[c]
  \/ \E c \in Task : Counts(o, o2, c)
  \/ Ticks(o, o2)
  \/ \E t \in Task : \E on, time : Blocks(o, o2, t, NoObj, on, time)

\* What such changes do to task u: if it exists it lives on, at its priority, and
\* leaves a pend list only when its time is up; if not it may be created.
Steady(o, o2, u) ==
  /\ o.TaskState[u] # "DEL" => o2.TaskState[u] # "DEL" /\ (FixedPrios => o2.Prio[u] = o.Prio[u])
  /\ o.TaskState[u] = "DEL" /\ o2.TaskState[u] # "DEL" => (FixedPrios => o2.Prio[u] = TaskPrio[u])
  /\ o2.PendData[u] \subseteq o.PendData[u]
  /\ o2.PendData[u] # o.PendData[u] => o.TaskState[u] \in Timed
  /\ o2.PendData[u] # {} => (o2.TaskState[u] \in Timed <=> o.TaskState[u] \in Timed)

\* Two such changes make one.
LEMMA SteadyTransitive ==
  ASSUME NEW o, NEW o1, NEW o2, NEW u, Steady(o, o1, u), Steady(o1, o2, u)
  PROVE  Steady(o, o2, u)
<1>1. /\ o.TaskState[u] # "DEL" => o2.TaskState[u] # "DEL" /\ (FixedPrios => o2.Prio[u] = o.Prio[u])
      /\ o.TaskState[u] = "DEL" /\ o2.TaskState[u] # "DEL" => (FixedPrios => o2.Prio[u] = TaskPrio[u])
  BY DEF Steady
<1>2. /\ o2.PendData[u] \subseteq o.PendData[u]
      /\ o2.PendData[u] # o.PendData[u] => o.TaskState[u] \in Timed
      /\ o2.PendData[u] # {} => (o2.TaskState[u] \in Timed <=> o.TaskState[u] \in Timed)
  <2> DEFINE D == o.PendData[u]
             D1 == o1.PendData[u]
             D2 == o2.PendData[u]
             T == o.TaskState[u] \in Timed
             T1 == o1.TaskState[u] \in Timed
             T2 == o2.TaskState[u] \in Timed
  <2>1. /\ D1 \subseteq D /\ D2 \subseteq D1 /\ (D1 # D => T) /\ (D2 # D1 => T1)
        /\ (D1 # {} => (T1 <=> T)) /\ (D2 # {} => (T2 <=> T1))
    BY DEF Steady
  <2>2. D2 \subseteq D /\ (D2 # D => T) /\ (D2 # {} => (T2 <=> T))
    <3> HIDE DEF D, D1, D2, T, T1, T2
    <3> QED
      BY <2>1
  <2> QED
    BY <2>2
<1> QED
  BY <1>1, <1>2 DEF Steady

\* Every one of these changes is steady for every task.
LEMMA SparesSteady ==
  ASSUME NEW o \in KState, PendOK(o), NEW o2, Spares(o, o2), NEW u \in Task
  PROVE  Steady(o, o2, u)
<1>0. /\ o.TaskState \in [Task -> State] /\ o.PendData \in [Task -> SUBSET Obj]
      /\ o.Prio \in [Task -> 0 .. PrioMax]
  BY DEF KState
<1>1. CASE Quiet(o, o2)
  BY <1>1 DEF Quiet, SamePend, Steady
<1>2. ASSUME NEW t \in Task, NEW st, Ends(o, o2, t, st), o.TaskState[t] \in Timed \/ o.PendData[t] = {}
      PROVE  Steady(o, o2, u)
  <2>1. o2.PendData = [o.PendData EXCEPT ![t] = {}]
    BY <1>2, PendListRemoveFrame DEF Ends, SamePend
  <2>2. /\ o2.Prio = o.Prio /\ o.TaskState[t] \in Pending \cup Timed
        /\ o2.TaskState = [o.TaskState EXCEPT ![t] = IF o.TaskState[t] \in Suspended
                                                     THEN "SUSPENDED" ELSE "RDY"]
    BY <1>2 DEF Ends
  <2>3. CASE u = t
    BY <1>0, <1>2, <2>1, <2>2, <2>3 DEF Steady, Pending, Timed
  <2>4. CASE u # t
    BY <1>0, <2>1, <2>2, <2>4 DEF Steady
  <2> QED
    BY <2>3, <2>4
<1>3. ASSUME NEW t \in Task, NEW time, NEW opt, Sleeps(o, o2, t, time, opt)
      PROVE  Steady(o, o2, u)
  <2>1. /\ o2.PendData = o.PendData /\ o2.Prio = o.Prio /\ o.TaskState[t] = "RDY"
        /\ o2.TaskState = [o.TaskState EXCEPT ![t] = "DLY"]
    BY <1>3 DEF Sleeps, SamePend
  <2>2. o.PendData[t] = {}
    BY <2>1 DEF PendOK, Pending
  <2> QED
    BY <1>0, <2>1, <2>2 DEF Steady
<1>4. ASSUME NEW c \in Task, NEW st, NEW n, Restates(o, o2, c, st, n)
      PROVE  Steady(o, o2, u)
  <2>1. /\ o2.PendData = o.PendData /\ o2.Prio = o.Prio /\ o.TaskState[c] # "DEL" /\ st # "DEL"
        /\ o2.TaskState = [o.TaskState EXCEPT ![c] = st]
        /\ (st \in Timed <=> o.TaskState[c] \in Timed)
    BY <1>4 DEF Restates, SamePend
  <2> QED
    BY <1>0, <2>1 DEF Steady
<1>5. ASSUME ~FixedPrios, NEW c \in Task, NEW p, Repri(o, o2, c, p)
      PROVE  Steady(o, o2, u)
  BY <1>5 DEF Steady, Repri
<1>6. ASSUME NEW c \in Task, Resets(o, o2, c, "RDY"), o.TaskState[c] = "DEL", o2.Prio[c] = TaskPrio[c]
      PROVE  Steady(o, o2, u)
  <2>1. o.PendData[c] = {}
    BY <1>6 DEF PendOK, Pending
  <2>2. o2.PendData = [o.PendData EXCEPT ![c] = {}]
    BY <1>6, PendListRemoveFrame DEF Resets, SamePend
  <2>3. /\ \A v \in Task \ {c} : o2.Prio[v] = o.Prio[v]
        /\ o2.TaskState = [o.TaskState EXCEPT ![c] = "RDY"]
    BY <1>6 DEF Resets
  <2> QED
    BY <1>0, <1>6, <2>1, <2>2, <2>3 DEF Steady
<1>7. ASSUME NEW c \in Task, Counts(o, o2, c)
      PROVE  Steady(o, o2, u)
  BY <1>7 DEF Counts, SamePend, Steady
<1>8. CASE Ticks(o, o2)
  BY <1>8 DEF Ticks, SamePend, Steady
<1>9. ASSUME NEW t \in Task, NEW on, NEW time, Blocks(o, o2, t, NoObj, on, time)
      PROVE  Steady(o, o2, u)
  <2>1. /\ o2.Prio = o.Prio /\ o.TaskState[t] = "RDY"
        /\ o2.PendData = [o.PendData EXCEPT ![t] = {}]
        /\ o2.TaskState = [o.TaskState EXCEPT ![t] = IF time > 0 THEN "PEND_TIMEOUT" ELSE "PEND"]
    BY <1>9 DEF Blocks
  <2>2. o.PendData[t] = {}
    BY <2>1 DEF PendOK, Pending
  <2>3. o2.TaskState[u] = "DEL" <=> o.TaskState[u] = "DEL"
    BY <1>0, <2>1
  <2> QED
    BY <1>0, <2>1, <2>2, <2>3 DEF Steady
<1> QED
  BY <1>1, <1>2, <1>3, <1>4, <1>5, <1>6, <1>7, <1>8, <1>9 DEF Spares

\* FillTCB gives a TCB the priority of its task.
LEMMA FillPrio ==
  ASSUME NEW o, NEW C, OsInv(o, C), NEW c \in Task, o.TaskState[c] = "DEL"
  PROVE  FillTCB(o, c).Prio[c] = TaskPrio[c]
<1> DEFINE S == Ready(o) \ C
           a == OS_TaskInitTCB(o, c)
           q == TaskQuanta[c]
           n == IF q = 0 THEN o.OSSchedRoundRobinDfltTimeQuanta ELSE q
           prio == [a.Prio EXCEPT ![c] = TaskPrio[c]]
           f == FillTCB(o, c)
<1>1. o \in KState /\ Rdy(o, S) /\ c \notin S /\ S \subseteq Task
  BY DEF OsInv, Ready
<1>2. a \in KState
  BY <1>1, TaskInitTCBLemma
<1>3. f = [a EXCEPT !.Prio = prio, !.TimeQuanta = [a.TimeQuanta EXCEPT ![c] = q],
                    !.TimeQuantaCtr = [a.TimeQuantaCtr EXCEPT ![c] = n]]
  BY DEF FillTCB
<1> HIDE DEF a, f, q, n
<1>4. f.Prio = prio
  BY <1>2, <1>3 DEF KState
<1>5. prio[c] = TaskPrio[c]
  BY <1>2 DEF KState
<1> HIDE DEF prio
<1> QED
  BY <1>4, <1>5 DEF f

\* OSTaskCreate, OSTaskSuspend, OSTaskResume and OSTaskChangePrio.
LEMMA TaskCallsSpare ==
  ASSUME KInv, PendOK(os), NEW t,
         \/ \E c : OSTaskCreate(t, c) \/ OSTaskSuspend(t, c) \/ OSTaskResume(t, c)
         \/ \E c, self : \E p \in NewPrios : OSTaskChangePrio(t, c, p, self)
  PROVE  Spares(os, os')
<1>0. OsInv(os, Creating) /\ KTypeOK /\ os \in KState
  BY DEF KInv, OsInv
<1>1. ASSUME NEW c, OSTaskCreate(t, c)
      PROVE  Spares(os, os')
  <2>1. c \in Task /\ os.TaskState[c] = "DEL" /\ os' = FillTCB(os, c)
    BY <1>1, TargetLemma DEF OSTaskCreate
  <2>2. Resets(os, os', c, "RDY") /\ os'.Prio[c] = TaskPrio[c]
    BY <1>0, <2>1, FillResets, FillPrio
  <2> QED
    BY <2>1, <2>2 DEF Spares
<1>2. ASSUME NEW c, OSTaskSuspend(t, c)
      PROVE  Spares(os, os')
  <2>1. c \in Task
    BY <1>2, TargetLemma DEF OSTaskSuspend
  <2> QED
    BY <1>2, <2>1, SuspendRestates DEF Spares
<1>3. ASSUME NEW c, OSTaskResume(t, c)
      PROVE  Spares(os, os')
  <2>1. c \in Task
    BY <1>3, TargetLemma DEF OSTaskResume
  <2> QED
    BY <1>3, <2>1, ResumeRestates, SameQuiet DEF Spares
<1>4. ASSUME NEW c, NEW self, NEW p \in NewPrios, OSTaskChangePrio(t, c, p, self)
      PROVE  Spares(os, os')
  <2>1. c \in Task /\ t \in Task /\ "chprio" \in Calls[t]
    BY <1>4, TargetLemma, CallLemma DEF OSTaskChangePrio, Call
  <2>2. Repri(os, os', c, p) /\ ~FixedPrios
    BY <1>4, <2>1, ChangePrioRepri DEF FixedPrios
  <2> QED
    BY <2>1, <2>2 DEF Spares
<1> QED
  BY <1>1, <1>2, <1>3, <1>4

\* A signal ends no wait for an object.
LEMMA SignalSpares ==
  ASSUME NEW o, NEW C, OsInv(o, C), PendOK(o), NEW c \in Task
  PROVE  Spares(o, OS_TaskSemPost(o, c))
<1> DEFINE o2 == OS_TaskSemPost(o, c)
<1>1. o2 = o \/ (Ends(o, o2, c, "OK") /\ WaitsForSignal(o, c)) \/ Counts(o, o2, c)
  BY TaskSemPostChanges
<1>2. WaitsForSignal(o, c) => o.PendData[c] = {}
  BY DEF WaitsForSignal, PendOK
<1> HIDE DEF o2
<1>3. Spares(o, o2)
  BY <1>1, <1>2, SameQuiet DEF Spares
<1> QED
  BY <1>3 DEF o2

\* The calls about time and about the semaphore of a task.
LEMMA SemCallsSpare ==
  ASSUME Hazard = {}, KInv, PendOK(os), NEW t,
         \/ \E d \in Delays, opt \in DlyOpts : OSTimeDly(t, d, opt)
         \/ \E d \in Delays : OSTimeSet(t, d)
         \/ \E d \in Timeouts \cup {0} : \E block : OSTaskSemPend(t, d, block)
         \/ \E c, opt : OSTaskSemPost(t, c, opt)
         \/ \E c, n : OSTaskSemSet(t, c, n)
  PROVE  Spares(os, os')
<1>0. OsInv(os, Creating) /\ KTypeOK /\ os \in KState
  BY DEF KInv, OsInv
<1>1. ASSUME NEW d \in Delays, NEW opt \in DlyOpts, OSTimeDly(t, d, opt)
      PROVE  Spares(os, os')
  <2>1. t \in Task /\ t \in Ready(os) \ Creating /\ d \in Tick
    BY <1>1, CallLemma, KernelAssumption DEF OSTimeDly
  <2>2. ~NoDelay(os, d, opt)
    BY <1>1 DEF OSTimeDly
  <2>3. os' = OS_RdyListRemove(OS_TickListInsert([os EXCEPT !.TaskState[t] = "DLY"], t, d, opt), t)
    BY <1>1, <2>2 DEF OSTimeDly, Step
  <2>4. Sleeps(os, os', t, d, opt)
    BY <1>0, <2>1, <2>2, <2>3, DlySleeps
  <2> QED
    BY <2>1, <2>4 DEF Spares
<1>2. ASSUME NEW d \in Delays, OSTimeSet(t, d)
      PROVE  Spares(os, os')
  BY <1>2, TimeCalls DEF Spares
<1>3. ASSUME NEW d \in Timeouts \cup {0}, NEW block, OSTaskSemPend(t, d, block)
      PROVE  Spares(os, os')
  <2>1. t \in Task /\ t \in Ready(os) \ Creating /\ os.TaskState[t] = "RDY"
    BY <1>3, CallLemma DEF OSTaskSemPend, Ready
  <2> DEFINE n == os.SemCtr[t] - 1
  <2>2. os' = [os EXCEPT !.SemCtr[t] = n] \/ os' = OS_Pend(os, t, NoObj, "TASK_SEM", d)
    BY <1>3 DEF OSTaskSemPend, Step
  <2> HIDE DEF n
  <2>3. CASE os' = [os EXCEPT !.SemCtr[t] = n]
    <3>1. ~WaitsForSignal(os, t)
      BY <2>1 DEF WaitsForSignal, Pending
    <3>2. Counts(os, os', t)
      BY <1>0, <2>1, <2>3, <3>1, SetSemCtrCounts
    <3> QED
      BY <2>1, <3>2 DEF Spares
  <2>4. CASE os' = OS_Pend(os, t, NoObj, "TASK_SEM", d)
    <3>1. d \in Tick /\ NoObj \in Obj \cup {NoObj} /\ "TASK_SEM" \in PendOnSet
      BY KernelAssumption, CoreAssumption DEF Tick, PendOnSet
    <3>2. Blocks(os, os', t, NoObj, "TASK_SEM", d)
      BY <1>0, <2>1, <2>4, <3>1, PendBlocks
    <3> QED
      BY <2>1, <3>2 DEF Spares
  <2> QED
    BY <2>2, <2>3, <2>4
<1>4. ASSUME NEW c, NEW opt, OSTaskSemPost(t, c, opt)
      PROVE  Spares(os, os')
  <2>1. c \in Task /\ os' = OS_TaskSemPost(os, c)
    BY <1>4, TargetLemma DEF OSTaskSemPost, Step
  <2> QED
    BY <1>0, <2>1, SignalSpares
<1>5. ASSUME NEW c, NEW n, OSTaskSemSet(t, c, n)
      PROVE  Spares(os, os')
  <2>1. c \in Task /\ os' = [os EXCEPT !.SemCtr[c] = n] /\ t \in Task /\ "semset" \in Calls[t]
    BY <1>5, TargetLemma, CallLemma DEF OSTaskSemSet, Step, Call
  <2>2. Counts(os, os', c)
    BY <1>0, <2>1, SetSemCtrCounts
  <2> QED
    BY <2>1, <2>2 DEF Spares
<1> QED
  BY <1>1, <1>2, <1>3, <1>4, <1>5

\* Every step of a task, where no task is deleted and OSTaskSemPendAbort not called.
LEMMA TaskStepSpares ==
  ASSUME Hazard = {}, \A v \in Task : Calls[v] \cap {"del", "semabort"} = {}, KInv, PendOK(os),
         \A v \in Task : pc[v] # "abort", NEW t \in Task, TaskStep(t)
  PROVE  Spares(os, os')
<1>1. ASSUME NEW c \in Task, OSTaskCreate(t, c) \/ OSTaskSuspend(t, c) \/ OSTaskResume(t, c)
      PROVE  Spares(os, os')
  BY <1>1, TaskCallsSpare
<1>2. ASSUME OSTaskCreateLink(t) \/ OSSched(t) \/ PendReturn(t)
      PROVE  Spares(os, os')
  BY <1>2, QuietReturns DEF Spares
<1>3. ASSUME OSSchedLock(t) \/ OSSchedUnlock(t) \/ OSSchedRoundRobinYield(t)
      PROVE  Spares(os, os')
  BY <1>3, QuietCalls DEF Spares
<1>4. ASSUME NEW en \in BOOLEAN, NEW q \in Quanta, OSSchedRoundRobinCfg(t, en, q)
      PROVE  Spares(os, os')
  BY <1>4, QuietCalls DEF Spares
<1>5. ASSUME NEW c \in Task, NEW q \in Quanta, OSTaskTimeQuantaSet(t, c, q)
      PROVE  Spares(os, os')
  BY <1>5, QuietCalls DEF Spares
<1>6. ASSUME NEW c \in Task, NEW p \in NewPrios, NEW self \in BOOLEAN, OSTaskChangePrio(t, c, p, self)
      PROVE  Spares(os, os')
  BY <1>6, TaskCallsSpare
<1>7. ASSUME NEW d \in Delays, NEW opt \in DlyOpts, OSTimeDly(t, d, opt)
      PROVE  Spares(os, os')
  BY <1>7, SemCallsSpare
<1>8. ASSUME NEW d \in Delays, OSTimeSet(t, d)
      PROVE  Spares(os, os')
  BY <1>8, SemCallsSpare
<1>9. ASSUME NEW d \in Timeouts \cup {0}, NEW block \in BOOLEAN, OSTaskSemPend(t, d, block)
      PROVE  Spares(os, os')
  BY <1>9, SemCallsSpare
<1>10. ASSUME NEW c \in Task, NEW opt \in PostOpts, OSTaskSemPost(t, c, opt)
       PROVE  Spares(os, os')
  BY <1>10, SemCallsSpare
<1>11. ASSUME NEW c \in Task, NEW n \in 0 .. SemMax, OSTaskSemSet(t, c, n)
       PROVE  Spares(os, os')
  BY <1>11, SemCallsSpare
<1>12. ASSUME NEW c \in Task PROVE ~OSTaskDel(t, c) /\ ~OSTaskSemPendAbort(t, c)
  BY DEF OSTaskDel, OSTaskSemPendAbort, Call
<1>13. ASSUME NEW opt \in PostOpts PROVE ~OSTaskSemPendAbort2(t, opt)
  BY DEF OSTaskSemPendAbort2
<1> QED
  BY <1>1, <1>2, <1>3, <1>4, <1>5, <1>6, <1>7, <1>8, <1>9, <1>10, <1>11, <1>12, <1>13 DEF TaskStep

\* OSInit and main() create a task; OSStart.
LEMMA StartSpares ==
  ASSUME KInv, PendOK(os), Boot \/ OSStart, NEW u \in Task
  PROVE  Steady(os, os', u)
<1>0. OsInv(os, Creating) /\ os \in KState /\ KTypeOK
  BY DEF KInv, OsInv
<1>1. CASE Boot
  <2> DEFINE t == BootOrder[boot + 1]
             o == FillTCB(os, t)
  <2>0. boot + 1 \in DOMAIN BootOrder /\ t \in Task
    <3>1. boot + 1 \in 1 .. Len(BootOrder)
      BY <1>0, <1>1, KernelAssumption DEF Boot, KTypeOK
    <3> QED
      BY <3>1, KernelAssumption
  <2>1. os.TaskState[t] = "DEL"
    <3>1. ~(boot + 1 <= boot)
      BY <1>0 DEF KTypeOK
    <3> QED
      BY <1>1, <2>0, <3>1 DEF Boot, KInv, BootInv
  <2>2. os' = LinkTCB(o, t)
    BY <1>1 DEF Boot
  <2> HIDE DEF t
  <2>3. Resets(os, o, t, "RDY") /\ o \in KState /\ o.Prio[t] = TaskPrio[t]
    BY <1>0, <2>0, <2>1, FillResets, FillLemma, FillPrio DEF OsInv
  <2>4. Quiet(o, os')
    BY <2>0, <2>2, <2>3, RdyListQuiet DEF LinkTCB
  <2> HIDE DEF o
  <2>5. Steady(os, o, u)
    BY <1>0, <2>0, <2>1, <2>3, SparesSteady DEF Spares
  <2>6. Steady(o, os', u)
    BY <2>4 DEF Quiet, SamePend, Steady
  <2> QED
    BY <2>5, <2>6, SteadyTransitive
<1>2. CASE OSStart
  <2> DEFINE o == CtxSw(os)
  <2>1. Quiet(os, o)
    BY <1>0, RescheduleQuiet
  <2>2. Quiet(o, os')
    BY <1>0, <1>2 DEF OSStart, CtxSw, Quiet, SameCtrs, SamePend, SameWheel, KState
  <2> HIDE DEF o
  <2>3. Quiet(os, os')
    BY <2>1, <2>2, QuietTransitive
  <2> QED
    BY <1>0, <2>3, SparesSteady DEF Spares
<1> QED
  BY <1>1, <1>2

\* The tick interrupt signals two tasks at most.
LEMMA TickISRSpares ==
  ASSUME KInv, PendOK(os), TickISR, NEW u \in Task
  PROVE  Steady(os, os', u)
<1> DEFINE C == Creating
           a == OS_TaskSemPost(os, TickTask)
           b == OS_SchedRoundRobin(a)
           o == OSTimeTick(os)
<1>0. OsInv(os, C) /\ os \in KState /\ TickTask \in Task
  BY CoreAssumption DEF KInv, OsInv
<1>1. OsInv(a, C) /\ Spares(os, a)
  BY <1>0, TaskSemPostLemma, SignalSpares
<1>2. OsInv(b, C) /\ Quiet(a, b)
  <2>1. a \in KState /\ Rdy(a, Ready(a) \ C)
    BY <1>1 DEF OsInv
  <2> HIDE DEF a
  <2>2. b \in KState /\ Rdy(b, Ready(a) \ C) /\ SameTasks(a, b)
    BY <2>1, SchedRoundRobinLemma
  <2>3. Quiet(a, b)
    BY <2>1, SchedRoundRobinQuiet
  <2> HIDE DEF b
  <2> QED
    BY <1>1, <2>2, <2>3, SameTasksInv
<1>3. PendOK(a)
  <2>1. a = os \/ Ends(os, a, TickTask, "OK") \/ Counts(os, a, TickTask)
    BY <1>0, TaskSemPostChanges
  <2> HIDE DEF a
  <2>2. Calm(os, a)
    BY <1>0, <2>1, SameQuiet DEF Calm, StatusSet
  <2> QED
    BY <1>0, <1>1, <2>2, ChangePendOK DEF Change, OsInv
<1>4. PendOK(b)
  <2> HIDE DEF a, b
  <2> QED
    BY <1>1, <1>2, <1>3, ChangePendOK DEF Change, Calm, OsInv
<1>5. o = b \/ (TmrTask \in Task /\ o = OS_TaskSemPost(b, TmrTask))
  BY KernelAssumption DEF OSTimeTick
<1>6. os' = Reschedule(o)
  BY DEF TickISR
<1>7. Steady(os, a, u)
  <2> HIDE DEF a
  <2> QED
    BY <1>0, <1>1, SparesSteady
<1>8. Steady(a, b, u)
  <2> HIDE DEF a, b
  <2> QED
    BY <1>1, <1>2, <1>3, SparesSteady DEF Spares, OsInv
<1> HIDE DEF a, b
<1>9. Steady(b, o, u) /\ o \in KState
  <2> HIDE DEF o
  <2>1. CASE o = b
    BY <1>2, <1>4, <2>1, SameQuiet, SparesSteady DEF Spares, OsInv
  <2>2. CASE TmrTask \in Task /\ o = OS_TaskSemPost(b, TmrTask)
    <3>1. OsInv(o, C) /\ Spares(b, o)
      BY <1>2, <1>4, <2>2, TaskSemPostLemma, SignalSpares
    <3> QED
      BY <1>2, <1>4, <3>1, SparesSteady DEF OsInv
  <2> QED
    BY <1>5, <2>1, <2>2
<1> HIDE DEF o
<1>10. Steady(o, os', u)
  <2>1. Quiet(o, os')
    BY <1>6, <1>9, RescheduleQuiet
  <2> QED
    BY <2>1 DEF Quiet, SamePend, Steady
<1> QED
  BY <1>7, <1>8, <1>9, <1>10, SteadyTransitive

\* The tick task counts a tick and ends the waits whose tick has come.
LEMMA TickStepSpares ==
  ASSUME KInv, PendOK(os), TickStep
  PROVE  Spares(os, os')
<1>0. OsInv(os, Creating) /\ os \in KState /\ KTypeOK
  BY DEF KInv, OsInv
<1>1. CASE OS_TickListUpdate
  <2>1. os' = [os EXCEPT !.OSTickCtr = (os.OSTickCtr + 1) % TickMod]
    BY <1>1 DEF OS_TickListUpdate
  <2>2. Ticks(os, os')
    BY <1>0, <2>1 DEF Ticks, SameCtrs, SamePend, KState
  <2> QED
    BY <2>2 DEF Spares
<1>2. CASE TickListUpdateLoop
  <2>1. os' = os \/ (tickPtr \in Task /\ os' = Expire(os, tickPtr))
    BY <1>0, <1>2 DEF TickListUpdateLoop, KTypeOK
  <2>2. ASSUME tickPtr \in Task, os' = Expire(os, tickPtr)
        PROVE  Spares(os, os')
    <3>1. CASE os.TaskState[tickPtr] \in Timed
      BY <1>0, <2>2, <3>1, ExpireEnds DEF Spares
    <3>2. CASE os.TaskState[tickPtr] \notin Timed
      <4>1. os' = os
        BY <2>2, <3>2 DEF Expire, Timed
      <4> QED
        BY <4>1, SameQuiet DEF Spares
    <3> QED
      BY <3>1, <3>2
  <2> QED
    BY <2>1, <2>2, SameQuiet DEF Spares
<1> QED
  BY <1>1, <1>2 DEF TickStep

\* Every step of the kernel.
LEMMA KNextSteady ==
  ASSUME Hazard = {}, \A v \in Task : Calls[v] \cap {"del", "semabort"} = {}, KInv, PendOK(os),
         \A v \in Task : pc[v] # "abort", KNext, NEW u \in Task
  PROVE  Steady(os, os', u)
<1>1. os \in KState
  BY DEF KInv, OsInv
<1>2. ASSUME NEW t \in Task, TaskStep(t) PROVE Steady(os, os', u)
  BY <1>1, <1>2, TaskStepSpares, SparesSteady
<1>3. CASE TickStep
  BY <1>1, <1>3, TickStepSpares, SparesSteady
<1> QED
  BY <1>2, <1>3, StartSpares, TickISRSpares DEF KNext

\* No task in existence comes under creation.
NoneReborn == \A u \in Task : os.TaskState[u] # "DEL" /\ u \notin Creating => u \notin Creating'

\* A step that begins no creation.
LEMMA MoveBorn ==
  ASSUME KTypeOK, NEW t, NEW l, l # "create", pc' = [pc EXCEPT ![t] = l],
         arg' = arg \/ \E a : arg' = [arg EXCEPT ![t] = a]
  PROVE  NoneReborn
<1>1. pc \in [Task -> PC] /\ arg \in [Task -> Task \cup Obj \cup {NoTask, NoObj}]
  BY DEF KTypeOK
<1>2. ASSUME NEW v \in Task, pc'[v] = "create"
      PROVE  pc[v] = "create" /\ arg'[v] = arg[v]
  BY <1>1, <1>2
<1> QED
  BY <1>2 DEF NoneReborn, Creating

\* OSTaskCreate begins with a TCB that is not in use.
LEMMA KNextBorn ==
  ASSUME KInv, KNext
  PROVE  NoneReborn
<1>1. KTypeOK /\ pc \in [Task -> PC] /\ arg \in [Task -> Task \cup Obj \cup {NoTask, NoObj}]
  BY DEF KInv, KTypeOK
<1>2. CASE pc' = pc /\ arg' = arg
  BY <1>2 DEF NoneReborn, Creating
<1>3. ASSUME NEW t \in Task, NEW c \in Task, OSTaskCreate(t, c)
      PROVE  NoneReborn
  <2>1. os.TaskState[c] = "DEL" /\ pc' = [pc EXCEPT ![t] = "create"] /\ arg' = [arg EXCEPT ![t] = c]
    BY <1>3 DEF OSTaskCreate, Goto
  <2>2. ASSUME NEW v \in Task, pc'[v] = "create"
        PROVE  (pc[v] = "create" /\ arg'[v] = arg[v]) \/ arg'[v] = c
    BY <1>1, <2>1, <2>2
  <2> QED
    BY <2>1, <2>2 DEF NoneReborn, Creating
<1>4. ASSUME NEW t \in Task, OSTaskCreateLink(t)
      PROVE  NoneReborn
  <2>1. /\ pc' = [pc EXCEPT ![t] = "sched", ![arg[t]] = "app"]
        /\ arg' = [arg EXCEPT ![t] = NoTask, ![arg[t]] = NoTask]
    BY <1>4 DEF OSTaskCreateLink
  <2>2. ASSUME NEW v \in Task, pc'[v] = "create"
        PROVE  pc[v] = "create" /\ arg'[v] = arg[v]
    BY <1>1, <2>1, <2>2
  <2> QED
    BY <2>2 DEF NoneReborn, Creating
<1>5. ASSUME NEW t, NEW o, NEW l, Step(t, o, l), l # "create"
      PROVE  NoneReborn
  BY <1>1, <1>5, MoveBorn DEF Step, Goto
<1>6. ASSUME NEW t \in Task, TaskStep(t)
      PROVE  NoneReborn
  <2>1. ASSUME NEW c \in Task,
               \/ OSTaskDel(t, c) \/ OSTaskSuspend(t, c) \/ OSTaskResume(t, c)
               \/ \E p \in NewPrios, self \in BOOLEAN : OSTaskChangePrio(t, c, p, self)
               \/ \E q \in Quanta : OSTaskTimeQuantaSet(t, c, q)
               \/ \E n \in 0 .. SemMax : OSTaskSemSet(t, c, n)
        PROVE  \E o : Step(t, o, "sched") \/ Step(t, o, "app")
    BY <2>1 DEF OSTaskDel, OSTaskSuspend, OSTaskResume, OSTaskChangePrio, OSTaskTimeQuantaSet, OSTaskSemSet
  <2>2. ASSUME \/ OSSchedLock(t) \/ OSSchedUnlock(t) \/ OSSchedRoundRobinYield(t)
               \/ \E en \in BOOLEAN, q \in Quanta : OSSchedRoundRobinCfg(t, en, q)
               \/ \E d \in Delays, opt \in DlyOpts : OSTimeDly(t, d, opt)
               \/ \E d \in Delays : OSTimeSet(t, d)
        PROVE  \E o : Step(t, o, "sched") \/ Step(t, o, "app")
    BY <2>2 DEF OSSchedLock, OSSchedUnlock, OSSchedRoundRobinYield, OSSchedRoundRobinCfg, OSTimeDly, OSTimeSet
  <2>3. ASSUME \/ OSSched(t) \/ PendReturn(t)
               \/ \E d \in Timeouts \cup {0}, block \in BOOLEAN : OSTaskSemPend(t, d, block)
               \/ \E c \in Task, opt \in PostOpts : OSTaskSemPost(t, c, opt)
        PROVE  \E o, l : Step(t, o, l) /\ l # "create"
    BY <2>3 DEF OSSched, PendReturn, OSTaskSemPend, OSTaskSemPost, Resumption
  <2>4. ASSUME NEW c \in Task, OSTaskSemPendAbort(t, c)
        PROVE  NoneReborn
    BY <1>1, <2>4, MoveBorn DEF OSTaskSemPendAbort, Goto
  <2>5. ASSUME NEW opt \in PostOpts, OSTaskSemPendAbort2(t, opt)
        PROVE  NoneReborn
    <3>1. \E l : l # "create" /\ pc' = [pc EXCEPT ![t] = l] /\ arg' = [arg EXCEPT ![t] = NoTask]
      BY <2>5 DEF OSTaskSemPendAbort2, Goto
    <3> QED
      BY <1>1, <3>1, MoveBorn
  <2> QED
    BY <1>3, <1>4, <1>5, <1>6, <2>1, <2>2, <2>3, <2>4, <2>5 DEF TaskStep
<1>7. CASE TickStep
  <2>1. (\E t, l : pc' = [pc EXCEPT ![t] = l] /\ l # "create" /\ arg' = arg) \/ (pc' = pc /\ arg' = arg)
    BY <1>7 DEF TickStep, OS_TickListUpdate, TickListUpdateLoop, Goto
  <2> QED
    BY <1>1, <1>2, <2>1, MoveBorn
<1>8. CASE Boot \/ OSStart \/ TickISR
  <2>1. pc' = pc /\ arg' = arg
    BY <1>8 DEF Boot, OSStart, TickISR
  <2> QED
    BY <1>2, <2>1
<1> QED
  BY <1>6, <1>7, <1>8 DEF KNext
-----------------------------------------------------------------------------
(* A mutex service changes the priority of a task. *)

\* What holds of the kernel and of its waits: tasks wait for their own semaphore or
\* for one mutex, the one their call is about.
BaseInv == ObjInv({"MUTEX"}, Mutex)

\* Mutexes are objects one waits for in one way.
LEMMA MutexKind == ObjKind({"MUTEX"}, Mutex)
BY MutexAssumption DEF ObjKind, PendOnSet

\* A ready task that goes to the list of another priority.
LEMMA ReprioRepri ==
  ASSUME NEW o, NEW C, OsInv(o, C), NEW t \in Ready(o) \ C, NEW p \in Prio, o.PendData[t] = {}
  PROVE  /\ Repri(o, OS_RdyListInsertHead(Reprio(o, t, p), t), t, p)
         /\ Repri(o, OS_RdyListInsertTail(Reprio(o, t, p), t), t, p)
<1> DEFINE a == OS_RdyListRemove(o, t)
           b == [a EXCEPT !.Prio[t] = p]
           h == OS_RdyListInsertHead(OS_PrioInsert(b, p), t)
           l == OS_RdyListInsertTail(OS_PrioInsert(b, p), t)
<1>1. o \in KState /\ t \in Task /\ Rdy(o, Ready(o) \ C)
  BY DEF OsInv, Ready
<1>2. a \in KState /\ Quiet(o, a)
  BY <1>1, RdyListQuiet, RdyListRemoveLemma
<1> HIDE DEF a
<1>3. /\ b.TaskState = a.TaskState /\ b.Prio = [a.Prio EXCEPT ![t] = p]
      /\ SameCtrs(a, b) /\ SamePend(a, b) /\ SameWheel(a, b)
  BY <1>1, <1>2, SetPrioFrame
<1>4. b \in KState
  <2>1. [a.Prio EXCEPT ![t] = p] \in [Task -> 0 .. PrioMax]
    <3>1. a.Prio \in [Task -> 0 .. PrioMax]
      BY <1>2 DEF KState
    <3>2. p \in 0 .. PrioMax
      BY CoreAssumption DEF Prio
    <3> QED
      BY <3>1, <3>2
  <2>2. b = [a EXCEPT !.Prio = [a.Prio EXCEPT ![t] = p]]
    OBVIOUS
  <2> HIDE DEF b
  <2> QED
    BY <1>2, <2>1, <2>2 DEF KState
<1> HIDE DEF b
<1>5. Quiet(b, h) /\ Quiet(b, l)
  BY <1>1, <1>4, RdyListQuiet
<1>6. Reprio(o, t, p) = OS_PrioInsert(b, p)
  BY DEF Reprio, a, b
<1> HIDE DEF h, l
<1>7. Repri(o, h, t, p) /\ Repri(o, l, t, p)
  BY <1>2, <1>3, <1>5 DEF Repri, Quiet, SameCtrs, SamePend, SameWheel
<1> QED
  BY <1>6, <1>7 DEF h, l

\* Such a change leaves the waits in order.
LEMMA RepriFit ==
  ASSUME BaseInv, NEW w \in Task, NEW p \in Prio, NEW o, Repri(os, o, w, p), Repriod(os, o, Creating)
  PROVE  Like(os, o) /\ Fit({"MUTEX"}, o)
<1>1. /\ os \in KState /\ o \in KState /\ PendOK(os) /\ OsInv(o, Creating) /\ WaitSorted(os)
      /\ os.PendOn[w] # "FLAG"
  BY DEF BaseInv, ObjInv, ObjWaits, KInv, OsInv, Repriod
<1>2. PendOK(o) /\ WaitSorted(o)
  BY <1>1, RepriPendOK, RepriSorted
<1> QED
  BY <1>1, <1>2 DEF Like, Fit, Repri, Repriod

\* The owner, whatever it does or waits for, gets the priority of the waiting task.
LEMMA RaiseOwnerFit ==
  ASSUME BaseInv, NEW w \in Task, os.TaskState[w] # "DEL", w \notin Creating, NEW p \in Prio,
         NEW o, o = RaiseOwner(os, w, p)
  PROVE  Like(os, o) /\ Fit({"MUTEX"}, o) /\ Repri(os, o, w, p)
<1>1. os \in KState /\ OsInv(os, Creating) /\ PendOK(os) /\ os.PendOn[w] # "FLAG"
  BY DEF BaseInv, ObjInv, ObjWaits, KInv, OsInv
<1>2. Repri(os, o, w, p) /\ Repriod(os, o, Creating)
  <2>1. CASE os.TaskState[w] = "RDY"
    <3>1. w \in Ready(os) \ Creating /\ os.PendData[w] = {}
      BY <1>1, <2>1 DEF Ready, PendOK, Pending
    <3>2. o = OS_RdyListInsertHead(Reprio(os, w, p), w)
      BY <2>1 DEF RaiseOwner, Reprio
    <3> QED
      BY <1>1, <3>1, <3>2, ReprioRepri, RdyChangePrioLemma
  <2>2. CASE os.TaskState[w] \in Pending
    <3>1. w \notin Ready(os) /\ o = OS_PendListChangePrio(os, w, p)
      BY <2>2 DEF Ready, Pending, RaiseOwner
    <3>2. Repri(os, o, w, p)
      BY <1>1, <3>1, PendListChangePrioRepri
    <3>3. Repriod(os, o, Creating)
      BY <1>1, <3>1, PendListChangePrioLemma DEF Repriod
    <3> QED
      BY <3>2, <3>3
  <2>3. CASE os.TaskState[w] # "RDY" /\ os.TaskState[w] \notin Pending
    <3>1. w \notin Ready(os) /\ o = [os EXCEPT !.Prio[w] = p] /\ os.PendData[w] = {}
      BY <1>1, <2>3 DEF Ready, RaiseOwner, PendOK
    <3>2. /\ o.TaskState = os.TaskState /\ o.Prio = [os.Prio EXCEPT ![w] = p]
          /\ SameCtrs(os, o) /\ SamePend(os, o) /\ SameWheel(os, o)
      BY <1>1, <3>1, SetPrioFrame
    <3>3. Repriod(os, o, Creating)
      BY <1>1, <3>1, SetPrioLemma DEF Repriod
    <3> QED
      BY <3>1, <3>2, <3>3 DEF Repri, SamePend
  <2> QED
    BY <2>1, <2>2, <2>3
<1> QED
  BY <1>2, RepriFit

\* Functions with the same values are the same.
LEMMA SameFunction ==
  ASSUME NEW S, NEW T, NEW f \in [S -> T], NEW g \in [S -> T], \A x \in S : f[x] = g[x]
  PROVE  f = g
OBVIOUS

\* The owner that hands the mutex over gets its own priority back.
LEMMA RestoreFit ==
  ASSUME BaseInv, NEW t \in Task, os.TaskState[t] = "RDY", t \notin Creating, NEW p \in Prio,
         NEW o, o = Restore(os, t, p)
  PROVE  Like(os, o) /\ Fit({"MUTEX"}, o) /\ o.Prio = [os.Prio EXCEPT ![t] = p] /\ SamePend(os, o)
<1>1. os \in KState /\ OsInv(os, Creating) /\ PendOK(os) /\ t \in Ready(os) \ Creating /\ os.PendData[t] = {}
  BY DEF BaseInv, ObjInv, KInv, OsInv, Ready, PendOK, Pending
<1>2. os.Prio \in [Task -> 0 .. PrioMax]
  BY <1>1 DEF KState
<1>3. CASE os.Prio[t] = p
  <2>1. o = os /\ os.Prio = [os.Prio EXCEPT ![t] = p]
    BY <1>2, <1>3 DEF Restore
  <2> QED
    BY <2>1, SameLike DEF SamePend, BaseInv
<1>4. CASE os.Prio[t] # p
  <2> DEFINE x == OS_RdyListInsertTail(Reprio(os, t, p), t)
  <2>1. Repri(os, x, t, p) /\ Repriod(os, x, Creating)
    BY <1>1, ReprioRepri, RdyChangePrioLemma
  <2>2. o = [x EXCEPT !.OSPrioCur = p]
    BY <1>4 DEF Restore, Reprio
  <2> HIDE DEF x
  <2>3. x \in KState /\ p \in 0 .. PrioMax /\ OsInv(x, Creating)
    BY <2>1, CoreAssumption DEF Repriod, OsInv, Prio
  <2>4. o \in KState
    BY <2>2, <2>3 DEF KState
  <2>5. SameSched(x, o) /\ Quiet(x, o)
    BY <2>2, <2>3 DEF KState, SameSched, SameTasks, Quiet, SameCtrs, SamePend, SameWheel
  <2>6. OsInv(o, Creating)
    BY <2>3, <2>4, <2>5, SameSchedInv
  <2>7. Repriod(os, o, Creating)
    BY <2>1, <2>5, <2>6 DEF Repriod, SameSched, SameTasks
  <2>8. Repri(os, o, t, p)
    BY <2>1, <2>5 DEF Repri, Quiet, SameCtrs, SamePend, SameWheel
  <2>9. o.PendList = os.PendList
    <3>1. \A obj \in Obj : o.PendList[obj] = os.PendList[obj]
      BY <1>1, <2>8 DEF Repri
    <3>2. o.PendList \in [Obj -> Seq(Task)] /\ os.PendList \in [Obj -> Seq(Task)]
      BY <1>1, <2>4, PrioTypes
    <3> QED
      BY <3>1, <3>2, SameFunction
  <2>10. Like(os, o) /\ Fit({"MUTEX"}, o)
    BY <2>7, <2>8, RepriFit
  <2>11. o.Prio = [os.Prio EXCEPT ![t] = p] /\ o.PendData = os.PendData
    BY <2>8 DEF Repri
  <2> QED
    BY <2>9, <2>10, <2>11 DEF SamePend
<1> QED
  BY <1>3, <1>4
-----------------------------------------------------------------------------
(* Mutual exclusion. *)

\* The types of the mutexes.
MtxType ==
  /\ mtx \in [Mutex -> [OwnerTCBPtr : Task \cup {NoTask}, OwnerNestingCtr : 0 .. NestMod - 1,
                        OwnerOriginalPrio : 0 .. PrioMax]]
  /\ holds \in [Task -> [Mutex -> Int]]

\* The owner of a mutex is a living task, which came by it at a task's priority.
OwnerOK ==
  \A m \in Mutex :
    /\ mtx[m].OwnerNestingCtr = 0 <=> mtx[m].OwnerTCBPtr = NoTask
    /\ mtx[m].OwnerTCBPtr \in Task => /\ os.TaskState[mtx[m].OwnerTCBPtr] # "DEL"
                                      /\ mtx[m].OwnerTCBPtr \notin Creating
                                      /\ mtx[m].OwnerOriginalPrio \in Prio

\* Nobody waits for a mutex that is free.
WaitedFor == \A u \in Task : \A m \in os.PendData[u] : mtx[m].OwnerTCBPtr \in Task

MInv == BaseInv /\ MtxType /\ OwnerOK /\ WaitedFor /\ MutexExclusive

\* What is known of the caller of a mutex service.
LEMMA MutexCaller ==
  ASSUME BaseInv, NEW t, NEW svc, Call(t, svc)
  PROVE  /\ t \in Task /\ t = cur /\ os.OSRunning /\ pc[t] = "app"
         /\ os.TaskState[t] = "RDY" /\ t \notin Creating /\ os.PendData[t] = {}
         /\ os.Prio[t] \in Prio
         /\ \A m : ~Given(t, m)
<1>1. /\ t \in Task /\ t = cur /\ os.OSRunning /\ pc[t] = "app"
      /\ cur \in Ready(os) \ Creating
  BY CallLemma DEF BaseInv, ObjInv
<1>2. os.TaskState[t] = "RDY" /\ t \notin Creating /\ os.PendData[t] = {}
  BY <1>1, ObjRunner DEF BaseInv
<1>3. os.Prio[t] \in Prio
  BY <1>1, <1>2 DEF BaseInv, ObjInv, KInv, OsInv
<1> QED
  BY <1>1, <1>2, <1>3 DEF Given

\* A task whose wait, if any, goes on.
LEMMA GivenSame ==
  ASSUME NEW u, os'.TaskState[u] = "DEL" <=> os.TaskState[u] = "DEL", Creating' = Creating,
         pc'[u] = pc[u], arg'[u] = arg[u], os'.PendOn[u] = os.PendOn[u],
         os'.PendStatus[u] = os.PendStatus[u]
  PROVE  \A m : Given(u, m)' <=> Given(u, m)
BY DEF Given

\* A record of a mutex and its fields.
MtxRec == [OwnerTCBPtr : Task \cup {NoTask}, OwnerNestingCtr : 0 .. NestMod - 1,
           OwnerOriginalPrio : 0 .. PrioMax]

\* Mutex m gets the record r, task t goes dn levels deeper, the kernel data stay.
LEMMA MutexKept ==
  ASSUME Hazard = {}, MInv, UNCHANGED kvars, NEW t \in Task, NEW m \in Mutex, NEW r \in MtxRec,
         mtx' = [mtx EXCEPT ![m] = r], NEW dn \in Int,
         holds' = [holds EXCEPT ![t] = [holds[t] EXCEPT ![m] = holds[t][m] + dn]],
         r.OwnerNestingCtr = 0 <=> r.OwnerTCBPtr = NoTask,
         r.OwnerTCBPtr = t => /\ os.TaskState[t] # "DEL" /\ t \notin Creating
                              /\ r.OwnerOriginalPrio \in Prio,
         r.OwnerTCBPtr \in {t, NoTask}, mtx[m].OwnerTCBPtr \in {t, NoTask},
         r.OwnerTCBPtr = NoTask => os.PendList[m] = <<>>,
         (IF r.OwnerTCBPtr = t THEN r.OwnerNestingCtr ELSE 0)
            = (IF mtx[m].OwnerTCBPtr = t THEN mtx[m].OwnerNestingCtr ELSE 0) + dn
  PROVE  MInv'
<1>1. os' = os /\ pc' = pc /\ arg' = arg /\ Creating' = Creating
  BY DEF kvars, Creating
<1>2. BaseInv'
  BY ObjStutter DEF MInv, BaseInv
<1>3. /\ mtx \in [Mutex -> MtxRec] /\ holds \in [Task -> [Mutex -> Int]]
      /\ os \in KState /\ PendOK(os) /\ NoTask \notin Task
  BY CoreAssumption DEF MInv, MtxType, MtxRec, BaseInv, ObjInv, KInv, OsInv
<1>4. MtxType'
  <2>1. mtx' \in [Mutex -> MtxRec]
    BY <1>3
  <2>2. holds' \in [Task -> [Mutex -> Int]]
    BY <1>3
  <2> QED
    BY <2>1, <2>2 DEF MtxType, MtxRec
<1>5. mtx'[m] = r /\ \A n \in Mutex \ {m} : mtx'[n] = mtx[n]
  BY <1>3
<1>6. OwnerOK'
  <2>1. ASSUME NEW n \in Mutex
        PROVE  /\ mtx'[n].OwnerNestingCtr = 0 <=> mtx'[n].OwnerTCBPtr = NoTask
               /\ mtx'[n].OwnerTCBPtr \in Task => /\ os.TaskState[mtx'[n].OwnerTCBPtr] # "DEL"
                                                 /\ mtx'[n].OwnerTCBPtr \notin Creating
                                                 /\ mtx'[n].OwnerOriginalPrio \in Prio
    <3>1. CASE n = m
      <4>1. r.OwnerTCBPtr \in Task => r.OwnerTCBPtr = t
        BY <1>3
      <4> QED
        BY <1>5, <3>1, <4>1
    <3>2. CASE n # m
      <4>1. mtx'[n] = mtx[n]
        BY <1>5, <3>2
      <4> QED
        BY <4>1 DEF OwnerOK, MInv
    <3> QED
      BY <3>1, <3>2
  <2> QED
    BY <1>1, <2>1 DEF OwnerOK
<1>7. WaitedFor'
  <2>1. ASSUME NEW u \in Task, NEW n \in os.PendData[u]
        PROVE  mtx'[n].OwnerTCBPtr \in Task
    <3>1. n \in Mutex /\ n \in Obj
      BY MutexAssumption DEF MInv, BaseInv, ObjInv, ObjWaits
    <3>2. mtx[n].OwnerTCBPtr \in Task
      BY DEF MInv, WaitedFor
    <3>3. n = m => os.PendList[m] # <<>>
      BY <1>3, <3>1, ListHasWaiter
    <3> QED
      BY <1>5, <3>1, <3>2, <3>3
  <2> QED
    BY <1>1, <2>1 DEF WaitedFor
<1>8. \A u \in Task, n \in Mutex : Given(u, n)' <=> Given(u, n)
  BY <1>1, GivenSame
<1>9. ASSUME NEW n \in Mutex, NEW u \in Task
      PROVE  holds'[u][n] + (IF Given(u, n) THEN 1 ELSE 0)
               = IF mtx'[n].OwnerTCBPtr = u THEN mtx'[n].OwnerNestingCtr ELSE 0
  <2> DEFINE g == IF Given(u, n) THEN 1 ELSE 0
             x == IF mtx[n].OwnerTCBPtr = u THEN mtx[n].OwnerNestingCtr ELSE 0
             y == IF mtx'[n].OwnerTCBPtr = u THEN mtx'[n].OwnerNestingCtr ELSE 0
  <2>1. holds[u][n] + g = x /\ g \in Int /\ holds[u][n] \in Int
    BY <1>3 DEF MInv, MutexExclusive
  <2>2. x \in Int
    <3>1. mtx[n].OwnerNestingCtr \in 0 .. NestMod - 1
      BY <1>3 DEF MtxRec
    <3> QED
      BY <3>1, CoreAssumption
  <2>3. CASE u = t /\ n = m
    <3>1. y = x + dn
      BY <1>5, <2>3
    <3>2. holds'[u][n] = holds[u][n] + dn
      BY <1>3, <2>3
    <3> HIDE DEF g, x, y
    <3>3. holds'[u][n] + g = y
      BY <2>1, <2>2, <3>1, <3>2
    <3> QED
      BY <3>3 DEF g, y
  <2>4. CASE u # t \/ n # m
    <3>1. y = x
      BY <1>3, <1>5, <2>4
    <3>2. holds'[u][n] = holds[u][n]
      BY <1>3, <2>4
    <3> QED
      BY <2>1, <3>1, <3>2
  <2> QED
    BY <2>3, <2>4
<1>10. MutexExclusive'
  BY <1>8, <1>9 DEF MutexExclusive
<1> QED
  BY <1>2, <1>4, <1>6, <1>7, <1>10 DEF MInv

\* OSMutexPend of a free mutex.
LEMMA PendFreeStep ==
  ASSUME Hazard = {}, MInv, NEW t, NEW m \in Mutex, OSMutexPendFree(t, m)
  PROVE  MInv'
<1> DEFINE r == [OwnerTCBPtr |-> t, OwnerNestingCtr |-> 1, OwnerOriginalPrio |-> os.Prio[t]]
<1>1. /\ t \in Task /\ os.TaskState[t] = "RDY" /\ t \notin Creating /\ os.Prio[t] \in Prio
      /\ UNCHANGED kvars
  BY MutexCaller DEF OSMutexPendFree, MInv
<1>2. mtx[m].OwnerNestingCtr = 0 /\ mtx' = [mtx EXCEPT ![m] = r]
  BY DEF OSMutexPendFree
<1>3. holds' = [holds EXCEPT ![t] = [holds[t] EXCEPT ![m] = holds[t][m] + 1]]
  BY DEF OSMutexPendFree, Take
<1>4. mtx[m].OwnerTCBPtr = NoTask
  BY <1>2 DEF MInv, OwnerOK
<1>5. r \in MtxRec /\ r.OwnerTCBPtr = t /\ r.OwnerNestingCtr = 1 /\ r.OwnerOriginalPrio = os.Prio[t]
  BY <1>1, CoreAssumption DEF MtxRec, Prio
<1>6. t # NoTask
  BY <1>1, CoreAssumption
<1> HIDE DEF r
<1>7. PICK k \in Int : k = 1
  OBVIOUS
<1>8. /\ r.OwnerNestingCtr = 0 <=> r.OwnerTCBPtr = NoTask
      /\ r.OwnerTCBPtr \in {t, NoTask} /\ (r.OwnerTCBPtr = NoTask => os.PendList[m] = <<>>)
  BY <1>5, <1>6
<1>9. (IF r.OwnerTCBPtr = t THEN r.OwnerNestingCtr ELSE 0)
        = (IF mtx[m].OwnerTCBPtr = t THEN mtx[m].OwnerNestingCtr ELSE 0) + k
  BY <1>4, <1>5, <1>6, <1>7
<1>10. holds' = [holds EXCEPT ![t] = [holds[t] EXCEPT ![m] = holds[t][m] + k]]
  BY <1>3, <1>7
<1> QED
  BY <1>1, <1>2, <1>4, <1>5, <1>7, <1>8, <1>9, <1>10, MutexKept

\* What the caller owns.
LEMMA OwnedRec ==
  ASSUME MInv, NEW t \in Task, NEW m \in Mutex, mtx[m].OwnerTCBPtr = t
  PROVE  /\ mtx \in [Mutex -> MtxRec] /\ mtx[m] \in MtxRec
         /\ mtx[m].OwnerNestingCtr \in 1 .. NestMod - 1 /\ t # NoTask
         /\ mtx[m].OwnerOriginalPrio \in Prio /\ os.TaskState[t] # "DEL" /\ t \notin Creating
<1>1. mtx \in [Mutex -> MtxRec] /\ t # NoTask
  BY CoreAssumption DEF MInv, MtxType, MtxRec
<1>2. mtx[m].OwnerNestingCtr \in 0 .. NestMod - 1 /\ mtx[m].OwnerNestingCtr # 0
  BY <1>1 DEF MInv, OwnerOK, MtxRec
<1> QED
  BY <1>1, <1>2, CoreAssumption DEF MInv, OwnerOK

\* OSMutexPend of a mutex one has: the counter does not wrap.
LEMMA PendNestedStep ==
  ASSUME Hazard = {}, NestBound < NestMod, MInv, NEW t, NEW m \in Mutex, OSMutexPendNested(t, m)
  PROVE  MInv'
<1> DEFINE n == mtx[m].OwnerNestingCtr
           r == [mtx[m] EXCEPT !.OwnerNestingCtr = n + 1]
<1>1. t \in Task /\ UNCHANGED kvars
  BY MutexCaller DEF OSMutexPendNested, MInv
<1>2. /\ mtx[m].OwnerTCBPtr = t /\ n < NestBound
      /\ mtx' = [mtx EXCEPT ![m].OwnerNestingCtr = (n + 1) % NestMod]
      /\ holds' = [holds EXCEPT ![t] = [holds[t] EXCEPT ![m] = holds[t][m] + 1]]
  BY DEF OSMutexPendNested, Take
<1>3. /\ mtx \in [Mutex -> MtxRec] /\ mtx[m] \in MtxRec /\ n \in 1 .. NestMod - 1 /\ t # NoTask
      /\ mtx[m].OwnerOriginalPrio \in Prio /\ os.TaskState[t] # "DEL" /\ t \notin Creating
  BY <1>1, <1>2, OwnedRec
<1>4. n + 1 \in 1 .. NestMod - 1 /\ (n + 1) % NestMod = n + 1
  BY <1>2, <1>3, CoreAssumption, MutexAssumption
<1>5. mtx' = [mtx EXCEPT ![m] = r]
  BY <1>2, <1>3, <1>4
<1>6. /\ r \in MtxRec /\ r.OwnerTCBPtr = t /\ r.OwnerNestingCtr = n + 1
      /\ r.OwnerOriginalPrio = mtx[m].OwnerOriginalPrio
  BY <1>2, <1>3, <1>4, CoreAssumption DEF MtxRec
<1> HIDE DEF r
<1>7. PICK k \in Int : k = 1
  OBVIOUS
<1>8. /\ r.OwnerNestingCtr = 0 <=> r.OwnerTCBPtr = NoTask
      /\ r.OwnerTCBPtr \in {t, NoTask} /\ (r.OwnerTCBPtr = NoTask => os.PendList[m] = <<>>)
  BY <1>3, <1>4, <1>6
<1>9. (IF r.OwnerTCBPtr = t THEN r.OwnerNestingCtr ELSE 0)
        = (IF mtx[m].OwnerTCBPtr = t THEN mtx[m].OwnerNestingCtr ELSE 0) + k
  BY <1>2, <1>6, <1>7
<1>10. holds' = [holds EXCEPT ![t] = [holds[t] EXCEPT ![m] = holds[t][m] + k]]
  BY <1>2, <1>7
<1> QED
  BY <1>1, <1>2, <1>3, <1>5, <1>6, <1>7, <1>8, <1>9, <1>10, MutexKept

\* OSMutexPost that leaves the mutex to its owner, or to nobody.
LEMMA PostKeepStep ==
  ASSUME Hazard = {}, MInv, NEW t, NEW m \in Mutex, NEW opt, OSMutexPost(t, m, opt),
         mtx[m].OwnerNestingCtr # 1 \/ os.PendList[m] = <<>>
  PROVE  MInv' /\ UNCHANGED kvars
<1> DEFINE n == mtx[m].OwnerNestingCtr
           e == IF n = 1 THEN NoTask ELSE t
           r == [mtx[m] EXCEPT !.OwnerNestingCtr = n - 1, !.OwnerTCBPtr = e]
<1>1. t \in Task /\ mtx[m].OwnerTCBPtr = t
  BY MutexCaller DEF OSMutexPost, MInv
<1>2. /\ mtx \in [Mutex -> MtxRec] /\ mtx[m] \in MtxRec /\ n \in 1 .. NestMod - 1 /\ t # NoTask
      /\ mtx[m].OwnerOriginalPrio \in Prio /\ os.TaskState[t] # "DEL" /\ t \notin Creating
  BY <1>1, OwnedRec
<1>3. /\ n - 1 \in 0 .. NestMod - 1 /\ (n - 1) % NestMod = n - 1
      /\ (n - 1 = 0 <=> n = 1) /\ (n - 1 > 0 <=> n # 1)
  BY <1>2, CoreAssumption
<1>4. PICK k \in Int : k = -1
  OBVIOUS
<1>5. holds' = [holds EXCEPT ![t] = [holds[t] EXCEPT ![m] = holds[t][m] + k]]
  <2>1. holds' = [holds EXCEPT ![t] = [holds[t] EXCEPT ![m] = holds[t][m] - 1]]
    BY DEF OSMutexPost, Leave
  <2>2. holds[t][m] - 1 = holds[t][m] + k
    <3>1. holds[t][m] \in Int
      BY <1>1 DEF MInv, MtxType
    <3> QED
      BY <1>4, <3>1
  <2> QED
    BY <2>1, <2>2
<1>6. /\ UNCHANGED kvars
      /\ \/ n # 1 /\ mtx' = [mtx EXCEPT ![m].OwnerNestingCtr = n - 1]
         \/ /\ n = 1 /\ os.PendList[m] = <<>>
            /\ mtx' = [mtx EXCEPT ![m].OwnerNestingCtr = 0, ![m].OwnerTCBPtr = NoTask]
  BY <1>3 DEF OSMutexPost
<1>7. mtx' = [mtx EXCEPT ![m] = r] /\ (n = 1 => os.PendList[m] = <<>>)
  <2>1. CASE n # 1 /\ mtx' = [mtx EXCEPT ![m].OwnerNestingCtr = n - 1]
    <3>1. [mtx[m] EXCEPT !.OwnerNestingCtr = n - 1] = r
      BY <1>1, <1>2, <2>1 DEF MtxRec
    <3> QED
      BY <1>2, <2>1, <3>1
  <2>2. CASE /\ n = 1 /\ os.PendList[m] = <<>>
             /\ mtx' = [mtx EXCEPT ![m].OwnerNestingCtr = 0, ![m].OwnerTCBPtr = NoTask]
    BY <1>2, <1>3, <2>2
  <2> QED
    BY <1>6, <2>1, <2>2
<1>8. /\ r \in MtxRec /\ r.OwnerTCBPtr = e /\ r.OwnerNestingCtr = n - 1
      /\ r.OwnerOriginalPrio = mtx[m].OwnerOriginalPrio
  BY <1>1, <1>2, <1>3 DEF MtxRec
<1> HIDE DEF r
<1>9. /\ r.OwnerNestingCtr = 0 <=> r.OwnerTCBPtr = NoTask
      /\ r.OwnerTCBPtr \in {t, NoTask} /\ (r.OwnerTCBPtr = NoTask => os.PendList[m] = <<>>)
  BY <1>2, <1>3, <1>7, <1>8
<1>10. (IF r.OwnerTCBPtr = t THEN r.OwnerNestingCtr ELSE 0)
         = (IF mtx[m].OwnerTCBPtr = t THEN n ELSE 0) + k
  <2>1. CASE n = 1
    BY <1>1, <1>2, <1>4, <1>8, <2>1
  <2>2. CASE n # 1
    BY <1>1, <1>2, <1>4, <1>8, <2>2
  <2> QED
    BY <2>1, <2>2
<1>11. MInv'
  BY <1>1, <1>2, <1>4, <1>5, <1>6, <1>7, <1>8, <1>9, <1>10, MutexKept
<1> QED
  BY <1>6, <1>11

\* Task t begins to wait for mutex m, whose owner w it has raised if w was lower;
\* o are the kernel data in between.
Lends(o, w, t, m, d) ==
  /\ w = mtx[m].OwnerTCBPtr /\ w # t /\ Like(os, o)
  /\ \/ o.Prio = os.Prio /\ os.Prio[w] <= os.Prio[t]
     \/ o.Prio = [os.Prio EXCEPT ![w] = os.Prio[t]] /\ os.Prio[t] < os.Prio[w]
  /\ Blocks(o, os', t, m, "MUTEX", d)
  /\ Creating' = Creating /\ pc' = [pc EXCEPT ![t] = "pend"] /\ arg' = [arg EXCEPT ![t] = m]

\* OSMutexPend of a mutex that another task has.
LEMMA PendWaitLends ==
  ASSUME MInv, NEW t, NEW m \in Mutex, NEW d \in Timeouts \cup {0}, OSMutexPendWait(t, m, d)
  PROVE  BaseInv' /\ \E o : \E w \in Task : Lends(o, w, t, m, d)
<1>1. PICK w : w = mtx[m].OwnerTCBPtr
  OBVIOUS
<1>2. PICK o : o = IF os.Prio[w] > os.Prio[t] THEN RaiseOwner(os, w, os.Prio[t]) ELSE os
  OBVIOUS
<1>3. /\ Call(t, "pend") /\ mtx[m].OwnerNestingCtr # 0 /\ w # t /\ os.OSSchedLockNestingCtr = 0
      /\ os' = OS_Pend(o, t, m, "MUTEX", d) /\ Goto(t, "pend") /\ arg' = [arg EXCEPT ![t] = m]
      /\ tickPtr' = tickPtr /\ tmrCtr' = tmrCtr /\ boot' = boot
  BY <1>1, <1>2 DEF OSMutexPendWait
<1>4. /\ t \in Task /\ os.Prio[t] \in Prio
  BY <1>3, MutexCaller DEF MInv
<1>5. w \in Task
  BY <1>1, <1>3 DEF MInv, OwnerOK, MtxType
<1>6. os.TaskState[w] # "DEL" /\ w \notin Creating
  BY <1>1, <1>5 DEF MInv, OwnerOK
<1>7. /\ Like(os, o) /\ Fit({"MUTEX"}, o)
      /\ \/ o.Prio = os.Prio /\ ~(os.Prio[w] > os.Prio[t])
         \/ o.Prio = [os.Prio EXCEPT ![w] = os.Prio[t]] /\ os.Prio[w] > os.Prio[t]
  <2>1. CASE os.Prio[w] > os.Prio[t]
    <3>1. o = RaiseOwner(os, w, os.Prio[t])
      BY <1>2, <2>1
    <3>2. Like(os, o) /\ Fit({"MUTEX"}, o) /\ Repri(os, o, w, os.Prio[t])
      BY <1>4, <1>5, <1>6, <3>1, RaiseOwnerFit DEF MInv
    <3> QED
      BY <2>1, <3>2 DEF Repri
  <2>2. CASE ~(os.Prio[w] > os.Prio[t])
    <3>1. o = os
      BY <1>2, <2>2
    <3>2. Like(os, os) /\ Fit({"MUTEX"}, os)
      BY SameLike DEF MInv, BaseInv
    <3> QED
      BY <2>2, <3>1, <3>2
  <2> QED
    BY <2>1, <2>2
<1>8. ObjInv({"MUTEX"}, Mutex)' /\ Creating' = Creating /\ Blocks(o, os', t, m, "MUTEX", d)
  BY <1>3, <1>7, MutexKind, ObjPend DEF MInv, BaseInv
<1>9. os.Prio[w] \in Int /\ os.Prio[t] \in Int
  BY <1>4, <1>5, PrioTypes DEF MInv, BaseInv, ObjInv, KInv, OsInv
<1>10. Lends(o, w, t, m, d)
  <2>1. ~(os.Prio[w] > os.Prio[t]) => os.Prio[w] <= os.Prio[t]
    BY <1>9
  <2>2. os.Prio[w] > os.Prio[t] => os.Prio[t] < os.Prio[w]
    BY <1>9
  <2> QED
    BY <1>1, <1>3, <1>7, <1>8, <2>1, <2>2 DEF Lends, Goto
<1> QED
  BY <1>5, <1>8, <1>10 DEF BaseInv

\* The wait changes no ownership.
LEMMA PendWaitStep ==
  ASSUME MInv, NEW t, NEW m \in Mutex, NEW d \in Timeouts \cup {0}, OSMutexPendWait(t, m, d)
  PROVE  MInv'
<1>1. PICK o : \E w \in Task : Lends(o, w, t, m, d)
  BY PendWaitLends
<1>2. PICK w \in Task : Lends(o, w, t, m, d)
  BY <1>1
<1>3. BaseInv' /\ mtx' = mtx /\ holds' = holds
  BY PendWaitLends DEF OSMutexPendWait
<1>4. t \in Task /\ pc[t] = "app" /\ os.TaskState[t] = "RDY" /\ \A n : ~Given(t, n)
  BY MutexCaller DEF MInv, OSMutexPendWait
<1>5. /\ os'.TaskState = [os.TaskState EXCEPT ![t] = IF d > 0 THEN "PEND_TIMEOUT" ELSE "PEND"]
      /\ os'.PendOn = [os.PendOn EXCEPT ![t] = "MUTEX"]
      /\ os'.PendStatus = [os.PendStatus EXCEPT ![t] = "OK"]
      /\ os'.PendData = [os.PendData EXCEPT ![t] = {m}]
  <2>1. m # NoObj
    BY MutexAssumption, CoreAssumption
  <2> QED
    BY <1>2, <2>1 DEF Lends, Blocks, Like, SameCtrs
<1>6. /\ os.TaskState \in [Task -> State] /\ os.PendOn \in [Task -> PendOnSet]
      /\ os.PendStatus \in [Task -> StatusSet] /\ os.PendData \in [Task -> SUBSET Obj]
      /\ pc \in [Task -> PC] /\ arg \in [Task -> Task \cup Obj \cup {NoTask, NoObj}]
  BY DEF MInv, BaseInv, ObjInv, KInv, KTypeOK, KState
<1>7. \A u \in Task : \A n : Given(u, n)' <=> Given(u, n)
  <2>1. os'.PendOn[t] = "MUTEX"
    BY <1>4, <1>5, <1>6
  <2>2. \A n : ~Given(t, n)'
    BY <2>1 DEF Given
  <2>3. ASSUME NEW u \in Task \ {t}
        PROVE  \A n : Given(u, n)' <=> Given(u, n)
    <3>1. /\ os'.TaskState[u] = os.TaskState[u] /\ os'.PendOn[u] = os.PendOn[u]
          /\ os'.PendStatus[u] = os.PendStatus[u]
      BY <1>5, <1>6
    <3>2. pc'[u] = pc[u] /\ arg'[u] = arg[u] /\ Creating' = Creating
      BY <1>2, <1>6 DEF Lends
    <3> QED
      BY <3>1, <3>2, GivenSame
  <2> QED
    BY <1>4, <2>2, <2>3
<1>8. MtxType' /\ MutexExclusive'
  BY <1>3, <1>7 DEF MInv, MtxType, MutexExclusive
<1>9. OwnerOK'
  <2>1. \A u \in Task : os'.TaskState[u] = "DEL" <=> os.TaskState[u] = "DEL"
    BY <1>4, <1>5, <1>6
  <2>2. Creating' = Creating
    BY <1>2 DEF Lends
  <2> QED
    BY <1>3, <2>1, <2>2 DEF MInv, OwnerOK
<1>10. WaitedFor'
  <2>1. ASSUME NEW u \in Task, NEW n \in os'.PendData[u]
        PROVE  mtx'[n].OwnerTCBPtr \in Task
    <3>1. u = t => n = m
      BY <1>5, <1>6
    <3>2. u # t => n \in os.PendData[u]
      BY <1>5, <1>6
    <3>3. mtx[m].OwnerTCBPtr \in Task
      BY <1>2 DEF Lends
    <3> QED
      BY <1>3, <3>1, <3>2, <3>3 DEF MInv, WaitedFor
  <2> QED
    BY <2>1 DEF WaitedFor
<1> QED
  BY <1>3, <1>8, <1>9, <1>10 DEF MInv

\* The return from OSMutexPend: a mutex that was given is taken.
LEMMA MutexReturnStep ==
  ASSUME MInv, NEW t, OSMutexPendReturn(t)
  PROVE  MInv'
<1>1. PICK m : m = arg[t]
  OBVIOUS
<1>2. /\ os.OSRunning /\ t = cur /\ pc[t] = "ret" /\ m \in Mutex
      /\ holds' = IF os.PendStatus[t] = "OK"
                  THEN [holds EXCEPT ![t] = [holds[t] EXCEPT ![m] = holds[t][m] + 1]] ELSE holds
      /\ pc' = [pc EXCEPT ![t] = "app"] /\ arg' = [arg EXCEPT ![t] = NoTask]
      /\ os' = os /\ tickPtr' = tickPtr /\ tmrCtr' = tmrCtr /\ boot' = boot /\ mtx' = mtx
  BY <1>1 DEF OSMutexPendReturn, Take, Goto
<1>3. /\ t \in Task /\ t \notin Creating /\ os.TaskState[t] = "RDY" /\ os.PendOn[t] = "NOTHING"
  BY <1>2, ObjRunner DEF MInv, BaseInv
<1>4. BaseInv' /\ Creating' = Creating
  BY <1>2, ObjStay DEF MInv, BaseInv
<1>5. /\ pc \in [Task -> PC] /\ arg \in [Task -> Task \cup Obj \cup {NoTask, NoObj}]
      /\ holds \in [Task -> [Mutex -> Int]]
  BY DEF MInv, BaseInv, ObjInv, KInv, KTypeOK, MtxType
<1>6. /\ \A n \in Mutex : Given(t, n) <=> n = m /\ os.PendStatus[t] = "OK"
      /\ \A n \in Mutex : ~Given(t, n)'
  <2>1. pc'[t] = "app"
    BY <1>2, <1>3, <1>5
  <2> QED
    BY <1>1, <1>2, <1>3, <2>1 DEF Given
<1>7. ASSUME NEW u \in Task \ {t}
      PROVE  \A n : Given(u, n)' <=> Given(u, n)
  <2>1. pc'[u] = pc[u] /\ arg'[u] = arg[u]
    BY <1>2, <1>5
  <2> QED
    BY <1>2, <1>4, <2>1, GivenSame
<1>8. MtxType'
  <2>1. holds' \in [Task -> [Mutex -> Int]]
    BY <1>2, <1>3, <1>5
  <2> QED
    BY <1>2, <2>1 DEF MInv, MtxType
<1>9. MutexExclusive'
  <2>1. ASSUME NEW n \in Mutex, NEW u \in Task
        PROVE  holds'[u][n] + (IF Given(u, n)' THEN 1 ELSE 0)
                 = holds[u][n] + (IF Given(u, n) THEN 1 ELSE 0)
    <3>1. CASE u = t /\ n = m /\ os.PendStatus[t] = "OK"
      <4>1. Given(u, n) /\ ~Given(u, n)'
        BY <1>6, <3>1
      <4>2. holds'[u][n] = holds[u][n] + 1 /\ holds[u][n] \in Int
        BY <1>2, <1>5, <3>1
      <4> QED
        BY <4>1, <4>2
    <3>2. CASE ~(u = t /\ n = m /\ os.PendStatus[t] = "OK")
      <4>1. Given(u, n)' <=> Given(u, n)
        BY <1>6, <1>7, <3>2
      <4>2. holds'[u][n] = holds[u][n]
        BY <1>2, <1>3, <1>5, <3>2
      <4> QED
        BY <4>1, <4>2
    <3> QED
      BY <3>1, <3>2
  <2> QED
    BY <1>2, <2>1 DEF MInv, MutexExclusive
<1>10. OwnerOK' /\ WaitedFor'
  BY <1>2, <1>4 DEF MInv, OwnerOK, WaitedFor
<1> QED
  BY <1>4, <1>8, <1>9, <1>10 DEF MInv

\* Task t hands mutex m over to h, the most urgent of its waiters, and falls back to
\* the priority it came with.
Hands(t, m, h) ==
  /\ h # t /\ m \in os.PendData[h] /\ os.TaskState[h] # "DEL" /\ h \notin Creating
  /\ pc[h] \in InPend /\ arg[h] = m /\ os.PendOn[h] = "MUTEX"
  /\ os'.Prio = [os.Prio EXCEPT ![t] = mtx[m].OwnerOriginalPrio]
  /\ \A u \in Task : m \in os.PendData[u] => os'.Prio[h] <= os'.Prio[u]
  /\ os'.TaskState = [os.TaskState EXCEPT ![h] = IF os.TaskState[h] \in Suspended
                                                 THEN "SUSPENDED" ELSE "RDY"]
  /\ os'.PendOn = [os.PendOn EXCEPT ![h] = "NOTHING"]
  /\ os'.PendStatus = [os.PendStatus EXCEPT ![h] = "OK"]
  /\ \A u \in Task : os'.PendData[u] = IF u = h THEN {} ELSE os.PendData[u]
  /\ Creating' = Creating /\ (\E l \in {"app", "sched"} : pc' = [pc EXCEPT ![t] = l]) /\ arg' = arg
  /\ mtx' = [mtx EXCEPT ![m] = [OwnerTCBPtr |-> h, OwnerNestingCtr |-> 1,
                                OwnerOriginalPrio |-> os.Prio[h]]]
  /\ mtx[m].OwnerTCBPtr = t /\ mtx[m].OwnerNestingCtr = 1
  /\ holds' = [holds EXCEPT ![t] = [holds[t] EXCEPT ![m] = holds[t][m] - 1]]

\* The last OSMutexPost of a mutex that somebody waits for.
LEMMA PostHands ==
  ASSUME MInv, NEW t, NEW m \in Mutex, NEW opt, OSMutexPost(t, m, opt),
         mtx[m].OwnerNestingCtr = 1, os.PendList[m] # <<>>
  PROVE  t \in Task /\ BaseInv' /\ \E h \in Task : Hands(t, m, h)
<1>1. /\ t \in Task /\ t = cur /\ os.OSRunning /\ pc[t] = "app"
      /\ os.TaskState[t] = "RDY" /\ t \notin Creating /\ mtx[m].OwnerTCBPtr = t
  BY MutexCaller DEF MInv, OSMutexPost
<1>2. PICK p : p = mtx[m].OwnerOriginalPrio
  OBVIOUS
<1>3. p \in Prio
  BY <1>1, <1>2 DEF MInv, OwnerOK
<1>4. PICK o : o = Restore(os, t, p)
  OBVIOUS
<1>5. /\ Like(os, o) /\ Fit({"MUTEX"}, o) /\ o.Prio = [os.Prio EXCEPT ![t] = p] /\ SamePend(os, o)
  BY <1>1, <1>3, <1>4, RestoreFit DEF MInv
<1>6. (1 - 1) % NestMod = 0
  BY CoreAssumption
<1>7. PICK h : h = Head(os.PendList[m])
  OBVIOUS
<1>8. PICK l \in {"app", "sched"} :
        /\ mtx' = [mtx EXCEPT ![m] = [OwnerTCBPtr |-> h, OwnerNestingCtr |-> 1,
                                      OwnerOriginalPrio |-> os.Prio[h]]]
        /\ os' = OS_Post(o, m, h, NoMsg) /\ Goto(t, l)
        /\ arg' = arg /\ tickPtr' = tickPtr /\ tmrCtr' = tmrCtr /\ boot' = boot
        /\ Leave(t, m)
  BY <1>2, <1>4, <1>6, <1>7 DEF OSMutexPost, Step
<1>9. /\ o \in KState /\ PendOK(o) /\ WaitSorted(o) /\ m \in Obj /\ o.PendList[m] # <<>>
      /\ o.PendData = os.PendData /\ o.PendList = os.PendList
  BY <1>5, MutexAssumption DEF Fit, OsInv, SamePend
<1>10. /\ h \in Task /\ m \in os.PendData[h]
       /\ \A u \in Task : m \in os.PendData[u] => o.Prio[h] <= o.Prio[u]
  BY <1>7, <1>9, HeadIsHighest
<1>11. EndsWait({"MUTEX"}, o, t, m, h, NoMsg, "OK", l)
  BY <1>1, <1>5, <1>8, <1>10 DEF EndsWait, OS_Post, Goto, StatusSet
<1>12. ObjInv({"MUTEX"}, Mutex)' /\ WaitEnded(o, t, m, h, "OK")
  BY <1>11, MutexKind, ObjEnd DEF MInv, BaseInv
<1>13. /\ arg[h] = m /\ InCall(h) /\ os.PendOn[h] = "MUTEX"
  BY <1>10, MutexKind, ObjWaiter DEF MInv, BaseInv
<1>14. /\ os'.TaskState = [os.TaskState EXCEPT ![h] = IF os.TaskState[h] \in Suspended
                                                      THEN "SUSPENDED" ELSE "RDY"]
       /\ os'.PendOn = [os.PendOn EXCEPT ![h] = "NOTHING"]
       /\ os'.PendStatus = [os.PendStatus EXCEPT ![h] = "OK"]
       /\ os'.Prio = o.Prio
  BY <1>5, <1>12 DEF WaitEnded, Ends, Like, SameCtrs
<1>15. /\ h # t /\ Creating' = Creating
       /\ \A u \in Task : os'.PendData[u] = IF u = h THEN {} ELSE os.PendData[u]
  BY <1>12 DEF WaitEnded
<1>16. pc' = [pc EXCEPT ![t] = l] /\ holds' = [holds EXCEPT ![t] = [holds[t] EXCEPT ![m] = holds[t][m] - 1]]
  BY <1>8 DEF Goto, Leave
<1>17. pc[h] \in InPend /\ os.TaskState[h] # "DEL" /\ h \notin Creating
  BY <1>13 DEF InCall
<1>18. /\ os'.Prio = [os.Prio EXCEPT ![t] = mtx[m].OwnerOriginalPrio]
       /\ \A u \in Task : m \in os.PendData[u] => os'.Prio[h] <= os'.Prio[u]
  BY <1>2, <1>5, <1>10, <1>14
<1>19. Hands(t, m, h)
  BY <1>1, <1>8, <1>10, <1>13, <1>14, <1>15, <1>16, <1>17, <1>18 DEF Hands
<1> QED
  BY <1>1, <1>10, <1>12, <1>19 DEF BaseInv

\* The waiter becomes the owner before it runs.
LEMMA PostHandStep ==
  ASSUME MInv, NEW t, NEW m \in Mutex, NEW opt, OSMutexPost(t, m, opt),
         mtx[m].OwnerNestingCtr = 1, os.PendList[m] # <<>>
  PROVE  MInv'
<1>0. t \in Task /\ BaseInv' /\ \A n : ~Given(t, n)
  BY PostHands, MutexCaller DEF MInv, OSMutexPost
<1>1. PICK h \in Task : Hands(t, m, h)
  BY PostHands
<1> DEFINE r == [OwnerTCBPtr |-> h, OwnerNestingCtr |-> 1, OwnerOriginalPrio |-> os.Prio[h]]
<1>2. /\ os.TaskState \in [Task -> State] /\ os.PendOn \in [Task -> PendOnSet]
      /\ os.PendStatus \in [Task -> StatusSet] /\ pc \in [Task -> PC]
      /\ mtx \in [Mutex -> MtxRec] /\ holds \in [Task -> [Mutex -> Int]] /\ os.Prio \in [Task -> 0 .. PrioMax]
  BY DEF MInv, BaseInv, ObjInv, KInv, KTypeOK, KState, MtxType, MtxRec
<1>3. os.Prio[h] \in Prio
  BY <1>1 DEF Hands, MInv, BaseInv, ObjInv, KInv, OsInv
<1>4. r \in MtxRec /\ mtx' = [mtx EXCEPT ![m] = r]
  BY <1>1, <1>3, CoreAssumption DEF Hands, MtxRec, Prio
<1>5. /\ r.OwnerTCBPtr = h /\ r.OwnerNestingCtr = 1 /\ r.OwnerOriginalPrio = os.Prio[h] /\ h # NoTask
  BY CoreAssumption
<1> HIDE DEF r
<1>6. mtx'[m] = r /\ \A n \in Mutex \ {m} : mtx'[n] = mtx[n]
  BY <1>2, <1>4
<1>7. PICK l \in {"app", "sched"} : pc' = [pc EXCEPT ![t] = l]
  BY <1>1 DEF Hands
<1>8. MtxType'
  <2>1. mtx' \in [Mutex -> MtxRec]
    BY <1>2, <1>4
  <2>2. holds' = [holds EXCEPT ![t] = [holds[t] EXCEPT ![m] = holds[t][m] - 1]]
    BY <1>1 DEF Hands
  <2>3. holds' \in [Task -> [Mutex -> Int]]
    BY <1>0, <1>2, <2>2
  <2> QED
    BY <2>1, <2>3 DEF MtxType, MtxRec
<1>9. \A u \in Task : os'.TaskState[u] = "DEL" <=> os.TaskState[u] = "DEL"
  <2>1. os'.TaskState[h] # "DEL" /\ os.TaskState[h] # "DEL"
    BY <1>1, <1>2 DEF Hands
  <2>2. \A u \in Task \ {h} : os'.TaskState[u] = os.TaskState[u]
    BY <1>1, <1>2 DEF Hands
  <2> QED
    BY <2>1, <2>2
<1>10. OwnerOK'
  <2>1. ASSUME NEW n \in Mutex
        PROVE  /\ mtx'[n].OwnerNestingCtr = 0 <=> mtx'[n].OwnerTCBPtr = NoTask
               /\ mtx'[n].OwnerTCBPtr \in Task => /\ os.TaskState[mtx'[n].OwnerTCBPtr] # "DEL"
                                                 /\ mtx'[n].OwnerTCBPtr \notin Creating
                                                 /\ mtx'[n].OwnerOriginalPrio \in Prio
    <3>1. CASE n = m
      BY <1>1, <1>3, <1>5, <1>6, <3>1 DEF Hands
    <3>2. CASE n # m
      <4>1. mtx'[n] = mtx[n]
        BY <1>6, <3>2
      <4> QED
        BY <4>1 DEF OwnerOK, MInv
    <3> QED
      BY <3>1, <3>2
  <2>2. Creating' = Creating
    BY <1>1 DEF Hands
  <2> QED
    BY <1>9, <2>1, <2>2 DEF OwnerOK
<1>11. WaitedFor'
  <2>1. ASSUME NEW u \in Task, NEW n \in os'.PendData[u]
        PROVE  mtx'[n].OwnerTCBPtr \in Task
    <3>1. n \in os.PendData[u]
      BY <1>1 DEF Hands
    <3>2. n \in Mutex /\ mtx[n].OwnerTCBPtr \in Task
      BY <3>1 DEF MInv, BaseInv, ObjInv, ObjWaits, WaitedFor
    <3> QED
      BY <1>5, <1>6, <3>2
  <2> QED
    BY <2>1 DEF WaitedFor
<1>12. \A u \in Task \ {t, h} : \A n : Given(u, n)' <=> Given(u, n)
  <2>1. ASSUME NEW u \in Task \ {t, h}
        PROVE  \A n : Given(u, n)' <=> Given(u, n)
    <3>1. /\ os'.PendOn[u] = os.PendOn[u] /\ os'.PendStatus[u] = os.PendStatus[u]
          /\ pc'[u] = pc[u] /\ arg'[u] = arg[u] /\ Creating' = Creating
      BY <1>1, <1>2, <1>7 DEF Hands
    <3> QED
      BY <1>9, <3>1, GivenSame
  <2> QED
    BY <2>1
<1>13. \A n \in Mutex : (Given(h, n)' <=> n = m) /\ ~Given(h, n)
  <2>1. /\ os'.PendOn[h] = "NOTHING" /\ os'.PendStatus[h] = "OK" /\ pc'[h] = pc[h] /\ arg'[h] = arg[h]
    BY <1>1, <1>2, <1>7 DEF Hands
  <2>2. os'.TaskState[h] # "DEL" /\ h \notin Creating'
    BY <1>1, <1>9 DEF Hands
  <2>3. pc[h] \in {"pend", "ret"} /\ arg[h] = m /\ os.PendOn[h] # "NOTHING"
    BY <1>1 DEF Hands, InPend
  <2> QED
    BY <2>1, <2>2, <2>3 DEF Given
<1>14. \A n : ~Given(t, n)'
  <2>1. pc'[t] \notin {"pend", "ret"}
    BY <1>0, <1>2, <1>7
  <2> QED
    BY <2>1 DEF Given
<1>15. MutexExclusive'
  <2>1. ASSUME NEW n \in Mutex, NEW u \in Task
        PROVE  holds'[u][n] + (IF Given(u, n)' THEN 1 ELSE 0)
                 = IF mtx'[n].OwnerTCBPtr = u THEN mtx'[n].OwnerNestingCtr ELSE 0
    <3>1. /\ holds[u][n] + (IF Given(u, n) THEN 1 ELSE 0)
               = IF mtx[n].OwnerTCBPtr = u THEN mtx[n].OwnerNestingCtr ELSE 0
          /\ holds[u][n] \in Int
      BY <1>2 DEF MInv, MutexExclusive
    <3>2. mtx[m].OwnerTCBPtr = t /\ mtx[m].OwnerNestingCtr = 1 /\ h # t
      BY <1>1 DEF Hands
    <3>3. holds'[u][n] = IF u = t /\ n = m THEN holds[u][n] - 1 ELSE holds[u][n]
      BY <1>0, <1>1, <1>2 DEF Hands
    <3>4. CASE n = m /\ u = t
      BY <1>0, <1>5, <1>6, <1>14, <3>1, <3>2, <3>3, <3>4
    <3>5. CASE n = m /\ u = h
      BY <1>5, <1>6, <1>13, <3>1, <3>2, <3>3, <3>5
    <3>6. CASE n = m /\ u \notin {t, h}
      BY <1>5, <1>6, <1>12, <3>1, <3>2, <3>3, <3>6
    <3>7. CASE n # m
      <4>1. mtx'[n] = mtx[n]
        BY <1>6, <3>7
      <4>2. Given(u, n)' <=> Given(u, n)
        BY <1>0, <1>12, <1>13, <1>14, <3>7
      <4> QED
        BY <3>1, <3>3, <3>7, <4>1, <4>2
    <3> QED
      BY <3>4, <3>5, <3>6, <3>7
  <2> QED
    BY <2>1 DEF MutexExclusive
<1> QED
  BY <1>0, <1>8, <1>10, <1>11, <1>15 DEF MInv

\* No task deletes another, nor aborts another's wait for its semaphore.
NoDel == \A v \in Task : Calls[v] \cap {"del", "semabort"} = {}

\* A step of the kernel, also the tick interrupt, changes no ownership.
LEMMA KernelMutex ==
  ASSUME Hazard = {}, NoDel, MInv, KNext, mtx' = mtx, holds' = holds
  PROVE  MInv' /\ \A u \in Task : Steady(os, os', u)
<1>1. /\ BaseInv' /\ CallsKept /\ \A u \in Task : os'.PendData[u] \subseteq os.PendData[u]
  <2>1. \A t \in Task : "semabort" \notin Calls[t]
    BY DEF NoDel
  <2> QED
    BY <2>1, MutexKind, ObjKernel DEF MInv, BaseInv
<1>2. /\ KInv /\ PendOK(os) /\ \A v \in Task : pc[v] # "abort"
  BY DEF MInv, BaseInv, ObjInv
<1>3. \A u \in Task : Steady(os, os', u)
  BY <1>2, KNextSteady DEF NoDel
<1>4. NoneReborn
  BY <1>2, KNextBorn
<1>5. \A u \in Task : os.TaskState[u] # "DEL" => os'.TaskState[u] # "DEL"
  BY <1>3 DEF Steady
<1>6. ASSUME NEW u \in Task, NEW n \in Mutex
      PROVE  Given(u, n)' <=> Given(u, n)
  <2>1. /\ Given(u, n) <=> /\ InCall(u) /\ arg[u] = n
                           /\ os.PendOn[u] = "NOTHING" /\ os.PendStatus[u] = "OK"
        /\ Given(u, n)' <=> /\ InCall(u)' /\ arg'[u] = n
                            /\ os'.PendOn[u] = "NOTHING" /\ os'.PendStatus[u] = "OK"
    <3>1. n # NoTask
      BY MutexAssumption
    <3> QED
      BY <3>1 DEF Given, InCall, InPend
  <2>2. Kept(u)
    BY <1>1 DEF CallsKept
  <2>3. InCall(u) => os'.TaskState[u] # "DEL"
    BY <1>5 DEF InCall
  <2> QED
    BY <2>1, <2>2, <2>3 DEF Kept
<1>7. MutexExclusive' /\ MtxType'
  BY <1>6 DEF MInv, MutexExclusive, MtxType
<1>8. OwnerOK'
  BY <1>4, <1>5 DEF MInv, OwnerOK, NoneReborn
<1>9. WaitedFor'
  BY <1>1 DEF MInv, WaitedFor
<1> QED
  BY <1>1, <1>3, <1>7, <1>8, <1>9 DEF MInv

\* The invariant holds initially.
LEMMA MutexInit ==
  ASSUME MInit
  PROVE  MInv
<1>1. BaseInv /\ \A t \in Task : os.PendData[t] = {} /\ ~InCall(t)
  BY ObjInit DEF MInit, BaseInv
<1>2. /\ mtx = [m \in Mutex |-> [OwnerTCBPtr |-> NoTask, OwnerNestingCtr |-> 0, OwnerOriginalPrio |-> PrioMax]]
      /\ holds = [t \in Task |-> [m \in Mutex |-> 0]] /\ NoTask \notin Task
  BY CoreAssumption DEF MInit
<1>3. MtxType
  BY <1>2, CoreAssumption DEF MtxType
<1>4. OwnerOK
  BY <1>2 DEF OwnerOK
<1>5. MutexExclusive
  <2>1. \A t \in Task, m \in Mutex : ~Given(t, m)
    BY <1>1, MutexAssumption DEF Given, InCall, InPend
  <2> QED
    BY <1>2, <2>1 DEF MutexExclusive
<1> QED
  BY <1>1, <1>3, <1>4, <1>5 DEF MInv, WaitedFor

\* Every step keeps it.
LEMMA MInvInductive ==
  ASSUME Hazard = {}, NoDel, NestBound < NestMod, MInv, [MNext]_mvars
  PROVE  MInv'
<1>1. ASSUME NEW t \in Task, NEW m \in Mutex, NEW opt, OSMutexPost(t, m, opt)
      PROVE  MInv'
  BY <1>1, PostKeepStep, PostHandStep
<1>2. ASSUME NEW t \in Task, MutexStep(t)
      PROVE  MInv'
  BY <1>1, <1>2, PendFreeStep, PendNestedStep, PendWaitStep, MutexReturnStep DEF MutexStep
<1>3. CASE UNCHANGED mvars
  <2>1. /\ UNCHANGED kvars /\ os' = os /\ pc' = pc /\ arg' = arg /\ mtx' = mtx /\ holds' = holds
        /\ Creating' = Creating
    BY <1>3 DEF mvars, kvars, Creating
  <2>2. BaseInv'
    BY <2>1, ObjStutter DEF MInv, BaseInv
  <2>3. MutexExclusive'
    BY <2>1 DEF MInv, MutexExclusive, Given
  <2> QED
    BY <2>1, <2>2, <2>3 DEF MInv, MtxType, OwnerOK, WaitedFor
<1> QED
  BY <1>2, <1>3, KernelMutex DEF MNext

\* Mutual exclusion: a task between a successful OSMutexPend and its OSMutexPost is
\* the recorded owner, at the recorded depth, and no other task is inside; for any
\* number of tasks and mutexes, with timeouts, suspensions, changes of priority and
\* the tick interrupt at every step.  Assumed: nobody deletes tasks, and the nesting
\* stays below 2^8.
THEOREM MutexMutexExclusive ==
  ASSUME Hazard = {}, \A t \in Task : Calls[t] \cap {"del", "semabort"} = {}, NestBound < NestMod
  PROVE  MSpec => []MutexExclusive
<1>1. MInit => MInv
  BY MutexInit
<1>2. MInv /\ [MNext]_mvars => MInv'
  BY MInvInductive DEF NoDel
<1>3. MInv => MutexExclusive
  BY DEF MInv
<1> QED
  BY <1>1, <1>2, <1>3, PTL DEF MSpec
-----------------------------------------------------------------------------
(* Priority inheritance, for one mutex and tasks whose priorities nobody sets. *)

OneMutex == \A m, n \in Mutex : m = n

\* The owner is at least as urgent as those that wait.
Inherit == \A u \in Task : \A m \in os.PendData[u] : os.Prio[mtx[m].OwnerTCBPtr] <= os.Prio[u]

\* A service that leaves the kernel data alone changes the owner of a mutex only if
\* nobody waits for it: it takes it free, or leaves it free.
Silent(t, m) ==
  /\ os' = os /\ mtx[m].OwnerTCBPtr \in {t, NoTask} /\ mtx'[m].OwnerTCBPtr \in {t, NoTask}
  /\ \A n \in Mutex \ {m} : mtx'[n] = mtx[n]
  /\ mtx[m].OwnerTCBPtr # mtx'[m].OwnerTCBPtr => \A u \in Task : m \notin os.PendData[u]
  /\ mtx'[m].OwnerTCBPtr = t /\ mtx[m].OwnerTCBPtr = t =>
       mtx'[m].OwnerOriginalPrio = mtx[m].OwnerOriginalPrio
  /\ mtx'[m].OwnerTCBPtr = t /\ mtx[m].OwnerTCBPtr = NoTask => mtx'[m].OwnerOriginalPrio = os.Prio[t]

\* Those services.
LEMMA SilentSteps ==
  ASSUME Hazard = {}, MInv, NEW t \in Task, NEW m \in Mutex,
         \/ OSMutexPendFree(t, m) \/ OSMutexPendNested(t, m)
         \/ \E opt : /\ OSMutexPost(t, m, opt)
                     /\ mtx[m].OwnerNestingCtr # 1 \/ os.PendList[m] = <<>>
  PROVE  Silent(t, m)
<1>1. mtx \in [Mutex -> MtxRec] /\ t # NoTask
  BY CoreAssumption DEF MInv, MtxType, MtxRec
<1>2. CASE OSMutexPendFree(t, m)
  <2>1. /\ os' = os /\ mtx[m].OwnerNestingCtr = 0
        /\ mtx' = [mtx EXCEPT ![m] = [OwnerTCBPtr |-> t, OwnerNestingCtr |-> 1,
                                      OwnerOriginalPrio |-> os.Prio[t]]]
    BY <1>2 DEF OSMutexPendFree, kvars
  <2>2. mtx[m].OwnerTCBPtr = NoTask
    BY <2>1 DEF MInv, OwnerOK
  <2>3. \A u \in Task : m \notin os.PendData[u]
    BY <2>2, CoreAssumption DEF MInv, WaitedFor
  <2>4. /\ mtx'[m].OwnerTCBPtr = t /\ mtx'[m].OwnerOriginalPrio = os.Prio[t]
        /\ \A n \in Mutex \ {m} : mtx'[n] = mtx[n]
    BY <1>1, <2>1
  <2> QED
    BY <1>1, <2>1, <2>2, <2>3, <2>4 DEF Silent
<1>3. CASE OSMutexPendNested(t, m)
  <2>1. /\ os' = os /\ mtx[m].OwnerTCBPtr = t
        /\ mtx' = [mtx EXCEPT ![m].OwnerNestingCtr = (mtx[m].OwnerNestingCtr + 1) % NestMod]
    BY <1>3 DEF OSMutexPendNested, kvars
  <2>2. /\ mtx'[m].OwnerTCBPtr = t /\ mtx'[m].OwnerOriginalPrio = mtx[m].OwnerOriginalPrio
        /\ \A n \in Mutex \ {m} : mtx'[n] = mtx[n]
    BY <1>1, <2>1 DEF MtxRec
  <2> QED
    BY <1>1, <2>1, <2>2 DEF Silent
<1>4. ASSUME NEW opt, OSMutexPost(t, m, opt), mtx[m].OwnerNestingCtr # 1 \/ os.PendList[m] = <<>>
      PROVE  Silent(t, m)
  <2>1. os' = os /\ mtx[m].OwnerTCBPtr = t
    BY <1>4, PostKeepStep DEF kvars, OSMutexPost
  <2>2. mtx[m].OwnerNestingCtr \in 1 .. NestMod - 1
    BY <2>1, OwnedRec
  <2>3. /\ (mtx[m].OwnerNestingCtr - 1) % NestMod = mtx[m].OwnerNestingCtr - 1
        /\ (mtx[m].OwnerNestingCtr - 1 = 0 <=> mtx[m].OwnerNestingCtr = 1)
    <3>1. PICK c \in 1 .. NestMod - 1 : c = mtx[m].OwnerNestingCtr
      BY <2>2
    <3>2. (c - 1) % NestMod = c - 1 /\ (c - 1 = 0 <=> c = 1)
      BY <3>1, CoreAssumption
    <3> QED
      BY <3>1, <3>2
  <2>4. \/ mtx' = [mtx EXCEPT ![m].OwnerNestingCtr = mtx[m].OwnerNestingCtr - 1]
        \/ /\ os.PendList[m] = <<>>
           /\ mtx' = [mtx EXCEPT ![m].OwnerNestingCtr = 0, ![m].OwnerTCBPtr = NoTask]
    BY <1>4, <2>3 DEF OSMutexPost
  <2>5. CASE mtx' = [mtx EXCEPT ![m].OwnerNestingCtr = mtx[m].OwnerNestingCtr - 1]
    <3>1. /\ mtx'[m].OwnerTCBPtr = t /\ mtx'[m].OwnerOriginalPrio = mtx[m].OwnerOriginalPrio
          /\ \A n \in Mutex \ {m} : mtx'[n] = mtx[n]
      BY <1>1, <2>1, <2>5 DEF MtxRec
    <3> QED
      BY <1>1, <2>1, <3>1 DEF Silent
  <2>6. CASE /\ os.PendList[m] = <<>>
             /\ mtx' = [mtx EXCEPT ![m].OwnerNestingCtr = 0, ![m].OwnerTCBPtr = NoTask]
    <3>1. mtx'[m].OwnerTCBPtr = NoTask /\ \A n \in Mutex \ {m} : mtx'[n] = mtx[n]
      BY <1>1, <2>6 DEF MtxRec
    <3>2. \A u \in Task : m \notin os.PendData[u]
      <4>1. os \in KState /\ PendOK(os) /\ m \in Obj
        BY MutexAssumption DEF MInv, BaseInv, ObjInv, KInv, OsInv
      <4> QED
        BY <2>6, <4>1, ListHasWaiter
    <3> QED
      BY <1>1, <2>1, <3>1, <3>2 DEF Silent
  <2> QED
    BY <2>4, <2>5, <2>6
<1> QED
  BY <1>2, <1>3, <1>4

\* Every step keeps the inheritance.
LEMMA InheritStep ==
  ASSUME Hazard = {}, NoDel, FixedPrios, OneMutex, MInv, Inherit, [MNext]_mvars
  PROVE  Inherit'
<1>0. /\ os.Prio \in [Task -> Int] /\ os.PendData \in [Task -> SUBSET Obj]
      /\ \A u \in Task : \A m \in os.PendData[u] : m \in Mutex /\ os.TaskState[u] # "DEL"
  <2>1. os \in KState
    BY DEF MInv, BaseInv, ObjInv, KInv, OsInv
  <2>2. os.PendData \in [Task -> SUBSET Obj]
    BY <2>1 DEF KState
  <2>3. \A u \in Task : \A m \in os.PendData[u] : m \in Mutex /\ os.TaskState[u] # "DEL"
    BY DEF MInv, BaseInv, ObjInv, ObjWaits, PendOK, Pending
  <2> QED
    BY <2>1, <2>2, <2>3, PrioTypes
<1>1. ASSUME KNext, mtx' = mtx, holds' = holds
      PROVE  Inherit'
  <2>1. \A u \in Task : Steady(os, os', u)
    BY <1>1, KernelMutex
  <2>2. ASSUME NEW u \in Task, NEW m \in os'.PendData[u]
        PROVE  os'.Prio[mtx'[m].OwnerTCBPtr] <= os'.Prio[u]
    <3>1. m \in os.PendData[u] /\ os.TaskState[u] # "DEL" /\ m \in Mutex
      BY <1>0, <2>1, <2>2 DEF Steady
    <3>2. PICK w : w = mtx[m].OwnerTCBPtr
      OBVIOUS
    <3>3. w \in Task /\ os.TaskState[w] # "DEL"
      BY <3>1, <3>2 DEF MInv, WaitedFor, OwnerOK
    <3>4. os'.Prio[w] = os.Prio[w] /\ os'.Prio[u] = os.Prio[u]
      BY <2>1, <3>1, <3>3 DEF Steady
    <3> QED
      BY <1>1, <3>1, <3>2, <3>4 DEF Inherit
  <2> QED
    BY <2>2 DEF Inherit
<1>2. ASSUME NEW t \in Task, NEW m \in Mutex, Silent(t, m)
      PROVE  Inherit'
  <2>1. ASSUME NEW u \in Task, NEW n \in os.PendData[u]
        PROVE  mtx'[n].OwnerTCBPtr = mtx[n].OwnerTCBPtr
    BY <1>0, <1>2, <2>1 DEF Silent
  <2> QED
    BY <1>2, <2>1 DEF Inherit, Silent
<1>3. ASSUME NEW t \in Task, NEW m \in Mutex, NEW d \in Timeouts \cup {0}, OSMutexPendWait(t, m, d)
      PROVE  Inherit'
  <2>1. PICK o : \E w \in Task : Lends(o, w, t, m, d)
    BY <1>3, PendWaitLends
  <2>2. PICK w \in Task : Lends(o, w, t, m, d)
    BY <2>1
  <2>3. /\ mtx' = mtx /\ w = mtx[m].OwnerTCBPtr /\ w # t
        /\ \/ os'.Prio = os.Prio /\ os.Prio[w] <= os.Prio[t]
           \/ os'.Prio = [os.Prio EXCEPT ![w] = os.Prio[t]] /\ os.Prio[t] < os.Prio[w]
        /\ os'.PendData = [os.PendData EXCEPT ![t] = {m}]
    <3>1. m # NoObj
      BY MutexAssumption, CoreAssumption
    <3> QED
      BY <1>3, <2>2, <3>1 DEF Lends, Blocks, Like, OSMutexPendWait
  <2>4. ASSUME NEW u \in Task, NEW n \in os'.PendData[u]
        PROVE  os'.Prio[mtx'[n].OwnerTCBPtr] <= os'.Prio[u]
    <3>1. n = m /\ (u # t => m \in os.PendData[u])
      BY <1>0, <2>3, <2>4 DEF OneMutex
    <3>2. u # t => os.Prio[w] <= os.Prio[u]
      BY <2>3, <3>1 DEF Inherit
    <3>3. CASE os'.Prio = os.Prio /\ os.Prio[w] <= os.Prio[t]
      BY <2>3, <3>1, <3>2, <3>3
    <3>4. CASE os'.Prio = [os.Prio EXCEPT ![w] = os.Prio[t]] /\ os.Prio[t] < os.Prio[w]
      <4>1. /\ os'.Prio[w] = os.Prio[t] /\ (u # w => os'.Prio[u] = os.Prio[u])
            /\ os.Prio[u] \in Int /\ os.Prio[w] \in Int /\ os.Prio[t] \in Int
        BY <1>0, <3>4
      <4> QED
        BY <2>3, <3>1, <3>2, <3>4, <4>1
    <3> QED
      BY <2>3, <3>3, <3>4
  <2> QED
    BY <2>4 DEF Inherit
<1>4. ASSUME NEW t \in Task, NEW m \in Mutex, NEW opt, OSMutexPost(t, m, opt),
             mtx[m].OwnerNestingCtr = 1, os.PendList[m] # <<>>
      PROVE  Inherit'
  <2>1. PICK h \in Task : Hands(t, m, h)
    BY <1>4, PostHands
  <2>2. mtx'[m].OwnerTCBPtr = h
    BY <2>1 DEF Hands, MInv, MtxType
  <2>3. ASSUME NEW u \in Task, NEW n \in os'.PendData[u]
        PROVE  os'.Prio[mtx'[n].OwnerTCBPtr] <= os'.Prio[u]
    <3>1. n \in os.PendData[u]
      BY <2>1, <2>3 DEF Hands
    <3>2. n = m
      BY <1>0, <3>1 DEF OneMutex
    <3> QED
      BY <2>1, <2>2, <3>1, <3>2 DEF Hands
  <2> QED
    BY <2>3 DEF Inherit
<1>5. ASSUME os' = os, mtx' = mtx
      PROVE  Inherit'
  BY <1>5 DEF Inherit
<1>6. ASSUME NEW t \in Task, MutexStep(t)
      PROVE  Inherit'
  <2>1. ASSUME NEW m \in Mutex, NEW opt, OSMutexPost(t, m, opt)
        PROVE  Inherit'
    BY <1>2, <1>4, <2>1, SilentSteps
  <2>2. ASSUME NEW m \in Mutex, OSMutexPendFree(t, m) \/ OSMutexPendNested(t, m)
        PROVE  Inherit'
    BY <1>2, <2>2, SilentSteps
  <2>3. CASE OSMutexPendReturn(t)
    BY <1>5, <2>3 DEF OSMutexPendReturn
  <2> QED
    BY <1>3, <1>6, <2>1, <2>2, <2>3 DEF MutexStep
<1> QED
  BY <1>1, <1>5, <1>6 DEF MNext, mvars

\* Priority inheritance: in every reachable state the owner of the mutex is at least
\* as urgent as every task that waits for it, whatever state the owner is in when a
\* task begins to wait.  Assumed: one mutex (inheritance does not follow a chain of
\* owners), and nobody sets priorities or deletes tasks.
THEOREM MutexOwnerInherits ==
  ASSUME Hazard = {}, \A t \in Task : Calls[t] \cap {"del", "semabort", "chprio"} = {},
         NestBound < NestMod, \A m, n \in Mutex : m = n
  PROVE  MSpec => []OwnerInherits
<1>0. NoDel /\ FixedPrios /\ OneMutex
  BY DEF NoDel, FixedPrios, OneMutex
<1> DEFINE Inv == MInv /\ Inherit
<1>1. MInit => Inv
  <2>1. MInit => \A t \in Task : os.PendData[t] = {}
    BY ObjInit DEF MInit
  <2> QED
    BY <2>1, MutexInit DEF Inherit
<1>2. Inv /\ [MNext]_mvars => Inv'
  BY <1>0, MInvInductive, InheritStep
<1>3. Inv => OwnerInherits
  <2>1. ASSUME Inv, NEW m \in Mutex, NEW t \in Range(os.PendList[m])
        PROVE  os.Prio[mtx[m].OwnerTCBPtr] <= os.Prio[t]
    <3>1. os \in KState /\ PendOK(os) /\ m \in Obj
      BY <2>1, MutexAssumption DEF MInv, BaseInv, ObjInv, KInv, OsInv
    <3>2. t \in Task /\ m \in os.PendData[t]
      BY <3>1, ListHasWaiter
    <3> QED
      BY <2>1, <3>2 DEF Inherit
  <2> QED
    BY <2>1 DEF OwnerInherits
<1> QED
  BY <1>1, <1>2, <1>3, PTL DEF MSpec
-----------------------------------------------------------------------------
(* The end of inheritance, for waits without a timeout. *)

\* A task that has no mutex has its own priority, and so has an owner that nobody
\* waits for; an owner that is waited for remembers its own.  Nobody leaves a pend
\* list by a timeout.
OwnPrio ==
  /\ \A u \in Task : os.TaskState[u] # "DEL" /\ (\A m \in Mutex : mtx[m].OwnerTCBPtr # u)
                       => os.Prio[u] = TaskPrio[u]
  /\ \A m \in Mutex : mtx[m].OwnerTCBPtr \in Task =>
       /\ mtx[m].OwnerOriginalPrio = TaskPrio[mtx[m].OwnerTCBPtr]
       /\ (\A u \in Task : m \notin os.PendData[u])
            => os.Prio[mtx[m].OwnerTCBPtr] = TaskPrio[mtx[m].OwnerTCBPtr]
  /\ \A u \in Task : os.PendData[u] # {} => os.TaskState[u] \notin Timed

\* The kernel keeps this.
LEMMA KernelOwnPrio ==
  ASSUME FixedPrios, MInv, OwnPrio, \A u \in Task : Steady(os, os', u), mtx' = mtx
  PROVE  OwnPrio'
<1>1. ASSUME NEW u \in Task
      PROVE  os'.PendData[u] = os.PendData[u]
  BY DEF Steady, OwnPrio
<1>2. ASSUME NEW u \in Task, os'.TaskState[u] # "DEL", \A m \in Mutex : mtx[m].OwnerTCBPtr # u
      PROVE  os'.Prio[u] = TaskPrio[u]
  BY <1>2 DEF Steady, OwnPrio
<1>3. ASSUME NEW m \in Mutex, mtx[m].OwnerTCBPtr \in Task
      PROVE  /\ mtx[m].OwnerOriginalPrio = TaskPrio[mtx[m].OwnerTCBPtr]
             /\ (\A u \in Task : m \notin os'.PendData[u])
                  => os'.Prio[mtx[m].OwnerTCBPtr] = TaskPrio[mtx[m].OwnerTCBPtr]
  <2>1. os'.Prio[mtx[m].OwnerTCBPtr] = os.Prio[mtx[m].OwnerTCBPtr]
    BY <1>3 DEF Steady, MInv, OwnerOK
  <2> QED
    BY <1>1, <1>3, <2>1 DEF OwnPrio
<1>4. ASSUME NEW u \in Task, os'.PendData[u] # {}
      PROVE  os'.TaskState[u] \notin Timed
  BY <1>1, <1>4 DEF Steady, OwnPrio
<1> QED
  BY <1>2, <1>3, <1>4 DEF OwnPrio

\* A mutex is taken free, or left free, by a task at its own priority.
LEMMA SilentOwnPrio ==
  ASSUME OneMutex, MInv, OwnPrio, NEW t \in Task, NEW m \in Mutex, os.TaskState[t] # "DEL", Silent(t, m)
  PROVE  OwnPrio'
<1>0. t # NoTask /\ NoTask \notin Task /\ \A n \in Mutex : n = m
  BY CoreAssumption DEF OneMutex
<1>1. os' = os
  BY DEF Silent
<1>2. CASE mtx'[m].OwnerTCBPtr = mtx[m].OwnerTCBPtr
  <2>1. \A n \in Mutex : mtx'[n].OwnerTCBPtr = mtx[n].OwnerTCBPtr
    BY <1>0, <1>2
  <2>2. \A n \in Mutex : mtx'[n].OwnerTCBPtr \in Task => mtx'[n].OwnerOriginalPrio = mtx[n].OwnerOriginalPrio
    BY <1>0, <1>2 DEF Silent
  <2> QED
    BY <1>1, <2>1, <2>2 DEF OwnPrio
<1>3. CASE mtx'[m].OwnerTCBPtr # mtx[m].OwnerTCBPtr
  <2>1. os.Prio[t] = TaskPrio[t]
    <3>1. CASE mtx[m].OwnerTCBPtr = t
      BY <1>3, <3>1 DEF OwnPrio, Silent
    <3>2. CASE mtx[m].OwnerTCBPtr # t
      BY <1>0, <3>2 DEF OwnPrio
    <3> QED
      BY <3>1, <3>2
  <2>2. \A u \in Task \ {t} : mtx[m].OwnerTCBPtr # u
    BY <1>0 DEF Silent
  <2>3. mtx'[m].OwnerTCBPtr = t => mtx'[m].OwnerOriginalPrio = os.Prio[t]
    BY <1>3 DEF Silent
  <2>4. mtx'[m].OwnerTCBPtr \in Task => mtx'[m].OwnerTCBPtr = t
    BY <1>0 DEF Silent
  <2>5. ASSUME NEW u \in Task, os.TaskState[u] # "DEL"
        PROVE  os.Prio[u] = TaskPrio[u]
    BY <1>0, <2>1, <2>2, <2>5 DEF OwnPrio
  <2> QED
    BY <1>0, <1>1, <2>1, <2>3, <2>4, <2>5 DEF OwnPrio
<1> QED
  BY <1>2, <1>3

\* A task that begins to wait raises the owner at most.
LEMMA LendsOwnPrio ==
  ASSUME Timeouts \subseteq {0}, OneMutex, MInv, OwnPrio, NEW t \in Task, NEW m \in Mutex,
         NEW d \in Timeouts \cup {0}, os.TaskState[t] # "DEL", NEW o, NEW w \in Task, Lends(o, w, t, m, d),
         mtx' = mtx
  PROVE  OwnPrio'
<1>0. \A n \in Mutex : n = m
  BY DEF OneMutex
<1>1. /\ w = mtx[m].OwnerTCBPtr
      /\ os'.Prio = os.Prio \/ os'.Prio = [os.Prio EXCEPT ![w] = os.Prio[t]]
      /\ os'.PendData = [os.PendData EXCEPT ![t] = {m}]
      /\ os'.TaskState = [os.TaskState EXCEPT ![t] = "PEND"]
  <2>1. m # NoObj /\ d = 0
    BY MutexAssumption, CoreAssumption
  <2>2. ~(d > 0)
    BY <2>1
  <2> QED
    BY <2>1, <2>2 DEF Lends, Blocks, Like
<1>2. os.Prio \in [Task -> 0 .. PrioMax] /\ os.PendData \in [Task -> SUBSET Obj] /\ os.TaskState \in [Task -> State]
  BY DEF MInv, BaseInv, ObjInv, KInv, KTypeOK, KState
<1>3. \A u \in Task \ {w} : os'.Prio[u] = os.Prio[u]
  BY <1>1, <1>2
<1>4. ASSUME NEW u \in Task, os'.TaskState[u] # "DEL", \A n \in Mutex : mtx[n].OwnerTCBPtr # u
      PROVE  os'.Prio[u] = TaskPrio[u]
  <2>1. u # w /\ os.TaskState[u] # "DEL"
    BY <1>1, <1>2, <1>4
  <2> QED
    BY <1>3, <1>4, <2>1 DEF OwnPrio
<1>5. m \in os'.PendData[t]
  BY <1>1, <1>2
<1>6. ASSUME NEW u \in Task, os'.PendData[u] # {}
      PROVE  os'.TaskState[u] \notin Timed
  <2>1. CASE u = t
    BY <1>1, <1>2, <2>1 DEF Timed
  <2>2. CASE u # t
    BY <1>1, <1>2, <1>6, <2>2 DEF OwnPrio
  <2> QED
    BY <2>1, <2>2
<1> QED
  BY <1>0, <1>4, <1>5, <1>6 DEF OwnPrio

\* The task that hands the mutex over gets its own priority back; the next owner had
\* its own as it waited.
LEMMA HandsOwnPrio ==
  ASSUME OneMutex, MInv, OwnPrio, NEW t \in Task, NEW m \in Mutex, NEW h \in Task, Hands(t, m, h)
  PROVE  OwnPrio'
<1>0. \A n \in Mutex : n = m
  BY DEF OneMutex
<1>1. /\ os.Prio \in [Task -> 0 .. PrioMax] /\ os.TaskState \in [Task -> State]
      /\ mtx \in [Mutex -> MtxRec]
  BY DEF MInv, BaseInv, ObjInv, KInv, KTypeOK, KState, MtxType, MtxRec
<1>2. /\ mtx[m].OwnerTCBPtr = t /\ h # t /\ mtx'[m].OwnerTCBPtr = h
      /\ mtx'[m].OwnerOriginalPrio = os.Prio[h]
  BY <1>1 DEF Hands
<1>3. os.Prio[h] = TaskPrio[h]
  BY <1>0, <1>2 DEF Hands, OwnPrio
<1>4. os'.Prio[t] = TaskPrio[t] /\ \A u \in Task \ {t} : os'.Prio[u] = os.Prio[u]
  <2>1. mtx[m].OwnerOriginalPrio = TaskPrio[t]
    BY <1>2 DEF OwnPrio
  <2> QED
    BY <1>1, <2>1 DEF Hands
<1>5. ASSUME NEW u \in Task, os'.TaskState[u] # "DEL"
      PROVE  os'.Prio[u] = TaskPrio[u]
  <2>1. u # h => os.TaskState[u] # "DEL"
    BY <1>1, <1>5 DEF Hands
  <2> QED
    BY <1>0, <1>2, <1>3, <1>4, <2>1 DEF OwnPrio
<1>6. ASSUME NEW u \in Task, os'.PendData[u] # {}
      PROVE  os'.TaskState[u] \notin Timed
  <2>1. u # h /\ os'.PendData[u] = os.PendData[u]
    BY <1>6 DEF Hands
  <2>2. os'.TaskState[u] = os.TaskState[u]
    BY <1>1, <2>1 DEF Hands
  <2> QED
    BY <1>6, <2>1, <2>2 DEF OwnPrio
<1>7. os'.Prio[h] = TaskPrio[h]
  BY <1>2, <1>3, <1>4
<1> QED
  BY <1>0, <1>2, <1>3, <1>5, <1>6, <1>7 DEF OwnPrio

\* Inheritance ends: in every reachable state a task that has no mutex runs at the
\* priority it was created with; the state mutex_restore finds, an owner that keeps
\* the priority of a waiter whose wait timed out, needs the timeout.  Assumed: one
\* mutex, waits without a timeout, nobody sets priorities or deletes tasks.
THEOREM MutexPriorityRestored ==
  ASSUME Hazard = {}, \A t \in Task : Calls[t] \cap {"del", "semabort", "chprio"} = {},
         NestBound < NestMod, \A m, n \in Mutex : m = n, Timeouts \subseteq {0}
  PROVE  MSpec => []PriorityRestored
<1>0. NoDel /\ FixedPrios /\ OneMutex
  BY DEF NoDel, FixedPrios, OneMutex
<1> DEFINE Inv == MInv /\ OwnPrio
<1>1. MInit => Inv
  <2>1. ASSUME MInit PROVE OwnPrio
    <3>1. \A t \in Task : os.PendData[t] = {}
      BY <2>1, ObjInit DEF MInit
    <3>2. \A t \in Task : os.TaskState[t] = "DEL"
      BY <2>1 DEF MInit, KInit, OSInit
    <3>3. \A m \in Mutex : mtx[m].OwnerTCBPtr \notin Task
      BY <2>1, CoreAssumption DEF MInit
    <3> QED
      BY <3>1, <3>2, <3>3 DEF OwnPrio
  <2> QED
    BY <2>1, MutexInit
<1>2. Inv /\ [MNext]_mvars => OwnPrio'
  <2> SUFFICES ASSUME Inv, [MNext]_mvars PROVE OwnPrio'
    OBVIOUS
  <2>1. ASSUME KNext, mtx' = mtx, holds' = holds PROVE OwnPrio'
    BY <1>0, <2>1, KernelMutex, KernelOwnPrio
  <2>2. ASSUME os' = os, mtx' = mtx PROVE OwnPrio'
    BY <2>2 DEF OwnPrio
  <2>3. ASSUME NEW t \in Task, MutexStep(t) PROVE OwnPrio'
    <3>1. ASSUME NEW m \in Mutex, OSMutexPendFree(t, m) \/ OSMutexPendNested(t, m)
          PROVE  OwnPrio'
      <4>1. os.TaskState[t] # "DEL"
        BY <3>1, MutexCaller DEF OSMutexPendFree, OSMutexPendNested, MInv
      <4> QED
        BY <1>0, <3>1, <4>1, SilentSteps, SilentOwnPrio
    <3>2. ASSUME NEW m \in Mutex, NEW d \in Timeouts \cup {0}, OSMutexPendWait(t, m, d)
          PROVE  OwnPrio'
      <4>1. os.TaskState[t] # "DEL" /\ mtx' = mtx
        BY <3>2, MutexCaller DEF OSMutexPendWait, MInv
      <4>2. PICK o : \E w \in Task : Lends(o, w, t, m, d)
        BY <3>2, PendWaitLends
      <4> QED
        BY <1>0, <4>1, <4>2, LendsOwnPrio
    <3>3. ASSUME NEW m \in Mutex, NEW opt, OSMutexPost(t, m, opt)
          PROVE  OwnPrio'
      <4>1. CASE mtx[m].OwnerNestingCtr # 1 \/ os.PendList[m] = <<>>
        <5>1. os.TaskState[t] # "DEL"
          BY <3>3, MutexCaller DEF OSMutexPost, MInv
        <5> QED
          BY <1>0, <3>3, <4>1, <5>1, SilentSteps, SilentOwnPrio
      <4>2. CASE mtx[m].OwnerNestingCtr = 1 /\ os.PendList[m] # <<>>
        <5>1. PICK h \in Task : Hands(t, m, h)
          BY <3>3, <4>2, PostHands
        <5> QED
          BY <1>0, <5>1, HandsOwnPrio
      <4> QED
        BY <4>1, <4>2
    <3>4. CASE OSMutexPendReturn(t)
      BY <2>2, <3>4 DEF OSMutexPendReturn
    <3> QED
      BY <2>3, <3>1, <3>2, <3>3, <3>4 DEF MutexStep
  <2> QED
    BY <2>1, <2>2, <2>3 DEF MNext, mvars
<1>3. Inv /\ [MNext]_mvars => Inv'
  BY <1>0, <1>2, MInvInductive
<1>4. Inv => PriorityRestored
  <2>1. AppTask \subseteq Task
    BY DEF AppTask
  <2> QED
    BY <2>1 DEF OwnPrio, PriorityRestored
<1> QED
  BY <1>1, <1>3, <1>4, PTL DEF MSpec
=============================================================================
