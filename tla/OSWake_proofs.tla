---------------------------- MODULE OSWake_proofs ----------------------------
(***************************************************************************)
(* The services that wake their waiters in a loop.                         *)
(*   Counting semaphores: no post is lost, nobody waits while there is a   *)
(* token, and a token goes to a waiter of the highest priority.            *)
(*   Message queues: nobody waits for a queue, or for its own, with a      *)
(* message in it.                                                          *)
(* All this whatever the kernel, the tick interrupt and the other services *)
(* do meanwhile.                                                           *)
(***************************************************************************)
EXTENDS OSSem, OSQ, OSWait_proofs, FiniteSetTheorems

\* What holds of the kernel and of its waits: tasks wait for their own semaphore or
\* for one semaphore, the one their call is about.
BaseInv == ObjInv({"SEM"}, Sem)

\* The loop over a pend list is the running task's, and as long as the list at
\* most.
LoopInv ==
  /\ wake \in [obj : Sem \cup {NoObj}, n : Nat, msg : {NoMsg}, status : {"OK", "ABORT"},
               opt : SUBSET {"ALL", "NO_SCHED"}]
  /\ \A t \in Task : pc[t] = "wake" => /\ os.OSRunning /\ t = cur
                                       /\ wake.obj \in Sem
                                       /\ wake.n <= Len(os.PendList[wake.obj])
  /\ (\A t \in Task : pc[t] # "wake") => wake = NoWake
  /\ rdy = [t \in Task |-> NoObj]

CtrInv == Ctr \in [Sem -> 0 .. SemMax] /\ NoWaiterWithToken

SInv == BaseInv /\ LoopInv /\ CtrInv

\* Semaphores are objects one waits for in one way.
LEMMA SemKind == ObjKind({"SEM"}, Sem)
BY SemAssumption DEF ObjKind, PendOnSet

\* A waiter of a semaphore is inside OSSemPend.
LEMMA WaiterInCall ==
  ASSUME BaseInv, NEW u \in Task, NEW s \in os.PendData[u]
  PROVE  /\ s \in Sem /\ arg[u] = s /\ InCall(u) /\ os.TaskState[u] \in Pending
         /\ os.PendOn[u] = "SEM"
BY SemKind, ObjWaiter DEF BaseInv
\* Every step of the kernel, also the tick interrupt, keeps the waits in order and
\* leaves the calls of the semaphores alone.
LEMMA KernelBase ==
  ASSUME Hazard = {}, \A t \in Task : "semabort" \notin Calls[t], BaseInv, KNext
  PROVE  /\ BaseInv' /\ CallsKept
         /\ \A u \in Task : /\ os'.PendData[u] \subseteq os.PendData[u]
                            /\ os'.PendData[u] = os.PendData[u] \/ os'.PendOn[u] = "NOTHING"
BY SemKind, ObjKernel DEF BaseInv

\* A step of the kernel keeps the semaphores: it does not come into a loop over a
\* pend list, and lengthens none.
LEMMA KernelSem ==
  ASSUME Hazard = {}, \A t \in Task : "semabort" \notin Calls[t], SInv, KNext,
         wake' = wake, rdy' = rdy, Ctr' = Ctr
  PROVE  SInv'
<1>1. /\ BaseInv /\ BaseInv' /\ CallsKept
      /\ \A u \in Task : os'.PendData[u] \subseteq os.PendData[u]
  BY KernelBase DEF SInv
<1>2. \A t \in Task : pc[t] # "wake" /\ pc'[t] # "wake"
  BY <1>1 DEF CallsKept, SInv, LoopInv
<1>3. LoopInv'
  BY <1>2 DEF SInv, LoopInv
<1>4. os \in KState /\ os' \in KState /\ PendOK(os) /\ PendOK(os')
  BY <1>1 DEF BaseInv, ObjInv, KInv, KTypeOK
<1>5. CtrInv'
  <2>1. ASSUME NEW s \in Sem, os'.PendList[s] # <<>>
        PROVE  os.PendList[s] # <<>>
    BY <1>1, <1>4, <2>1, ListHasWaiter, SemAssumption
  <2> QED
    BY <2>1 DEF SInv, CtrInv, NoWaiterWithToken
<1> QED
  BY <1>1, <1>3, <1>5 DEF SInv

\* The running task is ready: it waits for nothing.
LEMMA RunnerWaitsNot ==
  ASSUME BaseInv, os.OSRunning, NEW t, t = cur, pc[t] \notin {"sched", "pend"}
  PROVE  /\ t \in Task /\ t \notin Creating /\ os.TaskState[t] = "RDY"
         /\ os.PendData[t] = {} /\ os.PendOn[t] = "NOTHING"
BY ObjRunner DEF BaseInv

\* A step of a semaphore service that leaves the kernel data alone.
LEMMA StayBase ==
  ASSUME BaseInv, os.OSRunning, NEW t, t = cur, pc[t] \in {"app", "wake", "ret"}, os' = os,
         NEW l \in {"app", "sched", "wake"}, pc' = [pc EXCEPT ![t] = l],
         \/ arg' = arg /\ pc[t] # "ret"
         \/ arg' = [arg EXCEPT ![t] = NoTask],
         tickPtr' = tickPtr, tmrCtr' = tmrCtr, boot' = boot
  PROVE  BaseInv' /\ Creating' = Creating
BY ObjStay DEF BaseInv

\* OSSemPend stops the running task until a post, an abort or a timeout.
LEMMA PendBase ==
  ASSUME BaseInv, NEW t, NEW s \in Sem, NEW d \in Timeouts \cup {0}, Call(t, "pend"),
         os.OSSchedLockNestingCtr = 0, os' = OS_Pend(os, t, s, "SEM", d), Goto(t, "pend"),
         arg' = [arg EXCEPT ![t] = s], tickPtr' = tickPtr, tmrCtr' = tmrCtr, boot' = boot
  PROVE  BaseInv' /\ Creating' = Creating /\ Blocks(os, os', t, s, "SEM", d)
<1>1. Like(os, os) /\ Fit({"SEM"}, os)
  BY SameLike DEF BaseInv
<1>2. "SEM" \in {"SEM"} /\ "SEM" # "TASK_Q"
  OBVIOUS
<1> QED
  BY <1>1, <1>2, SemKind, ObjPend DEF BaseInv

\* The loop readies the head of the pend list, a task of the highest priority that
\* waits for the semaphore.
LEMMA HeadWaits ==
  ASSUME SInv, NEW t \in Task, pc[t] = "wake", wake.n > 0
  PROVE  \E h \in Task : /\ h = Head(os.PendList[wake.obj]) /\ h = os.PendList[wake.obj][1]
                         /\ os.PendList[wake.obj] # <<>>
                         /\ wake.obj \in Sem /\ wake.obj \in os.PendData[h]
                         /\ \A u \in Task : wake.obj \in os.PendData[u] => os.Prio[h] <= os.Prio[u]
<1>1. /\ wake.obj \in Sem /\ wake.obj \in Obj /\ os \in KState /\ PendOK(os) /\ WaitSorted(os)
      /\ wake.n <= Len(os.PendList[wake.obj]) /\ wake.n \in Nat
  BY SemAssumption DEF SInv, LoopInv, BaseInv, ObjInv, KInv, KTypeOK
<1>2. os.PendList[wake.obj] # <<>>
  BY <1>1
<1> QED
  BY <1>1, <1>2, HeadIsHighest

\* One turn of the loop of OSSemPost or OSSemPendAbort ends the wait of the head.
LEMMA TurnBase ==
  ASSUME SInv, NEW t \in Task, WakeLoop(t), wake.n > 0
  PROVE  \E h \in Task :
           /\ wake.obj \in Sem /\ wake.obj \in os.PendData[h] /\ h # t
           /\ \A u \in Task : wake.obj \in os.PendData[u] => os.Prio[h] <= os.Prio[u]
           /\ Ends(os, os', h, wake.status) /\ BaseInv' /\ Creating' = Creating
           /\ \A u \in Task : os'.PendData[u] = IF u = h THEN {} ELSE os.PendData[u]
           /\ Len(os'.PendList[wake.obj]) = Len(os.PendList[wake.obj]) - 1
           /\ rdy' = rdy /\ Eases(os, os')
<1>1. /\ os.OSRunning /\ t = cur /\ pc[t] = "wake" /\ pc' = pc
      /\ arg' = arg /\ tickPtr' = tickPtr /\ tmrCtr' = tmrCtr /\ boot' = boot
  BY DEF WakeLoop
<1>2. /\ BaseInv /\ wake.status \in StatusSet /\ wake.msg \in Msg \cup {NoMsg}
  BY <1>1 DEF SInv, LoopInv, StatusSet
<1>3. os \in KState /\ PendOK(os) /\ pc \in [Task -> PC]
  BY <1>2 DEF BaseInv, ObjInv, KInv, KTypeOK
<1>4. PICK h \in Task : /\ h = Head(os.PendList[wake.obj]) /\ wake.obj \in Sem
                        /\ wake.obj \in os.PendData[h]
                        /\ \A u \in Task : wake.obj \in os.PendData[u] => os.Prio[h] <= os.Prio[u]
  BY <1>1, HeadWaits
<1>5. PICK s : s = wake.obj
  OBVIOUS
<1>6. s \in Sem /\ s \in Obj /\ s \in os.PendData[h] /\ os.PendOn[h] = "SEM"
  BY <1>2, <1>4, <1>5, WaiterInCall, SemAssumption
<1>7. /\ os' = EndWait(os, s, h, wake.msg, wake.status)
      /\ rdy' = IF os.PendOn[h] = "MULTI" THEN [rdy EXCEPT ![h] = s] ELSE rdy
  BY <1>4, <1>5 DEF WakeLoop
<1>8. pc' = [pc EXCEPT ![t] = "wake"]
  BY <1>1, <1>3
<1>9. Like(os, os) /\ Fit({"SEM"}, os) /\ ObjInv({"SEM"}, Sem)
  BY <1>2, SameLike DEF BaseInv
<1>10. EndsWait({"SEM"}, os, t, s, h, wake.msg, wake.status, "wake")
  BY <1>1, <1>2, <1>4, <1>6, <1>7, <1>8, <1>9 DEF EndsWait
<1>11. BaseInv' /\ WaitEnded(os, t, s, h, wake.status)
  BY <1>9, <1>10, SemKind, ObjEnd DEF BaseInv
<1>12. Len(os'.PendList[s]) = Len(os.PendList[s]) - 1
  <2>1. os.PendList[s] \in Seq(Task)
    BY <1>3, <1>6 DEF KState
  <2>2. h \in Range(os.PendList[s])
    BY <1>3, <1>6, ListHasWaiter
  <2>3. os'.PendList[s] = Unlink(os.PendList[s], h)
    BY <1>6, <1>11, CoreAssumption DEF WaitEnded
  <2> QED
    BY <2>1, <2>2, <2>3, UnlinkShape
<1> QED
  BY <1>4, <1>5, <1>6, <1>7, <1>11, <1>12 DEF WaitEnded

\* A turn of the loop keeps the invariant.
LEMMA TurnSem ==
  ASSUME SInv, NEW t \in Task, WakeLoop(t), wake.n > 0, Ctr' = Ctr
  PROVE  SInv'
<1>1. PICK h \in Task :
           /\ wake.obj \in Sem /\ BaseInv'
           /\ \A u \in Task : os'.PendData[u] = IF u = h THEN {} ELSE os.PendData[u]
           /\ Len(os'.PendList[wake.obj]) = Len(os.PendList[wake.obj]) - 1
           /\ rdy' = rdy /\ Eases(os, os')
  BY TurnBase
<1>2. /\ pc' = pc /\ wake' = [wake EXCEPT !.n = @ - 1] /\ pc[t] = "wake" /\ t = cur /\ os.OSRunning
      /\ \A u \in Task : pc[u] = "wake" => u = t
  BY DEF WakeLoop, SInv, LoopInv
<1>3. /\ os \in KState /\ os' \in KState /\ PendOK(os) /\ PendOK(os') /\ wake.obj \in Obj
  BY <1>1, SemAssumption DEF SInv, BaseInv, ObjInv, KInv, KTypeOK
<1>4. LoopInv'
  <2>1. Len(os.PendList[wake.obj]) \in Nat /\ wake.n <= Len(os.PendList[wake.obj])
    <3>1. os.PendList \in [Obj -> Seq(Task)]
      BY <1>3, PrioTypes
    <3> QED
      BY <1>2, <1>3, <3>1 DEF SInv, LoopInv
  <2>2. /\ wake'.obj = wake.obj /\ wake'.n = wake.n - 1
        /\ wake' \in [obj : Sem \cup {NoObj}, n : Nat, msg : {NoMsg}, status : {"OK", "ABORT"},
                      opt : SUBSET {"ALL", "NO_SCHED"}]
    BY <1>2 DEF SInv, LoopInv
  <2>3. os'.OSRunning /\ os'.OSTCBCurPtr = t
    BY <1>1, <1>2 DEF Eases, cur
  <2> QED
    BY <1>1, <1>2, <2>1, <2>2, <2>3 DEF SInv, LoopInv, cur
<1>5. CtrInv'
  <2>1. ASSUME NEW s \in Sem, os'.PendList[s] # <<>>
        PROVE  os.PendList[s] # <<>>
    BY <1>1, <1>3, <2>1, ListHasWaiter, SemAssumption
  <2> QED
    BY <2>1 DEF SInv, CtrInv, NoWaiterWithToken
<1> QED
  BY <1>1, <1>4, <1>5 DEF SInv

\* So does its end.
LEMMA LoopEndSem ==
  ASSUME SInv, NEW t \in Task, WakeLoop(t), ~(wake.n > 0), Ctr' = Ctr
  PROVE  SInv' /\ Creating' = Creating /\ os' = os /\ wake' = NoWake /\ rdy' = rdy
<1>1. PICK l \in {"app", "sched"} : pc' = [pc EXCEPT ![t] = l]
  BY DEF WakeLoop, Goto
<1>2. /\ os' = os /\ wake' = NoWake /\ rdy' = rdy /\ pc[t] = "wake" /\ t = cur /\ os.OSRunning
      /\ arg' = arg /\ tickPtr' = tickPtr /\ tmrCtr' = tmrCtr /\ boot' = boot
      /\ \A u \in Task : pc[u] = "wake" => u = t
  BY DEF WakeLoop, SInv, LoopInv
<1>3. BaseInv' /\ Creating' = Creating
  BY <1>1, <1>2, StayBase DEF SInv
<1>4. \A u \in Task : pc'[u] # "wake"
  BY <1>1, <1>2 DEF SInv, BaseInv, ObjInv, KInv, KTypeOK
<1>5. LoopInv'
  BY <1>2, <1>4 DEF SInv, LoopInv, NoWake
<1>6. CtrInv'
  BY <1>2 DEF SInv, CtrInv, NoWaiterWithToken
<1> QED
  BY <1>2, <1>3, <1>5, <1>6 DEF SInv

\* The steps of a semaphore service outside of the loop.
LEMMA ServiceSem ==
  ASSUME SInv, os.OSRunning, NEW t, t = cur, pc[t] \in {"app", "ret"}, os' = os,
         NEW l \in {"app", "wake"}, pc' = [pc EXCEPT ![t] = l],
         \/ arg' = arg /\ pc[t] # "ret"
         \/ arg' = [arg EXCEPT ![t] = NoTask],
         tickPtr' = tickPtr, tmrCtr' = tmrCtr, boot' = boot, rdy' = rdy, CtrInv',
         \/ l = "app" /\ wake' = wake
         \/ /\ l = "wake" /\ wake'.obj \in Sem /\ wake'.n <= Len(os.PendList[wake'.obj])
            /\ wake' \in [obj : Sem \cup {NoObj}, n : Nat, msg : {NoMsg}, status : {"OK", "ABORT"},
                          opt : SUBSET {"ALL", "NO_SCHED"}]
  PROVE  SInv' /\ Creating' = Creating /\ wake = NoWake
<1>1. BaseInv' /\ Creating' = Creating
  BY StayBase DEF SInv
<1>2. /\ \A u \in Task : pc[u] # "wake"
      /\ wake = NoWake
  BY DEF SInv, LoopInv
<1>3. t \in Task /\ \A u \in Task : pc'[u] = IF u = t THEN l ELSE pc[u]
  BY DEF SInv, BaseInv, ObjInv, KInv, KTypeOK, cur
<1>4. LoopInv'
  BY <1>2, <1>3 DEF SInv, LoopInv, cur
<1> QED
  BY <1>1, <1>2, <1>4 DEF SInv

\* OSSemPend begins to wait when the counter is 0 only.
LEMMA PendSem ==
  ASSUME SInv, NEW t, NEW s \in Sem, NEW d \in Timeouts \cup {0}, Call(t, "pend"),
         os.OSSchedLockNestingCtr = 0, os' = OS_Pend(os, t, s, "SEM", d), Goto(t, "pend"),
         arg' = [arg EXCEPT ![t] = s], tickPtr' = tickPtr, tmrCtr' = tmrCtr, boot' = boot,
         Ctr[s] = 0, Ctr' = Ctr, wake' = wake, rdy' = rdy
  PROVE  SInv'
<1>1. BaseInv /\ BaseInv' /\ Blocks(os, os', t, s, "SEM", d)
  BY PendBase DEF SInv
<1>2. /\ os \in KState /\ os' \in KState /\ PendOK(os) /\ PendOK(os') /\ t \in Task /\ pc \in [Task -> PC]
  BY <1>1 DEF BaseInv, ObjInv, KInv, KTypeOK, Call, cur
<1>3. \A u \in Task : pc[u] # "wake" /\ pc'[u] # "wake"
  BY <1>2 DEF SInv, LoopInv, Call, Goto
<1>4. LoopInv'
  BY <1>3 DEF SInv, LoopInv
<1>5. CtrInv'
  <2>1. \A u \in Task : os'.PendData[u] \subseteq os.PendData[u] \cup {s}
    <3>1. os.PendData \in [Task -> SUBSET Obj]
      BY <1>2 DEF KState
    <3>2. os'.PendData = [os.PendData EXCEPT ![t] = IF s = NoObj THEN {} ELSE {s}]
      BY <1>1 DEF Blocks
    <3> QED
      BY <1>2, <3>1, <3>2
  <2>2. ASSUME NEW r \in Sem, r # s, os'.PendList[r] # <<>>
        PROVE  os.PendList[r] # <<>>
    BY <1>2, <2>1, <2>2, ListHasWaiter, SemAssumption
  <2> QED
    BY <2>2 DEF SInv, CtrInv, NoWaiterWithToken
<1> QED
  BY <1>1, <1>4, <1>5 DEF SInv

\* The running task calls a service and goes on at l, or stays where it is.
LEMMA CallFrame ==
  ASSUME SInv, NEW t, NEW svc, Call(t, svc)
  PROVE  /\ t \in Task /\ pc[t] = "app" /\ t = cur /\ os.OSRunning
         /\ [pc EXCEPT ![t] = "app"] = pc
         /\ Ctr \in [Sem -> 0 .. SemMax] /\ SemMax \in Nat
         /\ os.PendList \in [Obj -> Seq(Task)]
<1>1. t \in Task /\ pc \in [Task -> PC] /\ os \in KState
  BY DEF Call, SInv, BaseInv, ObjInv, KInv, KTypeOK, cur
<1> QED
  BY <1>1, PrioTypes, CoreAssumption DEF Call, SInv, CtrInv

\* OSSemPend takes a token.
LEMMA TakeSem ==
  ASSUME SInv, NEW t, NEW s \in Sem, Call(t, "pend"), Ctr[s] > 0, Ctr' = [Ctr EXCEPT ![s] = @ - 1],
         UNCHANGED wvars
  PROVE  SInv' /\ Creating' = Creating
<1>1. /\ t \in Task /\ pc[t] = "app" /\ t = cur /\ os.OSRunning /\ pc' = [pc EXCEPT ![t] = "app"]
      /\ Ctr \in [Sem -> 0 .. SemMax] /\ SemMax \in Nat
  BY CallFrame DEF wvars
<1>2. CtrInv'
  <2>1. Ctr' \in [Sem -> 0 .. SemMax]
    BY <1>1
  <2>2. os.PendList[s] = <<>>
    BY <1>1 DEF SInv, CtrInv, NoWaiterWithToken
  <2> QED
    BY <1>1, <2>1, <2>2 DEF SInv, CtrInv, NoWaiterWithToken, wvars
<1> QED
  BY <1>1, <1>2, ServiceSem DEF wvars

\* OSSemPend returns after its wait.
LEMMA PendReturnSem ==
  ASSUME SInv, NEW t, OSSemPendReturn(t)
  PROVE  SInv' /\ Creating' = Creating /\ wake' = wake /\ Ctr' = Ctr /\ os' = os
<1>1. CtrInv'
  BY DEF OSSemPendReturn, SInv, CtrInv, NoWaiterWithToken
<1> QED
  BY <1>1, ServiceSem DEF OSSemPendReturn, Goto

\* OSSemPost counts, or begins its loop.
LEMMA PostSem ==
  ASSUME SInv, NEW t, NEW s \in Sem, NEW opt \in SemOpts, OSSemPost(t, s, opt)
  PROVE  SInv' /\ Creating' = Creating /\ wake = NoWake
<1>1. /\ t \in Task /\ pc[t] = "app" /\ t = cur /\ os.OSRunning
      /\ [pc EXCEPT ![t] = "app"] = pc /\ Call(t, "post")
      /\ Ctr \in [Sem -> 0 .. SemMax] /\ SemMax \in Nat
      /\ os.PendList[s] \in Seq(Task)
  BY CallFrame, SemAssumption DEF OSSemPost
<1>2. CASE os.PendList[s] = <<>>
  <2>1. Ctr[s] < SemMax /\ Ctr' = [Ctr EXCEPT ![s] = @ + 1] /\ wake' = wake /\ pc' = pc
    BY <1>2 DEF OSSemPost
  <2>2. Ctr' \in [Sem -> 0 .. SemMax]
    BY <1>1, <2>1
  <2>3. CtrInv'
    BY <1>1, <1>2, <2>1, <2>2 DEF OSSemPost, SInv, CtrInv, NoWaiterWithToken
  <2> QED
    BY <1>1, <2>1, <2>3, ServiceSem DEF OSSemPost
<1>3. CASE os.PendList[s] # <<>>
  <2>1. PICK n : n = IF "ALL" \in opt THEN Len(os.PendList[s]) ELSE 1
    OBVIOUS
  <2>2. n \in Nat /\ n <= Len(os.PendList[s])
    BY <1>1, <1>3, <2>1
  <2>3. wake' = [NoWake EXCEPT !.obj = s, !.n = n, !.opt = opt] /\ Goto(t, "wake") /\ Ctr' = Ctr
    BY <1>3, <2>1 DEF OSSemPost
  <2>4. /\ wake'.obj = s /\ wake'.n = n
        /\ wake' \in [obj : Sem \cup {NoObj}, n : Nat, msg : {NoMsg}, status : {"OK", "ABORT"},
                      opt : SUBSET {"ALL", "NO_SCHED"}]
    BY <2>2, <2>3, SemAssumption DEF NoWake
  <2>5. CtrInv'
    BY <2>3 DEF OSSemPost, SInv, CtrInv, NoWaiterWithToken
  <2> QED
    BY <1>1, <2>2, <2>3, <2>4, <2>5, ServiceSem DEF OSSemPost, Goto
<1> QED
  BY <1>2, <1>3

\* OSSemPendAbort begins its loop.
LEMMA PendAbortSem ==
  ASSUME SInv, NEW t, NEW s \in Sem, NEW opt \in SemOpts, OSSemPendAbort(t, s, opt)
  PROVE  SInv' /\ Creating' = Creating /\ wake = NoWake
<1>1. /\ t \in Task /\ pc[t] = "app" /\ t = cur /\ os.OSRunning
      /\ os.PendList[s] \in Seq(Task) /\ os.PendList[s] # <<>>
  BY CallFrame, SemAssumption DEF OSSemPendAbort
<1>2. PICK n : n = IF opt = {"ALL"} THEN Len(os.PendList[s]) ELSE 1
  OBVIOUS
<1>3. n \in Nat /\ n <= Len(os.PendList[s])
  BY <1>1, <1>2
<1>4. wake' = [NoWake EXCEPT !.obj = s, !.n = n, !.status = "ABORT", !.opt = opt]
  BY <1>2 DEF OSSemPendAbort
<1>5. /\ wake'.obj = s /\ wake'.n = n
      /\ wake' \in [obj : Sem \cup {NoObj}, n : Nat, msg : {NoMsg}, status : {"OK", "ABORT"},
                    opt : SUBSET {"ALL", "NO_SCHED"}]
  BY <1>3, <1>4, SemAssumption DEF NoWake
<1>6. CtrInv'
  BY DEF OSSemPendAbort, SInv, CtrInv, NoWaiterWithToken
<1> QED
  BY <1>1, <1>3, <1>5, <1>6, ServiceSem DEF OSSemPendAbort, Goto

\* OSSemSet writes the counter while nobody waits.
LEMMA SetSem ==
  ASSUME SInv, NEW t, NEW s \in Sem, NEW n \in 0 .. SemMax, OSSemSet(t, s, n)
  PROVE  SInv' /\ Creating' = Creating
<1>1. /\ t \in Task /\ pc[t] = "app" /\ t = cur /\ os.OSRunning /\ pc' = [pc EXCEPT ![t] = "app"]
      /\ Ctr \in [Sem -> 0 .. SemMax] /\ SemMax \in Nat
  BY CallFrame DEF OSSemSet, wvars
<1>2. os.PendList[s] = <<>>
  BY <1>1 DEF OSSemSet, SInv, CtrInv, NoWaiterWithToken
<1>3. CtrInv'
  <2>1. Ctr' \in [Sem -> 0 .. SemMax]
    BY <1>1 DEF OSSemSet
  <2> QED
    BY <1>1, <1>2, <2>1 DEF OSSemSet, SInv, CtrInv, NoWaiterWithToken, wvars
<1> QED
  BY <1>1, <1>3, ServiceSem DEF OSSemSet, wvars

\* Every step of a semaphore service.
LEMMA SemStepSem ==
  ASSUME SInv, NEW t, SemStep(t)
  PROVE  SInv'
<1>1. ASSUME NEW s \in Sem, NEW d \in Timeouts \cup {0}, NEW block \in BOOLEAN, OSSemPend(t, s, d, block)
      PROVE  SInv'
  <2>1. CASE Ctr[s] > 0 /\ Ctr' = [Ctr EXCEPT ![s] = @ - 1] /\ UNCHANGED <<os, pc, arg>>
    BY <1>1, <2>1, TakeSem DEF OSSemPend, wvars
  <2>2. CASE /\ Ctr[s] = 0 /\ os.OSSchedLockNestingCtr = 0 /\ os' = OS_Pend(os, t, s, "SEM", d)
             /\ Goto(t, "pend") /\ arg' = [arg EXCEPT ![t] = s] /\ Ctr' = Ctr
    BY <1>1, <2>2, PendSem DEF OSSemPend
  <2> QED
    BY <1>1, <2>1, <2>2 DEF OSSemPend
<1>2. ASSUME NEW s \in Sem, NEW opt \in SemOpts, OSSemPost(t, s, opt) \/ OSSemPendAbort(t, s, opt)
      PROVE  SInv'
  BY <1>2, PostSem, PendAbortSem
<1>3. ASSUME NEW s \in Sem, NEW n \in 0 .. SemMax, OSSemSet(t, s, n)
      PROVE  SInv'
  BY <1>3, SetSem
<1>4. CASE OSSemPendReturn(t)
  BY <1>4, PendReturnSem
<1> QED
  BY <1>1, <1>2, <1>3, <1>4 DEF SemStep

\* The invariant holds in the initial state.
LEMMA InitSem == SInit => SInv
<1> SUFFICES ASSUME SInit PROVE SInv
  OBVIOUS
<1>1. KInit /\ wake = NoWake /\ rdy = [t \in Task |-> NoObj] /\ Ctr = SemInit
  BY DEF SInit, WInit
<1>2. pc = [t \in Task |-> "app"]
  BY <1>1 DEF KInit
<1>3. \A t \in Task : os.PendData[t] = {}
  BY <1>1, ObjInit
<1>5. BaseInv
  BY <1>1, ObjInit DEF BaseInv
<1>6. LoopInv
  BY <1>1, <1>2 DEF LoopInv, NoWake
<1>7. CtrInv
  <2>1. os \in KState /\ PendOK(os)
    BY <1>5 DEF BaseInv, ObjInv, KInv, KTypeOK
  <2>2. \A s \in Sem : os.PendList[s] = <<>>
    BY <1>3, <2>1, ListHasWaiter, SemAssumption
  <2> QED
    BY <1>1, <2>2, SemAssumption DEF CtrInv, NoWaiterWithToken
<1> QED
  BY <1>5, <1>6, <1>7 DEF SInv

\* Every step keeps it.
LEMMA SInvInductive ==
  ASSUME Hazard = {}, \A t \in Task : "semabort" \notin Calls[t], SInv, SNext
  PROVE  SInv'
<1>1. CASE KNext /\ UNCHANGED <<wake, rdy, Ctr>>
  BY <1>1, KernelSem
<1>2. ASSUME NEW t \in Task, SemStep(t)
      PROVE  SInv'
  BY <1>2, SemStepSem
<1>3. ASSUME NEW t \in Task, WakeLoop(t), Ctr' = Ctr
      PROVE  SInv'
  BY <1>3, TurnSem, LoopEndSem
<1> QED
  BY <1>1, <1>2, <1>3 DEF SNext

\* A step of nobody keeps it too.
LEMMA SInvStutter ==
  ASSUME Hazard = {}, SInv, UNCHANGED svars
  PROVE  SInv'
<1>1. UNCHANGED <<os, pc, arg, tickPtr, tmrCtr, boot, wake, rdy, Ctr>>
  BY DEF svars
<1>3. BaseInv'
  BY <1>1, ObjStutter DEF SInv, BaseInv, kvars
<1>4. LoopInv' /\ CtrInv'
  BY <1>1 DEF SInv, LoopInv, cur, CtrInv, NoWaiterWithToken
<1> QED
  BY <1>3, <1>4 DEF SInv

\* OSSemPend, OSSemPost and OSSemPendAbort keep the pend lists and the task states
\* in agreement: what a task waits for agrees with its state, a call that has
\* returned leaves no pend data behind, and each list is in priority order, whatever
\* suspensions, priority changes, deletions, timeouts and ticks come in between.
\* Left out are the ways of calling in Hazard, and OSTaskSemPendAbort, whose second
\* half may end a wait that is not the one it looked at.
THEOREM SemWaitIntegrity ==
  ASSUME Hazard = {}, \A t \in Task : "semabort" \notin Calls[t]
  PROVE  SSpec => []WaitIntegrity
<1>1. SInit => SInv
  BY InitSem
<1>2. SInv /\ [SNext]_svars => SInv'
  BY SInvInductive, SInvStutter
<1>3. SInv => WaitIntegrity
  BY DEF SInv, BaseInv, ObjInv, PendOK, WaitSorted, Sorted, WaitIntegrity, CallInv, CallOK, InPend
<1> QED
  BY <1>1, <1>2, <1>3, PTL DEF SSpec

\* No task waits in OSSemPend while the semaphore's counter is above zero, however
\* posts, OSSemSet, aborts, timeouts and deletions interleave.
THEOREM SemNoWaiterWithToken ==
  ASSUME Hazard = {}, \A t \in Task : "semabort" \notin Calls[t]
  PROVE  SSpec => []NoWaiterWithToken
<1>1. SInit => SInv
  BY InitSem
<1>2. SInv /\ [SNext]_svars => SInv'
  BY SInvInductive, SInvStutter
<1>3. SInv => NoWaiterWithToken
  BY DEF SInv, CtrInv
<1> QED
  BY <1>1, <1>2, <1>3, PTL DEF SSpec
-----------------------------------------------------------------------------
(* The history of the tokens. *)

TokenInv == owed \in [Sem -> Int] /\ TokenConservation

\* Task u has been given a token of s and has not yet returned with it.
Holds(u, s) == InCall(u) /\ arg[u] = s /\ os.PendOn[u] = "NOTHING" /\ os.PendStatus[u] = "OK"

\* The tasks that Granted counts are those that hold a token: none waits for several
\* objects.
LEMMA GrantedHolds ==
  ASSUME SInv, SInv', NEW s \in Sem
  PROVE  /\ Granted(s) \subseteq Task /\ Granted(s)' \subseteq Task
         /\ \A u \in Task : /\ (u \in Granted(s) <=> Holds(u, s))
                            /\ (u \in Granted(s)' <=> Holds(u, s)')
<1>1. s # NoObj /\ s # NoTask
  BY SemAssumption, CoreAssumption
<1>2. \A u \in Task : rdy[u] = NoObj /\ rdy'[u] = NoObj
  BY DEF SInv, LoopInv
<1> QED
  BY <1>1, <1>2 DEF Granted, Holds, InCall, InPend

\* The sets that are counted.
LEMMA GrantedFinite ==
  ASSUME IsFiniteSet(Task), SInv, SInv', NEW s \in Sem
  PROVE  /\ IsFiniteSet(Granted(s)) /\ Cardinality(Granted(s)) \in Nat
         /\ IsFiniteSet(Granted(s)') /\ Cardinality(Granted(s)') \in Nat
         /\ InLoop(s) \in Nat /\ InLoop(s)' \in Nat
         /\ Ctr[s] \in Int /\ Ctr'[s] \in Int
<1>1. Granted(s) \in SUBSET Task /\ Granted(s)' \in SUBSET Task
  BY GrantedHolds
<1>2. IsFiniteSet(Granted(s)) /\ IsFiniteSet(Granted(s)')
  BY <1>1, FS_Subset
<1>3. Cardinality(Granted(s)) \in Nat /\ Cardinality(Granted(s)') \in Nat
  BY <1>2, FS_CardinalityType
<1>4. InLoop(s) \in Nat /\ InLoop(s)' \in Nat
  BY DEF InLoop, SInv, LoopInv
<1>5. Ctr[s] \in Int /\ Ctr'[s] \in Int
  BY DEF SInv, CtrInv
<1> QED
  BY <1>2, <1>3, <1>4, <1>5

\* A step of the kernel takes tokens from deleted tasks only.
LEMMA KernelToken ==
  ASSUME IsFiniteSet(Task), Hazard = {}, \A t \in Task : "semabort" \notin Calls[t],
         SInv, SInv', TokenInv, KNext, TokenGone, UNCHANGED <<wake, rdy, Ctr>>
  PROVE  TokenInv'
<1>1. CallsKept
  BY KernelBase DEF SInv
<1>2. ASSUME NEW s \in Sem
      PROVE  owed'[s] = Ctr'[s] + Cardinality(Granted(s)') + InLoop(s)' /\ owed'[s] \in Int
  <2> DEFINE D == {t \in Granted(s) : os'.TaskState[t] = "DEL"}
  <2>1. ASSUME NEW u \in Task
        PROVE  Holds(u, s)' <=> Holds(u, s) /\ os'.TaskState[u] # "DEL"
    <3>1. Kept(u)
      BY <1>1 DEF CallsKept
    <3> QED
      BY <3>1 DEF Kept, Holds, InCall
  <2>2. Granted(s)' = Granted(s) \ D
    BY <2>1, GrantedHolds
  <2>3. D \subseteq Granted(s) /\ owed'[s] = owed[s] - Cardinality(D)
    BY DEF TokenGone
  <2> HIDE DEF D
  <2>4. /\ IsFiniteSet(Granted(s)) /\ Cardinality(Granted(s)) \in Nat /\ InLoop(s) \in Nat /\ Ctr[s] \in Int
    BY GrantedFinite
  <2>5. Granted(s) \cap D = D
    BY <2>3
  <2>6. Cardinality(Granted(s) \ D) = Cardinality(Granted(s)) - Cardinality(D)
    BY <2>4, <2>5, FS_Difference
  <2>7. Cardinality(D) \in Nat
    BY <2>3, <2>4, FS_Subset, FS_CardinalityType
  <2>8. InLoop(s)' = InLoop(s)
    BY DEF InLoop
  <2>9. owed[s] = Ctr[s] + Cardinality(Granted(s)) + InLoop(s)
    BY DEF TokenInv, TokenConservation
  <2> QED
    BY <2>2, <2>3, <2>4, <2>6, <2>7, <2>8, <2>9
<1>3. owed' \in [Sem -> Int]
  BY <1>2 DEF TokenGone
<1> QED
  BY <1>2, <1>3 DEF TokenInv, TokenConservation

\* The running task, outside of the calls that wait, holds no token and gets none.
LEMMA GrantedSame ==
  ASSUME SInv, NEW t \in Task, pc[t] \notin {"pend", "ret"}, NEW l, l \notin {"pend", "ret"},
         pc' = [pc EXCEPT ![t] = l], arg' = arg, os' = os, rdy' = rdy, Creating' = Creating, NEW s
  PROVE  Granted(s)' = Granted(s)
<1>1. \A u \in Task : pc'[u] \in {"pend", "ret"} <=> pc[u] \in {"pend", "ret"}
  BY DEF SInv, BaseInv, ObjInv, KInv, KTypeOK
<1> QED
  BY <1>1 DEF Granted

\* What is put in or taken out of the counter and the loop is booked.
LEMMA BookToken ==
  ASSUME IsFiniteSet(Task), SInv, SInv', TokenInv, NEW s \in Sem, NEW k \in Int,
         owed' = [owed EXCEPT ![s] = @ + k],
         \A r \in Sem : Granted(r)' = Granted(r),
         Ctr'[s] + InLoop(s)' = Ctr[s] + InLoop(s) + k,
         \A r \in Sem \ {s} : Ctr'[r] = Ctr[r] /\ InLoop(r)' = InLoop(r)
  PROVE  TokenInv'
<1>1. ASSUME NEW r \in Sem
      PROVE  /\ Cardinality(Granted(r)) \in Nat /\ InLoop(r) \in Nat /\ InLoop(r)' \in Nat
             /\ Ctr[r] \in Int /\ Ctr'[r] \in Int
             /\ owed[r] = Ctr[r] + Cardinality(Granted(r)) + InLoop(r)
             /\ owed \in [Sem -> Int]
  BY GrantedFinite DEF TokenInv, TokenConservation
<1>2. owed \in [Sem -> Int]
  BY DEF TokenInv
<1>3. owed' \in [Sem -> Int]
  BY <1>2
<1>4. ASSUME NEW r \in Sem
      PROVE  owed'[r] = Ctr'[r] + Cardinality(Granted(r)') + InLoop(r)'
  <2>1. CASE r = s
    <3>1. owed'[s] = owed[s] + k
      BY <1>2
    <3>2. PICK c \in Nat : c = Cardinality(Granted(s)) /\ c = Cardinality(Granted(s)')
      BY <1>1
    <3>3. owed[s] = Ctr[s] + Cardinality(Granted(s)) + InLoop(s)
      BY DEF TokenInv, TokenConservation
    <3>4. /\ InLoop(s) \in Nat /\ InLoop(s)' \in Nat /\ Ctr[s] \in Int /\ Ctr'[s] \in Int
      BY <1>1
    <3>5. owed'[s] = Ctr'[s] + c + InLoop(s)'
      BY <3>1, <3>2, <3>3, <3>4
    <3> QED
      BY <2>1, <3>2, <3>5
  <2>2. CASE r # s
    BY <1>1, <1>2, <2>2
  <2> QED
    BY <2>1, <2>2
<1> QED
  BY <1>3, <1>4 DEF TokenInv, TokenConservation

\* OSSemPend without a wait.
LEMMA TakeToken ==
  ASSUME IsFiniteSet(Task), SInv, TokenInv, NEW t, NEW s \in Sem, Call(t, "pend"), Ctr[s] > 0,
         Ctr' = [Ctr EXCEPT ![s] = @ - 1], owed' = [owed EXCEPT ![s] = @ - 1], UNCHANGED wvars
  PROVE  TokenInv'
<1>1. SInv' /\ Creating' = Creating
  BY TakeSem
<1>2. /\ t \in Task /\ pc[t] = "app" /\ pc' = [pc EXCEPT ![t] = "app"]
      /\ Ctr \in [Sem -> 0 .. SemMax] /\ SemMax \in Nat /\ owed \in [Sem -> Int]
  BY CallFrame DEF wvars, TokenInv
<1>3. \A r \in Sem : Granted(r)' = Granted(r)
  BY <1>1, <1>2, GrantedSame DEF wvars
<1>4. \A r \in Sem : InLoop(r)' = InLoop(r) /\ InLoop(r) \in Nat
  BY <1>1, GrantedFinite DEF InLoop, wvars
<1>9. PICK k \in Int : k = -1
  OBVIOUS
<1>5. owed' = [owed EXCEPT ![s] = @ + k]
  BY <1>2, <1>9
<1>6. Ctr'[s] = Ctr[s] - 1 /\ Ctr[s] \in Int /\ \A r \in Sem \ {s} : Ctr'[r] = Ctr[r]
  BY <1>2
<1>7. Ctr'[s] + InLoop(s)' = Ctr[s] + InLoop(s) + k
  BY <1>4, <1>6, <1>9
<1> QED
  BY <1>1, <1>3, <1>4, <1>5, <1>6, <1>7, BookToken

\* The wait of OSSemPend begins: a task that waits holds no token.
LEMMA PendToken ==
  ASSUME IsFiniteSet(Task), SInv, TokenInv, NEW t, NEW s \in Sem, NEW d \in Timeouts \cup {0},
         Call(t, "pend"), os.OSSchedLockNestingCtr = 0, os' = OS_Pend(os, t, s, "SEM", d),
         Goto(t, "pend"), arg' = [arg EXCEPT ![t] = s],
         tickPtr' = tickPtr, tmrCtr' = tmrCtr, boot' = boot,
         Ctr[s] = 0, Ctr' = Ctr, wake' = wake, rdy' = rdy, owed' = owed
  PROVE  TokenInv'
<1>1. SInv'
  BY PendSem
<1>2. Creating' = Creating /\ Blocks(os, os', t, s, "SEM", d)
  BY PendBase DEF SInv
<1>3. /\ t \in Task /\ pc[t] = "app" /\ pc \in [Task -> PC] /\ os \in KState
      /\ arg \in [Task -> Task \cup Obj \cup {NoTask, NoObj}]
  BY CallFrame DEF SInv, BaseInv, ObjInv, KInv, KTypeOK
<1>4. /\ os.TaskState \in [Task -> State] /\ os.PendOn \in [Task -> PendOnSet]
      /\ os.PendStatus \in [Task -> StatusSet]
  BY <1>3 DEF KState
<1>5. /\ os'.PendOn[t] = "SEM"
      /\ \A u \in Task \ {t} : /\ os'.TaskState[u] = os.TaskState[u] /\ os'.PendOn[u] = os.PendOn[u]
                               /\ os'.PendStatus[u] = os.PendStatus[u]
                               /\ pc'[u] = pc[u] /\ arg'[u] = arg[u]
  BY <1>2, <1>3, <1>4 DEF Blocks, Goto
<1>6. ASSUME NEW r \in Sem PROVE Granted(r)' = Granted(r)
  <2>1. \A u \in Task \ {t} : Holds(u, r)' <=> Holds(u, r)
    BY <1>2, <1>5 DEF Holds, InCall
  <2>2. ~Holds(t, r) /\ ~Holds(t, r)'
    BY <1>3, <1>5 DEF Holds, InCall, InPend
  <2> QED
    BY <1>1, <2>1, <2>2, GrantedHolds
<1>7. \A r \in Sem : InLoop(r)' = InLoop(r)
  BY DEF InLoop
<1> QED
  BY <1>6, <1>7 DEF TokenInv, TokenConservation

\* OSSemPend returns with the token it was given, if any.
LEMMA PendReturnToken ==
  ASSUME IsFiniteSet(Task), SInv, TokenInv, NEW t, OSSemPendReturn(t)
  PROVE  TokenInv'
<1>1. SInv' /\ Creating' = Creating /\ wake' = wake /\ Ctr' = Ctr /\ os' = os
  BY PendReturnSem
<1>2. /\ t \in Task /\ t \notin Creating /\ os.TaskState[t] = "RDY" /\ os.PendOn[t] = "NOTHING"
      /\ pc[t] = "ret"
  BY RunnerWaitsNot DEF OSSemPendReturn, SInv
<1>3. PICK a \in Sem : a = arg[t]
  BY DEF OSSemPendReturn
<1>4. /\ \A u \in Task : pc'[u] = IF u = t THEN "app" ELSE pc[u]
      /\ \A u \in Task \ {t} : arg'[u] = arg[u]
      /\ owed' = IF os.PendStatus[t] = "OK" THEN [owed EXCEPT ![a] = @ - 1] ELSE owed
      /\ owed \in [Sem -> Int] /\ a # NoTask
  BY <1>2, <1>3, SemAssumption DEF OSSemPendReturn, Goto, SInv, BaseInv, ObjInv, KInv, KTypeOK, TokenInv
<1>5. ASSUME NEW r \in Sem
      PROVE  Granted(r)' = Granted(r) \ {t} /\ (t \in Granted(r) <=> r = a /\ os.PendStatus[t] = "OK")
  <2>1. \A u \in Task \ {t} : Holds(u, r)' <=> Holds(u, r)
    BY <1>1, <1>4 DEF Holds, InCall
  <2>2. ~Holds(t, r)' /\ (Holds(t, r) <=> r = a /\ os.PendStatus[t] = "OK")
    BY <1>2, <1>3, <1>4 DEF Holds, InCall, InPend
  <2> QED
    BY <1>1, <1>2, <2>1, <2>2, GrantedHolds
<1>6. ASSUME NEW r \in Sem
      PROVE  owed'[r] = Ctr'[r] + Cardinality(Granted(r)') + InLoop(r)'
  <2>1. /\ IsFiniteSet(Granted(r)) /\ Cardinality(Granted(r)) \in Nat /\ InLoop(r) \in Nat /\ Ctr[r] \in Int
    BY <1>1, GrantedFinite
  <2>2. InLoop(r)' = InLoop(r)
    BY <1>1 DEF InLoop
  <2>3. owed[r] = Ctr[r] + Cardinality(Granted(r)) + InLoop(r)
    BY DEF TokenInv, TokenConservation
  <2>4. Cardinality(Granted(r)') = IF r = a /\ os.PendStatus[t] = "OK" THEN Cardinality(Granted(r)) - 1
                                                                        ELSE Cardinality(Granted(r))
    BY <1>5, <2>1, FS_RemoveElement
  <2>5. owed'[r] = IF r = a /\ os.PendStatus[t] = "OK" THEN owed[r] - 1 ELSE owed[r]
    BY <1>4
  <2> QED
    BY <1>1, <2>1, <2>2, <2>3, <2>4, <2>5
<1>7. owed' \in [Sem -> Int]
  BY <1>4
<1> QED
  BY <1>6, <1>7 DEF TokenInv, TokenConservation

\* Nothing is in the loop before a service begins one.
LEMMA IdleLoop ==
  ASSUME wake = NoWake, NEW s \in Sem
  PROVE  InLoop(s) = 0
BY SemAssumption, CoreAssumption DEF InLoop, NoWake

\* OSSemPost puts a token into the counter, or one for each task it is to ready
\* into the loop.
LEMMA PostToken ==
  ASSUME IsFiniteSet(Task), SInv, TokenInv, NEW t, NEW s \in Sem, NEW opt \in SemOpts, OSSemPost(t, s, opt)
  PROVE  TokenInv'
<1>1. SInv' /\ Creating' = Creating /\ wake = NoWake
  BY PostSem
<1>2. /\ t \in Task /\ pc[t] = "app" /\ pc = [pc EXCEPT ![t] = "app"]
      /\ Ctr \in [Sem -> 0 .. SemMax] /\ SemMax \in Nat /\ owed \in [Sem -> Int]
      /\ os.PendList[s] \in Seq(Task) /\ s # NoObj
  BY CallFrame, SemAssumption, CoreAssumption DEF OSSemPost, TokenInv
<1>3. \A r \in Sem : InLoop(r) = 0
  BY <1>1, IdleLoop
<1>4. ASSUME NEW r \in Sem PROVE Granted(r)' = Granted(r)
  <2>1. PICK l \in {"app", "wake"} : pc' = [pc EXCEPT ![t] = l]
    BY <1>2 DEF OSSemPost, Goto
  <2> QED
    BY <1>1, <1>2, <2>1, GrantedSame DEF OSSemPost
<1>5. CASE os.PendList[s] = <<>>
  <2>1. Ctr' = [Ctr EXCEPT ![s] = @ + 1] /\ owed' = [owed EXCEPT ![s] = @ + 1] /\ wake' = wake
    BY <1>5 DEF OSSemPost
  <2>2. \A r \in Sem : InLoop(r)' = InLoop(r)
    BY <2>1 DEF InLoop
  <2>3. Ctr'[s] = Ctr[s] + 1 /\ Ctr[s] \in Int /\ \A r \in Sem \ {s} : Ctr'[r] = Ctr[r]
    BY <1>2, <2>1
  <2>4. PICK k \in Int : k = 1
    OBVIOUS
  <2>5. owed' = [owed EXCEPT ![s] = @ + k]
    BY <2>1, <2>4
  <2>6. Ctr'[s] + InLoop(s)' = Ctr[s] + InLoop(s) + k
    BY <1>3, <2>2, <2>3, <2>4
  <2> QED
    BY <1>1, <1>4, <2>2, <2>3, <2>5, <2>6, BookToken
<1>6. CASE os.PendList[s] # <<>>
  <2>1. PICK n : n = IF "ALL" \in opt THEN Len(os.PendList[s]) ELSE 1
    OBVIOUS
  <2>2. n \in Int
    BY <1>2, <2>1
  <2>3. /\ wake' = [NoWake EXCEPT !.obj = s, !.n = n, !.opt = opt] /\ Ctr' = Ctr
        /\ owed' = [owed EXCEPT ![s] = @ + n]
    BY <1>6, <2>1 DEF OSSemPost
  <2>4. wake'.obj = s /\ wake'.n = n /\ wake'.status = "OK"
    BY <2>3 DEF NoWake
  <2>5. InLoop(s)' = n /\ \A r \in Sem \ {s} : InLoop(r)' = InLoop(r)
    BY <1>3, <2>4 DEF InLoop
  <2>6. Ctr'[s] + InLoop(s)' = Ctr[s] + InLoop(s) + n
    BY <1>2, <1>3, <2>2, <2>3, <2>5
  <2> QED
    BY <1>1, <1>4, <2>2, <2>3, <2>5, <2>6, BookToken
<1> QED
  BY <1>5, <1>6

\* OSSemPendAbort hands out no tokens.
LEMMA PendAbortToken ==
  ASSUME IsFiniteSet(Task), SInv, TokenInv, NEW t, NEW s \in Sem, NEW opt \in SemOpts,
         OSSemPendAbort(t, s, opt)
  PROVE  TokenInv'
<1>1. SInv' /\ Creating' = Creating /\ wake = NoWake
  BY PendAbortSem
<1>2. t \in Task /\ pc[t] = "app"
  BY CallFrame DEF OSSemPendAbort
<1>3. \A r \in Sem : Granted(r)' = Granted(r)
  BY <1>1, <1>2, GrantedSame DEF OSSemPendAbort, Goto
<1>4. wake'.status = "ABORT"
  BY DEF OSSemPendAbort, NoWake
<1>5. \A r \in Sem : InLoop(r) = 0
  BY <1>1, IdleLoop
<1>6. \A r \in Sem : InLoop(r)' = 0
  BY <1>4 DEF InLoop
<1> QED
  BY <1>3, <1>5, <1>6 DEF TokenInv, TokenConservation, OSSemPendAbort

\* OSSemSet.
LEMMA SetToken ==
  ASSUME IsFiniteSet(Task), SInv, TokenInv, NEW t, NEW s \in Sem, NEW n \in 0 .. SemMax, OSSemSet(t, s, n)
  PROVE  TokenInv'
<1>1. SInv' /\ Creating' = Creating
  BY SetSem
<1>2. /\ t \in Task /\ pc[t] = "app" /\ pc' = [pc EXCEPT ![t] = "app"]
      /\ Ctr \in [Sem -> 0 .. SemMax] /\ SemMax \in Nat /\ owed \in [Sem -> Int]
  BY CallFrame DEF OSSemSet, wvars, TokenInv
<1>3. \A r \in Sem : Granted(r)' = Granted(r)
  BY <1>1, <1>2, GrantedSame DEF OSSemSet, wvars
<1>4. \A r \in Sem : InLoop(r)' = InLoop(r) /\ InLoop(r) \in Nat
  BY <1>1, GrantedFinite DEF InLoop, OSSemSet, wvars
<1>5. PICK k \in Int : k = n - Ctr[s]
  BY <1>2
<1>6. owed' = [owed EXCEPT ![s] = @ + k]
  BY <1>2, <1>5 DEF OSSemSet
<1>7. Ctr'[s] = n /\ Ctr[s] \in Int /\ \A r \in Sem \ {s} : Ctr'[r] = Ctr[r]
  BY <1>2 DEF OSSemSet
<1>8. Ctr'[s] + InLoop(s)' = Ctr[s] + InLoop(s) + k
  BY <1>4, <1>5, <1>7
<1> QED
  BY <1>1, <1>3, <1>4, <1>6, <1>7, <1>8, BookToken

\* One turn of the loop: a token goes from the loop to the task that is readied.
LEMMA TurnToken ==
  ASSUME IsFiniteSet(Task), SInv, TokenInv, NEW t \in Task, WakeLoop(t), wake.n > 0, UNCHANGED <<Ctr, owed>>
  PROVE  TokenInv'
<1>1. PICK h \in Task : /\ wake.obj \in Sem /\ wake.obj \in os.PendData[h]
                        /\ Ends(os, os', h, wake.status) /\ Creating' = Creating
  BY TurnBase
<1>2. SInv'
  BY TurnSem
<1>3. PICK s \in Sem : s = wake.obj
  BY <1>1
<1>4. arg[h] = s /\ InCall(h) /\ os.PendOn[h] = "SEM"
  BY <1>1, <1>3, WaiterInCall DEF SInv
<1>5. /\ os'.TaskState[h] \in {"RDY", "SUSPENDED"} /\ os'.PendOn[h] = "NOTHING"
      /\ os'.PendStatus[h] = wake.status
      /\ \A u \in Task \ {h} : /\ os'.TaskState[u] = os.TaskState[u] /\ os'.PendOn[u] = os.PendOn[u]
                               /\ os'.PendStatus[u] = os.PendStatus[u]
  BY <1>1, EndsStates DEF SInv, BaseInv, ObjInv, KInv, KTypeOK
<1>6. /\ pc' = pc /\ arg' = arg /\ wake' = [wake EXCEPT !.n = @ - 1]
      /\ wake \in [obj : Sem \cup {NoObj}, n : Nat, msg : {NoMsg}, status : {"OK", "ABORT"},
                   opt : SUBSET {"ALL", "NO_SCHED"}]
  BY DEF WakeLoop, SInv, LoopInv
<1>7. ASSUME NEW r \in Sem
      PROVE  /\ h \notin Granted(r)
             /\ Granted(r)' = IF r = s /\ wake.status = "OK" THEN Granted(r) \cup {h} ELSE Granted(r)
  <2>1. \A u \in Task \ {h} : Holds(u, r)' <=> Holds(u, r)
    BY <1>1, <1>5, <1>6 DEF Holds, InCall
  <2>2. ~Holds(h, r) /\ (Holds(h, r)' <=> r = s /\ wake.status = "OK")
    BY <1>1, <1>4, <1>5, <1>6 DEF Holds, InCall
  <2> QED
    BY <1>2, <2>1, <2>2, GrantedHolds
<1>8. ASSUME NEW r \in Sem
      PROVE  owed[r] = Ctr[r] + Cardinality(Granted(r)') + InLoop(r)'
  <2>1. /\ IsFiniteSet(Granted(r)) /\ Cardinality(Granted(r)) \in Nat /\ InLoop(r) \in Nat /\ Ctr[r] \in Int
    BY <1>2, GrantedFinite
  <2>2. owed[r] = Ctr[r] + Cardinality(Granted(r)) + InLoop(r)
    BY DEF TokenInv, TokenConservation
  <2>3. wake'.obj = s /\ wake'.n = wake.n - 1 /\ wake'.status = wake.status /\ wake.n \in Nat
    BY <1>3, <1>6
  <2>4. CASE r = s /\ wake.status = "OK"
    <3>1. Cardinality(Granted(r)') = Cardinality(Granted(r)) + 1
      BY <1>7, <2>1, <2>4, FS_AddElement
    <3>2. InLoop(r)' = InLoop(r) - 1
      BY <1>3, <2>3, <2>4 DEF InLoop
    <3> QED
      BY <2>1, <2>2, <3>1, <3>2
  <2>5. CASE ~(r = s /\ wake.status = "OK")
    <3>1. InLoop(r)' = InLoop(r)
      BY <1>3, <2>3, <2>5 DEF InLoop
    <3> QED
      BY <1>7, <2>2, <2>5, <3>1
  <2> QED
    BY <2>4, <2>5
<1> QED
  BY <1>8 DEF TokenInv, TokenConservation

\* The end of the loop: it has nothing left to hand out.
LEMMA LoopEndToken ==
  ASSUME IsFiniteSet(Task), SInv, TokenInv, NEW t \in Task, WakeLoop(t), ~(wake.n > 0),
         UNCHANGED <<Ctr, owed>>
  PROVE  TokenInv'
<1>1. SInv' /\ Creating' = Creating /\ os' = os /\ wake' = NoWake /\ rdy' = rdy
  BY LoopEndSem
<1>2. PICK l \in {"app", "sched"} : pc' = [pc EXCEPT ![t] = l]
  BY DEF WakeLoop, Goto
<1>3. \A r \in Sem : Granted(r)' = Granted(r)
  BY <1>1, <1>2, GrantedSame DEF WakeLoop
<1>4. \A r \in Sem : InLoop(r) = 0
  <2>1. wake.n = 0
    BY DEF SInv, LoopInv
  <2> QED
    BY <2>1 DEF InLoop
<1>5. ASSUME NEW r \in Sem PROVE InLoop(r)' = 0
  BY <1>1, SemAssumption, CoreAssumption DEF InLoop, NoWake
<1> QED
  BY <1>3, <1>4, <1>5 DEF TokenInv, TokenConservation

\* Every step keeps the account of the tokens.
LEMMA TokenInductive ==
  ASSUME IsFiniteSet(Task), Hazard = {}, \A t \in Task : "semabort" \notin Calls[t], SInv, TokenInv, SNext
  PROVE  TokenInv'
<1>1. CASE KNext /\ TokenGone /\ UNCHANGED <<wake, rdy, Ctr>>
  BY <1>1, SInvInductive, KernelToken
<1>2. ASSUME NEW t \in Task, SemStep(t)
      PROVE  TokenInv'
  <2>1. ASSUME NEW s \in Sem, NEW d \in Timeouts \cup {0}, NEW block \in BOOLEAN, OSSemPend(t, s, d, block)
        PROVE  TokenInv'
    <3>1. CASE /\ Ctr[s] > 0 /\ Ctr' = [Ctr EXCEPT ![s] = @ - 1]
               /\ owed' = [owed EXCEPT ![s] = @ - 1] /\ UNCHANGED <<os, pc, arg>>
      BY <2>1, <3>1, TakeToken DEF OSSemPend, wvars
    <3>2. CASE /\ Ctr[s] = 0 /\ os.OSSchedLockNestingCtr = 0 /\ os' = OS_Pend(os, t, s, "SEM", d)
               /\ Goto(t, "pend") /\ arg' = [arg EXCEPT ![t] = s] /\ Ctr' = Ctr /\ owed' = owed
      BY <2>1, <3>2, PendToken DEF OSSemPend
    <3> QED
      BY <2>1, <3>1, <3>2 DEF OSSemPend
  <2>2. ASSUME NEW s \in Sem, NEW opt \in SemOpts, OSSemPost(t, s, opt) \/ OSSemPendAbort(t, s, opt)
        PROVE  TokenInv'
    BY <2>2, PostToken, PendAbortToken
  <2>3. ASSUME NEW s \in Sem, NEW n \in 0 .. SemMax, OSSemSet(t, s, n)
        PROVE  TokenInv'
    BY <2>3, SetToken
  <2>4. CASE OSSemPendReturn(t)
    BY <2>4, PendReturnToken
  <2> QED
    BY <1>2, <2>1, <2>2, <2>3, <2>4 DEF SemStep
<1>3. ASSUME NEW t \in Task, WakeLoop(t), UNCHANGED <<Ctr, owed>>
      PROVE  TokenInv'
  BY <1>3, TurnToken, LoopEndToken
<1> QED
  BY <1>1, <1>2, <1>3 DEF SNext

\* No token is lost or made up, for any number of tasks and semaphores: what OSSemPost
\* and OSSemSet put in is in the counter, in the loop of a post, in the hand of a task
\* on its way out of OSSemPend, or taken, also when a timeout, an abort, a suspension
\* or a deletion meets the post.
THEOREM SemTokenConservation ==
  ASSUME IsFiniteSet(Task), Hazard = {}, \A t \in Task : "semabort" \notin Calls[t]
  PROVE  SSpec => []TokenConservation
<1>1. SInit => SInv /\ TokenInv
  <2> SUFFICES ASSUME SInit PROVE SInv /\ TokenInv
    OBVIOUS
  <2>1. SInv /\ wake = NoWake /\ Ctr = SemInit /\ owed = SemInit
    BY InitSem DEF SInit, WInit
  <2>2. ASSUME NEW s \in Sem PROVE Granted(s) = {}
    BY DEF Granted, SInit, WInit, KInit
  <2>3. \A s \in Sem : InLoop(s) = 0 /\ SemInit[s] \in Int
    BY <2>1, IdleLoop, SemAssumption
  <2>4. owed \in [Sem -> Int]
    BY <2>1, SemAssumption
  <2>5. ASSUME NEW s \in Sem PROVE owed[s] = Ctr[s] + Cardinality(Granted(s)) + InLoop(s)
    <3>1. Cardinality(Granted(s)) = 0
      BY <2>2, FS_EmptySet
    <3> QED
      BY <2>1, <2>3, <3>1
  <2> QED
    BY <2>1, <2>4, <2>5 DEF TokenInv, TokenConservation
<1>2. SInv /\ TokenInv /\ [SNext]_svars => SInv' /\ TokenInv'
  <2>1. SInv /\ TokenInv /\ SNext => SInv' /\ TokenInv'
    BY SInvInductive, TokenInductive
  <2>2. SInv /\ TokenInv /\ UNCHANGED svars => SInv' /\ TokenInv'
    <3>1. TokenInv /\ UNCHANGED svars => TokenInv'
      BY DEF TokenInv, TokenConservation, Granted, InLoop, Creating, svars
    <3> QED
      BY <3>1, SInvStutter
  <2> QED
    BY <2>1, <2>2
<1>3. TokenInv => TokenConservation
  BY DEF TokenInv
<1> QED
  BY <1>1, <1>2, <1>3, PTL DEF SSpec
-----------------------------------------------------------------------------
(* Who is woken. *)

\* What PostWakesHighest says of a step.
WakesHighest ==
  \A s \in Sem : \A t \in Range(os.PendList[s]) \ Range(os'.PendList[s]) :
    os'.PendStatus[t] = "OK" /\ os'.TaskState[t] # "DEL"
      => \A u \in Range(os'.PendList[s]) : os.Prio[t] <= os.Prio[u]

\* In terms of the pend data.
LEMMA WakesByData ==
  ASSUME SInv, SInv',
         \A s \in Sem, t \in Task :
           /\ s \in os.PendData[t] /\ s \notin os'.PendData[t]
           /\ os'.PendStatus[t] = "OK" /\ os'.TaskState[t] # "DEL"
           => \A u \in Task : s \in os'.PendData[u] => os.Prio[t] <= os.Prio[u]
  PROVE  WakesHighest
<1>1. os \in KState /\ os' \in KState /\ PendOK(os) /\ PendOK(os')
  BY DEF SInv, BaseInv, ObjInv, KInv, KTypeOK
<1>2. \A s \in Sem : /\ Range(os.PendList[s]) = {u \in Task : s \in os.PendData[u]}
                     /\ Range(os'.PendList[s]) = {u \in Task : s \in os'.PendData[u]}
  BY <1>1, ListHasWaiter, SemAssumption
<1> QED
  BY <1>2 DEF WakesHighest

\* A step of the kernel gives nobody a token.
LEMMA KernelWakes ==
  ASSUME Hazard = {}, \A t \in Task : "semabort" \notin Calls[t], SInv, SInv', KNext
  PROVE  WakesHighest
<1>1. /\ CallsKept
      /\ \A u \in Task : os'.PendData[u] = os.PendData[u] \/ os'.PendOn[u] = "NOTHING"
  BY KernelBase DEF SInv
<1>2. ASSUME NEW s \in Sem, NEW t \in Task, s \in os.PendData[t], s \notin os'.PendData[t],
             os'.TaskState[t] # "DEL"
      PROVE  os'.PendStatus[t] # "OK"
  <2>1. InCall(t) /\ os.PendOn[t] = "SEM" /\ os'.PendOn[t] = "NOTHING"
    BY <1>1, <1>2, WaiterInCall DEF SInv
  <2> QED
    BY <1>1, <1>2, <2>1 DEF CallsKept, Kept
<1> QED
  BY <1>2, WakesByData

\* A turn of the loop wakes the head of the list.
LEMMA TurnWakes ==
  ASSUME SInv, SInv', NEW t \in Task, WakeLoop(t), wake.n > 0
  PROVE  WakesHighest
<1>1. PICK h \in Task :
         /\ wake.obj \in Sem /\ wake.obj \in os.PendData[h]
         /\ \A u \in Task : wake.obj \in os.PendData[u] => os.Prio[h] <= os.Prio[u]
         /\ \A u \in Task : os'.PendData[u] = IF u = h THEN {} ELSE os.PendData[u]
  BY TurnBase
<1>2. ASSUME NEW s \in Sem, NEW c \in Task, s \in os.PendData[c], s \notin os'.PendData[c],
             NEW u \in Task, s \in os'.PendData[u]
      PROVE  os.Prio[c] <= os.Prio[u]
  <2>1. c = h /\ s \in os.PendData[u]
    BY <1>1, <1>2
  <2>2. s = wake.obj
    BY <1>1, <1>2, <2>1, WaiterInCall DEF SInv
  <2> QED
    BY <1>1, <2>1, <2>2
<1> QED
  BY <1>2, WakesByData

\* All other steps end no wait.
LEMMA ServiceWakes ==
  ASSUME SInv, SInv', os' = os \/ \E t, s, on, d : Blocks(os, os', t, s, on, d)
  PROVE  WakesHighest
<1>1. ASSUME NEW u \in Task PROVE os.PendData[u] \subseteq os'.PendData[u]
  <2>1. CASE os' = os
    BY <2>1
  <2>2. ASSUME NEW t, NEW s, NEW on, NEW d, Blocks(os, os', t, s, on, d)
        PROVE  os.PendData[u] \subseteq os'.PendData[u]
    <3>1. os.TaskState[t] = "RDY" /\ os.PendData \in [Task -> SUBSET Obj] /\ PendOK(os)
      BY <2>2 DEF Blocks, SInv, BaseInv, ObjInv, KInv, KTypeOK, KState
    <3>2. u = t => os.PendData[u] = {}
      BY <3>1 DEF PendOK, Pending
    <3>3. u # t => os'.PendData[u] = os.PendData[u]
      BY <2>2, <3>1 DEF Blocks
    <3> QED
      BY <3>2, <3>3
  <2> QED
    BY <2>1, <2>2
<1> QED
  BY <1>1, WakesByData

\* Every step, of the kernel, of a service or of its loop, wakes as promised.
LEMMA StepWakes ==
  ASSUME Hazard = {}, \A t \in Task : "semabort" \notin Calls[t], SInv, SNext
  PROVE  WakesHighest
<1>1. SInv'
  BY SInvInductive
<1>2. CASE KNext
  BY <1>1, <1>2, KernelWakes
<1>3. ASSUME NEW t \in Task, SemStep(t)
      PROVE  WakesHighest
  <2>1. ASSUME NEW s \in Sem, NEW d \in Timeouts \cup {0}, NEW block \in BOOLEAN, OSSemPend(t, s, d, block)
        PROVE  os' = os \/ Blocks(os, os', t, s, "SEM", d)
    <3>1. CASE os' = os
      BY <3>1
    <3>2. CASE /\ os.OSSchedLockNestingCtr = 0 /\ os' = OS_Pend(os, t, s, "SEM", d)
               /\ Goto(t, "pend") /\ arg' = [arg EXCEPT ![t] = s]
      BY <2>1, <3>2, PendBase DEF OSSemPend, SInv
    <3> QED
      BY <2>1, <3>1, <3>2 DEF OSSemPend
  <2>2. ASSUME NEW s \in Sem, NEW opt \in SemOpts, OSSemPost(t, s, opt) \/ OSSemPendAbort(t, s, opt)
        PROVE  os' = os
    BY <2>2 DEF OSSemPost, OSSemPendAbort
  <2>3. ASSUME NEW s \in Sem, NEW n \in 0 .. SemMax, OSSemSet(t, s, n)
        PROVE  os' = os
    BY <2>3 DEF OSSemSet, wvars
  <2>4. OSSemPendReturn(t) => os' = os
    BY DEF OSSemPendReturn
  <2>5. os' = os \/ \E c, s, on, d : Blocks(os, os', c, s, on, d)
    BY <1>3, <2>1, <2>2, <2>3, <2>4 DEF SemStep
  <2> QED
    BY <1>1, <2>5, ServiceWakes
<1>4. ASSUME NEW t \in Task, WakeLoop(t), Ctr' = Ctr
      PROVE  WakesHighest
  <2>1. CASE wake.n > 0
    BY <1>1, <1>4, <2>1, TurnWakes
  <2>2. CASE ~(wake.n > 0)
    <3>1. os' = os
      BY <1>4, <2>2 DEF WakeLoop
    <3> QED
      BY <1>1, <3>1, ServiceWakes
  <2> QED
    BY <2>1, <2>2
<1> QED
  BY <1>2, <1>3, <1>4 DEF SNext

\* OSSemPost gives its token to a waiter of the highest priority: no task that is
\* left in the pend list is more urgent than the one that was readied, also after
\* priority changes of waiting tasks.
THEOREM SemPostWakesHighest ==
  ASSUME Hazard = {}, \A t \in Task : "semabort" \notin Calls[t]
  PROVE  SSpec => PostWakesHighest
<1>1. SInit => SInv
  BY InitSem
<1>2. SInv /\ [SNext]_svars => SInv'
  BY SInvInductive, SInvStutter
<1>3. SInv /\ [SNext]_svars => [WakesHighest]_svars
  BY StepWakes
<1> QED
  BY <1>1, <1>2, <1>3, PTL DEF SSpec, PostWakesHighest, WakesHighest
-----------------------------------------------------------------------------
\* Tasks wait for one queue, the one their call is about, or for their own.
QOn == {"Q", "TASK_Q"}

QBase == ObjInv(QOn, Q)

\* The locals of a loop over the pend list of a queue.
QWakes == [obj : Q \cup {NoObj}, n : Nat, msg : Msg \cup {NoMsg}, status : {"OK", "ABORT"},
           opt : SUBSET {"ALL", "NO_SCHED", "LIFO"}]

\* The loop is the running task's, and as long as the list at most.
QLoop ==
  /\ wake \in QWakes
  /\ \A t \in Task : pc[t] = "wake" => /\ os.OSRunning /\ t = cur
                                       /\ wake.obj \in Q
                                       /\ wake.n <= Len(os.PendList[wake.obj])
  /\ (\A t \in Task : pc[t] # "wake") => wake = NoWake
  /\ rdy = [t \in Task |-> NoObj]

\* Nobody waits for a queue, or for its own, with a message in it.
NoneWaits(o, q) ==
  /\ \A t \in Task : \A x \in o.PendData[t] \cap Q : q[x] = <<>>
  /\ \A t \in Task : o.PendOn[t] = "TASK_Q" => q[t] = <<>>

\* The queues hold messages, and nobody waits for one.
QHeld == queue \in [MsgQ -> Seq(Msg)] /\ NoneWaits(os, queue)

QInv == QBase /\ QLoop /\ QHeld

\* Queues are objects one waits for in one way.
LEMMA QKind == ObjKind(QOn, Q) /\ QOn \subseteq PendOnSet /\ "FLAG" \notin QOn
BY QAssumption DEF ObjKind, PendOnSet, QOn

\* A waiter of a queue is inside OSQPend.
LEMMA QWaiter ==
  ASSUME QBase, NEW u \in Task, NEW x \in os.PendData[u]
  PROVE  /\ x \in Q /\ arg[u] = x /\ InCall(u) /\ os.TaskState[u] \in Pending /\ os.PendOn[u] = "Q"
<1>1. /\ x \in Q /\ arg[u] = x /\ InCall(u) /\ os.TaskState[u] \in Pending /\ os.PendOn[u] \in QOn
  BY QKind, ObjWaiter DEF QBase
<1>2. os.PendOn[u] # "TASK_Q"
  BY DEF QBase, ObjInv, PendOK
<1> QED
  BY <1>1, <1>2 DEF QOn

\* What the invariant says of the kernel data.
LEMMA QTypes ==
  ASSUME QBase
  PROVE  /\ os \in KState /\ PendOK(os) /\ WaitSorted(os) /\ pc \in [Task -> PC] /\ OsInv(os, Creating)
         /\ os.PendData \in [Task -> SUBSET Obj] /\ os.PendOn \in [Task -> PendOnSet]
         /\ os.PendList \in [Obj -> Seq(Task)]
<1>1. /\ os \in KState /\ PendOK(os) /\ WaitSorted(os) /\ pc \in [Task -> PC] /\ OsInv(os, Creating)
  BY QKind DEF QBase, ObjInv, KInv, KTypeOK
<1> QED
  BY <1>1, PrioTypes DEF KState

\* Fewer waits leave nobody waiting that did not wait before.
LEMMA NoneWaitsLess ==
  ASSUME NEW o, NEW o2, NEW q, NEW q2, NoneWaits(o, q),
         \A t \in Task : /\ o2.PendData[t] \subseteq o.PendData[t]
                         /\ o2.PendOn[t] = "TASK_Q" => o.PendOn[t] = "TASK_Q",
         \A x \in MsgQ : q2[x] = q[x] \/ q2[x] = <<>>
  PROVE  NoneWaits(o2, q2)
BY DEF NoneWaits, MsgQ

\* A step of the kernel, also the tick interrupt, keeps the queues: it does not come into
\* a loop over a pend list, and begins no wait for a message.
LEMMA KernelQ ==
  ASSUME Hazard = {}, \A t \in Task : "semabort" \notin Calls[t], QInv, KNext,
         FreeDeleted, wake' = wake, rdy' = rdy
  PROVE  QInv' /\ CallsKept /\ wake = NoWake
<1>1. /\ QBase' /\ CallsKept
      /\ \A u \in Task : /\ os'.PendData[u] \subseteq os.PendData[u]
                         /\ os'.PendOn[u] \in {os.PendOn[u], "NOTHING", "TASK_SEM"}
  BY QKind, ObjKernel DEF QInv, QBase
<1>2. \A t \in Task : pc[t] # "wake" /\ pc'[t] # "wake"
  BY <1>1 DEF CallsKept, QInv, QLoop
<1>3. QLoop' /\ wake = NoWake
  BY <1>2 DEF QInv, QLoop
<1>4. /\ queue' \in [MsgQ -> Seq(Msg)]
      /\ \A x \in MsgQ : queue'[x] = queue[x] \/ queue'[x] = <<>>
  BY DEF FreeDeleted, QInv, QHeld
<1>5. NoneWaits(os', queue')
  <2>1. \A u \in Task : os'.PendOn[u] = "TASK_Q" => os.PendOn[u] = "TASK_Q"
    BY <1>1
  <2> QED
    BY <1>1, <1>4, <2>1, NoneWaitsLess DEF QInv, QHeld
<1> QED
  BY <1>1, <1>3, <1>4, <1>5 DEF QInv, QHeld

\* The running task is ready: it waits for nothing.
LEMMA QRunner ==
  ASSUME QBase, os.OSRunning, NEW t, t = cur, pc[t] \notin {"sched", "pend"}
  PROVE  /\ t \in Task /\ t \notin Creating /\ os.TaskState[t] = "RDY"
         /\ os.PendData[t] = {} /\ os.PendOn[t] = "NOTHING"
BY ObjRunner DEF QBase

\* A step of a queue service that leaves the kernel data alone.
LEMMA QStay ==
  ASSUME QBase, os.OSRunning, NEW t, t = cur, pc[t] \in {"app", "wake", "ret"}, os' = os,
         NEW l \in {"app", "sched", "wake"}, pc' = [pc EXCEPT ![t] = l],
         \/ arg' = arg /\ pc[t] # "ret"
         \/ arg' = [arg EXCEPT ![t] = NoTask],
         tickPtr' = tickPtr, tmrCtr' = tmrCtr, boot' = boot
  PROVE  QBase' /\ Creating' = Creating
BY ObjStay DEF QBase

\* The steps of a queue service outside of the loop that leave the kernel data alone.
LEMMA ServiceQ ==
  ASSUME QInv, os.OSRunning, NEW t, t = cur, pc[t] \in {"app", "ret"}, os' = os,
         NEW l \in {"app", "wake"}, pc' = [pc EXCEPT ![t] = l],
         \/ arg' = arg /\ pc[t] # "ret"
         \/ arg' = [arg EXCEPT ![t] = NoTask],
         tickPtr' = tickPtr, tmrCtr' = tmrCtr, boot' = boot, rdy' = rdy,
         queue' \in [MsgQ -> Seq(Msg)], NoneWaits(os, queue'),
         \/ l = "app" /\ wake' = wake
         \/ l = "wake" /\ wake' \in QWakes /\ wake'.obj \in Q /\ wake'.n <= Len(os.PendList[wake'.obj])
  PROVE  QInv' /\ Creating' = Creating /\ wake = NoWake
<1>1. QBase' /\ Creating' = Creating
  BY QStay DEF QInv
<1>2. wake = NoWake /\ \A u \in Task : pc[u] # "wake"
  BY DEF QInv, QLoop
<1>3. t \in Task /\ \A u \in Task : pc'[u] = IF u = t THEN l ELSE pc[u]
  BY QTypes, QRunner DEF QInv
<1>4. QLoop'
  BY <1>2, <1>3 DEF QInv, QLoop, cur
<1>5. QHeld'
  BY DEF QHeld
<1> QED
  BY <1>1, <1>2, <1>4, <1>5 DEF QInv

\* What the running task finds when it calls a service.
LEMMA QCallFrame ==
  ASSUME QInv, NEW t, NEW svc, Call(t, svc)
  PROVE  /\ t \in Task /\ pc[t] = "app" /\ t = cur /\ os.OSRunning /\ [pc EXCEPT ![t] = "app"] = pc
         /\ t \in MsgQ /\ queue \in [MsgQ -> Seq(Msg)] /\ NoneWaits(os, queue)
         /\ os.PendData[t] = {} /\ os.PendOn[t] = "NOTHING" /\ os.TaskState[t] = "RDY"
<1>1. pc \in [Task -> PC] /\ QBase
  BY QTypes DEF QInv
<1>2. pc[t] = "app" /\ t = cur /\ os.OSRunning
  BY DEF Call
<1>3. /\ t \in Task /\ os.PendData[t] = {} /\ os.PendOn[t] = "NOTHING" /\ os.TaskState[t] = "RDY"
  BY <1>1, <1>2, QRunner
<1> QED
  BY <1>1, <1>2, <1>3 DEF MsgQ, QInv, QHeld

\* A wait begins for an empty queue only: for queue x, or for the caller's own.
LEMMA WaitQ ==
  ASSUME QInv, NEW t, NEW svc, Call(t, svc), NEW x, NEW s, NEW on, NEW d \in Timeouts \cup {0},
         \/ on = "Q" /\ x \in Q /\ s = x
         \/ on = "TASK_Q" /\ x = t /\ s = NoObj,
         queue[x] = <<>>, os.OSSchedLockNestingCtr = 0, os' = OS_Pend(os, t, s, on, d),
         Goto(t, "pend"), arg' = [arg EXCEPT ![t] = x], UNCHANGED <<tickPtr, tmrCtr, boot, wake, rdy, queue>>
  PROVE  QInv' /\ Creating' = Creating /\ Blocks(os, os', t, s, on, d)
<1>1. QBase /\ Like(os, os) /\ Fit(QOn, os)
  BY QTypes, SameLike DEF QInv, QBase
<1>2. on \in QOn /\ IF on = "TASK_Q" THEN s = NoObj /\ x = t ELSE s \in Q /\ x = s
  BY DEF QOn
<1>3. QBase' /\ Creating' = Creating /\ Blocks(os, os', t, s, on, d)
  BY <1>1, <1>2, QKind, ObjWait DEF QBase
<1>4. /\ t \in Task /\ pc[t] = "app" /\ pc \in [Task -> PC] /\ queue \in [MsgQ -> Seq(Msg)]
      /\ NoneWaits(os, queue)
      /\ os.PendData \in [Task -> SUBSET Obj] /\ os.PendOn \in [Task -> PendOnSet]
  BY <1>1, QCallFrame, QTypes
<1>5. QLoop'
  <2>1. \A u \in Task : pc[u] # "wake" /\ pc'[u] # "wake"
    BY <1>4 DEF QInv, QLoop, Call, Goto
  <2> QED
    BY <2>1 DEF QInv, QLoop
<1>6. QHeld'
  <2> DEFINE D == IF s = NoObj THEN {} ELSE {s}
  <2>1. os'.PendData = [os.PendData EXCEPT ![t] = D] /\ os'.PendOn = [os.PendOn EXCEPT ![t] = on]
    BY <1>3 DEF Blocks
  <2>2. \A y \in D \cap Q : y = x
    BY <1>2, CoreAssumption, QAssumption
  <2>3. on = "TASK_Q" => x = t
    BY <1>2
  <2> HIDE DEF D
  <2>4. ASSUME NEW u \in Task, NEW y \in os'.PendData[u] \cap Q
        PROVE  queue[y] = <<>>
    BY <1>4, <2>1, <2>2, <2>4 DEF NoneWaits
  <2>5. ASSUME NEW u \in Task, os'.PendOn[u] = "TASK_Q"
        PROVE  queue[u] = <<>>
    BY <1>4, <2>1, <2>3, <2>5 DEF NoneWaits
  <2>6. NoneWaits(os', queue)
    BY <2>4, <2>5 DEF NoneWaits
  <2> QED
    BY <1>4, <2>6 DEF QHeld
<1> QED
  BY <1>3, <1>5, <1>6 DEF QInv

\* A wait for queue s, or for the queue of h itself, ends: nobody else is touched.
LEMMA EndQ ==
  ASSUME QInv, NEW t, NEW s, NEW h, NEW msg, NEW st, NEW l, EndsWait(QOn, os, t, s, h, msg, st, l)
  PROVE  /\ QBase' /\ NoneWaits(os', queue) /\ (s # NoObj => s \in Q)
         /\ WaitEnded(os, t, s, h, st)
<1>1. QBase' /\ (s # NoObj => s \in Q) /\ WaitEnded(os, t, s, h, st)
  BY QKind, ObjEnd DEF QInv, QBase
<1>2. os \in KState /\ h \in Task
  BY QTypes DEF QInv, EndsWait
<1>3. /\ os'.PendOn[h] = "NOTHING"
      /\ \A u \in Task \ {h} : os'.PendOn[u] = os.PendOn[u]
  BY <1>1, <1>2, EndsStates DEF WaitEnded
<1>4. \A u \in Task : /\ os'.PendData[u] \subseteq os.PendData[u]
                      /\ os'.PendOn[u] = "TASK_Q" => os.PendOn[u] = "TASK_Q"
  BY <1>1, <1>3 DEF WaitEnded
<1>5. NoneWaits(os, queue) /\ \A x \in MsgQ : queue[x] = queue[x] \/ queue[x] = <<>>
  BY DEF QInv, QHeld
<1>6. NoneWaits(os', queue)
  BY <1>4, <1>5, NoneWaitsLess
<1> QED
  BY <1>1, <1>6

\* One turn of the loop of OSQPost or OSQPendAbort ends the wait of the head.
LEMMA TurnQ ==
  ASSUME QInv, NEW t \in Task, WakeLoop(t), wake.n > 0, queue' = queue
  PROVE  /\ QInv'
         /\ \E h \in Task : /\ wake.obj \in Q /\ wake.obj \in os.PendData[h]
                            /\ os' = EndWait(os, wake.obj, h, wake.msg, wake.status)
                            /\ WaitEnded(os, t, wake.obj, h, wake.status) /\ rdy' = rdy
<1>1. /\ os.OSRunning /\ t = cur /\ pc[t] = "wake" /\ pc' = pc /\ wake' = [wake EXCEPT !.n = @ - 1]
      /\ arg' = arg /\ tickPtr' = tickPtr /\ tmrCtr' = tmrCtr /\ boot' = boot
  BY DEF WakeLoop
<1>2. /\ wake \in QWakes /\ wake.obj \in Q /\ wake.obj \in Obj /\ wake.obj # NoObj
      /\ wake.n <= Len(os.PendList[wake.obj]) /\ wake.n \in Nat
      /\ wake.status \in StatusSet /\ wake.msg \in Msg \cup {NoMsg}
      /\ \A u \in Task : pc[u] = "wake" => u = t
  BY <1>1, QAssumption, CoreAssumption DEF QInv, QLoop, QWakes, StatusSet
<1>3. QBase /\ os \in KState /\ PendOK(os) /\ WaitSorted(os) /\ pc \in [Task -> PC]
      /\ os.PendList \in [Obj -> Seq(Task)] /\ Fit(QOn, os) /\ Like(os, os)
  BY QTypes, SameLike DEF QInv, QBase
<1> DEFINE s == wake.obj
<1>4. os.PendList[s] # <<>>
  BY <1>2, <1>3
<1>5. PICK h \in Task : h = Head(os.PendList[s]) /\ s \in os.PendData[h]
  BY <1>2, <1>3, <1>4, HeadIsHighest
<1>6. os' = EndWait(os, s, h, wake.msg, wake.status) /\ rdy' = rdy
  <2>1. os.PendOn[h] = "Q"
    BY <1>3, <1>5, QWaiter
  <2> QED
    BY <1>5, <2>1 DEF WakeLoop
<1>7. pc' = [pc EXCEPT ![t] = "wake"]
  BY <1>1, <1>3
<1> HIDE DEF s
<1>8. EndsWait(QOn, os, t, s, h, wake.msg, wake.status, "wake")
  BY <1>1, <1>2, <1>3, <1>5, <1>6, <1>7 DEF EndsWait
<1>9. QBase' /\ NoneWaits(os', queue) /\ WaitEnded(os, t, s, h, wake.status)
  BY <1>8, EndQ
<1>10. Len(os'.PendList[s]) = Len(os.PendList[s]) - 1
  <2>1. os.PendList[s] \in Seq(Task)
    BY <1>2, <1>3 DEF s
  <2>2. h \in Range(os.PendList[s])
    BY <1>2, <1>3, <1>5, ListHasWaiter DEF s
  <2>3. s # NoObj
    BY <1>2 DEF s
  <2>4. os'.PendList[s] = Unlink(os.PendList[s], h)
    BY <1>9, <2>3 DEF WaitEnded
  <2> QED
    BY <2>1, <2>2, <2>4, UnlinkShape
<1>11. wake' \in QWakes /\ wake'.obj = s /\ wake'.n = wake.n - 1
  BY <1>1, <1>2 DEF QWakes, s
<1>12. os'.OSRunning /\ os'.OSTCBCurPtr = t
  BY <1>1, <1>9 DEF WaitEnded, Eases, cur
<1>13. QLoop'
  <2>1. Len(os.PendList[s]) \in Nat /\ wake.n <= Len(os.PendList[s]) /\ s \in Q
    BY <1>2, <1>3 DEF s
  <2> QED
    BY <1>1, <1>2, <1>6, <1>10, <1>11, <1>12, <2>1 DEF QInv, QLoop, cur
<1>14. QHeld'
  BY <1>9 DEF QInv, QHeld
<1> QED
  BY <1>2, <1>5, <1>6, <1>9, <1>13, <1>14 DEF QInv, s

\* The end of the loop.
LEMMA LoopEndQ ==
  ASSUME QInv, NEW t \in Task, WakeLoop(t), ~(wake.n > 0), queue' = queue
  PROVE  QInv' /\ Creating' = Creating /\ os' = os /\ wake' = NoWake /\ rdy' = rdy /\ wake.n = 0
<1>1. PICK l \in {"app", "sched"} : pc' = [pc EXCEPT ![t] = l]
  BY DEF WakeLoop, Goto
<1>2. /\ os' = os /\ wake' = NoWake /\ rdy' = rdy /\ pc[t] = "wake" /\ t = cur /\ os.OSRunning
      /\ arg' = arg /\ tickPtr' = tickPtr /\ tmrCtr' = tmrCtr /\ boot' = boot
      /\ \A u \in Task : pc[u] = "wake" => u = t
  BY DEF WakeLoop, QInv, QLoop
<1>3. QBase' /\ Creating' = Creating
  BY <1>1, <1>2, QStay DEF QInv
<1>4. \A u \in Task : pc'[u] # "wake"
  BY <1>1, <1>2, QTypes DEF QInv
<1>5. QLoop'
  BY <1>2, <1>4 DEF QInv, QLoop, NoWake, QWakes
<1>6. QHeld'
  BY <1>2 DEF QInv, QHeld
<1>7. wake.n = 0
  BY DEF QInv, QLoop, QWakes
<1> QED
  BY <1>2, <1>3, <1>5, <1>6, <1>7 DEF QInv

\* What a put does to the queues.
LEMMA PutQ ==
  ASSUME queue \in [MsgQ -> Seq(Msg)], NEW x \in MsgQ, NEW m \in Msg, NEW lifo, MQ!Put(x, m, lifo)
  PROVE  /\ queue' \in [MsgQ -> Seq(Msg)] /\ \A y \in MsgQ \ {x} : queue'[y] = queue[y]
         /\ queue'[x] = IF lifo THEN <<m>> \o queue[x] ELSE Append(queue[x], m)
<1> DEFINE s == IF lifo THEN <<m>> \o queue[x] ELSE Append(queue[x], m)
<1>1. queue' = [queue EXCEPT ![x] = s]
  BY DEF MQ!Put
<1>2. s \in Seq(Msg)
  OBVIOUS
<1> HIDE DEF s
<1>3. /\ queue' \in [MsgQ -> Seq(Msg)] /\ \A y \in MsgQ \ {x} : queue'[y] = queue[y]
      /\ queue'[x] = s
  BY <1>1, <1>2
<1> QED
  BY <1>3 DEF s

\* What a get does.
LEMMA GetQ ==
  ASSUME queue \in [MsgQ -> Seq(Msg)], NEW x \in MsgQ, MQ!Get({x})
  PROVE  /\ queue' \in [MsgQ -> Seq(Msg)] /\ \A y \in MsgQ \ {x} : queue'[y] = queue[y]
         /\ queue[x] # <<>> /\ queue'[x] = Tail(queue[x]) /\ Head(queue[x]) \in Msg
<1>1. queue[x] # <<>> /\ queue' = [y \in MsgQ |-> IF y \in {x} THEN Tail(queue[y]) ELSE queue[y]]
  BY DEF MQ!Get
<1>2. Tail(queue[x]) \in Seq(Msg) /\ Head(queue[x]) \in Msg
  BY <1>1
<1> QED
  BY <1>1, <1>2

\* OSQPend and OSTaskQPend take the first message.
LEMMA TakeQ ==
  ASSUME QInv, NEW t, NEW svc, Call(t, svc), NEW x \in MsgQ, MQ!Get({x}),
         UNCHANGED <<os, pc, arg, tickPtr, tmrCtr, boot, wake, rdy>>
  PROVE  QInv' /\ Creating' = Creating
<1>1. /\ t \in Task /\ pc[t] = "app" /\ t = cur /\ os.OSRunning /\ pc' = [pc EXCEPT ![t] = "app"]
      /\ queue \in [MsgQ -> Seq(Msg)] /\ NoneWaits(os, queue)
  BY QCallFrame
<1>2. /\ queue' \in [MsgQ -> Seq(Msg)] /\ \A y \in MsgQ \ {x} : queue'[y] = queue[y]
      /\ queue[x] # <<>>
  BY <1>1, GetQ
<1>3. NoneWaits(os, queue')
  <2>1. ASSUME NEW u \in Task, NEW y \in os.PendData[u] \cap Q
        PROVE  queue'[y] = <<>>
    <3>1. queue[y] = <<>> /\ y \in MsgQ
      BY <1>1, <2>1 DEF NoneWaits, MsgQ
    <3> QED
      BY <1>2, <3>1
  <2>2. ASSUME NEW u \in Task, os.PendOn[u] = "TASK_Q"
        PROVE  queue'[u] = <<>>
    <3>1. queue[u] = <<>> /\ u \in MsgQ
      BY <1>1, <2>2 DEF NoneWaits, MsgQ
    <3> QED
      BY <1>2, <3>1
  <2> QED
    BY <2>1, <2>2 DEF NoneWaits
<1>4. QInv' /\ Creating' = Creating
  BY <1>1, <1>2, <1>3, ServiceQ
<1> QED
  BY <1>4

\* A message is queued while nobody waits for that queue.
LEMMA KeepQ ==
  ASSUME QInv, NEW t, NEW svc, Call(t, svc), NEW x \in MsgQ, NEW m \in Msg, NEW lifo, MQ!Put(x, m, lifo),
         \A u \in Task : x \notin os.PendData[u] /\ (os.PendOn[u] = "TASK_Q" => u # x),
         UNCHANGED <<os, pc, arg, tickPtr, tmrCtr, boot, wake, rdy>>
  PROVE  QInv' /\ Creating' = Creating
<1>1. /\ t \in Task /\ pc[t] = "app" /\ t = cur /\ os.OSRunning /\ pc' = [pc EXCEPT ![t] = "app"]
      /\ queue \in [MsgQ -> Seq(Msg)] /\ NoneWaits(os, queue)
  BY QCallFrame
<1>2. queue' \in [MsgQ -> Seq(Msg)] /\ \A y \in MsgQ \ {x} : queue'[y] = queue[y]
  BY <1>1, PutQ
<1>3. NoneWaits(os, queue')
  BY <1>1, <1>2 DEF NoneWaits, MsgQ
<1>4. QInv' /\ Creating' = Creating
  BY <1>1, <1>2, <1>3, ServiceQ
<1> QED
  BY <1>4

\* OSQPost and OSQPendAbort begin their loop.
LEMMA BeginQ ==
  ASSUME QInv, NEW t, NEW svc, Call(t, svc), NEW x \in Q, NEW n, NEW m \in Msg \cup {NoMsg},
         NEW st \in {"OK", "ABORT"}, NEW opt \in QOpts, os.PendList[x] # <<>>,
         n = Len(os.PendList[x]) \/ n = 1,
         wake' = [obj |-> x, n |-> n, msg |-> m, status |-> st, opt |-> opt], Goto(t, "wake"),
         UNCHANGED <<os, arg, tickPtr, tmrCtr, boot, rdy, queue>>
  PROVE  QInv' /\ Creating' = Creating /\ wake = NoWake /\ n \in Nat
<1>1. /\ t \in Task /\ pc[t] = "app" /\ t = cur /\ os.OSRunning
      /\ queue \in [MsgQ -> Seq(Msg)] /\ NoneWaits(os, queue)
  BY QCallFrame
<1>2. os.PendList[x] \in Seq(Task)
  BY QTypes, QAssumption DEF QInv
<1>3. n \in Nat /\ n <= Len(os.PendList[x])
  BY <1>2
<1>4. wake' \in QWakes /\ wake'.obj = x /\ wake'.n = n
  BY <1>3, QAssumption DEF QWakes
<1>5. pc' = [pc EXCEPT ![t] = "wake"]
  BY DEF Goto
<1>6. QInv' /\ Creating' = Creating /\ wake = NoWake
  BY <1>1, <1>3, <1>4, <1>5, ServiceQ
<1> QED
  BY <1>3, <1>6

\* Nobody waits for a queue whose pend list is empty.
LEMMA EmptyListQ ==
  ASSUME QInv, NEW x \in Q, os.PendList[x] = <<>>
  PROVE  \A u \in Task : x \notin os.PendData[u] /\ u # x
<1>1. os \in KState /\ PendOK(os) /\ x \in Obj
  BY QTypes, QAssumption DEF QInv
<1> QED
  BY <1>1, ListHasWaiter, QAssumption

\* OSQPost.
LEMMA PostQ ==
  ASSUME QInv, NEW t, NEW x \in Q, NEW m \in Msg, NEW opt \in QOpts, OSQPost(t, x, m, opt)
  PROVE  QInv' /\ Creating' = Creating
<1>1. CASE os.PendList[x] = <<>>
  <2>1. \A u \in Task : x \notin os.PendData[u] /\ u # x
    BY <1>1, EmptyListQ
  <2>2. /\ MQ!Put(x, m, "LIFO" \in opt) /\ UNCHANGED <<os, pc, arg, tickPtr, tmrCtr, boot, wake, rdy>>
        /\ Call(t, "qpost")
    BY <1>1 DEF OSQPost
  <2>3. x \in MsgQ
    BY DEF MsgQ
  <2> QED
    BY <2>1, <2>2, <2>3, KeepQ
<1>2. CASE os.PendList[x] # <<>>
  <2> DEFINE n == IF "ALL" \in opt THEN Len(os.PendList[x]) ELSE 1
  <2>1. /\ wake' = [NoWake EXCEPT !.obj = x, !.n = n, !.msg = m, !.opt = opt] /\ Goto(t, "wake")
        /\ UNCHANGED <<os, arg, tickPtr, tmrCtr, boot, rdy, queue>> /\ Call(t, "qpost")
    BY <1>2 DEF OSQPost
  <2>2. n = Len(os.PendList[x]) \/ n = 1
    OBVIOUS
  <2> HIDE DEF n
  <2>3. wake' = [obj |-> x, n |-> n, msg |-> m, status |-> "OK", opt |-> opt]
    BY <2>1 DEF NoWake
  <2> QED
    BY <1>2, <2>1, <2>2, <2>3, BeginQ
<1> QED
  BY <1>1, <1>2

\* OSQPendAbort.
LEMMA PendAbortQ ==
  ASSUME QInv, NEW t, NEW x \in Q, NEW opt \in QOpts, OSQPendAbort(t, x, opt)
  PROVE  QInv' /\ Creating' = Creating
<1> DEFINE n == IF opt = {"ALL"} THEN Len(os.PendList[x]) ELSE 1
<1>1. /\ wake' = [NoWake EXCEPT !.obj = x, !.n = n, !.status = "ABORT", !.opt = opt] /\ Goto(t, "wake")
      /\ UNCHANGED <<os, arg, tickPtr, tmrCtr, boot, rdy, queue>> /\ Call(t, "qabort") /\ os.PendList[x] # <<>>
  BY DEF OSQPendAbort
<1>2. n = Len(os.PendList[x]) \/ n = 1
  OBVIOUS
<1> HIDE DEF n
<1>3. wake' = [obj |-> x, n |-> n, msg |-> NoMsg, status |-> "ABORT", opt |-> opt]
  BY <1>1 DEF NoWake
<1> QED
  BY <1>1, <1>2, <1>3, BeginQ

\* OSTaskQPost and OSTaskQPendAbort end the wait of a task for its own queue.
LEMMA HandQ ==
  ASSUME QInv, NEW t, NEW svc, Call(t, svc), NEW c \in Task, os.PendOn[c] = "TASK_Q",
         NEW m \in Msg \cup {NoMsg}, NEW st \in {"OK", "ABORT"}, NEW l \in {"app", "sched"},
         Step(t, EndWait(os, NoObj, c, m, st), l), UNCHANGED <<wake, rdy, queue>>
  PROVE  QInv' /\ WaitEnded(os, t, NoObj, c, st)
<1>1. /\ t \in Task /\ pc[t] = "app" /\ t = cur /\ os.OSRunning /\ pc \in [Task -> PC]
  BY QCallFrame, QTypes DEF QInv
<1>2. EndsWait(QOn, os, t, NoObj, c, m, st, l)
  BY <1>1, QTypes, SameLike DEF EndsWait, QInv, QBase, Step, Goto, StatusSet
<1>3. QBase' /\ NoneWaits(os', queue) /\ WaitEnded(os, t, NoObj, c, st)
  BY <1>2, EndQ
<1>4. QLoop'
  <2>1. \A u \in Task : pc[u] # "wake" /\ pc'[u] # "wake"
    BY <1>1 DEF QInv, QLoop, Step, Goto
  <2> QED
    BY <2>1 DEF QInv, QLoop
<1>5. QHeld'
  BY <1>3 DEF QInv, QHeld
<1> QED
  BY <1>3, <1>4, <1>5 DEF QInv

\* OSTaskQPost.
LEMMA TaskPostQ ==
  ASSUME QInv, NEW t, NEW c \in Task, NEW m \in Msg, NEW opt \in QOpts, OSTaskQPost(t, c, m, opt)
  PROVE  QInv'
<1>1. Call(t, "qpost") /\ UNCHANGED <<wake, rdy>>
  BY DEF OSTaskQPost
<1>2. CASE WaitsForMsg(c)
  <2> DEFINE l == IF "NO_SCHED" \in opt THEN "app" ELSE "sched"
  <2>1. Step(t, EndWait(os, NoObj, c, m, "OK"), l) /\ queue' = queue /\ os.PendOn[c] = "TASK_Q"
    BY <1>2 DEF OSTaskQPost, OS_Post, WaitsForMsg
  <2>2. l \in {"app", "sched"}
    OBVIOUS
  <2> HIDE DEF l
  <2> QED
    BY <1>1, <2>1, <2>2, HandQ
<1>3. CASE ~WaitsForMsg(c)
  <2>1. MQ!Put(c, m, "LIFO" \in opt) /\ UNCHANGED kvars
    BY <1>3 DEF OSTaskQPost
  <2>2. os.PendOn[c] # "TASK_Q"
    BY <1>3, QTypes DEF WaitsForMsg, QInv, PendOK
  <2>3. \A u \in Task : c \notin os.PendData[u]
    BY QWaiter, QAssumption DEF QInv
  <2>4. c \in MsgQ
    BY DEF MsgQ
  <2> QED
    BY <1>1, <2>1, <2>2, <2>3, <2>4, KeepQ DEF kvars
<1> QED
  BY <1>2, <1>3

\* OSTaskQPendAbort.
LEMMA TaskAbortQ ==
  ASSUME QInv, NEW t, NEW c \in Task, NEW opt \in PostOpts, OSTaskQPendAbort(t, c, opt)
  PROVE  QInv'
<1> DEFINE l == IF opt = "NO_SCHED" THEN "app" ELSE "sched"
<1>1. /\ Call(t, "qabort") /\ os.PendOn[c] = "TASK_Q" /\ UNCHANGED <<wake, rdy, queue>>
      /\ Step(t, EndWait(os, NoObj, c, NoMsg, "ABORT"), l)
  BY DEF OSTaskQPendAbort, OS_PendAbort
<1>2. l \in {"app", "sched"}
  OBVIOUS
<1> HIDE DEF l
<1> QED
  BY <1>1, <1>2, HandQ

\* OSTaskQFlush.
LEMMA FlushQ ==
  ASSUME QInv, NEW t, NEW c \in Task, OSTaskQFlush(t, c)
  PROVE  QInv' /\ Creating' = Creating
<1>1. Call(t, "qflush") /\ queue' = [queue EXCEPT ![c] = <<>>] /\ UNCHANGED <<os, pc, arg, tickPtr, tmrCtr, boot, wake, rdy>>
  BY DEF OSTaskQFlush, MQ!Flush, wvars
<1>2. /\ t \in Task /\ pc[t] = "app" /\ t = cur /\ os.OSRunning /\ pc' = [pc EXCEPT ![t] = "app"]
      /\ queue \in [MsgQ -> Seq(Msg)] /\ NoneWaits(os, queue)
  BY <1>1, QCallFrame
<1>3. queue' \in [MsgQ -> Seq(Msg)] /\ \A x \in MsgQ : queue'[x] = queue[x] \/ queue'[x] = <<>>
  <2>1. <<>> \in Seq(Msg)
    OBVIOUS
  <2>2. \A x \in MsgQ : queue'[x] = IF x = c THEN <<>> ELSE queue[x]
    BY <1>1, <1>2
  <2>3. queue' = [x \in MsgQ |-> queue'[x]]
    BY <1>1, <1>2
  <2>4. \A x \in MsgQ : queue'[x] \in Seq(Msg) /\ (queue'[x] = queue[x] \/ queue'[x] = <<>>)
    BY <1>2, <2>1, <2>2
  <2> QED
    BY <2>3, <2>4
<1>4. \A u \in Task : /\ os.PendData[u] \subseteq os.PendData[u]
                      /\ os.PendOn[u] = "TASK_Q" => os.PendOn[u] = "TASK_Q"
  OBVIOUS
<1>5. NoneWaits(os, queue')
  BY <1>2, <1>3, <1>4, NoneWaitsLess
<1>6. QInv' /\ Creating' = Creating
  BY <1>1, <1>2, <1>3, <1>5, ServiceQ
<1> QED
  BY <1>6

\* OSQPend and OSTaskQPend return after their wait.
LEMMA ReturnQ ==
  ASSUME QInv, NEW t, QPendReturn(t)
  PROVE  QInv' /\ Creating' = Creating
<1>1. /\ os.OSRunning /\ t = cur /\ pc[t] = "ret" /\ pc' = [pc EXCEPT ![t] = "app"]
      /\ arg' = [arg EXCEPT ![t] = NoTask] /\ UNCHANGED <<os, tickPtr, tmrCtr, boot, wake, rdy, queue>>
  BY DEF QPendReturn, Goto
<1>2. queue \in [MsgQ -> Seq(Msg)] /\ NoneWaits(os, queue)
  BY DEF QInv, QHeld
<1>3. QInv' /\ Creating' = Creating
  BY <1>1, <1>2, ServiceQ
<1> QED
  BY <1>3

\* OSQPend and OSTaskQPend.
LEMMA PendQ ==
  ASSUME QInv, NEW t, NEW svc, Call(t, svc), NEW x, NEW s, NEW on, NEW d \in Timeouts \cup {0}, NEW block,
         \/ on = "Q" /\ x \in Q /\ s = x
         \/ on = "TASK_Q" /\ x = t /\ s = NoObj,
         Pend(t, x, s, on, d, block)
  PROVE  QInv' /\ Creating' = Creating
<1>1. t \in Task /\ x \in MsgQ
  BY QCallFrame DEF MsgQ
<1>2. CASE MQ!Get({x}) /\ UNCHANGED <<os, pc, arg>>
  BY <1>1, <1>2, TakeQ DEF Pend
<1>3. CASE /\ queue[x] = <<>> /\ os.OSSchedLockNestingCtr = 0
           /\ os' = OS_Pend(os, t, s, on, d) /\ Goto(t, "pend") /\ arg' = [arg EXCEPT ![t] = x]
           /\ UNCHANGED <<queue, sent>>
  BY <1>3, WaitQ DEF Pend
<1> QED
  BY <1>2, <1>3 DEF Pend

\* Every step of a queue service.
LEMMA QStepQ ==
  ASSUME QInv, NEW t \in Task, QStep(t)
  PROVE  QInv'
<1>1. ASSUME NEW x \in Q, NEW d \in Timeouts \cup {0}, NEW block \in BOOLEAN, OSQPend(t, x, d, block)
      PROVE  QInv'
  BY <1>1, PendQ DEF OSQPend
<1>2. ASSUME NEW d \in Timeouts \cup {0}, NEW block \in BOOLEAN, OSTaskQPend(t, d, block)
      PROVE  QInv'
  BY <1>2, PendQ DEF OSTaskQPend
<1>3. CASE \E x \in Q, m \in Msg, opt \in QOpts : OSQPost(t, x, m, opt)
  BY <1>3, PostQ
<1>4. CASE \E x \in Q, opt \in QOpts : OSQPendAbort(t, x, opt)
  BY <1>4, PendAbortQ
<1>5. CASE \E c \in Task, m \in Msg, opt \in QOpts : OSTaskQPost(t, c, m, opt)
  BY <1>5, TaskPostQ
<1>6. CASE \E c \in Task, opt \in PostOpts : OSTaskQPendAbort(t, c, opt)
  BY <1>6, TaskAbortQ
<1>7. CASE \E c \in Task : OSTaskQFlush(t, c)
  BY <1>7, FlushQ
<1>8. CASE QPendReturn(t)
  BY <1>8, ReturnQ
<1> QED
  BY <1>1, <1>2, <1>3, <1>4, <1>5, <1>6, <1>7, <1>8 DEF QStep

\* The invariant holds in the initial state.
LEMMA InitQ == QInit => QInv
<1> SUFFICES ASSUME QInit PROVE QInv
  OBVIOUS
<1>1. KInit /\ wake = NoWake /\ rdy = [t \in Task |-> NoObj] /\ queue = [x \in MsgQ |-> <<>>]
  BY DEF QInit, WInit, MQ!Init
<1>2. QBase /\ \A t \in Task : os.PendData[t] = {}
  BY <1>1, ObjInit DEF QBase
<1>3. \A t \in Task : pc[t] # "wake"
  BY <1>1 DEF KInit
<1>4. QLoop
  BY <1>1, <1>3 DEF QLoop, QWakes, NoWake
<1>5. queue \in [MsgQ -> Seq(Msg)] /\ NoneWaits(os, queue)
  BY <1>1 DEF NoneWaits, MsgQ
<1> QED
  BY <1>2, <1>4, <1>5 DEF QInv, QHeld

\* Every step keeps the invariant.
LEMMA NextQ ==
  ASSUME Hazard = {}, \A t \in Task : "semabort" \notin Calls[t], QInv, [QNext]_qvars
  PROVE  QInv'
<1>1. CASE KNext /\ FreeDeleted /\ UNCHANGED <<wake, rdy>>
  BY <1>1, KernelQ
<1>2. CASE \E t \in Task : QStep(t)
  BY <1>2, QStepQ
<1>3. ASSUME NEW t \in Task, WakeLoop(t), UNCHANGED <<queue, sent>>
      PROVE  QInv'
  <2>1. CASE wake.n > 0
    BY <1>3, <2>1, TurnQ
  <2>2. CASE ~(wake.n > 0)
    BY <1>3, <2>2, LoopEndQ
  <2> QED
    BY <2>1, <2>2
<1>4. CASE UNCHANGED qvars
  <2>1. /\ os' = os /\ pc' = pc /\ arg' = arg /\ tickPtr' = tickPtr /\ tmrCtr' = tmrCtr /\ boot' = boot
        /\ wake' = wake /\ rdy' = rdy /\ queue' = queue
    BY <1>4 DEF qvars
  <2>2. QBase'
    BY <2>1, ObjStutter DEF QInv, QBase, kvars
  <2> QED
    BY <2>1, <2>2 DEF QInv, QLoop, QHeld, NoneWaits, cur
<1> QED
  BY <1>1, <1>2, <1>3, <1>4 DEF QNext

\* Nobody waits while there is a message for it, for every number of queues, tasks and
\* messages, whatever is posted, aborted, suspended or deleted and whenever waits time
\* out, as long as nobody calls OSTaskSemPendAbort (OSQPend, OSTaskQPend, OSQPost).
THEOREM QueuesNoWaiterWithMessage ==
  ASSUME Hazard = {}, \A t \in Task : "semabort" \notin Calls[t]
  PROVE  QSpec => []NoWaiterWithMessage
<1>1. QInit => QInv
  BY InitQ
<1>2. QInv /\ [QNext]_qvars => QInv'
  BY NextQ
<1>3. QInv => NoWaiterWithMessage
  BY DEF QInv, QHeld, NoneWaits, NoWaiterWithMessage, WaitsForMsg
<1> QED
  BY <1>1, <1>2, <1>3, PTL DEF QSpec
=============================================================================
