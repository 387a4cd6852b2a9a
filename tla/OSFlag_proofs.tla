---------------------------- MODULE OSFlag_proofs ----------------------------
(***************************************************************************)
(* Event flags: no waiter is missed by a post, none returns with less than *)
(* it asked for, and a flag that is posted stays until it is cleared or    *)
(* given to a call that consumes it.                                       *)
(***************************************************************************)
EXTENDS OSFlag, OSWait_proofs

(* What OS_FlagTaskRdy and OS_FlagPost's loop do to the kernel data. *)

\* Task t, that waits, is readied or stays suspended, and leaves its pend lists; its
\* entry in the tick wheel may stay.
Readied(o, o2, t) ==
  /\ o2.TaskState = [o.TaskState EXCEPT ![t] = IF o.TaskState[t] \in Suspended THEN "SUSPENDED" ELSE "RDY"]
  /\ o2.PendOn = [o.PendOn EXCEPT ![t] = "NOTHING"]
  /\ o2.PendStatus = [o.PendStatus EXCEPT ![t] = "OK"]
  /\ SamePend(OS_PendListRemove(o, t), o2)

\* The status and the end of a wait are written to the TCB.
LEMMA StatusFrame ==
  ASSUME NEW o \in KState, NEW t \in Task
  PROVE  LET r == [o EXCEPT !.PendStatus[t] = "OK", !.PendOn[t] = "NOTHING"]
         IN  /\ r \in KState /\ SameSched(o, r) /\ r.TaskState = o.TaskState
             /\ r.PendOn = [o.PendOn EXCEPT ![t] = "NOTHING"]
             /\ r.PendStatus = [o.PendStatus EXCEPT ![t] = "OK"]
             /\ SamePend(o, r)
<1> DEFINE r == [o EXCEPT !.PendStatus[t] = "OK", !.PendOn[t] = "NOTHING"]
           s == [o.PendStatus EXCEPT ![t] = "OK"]
           p == [o.PendOn EXCEPT ![t] = "NOTHING"]
<1>1. r = [o EXCEPT !.PendStatus = s, !.PendOn = p]
  BY DEF KState
<1>2. s \in [Task -> StatusSet] /\ p \in [Task -> PendOnSet]
  BY DEF KState, StatusSet, PendOnSet
<1> HIDE DEF r
<1>3. r.PendOn = p /\ r.PendStatus = s
  BY <1>1 DEF KState
<1> HIDE DEF s, p
<1>4. r \in KState
  BY <1>1, <1>2 DEF KState
<1>5. SameSched(o, r) /\ r.TaskState = o.TaskState /\ SamePend(o, r)
  BY <1>1 DEF KState, SameSched, SameTasks, SamePend
<1> QED
  BY <1>3, <1>4, <1>5 DEF r, s, p

\* Leaving the pend lists last or first is the same to them.
LEMMA PendListRemoveSame ==
  ASSUME NEW o \in KState, NEW o1 \in KState, SamePend(o, o1), NEW t \in Task
  PROVE  SamePend(OS_PendListRemove(o, t), OS_PendListRemove(o1, t))
<1> DEFINE a == OS_PendListRemove(o, t)
           b == OS_PendListRemove(o1, t)
<1>1. /\ a.PendData = [o.PendData EXCEPT ![t] = {}]
      /\ a.PendList = [obj \in Obj |-> IF obj \in o.PendData[t] THEN Unlink(o.PendList[obj], t)
                                                                ELSE o.PendList[obj]]
  BY PendListRemoveFrame
<1>2. /\ b.PendData = [o1.PendData EXCEPT ![t] = {}]
      /\ b.PendList = [obj \in Obj |-> IF obj \in o1.PendData[t] THEN Unlink(o1.PendList[obj], t)
                                                                 ELSE o1.PendList[obj]]
  BY PendListRemoveFrame
<1> HIDE DEF a, b
<1>3. b.PendData = a.PendData
  BY <1>1, <1>2 DEF SamePend
<1>4. b.PendList = a.PendList
  BY <1>1, <1>2 DEF SamePend
<1> QED
  BY <1>3, <1>4 DEF SamePend, a, b

\* OS_FlagTaskRdy of a task that waits.
LEMMA FlagTaskRdyLemma ==
  ASSUME NEW o, NEW C, OsInv(o, C), NEW t \in Task, o.TaskState[t] \in Pending
  PROVE  LET o2 == OS_FlagTaskRdy(o, t)
         IN  OsInv(o2, C) /\ Eases(o, o2) /\ Readied(o, o2, t)
<1> DEFINE r == [o EXCEPT !.PendStatus[t] = "OK", !.PendOn[t] = "NOTHING"]
           a == IF o.TaskState[t] \in Suspended THEN [r EXCEPT !.TaskState[t] = "SUSPENDED"]
                                               ELSE [OS_TaskRdy(r, t) EXCEPT !.TaskState[t] = "RDY"]
           z == OS_PendListRemove(a, t)
           st == IF o.TaskState[t] \in Suspended THEN "SUSPENDED" ELSE "RDY"
<1>1. o \in KState /\ o.TaskState \in [Task -> State]
  BY DEF OsInv, KState
<1>2. /\ r \in KState /\ SameSched(o, r) /\ r.TaskState = o.TaskState
      /\ r.PendOn = [o.PendOn EXCEPT ![t] = "NOTHING"]
      /\ r.PendStatus = [o.PendStatus EXCEPT ![t] = "OK"]
      /\ SamePend(o, r)
  BY <1>1, StatusFrame
<1>3. OS_FlagTaskRdy(o, t) = z
  <2>1. o.TaskState[t] \in {"PEND", "PEND_TIMEOUT"} <=> o.TaskState[t] \notin Suspended
    BY DEF Pending, Suspended
  <2>2. CASE o.TaskState[t] \in {"PEND", "PEND_TIMEOUT"}
    BY <2>1, <2>2 DEF OS_FlagTaskRdy
  <2>3. CASE o.TaskState[t] \notin {"PEND", "PEND_TIMEOUT"}
    BY <2>1, <2>3 DEF OS_FlagTaskRdy
  <2> QED
    BY <2>2, <2>3
<1> HIDE DEF r
<1>4. OsInv(r, C) /\ Eases(o, r)
  BY <1>2, SameSchedInv
<1>5. /\ OsInv(a, C) /\ Eases(r, a) /\ a.TaskState = [r.TaskState EXCEPT ![t] = st]
      /\ SameCtrs(r, a) /\ SamePend(r, a)
  <2>1. CASE o.TaskState[t] \in Suspended
    <3>0. "SUSPENDED" \in State /\ "SUSPENDED" # "DEL"
      BY DEF State, Suspended
    <3>1. a = [r EXCEPT !.TaskState[t] = "SUSPENDED"] /\ st = "SUSPENDED"
      BY <2>1
    <3>2. /\ a \in KState /\ a.TaskState = [r.TaskState EXCEPT ![t] = "SUSPENDED"]
          /\ a.Prio = r.Prio /\ a.OSRdyList = r.OSRdyList /\ a.OSPrioTbl = r.OSPrioTbl
          /\ a.OSTCBCurPtr = r.OSTCBCurPtr /\ a.OSRunning = r.OSRunning
          /\ a.OSSchedLockNestingCtr = r.OSSchedLockNestingCtr
      BY <1>2, <3>0, <3>1, SetStateLemma
    <3>3. SameCtrs(r, a) /\ SamePend(r, a)
      BY <1>2, <3>1, SetStateFrame
    <3> HIDE DEF a
    <3>4. Rdy(a, Ready(r) \ C) /\ r.TaskState[t] \notin {"RDY", "DEL"}
      BY <1>2, <1>4, <3>2 DEF OsInv, Rdy, Pending
    <3>5. OsInv(a, C) /\ Eases(r, a)
      BY <1>4, <3>0, <3>2, <3>4, EaseInv
    <3> QED
      BY <3>1, <3>2, <3>3, <3>5
  <2>2. CASE o.TaskState[t] \notin Suspended
    <3> DEFINE b == OS_TaskRdy(r, t)
    <3>1. a = [b EXCEPT !.TaskState[t] = "RDY"] /\ st = "RDY"
      BY <2>2
    <3>2. OsInv(a, C) /\ Eases(r, a)
      <4>1. r.TaskState[t] \notin {"RDY", "DEL"} /\ r.TaskState[t] \notin Suspended
        BY <1>2, <2>2 DEF Pending
      <4> QED
        BY <1>4, <3>1, <4>1, ReadyLemma
    <3>3. b.TaskState = r.TaskState /\ SameCtrs(r, b) /\ SamePend(r, b)
      BY <1>2, TaskRdyFrame DEF SameWheel
    <3>4. b \in KState
      <4>1. /\ Rdy(r, Ready(r) \ C) /\ t \notin Ready(r) \ C
            /\ r.TaskState[t] \notin Suspended /\ r.Prio[t] \in Prio
        BY <1>2, <1>4, <2>2 DEF OsInv, Ready, Pending
      <4> QED
        BY <1>2, <4>1, TaskRdyLemma
    <3> HIDE DEF a, b
    <3>5. a.TaskState = [b.TaskState EXCEPT ![t] = "RDY"] /\ SameCtrs(b, a) /\ SamePend(b, a)
      BY <3>1, <3>4, SetStateFrame
    <3> QED
      BY <3>1, <3>2, <3>3, <3>5 DEF SameCtrs, SamePend
  <2> QED
    BY <2>1, <2>2
<1> HIDE DEF a, st
<1>6. a \in KState
  BY <1>5 DEF OsInv
<1>7. OsInv(z, C) /\ Eases(a, z)
  BY <1>5, <1>6, PendListRemoveLemma, SameSchedInv
<1>8. z.TaskState = a.TaskState /\ SameCtrs(a, z)
  BY <1>6, PendListRemoveFrame
<1>9. SamePend(OS_PendListRemove(o, t), z)
  BY <1>1, <1>2, <1>5, <1>6, PendListRemoveSame DEF SamePend
<1> HIDE DEF z
<1>10. Eases(o, z)
  BY <1>4, <1>5, <1>7, EasesTransitive
<1>11. Readied(o, z, t)
  BY <1>2, <1>5, <1>8, <1>9 DEF Readied, SameCtrs, st
<1> QED
  BY <1>3, <1>7, <1>10, <1>11

\* The next waiter is looked up in the list as it was, and is the one in the place of
\* the waiter that leaves it.
LEMMA NextWaiter ==
  ASSUME NEW s \in Seq(Task), NEW S, IsList(s, S), NEW h \in Range(s)
  PROVE  \E n \in 1 .. Len(s) :
           /\ s[n] = h /\ \A i \in 1 .. Len(s) : s[i] = h => i = n
           /\ After(s, h) = IF n < Len(s) THEN s[n + 1] ELSE NoTask
           /\ Len(Unlink(s, h)) = Len(s) - 1
           /\ \A i \in 1 .. Len(s) - 1 : Unlink(s, h)[i] = IF i < n THEN s[i] ELSE s[i + 1]
<1>1. PICK n \in 1 .. Len(s) :
        /\ s[n] = h /\ Len(Unlink(s, h)) = Len(s) - 1
        /\ \A i \in 1 .. Len(s) - 1 : Unlink(s, h)[i] = IF i < n THEN s[i] ELSE s[i + 1]
  BY UnlinkShape
<1>2. \A i \in 1 .. Len(s) : s[i] = h => i = n
  BY <1>1 DEF IsList
<1>3. Pos(s, h) = n
  <2>1. Pos(s, h) \in 1 .. Len(s) /\ s[Pos(s, h)] = h
    BY DEF Pos, Range
  <2> QED
    BY <1>2, <2>1
<1>4. After(s, h) = IF n < Len(s) THEN s[n + 1] ELSE NoTask
  BY <1>3 DEF After
<1> QED
  BY <1>1, <1>2, <1>4

\* OS_FlagPost's loop readies the waiter h of a group: the waits stay in order.
LEMMA LoopReadies ==
  ASSUME NEW On, NEW S, ObjKind(On, S), "FLAG" \in On, ObjInv(On, S), os.OSRunning, NEW t, t = cur,
         pc[t] = "wake", NEW h \in Task, NEW s \in os.PendData[h], os' = OS_FlagTaskRdy(os, h),
         UNCHANGED <<pc, arg, tickPtr, tmrCtr, boot>>
  PROVE  /\ ObjInv(On, S)' /\ Creating' = Creating /\ h # t
         /\ os'.OSRunning /\ os'.OSTCBCurPtr = cur
         /\ os'.PendOn[h] = "NOTHING"
         /\ \A u \in Task : os'.PendData[u] = IF u = h THEN {} ELSE os.PendData[u]
         /\ \A u \in Task \ {h} : /\ os'.TaskState[u] = os.TaskState[u] /\ os'.PendOn[u] = os.PendOn[u]
                                  /\ os'.PendStatus[u] = os.PendStatus[u]
         /\ os'.PendList[s] = Unlink(os.PendList[s], h)
<1>1. /\ KInv /\ KTypeOK /\ PendOK(os) /\ CallInv /\ pc \in [Task -> PC]
      /\ OsInv(os, Creating) /\ os \in KState
  BY DEF ObjInv, KInv, KTypeOK, OsInv
<1>2. s \in S /\ s \in Obj /\ os.TaskState[h] \in Pending
  BY ObjWaiter DEF ObjKind
<1>3. t \in Task /\ os.TaskState[t] = "RDY"
  BY ObjRunner
<1>4. h # t
  BY <1>2, <1>3 DEF Pending
<1>5. OsInv(os', Creating) /\ Eases(os, os') /\ Readied(os, os', h)
  BY <1>1, <1>2, FlagTaskRdyLemma
<1>6. pc' = [pc EXCEPT ![t] = "wake"] /\ arg' = arg
  BY <1>1, <1>3
<1>7. KInv'
  <2>1. "wake" \in PC \ {"create", "abort"}
    BY DEF PC
  <2> QED
    BY <1>1, <1>5, <1>6, <2>1, ServiceStep
<1>8. os' \in KState
  BY <1>5 DEF OsInv
<1>9. /\ os.TaskState \in [Task -> State] /\ os.PendOn \in [Task -> PendOnSet]
      /\ os.PendStatus \in [Task -> StatusSet] /\ os.PendData \in [Task -> SUBSET Obj]
  BY <1>1 DEF KState
<1>10. PICK st \in {"RDY", "SUSPENDED"} : os'.TaskState = [os.TaskState EXCEPT ![h] = st]
  BY <1>5 DEF Readied
<1>11. PendOK(os')
  <2>1. st \notin Pending /\ os'.PendOn = [os.PendOn EXCEPT ![h] = "NOTHING"]
        /\ SamePend(OS_PendListRemove(os, h), os')
    BY <1>5 DEF Readied, Pending
  <2> QED
    BY <1>1, <1>8, <1>10, <2>1, LeavePendOK
<1>12. /\ os'.TaskState[h] = st /\ os'.PendOn[h] = "NOTHING"
       /\ \A u \in Task \ {h} : /\ os'.TaskState[u] = os.TaskState[u] /\ os'.PendOn[u] = os.PendOn[u]
                                /\ os'.PendStatus[u] = os.PendStatus[u]
  BY <1>5, <1>9, <1>10 DEF Readied
<1>13. CallInv' /\ Creating' = Creating
  <2>1. "wake" \in Outside /\ pc[t] \in Outside /\ pc[t] \notin {"create", "abort"}
    BY DEF Outside
  <2>2. os'.TaskState[t] \notin Pending
    BY <1>3, <1>4, <1>12 DEF Pending
  <2>3. \A u \in Task \ {t} : /\ os'.TaskState[u] \in Pending => os.TaskState[u] \in Pending
                              /\ os'.TaskState[u] \in Delayed => os.TaskState[u] \in Delayed
                              /\ os'.PendOn[u] = "TASK_SEM" => os.PendOn[u] = "TASK_SEM"
    BY <1>12 DEF Pending, Delayed, Timed
  <2> QED
    BY <1>1, <1>3, <1>6, <1>11, <2>1, <2>2, <2>3, ServiceCalls
<1>14. /\ \A u \in Task : os'.PendData[u] = IF u = h THEN {} ELSE os.PendData[u]
       /\ os'.PendList[s] = Unlink(os.PendList[s], h)
  <2>1. /\ OS_PendListRemove(os, h).PendData = [os.PendData EXCEPT ![h] = {}]
        /\ OS_PendListRemove(os, h).PendList[s] = Unlink(os.PendList[s], h)
    BY <1>1, <1>2, PendListRemoveOK
  <2>2. os'.PendData = [os.PendData EXCEPT ![h] = {}] /\ os'.PendList[s] = Unlink(os.PendList[s], h)
    BY <1>5, <2>1 DEF Readied, SamePend
  <2> QED
    BY <1>9, <2>2
<1>15. ObjWaits(On, S)'
  BY <1>6, <1>12, <1>14 DEF ObjInv, ObjWaits
<1>16. ObjInv(On, S)'
  BY <1>6, <1>7, <1>11, <1>13, <1>15 DEF ObjInv
<1>17. os'.OSRunning /\ os'.OSTCBCurPtr = cur
  BY <1>5 DEF Eases, cur
<1> QED
  BY <1>4, <1>12, <1>13, <1>14, <1>16, <1>17
-----------------------------------------------------------------------------
(* The inductive invariant. *)

\* The kernel and its waits; tasks wait for flag groups.
FlagBase == ObjInv({"FLAG"}, Grp)

Modes == SUBSET {"ALL", "CONSUME", "NON_BLOCKING"}

\* The types of the flag variables.
FlagTypes ==
  /\ Flags \in [Grp -> SUBSET Flag] /\ FlagsPend \in [Task -> SUBSET Flag]
  /\ FlagsOpt \in [Task -> Modes] /\ FlagsRdy \in [Task -> SUBSET Flag]
  /\ walk \in [grp : Grp \cup {NoObj}, ptr : Task \cup {NoTask}, opt : SUBSET {"CLR", "NO_SCHED"}]

\* A task that waits for flags waits for the group of its call and is in its list.
WaitLink == \A u \in Task : os.PendOn[u] = "FLAG" => arg[u] \in Grp /\ os.PendData[u] = {arg[u]}

\* Task u waits for flags, and they are there.
MetWaiter(u) == os.PendOn[u] = "FLAG" /\ Satisfied(Flags[arg[u]], FlagsPend[u], FlagsOpt[u])

\* OS_FlagPost's loop has not passed task u in the list of its group.
Ahead(u) == /\ arg[u] = walk.grp
            /\ \E k, i \in DOMAIN os.PendList[walk.grp] :
                 k <= i /\ os.PendList[walk.grp][k] = walk.ptr /\ os.PendList[walk.grp][i] = u

\* The task in the loop runs, the loop stands at a waiter of its group or at the end,
\* and the waiters whose flags are there are still before it.
WalkAt(t) == /\ os.OSRunning /\ t = cur /\ walk.grp \in Grp
             /\ walk.ptr # NoTask => walk.ptr \in Range(os.PendList[walk.grp])
             /\ \A u \in Task : MetWaiter(u) => Ahead(u)

WalkInv == \A t \in Task : pc[t] = "wake" => WalkAt(t)

\* Outside of the loop nobody waits for flags that are there.
RestInv == (\A t \in Task : pc[t] # "wake") => \A u \in Task : ~MetWaiter(u)

FlagInv == /\ FlagBase /\ FlagTypes /\ WaitLink /\ WalkInv /\ RestInv /\ ReturnsWhatItWanted

\* Waiting for event flags is a way to wait, and a group is an object.
LEMMA FlagKind == ObjKind({"FLAG"}, Grp)
BY FlagAssumption DEF ObjKind, PendOnSet

\* Fewer flags satisfy no wait that more do not.
LEMMA SatisfiedMono ==
  ASSUME NEW a, NEW b, a \subseteq b, NEW flags, NEW opt, Satisfied(a, flags, opt)
  PROVE  Satisfied(b, flags, opt)
BY DEF Satisfied

\* The flags that end a wait satisfy it by themselves.
LEMMA SatisfiedBy ==
  ASSUME NEW b, NEW flags, NEW opt, Satisfied(b, flags, opt)
  PROVE  b \cap flags \subseteq flags /\ Satisfied(b \cap flags, flags, opt)
BY DEF Satisfied

\* A call that returns flags leaves no more of them in any group.
LEMMA ConsumeShrinks ==
  ASSUME NEW f \in [Grp -> SUBSET Flag], NEW g \in Grp, NEW got, NEW opt
  PROVE  /\ Consume(f, g, got, opt) \in [Grp -> SUBSET Flag]
         /\ \A x \in Grp : Consume(f, g, got, opt)[x] \subseteq f[x]
         /\ "CONSUME" \notin opt => Consume(f, g, got, opt) = f
BY DEF Consume

\* The group of a waiter has it in its list.
LEMMA WaiterInList ==
  ASSUME FlagBase, WaitLink, NEW u \in Task, os.PendOn[u] = "FLAG"
  PROVE  /\ arg[u] \in Grp /\ arg[u] \in os.PendData[u] /\ os.TaskState[u] \in Pending /\ InCall(u)
         /\ u \in Range(os.PendList[arg[u]])
<1>1. arg[u] \in Grp /\ arg[u] \in os.PendData[u]
  BY DEF WaitLink
<1>2. os.TaskState[u] \in Pending /\ InCall(u)
  BY <1>1, FlagKind, ObjWaiter DEF FlagBase
<1>3. arg[u] \in Obj /\ os \in KState /\ PendOK(os)
  BY <1>1, FlagAssumption DEF FlagBase, ObjInv, KInv, KTypeOK
<1>4. Range(os.PendList[arg[u]]) = {v \in Task : arg[u] \in os.PendData[v]}
  BY <1>3, ListHasWaiter
<1> QED
  BY <1>1, <1>2, <1>4

\* Task t has left its wait without an error and has not returned yet.
HasGot(t) == /\ pc[t] \in {"pend", "ret"} /\ arg[t] \in Grp /\ os.PendOn[t] = "NOTHING"
             /\ os.PendStatus[t] = "OK" /\ os.TaskState[t] # "DEL" /\ t \notin Creating

\* It has what it asked for.
GotRight(t) == FlagsRdy[t] \subseteq FlagsPend[t] /\ Satisfied(FlagsRdy[t], FlagsPend[t], FlagsOpt[t])

\* The property, task by task.
LEMMA ReturnsTasks == ReturnsWhatItWanted <=> \A t \in Task : HasGot(t) => GotRight(t)
BY DEF ReturnsWhatItWanted, HasGot, GotRight

\* A step that leaves a task's call and its flag fields alone.
SameCall(u) == /\ pc'[u] = pc[u] /\ arg'[u] = arg[u] /\ os'.PendOn[u] = os.PendOn[u]
               /\ os'.PendStatus[u] = os.PendStatus[u] /\ os'.TaskState[u] = os.TaskState[u]
               /\ os'.PendData[u] = os.PendData[u]
               /\ FlagsPend'[u] = FlagsPend[u] /\ FlagsOpt'[u] = FlagsOpt[u] /\ FlagsRdy'[u] = FlagsRdy[u]

\* What was right for such a task stays right.
LEMMA SameCallKept ==
  ASSUME NEW u \in Task, SameCall(u), Creating' = Creating
  PROVE  /\ (HasGot(u) => GotRight(u)) => (HasGot(u)' => GotRight(u)')
         /\ (os.PendOn[u] = "FLAG" => arg[u] \in Grp /\ os.PendData[u] = {arg[u]})
              => (os'.PendOn[u] = "FLAG" => arg'[u] \in Grp /\ os'.PendData[u] = {arg'[u]})
<1>1. HasGot(u)' <=> HasGot(u)
  BY DEF SameCall, HasGot
<1>2. GotRight(u)' <=> GotRight(u)
  BY DEF SameCall, GotRight
<1> QED
  BY <1>1, <1>2 DEF SameCall

\* The initial state.
LEMMA FlagsInit == FInit => FlagInv
<1> SUFFICES ASSUME FInit PROVE FlagInv
  OBVIOUS
<1>1. FlagBase /\ \A t \in Task : os.PendData[t] = {} /\ ~InCall(t)
  BY ObjInit DEF FInit, FlagBase
<1>2. FlagTypes
  BY FlagAssumption DEF FInit, FlagTypes, Modes, NoWalk
<1>3. \A t \in Task : pc[t] = "app" /\ arg[t] = NoTask /\ os.PendOn[t] = "NOTHING"
  BY InitWait DEF FInit, KInit
<1> QED
  BY <1>1, <1>2, <1>3, ReturnsTasks DEF FlagInv, WaitLink, WalkInv, RestInv, MetWaiter, HasGot

\* Every step of the kernel: tasks are created, suspended, resumed, deleted, delayed
\* and switched, and waits time out.
LEMMA FlagsKernel ==
  ASSUME Hazard = {}, \A t \in Task : "semabort" \notin Calls[t], FlagInv,
         KNext, ResetFlags, UNCHANGED <<Flags, walk, untaken>>
  PROVE  FlagInv'
<1>1. /\ FlagBase' /\ CallsKept
      /\ \A u \in Task : /\ os'.PendData[u] \subseteq os.PendData[u]
                         /\ os'.PendOn[u] \in {os.PendOn[u], "NOTHING", "TASK_SEM"}
                         /\ os'.PendData[u] = os.PendData[u] \/ os'.PendOn[u] = "NOTHING"
  BY FlagKind, ObjKernel DEF FlagInv, FlagBase
<1>2. ASSUME NEW u \in Task, os'.TaskState[u] # "DEL"
      PROVE  FlagsPend'[u] = FlagsPend[u] /\ FlagsOpt'[u] = FlagsOpt[u] /\ FlagsRdy'[u] = FlagsRdy[u]
  BY <1>2 DEF ResetFlags
<1>3. FlagTypes'
  <2>1. /\ FlagsPend' = [t \in Task |-> IF os'.TaskState[t] = "DEL" THEN {} ELSE FlagsPend[t]]
        /\ FlagsOpt' = [t \in Task |-> IF os'.TaskState[t] = "DEL" THEN {} ELSE FlagsOpt[t]]
        /\ FlagsRdy' = [t \in Task |-> IF os'.TaskState[t] = "DEL" THEN {} ELSE FlagsRdy[t]]
    BY DEF ResetFlags
  <2>2. /\ Flags' \in [Grp -> SUBSET Flag]
        /\ walk' \in [grp : Grp \cup {NoObj}, ptr : Task \cup {NoTask}, opt : SUBSET {"CLR", "NO_SCHED"}]
    BY DEF FlagInv, FlagTypes
  <2>3. FlagsPend \in [Task -> SUBSET Flag] /\ FlagsOpt \in [Task -> Modes] /\ FlagsRdy \in [Task -> SUBSET Flag]
    BY DEF FlagInv, FlagTypes
  <2>4. {} \in Modes
    BY DEF Modes
  <2>5. FlagsPend' \in [Task -> SUBSET Flag] /\ FlagsRdy' \in [Task -> SUBSET Flag]
    BY <2>1, <2>3
  <2>6. FlagsOpt' \in [Task -> Modes]
    BY <2>1, <2>3, <2>4
  <2> QED
    BY <2>2, <2>5, <2>6 DEF FlagTypes
<1>4. \A t \in Task : pc[t] # "wake" /\ pc'[t] # "wake"
  BY <1>1 DEF CallsKept, FlagInv, WalkInv, WalkAt
<1>5. ASSUME NEW u \in Task, os'.PendOn[u] = "FLAG"
      PROVE  /\ os.PendOn[u] = "FLAG" /\ arg'[u] = arg[u] /\ os'.PendData[u] = os.PendData[u]
             /\ os'.TaskState[u] # "DEL"
  <2>1. os.PendOn[u] = "FLAG" /\ os'.PendData[u] = os.PendData[u]
    BY <1>1, <1>5
  <2>2. InCall(u)
    BY <2>1, WaiterInList DEF FlagInv
  <2>3. os'.TaskState[u] # "DEL"
    BY <1>1, <1>5 DEF FlagBase, ObjInv, PendOK, Pending
  <2> QED
    BY <1>1, <2>1, <2>2, <2>3 DEF CallsKept, Kept
<1>6. WaitLink'
  BY <1>5 DEF WaitLink, FlagInv
<1>7. RestInv'
  <2> SUFFICES ASSUME NEW u \in Task, MetWaiter(u)' PROVE FALSE
    BY DEF RestInv
  <2>1. os'.PendOn[u] = "FLAG"
    BY DEF MetWaiter
  <2>2. /\ os.PendOn[u] = "FLAG" /\ arg'[u] = arg[u]
        /\ FlagsPend'[u] = FlagsPend[u] /\ FlagsOpt'[u] = FlagsOpt[u]
    BY <1>2, <1>5, <2>1
  <2>3. MetWaiter(u)
    BY <2>2 DEF MetWaiter
  <2> QED
    BY <1>4, <2>3 DEF FlagInv, RestInv
<1>8. ReturnsWhatItWanted'
  <2> SUFFICES ASSUME NEW u \in Task, HasGot(u)' PROVE GotRight(u)'
    BY DEF ReturnsWhatItWanted, HasGot, GotRight
  <2>1. InCall(u)' /\ os'.TaskState[u] # "DEL" /\ arg'[u] \in Grp /\ os'.PendOn[u] = "NOTHING"
        /\ os'.PendStatus[u] = "OK"
    BY FlagAssumption DEF HasGot, InCall, InPend
  <2>2. /\ InCall(u) /\ arg'[u] = arg[u] /\ os.PendOn[u] = "NOTHING" /\ os.PendStatus[u] = "OK"
    BY <1>1, <2>1 DEF CallsKept, Kept
  <2>3. HasGot(u)
    BY <2>1, <2>2 DEF HasGot, InCall, InPend
  <2>4. GotRight(u)
    BY <2>3, ReturnsTasks DEF FlagInv
  <2> QED
    BY <1>2, <2>1, <2>4 DEF GotRight
<1> QED
  BY <1>1, <1>3, <1>4, <1>6, <1>7, <1>8 DEF FlagInv, WalkInv

\* Only the running task can be in OS_FlagPost's loop.
LEMMA NobodyInLoop ==
  ASSUME FlagInv, os.OSRunning => pc[cur] # "wake"
  PROVE  \A u \in Task : pc[u] # "wake" /\ ~MetWaiter(u)
<1>1. \A u \in Task : pc[u] # "wake"
  BY DEF FlagInv, WalkInv, WalkAt
<1> QED
  BY <1>1 DEF FlagInv, RestInv

\* With fewer flags no waiter is met that was not met before.
LEMMA MetBefore ==
  ASSUME FlagInv, NEW u \in Task, SameCall(u), \A x \in Grp : Flags'[x] \subseteq Flags[x], MetWaiter(u)'
  PROVE  MetWaiter(u)
<1>1. os.PendOn[u] = "FLAG" /\ Satisfied(Flags'[arg[u]], FlagsPend[u], FlagsOpt[u])
  BY DEF MetWaiter, SameCall
<1>2. arg[u] \in Grp
  BY <1>1 DEF FlagInv, WaitLink
<1>3. Satisfied(Flags[arg[u]], FlagsPend[u], FlagsOpt[u])
  BY <1>1, <1>2, SatisfiedMono
<1> QED
  BY <1>1, <1>3 DEF MetWaiter

\* OSFlagPend takes the flags that are there, or waits.
LEMMA FlagsPends ==
  ASSUME Hazard = {}, FlagInv, NEW t \in Task, NEW g \in Grp, NEW f \in WaitFlags,
         NEW d \in Timeouts \cup {0}, NEW opt \in WaitModes, OSFlagPend(t, g, f, d, opt)
  PROVE  FlagInv'
<1>1. t = cur /\ os.OSRunning /\ pc[t] = "app" /\ Call(t, "flagpend")
  BY CallLemma DEF FlagInv, FlagBase, ObjInv, OSFlagPend
<1>2. \A u \in Task : pc[u] # "wake" /\ ~MetWaiter(u)
  BY <1>1, NobodyInLoop
<1>3. f \in SUBSET Flag /\ opt \in Modes
  BY FlagAssumption DEF Modes
<1>4. CASE /\ Flags' = Consume(Flags, g, Flags[g] \cap f, opt)
           /\ FlagsRdy' = [FlagsRdy EXCEPT ![t] = Flags[g] \cap f]
           /\ UNCHANGED <<os, pc, arg, FlagsPend, FlagsOpt, tickPtr, tmrCtr, boot, walk>>
  <2>1. FlagBase'
    BY <1>4, ObjStutter DEF FlagInv, FlagBase, kvars
  <2>2. Flags' \in [Grp -> SUBSET Flag] /\ \A x \in Grp : Flags'[x] \subseteq Flags[x]
    BY <1>4, ConsumeShrinks DEF FlagInv, FlagTypes
  <2>3. FlagTypes'
    BY <1>3, <1>4, <2>2 DEF FlagInv, FlagTypes
  <2>4. Creating' = Creating
    BY <1>4 DEF Creating
  <2>5. \A u \in Task \ {t} : SameCall(u)
    BY <1>4 DEF SameCall, FlagInv, FlagTypes
  <2>6. WaitLink'
    BY <1>4 DEF FlagInv, WaitLink
  <2>7. os.PendOn[t] = "NOTHING"
    BY <1>1, ObjRunner DEF FlagInv, FlagBase
  <2>8. RestInv' /\ WalkInv'
    <3>1. \A u \in Task : ~MetWaiter(u)'
      <4>1. ~MetWaiter(t)'
        BY <1>4, <2>7 DEF MetWaiter
      <4>2. ASSUME NEW u \in Task \ {t}, MetWaiter(u)' PROVE FALSE
        BY <1>2, <2>2, <2>5, <4>2, MetBefore
      <4> QED
        BY <4>1, <4>2
    <3> QED
      BY <1>2, <1>4, <3>1 DEF RestInv, WalkInv
  <2>9. ReturnsWhatItWanted'
    <3> SUFFICES ASSUME NEW u \in Task, HasGot(u)' PROVE GotRight(u)'
      BY DEF ReturnsWhatItWanted, HasGot, GotRight
    <3>1. u # t
      BY <1>1, <1>4 DEF HasGot
    <3> QED
      BY <2>4, <2>5, <3>1, SameCallKept, ReturnsTasks DEF FlagInv
  <2> QED
    BY <2>1, <2>3, <2>6, <2>8, <2>9 DEF FlagInv
<1>5. CASE /\ ~Satisfied(Flags[g], f, opt) /\ os.OSSchedLockNestingCtr = 0
           /\ FlagsPend' = [FlagsPend EXCEPT ![t] = f]
           /\ FlagsOpt' = [FlagsOpt EXCEPT ![t] = opt]
           /\ FlagsRdy' = [FlagsRdy EXCEPT ![t] = {}]
           /\ os' = OS_Pend(os, t, g, "FLAG", d) /\ Goto(t, "pend") /\ arg' = [arg EXCEPT ![t] = g]
           /\ UNCHANGED <<Flags, tickPtr, tmrCtr, boot, walk>>
  <2>1. FlagBase' /\ Creating' = Creating /\ Blocks(os, os', t, g, "FLAG", d)
    BY <1>1, <1>5, FlagKind, SameLike, ObjPend DEF FlagInv, FlagBase
  <2>2. FlagTypes'
    BY <1>3, <1>5 DEF FlagInv, FlagTypes
  <2>3. /\ pc \in [Task -> PC] /\ arg \in [Task -> Task \cup Obj \cup {NoTask, NoObj}]
        /\ os.TaskState \in [Task -> State] /\ os.PendOn \in [Task -> PendOnSet]
        /\ os.PendStatus \in [Task -> StatusSet] /\ os.PendData \in [Task -> SUBSET Obj]
    BY DEF FlagInv, FlagBase, ObjInv, KInv, KTypeOK, KState
  <2>4. /\ os'.PendOn[t] = "FLAG" /\ os'.PendData[t] = {g}
        /\ \A u \in Task \ {t} : /\ os'.TaskState[u] = os.TaskState[u] /\ os'.PendOn[u] = os.PendOn[u]
                                 /\ os'.PendData[u] = os.PendData[u] /\ os'.PendStatus[u] = os.PendStatus[u]
    BY <2>1, <2>3, FlagAssumption, CoreAssumption DEF Blocks
  <2>5. pc'[t] = "pend" /\ arg'[t] = g /\ \A u \in Task \ {t} : pc'[u] = pc[u] /\ arg'[u] = arg[u]
    BY <1>5, <2>3 DEF Goto
  <2>6. /\ FlagsPend'[t] = f /\ FlagsOpt'[t] = opt
        /\ \A u \in Task \ {t} : FlagsPend'[u] = FlagsPend[u] /\ FlagsOpt'[u] = FlagsOpt[u] /\ FlagsRdy'[u] = FlagsRdy[u]
    BY <1>5 DEF FlagInv, FlagTypes
  <2>7. \A u \in Task \ {t} : SameCall(u)
    BY <2>4, <2>5, <2>6 DEF SameCall
  <2>8. WaitLink'
    <3> SUFFICES ASSUME NEW u \in Task, os'.PendOn[u] = "FLAG"
                 PROVE  arg'[u] \in Grp /\ os'.PendData[u] = {arg'[u]}
      BY DEF WaitLink
    <3> QED
      BY <2>4, <2>5, <2>7 DEF FlagInv, WaitLink, SameCall
  <2>9. RestInv' /\ WalkInv'
    <3>1. \A u \in Task : ~MetWaiter(u)'
      <4>1. ~MetWaiter(t)'
        BY <1>5, <2>5, <2>6 DEF MetWaiter
      <4>2. ASSUME NEW u \in Task \ {t}, MetWaiter(u)' PROVE FALSE
        BY <1>2, <1>5, <2>7, <4>2, MetBefore
      <4> QED
        BY <4>1, <4>2
    <3> QED
      BY <1>2, <2>5, <3>1 DEF RestInv, WalkInv
  <2>10. ReturnsWhatItWanted'
    <3> SUFFICES ASSUME NEW u \in Task, HasGot(u)' PROVE GotRight(u)'
      BY DEF ReturnsWhatItWanted, HasGot, GotRight
    <3>1. u # t
      BY <2>4 DEF HasGot
    <3> QED
      BY <2>1, <2>7, <3>1, SameCallKept, ReturnsTasks DEF FlagInv
  <2> QED
    BY <2>1, <2>2, <2>8, <2>9, <2>10 DEF FlagInv
<1> QED
  BY <1>4, <1>5 DEF OSFlagPend

\* The task runs again and returns; flags may be consumed.
LEMMA FlagsReturns ==
  ASSUME FlagInv, NEW t \in Task, OSFlagPendReturn(t)
  PROVE  FlagInv'
<1>1. /\ os.OSRunning /\ t = cur /\ pc[t] = "ret" /\ arg[t] \in Grp /\ os' = os
      /\ pc' = [pc EXCEPT ![t] = "app"] /\ arg' = [arg EXCEPT ![t] = NoTask]
      /\ UNCHANGED <<tickPtr, tmrCtr, boot, FlagsPend, FlagsOpt, FlagsRdy, walk>>
  BY DEF OSFlagPendReturn, Goto
<1>2. \A u \in Task : pc[u] # "wake" /\ ~MetWaiter(u)
  BY <1>1, NobodyInLoop
<1>3. FlagBase' /\ Creating' = Creating
  BY <1>1, ObjStay DEF FlagInv, FlagBase
<1>4. Flags' \in [Grp -> SUBSET Flag] /\ \A x \in Grp : Flags'[x] \subseteq Flags[x]
  <2>1. CASE Flags' = Consume(Flags, arg[t], FlagsRdy[t], FlagsOpt[t])
    BY <1>1, <2>1, ConsumeShrinks DEF FlagInv, FlagTypes
  <2>2. CASE Flags' = Flags
    BY <2>2 DEF FlagInv, FlagTypes
  <2> QED
    BY <2>1, <2>2 DEF OSFlagPendReturn
<1>5. FlagTypes'
  BY <1>1, <1>4 DEF FlagInv, FlagTypes
<1>6. pc \in [Task -> PC] /\ arg \in [Task -> Task \cup Obj \cup {NoTask, NoObj}]
  BY DEF FlagInv, FlagBase, ObjInv, KInv, KTypeOK
<1>7. \A u \in Task \ {t} : SameCall(u)
  BY <1>1, <1>6 DEF SameCall
<1>8. os'.PendOn[t] = "NOTHING" /\ pc'[t] = "app"
  <2>1. os.PendOn[t] = "NOTHING"
    BY <1>1, ObjRunner DEF FlagInv, FlagBase
  <2> QED
    BY <1>1, <1>6, <2>1
<1>9. WaitLink'
  <2> SUFFICES ASSUME NEW u \in Task, os'.PendOn[u] = "FLAG"
               PROVE  arg'[u] \in Grp /\ os'.PendData[u] = {arg'[u]}
    BY DEF WaitLink
  <2> QED
    BY <1>7, <1>8 DEF FlagInv, WaitLink, SameCall
<1>10. RestInv' /\ WalkInv'
  <2>1. ASSUME NEW u \in Task, MetWaiter(u)' PROVE FALSE
    <3>1. u # t
      BY <1>8, <2>1 DEF MetWaiter
    <3> QED
      BY <1>2, <1>4, <1>7, <2>1, <3>1, MetBefore
  <2>2. \A u \in Task : pc'[u] # "wake"
    BY <1>2, <1>7, <1>8 DEF SameCall
  <2> QED
    BY <2>1, <2>2 DEF RestInv, WalkInv
<1>11. ReturnsWhatItWanted'
  <2> SUFFICES ASSUME NEW u \in Task, HasGot(u)' PROVE GotRight(u)'
    BY DEF ReturnsWhatItWanted, HasGot, GotRight
  <2>1. u # t
    BY <1>8 DEF HasGot
  <2> QED
    BY <1>3, <1>7, <2>1, SameCallKept, ReturnsTasks DEF FlagInv
<1> QED
  BY <1>3, <1>5, <1>9, <1>10, <1>11 DEF FlagInv

\* OSFlagPost changes the flags of a group and begins the loop at the head of its list.
LEMMA FlagsPosts ==
  ASSUME Hazard = {}, FlagInv, NEW t \in Task, NEW g \in Grp, NEW f \in PostFlags,
         NEW opt \in FlagPostOpts, OSFlagPost(t, g, f, opt)
  PROVE  FlagInv'
<1>1. /\ t = cur /\ os.OSRunning /\ pc[t] = "app" /\ os' = os
      /\ UNCHANGED <<arg, tickPtr, tmrCtr, boot, FlagsPend, FlagsOpt, FlagsRdy>>
  BY CallLemma DEF FlagInv, FlagBase, ObjInv, OSFlagPost
<1>2. \A u \in Task : pc[u] # "wake" /\ ~MetWaiter(u)
  BY <1>1, NobodyInLoop
<1>3. f \in SUBSET Flag /\ opt \in SUBSET {"CLR", "NO_SCHED"} /\ g \in Obj
  BY FlagAssumption
<1>4. /\ Flags' \in [Grp -> SUBSET Flag] /\ \A x \in Grp : x # g => Flags'[x] = Flags[x]
  BY <1>3 DEF OSFlagPost, FlagInv, FlagTypes
<1>5. /\ pc \in [Task -> PC] /\ os.PendList \in [Obj -> Seq(Task)] /\ os \in KState /\ PendOK(os)
      /\ os.PendList[g] \in Seq(Task)
  BY <1>3 DEF FlagInv, FlagBase, ObjInv, KInv, KTypeOK, KState
<1>6. \A u \in Task : MetWaiter(u)' => arg[u] = g /\ u \in Range(os.PendList[g])
  <2> SUFFICES ASSUME NEW u \in Task, MetWaiter(u)' PROVE arg[u] = g /\ u \in Range(os.PendList[g])
    OBVIOUS
  <2>1. os.PendOn[u] = "FLAG" /\ Satisfied(Flags'[arg[u]], FlagsPend[u], FlagsOpt[u])
    BY <1>1 DEF MetWaiter
  <2>2. arg[u] \in Grp /\ u \in Range(os.PendList[arg[u]])
    BY <2>1, WaiterInList DEF FlagInv
  <2>3. arg[u] = g
    BY <1>2, <1>4, <2>1, <2>2 DEF MetWaiter
  <2> QED
    BY <2>2, <2>3
<1>7. WaitLink'
  BY <1>1 DEF FlagInv, WaitLink
<1>8. CASE os.PendList[g] = <<>> /\ pc' = pc /\ walk' = walk
  <2>1. FlagBase'
    BY <1>1, <1>8, ObjStutter DEF FlagInv, FlagBase, kvars
  <2>2. FlagTypes'
    BY <1>1, <1>4, <1>8 DEF FlagInv, FlagTypes
  <2>3. \A u \in Task : ~MetWaiter(u)'
    <3>1. Range(os.PendList[g]) = {}
      BY <1>8 DEF Range
    <3> QED
      BY <1>6, <3>1
  <2>4. RestInv' /\ WalkInv'
    BY <1>2, <1>8, <2>3 DEF RestInv, WalkInv
  <2>5. ReturnsWhatItWanted'
    <3>1. Creating' = Creating
      BY <1>1, <1>8 DEF Creating
    <3>2. \A u \in Task : SameCall(u)
      BY <1>1, <1>8 DEF SameCall
    <3> SUFFICES ASSUME NEW u \in Task, HasGot(u)' PROVE GotRight(u)'
      BY DEF ReturnsWhatItWanted, HasGot, GotRight
    <3> QED
      BY <3>1, <3>2, SameCallKept, ReturnsTasks DEF FlagInv
  <2> QED
    BY <1>7, <2>1, <2>2, <2>4, <2>5 DEF FlagInv
<1>9. CASE /\ os.PendList[g] # <<>> /\ pc' = [pc EXCEPT ![t] = "wake"]
           /\ walk' = [grp |-> g, ptr |-> Head(os.PendList[g]), opt |-> opt]
  <2>1. FlagBase' /\ Creating' = Creating
    BY <1>1, <1>9, ObjStay DEF FlagInv, FlagBase
  <2>2. PICK L \in Seq(Task) : L = os.PendList[g]
    BY <1>5
  <2>3. /\ 1 \in DOMAIN L /\ L[1] = Head(L) /\ L[1] \in Task /\ L[1] \in Range(L) /\ DOMAIN L = 1 .. Len(L)
    <3>1. 1 \in DOMAIN L /\ L[1] = Head(L) /\ L[1] \in Task /\ DOMAIN L = 1 .. Len(L)
      BY <1>9, <2>2
    <3> QED
      BY <3>1 DEF Range
  <2>4. walk'.grp = g /\ walk'.ptr = L[1]
    BY <1>9, <2>2, <2>3
  <2>5. walk' \in [grp : Grp \cup {NoObj}, ptr : Task \cup {NoTask}, opt : SUBSET {"CLR", "NO_SCHED"}]
    BY <1>3, <1>9, <2>2, <2>3
  <2>6. FlagTypes'
    BY <1>1, <1>4, <2>5 DEF FlagInv, FlagTypes
  <2>7. pc'[t] = "wake" /\ \A u \in Task \ {t} : pc'[u] = pc[u]
    BY <1>5, <1>9
  <2>8. ASSUME NEW u \in Task, MetWaiter(u)' PROVE Ahead(u)'
    <3>1. arg'[u] = g /\ u \in Range(L)
      BY <1>1, <1>6, <2>2, <2>8
    <3>2. PICK i \in DOMAIN L : L[i] = u
      BY <3>1 DEF Range
    <3>3. 1 <= i
      BY <2>3
    <3>4. os'.PendList[walk'.grp] = L
      BY <1>1, <2>2, <2>4
    <3> QED
      BY <2>3, <2>4, <3>1, <3>2, <3>3, <3>4 DEF Ahead
  <2>9. WalkAt(t)'
    <3>1. os'.OSRunning /\ t = os'.OSTCBCurPtr /\ walk'.grp \in Grp
      BY <1>1, <2>4 DEF cur
    <3>2. walk'.ptr \in Range(os'.PendList[walk'.grp])
      BY <1>1, <2>2, <2>3, <2>4
    <3> QED
      BY <2>8, <3>1, <3>2 DEF WalkAt, cur
  <2>10. RestInv' /\ WalkInv'
    BY <1>2, <2>7, <2>9 DEF RestInv, WalkInv
  <2>11. ReturnsWhatItWanted'
    <3> SUFFICES ASSUME NEW u \in Task, HasGot(u)' PROVE GotRight(u)'
      BY DEF ReturnsWhatItWanted, HasGot, GotRight
    <3>1. u # t
      BY <2>7 DEF HasGot
    <3>2. SameCall(u)
      BY <1>1, <2>7, <3>1 DEF SameCall
    <3> QED
      BY <2>1, <3>2, SameCallKept, ReturnsTasks DEF FlagInv
  <2> QED
    BY <1>7, <2>1, <2>6, <2>10, <2>11 DEF FlagInv
<1> QED
  BY <1>8, <1>9 DEF OSFlagPost, Goto

\* The loop ends: it has passed all waiters.
LEMMA LoopEnds ==
  ASSUME FlagInv, NEW t \in Task, FlagPostLoop(t), walk.ptr = NoTask
  PROVE  FlagInv'
<1>1. PICK l \in {"app", "sched"} :
        /\ os.OSRunning /\ t = cur /\ pc[t] = "wake" /\ os' = os /\ pc' = [pc EXCEPT ![t] = l]
        /\ walk' = NoWalk /\ UNCHANGED <<arg, tickPtr, tmrCtr, boot, Flags, FlagsPend, FlagsOpt, FlagsRdy>>
  BY DEF FlagPostLoop, Goto
<1>2. FlagBase' /\ Creating' = Creating
  BY <1>1, ObjStay DEF FlagInv, FlagBase
<1>3. FlagTypes'
  BY <1>1 DEF FlagInv, FlagTypes, NoWalk
<1>4. /\ pc \in [Task -> PC] /\ os.PendList \in [Obj -> Seq(Task)]
  BY DEF FlagInv, FlagBase, ObjInv, KInv, KTypeOK, KState
<1>5. pc'[t] = l /\ \A u \in Task \ {t} : pc'[u] = pc[u]
  BY <1>1, <1>4
<1>6. \A u \in Task : pc'[u] # "wake"
  BY <1>1, <1>5 DEF FlagInv, WalkInv, WalkAt
<1>7. \A u \in Task : ~MetWaiter(u)
  <2>1. WalkAt(t)
    BY <1>1 DEF FlagInv, WalkInv
  <2>2. walk.grp \in Obj /\ os.PendList[walk.grp] \in Seq(Task)
    BY <1>4, <2>1, FlagAssumption DEF WalkAt
  <2>3. \A k \in DOMAIN os.PendList[walk.grp] : os.PendList[walk.grp][k] # NoTask
    BY <2>2, CoreAssumption
  <2> QED
    BY <2>1, <2>3 DEF WalkAt, Ahead
<1>8. RestInv' /\ WalkInv'
  <2>1. \A u \in Task : ~MetWaiter(u)'
    BY <1>1, <1>7 DEF MetWaiter
  <2> QED
    BY <1>6, <2>1 DEF RestInv, WalkInv
<1>9. WaitLink'
  BY <1>1 DEF FlagInv, WaitLink
<1>10. ReturnsWhatItWanted'
  <2> SUFFICES ASSUME NEW u \in Task, HasGot(u)' PROVE GotRight(u)'
    BY DEF ReturnsWhatItWanted, HasGot, GotRight
  <2>1. u # t
    BY <1>5 DEF HasGot
  <2>2. SameCall(u)
    BY <1>1, <1>5, <2>1 DEF SameCall
  <2> QED
    BY <1>2, <2>2, SameCallKept, ReturnsTasks DEF FlagInv
<1> QED
  BY <1>2, <1>3, <1>8, <1>9, <1>10 DEF FlagInv

\* The loop stands at a waiter of its group.
LEMMA LoopAt ==
  ASSUME FlagInv, NEW t \in Task, pc[t] = "wake", walk.ptr # NoTask
  PROVE  /\ walk.grp \in Grp /\ walk.grp \in Obj /\ walk.ptr \in Task
         /\ walk.grp \in os.PendData[walk.ptr] /\ arg[walk.ptr] = walk.grp /\ os.PendOn[walk.ptr] = "FLAG"
         /\ os.PendList[walk.grp] \in Seq(Task) /\ walk.ptr \in Range(os.PendList[walk.grp])
         /\ \E S : IsList(os.PendList[walk.grp], S)
         /\ \A u \in Task : MetWaiter(u) => Ahead(u)
<1>1. WalkAt(t)
  BY DEF FlagInv, WalkInv
<1>2. /\ walk.grp \in Grp /\ walk.ptr \in Range(os.PendList[walk.grp])
      /\ \A u \in Task : MetWaiter(u) => Ahead(u)
  BY <1>1 DEF WalkAt
<1>3. /\ os \in KState /\ PendOK(os) /\ walk.grp \in Obj /\ os.PendList \in [Obj -> Seq(Task)]
  BY <1>2, FlagAssumption DEF FlagInv, FlagBase, ObjInv, KInv, KTypeOK, KState
<1>4. IsList(os.PendList[walk.grp], {u \in Task : walk.grp \in os.PendData[u]})
  BY <1>3 DEF PendOK
<1>5. Range(os.PendList[walk.grp]) = {u \in Task : walk.grp \in os.PendData[u]}
  BY <1>3, ListHasWaiter
<1>6. walk.ptr \in Task /\ walk.grp \in os.PendData[walk.ptr]
  BY <1>2, <1>5
<1>7. arg[walk.ptr] = walk.grp /\ os.PendOn[walk.ptr] \in {"FLAG"}
  BY <1>6, FlagKind, ObjWaiter DEF FlagInv, FlagBase
<1> QED
  BY <1>2, <1>3, <1>4, <1>6, <1>7

\* The loop leaves a waiter behind whose flags are not there.
LEMMA LoopPasses ==
  ASSUME Hazard = {}, FlagInv, NEW t \in Task, FlagPostLoop(t), walk.ptr # NoTask,
         ~Satisfied(Flags[walk.grp], FlagsPend[walk.ptr], FlagsOpt[walk.ptr])
  PROVE  FlagInv'
<1>1. /\ os.OSRunning /\ t = cur /\ pc[t] = "wake" /\ os' = os /\ pc' = pc
      /\ walk' = [walk EXCEPT !.ptr = After(os.PendList[walk.grp], walk.ptr)]
      /\ UNCHANGED <<arg, tickPtr, tmrCtr, boot, Flags, FlagsPend, FlagsOpt, FlagsRdy>>
  BY DEF FlagPostLoop
<1>2. FlagBase'
  BY <1>1, ObjStutter DEF FlagInv, FlagBase, kvars
<1>3. /\ walk.grp \in Grp /\ walk.grp \in Obj /\ walk.ptr \in Task
      /\ walk.grp \in os.PendData[walk.ptr] /\ arg[walk.ptr] = walk.grp /\ os.PendOn[walk.ptr] = "FLAG"
      /\ os.PendList[walk.grp] \in Seq(Task) /\ walk.ptr \in Range(os.PendList[walk.grp])
      /\ \E S : IsList(os.PendList[walk.grp], S)
      /\ \A u \in Task : MetWaiter(u) => Ahead(u)
  BY <1>1, LoopAt
<1>4. PICK L \in Seq(Task), h \in Task, g \in Grp :
        L = os.PendList[walk.grp] /\ h = walk.ptr /\ g = walk.grp
  BY <1>3
<1>5. PICK n \in 1 .. Len(L) :
        /\ L[n] = h /\ \A i \in 1 .. Len(L) : L[i] = h => i = n
        /\ After(L, h) = IF n < Len(L) THEN L[n + 1] ELSE NoTask
  <2>1. h \in Range(L) /\ \E S : IsList(L, S)
    BY <1>3, <1>4
  <2> QED
    BY <2>1, NextWaiter
<1>6. DOMAIN L = 1 .. Len(L) /\ Len(L) \in Nat
  OBVIOUS
<1>7. walk'.grp = g /\ walk'.ptr = After(L, h)
      /\ walk' \in [grp : Grp \cup {NoObj}, ptr : Task \cup {NoTask}, opt : SUBSET {"CLR", "NO_SCHED"}]
  <2>1. After(L, h) \in Task \cup {NoTask}
    BY <1>5, <1>6
  <2>2. walk \in [grp : Grp \cup {NoObj}, ptr : Task \cup {NoTask}, opt : SUBSET {"CLR", "NO_SCHED"}]
    BY DEF FlagInv, FlagTypes
  <2> QED
    BY <1>1, <1>4, <2>1, <2>2
<1>8. FlagTypes'
  BY <1>1, <1>7 DEF FlagInv, FlagTypes
<1>9. ASSUME NEW u \in Task, MetWaiter(u)' PROVE Ahead(u)'
  <2>1. MetWaiter(u)
    BY <1>1, <1>9 DEF MetWaiter
  <2>2. u # h
    BY <1>3, <1>4, <2>1 DEF MetWaiter
  <2>3. arg[u] = g /\ \E k, i \in DOMAIN L : k <= i /\ L[k] = h /\ L[i] = u
    BY <1>3, <1>4, <2>1 DEF Ahead
  <2>4. PICK k \in DOMAIN L, i \in DOMAIN L : k <= i /\ L[k] = h /\ L[i] = u
    BY <2>3
  <2>5. k = n /\ n + 1 <= i /\ n + 1 \in DOMAIN L /\ n < Len(L)
    BY <1>5, <1>6, <2>2, <2>4
  <2>6. L[n + 1] = walk'.ptr
    BY <1>5, <1>7, <2>5
  <2>7. os'.PendList[walk'.grp] = L /\ arg'[u] = walk'.grp
    BY <1>1, <1>4, <1>7, <2>3
  <2> QED
    BY <2>4, <2>5, <2>6, <2>7 DEF Ahead
<1>10. walk'.ptr # NoTask => walk'.ptr \in Range(os'.PendList[walk'.grp])
  <2>1. n < Len(L) => n + 1 \in DOMAIN L
    BY <1>6
  <2>2. os'.PendList[walk'.grp] = L
    BY <1>1, <1>4, <1>7
  <2> QED
    BY <1>5, <1>7, <2>1, <2>2 DEF Range
<1>11. WalkAt(t)'
  BY <1>1, <1>7, <1>9, <1>10 DEF WalkAt, cur
<1>12. RestInv' /\ WalkInv'
  BY <1>1, <1>11 DEF RestInv, WalkInv, FlagInv, WalkAt
<1>13. WaitLink'
  BY <1>1 DEF FlagInv, WaitLink
<1>14. ReturnsWhatItWanted'
  <2>1. Creating' = Creating
    BY <1>1 DEF Creating
  <2> SUFFICES ASSUME NEW u \in Task, HasGot(u)' PROVE GotRight(u)'
    BY DEF ReturnsWhatItWanted, HasGot, GotRight
  <2>2. SameCall(u)
    BY <1>1 DEF SameCall
  <2> QED
    BY <2>1, <2>2, SameCallKept, ReturnsTasks DEF FlagInv
<1> QED
  BY <1>2, <1>8, <1>12, <1>13, <1>14 DEF FlagInv

\* The loop readies a waiter whose flags are there.
LEMMA LoopTurns ==
  ASSUME FlagInv, NEW t \in Task, FlagPostLoop(t), walk.ptr # NoTask,
         Satisfied(Flags[walk.grp], FlagsPend[walk.ptr], FlagsOpt[walk.ptr])
  PROVE  FlagInv'
<1>1. /\ os.OSRunning /\ t = cur /\ pc[t] = "wake" /\ os' = OS_FlagTaskRdy(os, walk.ptr)
      /\ FlagsRdy' = [FlagsRdy EXCEPT ![walk.ptr] = Flags[walk.grp] \cap FlagsPend[walk.ptr]]
      /\ walk' = [walk EXCEPT !.ptr = After(os.PendList[walk.grp], walk.ptr)]
      /\ UNCHANGED <<pc, arg, tickPtr, tmrCtr, boot, Flags, FlagsPend, FlagsOpt>>
  BY DEF FlagPostLoop
<1>2. /\ walk.grp \in Grp /\ walk.grp \in Obj /\ walk.ptr \in Task
      /\ walk.grp \in os.PendData[walk.ptr] /\ arg[walk.ptr] = walk.grp /\ os.PendOn[walk.ptr] = "FLAG"
      /\ os.PendList[walk.grp] \in Seq(Task) /\ walk.ptr \in Range(os.PendList[walk.grp])
      /\ \E S : IsList(os.PendList[walk.grp], S)
      /\ \A u \in Task : MetWaiter(u) => Ahead(u)
  BY <1>1, LoopAt
<1>3. PICK L \in Seq(Task), h \in Task, g \in Grp :
        L = os.PendList[walk.grp] /\ h = walk.ptr /\ g = walk.grp
  BY <1>2
<1>4. /\ FlagBase' /\ Creating' = Creating /\ h # t
      /\ os'.OSRunning /\ os'.OSTCBCurPtr = cur
      /\ os'.PendOn[h] = "NOTHING"
      /\ \A u \in Task : os'.PendData[u] = IF u = h THEN {} ELSE os.PendData[u]
      /\ \A u \in Task \ {h} : /\ os'.TaskState[u] = os.TaskState[u] /\ os'.PendOn[u] = os.PendOn[u]
                               /\ os'.PendStatus[u] = os.PendStatus[u]
      /\ os'.PendList[g] = Unlink(L, h)
  <2>1. g \in os.PendData[h] /\ os' = OS_FlagTaskRdy(os, h) /\ "FLAG" \in {"FLAG"}
    BY <1>1, <1>2, <1>3
  <2> QED
    BY <1>1, <1>3, <2>1, FlagKind, LoopReadies DEF FlagInv, FlagBase
<1>5. PICK n \in 1 .. Len(L) :
        /\ L[n] = h /\ \A i \in 1 .. Len(L) : L[i] = h => i = n
        /\ After(L, h) = IF n < Len(L) THEN L[n + 1] ELSE NoTask
        /\ Len(Unlink(L, h)) = Len(L) - 1
        /\ \A i \in 1 .. Len(L) - 1 : Unlink(L, h)[i] = IF i < n THEN L[i] ELSE L[i + 1]
  <2>1. h \in Range(L) /\ \E S : IsList(L, S)
    BY <1>2, <1>3
  <2> QED
    BY <2>1, NextWaiter
<1>6. DOMAIN L = 1 .. Len(L) /\ Len(L) \in Nat
  OBVIOUS
<1>7. walk'.grp = g /\ walk'.ptr = After(L, h)
      /\ walk' \in [grp : Grp \cup {NoObj}, ptr : Task \cup {NoTask}, opt : SUBSET {"CLR", "NO_SCHED"}]
  <2>1. After(L, h) \in Task \cup {NoTask}
    BY <1>5, <1>6
  <2>2. walk \in [grp : Grp \cup {NoObj}, ptr : Task \cup {NoTask}, opt : SUBSET {"CLR", "NO_SCHED"}]
    BY DEF FlagInv, FlagTypes
  <2> QED
    BY <1>1, <1>3, <2>1, <2>2
<1>8. /\ FlagTypes' /\ FlagsRdy'[h] = Flags[g] \cap FlagsPend[h]
      /\ \A u \in Task \ {h} : FlagsRdy'[u] = FlagsRdy[u]
  <2>1. FlagsRdy' = [FlagsRdy EXCEPT ![h] = Flags[g] \cap FlagsPend[h]]
    BY <1>1, <1>3
  <2>2. Flags[g] \cap FlagsPend[h] \in SUBSET Flag
    BY DEF FlagInv, FlagTypes
  <2> QED
    BY <1>1, <1>7, <2>1, <2>2 DEF FlagInv, FlagTypes
<1>9. \A u \in Task \ {h} : SameCall(u)
  BY <1>1, <1>4, <1>8 DEF SameCall
<1>10. PICK M \in Seq(Task) : M = Unlink(L, h)
  BY UnlinkIsList
<1>11. /\ DOMAIN M = 1 .. Len(L) - 1 /\ os'.PendList[walk'.grp] = M
       /\ \A i \in 1 .. Len(L) - 1 : M[i] = IF i < n THEN L[i] ELSE L[i + 1]
  BY <1>4, <1>5, <1>7, <1>10
<1>12. n < Len(L) => n \in DOMAIN M /\ M[n] = walk'.ptr
  <2>1. n < Len(L) => n \in 1 .. Len(L) - 1 /\ ~(n < n)
    BY <1>6
  <2> QED
    BY <1>5, <1>7, <1>11, <2>1
<1>13. ASSUME NEW u \in Task, MetWaiter(u)' PROVE Ahead(u)'
  <2>1. u # h
    BY <1>4, <1>13 DEF MetWaiter
  <2>2. MetWaiter(u)
    BY <1>1, <1>9, <1>13, <2>1 DEF MetWaiter, SameCall
  <2>3. arg[u] = g /\ \E k, i \in DOMAIN L : k <= i /\ L[k] = h /\ L[i] = u
    BY <1>2, <1>3, <2>2 DEF Ahead
  <2>4. PICK k \in DOMAIN L, i \in DOMAIN L : k <= i /\ L[k] = h /\ L[i] = u
    BY <2>3
  <2>5. k = n /\ n + 1 <= i /\ n < Len(L)
    BY <1>5, <1>6, <2>1, <2>4
  <2>6. PICK j \in Int : j = i - 1
    BY <1>6, <2>4
  <2>7. j \in 1 .. Len(L) - 1 /\ n <= j /\ ~(j < n) /\ j + 1 = i
    BY <1>6, <2>4, <2>5, <2>6
  <2>8. M[j] = u /\ j \in DOMAIN M
    BY <1>11, <2>4, <2>7
  <2>9. n \in DOMAIN M /\ M[n] = walk'.ptr
    BY <1>12, <2>5
  <2>10. arg'[u] = walk'.grp
    BY <1>1, <1>7, <2>3
  <2> QED
    BY <1>11, <2>7, <2>8, <2>9, <2>10 DEF Ahead
<1>14. walk'.ptr # NoTask => walk'.ptr \in Range(os'.PendList[walk'.grp])
  BY <1>5, <1>7, <1>11, <1>12 DEF Range
<1>15. WalkAt(t)'
  <2>1. t = os'.OSTCBCurPtr /\ walk'.grp \in Grp /\ os'.OSRunning
    BY <1>1, <1>4, <1>7
  <2> QED
    BY <1>13, <1>14, <2>1 DEF WalkAt, cur
<1>16. RestInv' /\ WalkInv'
  <2>1. \A u \in Task : pc'[u] = "wake" => u = t
    BY <1>1 DEF FlagInv, WalkInv, WalkAt
  <2> QED
    BY <1>1, <1>15, <2>1 DEF RestInv, WalkInv
<1>17. WaitLink'
  <2> SUFFICES ASSUME NEW u \in Task, os'.PendOn[u] = "FLAG"
               PROVE  arg'[u] \in Grp /\ os'.PendData[u] = {arg'[u]}
    BY DEF WaitLink
  <2>1. u # h
    BY <1>4
  <2> QED
    BY <1>9, <2>1 DEF FlagInv, WaitLink, SameCall
<1>18. ReturnsWhatItWanted'
  <2> SUFFICES ASSUME NEW u \in Task, HasGot(u)' PROVE GotRight(u)'
    BY DEF ReturnsWhatItWanted, HasGot, GotRight
  <2>1. CASE u = h
    <3>1. /\ Flags[g] \cap FlagsPend[h] \subseteq FlagsPend[h]
          /\ Satisfied(Flags[g] \cap FlagsPend[h], FlagsPend[h], FlagsOpt[h])
      BY <1>3, SatisfiedBy
    <3> QED
      BY <1>1, <1>8, <2>1, <3>1 DEF GotRight
  <2>2. CASE u # h
    BY <1>4, <1>9, <2>2, SameCallKept, ReturnsTasks DEF FlagInv
  <2> QED
    BY <2>1, <2>2
<1> QED
  BY <1>4, <1>8, <1>16, <1>17, <1>18 DEF FlagInv

\* One step of any task, of the tick or of the flag services, or of nobody.
LEMMA FlagsStep ==
  ASSUME Hazard = {}, \A t \in Task : "semabort" \notin Calls[t], FlagInv, [FNext]_fvars
  PROVE  FlagInv'
<1>1. CASE KNext /\ ResetFlags /\ UNCHANGED <<Flags, walk, untaken>>
  BY <1>1, FlagsKernel
<1>2. ASSUME NEW t \in Task, FlagPostLoop(t)
      PROVE  FlagInv'
  BY <1>2, LoopEnds, LoopPasses, LoopTurns
<1>3. ASSUME NEW t \in Task, FlagStep(t)
      PROVE  FlagInv'
  BY <1>2, <1>3, FlagsPends, FlagsPosts, FlagsReturns DEF FlagStep
<1>4. CASE UNCHANGED fvars
  <2>1. FlagBase'
    BY <1>4, ObjStutter DEF fvars, kvars, FlagInv, FlagBase
  <2>2. FlagTypes' /\ WaitLink'
    BY <1>4 DEF fvars, FlagInv, FlagTypes, WaitLink
  <2>3. WalkInv' /\ RestInv'
    BY <1>4 DEF fvars, FlagInv, WalkInv, WalkAt, RestInv, MetWaiter, Ahead, cur
  <2>4. ReturnsWhatItWanted'
    BY <1>4 DEF fvars, FlagInv, ReturnsWhatItWanted, Creating
  <2> QED
    BY <2>1, <2>2, <2>3, <2>4 DEF FlagInv
<1> QED
  BY <1>1, <1>3, <1>4 DEF FNext

\* The invariant holds in every behaviour.
LEMMA FlagInvHolds ==
  ASSUME Hazard = {}, \A t \in Task : "semabort" \notin Calls[t]
  PROVE  FSpec => []FlagInv
<1>1. FInit => FlagInv
  BY FlagsInit
<1>2. FlagInv /\ [FNext]_fvars => FlagInv'
  BY FlagsStep
<1> QED
  BY <1>1, <1>2, PTL DEF FSpec

\* A task leaves OSFlagPend without an error only with flags that satisfy its call and
\* that it asked for, for any number of groups, flags and tasks, whoever is suspended,
\* resumed, deleted or times out while OS_FlagPost's loop and the returns interleave.
THEOREM FlagsReturnsWhatItWanted ==
  ASSUME Hazard = {}, \A t \in Task : "semabort" \notin Calls[t]
  PROVE  FSpec => []ReturnsWhatItWanted
<1>1. FlagInv => ReturnsWhatItWanted
  BY DEF FlagInv
<1> QED
  BY <1>1, FlagInvHolds, PTL

\* No wake-up is missed: outside OS_FlagPost's loop no task waits for flags that are
\* there, though the waiters may be out of the order of their priorities and the next
\* one is looked up before the loop takes one out of the list.
THEOREM FlagsNoWaiterSatisfied ==
  ASSUME Hazard = {}, \A t \in Task : "semabort" \notin Calls[t]
  PROVE  FSpec => []NoWaiterSatisfied
<1>1. FlagInv => NoWaiterSatisfied
  <2> SUFFICES ASSUME FlagInv, ~IntDisabled PROVE \A u \in Task : ~MetWaiter(u)
    BY DEF NoWaiterSatisfied, MetWaiter
  <2> QED
    BY NobodyInLoop DEF IntDisabled
<1> QED
  BY <1>1, FlagInvHolds, PTL
-----------------------------------------------------------------------------
(* Flags that are posted stay. *)

\* Task u has flags of the group of its call in its hand, or may get them, and will
\* clear them when it returns.
Owns(u) == InCall(u) /\ arg[u] \in Grp /\ "CONSUME" \in FlagsOpt[u]

\* What no consuming call was given is set, and in nobody's hand.
GivenInv == /\ untaken \in [Grp -> SUBSET Flag] /\ FlagKept
            /\ \A u \in Task : Owns(u) => untaken[arg[u]] \cap FlagsRdy[u] = {}

\* Task u is no more in a call than before, or has nothing in its hand that anybody
\* else could still take.
HandKept(u) == Owns(u)' => \/ Owns(u) /\ arg'[u] = arg[u] /\ FlagsRdy'[u] = FlagsRdy[u]
                           \/ untaken'[arg'[u]] \cap FlagsRdy'[u] = {}

\* A step that gives flags away, or clears them together with the history.
LEMMA GivenLess ==
  ASSUME GivenInv, untaken' \in [Grp -> SUBSET Flag],
         \A x \in Grp : untaken'[x] \subseteq untaken[x] /\ untaken'[x] \subseteq Flags'[x],
         \A u \in Task : HandKept(u)
  PROVE  GivenInv'
<1>1. ASSUME NEW u \in Task, Owns(u)' PROVE untaken'[arg'[u]] \cap FlagsRdy'[u] = {}
  <2>1. CASE Owns(u) /\ arg'[u] = arg[u] /\ FlagsRdy'[u] = FlagsRdy[u]
    <3>1. arg[u] \in Grp /\ untaken[arg[u]] \cap FlagsRdy[u] = {}
      BY <2>1 DEF GivenInv, Owns
    <3> QED
      BY <2>1, <3>1
  <2> QED
    BY <1>1, <2>1 DEF HandKept
<1> QED
  BY <1>1 DEF GivenInv, FlagKept

\* A task whose call and flag fields a step leaves alone.
LEMMA SameHand ==
  ASSUME NEW u \in Task, SameCall(u), Creating' = Creating
  PROVE  HandKept(u)
BY DEF SameCall, HandKept, Owns, InCall, InPend

\* A step of the kernel: it puts no task into a call, and a deleted task has nothing.
LEMMA GivenKernel ==
  ASSUME Hazard = {}, \A t \in Task : "semabort" \notin Calls[t], FlagInv, GivenInv,
         KNext, ResetFlags, Flags' = Flags, untaken' = untaken
  PROVE  GivenInv'
<1>1. CallsKept
  BY FlagKind, ObjKernel DEF FlagInv, FlagBase
<1>2. ASSUME NEW u \in Task PROVE HandKept(u)
  <2> SUFFICES ASSUME Owns(u)' PROVE Owns(u) /\ arg'[u] = arg[u] /\ FlagsRdy'[u] = FlagsRdy[u]
    BY DEF HandKept
  <2>1. InCall(u)' /\ os'.TaskState[u] # "DEL"
    BY DEF Owns, InCall
  <2>2. FlagsOpt'[u] = FlagsOpt[u] /\ FlagsRdy'[u] = FlagsRdy[u]
    BY <2>1 DEF ResetFlags
  <2>3. InCall(u) /\ arg'[u] = arg[u]
    BY <1>1, <2>1 DEF CallsKept, Kept
  <2> QED
    BY <2>2, <2>3 DEF Owns
<1> QED
  BY <1>2, GivenLess DEF GivenInv, FlagKept

\* OSFlagPend returns at once, and what it consumes is given; or it waits, with
\* nothing in its hand.
LEMMA GivenPends ==
  ASSUME Hazard = {}, FlagInv, GivenInv, NEW t \in Task, NEW g \in Grp, NEW f \in WaitFlags,
         NEW d \in Timeouts \cup {0}, NEW opt \in WaitModes, OSFlagPend(t, g, f, d, opt)
  PROVE  GivenInv'
<1>1. t = cur /\ os.OSRunning /\ pc[t] = "app"
  BY CallLemma DEF FlagInv, FlagBase, ObjInv, OSFlagPend
<1>2. CASE /\ Flags' = Consume(Flags, g, Flags[g] \cap f, opt)
           /\ untaken' = Consume(untaken, g, Flags[g] \cap f, opt)
           /\ FlagsRdy' = [FlagsRdy EXCEPT ![t] = Flags[g] \cap f]
           /\ UNCHANGED <<os, pc, arg, FlagsPend, FlagsOpt, tickPtr, tmrCtr, boot, walk>>
  <2>1. Flags \in [Grp -> SUBSET Flag] /\ untaken \in [Grp -> SUBSET Flag] /\ FlagsRdy \in [Task -> SUBSET Flag]
    BY DEF FlagInv, FlagTypes, GivenInv
  <2>2. untaken' \in [Grp -> SUBSET Flag] /\ \A x \in Grp : untaken'[x] \subseteq untaken[x]
    BY <1>2, <2>1, ConsumeShrinks
  <2>3. \A x \in Grp : untaken'[x] \subseteq Flags'[x]
    <3>1. \A x \in Grp : untaken[x] \subseteq Flags[x]
      BY DEF GivenInv, FlagKept
    <3>2. CASE "CONSUME" \in opt
      <4>1. PICK got : got = Flags[g] \cap f
        OBVIOUS
      <4>2. \A x \in Grp : /\ Flags'[x] = IF x = g THEN Flags[x] \ got ELSE Flags[x]
                           /\ untaken'[x] = IF x = g THEN untaken[x] \ got ELSE untaken[x]
        BY <1>2, <2>1, <3>2, <4>1 DEF Consume
      <4> QED
        BY <3>1, <4>2
    <3>3. CASE "CONSUME" \notin opt
      BY <1>2, <2>1, <3>1, <3>3, ConsumeShrinks
    <3> QED
      BY <3>2, <3>3
  <2>4. Creating' = Creating
    BY <1>2 DEF Creating
  <2>5. ASSUME NEW u \in Task PROVE HandKept(u)
    <3>1. CASE u = t
      BY <1>1, <1>2, <3>1 DEF HandKept, Owns, InCall, InPend
    <3>2. CASE u # t
      <4>1. SameCall(u)
        BY <1>2, <2>1, <3>2 DEF SameCall
      <4> QED
        BY <2>4, <4>1, SameHand
    <3> QED
      BY <3>1, <3>2
  <2> QED
    BY <2>2, <2>3, <2>5, GivenLess
<1>3. CASE /\ os.OSSchedLockNestingCtr = 0
           /\ FlagsPend' = [FlagsPend EXCEPT ![t] = f]
           /\ FlagsOpt' = [FlagsOpt EXCEPT ![t] = opt]
           /\ FlagsRdy' = [FlagsRdy EXCEPT ![t] = {}]
           /\ os' = OS_Pend(os, t, g, "FLAG", d) /\ Goto(t, "pend") /\ arg' = [arg EXCEPT ![t] = g]
           /\ UNCHANGED <<Flags, untaken, tickPtr, tmrCtr, boot, walk>>
  <2>1. Creating' = Creating /\ Blocks(os, os', t, g, "FLAG", d)
    BY <1>1, <1>3, FlagKind, SameLike, ObjPend DEF FlagInv, FlagBase, OSFlagPend
  <2>2. /\ pc \in [Task -> PC] /\ arg \in [Task -> Task \cup Obj \cup {NoTask, NoObj}]
        /\ os.TaskState \in [Task -> State] /\ os.PendOn \in [Task -> PendOnSet]
        /\ os.PendStatus \in [Task -> StatusSet] /\ os.PendData \in [Task -> SUBSET Obj]
        /\ FlagsPend \in [Task -> SUBSET Flag] /\ FlagsOpt \in [Task -> Modes] /\ FlagsRdy \in [Task -> SUBSET Flag]
    BY DEF FlagInv, FlagBase, FlagTypes, ObjInv, KInv, KTypeOK, KState
  <2>3. \A u \in Task \ {t} : /\ os'.TaskState[u] = os.TaskState[u] /\ os'.PendOn[u] = os.PendOn[u]
                              /\ os'.PendData[u] = os.PendData[u] /\ os'.PendStatus[u] = os.PendStatus[u]
    BY <2>1, <2>2, FlagAssumption, CoreAssumption DEF Blocks
  <2>4. FlagsRdy'[t] = {}
    BY <1>3, <2>2
  <2>5. ASSUME NEW u \in Task PROVE HandKept(u)
    <3>1. CASE u = t
      BY <2>4, <3>1 DEF HandKept
    <3>2. CASE u # t
      <4>1. SameCall(u)
        BY <1>3, <2>2, <2>3, <3>2 DEF SameCall, Goto
      <4> QED
        BY <2>1, <4>1, SameHand
    <3> QED
      BY <3>1, <3>2
  <2> QED
    BY <1>3, <2>5, GivenLess DEF GivenInv, FlagKept
<1> QED
  BY <1>2, <1>3 DEF OSFlagPend

\* The late clear: the flags are those in the task's hand, and nobody else's.
LEMMA GivenReturns ==
  ASSUME FlagInv, GivenInv, NEW t \in Task, OSFlagPendReturn(t)
  PROVE  GivenInv'
<1>1. /\ os.OSRunning /\ t = cur /\ pc[t] = "ret" /\ arg[t] \in Grp /\ os' = os /\ untaken' = untaken
      /\ pc' = [pc EXCEPT ![t] = "app"] /\ arg' = [arg EXCEPT ![t] = NoTask]
      /\ UNCHANGED <<tickPtr, tmrCtr, boot, FlagsPend, FlagsOpt, FlagsRdy, walk>>
      /\ Flags' = Flags \/ Flags' = Consume(Flags, arg[t], FlagsRdy[t], FlagsOpt[t])
  BY DEF OSFlagPendReturn, Goto
<1>2. Creating' = Creating
  BY <1>1, ObjStay DEF FlagInv, FlagBase
<1>3. InCall(t)
  <2>1. t \notin Creating /\ os.TaskState[t] = "RDY"
    BY <1>1, ObjRunner DEF FlagInv, FlagBase
  <2> QED
    BY <1>1, <2>1, FlagAssumption DEF InCall, InPend
<1>4. \A x \in Grp : untaken[x] \subseteq Flags'[x]
  <2>1. Flags \in [Grp -> SUBSET Flag] /\ \A x \in Grp : untaken[x] \subseteq Flags[x]
    BY DEF FlagInv, FlagTypes, GivenInv, FlagKept
  <2>2. CASE "CONSUME" \in FlagsOpt[t] /\ Flags' # Flags
    <3>1. untaken[arg[t]] \cap FlagsRdy[t] = {}
      BY <1>1, <1>3, <2>2 DEF GivenInv, Owns
    <3>2. PICK g \in Grp : g = arg[t]
      BY <1>1
    <3>3. PICK got : got = FlagsRdy[t]
      OBVIOUS
    <3>4. \A x \in Grp : Flags'[x] = IF x = g THEN Flags[x] \ got ELSE Flags[x]
      BY <1>1, <2>1, <2>2, <3>2, <3>3 DEF Consume
    <3> QED
      BY <2>1, <3>1, <3>2, <3>3, <3>4
  <2>3. CASE "CONSUME" \notin FlagsOpt[t] \/ Flags' = Flags
    <3>1. Flags' = Flags
      BY <1>1, <2>1, <2>3, ConsumeShrinks
    <3> QED
      BY <2>1, <3>1
  <2> QED
    BY <2>2, <2>3
<1>5. pc \in [Task -> PC] /\ arg \in [Task -> Task \cup Obj \cup {NoTask, NoObj}]
  BY DEF FlagInv, FlagBase, ObjInv, KInv, KTypeOK
<1>6. ASSUME NEW u \in Task PROVE HandKept(u)
  <2>1. CASE u = t
    <3>1. arg'[t] = NoTask
      BY <1>1, <1>5
    <3> QED
      BY <2>1, <3>1 DEF HandKept, Owns, InCall
  <2>2. CASE u # t
    <3>1. SameCall(u)
      BY <1>1, <1>5, <2>2 DEF SameCall
    <3> QED
      BY <1>2, <3>1, SameHand
  <2> QED
    BY <2>1, <2>2
<1> QED
  BY <1>1, <1>4, <1>6, GivenLess DEF GivenInv

\* OSFlagPost: what it sets is in nobody's hand, or not counted.
LEMMA GivenPosts ==
  ASSUME Hazard = {}, FlagInv, GivenInv, NEW t \in Task, NEW g \in Grp, NEW f \in PostFlags,
         NEW opt \in FlagPostOpts, OSFlagPost(t, g, f, opt)
  PROVE  GivenInv'
<1> DEFINE new  == IF "CLR" \in opt THEN Flags[g] \ f ELSE Flags[g] \cup f
           left == IF "CLR" \in opt THEN untaken[g] \ f ELSE untaken[g] \cup (f \ InHand(g))
<1>1. /\ t = cur /\ os.OSRunning /\ pc[t] = "app" /\ os' = os
      /\ UNCHANGED <<arg, tickPtr, tmrCtr, boot, FlagsPend, FlagsOpt, FlagsRdy>>
      /\ pc' = pc \/ pc' = [pc EXCEPT ![t] = "wake"]
  BY CallLemma DEF FlagInv, FlagBase, ObjInv, OSFlagPost, Goto
<1>2. f \in SUBSET Flag
  BY FlagAssumption
<1>3. Flags' = [Flags EXCEPT ![g] = new] /\ untaken' = [untaken EXCEPT ![g] = left]
  BY DEF OSFlagPost
<1>4. /\ new \in SUBSET Flag /\ left \in SUBSET Flag /\ left \subseteq new
      /\ left \subseteq untaken[g] \cup (f \ InHand(g))
  BY <1>2 DEF FlagInv, FlagTypes, GivenInv, FlagKept
<1> HIDE DEF new, left
<1>5. /\ untaken' \in [Grp -> SUBSET Flag]
      /\ \A x \in Grp : /\ untaken'[x] = IF x = g THEN left ELSE untaken[x]
                        /\ Flags'[x] = IF x = g THEN new ELSE Flags[x]
  BY <1>3, <1>4 DEF FlagInv, FlagTypes, GivenInv
<1>6. FlagKept'
  BY <1>4, <1>5 DEF GivenInv, FlagKept
<1>7. ASSUME NEW u \in Task, Owns(u)' PROVE untaken'[arg'[u]] \cap FlagsRdy'[u] = {}
  <2>1. pc \in [Task -> PC] /\ FlagsRdy[u] \in SUBSET Flag
    BY DEF FlagInv, FlagBase, FlagTypes, ObjInv, KInv, KTypeOK
  <2>2. Creating' = Creating
    BY <1>1, <2>1 DEF Creating
  <2>3. Owns(u)
    BY <1>1, <1>7, <2>1, <2>2 DEF Owns, InCall, InPend
  <2>4. arg[u] \in Grp /\ untaken[arg[u]] \cap FlagsRdy[u] = {}
    BY <2>3 DEF GivenInv, Owns
  <2>5. CASE arg[u] = g
    <3>1. FlagsRdy[u] \subseteq InHand(g)
      BY <2>1, <2>3, <2>5 DEF Owns, InHand
    <3> QED
      BY <1>1, <1>4, <1>5, <2>4, <2>5, <3>1
  <2>6. CASE arg[u] # g
    BY <1>1, <1>5, <2>4, <2>6
  <2> QED
    BY <2>5, <2>6
<1> QED
  BY <1>5, <1>6, <1>7 DEF GivenInv

\* A turn of the loop gives flags to a waiter, or passes it, or ends the loop.
LEMMA GivenLoop ==
  ASSUME Hazard = {}, FlagInv, GivenInv, NEW t \in Task, FlagPostLoop(t)
  PROVE  GivenInv'
<1>1. /\ os.OSRunning /\ t = cur /\ pc[t] = "wake" /\ Flags' = Flags
      /\ UNCHANGED <<arg, tickPtr, tmrCtr, boot, FlagsPend, FlagsOpt>>
  BY DEF FlagPostLoop
<1>2. pc \in [Task -> PC] /\ FlagsRdy \in [Task -> SUBSET Flag] /\ untaken \in [Grp -> SUBSET Flag]
  BY DEF FlagInv, FlagBase, FlagTypes, GivenInv, ObjInv, KInv, KTypeOK
<1>3. CASE os' = os /\ untaken' = untaken /\ FlagsRdy' = FlagsRdy
           /\ (pc' = pc \/ \E l \in {"app", "sched"} : pc' = [pc EXCEPT ![t] = l])
  <2>1. Creating' = Creating
    BY <1>1, <1>2, <1>3 DEF Creating
  <2>2. \A u \in Task : pc'[u] \in InPend => pc[u] \in InPend
    BY <1>1, <1>2, <1>3 DEF InPend
  <2>3. \A u \in Task : HandKept(u)
    BY <1>1, <1>3, <2>1, <2>2 DEF HandKept, Owns, InCall
  <2> QED
    BY <1>1, <1>3, <2>3, GivenLess DEF GivenInv, FlagKept
<1>4. CASE /\ walk.ptr # NoTask /\ pc' = pc
           /\ os' = OS_FlagTaskRdy(os, walk.ptr)
           /\ FlagsRdy' = [FlagsRdy EXCEPT ![walk.ptr] = Flags[walk.grp] \cap FlagsPend[walk.ptr]]
           /\ untaken' = Consume(untaken, walk.grp, Flags[walk.grp] \cap FlagsPend[walk.ptr], FlagsOpt[walk.ptr])
  <2>1. /\ walk.grp \in Grp /\ walk.ptr \in Task /\ arg[walk.ptr] = walk.grp
        /\ walk.grp \in os.PendData[walk.ptr]
    BY <1>1, <1>4, LoopAt
  <2>2. PICK h \in Task, g \in Grp : h = walk.ptr /\ g = walk.grp
    BY <2>1
  <2> DEFINE got == Flags[walk.grp] \cap FlagsPend[walk.ptr]
  <2>3. /\ untaken' = Consume(untaken, g, got, FlagsOpt[h]) /\ FlagsRdy' = [FlagsRdy EXCEPT ![h] = got]
        /\ arg[h] = g /\ os' = OS_FlagTaskRdy(os, h) /\ g \in os.PendData[h]
    BY <1>4, <2>1, <2>2
  <2> HIDE DEF got
  <2>4. /\ Creating' = Creating
        /\ \A u \in Task : os'.PendData[u] = IF u = h THEN {} ELSE os.PendData[u]
        /\ \A u \in Task \ {h} : /\ os'.TaskState[u] = os.TaskState[u] /\ os'.PendOn[u] = os.PendOn[u]
                                 /\ os'.PendStatus[u] = os.PendStatus[u]
    BY <1>1, <1>4, <2>3, FlagKind, LoopReadies DEF FlagInv, FlagBase
  <2>5. /\ untaken' \in [Grp -> SUBSET Flag] /\ \A x \in Grp : untaken'[x] \subseteq untaken[x]
        /\ "CONSUME" \in FlagsOpt[h] => untaken'[g] = untaken[g] \ got
    BY <1>2, <2>3 DEF Consume
  <2>6. ASSUME NEW u \in Task PROVE HandKept(u)
    <3>1. CASE u = h
      <4>1. FlagsRdy'[h] = got /\ arg'[h] = g /\ FlagsOpt'[h] = FlagsOpt[h]
        BY <1>1, <1>2, <2>3
      <4> QED
        BY <2>5, <3>1, <4>1 DEF HandKept, Owns
    <3>2. CASE u # h
      <4>1. SameCall(u)
        BY <1>1, <1>2, <1>4, <2>3, <2>4, <3>2 DEF SameCall
      <4> QED
        BY <2>4, <4>1, SameHand
    <3> QED
      BY <3>1, <3>2
  <2>7. \A x \in Grp : untaken'[x] \subseteq Flags'[x]
    BY <1>1, <2>5 DEF GivenInv, FlagKept
  <2> QED
    BY <2>5, <2>6, <2>7, GivenLess
<1> QED
  BY <1>3, <1>4 DEF FlagPostLoop, Goto

\* A flag that was posted stays set until a post clears it or it is given to a call that
\* consumes it, for any number of groups, flags and tasks: the late clear of a readied
\* task takes nothing that came meanwhile but a flag it had in its hand already
\* (OSFlagPend, OS_FlagPost).
THEOREM FlagsFlagKept ==
  ASSUME Hazard = {}, \A t \in Task : "semabort" \notin Calls[t]
  PROVE  FSpec => []FlagKept
<1>1. FInit => GivenInv
  <2> SUFFICES ASSUME FInit PROVE GivenInv
    OBVIOUS
  <2>1. untaken = Flags /\ untaken \in [Grp -> SUBSET Flag] /\ FlagsRdy = [t \in Task |-> {}]
    BY FlagAssumption DEF FInit
  <2> QED
    BY <2>1 DEF GivenInv, FlagKept
<1>2. FlagInv /\ GivenInv /\ [FNext]_fvars => GivenInv'
  <2> SUFFICES ASSUME FlagInv, GivenInv, [FNext]_fvars PROVE GivenInv'
    OBVIOUS
  <2>1. CASE KNext /\ ResetFlags /\ UNCHANGED <<Flags, walk, untaken>>
    BY <2>1, GivenKernel
  <2>2. ASSUME NEW t \in Task, FlagStep(t)
        PROVE  GivenInv'
    BY <2>2, GivenPends, GivenPosts, GivenReturns, GivenLoop DEF FlagStep
  <2>3. CASE UNCHANGED fvars
    BY <2>3 DEF fvars, GivenInv, FlagKept, Owns, InCall, Creating
  <2> QED
    BY <2>1, <2>2, <2>3 DEF FNext
<1>3. GivenInv => FlagKept
  BY DEF GivenInv
<1> QED
  BY <1>1, <1>2, <1>3, FlagInvHolds, PTL DEF FSpec
=============================================================================
