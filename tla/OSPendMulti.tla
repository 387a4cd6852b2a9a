----------------------------- MODULE OSPendMulti -----------------------------
(***************************************************************************)
(* Waiting for several semaphores and queues at once (os_pend_multi.c),    *)
(* against everything OSSem and OSQ do with the same objects.              *)
(***************************************************************************)
EXTENDS OSSem, OSQ

CONSTANT PendTbls      \* the tables of objects that calls wait for

ASSUME MultiAssumption == PendTbls \subseteq SUBSET (Sem \cup Q) \ {{}}

pmvars == <<os, pc, arg, tickPtr, tmrCtr, boot, wake, rdy, Ctr, owed, queue, sent>>

PMInit == SInit /\ QInit
-----------------------------------------------------------------------------
\* The objects of a table that OS_PendMultiGetRdy finds available.
Available(tbl) == {s \in tbl \cap Sem : Ctr[s] > 0} \cup {x \in tbl \cap Q : queue[x] # <<>>}

\* Mutant of OS_PendMultiWait: the task joins the pend list of the last object only.
MutPendMultiWait(o, t, tbl, timeout) ==
  LET last == CHOOSE obj \in tbl : TRUE
      blkd == OS_TaskBlock([o EXCEPT !.PendOn[t] = "MULTI", !.PendStatus[t] = "OK",
                                     !.PendData[t] = tbl], t, timeout)
  IN  OS_PendListInsertPrio(blkd, last, t)

\* The caller joins the pend list of every object of the table.
OS_PendMultiWait(o, t, tbl, timeout) ==
  LET behind == {u \in Task : o.Prio[t] < o.Prio[u]}
      blkd   == OS_TaskBlock([o EXCEPT !.PendOn[t] = "MULTI", !.PendStatus[t] = "OK",
                                       !.PendData[t] = tbl], t, timeout)
  IN  [blkd EXCEPT !.PendList = [obj \in Obj |-> IF obj \in tbl THEN LinkBefore(@[obj], t, behind)
                                                                ELSE @[obj]]]

\* Mutant of TakeAvailable: the semaphores are looked at and not taken.
MutTakeAvailable(ready) ==
  /\ owed' = [s \in Sem |-> IF s \in ready THEN owed[s] - 1 ELSE owed[s]]
  /\ UNCHANGED Ctr

\* Every available semaphore of the table is taken, not only the first.
TakeAvailable(ready) ==
  /\ Ctr' = [s \in Sem |-> IF s \in ready THEN Ctr[s] - 1 ELSE Ctr[s]]
  /\ owed' = [s \in Sem |-> IF s \in ready THEN owed[s] - 1 ELSE owed[s]]

OSPendMulti(t, tbl, timeout, block) ==
  LET ready == Available(tbl)
  IN  /\ Call(t, "multi")
      /\ \/ /\ ready # {}
            /\ TakeAvailable(ready)
            /\ MQ!Get(ready \cap Q)
            /\ sent' = [m \in Msg |-> sent[m] - Cardinality({x \in ready \cap Q : Head(queue[x]) = m})]
            /\ UNCHANGED <<os, pc, arg, rdy>>
         \/ /\ ready = {} /\ block /\ os.OSSchedLockNestingCtr = 0
            /\ os' = OS_PendMultiWait(os, t, tbl, timeout)
            /\ rdy' = [rdy EXCEPT ![t] = NoObj]
            /\ Goto(t, "pend")
            /\ arg' = [arg EXCEPT ![t] = NoObj]
            /\ UNCHANGED <<Ctr, owed, queue, sent>>
      /\ UNCHANGED <<tickPtr, tmrCtr, boot, wake>>

\* The code after OSSched; the caller finds the object in its table.
OSPendMultiReturn(t) ==
  LET ok == os.PendStatus[t] = "OK"
  IN  /\ os.OSRunning /\ t = cur /\ pc[t] = "ret" /\ arg[t] = NoObj
      /\ owed' = IF ok /\ rdy[t] \in Sem THEN [owed EXCEPT ![rdy[t]] = @ - 1] ELSE owed
      /\ IF ok /\ rdy[t] \in Q THEN Posted(os.MsgPtr[t], -1) ELSE UNCHANGED sent
      /\ os' = [os EXCEPT !.PendStatus[t] = "OK"]
      /\ rdy' = [rdy EXCEPT ![t] = NoObj]
      /\ Goto(t, "app")
      /\ arg' = [arg EXCEPT ![t] = NoTask]
      /\ UNCHANGED <<tickPtr, tmrCtr, boot, wake, Ctr, queue>>

MultiStep(t) ==
  \/ \E tbl \in PendTbls, d \in Timeouts \cup {0}, block \in BOOLEAN : OSPendMulti(t, tbl, d, block)
  \/ OSPendMultiReturn(t)

PMNext == \/ KNext /\ TokenGone /\ FreeDeleted /\ UNCHANGED <<wake, rdy, Ctr>>
          \/ \E t \in Task : MultiStep(t)
          \/ \E t \in Task : SemStep(t) /\ UNCHANGED <<queue, sent>>
          \/ \E t \in Task : QStep(t) /\ UNCHANGED <<Ctr, owed>>
          \/ \E t \in Task : WakeLoop(t) /\ UNCHANGED <<Ctr, owed, queue, sent>>

PMSpec == PMInit /\ [][PMNext]_pmvars
-----------------------------------------------------------------------------
\* The variables of semaphores and queues have their types, the queues keep to
\* their sizes and together to the message pool.
PMTypeOK == SemTypeOK /\ QTypeOK

\* A task that waited for several objects and was given one has exactly one: the
\* object is named in its pend data, and a message came with it if and only if
\* it is a queue (OS_Post1).
GrantNamesObject ==
  \A t \in Task : /\ pc[t] \in {"pend", "ret"} /\ arg[t] = NoObj /\ os.TaskState[t] # "DEL"
                  /\ os.PendOn[t] = "NOTHING" /\ os.PendStatus[t] = "OK" /\ t \notin Creating
                  => /\ rdy[t] \in Sem \cup Q
                     /\ rdy[t] \in Q <=> os.MsgPtr[t] # NoMsg
=============================================================================
