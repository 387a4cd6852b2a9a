--------------------------------- MODULE OSQ ---------------------------------
(***************************************************************************)
(* Message queues (os_q.c) and the queue inside each TCB (OSTaskQxxx of    *)
(* os_task.c) on top of the kernel.  A message for a task that waits goes  *)
(* straight into its TCB; the others are kept in the queues of MsgQueues,  *)
(* which share the message pool.                                           *)
(***************************************************************************)
EXTENDS OSWake

CONSTANTS
  Q,             \* the OS_Qs, objects with a pend list
  QSize,         \* max_qty of OSQCreate and q_size of OSTaskCreate
  MsgPoolSize,   \* OSCfg_MsgPoolSize
  QOpts          \* the opt arguments, subsets of {"ALL", "NO_SCHED", "LIFO"}

MsgQ == Q \cup Task

ASSUME QAssumption == /\ Q \subseteq Obj /\ Q \cap Task = {} /\ NoTask \notin Q
                      /\ QSize \in [MsgQ -> Nat] /\ MsgPoolSize \in Nat
                      /\ QOpts \subseteq SUBSET {"ALL", "NO_SCHED", "LIFO"}

VARIABLES
  queue,         \* the messages of each queue
  sent           \* history: how often each message was posted, less how often received

qvars == <<os, pc, arg, tickPtr, tmrCtr, boot, wake, rdy, queue, sent>>

MQ == INSTANCE MsgQueues WITH Size <- QSize, PoolSize <- MsgPoolSize

QInit == WInit /\ MQ!Init /\ sent = [m \in Msg |-> 0]
-----------------------------------------------------------------------------
\* The places of message m in the queues S.
Copies(m, S) == {p \in S \X (1 .. MsgPoolSize) : p[2] \in DOMAIN queue[p[1]] /\ queue[p[1]][p[2]] = m}

\* The tasks with a posted message in their hands, on their way out of a pend.
Receiving(m) == {t \in Task : os.MsgPtr[t] = m /\ \E x \in Q \cup {t} : t \in Granted(x)}

Posted(m, n) == sent' = [sent EXCEPT ![m] = @ + n]

\* The first message of the queue, or a wait for the next.
Pend(t, x, obj, pending_on, timeout, block) ==
  /\ \/ /\ MQ!Get({x})
        /\ Posted(Head(queue[x]), -1)
        /\ UNCHANGED <<os, pc, arg>>
     \/ /\ queue[x] = <<>> /\ block /\ os.OSSchedLockNestingCtr = 0
        /\ os' = OS_Pend(os, t, obj, pending_on, timeout)
        /\ Goto(t, "pend")
        /\ arg' = [arg EXCEPT ![t] = x]
        /\ UNCHANGED <<queue, sent>>
  /\ UNCHANGED <<tickPtr, tmrCtr, boot, wake, rdy>>

OSQPend(t, x, timeout, block) == Call(t, "qpend") /\ Pend(t, x, x, "Q", timeout, block)

OSTaskQPend(t, timeout, block) ==
  Call(t, "tqpend") /\ Pend(t, t, NoObj, "TASK_Q", timeout, block)

\* The code after OSSched, of either call.
QPendReturn(t) ==
  /\ os.OSRunning /\ t = cur /\ pc[t] = "ret" /\ arg[t] \in Q \cup {t}
  /\ IF os.PendStatus[t] = "OK" THEN Posted(os.MsgPtr[t], -1) ELSE UNCHANGED sent
  /\ Goto(t, "app")
  /\ arg' = [arg EXCEPT ![t] = NoTask]
  /\ UNCHANGED <<os, tickPtr, tmrCtr, boot, wake, rdy, queue>>

\* OS_QPost: without a waiter the message is queued, if there is room; with
\* waiters the first one or all get it.
OSQPost(t, x, m, opt) ==
  /\ Call(t, "qpost")
  /\ \/ /\ os.PendList[x] = <<>>
        /\ MQ!Put(x, m, "LIFO" \in opt)
        /\ Posted(m, 1)
        /\ UNCHANGED <<pc, wake>>
     \/ /\ os.PendList[x] # <<>>
        /\ LET n == IF "ALL" \in opt THEN Len(os.PendList[x]) ELSE 1
           IN  /\ wake' = [NoWake EXCEPT !.obj = x, !.n = n, !.msg = m, !.opt = opt]
               /\ Posted(m, n)
        /\ Goto(t, "wake")
        /\ UNCHANGED queue
  /\ UNCHANGED <<os, arg, tickPtr, tmrCtr, boot, rdy>>

\* Past the first waiter only when opt is OS_OPT_PEND_ABORT_ALL and nothing else.
OSQPendAbort(t, x, opt) ==
  /\ Call(t, "qabort") /\ os.PendList[x] # <<>>
  /\ wake' = [NoWake EXCEPT !.obj = x, !.n = IF opt = {"ALL"} THEN Len(os.PendList[x]) ELSE 1,
                            !.status = "ABORT", !.opt = opt]
  /\ Goto(t, "wake")
  /\ UNCHANGED <<os, arg, tickPtr, tmrCtr, boot, rdy, queue, sent>>

WaitsForMsg(c) == os.TaskState[c] \in Pending /\ os.PendOn[c] = "TASK_Q"

\* Mutant of OSTaskQPost: a task that waits for anything counts as a receiver.
MutTaskQPost(t, c, m, opt) ==
  /\ Call(t, "qpost") /\ c \in Target /\ os.TaskState[c] # "DEL" /\ "ALL" \notin opt
  /\ \/ /\ os.TaskState[c] \in Pending
        /\ Step(t, OS_Post(os, NoObj, c, m), IF "NO_SCHED" \in opt THEN "app" ELSE "sched")
        /\ UNCHANGED queue
     \/ /\ os.TaskState[c] \notin Pending
        /\ MQ!Put(c, m, "LIFO" \in opt)
        /\ UNCHANGED kvars
  /\ Posted(m, 1)
  /\ UNCHANGED <<wake, rdy>>

\* OS_TaskQPost: straight to a task that waits for it, else into its queue.
OSTaskQPost(t, c, m, opt) ==
  /\ Call(t, "qpost") /\ c \in Target /\ os.TaskState[c] # "DEL" /\ "ALL" \notin opt
  /\ \/ /\ WaitsForMsg(c)
        /\ Step(t, OS_Post(os, NoObj, c, m), IF "NO_SCHED" \in opt THEN "app" ELSE "sched")
        /\ UNCHANGED queue
     \/ /\ ~WaitsForMsg(c)
        /\ MQ!Put(c, m, "LIFO" \in opt)
        /\ UNCHANGED kvars
  /\ Posted(m, 1)
  /\ UNCHANGED <<wake, rdy>>

\* The check and the abort are one critical section here.
OSTaskQPendAbort(t, c, opt) ==
  /\ Call(t, "qabort") /\ c \in Target \ {t} /\ os.PendOn[c] = "TASK_Q"
  /\ Step(t, OS_PendAbort(os, NoObj, c), IF opt = "NO_SCHED" THEN "app" ELSE "sched")
  /\ UNCHANGED <<wake, rdy, queue, sent>>

OSTaskQFlush(t, c) ==
  /\ Call(t, "qflush") /\ c \in Target
  /\ MQ!Flush(c)
  /\ sent' = [m \in Msg |-> sent[m] - Cardinality(Copies(m, {c}))]
  /\ UNCHANGED wvars

QStep(t) ==
  \/ \E x \in Q, d \in Timeouts \cup {0}, block \in BOOLEAN : OSQPend(t, x, d, block)
  \/ \E d \in Timeouts \cup {0}, block \in BOOLEAN : OSTaskQPend(t, d, block)
  \/ \E x \in Q, m \in Msg, opt \in QOpts : OSQPost(t, x, m, opt)
  \/ \E x \in Q, opt \in QOpts : OSQPendAbort(t, x, opt)
  \/ \E c \in Task, m \in Msg, opt \in QOpts : OSTaskQPost(t, c, m, opt)
  \/ \E c \in Task, opt \in PostOpts : OSTaskQPendAbort(t, c, opt)
  \/ \E c \in Task : OSTaskQFlush(t, c)
  \/ QPendReturn(t)

\* Mutant of FreeDeleted: OSTaskDel forgets the queue of the task.
MutFreeDeleted == UNCHANGED <<queue, sent>>

\* What OSTaskDel does to the queue of the task it deletes; a message in the
\* task's hands goes with it.
FreeDeleted ==
  LET gone == {c \in Task : os'.TaskState[c] = "DEL"}
  IN  /\ queue' = [x \in MsgQ |-> IF x \in gone THEN <<>> ELSE queue[x]]
      /\ sent' = [m \in Msg |-> sent[m] - Cardinality(Receiving(m) \cap gone)
                                - Cardinality(Copies(m, gone))]

QNext == \/ KNext /\ FreeDeleted /\ UNCHANGED <<wake, rdy>>
         \/ \E t \in Task : QStep(t)
         \/ \E t \in Task : WakeLoop(t) /\ UNCHANGED <<queue, sent>>

QSpec == QInit /\ [][QNext]_qvars
-----------------------------------------------------------------------------
\* The queue variables have their types, and the queues keep to their limits.
QTypeOK == /\ WakeTypeOK
           /\ queue \in [MsgQ -> Seq(Msg)] /\ sent \in [Msg -> Int]
           /\ \A x \in MsgQ : Len(queue[x]) <= QSize[x]
           /\ MQ!Used <= MsgPoolSize

\* No message is lost, duplicated or delivered twice: what posts put in is in
\* one queue, in the hand of a task on its way out of its pend, or received;
\* also when the post races with a timeout, an abort, a suspension or the
\* deletion of the receiver (OSQPost, OSTaskQPost, OSQPend, OSTaskDel).
MsgConservation ==
  \A m \in Msg :
    sent[m] = Cardinality(Copies(m, MsgQ)) + Cardinality(Receiving(m))
              + (IF wake.msg = m THEN wake.n ELSE 0)

\* Nobody waits while there is a message for it, whether it waits for a queue,
\* for several objects or for its own queue (OSQPend, OSTaskQPend, OSPendMulti).
NoWaiterWithMessage ==
  /\ \A t \in Task : \A x \in os.PendData[t] \cap Q : queue[x] = <<>>
  /\ \A t \in Task : WaitsForMsg(t) => queue[t] = <<>>
=============================================================================
