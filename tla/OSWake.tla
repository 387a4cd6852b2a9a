------------------------------- MODULE OSWake -------------------------------
(***************************************************************************)
(* How a service readies the tasks that wait for an object: OSSemPost,     *)
(* OSQPost and the aborts of os_sem.c and os_q.c share one loop over the   *)
(* head of the pend list, with interrupts disabled.                        *)
(***************************************************************************)
EXTENDS OSKernel

VARIABLES
  wake,          \* the locals of the loop over a pend list
  rdy            \* RdyObjPtr in the pend data of a task that waits for several objects

wvars == <<os, pc, arg, tickPtr, tmrCtr, boot, wake, rdy>>

NoWake == [obj |-> NoObj, n |-> 0, msg |-> NoMsg, status |-> "OK", opt |-> {}]

WInit == KInit /\ wake = NoWake /\ rdy = [t \in Task |-> NoObj]

\* Mutant of WakeLoop: the waiter at the tail is woken.
MutWakeLoop(t) ==
  /\ os.OSRunning /\ t = cur /\ pc[t] = "wake"
  /\ IF wake.n > 0
     THEN LET s == os.PendList[wake.obj]
          IN  /\ os' = EndWait(os, wake.obj, s[Len(s)], wake.msg, wake.status)
              /\ wake' = [wake EXCEPT !.n = @ - 1]
              /\ UNCHANGED <<pc, rdy>>
     ELSE /\ Goto(t, IF "NO_SCHED" \in wake.opt THEN "app" ELSE "sched")
          /\ wake' = NoWake
          /\ UNCHANGED <<os, rdy>>
  /\ UNCHANGED <<arg, tickPtr, tmrCtr, boot>>

\* One turn of the loop, or its end and the call of OSSched.  A task that waits
\* for several objects gets the one of this loop into its pend data (OS_Post1,
\* OS_PendAbort1); MsgPtr stands for RdyMsgPtr as well.
WakeLoop(t) ==
  /\ os.OSRunning /\ t = cur /\ pc[t] = "wake"
  /\ IF wake.n > 0
     THEN LET p_tcb == Head(os.PendList[wake.obj])
          IN  /\ os' = EndWait(os, wake.obj, p_tcb, wake.msg, wake.status)
              /\ rdy' = IF os.PendOn[p_tcb] = "MULTI" THEN [rdy EXCEPT ![p_tcb] = wake.obj] ELSE rdy
              /\ wake' = [wake EXCEPT !.n = @ - 1]
              /\ UNCHANGED pc
     ELSE /\ Goto(t, IF "NO_SCHED" \in wake.opt THEN "app" ELSE "sched")
          /\ wake' = NoWake
          /\ UNCHANGED <<os, rdy>>
  /\ UNCHANGED <<arg, tickPtr, tmrCtr, boot>>

\* The tasks whose wait for obj was ended by a post and that have not yet returned
\* from the call.
Granted(obj) == {t \in Task : /\ os.TaskState[t] # "DEL" /\ t \notin Creating
                              /\ pc[t] \in {"pend", "ret"}
                              /\ arg[t] = obj \/ (arg[t] = NoObj /\ rdy[t] = obj)
                              /\ os.PendOn[t] = "NOTHING" /\ os.PendStatus[t] = "OK"}

\* What the loop still has to hand out of obj.
InLoop(obj) == IF wake.obj = obj /\ wake.status = "OK" THEN wake.n ELSE 0

\* The loop's variables have their types.
WakeTypeOK ==
  /\ KTypeOK
  /\ wake \in [obj : Obj \cup {NoObj}, n : 0 .. Cardinality(Task), msg : Msg \cup {NoMsg},
               status : {"OK", "ABORT"}, opt : SUBSET {"ALL", "NO_SCHED", "LIFO"}]
  /\ rdy \in [Task -> Obj \cup {NoObj}]
=============================================================================
