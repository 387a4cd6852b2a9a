---------------------------- MODULE OSPort_proofs ----------------------------
(***************************************************************************)
(* Proofs about the Win32 port (OSPort), for any set of tasks: the threads *)
(* behave like one processor, and no tick is dropped.                      *)
(*                                                                         *)
(* The inductive invariant says how each thread stands.  The current one   *)
(* is starting, running or ending (or, while the tick thread is in the     *)
(* interrupt, stopped or gone); every other one is gone, not yet resumed,  *)
(* asleep, stopped by a tick, or on its way to sleep with the critical     *)
(* section in its hands.                                                   *)
(***************************************************************************)
EXTENDS OSPort, TLAPS

\* STATE_xxx of OS_TASK.
ThreadState == {"NONE", "CREATED", "RUNNING", "SUSPENDED", "INTERRUPTED", "TERMINATING", "TERMINATED"}

PortTypeOK ==
  /\ TaskState \in [Task -> ThreadState]
  /\ SignalPtr \in [Task -> BOOLEAN]
  /\ InitSignalPtr \in [Task -> BOOLEAN]
  /\ frozen \in [Task -> BOOLEAN]
  /\ pc \in [Task -> PC]
  /\ crit \in Task \cup {TickW32, NoThread}
  /\ cur \in Task
  /\ rdy \subseteq Task
  /\ tick \in {"idle", "enter", "isr", "init"}
  /\ tickEvent \in BOOLEAN

\* No thread: the task was never created, or its thread has ended.
Gone(t) == /\ pc[t] = "none" /\ TaskState[t] \in {"NONE", "TERMINATED"}
           /\ ~frozen[t] /\ ~SignalPtr[t] /\ ~InitSignalPtr[t]

\* Created suspended, and not resumed yet.
Fresh(t) == /\ pc[t] = "start" /\ TaskState[t] = "CREATED"
            /\ frozen[t] /\ ~SignalPtr[t] /\ ~InitSignalPtr[t]

\* Waits in OSCtxSw for a signal that was not given.
Asleep(t) == pc[t] = "wait" /\ TaskState[t] = "SUSPENDED" /\ ~frozen[t] /\ ~SignalPtr[t]

\* The tick thread stopped it, outside every critical section.
Stopped(t) == /\ frozen[t] /\ TaskState[t] = "INTERRUPTED"
              /\ pc[t] \in {"app", "hook", "gap", "wait", "back"}
              /\ SignalPtr[t] <=> pc[t] = "wait"

\* It has switched to another task and has not left the critical section yet.
Leaving(t) == /\ pc[t] \in {"init", "leave"} /\ TaskState[t] \in {"SUSPENDED", "TERMINATING"}
              /\ ~frozen[t] /\ ~SignalPtr[t]

\* Resumed for the first time; whoever did it waits for it.
Starting(t) == /\ \/ pc[t] = "start" /\ TaskState[t] = "CREATED"
                  \/ pc[t] = "first" /\ TaskState[t] = "SUSPENDED"
               /\ ~frozen[t] /\ SignalPtr[t] /\ ~InitSignalPtr[t]
               /\ tick = "init" \/ \E u \in Task : pc[u] = "init"

\* It runs, or comes back from OSCtxSw to do so.
Running(t) == /\ TaskState[t] = "RUNNING" /\ ~frozen[t]
              /\ pc[t] \in {"app", "svc", "hook", "gap", "wait", "back"}
              /\ SignalPtr[t] <=> pc[t] = "wait"

\* It has deleted its own task and has not come to OSCtxSw yet.
Ending(t) == /\ TaskState[t] = "TERMINATING" /\ pc[t] = "gap"
             /\ ~frozen[t] /\ ~SignalPtr[t]

OthersStand == \A t \in Task \ {cur} : Gone(t) \/ Fresh(t) \/ Asleep(t) \/ Stopped(t) \/ Leaving(t)

CurrentRuns == IF tick = "isr" THEN Gone(cur) \/ Stopped(cur)
                               ELSE Starting(cur) \/ Running(cur) \/ Ending(cur)

\* Who owns the critical section, by what each thread does.
CritOwned == /\ crit = TickW32 <=> tick \in {"isr", "init"}
             /\ \A t \in Task : crit = t <=> pc[t] \in {"svc", "init", "leave"}

\* Only tasks that have a thread, and keep it, are ready.
ReadyAlive == \A t \in rdy : pc[t] # "none" /\ TaskState[t] # "TERMINATING"

PortInv == PortTypeOK /\ OthersStand /\ CurrentRuns /\ CritOwned /\ ReadyAlive
-----------------------------------------------------------------------------
(* Each action keeps the invariant. *)

USE DEF Gone, Fresh, Asleep, Stopped, Leaving, Starting, Running, Ending

\* A thread that a step does not touch stands as before.
LEMMA SameThread ==
  ASSUME NEW t \in Task, pc'[t] = pc[t], TaskState'[t] = TaskState[t], frozen'[t] = frozen[t],
         SignalPtr'[t] = SignalPtr[t], InitSignalPtr'[t] = InitSignalPtr[t]
  PROVE  /\ Gone(t)' <=> Gone(t)
         /\ Fresh(t)' <=> Fresh(t)
         /\ Asleep(t)' <=> Asleep(t)
         /\ Stopped(t)' <=> Stopped(t)
         /\ Leaving(t)' <=> Leaving(t)
OBVIOUS

\* LetRun makes a thread that waits to be selected run, however it was stopped,
\* and no other: OSCtxSw and OSIntCurTaskResume.
LEMMA LetRunLemma ==
  ASSUME PortTypeOK, NEW new \in Task, Fresh(new) \/ Asleep(new) \/ Stopped(new),
         NEW state \in [Task -> ThreadState],
         state[new] = TaskState[new], LetRun(state, new)
  PROVE  /\ TaskState' \in [Task -> ThreadState]
         /\ TaskState'[new] = IF TaskState[new] = "CREATED" THEN "CREATED" ELSE "RUNNING"
         /\ \A u \in Task \ {new} : TaskState'[u] = state[u]
         /\ SignalPtr' \in [Task -> BOOLEAN]
         /\ SignalPtr'[new] <=> pc[new] \in {"start", "wait"}
         /\ frozen' \in [Task -> BOOLEAN] /\ ~frozen'[new]
         /\ \A u \in Task \ {new} : SignalPtr'[u] = SignalPtr[u] /\ frozen'[u] = frozen[u]
<1>1. CASE Fresh(new)
  BY <1>1 DEF PortTypeOK, ThreadState, LetRun
<1>2. CASE Asleep(new)
  BY <1>2 DEF PortTypeOK, ThreadState, LetRun
<1>3. CASE Stopped(new)
  BY <1>3 DEF PortTypeOK, ThreadState, LetRun
<1> QED
  BY <1>1, <1>2, <1>3

\* OSTaskW32 keeps the invariant.
LEMMA OSTaskW32Inv ==
  ASSUME PortInv, NEW t \in Task, OSTaskW32(t)
  PROVE  PortInv'
<1> USE DEF PortInv, OSTaskW32, Runs, Goto, taskvars
<1>1. PortTypeOK'
  BY DEF PortTypeOK, PC, ThreadState
<1>2. OthersStand'
  BY DEF PortTypeOK, PC, OthersStand, CurrentRuns, CritOwned, ReadyAlive
<1>3. CurrentRuns'
  BY DEF PortTypeOK, PC, OthersStand, CurrentRuns, CritOwned, ReadyAlive
<1>4. CritOwned'
  BY PortAssumption DEF PortTypeOK, PC, OthersStand, CurrentRuns, CritOwned, ReadyAlive
<1>5. ReadyAlive'
  BY DEF PortTypeOK, PC, OthersStand, CurrentRuns, CritOwned, ReadyAlive
<1> QED
  BY <1>1, <1>2, <1>3, <1>4, <1>5

\* OSTaskW32First keeps the invariant.
LEMMA OSTaskW32FirstInv ==
  ASSUME PortInv, NEW t \in Task, OSTaskW32First(t)
  PROVE  PortInv'
<1> USE DEF PortInv, OSTaskW32First, Runs, Goto, taskvars
<1>1. PortTypeOK'
  BY DEF PortTypeOK, PC, ThreadState
<1>2. OthersStand'
  BY DEF PortTypeOK, PC, OthersStand, CurrentRuns, CritOwned, ReadyAlive
<1>3. CurrentRuns'
  BY DEF PortTypeOK, PC, OthersStand, CurrentRuns, CritOwned, ReadyAlive
<1>4. CritOwned'
  BY PortAssumption DEF PortTypeOK, PC, OthersStand, CurrentRuns, CritOwned, ReadyAlive
<1>5. ReadyAlive'
  BY DEF PortTypeOK, PC, OthersStand, CurrentRuns, CritOwned, ReadyAlive
<1> QED
  BY <1>1, <1>2, <1>3, <1>4, <1>5

\* EnterService keeps the invariant.
LEMMA EnterServiceInv ==
  ASSUME PortInv, NEW t \in Task, EnterService(t)
  PROVE  PortInv'
<1> USE DEF PortInv, EnterService, Runs, Goto, taskvars
<1>1. PortTypeOK'
  BY DEF PortTypeOK, PC, ThreadState
<1>2. OthersStand'
  BY DEF PortTypeOK, PC, OthersStand, CurrentRuns, CritOwned, ReadyAlive
<1>3. CurrentRuns'
  BY DEF PortTypeOK, PC, OthersStand, CurrentRuns, CritOwned, ReadyAlive
<1>4. CritOwned'
  BY PortAssumption DEF PortTypeOK, PC, OthersStand, CurrentRuns, CritOwned, ReadyAlive
<1>5. ReadyAlive'
  BY DEF PortTypeOK, PC, OthersStand, CurrentRuns, CritOwned, ReadyAlive
<1> QED
  BY <1>1, <1>2, <1>3, <1>4, <1>5

\* Service keeps the invariant.
LEMMA ServiceInv ==
  ASSUME PortInv, NEW t \in Task, NEW r \in SUBSET Task, Service(t, r)
  PROVE  PortInv'
<1> USE DEF PortInv, Service, Known, Runs, Goto, taskvars
<1>1. PortTypeOK'
  BY DEF PortTypeOK, PC, ThreadState
<1>2. OthersStand'
  BY DEF PortTypeOK, PC, OthersStand, CurrentRuns, CritOwned, ReadyAlive
<1>3. CurrentRuns'
  BY DEF PortTypeOK, PC, OthersStand, CurrentRuns, CritOwned, ReadyAlive
<1>4. CritOwned'
  BY PortAssumption DEF PortTypeOK, PC, OthersStand, CurrentRuns, CritOwned, ReadyAlive
<1>5. ReadyAlive'
  BY DEF PortTypeOK, PC, OthersStand, CurrentRuns, CritOwned, ReadyAlive
<1> QED
  BY <1>1, <1>2, <1>3, <1>4, <1>5

\* OSTaskCreateHook keeps the invariant.
LEMMA OSTaskCreateHookInv ==
  ASSUME PortInv, NEW t \in Task, NEW c \in Task, OSTaskCreateHook(t, c)
  PROVE  PortInv'
<1> USE DEF PortInv, OSTaskCreateHook, Runs, Goto, taskvars
<1>1. PortTypeOK'
  BY DEF PortTypeOK, PC, ThreadState
<1>2. OthersStand'
  BY DEF PortTypeOK, PC, OthersStand, CurrentRuns, CritOwned, ReadyAlive
<1>3. CurrentRuns'
  BY DEF PortTypeOK, PC, OthersStand, CurrentRuns, CritOwned, ReadyAlive
<1>4. CritOwned'
  BY PortAssumption DEF PortTypeOK, PC, OthersStand, CurrentRuns, CritOwned, ReadyAlive
<1>5. ReadyAlive'
  BY DEF PortTypeOK, PC, OthersStand, CurrentRuns, CritOwned, ReadyAlive
<1> QED
  BY <1>1, <1>2, <1>3, <1>4, <1>5

\* OSTaskCreate keeps the invariant.
LEMMA OSTaskCreateInv ==
  ASSUME PortInv, NEW t \in Task, NEW c \in Task, OSTaskCreate(t, c)
  PROVE  PortInv'
<1> USE DEF PortInv, OSTaskCreate, Runs, Goto, taskvars, InCreation
<1>1. PortTypeOK'
  BY DEF PortTypeOK, PC, ThreadState
<1>2. OthersStand'
  BY DEF PortTypeOK, PC, OthersStand, CurrentRuns, CritOwned, ReadyAlive
<1>3. CurrentRuns'
  BY DEF PortTypeOK, PC, OthersStand, CurrentRuns, CritOwned, ReadyAlive
<1>4. CritOwned'
  BY PortAssumption DEF PortTypeOK, PC, OthersStand, CurrentRuns, CritOwned, ReadyAlive
<1>5. ReadyAlive'
  BY DEF PortTypeOK, PC, OthersStand, CurrentRuns, CritOwned, ReadyAlive
<1> QED
  BY <1>1, <1>2, <1>3, <1>4, <1>5

\* OSTaskDelHook keeps the invariant.
LEMMA OSTaskDelHookInv ==
  ASSUME PortInv, NEW t \in Task, NEW c \in Task, OSTaskDelHook(t, c)
  PROVE  PortInv'
<1> USE DEF PortInv, OSTaskDelHook, Known, Runs, Goto, taskvars, Terminate
<1>1. PortTypeOK'
  BY DEF PortTypeOK, PC, ThreadState
<1>2. OthersStand'
  BY DEF PortTypeOK, PC, OthersStand, CurrentRuns, CritOwned, ReadyAlive
<1>3. CurrentRuns'
  BY DEF PortTypeOK, PC, OthersStand, CurrentRuns, CritOwned, ReadyAlive
<1>4. CritOwned'
  BY PortAssumption DEF PortTypeOK, PC, OthersStand, CurrentRuns, CritOwned, ReadyAlive
<1>5. ReadyAlive'
  BY DEF PortTypeOK, PC, OthersStand, CurrentRuns, CritOwned, ReadyAlive
<1> QED
  BY <1>1, <1>2, <1>3, <1>4, <1>5

\* OSSchedStay keeps the invariant.
LEMMA OSSchedStayInv ==
  ASSUME PortInv, NEW t \in Task, OSSchedStay(t)
  PROVE  PortInv'
<1> USE DEF PortInv, OSSchedStay, Runs, Goto, taskvars
<1>1. PortTypeOK'
  BY DEF PortTypeOK, PC, ThreadState
<1>2. OthersStand'
  BY DEF PortTypeOK, PC, OthersStand, CurrentRuns, CritOwned, ReadyAlive
<1>3. CurrentRuns'
  BY DEF PortTypeOK, PC, OthersStand, CurrentRuns, CritOwned, ReadyAlive
<1>4. CritOwned'
  BY PortAssumption DEF PortTypeOK, PC, OthersStand, CurrentRuns, CritOwned, ReadyAlive
<1>5. ReadyAlive'
  BY DEF PortTypeOK, PC, OthersStand, CurrentRuns, CritOwned, ReadyAlive
<1> QED
  BY <1>1, <1>2, <1>3, <1>4, <1>5

\* OSCtxSw keeps the invariant.
LEMMA OSCtxSwInv ==
  ASSUME PortInv, NEW t \in Task, NEW new \in Task, OSCtxSw(t, new)
  PROVE  PortInv'
<1> USE DEF PortInv, Runs, Goto
<1>1. /\ cur' = new /\ new # t /\ new \in rdy /\ pc[t] = "gap" /\ ~frozen[t] /\ crit = NoThread
      /\ UNCHANGED <<InitSignalPtr, rdy, tick, tickEvent>>
  BY DEF OSCtxSw
<1>2. /\ tick \notin {"isr", "init"} /\ \A u \in Task : pc[u] \notin {"svc", "init", "leave"}
      /\ t = cur
  BY <1>1, PortAssumption DEF PortTypeOK, PC, OthersStand, CritOwned
<1>3. Running(t) \/ Ending(t)
  BY <1>1, <1>2 DEF CurrentRuns
<1>4. Fresh(new) \/ Asleep(new) \/ Stopped(new)
  BY <1>1, <1>2 DEF OthersStand, ReadyAlive
<1> DEFINE state == IF TaskState[t] = "RUNNING" THEN [TaskState EXCEPT ![t] = "SUSPENDED"] ELSE TaskState
<1>5. /\ state[t] = IF Running(t) THEN "SUSPENDED" ELSE "TERMINATING"
      /\ \A u \in Task \ {t} : state[u] = TaskState[u]
      /\ state \in [Task -> ThreadState]
  BY <1>3 DEF PortTypeOK, ThreadState
<1>6. /\ LetRun(state, new)
      /\ pc' = [pc EXCEPT ![t] = IF Fresh(new) THEN "init" ELSE "leave"]
      /\ crit' = t
  BY <1>1, <1>4, <1>5 DEF OSCtxSw
<1> HIDE DEF state
<1>7. /\ TaskState' \in [Task -> ThreadState]
      /\ TaskState'[new] = IF TaskState[new] = "CREATED" THEN "CREATED" ELSE "RUNNING"
      /\ \A u \in Task \ {new} : TaskState'[u] = state[u]
      /\ SignalPtr' \in [Task -> BOOLEAN]
      /\ SignalPtr'[new] <=> pc[new] \in {"start", "wait"}
      /\ frozen' \in [Task -> BOOLEAN] /\ ~frozen'[new]
      /\ \A u \in Task \ {new} : SignalPtr'[u] = SignalPtr[u] /\ frozen'[u] = frozen[u]
  BY <1>1, <1>4, <1>5, <1>6, LetRunLemma
<1>8. PortTypeOK'
  BY <1>1, <1>6, <1>7 DEF PortTypeOK, PC
<1>9. OthersStand'
  <2>1. Leaving(t)'
    BY <1>1, <1>3, <1>5, <1>6, <1>7 DEF PortTypeOK
  <2>2. ASSUME NEW u \in Task \ {t, new}
        PROVE  (Gone(u) \/ Fresh(u) \/ Asleep(u) \/ Stopped(u) \/ Leaving(u))'
    <3>1. /\ pc'[u] = pc[u] /\ TaskState'[u] = TaskState[u] /\ frozen'[u] = frozen[u]
          /\ SignalPtr'[u] = SignalPtr[u] /\ InitSignalPtr'[u] = InitSignalPtr[u]
      BY <1>1, <1>5, <1>6, <1>7, <2>2 DEF PortTypeOK
    <3> QED
      BY <1>2, <2>2, <3>1 DEF OthersStand
  <2> QED
    BY <1>1, <2>1, <2>2 DEF OthersStand
<1>10. CurrentRuns'
  BY <1>1, <1>2, <1>4, <1>6, <1>7 DEF PortTypeOK, PC, CurrentRuns
<1>11. CritOwned'
  BY <1>1, <1>2, <1>6, PortAssumption DEF PortTypeOK, PC, CritOwned
<1>12. ReadyAlive'
  BY <1>1, <1>2, <1>3, <1>4, <1>5, <1>6, <1>7 DEF PortTypeOK, PC, ReadyAlive
<1> QED
  BY <1>8, <1>9, <1>10, <1>11, <1>12

\* OSCtxSwStarted keeps the invariant.
LEMMA OSCtxSwStartedInv ==
  ASSUME PortInv, NEW t \in Task, OSCtxSwStarted(t)
  PROVE  PortInv'
<1> USE DEF PortInv, OSCtxSwStarted, Runs, Goto, taskvars
<1>1. PortTypeOK'
  BY DEF PortTypeOK, PC, ThreadState
<1>2. OthersStand'
  BY DEF PortTypeOK, PC, OthersStand, CurrentRuns, CritOwned, ReadyAlive
<1>3. CurrentRuns'
  BY DEF PortTypeOK, PC, OthersStand, CurrentRuns, CritOwned, ReadyAlive
<1>4. CritOwned'
  BY PortAssumption DEF PortTypeOK, PC, OthersStand, CurrentRuns, CritOwned, ReadyAlive
<1>5. ReadyAlive'
  BY DEF PortTypeOK, PC, OthersStand, CurrentRuns, CritOwned, ReadyAlive
<1> QED
  BY <1>1, <1>2, <1>3, <1>4, <1>5

\* OSCtxSwLeave keeps the invariant.
LEMMA OSCtxSwLeaveInv ==
  ASSUME PortInv, NEW t \in Task, OSCtxSwLeave(t)
  PROVE  PortInv'
<1> USE DEF PortInv, OSCtxSwLeave, Runs, Goto, taskvars, Terminate
<1>1. PortTypeOK'
  BY DEF PortTypeOK, PC, ThreadState
<1>2. OthersStand'
  BY DEF PortTypeOK, PC, OthersStand, CurrentRuns, CritOwned, ReadyAlive
<1>3. CurrentRuns'
  BY DEF PortTypeOK, PC, OthersStand, CurrentRuns, CritOwned, ReadyAlive
<1>4. CritOwned'
  BY PortAssumption DEF PortTypeOK, PC, OthersStand, CurrentRuns, CritOwned, ReadyAlive
<1>5. ReadyAlive'
  BY DEF PortTypeOK, PC, OthersStand, CurrentRuns, CritOwned, ReadyAlive
<1> QED
  BY <1>1, <1>2, <1>3, <1>4, <1>5

\* OSCtxSwWake keeps the invariant.
LEMMA OSCtxSwWakeInv ==
  ASSUME PortInv, NEW t \in Task, OSCtxSwWake(t)
  PROVE  PortInv'
<1> USE DEF PortInv, OSCtxSwWake, Runs, Goto, taskvars
<1>1. PortTypeOK'
  BY DEF PortTypeOK, PC, ThreadState
<1>2. OthersStand'
  BY DEF PortTypeOK, PC, OthersStand, CurrentRuns, CritOwned, ReadyAlive
<1>3. CurrentRuns'
  BY DEF PortTypeOK, PC, OthersStand, CurrentRuns, CritOwned, ReadyAlive
<1>4. CritOwned'
  BY PortAssumption DEF PortTypeOK, PC, OthersStand, CurrentRuns, CritOwned, ReadyAlive
<1>5. ReadyAlive'
  BY DEF PortTypeOK, PC, OthersStand, CurrentRuns, CritOwned, ReadyAlive
<1> QED
  BY <1>1, <1>2, <1>3, <1>4, <1>5

\* OSCtxSwReturn keeps the invariant.
LEMMA OSCtxSwReturnInv ==
  ASSUME PortInv, NEW t \in Task, OSCtxSwReturn(t)
  PROVE  PortInv'
<1> USE DEF PortInv, OSCtxSwReturn, Runs, Goto, taskvars
<1>1. PortTypeOK'
  BY DEF PortTypeOK, PC, ThreadState
<1>2. OthersStand'
  BY DEF PortTypeOK, PC, OthersStand, CurrentRuns, CritOwned, ReadyAlive
<1>3. CurrentRuns'
  BY DEF PortTypeOK, PC, OthersStand, CurrentRuns, CritOwned, ReadyAlive
<1>4. CritOwned'
  BY PortAssumption DEF PortTypeOK, PC, OthersStand, CurrentRuns, CritOwned, ReadyAlive
<1>5. ReadyAlive'
  BY DEF PortTypeOK, PC, OthersStand, CurrentRuns, CritOwned, ReadyAlive
<1> QED
  BY <1>1, <1>2, <1>3, <1>4, <1>5

\* TimerFires keeps the invariant.
LEMMA TimerFiresInv ==
  ASSUME PortInv, TimerFires
  PROVE  PortInv'
<1> USE DEF PortInv, TimerFires, Runs, Goto, taskvars
<1>1. PortTypeOK'
  BY DEF PortTypeOK, PC, ThreadState
<1>2. OthersStand'
  BY DEF PortTypeOK, PC, OthersStand, CurrentRuns, CritOwned, ReadyAlive
<1>3. CurrentRuns'
  BY DEF PortTypeOK, PC, OthersStand, CurrentRuns, CritOwned, ReadyAlive
<1>4. CritOwned'
  BY PortAssumption DEF PortTypeOK, PC, OthersStand, CurrentRuns, CritOwned, ReadyAlive
<1>5. ReadyAlive'
  BY DEF PortTypeOK, PC, OthersStand, CurrentRuns, CritOwned, ReadyAlive
<1> QED
  BY <1>1, <1>2, <1>3, <1>4, <1>5

\* OSTickW32 keeps the invariant.
LEMMA OSTickW32Inv ==
  ASSUME PortInv, OSTickW32
  PROVE  PortInv'
<1> USE DEF PortInv, OSTickW32, Runs, Goto, taskvars
<1>1. PortTypeOK'
  BY DEF PortTypeOK, PC, ThreadState
<1>2. OthersStand'
  BY DEF PortTypeOK, PC, OthersStand, CurrentRuns, CritOwned, ReadyAlive
<1>3. CurrentRuns'
  BY DEF PortTypeOK, PC, OthersStand, CurrentRuns, CritOwned, ReadyAlive
<1>4. CritOwned'
  BY PortAssumption DEF PortTypeOK, PC, OthersStand, CurrentRuns, CritOwned, ReadyAlive
<1>5. ReadyAlive'
  BY DEF PortTypeOK, PC, OthersStand, CurrentRuns, CritOwned, ReadyAlive
<1> QED
  BY <1>1, <1>2, <1>3, <1>4, <1>5

\* OSIntCurTaskSuspend keeps the invariant.
LEMMA OSIntCurTaskSuspendInv ==
  ASSUME PortInv, OSIntCurTaskSuspend
  PROVE  PortInv'
<1> USE DEF PortInv
<1>1. tick = "enter" /\ crit = NoThread /\ UNCHANGED <<cur, rdy, tickEvent>>
  BY DEF OSIntCurTaskSuspend
<1>2. Running(cur) \/ Ending(cur)
  BY <1>1, PortAssumption DEF CurrentRuns, CritOwned, PortTypeOK
<1>3. CASE Running(cur)
  <2>1. /\ frozen' = [frozen EXCEPT ![cur] = TRUE]
        /\ TaskState' = [TaskState EXCEPT ![cur] = "INTERRUPTED"]
        /\ UNCHANGED <<SignalPtr, InitSignalPtr, pc>>
        /\ tick' = "isr" /\ crit' = TickW32
    BY <1>3 DEF OSIntCurTaskSuspend
  <2>2. PortTypeOK'
    BY <1>1, <2>1 DEF PortTypeOK, PC, ThreadState
  <2>3. OthersStand'
    BY <1>1, <2>1 DEF PortTypeOK, OthersStand
  <2>4. CurrentRuns'
    BY <1>1, <1>3, <2>1, PortAssumption DEF PortTypeOK, CurrentRuns, CritOwned
  <2>5. CritOwned'
    BY <1>1, <2>1, PortAssumption DEF PortTypeOK, CritOwned
  <2>6. ReadyAlive'
    BY <1>1, <2>1 DEF PortTypeOK, ReadyAlive
  <2> QED
    BY <2>2, <2>3, <2>4, <2>5, <2>6
<1>4. CASE Ending(cur)
  <2>1. /\ Terminate(cur) /\ pc' = [pc EXCEPT ![cur] = "none"]
        /\ tick' = "isr" /\ crit' = TickW32
    BY <1>4 DEF OSIntCurTaskSuspend, Goto
  <2>2. PortTypeOK'
    BY <1>1, <2>1 DEF PortTypeOK, PC, ThreadState, Terminate
  <2>3. OthersStand'
    BY <1>1, <2>1 DEF PortTypeOK, OthersStand, Terminate
  <2>4. CurrentRuns'
    BY <1>1, <2>1 DEF PortTypeOK, CurrentRuns, Terminate
  <2>5. CritOwned'
    BY <1>1, <1>4, <2>1, PortAssumption DEF PortTypeOK, CritOwned
  <2>6. ReadyAlive'
    BY <1>1, <1>4, <2>1 DEF PortTypeOK, ReadyAlive, Terminate
  <2> QED
    BY <2>2, <2>3, <2>4, <2>5, <2>6
<1> QED
  BY <1>2, <1>3, <1>4

\* OSIntCurTaskResume keeps the invariant.
LEMMA OSIntCurTaskResumeInv ==
  ASSUME PortInv, NEW S \in SUBSET Task, NEW new \in Task, OSIntCurTaskResume(S, new)
  PROVE  PortInv'
<1> USE DEF PortInv
<1>1. /\ tick = "isr" /\ crit = TickW32 /\ cur' = new /\ rdy' = rdy \cup S
      /\ UNCHANGED <<InitSignalPtr, pc, tickEvent>>
      /\ LetRun(TaskState, new)
      /\ IF TaskState[new] = "CREATED" THEN tick' = "init" /\ UNCHANGED crit
                                       ELSE tick' = "idle" /\ crit' = NoThread
  BY DEF OSIntCurTaskResume, CritOwned
<1>2. \A u \in Task : pc[u] \notin {"svc", "init", "leave"}
  BY <1>1, PortAssumption DEF CritOwned
<1>3. \A u \in Task : Gone(u) \/ Fresh(u) \/ Asleep(u) \/ Stopped(u)
  BY <1>1, <1>2 DEF OthersStand, CurrentRuns
<1>4. pc[new] # "none"
  BY DEF ReadyAlive, OSIntCurTaskResume, Known
<1>5. /\ TaskState' \in [Task -> ThreadState]
      /\ TaskState'[new] = IF TaskState[new] = "CREATED" THEN "CREATED" ELSE "RUNNING"
      /\ \A u \in Task \ {new} : TaskState'[u] = TaskState[u]
      /\ SignalPtr' \in [Task -> BOOLEAN]
      /\ SignalPtr'[new] <=> pc[new] \in {"start", "wait"}
      /\ frozen' \in [Task -> BOOLEAN] /\ ~frozen'[new]
      /\ \A u \in Task \ {new} : SignalPtr'[u] = SignalPtr[u] /\ frozen'[u] = frozen[u]
  <2>1. TaskState \in [Task -> ThreadState]
    BY DEF PortTypeOK
  <2>2. Fresh(new) \/ Asleep(new) \/ Stopped(new)
    BY <1>3, <1>4
  <2> QED
    BY <1>1, <2>1, <2>2, LetRunLemma
<1>6. PortTypeOK'
  BY <1>1, <1>5 DEF PortTypeOK
<1>7. OthersStand'
  <2>1. ASSUME NEW u \in Task \ {new}
        PROVE  (Gone(u) \/ Fresh(u) \/ Asleep(u) \/ Stopped(u) \/ Leaving(u))'
    BY <1>1, <1>3, <1>5, <2>1, SameThread
  <2> QED
    BY <1>1, <2>1 DEF OthersStand
<1>8. CurrentRuns'
  BY <1>1, <1>3, <1>4, <1>5 DEF CurrentRuns
<1>9. CritOwned'
  BY <1>1, <1>2, PortAssumption DEF CritOwned
<1>10. ReadyAlive'
  <2>1. \A u \in Task : pc[u] # "none" => TaskState'[u] # "TERMINATING"
    BY <1>3, <1>5
  <2>2. \A u \in rdy' : u \in Task /\ pc[u] # "none"
    BY <1>1 DEF PortTypeOK, ReadyAlive, OSIntCurTaskResume, Known
  <2> QED
    BY <1>1, <2>1, <2>2 DEF ReadyAlive
<1> QED
  BY <1>6, <1>7, <1>8, <1>9, <1>10

\* OSIntCurTaskStarted keeps the invariant.
LEMMA OSIntCurTaskStartedInv ==
  ASSUME PortInv, OSIntCurTaskStarted
  PROVE  PortInv'
<1> USE DEF PortInv, OSIntCurTaskStarted, Runs, Goto, taskvars
<1>1. PortTypeOK'
  BY DEF PortTypeOK, PC, ThreadState
<1>2. OthersStand'
  BY DEF PortTypeOK, PC, OthersStand, CurrentRuns, CritOwned, ReadyAlive
<1>3. CurrentRuns'
  BY DEF PortTypeOK, PC, OthersStand, CurrentRuns, CritOwned, ReadyAlive
<1>4. CritOwned'
  BY PortAssumption DEF PortTypeOK, PC, OthersStand, CurrentRuns, CritOwned, ReadyAlive
<1>5. ReadyAlive'
  BY DEF PortTypeOK, PC, OthersStand, CurrentRuns, CritOwned, ReadyAlive
<1> QED
  BY <1>1, <1>2, <1>3, <1>4, <1>5
-----------------------------------------------------------------------------
(* The theorems. *)

\* OSStartHighRdy leaves the port in a state of the invariant.
LEMMA PortInitInv == PortInit => PortInv
<1> SUFFICES ASSUME PortInit
             PROVE  PortInv
  OBVIOUS
<1> USE PortAssumption DEF PortInit
<1>1. PortTypeOK
  BY DEF PortTypeOK, PC, ThreadState
<1>2. OthersStand
  BY DEF OthersStand
<1>3. CurrentRuns
  BY DEF CurrentRuns
<1>4. CritOwned
  BY DEF CritOwned
<1>5. ReadyAlive
  BY DEF ReadyAlive
<1> QED
  BY <1>1, <1>2, <1>3, <1>4, <1>5 DEF PortInv

\* Every step of a task's thread, of the timer and of the tick thread keeps the
\* invariant.
LEMMA PortNextInv == PortInv /\ [PortNext]_portvars => PortInv'
<1> SUFFICES ASSUME PortInv, [PortNext]_portvars
             PROVE  PortInv'
  OBVIOUS
<1>1. ASSUME NEW t \in Task, ServiceStep(t)
      PROVE  PortInv'
  BY <1>1, ServiceInv, OSTaskCreateInv, OSTaskDelHookInv DEF ServiceStep
<1>2. ASSUME NEW t \in Task, PortStep(t)
      PROVE  PortInv'
  BY <1>2, OSTaskW32Inv, OSTaskW32FirstInv, OSSchedStayInv, OSCtxSwInv, OSCtxSwStartedInv,
     OSCtxSwLeaveInv, OSCtxSwWakeInv, OSCtxSwReturnInv DEF PortStep
<1>3. CASE TickStep
  BY <1>3, OSTickW32Inv, OSIntCurTaskSuspendInv, OSIntCurTaskStartedInv, OSIntCurTaskResumeInv
     DEF TickStep
<1>4. CASE UNCHANGED portvars
  BY <1>4 DEF portvars, taskvars, PortInv, PortTypeOK, OthersStand, CurrentRuns, CritOwned, ReadyAlive
<1> QED
  BY <1>1, <1>2, <1>3, <1>4, EnterServiceInv, OSTaskCreateHookInv, TimerFiresInv DEF PortNext

\* The Windows threads behave like one processor, whatever the number of tasks:
\* OSCtxSw, OSIntCurTaskSuspend, OSIntCurTaskResume and the hooks never let a
\* thread execute task or kernel code that is not the current task's.
THEOREM PortOnlyCurrentRuns == PortSpec => []OnlyCurrentRuns
<1>1. PortInv => OnlyCurrentRuns
  BY DEF PortInv, OthersStand, OnlyCurrentRuns, Runs
<1> QED
  BY <1>1, PortInitInv, PortNextInv, PTL DEF PortSpec

\* OSIntCurTaskSuspend always finds the current thread running or on its way out,
\* whatever switch, creation or deletion the tick comes after.
THEOREM PortTickNotDropped == PortSpec => []TickNotDropped
<1>1. PortInv => TickNotDropped
  BY PortAssumption DEF PortInv, PortTypeOK, CurrentRuns, CritOwned, TickNotDropped
<1> QED
  BY <1>1, PortInitInv, PortNextInv, PTL DEF PortSpec
=============================================================================
