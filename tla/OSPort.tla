------------------------------- MODULE OSPort -------------------------------
(***************************************************************************)
(* The Win32 port (PORTS/os_cpu_c.c, uC-CPU/cpu_c.c): every task is a      *)
(* Windows thread, the tick interrupt is another, and disabling interrupts *)
(* is entering a Win32 critical section.  The port has to make the threads *)
(* behave like one processor: only the thread of the current task runs.    *)
(* OSKernel takes that for granted.  Here the kernel is what it asks of    *)
(* the port: tasks become ready and unready, and OSSched and OSIntExit     *)
(* select some ready task.                                                 *)
(***************************************************************************)
EXTENDS Naturals

CONSTANTS Task,          \* the TCBs, each with its OS_TASK and its thread
          IdleTask,      \* always ready
          TickW32,       \* the thread of the tick interrupt
          NoThread

ASSUME PortAssumption == IdleTask \in Task /\ TickW32 \notin Task /\ NoThread \notin Task \cup {TickW32}

VARIABLES
  TaskState,       \* OS_TASK: STATE_xxx
  SignalPtr,       \* OS_TASK: the auto-reset event that lets the thread run
  InitSignalPtr,   \* OS_TASK: the manual-reset event that says that it started
  frozen,          \* the thread is suspended (SuspendThread, CREATE_SUSPENDED)
  pc,              \* where each task's thread is
  crit,            \* the owner of the critical section
  cur,             \* OSTCBCurPtr; OSTCBHighRdyPtr is the same between two switches
  rdy,             \* the tasks the kernel considers ready
  tick,            \* where the tick thread is
  tickEvent        \* OSTick_SignalPtr

taskvars == <<TaskState, SignalPtr, InitSignalPtr, frozen>>
portvars == <<taskvars, pc, crit, cur, rdy, tick, tickEvent>>

\* "none"    there is no thread
\* "start"   the entry of OSTaskW32; "first" waits there for its first signal
\* "app"     executes the task's code
\* "svc"     in the critical section of a service
\* "hook"    in OSTaskCreate, between OSTaskCreateHook and the critical section
\* "gap"     between that critical section and the one of OSSched
\* "init"    in OSCtxSw, waiting for a new thread to start, critical section held
\* "leave"   in OSCtxSw, about to leave the critical section
\* "wait"    in OSCtxSw, waiting for its signal; "back" has it and wants to enter again
PC == {"none", "start", "first", "app", "svc", "hook", "gap", "init", "leave", "wait", "back"}

\* OSStartHighRdy has started the idle task and the tick thread.
PortInit ==
  /\ TaskState = [t \in Task |-> IF t = IdleTask THEN "RUNNING" ELSE "NONE"]
  /\ SignalPtr = [t \in Task |-> FALSE]
  /\ InitSignalPtr = [t \in Task |-> t = IdleTask]
  /\ frozen = [t \in Task |-> FALSE]
  /\ pc = [t \in Task |-> IF t = IdleTask THEN "app" ELSE "none"]
  /\ crit = NoThread /\ cur = IdleTask /\ rdy = {IdleTask}
  /\ tick = "idle" /\ tickEvent = FALSE
-----------------------------------------------------------------------------
Runs(t) == pc[t] # "none" /\ ~frozen[t]

Goto(t, l) == pc' = [pc EXCEPT ![t] = l]

\* OSTaskCreate has made the thread and has yet to make the task ready.
InCreation(u) == TaskState[u] = "CREATED" /\ u \notin rdy

\* The tasks that services and ticks may find in the kernel's lists.
Known == {u \in Task : pc[u] # "none" /\ ~InCreation(u)}

\* OSTaskTerminate, and the end of the thread.
Terminate(t) == /\ TaskState' = [TaskState EXCEPT ![t] = "TERMINATED"]
                /\ SignalPtr' = [SignalPtr EXCEPT ![t] = FALSE]
                /\ InitSignalPtr' = [InitSignalPtr EXCEPT ![t] = FALSE]
                /\ frozen' = [frozen EXCEPT ![t] = FALSE]

\* Mutant of LetRun: a suspended thread is only marked as running.
MutLetRun(state, new) ==
  CASE state[new] = "CREATED" ->
         /\ frozen' = [frozen EXCEPT ![new] = FALSE]
         /\ SignalPtr' = [SignalPtr EXCEPT ![new] = TRUE]
         /\ TaskState' = state
    [] OTHER ->
         /\ TaskState' = [state EXCEPT ![new] = "RUNNING"]
         /\ SignalPtr' = [SignalPtr EXCEPT ![new] = TRUE]
         /\ UNCHANGED frozen

\* How OSCtxSw and OSIntCurTaskResume let the thread of the selected task run, by
\* the way it was stopped.
LetRun(state, new) ==
  CASE state[new] = "CREATED" ->
         /\ frozen' = [frozen EXCEPT ![new] = FALSE]
         /\ SignalPtr' = [SignalPtr EXCEPT ![new] = TRUE]
         /\ TaskState' = state
    [] state[new] = "SUSPENDED" ->
         /\ TaskState' = [state EXCEPT ![new] = "RUNNING"]
         /\ SignalPtr' = [SignalPtr EXCEPT ![new] = TRUE]
         /\ UNCHANGED frozen
    [] state[new] = "INTERRUPTED" ->
         /\ TaskState' = [state EXCEPT ![new] = "RUNNING"]
         /\ frozen' = [frozen EXCEPT ![new] = FALSE]
         /\ UNCHANGED SignalPtr
    [] OTHER -> TaskState' = state /\ UNCHANGED <<SignalPtr, frozen>>
-----------------------------------------------------------------------------
(* The thread of a task. *)

\* OSTaskW32, resumed for the first time.
OSTaskW32(t) == /\ Runs(t) /\ pc[t] = "start"
                /\ TaskState' = [TaskState EXCEPT ![t] = "SUSPENDED"]
                /\ Goto(t, "first")
                /\ UNCHANGED <<SignalPtr, InitSignalPtr, frozen, crit, cur, rdy, tick, tickEvent>>

OSTaskW32First(t) == /\ Runs(t) /\ pc[t] = "first" /\ SignalPtr[t]
                     /\ SignalPtr' = [SignalPtr EXCEPT ![t] = FALSE]
                     /\ TaskState' = [TaskState EXCEPT ![t] = "RUNNING"]
                     /\ InitSignalPtr' = [InitSignalPtr EXCEPT ![t] = TRUE]
                     /\ Goto(t, "app")
                     /\ UNCHANGED <<frozen, crit, cur, rdy, tick, tickEvent>>

\* A service enters its critical section (CPU_IntDis).
EnterService(t) == /\ Runs(t) /\ pc[t] = "app" /\ crit = NoThread
                   /\ crit' = t
                   /\ Goto(t, "svc")
                   /\ UNCHANGED <<taskvars, cur, rdy, tick, tickEvent>>

\* It makes a task ready or the caller unready (never the idle task), leaves the
\* critical section (CPU_IntEn) and goes on to OSSched.
Service(t, r) == /\ Runs(t) /\ pc[t] = "svc"
                 /\ \/ r = rdy \ {t} /\ t # IdleTask
                    \/ \E u \in Known : TaskState[u] # "TERMINATING" /\ r = rdy \cup {u}
                 /\ rdy' = r
                 /\ crit' = NoThread
                 /\ Goto(t, "gap")
                 /\ UNCHANGED <<taskvars, cur, tick, tickEvent>>

\* OSTaskCreate calls OSTaskCreateHook before its critical section: the thread is
\* created suspended.
OSTaskCreateHook(t, c) ==
  /\ Runs(t) /\ pc[t] = "app" /\ pc[c] = "none"
  /\ TaskState' = [TaskState EXCEPT ![c] = "CREATED"]
  /\ frozen' = [frozen EXCEPT ![c] = TRUE]
  /\ pc' = [pc EXCEPT ![t] = "hook", ![c] = "start"]
  /\ UNCHANGED <<SignalPtr, InitSignalPtr, crit, cur, rdy, tick, tickEvent>>

\* The critical section of OSTaskCreate: the task becomes ready.  Two creations in
\* progress may swap their tasks here; to the port new threads are all alike.
OSTaskCreate(t, c) ==
  /\ Runs(t) /\ pc[t] = "hook" /\ crit = NoThread /\ InCreation(c)
  /\ rdy' = rdy \cup {c}
  /\ Goto(t, "gap")
  /\ UNCHANGED <<taskvars, crit, cur, tick, tickEvent>>

\* OSTaskDel with OSTaskDelHook: another thread is terminated on the spot, the
\* caller's own when it gets to OSCtxSw.
OSTaskDelHook(t, c) ==
  /\ Runs(t) /\ pc[t] = "svc" /\ c \in Known \ {IdleTask}
  /\ IF c = t
     THEN /\ TaskState' = [TaskState EXCEPT ![t] = "TERMINATING"]
          /\ Goto(t, "gap")
          /\ UNCHANGED <<SignalPtr, InitSignalPtr, frozen>>
     ELSE /\ Terminate(c)
          /\ pc' = [pc EXCEPT ![t] = "gap", ![c] = "none"]
  /\ rdy' = rdy \ {c}
  /\ crit' = NoThread
  /\ UNCHANGED <<cur, tick, tickEvent>>

\* OSSched finds the caller the best task to run.
OSSchedStay(t) == /\ Runs(t) /\ pc[t] = "gap" /\ crit = NoThread /\ t \in rdy
                  /\ Goto(t, "app")
                  /\ UNCHANGED <<taskvars, crit, cur, rdy, tick, tickEvent>>

\* Mutant of OSCtxSw: the caller is not marked as suspended.
MutCtxSw(t, new) ==
  /\ Runs(t) /\ pc[t] = "gap" /\ crit = NoThread /\ new \in rdy \ {t}
  /\ crit' = t
  /\ cur' = new
  /\ LetRun(TaskState, new)
  /\ Goto(t, IF TaskState[new] = "CREATED" THEN "init"
             ELSE IF TaskState[new] \in {"SUSPENDED", "INTERRUPTED"} THEN "leave" ELSE "app")
  /\ UNCHANGED <<InitSignalPtr, rdy, tick, tickEvent>>

\* OSCtxSw; a new task in any other state makes it return.
OSCtxSw(t, new) ==
  LET state == IF TaskState[t] = "RUNNING" THEN [TaskState EXCEPT ![t] = "SUSPENDED"]
               ELSE TaskState
      next  == IF state[new] = "CREATED" THEN "init"
               ELSE IF state[new] \in {"SUSPENDED", "INTERRUPTED"} THEN "leave" ELSE "app"
  IN  /\ Runs(t) /\ pc[t] = "gap" /\ crit = NoThread /\ new \in rdy \ {t}
      /\ cur' = new
      /\ LetRun(state, new)
      /\ crit' = IF next = "app" THEN NoThread ELSE t
      /\ Goto(t, next)
      /\ UNCHANGED <<InitSignalPtr, rdy, tick, tickEvent>>

\* SignalObjectAndWait returns.
OSCtxSwStarted(t) == /\ Runs(t) /\ pc[t] = "init" /\ InitSignalPtr[cur]
                     /\ Goto(t, "leave")
                     /\ UNCHANGED <<taskvars, crit, cur, rdy, tick, tickEvent>>

\* Mutant of OSCtxSwLeave: a thread that is to end waits like the others.
MutCtxSwLeave(t) == /\ Runs(t) /\ pc[t] = "leave"
                    /\ Goto(t, "wait")
                    /\ crit' = NoThread
                    /\ UNCHANGED <<taskvars, cur, rdy, tick, tickEvent>>

\* The thread of a deleted task ends here, the others go to sleep.
OSCtxSwLeave(t) == /\ Runs(t) /\ pc[t] = "leave"
                   /\ IF TaskState[t] = "TERMINATING" THEN Terminate(t) /\ Goto(t, "none")
                                                      ELSE UNCHANGED taskvars /\ Goto(t, "wait")
                   /\ crit' = NoThread
                   /\ UNCHANGED <<cur, rdy, tick, tickEvent>>

OSCtxSwWake(t) == /\ Runs(t) /\ pc[t] = "wait" /\ SignalPtr[t]
                  /\ SignalPtr' = [SignalPtr EXCEPT ![t] = FALSE]
                  /\ Goto(t, "back")
                  /\ UNCHANGED <<TaskState, InitSignalPtr, frozen, crit, cur, rdy, tick, tickEvent>>

\* The critical section is entered again, and left at the end of OSSched.
OSCtxSwReturn(t) == /\ Runs(t) /\ pc[t] = "back" /\ crit = NoThread
                    /\ Goto(t, "app")
                    /\ UNCHANGED <<taskvars, crit, cur, rdy, tick, tickEvent>>
-----------------------------------------------------------------------------
(* The tick thread. *)

\* The multimedia timer sets the event; a tick that finds it set is lost.
TimerFires == /\ tickEvent' = TRUE
              /\ UNCHANGED <<taskvars, pc, crit, cur, rdy, tick>>

OSTickW32 == /\ tick = "idle" /\ tickEvent
             /\ tickEvent' = FALSE
             /\ tick' = "enter"
             /\ UNCHANGED <<taskvars, pc, crit, cur, rdy>>

\* The current thread is suspended, or ended if it is deleting its task; in any
\* other state the tick is dropped.
OSIntCurTaskSuspend ==
  /\ tick = "enter" /\ crit = NoThread
  /\ CASE TaskState[cur] = "RUNNING" ->
            /\ frozen' = [frozen EXCEPT ![cur] = TRUE]
            /\ TaskState' = [TaskState EXCEPT ![cur] = "INTERRUPTED"]
            /\ UNCHANGED <<SignalPtr, InitSignalPtr, pc>>
            /\ tick' = "isr" /\ crit' = TickW32
       [] TaskState[cur] = "TERMINATING" ->
            /\ Terminate(cur)
            /\ Goto(cur, "none")
            /\ tick' = "isr" /\ crit' = TickW32
       [] OTHER -> /\ UNCHANGED <<taskvars, pc, crit>>
                   /\ tick' = "idle"
  /\ UNCHANGED <<cur, rdy, tickEvent>>

\* OSIntEnter, OSTimeTick, OSIntExit with OSIntCtxSw, OSIntCurTaskResume: some task
\* may have become ready, and a ready task is selected.
OSIntCurTaskResume(S, new) ==
  /\ tick = "isr" /\ S \subseteq Known /\ new \in rdy \cup S
  /\ rdy' = rdy \cup S
  /\ cur' = new
  /\ LetRun(TaskState, new)
  /\ IF TaskState[new] = "CREATED" THEN tick' = "init" /\ UNCHANGED crit
                                   ELSE tick' = "idle" /\ crit' = NoThread
  /\ UNCHANGED <<InitSignalPtr, pc, tickEvent>>

OSIntCurTaskStarted == /\ tick = "init" /\ InitSignalPtr[cur]
                       /\ tick' = "idle" /\ crit' = NoThread
                       /\ UNCHANGED <<taskvars, pc, cur, rdy, tickEvent>>
-----------------------------------------------------------------------------
\* What a thread does inside the port, whatever the task's code does.
PortStep(t) == \/ OSTaskW32(t) \/ OSTaskW32First(t) \/ OSSchedStay(t)
               \/ \E new \in Task : OSCtxSw(t, new)
               \/ OSCtxSwStarted(t) \/ OSCtxSwLeave(t) \/ OSCtxSwWake(t) \/ OSCtxSwReturn(t)

\* The critical section of a service, which ends, and that of OSTaskCreate.
ServiceStep(t) == \/ \E r \in SUBSET Task : Service(t, r)
                  \/ \E c \in Task : OSTaskCreate(t, c) \/ OSTaskDelHook(t, c)

TickStep == \/ OSTickW32 \/ OSIntCurTaskSuspend \/ OSIntCurTaskStarted
            \/ \E S \in SUBSET Task, new \in Task : OSIntCurTaskResume(S, new)

PortNext == \/ \E t \in Task : EnterService(t) \/ ServiceStep(t) \/ PortStep(t)
            \/ \E t, c \in Task : OSTaskCreateHook(t, c)
            \/ TimerFires \/ TickStep

PortSpec == PortInit /\ [][PortNext]_portvars

\* Windows runs every thread that is not suspended: a thread that again and again
\* can go on does so, though the tick thread keeps suspending it and taking the
\* critical section.  Nothing is assumed of the tasks' code or of the timer.
PortLive == /\ PortSpec
            /\ \A t \in Task : SF_portvars(PortStep(t)) /\ SF_portvars(ServiceStep(t))
            /\ SF_portvars(TickStep)
-----------------------------------------------------------------------------
\* One processor: a thread that executes task or kernel code is the thread of the
\* current task; no context switch, tick, creation or deletion lets two run
\* (OSCtxSw, OSIntCurTaskSuspend, OSIntCurTaskResume).
OnlyCurrentRuns ==
  \A t \in Task : Runs(t) /\ pc[t] \in {"app", "svc", "hook", "gap"} => t = cur

\* A tick is never dropped for the state of the current thread: OSIntCurTaskSuspend
\* finds it running or on its way out, whatever switch or deletion came before.
TickNotDropped ==
  tick = "enter" /\ crit = NoThread => TaskState[cur] \in {"RUNNING", "TERMINATING"}

\* The selected task gets to run: its thread, new, asleep or interrupted, comes
\* back to its own code unless another task is selected before.
SelectedRuns ==
  \A t \in Task : cur = t ~> cur # t \/ (pc[t] = "app" /\ ~frozen[t])
=============================================================================
