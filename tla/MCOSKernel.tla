---------------------------- MODULE MCOSKernel ----------------------------
(***************************************************************************)
(* Small instances of OSKernel: the idle task, the tick task and two or    *)
(* three application tasks, one set of services per run.                   *)
(***************************************************************************)
EXTENDS OSKernel

CONSTANTS idle, tick, a, b, c,   \* TCBs
          CtlSvc, AppSvc         \* the services task a calls, and the other tasks

Tasks2 == {idle, tick, a, b}
Tasks3 == {idle, tick, a, b, c}
Boot2  == <<idle, tick, a, b>>
Boot3  == <<idle, tick, a, b, c>>

\* The tick task above every application task, a above b and c.
PrioTickHigh == [t \in Task |-> CASE t = tick -> 0 [] t = a -> 1 [] t = idle -> 3 [] OTHER -> 2]
\* The tick task between a and the others.
PrioTickMid  == [t \in Task |-> CASE t = a -> 0 [] t = tick -> 1 [] t = idle -> 3 [] OTHER -> 2]
\* The application tasks share a priority.
PrioShared   == [t \in Task |-> CASE t = tick -> 0 [] t = idle -> 2 [] OTHER -> 1]

QuantaDflt == [t \in Task |-> 0]

\* The tick and the timer task only wait for their semaphores, the idle task calls nothing.
AppCalls == [t \in Task |-> IF t \in {TickTask, TmrTask} THEN {"sempend"}
                            ELSE IF t = IdleTask THEN {}
                            ELSE IF t = a THEN CtlSvc ELSE AppSvc]
=============================================================================
