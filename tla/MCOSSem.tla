------------------------------ MODULE MCOSSem ------------------------------
(***************************************************************************)
(* Instances of OSSem: three application tasks on one semaphore.           *)
(***************************************************************************)
EXTENDS OSSem

CONSTANTS idle, tick, a, b, c, s1, CtlSvc, AppSvc

Tasks3 == {idle, tick, a, b, c}
Boot3  == <<idle, tick, a, b, c>>

Sems == {s1}
Zero == [s \in Sem |-> 0]

\* Task a below the tasks it wakes.
PrioCtlLow   == [t \in Task |-> CASE t = tick -> 0 [] t = b -> 1 [] t = c -> 2
                                  [] t = a -> 3 [] t = idle -> 4]

QuantaDflt == [t \in Task |-> 0]

AppCalls == [t \in Task |-> IF t \in {TickTask, TmrTask} THEN {"sempend"}
                            ELSE IF t = IdleTask THEN {}
                            ELSE IF t = a THEN CtlSvc ELSE AppSvc]
=============================================================================
