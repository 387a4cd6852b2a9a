----------------------------- MODULE MCOSMutex -----------------------------
(***************************************************************************)
(* Instances of OSMutex: application tasks of distinct priorities on one   *)
(* mutex.                                                                  *)
(***************************************************************************)
EXTENDS OSMutex

CONSTANTS idle, tick, a, b, c, m1, CtlSvc, AppSvc

Tasks2 == {idle, tick, a, b}
Tasks3 == {idle, tick, a, b, c}
Boot2  == <<idle, tick, a, b>>
Boot3  == <<idle, tick, a, b, c>>

One == {m1}

PrioDistinct == [t \in Task |-> CASE t = tick -> 0 [] t = a -> 1 [] t = b -> 2
                                  [] t = c -> 3 [] t = idle -> 4]

QuantaDflt == [t \in Task |-> 0]

AppCalls == [t \in Task |-> IF t \in {TickTask, TmrTask} THEN {"sempend"}
                            ELSE IF t = IdleTask THEN {}
                            ELSE IF t = a THEN CtlSvc ELSE AppSvc]
=============================================================================
