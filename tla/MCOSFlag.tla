------------------------------ MODULE MCOSFlag ------------------------------
(***************************************************************************)
(* Instances of OSFlag: tasks b and c wait on one group, task a below them *)
(* posts, suspends and resumes.                                            *)
(***************************************************************************)
EXTENDS OSFlag

CONSTANTS idle, tick, a, b, c, g1, f1, f2, CtlSvc, AppSvc

Tasks3 == {idle, tick, a, b, c}
Boot3  == <<idle, tick, a, b, c>>

NoFlags == [g \in Grp |-> {}]

PrioCtlLow == [t \in Task |-> CASE t = tick -> 0 [] t = b -> 1 [] t = c -> 2
                                [] t = a -> 3 [] t = idle -> 4]

QuantaDflt == [t \in Task |-> 0]

AppCalls == [t \in Task |-> IF t \in {TickTask, TmrTask} THEN {"sempend"}
                            ELSE IF t = IdleTask THEN {}
                            ELSE IF t = a THEN CtlSvc ELSE AppSvc]
=============================================================================
