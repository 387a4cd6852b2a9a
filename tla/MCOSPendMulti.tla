--------------------------- MODULE MCOSPendMulti ---------------------------
(***************************************************************************)
(* Instances of OSPendMulti: tasks b and c wait for a semaphore and a      *)
(* queue, for both at once and for their own queues; task a posts.         *)
(***************************************************************************)
EXTENDS OSPendMulti

CONSTANTS idle, tick, a, b, c, s1, q1, m1, CtlSvc, BSvc, CSvc

Tasks3 == {idle, tick, a, b, c}
Boot3  == <<idle, tick, a, b, c>>

Zero == [s \in Sem |-> 0]
Sizes == [x \in MsgQ |-> IF x \in Q THEN 2 ELSE IF x = b THEN 1 ELSE 0]

\* Task a below the tasks it wakes.
PrioCtlLow == [t \in Task |-> CASE t = tick -> 0 [] t = b -> 1 [] t = c -> 2
                                [] t = a -> 3 [] t = idle -> 4]

QuantaDflt == [t \in Task |-> 0]

AppCalls == [t \in Task |-> IF t \in {TickTask, TmrTask} THEN {"sempend"}
                            ELSE IF t = IdleTask THEN {}
                            ELSE IF t = a THEN CtlSvc ELSE IF t = b THEN BSvc ELSE CSvc]
=============================================================================
