------------------------------- MODULE MCOSTmr -------------------------------
(***************************************************************************)
(* Instances of OSTmr: three timers on a wheel of two spokes, one of them  *)
(* periodic.                                                               *)
(***************************************************************************)
EXTENDS OSTmr

CONSTANTS t1, t2, t3

Dlys    == [t \in Tmr |-> CASE t = t1 -> 2 [] t = t2 -> 4 [] OTHER -> 0]
Periods == [t \in Tmr |-> CASE t = t3 -> 2 [] OTHER -> 0]
=============================================================================
