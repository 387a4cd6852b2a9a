------------------------------ MODULE PrioSet ------------------------------
(***************************************************************************)
(* What the scheduler needs from a ready-priority table: a set of          *)
(* priorities that can be entered and left, and whose smallest member (the *)
(* highest urgency) can be read.  os_prio.c implements it with a bitmap;   *)
(* OSCore uses the set itself.                                             *)
(***************************************************************************)
EXTENDS Naturals, FiniteSets

CONSTANT PrioMax                 \* OS_CFG_PRIO_MAX

Prios == 0 .. PrioMax - 1

VARIABLES prios,                 \* the priorities that have a ready task
          highest                \* the answer to the last query

vars == <<prios, highest>>

Highest(S) == CHOOSE p \in S : \A q \in S : p <= q

Init == prios = {} /\ highest = 0

Insert(p) == prios' = prios \cup {p} /\ UNCHANGED highest

Remove(p) == prios' = prios \ {p} /\ UNCHANGED highest

GetHighest == /\ prios # {}
              /\ highest' = Highest(prios)
              /\ UNCHANGED prios

Next == \/ \E p \in Prios : Insert(p) \/ Remove(p)
        \/ GetHighest

Spec == Init /\ [][Next]_vars
=============================================================================
