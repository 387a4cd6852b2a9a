------------------------------- MODULE Timers -------------------------------
(***************************************************************************)
(* What software timers promise: a running timer counts down with every    *)
(* timer tick and expires at the tick that takes it to zero, neither       *)
(* earlier nor later.  os_tmr.c implements the counting with a wheel of    *)
(* linked lists and a match value that wraps (OSTmr).                      *)
(***************************************************************************)
EXTENDS Naturals

CONSTANTS Tmr,           \* the timers
          Dly, Period    \* the first and the later times to expiry, 0 is none

VARIABLES state,         \* of each timer
          left,          \* the ticks left to each running timer
          due            \* the timers that expire at this tick and have not yet

tvars == <<state, left, due>>

Init == /\ state = [t \in Tmr |-> "UNUSED"]
        /\ left = [t \in Tmr |-> 0]
        /\ due = {}

Create(t) == /\ state[t] = "UNUSED"
             /\ state' = [state EXCEPT ![t] = "STOPPED"]
             /\ UNCHANGED <<left, due>>

Start(t) == /\ state[t] # "UNUSED"
            /\ state' = [state EXCEPT ![t] = "RUNNING"]
            /\ left' = [left EXCEPT ![t] = IF Dly[t] = 0 THEN Period[t] ELSE Dly[t]]
            /\ due' = due \ {t}

Stop(t) == /\ state[t] = "RUNNING"
           /\ state' = [state EXCEPT ![t] = "STOPPED"]
           /\ left' = [left EXCEPT ![t] = 0]
           /\ due' = due \ {t}

Tick == /\ due = {}
        /\ left' = [t \in Tmr |-> IF state[t] = "RUNNING" THEN left[t] - 1 ELSE 0]
        /\ due' = {t \in Tmr : state[t] = "RUNNING" /\ left[t] = 1}
        /\ UNCHANGED state

Expire(t) == /\ t \in due
             /\ due' = due \ {t}
             /\ left' = [left EXCEPT ![t] = Period[t]]
             /\ state' = [state EXCEPT ![t] = IF Period[t] = 0 THEN "COMPLETED" ELSE "RUNNING"]

Next == Tick \/ \E t \in Tmr : Create(t) \/ Start(t) \/ Stop(t) \/ Expire(t)

Spec == Init /\ [][Next]_tvars
=============================================================================
