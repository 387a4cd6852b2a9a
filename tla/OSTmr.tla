-------------------------------- MODULE OSTmr --------------------------------
(***************************************************************************)
(* Software timers (os_tmr.c).  A running timer is linked into the spoke   *)
(* of the timer wheel that its match value selects, in the order of        *)
(* expiry; the timer task, signalled by the tick (OSTimeTick), processes   *)
(* one spoke per timer tick and calls the callbacks.  Start, stop and the  *)
(* processing of a spoke run with the scheduler locked, so a task and the  *)
(* timer task never mix; only callbacks can start and stop timers in the   *)
(* middle of a spoke.                                                      *)
(***************************************************************************)
EXTENDS Integers, Sequences, FiniteSets

CONSTANTS
  Tmr, NoTmr,      \* the OS_TMR structures and the null pointer
  Dly, Period,     \* the arguments of OSTmrCreate; opt is OS_OPT_TMR_PERIODIC for
  Periodic,        \*   these timers, else OS_OPT_TMR_ONE_SHOT
  TmrWheelSize,    \* OSCfg_TmrWheelSize
  TickMod,         \* 2^32 in the code: OS_TICK arithmetic wraps here
  SigMax,          \* model bound: signals the timer task may be behind
  Touch            \* what callbacks start and stop: "own", their own timer;
                   \*   "idle", timers that do not run; "other", running ones

ASSUME TmrAssumption ==
  /\ IsFiniteSet(Tmr) /\ NoTmr \notin Tmr /\ Periodic \subseteq Tmr
  /\ Dly \in [Tmr -> 0 .. TickMod - 1] /\ Period \in [Tmr -> 0 .. TickMod - 1]
  /\ \A t \in Tmr : IF t \in Periodic THEN Period[t] > 0 ELSE Dly[t] > 0
  /\ TmrWheelSize \in Nat \ {0} /\ TickMod \in Nat \ {0, 1} /\ SigMax \in Nat
  /\ Touch \subseteq {"own", "idle", "other"}

VARIABLES
  wh,              \* the timers' fields, the wheel, and whether a null pointer was written to
  OSTmrTickCtr,
  sig,             \* signals of the timer task's semaphore
  p_tmr,           \* the timer the task looks at next
  loop,            \* whether the task is in its loop over a spoke
  cb               \* the timer whose callback runs

tmrvars == <<wh, OSTmrTickCtr, sig, p_tmr, loop, cb>>

Spoke == 0 .. TmrWheelSize - 1

TmrInit ==
  /\ wh = [State |-> [t \in Tmr |-> "UNUSED"], Match |-> [t \in Tmr |-> 0],
           NextPtr |-> [t \in Tmr |-> NoTmr], PrevPtr |-> [t \in Tmr |-> NoTmr],
           FirstPtr |-> [s \in Spoke |-> NoTmr], NbrEntries |-> [s \in Spoke |-> 0],
           fault |-> FALSE]
  /\ OSTmrTickCtr = 0 /\ sig = 0
  /\ p_tmr = NoTmr /\ loop = FALSE /\ cb = NoTmr
-----------------------------------------------------------------------------
\* The entries of a spoke along the NextPtr links.
Entries(w, s) ==
  LET at[i \in 1 .. Cardinality(Tmr)] ==
        IF i = 1 THEN w.FirstPtr[s]
        ELSE IF at[i - 1] = NoTmr THEN NoTmr ELSE w.NextPtr[at[i - 1]]
  IN  [i \in {j \in 1 .. Cardinality(Tmr) : at[j] # NoTmr} |-> at[i]]

\* Mutant of MatchAfter: the match value is not reduced to its width.
MutMatchAfter(dly) == OSTmrTickCtr + dly

\* OS_TICK arithmetic.
MatchAfter(dly) == (OSTmrTickCtr + dly) % TickMod

Remain(w, t) == (w.Match[t] - OSTmrTickCtr) % TickMod

\* t becomes an entry of spoke s between p0 and p1.
LinkBetween(w, t, s, p0, p1) ==
  [w EXCEPT !.NextPtr = [u \in Tmr |-> IF u = t THEN p1 ELSE IF u = p0 THEN t ELSE @[u]],
            !.PrevPtr = [u \in Tmr |-> IF u = t THEN p0 ELSE IF u = p1 THEN t ELSE @[u]],
            !.FirstPtr[s] = IF p0 = NoTmr THEN t ELSE @,
            !.NbrEntries[s] = IF p0 = NoTmr /\ p1 = NoTmr THEN 1 ELSE @ + 1]

\* In front of the first entry that does not expire earlier, else behind the last.
OS_TmrLink(w, t, dly) ==
  LET w1    == [w EXCEPT !.State[t] = "RUNNING", !.Match[t] = MatchAfter(dly)]
      s     == w1.Match[t] % TmrWheelSize
      list  == Entries(w, s)
      later == {i \in DOMAIN list : Remain(w1, t) <= Remain(w1, list[i])}
      p1    == IF later = {} THEN NoTmr ELSE list[CHOOSE i \in later : \A j \in later : i <= j]
      p0    == IF list = <<>> THEN NoTmr ELSE IF later = {} THEN list[Len(list)] ELSE w.PrevPtr[p1]
  IN  LinkBetween(w1, t, s, p0, p1)

\* Mutant of OS_TmrUnlink: the new first entry keeps its PrevPtr.
MutTmrUnlink(w, t) ==
  LET s  == w.Match[t] % TmrWheelSize
      p1 == w.PrevPtr[t]
      p2 == w.NextPtr[t]
      w1 == IF w.FirstPtr[s] = t THEN [w EXCEPT !.FirstPtr[s] = p2]
            ELSE [w EXCEPT !.fault = (p1 = NoTmr),
                           !.NextPtr = [u \in Tmr |-> IF u = p1 THEN p2 ELSE @[u]],
                           !.PrevPtr = [u \in Tmr |-> IF u = p2 THEN p1 ELSE @[u]]]
  IN  [w1 EXCEPT !.State[t] = "STOPPED", !.NextPtr[t] = NoTmr, !.PrevPtr[t] = NoTmr,
                 !.NbrEntries[s] = @ - 1]

\* A timer that is not the first of its spoke is taken to have a predecessor;
\* one that is not linked at all has none, and the write goes to address 0.
OS_TmrUnlink(w, t) ==
  LET s  == w.Match[t] % TmrWheelSize
      p1 == IF w.FirstPtr[s] = t THEN NoTmr ELSE w.PrevPtr[t]
      p2 == w.NextPtr[t]
  IN  [w EXCEPT !.fault = (p1 = NoTmr /\ w.FirstPtr[s] # t),
                !.FirstPtr[s] = IF @ = t THEN p2 ELSE @,
                !.NextPtr = [u \in Tmr |-> IF u = t THEN NoTmr ELSE IF u = p1 THEN p2 ELSE @[u]],
                !.PrevPtr = [u \in Tmr |-> IF u = t THEN NoTmr ELSE IF u = p2 THEN p1 ELSE @[u]],
                !.State[t] = "STOPPED",
                !.NbrEntries[s] = @ - 1]
-----------------------------------------------------------------------------
\* A task or a callback may call for timer t: no task while the scheduler is
\* locked for a spoke or a callback.
MayCall(t) == /\ ~wh.fault
              /\ \/ ~loop /\ cb = NoTmr
                 \/ cb # NoTmr /\ \/ cb = t /\ "own" \in Touch
                                  \/ cb # t /\ wh.State[t] # "RUNNING" /\ "idle" \in Touch
                                  \/ cb # t /\ wh.State[t] = "RUNNING" /\ "other" \in Touch

\* The application creates a timer once; nothing checks that it is not running.
OSTmrCreate(t) == /\ ~wh.fault /\ ~loop /\ cb = NoTmr /\ wh.State[t] = "UNUSED"
                  /\ wh' = [wh EXCEPT !.State[t] = "STOPPED"]
                  /\ UNCHANGED <<OSTmrTickCtr, sig, p_tmr, loop, cb>>

\* OS_OPT_LINK_DLY: the delay, or the period when there is none.
InitialDly(t) == IF Dly[t] = 0 THEN Period[t] ELSE Dly[t]

OSTmrStart(t) ==
  /\ MayCall(t) /\ wh.State[t] # "UNUSED"
  /\ wh' = OS_TmrLink(IF wh.State[t] = "RUNNING" THEN OS_TmrUnlink(wh, t) ELSE wh,
                      t, InitialDly(t))
  /\ UNCHANGED <<OSTmrTickCtr, sig, p_tmr, loop, cb>>

\* OS_OPT_TMR_CALLBACK and OS_OPT_TMR_CALLBACK_ARG run the callback; callbacks
\* are taken not to ask for that.
OSTmrStop(t, callback) ==
  /\ MayCall(t) /\ wh.State[t] = "RUNNING" /\ (callback => cb = NoTmr)
  /\ wh' = OS_TmrUnlink(wh, t)
  /\ cb' = IF callback THEN t ELSE cb
  /\ UNCHANGED <<OSTmrTickCtr, sig, p_tmr, loop>>

OSTmrRemainGet(t) ==
  CASE wh.State[t] = "RUNNING" -> Remain(wh, t)
    [] wh.State[t] = "STOPPED" -> IF t \in Periodic THEN InitialDly(t) ELSE Dly[t]
    [] OTHER -> 0

\* The tick signals the timer task.
Signal == /\ ~wh.fault /\ sig < SigMax
          /\ sig' = sig + 1
          /\ UNCHANGED <<wh, OSTmrTickCtr, p_tmr, loop, cb>>

\* OS_TmrTask: a signal is taken and a spoke selected ...
OS_TmrTask == /\ ~wh.fault /\ ~loop /\ cb = NoTmr /\ sig > 0
              /\ sig' = sig - 1
              /\ OSTmrTickCtr' = (OSTmrTickCtr + 1) % TickMod
              /\ p_tmr' = wh.FirstPtr[OSTmrTickCtr' % TmrWheelSize]
              /\ loop' = TRUE
              /\ UNCHANGED <<wh, cb>>

\* Mutant of TmrTaskExpire: the next entry is read after the timer has moved.
MutTmrTaskExpire ==
  /\ ~wh.fault /\ loop /\ cb = NoTmr
  /\ p_tmr # NoTmr /\ wh.Match[p_tmr] = OSTmrTickCtr
  /\ LET w == OS_TmrUnlink(wh, p_tmr)
     IN  wh' = IF p_tmr \in Periodic THEN OS_TmrLink(w, p_tmr, Period[p_tmr])
               ELSE [w EXCEPT !.State[p_tmr] = "COMPLETED"]
  /\ p_tmr' = wh'.NextPtr[p_tmr]
  /\ cb' = p_tmr
  /\ UNCHANGED <<OSTmrTickCtr, sig, loop>>

\* ... an entry that is due is taken out, a periodic one linked again, and its
\* callback is called with the next entry already chosen ...
TmrTaskExpire ==
  /\ ~wh.fault /\ loop /\ cb = NoTmr
  /\ p_tmr # NoTmr /\ wh.Match[p_tmr] = OSTmrTickCtr
  /\ LET w == OS_TmrUnlink(wh, p_tmr)
     IN  wh' = IF p_tmr \in Periodic THEN OS_TmrLink(w, p_tmr, Period[p_tmr])
               ELSE [w EXCEPT !.State[p_tmr] = "COMPLETED"]
  /\ p_tmr' = wh.NextPtr[p_tmr]
  /\ cb' = p_tmr
  /\ UNCHANGED <<OSTmrTickCtr, sig, loop>>

\* ... and the first entry that is not ends the loop.
TmrTaskDone ==
  /\ ~wh.fault /\ loop /\ cb = NoTmr
  /\ p_tmr # NoTmr => wh.Match[p_tmr] # OSTmrTickCtr
  /\ loop' = FALSE /\ p_tmr' = NoTmr
  /\ UNCHANGED <<wh, OSTmrTickCtr, sig, cb>>

CallbackReturn == /\ ~wh.fault /\ cb # NoTmr
                  /\ cb' = NoTmr
                  /\ UNCHANGED <<wh, OSTmrTickCtr, sig, p_tmr, loop>>

TmrNext == \/ \E t \in Tmr : OSTmrCreate(t) \/ OSTmrStart(t)
           \/ \E t \in Tmr, callback \in BOOLEAN : OSTmrStop(t, callback)
           \/ Signal \/ OS_TmrTask \/ TmrTaskExpire \/ TmrTaskDone \/ CallbackReturn

TmrSpec == TmrInit /\ [][TmrNext]_tmrvars
-----------------------------------------------------------------------------
\* Every running timer is on the spoke of its match value, once, in the order of
\* expiry, with links and counts that agree, and no stopped one is: also while a
\* spoke is processed and callbacks move timers (OS_TmrLink, OS_TmrUnlink).  The
\* order is that of the code of OS_TmrLink and its inline comments; its header, by
\* which a timer is "always inserted at the beginning of the list", is wrong.
TmrWheelIntegrity ==
  \A s \in Spoke :
    LET list == Entries(wh, s)
    IN  /\ {list[i] : i \in DOMAIN list}
             = {t \in Tmr : wh.State[t] = "RUNNING" /\ wh.Match[t] % TmrWheelSize = s}
        /\ wh.NbrEntries[s] = Len(list)
        /\ \A i \in DOMAIN list : wh.PrevPtr[list[i]] = IF i = 1 THEN NoTmr ELSE list[i - 1]
        /\ \A i, j \in DOMAIN list : i < j => /\ list[i] # list[j]
                                              /\ Remain(wh, list[i]) <= Remain(wh, list[j])

\* Each timer that expires is processed ("Process each timer that expires",
\* OS_TmrTask): after the task has been through a spoke, no running timer is left
\* whose time was this tick; it would run for a whole turn of the counter.
NoMissedExpiry ==
  ~loop => \A t \in Tmr : wh.State[t] = "RUNNING" => wh.Match[t] # OSTmrTickCtr

Countdown ==
  INSTANCE Timers WITH
    Period <- [t \in Tmr |-> IF t \in Periodic THEN Period[t] ELSE 0],
    state  <- wh.State,
    left   <- [t \in Tmr |-> IF wh.State[t] = "RUNNING" THEN OSTmrRemainGet(t) ELSE 0],
    due    <- IF loop THEN {t \in Tmr : wh.State[t] = "RUNNING" /\ wh.Match[t] = OSTmrTickCtr}
                      ELSE {}

\* The wheel implements timers that count down: each expires after exactly the
\* ticks asked for, once, unless stopped before, and OSTmrRemainGet tells how many
\* are left; also when the counter wraps or the task is several signals behind.
ImplementsTimers == Countdown!Spec
=============================================================================
