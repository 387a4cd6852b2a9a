------------------------------- MODULE OSFlag -------------------------------
(***************************************************************************)
(* Event flag groups (os_flag.c) on top of the kernel, as configured: waits *)
(* for flags to be set, no abort and no deletion of a group.  A word of     *)
(* flags is the set of its bits.                                            *)
(***************************************************************************)
EXTENDS OSKernel

CONSTANTS
  Grp,           \* the OS_FLAG_GRPs, objects with a pend list
  Flag,          \* the bits of OS_FLAGS
  FlagInit,      \* the flags arguments of OSFlagCreate
  WaitFlags,     \* the flags arguments of OSFlagPend, sets of bits
  WaitModes,     \* its opt arguments, subsets of {"ALL", "CONSUME", "NON_BLOCKING"}
  PostFlags,     \* the flags arguments of OSFlagPost
  FlagPostOpts   \* its opt arguments, subsets of {"CLR", "NO_SCHED"}

ASSUME FlagAssumption ==
  /\ Grp \subseteq Obj /\ Grp \cap (Task \cup {NoTask}) = {} /\ FlagInit \in [Grp -> SUBSET Flag]
  /\ WaitFlags \subseteq SUBSET Flag /\ PostFlags \subseteq SUBSET Flag
  /\ WaitModes \subseteq SUBSET {"ALL", "CONSUME", "NON_BLOCKING"}
  /\ FlagPostOpts \subseteq SUBSET {"CLR", "NO_SCHED"}

VARIABLES
  Flags,         \* the flags of each group
  FlagsPend,     \* per TCB: the flags a task waits for,
  FlagsOpt,      \* the option it waits with
  FlagsRdy,      \* and the flags that ended its last wait
  walk,          \* the locals of OS_FlagPost's loop
  untaken        \* history: the flags posted that no consuming call was given

flagvars == <<Flags, FlagsPend, FlagsOpt, FlagsRdy, walk, untaken>>
fvars    == <<os, pc, arg, tickPtr, tmrCtr, boot, Flags, FlagsPend, FlagsOpt, FlagsRdy, walk, untaken>>

NoWalk == [grp |-> NoObj, ptr |-> NoTask, opt |-> {}]

FInit == /\ KInit
         /\ Flags = FlagInit
         /\ FlagsPend = [t \in Task |-> {}] /\ FlagsOpt = [t \in Task |-> {}]
         /\ FlagsRdy = [t \in Task |-> {}]
         /\ walk = NoWalk
         /\ untaken = FlagInit
-----------------------------------------------------------------------------
\* The flags present satisfy a wait for flags with option opt.
Satisfied(present, flags, opt) == IF "ALL" \in opt THEN flags \subseteq present
                                                   ELSE flags \cap present # {}

\* What is left in the groups f when a call with option opt has the flags got of
\* group g.
Consume(f, g, got, opt) == IF "CONSUME" \in opt THEN [f EXCEPT ![g] = @ \ got] ELSE f

\* The flags of g that a readied task was given and will clear only when it runs.
InHand(g) == {f \in Flag : \E t \in Task : arg[t] = g /\ "CONSUME" \in FlagsOpt[t] /\ f \in FlagsRdy[t]}

OSFlagPend(t, g, flags, timeout, opt) ==
  /\ Call(t, "flagpend")
  /\ \/ /\ Satisfied(Flags[g], flags, opt)
        /\ Flags' = Consume(Flags, g, Flags[g] \cap flags, opt)
        /\ untaken' = Consume(untaken, g, Flags[g] \cap flags, opt)
        /\ FlagsRdy' = [FlagsRdy EXCEPT ![t] = Flags[g] \cap flags]
        /\ UNCHANGED <<os, pc, arg, FlagsPend, FlagsOpt>>
     \/ /\ ~Satisfied(Flags[g], flags, opt)
        /\ "NON_BLOCKING" \notin opt /\ os.OSSchedLockNestingCtr = 0
        /\ FlagsPend' = [FlagsPend EXCEPT ![t] = flags]
        /\ FlagsOpt' = [FlagsOpt EXCEPT ![t] = opt]
        /\ FlagsRdy' = [FlagsRdy EXCEPT ![t] = {}]
        /\ os' = OS_Pend(os, t, g, "FLAG", timeout)
        /\ Goto(t, "pend")
        /\ arg' = [arg EXCEPT ![t] = g]
        /\ UNCHANGED <<Flags, untaken>>
  /\ UNCHANGED <<tickPtr, tmrCtr, boot, walk>>

\* Mutant of OSFlagPendReturn: all the flags waited for are consumed.
MutFlagPendReturn(t) ==
  /\ os.OSRunning /\ t = cur /\ pc[t] = "ret" /\ arg[t] \in Grp
  /\ Flags' = IF os.PendStatus[t] = "OK" THEN Consume(Flags, arg[t], FlagsPend[t], FlagsOpt[t]) ELSE Flags
  /\ Goto(t, "app")
  /\ arg' = [arg EXCEPT ![t] = NoTask]
  /\ UNCHANGED <<os, tickPtr, tmrCtr, boot, FlagsPend, FlagsOpt, FlagsRdy, walk, untaken>>

\* The code after OSSched: the flags are consumed only now, when the task runs.
OSFlagPendReturn(t) ==
  /\ os.OSRunning /\ t = cur /\ pc[t] = "ret" /\ arg[t] \in Grp
  /\ Flags' = IF os.PendStatus[t] = "OK" THEN Consume(Flags, arg[t], FlagsRdy[t], FlagsOpt[t]) ELSE Flags
  /\ Goto(t, "app")
  /\ arg' = [arg EXCEPT ![t] = NoTask]
  /\ UNCHANGED <<os, tickPtr, tmrCtr, boot, FlagsPend, FlagsOpt, FlagsRdy, walk, untaken>>

\* OS_FlagPost: the flags change, and the waiters are gone through.  A flag that
\* is still in a readied task's hand is set already: this post leaves no trace.
OSFlagPost(t, g, flags, opt) ==
  /\ Call(t, "flagpost")
  /\ Flags' = [Flags EXCEPT ![g] = IF "CLR" \in opt THEN @ \ flags ELSE @ \cup flags]
  /\ untaken' = [untaken EXCEPT ![g] = IF "CLR" \in opt THEN @ \ flags ELSE @ \cup (flags \ InHand(g))]
  /\ IF os.PendList[g] = <<>> THEN UNCHANGED <<pc, walk>>
     ELSE /\ walk' = [grp |-> g, ptr |-> Head(os.PendList[g]), opt |-> opt]
          /\ Goto(t, "wake")
  /\ UNCHANGED <<os, arg, tickPtr, tmrCtr, boot, FlagsPend, FlagsOpt, FlagsRdy>>

\* Mutant of OS_FlagTaskRdy: a suspended waiter is made ready.
MutFlagTaskRdySusp(o, t) ==
  OS_PendListRemove(
    OS_TaskRdy([o EXCEPT !.PendStatus[t] = "OK", !.PendOn[t] = "NOTHING", !.TaskState[t] = "RDY"], t), t)

\* A waiter's flags have come.  The timeout of a suspended waiter is not cancelled.
OS_FlagTaskRdy(o, t) ==
  LET r == [o EXCEPT !.PendStatus[t] = "OK", !.PendOn[t] = "NOTHING"]
  IN  OS_PendListRemove(
        CASE o.TaskState[t] \in {"PEND", "PEND_TIMEOUT"} ->
               [OS_TaskRdy(r, t) EXCEPT !.TaskState[t] = "RDY"]
          [] OTHER -> [r EXCEPT !.TaskState[t] = "SUSPENDED"], t)

\* Mutant of FlagPostLoop: the loop ends at the first waiter it readies.
MutFlagPostLoop(t) ==
  /\ os.OSRunning /\ t = cur /\ pc[t] = "wake"
  /\ IF walk.ptr # NoTask
     THEN LET tcb == walk.ptr
              got == Flags[walk.grp] \cap FlagsPend[tcb]
              met == Satisfied(Flags[walk.grp], FlagsPend[tcb], FlagsOpt[tcb])
          IN  /\ os' = IF met THEN OS_FlagTaskRdy(os, tcb) ELSE os
              /\ FlagsRdy' = IF met THEN [FlagsRdy EXCEPT ![tcb] = got] ELSE FlagsRdy
              /\ untaken' = IF met THEN Consume(untaken, walk.grp, got, FlagsOpt[tcb]) ELSE untaken
              /\ walk' = [walk EXCEPT !.ptr = IF met THEN NoTask ELSE After(os.PendList[walk.grp], tcb)]
              /\ UNCHANGED pc
     ELSE /\ Goto(t, IF "NO_SCHED" \in walk.opt THEN "app" ELSE "sched")
          /\ walk' = NoWalk
          /\ UNCHANGED <<os, FlagsRdy, untaken>>
  /\ UNCHANGED <<arg, tickPtr, tmrCtr, boot, Flags, FlagsPend, FlagsOpt>>

\* Mutant of FlagPostLoop: one of the flags is enough for every waiter.
MutFlagPostLoopAny(t) ==
  /\ os.OSRunning /\ t = cur /\ pc[t] = "wake"
  /\ IF walk.ptr # NoTask
     THEN LET tcb == walk.ptr
              got == Flags[walk.grp] \cap FlagsPend[tcb]
          IN  /\ os' = IF got # {} THEN OS_FlagTaskRdy(os, tcb) ELSE os
              /\ FlagsRdy' = IF got # {} THEN [FlagsRdy EXCEPT ![tcb] = got] ELSE FlagsRdy
              /\ untaken' = IF got # {} THEN Consume(untaken, walk.grp, got, FlagsOpt[tcb]) ELSE untaken
              /\ walk' = [walk EXCEPT !.ptr = After(os.PendList[walk.grp], tcb)]
              /\ UNCHANGED pc
     ELSE /\ Goto(t, IF "NO_SCHED" \in walk.opt THEN "app" ELSE "sched")
          /\ walk' = NoWalk
          /\ UNCHANGED <<os, FlagsRdy, untaken>>
  /\ UNCHANGED <<arg, tickPtr, tmrCtr, boot, Flags, FlagsPend, FlagsOpt>>

\* One turn of the loop, or its end and the call of OSSched; the next waiter is
\* looked up before this one leaves the list.
FlagPostLoop(t) ==
  /\ os.OSRunning /\ t = cur /\ pc[t] = "wake"
  /\ IF walk.ptr # NoTask
     THEN LET tcb == walk.ptr
              got == Flags[walk.grp] \cap FlagsPend[tcb]
              met == Satisfied(Flags[walk.grp], FlagsPend[tcb], FlagsOpt[tcb])
          IN  /\ os' = IF met THEN OS_FlagTaskRdy(os, tcb) ELSE os
              /\ FlagsRdy' = IF met THEN [FlagsRdy EXCEPT ![tcb] = got] ELSE FlagsRdy
              /\ untaken' = IF met THEN Consume(untaken, walk.grp, got, FlagsOpt[tcb]) ELSE untaken
              /\ walk' = [walk EXCEPT !.ptr = After(os.PendList[walk.grp], tcb)]
              /\ UNCHANGED pc
     ELSE /\ Goto(t, IF "NO_SCHED" \in walk.opt THEN "app" ELSE "sched")
          /\ walk' = NoWalk
          /\ UNCHANGED <<os, FlagsRdy, untaken>>
  /\ UNCHANGED <<arg, tickPtr, tmrCtr, boot, Flags, FlagsPend, FlagsOpt>>

\* OS_TaskInitTCB in OSTaskDel clears the flag fields of the TCB.
ResetFlags ==
  LET kept(f) == [t \in Task |-> IF os'.TaskState[t] = "DEL" THEN {} ELSE f[t]]
  IN  FlagsPend' = kept(FlagsPend) /\ FlagsOpt' = kept(FlagsOpt) /\ FlagsRdy' = kept(FlagsRdy)

\* Not covered: the deletion of a task that OS_FlagTaskRdy left on the tick wheel,
\* which breaks the list of its spoke.
DeletesStale == \E t \in Task : /\ os.TaskState[t] = "SUSPENDED" /\ os.TickSpokePtr[t] # NoSpoke
                                /\ os'.TaskState[t] = "DEL"

FlagStep(t) ==
  \/ \E g \in Grp, f \in WaitFlags, d \in Timeouts \cup {0}, opt \in WaitModes : OSFlagPend(t, g, f, d, opt)
  \/ \E g \in Grp, f \in PostFlags, opt \in FlagPostOpts : OSFlagPost(t, g, f, opt)
  \/ OSFlagPendReturn(t) \/ FlagPostLoop(t)

FNext == \/ KNext /\ ~DeletesStale /\ ResetFlags /\ UNCHANGED <<Flags, walk, untaken>>
         \/ \E t \in Task : FlagStep(t)

FSpec == FInit /\ [][FNext]_fvars
-----------------------------------------------------------------------------
\* No wake-up is missed: outside OS_FlagPost's loop no task waits for flags that
\* are there, whoever else was readied by the same post, consumed flags or timed
\* out (OSFlagPend, OS_FlagPost).
NoWaiterSatisfied ==
  ~IntDisabled => \A t \in Task : os.PendOn[t] = "FLAG"
                    => ~Satisfied(Flags[arg[t]], FlagsPend[t], FlagsOpt[t])

\* A flag that was posted stays set until a post clears it or it is given to a
\* call that consumes it: a task clears flags long after the post that readied it,
\* and what came meanwhile must survive.  Only a flag posted again while a task that
\* was given it has yet to run is lost with that clear (OSFlagPend, OS_FlagPost).
FlagKept == \A g \in Grp : untaken[g] \subseteq Flags[g]

\* A task leaves OSFlagPend without an error only with flags that satisfy its
\* call, and never with a flag it did not ask for (OS_FlagTaskRdy).
ReturnsWhatItWanted ==
  \A t \in Task : pc[t] \in {"pend", "ret"} /\ arg[t] \in Grp /\ os.PendOn[t] = "NOTHING"
                  /\ os.PendStatus[t] = "OK" /\ os.TaskState[t] # "DEL" /\ t \notin Creating
    => FlagsRdy[t] \subseteq FlagsPend[t] /\ Satisfied(FlagsRdy[t], FlagsPend[t], FlagsOpt[t])
=============================================================================
