# A verification of the µC/OS-III kernel in this repository

The repository is a port of the µC/OS-III real-time kernel to Windows (`src/ucosTest`), with the
lwIP network stack and demonstration programs on top. Its own core logic is the kernel: a
preemptive priority scheduler with time slicing, a tick-driven wheel of delays and timeouts, and
the objects tasks synchronize with. This directory models the kernel in TLA+, checks the models
with TLC on small instances and proves the central invariants with TLAPS for every size.

## 1. The system

All kernel code is in `src/ucosTest/Source`, the port in `src/ucosTest/PORTS`, the configuration in
`src/ucosTest/app`.

| component | state | operations | talks to |
|---|---|---|---|
| priority bitmap (`os_prio.c`) | `OSPrioTbl`, one bit per priority with a ready task | insert, remove, get highest | scheduler |
| scheduler and lists (`os_core.c`) | `OSRdyList[]`, `OSTCBCurPtr`, `OSPrioCur`, lock nesting, round-robin settings, pend lists | `OSSched`, `OSIntExit`, lock/unlock, yield, `OS_Pend`, `OS_Post`, `OS_PendAbort`, list functions | everything |
| tasks (`os_task.c`) | the TCBs: state, priority, suspension counter, own semaphore and queue, quantum | create, delete, suspend, resume, change priority, task semaphore, task queue | scheduler, tick wheel |
| time (`os_time.c`, `os_tick.c`) | `OSTickCtr`, `OSCfg_TickWheel[]`, match ticks | delay, set, tick interrupt, tick task | tick task's semaphore, scheduler |
| semaphores (`os_sem.c`) | counter, pend list | pend, post, abort, set | `OS_Pend`/`OS_Post` |
| mutexes (`os_mutex.c`) | owner, nesting, the owner's original priority, pend list | pend, post | priorities of the owner |
| queues and messages (`os_q.c`, `os_msg.c`) | a ring of messages per queue, one shared pool | pend, post, abort | `OS_Pend`/`OS_Post`, pool |
| event flags (`os_flag.c`) | a word of flags, pend list with wanted sets | pend, post | `OS_FlagTaskRdy` |
| timers (`os_tmr.c`) | timer wheel, timer states | start, stop, timer task, callbacks | scheduler lock, tick |
| pend on several objects (`os_pend_multi.c`) | one pend-data entry per object | pend | semaphores, queues |
| memory partitions (`os_mem.c`) | free list, free count | get, put | - |
| Win32 port (`PORTS/os_cpu_c.c`) | a thread, a semaphore and two events per task | context switch, tick thread, thread start and end | every kernel critical section |

`os_cfg.h` decides what exists at all. These switches are 0, so the functions are not compiled and
not modelled: `OSSemDel`, `OSMutexDel`, `OSMutexPendAbort`, `OSFlagDel`, `OSFlagPendAbort`, waiting
for cleared flags, `OSQDel`, `OSQFlush`, `OSTmrDel`, `OSTimeDlyResume`, and deferred interrupt
posts (`os_int.c`). Without deferred posts `OS_CRITICAL_ENTER` is the CPU's critical section. There are
32 priorities, a wheel of 17 spokes, 1000 ticks per second; the tick task has priority 10, so
application tasks may lie above and below it.

What makes the kernel hard to test is the order of things: a tick may strike between any two
critical sections of a service, a wait may end by a post, an abort, a timeout or not at all because
the task is suspended meanwhile, and every service maintains several redundant structures by hand
(task state, ready list, bitmap, pend list, tick wheel, counters). What it owes its users:

- scheduler: the ready lists say what the task states say; the most urgent ready task runs; a
  locked scheduler does not switch; equal tasks take turns;
- time: the wheel is consistent, nobody misses a wake-up or oversleeps, every timed wait ends;
- tasks: suspensions nest, a signal is neither lost nor delivered to a task that no longer waits;
- semaphores: tokens are conserved and go to the most urgent waiter;
- mutexes: exclusion, inheritance, and the end of inheritance;
- queues, flags, timers, partitions: nothing lost, nothing twice, callbacks in any order.

The hazards behind these are listed in `PROJECT.json`, each at its line with the properties that
would catch it, or the reason why there is none.

## 2. The modules

    PrioSet   <-- refined by -- OSPrio        os_prio.c
    MsgQueues <-- refined by -- OSMsg         os_msg.c
                                  |- OSPools  os_msg.c and os_mem.c at work together
                                OSMem         os_mem.c
    Timers    <-- refined by -- OSTmr         os_tmr.c
                                OSPort        PORTS/os_cpu_c.c, the critical section of cpu_c.c

    OSCore                                    kernel data, internal functions
      |- OSKernel                             the running kernel
           |- OSMutex                         os_mutex.c
           |- OSFlag                          os_flag.c
           |- OSWake                          posts and aborts over a pend list
                |- OSSem                      os_sem.c
                |- OSQ (uses MsgQueues)       os_q.c, task queues of os_task.c
                     |- OSPendMulti           os_pend_multi.c, with OSSem and OSQ

    OSKernel_proofs, OSWait_proofs, OSWake_proofs, OSMutex_proofs,
    OSFlag_proofs, OSPools_proofs, OSTmr_proofs, OSPort_proofs    TLAPS
    MCOSData, MCOSKernel, MCOSSem, MCOSPendMulti, MCOSMutex, MCOSFlag, MCOSTmr, MCOSPort (+ .cfg)   TLC

**PrioSet / OSPrio.** The scheduler needs a set of priorities and its minimum; `os_prio.c` keeps a
table of words and counts leading zeros. `OSPrio` works on the words with the bit operations of the
code, finds the leading zeros as `CPU_CntLeadZeros32` does (the first octet that is not 0, looked up in the
table), and is shown to implement `PrioSet`. A word has four octets of `OctetBits` bits. `OSCore` then uses the set.

**OSCore.** The kernel's global data and TCB fields are one record (`KState`); a C function that runs
inside a critical section is an operator from one such record to the next, with the C name:
`OS_RdyListInsert`, `OS_TickListInsert`, `OS_Pend`, `OS_PendListChangePrio` and so on. Doubly linked lists are
sequences of TCBs. `EndWait` is the common text of `OS_Post` and `OS_PendAbort`; `Expire` is the
body of the loop in `OS_TickListUpdate`. Tick arithmetic is modulo `TickMod`, nesting counters modulo
`NestMod`. Timestamps, hooks, debug lists and statistics are left out.

**OSKernel.** The record `os` with the program counters of the tasks. A critical section is one
step; `pc` names the places between two of them: about to call `OSSched` (`sched`, or `pend` inside a
call that waits), back from it (`ret`), between the check and the abort of `OSTaskSemPendAbort`
(`abort`), between filling and linking a TCB in `OSTaskCreate` (`create`). `TickISR` is the tick
interrupt (`OSIntEnter`, `OSTimeTick`, `OSIntExit`), which the port runs in one critical section and
which may strike whenever interrupts are enabled. Only the current task takes steps, which is what
`OSPort` is about. The tick task is a task like any other, whose loop over a spoke runs with
interrupts disabled and is one step per entry (`TickListUpdateLoop`). `Calls` says which services each task
uses; a run chooses them. Error returns that change nothing are not steps.

Two ways of calling the kernel break it in ways that would mask everything else, and are named by the
constant `Hazard`: `"late"`, an `OSTimeDly` with an absolute time that is already past (section 5), and
`"del_lock"`, a task that deletes itself while it holds the scheduler lock. Without them
in `Hazard` the model's tasks do not do that.

**OSWake, OSSem, OSQ, OSPendMulti.** `OSSemPost`, `OSQPost` and the aborts share one loop over the head of the
pend list; `WakeLoop` is a step per waiter, with interrupts disabled. A task that waits for several objects is in
several pend lists at once; whichever post comes first names its object in the pend data (`rdy`) and
`EndWait` takes the task out of all lists. `OSQ` keeps a message for a waiter in the TCB (`MsgPtr`) and
all other messages in the queues of `MsgQueues`, the task queues among them, which share one pool. History
variables count what was really granted (`owed`: tokens put in and not yet taken by a returned pend; `sent`:
messages posted and not yet received), so that the properties compare the bookkeeping with what
tasks got.

**OSMutex.** The fields of the mutexes and, as history, `holds`: the pends a task returned from, less its
posts.

**OSFlag.** A word of flags is a set. A post goes through all waiters in one loop (`FlagPostLoop`);
a woken task consumes its flags only when it runs (`OSFlagPendReturn`). `untaken` is history: the flags posted
that were given to no call that consumes them. A flag is given when the call finds it or the loop readies its
caller, not when it is cleared; one that is posted again while a readied task has it in its hand (`InHand`) is not
counted, since the late clear takes both (section 5).

**MsgQueues / OSMsg, OSMem, OSPools.** `MsgQueues` is what `OSQ` uses: bounded sequences that share a pool.
`OSMsg` has the `OS_MSG` structures with their links, left-over links included, and is shown to implement it.
`OSMem` keeps the free list inside the blocks. `OSPools` is an application that allocates
blocks, writes into them, sends them through queues and releases them.

**Timers / OSTmr.** `Timers` says what a timer is: a state and the ticks left. `OSTmr` has the wheel of
doubly linked spokes, the 32-bit counter, the timer task with the pointer to the next timer it keeps across
a callback, and callbacks that start and stop timers (`Touch` says which). A write through a null
pointer sets `fault`.

**OSPort.** Every task is a Windows thread with an event that lets it run; the tick interrupt is a
thread that suspends the thread of the current task. `pc` says where in `OSCtxSw` or `OSTaskW32` a thread is,
`frozen` whether Windows has suspended it, `crit` who is in the critical section. `OSTaskCreateHook` makes the thread
before the critical section of `OSTaskCreate` makes the task ready; in between (`InCreation`) no service or tick can
find the task. The
kernel above is any that readies tasks and selects ready ones.

**Mutants.** Operators named `Mut...` stand before the definition they are a broken version of. Each
property is violated when its mutant takes the definition's place.

## 3. What the runs check

| run | instance | properties |
|---|---|---|
| `data` | 10 priorities in words of 4 bits, two full and one partly used; 2 queues, a pool of 2 messages; 3 blocks | `ImplementsPrioSet`, `ImplementsMsgQueues` (refinements), `PoolIntegrity`, `BlockConservation` |
| `delays` | 2 tasks above and below the tick task, relative, periodic and absolute delays; 3 spokes, tick counter modulo 7 | `WheelIntegrity`, `NoMissedTick`, `DelayBounded` |
| `tasks` | 2 tasks above and below the tick task; task semaphores with timeouts and aborts, suspension twice deep, lock, creation and deletion, priority and clock changes | `KTypeOK`, `RdyIntegrity`, `RunningIsReady`, `HighestRuns`, `NoSignalWhileWaiting`, `SuspensionCounted` |
| `scheduling` | 2 tasks of one priority; signals, lock, round robin, yields, quanta | `NoPreemptionByEqual`, `NoSwitchWhileLocked` |
| `progress` | the tick task on top, the timer task, 2 peers that delay themselves and switch slicing on and off; with fairness | `TimedWaitEnds`, `TmrTaskSignalled`, `RoundRobinFair` |
| `semaphores` | 2 tasks that wait with and without timeout, a third that posts, aborts, sets, suspends, resumes, changes priorities | `TokenConservation`, `NoWaiterWithToken`, `WaitIntegrity`, `PostWakesHighest` |
| `queues` | a task that waits for a semaphore and a queue at once or for its own queue, one that waits for the queue, a third that posts to one or all, aborts, flushes, suspends, resumes, deletes; a pool of 2 messages | `PMTypeOK`, `MsgConservation`, `NoWaiterWithMessage`, `TokenConservation`, `GrantNamesObject` |
| `mutexes` | 3 tasks, one mutex, no timeouts; nesting, delays, suspensions while holding | `MutexExclusive`, `OwnerInherits`, `PriorityRestored` |
| `flags` | 2 tasks that wait for all or any of two flags, consuming or not, with timeouts, a third that sets, clears, suspends, resumes, deletes | `NoWaiterSatisfied`, `FlagKept`, `ReturnsWhatItWanted`, `SuspensionCounted` |
| `timers` | 3 timers, one periodic, 2 spokes, counter modulo 7, the task up to 2 signals behind, callbacks | `TmrWheelIntegrity`, `NoMissedExpiry`, `ImplementsTimers` (refinement) |
| `port` | the idle task and 2 tasks that come and go, the tick thread; with fairness | `OnlyCurrentRuns`, `TickNotDropped`, `SelectedRuns` |
| `mutex_restore` | 2 tasks, one mutex, timeouts | `PriorityRestored` is violated, see section 5 |

Bounds, and why they are enough. Two or three application tasks beside the idle and the tick task give
every pair of roles in a service (caller, target, bystander, one peer) and a list with a head, a middle
and a tail. `CtlSvc` are the services of task `a`, `AppSvc` (in `queues`, `BSvc` and `CSvc`) those of the others: where one task
controls and others wait, only the controller has the controlling services. The 32-bit tick counter is
cut to `TickMod` so that it wraps within a run; in `delays` and `timers` it is not a multiple of the wheel size,
as 2^32 is not of 17, and in `delays` the largest delay is more than half of it; the other runs need time
only for timeouts and use the smallest modulus. `SemMax` of 1 or 2 makes the counters, the tick
task's own included, reach their limit; queues that together may hold more than the two messages of the pool make the pool the limit.
Words of 4 bits have octets of one bit; with `WordBits` 8 and `PrioMax` 12 the run `data` passes as well, in more time.
`LockMax` 1, `SuspendBound` 1 or 2, `NestBound` 2 and `SigMax` 2 bound how often calls nest or how far
the timer task is behind. A wheel of 2 or 3 spokes puts entries on the same and on different
spokes. One word written into a block (`Words`) is enough to destroy its link. No symmetry is used: tasks differ by
priority. Deadlock is checked in every run but `data`, where an application may throw away every
block with the queue it flushes and then has nothing left to do.

What the properties leave out, because the code does not do it:

- `DelayBounded` allows for absolute times up to `TickThRdy + 1` from now, which is what the code accepts;
- `HighestRuns` excepts the tick task, since `OS_TickListUpdate` readies tasks and does not call `OSSched`:
  a more urgent task waits until the tick task blocks;
- `NoSignalWhileWaiting` and the wheel properties are for applications that do not call `OSTaskSemSet` on a
  waiting task or `OSTimeSet`;
- `RoundRobinFair` is for tasks that neither yield nor set quanta: `OSSchedRoundRobinYield` rotates the list in
  one critical section and calls `OSSched` in the next (`os_core.c:676`), and with a quantum of one tick a
  tick in between rotates it back, each time; `OSTaskTimeQuantaSet` (`os_task.c:1806`) reloads the quantum of the
  running task, which can so keep the processor;
- the mutex properties are for waits without timeout and one mutex (section 5);
- `FlagKept` leaves out a flag that is posted again while a readied task has it in its hand (section 5);
- `flags` leaves out one deletion (`DeletesStale`), `timers` callbacks that touch other running timers
  (`"other"` in `Touch`), for the reasons in section 5;
- `BlockConservation` is for applications that return a block once, `OSTmrCreate` for timers that do not run:
  neither is checked by the code;
- a message or a token in the hands of a task that is deleted is gone; the history variables count it as taken.

**Fairness.** `KLive` assumes that start-up proceeds, that the hardware keeps ticking (`TickISR`) and
that the processor executes the tick task when it is the current one (`TickTaskStep`). Nothing is assumed
of application tasks: they may loop for ever. That is why `progress` puts the tick task on top; a task
above it that never blocks does starve it, in the code too. `TickISR` is enabled whenever the kernel
runs with interrupts on, which it is again after every critical section.
`PortLive` assumes strong fairness of every thread inside the port and inside a critical section, and of the tick
thread: Windows runs all threads that are not suspended and hands the critical section to those that
wait for it, but a thread can be suspended by the tick, or find the critical section taken, any number of times
in between. Nothing is assumed of the timer or of the tasks' own code.

## 4. What is proved

All theorems hold for any number of tasks and priorities, any wheel size, counter width and bound, and any choice
of services and arguments. They rest on the named assumptions of the modules (`CoreAssumption`,
`KernelAssumption`, `SemAssumption`, `QAssumption`, `MutexAssumption`, `FlagAssumption`, `MsgAssumption`, `MemAssumption`, `TmrAssumption`, `PortAssumption`), which state what the constants are and which TLC evaluates in
every run, and on the hypotheses given here. `Hazard = {}` is one of them everywhere but for the pools, the timers and the port: with
`"late"` the running task is in state DLY inside its ready list, with `"del_lock"` a deleted task runs on, so the
invariants are false.

| Theorem | States | Further hypotheses |
|---|---|---|
| `KernelTypeOK` | `KSpec => []KTypeOK` | |
| `KernelRdyIntegrity` | `KSpec => []RdyIntegrity`: the ready lists hold exactly the tasks in state RDY, once, at their priority; the bitmap marks exactly the non-empty lists | |
| `KernelRunningIsReady` | `KSpec => []RunningIsReady`: a task that executes its own code, or holds the scheduler lock, is ready | |
| `KernelHighestRuns` | `KSpec => []HighestRuns`: preemption is never owed | no post with `OS_OPT_POST_NO_SCHED` |
| `KernelNoSwitchWhileLocked` | `KSpec => NoSwitchWhileLocked`, an action property | |
| `KernelSuspensionCounted` | `KSpec => []SuspensionCounted` | `SuspendBound < NestMod` |
| `KernelNoSignalWhileWaiting` | `KSpec => []NoSignalWhileWaiting` | nobody calls `OSTaskSemSet` |
| `KernelWheelIntegrity` | `KSpec => []WheelIntegrity` | nobody calls `OSTimeSet`; `TickThRdy < TickMod - 1` |
| `KernelNoMissedTick` | `KSpec => []NoMissedTick` | the same |
| `KernelDelayBounded` | `KSpec => []DelayBounded` | the same |
| `SemWaitIntegrity` | `SSpec => []WaitIntegrity`: states, pend data, pend lists and their order agree | nobody calls `OSTaskSemPendAbort` |
| `SemNoWaiterWithToken` | `SSpec => []NoWaiterWithToken` | the same |
| `SemTokenConservation` | `SSpec => []TokenConservation` | the same; `Task` is finite |
| `SemPostWakesHighest` | `SSpec => PostWakesHighest`, an action property | the same |
| `QueuesNoWaiterWithMessage` | `QSpec => []NoWaiterWithMessage` | the same |
| `MutexMutexExclusive` | `MSpec => []MutexExclusive` | the same; nobody deletes tasks; `NestBound < NestMod` |
| `MutexOwnerInherits` | `MSpec => []OwnerInherits` | those of `MutexMutexExclusive`; one mutex; nobody calls `OSTaskChangePrio` |
| `MutexPriorityRestored` | `MSpec => []PriorityRestored` | those of `MutexOwnerInherits`; waits without timeout |
| `FlagsReturnsWhatItWanted` | `FSpec => []ReturnsWhatItWanted` | nobody calls `OSTaskSemPendAbort` |
| `FlagsNoWaiterSatisfied` | `FSpec => []NoWaiterSatisfied` | the same |
| `FlagsFlagKept` | `FSpec => []FlagKept`: a posted flag stays set until it is given to a call that consumes it or a post clears it | the same |
| `PoolsPoolIntegrity` | `PoolsSpec => []PoolIntegrity` | none |
| `PoolsBlockConservation` | `PoolsSpec => []BlockConservation` | none |
| `PoolsImplementMsgQueues` | `PoolsSpec => ImplementsMsgQueues`, a refinement | none |
| `TimersWheelIntegrity` | `TmrSpec => []TmrWheelIntegrity` | callbacks neither start nor stop other timers that run: `"other" \notin Touch` |
| `TimersNoMissedExpiry` | `TmrSpec => []NoMissedExpiry` | the same |
| `TimersImplementTimers` | `TmrSpec => ImplementsTimers`, a refinement | the same |
| `PortOnlyCurrentRuns` | `PortSpec => []OnlyCurrentRuns` | none |
| `PortTickNotDropped` | `PortSpec => []TickNotDropped` | none |

Every further hypothesis excludes a call that makes the property false in the code: a post without scheduling leaves a
more urgent task ready; the 8-bit suspension counter wraps to 0; `OSTaskSemSet` writes the counter of a task that waits
for it; `OSTimeSet` moves the clock under the sorted spokes; with a threshold of `TickMod - 1` no absolute time is ever past
and one equal to the clock sleeps a whole turn (the code's threshold is 0xFFFF0000); the second half of
`OSTaskSemPendAbort` ends whatever its target waits for by then (section 5), and tells a waiter of a semaphore that
its own semaphore was aborted while its entry stays in the pend list. A mutex whose owner is deleted stays owned by
a TCB that may be created anew; its nesting counter wraps to "free"; inheritance does not follow a chain of owners and a post
restores the original priority whatever else the task holds; `OSTaskChangePrio` overwrites an inherited priority; a timeout
of the waiter that raised the owner leaves it raised (section 5). A callback that stops or restarts the timer behind its own
leaves the timer task with a link that is no longer there (section 5).

**The ready lists** (`OSKernel_proofs`). `KInv` is inductive:

- `KTypeOK`, and `OsInv(os, Creating)`: the kernel data have their types, a live task has a priority of
  the table, and the ready lists agree with the set of tasks in state RDY *except* those that `OSTaskCreate`
  has filled and not yet linked. Without that exception `RdyIntegrity` is false in the gap of
  `OSTaskCreate`;
- `RunningIsReady`: services that block their caller call `OS_RdyListRemove`, which is right only for a task
  that is in its list (for another it would empty the list); and a locked scheduler stays on the
  current task, so that one must be ready;
- `CreateInv`: two tasks never create the same TCB, and a task in the middle of a creation is neither deleted
  nor itself being created; otherwise linking could enter a TCB twice;
- `BootInv`: before `OSStart` the tasks created so far are ready and no one is inside the kernel; after it
  the idle task is ready, so that `HighRdy` always finds a task.

`OSKernel_proofs` begins with facts about sequences as linked lists (`Unlink`, `LinkBefore`,
rotation keep or change the set of elements and their uniqueness), then the effect of each ready-list function on
the agreement of lists and states, then the functions built on them (`OS_TaskBlock`, `OS_TaskRdy`, `OS_Post`,
`Expire`, ...), each shown to preserve `OsInv` and to do no more to the task states than its relation
allows (`Eases`: some waits and suspensions end, nothing else). Then it has one step lemma
per action and joins them in `KInvInductive`. For `HighestRuns` and `NoSwitchWhileLocked`, `StepKinds` sorts the steps
by what they do with the processor (`RunStep`): leave the ready lists alone, owe a call of `OSSched`, or make one. `RunInv`
says that only the tick task processes ticks.

**Waits and suspensions** (`OSWait_proofs`). A step changes the waits in one of a few ways: a wait ends (`Ends`), a
task blocks (`Blocks`) or sleeps (`Sleeps`), is suspended or resumed (`Restates`), changes its priority (`Repri`), is reset
by a deletion or creation (`Resets`), is signalled (`Counts`), the clock moves (`Ticks`), or nothing of the kind
(`Quiet`). `KNextChange` shows that every step of `KNext` is such a change, or two of them for the tick interrupt, which signals
two tasks; what each kind preserves is then shown once. `PendOK` (states, `PendOn`, pend data and lists agree) and `WaitSorted` (the
lists are in priority order) are preserved by all kinds. `KWaitInv` is the invariant of the kernel alone.

A service on top of the kernel needs to know what the kernel does to its calls meanwhile: `Kept(u)` says that a step of
`KNext` takes task `u` out of a call for an object only by deleting it, and ends its wait never with status OK.
`KNextKept` proves it for every step, from `CallInv` (who waits is inside a call; outside of calls `arg` is not in
use). `ServiceStep` and `ServiceCalls` are the step lemmas for the services themselves. The section after that joins all this for a
component that waits for objects of its own: `ObjInv(On, S)` says that tasks wait, in one of the ways `On`, for the one object of `S` that
their call is about, and `ObjKernel`, `ObjStay`, `ObjPend`, `ObjEnd` that a kernel step, a call that returns, a call that waits
and the end of a wait by a post preserve it. Semaphores, mutexes and event flags below are instances.

**The tick wheel** (the end of `OSWait_proofs`). `WheelInv` adds to `KWaitInv` that the wheel agrees with the states and is sorted by the
distance to the clock modulo `TickMod` (`WheelOK`), that every distance is bounded by what was asked for (`Bounded`), and
`SpokeInv`: in the loop of `OS_TickListUpdate` the pointer is the head of the current spoke, and outside of it nobody's tick is
due. Without `SpokeInv` the order is not inductive: when the clock moves past a task that is due, its distance jumps from
0 to `TickMod - 1`.

**Semaphores** (`OSWake_proofs`). `SInv` joins `ObjInv` for the semaphores (a task that is in a pend list is inside
`OSSemPend` for that semaphore) with `LoopInv` (the loop of a post is the running task's and has no more turns left than the list
has entries, so that `Head` is defined) and `CtrInv`. `TokenInv` is the account of the tokens: a kernel step moves none except
those of deleted tasks (by `Kept`), a turn of the loop moves one from the loop to the head of the list.

**Message queues** (`OSWake_proofs`). `QInv` joins `ObjInv` for the queues, where a task may also wait for its own queue and is then in
no pend list, with `QLoop` (as `LoopInv`) and `QHeld`: whoever waits, in a pend list or for its own queue, waits for an empty one. What makes it
inductive is that a post queues a message only when it finds nobody waiting (`PendList[x] = <<>>`, which by `ObjInv` means that `x` is in
nobody's pend data; for a task's own queue, `~WaitsForMsg(c)`), and that a call waits only when it finds the queue
empty, each in one critical section. The theorem is about `QSpec`; with `OSPendMulti` on top the same property is checked by `queues`.

**Mutexes** (`OSMutex_proofs`). `MInv` joins `ObjInv` for the mutexes with `OwnerOK` (the owner is a living task, and the nesting counter is 0
exactly when there is none), `WaitedFor` (nobody waits for a mutex that is free) and `MutexExclusive`, which relates the fields to what tasks
really hold, those on their way out of `OSMutexPend` included. `Inherit` adds that the owner is as urgent as every waiter; it needs the pend
list in order, because a post hands the mutex to the head of the list, and that task is as urgent as the waiters it leaves behind only if it is
the most urgent of them. `OwnPrio` says who may run above its own priority: only an owner that somebody waits for, and it remembers its own.

**Event flags** (`OSFlag_proofs`). For the waits, `FlagInv` joins `ObjInv` for the groups with `WaitLink` (who waits for flags is in the list of
the group of its call), `WalkInv` and `RestInv`. `WalkInv` is about the loop of `OS_FlagPost`: the waiters whose flags are there stand at
or behind the loop's pointer in the list (`Ahead`), so none has been passed; `NextWaiter` is what the list looks like when the pointer is
looked up first and the waiter unlinked then. `RestInv` says that outside of the loop no waiter's flags are there; consuming only removes
flags (`SatisfiedMono`), so it needs no loop of its own. The pend list of a group need not be in priority order for this, and after
`OS_FlagTaskRdy` of a suspended waiter the tick wheel is not in order either; the proof uses neither.

For `FlagKept`, the flags in a readied task's hand leave the history when the loop gives them and the group only when the task
runs, any number of posts later. `GivenInv` therefore adds that nothing untaken is in anybody's hand: for a task inside a consuming call (`Owns`),
`FlagsRdy` and the untaken flags of its group are disjoint. `FlagInv` says who is inside a call and of which group, and every step of
the kernel, deletions and timeouts included, leaves what a task has in its hand as it was or takes the task out of its call (`HandKept`, `GivenLess`).
Only a post adds to what is untaken, and it adds nothing that somebody has in his hand.

**Messages and blocks** (`OSPools_proofs`). `Chain` follows the links of a list and is a recursive function; `ChainIs` shows what it
computes on a well-formed list, so that the rest of the proof never unfolds it. `PoolInv` says that there are a free list `F`, a list
`L[x]` for each queue and a list `B` of free blocks such that `LinkedAt`: the heads, tails, links and counters in the structures are those of
`F` and `L`, and every structure is in exactly one place; and `SharedOut`: the same for the blocks, over `B`, the hands of the application,
what the queues carry and what was thrown away. Nothing is said of the link of the last structure of a list: the first
message of an empty queue keeps the link it had in the free list (`os_msg.c:345`), and only the counter ends a list. Put, get and flush are shown to turn such lists into such lists (`PutLinked`,
`GetLinked`, `FreeAllLinked`). For the refinement, the same lemmas say what becomes of the contents (`PutCarries`, ...), and
`UsedBelow` counts: while a structure is free, the queues together hold fewer entries than the pool has structures.

**Timers** (`OSTmr_proofs`). A spoke is a doubly linked list that `Entries` follows with a recursive function; `Strung` says of a head, links
and a count that they string up a given sequence of timers, `EntriesAre` that `Entries` then finds that sequence, and `StrungIns` and `StrungCut`
what inserting and unlinking do to it. `TmrInv` is inductive: `InOrder` (there is such a sequence for each spoke, it holds exactly the running
timers whose match value selects the spoke, and it is sorted by the distance to the counter modulo `TickMod`) and `LooksAt`: the entry the timer task will
look at next runs and is not the timer whose callback runs, and if any timer is due at this tick, the task is in its loop and that entry is
the first of the spoke. `LooksAt` is why a spoke may change under the loop: a callback may move its own timer, which is no longer on
the task's way, and start others, which are not due now and so go behind all that are; a timer that runs is on the task's way, and stopping it
is what the hypothesis excludes. It also makes the order inductive: only when nobody is due does a tick take one from every distance
(`TickKeeps`). The refinement maps what is left of a running timer to its distance (`Left`) and the timers due to those the loop has still
to expire (`Due`); `CountdownStep` shows that the tick of the task is that of the countdown, each expiry one of a timer that
is due, and the end of the loop no step, since nobody is due then.

**The port** (`OSPort_proofs`). `PortInv` lists the situations a Windows thread can be in (gone, fresh, asleep, stopped by
the tick, leaving, starting, running, ending) and says which one each thread but the current task's is in (`OthersStand`), which
the current one may be in (`CurrentRuns`), who holds the critical section (`CritOwned`), and that a ready task has a
thread (`ReadyAlive`).

**Only model-checked**: the liveness properties, since the prover knows no fairness; the refinement of `OSPrio` (its
words use the bit operations the prover has no theory of); `MsgConservation` of `OSQ`, whose proof would follow the `MsgPtr` of every task through every
step of the kernel and count the places of a message in all queues; and `OSPendMulti`.

## 5. Where code and comments disagree

`mutex_restore` expects a violation of what the repository itself says: the waiter that raised the owner times
out; `OSMutexPost` then finds nobody waiting and returns (`os_mutex.c:714`) before the step "Lower owner's priority back to
its original one" (`os_mutex.c:724`). The priority stays raised for good.

The header of `OS_TmrLink` says "The timer is always inserted at the beginning of the list" (`os_tmr.c:867-868`). The
code and its inline comments (`os_tmr.c:919-941`) insert it in the order of the remaining time, and `OS_TmrTask` relies on that:
its loop ends at the first timer that is not due. `TmrWheelIntegrity` states the order of the code, so the passing run `timers`
contradicts the header.

The models show more under wider constants or stronger properties than the passing runs use:

- `OSTimeDly` sets the state to DLY before `OS_TickListInsert`, which for an absolute time that is
  past answers "do NOT delay" (`os_tick.c:240`). The state stays: the task runs on, ready in the lists and delayed
  in its TCB, and a later `OSTaskSuspend` reports success without suspending it (`"late"` in `Hazard`).
- `OSTaskSemPendAbort` checks `PendOn` in one critical section and aborts in the next (`os_task.c:1457`). A tick
  between them lets the target time out and wait for something else; that wait is aborted.
- `OSTaskChangePrio` of the running task leaves `OSPrioCur` stale until the next switch.
- `OSSemPendAbort` and `OSQPendAbort` with abort-all *and* no-schedule abort one waiter (`os_sem.c:539`, `os_q.c:623`).
- A task that holds two mutexes falls back to its original priority when it posts one although a more
  urgent task waits for the other.
- The 8-bit nesting counter of a mutex wraps to "free" (`NestBound` of `NestMod` or more violates
  `MutexExclusive`).
- A task readied by `OS_FlagPost` clears the flags it consumes only when it runs (`os_flag.c:592`). A flag that is posted
  again before that is cleared with them and wakes nobody; if `untaken` counted that post too (without `InHand`), `FlagKept` would be
  violated.
- `OS_FlagTaskRdy` leaves a suspended waiter with a timeout on the tick wheel in state SUSPENDED
  (`os_flag.c:1261`), which by `os.h:203` has no timeout. `WheelIntegrity` does not hold of `OSFlag`; the tick that
  finds the entry does no harm, but `OSTaskDel` in between (`os_task.c:505`) leaves a cleared TCB linked in its spoke.
- A timer callback that stops or restarts the timer behind its own makes the timer task follow a
  link that is no longer there, and timers that are due are left to the next turn of the counter, although the
  loop is to "Process each timer that expires" (`os_tmr.c:1075`); `"other"` in `Touch` violates `NoMissedExpiry`.
- `OSPendMulti` returns 1 also after a timeout (`os_pend_multi.c:231`), where its header promises 0
  (`os_pend_multi.c:117`); seen while reading, the return value is not in the model.

## 6. Not modelled, and the plan

Left out for good: statistics and debug variables (no decision depends on them), task registers and stack checks,
start-up and shutdown of the Win32 port, board support, hooks and demonstration programs, the Java test server, and
everything the configuration does not compile. By far the largest part of the repository's lines is third-party
code that this program only carries along: the lwIP stack (`src/ucostest/LWIP`), whose threads and semaphores are
those of Windows and not of this kernel, and the CPU and string libraries (`uC-CPU`, `uC-LIB`), sequential
helpers of which the kernel uses the leading-zero count, the critical section and timestamps.

What could follow:

1. Proofs: `MsgConservation` of `OSQ`, then `OSPendMulti`, where a task is in several pend lists at once.
2. Models: two mutexes and timeouts with a property for what the code does guarantee; deletion of owners;
   a bound on the ticks the port may lose.
