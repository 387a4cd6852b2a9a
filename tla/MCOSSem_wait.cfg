SPECIFICATION SSpec
CONSTANTS
  idle = idle
  tick = tick
  a = a
  b = b
  c = c
  IdleTask = idle
  TickTask = tick
  NoTask = NoTask
  NoObj = NoObj
  NoMsg = NoMsg
  Obj <- Sems
  Msg = {}
  TmrTask = NoTask
  TmrUpdateCnt = 1
  Calls <- AppCalls
  TaskQuanta <- QuantaDflt
  Task <- Tasks3
  BootOrder <- Boot3
  TaskPrio <- PrioCtlLow
  AppSvc = {"pend"}
  PrioMax = 5
  TickWheelSize = 2
  TickMod = 2
  TickThRdy = 1
  SemMax = 1
  NestMod = 4
  DfltQuanta = 1
  Hazard = {}
  Delays = {1}
  Timeouts = {1}
  Quanta = {0}
  DlyOpts = {"DLY"}
  NewPrios = {0}
  PostOpts = {"NONE"}
  LockMax = 1
  SuspendBound = 1
  s1 = s1
  Sem <- Sems
  SemInit <- Zero
  SemOpts = {{"ALL"}, {"NO_SCHED"}, {"ALL", "NO_SCHED"}}
  CtlSvc = {"post", "pendabort", "suspend", "resume", "set", "chprio"}
INVARIANTS TokenConservation NoWaiterWithToken WaitIntegrity
PROPERTIES PostWakesHighest
