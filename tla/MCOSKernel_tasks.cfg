SPECIFICATION KSpec
CONSTANTS
  idle = idle
  tick = tick
  a = a
  b = b
  c = c
  IdleTask = idle
  TickTask = tick
  NoTask = NoTask
  NoObj = NoObj
  NoMsg = NoMsg
  Obj = {}
  Msg = {}
  TmrTask = NoTask
  TmrUpdateCnt = 1
  Calls <- AppCalls
  TaskQuanta <- QuantaDflt
  Task <- Tasks2
  BootOrder <- Boot2
  TaskPrio <- PrioTickMid
  AppSvc = {"sempend", "sempost", "suspend", "resume"}
  PrioMax = 4
  TickWheelSize = 2
  TickMod = 2
  TickThRdy = 1
  SemMax = 1
  NestMod = 4
  DfltQuanta = 1
  Hazard = {}
  Delays = {0}
  Timeouts = {1}
  Quanta = {0}
  DlyOpts = {"DLY"}
  NewPrios = {1, 2}
  PostOpts = {"NONE"}
  LockMax = 1
  SuspendBound = 2
  CtlSvc = {"sempend", "sempost", "semabort", "suspend", "resume", "create", "del", "lock", "chprio", "timeset"}
INVARIANTS KTypeOK RdyIntegrity RunningIsReady HighestRuns NoSignalWhileWaiting SuspensionCounted
