SPECIFICATION KLive
CONSTANTS
  idle = idle
  tick = tick
  a = a
  b = b
  c = c
  IdleTask = idle
  TickTask = tick
  NoTask = NoTask
  NoObj = NoObj
  NoMsg = NoMsg
  Obj = {}
  Msg = {}
  TmrTask = a
  TmrUpdateCnt = 2
  Calls <- AppCalls
  TaskQuanta <- QuantaDflt
  Task <- Tasks3
  BootOrder <- Boot3
  TaskPrio <- PrioTickHigh
  AppSvc = {"dly", "rrcfg"}
  PrioMax = 4
  TickWheelSize = 2
  TickMod = 2
  TickThRdy = 1
  SemMax = 1
  NestMod = 4
  DfltQuanta = 1
  Hazard = {}
  Delays = {1}
  Timeouts = {}
  Quanta = {0}
  DlyOpts = {"DLY"}
  NewPrios = {}
  PostOpts = {"NONE"}
  LockMax = 1
  SuspendBound = 2
  CtlSvc = {"dly", "rrcfg"}
PROPERTIES RoundRobinFair TimedWaitEnds TmrTaskSignalled
