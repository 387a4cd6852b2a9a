SPECIFICATION KSpec
CONSTANTS
  idle = idle
  tick = tick
  a = a
  b = b
  c = c
  IdleTask = idle
  TickTask = tick
  NoTask = NoTask
  NoObj = NoObj
  NoMsg = NoMsg
  Obj = {}
  Msg = {}
  TmrTask = NoTask
  TmrUpdateCnt = 1
  Calls <- AppCalls
  TaskQuanta <- QuantaDflt
  Task <- Tasks2
  BootOrder <- Boot2
  TaskPrio <- PrioShared
  AppSvc = {"sempend", "sempost", "lock", "rrcfg", "yield", "quanta", "semset"}
  PrioMax = 3
  TickWheelSize = 2
  TickMod = 2
  TickThRdy = 1
  SemMax = 1
  NestMod = 4
  DfltQuanta = 1
  Hazard = {}
  Delays = {}
  Timeouts = {}
  Quanta = {2}
  DlyOpts = {"DLY"}
  NewPrios = {}
  PostOpts = {"NONE"}
  LockMax = 1
  SuspendBound = 2
  CtlSvc = {"sempend", "sempost", "lock", "rrcfg", "yield", "quanta", "semset"}
PROPERTIES NoPreemptionByEqual NoSwitchWhileLocked
