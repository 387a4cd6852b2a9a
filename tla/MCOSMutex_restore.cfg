SPECIFICATION MSpec
CONSTANTS
  idle = idle
  tick = tick
  a = a
  b = b
  c = c
  IdleTask = idle
  TickTask = tick
  NoTask = NoTask
  NoObj = NoObj
  NoMsg = NoMsg
  Obj <- One
  Msg = {}
  TmrTask = NoTask
  TmrUpdateCnt = 1
  Calls <- AppCalls
  TaskQuanta <- QuantaDflt
  Task <- Tasks2
  BootOrder <- Boot2
  TaskPrio <- PrioDistinct
  AppSvc = {"pend", "post", "dly"}
  PrioMax = 5
  TickWheelSize = 2
  TickMod = 2
  TickThRdy = 1
  SemMax = 1
  NestMod = 4
  DfltQuanta = 1
  Hazard = {}
  Delays = {1}
  Timeouts = {1}
  Quanta = {0}
  DlyOpts = {"DLY"}
  NewPrios = {}
  PostOpts = {"NONE"}
  LockMax = 1
  SuspendBound = 2
  m1 = m1
  Mutex <- One
  NestBound = 2
  CtlSvc = {"pend", "post", "dly"}
INVARIANTS PriorityRestored
