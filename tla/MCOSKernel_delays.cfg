SPECIFICATION KSpec
CONSTANTS
  idle = idle
  tick = tick
  a = a
  b = b
  c = c
  IdleTask = idle
  TickTask = tick
  NoTask = NoTask
  NoObj = NoObj
  NoMsg = NoMsg
  Obj = {}
  Msg = {}
  TmrTask = NoTask
  TmrUpdateCnt = 1
  Calls <- AppCalls
  TaskQuanta <- QuantaDflt
  Task <- Tasks2
  BootOrder <- Boot2
  TaskPrio <- PrioTickMid
  AppSvc = {"dly"}
  PrioMax = 4
  TickWheelSize = 3
  TickMod = 7
  TickThRdy = 4
  SemMax = 2
  NestMod = 4
  DfltQuanta = 1
  Hazard = {}
  Delays = {1, 3, 4}
  Timeouts = {}
  Quanta = {0}
  DlyOpts = {"DLY", "PERIODIC", "MATCH"}
  NewPrios = {}
  PostOpts = {"NONE"}
  LockMax = 1
  SuspendBound = 2
  CtlSvc = {"dly"}
INVARIANTS WheelIntegrity NoMissedTick DelayBounded
