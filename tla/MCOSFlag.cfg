SPECIFICATION FSpec
CONSTANTS
  idle = idle
  tick = tick
  a = a
  b = b
  c = c
  IdleTask = idle
  TickTask = tick
  NoTask = NoTask
  NoObj = NoObj
  NoMsg = NoMsg
  Obj = {g1}
  Msg = {}
  TmrTask = NoTask
  TmrUpdateCnt = 1
  Calls <- AppCalls
  TaskQuanta <- QuantaDflt
  Task <- Tasks3
  BootOrder <- Boot3
  TaskPrio <- PrioCtlLow
  AppSvc = {"flagpend"}
  PrioMax = 5
  TickWheelSize = 2
  TickMod = 2
  TickThRdy = 1
  SemMax = 1
  NestMod = 4
  DfltQuanta = 1
  Hazard = {}
  Delays = {}
  Timeouts = {1}
  Quanta = {0}
  DlyOpts = {"DLY"}
  NewPrios = {}
  PostOpts = {"NONE"}
  LockMax = 1
  SuspendBound = 1
  g1 = g1
  f1 = f1
  f2 = f2
  Grp = {g1}
  Flag = {f1, f2}
  FlagInit <- NoFlags
  WaitFlags = {{f1, f2}}
  WaitModes = {{"CONSUME"}, {"ALL", "CONSUME"}, {"NON_BLOCKING"}}
  PostFlags = {{f1}, {f2}}
  FlagPostOpts = {{}, {"CLR"}}
  CtlSvc = {"flagpost", "suspend", "resume", "del"}
INVARIANTS NoWaiterSatisfied FlagKept ReturnsWhatItWanted SuspensionCounted
