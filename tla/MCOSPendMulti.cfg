SPECIFICATION PMSpec
CONSTANTS
  idle = idle
  tick = tick
  a = a
  b = b
  c = c
  IdleTask = idle
  TickTask = tick
  NoTask = NoTask
  NoObj = NoObj
  NoMsg = NoMsg
  Obj = {s1, q1}
  Msg = {m1}
  TmrTask = NoTask
  TmrUpdateCnt = 1
  Calls <- AppCalls
  TaskQuanta <- QuantaDflt
  Task <- Tasks3
  BootOrder <- Boot3
  TaskPrio <- PrioCtlLow
  PrioMax = 5
  TickWheelSize = 2
  TickMod = 2
  TickThRdy = 1
  SemMax = 1
  NestMod = 4
  DfltQuanta = 1
  Hazard = {}
  Delays = {}
  Timeouts = {1}
  Quanta = {0}
  DlyOpts = {"DLY"}
  NewPrios = {}
  PostOpts = {"NONE"}
  LockMax = 1
  SuspendBound = 1
  s1 = s1
  q1 = q1
  m1 = m1
  Sem = {s1}
  Q = {q1}
  SemInit <- Zero
  SemOpts = {{}}
  QOpts = {{}, {"ALL"}}
  QSize <- Sizes
  MsgPoolSize = 2
  PendTbls = {{s1, q1}}
  CtlSvc = {"post", "qpost", "qabort", "qflush", "suspend", "resume", "del"}
  BSvc = {"multi", "tqpend"}
  CSvc = {"qpend"}
INVARIANTS PMTypeOK MsgConservation NoWaiterWithMessage TokenConservation GrantNamesObject
