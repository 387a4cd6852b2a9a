SPECIFICATION TmrSpec
CONSTANTS
  t1 = t1
  t2 = t2
  t3 = t3
  NoTmr = NoTmr
  Tmr = {t1, t2, t3}
  Dly <- Dlys
  Period <- Periods
  Periodic = {t3}
  TmrWheelSize = 2
  TickMod = 7
  SigMax = 2
  Touch = {"own", "idle"}
INVARIANTS TmrWheelIntegrity NoMissedExpiry
PROPERTY ImplementsTimers
