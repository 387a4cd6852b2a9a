SPECIFICATION PortLive
CONSTANTS
  IdleTask = idle
  Task = {idle, a, b}
  TickW32 = TickW32
  NoThread = NoThread
INVARIANTS OnlyCurrentRuns TickNotDropped
PROPERTY SelectedRuns
