SPECIFICATION KernelSpec
CONSTANTS
  t1 = t1
  t2 = t2
  t3 = t3
  Task = {t1, t2, t3}
  Programs <- MCPrograms
  Idle = Idle
  NoTask = NoTask
  Mutex = {m}
  Signal = {s}
  TickMod = 4
  OverflowMod = 2
  Timeout = {2}
  MaxMissed = 1
  MaxAge = 3
INVARIANTS KernelTypeOK WaitEndsOnTime NoWakeUpLost
PROPERTIES NoWaitEndsEarly NoTickLost ReadyRuns
