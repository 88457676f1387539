SPECIFICATION TimerSpec
CONSTANTS
  Timers = {t1, t2, t3}
  Ahead = {0, 1, 2}
  MaxTime = 2
PROPERTIES
  ImplementsTimers
  TimersFire
