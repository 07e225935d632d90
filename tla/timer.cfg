CONSTANTS
  Main = main
  Idle = idle
  Thread = {main, idle, a, b}
  NULL = NULL
  TIME_SLICE = 2
  idle_started = idle_started
  Plain = {idle_started}
  IntrSema = {}
  tid_lock = tid_lock
  Lock = {tid_lock}
  Cond = {}
  LockOf <- MCLockOf
  MaxValue = 1
  MaxTid = 4
  Sleeps = {0, 2}
SPECIFICATION TimerSpec
INVARIANTS NextIsThread
PROPERTIES ReadyRuns SleepEnds
