CONSTANTS
  Main = main
  Idle = idle
  Thread = {main, idle, a, b}
  NULL = NULL
  TIME_SLICE = 1
  idle_started = idle_started
  Plain = {idle_started, s}
  IntrSema = {s}
  tid_lock = tid_lock
  cv = cv
  lk = lk
  Lock = {tid_lock, lk}
  Cond = {cv}
  LockOf <- MCLockOf
  MaxValue = 1
  MaxTid = 4
SPECIFICATION Spec
INVARIANTS TypeOK NoLostWakeup ElemOnOneList LockExclusion NoLostSignal
PROPERTIES ImplementsMutex
