SPECIFICATION MCSpec
CONSTANTS
  a = a
  b = b
  c = c
  d = d
  t1 = t1
  t2 = t2
  t3 = t3
  Threads <- MCThreads
  None = None
  Limit = 2
  MaxLocks = 4
  Flags = {f1, f2}
  MaxOnces = 4
  Wants <- MCWants
INVARIANTS
  QuietAfterDestroy
  OnlyOnce
  LocksSafely
PROPERTIES
  ImplementsLock
  CallsReturn
CHECK_DEADLOCK FALSE
