\* Two threads may be the first to use a statically initialised mutex.
CONSTANTS
  m1 = m1
  c1 = c1
  NULL = NULL
  RWLock = {w1}
  RWLockWord = {0}
  NoThread = NoThread
  Thread = {t1, t2}
  Mutex = {m1}
  Cond = {c1}
  MutexWord = {0, 8192, 16384, 32768}
  CondWord = {0, 1}
  Heap <- MCHeap
  GuardedBy <- MCGuardedBy
  Habits = {"race"}
  MaxDepth = 2
SPECIFICATION HooksSpec
INVARIANTS MutualExclusion
\* All threads may wait for a signal.
CHECK_DEADLOCK FALSE
