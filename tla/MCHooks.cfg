\* Orderly clients: three threads, a mutex and a condition it guards.
CONSTANTS
  m1 = m1
  c1 = c1
  NULL = NULL
  RWLock = {w1}
  RWLockWord = {0}
  NoThread = NoThread
  Thread = {t1, t2, t3}
  Mutex = {m1}
  Cond = {c1}
  MutexWord = {0, 8192, 16384, 32768}
  CondWord = {0, 1}
  Heap <- MCHeap
  GuardedBy <- MCGuardedBy
  Habits = {}
  MaxDepth = 2
SPECIFICATION HooksSpec
INVARIANTS HooksAllTypeOK RealsOwned AddressesLive OwnerIsHolder ReadersOrWriter
PROPERTIES MonitorSpec InitialisedOnce 
\* All threads may wait for a signal.
CHECK_DEADLOCK FALSE
