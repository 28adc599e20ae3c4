SPECIFICATION FairSpec
CONSTANTS
  t1 = t1
  libdl = libdl
  libc = libc
  liba = liba
  libb = libb
  r1 = r1
  r2 = r2
  r3 = r3
  NoThread = NoThread
  NoRegion = NoRegion
  NULL = NULL
  Thread = {t1}
  Lib <- MCLib
  Libdl = libdl
  Libc = libc
  Region = {r1, r2, r3}
  KernelRegion = {r1, r2}
  Prelink <- MCPrelink
  DepGraph <- MCDepGraph
  Faulty = {libc, liba, libb}
  Reentrant = {libb}
  SO_MAX = 3
  MaxNeeded = 2
  MaxHandles = 1
INVARIANTS
  TypeOK
  PoolConserved
  RefcountAccounts
  NoDanglingNeeded
  HandlesUsable
  ConstructorOrder
  DestructorOrder
  
  AllClosedAllUnloaded
PROPERTIES
  FailureIsFinal
  LockReleased
\* A crash on libdl_info or a callback waiting for its own dl_lock stops the
\* process: the system really may stop.
CHECK_DEADLOCK FALSE
