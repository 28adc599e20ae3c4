SPECIFICATION Spec
CONSTANTS
  libdl = libdl
  libc = libc
  liba = liba
  libb = libb
  r1 = r1
  r2 = r2
  r3 = r3
  t1 = t1
  NoThread = NoThread
  NoRegion = NoRegion
  NULL = NULL
  Thread = {t1}
  Lib <- MCLib
  Libdl = libdl
  Libc = libc
  Region = {r1, r2, r3}
  DepGraph <- MCDepGraph
  KernelRegion = {r1, r2, r3}
  Prelink <- MCPrelink
  Faulty = {}
  Reentrant = {}
  SO_MAX = 3
  MaxNeeded = 2
  MaxHandles = 1
PROPERTY
  NoImageOverlaid
\* Nothing runs after a crash on libdl_info: the system really may stop.
CHECK_DEADLOCK FALSE
