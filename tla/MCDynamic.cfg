\* Two threads at the stubs, one caller of the linkers (dl_lock admits one at a
\* time), constructors that open a library and leave it open, or close it again
\* if it needs no library that is being opened; enough nesting for a constructor
\* in another's.
CONSTANTS
  a = a
  b = b
  c = c
  f = f
  g = g
  lock = lock
  create = create
  Thread = {p, q}
  Binder = {}
  NoThread = NoThread
  NULL = NULL
  Symbol = {f, g}
  MaxLoads = 2
  MaxRefs = 1
  Caller = {p}
  NoCaller = NoThread
  File = {a, b, c}
  Graphs <- MCGraphs
  Broken = {c}
  Calling = {a, b}
  Balanced = {b}
  Reentrant = FALSE
  NIL = NULL
  MaxHeld = 1
  MaxCount = 3
  MaxNesting = 6
  PAGE = 4
  Top = 40
  Layouts <- MCLayouts
  Prelinks = {0, 4}
  Others = {4, 5, 6, 7, 20, 21, 22, 23}
  Name = {f, g, lock, create}
  elfhash <- MCHash
  Hooks = {lock}
  Pthreads = {lock, create}
  Worlds <- MCWorlds
  NONE = NULL
SPECIFICATION DynamicSpec
INVARIANTS DynamicTypeOK CallsBound BoundStaysLoaded DepsConstructedFirst  NoRelroFault
           BytesInPlace OthersUntouched ReferencesBound
\* A library is loaded or not, relocated or not, and a crash ends the program.
CHECK_DEADLOCK FALSE
