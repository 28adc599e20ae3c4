\* Orderly programs, each with two threads and one that delivers messages.
CONSTANTS
  gl = gl
  app = app
  binder = binder
  Thread = {gl, app}
  Binder = {binder}
  NoThread = NoThread
  NULL = NULL
  GLThread = gl
  Texture = {x1, x2}
  FLASH = flash
  Key = {flash, effect}
  Value = {v0, v1}
  FreshValue = v0
  MaxInbox = 2
  Uses <- MCUses
  CameraHabits = {}
  Slot = {prepared, frames}
  Callback = {c1, c2}
  Fd = {3, 4}
  PlayerHabits = {}
  READER = reader
  EventId = {e1, e2}
  MaxLoopers = 2
  Surface = {s1, s2}
  Place = {home, away}
  Home = home
SPECIFICATION ServicesSpec
INVARIANTS ServicesTypeOK ParametersInStep   
           EventWhole StopsQuiet PlacesShown
PROPERTIES CameraCallsReturn  
\* A camera that was deleted has no more calls.
CHECK_DEADLOCK FALSE
