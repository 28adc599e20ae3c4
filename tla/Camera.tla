------------------------------- MODULE Camera -------------------------------
(***************************************************************************)
(* The camera compatibility layer (compat/camera) and the media recorder   *)
(* that borrows its camera: one CameraControl, the client's threads that   *)
(* call into it, the binder threads that bring it the messages of the      *)
(* camera service, and the service itself (external), `device'.            *)
(*                                                                         *)
(* Most calls run under control->guard; those that deal with the texture   *)
(* do not, and neither do the callbacks.                                   *)
(***************************************************************************)
EXTENDS Clients

CONSTANTS
  GLThread,     \* the one that owns the GL context
  Texture,      \* the SurfaceTextures that can be made
  Key, FLASH,   \* the parameters, and the flash mode among them
  Value,        \* what clients set them to
  FreshValue,   \* what they are at first
  MaxInbox,     \* bound: kinds of messages on their way
  Uses,         \* sets of calls of which a client makes use
  CameraHabits  \* what clients do beyond good order, see MayStart

Command == {"lock", "unlock", "disconnect", "start_preview", "stop_preview", "take_snapshot",
            "send_command", "set_preview_surface"}
Op      == Command \cup {"set", "get", "enumerate", "set_preview_texture"}

ASSUME CameraAssumption ==
  /\ GLThread \in Thread
  /\ FLASH \in Key /\ FreshValue \in Value
  /\ NULL \notin Texture \cup Value /\ "surface" \notin Texture
  /\ MaxInbox \in Nat /\ Uses \subseteq SUBSET Op /\ CameraHabits \subseteq {"restart"}

VARIABLES
  control,           \* the CameraControl: "none", "live" or "deleted"
  guard,             \* who holds control->guard
  camera_parameters, \* control's copy of the parameters
  preview_texture,   \* control's SurfaceTexture
  flash_mode,        \* what the static pointer of get_flash_mode points to
  call,              \* what each thread executes
  textures,          \* the SurfaceTextures: made, with listener, abandoned
  device,            \* the camera service's side
  inbox,             \* messages on their way to the client
  recorder,          \* the MediaRecorder: what it was brought to
  use                \* the calls this client makes

controlVars == <<control, guard, camera_parameters, preview_texture, flash_mode>>
cameraVars  == <<control, guard, camera_parameters, preview_texture, flash_mode,
                 call, textures, device, inbox, recorder, use>>

Setting == [Key -> Value]
Message == {"notify", "picture", "frame"}

\* pc: "guard" waits for the guard; "body" holds it; "listen" and "hand" are
\* steps of set_preview_texture; "message" is in a callback.
Call   == [pc : {"idle", "guard", "body", "listen", "hand", "message"},
           op : Op \cup Message \cup {NULL}, flat : Setting \cup {NULL}]
NoCall == [pc |-> "idle", op |-> NULL, flat |-> NULL]

Device == [connected : BOOLEAN, lock : {"client", "nobody", "recorder"}, params : Setting,
           preview : BOOLEAN, target : Texture \cup {NULL, "surface"}, missed : BOOLEAN]

Fresh == [k \in Key |-> FreshValue]

CameraTypeOK ==
  /\ control \in {"none", "live", "deleted"} /\ guard \in Actor \cup {NoThread}
  /\ camera_parameters \in Setting /\ preview_texture \in Texture \cup {NULL}
  /\ flash_mode \in {NULL, "current", "dangling"}
  /\ call \in [Actor -> Call] /\ inbox \subseteq Message
  /\ textures \in [made : SUBSET Texture, heard : SUBSET Texture, abandoned : SUBSET Texture]
  /\ device \in Device
  /\ recorder \in {"none", "idle", "prepared", "recording"} /\ use \in Uses

CameraInit ==
  /\ control = "none" /\ guard = NoThread
  /\ camera_parameters = Fresh /\ preview_texture = NULL /\ flash_mode = NULL
  /\ call = [a \in Actor |-> NoCall] /\ inbox = {}
  /\ textures = [made |-> {}, heard |-> {}, abandoned |-> {}]
  /\ device = [connected |-> FALSE, lock |-> "nobody", params |-> Fresh, preview |-> FALSE,
               target |-> NULL, missed |-> FALSE]
  /\ recorder = "none" /\ use \in Uses

-----------------------------------------------------------------------------
(* Connecting, and calling.                                                *)

\* A camera with the wanted facing is found and connected to: otherwise the
\* client gets NULL, and nothing refers to what was made.  The service sends
\* messages to the new control, and only this client may use the camera.
android_camera_connect_to(t) ==
  /\ control = "none"
  /\ control' = "live"
  /\ camera_parameters' = device.params
  /\ device' = [device EXCEPT !.connected = TRUE, !.lock = "client"]
  /\ UNCHANGED <<guard, preview_texture, flash_mode, call, textures, inbox, recorder, use>>

InCall(op) == \E a \in Actor : call[a].op = op /\ call[a].pc # "idle"

\* The preview is started and stopped once, in that order, by a client that has
\* not unlocked the camera.
OnlyOnePreview(op) ==
  /\ op \in {"set_preview_texture", "start_preview"} =>
       textures.abandoned = {} /\ ~InCall("stop_preview")
  /\ op = "stop_preview" =>
       device.lock = "client" /\ ~InCall("start_preview") /\ ~InCall("set_preview_texture")
  /\ op = "unlock" => ~InCall("stop_preview")

\* What clients see to: the texture is the GL thread's business; a connection
\* ends when nobody uses it; and without the habit "restart" a preview that was
\* stopped is not started again.
MayStart(t, op) ==
  /\ op \in use
  /\ control = "live" /\ call[t].pc = "idle" /\ device.connected
  /\ op = "set_preview_texture" => t = GLThread
  /\ "restart" \in CameraHabits \/ OnlyOnePreview(op)
  /\ op = "disconnect" => \A a \in Actor : call[a].pc = "idle"
  /\ op \in {"disconnect", "lock"} => recorder # "recording"

\* A guarded call counts from where it gets the guard, a client's waiting for
\* it is not seen; that of a callback is.
MayEnter(a, op) ==
  /\ guard = NoThread
  /\ \/ a \in Thread /\ MayStart(a, op)
     \/ call[a].pc = "guard" /\ call[a].op = op

Holding(a, op)  == call[a].pc = "body" /\ call[a].op = op
Enter(a, op, p) == guard' = a /\ call' = [call EXCEPT ![a] = [pc |-> "body", op |-> op, flat |-> p]]
Leave(a)        == guard' = NoThread /\ call' = [call EXCEPT ![a] = NoCall]
\* A call that is one step: it gets and lets go of the guard.
Pass(a)         == UNCHANGED guard /\ call' = [call EXCEPT ![a] = NoCall]

-----------------------------------------------------------------------------
(* Parameters: control's copy is changed, and all of it sent.              *)

Changed(k, v) == [camera_parameters EXCEPT ![k] = v]

\* Slip: the guard is not held from the change to the sending.
SetParameterUnguarded(a, k, v) ==
  /\ MayEnter(a, "set")
  /\ camera_parameters' = Changed(k, v)
  /\ call' = [call EXCEPT ![a] = [pc |-> "body", op |-> "set", flat |-> Changed(k, v)]]
  /\ flash_mode' = IF k = FLASH /\ flash_mode # NULL THEN "dangling" ELSE flash_mode
  /\ UNCHANGED <<guard, control, preview_texture, textures, device, inbox, recorder, use>>

\* The twelve setters.  Replacing the flash mode frees the string that the
\* static pointer of get_flash_mode still points to.
SetParameter(a, k, v) ==
  /\ MayEnter(a, "set")
  /\ camera_parameters' = Changed(k, v)
  /\ Enter(a, "set", Changed(k, v))
  /\ flash_mode' = IF k = FLASH /\ flash_mode # NULL THEN "dangling" ELSE flash_mode
  /\ UNCHANGED <<control, preview_texture, textures, device, inbox, recorder, use>>

\* Nobody looks at the result: the device refuses, all together, parameters it
\* does not support, and everything from a client that has unlocked the camera.
SendParameters(a) ==
  /\ Holding(a, "set")
  /\ \/ /\ device.lock = "client"
        /\ device' = [device EXCEPT !.params = call[a].flat, !.missed = FALSE]
     \/ device' = [device EXCEPT !.missed = TRUE]
  /\ Leave(a)
  /\ UNCHANGED <<control, camera_parameters, preview_texture, flash_mode, textures, inbox, recorder, use>>

\* The getters read control's copy; that of the flash mode only once, ever.
GetParameter(a, k) ==
  /\ MayEnter(a, "get")
  /\ flash_mode' = IF k = FLASH /\ flash_mode = NULL THEN "current" ELSE flash_mode
  /\ Pass(a)
  /\ UNCHANGED <<control, camera_parameters, preview_texture, textures, device, inbox, recorder, use>>

\* The sizes are enumerated by a callback of the client's, under the guard.
EnumerateSizes(a) ==
  /\ MayEnter(a, "enumerate")
  /\ Enter(a, "enumerate", NULL)
  /\ UNCHANGED <<control, camera_parameters, preview_texture, flash_mode, textures, device, inbox, recorder, use>>

SizesEnumerated(a) ==
  /\ Holding(a, "enumerate")
  /\ Leave(a)
  /\ UNCHANGED <<control, camera_parameters, preview_texture, flash_mode, textures, device, inbox, recorder, use>>

-----------------------------------------------------------------------------
(* Commands under the guard.  They go to the device, which ignores those of *)
(* a client that has unlocked the camera.                                   *)

Obeys == device.lock = "client"

\* What a command makes of the device.  A snapshot ends the preview.
Commanded(op) ==
  CASE op = "lock"                /\ device.lock # "recorder" -> [device EXCEPT !.lock = "client"]
    [] op = "unlock"              /\ Obeys -> [device EXCEPT !.lock = "nobody"]
    [] op = "start_preview"       /\ Obeys -> [device EXCEPT !.preview = TRUE]
    [] op = "take_snapshot"       /\ Obeys -> [device EXCEPT !.preview = FALSE]
    [] op = "set_preview_surface" /\ Obeys -> [device EXCEPT !.target = "surface"]
    [] OTHER                      -> device

\* Zoom and focus report back; so does a snapshot, with its picture.
Answers(op) ==
  CASE op = "take_snapshot" /\ Obeys /\ device.preview -> {"notify", "picture"}
    [] op = "send_command"  /\ Obeys                   -> {"notify"}
    [] OTHER                                           -> {}

DeviceCommand(a, op) ==
  /\ op \in Command \ {"disconnect", "stop_preview"}
  /\ MayEnter(a, op)
  /\ device' = Commanded(op)
  /\ inbox' = inbox \cup Answers(op)
  /\ Pass(a)
  /\ UNCHANGED <<control, camera_parameters, preview_texture, flash_mode, textures, recorder, use>>

\* The texture is abandoned before the preview is stopped.
android_camera_stop_preview(a) ==
  /\ MayEnter(a, "stop_preview")
  /\ Enter(a, "stop_preview", NULL)
  /\ textures' = IF preview_texture = NULL THEN textures
                 ELSE [textures EXCEPT !.abandoned = @ \cup {preview_texture}]
  /\ UNCHANGED <<control, camera_parameters, preview_texture, flash_mode, device, inbox, recorder, use>>

PreviewStopped(a) ==
  /\ Holding(a, "stop_preview")
  /\ device' = IF Obeys THEN [device EXCEPT !.preview = FALSE] ELSE device
  /\ Leave(a)
  /\ UNCHANGED <<control, camera_parameters, preview_texture, flash_mode, textures, inbox, recorder, use>>

\* The connection ends, and with it the messages.
android_camera_disconnect(a) ==
  /\ MayEnter(a, "disconnect")
  /\ device' = [device EXCEPT !.connected = FALSE, !.lock = "nobody", !.preview = FALSE, !.target = NULL]
  /\ inbox' = {}
  /\ Pass(a)
  /\ UNCHANGED <<control, camera_parameters, preview_texture, flash_mode, textures, recorder, use>>

\* Deleted last of all.  camera_control_instance still refers to the control:
\* what would go on to use it is not modelled.
android_camera_delete ==
  /\ control = "live" /\ ~device.connected
  /\ \A a \in Actor : call[a].pc = "idle"
  /\ control' = "deleted"
  /\ UNCHANGED <<guard, camera_parameters, preview_texture, flash_mode, call, textures, device, inbox, recorder, use>>

-----------------------------------------------------------------------------
(* The texture, without the guard: made once, told its listener, and handed *)
(* to the device.                                                           *)

CreateTexture(t) ==
  /\ MayStart(t, "set_preview_texture")
  /\ IF preview_texture # NULL THEN UNCHANGED <<preview_texture, textures>>
     ELSE \E x \in Texture \ textures.made :
            /\ preview_texture' = x
            /\ textures' = [textures EXCEPT !.made = @ \cup {x}]
  /\ call' = [call EXCEPT ![t] = [NoCall EXCEPT !.pc = "listen", !.op = "set_preview_texture"]]
  /\ UNCHANGED <<control, guard, camera_parameters, flash_mode, device, inbox, recorder, use>>

\* Slip: the texture is handed over before it has a listener.
ListenToTextureLate(t) ==
  /\ call[t].pc = "listen"
  /\ device' = IF Obeys THEN [device EXCEPT !.target = preview_texture] ELSE device
  /\ call' = [call EXCEPT ![t].pc = "hand"]
  /\ UNCHANGED <<controlVars, textures, inbox, recorder, use>>

ListenToTexture(t) ==
  /\ call[t].pc = "listen"
  /\ textures' = [textures EXCEPT !.heard = @ \cup {preview_texture}]
  /\ call' = [call EXCEPT ![t].pc = "hand"]
  /\ UNCHANGED <<controlVars, device, inbox, recorder, use>>

HandTexture(t) ==
  /\ call[t].pc = "hand"
  /\ device' = IF Obeys THEN [device EXCEPT !.target = preview_texture] ELSE device
  /\ call' = [call EXCEPT ![t] = NoCall]
  /\ UNCHANGED <<controlVars, textures, inbox, recorder, use>>

-----------------------------------------------------------------------------
(* Messages.                                                               *)

\* The service takes a picture apart from commands too: frames as long as the
\* preview runs into a texture that takes them, errors at any time.
DeviceSends ==
  /\ device.connected
  /\ \E m \in {"notify", "frame"} :
       /\ Cardinality(inbox \cup {m}) <= MaxInbox
       /\ m = "frame" => device.preview /\ device.target \in textures.heard \ textures.abandoned
       /\ inbox' = inbox \cup {m}
  /\ UNCHANGED <<controlVars, call, textures, device, recorder, use>>

\* notify, postData and onFrameAvailable call the client's callback at once.
Deliver(b, m) ==
  /\ call[b].pc = "idle" /\ m \in inbox
  /\ inbox' = inbox \ {m}
  /\ call' = [call EXCEPT ![b] = [NoCall EXCEPT !.pc = "message", !.op = m]]
  /\ UNCHANGED <<controlVars, textures, device, recorder, use>>

MayRestart == "restart" \in CameraHabits \/ OnlyOnePreview("start_preview")

\* Slip: the callback runs under the guard.
ClientCallbackGuarded(b) ==
  /\ call[b].pc = "message" /\ guard = NoThread
  /\ IF call[b].op = "picture" /\ MayRestart
       THEN /\ call' = [call EXCEPT ![b].pc = "guard", ![b].op = "start_preview"]
            /\ guard' = b
       ELSE Pass(b)
  /\ UNCHANGED <<control, camera_parameters, preview_texture, flash_mode, textures, device, inbox, recorder, use>>

\* The callback for a picture starts the preview again, as that of the tests
\* does; the others return.
ClientCallback(b) ==
  /\ call[b].pc = "message"
  /\ IF call[b].op = "picture" /\ MayRestart
       THEN call' = [call EXCEPT ![b].pc = "guard", ![b].op = "start_preview"]
       ELSE call' = [call EXCEPT ![b] = NoCall]
  /\ UNCHANGED <<controlVars, textures, device, inbox, recorder, use>>

-----------------------------------------------------------------------------
(* The recorder's calls go to the media service; only its camera and what    *)
(* it was brought to matter here.                                            *)

RecorderStep(from, to, lock) ==
  /\ "unlock" \in use
  /\ recorder \in from /\ recorder' = to
  /\ device' = [device EXCEPT !.lock = lock]
  /\ UNCHANGED <<controlVars, call, textures, inbox, use>>

android_media_new_recorder == RecorderStep({"none"}, "idle", device.lock)

\* control->camera is read without the guard.
android_recorder_setCamera ==
  /\ control = "live" /\ device.connected
  /\ RecorderStep({"idle"}, "prepared", device.lock)

\* The media service locks the camera: the client must have unlocked it.
android_recorder_start == device.lock = "nobody" /\ device.connected
                          /\ RecorderStep({"prepared"}, "recording", "recorder")

\* A recorder that is stopped, reset, closed (and may start over) or released
\* (and does not come back) lets go of the camera.
RecorderEnds(to) ==
  RecorderStep({"prepared", "recording"}, to,
               IF recorder = "recording" THEN "nobody" ELSE device.lock)

-----------------------------------------------------------------------------

\* A client's call begins, and many end at once.
CameraCall(t) ==
  \/ \E k \in Key, v \in Value : SetParameter(t, k, v)
  \/ \E k \in Key : GetParameter(t, k)
  \/ EnumerateSizes(t)
  \/ \E op \in Command : DeviceCommand(t, op)
  \/ android_camera_stop_preview(t)
  \/ android_camera_disconnect(t)
  \/ CreateTexture(t)

\* What a thread in a call, or delivering a message, does next.
CameraStep(a) ==
  \/ SendParameters(a) \/ SizesEnumerated(a) \/ PreviewStopped(a)
  \/ ListenToTexture(a) \/ HandTexture(a)
  \/ ClientCallback(a)
  \/ a \in Binder /\ DeviceCommand(a, "start_preview")

CameraNext ==
  \/ \E t \in Thread : android_camera_connect_to(t) \/ CameraCall(t)
  \/ \E a \in Actor : CameraStep(a)
  \/ \E b \in Binder, m \in Message : Deliver(b, m)
  \/ DeviceSends
  \/ android_camera_delete
  \/ android_media_new_recorder \/ android_recorder_setCamera
  \/ android_recorder_start \/ RecorderEnds("idle") \/ RecorderEnds("none")

CameraSpec == CameraInit /\ [][CameraNext]_cameraVars

\* A thread in a call runs on, and gets the guard if it is free again and again.
CameraFairness == \A a \in Actor : SF_cameraVars(CameraStep(a))

-----------------------------------------------------------------------------
(* Properties.                                                             *)

\* Between the setters, control's copy of the parameters is what the device
\* works with, unless the device refused the last of them (which the code does
\* not look at): the setters' read, change and send never mix.
ParametersInStep == guard = NoThread /\ device.connected =>
                      (device.missed \/ camera_parameters = device.params)

Stopping == \E a \in Actor : Holding(a, "stop_preview")

\* The frames of a preview reach the client: the texture they go to has
\* control for its listener, is the one update_preview_texture reads, and
\* takes frames, at every moment until the preview is being stopped.
PreviewVisible ==
  device.preview /\ device.target \in Texture /\ ~Stopping =>
    /\ device.target = preview_texture
    /\ device.target \in textures.heard \ textures.abandoned

\* Every call returns, also one that a callback makes: no callback for a
\* message runs under the guard.
CameraCallsReturn == \A a \in Actor : call[a].pc # "idle" ~> call[a].pc = "idle"
=============================================================================
