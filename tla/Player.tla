------------------------------- MODULE Player -------------------------------
(***************************************************************************)
(* The media player compatibility layer (compat/media): one                *)
(* MediaPlayerWrapper, whose callbacks binder threads call, and the        *)
(* process's file descriptors, one of which is the player's source.  The   *)
(* callback of the media recorder is stored and called the same way.       *)
(***************************************************************************)
EXTENDS Clients

CONSTANTS
  Slot,          \* the callbacks: prepared, complete, error, ..., frames
  Callback,      \* functions of the program; each comes with a context
  Fd,            \* file descriptors
  PlayerHabits   \* what clients do beyond good order

ASSUME PlayerAssumption ==
  /\ NULL \notin Callback \cup Fd
  /\ PlayerHabits \subseteq {"set_late", "stop_twice"}

VARIABLES
  player,      \* "none", or the state of the android::MediaPlayer
  cb, context, \* of each slot
  source_fd,   \* NULL for -1
  fds,         \* whose each descriptor is
  doing,       \* what each thread executes
  to_stop      \* the client: it has set a source that it has not stopped

playerVars == <<player, cb, context, source_fd, fds, doing, to_stop>>

Playing == {"idle", "prepared", "started", "paused", "stopped"}

\* "context": has stored a callback, not its context; "opened": has a new
\* source; "closing": has read the descriptor to close; "calling" and "called":
\* has read a callback, and its context.
Doing  == [pc : {"idle", "context", "opened", "closing", "calling", "called"},
           slot : Slot \cup {NULL}, cb : Callback \cup {NULL}, context : Callback \cup {NULL},
           fd : Fd \cup {NULL}]
Nothing == [pc |-> "idle", slot |-> NULL, cb |-> NULL, context |-> NULL, fd |-> NULL]

PlayerTypeOK ==
  /\ player \in Playing \cup {"none"} /\ source_fd \in Fd \cup {NULL}
  /\ cb \in [Slot -> Callback \cup {NULL}] /\ context \in [Slot -> Callback \cup {NULL}]
  /\ fds \in [Fd -> {"free", "player", "other"}] /\ doing \in [Actor -> Doing]
  /\ to_stop \in BOOLEAN

PlayerInit ==
  /\ player = "none" /\ source_fd = NULL
  /\ cb = [s \in Slot |-> NULL] /\ context = [s \in Slot |-> NULL]
  /\ fds = [f \in Fd |-> "free"] /\ doing = [a \in Actor |-> Nothing]
  /\ to_stop = FALSE

Idle(t)        == player # "none" /\ doing[t].pc = "idle"
Done(t)        == doing' = [doing EXCEPT ![t] = Nothing]
AllIdle        == \A t \in Thread : doing[t].pc = "idle"

\* Messages come from the time a source is prepared.
Sending == player \notin {"none", "idle"}

android_media_new_player ==
  /\ player = "none" /\ player' = "idle"
  /\ UNCHANGED <<cb, context, source_fd, fds, doing, to_stop>>

-----------------------------------------------------------------------------
(* Callbacks.  Nothing guards the two words of a slot: a client without the *)
(* habit "set_late" sets them before there is a source.                     *)

SetCallback(t, s, c) ==
  /\ Idle(t)
  /\ "set_late" \in PlayerHabits \/ (player = "idle" /\ AllIdle)
  /\ cb' = [cb EXCEPT ![s] = c]
  /\ doing' = [doing EXCEPT ![t] = [Nothing EXCEPT !.pc = "context", !.slot = s, !.cb = c]]
  /\ UNCHANGED <<player, context, source_fd, fds, to_stop>>

\* Slip: the context goes to another callback's place too.
SetContextOfAll(t) ==
  /\ doing[t].pc = "context"
  /\ context' = [s \in Slot |-> doing[t].cb]
  /\ Done(t)
  /\ UNCHANGED <<player, cb, source_fd, fds, to_stop>>

SetContext(t) ==
  /\ doing[t].pc = "context"
  /\ context' = [context EXCEPT ![doing[t].slot] = doing[t].cb]
  /\ Done(t)
  /\ UNCHANGED <<player, cb, source_fd, fds, to_stop>>

\* A message without a callback is dropped.
Notify(b, s) ==
  /\ Sending /\ doing[b].pc = "idle" /\ cb[s] # NULL
  /\ doing' = [doing EXCEPT ![b] = [Nothing EXCEPT !.pc = "calling", !.slot = s, !.cb = cb[s]]]
  /\ UNCHANGED <<player, cb, context, source_fd, fds, to_stop>>

CallBack(b) ==
  /\ doing[b].pc = "calling"
  /\ doing' = [doing EXCEPT ![b].pc = "called", ![b].context = context[doing[b].slot]]
  /\ UNCHANGED <<player, cb, context, source_fd, fds, to_stop>>

CalledBack(b) ==
  /\ doing[b].pc = "called" /\ Done(b)
  /\ UNCHANGED <<player, cb, context, source_fd, fds, to_stop>>

-----------------------------------------------------------------------------
(* The source.  The client has one thread at a time set and stop it, and    *)
(* stops each source once; with the habit "stop_twice", as it likes.        *)

InHand == {doing[t].fd : t \in Thread} \ {NULL}

\* A file that cannot be opened changes nothing.
OpenSource(t, f) ==
  /\ Idle(t)
  /\ "stop_twice" \in PlayerHabits \/ (AllIdle /\ ~to_stop)
  /\ fds[f] = "free"
  /\ fds' = [fds EXCEPT ![f] = "player"]
  /\ doing' = [doing EXCEPT ![t] = [Nothing EXCEPT !.pc = "opened", !.fd = f]]
  /\ UNCHANGED <<player, cb, context, source_fd, to_stop>>

\* Slip: a source that cannot be prepared is not recorded.
SetSourceIfPrepared(t) ==
  /\ doing[t].pc = "opened"
  /\ \E p \in {"prepared", "stopped"} :
       /\ player' = p
       /\ source_fd' = IF p = "prepared" THEN doing[t].fd ELSE source_fd
  /\ to_stop' = TRUE
  /\ Done(t)
  /\ UNCHANGED <<cb, context, fds>>

\* The player is reset, the descriptor recorded, the source prepared: nobody
\* looks whether it could be ("stopped" if not).
SetSource(t) ==
  /\ doing[t].pc = "opened"
  /\ player' \in {"prepared", "stopped"} /\ source_fd' = doing[t].fd
  /\ to_stop' = TRUE
  /\ Done(t)
  /\ UNCHANGED <<cb, context, fds>>

android_media_stop(t) ==
  /\ Idle(t) /\ ("stop_twice" \in PlayerHabits \/ (AllIdle /\ to_stop))
  /\ to_stop' = FALSE
  /\ player' = IF player = "idle" THEN "idle" ELSE "stopped"
  /\ doing' = [doing EXCEPT ![t] = IF source_fd = NULL THEN Nothing
                 ELSE [Nothing EXCEPT !.pc = "closing", !.fd = source_fd]]
  /\ UNCHANGED <<cb, context, source_fd, fds>>

\* source_fd keeps the number.
CloseSource(t) ==
  /\ doing[t].pc = "closing"
  /\ fds' = [fds EXCEPT ![doing[t].fd] = "free"]
  /\ Done(t)
  /\ UNCHANGED <<player, cb, context, source_fd, to_stop>>

\* The rest of the program opens and closes files too.
OthersFiles ==
  /\ \E f \in Fd : \/ fds[f] = "free"  /\ fds' = [fds EXCEPT ![f] = "other"]
                   \/ fds[f] = "other" /\ fds' = [fds EXCEPT ![f] = "free"]
  /\ UNCHANGED <<player, cb, context, source_fd, doing, to_stop>>

-----------------------------------------------------------------------------
(* play, pause, and playing to the end; seeking, asking for positions and    *)
(* volumes leave all this alone.                                             *)

Plays(from, to) ==
  /\ player \in from /\ player' = to
  /\ UNCHANGED <<cb, context, source_fd, fds, doing, to_stop>>

android_media_play  == Plays({"prepared", "paused"}, "started")
android_media_pause == Plays({"started"}, "paused")

-----------------------------------------------------------------------------

PlayerStep(a) == SetContext(a) \/ CallBack(a) \/ CalledBack(a) \/ SetSource(a) \/ CloseSource(a)

PlayerNext ==
  \/ android_media_new_player
  \/ \E t \in Thread : \/ \E s \in Slot, c \in Callback : SetCallback(t, s, c)
                       \/ \E f \in Fd : OpenSource(t, f)
                       \/ android_media_stop(t)
  \/ \E b \in Binder, s \in Slot : Notify(b, s)
  \/ \E a \in Actor : PlayerStep(a)
  \/ OthersFiles
  \/ android_media_play \/ android_media_pause

PlayerSpec == PlayerInit /\ [][PlayerNext]_playerVars

-----------------------------------------------------------------------------
(* Properties.                                                             *)

\* A callback is called with the context it was set with.
CallbackOwnContext == \A b \in Binder : doing[b].pc = "called" => doing[b].context = doing[b].cb

\* The player closes no descriptor of the rest of the program: stop leaves a
\* number in source_fd that may be anybody's by the time it is used again.
ForeignFdsSafe ==
  [][\A t \in Thread, f \in Fd :
       doing[t].pc = "closing" /\ doing[t].fd = f /\ doing'[t] = Nothing => fds[f] # "other"]_playerVars

\* No source is lost: a descriptor the player opened is the one stop will
\* close, or in the hands of a call that will record or close it.
SourcesKept == \A f \in Fd : fds[f] = "player" => f = source_fd \/ f \in InHand
=============================================================================
