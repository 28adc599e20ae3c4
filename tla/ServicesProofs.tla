---------------------------- MODULE ServicesProofs ----------------------------
(***************************************************************************)
(* Proofs about the compatibility layers, each for any number of threads,  *)
(* surfaces, descriptors, callbacks, events and parameters.                *)
(***************************************************************************)
EXTENDS Camera, Player, InputStack, Display, TLAPS

(***************************************************************************)
(* SurfaceFlinger.  Android's count of open transactions is the program's   *)
(* and that of the surface being made; what was set and is not shown waits *)
(* for one of them.                                                        *)
(***************************************************************************)
DisplayInv ==
  /\ DisplayTypeOK
  /\ transactions = begun + IF making = NULL THEN 0 ELSE 1
  /\ transactions = 0 => shown = wanted
  /\ client = {} => making = NULL

LEMMA DisplayInitially == ASSUME DisplayInit PROVE DisplayInv
  BY DisplayAssumption DEF DisplayInit, DisplayInv, DisplayTypeOK

LEMMA SurfacesKeep ==
  ASSUME DisplayInv, NEW s \in Surface, NEW p \in Place,
         MakeSurface(s) \/ sf_surface_make_current(s) \/ PlaceSurface(p) \/ SetPlace(s, p)
  PROVE  DisplayInv'
<1>1. CASE MakeSurface(s)
  BY <1>1, DisplayAssumption DEF DisplayInv, DisplayTypeOK, MakeSurface, HasClient, Open, SurfacePart
<1>2. CASE sf_surface_make_current(s)
  BY <1>2 DEF DisplayInv, DisplayTypeOK, sf_surface_make_current, placeVars
<1>3. CASE PlaceSurface(p)
  <2>1. making \in Surface /\ transactions = begun + 1  BY <1>3 DEF DisplayInv, DisplayTypeOK, PlaceSurface
  <2>2. wanted' \in [Surface -> Place] /\ transactions' = begun  BY <1>3, <2>1 DEF DisplayInv, DisplayTypeOK, PlaceSurface
  <2>3. surfaces' \in [Surface -> SUBSET SurfacePart]
    BY <1>3, <2>1 DEF DisplayInv, DisplayTypeOK, PlaceSurface, SurfacePart
  <2> QED  BY <1>3, <2>1, <2>2, <2>3 DEF DisplayInv, DisplayTypeOK, PlaceSurface
<1>4. CASE SetPlace(s, p)
  BY <1>4 DEF DisplayInv, DisplayTypeOK, SetPlace, HasClient
<1> QED  BY <1>1, <1>2, <1>3, <1>4

LEMMA ClientKeeps ==
  ASSUME DisplayInv,
         \/ \E egl_support \in BOOLEAN : sf_client_create_full(egl_support)
         \/ sf_client_begin_transaction \/ sf_client_end_transaction
         \/ \E d \in {0, 1} : sf_blank(d) \/ sf_unblank(d)
         \/ UNCHANGED displayVars
  PROVE  DisplayInv'
<1>1. ASSUME NEW egl_support \in BOOLEAN, sf_client_create_full(egl_support) PROVE DisplayInv'
  <2>1. client' \subseteq Part /\ handed_out' \subseteq Surface \cup {"client"}
    BY <1>1 DEF DisplayInv, DisplayTypeOK, sf_client_create_full, Made, ClientParts, Part
  <2>2. client = {}  BY <1>1 DEF sf_client_create_full
  <2> QED  BY <1>1, <2>1, <2>2 DEF DisplayInv, DisplayTypeOK, sf_client_create_full, placeVars
<1>2. CASE sf_client_begin_transaction
  BY <1>2 DEF DisplayInv, DisplayTypeOK, sf_client_begin_transaction, HasClient, Open
<1>3. CASE sf_client_end_transaction
  BY <1>3 DEF DisplayInv, DisplayTypeOK, sf_client_end_transaction, HasClient, Close
<1>4. ASSUME NEW d \in {0, 1}, sf_blank(d) \/ sf_unblank(d) PROVE DisplayInv'
  BY <1>4 DEF DisplayInv, DisplayTypeOK, sf_blank, sf_unblank, placeVars
<1>5. CASE UNCHANGED displayVars
  BY <1>5 DEF DisplayInv, DisplayTypeOK, displayVars
<1> QED  BY <1>1, <1>2, <1>3, <1>4, <1>5

\* However the transactions of sf_surface_create nest in those of the program,
\* every surface is shown where it was put when the program has none open.
THEOREM PlacesAreShown == DisplaySpec => []PlacesShown
<1>1. DisplayInit => DisplayInv
  BY DisplayInitially
<1>2. ASSUME DisplayInv, [DisplayNext]_displayVars PROVE DisplayInv'
  <2>1. ASSUME NEW s \in Surface, MakeSurface(s) \/ sf_surface_make_current(s) PROVE DisplayInv'
    BY <1>2, <2>1, SurfacesKeep, DisplayAssumption
  <2>2. ASSUME NEW p \in Place, PlaceSurface(p) PROVE DisplayInv'
    <3>1. making \in Surface  BY <1>2, <2>2 DEF DisplayInv, DisplayTypeOK, PlaceSurface
    <3> QED  BY <1>2, <2>2, <3>1, SurfacesKeep
  <2>3. ASSUME NEW p \in Place, NEW s \in Surface, SetPlace(s, p) PROVE DisplayInv'
    BY <1>2, <2>3, SurfacesKeep
  <2> QED  BY <1>2, <2>1, <2>2, <2>3, ClientKeeps DEF DisplayNext
<1>3. DisplayInv => PlacesShown
  BY DEF DisplayInv, DisplayTypeOK, PlacesShown
<1> QED  BY <1>1, <1>2, <1>3, PTL DEF DisplaySpec

-----------------------------------------------------------------------------
(***************************************************************************)
(* The media player, for clients that set their callbacks before there is  *)
(* a source, and stop each source once.                                    *)
(***************************************************************************)

\* One thread at a time is in a call that has steps, binder threads call back.
OneInCall ==
  /\ \A t \in Thread : doing[t].pc \in {"idle", "context", "opened", "closing"}
  /\ \A t, u \in Thread : doing[t].pc # "idle" /\ doing[u].pc # "idle" => t = u
  /\ \A b \in Binder : doing[b].pc \in {"idle", "calling", "called"}
  /\ \A a \in Actor : doing[a].pc = "idle" => doing[a] = Nothing

\* A slot's two words agree unless a thread is between them; then no message is
\* on its way, nor any binder thread in a callback.
WordsAgree ==
  /\ \A t \in Thread : doing[t].pc = "context" =>
       doing[t].slot \in Slot /\ player = "idle" /\ cb[doing[t].slot] = doing[t].cb /\ doing[t].fd = NULL
  /\ \A s \in Slot : cb[s] = context[s] \/ \E t \in Thread : doing[t].pc = "context" /\ doing[t].slot = s
  /\ \A b \in Binder : doing[b].pc # "idle" =>
       Sending /\ doing[b].slot \in Slot /\ doing[b].cb = cb[doing[b].slot]
  /\ \A b \in Binder : doing[b].pc = "called" => doing[b].context = doing[b].cb

\* The player's descriptors are the source that is to be stopped, and one in the
\* hands of a thread that opened or closes it.
SourceOwned ==
  /\ to_stop => Sending /\ source_fd # NULL /\ fds[source_fd] = "player" /\ \A t \in Thread : doing[t].pc = "idle"
  /\ \A t \in Thread : doing[t].pc \in {"opened", "closing"} =>
       doing[t].fd # NULL /\ fds[doing[t].fd] = "player"
  /\ \A f \in Fd : fds[f] = "player" =>
       (to_stop /\ f = source_fd) \/ \E t \in Thread : doing[t].pc \in {"opened", "closing"} /\ doing[t].fd = f

PlayerInv == PlayerTypeOK /\ OneInCall /\ WordsAgree /\ SourceOwned

LEMMA PlayerInitially == ASSUME PlayerInit PROVE PlayerInv
  BY PlayerAssumption DEF PlayerInit, PlayerInv, PlayerTypeOK, OneInCall, WordsAgree, SourceOwned,
     Nothing, Doing, Actor, Playing

\* A callback is set while no message can be on its way.
LEMMA SetCallbackKeeps ==
  ASSUME PlayerHabits = {}, PlayerInv, NEW t \in Thread, NEW s \in Slot, NEW c \in Callback, SetCallback(t, s, c)
  PROVE  PlayerInv'
<1> USE ClientsAssumption, PlayerAssumption DEF PlayerInv, Actor
<1>1. PlayerTypeOK'
  BY DEF PlayerTypeOK, OneInCall, WordsAgree, SourceOwned, SetCallback, Idle, AllIdle, Sending, Doing, Nothing, Playing
<1>2. OneInCall'
  BY DEF PlayerTypeOK, OneInCall, WordsAgree, SourceOwned, SetCallback, Idle, AllIdle, Sending, Nothing, Doing
<1>3. WordsAgree'
  BY DEF PlayerTypeOK, OneInCall, WordsAgree, SourceOwned, SetCallback, Idle, AllIdle, Sending, Nothing, Doing
<1>4. SourceOwned'
  BY DEF PlayerTypeOK, OneInCall, WordsAgree, SourceOwned, SetCallback, Idle, AllIdle, Sending, Nothing, Doing
<1> QED  BY <1>1, <1>2, <1>3, <1>4

\* The slot gets its second word.
LEMMA SetContextKeeps ==
  ASSUME PlayerHabits = {}, PlayerInv, NEW t \in Actor, SetContext(t)
  PROVE  PlayerInv'
<1> USE ClientsAssumption, PlayerAssumption DEF PlayerInv, Actor
<1>1. PlayerTypeOK'
  BY DEF PlayerTypeOK, OneInCall, WordsAgree, SourceOwned, SetContext, Done, Sending, Doing, Nothing, Playing
<1>2. OneInCall'
  BY DEF PlayerTypeOK, OneInCall, WordsAgree, SourceOwned, SetContext, Done, Sending, Nothing, Doing
<1>3. WordsAgree'
  BY DEF PlayerTypeOK, OneInCall, WordsAgree, SourceOwned, SetContext, Done, Sending, Nothing, Doing
<1>4. SourceOwned'
  BY DEF PlayerTypeOK, OneInCall, WordsAgree, SourceOwned, SetContext, Done, Sending, Nothing, Doing
<1> QED  BY <1>1, <1>2, <1>3, <1>4

\* A binder thread reads a callback of which both words are set.
LEMMA NotifyKeeps ==
  ASSUME PlayerHabits = {}, PlayerInv, NEW b \in Binder, NEW s \in Slot, Notify(b, s)
  PROVE  PlayerInv'
<1> USE ClientsAssumption, PlayerAssumption DEF PlayerInv, Actor
<1>1. PlayerTypeOK'
  BY DEF PlayerTypeOK, OneInCall, WordsAgree, SourceOwned, Notify, Sending, Doing, Nothing, Playing
<1>2. OneInCall'
  BY DEF PlayerTypeOK, OneInCall, WordsAgree, SourceOwned, Notify, Sending, Nothing, Doing
<1>3. WordsAgree'
  BY DEF PlayerTypeOK, OneInCall, WordsAgree, SourceOwned, Notify, Sending, Nothing, Doing
<1>4. SourceOwned'
  BY DEF PlayerTypeOK, OneInCall, WordsAgree, SourceOwned, Notify, Sending, Nothing, Doing
<1> QED  BY <1>1, <1>2, <1>3, <1>4

\* It reads the context of the same slot, which nobody changes.
LEMMA CallBackKeeps ==
  ASSUME PlayerHabits = {}, PlayerInv, NEW b \in Actor, CallBack(b)
  PROVE  PlayerInv'
<1> USE ClientsAssumption, PlayerAssumption DEF PlayerInv, Actor
<1>1. PlayerTypeOK'
  BY DEF PlayerTypeOK, OneInCall, WordsAgree, SourceOwned, CallBack, Sending, Doing, Nothing, Playing
<1>2. OneInCall'
  BY DEF PlayerTypeOK, OneInCall, WordsAgree, SourceOwned, CallBack, Sending, Nothing, Doing
<1>3. WordsAgree'
  BY DEF PlayerTypeOK, OneInCall, WordsAgree, SourceOwned, CallBack, Sending, Nothing, Doing
<1>4. SourceOwned'
  BY DEF PlayerTypeOK, OneInCall, WordsAgree, SourceOwned, CallBack, Sending, Nothing, Doing
<1> QED  BY <1>1, <1>2, <1>3, <1>4

\* And is done.
LEMMA CalledBackKeeps ==
  ASSUME PlayerHabits = {}, PlayerInv, NEW b \in Actor, CalledBack(b)
  PROVE  PlayerInv'
<1> USE ClientsAssumption, PlayerAssumption DEF PlayerInv, Actor
<1>1. PlayerTypeOK'
  BY DEF PlayerTypeOK, OneInCall, WordsAgree, SourceOwned, CalledBack, Done, Sending, Doing, Nothing, Playing
<1>2. OneInCall'
  BY DEF PlayerTypeOK, OneInCall, WordsAgree, SourceOwned, CalledBack, Done, Sending, Nothing, Doing
<1>3. WordsAgree'
  BY DEF PlayerTypeOK, OneInCall, WordsAgree, SourceOwned, CalledBack, Done, Sending, Nothing, Doing
<1>4. SourceOwned'
  BY DEF PlayerTypeOK, OneInCall, WordsAgree, SourceOwned, CalledBack, Done, Sending, Nothing, Doing
<1> QED  BY <1>1, <1>2, <1>3, <1>4

\* The program opens a source when it has none to stop.
LEMMA OpenSourceKeeps ==
  ASSUME PlayerHabits = {}, PlayerInv, NEW t \in Thread, NEW f \in Fd, OpenSource(t, f)
  PROVE  PlayerInv'
<1> USE ClientsAssumption, PlayerAssumption DEF PlayerInv, Actor
<1>1. PlayerTypeOK'
  BY DEF PlayerTypeOK, OneInCall, WordsAgree, SourceOwned, OpenSource, Idle, AllIdle, Sending, Doing, Nothing, Playing
<1>2. OneInCall'
  BY DEF PlayerTypeOK, OneInCall, WordsAgree, SourceOwned, OpenSource, Idle, AllIdle, Sending, Nothing, Doing
<1>3. WordsAgree'
  BY DEF PlayerTypeOK, OneInCall, WordsAgree, SourceOwned, OpenSource, Idle, AllIdle, Sending, Nothing, Doing
<1>4. SourceOwned'
  BY DEF PlayerTypeOK, OneInCall, WordsAgree, SourceOwned, OpenSource, Idle, AllIdle, Sending, Nothing, Doing
<1> QED  BY <1>1, <1>2, <1>3, <1>4

\* The source is recorded, and now to be stopped.
LEMMA SetSourceKeeps ==
  ASSUME PlayerHabits = {}, PlayerInv, NEW t \in Actor, SetSource(t)
  PROVE  PlayerInv'
<1> USE ClientsAssumption, PlayerAssumption DEF PlayerInv, Actor
<1>1. PlayerTypeOK'
  BY DEF PlayerTypeOK, OneInCall, WordsAgree, SourceOwned, SetSource, Done, Sending, Doing, Nothing, Playing
<1>2. OneInCall'
  BY DEF PlayerTypeOK, OneInCall, WordsAgree, SourceOwned, SetSource, Done, Sending, Nothing, Doing
<1>3. WordsAgree'
  BY DEF PlayerTypeOK, OneInCall, WordsAgree, SourceOwned, SetSource, Done, Sending, Nothing, Doing
<1>4. SourceOwned'
  BY DEF PlayerTypeOK, OneInCall, WordsAgree, SourceOwned, SetSource, Done, Sending, Nothing, Doing
<1> QED  BY <1>1, <1>2, <1>3, <1>4

\* The source to be stopped is taken in hand.
LEMMA StopKeeps ==
  ASSUME PlayerHabits = {}, PlayerInv, NEW t \in Thread, android_media_stop(t)
  PROVE  PlayerInv'
<1> USE ClientsAssumption, PlayerAssumption DEF PlayerInv, Actor
<1>1. PlayerTypeOK'
  BY DEF PlayerTypeOK, OneInCall, WordsAgree, SourceOwned, android_media_stop, Idle, AllIdle, Sending, Doing, Nothing, Playing
<1>2. OneInCall'
  BY DEF PlayerTypeOK, OneInCall, WordsAgree, SourceOwned, android_media_stop, Idle, AllIdle, Sending, Nothing, Doing
<1>3. WordsAgree'
  BY DEF PlayerTypeOK, OneInCall, WordsAgree, SourceOwned, android_media_stop, Idle, AllIdle, Sending, Nothing, Doing
<1>4. SourceOwned'
  BY DEF PlayerTypeOK, OneInCall, WordsAgree, SourceOwned, android_media_stop, Idle, AllIdle, Sending, Nothing, Doing
<1> QED  BY <1>1, <1>2, <1>3, <1>4

\* And closed.
LEMMA CloseSourceKeeps ==
  ASSUME PlayerHabits = {}, PlayerInv, NEW t \in Actor, CloseSource(t)
  PROVE  PlayerInv'
<1> USE ClientsAssumption, PlayerAssumption DEF PlayerInv, Actor
<1>1. PlayerTypeOK'
  BY DEF PlayerTypeOK, OneInCall, WordsAgree, SourceOwned, CloseSource, Done, Sending, Doing, Nothing, Playing
<1>2. OneInCall'
  BY DEF PlayerTypeOK, OneInCall, WordsAgree, SourceOwned, CloseSource, Done, Sending, Nothing, Doing
<1>3. WordsAgree'
  BY DEF PlayerTypeOK, OneInCall, WordsAgree, SourceOwned, CloseSource, Done, Sending, Nothing, Doing
<1>4. SourceOwned'
  BY DEF PlayerTypeOK, OneInCall, WordsAgree, SourceOwned, CloseSource, Done, Sending, Nothing, Doing
<1> QED  BY <1>1, <1>2, <1>3, <1>4

\* The rest of the program uses descriptors that are not the player's.
LEMMA OthersFilesKeep == ASSUME PlayerInv, OthersFiles PROVE PlayerInv'
<1>1. PlayerTypeOK' /\ OneInCall' /\ WordsAgree'
  BY DEF PlayerInv, PlayerTypeOK, OneInCall, WordsAgree, Sending, OthersFiles
<1>2. PICK f \in Fd : fds[f] # "player" /\ \E o \in {"free", "other"} : fds' = [fds EXCEPT ![f] = o]
  BY DEF OthersFiles
<1>3. \A g \in Fd : fds[g] = "player" <=> fds'[g] = "player"
  BY <1>2 DEF PlayerInv, PlayerTypeOK
<1>4. \A t \in Thread : doing[t].fd \in Fd \cup {NULL}
  BY DEF PlayerInv, PlayerTypeOK, Doing, Actor
<1>5. SourceOwned'
  BY <1>3, <1>4 DEF PlayerInv, PlayerTypeOK, SourceOwned, Sending, OthersFiles
<1> QED  BY <1>1, <1>5 DEF PlayerInv

\* What changes nothing but how far the player is.
LEMMA PlaysKeep ==
  ASSUME PlayerInv, \/ android_media_new_player \/ android_media_play \/ android_media_pause
                    \/ UNCHANGED playerVars
  PROVE  PlayerInv'
<1>1. /\ UNCHANGED <<cb, context, source_fd, fds, doing, to_stop>>
      /\ player' \in Playing \cup {"none"} /\ (player = "idle" => player' = "idle") /\ (Sending => Sending')
  BY DEF android_media_new_player, android_media_play, android_media_pause, Plays, playerVars, Playing,
         Sending, PlayerInv, PlayerTypeOK
<1>2. PlayerTypeOK' /\ OneInCall'  BY <1>1 DEF PlayerInv, PlayerTypeOK, OneInCall
<1>3. WordsAgree'  BY <1>1 DEF PlayerInv, WordsAgree
<1>4. SourceOwned'  BY <1>1 DEF PlayerInv, SourceOwned
<1> QED  BY <1>2, <1>3, <1>4 DEF PlayerInv

LEMMA PlayerNextKeeps == ASSUME PlayerHabits = {}, PlayerInv, [PlayerNext]_playerVars PROVE PlayerInv'
<1>1. ASSUME NEW t \in Thread, NEW s \in Slot, NEW c \in Callback, SetCallback(t, s, c) PROVE PlayerInv'
  BY <1>1, SetCallbackKeeps
<1>2. ASSUME NEW t \in Thread, NEW f \in Fd, OpenSource(t, f) PROVE PlayerInv'
  BY <1>2, OpenSourceKeeps
<1>3. ASSUME NEW t \in Thread, android_media_stop(t) PROVE PlayerInv'
  BY <1>3, StopKeeps
<1>4. ASSUME NEW b \in Binder, NEW s \in Slot, Notify(b, s) PROVE PlayerInv'
  BY <1>4, NotifyKeeps
<1>5. ASSUME NEW a \in Actor, PlayerStep(a) PROVE PlayerInv'
  BY <1>5, SetContextKeeps, CallBackKeeps, CalledBackKeeps, SetSourceKeeps, CloseSourceKeeps DEF PlayerStep
<1> QED  BY <1>1, <1>2, <1>3, <1>4, <1>5, OthersFilesKeep, PlaysKeep DEF PlayerNext

\* The invariant of the player, for orderly clients.
LEMMA PlayerInvariant == ASSUME PlayerHabits = {} PROVE PlayerSpec => []PlayerInv
<1>1. PlayerInit => PlayerInv  BY PlayerInitially
<1>2. PlayerInv /\ [PlayerNext]_playerVars => PlayerInv'  BY PlayerNextKeeps
<1> QED  BY <1>1, <1>2, PTL DEF PlayerSpec

\* A callback is called with the context it was set with, though nothing guards
\* the two words.
THEOREM CallbacksGetOwnContext == ASSUME PlayerHabits = {} PROVE PlayerSpec => []CallbackOwnContext
<1>1. PlayerInv => CallbackOwnContext  BY DEF PlayerInv, WordsAgree, CallbackOwnContext
<1> QED  BY <1>1, PlayerInvariant, PTL

\* No descriptor of a source is lost.
THEOREM SourcesAreKept == ASSUME PlayerHabits = {} PROVE PlayerSpec => []SourcesKept
<1>1. ASSUME PlayerInv, NEW f \in Fd, fds[f] = "player" PROVE f = source_fd \/ f \in InHand
  BY <1>1, PlayerAssumption DEF PlayerInv, SourceOwned, InHand
<1>2. PlayerInv => SourcesKept  BY <1>1 DEF SourcesKept
<1> QED  BY <1>2, PlayerInvariant, PTL

\* The player closes nobody else's descriptor.
THEOREM ForeignFdsAreSafe == ASSUME PlayerHabits = {} PROVE PlayerSpec => ForeignFdsSafe
<1>1. PlayerInv =>
        \A t \in Thread, f \in Fd :
          doing[t].pc = "closing" /\ doing[t].fd = f /\ doing'[t] = Nothing => fds[f] # "other"
  BY DEF PlayerInv, SourceOwned
<1>2. PlayerInv /\ [PlayerNext]_playerVars =>
        [\A t \in Thread, f \in Fd :
          doing[t].pc = "closing" /\ doing[t].fd = f /\ doing'[t] = Nothing => fds[f] # "other"]_playerVars
  BY <1>1
<1> QED  BY <1>2, PlayerInvariant, PTL DEF PlayerSpec, ForeignFdsSafe

-----------------------------------------------------------------------------
(***************************************************************************)
(* The input stack.  Whoever runs loopOnce is alone in it: a program that  *)
(* reads by itself has not started, and then there is no reader.           *)
(***************************************************************************)
NoReader == reader \in {"none", "exited"}

InputInv ==
  /\ InputTypeOK
  /\ global_state = "null" => ~started
  /\ NoReader => reading[READER] = NotReading
  /\ ~started => NoReader
  /\ \A t \in Thread : reading[t] # NotReading =>
       /\ ~started
       /\ \A u \in Thread : program[u] = "idle" /\ (u # t => reading[u] = NotReading)
  /\ \A s \in Source : reading[s].pc = "idle" => reading[s] = NotReading
  /\ \A s \in Source : reading[s].pc # "idle" /\ reading[s].kind # "switch" => Whole(s)

LEMMA InputInitially == ASSUME InputInit PROVE InputInv
<1>1. InputTypeOK
  <2>1. NoEvent \in Event /\ NotReading \in Reading  BY DEF NoEvent, Event, NotReading, Reading
  <2>2. 0 \in 0..MaxLoopers  BY InputAssumption
  <2> QED  BY <2>1, <2>2 DEF InputInit, InputTypeOK
<1>2. \A r \in Source : reading[r] = NotReading /\ reading[r].pc = "idle"
  BY DEF InputInit, NotReading
<1> QED  BY <1>1, <1>2 DEF InputInit, InputInv, NoReader, Source

\* Only one source reads at a time.
LEMMA AloneInLoop ==
  ASSUME InputInv, NEW s \in Source, NEW r \in Source, reading[s] # NotReading, reading[r] # NotReading
  PROVE  s = r
  BY InputAssumption, ClientsAssumption DEF InputInv, Source, Actor

\* The reader and the program's own reading.
LEMMA ReadKeeps ==
  ASSUME InputInv, NEW s \in Source, NEW k \in Kind, NEW e \in EventId, ReadEvent(s, k, e)
  PROVE  InputInv'
<1> USE InputAssumption, ClientsAssumption DEF Source, Actor
<1>1. current_event' = Fills(k, e) /\ reading[s] = NotReading
      /\ reading' = [reading EXCEPT ![s] = [pc |-> "filled", kind |-> k, id |-> e]]
      /\ UNCHANGED <<global_state, reader, looper, loopers, flag, program, started>>
  BY DEF ReadEvent, MayRead, threadVars
<1>2. \A r \in Source : r # s => reading[r] = NotReading
  BY AloneInLoop DEF ReadEvent, MayRead, ProgramIdle, InputInv, NoReader
<1>3. InputTypeOK'
  BY <1>1 DEF InputInv, InputTypeOK, Fills, Event, Reading
<1>4. \A r \in Source : /\ reading'[r].pc = "idle" => reading'[r] = NotReading
                        /\ reading'[r].pc # "idle" /\ reading'[r].kind # "switch" => Whole(r)'
  BY <1>1, <1>2 DEF InputInv, InputTypeOK, NotReading, Whole, Fills
<1>5. (NoReader => reading[READER] = NotReading)'
  BY <1>1 DEF InputInv, InputTypeOK, ReadEvent, MayRead, NoReader
<1>6. (\A t \in Thread : reading[t] # NotReading =>
        ~started /\ \A u \in Thread : program[u] = "idle" /\ (u # t => reading[u] = NotReading))'
  BY <1>1, <1>2 DEF InputInv, InputTypeOK, ReadEvent, MayRead, ProgramIdle
<1> QED  BY <1>1, <1>3, <1>4, <1>5, <1>6 DEF InputInv, NoReader

LEMMA HandleKeeps ==
  ASSUME InputInv, NEW s \in Source, on_new_event(s) \/ EventHandled(s)
  PROVE  InputInv'
<1> USE InputAssumption, ClientsAssumption DEF Source, Actor
<1>1. /\ UNCHANGED <<global_state, reader, looper, loopers, current_event, flag, program, started>>
      /\ reading[s] # NotReading
      /\ reading' = [reading EXCEPT ![s] = reading'[s]] /\ reading'[s] \in Reading
      /\ reading'[s] = NotReading \/ /\ reading'[s].pc # "idle" /\ reading'[s].kind = reading[s].kind
                                     /\ reading'[s].id = reading[s].id
  BY DEF on_new_event, EventHandled, threadVars, NotReading, Reading, InputInv, InputTypeOK
<1>2. \A r \in Source : r # s => reading[r] = NotReading /\ reading'[r] = NotReading
  BY <1>1, AloneInLoop DEF InputInv, InputTypeOK
<1>3. InputTypeOK'  BY <1>1 DEF InputInv, InputTypeOK
<1>4. \A r \in Source : /\ reading'[r].pc = "idle" => reading'[r] = NotReading
                        /\ reading'[r].pc # "idle" /\ reading'[r].kind # "switch" => Whole(r)'
  <2>1. CASE reading'[s] = NotReading  BY <1>2, <2>1 DEF NotReading
  <2>2. CASE reading'[s].pc # "idle" /\ reading'[s].kind = reading[s].kind /\ reading'[s].id = reading[s].id
    <3>1. reading[s].pc # "idle"  BY <1>1 DEF InputInv
    <3> QED  BY <1>1, <1>2, <2>2, <3>1 DEF InputInv, NotReading, Whole
  <2> QED  BY <1>1, <2>1, <2>2
<1>5. (NoReader => reading[READER] = NotReading)'
  BY <1>1, <1>2 DEF InputInv, NoReader
<1>6. (\A t \in Thread : reading[t] # NotReading =>
        ~started /\ \A u \in Thread : program[u] = "idle" /\ (u # t => reading[u] = NotReading))'
  BY <1>1, <1>2 DEF InputInv
<1> QED  BY <1>1, <1>3, <1>4, <1>5, <1>6 DEF InputInv, NoReader

\* The program's calls, and the reader's exit.
LEMMA ProgramKeeps ==
  ASSUME InputInv,
         \/ android_input_stack_initialize \/ ReaderExits \/ SetFlag \/ UNCHANGED inputVars
         \/ \E t \in Thread : \/ android_input_stack_start(t)
                              \/ android_input_stack_start_waiting_for_flag(t)
                              \/ WaiterPolls(t) \/ ExitSeen(t)
                              \/ RequestExit(t, "stopping") \/ RequestExit(t, "shutting_down")
  PROVE  InputInv'
<1> USE InputAssumption, ClientsAssumption DEF Source, Actor, InputInv, InputTypeOK, NoReader, Whole, threadVars
<1>1. CASE android_input_stack_initialize  BY <1>1 DEF android_input_stack_initialize
<1>2. CASE ReaderExits  BY <1>2 DEF ReaderExits
<1>3. CASE SetFlag  BY <1>3 DEF SetFlag
<1>4. CASE UNCHANGED inputVars  BY <1>4 DEF inputVars
<1>5. ASSUME NEW t \in Thread, android_input_stack_start(t) PROVE InputInv'
  BY <1>5 DEF android_input_stack_start, StartThreads, Calls, ProgramIdle
<1>6. ASSUME NEW t \in Thread, android_input_stack_start_waiting_for_flag(t) PROVE InputInv'
  BY <1>6 DEF android_input_stack_start_waiting_for_flag, StartThreads, Calls, ProgramIdle
<1>7. ASSUME NEW t \in Thread, WaiterPolls(t) PROVE InputInv'
  BY <1>7 DEF WaiterPolls
<1>8. ASSUME NEW t \in Thread, ExitSeen(t) PROVE InputInv'
  BY <1>8 DEF ExitSeen
<1>9. ASSUME NEW t \in Thread, NEW why \in {"stopping", "shutting_down"}, RequestExit(t, why) PROVE InputInv'
  BY <1>9 DEF RequestExit, Calls, ProgramIdle
<1> QED  BY <1>1, <1>2, <1>3, <1>4, <1>5, <1>6, <1>7, <1>8, <1>9

LEMMA InputInvariant == InputSpec => []InputInv
<1>1. InputInit => InputInv  BY InputInitially
<1>2. InputInv /\ [InputNext]_inputVars => InputInv'
  BY ReadKeeps, HandleKeeps, ProgramKeeps DEF InputNext
<1> QED  BY <1>1, <1>2, PTL DEF InputSpec

\* The program's callback sees the event it is called for: no two threads fill
\* the one place where events are put.
THEOREM EventsAreWhole == InputSpec => []EventWhole
<1>1. InputInv => EventWhole  BY DEF InputInv, EventWhole
<1> QED  BY <1>1, InputInvariant, PTL

\* Stop and shutdown return when the reader has gone.
THEOREM StopsAreQuiet == InputSpec => []StopsQuiet
<1>1. InputInv => StopsQuiet  BY DEF InputInv, StopsQuiet, NoReader
<1> QED  BY <1>1, InputInvariant, PTL

-----------------------------------------------------------------------------
(***************************************************************************)
(* The camera's parameters.  Whoever holds the guard is in the body of a   *)
(* call; in that of a setter it will send control's copy as it is now.     *)
(***************************************************************************)
GuardedOp == {"set", "enumerate", "stop_preview"}

GuardHeld ==
  /\ \A a \in Actor : call[a].pc = "body" => guard = a
  /\ guard # NoThread => call[guard].pc = "body" /\ call[guard].op \in GuardedOp
  /\ \A a \in Actor : call[a].pc = "idle" => call[a] = NoCall
  /\ \A a \in Actor : call[a].pc = "guard" => call[a].op = "start_preview"
  /\ \A a \in Actor : call[a].pc = "listen" => preview_texture \in Texture

InSet == \E a \in Actor : Holding(a, "set")

CopySent ==
  /\ \A a \in Actor : Holding(a, "set") => call[a].flat = camera_parameters
  /\ device.connected /\ ~InSet => device.missed \/ camera_parameters = device.params
  /\ control = "none" => ~device.connected /\ guard = NoThread

CameraInv == CameraTypeOK /\ GuardHeld /\ CopySent

LEMMA CameraInitially == ASSUME CameraInit PROVE CameraInv
  BY CameraAssumption, ClientsAssumption
  DEF CameraInit, CameraInv, CameraTypeOK, GuardHeld, InSet, CopySent, Holding, NoCall, Call, Device, Fresh,
      Setting, Actor

\* The steps that enter a guarded call.
LEMMA EnterKeeps ==
  ASSUME CameraInv, NEW a \in Thread, NEW op \in GuardedOp, NEW p \in Setting \cup {NULL},
         MayEnter(a, op), Enter(a, op, p),
         op = "set" => camera_parameters' = p /\ p \in Setting,
         op # "set" => UNCHANGED camera_parameters,
         UNCHANGED <<control, preview_texture, device, inbox, recorder, use>>,
         flash_mode' \in {NULL, "current", "dangling"},
         textures' \in [made : SUBSET Texture, heard : SUBSET Texture, abandoned : SUBSET Texture]
  PROVE  CameraInv'
<1> USE ClientsAssumption DEF Actor, CameraInv, GuardedOp
<1>1. guard = NoThread /\ control = "live" /\ \A b \in Actor : call[b].pc # "body"
  BY DEF MayEnter, MayStart, GuardHeld, CameraTypeOK
<1>2. call' = [call EXCEPT ![a] = [pc |-> "body", op |-> op, flat |-> p]] /\ guard' = a
  BY DEF Enter
<1>3. CameraTypeOK'
  <2>1. op \in Op /\ a \in Actor  BY DEF Op, Command
  <2> QED  BY <1>2, <2>1 DEF CameraTypeOK, Call
<1>4. GuardHeld'  BY <1>1, <1>2 DEF GuardHeld, CameraTypeOK
<1>5. /\ \A b \in Actor : b # a => ~Holding(b, "set")'
      /\ \A b \in Actor : ~Holding(b, "set")
      /\ Holding(a, "set")' <=> op = "set"
      /\ call'[a].flat = p
  BY <1>1, <1>2 DEF Holding, CameraTypeOK
<1>6. CopySent'  BY <1>1, <1>5 DEF CopySent, InSet
<1> QED  BY <1>3, <1>4, <1>6

\* Everything that leaves the parameters, and who holds the guard, alone.
LEMMA BesidesKeeps ==
  ASSUME CameraInv, CameraTypeOK', UNCHANGED <<camera_parameters, guard>>,
         control = "none" => control' = "none" \/ ~device'.connected,
         control' = "none" => control = "none",
         device'.connected => device.connected /\ device'.params = device.params /\ device'.missed = device.missed,
         \A a \in Actor : call[a].pc = "body" \/ call'[a].pc = "body" => call'[a] = call[a],
         \A a \in Actor : call'[a].pc = "idle" => call'[a] = NoCall,
         \A a \in Actor : call'[a].pc = "guard" => call'[a].op = "start_preview",
         \A a \in Actor : call'[a].pc = "listen" => preview_texture' \in Texture
  PROVE  CameraInv'
<1>1. GuardHeld'
  BY ClientsAssumption DEF CameraInv, CameraTypeOK, GuardHeld
<1>2. \A a \in Actor : Holding(a, "set")' <=> Holding(a, "set")
  BY DEF Holding
<1>3. \A a \in Actor : Holding(a, "set") => call'[a] = call[a]
  BY DEF Holding
<1>4. CopySent'
  BY <1>2, <1>3 DEF CameraInv, CopySent, InSet
<1> QED  BY <1>1, <1>4 DEF CameraInv

\* The steps that leave a guarded call.
LEMMA LeaveKeeps ==
  ASSUME CameraInv, NEW a \in Actor, SendParameters(a) \/ SizesEnumerated(a) \/ PreviewStopped(a)
  PROVE  CameraInv'
<1> USE ClientsAssumption DEF Actor, CameraInv
<1>1. /\ call[a].pc = "body" /\ guard = a /\ guard' = NoThread
      /\ call' = [call EXCEPT ![a] = NoCall]
      /\ UNCHANGED <<control, camera_parameters, preview_texture, flash_mode, textures, inbox, recorder, use>>
  BY DEF SendParameters, SizesEnumerated, PreviewStopped, Holding, Leave, GuardHeld
<1>2. \A b \in Actor : b # a => call[b].pc # "body"  BY <1>1 DEF GuardHeld
<1>3. Holding(a, "set") => call[a].flat = camera_parameters  BY DEF CopySent
<1>4. \/ UNCHANGED device /\ ~Holding(a, "set")
      \/ device' = [device EXCEPT !.preview = FALSE] /\ ~Holding(a, "set")
      \/ device' = [device EXCEPT !.params = camera_parameters, !.missed = FALSE]
      \/ device' = [device EXCEPT !.missed = TRUE]
  BY <1>3 DEF SendParameters, SizesEnumerated, PreviewStopped, Holding
<1>5. CameraTypeOK'
  BY <1>1, <1>4 DEF CameraTypeOK, Device, Call, NoCall
<1>6. GuardHeld'  BY <1>1, <1>2 DEF GuardHeld, CameraTypeOK, NoCall
<1>7. ~InSet'  BY <1>1, <1>2 DEF InSet, Holding, CameraTypeOK, NoCall
<1>8. ~Holding(a, "set") => ~InSet  BY <1>2 DEF InSet, Holding
<1>9. device'.connected = device.connected
      /\ (device'.connected => device'.missed \/ camera_parameters = device'.params)
  BY <1>4, <1>8 DEF CopySent, CameraTypeOK, Device
<1>10. CopySent'  BY <1>1, <1>7, <1>9 DEF CopySent, InSet, GuardHeld
<1> QED  BY <1>5, <1>6, <1>10

LEMMA ConnectKeeps ==
  ASSUME CameraInv, NEW t \in Thread, android_camera_connect_to(t) PROVE CameraInv'
<1> USE DEF CameraInv, android_camera_connect_to
<1>1. guard = NoThread /\ \A a \in Actor : call[a].pc # "body"
  BY ClientsAssumption DEF CopySent, GuardHeld
<1>2. CameraTypeOK'  BY DEF CameraTypeOK, Device
<1>3. GuardHeld'  BY <1>1 DEF GuardHeld
<1>4. CopySent'  BY <1>1 DEF CopySent, InSet, Holding, CameraTypeOK, Device
<1> QED  BY <1>2, <1>3, <1>4

LEMMA GuardedKeeps ==
  ASSUME CameraInv, NEW t \in Thread,
         \/ \E k \in Key, v \in Value : SetParameter(t, k, v)
         \/ EnumerateSizes(t) \/ android_camera_stop_preview(t)
  PROVE  CameraInv'
<1> USE DEF CameraInv, CameraTypeOK
<1>1. ASSUME NEW k \in Key, NEW v \in Value, SetParameter(t, k, v) PROVE CameraInv'
  <2>1. Changed(k, v) \in Setting  BY DEF Changed, Setting
  <2>2. flash_mode' \in {NULL, "current", "dangling"}  BY <1>1 DEF SetParameter
  <2> QED  BY <1>1, <2>1, <2>2, EnterKeeps DEF SetParameter, GuardedOp
<1>2. CASE EnumerateSizes(t)  BY <1>2, EnterKeeps DEF EnumerateSizes, GuardedOp
<1>3. CASE android_camera_stop_preview(t)
  <2>1. textures' \in [made : SUBSET Texture, heard : SUBSET Texture, abandoned : SUBSET Texture]
    BY <1>3 DEF android_camera_stop_preview
  <2> QED  BY <1>3, <2>1, EnterKeeps DEF android_camera_stop_preview, GuardedOp
<1> QED  BY <1>1, <1>2, <1>3

\* Commands, which nobody sees in the guard, and the getters.
LEMMA PassKeeps ==
  ASSUME CameraInv, NEW a \in Actor,
         \/ \E op \in Command : DeviceCommand(a, op)
         \/ \E k \in Key : GetParameter(a, k)
         \/ android_camera_disconnect(a)
  PROVE  CameraInv'
<1> USE DEF CameraInv
<1>1. /\ guard = NoThread /\ \A b \in Actor : call[b].pc # "body"
  BY ClientsAssumption DEF DeviceCommand, GetParameter, android_camera_disconnect, MayEnter, GuardHeld
<1>2. UNCHANGED <<guard, control, camera_parameters, preview_texture, textures, recorder, use>>
      /\ call' = [call EXCEPT ![a] = NoCall] /\ flash_mode' \in {NULL, "current", "dangling"}
  BY DEF DeviceCommand, GetParameter, android_camera_disconnect, Pass, CameraTypeOK
<1>3. /\ inbox' \subseteq Message /\ device' \in Device
      /\ device'.connected => device.connected /\ device'.params = device.params /\ device'.missed = device.missed
  <2>1. ASSUME NEW op \in Command, DeviceCommand(a, op)
        PROVE  inbox' \subseteq Message /\ device' = Commanded(op)
    BY <2>1 DEF DeviceCommand, CameraTypeOK, Answers, Message
  <2>2. ASSUME NEW op \in Command
        PROVE  /\ Commanded(op) \in Device /\ Commanded(op).connected = device.connected
               /\ Commanded(op).params = device.params /\ Commanded(op).missed = device.missed
    BY DEF CameraTypeOK, Device, Commanded
  <2>3. CASE android_camera_disconnect(a)
    BY <2>3 DEF android_camera_disconnect, CameraTypeOK, Device
  <2>4. CASE \E k \in Key : GetParameter(a, k)  BY <2>4 DEF GetParameter, CameraTypeOK
  <2> QED  BY <2>1, <2>2, <2>3, <2>4
<1>4. CameraTypeOK'  BY <1>2, <1>3 DEF CameraTypeOK, Call, NoCall
<1>5. \A b \in Actor : call'[b].pc # "body" /\ (call'[b] = call[b] \/ call'[b] = NoCall)
  BY <1>1, <1>2 DEF CameraTypeOK, NoCall
<1> QED  BY <1>1, <1>2, <1>3, <1>4, <1>5, BesidesKeeps DEF GuardHeld, CopySent, NoCall

\* The texture and the messages: nothing of this is under the guard.
LEMMA UnguardedKeeps ==
  ASSUME CameraInv, NEW a \in Actor,
         \/ a \in Thread /\ CreateTexture(a)
         \/ ListenToTexture(a) \/ HandTexture(a) \/ ClientCallback(a)
         \/ \E m \in Message : Deliver(a, m)
  PROVE  CameraInv'
<1> USE DEF CameraInv, controlVars
<1> DEFINE Calling ==
      /\ UNCHANGED <<guard, control, camera_parameters, flash_mode, recorder, use>>
      /\ call[a].pc # "body" /\ call' = [call EXCEPT ![a] = call'[a]]
      /\ call'[a] = NoCall \/ (call'[a] \in Call /\ call'[a].pc \in {"listen", "hand", "message", "guard"})
      /\ call'[a].pc = "guard" => call'[a].op = "start_preview"
           Moved ==
      /\ inbox' \subseteq Message /\ preview_texture' \in Texture \cup {NULL} /\ device' \in Device
      /\ textures' \in [made : SUBSET Texture, heard : SUBSET Texture, abandoned : SUBSET Texture]
      /\ device'.connected => device.connected /\ device'.params = device.params /\ device'.missed = device.missed
      /\ UNCHANGED preview_texture \/ preview_texture = NULL
      /\ call'[a].pc = "listen" => preview_texture' # NULL
<1>1. call[a] \in Call /\ "start_preview" \in Op /\ "set_preview_texture" \in Op /\ Message \subseteq Op \cup Message
      /\ device \in Device /\ preview_texture \in Texture \cup {NULL}
  BY DEF CameraTypeOK, Op, Command
<1>2. ASSUME a \in Thread, CreateTexture(a) PROVE Calling /\ Moved
  <2>1. Calling  BY <1>1, <1>2 DEF CreateTexture, MayStart, CameraTypeOK, Call, NoCall
  <2>2. Moved  BY <1>1, <1>2, CameraAssumption DEF CreateTexture, CameraTypeOK
  <2> QED  BY <2>1, <2>2
<1>3. ASSUME ListenToTexture(a) PROVE Calling /\ Moved
  <2>1. Calling  BY <1>1, <1>3 DEF ListenToTexture, CameraTypeOK, Call, NoCall
  <2>2. Moved  BY <1>1, <1>3 DEF ListenToTexture, CameraTypeOK, GuardHeld
  <2> QED  BY <2>1, <2>2
<1>4. ASSUME HandTexture(a) PROVE Calling /\ Moved
  <2>0. call'[a] = NoCall  BY <1>4 DEF HandTexture, CameraTypeOK
  <2>1. Calling
    <3>1. UNCHANGED <<guard, control, camera_parameters, flash_mode, recorder, use>>  BY <1>4 DEF HandTexture
    <3>2. NoCall.pc # "guard" /\ NoCall.pc # "listen"  BY DEF NoCall
    <3>3. call[a].pc # "body" /\ call' = [call EXCEPT ![a] = call'[a]]  BY <1>4, <2>0 DEF HandTexture
    <3> QED  BY <2>0, <3>1, <3>2, <3>3
  <2>2. device' \in Device /\ device'.connected = device.connected
        /\ device'.params = device.params /\ device'.missed = device.missed
    BY <1>1, <1>4 DEF HandTexture, Device
  <2>3. Moved  BY <1>4, <2>0, <2>2 DEF HandTexture, CameraTypeOK, NoCall
  <2> QED  BY <2>1, <2>3
<1>5. ASSUME ClientCallback(a) PROVE Calling /\ Moved
  <2>1. call[a].pc = "message"  BY <1>5 DEF ClientCallback
  <2>2. \/ call'[a] = NoCall /\ call' = [call EXCEPT ![a] = NoCall]
        \/ /\ call'[a] = [call[a] EXCEPT !.pc = "guard", !.op = "start_preview"]
           /\ call' = [call EXCEPT ![a] = call'[a]]
    BY <1>5 DEF ClientCallback, CameraTypeOK
  <2>3. /\ call'[a] = NoCall \/ (call'[a] \in Call /\ call'[a].pc = "guard" /\ call'[a].op = "start_preview")
        /\ call' = [call EXCEPT ![a] = call'[a]]
    BY <1>1, <2>2 DEF Call
  <2>4. Calling
    <3>1. UNCHANGED <<guard, control, camera_parameters, flash_mode, recorder, use>>  BY <1>5 DEF ClientCallback
    <3>2. NoCall.pc # "guard" /\ NoCall.pc # "listen"  BY DEF NoCall
    <3>3. call[a].pc # "body"  BY <2>1
    <3>4. call'[a] = NoCall \/ (call'[a] \in Call /\ call'[a].pc \in {"listen", "hand", "message", "guard"})
      BY <2>3
    <3>5. call'[a].pc = "guard" => call'[a].op = "start_preview"
      BY <2>3, <3>2
    <3> QED  BY <2>3, <3>1, <3>3, <3>4, <3>5
  <2>5. Moved  BY <1>5, <2>3 DEF ClientCallback, CameraTypeOK, NoCall
  <2> QED  BY <2>4, <2>5
<1>6. ASSUME NEW m \in Message, Deliver(a, m) PROVE Calling /\ Moved
  <2>1. Calling /\ call'[a].pc = "message"  BY <1>1, <1>6 DEF Deliver, CameraTypeOK, Call, NoCall
  <2>2. Moved  BY <1>6, <2>1 DEF Deliver, CameraTypeOK
  <2> QED  BY <2>1, <2>2
<1>7. Calling  BY <1>2, <1>3, <1>4, <1>5, <1>6
<1>8. Moved  BY <1>2, <1>3, <1>4, <1>5, <1>6
<1>9. CameraTypeOK'  BY <1>7, <1>8 DEF CameraTypeOK, NoCall, Call
<1>10. \A b \in Actor : b # a => call'[b] = call[b]  BY <1>7 DEF CameraTypeOK
<1>11. \A b \in Actor : /\ call[b].pc = "body" \/ call'[b].pc = "body" => call'[b] = call[b]
                        /\ call'[b].pc = "idle" => call'[b] = NoCall
                        /\ call'[b].pc = "guard" => call'[b].op = "start_preview"
                        /\ call'[b].pc = "listen" => preview_texture' \in Texture
  BY <1>7, <1>8, <1>10, CameraAssumption DEF GuardHeld, NoCall
<1>12. /\ UNCHANGED <<camera_parameters, guard, control>>
       /\ device'.connected => device.connected /\ device'.params = device.params /\ device'.missed = device.missed
  BY <1>7, <1>8
<1> QED  BY <1>9, <1>11, <1>12, BesidesKeeps

LEMMA DeviceKeeps ==
  ASSUME CameraInv,
         \/ DeviceSends \/ android_camera_delete \/ UNCHANGED cameraVars
         \/ android_media_new_recorder \/ android_recorder_setCamera
         \/ android_recorder_start \/ RecorderEnds("idle") \/ RecorderEnds("none")
  PROVE  CameraInv'
<1> USE DEF CameraInv, controlVars
<1>1. /\ UNCHANGED <<guard, camera_parameters, preview_texture, flash_mode, call, textures, use>>
      /\ control' \in {control, "deleted"}
      /\ control' = "deleted" => control # "none"
      /\ inbox' \subseteq Message
      /\ recorder' \in {"none", "idle", "prepared", "recording"}
      /\ \E l \in {"client", "nobody", "recorder"} : device' = [device EXCEPT !.lock = l]
  BY DEF DeviceSends, android_camera_delete, cameraVars, android_media_new_recorder, android_recorder_setCamera,
         android_recorder_start, RecorderEnds, RecorderStep, CameraTypeOK, Device, Message
<1>2. /\ device' \in Device /\ device'.connected = device.connected
      /\ device'.params = device.params /\ device'.missed = device.missed
  BY <1>1 DEF CameraTypeOK, Device
<1>3. CameraTypeOK'  BY <1>1, <1>2 DEF CameraTypeOK
<1> QED  BY <1>1, <1>2, <1>3, BesidesKeeps DEF GuardHeld, CopySent

LEMMA CameraNextKeeps == ASSUME CameraInv, [CameraNext]_cameraVars PROVE CameraInv'
<1>1. ASSUME NEW t \in Thread, android_camera_connect_to(t) \/ CameraCall(t) PROVE CameraInv'
  BY <1>1, ConnectKeeps, GuardedKeeps, PassKeeps, UnguardedKeeps DEF CameraCall, Actor
<1>2. ASSUME NEW a \in Actor, CameraStep(a) PROVE CameraInv'
  BY <1>2, LeaveKeeps, PassKeeps, UnguardedKeeps DEF CameraStep, Command
<1>3. ASSUME NEW b \in Binder, NEW m \in Message, Deliver(b, m) PROVE CameraInv'
  BY <1>3, UnguardedKeeps DEF Actor
<1> QED  BY <1>1, <1>2, <1>3, DeviceKeeps DEF CameraNext

\* What control believes the parameters are and what the device works with stay
\* together, however many threads set them.
THEOREM ParametersStayInStep == CameraSpec => []ParametersInStep
<1>1. CameraInv => ParametersInStep
  BY ClientsAssumption DEF CameraInv, GuardHeld, CopySent, InSet, Holding, ParametersInStep, Actor
<1> QED  BY <1>1, CameraInitially, CameraNextKeeps, PTL DEF CameraSpec

-----------------------------------------------------------------------------
(***************************************************************************)
(* The camera's preview, for clients that start none after they stopped    *)
(* one.                                                                    *)
(***************************************************************************)
Within(a, op) == call[a].op = op /\ call[a].pc # "idle"

\* The one texture there is has its listener when the device gets it.
TextureKept ==
  /\ \A a \in Actor : call[a].pc \in {"listen", "hand"} => call[a].op = "set_preview_texture"
  /\ \A a \in Actor : call[a].pc = "hand" => preview_texture \in textures.heard
  /\ device.target \in Texture => device.target = preview_texture /\ device.target \in textures.heard

\* Whoever is about to start a preview, or to make its texture, can be sure that
\* none was stopped; whoever stops one is obeyed.
StoppedOnce ==
  /\ \A a, b \in Actor : Within(a, "set_preview_texture") \/ Within(a, "start_preview") =>
       textures.abandoned = {} /\ ~Within(b, "stop_preview")
  /\ \A a \in Actor : Within(a, "stop_preview") => call[a].pc = "body" /\ device.lock = "client"
  /\ recorder = "recording" => device.lock = "recorder" /\ device.connected
  /\ device.preview /\ textures.abandoned # {} => Stopping

PreviewInv == TextureKept /\ StoppedOnce

LEMMA PreviewInitially == ASSUME CameraInit PROVE PreviewInv
  BY CameraAssumption DEF CameraInit, PreviewInv, TextureKept, StoppedOnce, NoCall, Within

LEMMA SurfaceIsNoTexture == "surface" \notin Texture
  BY CameraAssumption

\* A call that is not about the preview begins, goes on or ends.
LEMMA OthersKeepPreview ==
  ASSUME CameraInv, CameraInv', PreviewInv, NEW a \in Actor,
         UNCHANGED <<preview_texture, textures, recorder>>,
         call' = [call EXCEPT ![a] = call'[a]],
         ~Within(a, "stop_preview"),
         ~Within(a, "stop_preview")', ~Within(a, "start_preview")', ~Within(a, "set_preview_texture")',
         call'[a].pc \notin {"listen", "hand"},
         device'.lock = device.lock, device'.connected = device.connected,
         device'.preview => device.preview, device'.target \in Texture => device'.target = device.target
  PROVE  PreviewInv'
<1> USE DEF PreviewInv
<1>1. \A b \in Actor : b # a => call'[b] = call[b]  BY DEF CameraInv, CameraTypeOK
<1>2. TextureKept'  BY <1>1 DEF TextureKept
<1>3. Stopping => Stopping'
  <2>1. \A b \in Actor : Holding(b, "stop_preview") => Holding(b, "stop_preview")'
    BY <1>1 DEF Holding, Within
  <2> QED  BY <2>1 DEF Stopping
<1>4. StoppedOnce'  BY <1>1, <1>3 DEF StoppedOnce, Within
<1> QED  BY <1>2, <1>4

\* The preview is started: there is no stop, and will be none until it is.
LEMMA StartKeepsPreview ==
  ASSUME CameraHabits = {}, CameraInv, CameraInv', PreviewInv, NEW a \in Actor, DeviceCommand(a, "start_preview")
  PROVE  PreviewInv'
<1> USE DEF PreviewInv
<1>1. /\ textures.abandoned = {} /\ \A b \in Actor : ~Within(b, "stop_preview")
  <2>1. CASE MayStart(a, "start_preview")
    <3>1. OnlyOnePreview("start_preview")  BY <2>1 DEF MayStart
    <3> QED  BY <3>1 DEF OnlyOnePreview, InCall, Within
  <2>2. CASE call[a].pc = "guard" /\ call[a].op = "start_preview"
    BY <2>2 DEF StoppedOnce, Within
  <2> QED  BY <2>1, <2>2 DEF DeviceCommand, MayEnter
<1>2. /\ UNCHANGED <<preview_texture, textures, recorder>>
      /\ call' = [call EXCEPT ![a] = NoCall]
      /\ device' = device \/ device' = [device EXCEPT !.preview = TRUE]
  BY DEF DeviceCommand, Commanded, Pass
<1>3. \A b \in Actor : call'[b] = IF b = a THEN NoCall ELSE call[b]
  BY <1>2 DEF CameraInv, CameraTypeOK
<1>4. device'.target = device.target /\ device'.lock = device.lock /\ device'.connected = device.connected
  BY <1>2 DEF CameraInv, CameraTypeOK, Device
<1>5. TextureKept'  BY <1>2, <1>3, <1>4 DEF TextureKept, NoCall
<1>6. StoppedOnce'  BY <1>1, <1>2, <1>3, <1>4 DEF StoppedOnce, Within, NoCall
<1> QED  BY <1>5, <1>6

\* Other commands.  The device is only given back by a client that is not in the
\* middle of stopping the preview.
LEMMA CommandKeepsPreview ==
  ASSUME CameraHabits = {}, CameraInv, CameraInv', PreviewInv, NEW a \in Actor, NEW op \in Command,
         DeviceCommand(a, op)
  PROVE  PreviewInv'
<1> USE DEF PreviewInv
<1>1. CASE op = "start_preview"  BY <1>1, StartKeepsPreview
<1>2. CASE op # "start_preview"
  <2>1. MayStart(a, op) /\ op \in Command \ {"disconnect", "stop_preview"}
    BY <1>2 DEF DeviceCommand, MayEnter, CameraInv, GuardHeld
  <2>2. OnlyOnePreview(op) /\ call[a].pc = "idle" /\ (op = "lock" => recorder # "recording")
    BY <2>1 DEF MayStart
  <2>3. /\ UNCHANGED <<preview_texture, textures, recorder>>
        /\ call' = [call EXCEPT ![a] = NoCall]
        /\ device' = Commanded(op)
    BY DEF DeviceCommand, Pass
  <2>4. \A b \in Actor : call'[b] = IF b = a THEN NoCall ELSE call[b]
    BY <2>3 DEF CameraInv, CameraTypeOK
  <2>5. /\ Commanded(op).connected = device.connected
        /\ Commanded(op).preview => device.preview
        /\ Commanded(op).target \in {device.target, "surface"}
        /\ Commanded(op).lock = device.lock \/ (op = "lock" /\ Commanded(op).lock = "client")
             \/ (op = "unlock" /\ device.lock = "client")
    BY <1>2 DEF Commanded, CameraInv, CameraTypeOK, Device, Obeys
  <2>6. op = "unlock" => \A b \in Actor : ~Within(b, "stop_preview")
    BY <2>2 DEF OnlyOnePreview, InCall, Within
  <2>7. TextureKept'  BY <2>3, <2>4, <2>5, SurfaceIsNoTexture DEF TextureKept, NoCall
  <2>8. Stopping => Stopping'
    <3>1. \A b \in Actor : Holding(b, "stop_preview") => Holding(b, "stop_preview")'
      BY <2>2, <2>4 DEF Holding
    <3> QED  BY <3>1 DEF Stopping
  <2>9. StoppedOnce'  BY <2>2, <2>3, <2>4, <2>5, <2>6, <2>8 DEF StoppedOnce, Within, NoCall
  <2> QED  BY <2>7, <2>9
<1> QED  BY <1>1, <1>2

\* The stop, from the look at the texture on.
LEMMA StopKeepsPreview ==
  ASSUME CameraHabits = {}, CameraInv, CameraInv', PreviewInv, NEW a \in Actor,
         android_camera_stop_preview(a) \/ PreviewStopped(a)
  PROVE  PreviewInv'
<1> USE DEF PreviewInv
<1>1. CASE android_camera_stop_preview(a)
  <2>1. MayStart(a, "stop_preview")
    BY <1>1 DEF android_camera_stop_preview, MayEnter, CameraInv, GuardHeld
  <2>2. device.lock = "client"
        /\ \A b \in Actor : ~Within(b, "start_preview") /\ ~Within(b, "set_preview_texture")
    BY <2>1 DEF MayStart, OnlyOnePreview, InCall, Within
  <2>3. /\ UNCHANGED <<preview_texture, device, recorder>>
        /\ textures'.heard = textures.heard
        /\ call' = [call EXCEPT ![a] = [pc |-> "body", op |-> "stop_preview", flat |-> NULL]]
    BY <1>1 DEF android_camera_stop_preview, Enter, CameraInv, CameraTypeOK
  <2>4. \A b \in Actor : call'[b] = IF b = a THEN [pc |-> "body", op |-> "stop_preview", flat |-> NULL] ELSE call[b]
    BY <2>3 DEF CameraInv, CameraTypeOK
  <2>5. TextureKept'  BY <2>3, <2>4 DEF TextureKept
  <2>6. Stopping'  BY <2>4 DEF Stopping, Holding
  <2>7. StoppedOnce'  BY <2>2, <2>3, <2>4, <2>6 DEF StoppedOnce, Within
  <2> QED  BY <2>5, <2>7
<1>2. CASE PreviewStopped(a)
  <2>1. /\ UNCHANGED <<preview_texture, textures, recorder>>
        /\ call' = [call EXCEPT ![a] = NoCall] /\ Within(a, "stop_preview")
        /\ device' = IF device.lock = "client" THEN [device EXCEPT !.preview = FALSE] ELSE device
    BY <1>2 DEF PreviewStopped, Leave, Holding, Within, Obeys
  <2>2. device' = [device EXCEPT !.preview = FALSE]
    BY <2>1 DEF StoppedOnce
  <2>3. /\ ~device'.preview /\ device'.target = device.target
        /\ device'.lock = device.lock /\ device'.connected = device.connected
    BY <2>2 DEF CameraInv, CameraTypeOK, Device
  <2>4. \A b \in Actor : call'[b] = IF b = a THEN NoCall ELSE call[b]
    BY <2>1 DEF CameraInv, CameraTypeOK
  <2>5. TextureKept'  BY <2>1, <2>3, <2>4 DEF TextureKept, NoCall
  <2>6. StoppedOnce'  BY <2>1, <2>3, <2>4 DEF StoppedOnce, Within, NoCall
  <2> QED  BY <2>5, <2>6
<1> QED  BY <1>1, <1>2

\* The texture on its way to the device.
LEMMA TextureKeepsPreview ==
  ASSUME CameraHabits = {}, CameraInv, CameraInv', PreviewInv, NEW a \in Actor,
         \/ a \in Thread /\ CreateTexture(a)
         \/ ListenToTexture(a) \/ HandTexture(a)
  PROVE  PreviewInv'
<1> USE DEF PreviewInv
<1>1. ASSUME a \in Thread, CreateTexture(a) PROVE PreviewInv'
  <2>1. OnlyOnePreview("set_preview_texture") /\ call[a].pc = "idle"
    BY <1>1 DEF CreateTexture, MayStart
  <2>2. /\ textures.abandoned = {} /\ \A b \in Actor : ~Within(b, "stop_preview")
    BY <2>1 DEF OnlyOnePreview, InCall, Within
  <2>3. /\ UNCHANGED <<device, recorder>>
        /\ textures'.heard = textures.heard /\ textures'.abandoned = textures.abandoned
        /\ call' = [call EXCEPT ![a] = [NoCall EXCEPT !.pc = "listen", !.op = "set_preview_texture"]]
        /\ preview_texture # NULL => preview_texture' = preview_texture
    BY <1>1 DEF CreateTexture, CameraInv, CameraTypeOK
  <2>4. \A b \in Actor : b # a => call'[b] = call[b]
    BY <2>3 DEF CameraInv, CameraTypeOK
  <2>5. call'[a].pc = "listen" /\ call'[a].op = "set_preview_texture"
    BY <2>3 DEF CameraInv, CameraTypeOK, NoCall
  <2>6. /\ \A b \in Actor : call[b].pc = "hand" => preview_texture # NULL
        /\ device.target \in Texture => preview_texture # NULL
    BY CameraAssumption DEF TextureKept, CameraInv, CameraTypeOK
  <2>7. TextureKept'  BY <2>3, <2>4, <2>5, <2>6 DEF TextureKept
  <2>8. StoppedOnce'  BY <2>2, <2>3, <2>4, <2>5 DEF StoppedOnce, Within
  <2> QED  BY <2>7, <2>8
<1>2. CASE ListenToTexture(a) \/ HandTexture(a)
  <2>1. Within(a, "set_preview_texture")
    BY <1>2 DEF ListenToTexture, HandTexture, TextureKept, Within
  <2>2. textures.abandoned = {} /\ \A b \in Actor : ~Within(b, "stop_preview")
    BY <2>1 DEF StoppedOnce
  <2>3. /\ UNCHANGED <<preview_texture, recorder>>
        /\ textures'.abandoned = textures.abandoned
        /\ textures'.heard = textures.heard \/ textures'.heard = textures.heard \cup {preview_texture}
        /\ device'.lock = device.lock /\ device'.connected = device.connected
        /\ call' = [call EXCEPT ![a].pc = "hand"] \/ call' = [call EXCEPT ![a] = NoCall]
    BY <1>2 DEF ListenToTexture, HandTexture, CameraInv, CameraTypeOK, Device, controlVars
  <2>4. \A b \in Actor : b # a => call'[b] = call[b]
    BY <2>3 DEF CameraInv, CameraTypeOK
  <2>5. call'[a].pc = "idle" \/ (call'[a].pc = "hand" /\ call'[a].op = "set_preview_texture")
    <3>1. call[a] \in Call /\ call[a].op = "set_preview_texture" /\ call \in [Actor -> Call]
      BY <2>1 DEF CameraInv, CameraTypeOK, Within
    <3>2. CASE call' = [call EXCEPT ![a].pc = "hand"]  BY <3>1, <3>2 DEF Call
    <3>3. CASE call' = [call EXCEPT ![a] = NoCall]  BY <3>1, <3>3 DEF NoCall
    <3> QED  BY <2>3, <3>2, <3>3
  <2>6. TextureKept'
    <3>1. ListenToTexture(a) => preview_texture \in textures'.heard /\ UNCHANGED device
      BY DEF ListenToTexture, CameraInv, CameraTypeOK
    <3>2. HandTexture(a) => /\ call'[a].pc = "idle"
                            /\ preview_texture \in textures.heard
                            /\ device'.target \in {device.target, preview_texture}
      BY DEF HandTexture, TextureKept, CameraInv, CameraTypeOK, Device, NoCall
    <3> QED  BY <1>2, <2>3, <2>4, <2>5, <3>1, <3>2 DEF TextureKept
  <2>7. StoppedOnce'  BY <2>2, <2>3, <2>4, <2>5 DEF StoppedOnce, Within
  <2> QED  BY <2>6, <2>7
<1> QED  BY <1>1, <1>2

\* Everything else: what is not about the preview, and messages.
LEMMA BesidesKeepsPreview ==
  ASSUME CameraHabits = {}, CameraInv, CameraInv', PreviewInv, NEW a \in Actor,
         \/ \E k \in Key, v \in Value : SetParameter(a, k, v)
         \/ \E k \in Key : GetParameter(a, k)
         \/ EnumerateSizes(a) \/ android_camera_disconnect(a)
         \/ SendParameters(a) \/ SizesEnumerated(a)
         \/ \E m \in Message : Deliver(a, m)
  PROVE  PreviewInv'
<1>1. /\ UNCHANGED <<preview_texture, textures, recorder>>
      /\ call' = [call EXCEPT ![a] = call'[a]]
  BY DEF SetParameter, GetParameter, EnumerateSizes, android_camera_disconnect, SendParameters, SizesEnumerated,
         Deliver, Enter, Leave, Pass, CameraInv, CameraTypeOK, controlVars
<1>2. ~Within(a, "stop_preview")
  BY DEF SetParameter, GetParameter, EnumerateSizes, android_camera_disconnect, SendParameters, SizesEnumerated,
         Deliver, MayEnter, MayStart, Holding, CameraInv, GuardHeld, Within
<1>3. \/ call'[a] = NoCall
      \/ call'[a].pc = "body" /\ call'[a].op \in {"set", "enumerate"}
      \/ call'[a].pc = "message" /\ call'[a].op \in Message
  <2>1. call \in [Actor -> Call]  BY DEF CameraInv, CameraTypeOK
  <2>2. ASSUME NEW k \in Key, NEW v \in Value, SetParameter(a, k, v)
        PROVE  call'[a].pc = "body" /\ call'[a].op = "set"
    BY <2>1, <2>2 DEF SetParameter, Enter
  <2>3. CASE EnumerateSizes(a)  BY <2>1, <2>3 DEF EnumerateSizes, Enter
  <2>4. ASSUME NEW m \in Message, Deliver(a, m) PROVE call'[a].pc = "message" /\ call'[a].op = m
    BY <2>1, <2>4 DEF Deliver, NoCall
  <2>5. CASE (\E k \in Key : GetParameter(a, k)) \/ android_camera_disconnect(a)
    BY <2>1, <2>5 DEF GetParameter, android_camera_disconnect, Pass
  <2>6. CASE SendParameters(a) \/ SizesEnumerated(a)
    BY <2>1, <2>6 DEF SendParameters, SizesEnumerated, Leave
  <2> QED  BY <2>2, <2>3, <2>4, <2>5, <2>6
<1>4. call'[a].pc \notin {"listen", "hand"}
  BY <1>3 DEF NoCall
<1>5. CASE android_camera_disconnect(a)
  <2>1. \A b \in Actor : call[b].pc = "idle"
    BY <1>5 DEF android_camera_disconnect, MayEnter, MayStart, CameraInv, GuardHeld
  <2>2. recorder # "recording"
    BY <1>5 DEF android_camera_disconnect, MayEnter, MayStart, CameraInv, GuardHeld
  <2>3. /\ ~device'.preview /\ device'.target = NULL /\ call' = [call EXCEPT ![a] = NoCall]
    BY <1>5 DEF android_camera_disconnect, Pass, CameraInv, CameraTypeOK, Device
  <2>4. \A b \in Actor : call'[b].pc = "idle"
    BY <2>1, <2>3 DEF CameraInv, CameraTypeOK, NoCall
  <2> QED  BY <1>1, <2>2, <2>3, <2>4, CameraAssumption DEF PreviewInv, TextureKept, StoppedOnce, Within
<1>6. CASE ~android_camera_disconnect(a)
  <2>1. /\ device'.lock = device.lock /\ device'.connected = device.connected
        /\ device'.preview = device.preview /\ device'.target = device.target
    BY <1>6 DEF SetParameter, GetParameter, EnumerateSizes, SendParameters, SizesEnumerated, Deliver, CameraInv,
                CameraTypeOK, Device
  <2> QED  BY <1>1, <1>2, <1>3, <1>4, <2>1, OthersKeepPreview DEF Within, NoCall, Message
<1> QED  BY <1>5, <1>6

\* The callback for a picture goes to start the preview only if it may.
LEMMA CallbackKeepsPreview ==
  ASSUME CameraHabits = {}, CameraInv, CameraInv', PreviewInv, NEW a \in Actor, ClientCallback(a)
  PROVE  PreviewInv'
<1> USE DEF PreviewInv
<1>1. /\ UNCHANGED <<preview_texture, textures, device, recorder>>
      /\ call' = [call EXCEPT ![a] = call'[a]] /\ call[a].pc = "message"
  BY DEF ClientCallback, CameraInv, CameraTypeOK, controlVars
<1>2. ~Within(a, "stop_preview")  BY <1>1 DEF StoppedOnce, Within
<1>3. CASE call'[a] = NoCall
  BY <1>1, <1>2, <1>3, OthersKeepPreview DEF NoCall, Within
<1>4. CASE call'[a] # NoCall
  <2>1. /\ OnlyOnePreview("start_preview")
        /\ call' = [call EXCEPT ![a].pc = "guard", ![a].op = "start_preview"]
    BY <1>4 DEF ClientCallback, MayRestart, CameraInv, CameraTypeOK
  <2>2. /\ textures.abandoned = {} /\ \A b \in Actor : ~Within(b, "stop_preview")
    BY <2>1 DEF OnlyOnePreview, InCall, Within
  <2>3. /\ \A b \in Actor : b # a => call'[b] = call[b]
        /\ call'[a].pc = "guard" /\ call'[a].op = "start_preview"
    BY <2>1 DEF CameraInv, CameraTypeOK, Call
  <2>4. TextureKept'  BY <1>1, <2>3 DEF TextureKept
  <2>5. StoppedOnce'  BY <1>1, <2>2, <2>3 DEF StoppedOnce, Within
  <2> QED  BY <2>4, <2>5
<1> QED  BY <1>3, <1>4

\* The service, the recorder, a new connection.
LEMMA ServiceKeepsPreview ==
  ASSUME CameraInv, CameraInv', PreviewInv,
         \/ \E t \in Thread : android_camera_connect_to(t)
         \/ DeviceSends \/ android_camera_delete \/ UNCHANGED cameraVars
         \/ android_media_new_recorder \/ android_recorder_setCamera
         \/ android_recorder_start \/ RecorderEnds("idle") \/ RecorderEnds("none")
  PROVE  PreviewInv'
<1> USE DEF PreviewInv
<1>1. /\ UNCHANGED <<preview_texture, textures, call>>
      /\ device'.preview = device.preview /\ device'.target = device.target
  BY DEF android_camera_connect_to, DeviceSends, android_camera_delete, cameraVars, android_media_new_recorder,
         android_recorder_setCamera, android_recorder_start, RecorderEnds, RecorderStep, controlVars, CameraInv,
         CameraTypeOK, Device
<1>2. \/ UNCHANGED recorder /\ device'.lock = device.lock /\ device'.connected = device.connected
      \/ recorder # "recording" /\ recorder' # "recording"
         /\ device'.lock = device.lock /\ device'.connected = device.connected
      \/ UNCHANGED recorder /\ device'.lock = "client" /\ ~device.connected
      \/ device.lock = "nobody" /\ device.connected
         /\ device'.lock = "recorder" /\ device'.connected = device.connected
      \/ recorder = "recording" /\ recorder' # "recording"
         /\ device'.lock = "nobody" /\ device'.connected = device.connected
  BY DEF android_camera_connect_to, DeviceSends, android_camera_delete, cameraVars, android_media_new_recorder,
         android_recorder_setCamera, android_recorder_start, RecorderEnds, RecorderStep, controlVars, CameraInv,
         CameraTypeOK, CopySent, Device
<1>3. TextureKept'  BY <1>1 DEF TextureKept
<1>4. StoppedOnce'  BY <1>1, <1>2 DEF StoppedOnce, Within, Stopping, Holding
<1> QED  BY <1>3, <1>4

\* A client that starts no second preview sees every frame of the first: the
\* device has the texture that control listens to and the client reads, until
\* the preview is being stopped, whatever the other threads, the callbacks and the
\* recorder do in between.
THEOREM PreviewsAreVisible == ASSUME CameraHabits = {} PROVE CameraSpec => []PreviewVisible
<1>1. CameraInit => CameraInv /\ PreviewInv  BY CameraInitially, PreviewInitially
<1>2. ASSUME CameraInv, PreviewInv, [CameraNext]_cameraVars PROVE (CameraInv /\ PreviewInv)'
  <2>1. CameraInv'  BY <1>2, CameraNextKeeps
  <2>2. ASSUME NEW t \in Thread, CameraCall(t) PROVE PreviewInv'
    BY <1>2, <2>1, <2>2, BesidesKeepsPreview, CommandKeepsPreview, StopKeepsPreview, TextureKeepsPreview
    DEF CameraCall, Actor
  <2>3. ASSUME NEW a \in Actor, CameraStep(a) PROVE PreviewInv'
    BY <1>2, <2>1, <2>3, BesidesKeepsPreview, StartKeepsPreview, StopKeepsPreview, TextureKeepsPreview,
       CallbackKeepsPreview DEF CameraStep
  <2>4. ASSUME NEW b \in Binder, NEW m \in Message, Deliver(b, m) PROVE PreviewInv'
    BY <1>2, <2>1, <2>4, BesidesKeepsPreview DEF Actor
  <2> QED  BY <1>2, <2>1, <2>2, <2>3, <2>4, ServiceKeepsPreview DEF CameraNext
<1>3. PreviewInv => PreviewVisible
  BY DEF PreviewInv, TextureKept, StoppedOnce, PreviewVisible
<1> QED  BY <1>1, <1>2, <1>3, PTL DEF CameraSpec
=============================================================================
