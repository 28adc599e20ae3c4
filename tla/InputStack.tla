----------------------------- MODULE InputStack -----------------------------
(***************************************************************************)
(* The input stack compatibility layer (compat/input): the global state    *)
(* with its reader thread, which turns the devices' events into calls of   *)
(* the program's listener, and its looper thread; and the program, which   *)
(* starts, waits, stops and shuts down, or reads events by itself.         *)
(***************************************************************************)
EXTENDS Clients

CONSTANTS
  READER,     \* the reader thread
  EventId,    \* the devices' events
  MaxLoopers  \* bound: looper threads ever started

ASSUME InputAssumption == READER \notin Actor /\ NULL \notin EventId /\ MaxLoopers \in Nat

VARIABLES
  global_state,  \* "null" or "live"
  reader,        \* the reader thread: "none", "running", "exiting" or "exited"
  looper,        \* whether the state's looper thread runs
  loopers,       \* how many do
  current_event, \* the listener's one event, see Event
  reading,       \* what the reader and the program's threads do in loopOnce
  flag,          \* the program's, for start_waiting_for_flag
  program,       \* what each of the program's threads executes
  started        \* the program: it has started and not stopped

threadVars == <<reader, looper, loopers>>
inputVars  == <<global_state, reader, looper, loopers, current_event, reading, flag, program, started>>

Source == Thread \cup {READER}
Kind   == {"key", "motion", "switch"}

\* The events that the kind, the generic fields and the details are of.
Event   == [type : Kind \cup {NULL}, generic : EventId \cup {NULL}, details : EventId \cup {NULL}]
NoEvent == [type |-> NULL, generic |-> NULL, details |-> NULL]

\* "filled": current_event is; "calling": in the program's callback.
Reading    == [pc : {"idle", "filled", "calling"}, kind : Kind \cup {NULL}, id : EventId \cup {NULL}]
NotReading == [pc |-> "idle", kind |-> NULL, id |-> NULL]

InputTypeOK ==
  /\ global_state \in {"null", "live"}
  /\ reader \in {"none", "running", "exiting", "exited"} /\ looper \in BOOLEAN /\ loopers \in 0..MaxLoopers
  /\ current_event \in Event /\ reading \in [Source -> Reading] /\ flag \in BOOLEAN
  /\ program \in [Thread -> {"idle", "waiting", "stopping", "shutting_down"}] /\ started \in BOOLEAN

InputInit ==
  /\ global_state = "null" /\ reader = "none" /\ looper = FALSE /\ loopers = 0
  /\ current_event = NoEvent /\ reading = [s \in Source |-> NotReading]
  /\ flag = FALSE /\ program = [t \in Thread |-> "idle"] /\ started = FALSE

ProgramIdle == \A u \in Thread : program[u] = "idle" /\ reading[u] = NotReading

-----------------------------------------------------------------------------
(* The listener.  notifyKey and notifyMotion fill all of current_event,      *)
(* notifySwitch the type and the details; then the program is called.        *)

Fills(k, e) == [type    |-> k, details |-> e,
                generic |-> IF k = "switch" THEN current_event.generic ELSE e]

\* loopOnce is for the reader to run, or the program if it has no reader.
MayRead(s) ==
  /\ reading[s] = NotReading
  /\ IF s = READER THEN reader = "running"
     ELSE global_state = "live" /\ ProgramIdle /\ ~started

ReadEvent(s, k, e) ==
  /\ MayRead(s)
  /\ current_event' = Fills(k, e)
  /\ reading' = [reading EXCEPT ![s] = [pc |-> "filled", kind |-> k, id |-> e]]
  /\ UNCHANGED <<global_state, threadVars, flag, program, started>>

on_new_event(s) ==
  /\ reading[s].pc = "filled"
  /\ reading' = [reading EXCEPT ![s].pc = "calling"]
  /\ UNCHANGED <<global_state, threadVars, current_event, flag, program, started>>

EventHandled(s) ==
  /\ reading[s].pc = "calling"
  /\ reading' = [reading EXCEPT ![s] = NotReading]
  /\ UNCHANGED <<global_state, threadVars, current_event, flag, program, started>>

\* Between two rounds of loopOnce, that is after some event, the reader sees
\* that it is to exit.
ReaderExits ==
  /\ reader = "exiting" /\ reading[READER] = NotReading
  /\ reader' = "exited"
  /\ UNCHANGED <<global_state, looper, loopers, current_event, reading, flag, program, started>>

-----------------------------------------------------------------------------
(* The program's calls, which it makes one at a time.                      *)

Calls(t) == global_state = "live" /\ ProgramIdle

android_input_stack_initialize ==
  /\ global_state = "null" /\ global_state' = "live"
  /\ reader' = "none" /\ looper' = FALSE /\ flag' = FALSE
  /\ UNCHANGED <<loopers, current_event, reading, program, started>>

\* Slip: a looper is started without a look at the one that runs.
StartThreads_Again ==
  /\ loopers' = loopers + 1
  /\ reader' = "running" /\ looper' = TRUE /\ started' = TRUE

\* run() of a thread that runs does nothing.  Nobody asks a looper to exit.
StartThreads ==
  /\ looper \/ loopers < MaxLoopers
  /\ loopers' = IF looper THEN loopers ELSE loopers + 1
  /\ reader' = "running" /\ looper' = TRUE /\ started' = TRUE

android_input_stack_start(t) ==
  /\ Calls(t) /\ StartThreads
  /\ UNCHANGED <<global_state, current_event, reading, flag, program>>

android_input_stack_start_waiting_for_flag(t) ==
  /\ Calls(t) /\ StartThreads
  /\ program' = [program EXCEPT ![t] = "waiting"]
  /\ UNCHANGED <<global_state, current_event, reading, flag>>

\* A signal handler, or another thread.
SetFlag ==
  /\ ~flag /\ flag' = TRUE
  /\ UNCHANGED <<global_state, threadVars, current_event, reading, program, started>>

\* Slip: the wait has no timeout; the reader's exit ends it.
WaiterSleeps(t) ==
  /\ program[t] = "waiting" /\ flag /\ reader = "exited"
  /\ program' = [program EXCEPT ![t] = "idle"]
  /\ UNCHANGED <<global_state, threadVars, current_event, reading, flag, started>>

\* Nobody signals the condition: every 10 ms the flag is looked at.
WaiterPolls(t) ==
  /\ program[t] = "waiting" /\ flag
  /\ program' = [program EXCEPT ![t] = "idle"]
  /\ UNCHANGED <<global_state, threadVars, current_event, reading, flag, started>>

\* requestExitAndWait, for stop, and for the destructor that shutdown runs.
RequestExit(t, why) ==
  /\ Calls(t)
  /\ reader' = IF reader = "running" THEN "exiting" ELSE reader
  /\ program' = [program EXCEPT ![t] = why]
  /\ UNCHANGED <<global_state, looper, loopers, current_event, reading, flag, started>>

\* Slip: it does not wait for the reader.
ExitNotAwaited(t) ==
  /\ program[t] \in {"stopping", "shutting_down"}
  /\ global_state' = IF program[t] = "shutting_down" THEN "null" ELSE global_state
  /\ program' = [program EXCEPT ![t] = "idle"] /\ started' = FALSE
  /\ UNCHANGED <<threadVars, current_event, reading, flag>>

ExitSeen(t) ==
  /\ program[t] \in {"stopping", "shutting_down"} /\ reader \in {"none", "exited"}
  /\ global_state' = IF program[t] = "shutting_down" THEN "null" ELSE global_state
  /\ program' = [program EXCEPT ![t] = "idle"] /\ started' = FALSE
  /\ UNCHANGED <<threadVars, current_event, reading, flag>>

-----------------------------------------------------------------------------

InputNext ==
  \/ android_input_stack_initialize
  \/ \E s \in Source : \/ \E k \in Kind, e \in EventId : ReadEvent(s, k, e)
                       \/ on_new_event(s) \/ EventHandled(s)
  \/ ReaderExits \/ SetFlag
  \/ \E t \in Thread : \/ android_input_stack_start(t)
                       \/ android_input_stack_start_waiting_for_flag(t)
                       \/ WaiterPolls(t) \/ ExitSeen(t)
                       \/ RequestExit(t, "stopping") \/ RequestExit(t, "shutting_down")

InputSpec == InputInit /\ [][InputNext]_inputVars

\* The thread that polls goes on; that events come nobody can promise.
InputFairness == \A t \in Thread : WF_inputVars(WaiterPolls(t))

-----------------------------------------------------------------------------
(* Properties.                                                             *)

Whole(s) == /\ current_event.type = reading[s].kind
            /\ {current_event.generic, current_event.details} = {reading[s].id}

\* The program's callback sees the key or the motion it is called for, though
\* all events are put in one place: no other thread is filling it.
EventWhole ==
  \A s \in Source : reading[s].pc = "calling" /\ reading[s].kind # "switch" => Whole(s)

\* Once stop or shutdown has returned the reader runs no more, and calls
\* nothing of a state that is deleted.
StopsQuiet == ~started /\ ProgramIdle => reader \in {"none", "exited"} /\ reading[READER] = NotReading

\* A program that waits for its flag goes on when the flag is set.
FlagEndsWait == \A t \in Thread : program[t] = "waiting" /\ flag ~> program[t] = "idle"
=============================================================================
