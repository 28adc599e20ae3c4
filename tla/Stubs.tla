-------------------------------- MODULE Stubs --------------------------------
(***************************************************************************)
(* The stub libraries (hybris/egl, glesv2, hardware, sf, is, media, camera *)
(* and init_hybris of ics/init.c): each keeps a handle of one Android      *)
(* library and a pointer for every function, filled in at its first use by *)
(* whatever threads come first, without any lock.  The linker below them   *)
(* is its promises: android_dlopen counts references, and a library whose  *)
(* count falls to nothing is unloaded and gone from where it was.          *)
(***************************************************************************)
EXTENDS Clients

CONSTANTS
  Symbol,    \* functions of a stub library
  MaxLoads,  \* bound: times that a library is loaded
  MaxRefs    \* bound: references the program takes by itself

ASSUME StubsAssumption ==
  /\ MaxLoads \in Nat /\ MaxRefs \in Nat
  /\ NULL \notin Symbol /\ NULL \notin 1..MaxLoads

\* Those that open their library at the first call of any function ...
Lazy  == {"libEGL", "libui", "libGLESv2", "libhardware", "libsf", "libis", "libc"}
\* ... and those that do in a static constructor.
Eager == {"libmedia", "libcamera"}
Lib   == Lazy \cup Eager

VARIABLES
  lib,      \* the library this behaviour is about: they share nothing
  there,    \* whether it can be loaded, and the symbols that it has
  handle,   \* the stub's: NULL, or the load it comes from
  fptr,     \* for each function: NULL, or the load its address is of
  loads,    \* how often the library was loaded
  refs,     \* the linker's count of references to it; 0 if it is not loaded
  own,      \* how many of these the program itself has
  opened,   \* how many the stub has taken
  at        \* where each thread is

stubVars == <<lib, there, handle, fptr, loads, refs, own, opened, at>>

Load   == 1..MaxLoads

\* pc: "before" main; "open" after a NULL handle was seen; "store" has called
\* android_dlopen; "bind" has a handle; "keep" has called android_dlsym; "jump"
\* is about to call through the pointer, "inside" has; "crash" has, through NULL.
CallOfStub ==
  [pc : {"before", "idle", "open", "store", "bind", "keep", "jump", "inside", "crash", "abort"},
   f : Symbol \cup {NULL}, got : Load \cup {NULL}]
Rest   == [pc |-> "idle", f |-> NULL, got |-> NULL]

StubsTypeOK ==
  /\ lib \in Lib /\ there \in [loads : BOOLEAN, symbols : SUBSET Symbol]
  /\ handle \in Load \cup {NULL} /\ fptr \in [Symbol -> Load \cup {NULL}]
  /\ loads \in 0..MaxLoads /\ refs \in Nat /\ own \in 0..MaxRefs /\ opened \in Nat
  /\ at \in [Thread -> CallOfStub]

\* A program's static constructors run in one thread, before the others exist.
StubsInit ==
  /\ lib \in Lib /\ there \in [loads : BOOLEAN, symbols : SUBSET Symbol]
  /\ handle = NULL /\ fptr = [f \in Symbol |-> NULL]
  /\ loads = 0 /\ refs = 0 /\ own = 0 /\ opened = 0
  /\ at = [t \in Thread |-> IF lib \in Eager THEN [Rest EXCEPT !.pc = "before"] ELSE Rest]

Goes(t, where) == at' = [at EXCEPT ![t] = where]

-----------------------------------------------------------------------------
(* What the linker does for its callers.                                   *)

\* The load a new reference is to, NULL if there can be none.
Loadable == there.loads /\ (refs > 0 \/ loads < MaxLoads)
Opened   == IF ~there.loads THEN NULL ELSE IF refs = 0 THEN loads + 1 ELSE loads

android_dlopen ==
  /\ there.loads => Loadable
  /\ refs'  = IF there.loads THEN refs + 1 ELSE refs
  /\ loads' = IF there.loads THEN Opened ELSE loads

\* An error for a NULL handle, and for what the library does not have.
android_dlsym(h, f) == IF h # NULL /\ f \in there.symbols THEN h ELSE NULL

\* The program opens and closes libraries itself, and closes those it opened.
ProgramOpens ==
  /\ there.loads /\ own < MaxRefs /\ \A t \in Thread : at[t].pc # "before"
  /\ own' = own + 1 /\ android_dlopen
  /\ UNCHANGED <<lib, there, handle, fptr, opened, at>>

ProgramCloses ==
  /\ own > 0 /\ own' = own - 1 /\ refs' = refs - 1
  /\ UNCHANGED <<lib, there, handle, fptr, loads, opened, at>>

-----------------------------------------------------------------------------
(* Opening the library.                                                    *)

\* MediaPlayerBridge and CameraBridge: a library that cannot be loaded ends the
\* program, by their assertion.
Construct ==
  /\ \E t \in Thread : at[t].pc = "before"
  /\ android_dlopen
  /\ handle' = Opened /\ opened' = IF Opened = NULL THEN opened ELSE opened + 1
  /\ at' = [t \in Thread |-> IF Opened = NULL THEN [Rest EXCEPT !.pc = "abort"] ELSE Rest]
  /\ UNCHANGED <<lib, there, fptr, own>>

\* Slip: who comes while another thread opens the library goes ahead.
BeginUnlessOpening(t, f) ==
  /\ at[t].pc = "idle"
  /\ LET busy == \E u \in Thread : at[u].pc \in {"open", "store"}
     IN  Goes(t, [pc |-> IF lib \in Lazy /\ handle = NULL /\ ~busy THEN "open" ELSE "bind",
                  f |-> f, got |-> NULL])
  /\ UNCHANGED <<lib, there, handle, fptr, loads, refs, own, opened>>

\* A call of a stub begins with a look at the handle.
Begin(t, f) ==
  /\ at[t].pc = "idle"
  /\ Goes(t, [pc |-> IF lib \in Lazy /\ handle = NULL THEN "open" ELSE "bind", f |-> f, got |-> NULL])
  /\ UNCHANGED <<lib, there, handle, fptr, loads, refs, own, opened>>

EglCall(t, f)      == lib = "libEGL"      /\ Begin(t, f)
UiCall(t, f)       == lib = "libui"       /\ Begin(t, f)
Gl2Call(t, f)      == lib = "libGLESv2"   /\ Begin(t, f)
HardwareCall(t, f) == lib = "libhardware" /\ Begin(t, f)
SfCall(t, f)       == lib = "libsf"       /\ Begin(t, f)
IsCall(t, f)       == lib = "libis"       /\ Begin(t, f)
MediaCall(t, f)    == lib = "libmedia"    /\ Begin(t, f)
CameraStub(t, f)   == lib = "libcamera"   /\ Begin(t, f)

\* Every thread that saw NULL opens the library: it is loaded once, and a
\* reference more than will ever be given back for each.
Open(t) ==
  /\ at[t].pc = "open"
  /\ Goes(t, [at[t] EXCEPT !.pc = "store", !.got = Opened])
  /\ android_dlopen
  /\ opened' = IF Opened = NULL THEN opened ELSE opened + 1
  /\ UNCHANGED <<lib, there, handle, fptr, own>>

\* For init_hybris, this is all.
StoreHandle(t) ==
  /\ at[t].pc = "store"
  /\ handle' = at[t].got
  /\ Goes(t, IF at[t].f = NULL THEN Rest ELSE [at[t] EXCEPT !.pc = "bind"])
  /\ UNCHANGED <<lib, there, fptr, loads, refs, own, opened>>

init_hybris(t) ==
  /\ lib = "libc" /\ at[t].pc = "idle" /\ handle = NULL
  /\ Goes(t, [Rest EXCEPT !.pc = "open"])
  /\ UNCHANGED <<lib, there, handle, fptr, loads, refs, own, opened>>

-----------------------------------------------------------------------------
(* Binding the function, and calling it.                                   *)

Resolve(t) ==
  /\ at[t].pc = "bind"
  /\ IF fptr[at[t].f] # NULL THEN Goes(t, [at[t] EXCEPT !.pc = "jump", !.got = NULL])
     ELSE Goes(t, [at[t] EXCEPT !.pc = "keep", !.got = android_dlsym(handle, at[t].f)])
  /\ UNCHANGED <<lib, there, handle, fptr, loads, refs, own, opened>>

\* Slip: with the address at hand the library is closed again.
KeepAndClose(t) ==
  /\ at[t].pc = "keep"
  /\ fptr' = [fptr EXCEPT ![at[t].f] = at[t].got]
  /\ refs' = IF handle = NULL \/ refs = 0 THEN refs ELSE refs - 1
  /\ handle' = NULL
  /\ Goes(t, [at[t] EXCEPT !.pc = "jump", !.got = NULL])
  /\ UNCHANGED <<lib, there, loads, own, opened>>

Keep(t) ==
  /\ at[t].pc = "keep"
  /\ fptr' = [fptr EXCEPT ![at[t].f] = at[t].got]
  /\ Goes(t, [at[t] EXCEPT !.pc = "jump", !.got = NULL])
  /\ UNCHANGED <<lib, there, handle, loads, refs, own, opened>>

\* The pointer is read again, and nobody looks whether it is NULL.
Jump(t) ==
  /\ at[t].pc = "jump"
  /\ Goes(t, [at[t] EXCEPT !.pc = IF fptr[at[t].f] = NULL THEN "crash" ELSE "inside",
                           !.got = fptr[at[t].f]])
  /\ UNCHANGED <<lib, there, handle, fptr, loads, refs, own, opened>>

Return(t) ==
  /\ at[t].pc = "inside" /\ Goes(t, Rest)
  /\ UNCHANGED <<lib, there, handle, fptr, loads, refs, own, opened>>

-----------------------------------------------------------------------------

\* A crash or an abort is the end of the whole program.
Alive == \A t \in Thread : at[t].pc \notin {"crash", "abort"}

StubCall(t, f) ==
  \/ EglCall(t, f) \/ UiCall(t, f) \/ Gl2Call(t, f) \/ HardwareCall(t, f)
  \/ SfCall(t, f) \/ IsCall(t, f) \/ MediaCall(t, f) \/ CameraStub(t, f)

StubsNext ==
  /\ Alive
  /\ \/ Construct
     \/ \E t \in Thread : \/ \E f \in Symbol : StubCall(t, f)
                          \/ init_hybris(t)
                          \/ Open(t) \/ StoreHandle(t)
                          \/ Resolve(t) \/ Keep(t) \/ Jump(t) \/ Return(t)
     \/ ProgramOpens \/ ProgramCloses

StubsSpec == StubsInit /\ [][StubsNext]_stubVars

-----------------------------------------------------------------------------
(* Properties.                                                             *)

\* However first calls race, a call goes through NULL only if the library or
\* the function is missing: no thread sees a handle before it is one.
CallsBound ==
  \A t \in Thread : at[t].pc = "crash" => ~there.loads \/ at[t].f \notin there.symbols

\* An address that is kept, in a pointer or by a thread about to call it or
\* inside, is of the library as it is loaded now: the stub's reference outlives
\* all that the program closes.
BoundStaysLoaded ==
  /\ \A f \in Symbol : fptr[f] # NULL => refs > 0 /\ fptr[f] = loads
  /\ \A t \in Thread : at[t].pc = "inside" => refs > 0 /\ at[t].got = loads
=============================================================================
