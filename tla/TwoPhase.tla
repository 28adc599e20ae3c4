------------------------------- MODULE TwoPhase -------------------------------
(***************************************************************************)
(* The linkers of gingerbread and jb.  They share the list, the pool and    *)
(* the loading of the ICS linker (module Linker), which are left out here,  *)
(* and differ in what comes after: dlopen first links a library with all   *)
(* that it needs, then calls their constructors, and takes its reference    *)
(* last; and what the linker wrote in a library is write-protected until    *)
(* it is unloaded.  The lock of jb is recursive, so that constructors may   *)
(* call dlopen and dlclose; that of gingerbread is not.                     *)
(***************************************************************************)
EXTENDS Naturals, Sequences, FiniteSets

CONSTANTS
  Caller,      \* threads
  NoCaller,
  File,        \* basenames of the libraries
  Graphs,      \* the possible DT_NEEDED lists
  Broken,      \* files whose loading, linking or protecting may fail
  Calling,     \* files whose constructors call dlopen ...
  Balanced,    \* ... and those of them that close again what they opened
  Reentrant,   \* whether those open also what needs a library under way
  NIL,
  MaxHeld,     \* bound: handles the program has on one library
  MaxCount,    \* bound: references to a library that is opened
  MaxNesting   \* bound: activations

ASSUME TwoPhaseAssumption ==
  /\ Balanced \subseteq Calling /\ Calling \subseteq File /\ Broken \subseteq File
  /\ IsFiniteSet(File) /\ NIL \notin File /\ NoCaller \notin Caller
  /\ Reentrant \in BOOLEAN /\ MaxHeld \in Nat /\ MaxCount \in Nat /\ MaxNesting \in Nat
  /\ \A g \in Graphs : g \in [File -> Seq(File)]

VARIABLES
  recursive,  \* the kind of dl_lock: that of jb is
  needs,      \* the DT_NEEDED lists
  si,         \* the soinfo of each name
  calls,      \* the activations, innermost last
  result,     \* what find_library has just returned
  owner,      \* of dl_lock
  held        \* handles the program has

twoPhaseVars == <<recursive, needs, si, calls, result, owner, held>>

\* flags: "absent" without a soinfo; called, done: constructors_called, and
\* whether the constructors returned; relro: protected.
Soinfo  == [flags : {"absent", "loaded", "LINKED", "ERROR"}, refcount : Nat,
            called : BOOLEAN, done : BOOLEAN, relro : BOOLEAN]
Absent  == [flags |-> "absent", refcount |-> 0, called |-> FALSE, done |-> FALSE, relro |-> FALSE]

\* An activation of fn for the library l is at its d-th entry; "body" is in a
\* constructor or destructor, which has opened `opened'; "fault" ends it all.
Frame   == [fn : {"dlopen", "link_image", "constructors", "unload"}, l : File, d : Nat,
            at : {"find", "found", "loop", "body", "open", "fault"}, opened : File \cup {NIL}]
Entered(fn, l, at) == [fn |-> fn, l |-> l, d |-> 1, at |-> at, opened |-> NIL]

TwoPhaseTypeOK ==
  /\ recursive \in BOOLEAN /\ needs \in Graphs
  /\ si \in [File -> Soinfo] /\ calls \in Seq(Frame)
  /\ result \in File \cup {NIL} /\ owner \in Caller \cup {NoCaller}
  /\ held \in [File -> 0..MaxHeld]

TwoPhaseInit ==
  /\ recursive \in BOOLEAN /\ needs \in Graphs
  /\ si = [l \in File |-> Absent] /\ calls = <<>> /\ result = NIL
  /\ owner = NoCaller /\ held = [l \in File |-> 0]

Ranges(s) == {s[i] : i \in DOMAIN s}

Depth       == Len(calls)
Inner       == calls[Depth]
In(fn, at)  == calls # <<>> /\ Inner.fn = fn /\ Inner.at = at
Outer       == SubSeq(calls, 1, Depth - 1)
At(at)      == [calls EXCEPT ![Depth].at = at]
NextEntry   == [calls EXCEPT ![Depth].d = @ + 1]
Entries     == Len(needs[Inner.l])
EntryOf      == needs[Inner.l][Inner.d]

Keeps == UNCHANGED <<recursive, needs>>

\* The library whose name find_library was given, and what it found.
Wanted    == IF Inner.fn = "dlopen" THEN Inner.l ELSE EntryOf
Finding   == calls # <<>> /\ Inner.at = "find"
Found(r)  == result' = r /\ calls' = At("found")

\* The innermost call returns to the program, or to a constructor.
Returned(frames) ==
  /\ calls' = frames
  /\ owner' = IF frames = <<>> THEN NoCaller ELSE owner

-----------------------------------------------------------------------------
(* dlopen and find_library.                                                *)

\* What a library needs, and what that needs in turn, with itself.
Closure(l) ==
  {k \in File : \A S \in SUBSET File :
                 l \in S /\ (\A n \in S : Ranges(needs[n]) \subseteq S) => k \in S}

\* A thread gets the lock if it is free, or in a constructor if the lock is
\* recursive; if it is not, such a constructor would wait for its own thread, as
\* that of module Linker does.  Destructors call nothing.
GetsLock(t) ==
  \/ owner = NoCaller
  \/ recursive /\ owner = t /\ In("constructors", "body") /\ Inner.l \in Calling /\ Depth < MaxNesting

dlopen(t, l) ==
  /\ GetsLock(t) /\ si[l].refcount < MaxCount
  /\ IF calls = <<>> THEN held[l] < MaxHeld
     ELSE /\ Inner.opened = NIL
          /\ Inner.l \in Balanced /\ ~Reentrant => \A u \in Ranges(calls) : u.l \notin Closure(l)
  /\ owner' = t /\ result' = NIL
  /\ calls' = Append(calls, Entered("dlopen", l, "find"))
  /\ UNCHANGED <<si, held>> /\ Keeps

FindKnown ==
  /\ Finding /\ si[Wanted].flags # "absent"
  /\ Found(IF si[Wanted].flags = "LINKED" THEN Wanted ELSE NIL)
  /\ UNCHANGED <<si, owner, held>> /\ Keeps

LoadLibrary ==
  /\ Finding /\ si[Wanted].flags = "absent"
  /\ si' = [si EXCEPT ![Wanted] = [Absent EXCEPT !.flags = "loaded"]]
  /\ calls' = Append(At("found"), Entered("link_image", Wanted, "loop"))
  /\ UNCHANGED <<result, owner, held>> /\ Keeps

LoadFails ==
  /\ Finding /\ si[Wanted].flags = "absent" /\ Wanted \in Broken
  /\ Found(NIL)
  /\ UNCHANGED <<si, owner, held>> /\ Keeps

-----------------------------------------------------------------------------
(* link_image: entry by entry, relocation, protection.                     *)

NeedNext ==
  /\ In("link_image", "loop") /\ Inner.d <= Entries
  /\ calls' = At("find")
  /\ UNCHANGED <<si, result, owner, held>> /\ Keeps

\* Slip: the reference is not counted.
NeedBoundUncounted ==
  /\ In("link_image", "found") /\ result # NIL
  /\ calls' = [NextEntry EXCEPT ![Depth].at = "loop"]
  /\ UNCHANGED <<si, result, owner, held>> /\ Keeps

NeedBound ==
  /\ In("link_image", "found") /\ result # NIL
  /\ si' = [si EXCEPT ![result].refcount = @ + 1]
  /\ calls' = [NextEntry EXCEPT ![Depth].at = "loop"]
  /\ UNCHANGED <<result, owner, held>> /\ Keeps

\* Also what was bound already stays, with the references.
LinkFails ==
  /\ \/ In("link_image", "found") /\ result = NIL
     \/ In("link_image", "loop") /\ Inner.l \in Broken
  /\ si' = [si EXCEPT ![Inner.l].flags = "ERROR"]
  /\ calls' = Outer /\ result' = NIL
  /\ UNCHANGED <<owner, held>> /\ Keeps

\* A library may have no part to protect.
Linked ==
  /\ In("link_image", "loop") /\ Inner.d > Entries
  /\ \E p \in BOOLEAN :
       si' = [si EXCEPT ![Inner.l].flags = "LINKED", ![Inner.l].relro = p]
  /\ calls' = Outer /\ result' = Inner.l
  /\ UNCHANGED <<owner, held>> /\ Keeps

-----------------------------------------------------------------------------
(* call_constructors_recursive, for all of them once all are linked.       *)

OpenFails ==
  /\ In("dlopen", "found") /\ result = NIL
  /\ Returned(Outer)
  /\ UNCHANGED <<si, result, held>> /\ Keeps

\* A library whose constructors were called is passed over.
ToConstruct(l, frames) ==
  IF si[l].called THEN /\ calls' = frames /\ UNCHANGED si
  ELSE /\ calls' = Append(frames, Entered("constructors", l, "loop"))
       /\ si' = [si EXCEPT ![l].called = TRUE]

OpenFound ==
  /\ In("dlopen", "found") /\ result # NIL
  /\ ToConstruct(Inner.l, At("open"))
  /\ UNCHANGED <<result, owner, held>> /\ Keeps

ConstructNeeded ==
  /\ In("constructors", "loop") /\ Inner.d <= Entries
  /\ ToConstruct(EntryOf, NextEntry)
  /\ UNCHANGED <<result, owner, held>> /\ Keeps

\* Slip: a library's own constructors do not wait for those of all it needs.
ConstructOwnEarly ==
  /\ In("constructors", "loop")
  /\ calls' = At("body")
  /\ UNCHANGED <<si, result, owner, held>> /\ Keeps

ConstructOwn ==
  /\ In("constructors", "loop") /\ Inner.d > Entries
  /\ calls' = At("body")
  /\ UNCHANGED <<si, result, owner, held>> /\ Keeps

\* What the constructor opened and did not close stays open.
Constructed ==
  /\ In("constructors", "body")
  /\ Inner.opened = NIL \/ Inner.l \notin Balanced
  /\ si' = [si EXCEPT ![Inner.l].done = TRUE]
  /\ calls' = Outer
  /\ UNCHANGED <<result, owner, held>> /\ Keeps

\* Slip: the reference is the program's, a constructor's call takes none.
OpenReturnsUncounted ==
  /\ In("dlopen", "open")
  /\ si' = IF Len(Outer) = 0 THEN [si EXCEPT ![Inner.l].refcount = @ + 1] ELSE si
  /\ LET caller == Outer
     IN  IF caller = <<>> THEN Returned(caller) /\ held' = [held EXCEPT ![Inner.l] = @ + 1]
         ELSE Returned([caller EXCEPT ![Depth - 1].opened = Inner.l]) /\ UNCHANGED held
  /\ UNCHANGED result /\ Keeps

\* The reference is taken last.
OpenReturns ==
  /\ In("dlopen", "open")
  /\ si' = [si EXCEPT ![Inner.l].refcount = @ + 1]
  /\ LET caller == Outer
     IN  IF caller = <<>> THEN Returned(caller) /\ held' = [held EXCEPT ![Inner.l] = @ + 1]
         ELSE Returned([caller EXCEPT ![Depth - 1].opened = Inner.l]) /\ UNCHANGED held
  /\ UNCHANGED result /\ Keeps

-----------------------------------------------------------------------------
(* dlclose and unload_library.                                             *)

\* The count goes down, or the last reference's library is unloaded, from its
\* destructors on.
ToUnload(l, frames) ==
  IF si[l].refcount = 1 THEN /\ calls' = Append(frames, Entered("unload", l, "body"))
                             /\ UNCHANGED <<si, owner>>
  ELSE /\ si' = [si EXCEPT ![l].refcount = @ - 1]
       /\ Returned(frames)

dlclose(t, l) ==
  /\ owner = NoCaller /\ held[l] > 0
  /\ held' = [held EXCEPT ![l] = @ - 1]
  /\ IF si[l].refcount = 1 THEN owner' = t /\ calls' = <<Entered("unload", l, "body")>> /\ UNCHANGED si
     ELSE si' = [si EXCEPT ![l].refcount = @ - 1] /\ UNCHANGED <<owner, calls>>
  /\ UNCHANGED result /\ Keeps

\* A constructor closes what it opened.
CloseAgain ==
  /\ In("constructors", "body") /\ Inner.l \in Balanced /\ Inner.opened # NIL
  /\ ToUnload(Inner.opened, [calls EXCEPT ![Depth].opened = NIL])
  /\ UNCHANGED <<result, held>> /\ Keeps

\* Slip: the protection is not undone.
UnprotectForgotten ==
  /\ In("unload", "body")
  /\ calls' = At("loop")
  /\ UNCHANGED <<si, result, owner, held>> /\ Keeps

\* The destructors return, and the protection is undone; a failure to is
\* reported and nothing else.
Unprotect ==
  /\ In("unload", "body")
  /\ \E p \in {FALSE} \cup (IF Inner.l \in Broken THEN {si[Inner.l].relro} ELSE {}) :
       si' = [si EXCEPT ![Inner.l].relro = p]
  /\ calls' = At("loop")
  /\ UNCHANGED <<result, owner, held>> /\ Keeps

\* The entry is cleared, which a protected page does not permit, and the
\* library it led to is given up.
UnloadNeeded ==
  /\ In("unload", "loop") /\ Inner.d <= Entries
  /\ IF si[Inner.l].relro THEN calls' = At("fault") /\ UNCHANGED <<si, owner>>
     ELSE ToUnload(EntryOf, NextEntry)
  /\ UNCHANGED <<result, held>> /\ Keeps

Unloaded ==
  /\ In("unload", "loop") /\ Inner.d > Entries
  /\ si' = [si EXCEPT ![Inner.l] = Absent]
  /\ Returned(Outer)
  /\ UNCHANGED <<result, held>> /\ Keeps

-----------------------------------------------------------------------------

TwoPhaseNext ==
  \/ \E t \in Caller, l \in File : dlopen(t, l) \/ dlclose(t, l)
  \/ FindKnown \/ LoadLibrary \/ LoadFails
  \/ NeedNext \/ NeedBound \/ LinkFails \/ Linked
  \/ OpenFails \/ OpenFound \/ ConstructNeeded \/ ConstructOwn \/ Constructed \/ OpenReturns
  \/ CloseAgain \/ Unprotect \/ UnloadNeeded \/ Unloaded

TwoPhaseSpec == TwoPhaseInit /\ [][TwoPhaseNext]_twoPhaseVars

-----------------------------------------------------------------------------
(* Properties.                                                             *)

Constructing(l)  == \E f \in Ranges(calls) : f.fn = "constructors" /\ f.l = l /\ f.at = "body"
Unloading(l)     == \E f \in Ranges(calls) : f.fn = "unload" /\ f.l = l

\* A library's constructors run, and ran, after those of all it needs: only a
\* library that a constructor loads meets those under way around it.
DepsConstructedFirst ==
  \A l \in File : (Constructing(l) \/ si[l].done) /\ ~Unloading(l) =>
    \A n \in Ranges(needs[l]) :
      si[n].done \/ \E f \in Ranges(calls) : f.fn = "constructors" /\ f.l = n

\* What a library needs and what a handle is of is linked, and so is a library
\* whose constructor runs: "constructor recursion" does not take it away.
HandlesLive ==
  /\ \A l \in File : held[l] > 0 \/ Constructing(l) => si[l].flags = "LINKED"
  /\ \A l \in File : si[l].flags = "LINKED" /\ ~Unloading(l) =>
       \A n \in Ranges(needs[l]) : si[n].flags = "LINKED"

\* Clearing an entry never meets a protected page, if the system lets the
\* linker undo its own protection.
NoRelroFault == \A f \in Ranges(calls) : f.at = "fault" => f.l \in Broken
=============================================================================
