----------------------------- MODULE TwoPhaseInv -----------------------------
(***************************************************************************)
(* The inductive invariant of TwoPhase: why a library that is held, needed  *)
(* or being constructed stays linked.                                      *)
(***************************************************************************)
EXTENDS TwoPhase

Is(i, fn)   == calls[i].fn = fn
Needed(k)   == DOMAIN needs[k]
IsLinked(l) == si[l].flags = "LINKED"

-----------------------------------------------------------------------------
\* Which activation stands on which, and where that one is.

OpenShape(i) ==
  /\ calls[i].at \in {"find", "found", "open"}
  /\ i > 1 => Is(i - 1, "constructors") /\ calls[i - 1].at = "body" /\ calls[i - 1].opened = NIL

LinkShape(i) ==
  /\ calls[i].at \in {"find", "found", "loop"}
  /\ calls[i].d \in 1 .. Len(needs[calls[i].l]) + 1
  /\ calls[i].at # "loop" => calls[i].d \in Needed(calls[i].l)
  /\ i > 1 /\ calls[i - 1].at = "found"
  /\ \/ Is(i - 1, "dlopen") /\ calls[i - 1].l = calls[i].l
     \/ Is(i - 1, "link_image") /\ needs[calls[i - 1].l][calls[i - 1].d] = calls[i].l

ConstructShape(i) ==
  /\ calls[i].at \in {"loop", "body"}
  /\ calls[i].d \in 1 .. Len(needs[calls[i].l]) + 1
  /\ calls[i].at = "body" => calls[i].d > Len(needs[calls[i].l])
  /\ i > 1
  /\ \/ Is(i - 1, "dlopen") /\ calls[i - 1].at = "open" /\ calls[i - 1].l = calls[i].l
     \/ Is(i - 1, "constructors") /\ calls[i - 1].at = "loop"

UnloadShape(i) ==
  /\ calls[i].at \in {"body", "loop", "fault"}
  /\ calls[i].d \in 1 .. Len(needs[calls[i].l]) + 1
  /\ i > 1 => \/ Is(i - 1, "constructors") /\ calls[i - 1].at = "body"
              \/ Is(i - 1, "unload") /\ calls[i - 1].at = "loop"

FrameShape(i) ==
  /\ Is(i, "dlopen")       => OpenShape(i)
  /\ Is(i, "link_image")   => LinkShape(i)
  /\ Is(i, "constructors") => ConstructShape(i)
  /\ Is(i, "unload")       => UnloadShape(i)
  /\ calls[i].opened # NIL => Is(i, "constructors") /\ calls[i].at = "body"

StackShape == \A i \in DOMAIN calls : FrameShape(i)

\* Nothing but its like stands on a link_image or an unload, of other libraries.
StackOrder ==
  \A i, j \in DOMAIN calls : i < j =>
    /\ Is(i, "link_image") => Is(j, "link_image") /\ calls[i].l # calls[j].l
    /\ Is(i, "unload")     => Is(j, "unload")     /\ calls[i].l # calls[j].l

StackFlags ==
  \A i \in DOMAIN calls :
    /\ Is(i, "link_image")                          => si[calls[i].l].flags = "loaded"
    /\ Is(i, "dlopen") /\ calls[i].at = "open"      => IsLinked(calls[i].l)
    /\ Is(i, "constructors")                        => IsLinked(calls[i].l) /\ si[calls[i].l].called
    /\ Is(i, "unload")                              => IsLinked(calls[i].l)

FoundIsLinked ==
  calls # <<>> /\ Inner.at = "found" /\ result # NIL => result = Wanted /\ IsLinked(result)

\* dl_lock is held for the whole of a call, whose handle the program has room for.
LockHeld ==
  /\ owner = NoCaller <=> calls = <<>>
  /\ \A i \in DOMAIN calls : i = 1 /\ Is(i, "dlopen") => held[calls[i].l] < MaxHeld

-----------------------------------------------------------------------------
\* What is unloaded, or will be when it is closed again, needs nothing of which
\* the dlopen has not returned.

UnderWay(i, l) == ~Is(i, "unload") /\ calls[i].l \in Closure(l)

UnloadsApart ==
  \A i, j \in DOMAIN calls :
    /\ i < j /\ Is(j, "unload") => ~UnderWay(i, calls[j].l)
    /\ i < j /\ Is(j, "dlopen") /\ calls[j - 1].l \in Balanced => ~UnderWay(i, calls[j].l)
    /\ i <= j /\ calls[j].opened # NIL /\ calls[j].l \in Balanced => ~UnderWay(i, calls[j].opened)

-----------------------------------------------------------------------------
\* References: an entry of a library that is linked, or as far as it is linked,
\* and that unloading has not yet come to; a constructor's; a handle.

Bound(k, e) ==
  /\ e \in Needed(k)
  /\ \/ IsLinked(k) /\ \A j \in DOMAIN calls : Is(j, "unload") /\ calls[j].l = k => calls[j].d <= e
     \/ \E j \in DOMAIN calls : Is(j, "link_image") /\ calls[j].l = k /\ e < calls[j].d

EntriesOn(l) == {x \in UNION {{k} \X Needed(k) : k \in File} : Bound(x[1], x[2]) /\ needs[x[1]][x[2]] = l}
OpenersOf(l) == {i \in DOMAIN calls : calls[i].opened = l}
Refs(l)      == held[l] + Cardinality(EntriesOn(l)) + Cardinality(OpenersOf(l))

\* Also references nobody has any more are counted: of failed links, of
\* constructors that left open what they opened.
RefcountCovers == \A l \in File : si[l].refcount >= Refs(l)

UnloadsLast == \A j \in DOMAIN calls : Is(j, "unload") => si[calls[j].l].refcount = 1 /\ Refs(calls[j].l) = 0

ReferencedLinked == \A l \in File : Refs(l) > 0 => IsLinked(l)

-----------------------------------------------------------------------------

\* Constructors: called once linked, and to be called of what a library needs
\* before they are of the library.
CalledLinked == \A l \in File : si[l].done \/ si[l].called => IsLinked(l)

CalledOrDone ==
  \A l \in File : si[l].called => si[l].done \/ \E i \in DOMAIN calls : Is(i, "constructors") /\ calls[i].l = l

DoneNeeds ==
  \A l \in File : si[l].done /\ (\A j \in DOMAIN calls : Is(j, "unload") => calls[j].l # l) =>
    \A e \in Needed(l) : si[needs[l][e]].called

ConstructingNeeds ==
  \A i \in DOMAIN calls : Is(i, "constructors") =>
    \A e \in Needed(calls[i].l) : e < calls[i].d => si[needs[calls[i].l][e]].called

Unprotected ==
  \A j \in DOMAIN calls : Is(j, "unload") /\ calls[j].at # "body" =>
    (si[calls[j].l].relro \/ calls[j].at = "fault" => calls[j].l \in Broken)

TwoPhaseIInv ==
  /\ TwoPhaseTypeOK
  /\ StackShape /\ StackOrder /\ StackFlags /\ FoundIsLinked /\ LockHeld
  /\ UnloadsApart
  /\ RefcountCovers /\ UnloadsLast /\ ReferencedLinked
  /\ CalledLinked /\ CalledOrDone /\ DoneNeeds /\ ConstructingNeeds
  /\ Unprotected
=============================================================================
