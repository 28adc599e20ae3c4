---------------------------- MODULE UnwindReaders ----------------------------
(***************************************************************************)
(* android_dl_unwind_find_exidx (ics/linker.c), called by the C++ unwinder *)
(* of any thread: it walks solist without dl_lock while the owner of the   *)
(* lock loads and unloads libraries.  Each step of the walk reads one      *)
(* soinfo and then its next pointer, which free_info reuses for freelist.  *)
(***************************************************************************)
EXTENDS Linker

CONSTANT Reader   \* threads that unwind

VARIABLE walk     \* the walk of each reader, see Walk

(* at: the soinfo looked at next; addr: the region of the pc looked up;    *)
(* found: the result.  owner, steady and freed are kept for the            *)
(* properties: the library whose code is unwound, whether it stayed        *)
(* linked, and whether any soinfo was freed since the walk began.          *)
Walk == [state : {"off", "on", "done"}, at : Slot \cup {NULL}, addr : Region \cup {NoRegion},
         found : Slot \cup {NULL}, owner : Slot \cup {NULL}, steady : BOOLEAN, freed : BOOLEAN]

Off == [state |-> "off", at |-> NULL, addr |-> NoRegion, found |-> NULL,
        owner |-> NULL, steady |-> FALSE, freed |-> FALSE]

UnwindInit == Init /\ walk = [u \in Reader |-> Off]

\* si->next: the successor in whichever list si is.
NextIn(list, s) ==
  LET later == {i \in DOMAIN list : i > 1 /\ list[i - 1] = s}
  IN  IF later = {} THEN NULL ELSE list[Min(later)]

next(s) == IF s \in Loaded THEN NextIn(solist, s) ELSE NextIn(freelist, s)

\* The soinfos at which a walk for r ends, and the end of the list.
Stops(r) == {s \in Slot : base[s] = r} \cup {NULL}

\* An exception is unwound through a frame of a linked library.
BeginWalk(u) ==
  /\ walk[u].state = "off"
  /\ \E s \in Linked \ {LibdlInfo} :
       /\ handles[s] > 0
       /\ walk' = [walk EXCEPT ![u] =
            [state |-> "on", at |-> solist[1], addr |-> base[s], found |-> NULL,
             owner |-> s, steady |-> TRUE, freed |-> FALSE]]
  /\ UNCHANGED vars

\* Slip: a soinfo that covers the address is passed over.
StepWalkPasses(u) ==
  /\ walk[u].state = "on"
  /\ walk[u].at # NULL
  /\ walk' = [walk EXCEPT ![u].at = next(walk[u].at)]
  /\ UNCHANGED vars

\* The soinfo does not cover the address: on to the next.
StepWalk(u) ==
  /\ walk[u].state = "on"
  /\ walk[u].at \notin Stops(walk[u].addr)
  /\ walk' = [walk EXCEPT ![u].at = next(walk[u].at)]
  /\ UNCHANGED vars

\* Slip: the place of the image is returned in place of its library.
EndWalkReturnsPlace(u) ==
  /\ walk[u].state = "on"
  /\ walk[u].at \in Stops(walk[u].addr)
  /\ walk' = [walk EXCEPT ![u].state = "done", ![u].found = walk[u].addr]
  /\ UNCHANGED vars

\* It does, or the list is at its end.
EndWalk(u) ==
  /\ walk[u].state = "on"
  /\ walk[u].at \in Stops(walk[u].addr)
  /\ walk' = [walk EXCEPT ![u].state = "done", ![u].found = walk[u].at]
  /\ UNCHANGED vars

ForgetWalk(u) ==
  /\ walk[u].state = "done"
  /\ walk' = [walk EXCEPT ![u] = Off]
  /\ UNCHANGED vars

\* A step of the linker, and what the walks under way saw of it.
LinkerRuns ==
  /\ Next
  /\ walk' = [u \in Reader |->
       IF walk[u].state # "on" THEN walk[u]
       ELSE [walk[u] EXCEPT !.steady = @ /\ walk[u].owner \in Linked',
                            !.freed  = @ \/ Len(freelist') > Len(freelist)]]

UnwindNext ==
  \/ LinkerRuns
  \/ \E u \in Reader : BeginWalk(u) \/ StepWalk(u) \/ EndWalk(u) \/ ForgetWalk(u)

unwindVars == <<vars, walk>>
UnwindSpec == UnwindInit /\ [][UnwindNext]_unwindVars

-----------------------------------------------------------------------------
\* The walk variables hold values of their types.
WalkTypeOK == walk \in [Reader -> Walk]

\* Loading libraries never disturbs a walk: as long as no soinfo is freed the
\* unwinder finds the library whose code it unwinds, unless a library that
\* failed to link left the same addresses behind.
LoadsDoNotDisturb ==
  \A u \in Reader :
    walk[u].state = "done" /\ walk[u].steady /\ ~walk[u].freed
      => \/ walk[u].found = walk[u].owner
         \/ walk[u].found \in Failed

\* The unwinder finds the library a pc belongs to (linker.c: "For a given PC,
\* find the .so that it belongs to") as long as that library is loaded.
UnwindFindsOwner ==
  \A u \in Reader :
    walk[u].state = "done" /\ walk[u].steady => walk[u].found = walk[u].owner
=============================================================================
