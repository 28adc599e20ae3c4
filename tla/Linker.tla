------------------------------- MODULE Linker -------------------------------
(***************************************************************************)
(* The ICS dynamic linker of hybris (ics/linker.c) behind its dlfcn        *)
(* interface (ics/dlfcn.c): the soinfo pool, the list of loaded            *)
(* libraries, the load of a library with its DT_NEEDED closure, and the    *)
(* unload of a library whose last reference goes away.                     *)
(*                                                                         *)
(* android_dlopen and android_dlclose hold dl_lock from their first to     *)
(* their last step, but the steps are kept apart: constructors and         *)
(* destructors run in the middle of them, dl_unwind_find_exidx reads the   *)
(* list without the lock (module UnwindReaders), and each step can fail.   *)
(* The C recursion link_image -> find_library -> link_image, and that of   *)
(* unload_library, is an explicit stack of activations.                    *)
(***************************************************************************)
EXTENDS Integers, FiniteSets, SequencesExt

CONSTANTS
  Thread,        \* threads of the process
  NoThread,      \* owner of dl_lock when it is free
  Lib,           \* basenames of library files, the key find_library uses
  Libdl, Libc,   \* "libdl.so" and "libc.so": the names the code singles out
  Region,        \* places in the address space that hold one image
  KernelRegion,  \* the regions mmap(NULL, ...) may choose
  NoRegion,      \* si->base = 0
  Prelink,       \* Lib -> the base a prelinked file asks for, or NoRegion
  DepGraph,      \* the possible DT_NEEDED lists of the installed files
  Faulty,        \* files whose loading or linking may go wrong
  Reentrant,     \* files whose constructors or destructors call dl*()
  SO_MAX,        \* size of sopool
  MaxNeeded,     \* bound: DT_NEEDED entries of one file
  MaxHandles,    \* bound: handles the clients hold on one library
  NULL           \* the null soinfo pointer

Entry     == 1..MaxNeeded
Slot      == 0..SO_MAX      \* libdl_info and the elements of sopool
LibdlInfo == 0

ASSUME SizesAssumption  == SO_MAX \in Nat /\ MaxNeeded \in Nat /\ MaxHandles \in Nat
ASSUME NullAssumption   == NULL \notin Slot \cup Lib /\ NoRegion \notin Region /\ NoThread \notin Thread
ASSUME LibAssumption    == Libdl \in Lib /\ Faulty \subseteq Lib \ {Libdl} /\ Reentrant \subseteq Lib
ASSUME RegionAssumption == KernelRegion \subseteq Region /\ Prelink \in [Lib -> Region \cup {NoRegion}]
ASSUME GraphAssumption  ==
  \A g \in DepGraph : /\ g \in [Lib -> Seq(Lib)]
                      /\ g[Libdl] = <<>>
                      /\ \A l \in Lib : Len(g[l]) <= MaxNeeded

VARIABLES
  needed,    \* the DT_NEEDED lists of the files, fixed for a behaviour
  solist,    \* the soinfos of the list solist .. sonext, in order
  freelist,  \* the freed soinfos, most recently freed first
  socount,   \* elements of sopool ever used
  soname,    \* si->name
  flags,     \* si->flags: "none", "LINKED" or "ERROR"
  refcount,  \* si->refcount
  dyn,       \* d[1] of the DT_NEEDED entries: a soinfo once bound, else NULL
  base,      \* si->base
  inited,    \* the constructors of si have returned, its destructors have not
  dbgmap,    \* the link_map list kept for gdb, from its first live element
  mem,       \* which soinfo's image is mapped at each region
  dl_lock,   \* owner of dl_lock
  pc,        \* where in the linker the owner of dl_lock is
  stack,     \* its activations of link_image or unload_library, innermost last
  want,      \* the name passed to find_library
  so,        \* the soinfo passed to unload_library, or just returned
  handles    \* the clients: dlopen results not yet passed to dlclose

fileVars  == <<needed>>
poolVars  == <<solist, freelist, socount>>
infoVars  == <<soname, flags, refcount, dyn, base, inited>>
ctlVars   == <<dl_lock, pc, stack, want, so>>
vars      == <<fileVars, poolVars, infoVars, dbgmap, mem, ctlVars, handles>>

-----------------------------------------------------------------------------
(* Locations of the control.                                               *)

Opening  == {"find", "map", "link", "need", "needed", "reloc", "init", "opened"}
Closing  == {"unload", "fini", "drop", "release", "closed"}
\* "stuck": a constructor or destructor waits for the dl_lock its own thread
\* holds.  "crashed": SIGSEGV.  Nothing leaves either.
Location == {"idle", "stuck", "crashed"} \cup Opening \cup Closing

Activation == [fn : {"link", "unload"}, si : Slot, d : Nat]

Top       == stack[Len(stack)]
Push(f)   == stack' = Append(stack, f)
Pop       == stack' = SubSeq(stack, 1, Len(stack) - 1)
AdvanceD  == stack' = [stack EXCEPT ![Len(stack)].d = @ + 1]
Needs(s)  == needed[soname[s]]

Loaded    == Range(solist)
Unbound   == [i \in Entry |-> NULL]

(* The two returns of the recursion: find_library hands a soinfo or NULL   *)
(* to link_image or android_dlopen, unload_library goes back to the loop   *)
(* of unload_library or to android_dlclose.  depth is the number of        *)
(* activations left.                                                       *)
FindReturns(r, depth) ==
  /\ so' = r
  /\ pc' = IF depth = 0 THEN "opened" ELSE "needed"

\* dl_lock is released and the call returns: its locals are gone.
Unlock ==
  /\ dl_lock' = NoThread
  /\ pc' = "idle"
  /\ want' = NULL
  /\ so' = NULL

UnloadReturns(depth) == pc' = IF depth = 0 THEN "closed" ELSE "drop"

(* alloc_info: the head of freelist, or the next unused element of sopool, *)
(* cleared and appended to solist.  Disabled when the pool is exhausted.   *)
PoolFull == freelist = <<>> /\ socount = SO_MAX

alloc_info(s, l) ==
  /\ \/ /\ freelist # <<>>
        /\ s = Head(freelist)
        /\ freelist' = Tail(freelist)
        /\ UNCHANGED socount
     \/ /\ freelist = <<>>
        /\ socount < SO_MAX
        /\ s = socount + 1
        /\ socount' = socount + 1
        /\ UNCHANGED freelist
  /\ solist'   = Append(solist, s)
  /\ soname'   = [soname EXCEPT ![s] = l]
  /\ flags'    = [flags EXCEPT ![s] = "none"]
  /\ refcount' = [refcount EXCEPT ![s] = 0]
  /\ dyn'      = [dyn EXCEPT ![s] = Unbound]
  /\ base'     = [base EXCEPT ![s] = Prelink[l]]
  /\ inited'   = [inited EXCEPT ![s] = FALSE]

(* free_info: out of solist, in front of freelist, its fields left alone.  *)
Unlink(list, s) ==
  RemoveAt(list, CHOOSE i \in DOMAIN list : list[i] = s)

\* Slip: the soinfo is pushed on freelist but not taken out of solist.
free_info_Listed(s) ==
  /\ freelist' = <<s>> \o freelist
  /\ UNCHANGED <<solist, socount>>

free_info(s) ==
  /\ solist'   = Unlink(solist, s)
  /\ freelist' = <<s>> \o freelist
  /\ UNCHANGED socount

\* link_map entries go to the end of gdb's list and are taken out of it.
notify_gdb_of_load(s)   == dbgmap' = Append(dbgmap, s)
notify_gdb_of_unload(s) == dbgmap' = Unlink(dbgmap, s)

munmap(r) == mem' = IF r \in Region THEN [mem EXCEPT ![r] = NULL] ELSE mem

-----------------------------------------------------------------------------
Init ==
  /\ needed   \in DepGraph
  /\ solist   = <<LibdlInfo>>
  /\ freelist = <<>>
  /\ socount  = 0
  /\ soname   = [s \in Slot |-> Libdl]
  /\ flags    = [s \in Slot |-> IF s = LibdlInfo THEN "LINKED" ELSE "none"]
  /\ refcount = [s \in Slot |-> 0]
  /\ dyn      = [s \in Slot |-> Unbound]
  /\ base     = [s \in Slot |-> NoRegion]
  /\ inited   = [s \in Slot |-> s = LibdlInfo]
  /\ dbgmap   = <<>>
  /\ mem      = [r \in Region |-> NULL]
  /\ dl_lock  = NoThread
  /\ pc       = "idle"
  /\ stack    = <<>>
  /\ want     = NULL
  /\ so       = NULL
  /\ handles  = [s \in Slot |-> 0]

-----------------------------------------------------------------------------
(* android_dlopen *)

\* Takes dl_lock and calls find_library.
Dlopen(t, l) ==
  /\ pc = "idle"
  /\ dl_lock = NoThread
  /\ dl_lock' = t
  /\ want' = l
  /\ pc' = "find"
  /\ UNCHANGED <<fileVars, poolVars, infoVars, dbgmap, mem, stack, so, handles>>

\* Slip: a half-linked soinfo is waited for, not reported as recursion.
FindKnownWaits ==
  /\ pc = "find"
  /\ \E s \in Loaded :
       /\ soname[s] = want
       /\ flags[s] # "none"
       /\ FindReturns(IF flags[s] = "LINKED" THEN s ELSE NULL, Len(stack))
  /\ UNCHANGED <<fileVars, poolVars, infoVars, dbgmap, mem, dl_lock, stack, want, handles>>

\* Slip: the soinfo of an earlier failure is freed when its name comes up again.
FindKnownFrees ==
  /\ pc = "find"
  /\ \E s \in Loaded :
       /\ soname[s] = want
       /\ FindReturns(IF flags[s] = "LINKED" THEN s ELSE NULL, Len(stack))
       /\ IF flags[s] = "ERROR" THEN free_info(s) ELSE UNCHANGED poolVars
  /\ UNCHANGED <<fileVars, infoVars, dbgmap, mem, dl_lock, stack, want, handles>>

\* A soinfo of that name exists: linked it is the result; failed before, or
\* still being linked further up the stack, the result is NULL.
FindKnown ==
  /\ pc = "find"
  /\ \E s \in Loaded :
       /\ soname[s] = want
       /\ FindReturns(IF flags[s] = "LINKED" THEN s ELSE NULL, Len(stack))
  /\ UNCHANGED <<fileVars, poolVars, infoVars, dbgmap, mem, dl_lock, stack, want, handles>>

\* Slip: a name that failed before is looked for on disk once more.
LoadLibraryRetries ==
  /\ pc = "find"
  /\ \A s \in Loaded : soname[s] = want => flags[s] = "ERROR"
  /\ \E s \in Slot :
       /\ alloc_info(s, want)
       /\ Push([fn |-> "link", si |-> s, d |-> 1])
  /\ pc' = "map"
  /\ UNCHANGED <<fileVars, dbgmap, mem, dl_lock, want, so, handles>>

\* load_library up to alloc_mem_region: the new soinfo is in solist.
LoadLibrary ==
  /\ pc = "find"
  /\ \A s \in Loaded : soname[s] # want
  /\ \E s \in Slot :
       /\ alloc_info(s, want)
       /\ Push([fn |-> "link", si |-> s, d |-> 1])
  /\ pc' = "map"
  /\ UNCHANGED <<fileVars, dbgmap, mem, dl_lock, want, so, handles>>

\* load_library gives up before it has a soinfo: the file is missing or is
\* no ELF object, or the pool is exhausted.
LoadRefused ==
  /\ pc = "find"
  /\ \A s \in Loaded : soname[s] # want
  /\ want \in Faulty \/ PoolFull
  /\ FindReturns(NULL, Len(stack))
  /\ UNCHANGED <<fileVars, poolVars, infoVars, dbgmap, mem, dl_lock, stack, want, handles>>

(* alloc_mem_region: a prelinked file is mapped with MAP_FIXED at the base *)
(* it names, whatever is there; any other where the kernel finds room.     *)
(* What becomes of a library whose image is overlaid (its code, its entries *)
(* and its callbacks are no longer its own) is not modelled.               *)
MmapChoice(l) ==
  IF Prelink[l] # NoRegion THEN {Prelink[l]}
  ELSE {r \in KernelRegion : mem[r] = NULL}

\* alloc_mem_region and load_segments succeed.
MapLibrary ==
  /\ pc = "map"
  /\ \E r \in MmapChoice(soname[Top.si]) :
       /\ base' = [base EXCEPT ![Top.si] = r]
       /\ mem'  = [mem EXCEPT ![r] = Top.si]
  /\ pc' = "link"
  /\ UNCHANGED <<fileVars, poolVars, soname, flags, refcount, dyn, inited, dbgmap,
                 dl_lock, stack, want, so, handles>>

\* alloc_mem_region fails: load_library frees the soinfo again.
ReserveFails ==
  /\ pc = "map"
  /\ soname[Top.si] \in Faulty \/ MmapChoice(soname[Top.si]) = {}
  /\ free_info(Top.si)
  /\ Pop
  /\ FindReturns(NULL, Len(stack) - 1)
  /\ UNCHANGED <<fileVars, infoVars, dbgmap, mem, dl_lock, want, handles>>

\* load_segments fails: it unmaps the region and load_library frees the soinfo.
SegmentsFail ==
  /\ pc = "map"
  /\ soname[Top.si] \in Faulty
  /\ \E r \in MmapChoice(soname[Top.si]) :
       /\ base' = [base EXCEPT ![Top.si] = r]
       /\ munmap(r)
  /\ flags' = [flags EXCEPT ![Top.si] = "ERROR"]
  /\ free_info(Top.si)
  /\ Pop
  /\ FindReturns(NULL, Len(stack) - 1)
  /\ UNCHANGED <<fileVars, soname, refcount, dyn, inited, dbgmap, dl_lock, want, handles>>

(* link_image *)

\* The failure exit of link_image and what init_library does about it: the
\* image is unmapped, the soinfo stays in solist with its base and size, and
\* the references taken on dependencies stay taken.
LinkFails ==
  /\ flags' = [flags EXCEPT ![Top.si] = "ERROR"]
  /\ munmap(base[Top.si])
  /\ Pop
  /\ FindReturns(NULL, Len(stack) - 1)
  /\ UNCHANGED <<fileVars, poolVars, soname, refcount, dyn, base, inited, dbgmap,
                 dl_lock, want, handles>>

\* The dynamic section is read: no PT_DYNAMIC, DT_RELA, a missing table fail.
ParseDynamic ==
  /\ pc = "link"
  /\ pc' = "need"
  /\ UNCHANGED <<fileVars, poolVars, infoVars, dbgmap, mem, dl_lock, stack, want, so, handles>>

ParseFails ==
  /\ pc = "link"
  /\ soname[Top.si] \in Faulty
  /\ LinkFails

\* The loop over the DT_NEEDED entries calls find_library for the next one ...
NeedNext ==
  /\ pc = "need"
  /\ Top.d <= Len(Needs(Top.si))
  /\ want' = Needs(Top.si)[Top.d]
  /\ pc' = "find"
  /\ UNCHANGED <<fileVars, poolVars, infoVars, dbgmap, mem, dl_lock, stack, so, handles>>

\* Slip: the reference of the entry is not counted.
NeedBoundUncounted ==
  /\ pc = "needed"
  /\ so # NULL
  /\ dyn' = [dyn EXCEPT ![Top.si][Top.d] = so]
  /\ AdvanceD
  /\ pc' = "need"
  /\ UNCHANGED <<fileVars, poolVars, soname, flags, refcount, base, inited, dbgmap, mem,
                 dl_lock, want, so, handles>>

\* ... saves the soinfo in the entry and takes a reference ...
NeedBound ==
  /\ pc = "needed"
  /\ so # NULL
  /\ dyn' = [dyn EXCEPT ![Top.si][Top.d] = so]
  /\ refcount' = [refcount EXCEPT ![so] = @ + 1]
  /\ AdvanceD
  /\ pc' = "need"
  /\ UNCHANGED <<fileVars, poolVars, soname, flags, base, inited, dbgmap, mem,
                 dl_lock, want, so, handles>>

\* ... and fails if there is none.
NeedMissing ==
  /\ pc = "needed"
  /\ so = NULL
  /\ LinkFails

\* Slip: the loop ends one entry early.
NeedDoneEarly ==
  /\ pc = "need"
  /\ Top.d >= Len(Needs(Top.si))
  /\ pc' = "reloc"
  /\ UNCHANGED <<fileVars, poolVars, infoVars, dbgmap, mem, dl_lock, stack, want, so, handles>>

NeedDone ==
  /\ pc = "need"
  /\ Top.d > Len(Needs(Top.si))
  /\ pc' = "reloc"
  /\ UNCHANGED <<fileVars, poolVars, infoVars, dbgmap, mem, dl_lock, stack, want, so, handles>>

\* reloc_library succeeds: FLAG_LINKED, notify_gdb_of_load, call_constructors.
Relocate ==
  /\ pc = "reloc"
  /\ flags' = [flags EXCEPT ![Top.si] = "LINKED"]
  /\ notify_gdb_of_load(Top.si)
  /\ pc' = "init"
  /\ UNCHANGED <<fileVars, poolVars, soname, refcount, dyn, base, inited, mem,
                 dl_lock, stack, want, so, handles>>

\* A symbol is undefined or a relocation type unknown.
RelocateFails ==
  /\ pc = "reloc"
  /\ soname[Top.si] \in Faulty
  /\ LinkFails

\* The constructors have returned (those of libc.so are not called).
ConstructorsDone ==
  /\ pc = "init"
  /\ inited' = [inited EXCEPT ![Top.si] = soname[Top.si] # Libc]
  /\ Pop
  /\ FindReturns(Top.si, Len(stack) - 1)
  /\ UNCHANGED <<fileVars, poolVars, soname, flags, refcount, dyn, base, dbgmap, mem,
                 dl_lock, want, handles>>

\* A constructor or destructor calls dlopen, dlclose, dlsym or dladdr: dl_lock
\* is an ordinary mutex and its owner waits for itself.
CallbackReenters ==
  /\ \/ pc = "init" /\ soname[Top.si] # Libc
     \/ pc = "fini"
  /\ soname[Top.si] \in Reentrant
  /\ pc' = "stuck"
  /\ UNCHANGED <<fileVars, poolVars, infoVars, dbgmap, mem, dl_lock, stack, want, so, handles>>

\* Slip: the handle is returned without a reference of its own.
DlopenReturnsUncounted ==
  /\ pc = "opened"
  /\ handles' = IF so = NULL THEN handles ELSE [handles EXCEPT ![so] = @ + 1]
  /\ Unlock
  /\ UNCHANGED <<fileVars, poolVars, infoVars, dbgmap, mem, stack>>

\* android_dlopen counts the handle it returns and releases dl_lock.
DlopenReturns ==
  /\ pc = "opened"
  /\ IF so = NULL
       THEN UNCHANGED <<refcount, handles>>
       ELSE /\ refcount' = [refcount EXCEPT ![so] = @ + 1]
            /\ handles' = [handles EXCEPT ![so] = @ + 1]
  /\ Unlock
  /\ UNCHANGED <<fileVars, poolVars, soname, flags, dyn, base, inited, dbgmap, mem, stack>>

-----------------------------------------------------------------------------
(* android_dlclose *)

\* Takes dl_lock and calls unload_library.  A client closes a handle it has.
Dlclose(t, s) ==
  /\ pc = "idle"
  /\ dl_lock = NoThread
  /\ handles[s] > 0
  /\ handles' = [handles EXCEPT ![s] = @ - 1]
  /\ dl_lock' = t
  /\ so' = s
  /\ pc' = "unload"
  /\ UNCHANGED <<fileVars, poolVars, infoVars, dbgmap, mem, stack, want>>

\* unload_library, other references remain.
Unreference ==
  /\ pc = "unload"
  /\ refcount[so] # 1
  /\ refcount' = [refcount EXCEPT ![so] = @ - 1]
  /\ UnloadReturns(Len(stack))
  /\ UNCHANGED <<fileVars, poolVars, soname, flags, dyn, base, inited, dbgmap, mem,
                 dl_lock, stack, want, so, handles>>

\* Slip: off by one, the last but one reference unloads too.
UnloadLastButOne ==
  /\ pc = "unload"
  /\ refcount[so] <= 2
  /\ so # LibdlInfo
  /\ Push([fn |-> "unload", si |-> so, d |-> 1])
  /\ pc' = "fini"
  /\ UNCHANGED <<fileVars, poolVars, infoVars, dbgmap, mem, dl_lock, want, so, handles>>

\* unload_library, the last reference: call_destructors.
UnloadLast ==
  /\ pc = "unload"
  /\ refcount[so] = 1
  /\ so # LibdlInfo
  /\ Push([fn |-> "unload", si |-> so, d |-> 1])
  /\ pc' = "fini"
  /\ UNCHANGED <<fileVars, poolVars, infoVars, dbgmap, mem, dl_lock, want, so, handles>>

\* The static libdl_info has no dynamic section: the loop reads through NULL.
UnloadLibdl ==
  /\ pc = "unload"
  /\ refcount[so] = 1
  /\ so = LibdlInfo
  /\ pc' = "crashed"
  /\ UNCHANGED <<fileVars, poolVars, infoVars, dbgmap, mem, dl_lock, stack, want, so, handles>>

DestructorsDone ==
  /\ pc = "fini"
  /\ inited' = [inited EXCEPT ![Top.si] = FALSE]
  /\ pc' = "drop"
  /\ UNCHANGED <<fileVars, poolVars, soname, flags, refcount, dyn, base, dbgmap, mem,
                 dl_lock, stack, want, so, handles>>

\* Slip: the entry is cleared, what it named is not unloaded.
DropNextOnlyClears ==
  /\ pc = "drop"
  /\ Top.d <= Len(Needs(Top.si))
  /\ dyn' = [dyn EXCEPT ![Top.si][Top.d] = NULL]
  /\ AdvanceD
  /\ UNCHANGED <<fileVars, poolVars, soname, flags, refcount, base, inited, dbgmap, mem,
                 dl_lock, pc, want, so, handles>>

\* The loop over the DT_NEEDED entries: clear the entry, unload what it named.
DropNext ==
  /\ pc = "drop"
  /\ Top.d <= Len(Needs(Top.si))
  /\ so' = dyn[Top.si][Top.d]
  /\ dyn' = [dyn EXCEPT ![Top.si][Top.d] = NULL]
  /\ AdvanceD
  /\ pc' = "unload"
  /\ UNCHANGED <<fileVars, poolVars, soname, flags, refcount, base, inited, dbgmap, mem,
                 dl_lock, want, handles>>

DropDone ==
  /\ pc = "drop"
  /\ Top.d > Len(Needs(Top.si))
  /\ pc' = "release"
  /\ UNCHANGED <<fileVars, poolVars, infoVars, dbgmap, mem, dl_lock, stack, want, so, handles>>

\* Slip: gdb is not told of the unload.
ReleaseSilently ==
  /\ pc = "release"
  /\ munmap(base[Top.si])
  /\ free_info(Top.si)
  /\ refcount' = [refcount EXCEPT ![Top.si] = 0]
  /\ Pop
  /\ UnloadReturns(Len(stack) - 1)
  /\ UNCHANGED <<fileVars, soname, flags, dyn, base, inited, dbgmap, dl_lock, want, so, handles>>

\* munmap, notify_gdb_of_unload, free_info, refcount = 0.
Release ==
  /\ pc = "release"
  /\ munmap(base[Top.si])
  /\ notify_gdb_of_unload(Top.si)
  /\ free_info(Top.si)
  /\ refcount' = [refcount EXCEPT ![Top.si] = 0]
  /\ Pop
  /\ UnloadReturns(Len(stack) - 1)
  /\ UNCHANGED <<fileVars, soname, flags, dyn, base, inited, dl_lock, want, so, handles>>

DlcloseReturns ==
  /\ pc = "closed"
  /\ Unlock
  /\ UNCHANGED <<fileVars, poolVars, infoVars, dbgmap, mem, stack, handles>>

-----------------------------------------------------------------------------
(* android_dladdr and RTLD_NEXT, between two calls: the first soinfo of    *)
(* solist whose base and size cover the address.  A soinfo that failed to  *)
(* link still has them.                                                    *)
find_containing_library(r) ==
  LET hits == {i \in DOMAIN solist : base[solist[i]] = r}
  IN  IF hits = {} THEN NULL ELSE solist[Min(hits)]

-----------------------------------------------------------------------------
\* Bound: a client does not open a library it holds MaxHandles times.
MayOpen(l) == \A s \in Loaded : soname[s] = l => handles[s] < MaxHandles

Calls ==
  \/ \E t \in Thread, l \in Lib : MayOpen(l) /\ Dlopen(t, l)
  \/ \E t \in Thread, s \in Slot : Dlclose(t, s)

OpenSteps ==
  \/ FindKnown \/ LoadLibrary \/ LoadRefused
  \/ MapLibrary \/ ReserveFails \/ SegmentsFail
  \/ ParseDynamic \/ ParseFails
  \/ NeedNext \/ NeedBound \/ NeedMissing \/ NeedDone
  \/ Relocate \/ RelocateFails
  \/ ConstructorsDone \/ DlopenReturns

CloseSteps ==
  \/ Unreference \/ UnloadLast \/ UnloadLibdl
  \/ DestructorsDone \/ DropNext \/ DropDone \/ Release
  \/ DlcloseReturns

LinkerSteps == OpenSteps \/ CloseSteps \/ CallbackReenters

Next == Calls \/ LinkerSteps

Spec == Init /\ [][Next]_vars

(* The owner of dl_lock keeps running, and constructors and destructors    *)
(* return unless they wait for dl_lock.  Clients need never call.          *)
FairSpec == Spec /\ WF_vars(LinkerSteps)

-----------------------------------------------------------------------------
(* Properties.                                                             *)

\* The DT_NEEDED entries, of whatever soinfo, that hold s in their payload.
Edges(s) == {e \in Slot \X Entry : dyn[e[1]][e[2]] = s}

\* s is being unloaded, or its last counted reference was just given up.
Unloading(s) == \E k \in 1..Len(stack) : stack[k].fn = "unload" /\ stack[k].si = s
GivenUp(s)   == pc \in {"unload", "crashed"} /\ so = s

Mapped(s)   == s = LibdlInfo \/ (base[s] \in Region /\ mem[base[s]] = s)
Usable(s)   == s \in Loaded /\ flags[s] = "LINKED" /\ Mapped(s)
Ready(s)    == inited[s] \/ soname[s] = Libc
Linked      == {s \in Loaded : flags[s] = "LINKED"}
Failed      == {s \in Loaded : flags[s] = "ERROR"}

\* The variables hold values of their types.
TypeOK ==
  /\ needed   \in DepGraph
  /\ solist   \in Seq(Slot)
  /\ freelist \in Seq(Slot)
  /\ socount  \in 0..SO_MAX
  /\ soname   \in [Slot -> Lib]
  /\ flags    \in [Slot -> {"none", "LINKED", "ERROR"}]
  /\ refcount \in [Slot -> Nat]
  /\ dyn      \in [Slot -> [Entry -> Slot \cup {NULL}]]
  /\ base     \in [Slot -> Region \cup {NoRegion}]
  /\ inited   \in [Slot -> BOOLEAN]
  /\ dbgmap   \in Seq(Slot)
  /\ mem      \in [Region -> Slot \cup {NULL}]
  /\ dl_lock  \in Thread \cup {NoThread}
  /\ pc       \in Location
  /\ stack    \in Seq(Activation)
  /\ want     \in Lib \cup {NULL}
  /\ so       \in Slot \cup {NULL}
  /\ handles  \in [Slot -> Nat]

\* Every soinfo ever taken from sopool is in exactly one of solist and
\* freelist, once, and libdl_info stays at the head of solist (free_info
\* relies on it to have a predecessor): nothing is lost or listed twice
\* however loads fail and unloads cascade.
PoolConserved ==
  /\ solist # <<>> /\ solist[1] = LibdlInfo
  /\ IsInjective(solist) /\ IsInjective(freelist)
  /\ Loaded \cap Range(freelist) = {}
  /\ Loaded \cup Range(freelist) = 0..socount

\* find_library finds at most one soinfo of a name, half-linked ones included.
UniqueNames ==
  \A s, u \in Loaded : soname[s] = soname[u] => s = u

\* refcount is the number of references: the handles clients hold and the
\* DT_NEEDED payloads that point here, those of libraries that failed to link
\* included, plus the one unload_library is about to give up.
RefcountAccounts ==
  \A s \in Slot :
    refcount[s] = Cardinality(Edges(s)) + handles[s]
                    + (IF Unloading(s) THEN 1 ELSE 0) + (IF GivenUp(s) THEN 1 ELSE 0)

\* A soinfo saved in a DT_NEEDED entry can be followed at any time: it is in
\* the list, linked, and its image is mapped.
NoDanglingNeeded ==
  \A s \in Slot, i \in Entry : dyn[s][i] # NULL => Usable(dyn[s][i])

\* What dlopen returned stays good until it is closed as often as opened:
\* linked, mapped, its constructors run and its destructors not yet.
HandlesUsable ==
  \A s \in Slot : handles[s] > 0 => Usable(s) /\ Ready(s)

\* Constructors run in dependency order: when those of s run, or have run and
\* its destructors have not, all its DT_NEEDED libraries are initialised.
ConstructorOrder ==
  \A s \in Loaded \ {LibdlInfo} :
    inited[s] \/ (pc = "init" /\ s = Top.si)
      => \A i \in 1..Len(Needs(s)) : dyn[s][i] # NULL /\ Ready(dyn[s][i])

\* Destructors run in the opposite order: when those of s run nobody that is
\* linked still needs s, and all that s needs is still initialised.
DestructorOrder ==
  pc = "fini" =>
    /\ Edges(Top.si) = {} /\ handles[Top.si] = 0
    /\ \A i \in 1..Len(Needs(Top.si)) :
         dyn[Top.si][i] # NULL /\ Ready(dyn[Top.si][i])

\* Between two calls no library is half-linked, gdb's list names exactly the
\* linked libraries, and each of them is in use.
SettledWhenIdle ==
  pc = "idle" =>
    /\ \A s \in Loaded : flags[s] \in {"LINKED", "ERROR"}
    /\ Range(dbgmap) = Linked \ {LibdlInfo} /\ IsInjective(dbgmap)
    /\ \A s \in Linked \ {LibdlInfo} : refcount[s] > 0

\* dlclose undoes dlopen: when all handles are closed and no link ever failed,
\* every library and every image is gone again.
AllClosedAllUnloaded ==
  (pc = "idle" /\ Failed = {} /\ \A s \in Slot : handles[s] = 0)
    => solist = <<LibdlInfo>> /\ \A r \in Region : mem[r] = NULL

\* A library that failed to link keeps its entry and its flag for good: every
\* later attempt to load that name is refused.
FailureIsFinal ==
  [][\A s \in Slot : s \in Failed => s \in Failed' /\ soname'[s] = soname[s]]_vars

\* dladdr attributes an address in a mapped image to the library mapped there
\* (dlfcn.c: "Determine if this address can be found in any library currently
\* mapped").
DladdrNamesOwner ==
  pc = "idle" =>
    \A r \in Region : mem[r] # NULL => find_containing_library(r) = mem[r]

\* libdl_info is static and first in solist for good (linker.c: "prev will
\* never be NULL, because the first entry in solist is always the static
\* libdl_info"): unload_library never takes its last reference away.
LibdlNeverUnloaded ==
  ~(pc = "unload" /\ so = LibdlInfo /\ refcount[LibdlInfo] = 1)

\* A prelinked library whose place is taken goes elsewhere (linker.c: "can NOT
\* map prelinked library as requested, will try general pool"): no image is
\* mapped over another.
NoImageOverlaid ==
  [][\A r \in Region : mem[r] # NULL => mem'[r] \in {mem[r], NULL}]_vars

\* Every call gives dl_lock back, whatever the shape of the dependency graph,
\* unless a callback waits for it or the process dies.
LockReleased ==
  dl_lock # NoThread ~> (dl_lock = NoThread \/ pc \in {"stuck", "crashed"})
=============================================================================
