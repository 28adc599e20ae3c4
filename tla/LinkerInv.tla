------------------------------ MODULE LinkerInv ------------------------------
(***************************************************************************)
(* The inductive invariant of Linker.  RefcountAccounts and PoolConserved  *)
(* are not inductive by themselves: that the count of a soinfo drops to    *)
(* zero exactly when nobody refers to it depends on how far each           *)
(* activation of link_image or unload_library has come in its DT_NEEDED    *)
(* loop, and on which soinfos can be counted at all.                       *)
(***************************************************************************)
EXTENDS Linker

Active == {stack[k].si : k \in 1..Len(stack)}

\* Where an activation has to be on the stack, and where none may be.
InLink   == {"map", "link", "need", "needed", "reloc", "init"}
InUnload == {"fini", "drop", "release"}
AtRest   == {"idle", "opened", "closed"}

\* The entries an activation has bound, or has not yet dropped.
EntriesMatch(f) ==
  /\ f.d \in 1..Len(Needs(f.si)) + 1
  /\ \A i \in Entry :
       dyn[f.si][i] # NULL <=>
         IF f.fn = "link" THEN i < f.d ELSE f.d <= i /\ i <= Len(Needs(f.si))

\* The activations are of different soinfos of solist, each with the entries
\* its loop has come to.  A suspended link_image waits for one of its entries
\* and is not linked yet; a soinfo being unloaded has its last reference.
StackShape ==
  /\ \A k \in 1..Len(stack) :
       /\ stack[k].si \in Loaded /\ stack[k].si # LibdlInfo
       /\ EntriesMatch(stack[k])
       /\ k < Len(stack) /\ stack[k].fn = "link" =>
            flags[stack[k].si] = "none" /\ stack[k].d <= Len(Needs(stack[k].si))
       /\ stack[k].fn = "unload" => flags[stack[k].si] = "LINKED" /\ refcount[stack[k].si] = 1
  /\ \A j, k \in 1..Len(stack) : stack[j].si = stack[k].si => j = k

\* The control is in the kind of activation that is on the stack, where the
\* innermost one says.
ControlShape ==
  /\ pc \in Opening => \A k \in 1..Len(stack) : stack[k].fn = "link"
  /\ pc \in Closing => \A k \in 1..Len(stack) : stack[k].fn = "unload"
  /\ pc \in InLink \cup InUnload => stack # <<>>
  /\ pc \in AtRest => stack = <<>>
  /\ stack # <<>> /\ pc \in Opening \ {"init"} => flags[Top.si] = "none"
  /\ stack # <<>> /\ pc \in {"find", "needed"} => Top.d <= Len(Needs(Top.si))
  /\ pc = "map" => Top.d = 1
  /\ pc \in {"reloc", "init"} => Top.d > Len(Needs(Top.si))
  /\ pc = "init" => flags[Top.si] = "LINKED"
  /\ pc = "release" => Top.d > Len(Needs(Top.si))

\* Only linked libraries of solist are ever referred to.
ReferencedLinked == \A s \in Slot : refcount[s] > 0 => s \in Linked

\* gdb's list names each linked library once.
DebugMapExact ==
  IsInjective(dbgmap) /\ Range(dbgmap) = Linked \ {LibdlInfo}

\* A soinfo on freelist, or never used, refers to nothing.
FreeUnbound == \A s \in Slot \ Loaded : dyn[s] = Unbound

\* A linked library that is not being unloaded has all its entries bound.
LinkedBound ==
  \A s \in Linked \ Active : \A i \in 1..Len(Needs(s)) : dyn[s][i] # NULL

EntriesWithin ==
  \A s \in Slot, i \in Entry : dyn[s][i] # NULL => i <= Len(Needs(s))

LibdlFixed == soname[LibdlInfo] = Libdl /\ flags[LibdlInfo] = "LINKED"

\* The soinfo on its way from find_library or to unload_library.
SoValid ==
  /\ pc \in {"needed", "opened"} => so = NULL \/ so \in Linked
  /\ pc = "find" => want \in Lib
  /\ pc \in {"unload", "crashed"} => so \in Slot

IInv ==
  /\ TypeOK
  /\ PoolConserved
  /\ RefcountAccounts
  /\ StackShape
  /\ ControlShape
  /\ ReferencedLinked
  /\ DebugMapExact
  /\ FreeUnbound
  /\ LinkedBound
  /\ EntriesWithin
  /\ LibdlFixed
  /\ SoValid

-----------------------------------------------------------------------------
(* The order of constructors, destructors and unloads.  That what a linked *)
(* library needs is initialised depends on which soinfos are on their way  *)
(* in or out, and that nothing outlives its last handle on the order in    *)
(* which the libraries of a dependency graph were linked.                  *)

\* The innermost activation is running constructors, or destructors, or waits
\* for dl_lock in one of them.
Constructing(s) == stack # <<>> /\ s = Top.si /\ Top.fn = "link"   /\ pc \in {"init", "stuck"}
Destructing(s)  == stack # <<>> /\ s = Top.si /\ Top.fn = "unload" /\ pc \in {"fini", "stuck"}

\* What is not linked yet is on the stack.
HalfLinked == \A s \in Loaded : flags[s] = "none" => s \in Active

\* A linked library without references is on its way to its first one.
FirstReference ==
  \A s \in Linked \ {LibdlInfo} :
    refcount[s] = 0 => Constructing(s) \/ (pc \in {"needed", "opened"} /\ so = s)

\* A library is initialised from the end of its constructors to that of its
\* destructors, which run before it drops what it needs.
InitedSpan ==
  /\ \A s \in Slot : inited[s] => s \in Linked
  /\ \A s \in Linked \ Active : Ready(s)
  /\ \A s \in Active : inited[s] => Destructing(s)
  /\ \A s \in Slot : Destructing(s) => Top.d = 1
  /\ \A s \in Slot : Constructing(s) => flags[s] = "LINKED" /\ refcount[s] = 0 /\ Top.d > Len(Needs(s))

\* Only unload_library crashes.
CrashUnloading == pc = "crashed" => \A k \in 1..Len(stack) : stack[k].fn = "unload"

\* A library is linked after those it needs.
DependenciesFirst ==
  \A j, k \in DOMAIN dbgmap : \A i \in Entry : dyn[dbgmap[j]][i] = dbgmap[k] => k < j

\* An image belongs to a library that was mapped there and did not fail.
BeingMapped(s) == pc = "map" /\ s = Top.si

ImagesOwned ==
  \A r \in Region : mem[r] # NULL =>
    mem[r] \in Loaded \ {LibdlInfo} /\ flags[mem[r]] # "ERROR" /\ base[mem[r]] = r /\ ~BeingMapped(mem[r])

OrderInv ==
  /\ IInv
  /\ HalfLinked
  /\ FirstReference
  /\ InitedSpan
  /\ CrashUnloading
  /\ DependenciesFirst
  /\ ImagesOwned

-----------------------------------------------------------------------------
(* Images stay where they are when no two prelinked files ask for the same *)
(* place and the kernel hands out no place of theirs.                      *)
PrelinksApart ==
  \A l \in Lib : Prelink[l] # NoRegion =>
    Prelink[l] \notin KernelRegion /\ \A k \in Lib : Prelink[k] = Prelink[l] => k = l

\* A library is where its file asks to be, or where the kernel found room.
BasesChosen ==
  \A s \in Loaded \ {LibdlInfo} :
    IF Prelink[soname[s]] # NoRegion THEN base[s] = Prelink[soname[s]]
    ELSE BeingMapped(s) \/ base[s] \in KernelRegion

ImagesInPlace ==
  \A s \in Loaded \ {LibdlInfo} :
    flags[s] # "ERROR" /\ ~BeingMapped(s) => base[s] \in Region /\ mem[base[s]] = s

MappedInv == OrderInv /\ UniqueNames /\ BasesChosen /\ ImagesInPlace
=============================================================================
