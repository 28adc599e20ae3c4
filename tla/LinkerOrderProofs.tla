--------------------------- MODULE LinkerOrderProofs ---------------------------
(***************************************************************************)
(* Proofs about the order of things in Linker: constructors before those   *)
(* of the libraries that need them, destructors after, no library left     *)
(* behind by the last dlclose, and the images of libraries in use in their *)
(* place.  They rest on OrderInv and MappedInv of LinkerInv.  What the     *)
(* walks of UnwindReaders find while nothing is freed rests on UnwindInv.  *)
(***************************************************************************)
EXTENDS LinkerProofs, UnwindReaders

-----------------------------------------------------------------------------
(* The stack and the control.                                              *)

\* Entering an activation.
LEMMA PushActive ==
  ASSUME IInv, NEW f \in Activation, Push(f)
  PROVE  Active' = Active \cup {f.si} /\ Top' = f /\ stack' # <<>>
<1>1. TypeOK
  BY DEF IInv
<1>2. /\ stack' # <<>> /\ Len(stack') = Len(stack) + 1 /\ Len(stack) \in Nat
      /\ \A k \in 1..Len(stack) : stack'[k] = stack[k]
      /\ stack'[Len(stack) + 1] = f
  BY <1>1, PushFacts
<1>3. \A n \in Nat : 1..n + 1 = 1..n \cup {n + 1}
  OBVIOUS
<1>4. 1..Len(stack') = 1..Len(stack) \cup {Len(stack) + 1}
  BY <1>2, <1>3
<1>5. Active' = {stack'[k].si : k \in 1..Len(stack')}
  BY DEF Active
<1>6. Active \cup {f.si} \subseteq Active'
  BY <1>2, <1>4 DEF Active
<1>7. Active' \subseteq Active \cup {f.si}
  BY <1>2, <1>4 DEF Active
<1>8. Top' = f
  BY <1>2 DEF Top
<1> QED BY <1>2, <1>6, <1>7, <1>8

\* Moving to the next DT_NEEDED entry.
LEMMA AdvanceActive ==
  ASSUME IInv, stack # <<>>, AdvanceD
  PROVE  Active' = Active /\ stack' # <<>>
<1>1. /\ Len(stack') = Len(stack) /\ stack' # <<>>
      /\ \A k \in 1..Len(stack) : stack'[k].si = stack[k].si
  BY AdvanceFacts DEF IInv
<1> QED BY <1>1 DEF Active

\* Whose activation the innermost one is.
LEMMA TopKind ==
  ASSUME IInv, stack # <<>>
  PROVE  /\ Top.si \in Active /\ Top.si \in Loaded /\ Top.si \in Slot /\ Top.si # LibdlInfo
         /\ EntriesMatch(Top) /\ Top \in Activation
         /\ pc \in Opening => Top.fn = "link"
         /\ pc \in Closing => Top.fn = "unload"
         /\ pc \in Opening \ {"init"} => flags[Top.si] = "none"
         /\ Top.fn = "unload" => flags[Top.si] = "LINKED" /\ refcount[Top.si] = 1
<1>1. /\ Len(stack) \in 1..Len(stack) /\ Top = stack[Len(stack)] /\ Top \in Activation
      /\ Top.si \in Loaded /\ Top.si # LibdlInfo /\ Top.si \in Slot /\ EntriesMatch(Top)
  BY TopFacts DEF IInv
<1>2. Top.si \in Active
  BY <1>1 DEF Active
<1>3. /\ pc \in Opening => Top.fn = "link"
      /\ pc \in Closing => Top.fn = "unload"
      /\ pc \in Opening \ {"init"} => flags[Top.si] = "none"
  BY <1>1 DEF IInv, ControlShape
<1>4. Top.fn = "unload" => flags[Top.si] = "LINKED" /\ refcount[Top.si] = 1
  BY <1>1 DEF IInv, StackShape
<1> QED BY <1>1, <1>2, <1>3, <1>4

\* Leaving one.
LEMMA PopActive ==
  ASSUME IInv, stack # <<>>, Pop
  PROVE  Active = Active' \cup {Top.si} /\ Top.si \notin Active'
  BY PopShape DEF IInv

LEMMA LinkedSlots == IInv => Linked \subseteq Slot /\ Loaded \subseteq Slot /\ NULL \notin Slot
  BY RangeOfSeq, NullAssumption DEF IInv, TypeOK, Linked, Loaded

-----------------------------------------------------------------------------
(* Steps that only move the control.                                       *)

\* Between find_library and the constructors no soinfo waits for its first
\* reference, and none is in its constructors or destructors.
Passing == pc \notin {"init", "fini", "stuck", "needed", "opened"}
Arrived == pc \notin {"init", "fini", "stuck", "map", "crashed"}

LEMMA NoneWaiting ==
  ASSUME OrderInv, Passing
  PROVE  /\ \A s \in Linked \ {LibdlInfo} : refcount[s] # 0
         /\ \A s \in Active : ~inited[s]
  BY DEF OrderInv, Passing, FirstReference, InitedSpan, Constructing, Destructing

\* What is left to show when constructors are neither begun nor ended.
LEMMA ArrivedSpan ==
  ASSUME Arrived',
         \A s \in Linked' \ {LibdlInfo} : refcount'[s] # 0,
         \A s \in Slot : inited'[s] => s \in Linked',
         \A s \in Linked' \ Active' : Ready(s)',
         \A s \in Active' : ~inited'[s]
  PROVE  FirstReference' /\ InitedSpan' /\ CrashUnloading'
  BY DEF Arrived, FirstReference, InitedSpan, CrashUnloading, Constructing, Destructing

LEMMA QuietOrder ==
  ASSUME OrderInv, IInv', Passing, pc' = "crashed" \/ Arrived',
         UNCHANGED <<solist, soname, flags, refcount, dyn, base, inited, dbgmap, mem, stack>>,
         pc' = "crashed" => pc = "unload"
  PROVE  OrderInv'
<1>1. Loaded' = Loaded /\ Linked' = Linked /\ Active' = Active
  BY DEF Loaded, Linked, Active
<1>2. HalfLinked' /\ DependenciesFirst'
  BY <1>1 DEF OrderInv, HalfLinked, DependenciesFirst
<1>3. FirstReference' /\ InitedSpan'
  <2>1. pc' \notin {"init", "fini", "stuck", "map"}
    BY DEF Arrived
  <2> QED BY <1>1, <2>1 DEF OrderInv, Passing, FirstReference, InitedSpan, Constructing, Destructing, Ready
<1>4. CrashUnloading'
  BY DEF OrderInv, IInv, ControlShape, Closing, CrashUnloading, Arrived
<1>5. ImagesOwned'
  BY <1>1 DEF OrderInv, ImagesOwned, BeingMapped, Arrived
<1> QED BY <1>2, <1>3, <1>4, <1>5 DEF OrderInv

LEMMA QuietActions ==
  ASSUME OrderInv, IInv',
         \/ \E t \in Thread, l \in Lib : Dlopen(t, l)
         \/ \E t \in Thread, s \in Slot : Dlclose(t, s)
         \/ FindKnown \/ LoadRefused \/ ParseDynamic \/ NeedNext \/ NeedDone
         \/ UnloadLibdl \/ DropDone \/ DlcloseReturns
  PROVE  OrderInv'
<1>1. /\ UNCHANGED <<solist, soname, flags, refcount, dyn, base, inited, dbgmap, mem, stack>>
      /\ Passing /\ (pc' = "crashed" \/ Arrived') /\ (pc' = "crashed" => pc = "unload")
  BY DEF Dlopen, Dlclose, FindKnown, LoadRefused, ParseDynamic, NeedNext, NeedDone, UnloadLibdl, DropDone,
         DlcloseReturns, FindReturns, Unlock, Passing, Arrived, fileVars, poolVars, infoVars
<1> QED BY <1>1, QuietOrder

\* A callback that waits for dl_lock is still the callback of its library.
LEMMA CallbackOrder ==
  ASSUME OrderInv, IInv', CallbackReenters
  PROVE  OrderInv'
<1>1. /\ UNCHANGED <<solist, soname, flags, refcount, dyn, base, inited, dbgmap, mem, stack>>
      /\ pc \in {"init", "fini"} /\ pc' = "stuck"
  BY DEF CallbackReenters, fileVars, poolVars, infoVars
<1>2. Loaded' = Loaded /\ Linked' = Linked /\ Active' = Active /\ Top' = Top
  BY <1>1 DEF Loaded, Linked, Active, Top
<1>3. \A s \in Slot : (Constructing(s)' <=> Constructing(s)) /\ (Destructing(s)' <=> Destructing(s))
  BY <1>1, <1>2, TopKind DEF Constructing, Destructing, OrderInv, Opening, Closing
<1>4. HalfLinked' /\ DependenciesFirst'
  BY <1>1, <1>2 DEF OrderInv, HalfLinked, DependenciesFirst
<1>5. FirstReference'
  BY <1>1, <1>2, <1>3, LinkedSlots DEF OrderInv, FirstReference
<1>6. InitedSpan'
  <2>1. \A s \in Active : s \in Slot
    BY StackElems DEF OrderInv, IInv, Active
  <2>2. \A s \in Slot : Needs(s)' = Needs(s)
    BY DEF CallbackReenters, fileVars, infoVars, Needs
  <2> QED BY <1>1, <1>2, <1>3, <2>1, <2>2 DEF OrderInv, InitedSpan, Ready
<1>7. CrashUnloading' /\ ImagesOwned'
  BY <1>1, <1>2 DEF OrderInv, CrashUnloading, ImagesOwned, BeingMapped
<1> QED BY <1>4, <1>5, <1>6, <1>7 DEF OrderInv
-----------------------------------------------------------------------------
(* Steps of android_dlopen.                                                *)

\* No image is where the unmapped one was but its own.
LEMMA UnmapOwned ==
  ASSUME OrderInv, NEW s \in Slot, munmap(base[s]), UNCHANGED base, pc' # "map",
         Loaded \ {s} \subseteq Loaded',
         \A u \in Slot \ {s} : flags'[u] = flags[u]
  PROVE  ImagesOwned'
<1> SUFFICES ASSUME NEW r \in Region, mem'[r] # NULL
             PROVE  mem'[r] \in Loaded' \ {LibdlInfo} /\ flags'[mem'[r]] # "ERROR" /\ base'[mem'[r]] = r
  BY DEF ImagesOwned, BeingMapped
<1>1. r # base[s] /\ mem'[r] = mem[r]
  <2>1. mem \in [Region -> Slot \cup {NULL}]
    BY DEF OrderInv, IInv, TypeOK
  <2> QED BY <2>1 DEF munmap
<1>2. mem[r] \in Loaded \ {LibdlInfo} /\ flags[mem[r]] # "ERROR" /\ base[mem[r]] = r
  BY <1>1 DEF OrderInv, ImagesOwned
<1>3. mem[r] # s /\ mem[r] \in Slot
  BY <1>1, <1>2, LinkedSlots DEF OrderInv
<1> QED BY <1>1, <1>2, <1>3

LEMMA LinkFailsOrder ==
  ASSUME OrderInv, IInv', LinkFails, pc \in {"link", "needed", "reloc"}, pc = "needed" => so = NULL
  PROVE  OrderInv'
<1>1. /\ UNCHANGED <<solist, soname, refcount, dyn, base, inited, dbgmap>> /\ Pop /\ munmap(base[Top.si])
      /\ flags' = [flags EXCEPT ![Top.si] = "ERROR"] /\ pc' \in {"opened", "needed"}
  BY DEF LinkFails, FindReturns, poolVars
<1>2. /\ stack # <<>> /\ Top.si \in Slot /\ flags[Top.si] = "none"
      /\ Active = Active' \cup {Top.si} /\ Top.si \notin Active'
  BY <1>1, TopKind, PopActive DEF OrderInv, IInv, ControlShape, InLink, Opening
<1>3. \A u \in Slot : flags'[u] = IF u = Top.si THEN "ERROR" ELSE flags[u]
  BY <1>1 DEF OrderInv, IInv, TypeOK
<1>4. Loaded' = Loaded /\ Linked' = Linked /\ Linked \subseteq Slot /\ Loaded \subseteq Slot /\ NULL \notin Slot
  BY <1>1, <1>2, <1>3, LinkedSlots DEF Loaded, Linked, OrderInv
<1>5. HalfLinked'
  BY <1>2, <1>3, <1>4 DEF OrderInv, HalfLinked
<1>6. FirstReference' /\ InitedSpan' /\ CrashUnloading'
  <2>1. Arrived'
    BY <1>1 DEF Arrived
  <2>2. \A s \in Linked \ {LibdlInfo} : refcount[s] # 0
    BY <1>4 DEF OrderInv, FirstReference, Constructing
  <2>3. \A s \in Active : ~inited[s]
    BY DEF OrderInv, InitedSpan, Destructing
  <2>4. \A s \in Linked' \ Active' : Ready(s)'
    BY <1>1, <1>2, <1>4 DEF OrderInv, InitedSpan, Ready, Linked
  <2>5. \A s \in Slot : inited'[s] => s \in Linked'
    BY <1>1, <1>4 DEF OrderInv, InitedSpan
  <2> QED BY <1>1, <1>2, <1>4, <2>1, <2>2, <2>3, <2>4, <2>5, ArrivedSpan
<1>7. DependenciesFirst'
  BY <1>1 DEF OrderInv, DependenciesFirst
<1>8. ImagesOwned'
  BY <1>1, <1>2, <1>3, <1>4, UnmapOwned
<1> QED BY <1>5, <1>6, <1>7, <1>8 DEF OrderInv

LEMMA LinkFailures ==
  ASSUME OrderInv, IInv', ParseFails \/ NeedMissing \/ RelocateFails
  PROVE  OrderInv'
  BY LinkFailsOrder DEF ParseFails, NeedMissing, RelocateFails

LEMMA LoadLibraryOrder ==
  ASSUME OrderInv, IInv', LoadLibrary
  PROVE  OrderInv'
<1>1. pc = "find" /\ pc' = "map" /\ UNCHANGED <<dbgmap, mem>> /\ want \in Lib
  BY DEF LoadLibrary, OrderInv, IInv, SoValid
<1>2. PICK s \in Slot : alloc_info(s, want) /\ Push([fn |-> "link", si |-> s, d |-> 1])
  BY DEF LoadLibrary
<1>3. PICK l \in Lib : l = want
  BY <1>1
<1>4. /\ s \notin Loaded /\ Loaded' = Loaded \cup {s} /\ Linked' = Linked /\ dyn' = dyn /\ refcount' = refcount
      /\ \A u \in Slot : /\ soname'[u] = IF u = s THEN l ELSE soname[u]
                         /\ flags'[u] = IF u = s THEN "none" ELSE flags[u]
  BY <1>2, <1>3, AllocFacts DEF OrderInv
<1>5. \A u \in Slot : /\ base'[u] = IF u = s THEN Prelink[want] ELSE base[u]
                      /\ inited'[u] = IF u = s THEN FALSE ELSE inited[u]
  BY <1>2 DEF alloc_info, OrderInv, IInv, TypeOK
<1>6. PICK f \in Activation : f.si = s /\ f.fn = "link" /\ Push(f)
  BY <1>2 DEF Activation
<1>7. Active' = Active \cup {s} /\ Top'.si = s /\ Top'.fn = "link"
  BY <1>6, PushActive DEF OrderInv
<1>8. Linked \subseteq Slot /\ Loaded \subseteq Slot /\ Linked \subseteq Loaded /\ Active \subseteq Loaded
  BY LinkedSlots DEF OrderInv, Linked, Active, IInv, StackShape
<1>9. HalfLinked'
  BY <1>4, <1>7, <1>8 DEF OrderInv, HalfLinked
<1>10. (\A u \in Linked \ {LibdlInfo} : refcount[u] # 0) /\ (\A u \in Active : ~inited[u])
  BY <1>1, NoneWaiting DEF Passing
<1>11. FirstReference' /\ CrashUnloading'
  BY <1>1, <1>4, <1>10 DEF FirstReference, CrashUnloading
<1>12. InitedSpan'
  <2>1. \A u \in Slot : inited'[u] => u \in Linked'
    BY <1>4, <1>5 DEF OrderInv, InitedSpan
  <2>2. \A u \in Linked' \ Active' : Ready(u)'
    BY <1>4, <1>5, <1>7, <1>8 DEF OrderInv, InitedSpan, Ready
  <2>3. \A u \in Active' : ~inited'[u]
    BY <1>5, <1>7, <1>8, <1>10
  <2> QED BY <1>1, <2>1, <2>2, <2>3 DEF InitedSpan, Constructing, Destructing
<1>13. DependenciesFirst'
  BY <1>1, <1>4 DEF OrderInv, DependenciesFirst
<1>14. ImagesOwned'
  BY <1>1, <1>4, <1>5, <1>7, <1>8 DEF OrderInv, ImagesOwned, BeingMapped
<1> QED BY <1>9, <1>11, <1>12, <1>13, <1>14 DEF OrderInv

\* alloc_mem_region or load_segments fails: the soinfo is gone again.
LEMMA LoadFailsOrder ==
  ASSUME OrderInv, IInv', ReserveFails \/ SegmentsFail
  PROVE  OrderInv'
<1>1. /\ pc = "map" /\ pc' \in {"opened", "needed"} /\ free_info(Top.si) /\ Pop
      /\ UNCHANGED <<soname, refcount, dyn, inited, dbgmap>>
  BY DEF ReserveFails, SegmentsFail, FindReturns, infoVars
<1>2. /\ stack # <<>> /\ Top.si \in Slot /\ Top.si \in Loaded \ {LibdlInfo} /\ flags[Top.si] = "none"
      /\ Active = Active' \cup {Top.si} /\ Top.si \notin Active'
  BY <1>1, TopKind, PopActive DEF OrderInv, IInv, ControlShape, InLink, Opening
<1>3. PICK s \in Loaded \ {LibdlInfo} : s = Top.si
  BY <1>2
<1>4. /\ \A u \in Slot \ {s} : flags'[u] = flags[u] /\ base'[u] = base[u]
      /\ \A r \in Region : mem'[r] \in {mem[r], NULL}
  <2>1. CASE ReserveFails
    BY <2>1 DEF ReserveFails, infoVars
  <2>2. CASE SegmentsFail
    BY <2>2, <1>3 DEF SegmentsFail, munmap, OrderInv, IInv, TypeOK
  <2> QED BY <2>1, <2>2
<1>5. Loaded' = Loaded \ {s} /\ Loaded \subseteq Slot /\ Linked \subseteq Slot
  <2>1. free_info(s)
    BY <1>1, <1>3
  <2> QED BY <2>1, FreeFacts, LinkedSlots DEF OrderInv
<1>6. Linked' = Linked
  BY <1>2, <1>3, <1>4, <1>5 DEF Linked
<1>7. HalfLinked'
  BY <1>2, <1>3, <1>4, <1>5 DEF OrderInv, HalfLinked
<1>8. FirstReference' /\ InitedSpan' /\ CrashUnloading'
  <2>1. Arrived'
    BY <1>1 DEF Arrived
  <2>2. (\A u \in Linked \ {LibdlInfo} : refcount[u] # 0) /\ (\A u \in Active : ~inited[u])
    BY <1>1, NoneWaiting DEF Passing
  <2>3. \A u \in Linked' \ Active' : Ready(u)'
    BY <1>1, <1>2, <1>6 DEF OrderInv, InitedSpan, Ready, Linked
  <2>4. \A u \in Slot : inited'[u] => u \in Linked'
    BY <1>1, <1>6 DEF OrderInv, InitedSpan
  <2> QED BY <1>1, <1>2, <1>6, <2>1, <2>2, <2>3, <2>4, ArrivedSpan
<1>9. DependenciesFirst'
  BY <1>1 DEF OrderInv, DependenciesFirst
<1>10. ImagesOwned'
  BY <1>1, <1>3, <1>4, <1>5 DEF OrderInv, ImagesOwned, BeingMapped
<1> QED BY <1>7, <1>8, <1>9, <1>10 DEF OrderInv

LEMMA MapLibraryOrder ==
  ASSUME OrderInv, IInv', MapLibrary
  PROVE  OrderInv'
<1>1. /\ pc = "map" /\ pc' = "link"
      /\ UNCHANGED <<solist, soname, flags, refcount, dyn, inited, dbgmap, stack>>
  BY DEF MapLibrary, poolVars
<1>2. /\ stack # <<>> /\ Top.si \in Slot /\ Top.si \in Loaded \ {LibdlInfo} /\ flags[Top.si] = "none"
  BY <1>1, TopKind DEF OrderInv, IInv, ControlShape, InLink, Opening
<1>3. Loaded' = Loaded /\ Linked' = Linked /\ Active' = Active /\ Loaded \subseteq Slot
  BY <1>1, LinkedSlots DEF Loaded, Linked, Active, OrderInv
<1>4. HalfLinked' /\ DependenciesFirst'
  BY <1>1, <1>3 DEF OrderInv, HalfLinked, DependenciesFirst
<1>5. FirstReference' /\ InitedSpan' /\ CrashUnloading'
  <2>1. Arrived' /\ (\A u \in Linked \ {LibdlInfo} : refcount[u] # 0) /\ (\A u \in Active : ~inited[u])
    BY <1>1, NoneWaiting DEF Passing, Arrived
  <2>2. (\A u \in Linked' \ Active' : Ready(u)') /\ (\A u \in Slot : inited'[u] => u \in Linked')
    BY <1>1, <1>3 DEF OrderInv, InitedSpan, Ready
  <2> QED BY <1>1, <1>3, <2>1, <2>2, ArrivedSpan
<1>6. ImagesOwned'
  <2>1. PICK r : base' = [base EXCEPT ![Top.si] = r] /\ mem' = [mem EXCEPT ![r] = Top.si]
    BY DEF MapLibrary
  <2>2. \A u \in Slot : base'[u] = IF u = Top.si THEN r ELSE base[u]
    BY <2>1 DEF OrderInv, IInv, TypeOK
  <2>3. \A q \in Region : mem'[q] = IF q = r THEN Top.si ELSE mem[q]
    BY <2>1 DEF OrderInv, IInv, TypeOK
  <2> QED BY <1>1, <1>2, <1>3, <2>2, <2>3 DEF OrderInv, ImagesOwned, BeingMapped
<1> QED BY <1>4, <1>5, <1>6 DEF OrderInv
\* A DT_NEEDED entry is bound while its owner is not linked yet.
LEMMA NeedBoundOrder ==
  ASSUME OrderInv, IInv', NeedBound
  PROVE  OrderInv'
<1>1. /\ pc = "needed" /\ pc' = "need" /\ AdvanceD
      /\ dyn' = [dyn EXCEPT ![Top.si][Top.d] = so] /\ refcount' = [refcount EXCEPT ![so] = @ + 1]
      /\ UNCHANGED <<solist, soname, flags, base, inited, dbgmap, mem>>
  BY DEF NeedBound, poolVars
<1>2. /\ stack # <<>> /\ Top.si \in Slot /\ flags[Top.si] = "none" /\ Active' = Active
  BY <1>1, TopKind, AdvanceActive DEF OrderInv, IInv, ControlShape, InLink, Opening
<1>3. Loaded' = Loaded /\ Linked' = Linked /\ Linked \subseteq Slot
  BY <1>1, LinkedSlots DEF Loaded, Linked, OrderInv
<1>4. HalfLinked'
  BY <1>1, <1>2, <1>3 DEF OrderInv, HalfLinked
<1>5. FirstReference' /\ InitedSpan' /\ CrashUnloading'
  <2>1. \A u \in Linked \ {LibdlInfo} : refcount[u] = 0 => u = so
    BY <1>1 DEF OrderInv, FirstReference, Constructing
  <2>2. \A u \in Slot : refcount[u] \in Nat /\ refcount'[u] = IF u = so THEN refcount[u] + 1 ELSE refcount[u]
    BY <1>1 DEF OrderInv, IInv, TypeOK
  <2>3. \A u \in Linked' \ {LibdlInfo} : refcount'[u] # 0
    BY <1>3, <2>1, <2>2
  <2>4. Arrived' /\ (\A u \in Active : ~inited[u])
    BY <1>1 DEF OrderInv, InitedSpan, Destructing, Arrived
  <2>5. (\A u \in Linked' \ Active' : Ready(u)') /\ (\A u \in Slot : inited'[u] => u \in Linked')
    BY <1>1, <1>2, <1>3 DEF OrderInv, InitedSpan, Ready
  <2> QED BY <1>1, <1>2, <1>3, <2>3, <2>4, <2>5, ArrivedSpan
<1>6. DependenciesFirst'
  <2>1. \A j \in DOMAIN dbgmap : dbgmap[j] \in Slot \ {Top.si}
    <3>1. \A j \in DOMAIN dbgmap : dbgmap[j] \in Linked
      BY DEF OrderInv, IInv, DebugMapExact, Range
    <3> QED BY <1>2, <1>3, <3>1 DEF Linked
  <2>2. \A u \in Slot \ {Top.si} : dyn'[u] = dyn[u]
    BY <1>1 DEF OrderInv, IInv, TypeOK
  <2> QED BY <1>1, <2>1, <2>2 DEF OrderInv, DependenciesFirst
<1>7. ImagesOwned'
  BY <1>1, <1>3 DEF OrderInv, ImagesOwned, BeingMapped
<1> QED BY <1>4, <1>5, <1>6, <1>7 DEF OrderInv

\* A soinfo that is not linked is referred to by nobody, so that it may come
\* last in gdb's list.
LEMMA RelocateOrder ==
  ASSUME OrderInv, IInv', Relocate
  PROVE  OrderInv'
<1>1. /\ pc = "reloc" /\ pc' = "init"
      /\ flags' = [flags EXCEPT ![Top.si] = "LINKED"] /\ dbgmap' = Append(dbgmap, Top.si)
      /\ UNCHANGED <<needed, solist, soname, refcount, dyn, base, inited, mem, stack>>
  BY DEF Relocate, notify_gdb_of_load, poolVars, fileVars
<1>2. /\ stack # <<>> /\ Top.si \in Slot /\ flags[Top.si] = "none" /\ Top.fn = "link" /\ Top.si \in Active
      /\ Top.d > Len(Needs(Top.si)) /\ Top.si \in Loaded \ {LibdlInfo}
  BY <1>1, TopKind DEF OrderInv, IInv, ControlShape, InLink, Opening
<1>3. PICK top \in Slot : top = Top.si
  BY <1>2
<1>4. /\ \A u \in Slot : flags'[u] = IF u = top THEN "LINKED" ELSE flags[u]
      /\ Top' = Top /\ Active' = Active /\ Loaded' = Loaded /\ Linked \subseteq Slot /\ Loaded \subseteq Slot
  <2>1. \A u \in Slot : flags'[u] = IF u = top THEN "LINKED" ELSE flags[u]
    BY <1>1, <1>3 DEF OrderInv, IInv, TypeOK
  <2>2. Top' = Top /\ Active' = Active /\ Loaded' = Loaded
    BY <1>1 DEF Top, Active, Loaded
  <2> QED BY <2>1, <2>2, LinkedSlots DEF OrderInv
<1>5. Linked' = Linked \cup {top} /\ top \notin Linked
  BY <1>2, <1>3, <1>4 DEF Linked
<1>6. refcount[top] = 0 /\ Edges(top) = {}
  <2>1. refcount[top] \in Nat /\ ~(refcount[top] > 0)
    BY <1>5 DEF OrderInv, IInv, TypeOK, ReferencedLinked
  <2>2. Edges(top) = {}
    BY <1>5, ReachableFacts DEF ReachableLinked, OrderInv
  <2> QED BY <2>1, <2>2
<1>7. HalfLinked'
  BY <1>4 DEF OrderInv, HalfLinked
<1>8. (\A u \in Linked \ {LibdlInfo} : refcount[u] # 0) /\ (\A u \in Active : ~inited[u])
  BY <1>1, NoneWaiting DEF Passing
<1>9. Constructing(top)' /\ \A u \in Slot : Constructing(u)' => u = top
  BY <1>1, <1>2, <1>3, <1>4 DEF Constructing
<1>10. FirstReference'
  BY <1>1, <1>5, <1>8, <1>9 DEF FirstReference
<1>11. InitedSpan'
  <2>1. \A u \in Slot : inited'[u] => u \in Linked'
    BY <1>1, <1>5 DEF OrderInv, InitedSpan
  <2>2. \A u \in Linked' \ Active' : Ready(u)'
    BY <1>1, <1>2, <1>3, <1>4, <1>5 DEF OrderInv, InitedSpan, Ready
  <2>3. \A u \in Active' : ~inited'[u]
    BY <1>1, <1>4, <1>8
  <2>4. \A u \in Slot : ~Destructing(u)'
    BY <1>1 DEF Destructing
  <2>5. flags'[top] = "LINKED" /\ refcount'[top] = 0 /\ Top'.d > Len(Needs(top)')
    BY <1>1, <1>2, <1>3, <1>4, <1>6 DEF Needs
  <2> QED BY <1>9, <2>1, <2>2, <2>3, <2>4, <2>5 DEF InitedSpan
<1>12. DependenciesFirst'
  <2> SUFFICES ASSUME NEW j \in DOMAIN dbgmap', NEW k \in DOMAIN dbgmap', NEW i \in Entry,
                      dyn'[dbgmap'[j]][i] = dbgmap'[k]
               PROVE  k < j
    BY DEF DependenciesFirst
  <2>1. /\ Len(dbgmap) \in Nat /\ DOMAIN dbgmap = 1..Len(dbgmap)
        /\ j \in 1..Len(dbgmap) + 1 /\ k \in 1..Len(dbgmap) + 1
        /\ \A n \in 1..Len(dbgmap) : dbgmap'[n] = dbgmap[n] /\ dbgmap[n] \in Slot
        /\ dbgmap'[Len(dbgmap) + 1] = top
    <3>1. dbgmap \in Seq(Slot) /\ dbgmap' = Append(dbgmap, top)
      BY <1>1, <1>3 DEF OrderInv, IInv, TypeOK
    <3> QED BY <3>1, AppendProperties
  <2>2. dbgmap'[j] \in Slot
    BY <2>1
  <2>3. dbgmap'[k] # top
    <3>1. PICK p \in Slot : p = dbgmap'[j]
      BY <2>2
    <3>2. <<p, i>> \notin Edges(top)
      BY <1>6
    <3>3. dyn[p][i] # top
      BY <3>2 DEF Edges
    <3> QED BY <1>1, <3>1, <3>3
  <2>4. k \in 1..Len(dbgmap)
    BY <2>1, <2>3
  <2>5. CASE j \in 1..Len(dbgmap)
    BY <1>1, <2>1, <2>4, <2>5 DEF OrderInv, DependenciesFirst
  <2>6. CASE j = Len(dbgmap) + 1
    BY <2>1, <2>4, <2>6
  <2> QED BY <2>1, <2>5, <2>6
<1>13. CrashUnloading' /\ ImagesOwned'
  <2>1. \A r \in Region : mem'[r] # NULL => flags'[mem'[r]] # "ERROR"
    BY <1>1, <1>4 DEF OrderInv, ImagesOwned
  <2> QED BY <1>1, <1>4, <2>1 DEF OrderInv, CrashUnloading, ImagesOwned, BeingMapped
<1> QED BY <1>7, <1>10, <1>11, <1>12, <1>13 DEF OrderInv

LEMMA ConstructorsDoneOrder ==
  ASSUME OrderInv, IInv', ConstructorsDone
  PROVE  OrderInv'
<1>1. /\ pc = "init" /\ pc' \in {"opened", "needed"} /\ so' = Top.si /\ Pop
      /\ inited' = [inited EXCEPT ![Top.si] = soname[Top.si] # Libc]
      /\ UNCHANGED <<solist, soname, flags, refcount, dyn, base, dbgmap, mem>>
  BY DEF ConstructorsDone, FindReturns, poolVars
<1>2. /\ stack # <<>> /\ Top.si \in Slot /\ flags[Top.si] = "LINKED" /\ Top.si \in Loaded
      /\ Active = Active' \cup {Top.si} /\ Top.si \notin Active'
  BY <1>1, TopKind, PopActive DEF OrderInv, IInv, ControlShape, InLink
<1>3. PICK top \in Slot : top = Top.si
  BY <1>2
<1>4. /\ Loaded' = Loaded /\ Linked' = Linked /\ Linked \subseteq Slot /\ top \in Linked
      /\ \A u \in Slot : inited'[u] = IF u = top THEN soname[u] # Libc ELSE inited[u]
  BY <1>1, <1>2, <1>3, LinkedSlots DEF Loaded, Linked, OrderInv, IInv, TypeOK
<1>5. HalfLinked'
  BY <1>1, <1>2, <1>4 DEF OrderInv, HalfLinked
<1>6. FirstReference'
  <2>1. \A u \in Linked \ {LibdlInfo} : refcount[u] = 0 => u = top
    BY <1>1, <1>3 DEF OrderInv, FirstReference, Constructing
  <2> QED BY <1>1, <1>3, <1>4, <2>1 DEF FirstReference
<1>7. InitedSpan'
  <2>1. \A u \in Slot : inited'[u] => u \in Linked'
    BY <1>4 DEF OrderInv, InitedSpan
  <2>2. \A u \in Linked' \ Active' : Ready(u)'
    BY <1>1, <1>2, <1>3, <1>4 DEF OrderInv, InitedSpan, Ready
  <2>3. \A u \in Active' : ~inited'[u]
    <3>1. \A u \in Active : u \in Slot
      BY StackElems DEF OrderInv, IInv, Active
    <3>2. \A u \in Active : ~inited[u]
      BY <1>1, TopKind, <1>2 DEF OrderInv, InitedSpan, Destructing, Opening
    <3> QED BY <1>2, <1>3, <1>4, <3>1, <3>2
  <2> QED BY <1>1, <2>1, <2>2, <2>3 DEF InitedSpan, Constructing, Destructing
<1>8. DependenciesFirst' /\ CrashUnloading' /\ ImagesOwned'
  BY <1>1, <1>4 DEF OrderInv, DependenciesFirst, CrashUnloading, ImagesOwned, BeingMapped
<1> QED BY <1>5, <1>6, <1>7, <1>8 DEF OrderInv

LEMMA DlopenReturnsOrder ==
  ASSUME OrderInv, IInv', DlopenReturns
  PROVE  OrderInv'
<1>1. /\ pc = "opened" /\ pc' = "idle"
      /\ refcount' = refcount \/ refcount' = [refcount EXCEPT ![so] = @ + 1]
      /\ so = NULL \/ refcount' = [refcount EXCEPT ![so] = @ + 1]
      /\ UNCHANGED <<solist, soname, flags, dyn, base, inited, dbgmap, mem, stack>>
  BY DEF DlopenReturns, Unlock, poolVars
<1>2. Loaded' = Loaded /\ Linked' = Linked /\ Active' = Active /\ Linked \subseteq Slot /\ NULL \notin Slot
  BY <1>1, LinkedSlots DEF Loaded, Linked, Active, OrderInv
<1>3. HalfLinked' /\ DependenciesFirst' /\ ImagesOwned'
  BY <1>1, <1>2 DEF OrderInv, HalfLinked, DependenciesFirst, ImagesOwned, BeingMapped
<1>4. FirstReference' /\ InitedSpan' /\ CrashUnloading'
  <2>1. \A u \in Linked \ {LibdlInfo} : refcount[u] = 0 => u = so
    BY <1>1 DEF OrderInv, FirstReference, Constructing
  <2>2. \A u \in Slot : refcount[u] \in Nat
    BY DEF OrderInv, IInv, TypeOK
  <2>3. so # NULL => \A u \in Slot : refcount'[u] = IF u = so THEN refcount[u] + 1 ELSE refcount[u]
    BY <1>1 DEF OrderInv, IInv, TypeOK
  <2>4. \A u \in Linked' \ {LibdlInfo} : refcount'[u] # 0
    <3>1. CASE so = NULL
      <4>1. \A u \in Linked \ {LibdlInfo} : refcount[u] # 0
        BY <1>2, <2>1, <3>1
      <4>2. refcount' = refcount
        BY <3>1 DEF DlopenReturns
      <4> QED BY <1>2, <4>1, <4>2
    <3>2. CASE so # NULL
      BY <1>2, <2>1, <2>2, <2>3, <3>2
    <3> QED BY <3>1, <3>2
  <2>5. Arrived' /\ (\A u \in Active : ~inited[u])
    BY <1>1 DEF OrderInv, InitedSpan, Destructing, Arrived
  <2>6. (\A u \in Linked' \ Active' : Ready(u)') /\ (\A u \in Slot : inited'[u] => u \in Linked')
    BY <1>1, <1>2 DEF OrderInv, InitedSpan, Ready
  <2> QED BY <1>1, <1>2, <2>4, <2>5, <2>6, ArrivedSpan
<1> QED BY <1>3, <1>4 DEF OrderInv

-----------------------------------------------------------------------------
(* Steps of android_dlclose.                                               *)

LEMMA UnreferenceOrder ==
  ASSUME OrderInv, IInv', Unreference
  PROVE  OrderInv'
<1>1. /\ pc = "unload" /\ pc' \in {"closed", "drop"} /\ so \in Slot /\ refcount[so] # 1
      /\ refcount' = [refcount EXCEPT ![so] = @ - 1]
      /\ UNCHANGED <<solist, soname, flags, dyn, base, inited, dbgmap, mem, stack>>
  BY DEF Unreference, UnloadReturns, poolVars, OrderInv, IInv, SoValid
<1>2. Loaded' = Loaded /\ Linked' = Linked /\ Active' = Active /\ Linked \subseteq Slot
  BY <1>1, LinkedSlots DEF Loaded, Linked, Active, OrderInv
<1>3. HalfLinked' /\ DependenciesFirst' /\ ImagesOwned'
  BY <1>1, <1>2 DEF OrderInv, HalfLinked, DependenciesFirst, ImagesOwned, BeingMapped
<1>4. refcount'[so] # 0
  <2>1. PICK q \in Slot : q = so
    BY <1>1
  <2>2. refcount'[q] \in Nat /\ refcount[q] \in Nat /\ refcount'[q] = refcount[q] - 1
    BY <1>1, <2>1 DEF OrderInv, IInv, TypeOK
  <2> QED BY <1>1, <2>1, <2>2
<1>5. FirstReference' /\ InitedSpan' /\ CrashUnloading'
  <2>1. (\A u \in Linked \ {LibdlInfo} : refcount[u] # 0) /\ (\A u \in Active : ~inited[u]) /\ Arrived'
    BY <1>1, NoneWaiting DEF Passing, Arrived
  <2>2. \A u \in Slot : u # so => refcount'[u] = refcount[u]
    BY <1>1 DEF OrderInv, IInv, TypeOK
  <2>3. \A u \in Linked' \ {LibdlInfo} : refcount'[u] # 0
    BY <1>2, <1>4, <2>1, <2>2
  <2>4. (\A u \in Linked' \ Active' : Ready(u)') /\ (\A u \in Slot : inited'[u] => u \in Linked')
    BY <1>1, <1>2 DEF OrderInv, InitedSpan, Ready
  <2> QED BY <1>1, <1>2, <2>1, <2>3, <2>4, ArrivedSpan
<1> QED BY <1>3, <1>5 DEF OrderInv

LEMMA UnloadLastOrder ==
  ASSUME OrderInv, IInv', UnloadLast
  PROVE  OrderInv'
<1>1. /\ pc = "unload" /\ pc' = "fini" /\ so \in Slot
      /\ UNCHANGED <<solist, soname, flags, refcount, dyn, base, inited, dbgmap, mem>>
      /\ Push([fn |-> "unload", si |-> so, d |-> 1])
  BY DEF UnloadLast, poolVars, infoVars, OrderInv, IInv, SoValid
<1>2. PICK f \in Activation : f.si = so /\ f.fn = "unload" /\ f.d = 1 /\ Push(f)
  BY <1>1 DEF Activation
<1>3. Active' = Active \cup {so} /\ Top' = f /\ stack' # <<>>
  BY <1>2, PushActive DEF OrderInv
<1>4. Loaded' = Loaded /\ Linked' = Linked
  BY <1>1 DEF Loaded, Linked
<1>5. (\A u \in Linked \ {LibdlInfo} : refcount[u] # 0) /\ (\A u \in Active : ~inited[u])
  BY <1>1, NoneWaiting DEF Passing
<1>6. HalfLinked' /\ DependenciesFirst' /\ ImagesOwned' /\ FirstReference' /\ CrashUnloading'
  BY <1>1, <1>3, <1>4, <1>5 DEF OrderInv, HalfLinked, DependenciesFirst, ImagesOwned, BeingMapped,
                                FirstReference, CrashUnloading
<1>7. InitedSpan'
  <2> PICK q \in Slot : q = so
    BY <1>1
  <2>1. Destructing(q)' /\ Top'.d = 1 /\ \A u \in Slot : ~Constructing(u)'
    BY <1>1, <1>2, <1>3 DEF Destructing, Constructing
  <2>2. (\A u \in Linked' \ Active' : Ready(u)') /\ (\A u \in Slot : inited'[u] => u \in Linked')
    BY <1>1, <1>3, <1>4 DEF OrderInv, InitedSpan, Ready
  <2> QED BY <1>1, <1>3, <1>5, <2>1, <2>2 DEF InitedSpan
<1> QED BY <1>6, <1>7 DEF OrderInv

LEMMA DestructorsDoneOrder ==
  ASSUME OrderInv, IInv', DestructorsDone
  PROVE  OrderInv'
<1>1. /\ pc = "fini" /\ pc' = "drop" /\ inited' = [inited EXCEPT ![Top.si] = FALSE]
      /\ UNCHANGED <<solist, soname, flags, refcount, dyn, base, dbgmap, mem, stack>>
  BY DEF DestructorsDone, poolVars
<1>2. stack # <<>> /\ Top.si \in Slot /\ Top.si \in Active /\ Top.fn = "unload"
  BY <1>1, TopKind DEF OrderInv, IInv, ControlShape, InUnload, Closing
<1>3. Loaded' = Loaded /\ Linked' = Linked /\ Active' = Active /\ Linked \subseteq Slot
  BY <1>1, LinkedSlots DEF Loaded, Linked, Active, OrderInv
<1>4. HalfLinked' /\ DependenciesFirst' /\ ImagesOwned'
  BY <1>1, <1>3 DEF OrderInv, HalfLinked, DependenciesFirst, ImagesOwned, BeingMapped
<1>5. FirstReference' /\ InitedSpan' /\ CrashUnloading'
  <2>1. \A u \in Slot : inited'[u] = IF u = Top.si THEN FALSE ELSE inited[u]
    BY <1>1 DEF OrderInv, IInv, TypeOK
  <2>2. \A u \in Active : u \in Slot
    BY StackElems DEF OrderInv, IInv, Active
  <2>3. \A u \in Active : ~inited'[u]
    BY <2>1, <2>2 DEF OrderInv, InitedSpan, Destructing
  <2>4. Arrived' /\ \A u \in Linked \ {LibdlInfo} : refcount[u] # 0
    BY <1>1, <1>2 DEF OrderInv, FirstReference, Constructing, Arrived
  <2>5. (\A u \in Linked' \ Active' : Ready(u)') /\ (\A u \in Slot : inited'[u] => u \in Linked')
    BY <1>1, <1>2, <1>3, <2>1 DEF OrderInv, InitedSpan, Ready
  <2> QED BY <1>1, <1>3, <2>3, <2>4, <2>5, ArrivedSpan
<1> QED BY <1>4, <1>5 DEF OrderInv
LEMMA DropNextOrder ==
  ASSUME OrderInv, IInv', DropNext
  PROVE  OrderInv'
<1>1. /\ pc = "drop" /\ pc' = "unload" /\ AdvanceD /\ dyn' = [dyn EXCEPT ![Top.si][Top.d] = NULL]
      /\ UNCHANGED <<solist, soname, flags, refcount, base, inited, dbgmap, mem>>
  BY DEF DropNext, poolVars
<1>2. stack # <<>> /\ Active' = Active
  BY <1>1, AdvanceActive DEF OrderInv, IInv, ControlShape, InUnload
<1>3. Loaded' = Loaded /\ Linked' = Linked /\ Linked \subseteq Slot /\ NULL \notin Slot
  BY <1>1, LinkedSlots DEF Loaded, Linked, OrderInv
<1>4. HalfLinked' /\ ImagesOwned'
  BY <1>1, <1>2, <1>3 DEF OrderInv, HalfLinked, ImagesOwned, BeingMapped
<1>5. FirstReference' /\ InitedSpan' /\ CrashUnloading'
  <2>1. (\A u \in Linked \ {LibdlInfo} : refcount[u] # 0) /\ (\A u \in Active : ~inited[u]) /\ Arrived'
    BY <1>1, NoneWaiting DEF Passing, Arrived
  <2>2. (\A u \in Linked' \ Active' : Ready(u)') /\ (\A u \in Slot : inited'[u] => u \in Linked')
    BY <1>1, <1>2, <1>3 DEF OrderInv, InitedSpan, Ready
  <2> QED BY <1>1, <1>2, <1>3, <2>1, <2>2, ArrivedSpan
<1>6. DependenciesFirst'
  <2>1. \A j \in DOMAIN dbgmap : dbgmap[j] \in Slot
    BY <1>3 DEF OrderInv, IInv, DebugMapExact, Range
  <2>2. \A u \in Slot, i \in Entry : dyn'[u][i] \in {dyn[u][i], NULL}
    BY <1>1 DEF OrderInv, IInv, TypeOK
  <2>3. \A j, k \in DOMAIN dbgmap, i \in Entry :
          dyn'[dbgmap[j]][i] = dbgmap[k] => dyn[dbgmap[j]][i] = dbgmap[k]
    BY <1>3, <2>1, <2>2
  <2> QED BY <1>1, <2>3 DEF OrderInv, DependenciesFirst
<1> QED BY <1>4, <1>5, <1>6 DEF OrderInv

LEMMA ReleaseOrder ==
  ASSUME OrderInv, IInv', Release
  PROVE  OrderInv'
<1>1. /\ pc = "release" /\ pc' \in {"closed", "drop"} /\ free_info(Top.si) /\ Pop
      /\ munmap(base[Top.si]) /\ dbgmap' = Unlink(dbgmap, Top.si)
      /\ refcount' = [refcount EXCEPT ![Top.si] = 0]
      /\ UNCHANGED <<soname, flags, dyn, base, inited>>
  BY DEF Release, UnloadReturns, notify_gdb_of_unload
<1>2. /\ stack # <<>> /\ Top.si \in Loaded \ {LibdlInfo} /\ Top.si \in Slot /\ Top.si \in Active
      /\ flags[Top.si] = "LINKED" /\ Active = Active' \cup {Top.si} /\ Top.si \notin Active'
  BY <1>1, TopKind, PopActive DEF OrderInv, IInv, ControlShape, InUnload, Closing
<1>3. PICK s \in Loaded \ {LibdlInfo} : s = Top.si
  BY <1>2
<1>4. Loaded' = Loaded \ {s} /\ Loaded \subseteq Slot /\ Linked \subseteq Slot
  <2>1. free_info(s)
    BY <1>1, <1>3
  <2> QED BY <2>1, FreeFacts, LinkedSlots DEF OrderInv
<1>5. Linked' = Linked \ {s} /\ s \in Linked
  BY <1>1, <1>2, <1>3, <1>4 DEF Linked
<1>6. HalfLinked'
  BY <1>1, <1>2, <1>3, <1>4 DEF OrderInv, HalfLinked
<1>7. (\A u \in Linked \ {LibdlInfo} : refcount[u] # 0) /\ (\A u \in Active : ~inited[u])
  BY <1>1, NoneWaiting DEF Passing
<1>8. FirstReference' /\ InitedSpan' /\ CrashUnloading'
  <2>1. Arrived'
    BY <1>1 DEF Arrived
  <2>2. \A u \in Slot \ {s} : refcount'[u] = refcount[u]
    BY <1>1, <1>3 DEF OrderInv, IInv, TypeOK
  <2>3. \A u \in Linked' \ {LibdlInfo} : refcount'[u] # 0
    BY <1>4, <1>5, <1>7, <2>2
  <2>4. \A u \in Slot : inited'[u] => u \in Linked'
    BY <1>1, <1>2, <1>3, <1>5, <1>7 DEF OrderInv, InitedSpan
  <2>5. \A u \in Linked' \ Active' : Ready(u)'
    BY <1>1, <1>2, <1>3, <1>5 DEF OrderInv, InitedSpan, Ready
  <2>6. \A u \in Active' : ~inited'[u]
    BY <1>1, <1>2, <1>7
  <2> QED BY <2>1, <2>3, <2>4, <2>5, <2>6, ArrivedSpan
<1>9. DependenciesFirst'
  <2> SUFFICES ASSUME NEW j \in DOMAIN dbgmap', NEW k \in DOMAIN dbgmap', NEW i \in Entry,
                      dyn'[dbgmap'[j]][i] = dbgmap'[k]
               PROVE  k < j
    BY DEF DependenciesFirst
  <2>1. /\ dbgmap \in Seq(Slot) /\ s \in Range(dbgmap) /\ dbgmap' = Unlink(dbgmap, s)
    BY <1>1, <1>3, <1>5 DEF OrderInv, IInv, TypeOK, DebugMapExact
  <2>2. PICK a, b \in DOMAIN dbgmap :
          dbgmap'[k] = dbgmap[a] /\ dbgmap'[j] = dbgmap[b] /\ (a < b => k < j)
    BY <2>1, UnlinkOrder
  <2>3. dyn[dbgmap[b]][i] = dbgmap[a]
    BY <1>1, <2>2
  <2> QED BY <2>2, <2>3 DEF OrderInv, DependenciesFirst
<1>10. ImagesOwned'
  <2>1. /\ s \in Slot /\ munmap(base[s]) /\ UNCHANGED base /\ pc' # "map"
        /\ Loaded \ {s} \subseteq Loaded' /\ \A u \in Slot \ {s} : flags'[u] = flags[u]
    BY <1>1, <1>3, <1>4
  <2> QED BY <2>1, UnmapOwned
<1> QED BY <1>6, <1>8, <1>9, <1>10 DEF OrderInv

-----------------------------------------------------------------------------
(* The order holds.                                                        *)

LEMMA InitOrder == Init => OrderInv
<1> SUFFICES ASSUME Init PROVE OrderInv
  OBVIOUS
<1>1. IInv /\ Loaded = {LibdlInfo} /\ LibdlInfo \in Slot /\ stack = <<>>
  <2>1. Loaded = {LibdlInfo}
    BY DEF Init, Loaded, Range
  <2>2. LibdlInfo \in Slot
    BY SizesAssumption DEF Slot, LibdlInfo
  <2> QED BY <2>1, <2>2, InitInv DEF Init
<1>2. Active = {} /\ Linked = {LibdlInfo}
  BY <1>1 DEF Init, Active, Linked
<1>3. HalfLinked /\ FirstReference
  BY <1>1, <1>2 DEF Init, HalfLinked, FirstReference
<1>4. InitedSpan /\ CrashUnloading
  BY <1>1, <1>2 DEF Init, InitedSpan, Ready, Constructing, Destructing, CrashUnloading
<1>5. DependenciesFirst /\ ImagesOwned
  BY DEF Init, DependenciesFirst, ImagesOwned
<1> QED BY <1>1, <1>3, <1>4, <1>5 DEF OrderInv

\* One case for each action.
LEMMA NextOrder == OrderInv /\ [Next]_vars => OrderInv'
<1> SUFFICES ASSUME OrderInv, [Next]_vars PROVE OrderInv'
  OBVIOUS
<1>1. IInv'
  BY NextInv DEF OrderInv
<1>2. CASE Calls
  BY <1>1, <1>2, QuietActions DEF Calls
<1>3. CASE OpenSteps
  BY <1>1, <1>3, QuietActions, LoadLibraryOrder, MapLibraryOrder, LoadFailsOrder, LinkFailures, NeedBoundOrder,
     RelocateOrder, ConstructorsDoneOrder, DlopenReturnsOrder DEF OpenSteps
<1>4. CASE CloseSteps
  BY <1>1, <1>4, QuietActions, UnreferenceOrder, UnloadLastOrder, DestructorsDoneOrder, DropNextOrder,
     ReleaseOrder DEF CloseSteps
<1>5. CASE CallbackReenters
  BY <1>1, <1>5, CallbackOrder
<1>6. CASE UNCHANGED vars
  <2>1. UNCHANGED <<needed, solist, soname, flags, refcount, dyn, base, inited, dbgmap, mem, pc, stack, so>>
    BY <1>6 DEF vars, fileVars, poolVars, infoVars, ctlVars
  <2> QED BY <1>1, <2>1 DEF OrderInv, HalfLinked, FirstReference, InitedSpan, CrashUnloading, DependenciesFirst,
       ImagesOwned, Loaded, Linked, Active, Top, Needs, Ready, Constructing, Destructing, BeingMapped
<1> QED BY <1>2, <1>3, <1>4, <1>5, <1>6 DEF Next, LinkerSteps

\* What the order of constructors and destructors rests on holds in every
\* behaviour.
THEOREM OrderInvariance == Spec => []OrderInv
  BY InitOrder, NextOrder, PTL DEF Spec

-----------------------------------------------------------------------------
(* Constructors and destructors.                                           *)

\* Whoever is referred to is linked and initialised: the destructors of a
\* library run only when its last reference goes away, and its first reference
\* comes after its constructors.
LEMMA ReachableReady ==
  ASSUME OrderInv, NEW s \in Slot, handles[s] > 0 \/ Edges(s) # {}
  PROVE  s \in Linked /\ Ready(s)
<1>1. s \in Linked
  BY ReachableFacts DEF ReachableLinked, OrderInv
<1>2. IsFiniteSet(Edges(s)) /\ Cardinality(Edges(s)) \in Nat /\ handles[s] \in Nat
  BY EdgesFinite DEF OrderInv, IInv, TypeOK
<1>3. Cardinality(Edges(s)) + handles[s] > 0
  <2>1. Edges(s) # {} => Cardinality(Edges(s)) > 0
    BY <1>2, FS_EmptySet
  <2> QED BY <1>2, <2>1
<1>4. refcount[s] = Cardinality(Edges(s)) + handles[s]
                      + (IF Unloading(s) THEN 1 ELSE 0) + (IF GivenUp(s) THEN 1 ELSE 0)
  BY DEF OrderInv, IInv, RefcountAccounts
<1>5. s \notin Active
  <2> SUFFICES ASSUME NEW k \in 1..Len(stack), stack[k].si = s PROVE FALSE
    BY DEF Active
  <2>1. CASE stack[k].fn = "unload"
    <3>1. refcount[s] = 1 /\ Unloading(s)
      BY <2>1 DEF OrderInv, IInv, StackShape, Unloading
    <3> QED BY <1>2, <1>3, <1>4, <3>1
  <2>2. CASE stack[k].fn = "link"
    <3>1. flags[s] # "none"
      BY <1>1 DEF Linked
    <3>2. ~(k < Len(stack))
      BY <2>2, <3>1 DEF OrderInv, IInv, StackShape
    <3>3. Len(stack) \in Nat /\ k = Len(stack) /\ stack # <<>> /\ Top = stack[k] /\ Top.fn = "link"
      <4>1. Len(stack) \in Nat /\ k = Len(stack)
        BY <3>2 DEF OrderInv, IInv, TypeOK
      <4> QED BY <2>2, <4>1 DEF Top
    <3>4. pc \in {"init", "stuck"}
      <4>1. pc \in Location /\ pc \notin AtRest
        BY <3>3 DEF OrderInv, IInv, TypeOK, ControlShape
      <4>2. pc \notin Opening \ {"init"} /\ pc \notin Closing
        BY <3>1, <3>3, TopKind DEF OrderInv
      <4>3. pc # "crashed"
        BY <2>2 DEF OrderInv, CrashUnloading
      <4> QED BY <4>1, <4>2, <4>3 DEF Location, AtRest, Opening
    <3>5. refcount[s] = 0
      BY <3>3, <3>4 DEF OrderInv, InitedSpan, Constructing
    <3> QED BY <1>2, <1>3, <1>4, <3>5
  <2>3. stack[k].fn \in {"link", "unload"}
    BY StackElems DEF OrderInv, IInv, Activation
  <2> QED BY <2>1, <2>2, <2>3
<1>6. Ready(s)
  BY <1>1, <1>5 DEF OrderInv, InitedSpan
<1> QED BY <1>1, <1>6

\* What an entry of a soinfo names.
LEMMA NeededReady ==
  ASSUME OrderInv, NEW s \in Slot, NEW i \in Entry, dyn[s][i] # NULL
  PROVE  dyn[s][i] \in Linked /\ Ready(dyn[s][i])
<1>1. PICK t \in Slot : t = dyn[s][i]
  BY DEF OrderInv, IInv, TypeOK
<1>2. <<s, i>> \in Edges(t)
  BY <1>1 DEF Edges
<1>3. t \in Linked /\ Ready(t)
  BY <1>2, ReachableReady
<1> QED BY <1>1, <1>3

\* All DT_NEEDED entries of a library are bound from the end of its
\* link_image to the end of its destructors.
LEMMA InitedBound ==
  ASSUME OrderInv, NEW s \in Loaded, inited[s] \/ (pc = "init" /\ s = Top.si),
         NEW i \in 1..Len(Needs(s))
  PROVE  s \in Slot /\ i \in Entry /\ dyn[s][i] # NULL
<1>1. s \in Slot
  BY LinkedSlots DEF OrderInv
<1>2. i \in Entry /\ Len(Needs(s)) \in Nat
  BY <1>1, NeededLib DEF OrderInv, IInv
<1>3. CASE inited[s] /\ s \notin Active
  BY <1>1, <1>2, <1>3 DEF OrderInv, InitedSpan, IInv, LinkedBound
<1>4. CASE inited[s] /\ s \in Active
  <2>1. stack # <<>> /\ s = Top.si /\ Top.fn = "unload" /\ Top.d = 1
    BY <1>1, <1>4 DEF OrderInv, InitedSpan, Destructing
  <2>2. dyn[s][i] # NULL <=> 1 <= i /\ i <= Len(Needs(s))
    BY <1>2, <2>1, TopKind DEF OrderInv, EntriesMatch
  <2> QED BY <1>1, <1>2, <2>2
<1>5. CASE pc = "init" /\ s = Top.si
  <2>1. stack # <<>> /\ Top.d > Len(Needs(s))
    BY <1>5 DEF OrderInv, IInv, ControlShape, InLink
  <2>2. Top.fn = "link" /\ EntriesMatch(Top) /\ Top.d \in Nat
    BY <1>5, <2>1, TopKind DEF OrderInv, Opening, Activation
  <2>3. dyn[s][i] # NULL <=> i < Top.d
    BY <1>2, <1>5, <2>2 DEF EntriesMatch
  <2> QED BY <1>1, <1>2, <2>1, <2>2, <2>3
<1> QED BY <1>3, <1>4, <1>5

\* Constructors run in dependency order, for every dependency graph and
\* whatever fails: those of a library run, and it counts as initialised, only
\* while all its DT_NEEDED libraries are initialised.
THEOREM ConstructorsOrdered == Spec => []ConstructorOrder
<1>1. OrderInv => ConstructorOrder
  BY InitedBound, NeededReady DEF ConstructorOrder
<1> QED BY <1>1, OrderInvariance, PTL

\* Destructors run in the opposite order: nobody holds a handle on the library
\* or needs it any more, and what it needs itself is still initialised.
THEOREM DestructorsOrdered == Spec => []DestructorOrder
<1>1. OrderInv => DestructorOrder
  <2> SUFFICES ASSUME OrderInv, pc = "fini"
               PROVE  /\ Edges(Top.si) = {} /\ handles[Top.si] = 0
                      /\ \A i \in 1..Len(Needs(Top.si)) :
                           dyn[Top.si][i] # NULL /\ Ready(dyn[Top.si][i])
    BY DEF DestructorOrder
  <2>1. /\ stack # <<>> /\ Top.si \in Slot /\ Top.si \in Active /\ Top.fn = "unload"
        /\ refcount[Top.si] = 1 /\ EntriesMatch(Top)
    BY TopKind DEF OrderInv, IInv, ControlShape, InUnload, Closing
  <2>2. PICK s \in Slot : s = Top.si
    BY <2>1
  <2>3. Edges(s) = {} /\ handles[s] = 0
    <3>1. /\ refcount[s] = Cardinality(Edges(s)) + handles[s]
                             + (IF s \in Active THEN 1 ELSE 0) + (IF GivenUp(s) THEN 1 ELSE 0)
          /\ Cardinality(Edges(s)) \in Nat /\ handles[s] \in Nat
      BY ClosingCounts DEF OrderInv, Closing
    <3>2. Cardinality(Edges(s)) = 0 /\ handles[s] = 0
      BY <2>1, <2>2, <3>1 DEF GivenUp
    <3> QED BY <3>2, EdgesFinite, FS_EmptySet
  <2>4. Top.d = 1
    BY <2>1 DEF OrderInv, InitedSpan, Destructing
  <2>5. ASSUME NEW i \in 1..Len(Needs(s)) PROVE dyn[s][i] # NULL /\ Ready(dyn[s][i])
    <3>1. i \in Entry
      BY NeededLib DEF OrderInv, IInv
    <3>2. dyn[s][i] # NULL <=> 1 <= i /\ i <= Len(Needs(s))
      BY <2>1, <2>2, <2>4, <3>1 DEF EntriesMatch
    <3>3. dyn[s][i] # NULL
      BY <3>2
    <3> QED BY <3>1, <3>3, NeededReady
  <2> QED BY <2>2, <2>3, <2>5
<1> QED BY <1>1, OrderInvariance, PTL

-----------------------------------------------------------------------------
(* Between two calls.                                                      *)

LEMMA OrderSettles == OrderInv => SettledWhenIdle
<1> SUFFICES ASSUME OrderInv, pc = "idle"
             PROVE  /\ \A s \in Loaded : flags[s] \in {"LINKED", "ERROR"}
                    /\ Range(dbgmap) = Linked \ {LibdlInfo} /\ IsInjective(dbgmap)
                    /\ \A s \in Linked \ {LibdlInfo} : refcount[s] > 0
  BY DEF SettledWhenIdle
<1>1. stack = <<>> /\ Active = {}
  BY EmptySeq DEF OrderInv, IInv, ControlShape, AtRest, Active
<1>2. \A s \in Loaded : flags[s] \in {"LINKED", "ERROR"}
  BY <1>1, LinkedSlots DEF OrderInv, HalfLinked, IInv, TypeOK
<1>3. \A s \in Linked \ {LibdlInfo} : refcount[s] > 0
  <2>1. \A s \in Linked \ {LibdlInfo} : refcount[s] # 0
    BY <1>1 DEF OrderInv, FirstReference, Constructing
  <2>2. \A s \in Linked : refcount[s] \in Nat
    BY LinkedSlots DEF OrderInv, IInv, TypeOK
  <2> QED BY <2>1, <2>2
<1> QED BY <1>2, <1>3 DEF OrderInv, IInv, DebugMapExact

\* No call leaves a library half-linked, linked without a reference, or unknown
\* to gdb, however it fails.
THEOREM SettlesWhenIdle == Spec => []SettledWhenIdle
  BY OrderSettles, OrderInvariance, PTL

\* Without handles and failures no library is linked: the one linked last is
\* needed by none of the others.
LEMMA NothingLeft ==
  ASSUME OrderInv, pc = "idle", Failed = {}, \A s \in Slot : handles[s] = 0
  PROVE  Loaded = {LibdlInfo}
<1>1. /\ \A s \in Loaded : flags[s] = "LINKED"
      /\ Range(dbgmap) = Linked \ {LibdlInfo} /\ \A s \in Linked \ {LibdlInfo} : refcount[s] > 0
  BY OrderSettles DEF SettledWhenIdle, Failed
<1>2. Linked = Loaded /\ Loaded \subseteq Slot /\ NULL \notin Slot
  BY <1>1, LinkedSlots DEF Linked, OrderInv
<1>3. dbgmap \in Seq(Slot) /\ Len(dbgmap) \in Nat /\ DOMAIN dbgmap = 1..Len(dbgmap)
  BY DEF OrderInv, IInv, TypeOK
<1>4. Len(dbgmap) = 0
  <2> SUFFICES ASSUME Len(dbgmap) # 0 PROVE FALSE
    OBVIOUS
  <2>1. PICK n \in DOMAIN dbgmap : n = Len(dbgmap)
    BY <1>3
  <2>2. PICK t \in Slot : t = dbgmap[n] /\ t \in Linked \ {LibdlInfo}
    BY <1>1, <1>2 DEF Range
  <2>3. Edges(t) # {}
    <3>1. refcount[t] = Cardinality(Edges(t)) + handles[t] /\ handles[t] = 0 /\ refcount[t] > 0
      BY <1>1, <2>2, OpeningCounts DEF OrderInv
    <3>2. Cardinality(Edges(t)) # 0
      BY <3>1, EdgesFinite
    <3> QED BY <3>2, FS_EmptySet
  <2>4. PICK s \in Slot, i \in Entry : dyn[s][i] = t
    BY <2>3 DEF Edges
  <2>5. s \in Loaded
    BY <1>2, <2>2, <2>4 DEF OrderInv, IInv, FreeUnbound, Unbound
  <2>6. s # LibdlInfo
    <3>1. i <= Len(Needs(s)) /\ i \in Nat /\ i > 0
      BY <1>2, <2>4 DEF OrderInv, IInv, EntriesWithin, Entry
    <3>2. needed \in DepGraph /\ soname[LibdlInfo] = Libdl
      BY DEF OrderInv, IInv, TypeOK, LibdlFixed
    <3>3. Len(Needs(LibdlInfo)) = 0
      BY <3>2, GraphAssumption DEF Needs
    <3> QED BY <3>1, <3>3
  <2>7. PICK j \in DOMAIN dbgmap : dbgmap[j] = s
    BY <1>1, <1>2, <2>5, <2>6 DEF Range
  <2>8. n < j
    BY <2>2, <2>4, <2>7 DEF OrderInv, DependenciesFirst
  <2> QED BY <1>3, <2>1, <2>7, <2>8
<1>5. Linked \ {LibdlInfo} = {}
  BY <1>1, <1>3, <1>4 DEF Range
<1>6. LibdlInfo \in Loaded
  BY DEF OrderInv, IInv, PoolConserved, Loaded, Range
<1> QED BY <1>2, <1>5, <1>6

\* dlclose undoes dlopen, whatever the dependencies and in whatever order the
\* handles are closed: when all are, and no link ever failed, only libdl_info
\* is left of solist and no image is mapped.
THEOREM ClosedIsUnloaded == Spec => []AllClosedAllUnloaded
<1>1. OrderInv => AllClosedAllUnloaded
  <2> SUFFICES ASSUME OrderInv, pc = "idle", Failed = {}, \A s \in Slot : handles[s] = 0
               PROVE  solist = <<LibdlInfo>> /\ \A r \in Region : mem[r] = NULL
    BY DEF AllClosedAllUnloaded
  <2>1. Range(solist) = {LibdlInfo}
    BY NothingLeft DEF Loaded
  <2>2. /\ solist \in Seq(Slot) /\ Len(solist) \in Nat /\ DOMAIN solist = 1..Len(solist)
        /\ solist # <<>> /\ solist[1] = LibdlInfo /\ IsInjective(solist)
    BY DEF OrderInv, IInv, TypeOK, PoolConserved
  <2>3. Len(solist) = 1
    <3>1. Len(solist) > 0
      BY <2>2, EmptySeq
    <3>2. \A i \in 1..Len(solist) : solist[i] = LibdlInfo
      BY <2>1, <2>2 DEF Range
    <3>3. \A i \in 1..Len(solist) : i = 1
      BY <2>2, <3>1, <3>2 DEF IsInjective
    <3> QED BY <2>2, <3>1, <3>3
  <2>4. solist = <<LibdlInfo>>
    BY <2>2, <2>3
  <2>5. \A r \in Region : mem[r] = NULL
    BY <2>1 DEF OrderInv, ImagesOwned, Loaded
  <2> QED BY <2>4, <2>5
<1> QED BY <1>1, OrderInvariance, PTL

-----------------------------------------------------------------------------
(* Images stay in their place.                                             *)

\* The place alloc_mem_region finds for a file is not that of another library.
LEMMA PlaceFree ==
  ASSUME PrelinksApart, MappedInv, pc = "map", NEW r \in MmapChoice(soname[Top.si]),
         NEW s \in Loaded \ {LibdlInfo, Top.si}, flags[s] # "ERROR"
  PROVE  base[s] # r /\ r \in Region
<1>1. /\ stack # <<>> /\ Top.si \in Slot /\ Top.si \in Loaded /\ s \in Slot
  BY TopKind, LinkedSlots DEF MappedInv, OrderInv, IInv, ControlShape, InLink
<1>2. soname[s] \in Lib /\ soname[Top.si] \in Lib /\ soname[s] # soname[Top.si]
  BY <1>1 DEF MappedInv, OrderInv, IInv, TypeOK, UniqueNames
<1>3. base[s] \in Region /\ mem[base[s]] = s /\ s # NULL
  BY <1>1, LinkedSlots DEF MappedInv, OrderInv, ImagesInPlace, BeingMapped
<1>4. IF Prelink[soname[s]] # NoRegion THEN base[s] = Prelink[soname[s]] ELSE base[s] \in KernelRegion
  BY DEF MappedInv, BasesChosen, BeingMapped
<1>5. CASE Prelink[soname[Top.si]] # NoRegion
  <2>1. r = Prelink[soname[Top.si]] /\ r \notin KernelRegion /\ r \in Region
    BY <1>2, <1>5, RegionAssumption DEF MmapChoice, PrelinksApart
  <2>2. r # Prelink[soname[s]]
    BY <1>2, <1>5, <2>1 DEF PrelinksApart
  <2> QED BY <1>4, <2>1, <2>2
<1>6. CASE Prelink[soname[Top.si]] = NoRegion
  <2>1. r \in KernelRegion /\ mem[r] = NULL
    BY <1>6 DEF MmapChoice
  <2> QED BY <1>3, <2>1, RegionAssumption
<1> QED BY <1>5, <1>6

\* Where a library is does not change but by mapping it.
LEMMA KeptInPlace ==
  ASSUME MappedInv, pc # "map", UNCHANGED <<soname, base>>, Loaded' \subseteq Loaded,
         \A s \in Loaded' \ {LibdlInfo} : flags'[s] # "ERROR" =>
            flags[s] # "ERROR" /\ (mem[base[s]] = s => mem'[base[s]] = s)
  PROVE  BasesChosen' /\ ImagesInPlace'
<1>1. BasesChosen'
  BY DEF MappedInv, BasesChosen, BeingMapped
<1>2. ImagesInPlace'
  BY DEF MappedInv, ImagesInPlace, BeingMapped
<1> QED BY <1>1, <1>2

\* link_image fails, or unload_library is done: the image is unmapped, and no
\* other was mapped in that place.
LEMMA UnmapKeeps ==
  ASSUME MappedInv, pc # "map", NEW top \in Loaded \ {LibdlInfo}, flags[top] # "ERROR",
         munmap(base[top]), NEW s \in Loaded \ {LibdlInfo, top}, base[s] \in Region, mem[base[s]] = s
  PROVE  mem'[base[s]] = s
<1>1. mem[base[top]] = top
  BY DEF MappedInv, ImagesInPlace, BeingMapped
<1>2. base[s] # base[top]
  BY <1>1
<1> QED BY <1>2 DEF munmap, MappedInv, OrderInv, IInv, TypeOK

LEMMA NextMapped == PrelinksApart /\ MappedInv /\ [Next]_vars => MappedInv'
<1> SUFFICES ASSUME PrelinksApart, MappedInv, [Next]_vars PROVE MappedInv'
  OBVIOUS
<1>1. OrderInv' /\ UniqueNames'
  BY NextOrder, NamesStep DEF MappedInv, OrderInv
<1> SUFFICES BasesChosen' /\ ImagesInPlace'
  BY <1>1 DEF MappedInv
<1>2. CASE UNCHANGED <<solist, soname, base, mem, flags>> /\ pc # "map"
  BY <1>2, KeptInPlace DEF Loaded
<1>3. CASE LoadLibrary
  <2>1. pc = "find" /\ pc' = "map" /\ UNCHANGED mem /\ want \in Lib
    BY <1>3 DEF LoadLibrary, MappedInv, OrderInv, IInv, SoValid
  <2>2. PICK s \in Slot : alloc_info(s, want) /\ Push([fn |-> "link", si |-> s, d |-> 1])
    BY <1>3 DEF LoadLibrary
  <2>3. PICK l \in Lib : l = want
    BY <2>1
  <2>4. /\ s \notin Loaded /\ Loaded' = Loaded \cup {s} /\ Loaded \subseteq Slot
        /\ \A u \in Slot : /\ soname'[u] = IF u = s THEN l ELSE soname[u]
                           /\ flags'[u] = IF u = s THEN "none" ELSE flags[u]
    BY <2>2, <2>3, AllocFacts, LinkedSlots DEF MappedInv, OrderInv
  <2>5. \A u \in Slot : base'[u] = IF u = s THEN Prelink[l] ELSE base[u]
    BY <2>2, <2>3 DEF alloc_info, MappedInv, OrderInv, IInv, TypeOK
  <2>6. Top'.si = s
    <3>1. PICK f \in Activation : f.si = s /\ Push(f)
      BY <2>2 DEF Activation
    <3> QED BY <3>1, PushActive DEF MappedInv, OrderInv
  <2>7. BeingMapped(s)' /\ \A u \in Loaded : ~BeingMapped(u)
    BY <2>1, <2>6 DEF BeingMapped
  <2>8. BasesChosen'
    BY <2>4, <2>5, <2>7 DEF MappedInv, BasesChosen
  <2>9. ImagesInPlace'
    BY <2>1, <2>4, <2>5, <2>7 DEF MappedInv, ImagesInPlace
  <2> QED BY <2>8, <2>9
<1>4. CASE MapLibrary
  <2>1. /\ pc = "map" /\ pc' = "link" /\ UNCHANGED <<solist, soname, flags, stack>>
    BY <1>4 DEF MapLibrary, poolVars
  <2>2. PICK r \in MmapChoice(soname[Top.si]) :
          base' = [base EXCEPT ![Top.si] = r] /\ mem' = [mem EXCEPT ![r] = Top.si]
    BY <1>4 DEF MapLibrary
  <2>3. /\ stack # <<>> /\ Top.si \in Slot /\ Top.si \in Loaded \ {LibdlInfo}
        /\ Loaded' = Loaded /\ Loaded \subseteq Slot
    BY <2>1, TopKind, LinkedSlots DEF MappedInv, OrderInv, IInv, ControlShape, InLink, Loaded
  <2>4. r \in Region /\ soname[Top.si] \in Lib
    BY <2>3, RegionAssumption DEF MmapChoice, MappedInv, OrderInv, IInv, TypeOK
  <2>5. \A u \in Slot : base'[u] = IF u = Top.si THEN r ELSE base[u]
    BY <2>2 DEF MappedInv, OrderInv, IInv, TypeOK
  <2>6. \A q \in Region : mem'[q] = IF q = r THEN Top.si ELSE mem[q]
    BY <2>2 DEF MappedInv, OrderInv, IInv, TypeOK
  <2>7. BasesChosen'
    <3>1. IF Prelink[soname[Top.si]] # NoRegion THEN r = Prelink[soname[Top.si]] ELSE r \in KernelRegion
      BY DEF MmapChoice
    <3> QED BY <2>1, <2>3, <2>5, <3>1 DEF MappedInv, BasesChosen, BeingMapped
  <2>8. ImagesInPlace'
    <3> SUFFICES ASSUME NEW s \in Loaded \ {LibdlInfo}, flags[s] # "ERROR"
                 PROVE  base'[s] \in Region /\ mem'[base'[s]] = s
      BY <2>1, <2>3 DEF ImagesInPlace
    <3>1. CASE s = Top.si
      BY <2>3, <2>4, <2>5, <2>6, <3>1
    <3>2. CASE s # Top.si
      <4>1. base[s] # r
        BY <2>1, <3>2, PlaceFree
      <4>2. base[s] \in Region /\ mem[base[s]] = s
        BY <3>2 DEF MappedInv, ImagesInPlace, BeingMapped
      <4> QED BY <2>3, <2>5, <2>6, <3>2, <4>1, <4>2
    <3> QED BY <3>1, <3>2
  <2> QED BY <2>7, <2>8
<1>5. CASE ReserveFails \/ SegmentsFail
  <2>1. pc = "map" /\ pc' # "map" /\ free_info(Top.si) /\ UNCHANGED soname
    BY <1>5 DEF ReserveFails, SegmentsFail, FindReturns, infoVars
  <2>2. PICK s \in Loaded \ {LibdlInfo} : s = Top.si
    BY <2>1, TopKind DEF MappedInv, OrderInv, IInv, ControlShape, InLink
  <2>3. Loaded' = Loaded \ {s} /\ Loaded \subseteq Slot
    <3>1. free_info(s)
      BY <2>1, <2>2
    <3> QED BY <3>1, FreeFacts, LinkedSlots DEF MappedInv, OrderInv
  <2>4. \A u \in Slot \ {s} : flags'[u] = flags[u] /\ base'[u] = base[u]
    BY <1>5, <2>2 DEF ReserveFails, SegmentsFail, infoVars, MappedInv, OrderInv, IInv, TypeOK
  <2>5. BasesChosen'
    BY <2>1, <2>2, <2>3, <2>4 DEF MappedInv, BasesChosen, BeingMapped
  <2>6. ASSUME NEW u \in Loaded \ {LibdlInfo, s}, flags[u] # "ERROR"
        PROVE  base[u] \in Region /\ mem'[base[u]] = u
    <3>1. base[u] \in Region /\ mem[base[u]] = u
      BY <2>2, <2>6 DEF MappedInv, ImagesInPlace, BeingMapped
    <3>2. CASE ReserveFails
      BY <3>1, <3>2 DEF ReserveFails
    <3>3. CASE SegmentsFail
      <4>1. PICK r \in MmapChoice(soname[Top.si]) : munmap(r)
        BY <3>3 DEF SegmentsFail
      <4>2. base[u] # r
        BY <2>1, <2>2, <2>6, PlaceFree
      <4> QED BY <3>1, <4>1, <4>2 DEF munmap, MappedInv, OrderInv, IInv, TypeOK
    <3> QED BY <1>5, <3>2, <3>3
  <2>7. ImagesInPlace'
    BY <2>3, <2>4, <2>6 DEF ImagesInPlace
  <2> QED BY <2>5, <2>7
<1>6. CASE ParseFails \/ NeedMissing \/ RelocateFails \/ Release
  <2>1. /\ pc # "map" /\ munmap(base[Top.si]) /\ UNCHANGED <<soname, base>> /\ Top.si \in Loaded \ {LibdlInfo}
        /\ Top.si \in Slot /\ flags[Top.si] # "ERROR"
    BY <1>6, TopKind DEF ParseFails, NeedMissing, RelocateFails, LinkFails, Release,
       MappedInv, OrderInv, IInv, ControlShape, InLink, InUnload, Opening, Closing
  <2>2. PICK top \in Loaded \ {LibdlInfo} : top = Top.si
    BY <2>1
  <2>3. /\ Loaded' \subseteq Loaded
        /\ \A s \in Loaded' \ {LibdlInfo} : flags'[s] # "ERROR" => s # top /\ flags[s] # "ERROR"
    <3>1. CASE Release
      <4>1. free_info(top) /\ UNCHANGED flags
        BY <2>2, <3>1 DEF Release
      <4>2. Loaded' = Loaded \ {top}
        BY <4>1, FreeFacts DEF MappedInv, OrderInv
      <4> QED BY <4>1, <4>2
    <3>2. CASE ParseFails \/ NeedMissing \/ RelocateFails
      <4>1. UNCHANGED solist /\ flags' = [flags EXCEPT ![top] = "ERROR"]
        BY <2>2, <3>2 DEF ParseFails, NeedMissing, RelocateFails, LinkFails, poolVars
      <4>2. Loaded' = Loaded /\ Loaded \subseteq Slot
        BY <4>1, LinkedSlots DEF Loaded, MappedInv, OrderInv
      <4> QED BY <4>1, <4>2 DEF MappedInv, OrderInv, IInv, TypeOK
    <3> QED BY <1>6, <3>1, <3>2
  <2>4. \A s \in Loaded' \ {LibdlInfo} : flags'[s] # "ERROR" =>
          base[s] \in Region /\ mem[base[s]] = s
    BY <2>1, <2>3 DEF MappedInv, ImagesInPlace, BeingMapped
  <2>5. \A s \in Loaded' \ {LibdlInfo} : flags'[s] # "ERROR" => mem'[base[s]] = s
    <3>1. flags[top] # "ERROR" /\ munmap(base[top])
      BY <2>1, <2>2
    <3> QED BY <2>1, <2>3, <2>4, <3>1, UnmapKeeps
  <2> QED BY <2>1, <2>3, <2>5, KeptInPlace
<1>7. CASE Relocate
  <2>1. /\ pc # "map" /\ UNCHANGED <<solist, soname, base, mem>> /\ flags' = [flags EXCEPT ![Top.si] = "LINKED"]
        /\ Top.si \in Slot /\ flags[Top.si] = "none"
    BY <1>7, TopKind DEF Relocate, poolVars, MappedInv, OrderInv, IInv, ControlShape, InLink, Opening
  <2>2. Loaded' = Loaded /\ Loaded \subseteq Slot
    BY <2>1, LinkedSlots DEF Loaded, MappedInv, OrderInv
  <2>3. \A s \in Slot : flags'[s] # "ERROR" => flags[s] # "ERROR"
    BY <2>1 DEF MappedInv, OrderInv, IInv, TypeOK
  <2> QED BY <2>1, <2>2, <2>3, KeptInPlace
<1>8. CASE Calls
  BY <1>2, <1>8 DEF Calls, Dlopen, Dlclose, poolVars, infoVars
<1>9. CASE FindKnown \/ LoadRefused \/ ParseDynamic \/ NeedNext \/ NeedBound \/ NeedDone
  BY <1>2, <1>9 DEF FindKnown, LoadRefused, ParseDynamic, NeedNext, NeedBound, NeedDone, poolVars, infoVars
<1>10. CASE ConstructorsDone \/ DlopenReturns \/ CallbackReenters
  BY <1>2, <1>10 DEF ConstructorsDone, DlopenReturns, CallbackReenters, poolVars, infoVars
<1>11. CASE Unreference \/ UnloadLast \/ UnloadLibdl \/ DestructorsDone \/ DropNext \/ DropDone \/ DlcloseReturns
  BY <1>2, <1>11 DEF Unreference, UnloadLast, UnloadLibdl, DestructorsDone, DropNext, DropDone,
     DlcloseReturns, poolVars, infoVars
<1>12. CASE UNCHANGED vars
  BY <1>12 DEF vars, fileVars, poolVars, infoVars, ctlVars, MappedInv, BasesChosen, ImagesInPlace, BeingMapped,
     Loaded, Top
<1> QED BY <1>3, <1>4, <1>5, <1>6, <1>7, <1>8, <1>9, <1>10, <1>11, <1>12
       DEF Next, LinkerSteps, OpenSteps, CloseSteps

LEMMA InitMapped == Init => MappedInv
<1> SUFFICES ASSUME Init PROVE MappedInv
  OBVIOUS
<1>1. Loaded = {LibdlInfo}
  BY DEF Init, Loaded, Range
<1> QED BY <1>1, InitOrder DEF MappedInv, UniqueNames, BasesChosen, ImagesInPlace

\* When no two prelinked files ask for the same place, and none for one that
\* the kernel hands out, every image stays where its soinfo says.
THEOREM MappedInvariance == ASSUME PrelinksApart PROVE Spec => []MappedInv
<1>1. Init => MappedInv
  BY InitMapped
<1>2. MappedInv /\ [Next]_vars => MappedInv'
  BY NextMapped
<1> QED BY <1>1, <1>2, PTL DEF Spec

LEMMA LinkedMapped ==
  ASSUME MappedInv, NEW s \in Linked
  PROVE  Usable(s)
<1>1. s \in Loaded /\ flags[s] = "LINKED"
  BY DEF Linked
<1>2. ~BeingMapped(s)
  BY <1>1, TopKind DEF BeingMapped, MappedInv, OrderInv, IInv, ControlShape, InLink, Opening
<1> QED BY <1>1, <1>2 DEF Usable, Mapped, MappedInv, ImagesInPlace

\* The soinfo in a DT_NEEDED entry, which link_image stores in the file's own
\* dynamic section, can be followed at any time by whoever walks it: it is in
\* the list, linked, and its image is mapped.
THEOREM NeededNeverDangles == ASSUME PrelinksApart PROVE Spec => []NoDanglingNeeded
<1>1. MappedInv => NoDanglingNeeded
  BY NeededReady, LinkedMapped DEF NoDanglingNeeded, MappedInv
<1> QED BY <1>1, MappedInvariance, PTL

\* A handle is good until it is closed as often as it was opened, whatever else
\* is opened, closed or fails in between.
THEOREM HandlesStayUsable == ASSUME PrelinksApart PROVE Spec => []HandlesUsable
<1>1. MappedInv => HandlesUsable
  BY ReachableReady, LinkedMapped DEF HandlesUsable, MappedInv
<1> QED BY <1>1, MappedInvariance, PTL

PlacesKept == \A r \in Region : mem[r] # NULL => mem'[r] \in {mem[r], NULL}

\* Where prelinked files have places of their own no image is mapped over
\* another: what the code does without looking (MAP_FIXED) is then harmless.
THEOREM PrelinksDoNotOverlay == ASSUME PrelinksApart PROVE Spec => NoImageOverlaid
<1>1. MappedInv /\ [Next]_vars => PlacesKept
  <2> SUFFICES ASSUME MappedInv, [Next]_vars PROVE PlacesKept
    OBVIOUS
  <2>1. CASE MapLibrary
    <3>1. PICK r \in MmapChoice(soname[Top.si]) : mem' = [mem EXCEPT ![r] = Top.si]
      BY <2>1 DEF MapLibrary
    <3>2. ASSUME NEW q \in Region, mem[q] # NULL PROVE q # r
      <4>1. pc = "map"
        BY <2>1 DEF MapLibrary
      <4>2. mem[q] \in Loaded \ {LibdlInfo, Top.si} /\ flags[mem[q]] # "ERROR" /\ base[mem[q]] = q
        BY <3>2, <4>1 DEF MappedInv, OrderInv, ImagesOwned, BeingMapped
      <4> QED BY <4>1, <4>2, PlaceFree
    <3> QED BY <3>1, <3>2 DEF PlacesKept, MappedInv, OrderInv, IInv, TypeOK
  <2>2. CASE UNCHANGED mem
    BY <2>2 DEF PlacesKept
  <2>3. CASE ParseFails \/ NeedMissing \/ RelocateFails \/ Release \/ SegmentsFail
    BY <2>3 DEF ParseFails, NeedMissing, RelocateFails, LinkFails, Release, SegmentsFail, munmap, PlacesKept,
       MappedInv, OrderInv, IInv, TypeOK
  <2>4. CASE Calls \/ CallbackReenters \/ UNCHANGED vars
    BY <2>2, <2>4 DEF Calls, Dlopen, Dlclose, CallbackReenters, vars
  <2>5. CASE \/ FindKnown \/ LoadLibrary \/ LoadRefused \/ ReserveFails \/ ParseDynamic \/ NeedNext
             \/ NeedBound \/ NeedDone \/ Relocate \/ ConstructorsDone \/ DlopenReturns
    BY <2>2, <2>5 DEF FindKnown, LoadLibrary, LoadRefused, ReserveFails, ParseDynamic, NeedNext,
       NeedBound, NeedDone, Relocate, ConstructorsDone, DlopenReturns
  <2>6. CASE \/ Unreference \/ UnloadLast \/ UnloadLibdl \/ DestructorsDone \/ DropNext \/ DropDone
             \/ DlcloseReturns
    BY <2>2, <2>6 DEF Unreference, UnloadLast, UnloadLibdl, DestructorsDone, DropNext, DropDone, DlcloseReturns
  <2> QED BY <2>1, <2>2, <2>3, <2>4, <2>5, <2>6 DEF Next, LinkerSteps, OpenSteps, CloseSteps
<1>2. MappedInv /\ [Next]_vars => [PlacesKept]_vars
  BY <1>1
<1> QED BY <1>2, MappedInvariance, PTL DEF Spec, NoImageOverlaid, PlacesKept

-----------------------------------------------------------------------------
(* Walks of solist without dl_lock.                                        *)

\* Where libdl_info is, and a soinfo alloc_mem_region has not placed yet.
PlacesKnown ==
  /\ base[LibdlInfo] = NoRegion
  /\ pc = "map" => base[Top.si] = Prelink[soname[Top.si]]

\* As long as the library whose code is unwound stays linked and nothing is
\* freed, it is in solist where the walk is or behind it.
Undisturbed(u) == walk[u].steady /\ ~walk[u].freed

OwnerAhead ==
  \A u \in Reader : walk[u].state = "on" /\ Undisturbed(u) =>
    /\ walk[u].owner \in Linked \ {LibdlInfo}
    /\ base[walk[u].owner] = walk[u].addr
    /\ \E i, j \in DOMAIN solist : i <= j /\ solist[i] = walk[u].at /\ solist[j] = walk[u].owner

UnwindInv == MappedInv /\ PlacesKnown /\ WalkTypeOK /\ OwnerAhead /\ LoadsDoNotDisturb

\* What a walk keeps of the list: each soinfo is where it was.
ListKept == \A i \in DOMAIN solist : i \in DOMAIN solist' /\ solist'[i] = solist[i]

\* A step of the linker frees a soinfo or leaves the list as it was but for a
\* soinfo at its end, and no linked library changes its place.
LEMMA PlacesStep ==
  ASSUME IInv, PlacesKnown, [Next]_vars
  PROVE  /\ PlacesKnown'
         /\ \A s \in Linked : base'[s] = base[s]
         /\ ListKept \/ Len(freelist') > Len(freelist)
<1>1. CASE UNCHANGED <<solist, base>> /\ pc' # "map"
  BY <1>1 DEF PlacesKnown, ListKept
<1>2. CASE LoadLibrary
  <2>1. PICK s \in Slot : alloc_info(s, want) /\ Push([fn |-> "link", si |-> s, d |-> 1])
    BY <1>2 DEF LoadLibrary
  <2>2. PICK l \in Lib : l = want
    BY <1>2 DEF LoadLibrary, IInv, SoValid
  <2>3. /\ s \notin Loaded /\ s # LibdlInfo /\ soname'[s] = l
    BY <2>1, <2>2, AllocFacts
  <2>4. \A u \in Slot : base'[u] = IF u = s THEN Prelink[l] ELSE base[u]
    BY <2>1, <2>2 DEF alloc_info, IInv, TypeOK
  <2>5. Top'.si = s
    <3>1. PICK f \in Activation : f.si = s /\ Push(f)
      BY <2>1 DEF Activation
    <3> QED BY <3>1, PushActive
  <2>6. ListKept
    <3>1. solist' = Append(solist, s) /\ solist \in Seq(Slot)
      BY <2>1 DEF alloc_info, IInv, TypeOK
    <3> QED BY <3>1 DEF ListKept
  <2>7. LibdlInfo \in Slot
    BY SizesAssumption DEF LibdlInfo, Slot
  <2>8. Linked \subseteq Slot /\ s \notin Linked
    BY <2>3, LinkedSlots DEF Linked
  <2> QED BY <2>3, <2>4, <2>5, <2>6, <2>7, <2>8 DEF PlacesKnown
<1>3. CASE MapLibrary \/ ReserveFails \/ SegmentsFail
  <2>1. /\ pc = "map" /\ pc' # "map"
        /\ stack # <<>> /\ Top.si # LibdlInfo /\ flags[Top.si] = "none" /\ Top.si \in Loaded
    BY <1>3, TopKind DEF MapLibrary, ReserveFails, SegmentsFail, FindReturns, IInv, ControlShape, InLink, Opening
  <2>2. \A u \in Slot \ {Top.si} : base'[u] = base[u]
    BY <1>3 DEF MapLibrary, ReserveFails, SegmentsFail, infoVars, IInv, TypeOK
  <2>3. Linked \subseteq Slot \ {Top.si} /\ LibdlInfo \in Slot
    BY <2>1, LinkedSlots, SizesAssumption DEF Linked, LibdlInfo, Slot
  <2>4. CASE MapLibrary
    BY <2>1, <2>2, <2>3, <2>4 DEF MapLibrary, poolVars, PlacesKnown, ListKept
  <2>5. CASE ReserveFails \/ SegmentsFail
    <3>1. freelist' = <<Top.si>> \o freelist /\ freelist \in Seq(Slot)
      BY <2>5 DEF ReserveFails, SegmentsFail, free_info, IInv, TypeOK
    <3>2. Len(freelist') > Len(freelist)
      BY <3>1
    <3> QED BY <2>1, <2>2, <2>3, <3>2 DEF PlacesKnown
  <2> QED BY <1>3, <2>4, <2>5
<1>4. CASE Release
  <2>1. freelist' = <<Top.si>> \o freelist /\ freelist \in Seq(Slot) /\ pc' # "map" /\ UNCHANGED base
    BY <1>4 DEF Release, free_info, UnloadReturns, IInv, TypeOK
  <2>2. Len(freelist') > Len(freelist)
    BY <2>1
  <2> QED BY <2>1, <2>2 DEF PlacesKnown
<1>5. CASE Calls
  BY <1>1, <1>5 DEF Calls, Dlopen, Dlclose, poolVars, infoVars
<1>6. CASE FindKnown \/ LoadRefused \/ ParseDynamic \/ NeedNext \/ NeedBound \/ NeedDone
  BY <1>1, <1>6 DEF FindKnown, FindReturns, LoadRefused, ParseDynamic, NeedNext, NeedBound, NeedDone,
     poolVars, infoVars
<1>7. CASE ParseFails \/ NeedMissing \/ RelocateFails \/ Relocate
  BY <1>1, <1>7 DEF ParseFails, NeedMissing, RelocateFails, LinkFails, FindReturns, Relocate, poolVars
<1>8. CASE ConstructorsDone \/ DlopenReturns \/ CallbackReenters
  BY <1>1, <1>8 DEF ConstructorsDone, FindReturns, DlopenReturns, Unlock, CallbackReenters, poolVars, infoVars
<1>9. CASE Unreference \/ UnloadLast \/ UnloadLibdl \/ DestructorsDone \/ DropNext \/ DropDone \/ DlcloseReturns
  BY <1>1, <1>9 DEF Unreference, UnloadReturns, UnloadLast, UnloadLibdl, DestructorsDone, DropNext, DropDone,
     DlcloseReturns, Unlock, poolVars, infoVars
<1>10. CASE UNCHANGED vars
  BY <1>10 DEF vars, poolVars, infoVars, ctlVars, PlacesKnown, ListKept, Top
<1> QED BY <1>2, <1>3, <1>4, <1>5, <1>6, <1>7, <1>8, <1>9, <1>10
       DEF Next, LinkerSteps, OpenSteps, CloseSteps

\* Only a library that failed to link still claims the place of a linked one.
LEMMA SameBase ==
  ASSUME PrelinksApart, MappedInv, PlacesKnown,
         NEW s \in Linked \ {LibdlInfo}, NEW t \in Loaded, base[t] = base[s], t \notin Failed
  PROVE  t = s
<1>1. s \in Loaded /\ base[s] \in Region /\ mem[base[s]] = s /\ s # NULL /\ s \in Slot /\ t \in Slot
  BY LinkedMapped, LinkedSlots DEF Usable, Mapped, MappedInv, OrderInv
<1>2. t # LibdlInfo /\ flags[t] # "ERROR"
  BY <1>1, NullAssumption DEF PlacesKnown, Failed
<1>3. CASE ~BeingMapped(t)
  BY <1>1, <1>2, <1>3 DEF MappedInv, ImagesInPlace
<1>4. CASE BeingMapped(t)
  <2>1. base[t] = Prelink[soname[t]] /\ Prelink[soname[t]] # NoRegion
    BY <1>1, <1>4, NullAssumption DEF BeingMapped, PlacesKnown
  <2>2. soname[s] \in Lib /\ soname[t] \in Lib
    BY <1>1 DEF MappedInv, OrderInv, IInv, TypeOK
  <2>3. base[s] \notin KernelRegion
    BY <2>1, <2>2 DEF PrelinksApart
  <2>4. ~BeingMapped(s)
    <3>1. BeingMapped(s) => flags[s] = "none"
      BY TopKind DEF BeingMapped, MappedInv, OrderInv, IInv, ControlShape, InLink, Opening
    <3> QED BY <3>1 DEF Linked
  <2>5. base[s] = Prelink[soname[s]]
    BY <1>1, <2>3, <2>4 DEF MappedInv, BasesChosen
  <2>6. soname[s] = soname[t]
    BY <2>1, <2>2, <2>5 DEF PrelinksApart
  <2> QED BY <1>1, <2>6 DEF MappedInv, UniqueNames
<1> QED BY <1>3, <1>4

\* A set of natural numbers has a least one.
LEMMA LeastNatural ==
  ASSUME NEW T \in SUBSET Nat, T # {}
  PROVE  \E m \in T : \A k \in T : m <= k
<1> DEFINE R == {ss \in Nat \X Nat : ss[1] < ss[2]}
<1>1. IsWellFoundedOn(R, Nat)
  BY NatLessThanWellFounded DEF OpToRel
<1> HIDE DEF R
<1>2. PICK m \in T : \A k \in T : ~(<<k, m>> \in R)
  BY <1>1, WFMin
<1>3. \A k \in Nat, n \in Nat : k < n => <<k, n>> \in R
  BY DEF R
<1>4. \A k \in T : ~(k < m)
  BY <1>2, <1>3
<1> QED BY <1>4

\* si->next of a soinfo of solist is the one behind it.
LEMMA NextIsNext ==
  ASSUME IInv, NEW i \in DOMAIN solist, i + 1 \in DOMAIN solist
  PROVE  next(solist[i]) = solist[i + 1]
<1>1. solist \in Seq(Slot) /\ DOMAIN solist = 1..Len(solist) /\ Len(solist) \in Nat /\ IsInjective(solist)
  BY DEF IInv, TypeOK, PoolConserved
<1> DEFINE later == {k \in DOMAIN solist : k > 1 /\ solist[k - 1] = solist[i]}
<1>2. later = {i + 1}
  <2>1. i + 1 \in later
    BY <1>1
  <2>2. ASSUME NEW k \in later PROVE k = i + 1
    <3>1. k - 1 \in DOMAIN solist /\ solist[k - 1] = solist[i]
      BY <1>1
    <3>2. k - 1 = i
      BY <1>1, <3>1 DEF IsInjective
    <3> QED BY <1>1, <3>2
  <2> QED BY <2>1, <2>2
<1>3. Min(later) = i + 1
  <2>1. i + 1 \in Int
    BY <1>1
  <2> QED BY <1>2, <2>1 DEF Min
<1>4. solist[i] \in Loaded
  BY DEF Loaded, Range
<1> HIDE DEF later
<1> QED BY <1>2, <1>3, <1>4 DEF next, NextIn, later

\* The libraries as a walk finds them: a step of a reader changes none.
LEMMA ReadersOnlyRead ==
  ASSUME UNCHANGED vars
  PROVE  UNCHANGED <<solist, base>> /\ Linked' = Linked /\ Failed' = Failed
BY DEF vars, poolVars, infoVars, Linked, Failed, Loaded

\* The linker runs while walks are under way.
LEMMA LinkerRunsWalks ==
  ASSUME UnwindInv, LinkerRuns
  PROVE  WalkTypeOK' /\ OwnerAhead' /\ LoadsDoNotDisturb'
<1>1. IInv /\ PlacesKnown /\ walk \in [Reader -> Walk]
  BY DEF UnwindInv, MappedInv, OrderInv, WalkTypeOK
<1>2. /\ \A s \in Linked : base'[s] = base[s]
      /\ ListKept \/ Len(freelist') > Len(freelist)
      /\ Failed \subseteq Failed'
  <2>1. Failed \subseteq Slot
    BY <1>1, LinkedSlots DEF Failed
  <2> QED BY <1>1, <2>1, PlacesStep, FailureStep DEF LinkerRuns, StaysFailed
<1>3. \A u \in Reader :
        walk'[u] = IF walk[u].state # "on" THEN walk[u]
                   ELSE [walk[u] EXCEPT !.steady = @ /\ walk[u].owner \in Linked',
                                        !.freed  = @ \/ Len(freelist') > Len(freelist)]
  BY DEF LinkerRuns
<1>4. WalkTypeOK'
  <2>1. walk' = [u \in Reader |-> walk'[u]]
    BY DEF LinkerRuns
  <2>2. ASSUME NEW u \in Reader PROVE walk'[u] \in Walk
    <3>1. walk[u] \in Walk
      BY <1>1
    <3>2. CASE walk[u].state # "on"
      BY <1>3, <3>1, <3>2
    <3>3. CASE walk[u].state = "on"
      <4>1. PICK b \in BOOLEAN, c \in BOOLEAN : walk'[u] = [walk[u] EXCEPT !.steady = b, !.freed = c]
        <5>1. (walk[u].steady /\ walk[u].owner \in Linked') \in BOOLEAN
          OBVIOUS
        <5>2. (walk[u].freed \/ Len(freelist') > Len(freelist)) \in BOOLEAN
          OBVIOUS
        <5> QED BY <1>3, <3>3, <5>1, <5>2
      <4> QED BY <3>1, <4>1 DEF Walk
    <3> QED BY <3>2, <3>3
  <2> QED BY <2>1, <2>2 DEF WalkTypeOK
<1>5. ASSUME NEW u \in Reader, walk[u].state = "on"
      PROVE  /\ walk'[u].state = "on" /\ walk'[u].at = walk[u].at /\ walk'[u].owner = walk[u].owner
             /\ walk'[u].addr = walk[u].addr
             /\ walk'[u].steady => walk[u].steady /\ walk[u].owner \in Linked'
             /\ ~walk'[u].freed => ~walk[u].freed /\ ~(Len(freelist') > Len(freelist))
  <2>1. walk[u] \in Walk
    BY <1>1
  <2>2. walk'[u] = [walk[u] EXCEPT !.steady = @ /\ walk[u].owner \in Linked',
                                   !.freed  = @ \/ Len(freelist') > Len(freelist)]
    BY <1>3, <1>5
  <2> QED BY <1>5, <2>1, <2>2 DEF Walk
<1>6. OwnerAhead'
  <2> SUFFICES ASSUME NEW u \in Reader, walk'[u].state = "on", walk'[u].steady, ~walk'[u].freed
               PROVE  /\ walk'[u].owner \in Linked' \ {LibdlInfo}
                      /\ base'[walk'[u].owner] = walk'[u].addr
                      /\ \E i, j \in DOMAIN solist' : /\ i <= j
                                                      /\ solist'[i] = walk'[u].at
                                                      /\ solist'[j] = walk'[u].owner
    BY DEF OwnerAhead, Undisturbed
  <2>1. walk[u].state = "on"
    BY <1>3
  <2>2. Undisturbed(u) /\ ListKept
    BY <1>2, <1>5, <2>1 DEF Undisturbed
  <2>3. /\ walk[u].owner \in Linked \ {LibdlInfo}
        /\ base[walk[u].owner] = walk[u].addr
        /\ \E i, j \in DOMAIN solist : i <= j /\ solist[i] = walk[u].at /\ solist[j] = walk[u].owner
    BY <2>1, <2>2 DEF UnwindInv, OwnerAhead
  <2> QED BY <1>2, <1>5, <2>1, <2>2, <2>3 DEF ListKept
<1>7. LoadsDoNotDisturb'
  <2> SUFFICES ASSUME NEW u \in Reader, walk'[u].state = "done", walk'[u].steady, ~walk'[u].freed
               PROVE  walk'[u].found = walk'[u].owner \/ walk'[u].found \in Failed'
    BY DEF LoadsDoNotDisturb
  <2>1. walk'[u] = walk[u]
    BY <1>3, <1>5
  <2> QED BY <1>2, <2>1 DEF UnwindInv, LoadsDoNotDisturb
<1> QED BY <1>4, <1>6, <1>7

\* A walk begins at libdl_info, in front of every library.
LEMMA BeginWalkAhead ==
  ASSUME UnwindInv, NEW u \in Reader, BeginWalk(u)
  PROVE  WalkTypeOK' /\ OwnerAhead' /\ LoadsDoNotDisturb'
<1>1. UNCHANGED <<solist, base>> /\ Linked' = Linked /\ Failed' = Failed
  BY ReadersOnlyRead DEF BeginWalk
<1>2. PICK s \in Linked \ {LibdlInfo} :
        walk' = [walk EXCEPT ![u] = [state |-> "on", at |-> solist[1], addr |-> base[s], found |-> NULL,
                                     owner |-> s, steady |-> TRUE, freed |-> FALSE]]
  BY DEF BeginWalk
<1>3. /\ walk \in [Reader -> Walk] /\ s \in Slot /\ base[s] \in Region \cup {NoRegion}
      /\ solist \in Seq(Slot) /\ DOMAIN solist = 1..Len(solist) /\ Len(solist) \in Nat
  BY LinkedSlots DEF UnwindInv, WalkTypeOK, MappedInv, OrderInv, IInv, TypeOK
<1>4. PICK j \in DOMAIN solist : solist[j] = s
  BY DEF Linked, Loaded, Range
<1>5. 1 \in DOMAIN solist /\ 1 <= j /\ solist[1] \in Slot
  BY <1>3, <1>4
<1>6. \A v \in Reader \ {u} : walk'[v] = walk[v]
  BY <1>2, <1>3
<1>7. walk'[u] = [state |-> "on", at |-> solist[1], addr |-> base[s], found |-> NULL,
                  owner |-> s, steady |-> TRUE, freed |-> FALSE]
  BY <1>2, <1>3
<1>8. WalkTypeOK'
  BY <1>2, <1>3, <1>5 DEF WalkTypeOK, Walk
<1>9. OwnerAhead'
  <2>1. /\ walk'[u].owner \in Linked \ {LibdlInfo} /\ base[walk'[u].owner] = walk'[u].addr
        /\ solist[1] = walk'[u].at /\ solist[j] = walk'[u].owner
    BY <1>4, <1>7
  <2> QED BY <1>1, <1>4, <1>5, <1>6, <2>1 DEF UnwindInv, OwnerAhead, Undisturbed
<1>10. LoadsDoNotDisturb'
  BY <1>1, <1>6, <1>7 DEF UnwindInv, LoadsDoNotDisturb
<1> QED BY <1>8, <1>9, <1>10

\* A soinfo that does not cover the address is not the library looked for,
\* which is further down the list.
LEMMA StepWalkAhead ==
  ASSUME UnwindInv, NEW u \in Reader, StepWalk(u)
  PROVE  WalkTypeOK' /\ OwnerAhead' /\ LoadsDoNotDisturb'
<1>1. UNCHANGED <<solist, base>> /\ Linked' = Linked /\ Failed' = Failed
  BY ReadersOnlyRead DEF StepWalk
<1>2. /\ walk \in [Reader -> Walk] /\ IInv
      /\ solist \in Seq(Slot) /\ freelist \in Seq(Slot) /\ DOMAIN solist = 1..Len(solist) /\ Len(solist) \in Nat
  BY DEF UnwindInv, WalkTypeOK, MappedInv, OrderInv, IInv, TypeOK
<1>3. /\ walk' = [walk EXCEPT ![u].at = next(walk[u].at)] /\ walk[u].state = "on"
      /\ walk[u].at \notin Stops(walk[u].addr)
  BY DEF StepWalk
<1>4. next(walk[u].at) \in Slot \cup {NULL}
  <2>1. ASSUME NEW list \in Seq(Slot), NEW x PROVE NextIn(list, x) \in Slot \cup {NULL}
    <3> DEFINE later == {i \in DOMAIN list : i > 1 /\ list[i - 1] = x}
    <3>1. CASE later = {}
      BY <3>1 DEF NextIn
    <3>2. CASE later # {}
      <4>1. later \subseteq Nat
        OBVIOUS
      <4>2. \E m \in later : \A k \in later : m <= k
        BY <3>2, <4>1, LeastNatural
      <4>3. Min(later) \in later
        BY <4>2 DEF Min
      <4>4. NextIn(list, x) = list[Min(later)]
        BY <3>2 DEF NextIn
      <4> QED BY <4>3, <4>4
    <3> QED BY <3>1, <3>2
  <2> QED BY <1>2, <2>1 DEF next
<1>5. \A v \in Reader \ {u} : walk'[v] = walk[v]
  BY <1>2, <1>3
<1>6. /\ walk'[u].state = "on" /\ walk'[u].at = next(walk[u].at) /\ walk'[u].owner = walk[u].owner
      /\ walk'[u].addr = walk[u].addr /\ walk'[u].steady = walk[u].steady /\ walk'[u].freed = walk[u].freed
  BY <1>2, <1>3 DEF Walk
<1>7. WalkTypeOK'
  BY <1>2, <1>3, <1>4 DEF WalkTypeOK, Walk
<1>8. ASSUME Undisturbed(u)
      PROVE  \E i, j \in DOMAIN solist : /\ i <= j /\ solist[i] = next(walk[u].at)
                                         /\ solist[j] = walk[u].owner
  <2>1. PICK i \in DOMAIN solist, j \in DOMAIN solist :
          i <= j /\ solist[i] = walk[u].at /\ solist[j] = walk[u].owner
    BY <1>3, <1>8 DEF UnwindInv, OwnerAhead
  <2>2. i # j
    <3>1. walk[u].owner \in Slot /\ base[walk[u].owner] = walk[u].addr
      BY <1>2, <1>3, <1>8, LinkedSlots DEF UnwindInv, OwnerAhead
    <3> QED BY <1>3, <2>1, <3>1 DEF Stops
  <2>3. i + 1 \in DOMAIN solist /\ i + 1 <= j
    BY <1>2, <2>1, <2>2
  <2>4. next(solist[i]) = solist[i + 1]
    BY <1>2, <2>3, NextIsNext
  <2> QED BY <2>1, <2>3, <2>4
<1>9. OwnerAhead'
  <2>1. ASSUME Undisturbed(u)
        PROVE  walk[u].owner \in Linked \ {LibdlInfo} /\ base[walk[u].owner] = walk[u].addr
    BY <1>3, <2>1 DEF UnwindInv, OwnerAhead
  <2>2. Undisturbed(u)' => Undisturbed(u)
    BY <1>6 DEF Undisturbed
  <2> QED BY <1>1, <1>5, <1>6, <1>8, <2>1, <2>2 DEF UnwindInv, OwnerAhead, Undisturbed
<1>10. LoadsDoNotDisturb'
  BY <1>1, <1>5, <1>6 DEF UnwindInv, LoadsDoNotDisturb
<1> QED BY <1>7, <1>9, <1>10

\* The walk ends at the library looked for, or at one that failed to link and
\* still has the same base.
LEMMA EndWalkFinds ==
  ASSUME PrelinksApart, UnwindInv, NEW u \in Reader, EndWalk(u)
  PROVE  WalkTypeOK' /\ OwnerAhead' /\ LoadsDoNotDisturb'
<1>1. UNCHANGED <<solist, base>> /\ Linked' = Linked /\ Failed' = Failed
  BY ReadersOnlyRead DEF EndWalk
<1>2. /\ walk \in [Reader -> Walk] /\ walk[u] \in Walk /\ solist \in Seq(Slot) /\ NULL \notin Slot
  BY LinkedSlots DEF UnwindInv, WalkTypeOK, MappedInv, OrderInv, IInv, TypeOK
<1>3. /\ walk' = [walk EXCEPT ![u].state = "done", ![u].found = walk[u].at] /\ walk[u].state = "on"
      /\ walk[u].at \in Stops(walk[u].addr)
  BY DEF EndWalk
<1>4. \A v \in Reader \ {u} : walk'[v] = walk[v]
  BY <1>2, <1>3
<1>5. /\ walk'[u].state = "done" /\ walk'[u].found = walk[u].at /\ walk'[u].owner = walk[u].owner
      /\ walk'[u].steady = walk[u].steady /\ walk'[u].freed = walk[u].freed
  BY <1>2, <1>3 DEF Walk
<1>6. WalkTypeOK'
  BY <1>2, <1>3 DEF WalkTypeOK, Walk
<1>7. OwnerAhead'
  BY <1>1, <1>4, <1>5 DEF UnwindInv, OwnerAhead, Undisturbed
<1>8. ASSUME Undisturbed(u)
      PROVE  walk[u].at = walk[u].owner \/ walk[u].at \in Failed
  <2>1. /\ walk[u].owner \in Linked \ {LibdlInfo} /\ base[walk[u].owner] = walk[u].addr
        /\ walk[u].at \in Loaded
    BY <1>3, <1>8 DEF UnwindInv, OwnerAhead, Loaded, Range
  <2>2. walk[u].at # NULL
    BY <1>2, <2>1, LinkedSlots DEF UnwindInv, MappedInv, OrderInv
  <2>3. base[walk[u].at] = base[walk[u].owner]
    BY <1>3, <2>1, <2>2 DEF Stops
  <2>4. PICK s \in Linked \ {LibdlInfo}, t \in Loaded : s = walk[u].owner /\ t = walk[u].at
    BY <2>1
  <2> QED BY <2>3, <2>4, SameBase DEF UnwindInv
<1>9. LoadsDoNotDisturb'
  BY <1>1, <1>4, <1>5, <1>8 DEF UnwindInv, LoadsDoNotDisturb, Undisturbed
<1> QED BY <1>6, <1>7, <1>9

LEMMA UnwindStep == PrelinksApart /\ UnwindInv /\ [UnwindNext]_unwindVars => UnwindInv'
<1> SUFFICES ASSUME PrelinksApart, UnwindInv, [UnwindNext]_unwindVars PROVE UnwindInv'
  OBVIOUS
<1>1. [Next]_vars
  BY DEF UnwindNext, LinkerRuns, BeginWalk, StepWalk, EndWalk, ForgetWalk, unwindVars
<1>2. MappedInv' /\ PlacesKnown'
  BY <1>1, NextMapped, PlacesStep DEF UnwindInv, MappedInv, OrderInv
<1>3. CASE LinkerRuns
  BY <1>2, <1>3, LinkerRunsWalks DEF UnwindInv
<1>4. CASE \E u \in Reader : BeginWalk(u) \/ StepWalk(u) \/ EndWalk(u)
  BY <1>2, <1>4, BeginWalkAhead, StepWalkAhead, EndWalkFinds DEF UnwindInv
<1>5. CASE \E u \in Reader : ForgetWalk(u)
  <2>1. PICK u \in Reader : ForgetWalk(u)
    BY <1>5
  <2>2. UNCHANGED <<solist, base>> /\ Linked' = Linked /\ Failed' = Failed
    BY <2>1, ReadersOnlyRead DEF ForgetWalk
  <2>3. walk \in [Reader -> Walk] /\ walk' = [walk EXCEPT ![u] = Off]
    BY <2>1 DEF ForgetWalk, UnwindInv, WalkTypeOK
  <2>4. WalkTypeOK' /\ Off.state = "off"
    BY <2>3 DEF WalkTypeOK, Walk, Off
  <2>5. \A v \in Reader : walk'[v].state # "off" => walk'[v] = walk[v]
    BY <2>3, <2>4
  <2> QED BY <1>2, <2>2, <2>4, <2>5 DEF UnwindInv, OwnerAhead, Undisturbed, LoadsDoNotDisturb
<1>6. CASE UNCHANGED unwindVars
  <2>1. UNCHANGED <<solist, base, walk>> /\ Linked' = Linked /\ Failed' = Failed
    BY <1>6, ReadersOnlyRead DEF unwindVars
  <2> QED BY <1>2, <2>1 DEF UnwindInv, WalkTypeOK, OwnerAhead, Undisturbed, LoadsDoNotDisturb
<1> QED BY <1>3, <1>4, <1>5, <1>6 DEF UnwindNext

\* dl_unwind_find_exidx takes no lock, and yet where prelinked files have places
\* of their own no load, however it fails, ever makes it miss the library it
\* looks for: only free_info does, or a failed library that claims its place.
THEOREM LoadsLeaveWalksAlone == ASSUME PrelinksApart PROVE UnwindSpec => []LoadsDoNotDisturb
<1>1. UnwindInit => UnwindInv
  <2> SUFFICES ASSUME UnwindInit PROVE UnwindInv
    OBVIOUS
  <2>1. Init /\ walk = [u \in Reader |-> Off]
    BY DEF UnwindInit
  <2>2. MappedInv
    BY <2>1, InitMapped
  <2>3. PlacesKnown
    BY <2>1, SizesAssumption DEF Init, PlacesKnown, Slot, LibdlInfo
  <2>4. \A u \in Reader : walk[u] \in Walk /\ walk[u].state = "off"
    BY <2>1 DEF Walk, Off
  <2>5. WalkTypeOK
    BY <2>1, <2>4 DEF WalkTypeOK
  <2> QED BY <2>2, <2>3, <2>4, <2>5 DEF UnwindInv, OwnerAhead, LoadsDoNotDisturb
<1>2. UnwindInv /\ [UnwindNext]_unwindVars => UnwindInv'
  BY UnwindStep
<1>3. UnwindInv => LoadsDoNotDisturb
  BY DEF UnwindInv
<1> QED BY <1>1, <1>2, <1>3, PTL DEF UnwindSpec
=============================================================================
