--------------------------- MODULE TwoPhaseProofs ---------------------------
(***************************************************************************)
(* What TwoPhase promises of handles, constructors and protection, proved   *)
(* for any graphs and any nesting of constructors that open libraries.      *)
(***************************************************************************)
EXTENDS TwoPhaseInv, FiniteSetTheorems, TLAPS

-----------------------------------------------------------------------------
(* Values and their types.                                                 *)

LEMMA Typed ==
  ASSUME TwoPhaseTypeOK
  PROVE  /\ needs \in [File -> Seq(File)] /\ si \in [File -> Soinfo] /\ calls \in Seq(Frame)
         /\ \A k \in File : Len(needs[k]) \in Nat /\ Needed(k) = 1 .. Len(needs[k])
         /\ \A k \in File, e \in Nat : e \in Needed(k) => needs[k][e] \in File
         /\ \A k \in File : held[k] \in Nat /\ si[k].refcount \in Nat /\ si[k] \in Soinfo
<1>1. needs \in [File -> Seq(File)]
  BY TwoPhaseAssumption DEF TwoPhaseTypeOK
<1>2. \A k \in File : needs[k] \in Seq(File)
  BY <1>1
<1>3. \A k \in File : Len(needs[k]) \in Nat /\ Needed(k) = 1 .. Len(needs[k])
  BY <1>2 DEF Needed
<1>4. \A k \in File, e \in Nat : e \in Needed(k) => needs[k][e] \in File
  BY <1>2, <1>3
<1>5. \A k \in File : held[k] \in Nat
  BY TwoPhaseAssumption DEF TwoPhaseTypeOK
<1>6. \A k \in File : si[k].refcount \in Nat /\ si[k] \in Soinfo
  BY DEF TwoPhaseTypeOK, Soinfo
<1> QED BY <1>1, <1>3, <1>4, <1>5, <1>6 DEF TwoPhaseTypeOK

LEMMA EmptyStack ==
  ASSUME NEW s \in Seq(Frame)
  PROVE  /\ Len(s) \in Nat /\ DOMAIN s = 1 .. Len(s)
         /\ s = <<>> <=> Len(s) = 0
  OBVIOUS

LEMMA Frames ==
  ASSUME TwoPhaseTypeOK
  PROVE  /\ Depth \in Nat /\ DOMAIN calls = 1 .. Depth
         /\ \A i \in DOMAIN calls :
              /\ calls[i] \in Frame /\ calls[i].l \in File /\ calls[i].d \in Nat
              /\ calls[i].opened \in File \cup {NIL}
         /\ calls = <<>> <=> Depth = 0
<1>1. calls \in Seq(Frame)
  BY DEF TwoPhaseTypeOK
<1>2. Depth \in Nat /\ DOMAIN calls = 1 .. Depth /\ (calls = <<>> <=> Depth = 0)
  BY <1>1, EmptyStack DEF Depth
<1>3. \A i \in DOMAIN calls : calls[i] \in Frame
  BY <1>1
<1> QED BY <1>2, <1>3 DEF Frame

LEMMA TypedThen ==
  ASSUME TwoPhaseTypeOK'
  PROVE  /\ calls' \in Seq(Frame) /\ Len(calls') \in Nat /\ DOMAIN calls' = 1 .. Len(calls')
         /\ \A j \in DOMAIN calls' : calls'[j] \in Frame /\ calls'[j].l \in File /\ calls'[j].d \in Nat
         /\ \A k \in File : held'[k] \in Nat /\ si'[k].refcount \in Nat
<1>1. calls' \in Seq(Frame)
  BY DEF TwoPhaseTypeOK
<1>2. \A j \in DOMAIN calls' : calls'[j] \in Frame
  BY <1>1
<1>3. \A k \in File : held'[k] \in Nat
  BY TwoPhaseAssumption DEF TwoPhaseTypeOK
<1>4. \A k \in File : si'[k].refcount \in Nat
  BY DEF TwoPhaseTypeOK, Soinfo
<1> QED BY <1>1, <1>2, <1>3, <1>4, EmptyStack DEF Frame

LEMMA Pushing ==
  ASSUME NEW s \in Seq(Frame), NEW g \in Frame
  PROVE  /\ Append(s, g) \in Seq(Frame) /\ Append(s, g) # <<>>
         /\ Len(Append(s, g)) = Len(s) + 1 /\ DOMAIN Append(s, g) = 1 .. Len(s) + 1
         /\ \A i \in 1 .. Len(s) : Append(s, g)[i] = s[i]
         /\ Append(s, g)[Len(s) + 1] = g
  OBVIOUS

LEMMA Popping ==
  ASSUME TwoPhaseTypeOK, calls # <<>>
  PROVE  /\ Outer \in Seq(Frame) /\ Len(Outer) = Depth - 1
         /\ DOMAIN Outer = 1 .. Depth - 1
         /\ \A i \in 1 .. Depth - 1 : Outer[i] = calls[i]
         /\ Outer = <<>> <=> Depth = 1
<1>1. calls \in Seq(Frame) /\ Depth \in Nat /\ Depth > 0 /\ Depth = Len(calls)
  BY Frames DEF TwoPhaseTypeOK, Depth
<1>2. Outer \in Seq(Frame) /\ Len(Outer) = Depth - 1 /\ \A i \in 1 .. Depth - 1 : Outer[i] = calls[i]
  BY <1>1 DEF Outer
<1>3. (Outer = <<>> <=> Len(Outer) = 0) /\ DOMAIN Outer = 1 .. Len(Outer)
  BY <1>2, EmptyStack
<1> QED BY <1>1, <1>2, <1>3

\* Exchanging the innermost activation.
LEMMA Exchanging ==
  ASSUME NEW s \in Seq(Frame), s # <<>>, NEW g \in Frame, NEW r, r = [s EXCEPT ![Len(s)] = g]
  PROVE  /\ r \in Seq(Frame) /\ r # <<>>
         /\ Len(r) = Len(s) /\ DOMAIN r = 1 .. Len(s)
         /\ \A i \in 1 .. Len(s) - 1 : r[i] = s[i]
         /\ r[Len(s)] = g
  OBVIOUS

LEMMA Entering ==
  ASSUME NEW fn \in {"dlopen", "link_image", "constructors", "unload"}, NEW l \in File,
         NEW at \in {"find", "found", "loop", "body", "open", "fault"}
  PROVE  /\ Entered(fn, l, at) \in Frame
         /\ Entered(fn, l, at).fn = fn /\ Entered(fn, l, at).l = l /\ Entered(fn, l, at).d = 1
         /\ Entered(fn, l, at).at = at /\ Entered(fn, l, at).opened = NIL
  BY DEF Entered, Frame

-----------------------------------------------------------------------------
(* Closure.                                                                *)

LEMMA ClosureSelf ==
  ASSUME NEW l \in File
  PROVE  l \in Closure(l)
  BY DEF Closure

LEMMA ClosureNeeds ==
  ASSUME TwoPhaseTypeOK, NEW l \in File, NEW k \in Closure(l), NEW e \in Needed(k)
  PROVE  needs[k][e] \in Closure(l)
<1>1. k \in File /\ e \in Nat
  BY Typed DEF Closure
<1>2. needs[k][e] \in File /\ needs[k][e] \in Ranges(needs[k])
  BY <1>1, Typed DEF Ranges, Needed
<1>3. ASSUME NEW S \in SUBSET File, l \in S, \A n \in S : Ranges(needs[n]) \subseteq S
      PROVE  needs[k][e] \in S
  <2>1. k \in S
    BY <1>3 DEF Closure
  <2> QED BY <2>1, <1>2, <1>3
<1> QED BY <1>2, <1>3 DEF Closure

LEMMA ClosureWithin ==
  ASSUME NEW l \in File, NEW n \in Closure(l)
  PROVE  n \in File /\ Closure(n) \subseteq Closure(l)
<1>1. n \in File
  BY DEF Closure
<1>2. ASSUME NEW k \in Closure(n), NEW S \in SUBSET File, l \in S, \A m \in S : Ranges(needs[m]) \subseteq S
      PROVE  k \in S
  <2>1. n \in S
    BY <1>2 DEF Closure
  <2> QED BY <2>1, <1>2 DEF Closure
<1>3. \A k \in Closure(n) : k \in File
  BY DEF Closure
<1> QED BY <1>1, <1>2, <1>3 DEF Closure

LEMMA ClosureKept ==
  ASSUME needs' = needs, NEW l
  PROVE  Closure(l)' = Closure(l)
  BY DEF Closure, Ranges

-----------------------------------------------------------------------------
(* Counting references.                                                    *)

AllEntries == UNION {{k} \X Needed(k) : k \in File}

LEMMA EntryPairs ==
  ASSUME NEW x \in AllEntries
  PROVE  x = <<x[1], x[2]>> /\ x[1] \in File /\ x[2] \in Needed(x[1])
  BY DEF AllEntries

LEMMA PairEntries ==
  ASSUME NEW k \in File, NEW e \in Needed(k)
  PROVE  <<k, e>> \in AllEntries
  BY DEF AllEntries

LEMMA RefsFinite ==
  ASSUME TwoPhaseTypeOK, NEW l \in File
  PROVE  /\ IsFiniteSet(EntriesOn(l)) /\ Cardinality(EntriesOn(l)) \in Nat
         /\ IsFiniteSet(OpenersOf(l)) /\ Cardinality(OpenersOf(l)) \in Nat
         /\ Refs(l) \in Nat
<1> DEFINE f == [k \in File |-> {k} \X Needed(k)]
           T == {{k} \X Needed(k) : k \in File}
<1>1. f \in Surjection(File, T)
  BY DEF Surjection
<1>2. IsFiniteSet(T)
  BY <1>1, FS_Surjection, TwoPhaseAssumption
<1>3. \A k \in File : IsFiniteSet({k} \X Needed(k))
  <2> TAKE k \in File
  <2>1. Needed(k) = 1 .. Len(needs[k]) /\ Len(needs[k]) \in Int
    BY Typed
  <2>2. IsFiniteSet(Needed(k))
    BY <2>1, FS_Interval
  <2>3. IsFiniteSet({k})
    BY FS_Singleton
  <2> QED BY <2>2, <2>3, FS_Product
<1>4. IsFiniteSet(UNION T)
  BY <1>2, <1>3, FS_UNION
<1>5. EntriesOn(l) \in SUBSET UNION T
  BY DEF EntriesOn
<1>6. IsFiniteSet(EntriesOn(l)) /\ Cardinality(EntriesOn(l)) \in Nat
  BY <1>4, <1>5, FS_Subset, FS_CardinalityType
<1>7. IsFiniteSet(DOMAIN calls)
  BY Frames, FS_Interval
<1>8. OpenersOf(l) \in SUBSET DOMAIN calls
  BY DEF OpenersOf
<1>9. IsFiniteSet(OpenersOf(l)) /\ Cardinality(OpenersOf(l)) \in Nat
  BY <1>7, <1>8, FS_Subset, FS_CardinalityType
<1> QED BY <1>6, <1>9, Typed DEF Refs

LEMMA FewerEntries ==
  ASSUME TwoPhaseTypeOK, needs' = needs, NEW l \in File,
         \A k \in File : \A e \in Needed(k) : needs[k][e] = l /\ Bound(k, e)' => Bound(k, e)
  PROVE  /\ EntriesOn(l)' \subseteq EntriesOn(l)
         /\ Cardinality(EntriesOn(l)') \in Nat
         /\ Cardinality(EntriesOn(l)') <= Cardinality(EntriesOn(l))
<1>1. \A k : Needed(k)' = Needed(k)
  BY DEF Needed
<1>2. EntriesOn(l)' = {x \in AllEntries : Bound(x[1], x[2])' /\ needs[x[1]][x[2]] = l}
  BY <1>1 DEF EntriesOn, AllEntries
<1>3. EntriesOn(l) = {x \in AllEntries : Bound(x[1], x[2]) /\ needs[x[1]][x[2]] = l}
  BY DEF EntriesOn, AllEntries
<1>4. EntriesOn(l)' \in SUBSET EntriesOn(l)
  BY <1>2, <1>3, EntryPairs
<1> QED BY <1>4, RefsFinite, FS_Subset, FS_CardinalityType

LEMMA OneEntryLess ==
  ASSUME TwoPhaseTypeOK, needs' = needs, NEW l \in File,
         \A k \in File : \A e \in Needed(k) : needs[k][e] = l /\ Bound(k, e)' => Bound(k, e),
         NEW n \in File, NEW d \in Needed(n), needs[n][d] = l, Bound(n, d), ~Bound(n, d)'
  PROVE  /\ Cardinality(EntriesOn(l)') \in Nat
         /\ Cardinality(EntriesOn(l)') <= Cardinality(EntriesOn(l)) - 1
<1>1. \A k : Needed(k)' = Needed(k)
  BY DEF Needed
<1>2. EntriesOn(l)' = {x \in AllEntries : Bound(x[1], x[2])' /\ needs[x[1]][x[2]] = l}
  BY <1>1 DEF EntriesOn, AllEntries
<1>3. EntriesOn(l) = {x \in AllEntries : Bound(x[1], x[2]) /\ needs[x[1]][x[2]] = l}
  BY DEF EntriesOn, AllEntries
<1>4. <<n, d>> \in EntriesOn(l) /\ <<n, d>> \notin EntriesOn(l)'
  BY <1>2, <1>3, PairEntries
<1>5. EntriesOn(l)' \subseteq EntriesOn(l)
  BY <1>2, <1>3, EntryPairs
<1>6. EntriesOn(l)' \in SUBSET (EntriesOn(l) \ {<<n, d>>})
  BY <1>4, <1>5
<1>7. /\ IsFiniteSet(EntriesOn(l) \ {<<n, d>>})
      /\ Cardinality(EntriesOn(l) \ {<<n, d>>}) = Cardinality(EntriesOn(l)) - 1
  BY <1>4, RefsFinite, FS_RemoveElement
<1> QED BY <1>6, <1>7, FS_Subset, FS_CardinalityType

LEMMA OneEntryMore ==
  ASSUME TwoPhaseTypeOK, needs' = needs, NEW l \in File, NEW n \in File, NEW d \in Needed(n),
         \A k \in File : \A e \in Needed(k) :
           needs[k][e] = l /\ Bound(k, e)' => Bound(k, e) \/ (k = n /\ e = d)
  PROVE  /\ Cardinality(EntriesOn(l)') \in Nat
         /\ Cardinality(EntriesOn(l)') <= Cardinality(EntriesOn(l)) + 1
<1>1. \A k : Needed(k)' = Needed(k)
  BY DEF Needed
<1>2. EntriesOn(l)' = {x \in AllEntries : Bound(x[1], x[2])' /\ needs[x[1]][x[2]] = l}
  BY <1>1 DEF EntriesOn, AllEntries
<1>3. EntriesOn(l) = {x \in AllEntries : Bound(x[1], x[2]) /\ needs[x[1]][x[2]] = l}
  BY DEF EntriesOn, AllEntries
<1>4. EntriesOn(l)' \in SUBSET (EntriesOn(l) \cup {<<n, d>>})
  <2> SUFFICES ASSUME NEW x \in EntriesOn(l)', x \notin EntriesOn(l)
               PROVE  x = <<n, d>>
    OBVIOUS
  <2>1. x \in AllEntries /\ Bound(x[1], x[2])' /\ needs[x[1]][x[2]] = l /\ ~Bound(x[1], x[2])
    BY <1>2, <1>3
  <2>2. x = <<x[1], x[2]>> /\ x[1] \in File /\ x[2] \in Needed(x[1])
    BY <2>1, EntryPairs
  <2>3. x[1] = n /\ x[2] = d
    BY <2>1, <2>2
  <2> QED BY <2>2, <2>3
<1>5. /\ IsFiniteSet(EntriesOn(l) \cup {<<n, d>>})
      /\ Cardinality(EntriesOn(l) \cup {<<n, d>>}) <= Cardinality(EntriesOn(l)) + 1
  <2>1. IsFiniteSet(EntriesOn(l)) /\ Cardinality(EntriesOn(l)) \in Nat
    BY RefsFinite
  <2>2. /\ IsFiniteSet(EntriesOn(l) \cup {<<n, d>>})
        /\ Cardinality(EntriesOn(l) \cup {<<n, d>>}) =
             IF <<n, d>> \in EntriesOn(l) THEN Cardinality(EntriesOn(l)) ELSE Cardinality(EntriesOn(l)) + 1
    BY <2>1, FS_AddElement
  <2> QED BY <2>1, <2>2
<1>6. /\ IsFiniteSet(EntriesOn(l)') /\ Cardinality(EntriesOn(l)') \in Nat
      /\ Cardinality(EntriesOn(l)') <= Cardinality(EntriesOn(l) \cup {<<n, d>>})
  BY <1>4, <1>5, FS_Subset, FS_CardinalityType
<1>7. Cardinality(EntriesOn(l)) \in Nat /\ Cardinality(EntriesOn(l) \cup {<<n, d>>}) \in Nat
  BY <1>5, RefsFinite, FS_CardinalityType
<1> QED BY <1>5, <1>6, <1>7

\* No entry gets bound: nothing gets linked, unloading does not go back, and
\* linking begins at the first entry and stays where it is.
NoneBound ==
  /\ \A k \in File : IsLinked(k)' => IsLinked(k)
  /\ \A j \in DOMAIN calls : Is(j, "unload") =>
       /\ j \in DOMAIN calls' /\ calls'[j].fn = "unload" /\ calls'[j].l = calls[j].l
       /\ calls'[j].d >= calls[j].d
  /\ \A j \in DOMAIN calls' : calls'[j].fn = "link_image" =>
       \/ j \in DOMAIN calls /\ Is(j, "link_image") /\ calls'[j].l = calls[j].l /\ calls'[j].d <= calls[j].d
       \/ calls'[j].d = 1

\* No constructor gets a handle.
NoneOpened == \A i \in DOMAIN calls' : calls'[i].opened # NIL =>
                i \in DOMAIN calls /\ calls'[i].opened = calls[i].opened

LEMMA BoundBefore ==
  ASSUME TwoPhaseTypeOK, TwoPhaseTypeOK', needs' = needs, NoneBound,
         NEW k \in File, NEW e \in Needed(k), Bound(k, e)'
  PROVE  Bound(k, e)
<1>1. e \in Nat /\ e >= 1
  BY Typed
<1>2. \A j \in DOMAIN calls : calls[j].d \in Nat
  BY Frames
<1>3. \A j \in DOMAIN calls' : calls'[j].d \in Nat
  BY TypedThen
<1>4. CASE IsLinked(k)' /\ \A j \in DOMAIN calls' : Is(j, "unload")' /\ calls'[j].l = k => calls'[j].d <= e
  <2>1. ASSUME NEW j \in DOMAIN calls, Is(j, "unload"), calls[j].l = k
        PROVE  calls[j].d <= e
    BY <2>1, <1>1, <1>2, <1>3, <1>4 DEF NoneBound, Is
  <2> QED BY <2>1, <1>4 DEF NoneBound, Bound
<1>5. CASE \E j \in DOMAIN calls' : Is(j, "link_image")' /\ calls'[j].l = k /\ e < calls'[j].d
  <2>1. PICK j \in DOMAIN calls' : calls'[j].fn = "link_image" /\ calls'[j].l = k /\ e < calls'[j].d
    BY <1>5 DEF Is
  <2>2. /\ j \in DOMAIN calls /\ Is(j, "link_image") /\ calls[j].l = k /\ e < calls[j].d
    BY <2>1, <1>1, <1>2, <1>3 DEF NoneBound
  <2> QED BY <2>2 DEF Bound
<1> QED BY <1>4, <1>5 DEF Bound

LEMMA FewerOpeners ==
  ASSUME TwoPhaseTypeOK, TwoPhaseTypeOK', NoneOpened, NEW l \in File
  PROVE  /\ OpenersOf(l)' \subseteq OpenersOf(l)
         /\ Cardinality(OpenersOf(l)') \in Nat
         /\ Cardinality(OpenersOf(l)') <= Cardinality(OpenersOf(l))
<1>1. l # NIL
  BY TwoPhaseAssumption
<1>2. OpenersOf(l)' \in SUBSET OpenersOf(l)
  BY <1>1 DEF OpenersOf, NoneOpened
<1> QED BY <1>2, RefsFinite, FS_Subset, FS_CardinalityType

LEMMA FewerCounted ==
  ASSUME TwoPhaseTypeOK, TwoPhaseTypeOK', needs' = needs, NoneOpened, NEW l \in File,
         \A k \in File : \A e \in Needed(k) : Bound(k, e)' => Bound(k, e)
  PROVE  Refs(l)' - held'[l] <= Refs(l) - held[l]
<1>1. Cardinality(EntriesOn(l)') \in Nat /\ Cardinality(EntriesOn(l)') <= Cardinality(EntriesOn(l))
  BY FewerEntries
<1>2. Cardinality(OpenersOf(l)') \in Nat /\ Cardinality(OpenersOf(l)') <= Cardinality(OpenersOf(l))
  BY FewerOpeners
<1>3. held[l] \in Nat
  BY Typed
<1>4. held'[l] \in Nat
  BY TypedThen
<1>5. Cardinality(EntriesOn(l)) \in Nat /\ Cardinality(OpenersOf(l)) \in Nat
  BY RefsFinite
<1> QED BY <1>1, <1>2, <1>3, <1>4, <1>5 DEF Refs

LEMMA FewerRefs ==
  ASSUME TwoPhaseTypeOK, TwoPhaseTypeOK', needs' = needs, NoneBound, NoneOpened, NEW l \in File
  PROVE  Refs(l)' - held'[l] <= Refs(l) - held[l]
  BY BoundBefore, FewerCounted

-----------------------------------------------------------------------------
(* What a step keeps that leaves most of the stack as it is.               *)

Alike(i) == calls'[i].fn = calls[i].fn /\ calls'[i].l = calls[i].l

Keeping  == Len(calls') <= Len(calls) /\ \A i \in 1 .. Len(calls') : Alike(i)
PushedOn == Len(calls') = Len(calls) + 1 /\ \A i \in 1 .. Len(calls) : Alike(i)
New      == calls'[Len(calls) + 1]

LEMMA ShapeKept ==
  ASSUME needs' = needs, NEW i \in Nat, FrameShape(i), calls'[i] = calls[i],
         i > 1 => calls'[i - 1] = calls[i - 1]
  PROVE  FrameShape(i)'
  BY DEF FrameShape, OpenShape, LinkShape, ConstructShape, UnloadShape, Is, Needed

LEMMA OrderKept ==
  ASSUME TwoPhaseTypeOK, TwoPhaseTypeOK', StackOrder, Keeping
  PROVE  StackOrder'
<1>1. DOMAIN calls' = 1 .. Len(calls') /\ DOMAIN calls = 1 .. Len(calls)
  BY TypedThen, Frames DEF Depth
<1>2. \A i \in DOMAIN calls' : i \in DOMAIN calls /\ Alike(i)
  BY <1>1, Frames, TypedThen DEF Keeping, Depth
<1> QED BY <1>2 DEF StackOrder, Is, Alike

LEMMA OrderPushed ==
  ASSUME TwoPhaseTypeOK, TwoPhaseTypeOK', StackOrder, PushedOn,
         \A i \in DOMAIN calls :
           /\ Is(i, "link_image") => New.fn = "link_image" /\ calls[i].l # New.l
           /\ Is(i, "unload")     => New.fn = "unload"     /\ calls[i].l # New.l
  PROVE  StackOrder'
<1>1. DOMAIN calls' = 1 .. Len(calls) + 1 /\ DOMAIN calls = 1 .. Len(calls) /\ Len(calls) \in Nat
  BY TypedThen, Frames DEF Depth, PushedOn
<1>2. \A i \in DOMAIN calls : Alike(i)
  BY <1>1 DEF PushedOn
<1> SUFFICES ASSUME NEW i \in DOMAIN calls', NEW j \in DOMAIN calls', i < j
             PROVE  /\ Is(i, "link_image")' => Is(j, "link_image")' /\ calls'[i].l # calls'[j].l
                    /\ Is(i, "unload")'     => Is(j, "unload")'     /\ calls'[i].l # calls'[j].l
  BY DEF StackOrder
<1>3. i \in DOMAIN calls /\ Alike(i)
  BY <1>1, <1>2
<1>4. CASE j \in DOMAIN calls
  BY <1>2, <1>3, <1>4 DEF StackOrder, Is, Alike
<1>5. CASE j = Len(calls) + 1
  BY <1>3, <1>5 DEF Is, Alike, New
<1> QED BY <1>1, <1>4, <1>5

LEMMA ApartKept ==
  ASSUME TwoPhaseTypeOK, TwoPhaseTypeOK', UnloadsApart, Keeping, NoneOpened, needs' = needs
  PROVE  UnloadsApart'
<1>1. DOMAIN calls' = 1 .. Len(calls') /\ DOMAIN calls = 1 .. Len(calls) /\ Len(calls) \in Nat /\ Len(calls') \in Nat
  BY TypedThen, Frames DEF Depth
<1>2. \A i \in DOMAIN calls' : i \in DOMAIN calls /\ Alike(i)
  BY <1>1, Frames, TypedThen DEF Keeping, Depth
<1>3. \A i \in DOMAIN calls', l \in File : UnderWay(i, l)' => UnderWay(i, l)
  BY <1>2, ClosureKept DEF UnderWay, Is, Alike
<1>4. \A j \in DOMAIN calls' : calls'[j].l \in File /\ (calls'[j].opened # NIL => calls'[j].opened \in File)
  BY TypedThen DEF Frame
<1> SUFFICES ASSUME NEW i \in DOMAIN calls', NEW j \in DOMAIN calls'
             PROVE  /\ i < j /\ Is(j, "unload")' => ~UnderWay(i, calls[j].l)'
                    /\ i < j /\ Is(j, "dlopen")' /\ calls'[j - 1].l \in Balanced => ~UnderWay(i, calls[j].l)'
                    /\ i <= j /\ calls'[j].opened # NIL /\ calls'[j].l \in Balanced => ~UnderWay(i, calls[j].opened)'
  BY DEF UnloadsApart
<1>5. /\ i \in DOMAIN calls /\ j \in DOMAIN calls /\ calls'[j].l = calls[j].l
      /\ (Is(j, "unload")' <=> Is(j, "unload")) /\ (Is(j, "dlopen")' <=> Is(j, "dlopen"))
  BY <1>2 DEF Alike, Is
<1>6. i < j /\ Is(j, "unload")' => ~UnderWay(i, calls[j].l)'
  BY <1>3, <1>4, <1>5 DEF UnloadsApart
<1>7. i < j => calls'[j - 1].l = calls[j - 1].l
  <2>1. i < j => j - 1 \in DOMAIN calls'
    BY <1>1
  <2> QED BY <2>1, <1>2 DEF Alike
<1>8. i < j /\ Is(j, "dlopen")' /\ calls'[j - 1].l \in Balanced => ~UnderWay(i, calls[j].l)'
  BY <1>3, <1>4, <1>5, <1>7 DEF UnloadsApart
<1>9. i <= j /\ calls'[j].opened # NIL /\ calls'[j].l \in Balanced => ~UnderWay(i, calls[j].opened)'
  BY <1>3, <1>4, <1>5 DEF UnloadsApart, NoneOpened
<1> QED BY <1>6, <1>8, <1>9

LEMMA ApartPushed ==
  ASSUME TwoPhaseTypeOK, TwoPhaseTypeOK', UnloadsApart, PushedOn, NoneOpened, needs' = needs,
         New.fn = "unload" => \A i \in DOMAIN calls : ~UnderWay(i, New.l),
         New.fn = "dlopen" /\ calls # <<>> /\ Inner.l \in Balanced => \A i \in DOMAIN calls : ~UnderWay(i, New.l)
  PROVE  UnloadsApart'
<1>1. DOMAIN calls' = 1 .. Len(calls) + 1 /\ DOMAIN calls = 1 .. Len(calls) /\ Len(calls) \in Nat
  BY TypedThen, Frames DEF Depth, PushedOn
<1>2. \A i \in DOMAIN calls : Alike(i)
  BY <1>1 DEF PushedOn
<1>3. \A i \in DOMAIN calls, l \in File : UnderWay(i, l)' => UnderWay(i, l)
  BY <1>2, ClosureKept DEF UnderWay, Is, Alike
<1>4. \A j \in DOMAIN calls' : calls'[j].l \in File /\ (calls'[j].opened # NIL => calls'[j].opened \in File)
  BY TypedThen DEF Frame
<1> SUFFICES ASSUME NEW i \in DOMAIN calls', NEW j \in DOMAIN calls'
             PROVE  /\ i < j /\ Is(j, "unload")' => ~UnderWay(i, calls[j].l)'
                    /\ i < j /\ Is(j, "dlopen")' /\ calls'[j - 1].l \in Balanced => ~UnderWay(i, calls[j].l)'
                    /\ i <= j /\ calls'[j].opened # NIL /\ calls'[j].l \in Balanced => ~UnderWay(i, calls[j].opened)'
  BY DEF UnloadsApart
<1>5. i <= j /\ calls'[j].opened # NIL /\ calls'[j].l \in Balanced => ~UnderWay(i, calls[j].opened)'
  <2> SUFFICES ASSUME i <= j, calls'[j].opened # NIL, calls'[j].l \in Balanced
               PROVE  ~UnderWay(i, calls[j].opened)'
    OBVIOUS
  <2>1. j \in DOMAIN calls /\ calls'[j].opened = calls[j].opened /\ calls'[j].l = calls[j].l
    BY <1>2 DEF NoneOpened, Alike
  <2>2. i \in DOMAIN calls
    BY <2>1, <1>1
  <2> QED BY <2>1, <2>2, <1>3, <1>4 DEF UnloadsApart
<1>6. CASE j \in DOMAIN calls
  <2>1. i < j => i \in DOMAIN calls /\ j - 1 \in DOMAIN calls
    BY <1>1, <1>6
  <2>2. calls'[j].l = calls[j].l /\ (Is(j, "unload")' <=> Is(j, "unload")) /\ (Is(j, "dlopen")' <=> Is(j, "dlopen"))
    BY <1>2, <1>6 DEF Alike, Is
  <2>3. i < j /\ Is(j, "unload")' => ~UnderWay(i, calls[j].l)'
    BY <1>3, <1>4, <1>6, <2>1, <2>2 DEF UnloadsApart
  <2>4. i < j => calls'[j - 1].l = calls[j - 1].l
    BY <1>2, <2>1 DEF Alike
  <2>5. i < j /\ Is(j, "dlopen")' /\ calls'[j - 1].l \in Balanced => ~UnderWay(i, calls[j].l)'
    BY <1>3, <1>4, <1>6, <2>1, <2>2, <2>4 DEF UnloadsApart
  <2> QED BY <1>5, <2>3, <2>5
<1>7. CASE j = Len(calls) + 1
  <2>1. i < j => i \in DOMAIN calls /\ calls # <<>> /\ j - 1 = Len(calls) /\ Len(calls) \in DOMAIN calls
    BY <1>1, <1>7, Frames DEF Depth
  <2>2. i < j /\ Is(j, "unload")' => ~UnderWay(i, calls[j].l)'
    BY <1>3, <1>4, <1>7, <2>1 DEF Is, New
  <2>3. i < j => calls'[j - 1].l = Inner.l
    BY <2>1, <1>2 DEF Alike, Inner, Depth
  <2>4. i < j /\ Is(j, "dlopen")' /\ calls'[j - 1].l \in Balanced => ~UnderWay(i, calls[j].l)'
    BY <1>3, <1>4, <1>7, <2>1, <2>3 DEF Is, New
  <2> QED BY <1>5, <2>2, <2>4
<1> QED BY <1>1, <1>6, <1>7

\* A library that is still referenced is linked, and no reference is uncounted.
Covering(l) ==
  Refs(l)' = 0 \/ (IsLinked(l)' /\ si'[l].refcount - Refs(l)' >= si[l].refcount - Refs(l))

LEMMA Covered ==
  ASSUME TwoPhaseTypeOK, TwoPhaseTypeOK', RefcountCovers, needs' = needs, \A l \in File : Refs(l)' \in Nat,
         \A l \in File : Covering(l)
  PROVE  RefcountCovers' /\ ReferencedLinked'
<1> SUFFICES ASSUME NEW l \in File
             PROVE  si'[l].refcount >= Refs(l)' /\ (Refs(l)' > 0 => IsLinked(l)')
  BY DEF RefcountCovers, ReferencedLinked
<1>1. si[l].refcount \in Nat /\ si'[l].refcount \in Nat /\ Refs(l) \in Nat /\ Refs(l)' \in Nat
  BY Typed, TypedThen, RefsFinite
<1>2. si[l].refcount >= Refs(l)
  BY DEF RefcountCovers
<1> QED BY <1>1, <1>2 DEF Covering

LEMMA RefsTyped == TwoPhaseTypeOK => \A l \in File : Refs(l) \in Nat
  BY RefsFinite

LEMMA RefsThen == TwoPhaseTypeOK' => \A l \in File : Refs(l)' \in Nat
<1>1. TwoPhaseTypeOK' => (\A l \in File : Refs(l) \in Nat)'
  BY RefsTyped, PTL
<1> QED BY <1>1

\* The usual step: no reference more, and what loses its link had none.
LEMMA CountKept ==
  ASSUME TwoPhaseTypeOK, TwoPhaseTypeOK', RefcountCovers, UnloadsLast, ReferencedLinked,
         needs' = needs, NoneOpened, held' = held,
         \A k \in File : \A e \in Needed(k) : Bound(k, e)' => Bound(k, e),
         \A l \in File : Refs(l) = 0 \/ (si'[l].refcount >= si[l].refcount /\ (IsLinked(l) => IsLinked(l)')),
         \A j \in DOMAIN calls' : calls'[j].fn = "unload" =>
           /\ j \in DOMAIN calls /\ Alike(j)
           /\ si'[calls[j].l].refcount = si[calls[j].l].refcount
  PROVE  RefcountCovers' /\ UnloadsLast' /\ ReferencedLinked'
<1>1. \A l \in File : Refs(l)' \in Nat
  BY RefsThen
<1>2. \A l \in File : Refs(l) \in Nat /\ held[l] \in Nat /\ si[l].refcount \in Nat /\ si'[l].refcount \in Nat
  BY RefsFinite, Typed, TypedThen
<1>3. \A l \in File : Refs(l)' <= Refs(l)
  BY <1>1, <1>2, FewerCounted
<1>4. \A l \in File : Covering(l)
  BY <1>1, <1>2, <1>3 DEF Covering, ReferencedLinked
<1>5. RefcountCovers' /\ ReferencedLinked'
  BY <1>1, <1>4, Covered
<1>6. UnloadsLast'
  <2> SUFFICES ASSUME NEW j \in DOMAIN calls', calls'[j].fn = "unload"
               PROVE  si'[calls'[j].l].refcount = 1 /\ Refs(calls[j].l)' = 0
    BY DEF UnloadsLast, Is
  <2>1. /\ j \in DOMAIN calls /\ Is(j, "unload") /\ calls'[j].l = calls[j].l /\ calls[j].l \in File
        /\ si'[calls[j].l].refcount = si[calls[j].l].refcount
    BY Frames DEF Alike, Is
  <2>2. si[calls[j].l].refcount = 1 /\ Refs(calls[j].l) = 0
    BY <2>1 DEF UnloadsLast
  <2>3. \A l \in File : Refs(l) = 0 => Refs(l)' = 0
    BY <1>1, <1>2, <1>3
  <2> QED BY <2>1, <2>2, <2>3
<1> QED BY <1>5, <1>6

LEMMA RefsKept ==
  ASSUME TwoPhaseTypeOK, TwoPhaseTypeOK', RefcountCovers, UnloadsLast, ReferencedLinked,
         needs' = needs, NoneBound, NoneOpened, held' = held,
         \A l \in File : Refs(l) = 0 \/ (si'[l].refcount >= si[l].refcount /\ (IsLinked(l) => IsLinked(l)')),
         \A j \in DOMAIN calls' : calls'[j].fn = "unload" =>
           /\ j \in DOMAIN calls /\ Alike(j)
           /\ si'[calls[j].l].refcount = si[calls[j].l].refcount
  PROVE  RefcountCovers' /\ UnloadsLast' /\ ReferencedLinked'
  BY BoundBefore, CountKept

\* Neither a constructor begins or ends, nor does a library go.
LEMMA CalledKept ==
  ASSUME TwoPhaseTypeOK, TwoPhaseTypeOK', CalledLinked, CalledOrDone, DoneNeeds, ConstructingNeeds,
         needs' = needs,
         \A l \in File : si'[l].called = si[l].called /\ si'[l].done = si[l].done
                         /\ (IsLinked(l) => IsLinked(l)'),
         \A i \in DOMAIN calls : Is(i, "constructors") \/ Is(i, "unload") => i \in DOMAIN calls' /\ Alike(i),
         \A i \in DOMAIN calls' : calls'[i].fn = "constructors" =>
           i \in DOMAIN calls /\ Alike(i) /\ calls'[i].d = calls[i].d
  PROVE  CalledLinked' /\ CalledOrDone' /\ DoneNeeds' /\ ConstructingNeeds'
<1>1. \A k \in File : \A e \in Needed(k) : needs[k][e] \in File /\ Needed(k)' = Needed(k)
  BY Typed DEF Needed
<1>2. CalledLinked'
  BY DEF CalledLinked
<1>3. CalledOrDone'
  BY DEF CalledOrDone, Alike, Is
<1>4. DoneNeeds'
  <2> SUFFICES ASSUME NEW l \in File, si'[l].done, \A j \in DOMAIN calls' : Is(j, "unload")' => calls'[j].l # l,
                      NEW e \in Needed(l)
               PROVE  si'[needs[l][e]].called
    BY DEF DoneNeeds, Needed
  <2>1. \A j \in DOMAIN calls : Is(j, "unload") => calls[j].l # l
    BY DEF Alike, Is
  <2> QED BY <2>1, <1>1 DEF DoneNeeds
<1>5. ConstructingNeeds'
  <2> SUFFICES ASSUME NEW i \in DOMAIN calls', calls'[i].fn = "constructors",
                      NEW e \in Needed(calls'[i].l), e < calls'[i].d
               PROVE  si'[needs[calls'[i].l][e]].called
    BY DEF ConstructingNeeds, Needed, Is
  <2>1. i \in DOMAIN calls /\ Is(i, "constructors") /\ calls'[i].l = calls[i].l /\ calls[i].l \in File
        /\ calls'[i].d = calls[i].d
    BY Frames DEF Alike, Is
  <2> QED BY <2>1, <1>1 DEF ConstructingNeeds
<1> QED BY <1>2, <1>3, <1>4, <1>5

-----------------------------------------------------------------------------
(* The innermost activation changes.                                       *)

Place == {"find", "found", "loop", "body", "open", "fault"}

\* r is the stack with g for the innermost activation.
Topped(r, g) ==
  /\ r \in Seq(Frame) /\ r # <<>> /\ Len(r) = Depth /\ DOMAIN r = 1 .. Depth
  /\ \A i \in 1 .. Depth - 1 : r[i] = calls[i]
  /\ r[Depth] = g

LEMMA TopIs ==
  ASSUME TwoPhaseTypeOK, calls # <<>>
  PROVE  /\ Depth \in Nat /\ Depth > 0 /\ Depth \in DOMAIN calls /\ DOMAIN calls = 1 .. Depth
         /\ Inner \in Frame /\ Inner.l \in File /\ Inner.d \in Nat /\ Inner.opened \in File \cup {NIL}
         /\ Inner = calls[Depth]
  BY Frames DEF Inner

LEMMA ToppedBy ==
  ASSUME TwoPhaseTypeOK, calls # <<>>, NEW g \in Frame, NEW r, r = [calls EXCEPT ![Depth] = g]
  PROVE  Topped(r, g)
<1>1. calls \in Seq(Frame) /\ Depth = Len(calls)
  BY DEF TwoPhaseTypeOK, Depth
<1> QED BY <1>1, Exchanging DEF Topped

LEMMA TopAt ==
  ASSUME TwoPhaseTypeOK, calls # <<>>, NEW at \in Place
  PROVE  Topped(At(at), [Inner EXCEPT !.at = at])
<1>1. [Inner EXCEPT !.at = at] \in Frame
  BY TopIs DEF Frame, Place
<1>2. At(at) = [calls EXCEPT ![Depth] = [Inner EXCEPT !.at = at]]
  BY TopIs DEF At
<1> QED BY <1>1, <1>2, ToppedBy

LEMMA TopTurned ==
  ASSUME TwoPhaseTypeOK, calls # <<>>, NEW at \in Place, calls' = At(at)
  PROVE  /\ calls'[Depth].fn = Inner.fn /\ calls'[Depth].l = Inner.l /\ calls'[Depth].d = Inner.d
         /\ calls'[Depth].opened = Inner.opened /\ calls'[Depth].at = at
         /\ Depth' = Depth /\ Inner' = calls'[Depth]
         /\ (Depth > 1 => calls'[Depth - 1] = calls[Depth - 1])
<1>1. Topped(calls', [Inner EXCEPT !.at = at])
  BY TopAt
<1>2. Depth \in Nat /\ Inner \in Frame
  BY TopIs
<1> QED BY <1>1, <1>2 DEF Topped, Frame, Depth, Inner

LEMMA TopNext ==
  ASSUME TwoPhaseTypeOK, calls # <<>>
  PROVE  /\ Topped(NextEntry, [Inner EXCEPT !.d = Inner.d + 1])
         /\ [Inner EXCEPT !.d = Inner.d + 1] \in Frame
<1>1. [Inner EXCEPT !.d = Inner.d + 1] \in Frame
  BY TopIs DEF Frame
<1>2. NextEntry = [calls EXCEPT ![Depth] = [Inner EXCEPT !.d = Inner.d + 1]]
  BY TopIs DEF NextEntry
<1> QED BY <1>1, <1>2, ToppedBy

LEMMA TopNextAt ==
  ASSUME TwoPhaseTypeOK, calls # <<>>, NEW at \in Place
  PROVE  /\ Topped([NextEntry EXCEPT ![Depth].at = at], [Inner EXCEPT !.d = Inner.d + 1, !.at = at])
         /\ [Inner EXCEPT !.d = Inner.d + 1, !.at = at] \in Frame
<1>1. [Inner EXCEPT !.d = Inner.d + 1] \in Frame
  BY TopNext
<1>2. [[Inner EXCEPT !.d = Inner.d + 1] EXCEPT !.at = at] \in Frame
  BY <1>1 DEF Frame, Place
<1>3. [Inner EXCEPT !.d = Inner.d + 1, !.at = at] \in Frame
  BY <1>2
<1>4. [NextEntry EXCEPT ![Depth].at = at] = [calls EXCEPT ![Depth] = [Inner EXCEPT !.d = Inner.d + 1, !.at = at]]
  BY TopIs DEF NextEntry
<1> QED BY <1>3, <1>4, ToppedBy

LEMMA TopClosed ==
  ASSUME TwoPhaseTypeOK, calls # <<>>
  PROVE  Topped([calls EXCEPT ![Depth].opened = NIL], [Inner EXCEPT !.opened = NIL])
<1>1. [Inner EXCEPT !.opened = NIL] \in Frame
  BY TopIs DEF Frame
<1>2. [calls EXCEPT ![Depth].opened = NIL] = [calls EXCEPT ![Depth] = [Inner EXCEPT !.opened = NIL]]
  BY TopIs
<1> QED BY <1>1, <1>2, ToppedBy

\* What stays when the innermost activation only gets on.
LEMMA Turning ==
  ASSUME TwoPhaseIInv, TwoPhaseTypeOK', calls # <<>>, NEW at \in Place, calls' = At(at),
         needs' = needs, held' = held, owner' = owner,
         \A l \in File : /\ si'[l].flags = si[l].flags /\ si'[l].refcount = si[l].refcount
                         /\ si'[l].called = si[l].called /\ si'[l].done = si[l].done
  PROVE  /\ StackOrder' /\ UnloadsApart' /\ LockHeld'
         /\ RefcountCovers' /\ UnloadsLast' /\ ReferencedLinked'
         /\ CalledLinked' /\ CalledOrDone' /\ DoneNeeds' /\ ConstructingNeeds'
         /\ FrameShape(Depth)' => StackShape'
         /\ (Is(Depth, "dlopen") => at # "open") => StackFlags'
         /\ (Is(Depth, "unload") => at = "body" \/ (~si'[Inner.l].relro /\ at # "fault") \/ Inner.l \in Broken)
            /\ (\A l \in File : l # Inner.l => si'[l].relro = si[l].relro) => Unprotected'
<1> DEFINE D == Depth
<1>1. TwoPhaseTypeOK
  BY DEF TwoPhaseIInv
<1>2. /\ Depth \in Nat /\ Depth > 0 /\ Depth \in DOMAIN calls /\ DOMAIN calls = 1 .. Depth
      /\ Inner \in Frame /\ Inner.l \in File /\ Inner.d \in Nat /\ Inner = calls[Depth]
  BY <1>1, TopIs
<1>3. Topped(calls', [Inner EXCEPT !.at = at])
  BY <1>1, TopAt
<1>4. Len(calls') = Depth /\ Len(calls) = Depth /\ DOMAIN calls' = 1 .. Depth /\ calls' # <<>>
  BY <1>3 DEF Topped, Depth
<1>5. \A i \in 1 .. Depth : i # Depth => calls'[i] = calls[i]
  BY <1>2, <1>3 DEF Topped
<1>6. /\ calls'[Depth].fn = Inner.fn /\ calls'[Depth].l = Inner.l /\ calls'[Depth].d = Inner.d
      /\ calls'[Depth].opened = Inner.opened /\ calls'[Depth].at = at
  BY <1>2, <1>3 DEF Topped, Frame
<1>7. \A i \in DOMAIN calls : /\ i \in DOMAIN calls' /\ Alike(i) /\ calls'[i].d = calls[i].d
                             /\ calls'[i].opened = calls[i].opened
  BY <1>2, <1>4, <1>5, <1>6 DEF Alike
<1>8. Keeping
  BY <1>2, <1>4, <1>7 DEF Keeping
<1>9. NoneBound /\ NoneOpened
  BY <1>1, <1>2, <1>4, <1>7, Frames DEF NoneBound, NoneOpened, IsLinked, Is, Alike
<1>10. StackOrder' /\ UnloadsApart'
  BY <1>1, <1>8, <1>9, OrderKept, ApartKept DEF TwoPhaseIInv
<1>11. LockHeld'
  BY <1>2, <1>4, <1>7 DEF TwoPhaseIInv, LockHeld, Is, Alike
<1>12. RefcountCovers' /\ UnloadsLast' /\ ReferencedLinked'
  <2>1. \A l \in File : si'[l].refcount >= si[l].refcount /\ (IsLinked(l) => IsLinked(l)')
    BY <1>1, Typed DEF IsLinked
  <2>2. \A j \in DOMAIN calls' : j \in DOMAIN calls /\ Alike(j) /\ calls[j].l \in File
    BY <1>1, <1>2, <1>4, <1>7, Frames
  <2> QED BY <1>1, <1>9, <2>1, <2>2, RefsKept DEF TwoPhaseIInv
<1>13. CalledLinked' /\ CalledOrDone' /\ DoneNeeds' /\ ConstructingNeeds'
  <2>1. \A l \in File : IsLinked(l) => IsLinked(l)'
    BY DEF IsLinked
  <2> QED BY <1>1, <1>2, <1>4, <1>7, <2>1, CalledKept DEF TwoPhaseIInv
<1>14. ASSUME FrameShape(Depth)'
       PROVE  StackShape'
  <2> SUFFICES ASSUME NEW i \in DOMAIN calls'
               PROVE  FrameShape(i)'
    BY DEF StackShape
  <2>1. CASE i = Depth
    <3>1. Depth' = Depth
      BY <1>4 DEF Depth
    <3> QED BY <2>1, <3>1, <1>14
  <2>2. CASE i # Depth
    <3>1. i \in Nat /\ i \in DOMAIN calls /\ calls'[i] = calls[i] /\ (i > 1 => calls'[i - 1] = calls[i - 1])
      BY <1>2, <1>4, <1>5, <2>2
    <3>2. FrameShape(i)
      BY <3>1 DEF TwoPhaseIInv, StackShape
    <3> QED BY <3>1, <3>2, ShapeKept
  <2> QED BY <2>1, <2>2
<1>15. ASSUME Is(Depth, "dlopen") => at # "open"
       PROVE  StackFlags'
  <2>1. \A i \in DOMAIN calls' : i \in DOMAIN calls /\ Alike(i) /\ calls[i].l \in File
                               /\ (calls'[i].fn = "dlopen" /\ calls'[i].at = "open" => calls[i].at = "open")
    BY <1>1, <1>2, <1>4, <1>5, <1>6, <1>7, <1>15, Frames DEF Is
  <2> QED BY <2>1 DEF TwoPhaseIInv, StackFlags, Is, IsLinked, Alike
<1>16. ASSUME Is(Depth, "unload") => at = "body" \/ (~si'[Inner.l].relro /\ at # "fault") \/ Inner.l \in Broken,
              \A l \in File : l # Inner.l => si'[l].relro = si[l].relro
       PROVE  Unprotected'
  <2> SUFFICES ASSUME NEW j \in DOMAIN calls', calls'[j].fn = "unload", calls'[j].at # "body"
               PROVE  si'[calls'[j].l].relro \/ calls'[j].at = "fault" => calls'[j].l \in Broken
    BY DEF Unprotected, Is
  <2>1. CASE j = Depth
    BY <1>2, <1>6, <1>16, <2>1 DEF Is
  <2>2. CASE j # Depth
    <3>1. j \in DOMAIN calls /\ calls'[j] = calls[j] /\ calls[j].l \in File /\ Is(j, "unload") /\ j < Depth
      BY <1>1, <1>2, <1>4, <1>5, <2>2, Frames DEF Is
    <3>2. Is(Depth, "unload") /\ calls[j].l # Inner.l
      BY <1>2, <3>1 DEF TwoPhaseIInv, StackOrder
    <3>3. si[calls[j].l].relro \/ calls[j].at = "fault" => calls[j].l \in Broken
      BY <3>1 DEF TwoPhaseIInv, Unprotected
    <3> QED BY <1>16, <3>1, <3>2, <3>3
  <2> QED BY <2>1, <2>2
<1> QED BY <1>10, <1>11, <1>12, <1>13, <1>14, <1>15, <1>16

-----------------------------------------------------------------------------
(* A soinfo changes.                                                       *)

LEMMA RelroSet ==
  ASSUME NEW f, NEW k, NEW p
  PROVE  [f EXCEPT ![k].relro = p] = [f EXCEPT ![k] = [f[k] EXCEPT !.relro = p]]
  OBVIOUS

-----------------------------------------------------------------------------
(* One lemma for each action.                                              *)

\* At "find" and "found" there is a library that is looked for.
LEMMA WantedIs ==
  ASSUME TwoPhaseIInv, calls # <<>>, Inner.at \in {"find", "found"}
  PROVE  /\ Inner.fn \in {"dlopen", "link_image"} /\ Wanted \in File
         /\ Inner.fn = "link_image" => Inner.d \in Needed(Inner.l) /\ Wanted = EntryOf /\ LinkShape(Depth)
         /\ Inner.fn = "dlopen" => Wanted = Inner.l /\ OpenShape(Depth)
<1>1. TwoPhaseTypeOK
  BY DEF TwoPhaseIInv
<1>2. Depth \in DOMAIN calls /\ Inner = calls[Depth] /\ Inner.l \in File /\ Inner \in Frame /\ Inner.d \in Nat
  BY <1>1, TopIs
<1>3. FrameShape(Depth)
  BY <1>2 DEF TwoPhaseIInv, StackShape
<1>4. Inner.fn \in {"dlopen", "link_image", "constructors", "unload"}
  BY <1>2 DEF Frame
<1>5. Inner.fn \in {"dlopen", "link_image"}
  BY <1>2, <1>3, <1>4 DEF FrameShape, ConstructShape, UnloadShape, Is
<1>6. Inner.fn = "link_image" => Inner.d \in Needed(Inner.l) /\ Wanted = EntryOf /\ LinkShape(Depth)
  BY <1>2, <1>3 DEF FrameShape, LinkShape, Is, Wanted
<1>7. Inner.fn = "dlopen" => Wanted = Inner.l /\ OpenShape(Depth)
  BY <1>2, <1>3 DEF FrameShape, Is, Wanted
<1>8. Inner.fn = "link_image" => EntryOf \in File
  BY <1>1, <1>2, <1>6, Typed DEF EntryOf
<1> QED BY <1>2, <1>5, <1>6, <1>7, <1>8

LEMMA Finds ==
  ASSUME TwoPhaseIInv, Finding, NEW r, Found(r), r = NIL \/ (r = Wanted /\ IsLinked(r)),
         UNCHANGED <<si, owner, held>>, Keeps
  PROVE  TwoPhaseIInv'
<1>1. TwoPhaseTypeOK /\ calls # <<>> /\ Inner.at = "find" /\ result' = r
      /\ calls' = At("found") /\ needs' = needs /\ recursive' = recursive
  BY DEF TwoPhaseIInv, Finding, Found, Keeps
<1>2. Depth \in Nat /\ Depth \in DOMAIN calls /\ Inner = calls[Depth] /\ Inner \in Frame
  BY <1>1, TopIs
<1>3. Topped(calls', [Inner EXCEPT !.at = "found"])
  BY <1>1, TopAt DEF Place
<1>4. Wanted \in File
  BY <1>1, WantedIs
<1>5. TwoPhaseTypeOK'
  BY <1>1, <1>3, <1>4 DEF TwoPhaseTypeOK, Topped
<1>6. /\ calls'[Depth].fn = Inner.fn /\ calls'[Depth].l = Inner.l /\ calls'[Depth].d = Inner.d
      /\ calls'[Depth].opened = Inner.opened /\ calls'[Depth].at = "found"
      /\ Depth' = Depth /\ Inner' = calls'[Depth]
      /\ (Depth > 1 => calls'[Depth - 1] = calls[Depth - 1])
  BY <1>1, TopTurned DEF Place
<1>7. FrameShape(Depth)'
  <2>1. FrameShape(Depth)
    BY <1>2 DEF TwoPhaseIInv, StackShape
  <2>2. Inner.fn = "link_image" => Inner.d \in Needed(Inner.l)
    BY <1>1, WantedIs
  <2>3. Inner.fn \in {"dlopen", "link_image"}
    BY <1>1, WantedIs
  <2> QED BY <1>1, <1>2, <1>6, <2>1, <2>2, <2>3
          DEF FrameShape, OpenShape, LinkShape, Is, Needed
<1>8. FoundIsLinked'
  <2>1. Wanted' = Wanted
    BY <1>1, <1>6 DEF Wanted, EntryOf
  <2> QED BY <1>1, <2>1 DEF FoundIsLinked, IsLinked
<1>9. /\ Inner.fn \in {"dlopen", "link_image"}
      /\ ~Is(Depth, "unload")
  BY <1>1, <1>2, WantedIs DEF Is
<1> QED BY <1>1, <1>5, <1>7, <1>8, <1>9, Turning DEF TwoPhaseIInv, Place

LEMMA FindKnownStep == TwoPhaseIInv /\ FindKnown => TwoPhaseIInv'
<1> SUFFICES ASSUME TwoPhaseIInv, FindKnown PROVE TwoPhaseIInv'
  OBVIOUS
<1>1. Wanted \in File /\ Wanted # NIL
  BY WantedIs, TwoPhaseAssumption DEF FindKnown, Finding
<1>2. CASE IsLinked(Wanted)
  BY <1>1, <1>2, Finds DEF FindKnown, IsLinked
<1>3. CASE ~IsLinked(Wanted)
  BY <1>3, Finds DEF FindKnown, IsLinked
<1> QED BY <1>2, <1>3

LEMMA LoadFailsStep == TwoPhaseIInv /\ LoadFails => TwoPhaseIInv'
  BY Finds DEF LoadFails

LEMMA NeedNextStep == TwoPhaseIInv /\ NeedNext => TwoPhaseIInv'
<1> SUFFICES ASSUME TwoPhaseIInv, NeedNext PROVE TwoPhaseIInv'
  OBVIOUS
<1>1. TwoPhaseTypeOK /\ calls # <<>> /\ Inner.at = "loop" /\ Inner.fn = "link_image" /\ Inner.d <= Entries
      /\ calls' = At("find") /\ needs' = needs /\ recursive' = recursive
      /\ UNCHANGED <<si, result, owner, held>>
  BY DEF TwoPhaseIInv, NeedNext, In, Keeps
<1>2. Depth \in Nat /\ Depth \in DOMAIN calls /\ Inner = calls[Depth] /\ Inner \in Frame /\ Inner.l \in File
  BY <1>1, TopIs
<1>3. Topped(calls', [Inner EXCEPT !.at = "find"])
  BY <1>1, TopAt DEF Place
<1>5. TwoPhaseTypeOK'
  BY <1>1, <1>3 DEF TwoPhaseTypeOK, Topped
<1>6. /\ calls'[Depth].fn = Inner.fn /\ calls'[Depth].l = Inner.l /\ calls'[Depth].d = Inner.d
      /\ calls'[Depth].opened = Inner.opened /\ calls'[Depth].at = "find"
      /\ Depth' = Depth /\ Inner' = calls'[Depth]
      /\ (Depth > 1 => calls'[Depth - 1] = calls[Depth - 1])
  BY <1>1, TopTurned DEF Place
<1>7. FrameShape(Depth)'
  <2>1. FrameShape(Depth)
    BY <1>2 DEF TwoPhaseIInv, StackShape
  <2>2. Inner.d \in 1 .. Len(needs[Inner.l]) + 1
    BY <1>1, <1>2, <2>1 DEF FrameShape, LinkShape, Is
  <2>3. Inner.d \in Needed(Inner.l)
    BY <1>1, <1>2, <2>2, Typed DEF Entries
  <2> QED BY <1>1, <1>2, <1>6, <2>1, <2>2, <2>3
          DEF FrameShape, OpenShape, LinkShape, Is, Needed
<1>8. FoundIsLinked'
  BY <1>6 DEF FoundIsLinked
<1> QED BY <1>1, <1>2, <1>5, <1>7, <1>8, Turning DEF TwoPhaseIInv, Place, Is

LEMMA ConstructOwnStep == TwoPhaseIInv /\ ConstructOwn => TwoPhaseIInv'
<1> SUFFICES ASSUME TwoPhaseIInv, ConstructOwn PROVE TwoPhaseIInv'
  OBVIOUS
<1>1. TwoPhaseTypeOK /\ calls # <<>> /\ Inner.at = "loop" /\ Inner.fn = "constructors" /\ Inner.d > Entries
      /\ calls' = At("body") /\ needs' = needs /\ recursive' = recursive
      /\ UNCHANGED <<si, result, owner, held>>
  BY DEF TwoPhaseIInv, ConstructOwn, In, Keeps
<1>2. Depth \in Nat /\ Depth \in DOMAIN calls /\ Inner = calls[Depth] /\ Inner \in Frame /\ Inner.l \in File
  BY <1>1, TopIs
<1>3. Topped(calls', [Inner EXCEPT !.at = "body"])
  BY <1>1, TopAt DEF Place
<1>5. TwoPhaseTypeOK'
  BY <1>1, <1>3 DEF TwoPhaseTypeOK, Topped
<1>6. /\ calls'[Depth].fn = Inner.fn /\ calls'[Depth].l = Inner.l /\ calls'[Depth].d = Inner.d
      /\ calls'[Depth].opened = Inner.opened /\ calls'[Depth].at = "body"
      /\ Depth' = Depth /\ Inner' = calls'[Depth]
      /\ (Depth > 1 => calls'[Depth - 1] = calls[Depth - 1])
  BY <1>1, TopTurned DEF Place
<1>7. FrameShape(Depth)'
  <2>1. FrameShape(Depth)
    BY <1>2 DEF TwoPhaseIInv, StackShape
  <2> QED BY <1>1, <1>2, <1>6, <2>1
          DEF FrameShape, ConstructShape, Is, Entries
<1>8. FoundIsLinked'
  BY <1>6 DEF FoundIsLinked
<1> QED BY <1>1, <1>2, <1>5, <1>7, <1>8, Turning DEF TwoPhaseIInv, Place, Is

LEMMA UnprotectStep == TwoPhaseIInv /\ Unprotect => TwoPhaseIInv'
<1> SUFFICES ASSUME TwoPhaseIInv, Unprotect PROVE TwoPhaseIInv'
  OBVIOUS
<1>1. TwoPhaseTypeOK /\ calls # <<>> /\ Inner.at = "body" /\ Inner.fn = "unload"
      /\ calls' = At("loop") /\ needs' = needs /\ recursive' = recursive
      /\ UNCHANGED <<result, owner, held>>
  BY DEF TwoPhaseIInv, Unprotect, In, Keeps
<1>2. Depth \in Nat /\ Depth \in DOMAIN calls /\ Inner = calls[Depth] /\ Inner \in Frame /\ Inner.l \in File
  BY <1>1, TopIs
<1>3. Topped(calls', [Inner EXCEPT !.at = "loop"])
  BY <1>1, TopAt DEF Place
<1>4. PICK p \in BOOLEAN : si' = [si EXCEPT ![Inner.l].relro = p] /\ (p => Inner.l \in Broken)
  <2>1. si[Inner.l].relro \in BOOLEAN
    BY <1>1, <1>2, Typed DEF Soinfo
  <2> QED BY <2>1 DEF Unprotect
<1>12. si[Inner.l] \in Soinfo /\ [si[Inner.l] EXCEPT !.relro = p] \in Soinfo
  <2>1. si[Inner.l] \in Soinfo
    BY <1>1, <1>2, Typed
  <2> QED BY <2>1 DEF Soinfo
<1>13. PICK g \in Soinfo : g = [si[Inner.l] EXCEPT !.relro = p]
  BY <1>12
<1>14. /\ si' \in [File -> Soinfo] /\ si'[Inner.l] = g
       /\ \A l \in File : l # Inner.l => si'[l] = si[l]
  <2>1. si' = [si EXCEPT ![Inner.l] = g]
    BY <1>4, <1>13, RelroSet
  <2>2. si \in [File -> Soinfo] /\ Inner.l \in File
    BY <1>1, <1>2 DEF TwoPhaseTypeOK
  <2> QED BY <2>1, <2>2
<1>15. /\ si'[Inner.l].flags = si[Inner.l].flags /\ si'[Inner.l].refcount = si[Inner.l].refcount
       /\ si'[Inner.l].called = si[Inner.l].called /\ si'[Inner.l].done = si[Inner.l].done
       /\ si'[Inner.l].relro = p
  BY <1>12, <1>13, <1>14 DEF Soinfo
<1>5. TwoPhaseTypeOK'
  BY <1>1, <1>3, <1>14 DEF TwoPhaseTypeOK, Topped
<1>6. /\ calls'[Depth].fn = Inner.fn /\ calls'[Depth].l = Inner.l /\ calls'[Depth].d = Inner.d
      /\ calls'[Depth].opened = Inner.opened /\ calls'[Depth].at = "loop"
      /\ Depth' = Depth /\ Inner' = calls'[Depth]
      /\ (Depth > 1 => calls'[Depth - 1] = calls[Depth - 1])
  BY <1>1, TopTurned DEF Place
<1>7. FrameShape(Depth)'
  <2>1. FrameShape(Depth)
    BY <1>2 DEF TwoPhaseIInv, StackShape
  <2> QED BY <1>1, <1>2, <1>6, <2>1 DEF FrameShape, UnloadShape, Is
<1>8. FoundIsLinked'
  BY <1>6 DEF FoundIsLinked
<1>9. \A l \in File : /\ si'[l].flags = si[l].flags /\ si'[l].refcount = si[l].refcount
                      /\ si'[l].called = si[l].called /\ si'[l].done = si[l].done
                      /\ (l # Inner.l => si'[l].relro = si[l].relro)
  BY <1>14, <1>15
<1>10. ~si'[Inner.l].relro \/ Inner.l \in Broken
  <2>1. CASE p = TRUE
    BY <1>4, <2>1
  <2>2. CASE p = FALSE
    BY <1>15, <2>2
  <2> QED BY <2>1, <2>2
<1>11. Is(Depth, "unload")
  BY <1>1, <1>2 DEF Is
<1> QED BY <1>1, <1>5, <1>7, <1>8, <1>9, <1>10, <1>11, Turning DEF TwoPhaseIInv, Place, Is

LEMMA FaultStep ==
  ASSUME TwoPhaseIInv, In("unload", "loop"), si[Inner.l].relro, calls' = At("fault"),
         UNCHANGED <<si, owner, result, held>>, Keeps
  PROVE  TwoPhaseIInv'
<1>1. TwoPhaseTypeOK /\ calls # <<>> /\ Inner.at = "loop" /\ Inner.fn = "unload"
      /\ needs' = needs /\ recursive' = recursive
  BY DEF TwoPhaseIInv, In, Keeps
<1>2. Depth \in Nat /\ Depth \in DOMAIN calls /\ Inner = calls[Depth] /\ Inner \in Frame /\ Inner.l \in File
  BY <1>1, TopIs
<1>3. Topped(calls', [Inner EXCEPT !.at = "fault"])
  BY <1>1, TopAt DEF Place
<1>5. TwoPhaseTypeOK'
  BY <1>1, <1>3 DEF TwoPhaseTypeOK, Topped
<1>6. /\ calls'[Depth].fn = Inner.fn /\ calls'[Depth].l = Inner.l /\ calls'[Depth].d = Inner.d
      /\ calls'[Depth].opened = Inner.opened /\ calls'[Depth].at = "fault"
      /\ Depth' = Depth /\ Inner' = calls'[Depth]
      /\ (Depth > 1 => calls'[Depth - 1] = calls[Depth - 1])
  BY <1>1, TopTurned DEF Place
<1>7. FrameShape(Depth)'
  <2>1. FrameShape(Depth)
    BY <1>2 DEF TwoPhaseIInv, StackShape
  <2> QED BY <1>1, <1>2, <1>6, <2>1 DEF FrameShape, UnloadShape, Is
<1>8. FoundIsLinked'
  BY <1>6 DEF FoundIsLinked
<1>9. Inner.l \in Broken
  BY <1>1, <1>2 DEF TwoPhaseIInv, Unprotected, Is
<1>11. Is(Depth, "unload")
  BY <1>1, <1>2 DEF Is
<1> QED BY <1>1, <1>5, <1>7, <1>8, <1>9, <1>11, Turning DEF TwoPhaseIInv, Place, Is

-----------------------------------------------------------------------------
(* Giving a library up.                                                    *)

LEMMA Dropped ==
  ASSUME TwoPhaseTypeOK, TwoPhaseTypeOK', RefcountCovers, UnloadsLast, ReferencedLinked, needs' = needs,
         NEW n \in File, Refs(n) > 0, \A l \in File : Refs(l)' <= Refs(l), Refs(n)' <= Refs(n) - 1,
         \A l \in File : IsLinked(l) => IsLinked(l)',
         \A l \in File : l # n => si'[l].refcount = si[l].refcount,
         IF si[n].refcount = 1 THEN si'[n].refcount = 1 ELSE si'[n].refcount = si[n].refcount - 1,
         \A j \in DOMAIN calls' : calls'[j].fn = "unload" =>
           \/ j \in DOMAIN calls /\ Alike(j)
           \/ si[n].refcount = 1 /\ calls'[j].l = n
  PROVE  RefcountCovers' /\ UnloadsLast' /\ ReferencedLinked'
<1>1. \A l \in File : Refs(l)' \in Nat /\ Refs(l) \in Nat /\ si[l].refcount \in Nat
  BY RefsThen, RefsFinite, Typed
<1>2. si[n].refcount >= Refs(n)
  BY DEF RefcountCovers
<1>3. si[n].refcount = 1 => Refs(n)' = 0
  BY <1>1, <1>2
<1>4. \A l \in File : Covering(l)
  <2> SUFFICES ASSUME NEW l \in File
               PROVE  Covering(l)
    OBVIOUS
  <2>1. CASE l = n
    BY <2>1, <1>1, <1>2, <1>3 DEF Covering, ReferencedLinked
  <2>2. CASE l # n
    <3>1. Refs(l)' <= Refs(l) /\ si'[l].refcount = si[l].refcount
      BY <2>2
    <3> QED BY <3>1, <1>1 DEF Covering, ReferencedLinked
  <2> QED BY <2>1, <2>2
<1>5. RefcountCovers' /\ ReferencedLinked'
  BY <1>1, <1>4, Covered
<1>6. UnloadsLast'
  <2> SUFFICES ASSUME NEW j \in DOMAIN calls', calls'[j].fn = "unload"
               PROVE  si'[calls'[j].l].refcount = 1 /\ Refs(calls[j].l)' = 0
    BY DEF UnloadsLast, Is
  <2>1. CASE j \in DOMAIN calls /\ Alike(j)
    <3>1. Is(j, "unload") /\ calls'[j].l = calls[j].l /\ calls[j].l \in File
      BY <2>1, Frames DEF Alike, Is
    <3>2. si[calls[j].l].refcount = 1 /\ Refs(calls[j].l) = 0
      BY <2>1, <3>1 DEF UnloadsLast
    <3>3. \A l \in File : Refs(l) = 0 => Refs(l)' = 0 /\ si'[l].refcount = si[l].refcount
      BY <1>1
    <3> QED BY <3>1, <3>2, <3>3
  <2>2. CASE si[n].refcount = 1 /\ calls'[j].l = n
    BY <1>3, <2>2
  <2> QED BY <2>1, <2>2
<1> QED BY <1>5, <1>6

LEMMA FlagsSet ==
  ASSUME NEW f, NEW k, NEW v
  PROVE  [f EXCEPT ![k].flags = v] = [f EXCEPT ![k] = [f[k] EXCEPT !.flags = v]]
  OBVIOUS

LEMMA CountSet ==
  ASSUME NEW f, NEW k, NEW c
  PROVE  [f EXCEPT ![k].refcount = c] = [f EXCEPT ![k] = [f[k] EXCEPT !.refcount = c]]
  OBVIOUS

LEMMA Recounted ==
  ASSUME TwoPhaseTypeOK, NEW k \in File, NEW c \in Nat, si' = [si EXCEPT ![k].refcount = c]
  PROVE  /\ si' \in [File -> Soinfo] /\ si'[k].refcount = c
         /\ \A l \in File : /\ si'[l].flags = si[l].flags /\ si'[l].called = si[l].called
                            /\ si'[l].done = si[l].done /\ si'[l].relro = si[l].relro
                            /\ (l # k => si'[l].refcount = si[l].refcount)
<1>1. si[k] \in Soinfo /\ si \in [File -> Soinfo]
  BY Typed DEF TwoPhaseTypeOK
<1>2. PICK g \in Soinfo : g = [si[k] EXCEPT !.refcount = c]
  <2>1. [si[k] EXCEPT !.refcount = c] \in Soinfo
    BY <1>1 DEF Soinfo
  <2> QED BY <2>1
<1>3. si' = [si EXCEPT ![k] = g]
  BY <1>2, CountSet
<1>4. si' \in [File -> Soinfo] /\ si'[k] = g /\ \A l \in File : l # k => si'[l] = si[l]
  BY <1>1, <1>3
<1>5. g.refcount = c /\ g.flags = si[k].flags
  BY <1>1, <1>2 DEF Soinfo
<1>6. g.called = si[k].called /\ g.done = si[k].done /\ g.relro = si[k].relro
  BY <1>1, <1>2 DEF Soinfo
<1> QED BY <1>4, <1>5, <1>6

LEMMA UnloadsOrNot ==
  ASSUME TwoPhaseIInv, calls # <<>>, NEW n \in File, Refs(n) > 0, NEW g \in Frame, NEW r, Topped(r, g),
         ToUnload(n, r), UNCHANGED <<result, held>>, Keeps
  PROVE  /\ TwoPhaseTypeOK' /\ owner' = owner
         /\ \A l \in File : /\ si'[l].flags = si[l].flags /\ si'[l].called = si[l].called
                            /\ si'[l].done = si[l].done /\ si'[l].relro = si[l].relro
                            /\ (l # n => si'[l].refcount = si[l].refcount)
         /\ IF si[n].refcount = 1
              THEN /\ si'[n].refcount = 1 /\ Len(calls') = Depth + 1
                   /\ calls'[Depth + 1] = Entered("unload", n, "body")
              ELSE si'[n].refcount = si[n].refcount - 1 /\ Len(calls') = Depth
         /\ \A i \in 1 .. Depth : calls'[i] = IF i = Depth THEN g ELSE calls[i]
<1>1. TwoPhaseTypeOK /\ Depth \in Nat /\ Depth > 0 /\ needs' = needs /\ recursive' = recursive
  BY TopIs DEF TwoPhaseIInv, Keeps
<1>2. /\ r \in Seq(Frame) /\ r # <<>> /\ Len(r) = Depth
      /\ \A i \in 1 .. Depth : r[i] = IF i = Depth THEN g ELSE calls[i]
  BY <1>1 DEF Topped
<1>3. Refs(n) \in Nat /\ si[n].refcount \in Nat /\ si[n].refcount >= 1
  BY <1>1, RefsFinite, Typed DEF TwoPhaseIInv, RefcountCovers
<1>4. CASE si[n].refcount = 1
  <2>1. calls' = Append(r, Entered("unload", n, "body")) /\ UNCHANGED <<si, owner>>
    BY <1>4 DEF ToUnload
  <2>2. Entered("unload", n, "body") \in Frame
    BY Entering
  <2>3. /\ calls' \in Seq(Frame) /\ Len(calls') = Depth + 1 /\ calls'[Depth + 1] = Entered("unload", n, "body")
        /\ \A i \in 1 .. Depth : calls'[i] = r[i]
    BY <1>2, <2>1, <2>2, Pushing
  <2>4. TwoPhaseTypeOK'
    BY <1>1, <2>1, <2>3 DEF TwoPhaseTypeOK
  <2> QED BY <1>1, <1>2, <1>4, <2>1, <2>3, <2>4
<1>5. CASE si[n].refcount # 1
  <2>1. calls' = r /\ owner' = owner /\ si' = [si EXCEPT ![n].refcount = si[n].refcount - 1]
    BY <1>2, <1>5 DEF ToUnload, Returned
  <2>2. si[n].refcount - 1 \in Nat
    BY <1>3
  <2>3. /\ si' \in [File -> Soinfo] /\ si'[n].refcount = si[n].refcount - 1
        /\ \A l \in File : /\ si'[l].flags = si[l].flags /\ si'[l].called = si[l].called
                           /\ si'[l].done = si[l].done /\ si'[l].relro = si[l].relro
                           /\ (l # n => si'[l].refcount = si[l].refcount)
    BY <1>1, <2>1, <2>2, Recounted
  <2>4. TwoPhaseTypeOK'
    BY <1>1, <1>2, <2>1, <2>3 DEF TwoPhaseTypeOK
  <2> QED BY <1>2, <1>5, <2>1, <2>3, <2>4
<1> QED BY <1>4, <1>5

\* The innermost activation, g when it has, gives up n, with which nobody is busy.
GivesUp(n, r, g) ==
  /\ calls # <<>> /\ Refs(n) > 0 /\ Topped(r, g) /\ ToUnload(n, r) /\ UNCHANGED <<result, held>> /\ Keeps
  /\ \/ Inner.fn = "constructors" /\ Inner.at = "body" /\ g.d = Inner.d
     \/ Inner.fn = "unload" /\ Inner.at = "loop" /\ g.d >= Inner.d /\ g.d \in 1 .. Len(needs[Inner.l]) + 1
  /\ g.fn = Inner.fn /\ g.l = Inner.l /\ g.at = Inner.at /\ g.opened = NIL
  /\ \A i \in DOMAIN calls : ~UnderWay(i, n)

GivenUp(n, g) ==
  /\ TwoPhaseTypeOK' /\ owner' = owner
  /\ \A l \in File : /\ si'[l].flags = si[l].flags /\ si'[l].called = si[l].called
                     /\ si'[l].done = si[l].done /\ si'[l].relro = si[l].relro
                     /\ (l # n => si'[l].refcount = si[l].refcount)
  /\ IF si[n].refcount = 1
       THEN /\ si'[n].refcount = 1 /\ Len(calls') = Depth + 1
            /\ calls'[Depth + 1] = Entered("unload", n, "body")
       ELSE si'[n].refcount = si[n].refcount - 1 /\ Len(calls') = Depth
  /\ \A i \in 1 .. Depth : calls'[i] = IF i = Depth THEN g ELSE calls[i]

LEMMA GivingUpIs ==
  ASSUME TwoPhaseIInv, NEW n \in File, NEW g \in Frame, NEW r, GivesUp(n, r, g)
  PROVE  /\ GivenUp(n, g)
         /\ DOMAIN calls' = 1 .. Len(calls')
         /\ \A i \in DOMAIN calls : i \in DOMAIN calls' /\ Alike(i) /\ calls'[i].d >= calls[i].d /\ calls'[i].at = calls[i].at
         /\ \A i \in DOMAIN calls : Is(i, "constructors") => calls'[i].d = calls[i].d
         /\ \A i \in DOMAIN calls : calls'[i].opened \in {NIL, calls[i].opened}
         /\ calls'[Depth] = g
         /\ \A i \in DOMAIN calls' :
               \/ i \in DOMAIN calls
               \/ si[n].refcount = 1 /\ i = Depth + 1 /\ calls'[i] = Entered("unload", n, "body")
         /\ NoneBound /\ NoneOpened
<1>1. /\ TwoPhaseTypeOK' /\ owner' = owner
      /\ \A l \in File : /\ si'[l].flags = si[l].flags /\ si'[l].called = si[l].called
                         /\ si'[l].done = si[l].done /\ si'[l].relro = si[l].relro
                         /\ (l # n => si'[l].refcount = si[l].refcount)
      /\ IF si[n].refcount = 1
           THEN /\ si'[n].refcount = 1 /\ Len(calls') = Depth + 1
                /\ calls'[Depth + 1] = Entered("unload", n, "body")
           ELSE si'[n].refcount = si[n].refcount - 1 /\ Len(calls') = Depth
      /\ \A i \in 1 .. Depth : calls'[i] = IF i = Depth THEN g ELSE calls[i]
  BY UnloadsOrNot DEF GivesUp
<1>2. /\ TwoPhaseTypeOK /\ Depth \in Nat /\ Depth > 0 /\ Depth \in DOMAIN calls /\ DOMAIN calls = 1 .. Depth
      /\ Inner = calls[Depth] /\ Inner \in Frame /\ Inner.l \in File /\ Inner.d \in Nat
      /\ needs' = needs /\ recursive' = recursive /\ held' = held /\ result' = result /\ Len(calls) = Depth
  BY TopIs DEF TwoPhaseIInv, Keeps, Depth, GivesUp
<1>3. /\ DOMAIN calls' = 1 .. Len(calls')
      /\ \A i \in DOMAIN calls : i \in DOMAIN calls' /\ Alike(i) /\ calls'[i].d >= calls[i].d /\ calls'[i].at = calls[i].at
      /\ \A i \in DOMAIN calls : Is(i, "constructors") => calls'[i].d = calls[i].d
      /\ \A i \in DOMAIN calls : calls'[i].opened \in {NIL, calls[i].opened}
      /\ calls'[Depth] = g
  <2>1. DOMAIN calls' = 1 .. Len(calls') /\ Len(calls') \in Nat /\ Len(calls') >= Depth /\ Depth \in Nat
    <3>1. DOMAIN calls' = 1 .. Len(calls') /\ Len(calls') \in Nat
      BY <1>1, TypedThen
    <3>2. Depth \in Nat /\ (Len(calls') = Depth \/ Len(calls') = Depth + 1)
      BY <1>1, <1>2
    <3>3. Len(calls') >= Depth
      BY <3>2
    <3> QED BY <3>1, <3>2, <3>3
  <2>2. calls'[Depth] = g
    BY <1>1, <1>2
  <2>3. ASSUME NEW i \in DOMAIN calls
        PROVE  /\ i \in DOMAIN calls' /\ Alike(i) /\ calls'[i].d >= calls[i].d /\ calls'[i].at = calls[i].at
               /\ Is(i, "constructors") => calls'[i].d = calls[i].d
               /\ calls'[i].opened \in {NIL, calls[i].opened}
    <3>4. calls[i].d \in Nat
      BY <1>2, Frames
    <3>5. i \in 1 .. Depth
      BY <1>2
    <3>1. i \in DOMAIN calls' /\ calls[i].d \in Nat
      BY <2>1, <3>4, <3>5
    <3>2. CASE i = Depth
      BY <1>2, <2>2, <3>1, <3>2 DEF Alike, Is, GivesUp
    <3>3. CASE i # Depth
      <4>1. calls'[i] = calls[i]
        BY <1>1, <1>2, <3>3
      <4> QED BY <3>1, <4>1 DEF Alike
    <3> QED BY <3>2, <3>3
  <2> QED BY <2>1, <2>2, <2>3
<1>4. Entered("unload", n, "body").fn = "unload" /\ Entered("unload", n, "body").l = n
      /\ Entered("unload", n, "body").d = 1 /\ Entered("unload", n, "body").at = "body"
      /\ Entered("unload", n, "body").opened = NIL
  BY Entering
<1>5. \A i \in DOMAIN calls' :
        \/ i \in DOMAIN calls
        \/ si[n].refcount = 1 /\ i = Depth + 1 /\ calls'[i] = Entered("unload", n, "body")
  <2>1. CASE si[n].refcount = 1
    <3>1. DOMAIN calls' = 1 .. Depth + 1 /\ calls'[Depth + 1] = Entered("unload", n, "body")
      BY <1>1, <1>3, <2>1
    <3> QED BY <1>2, <2>1, <3>1
  <2>2. CASE si[n].refcount # 1
    <3>1. DOMAIN calls' = 1 .. Depth
      BY <1>1, <1>3, <2>2
    <3> QED BY <1>2, <3>1
  <2> QED BY <2>1, <2>2
<1>6. \A i \in DOMAIN calls : ~Is(i, "link_image") /\ (Is(i, "unload") => Is(Depth, "unload"))
  BY <1>2 DEF TwoPhaseIInv, StackOrder, Is, GivesUp
<1>7. \A i \in DOMAIN calls : Is(i, "unload") => calls[i].l # n
  BY <1>2, Frames DEF TwoPhaseIInv, UnloadsLast, GivesUp
<1>8. NoneBound
  <2>1. \A k \in File : IsLinked(k)' => IsLinked(k)
    BY <1>1 DEF IsLinked
  <2>2. \A j \in DOMAIN calls : Is(j, "unload") =>
          /\ j \in DOMAIN calls' /\ calls'[j].fn = "unload" /\ calls'[j].l = calls[j].l
          /\ calls'[j].d >= calls[j].d
    BY <1>3 DEF Alike, Is
  <2>3. \A j \in DOMAIN calls' : calls'[j].fn # "link_image"
    BY <1>3, <1>4, <1>5, <1>6 DEF Alike, Is
  <2> QED BY <2>1, <2>2, <2>3 DEF NoneBound
<1>9. NoneOpened
  BY <1>3, <1>4, <1>5 DEF NoneOpened
<1> QED BY <1>1, <1>3, <1>5, <1>8, <1>9 DEF GivenUp

\* One reference less.
LEMMA GivingUp ==
  ASSUME TwoPhaseIInv, NEW n \in File, NEW g \in Frame, NEW r, GivesUp(n, r, g), Refs(n)' <= Refs(n) - 1
  PROVE  TwoPhaseIInv'
<1>1. /\ TwoPhaseTypeOK' /\ owner' = owner
      /\ \A l \in File : /\ si'[l].flags = si[l].flags /\ si'[l].called = si[l].called
                         /\ si'[l].done = si[l].done /\ si'[l].relro = si[l].relro
                         /\ (l # n => si'[l].refcount = si[l].refcount)
      /\ IF si[n].refcount = 1
           THEN /\ si'[n].refcount = 1 /\ Len(calls') = Depth + 1
                /\ calls'[Depth + 1] = Entered("unload", n, "body")
           ELSE si'[n].refcount = si[n].refcount - 1 /\ Len(calls') = Depth
      /\ \A i \in 1 .. Depth : calls'[i] = IF i = Depth THEN g ELSE calls[i]
  BY GivingUpIs DEF GivenUp
<1>2. /\ TwoPhaseTypeOK /\ Depth \in Nat /\ Depth > 0 /\ Depth \in DOMAIN calls /\ DOMAIN calls = 1 .. Depth
      /\ Inner = calls[Depth] /\ Inner \in Frame /\ Inner.l \in File /\ Inner.d \in Nat
      /\ needs' = needs /\ recursive' = recursive /\ held' = held /\ result' = result /\ Len(calls) = Depth
  BY TopIs DEF TwoPhaseIInv, Keeps, Depth, GivesUp
<1>3. /\ DOMAIN calls' = 1 .. Len(calls')
      /\ \A i \in DOMAIN calls : i \in DOMAIN calls' /\ Alike(i) /\ calls'[i].d >= calls[i].d /\ calls'[i].at = calls[i].at
      /\ \A i \in DOMAIN calls : Is(i, "constructors") => calls'[i].d = calls[i].d
      /\ \A i \in DOMAIN calls : calls'[i].opened \in {NIL, calls[i].opened}
      /\ calls'[Depth] = g
  BY GivingUpIs
<1>4. Entered("unload", n, "body").fn = "unload" /\ Entered("unload", n, "body").l = n
      /\ Entered("unload", n, "body").d = 1 /\ Entered("unload", n, "body").at = "body"
      /\ Entered("unload", n, "body").opened = NIL
  BY Entering
<1>5. \A i \in DOMAIN calls' :
        \/ i \in DOMAIN calls
        \/ si[n].refcount = 1 /\ i = Depth + 1 /\ calls'[i] = Entered("unload", n, "body")
  BY GivingUpIs
<1>6. \A i \in DOMAIN calls : ~Is(i, "link_image") /\ (Is(i, "unload") => Is(Depth, "unload"))
  BY <1>2 DEF TwoPhaseIInv, StackOrder, Is, GivesUp
<1>7. \A i \in DOMAIN calls : Is(i, "unload") => calls[i].l # n
  BY <1>2, Frames DEF TwoPhaseIInv, UnloadsLast, GivesUp
<1>8. NoneBound /\ NoneOpened
  BY GivingUpIs
<1>10. StackOrder' /\ UnloadsApart'
  <2>1. CASE si[n].refcount = 1
    <3>1. PushedOn /\ New = Entered("unload", n, "body")
      BY <1>1, <1>2, <1>3, <2>1 DEF PushedOn, New
    <3>2. StackOrder'
      BY <1>1, <1>2, <1>4, <1>6, <1>7, <3>1, OrderPushed DEF TwoPhaseIInv
    <3>3. UnloadsApart'
      BY <1>1, <1>2, <1>4, <1>8, <3>1, ApartPushed DEF TwoPhaseIInv, GivesUp
    <3> QED BY <3>2, <3>3
  <2>2. CASE si[n].refcount # 1
    <3>1. Keeping
      BY <1>1, <1>2, <1>3, <2>2 DEF Keeping
    <3> QED BY <1>1, <1>2, <1>8, <3>1, OrderKept, ApartKept DEF TwoPhaseIInv
  <2> QED BY <2>1, <2>2
<1>11. RefcountCovers' /\ UnloadsLast' /\ ReferencedLinked'
  <2>1. \A l \in File : Refs(l)' <= Refs(l)
    <3> SUFFICES ASSUME NEW l \in File PROVE Refs(l)' <= Refs(l)
      OBVIOUS
    <3>1. Refs(l)' - held'[l] <= Refs(l) - held[l]
      BY <1>1, <1>2, <1>8, FewerRefs
    <3>2. Refs(l) \in Nat /\ Refs(l)' \in Nat /\ held[l] \in Nat /\ held'[l] = held[l]
      BY <1>1, <1>2, RefsFinite, RefsThen, Typed
    <3> QED BY <3>1, <3>2
  <2>2. \A l \in File : IsLinked(l) => IsLinked(l)'
    BY <1>1 DEF IsLinked
  <2>3. \A j \in DOMAIN calls' : calls'[j].fn = "unload" =>
          \/ j \in DOMAIN calls /\ Alike(j)
          \/ si[n].refcount = 1 /\ calls'[j].l = n
    BY <1>3, <1>4, <1>5
  <2>4. \A l \in File : l # n => si'[l].refcount = si[l].refcount
    BY <1>1
  <2>5. IF si[n].refcount = 1 THEN si'[n].refcount = 1 ELSE si'[n].refcount = si[n].refcount - 1
    BY <1>1
  <2> QED BY <1>1, <1>2, <2>1, <2>2, <2>3, <2>4, <2>5, Dropped DEF TwoPhaseIInv, GivesUp
<1>12. CalledLinked' /\ CalledOrDone' /\ DoneNeeds' /\ ConstructingNeeds'
  <2>1. \A l \in File : si'[l].called = si[l].called /\ si'[l].done = si[l].done /\ (IsLinked(l) => IsLinked(l)')
    BY <1>1 DEF IsLinked
  <2>2. \A i \in DOMAIN calls : Is(i, "constructors") \/ Is(i, "unload") => i \in DOMAIN calls' /\ Alike(i)
    BY <1>3
  <2>3. \A i \in DOMAIN calls' : calls'[i].fn = "constructors" =>
          i \in DOMAIN calls /\ Alike(i) /\ calls'[i].d = calls[i].d
    BY <1>3, <1>4, <1>5 DEF Alike, Is
  <2> QED BY <1>1, <1>2, <2>1, <2>2, <2>3, CalledKept DEF TwoPhaseIInv
<1>13. StackShape'
  <2> SUFFICES ASSUME NEW i \in DOMAIN calls' PROVE FrameShape(i)'
    BY DEF StackShape
  <2>1. CASE i \in DOMAIN calls /\ i # Depth
    <3>1. i \in Nat /\ calls'[i] = calls[i] /\ (i > 1 => calls'[i - 1] = calls[i - 1])
      BY <1>1, <1>2, <2>1
    <3>2. FrameShape(i)
      BY <2>1 DEF TwoPhaseIInv, StackShape
    <3> QED BY <1>2, <3>1, <3>2, ShapeKept
  <2>2. CASE i = Depth
    <3>1. FrameShape(Depth)
      BY <1>2 DEF TwoPhaseIInv, StackShape
    <3>2. Depth > 1 => calls'[Depth - 1] = calls[Depth - 1]
      BY <1>1, <1>2
    <3> QED BY <1>2, <1>3, <2>2, <3>1, <3>2 DEF FrameShape, ConstructShape, UnloadShape, Is, GivesUp
  <2>3. CASE i = Depth + 1 /\ calls'[i] = Entered("unload", n, "body")
    <3>1. calls'[i - 1] = g /\ i > 1
      BY <1>2, <1>3, <2>3
    <3>2. 1 \in 1 .. Len(needs[n]) + 1
      BY <1>2, Typed
    <3> QED BY <1>2, <1>4, <2>3, <3>1, <3>2 DEF FrameShape, UnloadShape, Is, GivesUp
  <2> QED BY <1>5, <2>1, <2>2, <2>3
<1>14. StackFlags'
  <2> SUFFICES ASSUME NEW i \in DOMAIN calls'
               PROVE  /\ calls'[i].fn = "link_image" => si'[calls'[i].l].flags = "loaded"
                      /\ calls'[i].fn = "dlopen" /\ calls'[i].at = "open" => si'[calls'[i].l].flags = "LINKED"
                      /\ calls'[i].fn = "constructors" => si'[calls'[i].l].flags = "LINKED" /\ si'[calls'[i].l].called
                      /\ calls'[i].fn = "unload" => si'[calls'[i].l].flags = "LINKED"
    BY DEF StackFlags, Is, IsLinked
  <2>1. CASE i \in DOMAIN calls
    <3>1. calls'[i].fn = calls[i].fn /\ calls'[i].l = calls[i].l /\ calls'[i].at = calls[i].at /\ calls[i].l \in File
      BY <1>2, <1>3, <2>1, Frames DEF Alike
    <3> QED BY <1>1, <2>1, <3>1 DEF TwoPhaseIInv, StackFlags, Is, IsLinked
  <2>2. CASE calls'[i] = Entered("unload", n, "body")
    BY <1>1, <1>4, <2>2 DEF TwoPhaseIInv, ReferencedLinked, IsLinked, GivesUp
  <2> QED BY <1>5, <2>1, <2>2
<1>15. FoundIsLinked'
  <2>1. calls'[Depth].at # "found" /\ Depth' = Len(calls')
    BY <1>3 DEF Depth, GivesUp
  <2> QED BY <1>1, <1>4, <2>1 DEF FoundIsLinked, Inner
<1>16. LockHeld'
  <2>1. calls' # <<>>
    BY <1>2, <1>3
  <2>2. \A i \in DOMAIN calls' : calls'[i].fn = "dlopen" => i \in DOMAIN calls /\ Is(i, "dlopen") /\ calls'[i].l = calls[i].l
    BY <1>3, <1>4, <1>5 DEF Alike, Is
  <2> QED BY <1>1, <1>2, <2>1, <2>2 DEF TwoPhaseIInv, LockHeld, Is
<1>17. Unprotected'
  <2> SUFFICES ASSUME NEW j \in DOMAIN calls', calls'[j].fn = "unload", calls'[j].at # "body"
               PROVE  si'[calls'[j].l].relro \/ calls'[j].at = "fault" => calls'[j].l \in Broken
    BY DEF Unprotected, Is
  <2>1. j \in DOMAIN calls /\ Is(j, "unload") /\ calls'[j].l = calls[j].l /\ calls'[j].at = calls[j].at
        /\ calls[j].l \in File
    BY <1>2, <1>3, <1>4, <1>5, Frames DEF Alike, Is
  <2>2. si[calls[j].l].relro \/ calls[j].at = "fault" => calls[j].l \in Broken
    BY <2>1 DEF TwoPhaseIInv, Unprotected
  <2>3. si'[calls[j].l].relro = si[calls[j].l].relro
    BY <1>1, <2>1
  <2> QED BY <2>1, <2>2, <2>3
<1> QED BY <1>1, <1>10, <1>11, <1>12, <1>13, <1>14, <1>15, <1>16, <1>17 DEF TwoPhaseIInv

LEMMA CloseAgainStep == TwoPhaseIInv /\ CloseAgain => TwoPhaseIInv'
<1> SUFFICES ASSUME TwoPhaseIInv, CloseAgain PROVE TwoPhaseIInv'
  OBVIOUS
<1>1. /\ TwoPhaseTypeOK /\ calls # <<>> /\ Inner.fn = "constructors" /\ Inner.at = "body"
      /\ Inner.l \in Balanced /\ Inner.opened # NIL
      /\ ToUnload(Inner.opened, [calls EXCEPT ![Depth].opened = NIL])
      /\ UNCHANGED <<result, held>> /\ Keeps /\ needs' = needs
  BY DEF TwoPhaseIInv, CloseAgain, In, Keeps
<1>2. /\ Depth \in Nat /\ Depth > 0 /\ Depth \in DOMAIN calls /\ DOMAIN calls = 1 .. Depth
      /\ Inner = calls[Depth] /\ Inner \in Frame /\ Inner.opened \in File
  BY <1>1, TopIs
<1>3. PICK n \in File : n = Inner.opened
  BY <1>2
<1>4. PICK g \in Frame : g = [Inner EXCEPT !.opened = NIL]
  <2>1. [Inner EXCEPT !.opened = NIL] \in Frame
    BY <1>2 DEF Frame
  <2> QED BY <2>1
<1>5. g.fn = Inner.fn /\ g.l = Inner.l /\ g.at = Inner.at /\ g.opened = NIL /\ g.d = Inner.d
  BY <1>2, <1>4 DEF Frame
<1>6. Topped([calls EXCEPT ![Depth].opened = NIL], g)
  BY <1>1, <1>4, TopClosed
<1>7. Depth \in OpenersOf(n)
  BY <1>2, <1>3 DEF OpenersOf
<1>8. Cardinality(OpenersOf(n)) > 0
  <2>1. IsFiniteSet(OpenersOf(n)) /\ Cardinality(OpenersOf(n)) \in Nat
    BY <1>1, RefsFinite
  <2> QED BY <1>7, <2>1, FS_EmptySet
<1>9. Refs(n) > 0
  BY <1>1, <1>8, RefsFinite, Typed DEF Refs
<1>10. \A i \in DOMAIN calls : ~UnderWay(i, n)
  BY <1>1, <1>2, <1>3 DEF TwoPhaseIInv, UnloadsApart
<1>11. GivesUp(n, [calls EXCEPT ![Depth].opened = NIL], g)
  BY <1>1, <1>3, <1>5, <1>6, <1>9, <1>10 DEF GivesUp
<1>12. TwoPhaseTypeOK' /\ NoneBound /\ NoneOpened /\ calls'[Depth] = g
  BY <1>11, GivingUpIs DEF GivenUp
<1>13. OpenersOf(n)' \in SUBSET (OpenersOf(n) \ {Depth})
  <2>1. n # NIL
    BY TwoPhaseAssumption
  <2>2. OpenersOf(n)' \subseteq OpenersOf(n)
    BY <1>1, <1>12, FewerOpeners
  <2>3. Depth \notin OpenersOf(n)'
    BY <1>5, <1>12, <2>1 DEF OpenersOf
  <2> QED BY <2>2, <2>3
<1>14. Cardinality(OpenersOf(n)') \in Nat /\ Cardinality(OpenersOf(n)') <= Cardinality(OpenersOf(n)) - 1
  <2>1. IsFiniteSet(OpenersOf(n) \ {Depth}) /\ Cardinality(OpenersOf(n) \ {Depth}) = Cardinality(OpenersOf(n)) - 1
    BY <1>1, <1>7, RefsFinite, FS_RemoveElement
  <2> QED BY <1>13, <2>1, FS_Subset, FS_CardinalityType
<1>15. Cardinality(EntriesOn(n)') \in Nat /\ Cardinality(EntriesOn(n)') <= Cardinality(EntriesOn(n))
  BY <1>1, <1>12, BoundBefore, FewerEntries
<1>16. Refs(n)' <= Refs(n) - 1
  <2>1. held[n] \in Nat /\ held'[n] = held[n] /\ Cardinality(EntriesOn(n)) \in Nat /\ Cardinality(OpenersOf(n)) \in Nat
    BY <1>1, Typed, RefsFinite
  <2> QED BY <1>14, <1>15, <2>1 DEF Refs
<1> QED BY <1>11, <1>16, GivingUp

LEMMA UnloadNeededStep == TwoPhaseIInv /\ UnloadNeeded => TwoPhaseIInv'
<1> SUFFICES ASSUME TwoPhaseIInv, UnloadNeeded PROVE TwoPhaseIInv'
  OBVIOUS
<1>1. CASE si[Inner.l].relro
  BY <1>1, FaultStep DEF UnloadNeeded
<1>2. CASE ~si[Inner.l].relro
  <2>1. /\ TwoPhaseTypeOK /\ calls # <<>> /\ Inner.fn = "unload" /\ Inner.at = "loop" /\ Inner.d <= Entries
        /\ ToUnload(EntryOf, NextEntry) /\ UNCHANGED <<result, held>> /\ Keeps /\ needs' = needs
    BY <1>2 DEF TwoPhaseIInv, UnloadNeeded, In, Keeps
  <2>2. /\ Depth \in Nat /\ Depth > 0 /\ Depth \in DOMAIN calls /\ DOMAIN calls = 1 .. Depth
        /\ Inner = calls[Depth] /\ Inner \in Frame /\ Inner.l \in File /\ Inner.d \in Nat
    BY <2>1, TopIs
  <2>3. FrameShape(Depth)
    BY <2>2 DEF TwoPhaseIInv, StackShape
  <2>4. Inner.d \in Needed(Inner.l) /\ Needed(Inner.l) = 1 .. Len(needs[Inner.l]) /\ Len(needs[Inner.l]) \in Nat
    <3>1. Inner.d \in 1 .. Len(needs[Inner.l]) + 1
      BY <2>1, <2>2, <2>3 DEF FrameShape, UnloadShape, Is
    <3> QED BY <2>1, <2>2, <3>1, Typed DEF Entries
  <2>5. PICK n \in File : n = EntryOf
    BY <2>1, <2>2, <2>4, Typed DEF EntryOf
  <2>6. PICK g \in Frame : g = [Inner EXCEPT !.d = Inner.d + 1]
    BY <2>1, TopNext
  <2>7. /\ g.fn = Inner.fn /\ g.l = Inner.l /\ g.at = Inner.at /\ g.opened = Inner.opened /\ g.d = Inner.d + 1
    BY <2>2, <2>6 DEF Frame
  <2>8. Inner.opened = NIL
    BY <2>1, <2>2, <2>3 DEF FrameShape, Is
  <2>9. Topped(NextEntry, g)
    BY <2>1, <2>6, TopNext
  <2>10. IsLinked(Inner.l)
    BY <2>1, <2>2 DEF TwoPhaseIInv, StackFlags, Is
  <2>11. \A j \in DOMAIN calls : Is(j, "unload") /\ calls[j].l = Inner.l => j = Depth
    BY <2>1, <2>2 DEF TwoPhaseIInv, StackOrder, Is
  <2>12. Bound(Inner.l, Inner.d) /\ needs[Inner.l][Inner.d] = n
    BY <2>2, <2>4, <2>5, <2>10, <2>11 DEF Bound, EntryOf
  <2>13. Refs(n) > 0
    <3>1. <<Inner.l, Inner.d>> \in EntriesOn(n)
      BY <2>2, <2>4, <2>12, PairEntries DEF EntriesOn, AllEntries
    <3>2. Cardinality(EntriesOn(n)) > 0
      BY <2>1, <3>1, RefsFinite, FS_EmptySet
    <3> QED BY <2>1, <3>2, RefsFinite, Typed DEF Refs
  <2>14. \A i \in DOMAIN calls : ~UnderWay(i, n)
    <3> SUFFICES ASSUME NEW i \in DOMAIN calls, ~Is(i, "unload")
                 PROVE  calls[i].l \notin Closure(n)
      BY DEF UnderWay
    <3>1. i < Depth
      BY <2>1, <2>2 DEF Is
    <3>2. calls[i].l \notin Closure(Inner.l)
      BY <2>1, <2>2, <3>1 DEF TwoPhaseIInv, UnloadsApart, UnderWay, Is
    <3>3. n \in Closure(Inner.l)
      BY <2>1, <2>2, <2>4, <2>12, ClosureSelf, ClosureNeeds
    <3> QED BY <2>2, <3>2, <3>3, ClosureWithin
  <2>15. g.d >= Inner.d /\ g.d \in 1 .. Len(needs[Inner.l]) + 1
    BY <2>2, <2>4, <2>7
  <2>16. GivesUp(n, NextEntry, g)
    BY <2>1, <2>5, <2>7, <2>8, <2>9, <2>13, <2>14, <2>15 DEF GivesUp
  <2>17. TwoPhaseTypeOK' /\ NoneBound /\ NoneOpened /\ calls'[Depth] = g /\ Depth \in DOMAIN calls'
    BY <2>2, <2>16, GivingUpIs DEF GivenUp
  <2>22. PICK k \in File, d \in Nat : k = Inner.l /\ d = Inner.d
    BY <2>2
  <2>18. ~Bound(k, d)'
    <3>1. si'[Inner.l].flags = "LINKED"
      BY <2>2, <2>10, <2>16, GivingUpIs DEF GivenUp, IsLinked
    <3>2. /\ DOMAIN calls' = 1 .. Len(calls')
          /\ \A j \in DOMAIN calls' : calls'[j].fn # "link_image"
      <4>1. \A i \in DOMAIN calls : ~Is(i, "link_image")
        BY <2>1, <2>2 DEF TwoPhaseIInv, StackOrder, Is
      <4> QED BY <2>16, <4>1, GivingUpIs, Entering DEF Alike, Is
    <3>3. calls'[Depth].fn = "unload" /\ calls'[Depth].l = k /\ ~(calls'[Depth].d <= d)
      BY <2>1, <2>2, <2>7, <2>17, <2>22
    <3> QED BY <2>17, <3>2, <3>3 DEF Bound, Is
  <2>19. Cardinality(EntriesOn(n)') \in Nat /\ Cardinality(EntriesOn(n)') <= Cardinality(EntriesOn(n)) - 1
    <3>1. d \in Needed(k) /\ Bound(k, d) /\ needs[k][d] = n
      BY <2>4, <2>12, <2>22
    <3>2. \A m \in File : \A e \in Needed(m) : Bound(m, e)' => Bound(m, e)
      BY <2>1, <2>17, BoundBefore
    <3> QED BY <2>1, <2>18, <3>1, <3>2, OneEntryLess
  <2>20. Cardinality(OpenersOf(n)') \in Nat /\ Cardinality(OpenersOf(n)') <= Cardinality(OpenersOf(n))
    BY <2>1, <2>17, FewerOpeners
  <2>21. Refs(n)' <= Refs(n) - 1
    <3>1. held[n] \in Nat /\ held'[n] = held[n] /\ Cardinality(EntriesOn(n)) \in Nat /\ Cardinality(OpenersOf(n)) \in Nat
      BY <2>1, Typed, RefsFinite
    <3> QED BY <2>19, <2>20, <3>1 DEF Refs
  <2> QED BY <2>16, <2>21, GivingUp
<1> QED BY <1>1, <1>2

LEMMA dlcloseStep ==
  ASSUME TwoPhaseIInv, NEW t \in Caller, NEW l \in File, dlclose(t, l)
  PROVE  TwoPhaseIInv'
<1>1. /\ TwoPhaseTypeOK /\ owner = NoCaller /\ held[l] > 0 /\ held' = [held EXCEPT ![l] = held[l] - 1]
      /\ UNCHANGED result /\ needs' = needs /\ recursive' = recursive
      /\ IF si[l].refcount = 1 THEN owner' = t /\ calls' = <<Entered("unload", l, "body")>> /\ UNCHANGED si
         ELSE si' = [si EXCEPT ![l].refcount = si[l].refcount - 1] /\ UNCHANGED <<owner, calls>>
  BY DEF TwoPhaseIInv, dlclose, Keeps
<1>2. calls = <<>> /\ DOMAIN calls = {} /\ Len(calls) = 0
  BY <1>1, Frames DEF TwoPhaseIInv, LockHeld, Depth
<1>3. Refs(l) \in Nat /\ si[l].refcount \in Nat /\ Refs(l) > 0 /\ si[l].refcount >= 1 /\ held[l] \in Nat
  BY <1>1, RefsFinite, Typed DEF TwoPhaseIInv, RefcountCovers, Refs
<1>4. /\ Entered("unload", l, "body") \in Frame
      /\ Entered("unload", l, "body").fn = "unload" /\ Entered("unload", l, "body").l = l
      /\ Entered("unload", l, "body").d = 1 /\ Entered("unload", l, "body").at = "body"
      /\ Entered("unload", l, "body").opened = NIL
  BY Entering
<1>5. /\ si' \in [File -> Soinfo]
      /\ \A k \in File : /\ si'[k].flags = si[k].flags /\ si'[k].called = si[k].called
                         /\ si'[k].done = si[k].done /\ si'[k].relro = si[k].relro
                         /\ (k # l => si'[k].refcount = si[k].refcount)
      /\ IF si[l].refcount = 1 THEN si'[l].refcount = 1 ELSE si'[l].refcount = si[l].refcount - 1
  <2>1. CASE si[l].refcount = 1
    BY <1>1, <2>1 DEF TwoPhaseTypeOK
  <2>2. CASE si[l].refcount # 1
    <3>1. si[l].refcount - 1 \in Nat
      BY <1>3
    <3> QED BY <1>1, <2>2, <3>1, Recounted
  <2> QED BY <2>1, <2>2
<1>6. /\ calls' \in Seq(Frame)
      /\ \/ calls' = <<>> /\ DOMAIN calls' = {} /\ owner' = NoCaller /\ si[l].refcount # 1
         \/ /\ DOMAIN calls' = {1} /\ Len(calls') = 1 /\ calls'[1] = Entered("unload", l, "body") /\ owner' = t
            /\ si[l].refcount = 1
  <2>1. CASE si[l].refcount = 1
    <3>1. calls' = <<Entered("unload", l, "body")>>
      BY <1>1, <2>1
    <3> QED BY <1>1, <1>4, <2>1, <3>1
  <2>2. CASE si[l].refcount # 1
    BY <1>1, <1>2, <2>2 DEF TwoPhaseTypeOK
  <2> QED BY <2>1, <2>2
<1>7. \A j \in DOMAIN calls' : j = 1 /\ calls'[j] = Entered("unload", l, "body") /\ si[l].refcount = 1
  BY <1>6
<1>8. TwoPhaseTypeOK'
  <2>1. held' \in [File -> 0 .. MaxHeld]
    BY <1>1, <1>3, TwoPhaseAssumption DEF TwoPhaseTypeOK
  <2> QED BY <1>1, <1>5, <1>6, <2>1 DEF TwoPhaseTypeOK
<1>9. NoneBound /\ NoneOpened
  BY <1>2, <1>4, <1>5, <1>7 DEF NoneBound, NoneOpened, IsLinked
<1>10. RefcountCovers' /\ UnloadsLast' /\ ReferencedLinked'
  <2>1. \A k \in File : Refs(k)' - held'[k] <= Refs(k) - held[k] /\ Refs(k) \in Nat /\ Refs(k)' \in Nat
                       /\ held[k] \in Nat /\ held'[k] \in Nat
    BY <1>1, <1>8, <1>9, FewerRefs, RefsFinite, RefsThen, Typed, TypedThen
  <2>2. held'[l] = held[l] - 1 /\ \A k \in File : k # l => held'[k] = held[k]
    BY <1>1 DEF TwoPhaseTypeOK
  <2>3. \A k \in File : Refs(k)' <= Refs(k)
    <3> SUFFICES ASSUME NEW k \in File PROVE Refs(k)' <= Refs(k)
      OBVIOUS
    <3>1. held'[k] <= held[k]
      BY <1>3, <2>1, <2>2
    <3> QED BY <2>1, <3>1
  <2>4. Refs(l)' <= Refs(l) - 1
    BY <2>1, <2>2
  <2>5. \A k \in File : (IsLinked(k) => IsLinked(k)') /\ (k # l => si'[k].refcount = si[k].refcount)
    BY <1>5 DEF IsLinked
  <2>6. \A j \in DOMAIN calls' : calls'[j].fn = "unload" =>
          \/ j \in DOMAIN calls /\ Alike(j)
          \/ si[l].refcount = 1 /\ calls'[j].l = l
    BY <1>4, <1>7
  <2>7. IF si[l].refcount = 1 THEN si'[l].refcount = 1 ELSE si'[l].refcount = si[l].refcount - 1
    BY <1>5
  <2> QED BY <1>1, <1>3, <1>8, <2>3, <2>4, <2>5, <2>6, <2>7, Dropped DEF TwoPhaseIInv
<1>11. CalledLinked' /\ CalledOrDone' /\ DoneNeeds' /\ ConstructingNeeds'
  <2>1. \A k \in File : si'[k].called = si[k].called /\ si'[k].done = si[k].done /\ (IsLinked(k) => IsLinked(k)')
    BY <1>5 DEF IsLinked
  <2>2. \A i \in DOMAIN calls' : calls'[i].fn # "constructors"
    BY <1>4, <1>7
  <2> QED BY <1>1, <1>2, <1>8, <2>1, <2>2, CalledKept DEF TwoPhaseIInv
<1>12. StackShape' /\ StackOrder' /\ UnloadsApart'
  <2>1. Len(needs'[l]) \in Nat
    BY <1>1, Typed
  <2>2. StackShape'
    BY <1>4, <1>7, <2>1 DEF StackShape, FrameShape, UnloadShape, Is
  <2>3. StackOrder'
    BY <1>7 DEF StackOrder
  <2>4. UnloadsApart'
    BY <1>4, <1>7 DEF UnloadsApart, UnderWay, Is
  <2> QED BY <2>2, <2>3, <2>4
<1>13. StackFlags'
  <2>1. si[l].flags = "LINKED"
    BY <1>3 DEF TwoPhaseIInv, ReferencedLinked, IsLinked
  <2> QED BY <1>4, <1>5, <1>7, <2>1 DEF StackFlags, Is, IsLinked
<1>14. FoundIsLinked' /\ LockHeld' /\ Unprotected'
  <2>1. FoundIsLinked'
    BY <1>4, <1>6 DEF FoundIsLinked, Inner, Depth
  <2>2. LockHeld'
    <3>1. t # NoCaller
      BY TwoPhaseAssumption
    <3> QED BY <1>4, <1>6, <3>1 DEF LockHeld, Is
  <2>3. Unprotected'
    BY <1>4, <1>7 DEF Unprotected, Is
  <2> QED BY <2>1, <2>2, <2>3
<1> QED BY <1>8, <1>10, <1>11, <1>12, <1>13, <1>14 DEF TwoPhaseIInv

-----------------------------------------------------------------------------
(* Opening.                                                                *)

LEMMA dlopenStep ==
  ASSUME TwoPhaseIInv, ~Reentrant, NEW t \in Caller, NEW l \in File, dlopen(t, l)
  PROVE  TwoPhaseIInv'
<1>1. /\ TwoPhaseTypeOK /\ owner' = t /\ result' = NIL /\ calls' = Append(calls, Entered("dlopen", l, "find"))
      /\ UNCHANGED <<si, held>> /\ needs' = needs /\ recursive' = recursive
      /\ calls # <<>> => /\ Inner.fn = "constructors" /\ Inner.at = "body" /\ Inner.opened = NIL
                         /\ Inner.l \in Balanced => \A u \in Ranges(calls) : u.l \notin Closure(l)
      /\ calls = <<>> => held[l] < MaxHeld
  BY DEF TwoPhaseIInv, dlopen, Keeps, GetsLock, LockHeld, In
<1>2. Depth \in Nat /\ DOMAIN calls = 1 .. Depth /\ Len(calls) = Depth /\ (calls = <<>> <=> Depth = 0)
  BY <1>1, Frames DEF Depth
<1>3. /\ Entered("dlopen", l, "find") \in Frame
      /\ Entered("dlopen", l, "find").fn = "dlopen" /\ Entered("dlopen", l, "find").l = l
      /\ Entered("dlopen", l, "find").d = 1 /\ Entered("dlopen", l, "find").at = "find"
      /\ Entered("dlopen", l, "find").opened = NIL
  BY Entering
<1>4. /\ calls' \in Seq(Frame) /\ calls' # <<>> /\ Len(calls') = Depth + 1 /\ DOMAIN calls' = 1 .. Depth + 1
      /\ \A i \in 1 .. Depth : calls'[i] = calls[i]
      /\ calls'[Depth + 1] = Entered("dlopen", l, "find")
  BY <1>1, <1>2, <1>3, Pushing DEF TwoPhaseTypeOK
<1>5. TwoPhaseTypeOK'
  BY <1>1, <1>4 DEF TwoPhaseTypeOK
<1>6. calls # <<>> => /\ Depth > 0 /\ Depth \in DOMAIN calls /\ Is(Depth, "constructors") /\ calls[Depth].at = "body"
                      /\ calls[Depth].opened = NIL /\ Inner = calls[Depth]
  <2> SUFFICES ASSUME calls # <<>>
               PROVE  /\ Depth > 0 /\ Depth \in DOMAIN calls /\ Is(Depth, "constructors") /\ calls[Depth].at = "body"
                      /\ calls[Depth].opened = NIL /\ Inner = calls[Depth]
    OBVIOUS
  <2>1. Depth > 0 /\ Depth \in DOMAIN calls /\ Inner = calls[Depth]
    BY <1>1, TopIs
  <2> QED BY <1>1, <2>1 DEF Is
<1>7. \A i \in DOMAIN calls : ~Is(i, "link_image") /\ ~Is(i, "unload")
  BY <1>1, <1>2, <1>6 DEF TwoPhaseIInv, StackOrder, Is
<1>8. \A i \in DOMAIN calls' : (i \in DOMAIN calls /\ calls'[i] = calls[i]) \/ calls'[i] = Entered("dlopen", l, "find")
  BY <1>2, <1>4
<1>9. NoneBound /\ NoneOpened
  <2>1. NoneBound
    BY <1>1, <1>3, <1>7, <1>8 DEF NoneBound, IsLinked, Is
  <2>2. NoneOpened
    BY <1>3, <1>8 DEF NoneOpened
  <2> QED BY <2>1, <2>2
<1>10. StackOrder' /\ UnloadsApart'
  <2>1. PushedOn /\ New = Entered("dlopen", l, "find")
    BY <1>2, <1>4 DEF PushedOn, New, Alike
  <2>2. StackOrder'
    BY <1>1, <1>5, <1>7, <2>1, OrderPushed DEF TwoPhaseIInv
  <2>3. calls # <<>> /\ Inner.l \in Balanced => \A i \in DOMAIN calls : ~UnderWay(i, l)
    <3>1. \A i \in DOMAIN calls : calls[i] \in Ranges(calls)
      BY DEF Ranges
    <3> QED BY <1>1, <3>1 DEF UnderWay
  <2>4. UnloadsApart'
    BY <1>1, <1>3, <1>5, <1>9, <2>1, <2>3, ApartPushed DEF TwoPhaseIInv
  <2> QED BY <2>2, <2>4
<1>11. RefcountCovers' /\ UnloadsLast' /\ ReferencedLinked'
  <2>1. \A k \in File : si'[k].refcount >= si[k].refcount /\ (IsLinked(k) => IsLinked(k)')
    BY <1>1, Typed DEF IsLinked
  <2>2. \A j \in DOMAIN calls' : calls'[j].fn # "unload"
    BY <1>3, <1>7, <1>8 DEF Is
  <2> QED BY <1>1, <1>5, <1>9, <2>1, <2>2, RefsKept DEF TwoPhaseIInv
<1>12. CalledLinked' /\ CalledOrDone' /\ DoneNeeds' /\ ConstructingNeeds'
  <2>1. \A k \in File : si'[k].called = si[k].called /\ si'[k].done = si[k].done /\ (IsLinked(k) => IsLinked(k)')
    BY <1>1 DEF IsLinked
  <2>2. \A i \in DOMAIN calls : i \in DOMAIN calls' /\ Alike(i)
    BY <1>2, <1>4 DEF Alike
  <2>3. \A i \in DOMAIN calls' : calls'[i].fn = "constructors" =>
          i \in DOMAIN calls /\ Alike(i) /\ calls'[i].d = calls[i].d
    BY <1>3, <1>8 DEF Alike
  <2> QED BY <1>1, <1>5, <2>1, <2>2, <2>3, CalledKept DEF TwoPhaseIInv
<1>13. StackShape'
  <2> SUFFICES ASSUME NEW i \in DOMAIN calls' PROVE FrameShape(i)'
    BY DEF StackShape
  <2>1. CASE i \in DOMAIN calls
    <3>1. i \in Nat /\ calls'[i] = calls[i] /\ (i > 1 => calls'[i - 1] = calls[i - 1])
      BY <1>2, <1>4, <2>1
    <3>2. FrameShape(i)
      BY <2>1 DEF TwoPhaseIInv, StackShape
    <3> QED BY <1>1, <3>1, <3>2, ShapeKept
  <2>2. CASE i = Depth + 1
    <3>1. i > 1 => calls # <<>> /\ calls'[i - 1] = calls[Depth]
      BY <1>2, <1>4, <2>2
    <3> QED BY <1>3, <1>4, <1>6, <2>2, <3>1 DEF FrameShape, OpenShape, Is
  <2> QED BY <1>2, <1>4, <2>1, <2>2
<1>14. StackFlags' /\ Unprotected'
  <2>1. StackFlags'
    BY <1>1, <1>3, <1>8 DEF TwoPhaseIInv, StackFlags, Is, IsLinked
  <2>2. Unprotected'
    BY <1>3, <1>7, <1>8 DEF Unprotected, Is
  <2> QED BY <2>1, <2>2
<1>15. FoundIsLinked'
  BY <1>1 DEF FoundIsLinked
<1>16. LockHeld'
  <2>1. t # NoCaller
    BY TwoPhaseAssumption
  <2>2. ASSUME NEW i \in DOMAIN calls', i = 1, calls'[i].fn = "dlopen"
        PROVE  held'[calls'[i].l] < MaxHeld
    <3>1. CASE calls = <<>>
      BY <1>1, <1>2, <1>3, <1>4, <2>2, <3>1
    <3>2. CASE calls # <<>>
      BY <1>1, <1>2, <1>4, <1>6, <2>2, <3>2 DEF TwoPhaseIInv, LockHeld, Is
    <3> QED BY <3>1, <3>2
  <2> QED BY <1>1, <1>4, <2>1, <2>2 DEF LockHeld, Is
<1> QED BY <1>5, <1>10, <1>11, <1>12, <1>13, <1>14, <1>15, <1>16 DEF TwoPhaseIInv

\* The innermost activation g, with one of fn for l on it.
LEMMA ToppedPushed ==
  ASSUME TwoPhaseTypeOK, calls # <<>>, NEW g \in Frame, NEW h \in Frame, NEW r, Topped(r, g), calls' = Append(r, h)
  PROVE  /\ calls' \in Seq(Frame) /\ calls' # <<>> /\ Len(calls') = Depth + 1 /\ DOMAIN calls' = 1 .. Depth + 1
         /\ Depth' = Depth + 1 /\ Inner' = h
         /\ \A i \in 1 .. Depth - 1 : calls'[i] = calls[i]
         /\ calls'[Depth] = g /\ calls'[Depth + 1] = h
<1>1. Depth \in Nat /\ Depth > 0
  BY TopIs
<1>2. r \in Seq(Frame) /\ Len(r) = Depth /\ (\A i \in 1 .. Depth - 1 : r[i] = calls[i]) /\ r[Depth] = g
  BY DEF Topped
<1>3. /\ calls' \in Seq(Frame) /\ calls' # <<>> /\ Len(calls') = Depth + 1 /\ DOMAIN calls' = 1 .. Depth + 1
      /\ \A i \in 1 .. Depth : calls'[i] = r[i]
      /\ calls'[Depth + 1] = h
  BY <1>2, Pushing
<1> QED BY <1>1, <1>2, <1>3 DEF Depth, Inner

LEMMA LoadLibraryStep == TwoPhaseIInv /\ LoadLibrary => TwoPhaseIInv'
<1> SUFFICES ASSUME TwoPhaseIInv, LoadLibrary PROVE TwoPhaseIInv'
  OBVIOUS
<1>1. /\ TwoPhaseTypeOK /\ calls # <<>> /\ Inner.at = "find" /\ si[Wanted].flags = "absent"
      /\ si' = [si EXCEPT ![Wanted] = [Absent EXCEPT !.flags = "loaded"]]
      /\ calls' = Append(At("found"), Entered("link_image", Wanted, "loop"))
      /\ UNCHANGED <<result, owner, held>> /\ needs' = needs /\ recursive' = recursive
  BY DEF TwoPhaseIInv, LoadLibrary, Finding, Keeps
<1>2. /\ Depth \in Nat /\ Depth > 0 /\ Depth \in DOMAIN calls /\ DOMAIN calls = 1 .. Depth
      /\ Inner = calls[Depth] /\ Inner \in Frame /\ Inner.l \in File /\ Inner.d \in Nat
  BY <1>1, TopIs
<1>3. /\ Inner.fn \in {"dlopen", "link_image"} /\ Wanted \in File
      /\ (Inner.fn = "link_image" => Inner.d \in Needed(Inner.l) /\ Wanted = EntryOf)
      /\ (Inner.fn = "dlopen" => Wanted = Inner.l)
  BY <1>1, WantedIs
<1>4. PICK n \in File : n = Wanted
  BY <1>3
<1>5. PICK g \in Frame : g = [Inner EXCEPT !.at = "found"]
  <2>1. [Inner EXCEPT !.at = "found"] \in Frame
    BY <1>2 DEF Frame
  <2> QED BY <2>1
<1>6. g.fn = Inner.fn /\ g.l = Inner.l /\ g.d = Inner.d /\ g.opened = Inner.opened /\ g.at = "found"
  BY <1>2, <1>5 DEF Frame
<1>7. PICK h \in Frame : /\ h = Entered("link_image", n, "loop")
                          /\ h.fn = "link_image" /\ h.l = n /\ h.d = 1 /\ h.at = "loop" /\ h.opened = NIL
  BY Entering
<1>8. /\ calls' \in Seq(Frame) /\ calls' # <<>> /\ Len(calls') = Depth + 1 /\ DOMAIN calls' = 1 .. Depth + 1
      /\ Depth' = Depth + 1 /\ Inner' = h
      /\ \A i \in 1 .. Depth - 1 : calls'[i] = calls[i]
      /\ calls'[Depth] = g /\ calls'[Depth + 1] = h
  <2>1. Topped(At("found"), g)
    BY <1>1, <1>5, TopAt DEF Place
  <2> QED BY <1>1, <1>4, <1>7, <2>1, ToppedPushed
<1>9. PICK s \in Soinfo : /\ s = [Absent EXCEPT !.flags = "loaded"]
                           /\ s.flags = "loaded" /\ s.refcount = 0 /\ s.called = FALSE /\ s.done = FALSE
  <2>1. [Absent EXCEPT !.flags = "loaded"] \in Soinfo
    BY DEF Absent, Soinfo
  <2> QED BY <2>1 DEF Absent
<1>10. /\ si' \in [File -> Soinfo] /\ si'[n] = s /\ \A k \in File : k # n => si'[k] = si[k]
  <2>1. si' = [si EXCEPT ![n] = s]
    BY <1>1, <1>4, <1>9
  <2>2. si \in [File -> Soinfo]
    BY <1>1 DEF TwoPhaseTypeOK
  <2> QED BY <2>1, <2>2
<1>11. TwoPhaseTypeOK'
  BY <1>1, <1>8, <1>10 DEF TwoPhaseTypeOK
<1>12. /\ ~IsLinked(n) /\ ~IsLinked(n)' /\ Refs(n) = 0 /\ si[n].called = FALSE /\ si[n].done = FALSE
  <2>1. ~IsLinked(n) /\ ~IsLinked(n)'
    BY <1>1, <1>4, <1>9, <1>10 DEF IsLinked
  <2>2. Refs(n) \in Nat /\ ~(Refs(n) > 0)
    BY <1>1, <2>1, RefsFinite DEF TwoPhaseIInv, ReferencedLinked
  <2>3. ~si[n].called /\ ~si[n].done /\ si[n].called \in BOOLEAN /\ si[n].done \in BOOLEAN
    BY <1>1, <2>1, Typed DEF TwoPhaseIInv, CalledLinked, Soinfo
  <2>4. Refs(n) = 0
    BY <2>2
  <2> QED BY <2>1, <2>3, <2>4
<1>13. \A k \in File : (IsLinked(k)' <=> IsLinked(k)) /\ si'[k].called = si[k].called /\ si'[k].done = si[k].done
  <2> SUFFICES ASSUME NEW k \in File
               PROVE  (IsLinked(k)' <=> IsLinked(k)) /\ si'[k].called = si[k].called /\ si'[k].done = si[k].done
    OBVIOUS
  <2>1. CASE k = n
    BY <1>9, <1>10, <1>12, <2>1
  <2>2. CASE k # n
    BY <1>10, <2>2 DEF IsLinked
  <2> QED BY <2>1, <2>2
<1>14. \A i \in DOMAIN calls : /\ i \in DOMAIN calls' /\ Alike(i) /\ calls'[i].d = calls[i].d
                               /\ calls'[i].opened = calls[i].opened
                               /\ calls'[i].at = calls[i].at \/ calls'[i].at = "found"
                               /\ i # Depth => calls'[i] = calls[i]
  <2> SUFFICES ASSUME NEW i \in DOMAIN calls
               PROVE  /\ i \in DOMAIN calls' /\ Alike(i) /\ calls'[i].d = calls[i].d
                      /\ calls'[i].opened = calls[i].opened
                      /\ calls'[i].at = calls[i].at \/ calls'[i].at = "found"
                      /\ i # Depth => calls'[i] = calls[i]
    OBVIOUS
  <2>1. i \in DOMAIN calls'
    BY <1>2, <1>8
  <2>2. CASE i = Depth
    BY <1>2, <1>6, <1>8, <2>1, <2>2 DEF Alike
  <2>3. CASE i # Depth
    BY <1>2, <1>8, <2>1, <2>3 DEF Alike
  <2> QED BY <2>2, <2>3
<1>15. \A i \in DOMAIN calls' : i \in DOMAIN calls \/ (i = Depth + 1 /\ calls'[i] = h)
  BY <1>2, <1>8
<1>16. \A i \in DOMAIN calls : ~Is(i, "unload")
  BY <1>2, <1>3 DEF TwoPhaseIInv, StackOrder, Is
<1>17. NoneBound /\ NoneOpened
  <2>1. \A j \in DOMAIN calls' : calls'[j].fn = "link_image" =>
          \/ j \in DOMAIN calls /\ Is(j, "link_image") /\ calls'[j].l = calls[j].l /\ calls'[j].d <= calls[j].d
          \/ calls'[j].d = 1
    BY <1>1, <1>7, <1>14, <1>15, Frames DEF Alike, Is
  <2>2. NoneBound
    BY <1>13, <1>16, <2>1 DEF NoneBound
  <2>3. NoneOpened
    BY <1>7, <1>14, <1>15 DEF NoneOpened
  <2> QED BY <2>2, <2>3
<1>18. StackOrder' /\ UnloadsApart'
  <2>1. PushedOn /\ New = h
    BY <1>2, <1>8, <1>14 DEF PushedOn, New, Depth
  <2>2. \A i \in DOMAIN calls : Is(i, "link_image") => calls[i].l # n
    BY <1>1, <1>4 DEF TwoPhaseIInv, StackFlags
  <2>3. StackOrder'
    BY <1>1, <1>7, <1>11, <1>16, <2>1, <2>2, OrderPushed DEF TwoPhaseIInv
  <2>4. UnloadsApart'
    BY <1>1, <1>7, <1>11, <1>17, <2>1, ApartPushed DEF TwoPhaseIInv
  <2> QED BY <2>3, <2>4
<1>19. RefcountCovers' /\ UnloadsLast' /\ ReferencedLinked'
  <2>1. \A k \in File : Refs(k) = 0 \/ (si'[k].refcount >= si[k].refcount /\ (IsLinked(k) => IsLinked(k)'))
    <3>1. \A k \in File : si[k].refcount \in Nat
      BY <1>1, Typed
    <3>2. \A k \in File : k # n => si'[k].refcount = si[k].refcount
      BY <1>10
    <3> QED BY <1>12, <1>13, <3>1, <3>2
  <2>2. \A j \in DOMAIN calls' : calls'[j].fn # "unload"
    BY <1>7, <1>14, <1>15, <1>16 DEF Is, Alike
  <2> QED BY <1>1, <1>11, <1>17, <2>1, <2>2, RefsKept DEF TwoPhaseIInv
<1>20. CalledLinked' /\ CalledOrDone' /\ DoneNeeds' /\ ConstructingNeeds'
  <2>1. \A i \in DOMAIN calls' : calls'[i].fn = "constructors" =>
          i \in DOMAIN calls /\ Alike(i) /\ calls'[i].d = calls[i].d
    BY <1>7, <1>14, <1>15
  <2> QED BY <1>1, <1>11, <1>13, <1>14, <2>1, CalledKept DEF TwoPhaseIInv
<1>21. StackShape'
  <2> SUFFICES ASSUME NEW i \in DOMAIN calls' PROVE FrameShape(i)'
    BY DEF StackShape
  <2>1. CASE i \in DOMAIN calls /\ i # Depth
    <3>1. i \in Nat /\ calls'[i] = calls[i] /\ (i > 1 => calls'[i - 1] = calls[i - 1])
      BY <1>2, <1>8, <2>1
    <3>2. FrameShape(i)
      BY <2>1 DEF TwoPhaseIInv, StackShape
    <3> QED BY <1>1, <3>1, <3>2, ShapeKept
  <2>2. CASE i = Depth
    <3>1. FrameShape(Depth)
      BY <1>2 DEF TwoPhaseIInv, StackShape
    <3>2. Depth > 1 => calls'[Depth - 1] = calls[Depth - 1]
      BY <1>2, <1>8
    <3> QED BY <1>1, <1>2, <1>3, <1>6, <1>8, <2>2, <3>1, <3>2 DEF FrameShape, OpenShape, LinkShape, Is, Needed
  <2>3. CASE i = Depth + 1
    <3>1. calls'[i - 1] = g /\ i > 1 /\ calls'[i] = h
      BY <1>2, <1>8, <2>3
    <3>2. 1 \in 1 .. Len(needs[n]) + 1
      BY <1>1, Typed
    <3>3. \/ g.fn = "dlopen" /\ g.l = n
          \/ g.fn = "link_image" /\ needs[g.l][g.d] = n
      BY <1>3, <1>4, <1>6 DEF EntryOf
    <3> QED BY <1>1, <1>6, <1>7, <3>1, <3>2, <3>3 DEF FrameShape, LinkShape, Is
  <2> QED BY <1>15, <2>1, <2>2, <2>3
<1>22. StackFlags'
  <2> SUFFICES ASSUME NEW i \in DOMAIN calls'
               PROVE  /\ calls'[i].fn = "link_image" => si'[calls'[i].l].flags = "loaded"
                      /\ calls'[i].fn = "dlopen" /\ calls'[i].at = "open" => IsLinked(calls[i].l)'
                      /\ calls'[i].fn = "constructors" => IsLinked(calls[i].l)' /\ si'[calls'[i].l].called
                      /\ calls'[i].fn = "unload" => IsLinked(calls[i].l)'
    BY DEF StackFlags, Is
  <2>1. CASE i \in DOMAIN calls
    <3>1. calls'[i].fn = calls[i].fn /\ calls'[i].l = calls[i].l /\ calls[i].l \in File
          /\ (calls'[i].at = "open" => calls[i].at = "open")
      BY <1>1, <1>14, <2>1, Frames DEF Alike
    <3>2. calls[i].fn = "link_image" => si[calls[i].l].flags = "loaded" /\ calls[i].l # n
      BY <1>1, <1>4, <2>1 DEF TwoPhaseIInv, StackFlags, Is
    <3>3. PICK k \in File : k = calls[i].l
      BY <3>1
    <3>4. /\ calls[i].fn = "dlopen" /\ calls[i].at = "open" => IsLinked(k)
          /\ calls[i].fn = "constructors" => IsLinked(k) /\ si[k].called
          /\ calls[i].fn = "unload" => IsLinked(k)
      BY <2>1, <3>3 DEF TwoPhaseIInv, StackFlags, Is
    <3>5. (IsLinked(k)' <=> IsLinked(k)) /\ si'[k].called = si[k].called
      BY <1>13
    <3> QED BY <1>10, <3>1, <3>2, <3>3, <3>4, <3>5 DEF IsLinked
  <2>2. CASE calls'[i] = h
    <3>1. calls'[i].fn = "link_image" /\ calls'[i].l = n
      BY <1>7, <2>2
    <3>2. si'[n].flags = "loaded"
      BY <1>9, <1>10
    <3> QED BY <3>1, <3>2
  <2> QED BY <1>15, <2>1, <2>2
<1>23. FoundIsLinked' /\ Unprotected'
  <2>1. FoundIsLinked'
    BY <1>7, <1>8 DEF FoundIsLinked
  <2>2. Unprotected'
    BY <1>7, <1>14, <1>15, <1>16 DEF Unprotected, Is, Alike
  <2> QED BY <2>1, <2>2
<1>24. LockHeld'
  <2>1. \A i \in DOMAIN calls' : calls'[i].fn = "dlopen" => i \in DOMAIN calls /\ Is(i, "dlopen") /\ calls'[i].l = calls[i].l
    BY <1>7, <1>14, <1>15 DEF Alike, Is
  <2> QED BY <1>1, <1>8, <2>1 DEF TwoPhaseIInv, LockHeld, Is
<1> QED BY <1>11, <1>18, <1>19, <1>20, <1>21, <1>22, <1>23, <1>24 DEF TwoPhaseIInv

LEMMA NeedBoundStep == TwoPhaseIInv /\ NeedBound => TwoPhaseIInv'
<1> SUFFICES ASSUME TwoPhaseIInv, NeedBound PROVE TwoPhaseIInv'
  OBVIOUS
<1>1. /\ TwoPhaseTypeOK /\ calls # <<>> /\ Inner.at = "found" /\ Inner.fn = "link_image" /\ result # NIL
      /\ si' = [si EXCEPT ![result].refcount = si[result].refcount + 1]
      /\ calls' = [NextEntry EXCEPT ![Depth].at = "loop"]
      /\ UNCHANGED <<result, owner, held>> /\ needs' = needs /\ recursive' = recursive
  BY DEF TwoPhaseIInv, NeedBound, In, Keeps
<1>2. /\ Depth \in Nat /\ Depth > 0 /\ Depth \in DOMAIN calls /\ DOMAIN calls = 1 .. Depth
      /\ Inner = calls[Depth] /\ Inner \in Frame /\ Inner.l \in File /\ Inner.d \in Nat
  BY <1>1, TopIs
<1>3. /\ Wanted \in File /\ Inner.d \in Needed(Inner.l) /\ Wanted = EntryOf /\ LinkShape(Depth)
  BY <1>1, WantedIs
<1>4. PICK n \in File, k \in File, d \in Nat : n = result /\ k = Inner.l /\ d = Inner.d
  <2>1. result \in File
    BY <1>1, <1>3 DEF TwoPhaseIInv, FoundIsLinked
  <2> QED BY <1>2, <2>1
<1>5. IsLinked(n) /\ d \in Needed(k) /\ needs[k][d] = n
  BY <1>1, <1>3, <1>4 DEF TwoPhaseIInv, FoundIsLinked, EntryOf
<1>6. PICK g \in Frame : g = [Inner EXCEPT !.d = Inner.d + 1, !.at = "loop"]
  <2>1. [Inner EXCEPT !.d = Inner.d + 1, !.at = "loop"] \in Frame
    BY <1>1, TopNextAt DEF Place
  <2> QED BY <2>1
<1>7. g.fn = "link_image" /\ g.l = Inner.l /\ g.d = Inner.d + 1 /\ g.opened = Inner.opened /\ g.at = "loop"
  BY <1>1, <1>2, <1>6 DEF Frame
<1>8. /\ calls' \in Seq(Frame) /\ calls' # <<>> /\ Len(calls') = Depth /\ DOMAIN calls' = DOMAIN calls
      /\ Depth' = Depth /\ Inner' = g
      /\ \A i \in 1 .. Depth : i # Depth => calls'[i] = calls[i]
      /\ calls'[Depth] = g
  <2>1. Topped(calls', g)
    BY <1>1, <1>6, TopNextAt DEF Place
  <2> QED BY <1>2, <2>1 DEF Topped, Depth, Inner
<1>9. si[n].refcount \in Nat /\ si' = [si EXCEPT ![n].refcount = si[n].refcount + 1] /\ si[n].refcount + 1 \in Nat
  BY <1>1, <1>4, Typed
<1>10. /\ si' \in [File -> Soinfo] /\ si'[n].refcount = si[n].refcount + 1
       /\ \A l \in File : /\ si'[l].flags = si[l].flags /\ si'[l].called = si[l].called
                          /\ si'[l].done = si[l].done /\ si'[l].relro = si[l].relro
                          /\ (l # n => si'[l].refcount = si[l].refcount)
  BY <1>1, <1>9, Recounted
<1>11. TwoPhaseTypeOK'
  BY <1>1, <1>8, <1>10 DEF TwoPhaseTypeOK
<1>12. \A i \in DOMAIN calls : /\ Alike(i) /\ calls'[i].opened = calls[i].opened
                              /\ (i # Depth => calls'[i] = calls[i])
  BY <1>1, <1>2, <1>7, <1>8 DEF Alike
<1>13. \A l \in File : IsLinked(l)' <=> IsLinked(l)
  BY <1>10 DEF IsLinked
<1>14. \A i \in DOMAIN calls : ~Is(i, "unload")
  BY <1>1, <1>2 DEF TwoPhaseIInv, StackOrder, Is
<1>15. NoneOpened
  BY <1>8, <1>12 DEF NoneOpened
<1>16. \A m \in File : \A e \in Needed(m) : Bound(m, e)' => Bound(m, e) \/ (m = k /\ e = d)
  <2> SUFFICES ASSUME NEW m \in File, NEW e \in Needed(m), Bound(m, e)', ~Bound(m, e)
               PROVE  m = k /\ e = d
    OBVIOUS
  <2>1. e \in Nat
    BY <1>1, Typed
  <2>2. ~IsLinked(m)'
    BY <1>13, <1>14, <2>1 DEF Bound
  <2>3. PICK j \in DOMAIN calls' : calls'[j].fn = "link_image" /\ calls'[j].l = m /\ e < calls'[j].d
    BY <2>2 DEF Bound, Is
  <2>4. ~(calls[j].fn = "link_image" /\ calls[j].l = m /\ e < calls[j].d)
    BY <1>8, <2>3 DEF Bound, Is
  <2>5. j = Depth
    BY <1>8, <1>12, <2>3, <2>4
  <2>6. m = k /\ e < d + 1 /\ ~(e < d)
    BY <1>1, <1>2, <1>4, <1>7, <1>8, <2>3, <2>4, <2>5
  <2> QED BY <2>1, <2>6
<1>17. \A l \in File : /\ Refs(l)' \in Nat /\ Refs(l) \in Nat
                      /\ Refs(l)' <= Refs(l) + (IF l = n THEN 1 ELSE 0)
  <2> SUFFICES ASSUME NEW l \in File
               PROVE  Refs(l)' \in Nat /\ Refs(l) \in Nat /\ Refs(l)' <= Refs(l) + (IF l = n THEN 1 ELSE 0)
    OBVIOUS
  <2>1. Refs(l) \in Nat /\ Refs(l)' \in Nat
    BY <1>1, <1>11, RefsFinite, RefsThen
  <2>2. /\ held[l] \in Nat /\ held'[l] = held[l]
        /\ Cardinality(EntriesOn(l)) \in Nat /\ Cardinality(OpenersOf(l)) \in Nat
    BY <1>1, Typed, RefsFinite
  <2>3. Cardinality(OpenersOf(l)') \in Nat /\ Cardinality(OpenersOf(l)') <= Cardinality(OpenersOf(l))
    BY <1>1, <1>11, <1>15, FewerOpeners
  <2>4. CASE l = n
    <3>1. Cardinality(EntriesOn(l)') \in Nat /\ Cardinality(EntriesOn(l)') <= Cardinality(EntriesOn(l)) + 1
      BY <1>1, <1>5, <1>16, <2>4, OneEntryMore
    <3> QED BY <2>1, <2>2, <2>3, <2>4, <3>1 DEF Refs
  <2>5. CASE l # n
    <3>1. \A m \in File : \A e \in Needed(m) : needs[m][e] = l /\ Bound(m, e)' => Bound(m, e)
      BY <1>5, <1>16, <2>5
    <3>2. Cardinality(EntriesOn(l)') \in Nat /\ Cardinality(EntriesOn(l)') <= Cardinality(EntriesOn(l))
      BY <1>1, <3>1, FewerEntries
    <3> QED BY <2>1, <2>2, <2>3, <2>5, <3>2 DEF Refs
  <2> QED BY <2>4, <2>5
<1>18. RefcountCovers' /\ ReferencedLinked' /\ UnloadsLast'
  <2>1. \A l \in File : Covering(l)
    <3> SUFFICES ASSUME NEW l \in File PROVE Covering(l)
      OBVIOUS
    <3>1. Refs(l)' \in Nat /\ Refs(l) \in Nat /\ si[l].refcount \in Nat /\ (Refs(l) > 0 => IsLinked(l)')
      BY <1>1, <1>13, <1>17, Typed DEF TwoPhaseIInv, ReferencedLinked
    <3>2. CASE l = n
      <4>1. IsLinked(l)' /\ si'[l].refcount = si[l].refcount + 1 /\ Refs(l)' <= Refs(l) + 1
        BY <1>5, <1>10, <1>13, <1>17, <3>2
      <4> QED BY <3>1, <4>1 DEF Covering
    <3>3. CASE l # n
      <4>1. si'[l].refcount = si[l].refcount /\ Refs(l)' <= Refs(l)
        BY <1>10, <1>17, <3>1, <3>3
      <4> QED BY <3>1, <4>1 DEF Covering
    <3> QED BY <3>2, <3>3
  <2>2. RefcountCovers' /\ ReferencedLinked'
    BY <1>1, <1>11, <1>17, <2>1, Covered DEF TwoPhaseIInv
  <2>3. UnloadsLast'
    BY <1>8, <1>12, <1>14 DEF UnloadsLast, Is, Alike
  <2> QED BY <2>2, <2>3
<1>19. StackOrder' /\ UnloadsApart'
  <2>1. Keeping
    <3>1. Len(calls) = Depth /\ Len(calls') = Depth /\ \A i \in 1 .. Depth : Alike(i)
      BY <1>2, <1>8, <1>12 DEF Depth
    <3> QED BY <1>2, <3>1 DEF Keeping
  <2> QED BY <1>1, <1>11, <1>15, <2>1, OrderKept, ApartKept DEF TwoPhaseIInv
<1>20. CalledLinked' /\ CalledOrDone' /\ DoneNeeds' /\ ConstructingNeeds'
  <2>1. \A i \in DOMAIN calls' : calls'[i].fn = "constructors" =>
          i \in DOMAIN calls /\ Alike(i) /\ calls'[i].d = calls[i].d
    BY <1>7, <1>8, <1>12
  <2> QED BY <1>1, <1>8, <1>10, <1>11, <1>12, <1>13, <2>1, CalledKept DEF TwoPhaseIInv
<1>21. StackShape'
  <2> SUFFICES ASSUME NEW i \in DOMAIN calls' PROVE FrameShape(i)'
    BY DEF StackShape
  <2>1. CASE i # Depth
    <3>1. i \in Nat /\ i \in DOMAIN calls /\ calls'[i] = calls[i] /\ (i > 1 => calls'[i - 1] = calls[i - 1])
      BY <1>2, <1>8, <2>1
    <3>2. FrameShape(i)
      BY <3>1 DEF TwoPhaseIInv, StackShape
    <3> QED BY <1>1, <3>1, <3>2, ShapeKept
  <2>2. CASE i = Depth
    <3>1. FrameShape(Depth) /\ LinkShape(Depth)
      BY <1>2, <1>3 DEF TwoPhaseIInv, StackShape
    <3>2. Depth > 1 => calls'[Depth - 1] = calls[Depth - 1]
      BY <1>2, <1>8
    <3>3. Inner.d + 1 \in 1 .. Len(needs[Inner.l]) + 1
      BY <1>1, <1>2, <1>3, Typed
    <3>4. LinkShape(Depth)'
      BY <1>1, <1>2, <1>7, <1>8, <3>1, <3>2, <3>3 DEF LinkShape, Is
    <3>5. calls'[Depth].opened = NIL
      BY <1>1, <1>2, <1>7, <1>8, <3>1 DEF FrameShape, Is
    <3> QED BY <1>7, <1>8, <2>2, <3>4, <3>5 DEF FrameShape, Is
  <2> QED BY <2>1, <2>2
<1>22. StackFlags'
  <2> SUFFICES ASSUME NEW i \in DOMAIN calls'
               PROVE  /\ calls'[i].fn = "link_image" => si'[calls'[i].l].flags = "loaded"
                      /\ calls'[i].fn = "dlopen" /\ calls'[i].at = "open" => si'[calls'[i].l].flags = "LINKED"
                      /\ calls'[i].fn = "constructors" => si'[calls'[i].l].flags = "LINKED" /\ si'[calls'[i].l].called
                      /\ calls'[i].fn = "unload" => si'[calls'[i].l].flags = "LINKED"
    BY DEF StackFlags, Is, IsLinked
  <2>1. /\ calls'[i].fn = calls[i].fn /\ calls'[i].l = calls[i].l /\ calls[i].l \in File /\ i \in DOMAIN calls
        /\ (calls'[i].at = "open" => calls[i].at = "open")
    BY <1>1, <1>7, <1>8, <1>12, Frames DEF Alike
  <2> QED BY <1>10, <2>1 DEF TwoPhaseIInv, StackFlags, Is, IsLinked
<1>23. FoundIsLinked' /\ Unprotected'
  <2>1. FoundIsLinked'
    BY <1>7, <1>8 DEF FoundIsLinked
  <2>2. Unprotected'
    BY <1>8, <1>12, <1>14 DEF Unprotected, Is, Alike
  <2> QED BY <2>1, <2>2
<1>24. LockHeld'
  BY <1>1, <1>8, <1>12 DEF TwoPhaseIInv, LockHeld, Is, Alike
<1> QED BY <1>11, <1>18, <1>19, <1>20, <1>21, <1>22, <1>23, <1>24 DEF TwoPhaseIInv

-----------------------------------------------------------------------------
(* Returning.                                                              *)

LEMMA Returning ==
  ASSUME TwoPhaseIInv, TwoPhaseTypeOK', calls # <<>>, calls' = Outer, needs' = needs
  PROVE  /\ DOMAIN calls' = 1 .. Depth - 1 /\ Depth' = Depth - 1 /\ (calls' = <<>> <=> Depth = 1)
         /\ \A i \in DOMAIN calls' : i \in DOMAIN calls /\ i < Depth /\ calls'[i] = calls[i]
         /\ \A i \in DOMAIN calls : i # Depth => i \in DOMAIN calls' /\ calls'[i] = calls[i]
         /\ NoneOpened /\ StackShape' /\ StackOrder' /\ UnloadsApart'
<1>1. TwoPhaseTypeOK
  BY DEF TwoPhaseIInv
<1>2. Depth \in Nat /\ Depth > 0 /\ DOMAIN calls = 1 .. Depth /\ Len(calls) = Depth
  BY <1>1, TopIs DEF Depth
<1>3. /\ Len(calls') = Depth - 1 /\ DOMAIN calls' = 1 .. Depth - 1 /\ Depth' = Depth - 1 /\ (calls' = <<>> <=> Depth = 1)
      /\ \A i \in 1 .. Depth - 1 : calls'[i] = calls[i]
  BY <1>1, Popping DEF Depth
<1>4. \A i \in DOMAIN calls' : i \in DOMAIN calls /\ i < Depth /\ calls'[i] = calls[i]
  BY <1>2, <1>3
<1>5. \A i \in DOMAIN calls : i # Depth => i \in DOMAIN calls' /\ calls'[i] = calls[i]
  BY <1>2, <1>3
<1>6. NoneOpened
  BY <1>4 DEF NoneOpened
<1>7. StackOrder' /\ UnloadsApart'
  <2>1. Keeping
    BY <1>2, <1>3 DEF Keeping, Alike
  <2> QED BY <1>1, <1>6, <2>1, OrderKept, ApartKept DEF TwoPhaseIInv
<1>8. StackShape'
  <2> SUFFICES ASSUME NEW i \in DOMAIN calls' PROVE FrameShape(i)'
    BY DEF StackShape
  <2>1. i \in Nat /\ i \in DOMAIN calls /\ calls'[i] = calls[i] /\ (i > 1 => calls'[i - 1] = calls[i - 1])
    BY <1>2, <1>3
  <2>2. FrameShape(i)
    BY <2>1 DEF TwoPhaseIInv, StackShape
  <2> QED BY <2>1, <2>2, ShapeKept
<1> QED BY <1>3, <1>4, <1>5, <1>6, <1>7, <1>8

LEMMA OpenFailsStep == TwoPhaseIInv /\ OpenFails => TwoPhaseIInv'
<1> SUFFICES ASSUME TwoPhaseIInv, OpenFails PROVE TwoPhaseIInv'
  OBVIOUS
<1>1. /\ TwoPhaseTypeOK /\ calls # <<>> /\ Inner.at = "found" /\ Inner.fn = "dlopen"
      /\ calls' = Outer /\ owner' = (IF Outer = <<>> THEN NoCaller ELSE owner)
      /\ UNCHANGED <<si, result, held>> /\ needs' = needs /\ recursive' = recursive
  BY DEF TwoPhaseIInv, OpenFails, In, Returned, Keeps
<1>2. /\ Depth \in Nat /\ Depth > 0 /\ Depth \in DOMAIN calls /\ DOMAIN calls = 1 .. Depth
      /\ Inner = calls[Depth] /\ Inner.l \in File
  BY <1>1, TopIs
<1>3. OpenShape(Depth)
  BY <1>1, WantedIs
<1>4. TwoPhaseTypeOK'
  <2>1. Outer \in Seq(Frame)
    BY <1>1, Popping
  <2> QED BY <1>1, <2>1 DEF TwoPhaseTypeOK
<1>5. /\ DOMAIN calls' = 1 .. Depth - 1 /\ Depth' = Depth - 1 /\ (calls' = <<>> <=> Depth = 1)
      /\ \A i \in DOMAIN calls' : i \in DOMAIN calls /\ i < Depth /\ calls'[i] = calls[i]
      /\ \A i \in DOMAIN calls : i # Depth => i \in DOMAIN calls' /\ calls'[i] = calls[i]
      /\ NoneOpened /\ StackShape' /\ StackOrder' /\ UnloadsApart'
  BY <1>1, <1>4, Returning
<1>6. \A i \in DOMAIN calls : ~Is(i, "unload") /\ ~Is(i, "link_image")
  BY <1>1, <1>2 DEF TwoPhaseIInv, StackOrder, Is
<1>7. \A l \in File : IsLinked(l)' <=> IsLinked(l)
  BY <1>1 DEF IsLinked
<1>8. NoneBound
  BY <1>5, <1>6, <1>7 DEF NoneBound, Is
<1>9. RefcountCovers' /\ UnloadsLast' /\ ReferencedLinked'
  <2>1. \A k \in File : si'[k].refcount >= si[k].refcount /\ (IsLinked(k) => IsLinked(k)')
    BY <1>1, <1>7, Typed
  <2>2. \A j \in DOMAIN calls' : calls'[j].fn # "unload"
    BY <1>5, <1>6 DEF Is
  <2> QED BY <1>1, <1>4, <1>5, <1>8, <2>1, <2>2, RefsKept DEF TwoPhaseIInv
<1>10. CalledLinked' /\ CalledOrDone' /\ DoneNeeds' /\ ConstructingNeeds'
  <2>1. \A k \in File : si'[k].called = si[k].called /\ si'[k].done = si[k].done /\ (IsLinked(k) => IsLinked(k)')
    BY <1>1, <1>7
  <2>2. \A i \in DOMAIN calls : Is(i, "constructors") \/ Is(i, "unload") => i \in DOMAIN calls' /\ Alike(i)
    BY <1>1, <1>2, <1>5, <1>6 DEF Alike, Is
  <2>3. \A i \in DOMAIN calls' : calls'[i].fn = "constructors" =>
          i \in DOMAIN calls /\ Alike(i) /\ calls'[i].d = calls[i].d
    BY <1>5 DEF Alike
  <2> QED BY <1>1, <1>4, <2>1, <2>2, <2>3, CalledKept DEF TwoPhaseIInv
<1>11. StackFlags' /\ Unprotected'
  BY <1>1, <1>5 DEF TwoPhaseIInv, StackFlags, Unprotected, Is, IsLinked
<1>12. FoundIsLinked'
  <2>1. calls' # <<>> => Inner' = calls[Depth - 1] /\ Depth > 1 /\ Depth - 1 \in DOMAIN calls
    <3>1. calls' # <<>> => Depth > 1 /\ Depth - 1 \in DOMAIN calls'
      BY <1>2, <1>5
    <3> QED BY <1>5, <3>1 DEF Inner
  <2> QED BY <1>3, <2>1 DEF FoundIsLinked, OpenShape
<1>13. LockHeld'
  <2>1. Outer = <<>> <=> calls' = <<>>
    BY <1>1
  <2> QED BY <1>1, <1>5, <2>1 DEF TwoPhaseIInv, LockHeld, Is
<1> QED BY <1>4, <1>5, <1>9, <1>10, <1>11, <1>12, <1>13 DEF TwoPhaseIInv

LEMMA LinkFailsStep == TwoPhaseIInv /\ LinkFails => TwoPhaseIInv'
<1> SUFFICES ASSUME TwoPhaseIInv, LinkFails PROVE TwoPhaseIInv'
  OBVIOUS
<1>1. /\ TwoPhaseTypeOK /\ calls # <<>> /\ Inner.fn = "link_image"
      /\ si' = [si EXCEPT ![Inner.l].flags = "ERROR"] /\ calls' = Outer /\ result' = NIL
      /\ UNCHANGED <<owner, held>> /\ needs' = needs /\ recursive' = recursive
  BY DEF TwoPhaseIInv, LinkFails, In, Keeps
<1>2. /\ Depth \in Nat /\ Depth > 0 /\ Depth \in DOMAIN calls /\ DOMAIN calls = 1 .. Depth
      /\ Inner = calls[Depth] /\ Inner.l \in File
  BY <1>1, TopIs
<1>3. LinkShape(Depth)
  BY <1>1, <1>2 DEF TwoPhaseIInv, StackShape, FrameShape, Is
<1>4. PICK n \in File : n = Inner.l
  BY <1>2
<1>5. si[n].flags = "loaded"
  BY <1>1, <1>2, <1>4 DEF TwoPhaseIInv, StackFlags, Is
<1>6. /\ si' \in [File -> Soinfo] /\ ~IsLinked(n)'
      /\ \A l \in File : /\ si'[l].refcount = si[l].refcount /\ si'[l].called = si[l].called
                         /\ si'[l].done = si[l].done /\ si'[l].relro = si[l].relro
                         /\ (l # n => si'[l].flags = si[l].flags)
  <2>1. si[n] \in Soinfo /\ si \in [File -> Soinfo]
    BY <1>1, Typed DEF TwoPhaseTypeOK
  <2>2. PICK g \in Soinfo : g = [si[n] EXCEPT !.flags = "ERROR"]
    <3>1. [si[n] EXCEPT !.flags = "ERROR"] \in Soinfo
      BY <2>1 DEF Soinfo
    <3> QED BY <3>1
  <2>3. si' = [si EXCEPT ![n] = g]
    BY <1>1, <1>4, <2>2, FlagsSet
  <2>4. si' \in [File -> Soinfo] /\ si'[n] = g /\ \A l \in File : l # n => si'[l] = si[l]
    BY <2>1, <2>3
  <2>5. g.flags = "ERROR" /\ g.refcount = si[n].refcount
    BY <2>1, <2>2 DEF Soinfo
  <2>6. g.called = si[n].called /\ g.done = si[n].done /\ g.relro = si[n].relro
    BY <2>1, <2>2 DEF Soinfo
  <2> QED BY <2>4, <2>5, <2>6 DEF IsLinked
<1>7. TwoPhaseTypeOK'
  <2>1. Outer \in Seq(Frame)
    BY <1>1, Popping
  <2> QED BY <1>1, <1>6, <2>1 DEF TwoPhaseTypeOK
<1>8. /\ DOMAIN calls' = 1 .. Depth - 1 /\ (calls' = <<>> <=> Depth = 1)
      /\ \A i \in DOMAIN calls' : i \in DOMAIN calls /\ i < Depth /\ calls'[i] = calls[i]
      /\ \A i \in DOMAIN calls : i # Depth => i \in DOMAIN calls' /\ calls'[i] = calls[i]
      /\ NoneOpened /\ StackShape' /\ StackOrder' /\ UnloadsApart'
  BY <1>1, <1>7, Returning
<1>9. \A i \in DOMAIN calls : ~Is(i, "unload")
  BY <1>1, <1>2 DEF TwoPhaseIInv, StackOrder, Is
<1>10. \A l \in File : IsLinked(l)' <=> IsLinked(l)
  <2>1. ~IsLinked(n)
    BY <1>5 DEF IsLinked
  <2> QED BY <1>6, <2>1 DEF IsLinked
<1>11. NoneBound
  <2>1. \A i \in DOMAIN calls : calls[i].d <= calls[i].d
    BY <1>1, Frames
  <2> QED BY <1>8, <1>9, <1>10, <2>1 DEF NoneBound, Is
<1>12. RefcountCovers' /\ UnloadsLast' /\ ReferencedLinked'
  <2>1. \A k \in File : si'[k].refcount >= si[k].refcount /\ (IsLinked(k) => IsLinked(k)')
    BY <1>1, <1>6, <1>10, Typed
  <2>2. \A j \in DOMAIN calls' : calls'[j].fn # "unload"
    BY <1>8, <1>9 DEF Is
  <2> QED BY <1>1, <1>7, <1>8, <1>11, <2>1, <2>2, RefsKept DEF TwoPhaseIInv
<1>13. CalledLinked' /\ CalledOrDone' /\ DoneNeeds' /\ ConstructingNeeds'
  <2>2. \A i \in DOMAIN calls : Is(i, "constructors") \/ Is(i, "unload") => i \in DOMAIN calls' /\ Alike(i)
    BY <1>1, <1>2, <1>8, <1>9 DEF Alike, Is
  <2>3. \A i \in DOMAIN calls' : calls'[i].fn = "constructors" =>
          i \in DOMAIN calls /\ Alike(i) /\ calls'[i].d = calls[i].d
    BY <1>8 DEF Alike
  <2> QED BY <1>1, <1>6, <1>7, <1>10, <2>2, <2>3, CalledKept DEF TwoPhaseIInv
<1>14. StackFlags'
  <2> SUFFICES ASSUME NEW i \in DOMAIN calls'
               PROVE  /\ calls'[i].fn = "link_image" => si'[calls'[i].l].flags = "loaded"
                      /\ calls'[i].fn = "dlopen" /\ calls'[i].at = "open" => si'[calls'[i].l].flags = "LINKED"
                      /\ calls'[i].fn = "constructors" => si'[calls'[i].l].flags = "LINKED" /\ si'[calls'[i].l].called
                      /\ calls'[i].fn = "unload" => si'[calls'[i].l].flags = "LINKED"
    BY DEF StackFlags, Is, IsLinked
  <2>1. calls'[i] = calls[i] /\ calls[i].l \in File /\ i \in DOMAIN calls /\ i < Depth
    BY <1>1, <1>8, Frames
  <2>2. calls[i].fn = "link_image" => calls[i].l # n
    BY <1>2, <1>4, <2>1 DEF TwoPhaseIInv, StackOrder, Is
  <2>3. /\ calls[i].fn = "link_image" => si[calls[i].l].flags = "loaded"
        /\ calls[i].fn = "dlopen" /\ calls[i].at = "open" => si[calls[i].l].flags = "LINKED"
        /\ calls[i].fn = "constructors" => si[calls[i].l].flags = "LINKED" /\ si[calls[i].l].called
        /\ calls[i].fn = "unload" => si[calls[i].l].flags = "LINKED"
    BY <2>1 DEF TwoPhaseIInv, StackFlags, Is, IsLinked
  <2> QED BY <1>5, <1>6, <2>1, <2>2, <2>3
<1>15. FoundIsLinked' /\ Unprotected'
  BY <1>1, <1>8, <1>9 DEF FoundIsLinked, Unprotected, Is
<1>16. LockHeld'
  <2>1. calls' # <<>>
    BY <1>2, <1>3, <1>8 DEF LinkShape
  <2> QED BY <1>1, <1>8, <2>1 DEF TwoPhaseIInv, LockHeld, Is
<1> QED BY <1>7, <1>8, <1>12, <1>13, <1>14, <1>15, <1>16 DEF TwoPhaseIInv

LEMMA LinkedStep == TwoPhaseIInv /\ Linked => TwoPhaseIInv'
<1> SUFFICES ASSUME TwoPhaseIInv, Linked PROVE TwoPhaseIInv'
  OBVIOUS
<1>1. /\ TwoPhaseTypeOK /\ calls # <<>> /\ Inner.fn = "link_image" /\ Inner.d > Entries
      /\ calls' = Outer /\ result' = Inner.l
      /\ UNCHANGED <<owner, held>> /\ needs' = needs /\ recursive' = recursive
  BY DEF TwoPhaseIInv, Linked, In, Keeps
<1>2. /\ Depth \in Nat /\ Depth > 0 /\ Depth \in DOMAIN calls /\ DOMAIN calls = 1 .. Depth
      /\ Inner = calls[Depth] /\ Inner.l \in File /\ Inner.d \in Nat
  BY <1>1, TopIs
<1>3. LinkShape(Depth)
  BY <1>1, <1>2 DEF TwoPhaseIInv, StackShape, FrameShape, Is
<1>4. PICK n \in File : n = Inner.l
  BY <1>2
<1>5. si[n].flags = "loaded"
  BY <1>1, <1>2, <1>4 DEF TwoPhaseIInv, StackFlags, Is
<1>6. /\ si' \in [File -> Soinfo] /\ IsLinked(n)'
      /\ \A l \in File : /\ si'[l].refcount = si[l].refcount /\ si'[l].called = si[l].called
                         /\ si'[l].done = si[l].done /\ (l # n => si'[l] = si[l])
  <2>1. PICK p \in BOOLEAN : si' = [si EXCEPT ![n].flags = "LINKED", ![n].relro = p]
    BY <1>4 DEF Linked
  <2>2. si[n] \in Soinfo /\ si \in [File -> Soinfo]
    BY <1>1, Typed DEF TwoPhaseTypeOK
  <2>3. PICK f \in Soinfo : f = [si[n] EXCEPT !.flags = "LINKED"]
    <3>1. [si[n] EXCEPT !.flags = "LINKED"] \in Soinfo
      BY <2>2 DEF Soinfo
    <3> QED BY <3>1
  <2>4. PICK g \in Soinfo : g = [f EXCEPT !.relro = p]
    <3>1. [f EXCEPT !.relro = p] \in Soinfo
      BY <2>3 DEF Soinfo
    <3> QED BY <3>1
  <2>5. [si EXCEPT ![n].flags = "LINKED", ![n].relro = p] = [si EXCEPT ![n] = [[si[n] EXCEPT !.flags = "LINKED"] EXCEPT !.relro = p]]
    BY <2>2
  <2>6. si' = [si EXCEPT ![n] = g]
    BY <2>1, <2>3, <2>4, <2>5
  <2>7. si' \in [File -> Soinfo] /\ si'[n] = g /\ \A l \in File : l # n => si'[l] = si[l]
    BY <2>2, <2>6
  <2>8. f.flags = "LINKED" /\ f.refcount = si[n].refcount
    BY <2>2, <2>3 DEF Soinfo
  <2>9. f.called = si[n].called /\ f.done = si[n].done
    BY <2>2, <2>3 DEF Soinfo
  <2>10. g.flags = f.flags /\ g.refcount = f.refcount
    BY <2>4 DEF Soinfo
  <2>11. g.called = f.called /\ g.done = f.done
    BY <2>4 DEF Soinfo
  <2> QED BY <2>7, <2>8, <2>9, <2>10, <2>11 DEF IsLinked
<1>7. TwoPhaseTypeOK'
  <2>1. Outer \in Seq(Frame)
    BY <1>1, Popping
  <2> QED BY <1>1, <1>2, <1>6, <2>1 DEF TwoPhaseTypeOK
<1>8. /\ DOMAIN calls' = 1 .. Depth - 1 /\ Depth' = Depth - 1 /\ (calls' = <<>> <=> Depth = 1)
      /\ \A i \in DOMAIN calls' : i \in DOMAIN calls /\ i < Depth /\ calls'[i] = calls[i]
      /\ \A i \in DOMAIN calls : i # Depth => i \in DOMAIN calls' /\ calls'[i] = calls[i]
      /\ NoneOpened /\ StackShape' /\ StackOrder' /\ UnloadsApart'
  BY <1>1, <1>7, Returning
<1>9. \A i \in DOMAIN calls : ~Is(i, "unload")
  BY <1>1, <1>2 DEF TwoPhaseIInv, StackOrder, Is
<1>10. \A l \in File : (IsLinked(l) => IsLinked(l)') /\ (l # n => (IsLinked(l)' <=> IsLinked(l)))
  BY <1>6 DEF IsLinked
<1>11. \A k \in File : \A e \in Needed(k) : Bound(k, e)' => Bound(k, e)
  <2> SUFFICES ASSUME NEW k \in File, NEW e \in Needed(k), Bound(k, e)'
               PROVE  Bound(k, e)
    OBVIOUS
  <2>1. e \in 1 .. Len(needs[k]) /\ Len(needs[k]) \in Nat
    BY <1>1, Typed
  <2>2. CASE k = n
    <3>1. e < calls[Depth].d
      BY <1>1, <1>2, <1>4, <2>1, <2>2 DEF Entries
    <3> QED BY <1>1, <1>2, <1>4, <2>2, <3>1 DEF Bound, Is
  <2>3. CASE k # n
    <3>1. CASE IsLinked(k)'
      BY <1>9, <1>10, <2>3, <3>1 DEF Bound
    <3>2. CASE ~IsLinked(k)'
      <4>1. PICK j \in DOMAIN calls' : calls'[j].fn = "link_image" /\ calls'[j].l = k /\ e < calls'[j].d
        BY <3>2 DEF Bound, Is
      <4> QED BY <1>8, <4>1 DEF Bound, Is
    <3> QED BY <3>1, <3>2
  <2> QED BY <2>2, <2>3
<1>12. RefcountCovers' /\ UnloadsLast' /\ ReferencedLinked'
  <2>1. \A k \in File : si'[k].refcount >= si[k].refcount
    BY <1>1, <1>6, Typed
  <2>2. \A j \in DOMAIN calls' : calls'[j].fn # "unload"
    BY <1>8, <1>9 DEF Is
  <2> QED BY <1>1, <1>7, <1>8, <1>10, <1>11, <2>1, <2>2, CountKept DEF TwoPhaseIInv
<1>13. CalledLinked' /\ CalledOrDone' /\ DoneNeeds' /\ ConstructingNeeds'
  <2>2. \A i \in DOMAIN calls : Is(i, "constructors") \/ Is(i, "unload") => i \in DOMAIN calls' /\ Alike(i)
    BY <1>1, <1>2, <1>8, <1>9 DEF Alike, Is
  <2>3. \A i \in DOMAIN calls' : calls'[i].fn = "constructors" =>
          i \in DOMAIN calls /\ Alike(i) /\ calls'[i].d = calls[i].d
    BY <1>8 DEF Alike
  <2> QED BY <1>1, <1>6, <1>7, <1>10, <2>2, <2>3, CalledKept DEF TwoPhaseIInv
<1>14. StackFlags'
  <2> SUFFICES ASSUME NEW i \in DOMAIN calls'
               PROVE  /\ calls'[i].fn = "link_image" => si'[calls'[i].l].flags = "loaded"
                      /\ calls'[i].fn = "dlopen" /\ calls'[i].at = "open" => si'[calls'[i].l].flags = "LINKED"
                      /\ calls'[i].fn = "constructors" => si'[calls'[i].l].flags = "LINKED" /\ si'[calls'[i].l].called
                      /\ calls'[i].fn = "unload" => si'[calls'[i].l].flags = "LINKED"
    BY DEF StackFlags, Is, IsLinked
  <2>1. calls'[i] = calls[i] /\ calls[i].l \in File /\ i \in DOMAIN calls /\ i < Depth
    BY <1>1, <1>8, Frames
  <2>2. calls[i].fn = "link_image" => calls[i].l # n
    BY <1>2, <1>4, <2>1 DEF TwoPhaseIInv, StackOrder, Is
  <2>3. /\ calls[i].fn = "link_image" => si[calls[i].l].flags = "loaded"
        /\ calls[i].fn = "dlopen" /\ calls[i].at = "open" => si[calls[i].l].flags = "LINKED"
        /\ calls[i].fn = "constructors" => si[calls[i].l].flags = "LINKED" /\ si[calls[i].l].called
        /\ calls[i].fn = "unload" => si[calls[i].l].flags = "LINKED"
    BY <2>1 DEF TwoPhaseIInv, StackFlags, Is, IsLinked
  <2> QED BY <1>5, <1>6, <2>1, <2>2, <2>3
<1>15. FoundIsLinked' /\ Unprotected'
  <2>1. Depth - 1 \in DOMAIN calls /\ Inner' = calls[Depth - 1]
    <3>1. Depth - 1 \in DOMAIN calls'
      BY <1>2, <1>3, <1>8 DEF LinkShape
    <3> QED BY <1>8, <3>1 DEF Inner
  <2>2. Wanted' = n
    BY <1>1, <1>2, <1>3, <1>4, <2>1 DEF Wanted, EntryOf, LinkShape, Is
  <2>3. FoundIsLinked'
    BY <1>1, <1>4, <1>6, <2>2 DEF FoundIsLinked, IsLinked
  <2>4. Unprotected'
    BY <1>8, <1>9 DEF Unprotected, Is
  <2> QED BY <2>3, <2>4
<1>16. LockHeld'
  <2>1. calls' # <<>>
    BY <1>2, <1>3, <1>8 DEF LinkShape
  <2> QED BY <1>1, <1>8, <2>1 DEF TwoPhaseIInv, LockHeld, Is
<1> QED BY <1>7, <1>8, <1>12, <1>13, <1>14, <1>15, <1>16 DEF TwoPhaseIInv

LEMMA ConstructedStep == TwoPhaseIInv /\ Constructed => TwoPhaseIInv'
<1> SUFFICES ASSUME TwoPhaseIInv, Constructed PROVE TwoPhaseIInv'
  OBVIOUS
<1>1. /\ TwoPhaseTypeOK /\ calls # <<>> /\ Inner.fn = "constructors" /\ Inner.at = "body"
      /\ si' = [si EXCEPT ![Inner.l].done = TRUE] /\ calls' = Outer
      /\ UNCHANGED <<result, owner, held>> /\ needs' = needs /\ recursive' = recursive
  BY DEF TwoPhaseIInv, Constructed, In, Keeps
<1>2. /\ Depth \in Nat /\ Depth > 0 /\ Depth \in DOMAIN calls /\ DOMAIN calls = 1 .. Depth
      /\ Inner = calls[Depth] /\ Inner.l \in File /\ Inner.d \in Nat
  BY <1>1, TopIs
<1>3. ConstructShape(Depth)
  BY <1>1, <1>2 DEF TwoPhaseIInv, StackShape, FrameShape, Is
<1>4. PICK n \in File : n = Inner.l
  BY <1>2
<1>5. IsLinked(n)
  BY <1>1, <1>2, <1>4 DEF TwoPhaseIInv, StackFlags, Is
<1>6. /\ si' \in [File -> Soinfo] /\ si'[n].done
      /\ \A l \in File : /\ si'[l].flags = si[l].flags /\ si'[l].refcount = si[l].refcount
                         /\ si'[l].called = si[l].called /\ si'[l].relro = si[l].relro
                         /\ (l # n => si'[l].done = si[l].done)
  <2>1. si[n] \in Soinfo /\ si \in [File -> Soinfo]
    BY <1>1, Typed DEF TwoPhaseTypeOK
  <2>2. PICK g \in Soinfo : g = [si[n] EXCEPT !.done = TRUE]
    <3>1. [si[n] EXCEPT !.done = TRUE] \in Soinfo
      BY <2>1 DEF Soinfo
    <3> QED BY <3>1
  <2>3. si' = [si EXCEPT ![n] = g]
    BY <1>1, <1>4, <2>2
  <2>4. si' \in [File -> Soinfo] /\ si'[n] = g /\ \A l \in File : l # n => si'[l] = si[l]
    BY <2>1, <2>3
  <2>5. g.flags = si[n].flags /\ g.refcount = si[n].refcount
    BY <2>1, <2>2 DEF Soinfo
  <2>6. g.called = si[n].called /\ g.relro = si[n].relro
    BY <2>1, <2>2 DEF Soinfo
  <2>7. g.done
    BY <2>1, <2>2 DEF Soinfo
  <2> QED BY <2>4, <2>5, <2>6, <2>7
<1>7. TwoPhaseTypeOK'
  <2>1. Outer \in Seq(Frame)
    BY <1>1, Popping
  <2> QED BY <1>1, <1>6, <2>1 DEF TwoPhaseTypeOK
<1>8. /\ DOMAIN calls' = 1 .. Depth - 1 /\ Depth' = Depth - 1 /\ (calls' = <<>> <=> Depth = 1)
      /\ \A i \in DOMAIN calls' : i \in DOMAIN calls /\ i < Depth /\ calls'[i] = calls[i]
      /\ \A i \in DOMAIN calls : i # Depth => i \in DOMAIN calls' /\ calls'[i] = calls[i]
      /\ NoneOpened /\ StackShape' /\ StackOrder' /\ UnloadsApart'
  BY <1>1, <1>7, Returning
<1>9. \A i \in DOMAIN calls : ~Is(i, "unload") /\ ~Is(i, "link_image")
  BY <1>1, <1>2 DEF TwoPhaseIInv, StackOrder, Is
<1>10. \A l \in File : IsLinked(l)' <=> IsLinked(l)
  BY <1>6 DEF IsLinked
<1>11. NoneBound
  BY <1>8, <1>9, <1>10 DEF NoneBound, Is
<1>12. RefcountCovers' /\ UnloadsLast' /\ ReferencedLinked'
  <2>1. \A k \in File : si'[k].refcount >= si[k].refcount /\ (IsLinked(k) => IsLinked(k)')
    BY <1>1, <1>6, <1>10, Typed
  <2>2. \A j \in DOMAIN calls' : calls'[j].fn # "unload"
    BY <1>8, <1>9 DEF Is
  <2> QED BY <1>1, <1>7, <1>8, <1>11, <2>1, <2>2, RefsKept DEF TwoPhaseIInv
<1>13. CalledLinked'
  BY <1>5, <1>6, <1>10 DEF TwoPhaseIInv, CalledLinked
<1>14. CalledOrDone'
  <2> SUFFICES ASSUME NEW l \in File, si'[l].called, ~si'[l].done
               PROVE  \E i \in DOMAIN calls' : calls'[i].fn = "constructors" /\ calls'[i].l = l
    BY DEF CalledOrDone, Is
  <2>1. l # n /\ si[l].called /\ ~si[l].done
    BY <1>6
  <2>2. PICK i \in DOMAIN calls : calls[i].fn = "constructors" /\ calls[i].l = l
    BY <2>1 DEF TwoPhaseIInv, CalledOrDone, Is
  <2>3. i # Depth
    BY <1>2, <1>4, <2>1, <2>2
  <2> QED BY <1>8, <2>2, <2>3
<1>15. DoneNeeds'
  <2> SUFFICES ASSUME NEW l \in File, si'[l].done, NEW e \in Needed(l)
               PROVE  si'[needs[l][e]].called
    BY <1>1 DEF DoneNeeds, Needed
  <2>1. needs[l][e] \in File /\ e \in 1 .. Len(needs[l]) /\ Len(needs[l]) \in Nat
    BY <1>1, Typed
  <2>2. CASE l = n
    <3>1. e < calls[Depth].d
      BY <1>1, <1>2, <1>3, <1>4, <2>1, <2>2 DEF ConstructShape
    <3>2. si[needs[l][e]].called
      BY <1>1, <1>2, <1>4, <2>2, <3>1 DEF TwoPhaseIInv, ConstructingNeeds, Is
    <3> QED BY <1>6, <2>1, <3>2
  <2>3. CASE l # n
    <3>1. si[l].done
      BY <1>6, <2>3
    <3>2. si[needs[l][e]].called
      BY <1>9, <3>1 DEF TwoPhaseIInv, DoneNeeds
    <3> QED BY <1>6, <2>1, <3>2
  <2> QED BY <2>2, <2>3
<1>16. ConstructingNeeds'
  <2> SUFFICES ASSUME NEW i \in DOMAIN calls', calls'[i].fn = "constructors",
                      NEW e \in Needed(calls[i].l), e < calls'[i].d
               PROVE  si'[needs[calls[i].l][e]].called
    BY <1>1, <1>8 DEF ConstructingNeeds, Needed, Is
  <2>1. i \in DOMAIN calls /\ calls'[i] = calls[i] /\ calls[i].l \in File /\ needs[calls[i].l][e] \in File
    BY <1>1, <1>8, Frames, Typed
  <2> QED BY <1>6, <2>1 DEF TwoPhaseIInv, ConstructingNeeds, Is
<1>17. StackFlags'
  <2> SUFFICES ASSUME NEW i \in DOMAIN calls'
               PROVE  /\ calls'[i].fn = "link_image" => si'[calls'[i].l].flags = "loaded"
                      /\ calls'[i].fn = "dlopen" /\ calls'[i].at = "open" => si'[calls'[i].l].flags = "LINKED"
                      /\ calls'[i].fn = "constructors" => si'[calls'[i].l].flags = "LINKED" /\ si'[calls'[i].l].called
                      /\ calls'[i].fn = "unload" => si'[calls'[i].l].flags = "LINKED"
    BY DEF StackFlags, Is, IsLinked
  <2>1. calls'[i] = calls[i] /\ calls[i].l \in File /\ i \in DOMAIN calls
    BY <1>1, <1>8, Frames
  <2> QED BY <1>6, <2>1 DEF TwoPhaseIInv, StackFlags, Is, IsLinked
<1>18. FoundIsLinked' /\ Unprotected'
  <2>1. Depth - 1 \in DOMAIN calls /\ Inner' = calls[Depth - 1]
    <3>1. Depth - 1 \in DOMAIN calls'
      BY <1>2, <1>3, <1>8 DEF ConstructShape
    <3> QED BY <1>8, <3>1 DEF Inner
  <2>2. FoundIsLinked'
    BY <1>3, <2>1 DEF FoundIsLinked, ConstructShape
  <2>3. Unprotected'
    BY <1>8, <1>9 DEF Unprotected, Is
  <2> QED BY <2>2, <2>3
<1>19. LockHeld'
  <2>1. calls' # <<>>
    BY <1>2, <1>3, <1>8 DEF ConstructShape
  <2> QED BY <1>1, <1>8, <2>1 DEF TwoPhaseIInv, LockHeld, Is
<1> QED BY <1>7, <1>8, <1>12, <1>13, <1>14, <1>15, <1>16, <1>17, <1>18, <1>19 DEF TwoPhaseIInv

\* To the program, which has a handle more.
LEMMA ReturnsToProgram ==
  ASSUME TwoPhaseIInv, OpenReturns, Depth = 1
  PROVE  /\ calls' = <<>> /\ owner' = NoCaller /\ TwoPhaseTypeOK'
         /\ held'[Inner.l] = held[Inner.l] + 1 /\ \A l \in File : l # Inner.l => held'[l] = held[l]
<1>1. /\ TwoPhaseTypeOK /\ calls # <<>> /\ Inner.fn = "dlopen" /\ Inner.at = "open"
      /\ si' = [si EXCEPT ![Inner.l].refcount = si[Inner.l].refcount + 1]
      /\ UNCHANGED result /\ needs' = needs /\ recursive' = recursive
  BY DEF TwoPhaseIInv, OpenReturns, In, Keeps
<1>2. Depth \in DOMAIN calls /\ Inner = calls[Depth] /\ Inner.l \in File
  BY <1>1, TopIs
<1>3. Outer = <<>>
  BY <1>1, Popping
<1>4. calls' = <<>> /\ owner' = NoCaller /\ held' = [held EXCEPT ![Inner.l] = held[Inner.l] + 1]
  BY <1>3 DEF OpenReturns, Returned
<1>5. held[Inner.l] < MaxHeld
  BY <1>1, <1>2 DEF TwoPhaseIInv, LockHeld, Is
<1>6. /\ held' \in [File -> 0 .. MaxHeld]
      /\ held'[Inner.l] = held[Inner.l] + 1 /\ \A l \in File : l # Inner.l => held'[l] = held[l]
  <2>1. held \in [File -> 0 .. MaxHeld] /\ MaxHeld \in Nat
    BY <1>1, TwoPhaseAssumption DEF TwoPhaseTypeOK
  <2>2. held[Inner.l] + 1 \in 0 .. MaxHeld
    BY <1>2, <1>5, <2>1
  <2> QED BY <1>2, <1>4, <2>1, <2>2
<1>7. si' \in [File -> Soinfo]
  <2>1. si[Inner.l].refcount + 1 \in Nat
    BY <1>1, <1>2, Typed
  <2> QED BY <1>1, <1>2, <2>1, Recounted
<1>8. <<>> \in Seq(Frame)
  OBVIOUS
<1> QED BY <1>1, <1>4, <1>6, <1>7, <1>8 DEF TwoPhaseTypeOK

\* To the constructor that called.
LEMMA ReturnsToConstructor ==
  ASSUME TwoPhaseIInv, OpenReturns, Depth # 1
  PROVE  /\ Depth > 1 /\ Depth - 1 \in DOMAIN calls /\ owner' = owner /\ held' = held /\ TwoPhaseTypeOK'
         /\ calls' # <<>> /\ DOMAIN calls' = 1 .. Depth - 1 /\ Depth' = Depth - 1 /\ Inner' = calls'[Depth - 1]
         /\ \A i \in 1 .. Depth - 2 : calls'[i] = calls[i]
         /\ calls[Depth - 1].fn = "constructors" /\ calls[Depth - 1].at = "body" /\ calls[Depth - 1].opened = NIL
         /\ calls'[Depth - 1].fn = "constructors" /\ calls'[Depth - 1].at = "body"
         /\ calls'[Depth - 1].l = calls[Depth - 1].l /\ calls'[Depth - 1].d = calls[Depth - 1].d
         /\ calls'[Depth - 1].opened = Inner.l
<1>1. /\ TwoPhaseTypeOK /\ calls # <<>> /\ Inner.fn = "dlopen" /\ Inner.at = "open"
      /\ si' = [si EXCEPT ![Inner.l].refcount = si[Inner.l].refcount + 1]
      /\ UNCHANGED result /\ needs' = needs /\ recursive' = recursive
  BY DEF TwoPhaseIInv, OpenReturns, In, Keeps
<1>2. /\ Depth \in Nat /\ Depth > 1 /\ Depth \in DOMAIN calls /\ DOMAIN calls = 1 .. Depth
      /\ Inner = calls[Depth] /\ Inner.l \in File
  BY <1>1, TopIs
<1>3. Outer \in Seq(Frame) /\ Len(Outer) = Depth - 1 /\ Outer # <<>> /\ \A i \in 1 .. Depth - 1 : Outer[i] = calls[i]
  BY <1>1, <1>2, Popping
<1>4. /\ calls' = [Outer EXCEPT ![Depth - 1].opened = Inner.l] /\ held' = held
      /\ owner' = (IF calls' = <<>> THEN NoCaller ELSE owner)
  BY <1>3 DEF OpenReturns, Returned
<1>5. /\ calls[Depth - 1].fn = "constructors" /\ calls[Depth - 1].at = "body" /\ calls[Depth - 1].opened = NIL
  BY <1>1, <1>2 DEF TwoPhaseIInv, StackShape, FrameShape, OpenShape, Is
<1>6. Depth - 1 \in DOMAIN calls /\ calls[Depth - 1] \in Frame /\ Outer[Depth - 1] = calls[Depth - 1]
  <2>1. Depth - 1 \in 1 .. Depth - 1
    BY <1>2
  <2> QED BY <1>1, <1>2, <1>3, <2>1, Frames
<1>7. PICK g \in Frame : g = [calls[Depth - 1] EXCEPT !.opened = Inner.l]
  <2>1. [calls[Depth - 1] EXCEPT !.opened = Inner.l] \in Frame
    BY <1>2, <1>6 DEF Frame
  <2> QED BY <2>1
<1>8. /\ g.fn = "constructors" /\ g.at = "body" /\ g.l = calls[Depth - 1].l /\ g.d = calls[Depth - 1].d
      /\ g.opened = Inner.l
  BY <1>5, <1>6, <1>7 DEF Frame
<1>9. /\ calls' \in Seq(Frame) /\ calls' # <<>> /\ Len(calls') = Depth - 1 /\ DOMAIN calls' = 1 .. Depth - 1
      /\ \A i \in 1 .. (Depth - 1) - 1 : calls'[i] = Outer[i]
      /\ calls'[Depth - 1] = g
  <2>1. calls' = [Outer EXCEPT ![Len(Outer)] = g]
    BY <1>3, <1>4, <1>6, <1>7
  <2>2. PICK r : r = [Outer EXCEPT ![Len(Outer)] = g]
    OBVIOUS
  <2>3. /\ r \in Seq(Frame) /\ r # <<>> /\ Len(r) = Depth - 1 /\ DOMAIN r = 1 .. Depth - 1
        /\ \A i \in 1 .. (Depth - 1) - 1 : r[i] = Outer[i]
        /\ r[Depth - 1] = g
    BY <1>3, <2>2, Exchanging
  <2> QED BY <2>1, <2>2, <2>3
<1>10. \A i \in 1 .. Depth - 2 : calls'[i] = calls[i]
  BY <1>2, <1>3, <1>9
<1>11. si' \in [File -> Soinfo]
  <2>1. si[Inner.l].refcount + 1 \in Nat
    BY <1>1, <1>2, Typed
  <2> QED BY <1>1, <1>2, <2>1, Recounted
<1>12. TwoPhaseTypeOK'
  BY <1>1, <1>4, <1>9, <1>11 DEF TwoPhaseTypeOK
<1> QED BY <1>2, <1>4, <1>5, <1>6, <1>8, <1>9, <1>10, <1>12 DEF Depth, Inner

LEMMA OpenReturnsStep == TwoPhaseIInv /\ OpenReturns => TwoPhaseIInv'
<1> SUFFICES ASSUME TwoPhaseIInv, OpenReturns PROVE TwoPhaseIInv'
  OBVIOUS
<1>1. /\ TwoPhaseTypeOK /\ calls # <<>> /\ Inner.fn = "dlopen" /\ Inner.at = "open"
      /\ si' = [si EXCEPT ![Inner.l].refcount = si[Inner.l].refcount + 1]
      /\ UNCHANGED result /\ needs' = needs /\ recursive' = recursive
  BY DEF TwoPhaseIInv, OpenReturns, In, Keeps
<1>2. /\ Depth \in Nat /\ Depth > 0 /\ Depth \in DOMAIN calls /\ DOMAIN calls = 1 .. Depth
      /\ Inner = calls[Depth] /\ Inner.l \in File
  BY <1>1, TopIs
<1>3. PICK n \in File : n = Inner.l
  BY <1>2
<1>4. IsLinked(n)
  BY <1>1, <1>2, <1>3 DEF TwoPhaseIInv, StackFlags, Is
<1>5. /\ si'[n].refcount = si[n].refcount + 1
      /\ \A l \in File : /\ si'[l].flags = si[l].flags /\ si'[l].called = si[l].called
                         /\ si'[l].done = si[l].done /\ si'[l].relro = si[l].relro
                         /\ (l # n => si'[l].refcount = si[l].refcount)
  <2>1. si' = [si EXCEPT ![n].refcount = si[n].refcount + 1] /\ si[n].refcount + 1 \in Nat
    BY <1>1, <1>3, Typed
  <2> QED BY <1>1, <2>1, Recounted
<1>6. TwoPhaseTypeOK'
  BY ReturnsToProgram, ReturnsToConstructor
<1>7. /\ \A i \in DOMAIN calls' : /\ i \in DOMAIN calls /\ i < Depth /\ Alike(i) /\ calls'[i].d = calls[i].d
                                 /\ calls'[i].at = calls[i].at
                                 /\ (i # Depth - 1 => calls'[i] = calls[i])
      /\ \A i \in DOMAIN calls : i # Depth => i \in DOMAIN calls'
      /\ Depth' = Depth - 1 /\ Len(calls') = Depth - 1 /\ DOMAIN calls' = 1 .. Depth - 1
  <2>1. CASE Depth = 1
    <3>1. calls' = <<>>
      BY <2>1, ReturnsToProgram
    <3> QED BY <1>2, <2>1, <3>1 DEF Depth
  <2>2. CASE Depth # 1
    <3>1. /\ Depth > 1 /\ DOMAIN calls' = 1 .. Depth - 1 /\ Depth' = Depth - 1
          /\ \A i \in 1 .. Depth - 2 : calls'[i] = calls[i]
          /\ calls'[Depth - 1].fn = calls[Depth - 1].fn /\ calls'[Depth - 1].at = calls[Depth - 1].at
          /\ calls'[Depth - 1].l = calls[Depth - 1].l /\ calls'[Depth - 1].d = calls[Depth - 1].d
      BY <2>2, ReturnsToConstructor
    <3>2. ASSUME NEW i \in DOMAIN calls'
          PROVE  /\ i \in DOMAIN calls /\ i < Depth /\ Alike(i) /\ calls'[i].d = calls[i].d
                 /\ calls'[i].at = calls[i].at
                 /\ (i # Depth - 1 => calls'[i] = calls[i])
      <4>1. i \in DOMAIN calls /\ i < Depth /\ (i # Depth - 1 => i \in 1 .. Depth - 2)
        BY <1>2, <3>1
      <4>2. CASE i = Depth - 1
        BY <3>1, <4>1, <4>2 DEF Alike
      <4>3. CASE i # Depth - 1
        BY <3>1, <4>1, <4>3 DEF Alike
      <4> QED BY <4>2, <4>3
    <3>3. \A i \in DOMAIN calls : i # Depth => i \in DOMAIN calls'
      BY <1>2, <3>1
    <3> QED BY <3>1, <3>2, <3>3 DEF Depth
  <2> QED BY <2>1, <2>2
<1>8. \A i \in DOMAIN calls : ~Is(i, "unload") /\ ~Is(i, "link_image")
  BY <1>1, <1>2 DEF TwoPhaseIInv, StackOrder, Is
<1>9. \A l \in File : IsLinked(l)' <=> IsLinked(l)
  BY <1>5 DEF IsLinked
<1>10. NoneBound
  BY <1>7, <1>8, <1>9 DEF NoneBound, Is, Alike
<1>11. \A l \in File : /\ Refs(l)' \in Nat /\ Refs(l) \in Nat
                      /\ Refs(l)' <= Refs(l) + (IF l = n THEN 1 ELSE 0)
  <2> SUFFICES ASSUME NEW l \in File
               PROVE  Refs(l)' \in Nat /\ Refs(l) \in Nat /\ Refs(l)' <= Refs(l) + (IF l = n THEN 1 ELSE 0)
    OBVIOUS
  <2>1. Refs(l) \in Nat /\ Refs(l)' \in Nat
    BY <1>1, <1>6, RefsFinite, RefsThen
  <2>2. Cardinality(EntriesOn(l)') \in Nat /\ Cardinality(EntriesOn(l)') <= Cardinality(EntriesOn(l))
    BY <1>1, <1>6, <1>10, BoundBefore, FewerEntries
  <2>3. /\ held[l] \in Nat /\ held'[l] \in Nat
        /\ Cardinality(EntriesOn(l)) \in Nat /\ Cardinality(OpenersOf(l)) \in Nat
    BY <1>1, <1>6, Typed, TypedThen, RefsFinite
  <2>4. l # NIL
    BY TwoPhaseAssumption
  <2>5. CASE Depth = 1
    <3>1. calls' = <<>> /\ held'[n] = held[n] + 1 /\ \A k \in File : k # n => held'[k] = held[k]
      BY <1>3, <2>5, ReturnsToProgram
    <3>2. NoneOpened
      BY <3>1 DEF NoneOpened
    <3>3. Cardinality(OpenersOf(l)') \in Nat /\ Cardinality(OpenersOf(l)') <= Cardinality(OpenersOf(l))
      BY <1>1, <1>6, <3>2, FewerOpeners
    <3>4. held'[l] <= held[l] + (IF l = n THEN 1 ELSE 0)
      BY <2>3, <3>1
    <3> QED BY <2>1, <2>2, <2>3, <3>3, <3>4 DEF Refs
  <2>6. CASE Depth # 1
    <3>1. held' = held /\ Depth > 1 /\ calls'[Depth - 1].opened = n
      BY <1>3, <2>6, ReturnsToConstructor
    <3>2. \A i \in OpenersOf(l)' : i \in OpenersOf(l) \/ (i = Depth - 1 /\ l = n)
      BY <1>7, <3>1 DEF OpenersOf
    <3>3. IsFiniteSet(OpenersOf(l))
      BY <1>1, RefsFinite
    <3>4. Cardinality(OpenersOf(l)') \in Nat /\ Cardinality(OpenersOf(l)') <= Cardinality(OpenersOf(l)) + (IF l = n THEN 1 ELSE 0)
      <4>1. CASE l = n
        <5>1. OpenersOf(l)' \in SUBSET (OpenersOf(l) \cup {Depth - 1})
          BY <3>2
        <5>2. /\ IsFiniteSet(OpenersOf(l) \cup {Depth - 1})
              /\ Cardinality(OpenersOf(l) \cup {Depth - 1}) =
                   IF Depth - 1 \in OpenersOf(l) THEN Cardinality(OpenersOf(l)) ELSE Cardinality(OpenersOf(l)) + 1
          BY <3>3, FS_AddElement
        <5>3. /\ Cardinality(OpenersOf(l)') \in Nat
              /\ Cardinality(OpenersOf(l)') <= Cardinality(OpenersOf(l) \cup {Depth - 1})
          BY <5>1, <5>2, FS_Subset, FS_CardinalityType
        <5> QED BY <2>3, <4>1, <5>2, <5>3
      <4>2. CASE l # n
        <5>1. OpenersOf(l)' \in SUBSET OpenersOf(l)
          BY <3>2, <4>2
        <5>2. Cardinality(OpenersOf(l)') \in Nat /\ Cardinality(OpenersOf(l)') <= Cardinality(OpenersOf(l))
          BY <3>3, <5>1, FS_Subset, FS_CardinalityType
        <5> QED BY <2>3, <4>2, <5>2
      <4> QED BY <4>1, <4>2
    <3>5. held'[l] = held[l]
      BY <3>1
    <3> QED BY <2>1, <2>2, <2>3, <3>4, <3>5 DEF Refs
  <2> QED BY <2>5, <2>6
<1>12. RefcountCovers' /\ ReferencedLinked' /\ UnloadsLast'
  <2>1. \A l \in File : Covering(l)
    <3> SUFFICES ASSUME NEW l \in File PROVE Covering(l)
      OBVIOUS
    <3>1. Refs(l)' \in Nat /\ Refs(l) \in Nat /\ si[l].refcount \in Nat /\ (Refs(l) > 0 => IsLinked(l)')
      BY <1>1, <1>9, <1>11, Typed DEF TwoPhaseIInv, ReferencedLinked
    <3>2. CASE l = n
      <4>1. IsLinked(l)' /\ si'[l].refcount = si[l].refcount + 1 /\ Refs(l)' <= Refs(l) + 1
        BY <1>4, <1>5, <1>9, <1>11, <3>2
      <4> QED BY <3>1, <4>1 DEF Covering
    <3>3. CASE l # n
      <4>1. si'[l].refcount = si[l].refcount /\ Refs(l)' <= Refs(l)
        BY <1>5, <1>11, <3>1, <3>3
      <4> QED BY <3>1, <4>1 DEF Covering
    <3> QED BY <3>2, <3>3
  <2>2. RefcountCovers' /\ ReferencedLinked'
    BY <1>1, <1>6, <1>11, <2>1, Covered DEF TwoPhaseIInv
  <2>3. UnloadsLast'
    BY <1>7, <1>8 DEF UnloadsLast, Is, Alike
  <2> QED BY <2>2, <2>3
<1>13. StackOrder'
  <2>1. Keeping
    <3>1. Len(calls) = Depth
      BY DEF Depth
    <3> QED BY <1>2, <1>7, <3>1 DEF Keeping
  <2> QED BY <1>1, <1>6, <2>1, OrderKept DEF TwoPhaseIInv
<1>14. UnloadsApart'
  <2>1. \A i \in DOMAIN calls', l \in File : UnderWay(i, l)' => UnderWay(i, l)
    BY <1>1, <1>7, ClosureKept DEF UnderWay, Is, Alike
  <2>2. \A j \in DOMAIN calls' : calls'[j].l \in File /\ (calls'[j].opened # NIL => calls'[j].opened \in File)
    BY <1>6, TypedThen DEF Frame
  <2> SUFFICES ASSUME NEW i \in DOMAIN calls', NEW j \in DOMAIN calls'
               PROVE  /\ i < j /\ Is(j, "unload")' => ~UnderWay(i, calls[j].l)'
                      /\ i < j /\ Is(j, "dlopen")' /\ calls'[j - 1].l \in Balanced => ~UnderWay(i, calls[j].l)'
                      /\ i <= j /\ calls'[j].opened # NIL /\ calls'[j].l \in Balanced => ~UnderWay(i, calls[j].opened)'
    BY DEF UnloadsApart
  <2>3. /\ i \in DOMAIN calls /\ j \in DOMAIN calls /\ calls'[j].l = calls[j].l /\ ~Is(j, "unload")'
        /\ (Is(j, "dlopen")' <=> Is(j, "dlopen")) /\ i < Depth /\ j < Depth
    BY <1>7, <1>8 DEF Alike, Is
  <2>4. i < j => calls'[j - 1].l = calls[j - 1].l
    <3>1. i < j => j - 1 \in DOMAIN calls'
      BY <1>2, <1>7
    <3> QED BY <1>7, <3>1 DEF Alike
  <2>5. i < j /\ Is(j, "dlopen")' /\ calls'[j - 1].l \in Balanced => ~UnderWay(i, calls[j].l)'
    BY <2>1, <2>2, <2>3, <2>4 DEF TwoPhaseIInv, UnloadsApart
  <2>6. ASSUME i <= j, calls'[j].opened # NIL, calls'[j].l \in Balanced
        PROVE  ~UnderWay(i, calls[j].opened)'
    <3>1. CASE j # Depth - 1
      <4>1. calls'[j] = calls[j]
        BY <1>7, <3>1
      <4> QED BY <2>1, <2>2, <2>3, <2>6, <4>1 DEF TwoPhaseIInv, UnloadsApart
    <3>2. CASE j = Depth - 1
      <4>1. Depth # 1
        BY <1>2, <1>7, <3>2
      <4>2. calls'[j].opened = calls[Depth].l /\ Is(Depth, "dlopen") /\ calls[Depth - 1].l \in Balanced
        BY <1>1, <1>2, <2>3, <2>6, <3>2, <4>1, ReturnsToConstructor DEF Is
      <4>3. ~UnderWay(i, calls[Depth].l)
        BY <1>2, <2>3, <4>2 DEF TwoPhaseIInv, UnloadsApart
      <4>4. ~UnderWay(i, n)' /\ n = calls[Depth].l
        BY <1>2, <1>3, <2>1, <4>3
      <4>5. calls'[j].opened = n
        BY <4>2, <4>4
      <4> QED BY <4>4, <4>5 DEF UnderWay
    <3> QED BY <3>1, <3>2
  <2> QED BY <2>3, <2>5, <2>6
<1>15. CalledLinked' /\ CalledOrDone' /\ DoneNeeds' /\ ConstructingNeeds'
  <2>1. \A k \in File : si'[k].called = si[k].called /\ si'[k].done = si[k].done /\ (IsLinked(k) => IsLinked(k)')
    BY <1>5, <1>9
  <2>2. \A i \in DOMAIN calls : Is(i, "constructors") \/ Is(i, "unload") => i \in DOMAIN calls' /\ Alike(i)
    BY <1>1, <1>2, <1>7 DEF Is
  <2>3. \A i \in DOMAIN calls' : calls'[i].fn = "constructors" =>
          i \in DOMAIN calls /\ Alike(i) /\ calls'[i].d = calls[i].d
    BY <1>7
  <2> QED BY <1>1, <1>6, <2>1, <2>2, <2>3, CalledKept DEF TwoPhaseIInv
<1>16. StackShape'
  <2> SUFFICES ASSUME NEW i \in DOMAIN calls' PROVE FrameShape(i)'
    BY DEF StackShape
  <2>1. i \in Nat /\ i \in DOMAIN calls /\ FrameShape(i)
    BY <1>2, <1>7 DEF TwoPhaseIInv, StackShape
  <2>2. i > 1 => i - 1 \in DOMAIN calls' /\ i - 1 # Depth - 1 /\ calls'[i - 1] = calls[i - 1]
    <3>1. i > 1 => i - 1 \in DOMAIN calls' /\ i - 1 # Depth - 1
      BY <1>2, <1>7
    <3> QED BY <1>7, <3>1
  <2>3. CASE i # Depth - 1
    <3>1. calls'[i] = calls[i]
      BY <1>7, <2>3
    <3> QED BY <1>1, <2>1, <2>2, <3>1, ShapeKept
  <2>4. CASE i = Depth - 1
    <3>1. /\ calls'[i].fn = "constructors" /\ calls[i].fn = "constructors" /\ calls'[i].at = "body" /\ calls[i].at = "body"
          /\ calls'[i].l = calls[i].l /\ calls'[i].d = calls[i].d
      <4>1. Depth # 1
        BY <1>2, <1>7, <2>4
      <4> QED BY <2>4, <4>1, ReturnsToConstructor
    <3> QED BY <1>1, <2>1, <2>2, <3>1 DEF FrameShape, ConstructShape, Is
  <2> QED BY <2>3, <2>4
<1>17. StackFlags'
  <2> SUFFICES ASSUME NEW i \in DOMAIN calls'
               PROVE  /\ calls'[i].fn = "link_image" => si'[calls'[i].l].flags = "loaded"
                      /\ calls'[i].fn = "dlopen" /\ calls'[i].at = "open" => si'[calls'[i].l].flags = "LINKED"
                      /\ calls'[i].fn = "constructors" => si'[calls'[i].l].flags = "LINKED" /\ si'[calls'[i].l].called
                      /\ calls'[i].fn = "unload" => si'[calls'[i].l].flags = "LINKED"
    BY DEF StackFlags, Is, IsLinked
  <2>1. /\ calls'[i].fn = calls[i].fn /\ calls'[i].l = calls[i].l /\ calls[i].l \in File /\ i \in DOMAIN calls
        /\ calls'[i].at = calls[i].at
    BY <1>1, <1>7, Frames DEF Alike
  <2> QED BY <1>5, <2>1 DEF TwoPhaseIInv, StackFlags, Is, IsLinked
<1>18. FoundIsLinked'
  <2>1. CASE Depth = 1
    BY <2>1, ReturnsToProgram DEF FoundIsLinked
  <2>2. CASE Depth # 1
    BY <2>2, ReturnsToConstructor DEF FoundIsLinked
  <2> QED BY <2>1, <2>2
<1>19. Unprotected'
  BY <1>7, <1>8 DEF Unprotected, Is, Alike
<1>20. LockHeld'
  <2>1. CASE Depth = 1
    BY <2>1, ReturnsToProgram DEF LockHeld
  <2>2. CASE Depth # 1
    <3>1. owner' = owner /\ held' = held /\ calls' # <<>>
      BY <2>2, ReturnsToConstructor
    <3> QED BY <1>1, <1>7, <3>1 DEF TwoPhaseIInv, LockHeld, Is, Alike
  <2> QED BY <2>1, <2>2
<1> QED BY <1>6, <1>12, <1>13, <1>14, <1>15, <1>16, <1>17, <1>18, <1>19, <1>20 DEF TwoPhaseIInv

LEMMA UnloadedStep == TwoPhaseIInv /\ Unloaded => TwoPhaseIInv'
<1> SUFFICES ASSUME TwoPhaseIInv, Unloaded PROVE TwoPhaseIInv'
  OBVIOUS
<1>1. /\ TwoPhaseTypeOK /\ calls # <<>> /\ Inner.fn = "unload" /\ Inner.at = "loop"
      /\ si' = [si EXCEPT ![Inner.l] = Absent]
      /\ calls' = Outer /\ owner' = (IF Outer = <<>> THEN NoCaller ELSE owner)
      /\ UNCHANGED <<result, held>> /\ needs' = needs /\ recursive' = recursive
  BY DEF TwoPhaseIInv, Unloaded, In, Returned, Keeps
<1>2. /\ Depth \in Nat /\ Depth > 0 /\ Depth \in DOMAIN calls /\ DOMAIN calls = 1 .. Depth
      /\ Inner = calls[Depth] /\ Inner.l \in File
  BY <1>1, TopIs
<1>3. UnloadShape(Depth)
  BY <1>1, <1>2 DEF TwoPhaseIInv, StackShape, FrameShape, Is
<1>4. PICK n \in File : n = Inner.l
  BY <1>2
<1>5. Refs(n) = 0
  BY <1>1, <1>2, <1>4 DEF TwoPhaseIInv, UnloadsLast, Is
<1>6. /\ si' \in [File -> Soinfo] /\ si'[n] = Absent /\ \A l \in File : l # n => si'[l] = si[l]
  <2>1. Absent \in Soinfo
    BY DEF Absent, Soinfo
  <2>2. si' = [si EXCEPT ![n] = Absent] /\ si \in [File -> Soinfo]
    BY <1>1, <1>4 DEF TwoPhaseTypeOK
  <2> QED BY <2>1, <2>2
<1>7. ~IsLinked(n)' /\ ~si'[n].called /\ ~si'[n].done /\ \A l \in File : l # n => (IsLinked(l)' <=> IsLinked(l))
  <2>1. ~IsLinked(n)'
    BY <1>6 DEF Absent, IsLinked
  <2>2. ~si'[n].called /\ ~si'[n].done
    BY <1>6 DEF Absent
  <2>3. \A l \in File : l # n => (IsLinked(l)' <=> IsLinked(l))
    BY <1>6 DEF IsLinked
  <2> QED BY <2>1, <2>2, <2>3
<1>8. TwoPhaseTypeOK'
  <2>1. Outer \in Seq(Frame)
    BY <1>1, Popping
  <2> QED BY <1>1, <1>6, <2>1 DEF TwoPhaseTypeOK
<1>9. /\ DOMAIN calls' = 1 .. Depth - 1 /\ Depth' = Depth - 1 /\ (calls' = <<>> <=> Depth = 1)
      /\ \A i \in DOMAIN calls' : i \in DOMAIN calls /\ i < Depth /\ calls'[i] = calls[i]
      /\ \A i \in DOMAIN calls : i # Depth => i \in DOMAIN calls' /\ calls'[i] = calls[i]
      /\ NoneOpened /\ StackShape' /\ StackOrder' /\ UnloadsApart'
  BY <1>1, <1>8, Returning
<1>10. \A i \in DOMAIN calls : ~Is(i, "link_image")
  BY <1>1, <1>2 DEF TwoPhaseIInv, StackOrder, Is
<1>11. \A i \in DOMAIN calls' : calls[i].l \in File /\ calls[i].l # n
  <2> SUFFICES ASSUME NEW i \in DOMAIN calls'
               PROVE  calls[i].l \in File /\ calls[i].l # n
    OBVIOUS
  <2>1. i \in DOMAIN calls /\ i < Depth /\ calls[i].l \in File
    BY <1>1, <1>9, Frames
  <2>2. CASE Is(i, "unload")
    BY <1>2, <1>4, <2>1, <2>2 DEF TwoPhaseIInv, StackOrder
  <2>3. CASE ~Is(i, "unload")
    <3>1. Is(Depth, "unload") /\ calls[Depth].l = n
      BY <1>1, <1>2, <1>4 DEF Is
    <3>2. calls[i].l \notin Closure(n)
      BY <1>2, <2>1, <2>3, <3>1 DEF TwoPhaseIInv, UnloadsApart, UnderWay
    <3> QED BY <2>1, <3>2, ClosureSelf
  <2> QED BY <2>2, <2>3
<1>12. \A k \in File : \A e \in Needed(k) : Bound(k, e)' => Bound(k, e)
  <2> SUFFICES ASSUME NEW k \in File, NEW e \in Needed(k), Bound(k, e)'
               PROVE  Bound(k, e)
    OBVIOUS
  <2>1. \A j \in DOMAIN calls' : ~(calls'[j].fn = "link_image")
    BY <1>9, <1>10 DEF Is
  <2>2. /\ IsLinked(k)'
        /\ \A j \in DOMAIN calls' : calls'[j].fn = "unload" /\ calls'[j].l = k => calls'[j].d <= e
    BY <2>1 DEF Bound, Is
  <2>3. k # n /\ IsLinked(k)
    BY <1>7, <2>2
  <2>4. ASSUME NEW j \in DOMAIN calls, Is(j, "unload"), calls[j].l = k
        PROVE  calls[j].d <= e
    <3>1. j # Depth
      BY <1>2, <1>4, <2>3, <2>4
    <3> QED BY <1>9, <2>2, <2>4, <3>1 DEF Is
  <2> QED BY <2>3, <2>4 DEF Bound
<1>13. \A k \in File : \A e \in Needed(k) : Bound(k, e) => needs[k][e] # n
  <2> SUFFICES ASSUME NEW k \in File, NEW e \in Needed(k), Bound(k, e), needs[k][e] = n
               PROVE  FALSE
    OBVIOUS
  <2>1. <<k, e>> \in EntriesOn(n)
    BY PairEntries DEF EntriesOn, AllEntries
  <2>2. Cardinality(EntriesOn(n)) > 0
    BY <1>1, <2>1, RefsFinite, FS_EmptySet
  <2>3. held[n] \in Nat /\ Cardinality(EntriesOn(n)) \in Nat /\ Cardinality(OpenersOf(n)) \in Nat
    BY <1>1, RefsFinite, Typed
  <2> QED BY <1>5, <2>2, <2>3 DEF Refs
<1>14. RefcountCovers' /\ UnloadsLast' /\ ReferencedLinked'
  <2>1. \A k \in File : Refs(k) = 0 \/ (si'[k].refcount >= si[k].refcount /\ (IsLinked(k) => IsLinked(k)'))
    <3>1. \A k \in File : si[k].refcount \in Nat
      BY <1>1, Typed
    <3> QED BY <1>5, <1>6, <1>7, <3>1
  <2>2. \A j \in DOMAIN calls' : j \in DOMAIN calls /\ Alike(j) /\ si'[calls[j].l].refcount = si[calls[j].l].refcount
    BY <1>6, <1>9, <1>11 DEF Alike
  <2> QED BY <1>1, <1>8, <1>9, <1>12, <2>1, <2>2, CountKept DEF TwoPhaseIInv
<1>15. CalledLinked'
  BY <1>6, <1>7 DEF TwoPhaseIInv, CalledLinked
<1>16. CalledOrDone'
  <2> SUFFICES ASSUME NEW l \in File, si'[l].called, ~si'[l].done
               PROVE  \E i \in DOMAIN calls' : calls'[i].fn = "constructors" /\ calls'[i].l = l
    BY DEF CalledOrDone, Is
  <2>1. si[l].called /\ ~si[l].done
    BY <1>6, <1>7
  <2>2. PICK i \in DOMAIN calls : calls[i].fn = "constructors" /\ calls[i].l = l
    BY <2>1 DEF TwoPhaseIInv, CalledOrDone, Is
  <2>3. i # Depth
    BY <1>1, <1>2, <2>2
  <2> QED BY <1>9, <2>2, <2>3
<1>17. DoneNeeds'
  <2> SUFFICES ASSUME NEW l \in File, si'[l].done, \A j \in DOMAIN calls' : Is(j, "unload")' => calls'[j].l # l,
                      NEW e \in Needed(l)
               PROVE  si'[needs[l][e]].called
    BY <1>1 DEF DoneNeeds, Needed
  <2>1. needs[l][e] \in File
    BY <1>1, Typed
  <2>2. l # n /\ si[l].done
    BY <1>6, <1>7
  <2>3. \A j \in DOMAIN calls : Is(j, "unload") => calls[j].l # l
    BY <1>2, <1>4, <1>9, <2>2 DEF Is
  <2>4. si[needs[l][e]].called
    BY <2>2, <2>3 DEF TwoPhaseIInv, DoneNeeds
  <2>5. IsLinked(l)
    BY <2>2 DEF TwoPhaseIInv, CalledLinked
  <2>6. Bound(l, e)
    BY <2>3, <2>5 DEF Bound
  <2> QED BY <1>6, <1>13, <2>1, <2>4, <2>6
<1>18. ConstructingNeeds'
  <2> SUFFICES ASSUME NEW i \in DOMAIN calls', calls'[i].fn = "constructors",
                      NEW e \in Needed(calls[i].l), e < calls'[i].d
               PROVE  si'[needs[calls[i].l][e]].called
    BY <1>1, <1>9 DEF ConstructingNeeds, Needed, Is
  <2>1. i \in DOMAIN calls /\ calls'[i] = calls[i] /\ calls[i].l \in File /\ Is(i, "constructors")
    BY <1>9, <1>11 DEF Is
  <2>2. PICK k \in File : k = calls[i].l
    BY <2>1
  <2>3. si[needs[k][e]].called /\ needs[k][e] \in File /\ IsLinked(k)
    BY <1>1, <2>1, <2>2, Typed DEF TwoPhaseIInv, ConstructingNeeds, StackFlags
  <2>4. ASSUME NEW j \in DOMAIN calls, Is(j, "unload"), calls[j].l = k
        PROVE  FALSE
    <3>1. i # j
      BY <2>1, <2>4 DEF Is
    <3>2. CASE j < i
      BY <2>1, <2>4, <3>2 DEF TwoPhaseIInv, StackOrder, Is
    <3>3. CASE i < j
      <4>1. calls[i].l \notin Closure(calls[j].l)
        BY <2>1, <2>4, <3>3 DEF TwoPhaseIInv, UnloadsApart, UnderWay, Is
      <4> QED BY <2>2, <2>4, <4>1, ClosureSelf
    <3> QED BY <1>2, <2>1, <3>1, <3>2, <3>3
  <2>5. Bound(k, e)
    BY <2>2, <2>3, <2>4 DEF Bound
  <2> QED BY <1>6, <1>13, <2>2, <2>3, <2>5
<1>19. StackFlags'
  <2> SUFFICES ASSUME NEW i \in DOMAIN calls'
               PROVE  /\ calls'[i].fn = "link_image" => si'[calls'[i].l].flags = "loaded"
                      /\ calls'[i].fn = "dlopen" /\ calls'[i].at = "open" => si'[calls'[i].l].flags = "LINKED"
                      /\ calls'[i].fn = "constructors" => si'[calls'[i].l].flags = "LINKED" /\ si'[calls'[i].l].called
                      /\ calls'[i].fn = "unload" => si'[calls'[i].l].flags = "LINKED"
    BY DEF StackFlags, Is, IsLinked
  <2>1. calls'[i] = calls[i] /\ calls[i].l \in File /\ i \in DOMAIN calls /\ si'[calls[i].l] = si[calls[i].l]
    BY <1>6, <1>9, <1>11
  <2> QED BY <2>1 DEF TwoPhaseIInv, StackFlags, Is, IsLinked
<1>20. FoundIsLinked'
  <2>1. calls' # <<>> => Inner' = calls[Depth - 1] /\ Depth > 1
    <3>1. calls' # <<>> => Depth > 1 /\ Depth - 1 \in DOMAIN calls'
      BY <1>2, <1>9
    <3> QED BY <1>9, <3>1 DEF Inner
  <2> QED BY <1>3, <2>1 DEF FoundIsLinked, UnloadShape
<1>21. Unprotected'
  <2> SUFFICES ASSUME NEW j \in DOMAIN calls', calls'[j].fn = "unload", calls'[j].at # "body"
               PROVE  si'[calls'[j].l].relro \/ calls'[j].at = "fault" => calls'[j].l \in Broken
    BY DEF Unprotected, Is
  <2>1. calls'[j] = calls[j] /\ j \in DOMAIN calls /\ si'[calls[j].l] = si[calls[j].l]
    BY <1>6, <1>9, <1>11
  <2> QED BY <2>1 DEF TwoPhaseIInv, Unprotected, Is
<1>22. LockHeld'
  <2>1. Outer = <<>> <=> calls' = <<>>
    BY <1>1
  <2> QED BY <1>1, <1>9, <2>1 DEF TwoPhaseIInv, LockHeld, Is
<1> QED BY <1>8, <1>9, <1>14, <1>15, <1>16, <1>17, <1>18, <1>19, <1>20, <1>21, <1>22 DEF TwoPhaseIInv

-----------------------------------------------------------------------------
(* Calling constructors.                                                   *)

\* The innermost activation, g from now on, calls the constructors of n.
Calls(n, r, g) ==
  /\ calls # <<>> /\ Topped(r, g) /\ ToConstruct(n, r) /\ UNCHANGED <<result, owner, held>> /\ Keeps
  /\ IsLinked(n) /\ g.fn = Inner.fn /\ g.l = Inner.l /\ g.opened = Inner.opened
  /\ \/ Inner.fn = "dlopen" /\ Inner.at = "found" /\ g.at = "open" /\ n = Inner.l
     \/ /\ Inner.fn = "constructors" /\ Inner.at = "loop" /\ g.at = "loop" /\ g.d = Inner.d + 1
        /\ Inner.d \in Needed(Inner.l) /\ n = needs[Inner.l][Inner.d]

LEMMA CallingIs ==
  ASSUME TwoPhaseIInv, NEW n \in File, NEW g \in Frame, NEW r, Calls(n, r, g)
  PROVE  /\ TwoPhaseTypeOK' /\ calls' # <<>> /\ DOMAIN calls' = 1 .. Len(calls') /\ Depth' = Len(calls')
         /\ \A i \in DOMAIN calls : i \in DOMAIN calls' /\ (i # Depth => calls'[i] = calls[i])
         /\ calls'[Depth] = g
         /\ IF si[n].called THEN Len(calls') = Depth
            ELSE Len(calls') = Depth + 1 /\ calls'[Depth + 1] = Entered("constructors", n, "loop")
         /\ si'[n].called
         /\ \A l \in File : /\ si'[l].flags = si[l].flags /\ si'[l].refcount = si[l].refcount
                            /\ si'[l].done = si[l].done /\ si'[l].relro = si[l].relro
                            /\ (l # n => si'[l].called = si[l].called)
<1>1. TwoPhaseTypeOK /\ Depth \in Nat /\ Depth > 0 /\ DOMAIN calls = 1 .. Depth /\ calls # <<>>
      /\ needs' = needs /\ recursive' = recursive /\ UNCHANGED <<result, owner, held>>
  BY TopIs DEF TwoPhaseIInv, Calls, Keeps
<1>2. CASE si[n].called
  <2>1. calls' = r /\ si' = si
    BY <1>2 DEF Calls, ToConstruct
  <2>2. /\ calls' \in Seq(Frame) /\ calls' # <<>> /\ Len(calls') = Depth /\ DOMAIN calls' = 1 .. Depth
        /\ \A i \in 1 .. Depth - 1 : calls'[i] = calls[i]
        /\ calls'[Depth] = g
    BY <2>1 DEF Calls, Topped
  <2>3. \A i \in DOMAIN calls : i \in DOMAIN calls' /\ (i # Depth => calls'[i] = calls[i])
    BY <1>1, <2>2
  <2> QED BY <1>1, <1>2, <2>1, <2>2, <2>3 DEF TwoPhaseTypeOK, Depth
<1>3. CASE ~si[n].called
  <2>1. calls' = Append(r, Entered("constructors", n, "loop")) /\ si' = [si EXCEPT ![n].called = TRUE]
    BY <1>3 DEF Calls, ToConstruct
  <2>2. PICK h \in Frame : h = Entered("constructors", n, "loop")
    BY Entering
  <2>3. /\ calls' \in Seq(Frame) /\ calls' # <<>> /\ Len(calls') = Depth + 1 /\ DOMAIN calls' = 1 .. Depth + 1
        /\ \A i \in 1 .. Depth - 1 : calls'[i] = calls[i]
        /\ calls'[Depth] = g /\ calls'[Depth + 1] = h
    BY <1>1, <2>1, <2>2, ToppedPushed DEF Calls
  <2>4. \A i \in DOMAIN calls : i \in DOMAIN calls' /\ (i # Depth => calls'[i] = calls[i])
    BY <1>1, <2>3
  <2>5. si[n] \in Soinfo /\ si \in [File -> Soinfo]
    BY <1>1, Typed DEF TwoPhaseTypeOK
  <2>6. PICK s \in Soinfo : s = [si[n] EXCEPT !.called = TRUE]
    <3>1. [si[n] EXCEPT !.called = TRUE] \in Soinfo
      BY <2>5 DEF Soinfo
    <3> QED BY <3>1
  <2>7. si' \in [File -> Soinfo] /\ si'[n] = s /\ \A l \in File : l # n => si'[l] = si[l]
    BY <2>1, <2>5, <2>6
  <2>8. s.flags = si[n].flags /\ s.refcount = si[n].refcount
    BY <2>5, <2>6 DEF Soinfo
  <2>9. s.done = si[n].done /\ s.relro = si[n].relro
    BY <2>5, <2>6 DEF Soinfo
  <2>10. s.called
    BY <2>5, <2>6 DEF Soinfo
  <2>11. /\ si'[n].called
         /\ \A l \in File : /\ si'[l].flags = si[l].flags /\ si'[l].refcount = si[l].refcount
                            /\ si'[l].done = si[l].done /\ si'[l].relro = si[l].relro
                            /\ (l # n => si'[l].called = si[l].called)
    BY <2>7, <2>8, <2>9, <2>10
  <2>12. TwoPhaseTypeOK'
    BY <1>1, <2>3, <2>7 DEF TwoPhaseTypeOK
  <2> QED BY <1>1, <1>3, <2>2, <2>3, <2>4, <2>11, <2>12 DEF Depth
<1> QED BY <1>2, <1>3

LEMMA CallsOn ==
  ASSUME TwoPhaseIInv, NEW n \in File, NEW g \in Frame, NEW r, Calls(n, r, g)
  PROVE  TwoPhaseIInv'
<1>1. /\ TwoPhaseTypeOK /\ calls # <<>> /\ needs' = needs /\ recursive' = recursive
      /\ UNCHANGED <<result, owner, held>>
      /\ IsLinked(n) /\ g.fn = Inner.fn /\ g.l = Inner.l /\ g.opened = Inner.opened
      /\ \/ Inner.fn = "dlopen" /\ Inner.at = "found" /\ g.at = "open" /\ n = Inner.l
         \/ /\ Inner.fn = "constructors" /\ Inner.at = "loop" /\ g.at = "loop" /\ g.d = Inner.d + 1
            /\ Inner.d \in Needed(Inner.l) /\ n = needs[Inner.l][Inner.d]
  BY DEF TwoPhaseIInv, Calls, Keeps
<1>2. /\ Depth \in Nat /\ Depth > 0 /\ Depth \in DOMAIN calls /\ DOMAIN calls = 1 .. Depth /\ Len(calls) = Depth
      /\ Inner = calls[Depth] /\ Inner.l \in File /\ Inner.d \in Nat
  BY <1>1, TopIs DEF Depth
<1>3. PICK h \in Frame : /\ h = Entered("constructors", n, "loop")
                          /\ h.fn = "constructors" /\ h.l = n /\ h.d = 1 /\ h.at = "loop" /\ h.opened = NIL
  BY Entering
<1>4. /\ TwoPhaseTypeOK' /\ calls' # <<>> /\ DOMAIN calls' = 1 .. Len(calls') /\ Depth' = Len(calls')
      /\ \A i \in DOMAIN calls : i \in DOMAIN calls' /\ (i # Depth => calls'[i] = calls[i])
      /\ calls'[Depth] = g
      /\ IF si[n].called THEN Len(calls') = Depth ELSE Len(calls') = Depth + 1 /\ calls'[Depth + 1] = h
  BY <1>3, CallingIs
<1>5. /\ si'[n].called
      /\ \A l \in File : /\ si'[l].flags = si[l].flags /\ si'[l].refcount = si[l].refcount
                         /\ si'[l].done = si[l].done /\ si'[l].relro = si[l].relro
                         /\ (l # n => si'[l].called = si[l].called)
  BY CallingIs
<1>6. \A l \in File : /\ (IsLinked(l)' <=> IsLinked(l)) /\ (si[l].called => si'[l].called)
                     /\ (si'[l].called => si[l].called \/ l = n)
  BY <1>5 DEF IsLinked
<1>7. \A i \in DOMAIN calls' : i \in DOMAIN calls \/ (i = Depth + 1 /\ calls'[i] = h /\ ~si[n].called)
  <2>1. CASE si[n].called
    BY <1>2, <1>4, <2>1
  <2>2. CASE ~si[n].called
    BY <1>2, <1>4, <2>2
  <2> QED BY <2>1, <2>2
<1>8. \A i \in DOMAIN calls : /\ i \in DOMAIN calls' /\ Alike(i) /\ calls'[i].opened = calls[i].opened
                             /\ (i # Depth => calls'[i] = calls[i])
  BY <1>1, <1>2, <1>4 DEF Alike
<1>9. \A i \in DOMAIN calls : ~Is(i, "unload") /\ ~Is(i, "link_image")
  BY <1>1, <1>2 DEF TwoPhaseIInv, StackOrder, Is
<1>10. \A i \in DOMAIN calls' : calls'[i].fn # "unload" /\ calls'[i].fn # "link_image"
  BY <1>3, <1>7, <1>8, <1>9 DEF Is, Alike
<1>11. NoneBound /\ NoneOpened
  <2>1. NoneBound
    BY <1>6, <1>9, <1>10 DEF NoneBound
  <2>2. NoneOpened
    BY <1>3, <1>7, <1>8 DEF NoneOpened
  <2> QED BY <2>1, <2>2
<1>12. StackOrder' /\ UnloadsApart'
  <2>1. CASE si[n].called
    <3>1. Keeping
      BY <1>2, <1>4, <1>8, <2>1 DEF Keeping
    <3> QED BY <1>1, <1>4, <1>11, <3>1, OrderKept, ApartKept DEF TwoPhaseIInv
  <2>2. CASE ~si[n].called
    <3>1. PushedOn /\ New = h
      BY <1>2, <1>4, <1>8, <2>2 DEF PushedOn, New
    <3>2. StackOrder'
      BY <1>1, <1>4, <1>9, <3>1, OrderPushed DEF TwoPhaseIInv
    <3>3. UnloadsApart'
      BY <1>1, <1>3, <1>4, <1>11, <3>1, ApartPushed DEF TwoPhaseIInv
    <3> QED BY <3>2, <3>3
  <2> QED BY <2>1, <2>2
<1>13. RefcountCovers' /\ UnloadsLast' /\ ReferencedLinked'
  <2>1. \A k \in File : si'[k].refcount >= si[k].refcount /\ (IsLinked(k) => IsLinked(k)')
    BY <1>1, <1>5, <1>6, Typed
  <2> QED BY <1>1, <1>4, <1>10, <1>11, <2>1, RefsKept DEF TwoPhaseIInv
<1>14. CalledLinked'
  BY <1>1, <1>5, <1>6 DEF TwoPhaseIInv, CalledLinked
<1>15. CalledOrDone'
  <2> SUFFICES ASSUME NEW l \in File, si'[l].called, ~si'[l].done
               PROVE  \E i \in DOMAIN calls' : calls'[i].fn = "constructors" /\ calls'[i].l = l
    BY DEF CalledOrDone, Is
  <2>1. CASE si[l].called
    <3>1. PICK i \in DOMAIN calls : calls[i].fn = "constructors" /\ calls[i].l = l
      BY <1>5, <2>1 DEF TwoPhaseIInv, CalledOrDone, Is
    <3> QED BY <1>8, <3>1 DEF Alike
  <2>2. CASE ~si[l].called
    <3>1. l = n
      BY <1>6, <2>2
    <3>2. Depth + 1 \in DOMAIN calls' /\ calls'[Depth + 1] = h
      BY <1>2, <1>4, <2>2, <3>1
    <3> QED BY <1>3, <3>1, <3>2
  <2> QED BY <2>1, <2>2
<1>16. DoneNeeds'
  <2> SUFFICES ASSUME NEW l \in File, si'[l].done, NEW e \in Needed(l)
               PROVE  si'[needs[l][e]].called
    BY <1>1 DEF DoneNeeds, Needed
  <2>1. needs[l][e] \in File /\ si[l].done
    BY <1>1, <1>5, Typed
  <2>2. si[needs[l][e]].called
    BY <1>9, <2>1 DEF TwoPhaseIInv, DoneNeeds
  <2> QED BY <1>6, <2>1, <2>2
<1>17. ConstructingNeeds'
  <2> SUFFICES ASSUME NEW i \in DOMAIN calls', calls'[i].fn = "constructors",
                      NEW e \in Needed(calls'[i].l), e < calls'[i].d
               PROVE  si'[needs[calls'[i].l][e]].called
    BY <1>1 DEF ConstructingNeeds, Needed, Is
  <2>1. calls'[i].l \in File
    BY <1>4, TypedThen
  <2>2. e \in Nat /\ e >= 1 /\ needs[calls'[i].l][e] \in File
    BY <1>1, <2>1, Typed
  <2>3. CASE i \in DOMAIN calls /\ i # Depth
    <3>1. calls'[i] = calls[i]
      BY <1>8, <2>3
    <3>2. si[needs[calls[i].l][e]].called
      BY <2>3, <3>1 DEF TwoPhaseIInv, ConstructingNeeds, Is
    <3> QED BY <1>6, <2>2, <3>1, <3>2
  <2>4. CASE i = Depth
    <3>1. /\ calls'[i] = g /\ calls'[i].l = Inner.l /\ Inner.fn = "constructors" /\ g.d = Inner.d + 1
          /\ n = needs[Inner.l][Inner.d]
      BY <1>1, <1>4, <2>4
    <3>2. CASE e < Inner.d
      <4>1. si[needs[Inner.l][e]].called
        BY <1>2, <3>1, <3>2 DEF TwoPhaseIInv, ConstructingNeeds, Is
      <4> QED BY <1>6, <2>2, <3>1, <4>1
    <3>3. CASE e = Inner.d
      BY <1>5, <3>1, <3>3
    <3> QED BY <1>2, <2>2, <3>1, <3>2, <3>3
  <2>5. CASE calls'[i] = h
    BY <1>3, <2>2, <2>5
  <2> QED BY <1>7, <2>3, <2>4, <2>5
<1>18. StackShape'
  <2> SUFFICES ASSUME NEW i \in DOMAIN calls' PROVE FrameShape(i)'
    BY DEF StackShape
  <2>1. CASE i \in DOMAIN calls /\ i # Depth
    <3>1. i \in Nat /\ calls'[i] = calls[i] /\ (i > 1 => calls'[i - 1] = calls[i - 1])
      BY <1>2, <1>8, <2>1
    <3>2. FrameShape(i)
      BY <2>1 DEF TwoPhaseIInv, StackShape
    <3> QED BY <1>1, <3>1, <3>2, ShapeKept
  <2>2. CASE i = Depth
    <3>1. FrameShape(Depth)
      BY <1>2 DEF TwoPhaseIInv, StackShape
    <3>2. Depth > 1 => calls'[Depth - 1] = calls[Depth - 1]
      BY <1>2, <1>8
    <3>3. CASE Inner.fn = "dlopen"
      BY <1>1, <1>2, <1>4, <2>2, <3>1, <3>2, <3>3 DEF FrameShape, OpenShape, Is
    <3>4. CASE Inner.fn = "constructors"
      <4>1. Inner.d + 1 \in 1 .. Len(needs[Inner.l]) + 1
        BY <1>1, <1>2, <3>4, Typed
      <4> QED BY <1>1, <1>2, <1>4, <2>2, <3>1, <3>2, <3>4, <4>1 DEF FrameShape, ConstructShape, Is
    <3> QED BY <1>1, <3>3, <3>4
  <2>3. CASE i = Depth + 1 /\ calls'[i] = h
    <3>1. calls'[i - 1] = g /\ i > 1
      BY <1>2, <1>4, <2>3
    <3>2. 1 \in 1 .. Len(needs[n]) + 1
      BY <1>1, Typed
    <3> QED BY <1>1, <1>3, <2>3, <3>1, <3>2 DEF FrameShape, ConstructShape, Is
  <2> QED BY <1>7, <2>1, <2>2, <2>3
<1>19. StackFlags'
  <2> SUFFICES ASSUME NEW i \in DOMAIN calls'
               PROVE  /\ calls'[i].fn = "dlopen" /\ calls'[i].at = "open" => si'[calls'[i].l].flags = "LINKED"
                      /\ calls'[i].fn = "constructors" => si'[calls'[i].l].flags = "LINKED" /\ si'[calls'[i].l].called
    BY <1>10 DEF StackFlags, Is, IsLinked
  <2>1. CASE i \in DOMAIN calls /\ i # Depth
    <3>1. calls'[i] = calls[i] /\ calls[i].l \in File
      BY <1>1, <1>8, <2>1, Frames
    <3> QED BY <1>5, <1>6, <2>1, <3>1 DEF TwoPhaseIInv, StackFlags, Is, IsLinked
  <2>2. CASE i = Depth
    <3>1. calls'[i] = g
      BY <1>4, <2>2
    <3>2. Inner.fn = "dlopen" => Inner.l = n
      BY <1>1
    <3>3. Inner.fn = "constructors" => si[Inner.l].flags = "LINKED" /\ si[Inner.l].called
      BY <1>2 DEF TwoPhaseIInv, StackFlags, Is, IsLinked
    <3> QED BY <1>1, <1>2, <1>5, <1>6, <3>1, <3>2, <3>3 DEF IsLinked
  <2>3. CASE calls'[i] = h
    <3>1. calls'[i].fn = "constructors" /\ calls'[i].l = n
      BY <1>3, <2>3
    <3> QED BY <1>1, <1>5, <3>1 DEF IsLinked
  <2> QED BY <1>7, <2>1, <2>2, <2>3
<1>20. FoundIsLinked'
  <2>1. Inner' = calls'[Len(calls')]
    BY <1>4 DEF Inner
  <2>2. Inner'.at # "found"
    <3>1. CASE si[n].called
      BY <1>1, <1>4, <2>1, <3>1
    <3>2. CASE ~si[n].called
      BY <1>3, <1>4, <2>1, <3>2
    <3> QED BY <3>1, <3>2
  <2> QED BY <2>2 DEF FoundIsLinked
<1>21. Unprotected'
  BY <1>10 DEF Unprotected, Is
<1>22. LockHeld'
  <2>1. \A i \in DOMAIN calls' : calls'[i].fn = "dlopen" => i \in DOMAIN calls /\ Is(i, "dlopen") /\ calls'[i].l = calls[i].l
    BY <1>3, <1>7, <1>8 DEF Alike, Is
  <2> QED BY <1>1, <1>4, <2>1 DEF TwoPhaseIInv, LockHeld, Is
<1> QED BY <1>4, <1>12, <1>13, <1>14, <1>15, <1>16, <1>17, <1>18, <1>19, <1>20, <1>21, <1>22 DEF TwoPhaseIInv

LEMMA OpenFoundStep == TwoPhaseIInv /\ OpenFound => TwoPhaseIInv'
<1> SUFFICES ASSUME TwoPhaseIInv, OpenFound PROVE TwoPhaseIInv'
  OBVIOUS
<1>1. /\ TwoPhaseTypeOK /\ calls # <<>> /\ Inner.fn = "dlopen" /\ Inner.at = "found" /\ result # NIL
      /\ ToConstruct(Inner.l, At("open")) /\ UNCHANGED <<result, owner, held>> /\ Keeps
  BY DEF TwoPhaseIInv, OpenFound, In
<1>2. Inner \in Frame /\ Inner.l \in File
  BY <1>1, TopIs
<1>3. PICK n \in File : n = Inner.l
  BY <1>2
<1>4. IsLinked(n)
  <2>1. Wanted = n
    BY <1>1, <1>3 DEF Wanted
  <2> QED BY <1>1, <2>1 DEF TwoPhaseIInv, FoundIsLinked
<1>5. PICK g \in Frame : g = [Inner EXCEPT !.at = "open"]
  <2>1. [Inner EXCEPT !.at = "open"] \in Frame
    BY <1>2 DEF Frame
  <2> QED BY <2>1
<1>6. g.fn = Inner.fn /\ g.l = Inner.l /\ g.opened = Inner.opened /\ g.at = "open"
  BY <1>2, <1>5 DEF Frame
<1>7. Topped(At("open"), g)
  BY <1>1, <1>5, TopAt DEF Place
<1>8. Calls(n, At("open"), g)
  BY <1>1, <1>3, <1>4, <1>6, <1>7 DEF Calls
<1> QED BY <1>8, CallsOn

LEMMA ConstructNeededStep == TwoPhaseIInv /\ ConstructNeeded => TwoPhaseIInv'
<1> SUFFICES ASSUME TwoPhaseIInv, ConstructNeeded PROVE TwoPhaseIInv'
  OBVIOUS
<1>1. /\ TwoPhaseTypeOK /\ calls # <<>> /\ Inner.fn = "constructors" /\ Inner.at = "loop" /\ Inner.d <= Entries
      /\ ToConstruct(EntryOf, NextEntry) /\ UNCHANGED <<result, owner, held>> /\ Keeps
  BY DEF TwoPhaseIInv, ConstructNeeded, In
<1>2. /\ Depth \in DOMAIN calls /\ DOMAIN calls = 1 .. Depth /\ Depth \in Nat
      /\ Inner = calls[Depth] /\ Inner \in Frame /\ Inner.l \in File /\ Inner.d \in Nat
  BY <1>1, TopIs
<1>3. Inner.d \in Needed(Inner.l)
  <2>1. Inner.d \in 1 .. Len(needs[Inner.l]) + 1
    BY <1>1, <1>2 DEF TwoPhaseIInv, StackShape, FrameShape, ConstructShape, Is
  <2> QED BY <1>1, <1>2, <2>1, Typed DEF Entries
<1>4. PICK n \in File, k \in File, d \in Nat : n = EntryOf /\ k = Inner.l /\ d = Inner.d
  <2>1. EntryOf \in File
    BY <1>1, <1>2, <1>3, Typed DEF EntryOf
  <2> QED BY <1>2, <2>1
<1>5. n = needs[k][d] /\ d \in Needed(k)
  BY <1>3, <1>4 DEF EntryOf
<1>6. IsLinked(n)
  <2>1. IsLinked(k)
    BY <1>1, <1>2, <1>4 DEF TwoPhaseIInv, StackFlags, Is
  <2>2. \A i \in DOMAIN calls : ~Is(i, "unload")
    BY <1>1, <1>2 DEF TwoPhaseIInv, StackOrder, Is
  <2>3. Bound(k, d)
    BY <1>5, <2>1, <2>2 DEF Bound
  <2>4. <<k, d>> \in EntriesOn(n)
    BY <1>5, <2>3, PairEntries DEF EntriesOn, AllEntries
  <2>5. Cardinality(EntriesOn(n)) > 0
    BY <1>1, <2>4, RefsFinite, FS_EmptySet
  <2>6. Refs(n) > 0
    BY <1>1, <2>5, RefsFinite, Typed DEF Refs
  <2> QED BY <2>6 DEF TwoPhaseIInv, ReferencedLinked
<1>7. PICK g \in Frame : g = [Inner EXCEPT !.d = Inner.d + 1]
  BY <1>1, TopNext
<1>8. g.fn = Inner.fn /\ g.l = Inner.l /\ g.opened = Inner.opened /\ g.at = Inner.at /\ g.d = Inner.d + 1
  BY <1>2, <1>7 DEF Frame
<1>9. Topped(NextEntry, g)
  BY <1>1, <1>7, TopNext
<1>10. Calls(n, NextEntry, g)
  BY <1>1, <1>3, <1>4, <1>5, <1>6, <1>8, <1>9 DEF Calls
<1> QED BY <1>10, CallsOn

-----------------------------------------------------------------------------
(* The theorems.                                                           *)

LEMMA Initially == TwoPhaseInit => TwoPhaseIInv
<1> SUFFICES ASSUME TwoPhaseInit PROVE TwoPhaseIInv
  OBVIOUS
<1>1. /\ recursive \in BOOLEAN /\ needs \in Graphs /\ si = [l \in File |-> Absent] /\ calls = <<>>
      /\ result = NIL /\ owner = NoCaller /\ held = [l \in File |-> 0]
  BY DEF TwoPhaseInit
<1>2. TwoPhaseTypeOK
  <2>1. Absent \in Soinfo
    BY DEF Absent, Soinfo
  <2>2. held \in [File -> 0 .. MaxHeld]
    BY <1>1, TwoPhaseAssumption
  <2>3. calls \in Seq(Frame)
    BY <1>1
  <2> QED BY <1>1, <2>1, <2>2, <2>3 DEF TwoPhaseTypeOK
<1>3. DOMAIN calls = {}
  BY <1>1
<1>4. \A l \in File : si[l] = Absent /\ ~IsLinked(l) /\ ~si[l].called /\ ~si[l].done
  <2>1. \A l \in File : si[l] = Absent
    BY <1>1
  <2>2. \A l \in File : ~IsLinked(l)
    BY <2>1 DEF Absent, IsLinked
  <2>3. \A l \in File : ~si[l].called /\ ~si[l].done
    BY <2>1 DEF Absent
  <2> QED BY <2>1, <2>2, <2>3
<1>5. \A l \in File : Refs(l) = 0 /\ si[l].refcount \in Nat
  <2> SUFFICES ASSUME NEW l \in File PROVE Refs(l) = 0 /\ si[l].refcount \in Nat
    OBVIOUS
  <2>1. OpenersOf(l) = {}
    BY <1>3 DEF OpenersOf
  <2>2. EntriesOn(l) = {}
    BY <1>3, <1>4, EntryPairs DEF EntriesOn, AllEntries, Bound
  <2>3. held[l] = 0
    BY <1>1
  <2>4. Cardinality({}) = 0
    BY FS_EmptySet
  <2> QED BY <1>2, <2>1, <2>2, <2>3, <2>4, Typed DEF Refs
<1>6. StackShape /\ StackOrder /\ StackFlags /\ UnloadsApart /\ UnloadsLast /\ ConstructingNeeds /\ Unprotected
  BY <1>3 DEF StackShape, StackOrder, StackFlags, UnloadsApart, UnloadsLast, ConstructingNeeds, Unprotected
<1>7. FoundIsLinked /\ LockHeld
  BY <1>1, <1>3 DEF FoundIsLinked, LockHeld
<1>8. RefcountCovers /\ ReferencedLinked
  BY <1>5 DEF RefcountCovers, ReferencedLinked
<1>9. CalledLinked /\ CalledOrDone /\ DoneNeeds
  BY <1>4 DEF CalledLinked, CalledOrDone, DoneNeeds
<1> QED BY <1>2, <1>6, <1>7, <1>8, <1>9 DEF TwoPhaseIInv

LEMMA Stuttering == TwoPhaseIInv /\ UNCHANGED twoPhaseVars => TwoPhaseIInv'
<1> SUFFICES ASSUME TwoPhaseIInv, UNCHANGED twoPhaseVars PROVE TwoPhaseIInv'
  OBVIOUS
<1>1. /\ recursive' = recursive /\ needs' = needs /\ si' = si /\ calls' = calls
      /\ result' = result /\ owner' = owner /\ held' = held
  BY DEF twoPhaseVars
<1>2. TwoPhaseTypeOK'
  BY <1>1 DEF TwoPhaseIInv, TwoPhaseTypeOK
<1>3. \A l, e : Bound(l, e)' = Bound(l, e)
  BY <1>1 DEF Bound, IsLinked, Is, Needed
<1>4. \A l : Refs(l)' = Refs(l)
  BY <1>1, <1>3 DEF Refs, EntriesOn, OpenersOf, Needed
<1>5. StackShape' /\ StackOrder' /\ StackFlags' /\ FoundIsLinked' /\ LockHeld'
  BY <1>1 DEF TwoPhaseIInv, StackShape, StackOrder, StackFlags, FoundIsLinked, LockHeld, FrameShape, OpenShape,
              LinkShape, ConstructShape, UnloadShape, Is, IsLinked, Needed, Inner, Depth, Wanted, EntryOf
<1>6. UnloadsApart'
  BY <1>1 DEF TwoPhaseIInv, UnloadsApart, UnderWay, Is, Closure
<1>7. RefcountCovers' /\ UnloadsLast' /\ ReferencedLinked'
  BY <1>1, <1>4 DEF TwoPhaseIInv, RefcountCovers, UnloadsLast, ReferencedLinked, IsLinked, Is
<1>8. CalledLinked' /\ CalledOrDone' /\ DoneNeeds' /\ ConstructingNeeds' /\ Unprotected'
  BY <1>1 DEF TwoPhaseIInv, CalledLinked, CalledOrDone, DoneNeeds, ConstructingNeeds, Unprotected, IsLinked, Is, Needed
<1> QED BY <1>2, <1>5, <1>6, <1>7, <1>8 DEF TwoPhaseIInv

\* The invariant of TwoPhaseInv holds at every step, if no constructor opens
\* and closes what needs a library whose dlopen is under way (jb/dlfcn.c:63-64,
\* where the reference is taken only after the constructors were called).
THEOREM TwoPhaseInvariance == ASSUME ~Reentrant PROVE TwoPhaseSpec => []TwoPhaseIInv
<1>1. TwoPhaseIInv /\ [TwoPhaseNext]_twoPhaseVars => TwoPhaseIInv'
  <2> SUFFICES ASSUME TwoPhaseIInv, [TwoPhaseNext]_twoPhaseVars
               PROVE  TwoPhaseIInv'
    OBVIOUS
  <2>1. ASSUME NEW t \in Caller, NEW l \in File, dlopen(t, l) PROVE TwoPhaseIInv'
    BY <2>1, dlopenStep
  <2>2. ASSUME NEW t \in Caller, NEW l \in File, dlclose(t, l) PROVE TwoPhaseIInv'
    BY <2>2, dlcloseStep
  <2>3. CASE FindKnown
    BY <2>3, FindKnownStep
  <2>4. CASE LoadLibrary
    BY <2>4, LoadLibraryStep
  <2>5. CASE LoadFails
    BY <2>5, LoadFailsStep
  <2>6. CASE NeedNext
    BY <2>6, NeedNextStep
  <2>7. CASE NeedBound
    BY <2>7, NeedBoundStep
  <2>8. CASE LinkFails
    BY <2>8, LinkFailsStep
  <2>9. CASE Linked
    BY <2>9, LinkedStep
  <2>10. CASE OpenFails
    BY <2>10, OpenFailsStep
  <2>11. CASE OpenFound
    BY <2>11, OpenFoundStep
  <2>12. CASE ConstructNeeded
    BY <2>12, ConstructNeededStep
  <2>13. CASE ConstructOwn
    BY <2>13, ConstructOwnStep
  <2>14. CASE Constructed
    BY <2>14, ConstructedStep
  <2>15. CASE OpenReturns
    BY <2>15, OpenReturnsStep
  <2>16. CASE CloseAgain
    BY <2>16, CloseAgainStep
  <2>17. CASE Unprotect
    BY <2>17, UnprotectStep
  <2>18. CASE UnloadNeeded
    BY <2>18, UnloadNeededStep
  <2>19. CASE Unloaded
    BY <2>19, UnloadedStep
  <2>20. CASE UNCHANGED twoPhaseVars
    BY <2>20, Stuttering
  <2> QED BY <2>1, <2>2, <2>3, <2>4, <2>5, <2>6, <2>7, <2>8, <2>9, <2>10, <2>11, <2>12, <2>13, <2>14,
             <2>15, <2>16, <2>17, <2>18, <2>19, <2>20 DEF TwoPhaseNext
<1> QED BY <1>1, Initially, PTL DEF TwoPhaseSpec

\* Every variable keeps its type: the counts stay natural, no entry or frame
\* is of a library there is not.
THEOREM TwoPhaseTypeCorrect == ASSUME ~Reentrant PROVE TwoPhaseSpec => []TwoPhaseTypeOK
<1>1. TwoPhaseIInv => TwoPhaseTypeOK
  BY DEF TwoPhaseIInv
<1> QED BY <1>1, TwoPhaseInvariance, PTL

\* A library the program has a handle of, that another needs, or whose
\* constructor runs, is linked: neither a dlclose, nor a constructor's dlopen
\* and dlclose, nor an unloading that cascades takes it away.
THEOREM HandlesStayLive == ASSUME ~Reentrant PROVE TwoPhaseSpec => []HandlesLive
<1>1. TwoPhaseIInv => HandlesLive
  <2> SUFFICES ASSUME TwoPhaseIInv PROVE HandlesLive
    OBVIOUS
  <2>1. TwoPhaseTypeOK
    BY DEF TwoPhaseIInv
  <2>2. \A l \in File : held[l] > 0 => IsLinked(l)
    <3> SUFFICES ASSUME NEW l \in File, held[l] > 0 PROVE IsLinked(l)
      OBVIOUS
    <3>1. held[l] \in Nat /\ Cardinality(EntriesOn(l)) \in Nat /\ Cardinality(OpenersOf(l)) \in Nat
      BY <2>1, RefsFinite, Typed
    <3>2. Refs(l) > 0
      BY <3>1 DEF Refs
    <3> QED BY <3>2 DEF TwoPhaseIInv, ReferencedLinked
  <2>3. \A l \in File : Constructing(l) => IsLinked(l)
    BY DEF Constructing, Ranges, TwoPhaseIInv, StackFlags, Is
  <2>4. ASSUME NEW l \in File, IsLinked(l), ~Unloading(l), NEW n \in Ranges(needs[l])
        PROVE  IsLinked(n)
    <3>1. PICK e \in Needed(l) : n = needs[l][e]
      BY <2>4 DEF Ranges, Needed
    <3>2. n \in File
      BY <2>1, <3>1, Typed
    <3>3. \A j \in DOMAIN calls : ~(Is(j, "unload") /\ calls[j].l = l)
      BY <2>4 DEF Unloading, Ranges, Is
    <3>4. Bound(l, e)
      BY <2>4, <3>3 DEF Bound
    <3>5. <<l, e>> \in EntriesOn(n)
      BY <3>1, <3>4, PairEntries DEF EntriesOn, AllEntries
    <3>6. Cardinality(EntriesOn(n)) > 0
      BY <2>1, <3>2, <3>5, RefsFinite, FS_EmptySet
    <3>7. held[n] \in Nat /\ Cardinality(EntriesOn(n)) \in Nat /\ Cardinality(OpenersOf(n)) \in Nat
      BY <2>1, <3>2, RefsFinite, Typed
    <3>8. Refs(n) > 0
      BY <3>6, <3>7 DEF Refs
    <3> QED BY <3>2, <3>8 DEF TwoPhaseIInv, ReferencedLinked
  <2> QED BY <2>2, <2>3, <2>4 DEF HandlesLive, IsLinked
<1> QED BY <1>1, TwoPhaseInvariance, PTL

\* A library's constructors run, and ran, after those of all that it needs:
\* they are done, or under way around it.
THEOREM ConstructedInOrder == ASSUME ~Reentrant PROVE TwoPhaseSpec => []DepsConstructedFirst
<1>1. TwoPhaseIInv => DepsConstructedFirst
  <2> SUFFICES ASSUME TwoPhaseIInv, NEW l \in File, Constructing(l) \/ si[l].done, ~Unloading(l),
                      NEW n \in Ranges(needs[l])
               PROVE  si[n].done \/ \E f \in Ranges(calls) : f.fn = "constructors" /\ f.l = n
    BY DEF DepsConstructedFirst
  <2>1. TwoPhaseTypeOK
    BY DEF TwoPhaseIInv
  <2>2. PICK e \in Needed(l) : n = needs[l][e]
    BY DEF Ranges, Needed
  <2>3. n \in File /\ e \in 1 .. Len(needs[l]) /\ Len(needs[l]) \in Nat
    BY <2>1, <2>2, Typed
  <2>4. CASE Constructing(l)
    <3>1. PICK i \in DOMAIN calls : Is(i, "constructors") /\ calls[i].l = l /\ calls[i].at = "body"
      BY <2>4 DEF Constructing, Ranges, Is
    <3>2. calls[i].d > Len(needs[l]) /\ calls[i].d \in Nat
      BY <2>1, <3>1, Frames DEF TwoPhaseIInv, StackShape, FrameShape, ConstructShape
    <3>3. e < calls[i].d
      BY <2>3, <3>2
    <3>4. si[n].called
      BY <2>2, <3>1, <3>3 DEF TwoPhaseIInv, ConstructingNeeds
    <3> QED BY <2>3, <3>4 DEF TwoPhaseIInv, CalledOrDone, Ranges, Is
  <2>5. CASE si[l].done
    <3>1. \A j \in DOMAIN calls : Is(j, "unload") => calls[j].l # l
      BY DEF Unloading, Ranges, Is
    <3>2. si[n].called
      BY <2>2, <2>5, <3>1 DEF TwoPhaseIInv, DoneNeeds
    <3> QED BY <2>3, <3>2 DEF TwoPhaseIInv, CalledOrDone, Ranges, Is
  <2> QED BY <2>4, <2>5
<1> QED BY <1>1, TwoPhaseInvariance, PTL

\* Clearing an entry of a library that is unloaded meets no protected page,
\* where the system lets the linker undo its protection.
THEOREM EntriesAreWritable == ASSUME ~Reentrant PROVE TwoPhaseSpec => []NoRelroFault
<1>1. TwoPhaseIInv => NoRelroFault
  <2> SUFFICES ASSUME TwoPhaseIInv, NEW j \in DOMAIN calls, calls[j].at = "fault"
               PROVE  calls[j].l \in Broken
    BY DEF NoRelroFault, Ranges
  <2>1. FrameShape(j) /\ calls[j] \in Frame
    BY Frames DEF TwoPhaseIInv, StackShape
  <2>2. calls[j].fn \in {"dlopen", "link_image", "constructors", "unload"}
    BY <2>1 DEF Frame
  <2>3. Is(j, "unload")
    BY <2>1, <2>2 DEF FrameShape, OpenShape, LinkShape, ConstructShape, Is
  <2> QED BY <2>3 DEF TwoPhaseIInv, Unprotected
<1> QED BY <1>1, TwoPhaseInvariance, PTL
=============================================================================
