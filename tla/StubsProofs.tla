----------------------------- MODULE StubsProofs -----------------------------
(***************************************************************************)
(* Proofs about the stub libraries, for any number of threads, functions,  *)
(* loads and references of the program.                                   *)
(***************************************************************************)
EXTENDS Stubs, TLAPS

(***************************************************************************)
(* The inductive invariant.  A pointer that is kept, wherever it is kept,  *)
(* is of the load that the stub's own reference holds; and what a thread   *)
(* has found is what it will meet at the next step of its call, however    *)
(* many other threads make theirs.                                        *)
(***************************************************************************)
OfThisLoad(x) == x # NULL => x = loads /\ opened > 0

Counted == refs = own + opened /\ (refs > 0 => loads \in Load)

PointersBound ==
  /\ OfThisLoad(handle)
  /\ \A f \in Symbol : OfThisLoad(fptr[f])
  /\ \A t \in Thread : OfThisLoad(at[t].got)

Has(f) == there.loads /\ f \in there.symbols

CallGoesOn(t) ==
  /\ at[t].pc \in {"bind", "keep", "jump"} => at[t].f # NULL
  /\ at[t].pc = "store" /\ there.loads => at[t].got # NULL
  /\ at[t].pc = "bind" /\ there.loads => handle # NULL
  /\ at[t].pc = "keep" /\ Has(at[t].f) => at[t].got # NULL
  /\ at[t].pc = "jump" /\ Has(at[t].f) => fptr[at[t].f] # NULL
  /\ at[t].pc = "inside" => at[t].got # NULL
  /\ at[t].pc = "crash" => ~Has(at[t].f)
  /\ lib \in Eager /\ there.loads /\ at[t].pc # "before" => handle # NULL

StubsInv == StubsTypeOK /\ Counted /\ PointersBound /\ \A t \in Thread : CallGoesOn(t)

-----------------------------------------------------------------------------
(* What android_dlopen returns and leaves.                                 *)

\* A new reference is to the load that is there, if the stub has one already,
\* and NULL only if the library is missing.
LEMMA DlopenCounts ==
  ASSUME StubsTypeOK, Counted, android_dlopen
  PROVE  /\ refs' \in Nat /\ loads' \in 0..MaxLoads
         /\ refs' = (IF there.loads THEN refs + 1 ELSE refs)
         /\ opened > 0 => loads' = loads
         /\ ~there.loads => Opened = NULL /\ loads' = loads
         /\ there.loads => Opened \in Load /\ Opened = loads' /\ Opened # NULL
<1>1. CASE ~there.loads
  BY <1>1 DEF StubsTypeOK, android_dlopen, Opened
<1>2. CASE there.loads /\ refs = 0
  <2>1. loads < MaxLoads  BY <1>2 DEF android_dlopen, Loadable
  <2>2. loads + 1 \in Load  BY <2>1, StubsAssumption DEF StubsTypeOK, Load
  <2>3. Opened = loads + 1  BY <1>2 DEF Opened
  <2>4. loads + 1 # NULL  BY <2>2, StubsAssumption DEF Load
  <2>5. ~(opened > 0)  BY <1>2 DEF Counted, StubsTypeOK
  <2> QED  BY <1>2, <2>1, <2>2, <2>3, <2>4, <2>5, StubsAssumption DEF StubsTypeOK, android_dlopen, Load
<1>3. CASE there.loads /\ refs # 0
  <2>1. refs > 0  BY <1>3 DEF StubsTypeOK
  <2>2. Opened = loads  BY <1>3 DEF Opened
  <2>3. loads \in Load /\ loads # NULL  BY <2>1, StubsAssumption DEF Counted, Load
  <2> QED  BY <1>3, <2>2, <2>3 DEF StubsTypeOK, android_dlopen
<1> QED  BY <1>1, <1>2, <1>3

-----------------------------------------------------------------------------
(* One lemma per action: one step per conjunct, the calls thread by thread. *)

\* The program's own references come and go on top of the stub's.
LEMMA ProgramOpensKeeps ==
  ASSUME StubsInv, ProgramOpens
  PROVE  StubsInv'
<1>0. android_dlopen /\ StubsTypeOK /\ Counted  BY DEF ProgramOpens, StubsInv
<1>d. /\ refs' \in Nat /\ loads' \in 0..MaxLoads
      /\ refs' = (IF there.loads THEN refs + 1 ELSE refs)
      /\ opened > 0 => loads' = loads
      /\ ~there.loads => Opened = NULL /\ loads' = loads
      /\ there.loads => Opened \in Load /\ Opened = loads' /\ Opened # NULL
  BY <1>0, DlopenCounts
<1>1. StubsTypeOK'
  BY <1>d, StubsAssumption DEF StubsInv, StubsTypeOK, ProgramOpens, CallOfStub, Goes, Rest, Counted, Load
<1>2. Counted'
  BY <1>d, StubsAssumption DEF StubsInv, StubsTypeOK, Counted, ProgramOpens
<1>3. PointersBound'
  BY <1>d, <1>1, StubsAssumption DEF StubsInv, StubsTypeOK, Counted, PointersBound, OfThisLoad, ProgramOpens, CallOfStub, Goes, Rest
<1>4. ASSUME NEW u \in Thread PROVE CallGoesOn(u)'
  BY <1>d, StubsAssumption DEF StubsInv, StubsTypeOK, PointersBound, OfThisLoad, CallGoesOn, Has, ProgramOpens, CallOfStub, Goes, Rest
<1> QED  BY <1>1, <1>2, <1>3, <1>4 DEF StubsInv

\* Closing leaves the stub's reference alone.
LEMMA ProgramClosesKeeps ==
  ASSUME StubsInv, ProgramCloses
  PROVE  StubsInv'
<1>1. StubsTypeOK'
  BY StubsAssumption DEF StubsInv, StubsTypeOK, ProgramCloses, CallOfStub, Goes, Rest, Counted, Load
<1>2. Counted'
  BY StubsAssumption DEF StubsInv, StubsTypeOK, Counted, ProgramCloses
<1>3. PointersBound'
  BY <1>1, StubsAssumption DEF StubsInv, StubsTypeOK, Counted, PointersBound, OfThisLoad, ProgramCloses, CallOfStub, Goes, Rest
<1>4. ASSUME NEW u \in Thread PROVE CallGoesOn(u)'
  BY StubsAssumption DEF StubsInv, StubsTypeOK, PointersBound, OfThisLoad, CallGoesOn, Has, ProgramCloses, CallOfStub, Goes, Rest
<1> QED  BY <1>1, <1>2, <1>3, <1>4 DEF StubsInv

\* The constructor leaves a handle, or ends the program.
LEMMA ConstructKeeps ==
  ASSUME StubsInv, Construct
  PROVE  StubsInv'
<1>0. android_dlopen /\ StubsTypeOK /\ Counted  BY DEF Construct, StubsInv
<1>d. /\ refs' \in Nat /\ loads' \in 0..MaxLoads
      /\ refs' = (IF there.loads THEN refs + 1 ELSE refs)
      /\ opened > 0 => loads' = loads
      /\ ~there.loads => Opened = NULL /\ loads' = loads
      /\ there.loads => Opened \in Load /\ Opened = loads' /\ Opened # NULL
  BY <1>0, DlopenCounts
<1>1. StubsTypeOK'
  BY <1>d, StubsAssumption DEF StubsInv, StubsTypeOK, Construct, CallOfStub, Goes, Rest, Counted, Load
<1>2. Counted'
  BY <1>d, StubsAssumption DEF StubsInv, StubsTypeOK, Counted, Construct
<1>3. PointersBound'
  BY <1>d, <1>1, StubsAssumption DEF StubsInv, StubsTypeOK, Counted, PointersBound, OfThisLoad, Construct, CallOfStub, Goes, Rest
<1>4. ASSUME NEW u \in Thread PROVE CallGoesOn(u)'
  BY <1>d, StubsAssumption DEF StubsInv, StubsTypeOK, PointersBound, OfThisLoad, CallGoesOn, Has, Construct, CallOfStub, Goes, Rest
<1> QED  BY <1>1, <1>2, <1>3, <1>4 DEF StubsInv

\* A thread that opens the library gets the load that the others got.
LEMMA OpenKeeps ==
  ASSUME StubsInv, NEW t \in Thread, Open(t)
  PROVE  StubsInv'
<1>0. android_dlopen /\ StubsTypeOK /\ Counted  BY DEF Open, StubsInv
<1>d. /\ refs' \in Nat /\ loads' \in 0..MaxLoads
      /\ refs' = (IF there.loads THEN refs + 1 ELSE refs)
      /\ opened > 0 => loads' = loads
      /\ ~there.loads => Opened = NULL /\ loads' = loads
      /\ there.loads => Opened \in Load /\ Opened = loads' /\ Opened # NULL
  BY <1>0, DlopenCounts
<1>t. [at[t] EXCEPT !.pc = "store", !.got = Opened] \in CallOfStub
  BY <1>d, StubsAssumption DEF StubsInv, StubsTypeOK, CallGoesOn, CallOfStub, Open
<1>1. StubsTypeOK'
  BY <1>d, <1>t, StubsAssumption DEF StubsInv, StubsTypeOK, Open, CallOfStub, Goes, Rest, Counted, Load
<1>2. Counted'
  BY <1>d, <1>t, StubsAssumption DEF StubsInv, StubsTypeOK, Counted, Open
<1>3. PointersBound'
  BY <1>d, <1>t, <1>1, StubsAssumption DEF StubsInv, StubsTypeOK, Counted, PointersBound, OfThisLoad, Open, CallOfStub, Goes, Rest
<1>4. ASSUME NEW u \in Thread PROVE CallGoesOn(u)'
  BY <1>d, <1>t, StubsAssumption DEF StubsInv, StubsTypeOK, PointersBound, OfThisLoad, CallGoesOn, Has, Open, CallOfStub, Goes, Rest
<1> QED  BY <1>1, <1>2, <1>3, <1>4 DEF StubsInv

\* A handle is replaced by another one of the same load.
LEMMA StoreHandleKeeps ==
  ASSUME StubsInv, NEW t \in Thread, StoreHandle(t)
  PROVE  StubsInv'
<1>1. StubsTypeOK'
  BY StubsAssumption DEF StubsInv, StubsTypeOK, StoreHandle, CallOfStub, Goes, Rest, Counted, Load
<1>2. Counted'
  BY StubsAssumption DEF StubsInv, StubsTypeOK, Counted, StoreHandle
<1>3. PointersBound'
  BY <1>1, StubsAssumption DEF StubsInv, StubsTypeOK, Counted, PointersBound, OfThisLoad, StoreHandle, CallOfStub, Goes, Rest
<1>4. ASSUME NEW u \in Thread PROVE CallGoesOn(u)'
  BY StubsAssumption DEF StubsInv, StubsTypeOK, PointersBound, OfThisLoad, CallGoesOn, Has, StoreHandle, CallOfStub, Goes, Rest
<1> QED  BY <1>1, <1>2, <1>3, <1>4 DEF StubsInv

\* init_hybris begins like any call.
LEMMA InitHybrisKeeps ==
  ASSUME StubsInv, NEW t \in Thread, init_hybris(t)
  PROVE  StubsInv'
<1>1. StubsTypeOK'
  BY StubsAssumption DEF StubsInv, StubsTypeOK, init_hybris, CallOfStub, Goes, Rest, Counted, Load
<1>2. Counted'
  BY StubsAssumption DEF StubsInv, StubsTypeOK, Counted, init_hybris
<1>3. PointersBound'
  BY <1>1, StubsAssumption DEF StubsInv, StubsTypeOK, Counted, PointersBound, OfThisLoad, init_hybris, CallOfStub, Goes, Rest
<1>4. ASSUME NEW u \in Thread PROVE CallGoesOn(u)'
  BY StubsAssumption DEF StubsInv, StubsTypeOK, PointersBound, OfThisLoad, CallGoesOn, Has, init_hybris, CallOfStub, Goes, Rest
<1> QED  BY <1>1, <1>2, <1>3, <1>4 DEF StubsInv

\* A call that skips the opening has seen a handle.
LEMMA BeginKeeps ==
  ASSUME StubsInv, NEW t \in Thread, NEW f \in Symbol, Begin(t, f)
  PROVE  StubsInv'
<1>1. StubsTypeOK'
  BY StubsAssumption DEF StubsInv, StubsTypeOK, Begin, Lib, CallOfStub, Goes, Rest, Counted, Load
<1>2. Counted'
  BY StubsAssumption DEF StubsInv, StubsTypeOK, Counted, Begin
<1>3. PointersBound'
  BY <1>1, StubsAssumption DEF StubsInv, StubsTypeOK, Counted, PointersBound, OfThisLoad, Begin, Lib, CallOfStub, Goes, Rest
<1>4. ASSUME NEW u \in Thread PROVE CallGoesOn(u)'
  BY StubsAssumption DEF StubsInv, StubsTypeOK, PointersBound, OfThisLoad, CallGoesOn, Has, Begin, Lib, CallOfStub, Goes, Rest
<1> QED  BY <1>1, <1>2, <1>3, <1>4 DEF StubsInv

\* The address that dlsym finds is of the load that the handle is.
LEMMA ResolveKeeps ==
  ASSUME StubsInv, NEW t \in Thread, Resolve(t)
  PROVE  StubsInv'
<1> DEFINE found == android_dlsym(handle, at[t].f)
           there_already == [at[t] EXCEPT !.pc = "jump", !.got = NULL]
           looked_up     == [at[t] EXCEPT !.pc = "keep", !.got = found]
<1>1. /\ at[t].pc = "bind" /\ at[t] \in CallOfStub /\ at[t].f \in Symbol
      /\ UNCHANGED <<lib, there, handle, fptr, loads, refs, own, opened>>
  BY DEF Resolve, StubsInv, StubsTypeOK, CallGoesOn, CallOfStub
<1>2. found \in Load \cup {NULL} /\ OfThisLoad(found) /\ (there.loads /\ at[t].f \in there.symbols => found # NULL)
  BY <1>1 DEF StubsInv, StubsTypeOK, PointersBound, OfThisLoad, CallGoesOn, android_dlsym
<1>3. PICK c \in {there_already, looked_up} :
        /\ at' = [at EXCEPT ![t] = c]
        /\ c = there_already => fptr[at[t].f] # NULL
  <2>1. there_already # looked_up  BY <1>1 DEF CallOfStub
  <2>2. CASE fptr[at[t].f] # NULL  BY <2>2 DEF Resolve, Goes
  <2>3. CASE fptr[at[t].f] = NULL  BY <2>1, <2>3 DEF Resolve, Goes
  <2> QED  BY <2>2, <2>3
<1>4. /\ c \in CallOfStub /\ c.f = at[t].f /\ OfThisLoad(c.got)
      /\ c.pc \in {"jump", "keep"}
      /\ c.pc = "jump" => fptr[c.f] # NULL
      /\ c.pc = "keep" /\ Has(c.f) => c.got # NULL
  <2>1. CASE c = there_already  BY <1>1, <1>3, <2>1 DEF CallOfStub, OfThisLoad
  <2>2. CASE c = looked_up
    <3>1. c.pc = "keep" /\ c.got = found /\ c.f = at[t].f /\ c \in CallOfStub
      BY <1>1, <1>2, <2>2 DEF CallOfStub
    <3> QED  BY <1>2, <3>1 DEF Has
  <2> QED  BY <2>1, <2>2
<1> HIDE DEF found, there_already, looked_up
<1>5. StubsTypeOK'
  BY <1>1, <1>3, <1>4 DEF StubsInv, StubsTypeOK
<1>6. Counted'
  BY <1>1 DEF StubsInv, Counted
<1>7. PointersBound'
  BY <1>1, <1>3, <1>4 DEF StubsInv, StubsTypeOK, PointersBound, OfThisLoad
<1>8. ASSUME NEW u \in Thread PROVE CallGoesOn(u)'
  BY <1>1, <1>3, <1>4, StubsAssumption DEF StubsInv, StubsTypeOK, CallGoesOn, Has
<1> QED  BY <1>5, <1>6, <1>7, <1>8 DEF StubsInv

\* A pointer is replaced by another one to the same load.
LEMMA KeepKeeps ==
  ASSUME StubsInv, NEW t \in Thread, Keep(t)
  PROVE  StubsInv'
<1>1. StubsTypeOK'
  BY StubsAssumption DEF StubsInv, StubsTypeOK, Keep, CallOfStub, Goes, Rest, Counted, Load
<1>2. Counted'
  BY StubsAssumption DEF StubsInv, StubsTypeOK, Counted, Keep
<1>3. PointersBound'
  BY <1>1, StubsAssumption DEF StubsInv, StubsTypeOK, Counted, PointersBound, OfThisLoad, Keep, CallOfStub, Goes, Rest
<1>4. ASSUME NEW u \in Thread PROVE CallGoesOn(u)'
  BY StubsAssumption DEF StubsInv, StubsTypeOK, PointersBound, OfThisLoad, CallGoesOn, Has, Keep, CallOfStub, Goes, Rest
<1> QED  BY <1>1, <1>2, <1>3, <1>4 DEF StubsInv

\* Whoever finds NULL in the pointer calls what is missing.
LEMMA JumpKeeps ==
  ASSUME StubsInv, NEW t \in Thread, Jump(t)
  PROVE  StubsInv'
<1>t. [at[t] EXCEPT !.pc = IF fptr[at[t].f] = NULL THEN "crash" ELSE "inside", !.got = fptr[at[t].f]] \in CallOfStub
  BY StubsAssumption DEF StubsInv, StubsTypeOK, CallGoesOn, CallOfStub, Jump
<1>1. StubsTypeOK'
  BY <1>t, StubsAssumption DEF StubsInv, StubsTypeOK, Jump, CallOfStub, Goes, Rest, Counted, Load
<1>2. Counted'
  BY <1>t, StubsAssumption DEF StubsInv, StubsTypeOK, Counted, Jump
<1>3. PointersBound'
  BY <1>t, <1>1, StubsAssumption DEF StubsInv, StubsTypeOK, Counted, PointersBound, OfThisLoad, CallGoesOn, Jump, CallOfStub, Goes, Rest
<1>4. ASSUME NEW u \in Thread PROVE CallGoesOn(u)'
  BY <1>t, StubsAssumption DEF StubsInv, StubsTypeOK, PointersBound, OfThisLoad, CallGoesOn, Has, Jump, CallOfStub, Goes, Rest
<1> QED  BY <1>1, <1>2, <1>3, <1>4 DEF StubsInv

\* A call that returns leaves its thread at rest.
LEMMA ReturnKeeps ==
  ASSUME StubsInv, NEW t \in Thread, Return(t)
  PROVE  StubsInv'
<1>1. StubsTypeOK'
  BY StubsAssumption DEF StubsInv, StubsTypeOK, Return, CallOfStub, Goes, Rest, Counted, Load
<1>2. Counted'
  BY StubsAssumption DEF StubsInv, StubsTypeOK, Counted, Return
<1>3. PointersBound'
  BY <1>1, StubsAssumption DEF StubsInv, StubsTypeOK, Counted, PointersBound, OfThisLoad, Return, CallOfStub, Goes, Rest
<1>4. ASSUME NEW u \in Thread PROVE CallGoesOn(u)'
  BY StubsAssumption DEF StubsInv, StubsTypeOK, PointersBound, OfThisLoad, CallGoesOn, Has, Return, CallOfStub, Goes, Rest
<1> QED  BY <1>1, <1>2, <1>3, <1>4 DEF StubsInv

-----------------------------------------------------------------------------
(* The theorems.                                                           *)

LEMMA StubsInitially == ASSUME StubsInit PROVE StubsInv
<1>1. StubsTypeOK
  BY StubsAssumption DEF StubsInit, StubsTypeOK, CallOfStub, Rest
<1>2. Counted /\ PointersBound
  BY DEF StubsInit, Counted, PointersBound, OfThisLoad, Rest
<1>3. ASSUME NEW t \in Thread PROVE CallGoesOn(t)
  BY DEF StubsInit, CallGoesOn, Rest
<1> QED  BY <1>1, <1>2, <1>3 DEF StubsInv

LEMMA StubCallBegins ==
  ASSUME NEW t, NEW f, StubCall(t, f) PROVE Begin(t, f)
  BY DEF StubCall, EglCall, UiCall, Gl2Call, HardwareCall, SfCall, IsCall, MediaCall, CameraStub

LEMMA StubsStutter == ASSUME StubsInv, UNCHANGED stubVars PROVE StubsInv'
<1>1. StubsTypeOK' /\ Counted'
  BY DEF StubsInv, stubVars, StubsTypeOK, Counted
<1>2. PointersBound'
  BY DEF StubsInv, stubVars, PointersBound, OfThisLoad
<1>3. ASSUME NEW t \in Thread PROVE CallGoesOn(t)'
  BY DEF StubsInv, stubVars, CallGoesOn, Has
<1> QED  BY <1>1, <1>2, <1>3 DEF StubsInv

\* The inductive invariant of the stub libraries (the *_DLSYM macros, the
\* bridges' constructors and init_hybris).
THEOREM StubsInvariance == StubsSpec => []StubsInv
<1>1. StubsInit => StubsInv
  BY StubsInitially
<1>2. ASSUME StubsInv, [StubsNext]_stubVars PROVE StubsInv'
  <2>1. CASE UNCHANGED stubVars  BY <1>2, <2>1, StubsStutter
  <2>2. CASE Construct  BY <1>2, <2>2, ConstructKeeps
  <2>3. CASE ProgramOpens  BY <1>2, <2>3, ProgramOpensKeeps
  <2>4. CASE ProgramCloses  BY <1>2, <2>4, ProgramClosesKeeps
  <2>5. ASSUME NEW t \in Thread, NEW f \in Symbol, StubCall(t, f) PROVE StubsInv'
    BY <1>2, <2>5, StubCallBegins, BeginKeeps
  <2>6. ASSUME NEW t \in Thread, init_hybris(t) PROVE StubsInv'  BY <1>2, <2>6, InitHybrisKeeps
  <2>7. ASSUME NEW t \in Thread, Open(t) PROVE StubsInv'  BY <1>2, <2>7, OpenKeeps
  <2>8. ASSUME NEW t \in Thread, StoreHandle(t) PROVE StubsInv'  BY <1>2, <2>8, StoreHandleKeeps
  <2>9. ASSUME NEW t \in Thread, Resolve(t) PROVE StubsInv'  BY <1>2, <2>9, ResolveKeeps
  <2>10. ASSUME NEW t \in Thread, Keep(t) PROVE StubsInv'  BY <1>2, <2>10, KeepKeeps
  <2>11. ASSUME NEW t \in Thread, Jump(t) PROVE StubsInv'  BY <1>2, <2>11, JumpKeeps
  <2>12. ASSUME NEW t \in Thread, Return(t) PROVE StubsInv'  BY <1>2, <2>12, ReturnKeeps
  <2> QED
    BY <1>2, <2>1, <2>2, <2>3, <2>4, <2>5, <2>6, <2>7, <2>8, <2>9, <2>10, <2>11, <2>12 DEF StubsNext
<1> QED  BY <1>1, <1>2, PTL DEF StubsSpec

\* The types, in particular that the linker's count never falls below nothing.
THEOREM StubsTypeCorrect == StubsSpec => []StubsTypeOK
<1>1. StubsInv => StubsTypeOK  BY DEF StubsInv
<1> QED  BY <1>1, StubsInvariance, PTL

\* However many threads race at the first calls of however many functions, none
\* goes through NULL unless the library or the function is missing.
THEOREM CallsAreBound == StubsSpec => []CallsBound
<1>1. StubsInv => CallsBound  BY DEF StubsInv, CallGoesOn, Has, CallsBound
<1> QED  BY <1>1, StubsInvariance, PTL

\* Whatever the program opens and closes by itself, no thread runs in, or keeps
\* the address of, a library that was unloaded under it.
THEOREM BoundAreLoaded == StubsSpec => []BoundStaysLoaded
<1>1. ASSUME StubsInv PROVE BoundStaysLoaded
  <2>1. opened > 0 => refs > 0  BY <1>1 DEF StubsInv, StubsTypeOK, Counted
  <2>2. \A f \in Symbol : fptr[f] # NULL => refs > 0 /\ fptr[f] = loads
    BY <1>1, <2>1 DEF StubsInv, PointersBound, OfThisLoad
  <2>3. \A t \in Thread : at[t].pc = "inside" => refs > 0 /\ at[t].got = loads
    BY <1>1, <2>1 DEF StubsInv, PointersBound, OfThisLoad, CallGoesOn
  <2> QED  BY <2>2, <2>3 DEF BoundStaysLoaded
<1> QED  BY <1>1, StubsInvariance, PTL
=============================================================================
