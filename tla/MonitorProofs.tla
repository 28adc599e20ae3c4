----------------------------- MODULE MonitorProofs -----------------------------
(***************************************************************************)
(* Proofs about the mutexes and condition variables of hooked code, for    *)
(* any number of threads, objects and addresses, and any depth: the        *)
(* invariants of PthreadHooks, and that it implements Monitor.             *)
(***************************************************************************)
EXTENDS HooksInv, TLAPS

Good == GoodOrder /\ HeapHigh /\ InitialisersKnown

-----------------------------------------------------------------------------
(* Words.                                                                  *)

LEMMA NullIsNone == NULL \notin Mutex /\ NULL \notin Cond /\ Mutex \cap Cond = {} /\ NoThread \notin Thread
  BY HooksAssumption

LEMMA GuardIsMutex == ASSUME NEW c \in Cond PROVE GuardedBy[c] \in Mutex
  BY HooksAssumption

LEMMA AddressIsInt == ASSUME NEW a \in Heap PROVE a \in Int
  BY HooksAssumption

LEMMA InitialiserIsLow == ASSUME NEW v \in MutexWord \cup CondWord PROVE v \in Int /\ Low(v)
  BY HooksAssumption DEF Low, ANDROID_TOP_ADDR_VALUE

LEMMA InitialiserIsNoAddress == ASSUME Good, NEW v \in MutexWord \cup CondWord PROVE v \notin Heap
  BY InitialiserIsLow DEF Good, HeapHigh

LEMMA AddressIsPrivate == ASSUME Good, NEW a \in Heap PROVE ~hybris_check_android_shared_mutex(a)
  BY DEF Good, HeapHigh, hybris_check_android_shared_mutex

\* The mutex made at a first use is of the type its initialiser stands for.
LEMMA KindAsked ==
  ASSUME Good, NEW v \in MutexWord, ~hybris_check_android_shared_mutex(v)
  PROVE  hybris_set_mutex_attr(v) = InitializerType(v)
  BY InitialiserIsLow DEF Good, InitialisersKnown, hybris_check_android_shared_mutex

LEMMA KindIsType == ASSUME NEW v PROVE hybris_set_mutex_attr(v) \in Type /\ InitializerType(v) \in Type
  BY DEF hybris_set_mutex_attr, InitializerType, Type, ANDROID_RECURSIVE_MUTEX, ANDROID_ERRORCHECK_MUTEX

LEMMA NoCallIsCall == NoCall \in Call
  BY DEF NoCall, Call

LEMMA NoCallFields ==
  NoCall.pc = "idle" /\ NoCall.op = NULL /\ NoCall.c = NULL /\ NoCall.m = NULL
  BY DEF NoCall

LEMMA NewReals == Freed \in Real /\ NewCond \in Real /\ \A k \in Type : NewMutex(k) \in Real
  BY DEF Freed, NewCond, NewMutex, Real, Type

LEMMA NewFields ==
  /\ Freed.is = "free" /\ NewCond.is = "cond"
  /\ \A k \in Type : NewMutex(k).is = "mutex" /\ NewMutex(k).kind = k
                     /\ NewMutex(k).owner = NoThread /\ NewMutex(k).depth = 0
  BY DEF Freed, NewCond, NewMutex

-----------------------------------------------------------------------------
(* Init.                                                                   *)

LEMMA HooksInitially == ASSUME Init, Good PROVE HooksInv
<1>1. /\ word \in [Object -> MutexWord \cup CondWord]
      /\ \A m \in Mutex : word[m] \in MutexWord
      /\ \A c \in Cond  : word[c] \in CondWord
  BY DEF Init
<1>2. /\ \A o \in Object : word[o] \in Int /\ word[o] \notin Heap
      /\ \A m \in Mutex : type[m] = InitializerType(word[m])
      /\ \A o \in Object : Live(o) /\ type[o] \in Type \cup {"dead"}
  <2>1. \A o \in Object : word[o] \in Int /\ word[o] \notin Heap
    BY <1>1, InitialiserIsLow, InitialiserIsNoAddress
  <2>2. \A m \in Mutex : type[m] = InitializerType(word[m])
    BY DEF Init, Object
  <2>3. \A c \in Cond : type[c] = "normal"
    BY NullIsNone DEF Init, Object
  <2> QED  BY <2>1, <2>2, <2>3, KindIsType DEF Live, Type, Object
<1>3. /\ \A t \in Thread : th[t] = NoCall /\ \A m \in Mutex : held[t][m] = 0
      /\ \A a \in Heap : real[a] = Freed
  BY DEF Init
<1>4. HooksTypeOK
  <2>1. type \in [Object -> Type \cup {"dead"}]  BY <1>2 DEF Init
  <2>2. word \in [Object -> Int]  BY <1>1, <1>2
  <2> QED  BY <2>1, <2>2, NoCallIsCall, NewReals DEF Init, HooksTypeOK
<1>5. CallShape  BY <1>3, NoCallFields DEF CallShape
<1>6. WordsRead  BY <1>3, NoCallFields, NullIsNone DEF WordsRead, ReadBy, InUse
<1>7. Alone  BY <1>3, NoCallFields, NullIsNone DEF Alone, InUse, Object
<1>8. HeldOf  BY <1>2, <1>3, NoCallFields, NullIsNone DEF HeldOf, Object
<1>9. WordsOf
  BY <1>1, <1>2, <1>3, NewFields DEF WordsOf, Made, Unallocated, Object
<1>10. OwnersAgree  BY <1>2, <1>3 DEF OwnersAgree, Object
<1> QED  BY <1>4, <1>5, <1>6, <1>7, <1>8, <1>9, <1>10 DEF HooksInv

-----------------------------------------------------------------------------
(* The steps of a hook.                                                    *)

\* A call begins: on objects that are alive, that nobody uses for the first
\* time or destroys, and that the hooks do not leave alone.
MayBegin(t, op, c, m) ==
  /\ th[t].pc = "idle"
  /\ op \in LockOps \cup {"unlock"} => c = NULL /\ m \in Mutex
  /\ op \in WaitOps => c \in Cond /\ m = GuardedBy[c] /\ held[t][m] = 1
  /\ op \in WakeOps => c \in Cond /\ m = NULL
  /\ op = "destroy" => \/ c = NULL /\ m \in Mutex /\ AtRest(m) /\ word[m] \in Heap
                       \/ c \in Cond /\ m = NULL /\ AtRest(c) /\ word[c] \in Heap
  /\ op = "unlock" => held[t][m] > 0 /\ word[m] \in Heap
  /\ \A o \in Object : o \in {c, m} => Live(o) /\ ~BeingDestroyed(o) /\ ~InFirstUse(o)
  /\ m # NULL => ~hybris_check_android_shared_mutex(word[m])

\* What is neither low nor dead is an address.
LEMMA HighIsAddress ==
  ASSUME HooksInv, NEW o \in Object, ~Low(word[o])
  PROVE  word[o] \in Heap
  BY InitialiserIsLow DEF HooksInv, WordsOf, Object

LEMMA HeapIsHigh == ASSUME Good, NEW a \in Heap PROVE ~Low(a)
  BY DEF Good, HeapHigh

LEMMA BeginKeeps ==
  ASSUME HooksInv, Good, NEW t \in Thread, NEW op \in Op,
         NEW c \in Cond \cup {NULL}, NEW m \in Mutex \cup {NULL},
         MayBegin(t, op, c, m), Begin(t, op, c, m)
  PROVE  HooksInv'
<1> USE DEF HooksInv
<1> DEFINE cv == IF c = NULL THEN 0 ELSE word[c]
           mv == IF m = NULL THEN 0 ELSE word[m]
           r  == [pc |-> FirstStep(op, cv, mv), op |-> op, c |-> c, m |-> m, cv |-> cv, mv |-> mv]
<1>1. th' = [th EXCEPT ![t] = r] /\ UNCHANGED <<word, real, held, type, nvidia_hack>>
  BY DEF Begin
<1>2. cv \in Int /\ mv \in Int
  BY DEF HooksTypeOK, Object
<1>3. /\ r.pc = FirstStep(op, cv, mv) /\ r.op = op /\ r.c = c /\ r.m = m /\ r.cv = cv /\ r.mv = mv
      /\ FirstStep(op, cv, mv) \in {"cond", "mutex", "call"}
  BY DEF FirstStep
<1>4. r \in Call
  BY <1>2, <1>3 DEF Call
<1> HIDE DEF r
<1>5. th' \in [Thread -> Call] /\ th'[t] = r /\ \A u \in Thread \ {t} : th'[u] = th[u]
  BY <1>1, <1>4 DEF HooksTypeOK
<1>6. HooksTypeOK'  BY <1>1, <1>5 DEF HooksTypeOK
<1>7. CallShape'
  <2>1. /\ r.pc # "idle" /\ r.pc \notin {"asleep", "relock"}
        /\ r.pc = "cond" => op \in WaitOps \cup WakeOps
        /\ r.pc = "mutex" => op \in LockOps \cup WaitOps
    BY <1>3 DEF FirstStep
  <2>2. op = "destroy" => (c = NULL) # (m = NULL)
    BY NullIsNone DEF MayBegin
  <2>3. r # NoCall  BY <2>1, NoCallFields
  <2> QED  BY <1>3, <1>5, <2>1, <2>2, <2>3 DEF CallShape, MayBegin
<1>8. \A u \in Thread \ {t} : \A o \in Object :
        /\ InUse(u, o)' <=> InUse(u, o)
        /\ FirstUse(u, o)' <=> FirstUse(u, o)
  BY <1>5 DEF InUse, FirstUse
<1>9. \A o \in Object : InUse(t, o)' <=> o \in {c, m}
  BY <1>3, <1>5 DEF InUse
<1>10. \A o \in Object : o \in {c, m} =>
         /\ Live(o)
         /\ IF o \in Mutex THEN o = m /\ mv = word[o] ELSE o = c /\ cv = word[o]
         /\ FirstUse(t, o)' <=> Low(word[o])
         /\ ~Low(word[o]) <=> word[o] \in Heap
  <2> SUFFICES ASSUME NEW o \in Object, o \in {c, m}
               PROVE  /\ Live(o)
                      /\ IF o \in Mutex THEN o = m /\ mv = word[o] ELSE o = c /\ cv = word[o]
                      /\ FirstUse(t, o)' <=> Low(word[o])
                      /\ ~Low(word[o]) <=> word[o] \in Heap
    OBVIOUS
  <2>1. Live(o)  BY DEF MayBegin
  <2>2. IF o \in Mutex THEN o = m /\ mv = word[o] ELSE o = c /\ cv = word[o]
    BY NullIsNone DEF Object
  <2>3. ~Low(word[o]) <=> word[o] \in Heap  BY HighIsAddress, HeapIsHigh
  <2>4. CASE o \in Mutex
    <3>1. FirstUse(t, o)' <=> r.pc \in {"cond", "mutex"} /\ Low(word[o])
      BY <1>3, <1>5, <2>2, <2>4, NullIsNone DEF FirstUse
    <3>2. Low(word[o]) => op \in LockOps \cup WaitOps
      BY <2>2, <2>3, <2>4, NullIsNone DEF MayBegin, Op
    <3>3. Low(word[o]) => FirstStep(op, cv, mv) \in {"cond", "mutex"}
      BY <2>2, <2>4, <3>2 DEF FirstStep
    <3> QED  BY <1>3, <2>1, <2>2, <2>3, <3>1, <3>3
  <2>5. CASE o \in Cond
    <3>1. FirstUse(t, o)' <=> r.pc = "cond"
      BY <1>3, <1>5, <2>2, <2>5, NullIsNone DEF FirstUse
    <3>2. Low(word[o]) => op \in WakeOps \cup WaitOps
      BY <2>2, <2>3, <2>5, NullIsNone DEF MayBegin, Op
    <3>3. Low(word[o]) <=> FirstStep(op, cv, mv) = "cond"
      BY <2>2, <2>5, <3>2, NullIsNone DEF FirstStep
    <3> QED  BY <1>3, <2>1, <2>2, <2>3, <3>1, <3>3
  <2> QED  BY <2>4, <2>5 DEF Object
<1>11. WordsRead'
  <2> SUFFICES ASSUME NEW u \in Thread PROVE ReadBy(u)'
    BY DEF WordsRead
  <2>1. CASE u # t
    BY <1>1, <1>5, <1>8, <2>1 DEF WordsRead, ReadBy, Live, Object
  <2>2. ASSUME NEW n \in Mutex, n \in {c, m}
        PROVE  /\ Live(n)' /\ th'[t].mv = word'[n]
               /\ ~hybris_check_android_shared_mutex(word'[n])
               /\ FirstUse(t, n)' \/ word'[n] \in Heap
               /\ th'[t].pc = "mutex" => Low(th'[t].mv)
    <3>1. n \in Object /\ n = m /\ m # NULL  BY <1>10, <2>2, NullIsNone DEF Object
    <3>2. FirstStep(op, cv, mv) = "mutex" => Low(mv)  BY DEF FirstStep
    <3> QED  BY <1>1, <1>3, <1>5, <1>10, <2>2, <3>1, <3>2 DEF Live, MayBegin
  <2>3. ASSUME NEW n \in Cond, n \in {c, m}
        PROVE  /\ Live(n)' /\ th'[t].cv = word'[n]
               /\ IF th'[t].pc = "cond" THEN Low(word'[n]) ELSE word'[n] \in Heap
    <3>1. n \in Object /\ n = c /\ n # m  BY <1>10, <2>3, NullIsNone DEF Object
    <3>2. FirstUse(t, n)' <=> th'[t].pc = "cond"
      BY <1>3, <1>5, <3>1 DEF FirstUse
    <3> QED  BY <1>1, <1>3, <1>5, <1>10, <2>3, <3>1, <3>2, NullIsNone DEF Live
  <2> QED  BY <1>9, <2>1, <2>2, <2>3 DEF ReadBy, Object
<1>12. Alone'
  <2>1. ASSUME NEW o \in Object, o \in {c, m}, NEW u \in Thread \ {t}, InUse(u, o)
        PROVE  /\ ~FirstUse(t, o)' /\ op # "destroy"
               /\ ~FirstUse(u, o) /\ th[u].op # "destroy"
    <3>1. ~FirstUse(u, o) /\ th[u].op # "destroy"
      BY <2>1 DEF MayBegin, InFirstUse, BeingDestroyed, FirstUse, InUse
    <3>2. word[o] \in Heap
      <4>1. CASE o \in Mutex  BY <2>1, <3>1, <4>1 DEF WordsRead, ReadBy
      <4>2. CASE o \in Cond
        <5>1. th[u].c = o /\ th[u].pc # "cond"
          BY <2>1, <3>1, <4>2, NullIsNone DEF FirstUse, InUse, HooksTypeOK, Call
        <5> QED  BY <2>1, <4>2, <5>1 DEF WordsRead, ReadBy
      <4> QED  BY <4>1, <4>2 DEF Object
    <3>3. op # "destroy"
      BY <2>1, NullIsNone DEF MayBegin, AtRest, InUse, Object
    <3> QED  BY <1>10, <2>1, <3>1, <3>2, <3>3
  <2> SUFFICES ASSUME NEW u \in Thread, NEW v \in Thread, NEW o \in Object,
                      FirstUse(u, o)' \/ th'[u].op = "destroy", InUse(u, o)', InUse(v, o)'
               PROVE  u = v
    BY DEF Alone
  <2>2. CASE u = t /\ v # t
    BY <1>3, <1>5, <1>8, <1>9, <2>1, <2>2
  <2>3. CASE u # t /\ v = t
    BY <1>3, <1>5, <1>8, <1>9, <2>1, <2>3
  <2>4. CASE u # t /\ v # t
    BY <1>5, <1>8, <2>4 DEF Alone
  <2> QED  BY <2>2, <2>3, <2>4
<1>14. HeldOf'
  <2>1. op = "destroy" /\ m # NULL => \A u \in Thread : held[u][m] = 0
    BY NullIsNone DEF MayBegin, AtRest
  <2> SUFFICES ASSUME NEW u \in Thread, NEW n \in Mutex
               PROVE  /\ ~Live(n)' => held'[u][n] = 0
                      /\ \A v \in Thread : th'[v].op = "destroy" /\ th'[v].m = n => held'[u][n] = 0
                      /\ th'[u].m = n /\ th'[u].op = "unlock" => held'[u][n] > 0
                      /\ th'[u].m = n /\ th'[u].op \in WaitOps /\ th'[u].pc \in {"cond", "mutex", "call"}
                           => held'[u][n] = 1
    BY DEF HeldOf
  <2>2. ~Live(n)' => held'[u][n] = 0  BY <1>1 DEF HeldOf, Live
  <2>3. \A v \in Thread : th'[v].op = "destroy" /\ th'[v].m = n => held'[u][n] = 0
    BY <1>1, <1>3, <1>5, <2>1, NullIsNone DEF HeldOf
  <2>4. CASE u # t  BY <1>1, <1>5, <2>2, <2>3, <2>4 DEF HeldOf
  <2>5. CASE u = t
    BY <1>1, <1>3, <1>5, <2>2, <2>3, <2>5, NullIsNone DEF MayBegin
  <2> QED  BY <2>4, <2>5
<1>13. WordsOf' /\ OwnersAgree'
  BY <1>1 DEF WordsOf, OwnersAgree, Made, Live, Unallocated, Hooked
<1> QED  BY <1>6, <1>7, <1>11, <1>12, <1>13, <1>14

\* What is at rest is in no call that could disturb it.
LEMMA AtRestIsFree ==
  ASSUME HooksInv, NEW o \in Object, AtRest(o)
  PROVE  /\ ~BeingDestroyed(o) /\ ~InFirstUse(o) /\ \A u \in Thread : ~InUse(u, o)
<1>1. ASSUME NEW u \in Thread
      PROVE  /\ th[u].m # o /\ (th[u].c = o => th[u].pc = "relock")
             /\ th[u].pc = "relock" => th[u].op # "destroy"
  BY DEF AtRest, HooksInv, CallShape, WaitOps
<1> QED  BY <1>1 DEF BeingDestroyed, InFirstUse, InUse

\* The hook pretends: for a mutex that is not hooked.
LEMMA PretendKeeps ==
  ASSUME HooksInv, Good, NEW t \in Thread, NEW m \in Mutex, NEW n \in {-1, 1},
         Live(m), ~BeingDestroyed(m), th[t].pc = "idle", n = -1 => held[t][m] > 0,
         ~Hooked(m), Pretend(t, m, n)
  PROVE  HooksInv'
<1> USE DEF HooksInv
<1>1. UNCHANGED <<word, real, th, type, nvidia_hack>> /\ held' = [held EXCEPT ![t][m] = @ + n]
  BY DEF Pretend
<1>2. held[t][m] \in Nat /\ held[t][m] + n \in Nat
  BY DEF HooksTypeOK
<1>3. /\ held' \in [Thread -> [Mutex -> Nat]]
      /\ \A u \in Thread, k \in Mutex : ~(u = t /\ k = m) => held'[u][k] = held[u][k]
  BY <1>1, <1>2 DEF HooksTypeOK
<1>4. HooksTypeOK'  BY <1>1, <1>3 DEF HooksTypeOK
<1>5. CallShape'  BY <1>1 DEF CallShape
<1>6. WordsRead' /\ Alone' /\ WordsOf'
  BY <1>1 DEF WordsRead, ReadBy, Alone, WordsOf, InUse, FirstUse, Live, Made, Unallocated
<1>7. HeldOf'
  <2>1. th[t].m # m  BY NoCallFields, NullIsNone DEF CallShape
  <2>2. \A u \in Thread : ~(th[u].op = "destroy" /\ th[u].m = m)
    BY DEF BeingDestroyed
  <2> QED  BY <1>1, <1>3, <2>1, <2>2 DEF HeldOf, Live
<1>8. OwnersAgree'
  <2>1. \A k \in Mutex : Hooked(k)' => Hooked(k) /\ k # m  BY <1>1 DEF Hooked
  <2> QED  BY <1>1, <1>3, <2>1 DEF OwnersAgree, Live
<1> QED  BY <1>4, <1>5, <1>6, <1>7, <1>8

\* Nothing changes.
LEMMA StutterKeeps == ASSUME HooksInv, UNCHANGED vars PROVE HooksInv'
  BY DEF HooksInv, vars, HooksTypeOK, CallShape, WordsRead, ReadBy, Alone, HeldOf, WordsOf, OwnersAgree,
         InUse, FirstUse, Live, Made, Unallocated, Hooked

LEMMA CallsKeep ==
  ASSUME HooksInv, Good, NEW t \in Thread, NEW m \in Mutex,
         Lock(t, m) \/ Trylock(t, m) \/ Unlock(t, m) \/ MutexDestroy(t, m)
  PROVE  HooksInv'
<1> USE DEF Live
<1>1. th[t].pc = "idle" /\ Live(m) /\ ~BeingDestroyed(m) /\ ~InFirstUse(m)
  <2>1. CASE MutexDestroy(t, m)
    BY <2>1, AtRestIsFree DEF MutexDestroy, MayDestroy, Object
  <2>2. CASE Lock(t, m) \/ Trylock(t, m) \/ Unlock(t, m)
    BY <2>2 DEF Lock, Trylock, Unlock, MayLock, MayUnlock, MayUse, Good, GoodOrder
  <2> QED  BY <2>1, <2>2
<1>2. Hooked(m) <=> ~nvidia_hack /\ ~hybris_check_android_shared_mutex(word[m])  BY DEF Hooked
<1>3. m \in Object /\ m # NULL  BY NullIsNone DEF Object
<1>4. ASSUME NEW op \in LockOps, Begin(t, op, NULL, m), ~hybris_check_android_shared_mutex(word[m])
      PROVE  HooksInv'
  <2>1. MayBegin(t, op, NULL, m)
    BY <1>1, <1>3, <1>4, NullIsNone DEF MayBegin, LockOps, WaitOps, WakeOps, Object
  <2> QED  BY <1>4, <2>1, BeginKeeps DEF Op
<1>5. CASE Lock(t, m)
  BY <1>1, <1>2, <1>4, <1>5, PretendKeeps DEF Lock, LockOps
<1>6. CASE Trylock(t, m)
  BY <1>1, <1>2, <1>4, <1>6, PretendKeeps DEF Trylock, LockOps
<1>7. CASE Unlock(t, m)
  <2>1. held[t][m] > 0  BY <1>7 DEF Unlock, MayUnlock
  <2>2. CASE (nvidia_hack \/ Low(word[m])) /\ Pretend(t, m, -1)
    <3>1. ~Hooked(m)
      BY <1>1, <1>2, <2>1, <2>2, HeapIsHigh DEF HooksInv, OwnersAgree
    <3> QED  BY <1>1, <2>1, <2>2, <3>1, PretendKeeps
  <2>3. CASE ~nvidia_hack /\ ~Low(word[m]) /\ Begin(t, "unlock", NULL, m)
    <3>1. word[m] \in Heap /\ ~hybris_check_android_shared_mutex(word[m])
      BY <1>3, <2>3, HighIsAddress, AddressIsPrivate
    <3>2. MayBegin(t, "unlock", NULL, m)
      BY <1>1, <1>3, <2>1, <3>1, NullIsNone DEF MayBegin, LockOps, WaitOps, WakeOps, Object
    <3> QED  BY <2>3, <3>2, BeginKeeps DEF Op
  <2> QED  BY <1>7, <2>2, <2>3 DEF Unlock
<1>8. CASE MutexDestroy(t, m)
  <2>1. AtRest(m) /\ word[m] \in Heap /\ Begin(t, "destroy", NULL, m)
    BY <1>8 DEF MutexDestroy, MayDestroy, Good, GoodOrder
  <2>2. ~hybris_check_android_shared_mutex(word[m])  BY <2>1, AddressIsPrivate
  <2>3. MayBegin(t, "destroy", NULL, m)
    BY <1>1, <1>3, <2>1, <2>2, NullIsNone DEF MayBegin, LockOps, WaitOps, WakeOps, Object
  <2> QED  BY <2>1, <2>3, BeginKeeps DEF Op
<1> QED  BY <1>5, <1>6, <1>7, <1>8

LEMMA CondCallsKeep ==
  ASSUME HooksInv, Good, NEW t \in Thread, NEW c \in Cond,
         \/ Signal(t, c) \/ Broadcast(t, c) \/ CondDestroy(t, c)
         \/ \E m \in Mutex : Wait(t, c, m) \/ Timedwait(t, c, m)
  PROVE  HooksInv'
<1> USE DEF Live
<1>1. th[t].pc = "idle" /\ Live(c) /\ ~BeingDestroyed(c) /\ ~InFirstUse(c)
  <2>1. CASE CondDestroy(t, c)
    BY <2>1, AtRestIsFree DEF CondDestroy, MayDestroy, Object
  <2>2. CASE Signal(t, c) \/ Broadcast(t, c) \/ \E m \in Mutex : Wait(t, c, m) \/ Timedwait(t, c, m)
    BY <2>2 DEF Signal, Broadcast, Wait, Timedwait, MayWait, MayUse, Good, GoodOrder
  <2> QED  BY <2>1, <2>2
<1>2. c \in Object /\ c # NULL /\ c \notin Mutex  BY NullIsNone DEF Object
<1>3. ASSUME NEW op \in WakeOps, Begin(t, op, c, NULL) PROVE HooksInv'
  <2>1. MayBegin(t, op, c, NULL)
    BY <1>1, <1>2, <1>3, NullIsNone DEF MayBegin, LockOps, WaitOps, WakeOps, Object
  <2> QED  BY <1>3, <2>1, BeginKeeps DEF Op
<1>4. ASSUME NEW op \in WaitOps, NEW m \in Mutex, MayWait(t, c, m), Begin(t, op, c, m), ~Shared(c, m)
      PROVE  HooksInv'
  <2>1. /\ Live(m) /\ ~BeingDestroyed(m) /\ ~InFirstUse(m) /\ m = GuardedBy[c] /\ held[t][m] = 1
        /\ ~hybris_check_android_shared_mutex(word[m])
    BY <1>4 DEF MayWait, MayUse, Good, GoodOrder, Shared
  <2>2. MayBegin(t, op, c, m)
    BY <1>1, <1>2, <2>1, NullIsNone DEF MayBegin, LockOps, WaitOps, WakeOps, Object
  <2> QED  BY <1>4, <2>2, BeginKeeps DEF Op
<1>5. CASE CondDestroy(t, c)
  <2>1. AtRest(c) /\ word[c] \in Heap /\ Begin(t, "destroy", c, NULL)
    BY <1>5 DEF CondDestroy, MayDestroy, Good, GoodOrder
  <2>2. MayBegin(t, "destroy", c, NULL)
    BY <1>1, <1>2, <2>1, NullIsNone DEF MayBegin, LockOps, WaitOps, WakeOps, Object
  <2> QED  BY <2>1, <2>2, BeginKeeps DEF Op
<1>6. CASE Signal(t, c)
  BY <1>3, <1>6, StutterKeeps DEF Signal, WakeOps
<1>7. CASE Broadcast(t, c)
  BY <1>3, <1>7, StutterKeeps DEF Broadcast, WakeOps
<1>8. ASSUME NEW m \in Mutex, Wait(t, c, m) PROVE HooksInv'
  BY <1>4, <1>8, StutterKeeps DEF Wait, WaitOps
<1>9. ASSUME NEW m \in Mutex, Timedwait(t, c, m) PROVE HooksInv'
  BY <1>4, <1>9, StutterKeeps DEF Timedwait, WaitOps
<1> QED  BY <1>5, <1>6, <1>7, <1>8, <1>9

-----------------------------------------------------------------------------
(* A glibc object is made, by an init or at the first use.                 *)

LEMMA NewObject ==
  ASSUME HooksInv, Good, NEW o \in Object, ~Made(o), NEW a \in Unallocated, NEW x \in Real,
         word' = [word EXCEPT ![o] = a], real' = [real EXCEPT ![a] = x],
         UNCHANGED <<held, nvidia_hack>>,
         type'[o] # "dead", \A p \in Object \ {o} : type'[p] = type[p],
         IF o \in Mutex THEN x = NewMutex(type'[o]) /\ type'[o] \in Type ELSE x = NewCond,
         o \in Mutex /\ ~nvidia_hack => \A t \in Thread : held[t][o] = 0
  PROVE  word' \in [Object -> Int] /\ real' \in [Heap -> Real] /\ WordsOf' /\ OwnersAgree'
<1> USE DEF HooksInv
<1>1. a \in Heap /\ a \in Int /\ real[a].is = "free"
  BY AddressIsInt DEF Unallocated
<1>2. /\ word' \in [Object -> Int] /\ real' \in [Heap -> Real]
      /\ word'[o] = a /\ \A p \in Object \ {o} : word'[p] = word[p]
      /\ real'[a] = x /\ \A b \in Heap \ {a} : real'[b] = real[b]
  BY <1>1 DEF HooksTypeOK
<1>3. Made(o)' /\ \A p \in Object \ {o} : (Made(p)' <=> Made(p)) /\ (Live(p)' <=> Live(p))
  BY <1>1, <1>2 DEF Made, Live
<1>4. \A p \in Object : Made(p) => word[p] \in Heap /\ word[p] # a /\ p # o
  BY <1>1 DEF WordsOf, Made, Object
<1>5. x.is = (IF o \in Mutex THEN "mutex" ELSE "cond") /\ x.is # "free"
  BY NewFields
<1>6. \A p \in Object \ {o} : Live(p) /\ word[p] \in Heap => real'[word'[p]] = real[word[p]]
  BY <1>2, <1>4 DEF Made
<1>7. WordsOf'
  <2>1. ASSUME NEW m \in Mutex
        PROVE  IF word'[m] \in Heap THEN Live(m)' => real'[word'[m]].is = "mutex"
               ELSE word'[m] \in MutexWord /\ type'[m] = InitializerType(word'[m])
    <3>1. CASE m = o  BY <1>1, <1>2, <1>5, <3>1
    <3>2. CASE m # o  BY <1>2, <1>3, <1>6, <3>2 DEF WordsOf, Object
    <3> QED  BY <3>1, <3>2
  <2>2. ASSUME NEW c \in Cond
        PROVE  IF word'[c] \in Heap THEN Live(c)' => real'[word'[c]].is = "cond"
               ELSE word'[c] \in CondWord /\ Live(c)'
    <3>1. CASE c = o  BY <1>1, <1>2, <1>5, <3>1, NullIsNone
    <3>2. CASE c # o  BY <1>2, <1>3, <1>6, <3>2 DEF WordsOf, Object
    <3> QED  BY <3>1, <3>2
  <2>3. \A p, q \in Object : Made(p)' /\ Made(q)' /\ word'[p] = word'[q] => p = q
    BY <1>2, <1>3, <1>4 DEF WordsOf
  <2>4. ASSUME NEW b \in Heap, real'[b].is # "free" PROVE \E p \in Object : Made(p)' /\ word'[p] = b
    <3>1. CASE b = a  BY <1>2, <1>3, <3>1
    <3>2. CASE b # a
      <4>1. PICK p \in Object : Made(p) /\ word[p] = b
        BY <1>2, <2>4, <3>2 DEF WordsOf, Unallocated
      <4> QED  BY <1>2, <1>3, <1>4, <4>1
    <3> QED  BY <3>1, <3>2
  <2>5. \A b \in (Heap \ Unallocated)' : \E p \in Object : Made(p)' /\ word'[p] = b
    BY <2>4 DEF Unallocated
  <2> QED  BY <2>1, <2>2, <2>3, <2>5 DEF WordsOf
<1>8. OwnersAgree'
  <2> SUFFICES ASSUME ~nvidia_hack, NEW m \in Mutex, Live(m)', Hooked(m)'
               PROVE  IF word'[m] \in Heap
                      THEN LET r == real'[word'[m]]
                           IN /\ Locked(r) /\ r.kind = type'[m]
                              /\ \A t \in Thread : held'[t][m] = IF r.owner = t THEN r.depth ELSE 0
                      ELSE \A t \in Thread : held'[t][m] = 0
    BY DEF OwnersAgree
  <2>1. CASE m = o
    <3>1. x.owner = NoThread /\ x.depth = 0 /\ x.kind = type'[m]  BY <2>1, NewFields
    <3> QED  BY <1>1, <1>2, <2>1, <3>1, NullIsNone DEF Locked
  <2>2. CASE m # o
    <3>1. Hooked(m) /\ Live(m)  BY <1>2, <1>3, <2>2 DEF Hooked, Object
    <3> QED  BY <1>2, <1>3, <1>6, <2>2, <3>1 DEF OwnersAgree, Object
  <2> QED  BY <2>1, <2>2
<1> QED  BY <1>2, <1>7, <1>8

LEMMA NotMade == ASSUME Good, NEW o \in Object, ~Live(o) \/ word[o] \in MutexWord \cup CondWord PROVE ~Made(o)
  BY InitialiserIsNoAddress DEF Made

LEMMA InitsKeep ==
  ASSUME HooksInv, Good, NEW t \in Thread, NEW o \in Object, MayInit(t, o),
         NEW a \in Unallocated, NEW k \in Type,
         word' = [word EXCEPT ![o] = a],
         real' = [real EXCEPT ![a] = IF o \in Mutex THEN NewMutex(k) ELSE NewCond],
         type' = [type EXCEPT ![o] = k],
         UNCHANGED <<th, held, nvidia_hack>>
  PROVE  HooksInv'
<1> USE DEF HooksInv
<1>1. ~Made(o) /\ AtRest(o)
  BY NotMade DEF MayInit, Live
<1>2. \A u \in Thread : ~InUse(u, o) /\ th[u].m # o
  BY <1>1, AtRestIsFree DEF AtRest
<1>3. type'[o] = k /\ k # "dead" /\ type' \in [Object -> Type \cup {"dead"}]
      /\ \A p \in Object \ {o} : type'[p] = type[p] /\ word'[p] = word[p]
  BY DEF HooksTypeOK, Type
<1>4. (IF o \in Mutex THEN NewMutex(k) ELSE NewCond) \in Real
  BY NewReals
<1>5. word' \in [Object -> Int] /\ real' \in [Heap -> Real] /\ WordsOf' /\ OwnersAgree'
  BY <1>1, <1>3, <1>4, NewObject DEF AtRest
<1>6. HooksTypeOK'  BY <1>3, <1>5 DEF HooksTypeOK
<1>7. CallShape' /\ Alone'  BY DEF CallShape, Alone, InUse, FirstUse
<1>8. WordsRead'
  BY <1>2, <1>3 DEF WordsRead, ReadBy, InUse, FirstUse, Live, Object
<1>9. HeldOf'
  BY <1>2, <1>3 DEF HeldOf, Live, Object
<1> QED  BY <1>5, <1>6, <1>7, <1>8, <1>9

\* At a first use the word is an initialiser.
LEMMA FirstUseOf ==
  ASSUME HooksInv, Good, NEW t \in Thread, NEW o \in Object, FirstUse(t, o)
  PROVE  /\ InUse(t, o) /\ Live(o) /\ ~Made(o)
         /\ \A u \in Thread \ {t} : ~InUse(u, o)
         /\ o \in Mutex => /\ o = th[t].m /\ th[t].mv = word[o] /\ word[o] \in MutexWord
                           /\ ~hybris_check_android_shared_mutex(word[o])
                           /\ type[o] = InitializerType(word[o])
                           /\ ~nvidia_hack => \A u \in Thread : held[u][o] = 0
         /\ o \in Cond => o = th[t].c /\ th[t].pc = "cond"
<1> USE DEF HooksInv
<1>1. InUse(t, o)  BY DEF FirstUse, InUse
<1>2. \A u \in Thread \ {t} : ~InUse(u, o)  BY <1>1 DEF Alone
<1>3. th[t] \in Call  BY DEF HooksTypeOK
<1>4. CASE o \in Mutex
  <2>1. o = th[t].m /\ Low(th[t].mv)  BY <1>3, <1>4, NullIsNone DEF FirstUse, Call
  <2>2. Live(o) /\ th[t].mv = word[o] /\ ~hybris_check_android_shared_mutex(word[o])
    BY <1>1, <1>4 DEF WordsRead, ReadBy
  <2>3. word[o] \notin Heap  BY <2>1, <2>2, HeapIsHigh
  <2>4. word[o] \in MutexWord /\ type[o] = InitializerType(word[o])  BY <1>4, <2>3 DEF WordsOf
  <2>5. ~nvidia_hack => \A u \in Thread : held[u][o] = 0
    BY <1>4, <2>2, <2>3 DEF OwnersAgree, Hooked
  <2> QED  BY <1>1, <1>2, <1>4, <2>1, <2>2, <2>3, <2>4, <2>5, NullIsNone DEF Made
<1>5. CASE o \in Cond
  <2>1. o = th[t].c /\ th[t].pc = "cond"  BY <1>3, <1>5, NullIsNone DEF FirstUse, Call
  <2>2. Live(o) /\ Low(word[o])  BY <1>1, <1>5, <2>1 DEF WordsRead, ReadBy
  <2> QED  BY <1>1, <1>2, <1>5, <2>1, <2>2, HeapIsHigh, NullIsNone DEF Made
<1> QED  BY <1>4, <1>5 DEF Object

\* The thread goes on with the address of what it has made of o.
LEMMA FirstUsesKeep ==
  ASSUME HooksInv, Good, NEW t \in Thread, NEW o \in Object, FirstUse(t, o),
         NEW a \in Unallocated, NEW s \in Call,
         word' = [word EXCEPT ![o] = a],
         real' = [real EXCEPT ![a] = IF o \in Mutex THEN NewMutex(hybris_set_mutex_attr(word[o])) ELSE NewCond],
         th' = [th EXCEPT ![t] = s], UNCHANGED <<type, held, nvidia_hack>>,
         s.op = th[t].op, s.c = th[t].c, s.m = th[t].m,
         IF o \in Mutex THEN th[t].pc = "mutex" /\ s.pc = "call" /\ s.mv = a /\ s.cv = th[t].cv
         ELSE /\ s.cv = a /\ s.mv = th[t].mv
              /\ s.pc = IF th[t].op \in WaitOps /\ Low(th[t].mv) THEN "mutex" ELSE "call"
  PROVE  HooksInv'
<1> USE DEF HooksInv
<1>1. /\ InUse(t, o) /\ Live(o) /\ ~Made(o) /\ a \in Heap
      /\ \A u \in Thread \ {t} : ~InUse(u, o)
  BY FirstUseOf DEF Unallocated
<1>2. (IF o \in Mutex THEN NewMutex(hybris_set_mutex_attr(word[o])) ELSE NewCond) \in Real
  BY NewReals, KindIsType
<1>3. o \in Mutex => type[o] = hybris_set_mutex_attr(word[o]) /\ type[o] \in Type
  BY FirstUseOf, KindAsked, KindIsType
<1>4. o \in Mutex /\ ~nvidia_hack => \A u \in Thread : held[u][o] = 0
  BY FirstUseOf
<1>5. word' \in [Object -> Int] /\ real' \in [Heap -> Real] /\ WordsOf' /\ OwnersAgree'
  BY <1>1, <1>2, <1>3, <1>4, NewObject DEF Live
<1>6. /\ th' \in [Thread -> Call] /\ th'[t] = s /\ \A u \in Thread \ {t} : th'[u] = th[u]
      /\ word'[o] = a /\ \A p \in Object \ {o} : word'[p] = word[p]
  BY DEF HooksTypeOK
<1>7. HooksTypeOK'  BY <1>5, <1>6 DEF HooksTypeOK
<1>8. th[t].pc \in {"cond", "mutex"} /\ s.pc \in {"mutex", "call"}
  BY DEF FirstUse
<1>9. CallShape'
  <2>1. s # NoCall  BY <1>8, NoCallFields
  <2>2. s.pc = "mutex" => th[t].op \in WaitOps  OBVIOUS
  <2> QED  BY <1>6, <1>8, <2>1, <2>2 DEF CallShape
<1>10. \A u \in Thread, p \in Object : (InUse(u, p)' <=> InUse(u, p)) /\ (FirstUse(u, p)' => FirstUse(u, p))
  <2>1. \A p \in Object : InUse(t, p)' <=> InUse(t, p)  BY <1>6, <1>8 DEF InUse
  <2>2. \A p \in Object : FirstUse(t, p)' => FirstUse(t, p)
    BY <1>6, <1>8 DEF FirstUse
  <2> QED  BY <1>6, <2>1, <2>2 DEF InUse, FirstUse
<1>11. WordsRead'
  <2> SUFFICES ASSUME NEW u \in Thread PROVE ReadBy(u)'  BY DEF WordsRead
  <2>1. CASE u # t
    BY <1>1, <1>6, <1>10, <2>1 DEF WordsRead, ReadBy, FirstUse, InUse, Live, Object
  <2>2. CASE u = t
    <3>1. ASSUME NEW m \in Mutex, InUse(t, m)
          PROVE  /\ Live(m)' /\ s.mv = word'[m] /\ ~hybris_check_android_shared_mutex(word'[m])
                 /\ FirstUse(t, m)' \/ word'[m] \in Heap
                 /\ s.pc = "mutex" => Low(s.mv)
      <4>1. CASE m = o  BY <1>1, <1>6, <3>1, <4>1, AddressIsPrivate DEF Live
      <4>2. CASE m # o
        <5>1. th[t].m = m  BY <3>1, NullIsNone DEF InUse, HooksTypeOK, Call
        <5>2. o \in Cond /\ m \in Object
          BY <4>2, <5>1, FirstUseOf DEF Object
        <5>3. /\ Live(m) /\ th[t].mv = word[m] /\ ~hybris_check_android_shared_mutex(word[m])
          BY <3>1 DEF WordsRead, ReadBy
        <5>4. th[t].op \in WaitOps
          BY <1>8, <5>1, <5>2, NullIsNone, FirstUseOf DEF CallShape
        <5>5. Low(word[m]) => FirstUse(t, m)'
          BY <1>6, <5>1, <5>2, <5>3, <5>4, NullIsNone DEF FirstUse
        <5> QED  BY <1>6, <4>2, <5>2, <5>3, <5>5, HighIsAddress, NullIsNone DEF Live
      <4> QED  BY <4>1, <4>2
    <3>2. ASSUME NEW c \in Cond, InUse(t, c)
          PROVE  Live(c)' /\ s.cv = word'[c] /\ word'[c] \in Heap /\ s.pc # "cond"
      <4>1. CASE c = o  BY <1>1, <1>6, <1>8, <4>1, NullIsNone DEF Live
      <4>2. CASE c # o
        <5>1. th[t].c = c  BY <3>2, NullIsNone DEF InUse, HooksTypeOK, Call
        <5>2. o \in Mutex /\ c \in Object  BY <4>2, <5>1, FirstUseOf DEF Object
        <5> QED  BY <1>6, <1>8, <3>2, <4>2, <5>2 DEF WordsRead, ReadBy, Live
      <4> QED  BY <4>1, <4>2
    <3> QED  BY <1>6, <1>10, <2>2, <3>1, <3>2 DEF ReadBy, Object
  <2> QED  BY <2>1, <2>2
<1>12. Alone'
  BY <1>6, <1>10 DEF Alone
<1>13. HeldOf'
  BY <1>6, <1>8 DEF HeldOf, Live
<1> QED  BY <1>5, <1>7, <1>9, <1>11, <1>12, <1>13

LEMMA AllocationsKeep ==
  ASSUME HooksInv, Good, NEW t \in Thread, InitCond(t) \/ InitMutex(t)
  PROVE  HooksInv'
<1> USE DEF HooksInv
<1>1. th[t] \in Call /\ th \in [Thread -> Call]  BY DEF HooksTypeOK
<1>2. CASE InitCond(t)
  <2> DEFINE o == th[t].c
             w == IF th[t].op \in WaitOps /\ Low(th[t].mv) THEN "mutex" ELSE "call"
  <2>1. th[t].pc = "cond" /\ o \in Cond  BY <1>2 DEF InitCond, CallShape
  <2>2. PICK a \in Unallocated :
          /\ real' = [real EXCEPT ![a] = NewCond] /\ word' = [word EXCEPT ![o] = a]
          /\ th' = [th EXCEPT ![t].cv = a, ![t].pc = w]
    BY <1>2 DEF InitCond
  <2> DEFINE s == [th[t] EXCEPT !.cv = a, !.pc = w]
  <2>3. a \in Int  BY AddressIsInt DEF Unallocated
  <2>4. /\ s \in Call /\ s.pc = w /\ s.cv = a
        /\ s.op = th[t].op /\ s.c = th[t].c /\ s.m = th[t].m /\ s.mv = th[t].mv
    BY <1>1, <2>3 DEF Call
  <2>5. th' = [th EXCEPT ![t] = s]  BY <1>1, <2>2
  <2>6. o \in Object /\ o \notin Mutex /\ FirstUse(t, o)  BY <2>1, NullIsNone DEF FirstUse, Object
  <2>7. UNCHANGED <<held, type, nvidia_hack>>  BY <1>2 DEF InitCond
  <2> HIDE DEF s, o
  <2> QED  BY <2>2, <2>4, <2>5, <2>6, <2>7, FirstUsesKeep
<1>3. CASE InitMutex(t)
  <2> DEFINE o == th[t].m
  <2>1. th[t].pc = "mutex" /\ o \in Mutex  BY <1>3, GuardIsMutex DEF InitMutex, CallShape
  <2>2. PICK a \in Unallocated :
          /\ real' = [real EXCEPT ![a] = NewMutex(hybris_set_mutex_attr(th[t].mv))]
          /\ word' = [word EXCEPT ![o] = a]
          /\ th' = [th EXCEPT ![t].mv = a, ![t].pc = "call"]
    BY <1>3 DEF InitMutex
  <2> DEFINE s == [th[t] EXCEPT !.mv = a, !.pc = "call"]
  <2>3. a \in Int  BY AddressIsInt DEF Unallocated
  <2>4. /\ s \in Call /\ s.pc = "call" /\ s.mv = a
        /\ s.op = th[t].op /\ s.c = th[t].c /\ s.m = th[t].m /\ s.cv = th[t].cv
    BY <1>1, <2>3 DEF Call
  <2>5. th' = [th EXCEPT ![t] = s]  BY <1>1, <2>2
  <2>6. o \in Object /\ FirstUse(t, o) /\ th[t].mv = word[o]
    <3>1. InUse(t, o)  BY DEF InUse
    <3> QED  BY <2>1, <3>1 DEF FirstUse, Object, WordsRead, ReadBy
  <2>7. UNCHANGED <<held, type, nvidia_hack>>  BY <1>3 DEF InitMutex
  <2> HIDE DEF s, o
  <2> QED  BY <2>1, <2>2, <2>4, <2>5, <2>6, <2>7, FirstUsesKeep
<1> QED  BY <1>2, <1>3

-----------------------------------------------------------------------------
(* The steps of glibc.                                                     *)

\* A step that leaves the words alone: threads return, fall asleep or wake up.
Leaves(u) ==
  \/ th'[u] = th[u]
  \/ th'[u] = NoCall
  \/ th[u].pc = "asleep" /\ th'[u] = [th[u] EXCEPT !.pc = "relock"]
  \/ th[u].pc = "call" /\ th[u].op \in WaitOps /\ th'[u] = [th[u] EXCEPT !.pc = "asleep"]

LEMMA LeavesTo ==
  ASSUME HooksInv, NEW u \in Thread, Leaves(u)
  PROVE  /\ th'[u] \in Call
         /\ \/ th'[u] = th[u]
            \/ th'[u] = NoCall
            \/ /\ th'[u].op = th[u].op /\ th'[u].c = th[u].c /\ th'[u].m = th[u].m
               /\ th'[u].cv = th[u].cv /\ th'[u].mv = th[u].mv
               /\ \/ th[u].pc = "asleep" /\ th'[u].pc = "relock"
                  \/ th[u].pc = "call" /\ th'[u].pc = "asleep" /\ th[u].op \in WaitOps
BY NoCallIsCall DEF Leaves, Call, HooksInv, HooksTypeOK

LEMMA LeavingKeeps ==
  ASSUME HooksInv, UNCHANGED <<word, type>>, \A u \in Thread : Leaves(u)
  PROVE  CallShape' /\ WordsRead' /\ Alone'
<1> USE DEF HooksInv
<1>1. CallShape'
  <2> SUFFICES ASSUME NEW u \in Thread, th'[u] # th[u], th'[u] # NoCall
               PROVE  /\ th'[u].pc \in {"asleep", "relock"} /\ th[u].pc # "idle" /\ th[u].op \in WaitOps
                      /\ th'[u].op = th[u].op /\ th'[u].c = th[u].c /\ th'[u].m = th[u].m
    BY NoCallFields DEF CallShape
  <2> QED  BY LeavesTo DEF CallShape
<1>2. ASSUME NEW u \in Thread, NEW o \in Object
      PROVE  (InUse(u, o)' => InUse(u, o)) /\ (FirstUse(u, o)' => th'[u] = th[u])
  <2>1. o # NULL  BY NullIsNone DEF Object
  <2>2. CASE th'[u] = NoCall  BY <2>1, <2>2, NoCallFields DEF InUse, FirstUse
  <2>3. CASE th'[u] # NoCall  BY <2>3, LeavesTo DEF InUse, FirstUse
  <2> QED  BY <2>2, <2>3
<1>3. WordsRead'
  <2> SUFFICES ASSUME NEW u \in Thread PROVE ReadBy(u)'  BY DEF WordsRead
  <2>1. CASE th'[u] = th[u]
    BY <2>1 DEF WordsRead, ReadBy, InUse, FirstUse, Live
  <2>2. CASE th'[u] # th[u]
    <3>1. \A o \in Object : InUse(u, o)' =>
            /\ InUse(u, o) /\ ~FirstUse(u, o) /\ th'[u].cv = th[u].cv /\ th'[u].mv = th[u].mv
            /\ th[u].pc \notin {"cond", "mutex"} /\ th'[u].pc \notin {"cond", "mutex"}
      <4> SUFFICES ASSUME NEW o \in Object, InUse(u, o)'
                   PROVE  /\ InUse(u, o) /\ ~FirstUse(u, o) /\ th'[u].cv = th[u].cv /\ th'[u].mv = th[u].mv
                          /\ th[u].pc \notin {"cond", "mutex"} /\ th'[u].pc \notin {"cond", "mutex"}
        OBVIOUS
      <4>1. th'[u] # NoCall  BY NullIsNone, NoCallFields DEF InUse, Object
      <4> QED  BY <1>2, <2>2, <4>1, LeavesTo DEF FirstUse
    <3> QED  BY <3>1 DEF WordsRead, ReadBy, Live, Object
  <2> QED  BY <2>1, <2>2
<1>4. Alone'
  <2> SUFFICES ASSUME NEW u \in Thread, NEW v \in Thread, NEW o \in Object,
                      FirstUse(u, o)' \/ th'[u].op = "destroy", InUse(u, o)', InUse(v, o)'
               PROVE  u = v
    BY DEF Alone
  <2>1. InUse(u, o) /\ InUse(v, o)  BY <1>2
  <2>2. th'[u] # NoCall  BY NullIsNone, NoCallFields DEF InUse, Object
  <2>3. FirstUse(u, o) \/ th[u].op = "destroy"
    BY <1>2, <2>2, LeavesTo DEF FirstUse
  <2> QED  BY <2>1, <2>3 DEF Alone
<1> QED  BY <1>1, <1>3, <1>4

\* In glibc a mutex of a call is made, and served.
LEMMA InGlibc ==
  ASSUME HooksInv, Good, NEW t \in Thread, th[t].pc \in {"call", "asleep", "relock"}
  PROVE  /\ \A m \in Mutex : th[t].m = m =>
              /\ Made(m) /\ th[t].mv = word[m] /\ real[word[m]].is = "mutex"
              /\ Hooked(m) <=> ~nvidia_hack
         /\ \A c \in Cond : th[t].c = c /\ th[t].pc # "relock" =>
              Made(c) /\ th[t].cv = word[c] /\ real[word[c]].is = "cond"
BY DEF HooksInv, WordsRead, ReadBy, InUse, FirstUse, Made, WordsOf, Hooked

\* The thread that locks or unlocks m in a call is the only one whose count of
\* it changes, and no call depends on that count any more.
LEMMA HeldChanges ==
  ASSUME HooksInv, UNCHANGED <<word, type>>, \A u \in Thread : Leaves(u),
         NEW t \in Thread, NEW m \in Mutex, InUse(t, m) \/ th[t].m = m, th[t].pc \in {"call", "relock"},
         th[t].op # "destroy", th'[t].pc \in {"idle", "asleep"},
         NEW n \in Nat, held' = [held EXCEPT ![t][m] = n]
  PROVE  held' \in [Thread -> [Mutex -> Nat]] /\ HeldOf'
<1> USE DEF HooksInv
<1>1. /\ held' \in [Thread -> [Mutex -> Nat]] /\ held'[t][m] = n
      /\ \A u \in Thread, k \in Mutex : u # t \/ k # m => held'[u][k] = held[u][k]
  BY DEF HooksTypeOK
<1>2. th[t].m = m /\ InUse(t, m)  BY NullIsNone DEF InUse, HooksTypeOK, Call
<1>3. Live(m) /\ \A v \in Thread : ~(th[v].op = "destroy" /\ th[v].m = m)
  BY <1>2 DEF WordsRead, ReadBy, Alone, InUse, Object
<1>4. \A u \in Thread : \/ th'[u] = NoCall
                        \/ /\ th'[u].op = th[u].op /\ th'[u].m = th[u].m
                           /\ th'[u].pc = th[u].pc \/ th'[u].pc \in {"asleep", "relock"}
  BY LeavesTo
<1>5. CallShape'  BY LeavingKeeps
<1> SUFFICES ASSUME NEW u \in Thread, NEW k \in Mutex
             PROVE  /\ ~Live(k)' => held'[u][k] = 0
                    /\ \A v \in Thread : th'[v].op = "destroy" /\ th'[v].m = k => held'[u][k] = 0
                    /\ th'[u].m = k /\ th'[u].op = "unlock" => held'[u][k] > 0
                    /\ th'[u].m = k /\ th'[u].op \in WaitOps /\ th'[u].pc \in {"cond", "mutex", "call"}
                         => held'[u][k] = 1
  BY <1>1 DEF HeldOf
<1>6. ~Live(k)' => held'[u][k] = 0  BY <1>1, <1>3 DEF HeldOf, Live
<1>7. ASSUME NEW v \in Thread, th'[v].op = "destroy", th'[v].m = k PROVE held'[u][k] = 0
  BY <1>1, <1>3, <1>4, <1>7, NullIsNone, NoCallFields DEF HeldOf
<1>8. CASE u = t
  <2>1. th'[u].m = k => th'[u].op \in WaitOps /\ th'[u].pc = "asleep"
    BY <1>5, <1>8, NullIsNone, NoCallFields DEF CallShape
  <2> QED  BY <1>6, <1>7, <2>1 DEF WaitOps
<1>9. CASE u # t
  BY <1>1, <1>4, <1>6, <1>7, <1>9, NullIsNone, NoCallFields DEF HeldOf
<1> QED  BY <1>8, <1>9

\* The same when no count changes.
LEMMA HeldStays ==
  ASSUME HooksInv, UNCHANGED <<word, type, held>>, \A u \in Thread : Leaves(u)
  PROVE  HeldOf'
<1>1. \A u \in Thread : \/ th'[u] = NoCall
                        \/ /\ th'[u].op = th[u].op /\ th'[u].m = th[u].m
                           /\ th'[u].pc = th[u].pc \/ th'[u].pc \in {"asleep", "relock"}
  BY LeavesTo
<1> QED  BY <1>1, NullIsNone, NoCallFields DEF HooksInv, HeldOf, Live

\* A glibc mutex and its users' counts change together.
LEMMA RealChanges ==
  ASSUME HooksInv, UNCHANGED <<word, type, nvidia_hack>>, NEW m \in Mutex, Made(m), NEW r \in Real,
         real' = [real EXCEPT ![word[m]] = r], r.is = "mutex", r.kind = real[word[m]].kind,
         \A u \in Thread, k \in Mutex \ {m} : held'[u][k] = held[u][k],
         Hooked(m) => Locked(r) /\ \A u \in Thread : held'[u][m] = IF r.owner = u THEN r.depth ELSE 0
  PROVE  real' \in [Heap -> Real] /\ WordsOf' /\ OwnersAgree'
<1> USE DEF HooksInv
<1> DEFINE a == word[m]
<1>1. a \in Heap /\ m \in Object /\ real[a].is = "mutex"  BY DEF Made, WordsOf, Object
<1>2. real' \in [Heap -> Real] /\ real'[a] = r /\ \A b \in Heap \ {a} : real'[b] = real[b]
  BY <1>1 DEF HooksTypeOK
<1>3. \A o \in Object : (Made(o)' <=> Made(o)) /\ (Live(o)' <=> Live(o))  BY DEF Made, Live
<1>4. \A o \in Object : Made(o) /\ word[o] = a => o = m  BY <1>1 DEF WordsOf
<1>5. WordsOf'
  <2>1. \A b \in Heap : real'[b].is = real[b].is  BY <1>1, <1>2
  <2>2. Unallocated' = Unallocated  BY <2>1 DEF Unallocated
  <2>3. ASSUME NEW k \in Mutex
        PROVE  IF word'[k] \in Heap THEN Live(k)' => real'[word'[k]].is = "mutex"
               ELSE word'[k] \in MutexWord /\ type'[k] = InitializerType(word'[k])
    BY <1>3, <2>1 DEF WordsOf, Object
  <2>4. ASSUME NEW c \in Cond
        PROVE  IF word'[c] \in Heap THEN Live(c)' => real'[word'[c]].is = "cond"
               ELSE word'[c] \in CondWord /\ Live(c)'
    BY <1>3, <2>1 DEF WordsOf, Object
  <2>5. \A o, p \in Object : Made(o)' /\ Made(p)' /\ word'[o] = word'[p] => o = p
    BY <1>3 DEF WordsOf
  <2>6. \A b \in (Heap \ Unallocated)' : \E o \in Object : Made(o)' /\ word'[o] = b
    BY <1>3, <2>2 DEF WordsOf
  <2> QED  BY <2>3, <2>4, <2>5, <2>6 DEF WordsOf
<1>6. OwnersAgree'
  <2> SUFFICES ASSUME ~nvidia_hack, NEW k \in Mutex, Live(k)', Hooked(k)'
               PROVE  IF word'[k] \in Heap
                      THEN LET s == real'[word'[k]]
                           IN /\ Locked(s) /\ s.kind = type'[k]
                              /\ \A t \in Thread : held'[t][k] = IF s.owner = t THEN s.depth ELSE 0
                      ELSE \A t \in Thread : held'[t][k] = 0
    BY DEF OwnersAgree
  <2>1. Hooked(k) /\ Live(k)  BY DEF Hooked, Live
  <2>2. CASE k = m
    BY <1>1, <1>2, <2>1, <2>2 DEF OwnersAgree
  <2>3. CASE k # m
    <3>1. word[k] \in Heap => word[k] # a  BY <1>4, <2>1, <2>3 DEF Made, Object
    <3> QED  BY <1>2, <2>1, <2>3, <3>1 DEF OwnersAgree
  <2> QED  BY <2>2, <2>3
<1> QED  BY <1>2, <1>5, <1>6

\* A step of glibc that changes one mutex, to r, in a way its users see.
MutexStep(t, m, n, r) ==
  /\ th[t].m = m /\ th[t].pc \in {"call", "relock"} /\ th[t].op # "destroy"
  /\ held' = [held EXCEPT ![t][m] = n]
  /\ real' = [real EXCEPT ![word[m]] = r]
  /\ r.is = "mutex" /\ r.kind = real[word[m]].kind
  /\ Hooked(m) => /\ Locked(r) /\ n = IF r.owner = t THEN r.depth ELSE 0
                  /\ \A u \in Thread \ {t} : held[u][m] = IF r.owner = u THEN r.depth ELSE 0

LEMMA MutexStepKeeps ==
  ASSUME HooksInv, Good, UNCHANGED <<word, type, nvidia_hack>>, \A u \in Thread : Leaves(u),
         NEW t \in Thread, NEW m \in Mutex, NEW n \in Nat, NEW r \in Real, MutexStep(t, m, n, r),
         th'[t].pc \in {"idle", "asleep"}, th' \in [Thread -> Call]
  PROVE  HooksInv'
<1> USE DEF MutexStep
<1>1. Made(m)  BY InGlibc
<1>2. held' \in [Thread -> [Mutex -> Nat]] /\ HeldOf'  BY HeldChanges
<1>3. /\ held'[t][m] = n
      /\ \A u \in Thread, k \in Mutex : u # t \/ k # m => held'[u][k] = held[u][k]
  BY DEF HooksInv, HooksTypeOK
<1>4. real' \in [Heap -> Real] /\ WordsOf' /\ OwnersAgree'
  <2>1. Hooked(m) => Locked(r) /\ \A u \in Thread : held'[u][m] = IF r.owner = u THEN r.depth ELSE 0
    BY <1>3
  <2>2. \A u \in Thread, k \in Mutex \ {m} : held'[u][k] = held[u][k]
    BY <1>3
  <2> QED  BY <1>1, <2>1, <2>2, RealChanges
<1>5. CallShape' /\ WordsRead' /\ Alone'  BY LeavingKeeps
<1>6. HooksTypeOK'  BY <1>2, <1>4 DEF HooksInv, HooksTypeOK
<1> QED  BY <1>2, <1>4, <1>5, <1>6 DEF HooksInv

\* So does one that changes no mutex.
LEMMA ThreadStepKeeps ==
  ASSUME HooksInv, UNCHANGED <<word, real, held, type, nvidia_hack>>, \A u \in Thread : Leaves(u),
         th' \in [Thread -> Call]
  PROVE  HooksInv'
<1>1. CallShape' /\ WordsRead' /\ Alone'  BY LeavingKeeps
<1>2. HeldOf'  BY HeldStays
<1>3. HooksTypeOK' /\ WordsOf' /\ OwnersAgree'
  BY DEF HooksInv, HooksTypeOK, WordsOf, OwnersAgree, Made, Live, Unallocated, Hooked
<1> QED  BY <1>1, <1>2, <1>3 DEF HooksInv

\* The owner's count goes up by one.
LEMMA TakenFields ==
  ASSUME NEW x \in Real, NEW t \in Thread
  PROVE  /\ Taken(t, x) \in Real /\ Taken(t, x).is = x.is /\ Taken(t, x).kind = x.kind
         /\ Taken(t, x).owner = t /\ Taken(t, x).depth = x.depth + 1
<1>1. x.depth + 1 \in Nat  BY DEF Real
<1>2. Taken(t, x) \in Real  BY <1>1 DEF Real, Taken
<1>3. Taken(t, x).is = x.is /\ Taken(t, x).kind = x.kind  BY DEF Real, Taken
<1>4. Taken(t, x).owner = t /\ Taken(t, x).depth = x.depth + 1  BY DEF Real, Taken
<1> QED  BY <1>2, <1>3, <1>4

\* It goes down by one, and to no owner at all with the last.
LEMMA GivenFields ==
  ASSUME NEW x \in Real
  PROVE  /\ Given(x) \in Real /\ Given(x).is = x.is /\ Given(x).kind = x.kind
         /\ IF x.kind = "recursive" /\ x.depth > 1
            THEN Given(x).owner = x.owner /\ Given(x).depth = x.depth - 1
            ELSE Given(x).owner = NoThread /\ Given(x).depth = 0
<1>1. CASE x.kind = "recursive" /\ x.depth > 1
  <2>1. Given(x) = [x EXCEPT !.depth = @ - 1]  BY <1>1 DEF Given
  <2>2. x.depth - 1 \in Nat  BY <1>1 DEF Real
  <2>3. Given(x) \in Real
    <3>1. [x EXCEPT !.depth = x.depth - 1] \in Real  BY <2>2 DEF Real
    <3> QED  BY <2>1, <3>1
  <2>4. Given(x).is = x.is /\ Given(x).kind = x.kind  BY <2>1 DEF Real
  <2>5. Given(x).owner = x.owner /\ Given(x).depth = x.depth - 1  BY <2>1 DEF Real
  <2> QED  BY <1>1, <2>3, <2>4, <2>5
<1>2. CASE ~(x.kind = "recursive" /\ x.depth > 1)
  <2>1. Given(x) = [x EXCEPT !.owner = NoThread, !.depth = 0]  BY <1>2 DEF Given
  <2>2. Given(x) \in Real
    <3>1. [x EXCEPT !.owner = NoThread, !.depth = 0] \in Real  BY DEF Real
    <3> QED  BY <2>1, <3>1
  <2>3. Given(x).is = x.is /\ Given(x).kind = x.kind  BY <2>1 DEF Real
  <2>4. Given(x).owner = NoThread /\ Given(x).depth = 0  BY <2>1 DEF Real
  <2> QED  BY <1>2, <2>2, <2>3, <2>4
<1> QED  BY <1>1, <1>2

\* What a call of glibc on mutex m finds there.
LEMMA RealOf ==
  ASSUME HooksInv, Good, NEW t \in Thread, NEW m \in Mutex, th[t].m = m, th[t].pc \in {"call", "relock"}
  PROVE  /\ Made(m) /\ th[t].mv = word[m] /\ word[m] \in Heap /\ m \in Object
         /\ real[word[m]] \in Real /\ real[word[m]].is = "mutex"
         /\ Hooked(m) <=> ~nvidia_hack
         /\ \A u \in Thread : held[u][m] \in Nat
         /\ Hooked(m) => /\ Locked(real[word[m]]) /\ real[word[m]].kind = type[m]
                         /\ \A u \in Thread : held[u][m] = IF real[word[m]].owner = u THEN real[word[m]].depth ELSE 0
<1>1. Made(m) /\ th[t].mv = word[m] /\ real[word[m]].is = "mutex" /\ (Hooked(m) <=> ~nvidia_hack)
  BY InGlibc
<1>2. word[m] \in Heap /\ Live(m) /\ m \in Object  BY <1>1 DEF Made, Object
<1>3. real[word[m]] \in Real /\ \A u \in Thread : held[u][m] \in Nat
  BY <1>2 DEF HooksInv, HooksTypeOK
<1>4. Hooked(m) => /\ Locked(real[word[m]]) /\ real[word[m]].kind = type[m]
                   /\ \A u \in Thread : held[u][m] = IF real[word[m]].owner = u THEN real[word[m]].depth ELSE 0
  BY <1>1, <1>2 DEF HooksInv, OwnersAgree
<1> QED  BY <1>1, <1>2, <1>3, <1>4

LEMMA ReturnLeaves ==
  ASSUME HooksInv, NEW t \in Thread, Return(t)
  PROVE  th' \in [Thread -> Call] /\ th'[t] = NoCall /\ \A u \in Thread : Leaves(u)
<1>1. th' \in [Thread -> Call] /\ th'[t] = NoCall /\ \A u \in Thread \ {t} : th'[u] = th[u]
  BY NoCallIsCall DEF Return, HooksInv, HooksTypeOK
<1> QED  BY <1>1 DEF Leaves

LEMMA TakeKeeps ==
  ASSUME HooksInv, Good, NEW t \in Thread, NEW m \in Mutex, th[t].m = m,
         th[t].pc \in {"call", "relock"}, th[t].op # "destroy",
         Take(t), Return(t), UNCHANGED <<word, type, nvidia_hack>>
  PROVE  HooksInv'
<1> DEFINE x == real[word[m]]
           n == held[t][m] + 1
<1>1. /\ Made(m) /\ th[t].mv = word[m] /\ word[m] \in Heap /\ x \in Real /\ x.is = "mutex"
      /\ \A u \in Thread : held[u][m] \in Nat
      /\ Hooked(m) => /\ Locked(x)
                      /\ \A u \in Thread : held[u][m] = IF x.owner = u THEN x.depth ELSE 0
  BY RealOf
<1>2. CanTake(t, x) /\ real' = [real EXCEPT ![word[m]] = Taken(t, x)] /\ held' = [held EXCEPT ![t][m] = n]
  BY <1>1 DEF Take, HooksInv, HooksTypeOK
<1>3. th' \in [Thread -> Call] /\ th'[t] = NoCall /\ \A u \in Thread : Leaves(u)  BY ReturnLeaves
<1>4. /\ Taken(t, x) \in Real /\ Taken(t, x).is = "mutex" /\ Taken(t, x).kind = x.kind
      /\ Taken(t, x).owner = t /\ Taken(t, x).depth = x.depth + 1
  BY <1>1, <1>2, TakenFields
<1>5. ASSUME Hooked(m)
      PROVE  /\ Locked(Taken(t, x)) /\ n = IF Taken(t, x).owner = t THEN Taken(t, x).depth ELSE 0
             /\ \A u \in Thread \ {t} : held[u][m] = IF Taken(t, x).owner = u THEN Taken(t, x).depth ELSE 0
  <2>1. /\ x.owner = NoThread <=> x.depth = 0
        /\ x.kind # "recursive" => x.depth <= 1
        /\ \A u \in Thread : held[u][m] = IF x.owner = u THEN x.depth ELSE 0
    BY <1>1, <1>5 DEF Locked
  <2>2. x.depth \in Nat  BY <1>1 DEF Real
  <2>3. x.owner = NoThread \/ (x.owner = t /\ x.kind = "recursive")  BY <1>2 DEF CanTake
  <2> QED  BY <1>4, <2>1, <2>2, <2>3, NullIsNone DEF Locked
<1>6. n \in Nat /\ th'[t].pc \in {"idle", "asleep"}  BY <1>1, <1>3, NoCallFields
<1>7. MutexStep(t, m, n, Taken(t, x))
  BY <1>2, <1>4, <1>5 DEF MutexStep
<1> HIDE DEF x, n
<1> QED  BY <1>3, <1>4, <1>6, <1>7, MutexStepKeeps

\* The mutex of a call to glibc.
LEMMA CallMutex ==
  ASSUME HooksInv, NEW t \in Thread,
         \/ \E op \in LockOps \cup WaitOps \cup {"unlock"} : Calls(t, op)
         \/ th[t].pc = "relock"
  PROVE  /\ th[t].m \in Mutex /\ th[t].pc \in {"call", "relock"} /\ th[t].op # "destroy"
<1>1. th[t].pc \in {"call", "relock"} /\ th[t].op \in LockOps \cup WaitOps \cup {"unlock"}
  BY DEF Calls, HooksInv, CallShape
<1>2. th[t].op # "destroy"  BY <1>1 DEF LockOps, WaitOps
<1>3. CASE th[t].op \in LockOps \cup {"unlock"}  BY <1>1, <1>2, <1>3 DEF HooksInv, CallShape
<1>4. CASE th[t].op \in WaitOps
  BY <1>1, <1>2, <1>4, GuardIsMutex DEF HooksInv, CallShape
<1> QED  BY <1>1, <1>3, <1>4

LEMMA LocksKeep ==
  ASSUME HooksInv, Good, NEW t \in Thread, RealLock(t) \/ RealTrylock(t) \/ Relock(t)
  PROVE  HooksInv'
<1>1. /\ th[t].m \in Mutex /\ th[t].pc \in {"call", "relock"} /\ th[t].op # "destroy"
  BY CallMutex DEF RealLock, RealTrylock, Relock, LockOps
<1>2. Return(t) /\ UNCHANGED <<word, type, nvidia_hack>>
  BY DEF RealLock, RealTrylock, Relock
<1>3. Take(t) \/ UNCHANGED <<real, held>>
  BY DEF RealLock, RealTrylock, Relock
<1>4. CASE Take(t)  BY <1>1, <1>2, <1>4, TakeKeeps
<1>5. CASE UNCHANGED <<real, held>>
  BY <1>2, <1>5, ReturnLeaves, ThreadStepKeeps
<1> QED  BY <1>3, <1>4, <1>5

\* glibc serves an unlock or a wait of who holds the mutex.
LEMMA HolderIsServed ==
  ASSUME HooksInv, Good, NEW t \in Thread, NEW m \in Mutex, Hooked(m), th[t].m = m,
         th[t].pc = "call", th[t].op \in WaitOps \cup {"unlock"}
  PROVE  /\ ~Refuses(t, real[word[m]]) /\ real[word[m]].owner = t
         /\ held[t][m] = real[word[m]].depth /\ real[word[m]].depth > 0
         /\ th[t].op \in WaitOps => held[t][m] = 1
<1>1. /\ \A u \in Thread : held[u][m] = IF real[word[m]].owner = u THEN real[word[m]].depth ELSE 0
      /\ \A u \in Thread : held[u][m] \in Nat
  BY RealOf
<1>2. held[t][m] > 0 /\ (th[t].op \in WaitOps => held[t][m] = 1)
  BY <1>1 DEF HooksInv, HeldOf
<1> QED  BY <1>1, <1>2 DEF Refuses

LEMMA UnlockKeeps ==
  ASSUME HooksInv, Good, NEW t \in Thread, RealUnlock(t)
  PROVE  HooksInv'
<1>1. Calls(t, "unlock")  BY DEF RealUnlock
<1>2. PICK m \in Mutex : th[t].m = m  BY <1>1, CallMutex
<1>3. th[t].pc = "call" /\ th[t].op = "unlock"  BY <1>1 DEF Calls
<1> DEFINE x == real[word[m]]
           n == held[t][m] - 1
           r == IF Refuses(t, x) THEN x ELSE Given(x)
<1>4. /\ Made(m) /\ th[t].mv = word[m] /\ word[m] \in Heap /\ x \in Real /\ x.is = "mutex"
      /\ \A u \in Thread : held[u][m] \in Nat
      /\ Hooked(m) => /\ Locked(x)
                      /\ \A u \in Thread : held[u][m] = IF x.owner = u THEN x.depth ELSE 0
  BY <1>2, <1>3, RealOf
<1>5. real' = [real EXCEPT ![word[m]] = r] /\ held' = [held EXCEPT ![t][m] = n]
  BY <1>2, <1>4 DEF RealUnlock, HooksInv, HooksTypeOK
<1>6. th' \in [Thread -> Call] /\ th'[t] = NoCall /\ \A u \in Thread : Leaves(u)
  BY ReturnLeaves DEF RealUnlock
<1>7. r \in Real /\ r.is = "mutex" /\ r.kind = x.kind  BY <1>4, GivenFields
<1>8. held[t][m] > 0 /\ n \in Nat  BY <1>2, <1>3, <1>4 DEF HooksInv, HeldOf
<1>9. ASSUME Hooked(m)
      PROVE  /\ Locked(r) /\ n = IF r.owner = t THEN r.depth ELSE 0
             /\ \A u \in Thread \ {t} : held[u][m] = IF r.owner = u THEN r.depth ELSE 0
  <2>1. r = Given(x) /\ x.owner = t /\ held[t][m] = x.depth
    BY <1>2, <1>3, <1>9, HolderIsServed
  <2>2. x.depth \in Nat  BY <1>4 DEF Real
  <2>3. x.kind # "recursive" => x.depth <= 1  BY <1>4, <1>9 DEF Locked
  <2>4. \A u \in Thread \ {t} : held[u][m] = 0  BY <1>4, <1>9, <2>1
  <2>5. IF x.kind = "recursive" /\ x.depth > 1
        THEN r.owner = t /\ r.depth = x.depth - 1
        ELSE r.owner = NoThread /\ r.depth = 0
    BY <1>4, <2>1, GivenFields
  <2>6. r.kind = x.kind  BY <1>7
  <2> HIDE DEF r
  <2> QED  BY <1>8, <2>1, <2>2, <2>3, <2>4, <2>5, <2>6, NullIsNone DEF Locked
<1>10. UNCHANGED <<word, type, nvidia_hack>> /\ th'[t].pc \in {"idle", "asleep"}
  BY <1>6, NoCallFields DEF RealUnlock
<1>11. MutexStep(t, m, n, r)
  BY <1>2, <1>3, <1>5, <1>7, <1>9 DEF MutexStep
<1> HIDE DEF x, n, r
<1> QED  BY <1>6, <1>7, <1>8, <1>10, <1>11, MutexStepKeeps

LEMMA SleepKeeps ==
  ASSUME HooksInv, Good, NEW t \in Thread, Sleep(t)
  PROVE  HooksInv'
<1>1. /\ Calls(t, "wait") \/ Calls(t, "timedwait")
      /\ UNCHANGED <<word, type, nvidia_hack>>
  BY DEF Sleep
<1>2. PICK m \in Mutex : th[t].m = m  BY <1>1, CallMutex DEF WaitOps
<1>3. th[t].pc = "call" /\ th[t].op \in WaitOps  BY <1>1 DEF Calls, WaitOps
<1> DEFINE x == real[word[m]]
<1>4. /\ Made(m) /\ th[t].mv = word[m] /\ word[m] \in Heap /\ x \in Real /\ x.is = "mutex"
      /\ \A u \in Thread : held[u][m] \in Nat
      /\ Hooked(m) => /\ Locked(x)
                      /\ \A u \in Thread : held[u][m] = IF x.owner = u THEN x.depth ELSE 0
  BY <1>2, <1>3, RealOf
<1>5. CASE Return(t) /\ UNCHANGED <<real, held>>
  BY <1>1, <1>5, ReturnLeaves, ThreadStepKeeps
<1>6. CASE /\ real' = [real EXCEPT ![word[m]] = Given(x)]
           /\ held' = [held EXCEPT ![t][m] = 0]
           /\ th' = [th EXCEPT ![t].pc = "asleep"]
  <2>1. /\ th' \in [Thread -> Call] /\ th'[t] = [th[t] EXCEPT !.pc = "asleep"]
        /\ th'[t].pc = "asleep" /\ \A u \in Thread \ {t} : th'[u] = th[u]
    BY <1>6 DEF HooksInv, HooksTypeOK, Call
  <2>2. \A u \in Thread : Leaves(u)  BY <1>3, <2>1 DEF Leaves
  <2>3. Given(x) \in Real /\ Given(x).is = "mutex" /\ Given(x).kind = x.kind
    BY <1>4, GivenFields
  <2>4. ASSUME Hooked(m)
        PROVE  /\ Locked(Given(x)) /\ 0 = IF Given(x).owner = t THEN Given(x).depth ELSE 0
               /\ \A u \in Thread \ {t} : held[u][m] = IF Given(x).owner = u THEN Given(x).depth ELSE 0
    <3>1. x.owner = t /\ x.depth = 1  BY <1>2, <1>3, <2>4, HolderIsServed
    <3>2. Given(x).owner = NoThread /\ Given(x).depth = 0  BY <1>4, <3>1, GivenFields
    <3> QED  BY <1>4, <2>4, <3>1, <3>2, NullIsNone DEF Locked
  <2>5. MutexStep(t, m, 0, Given(x))
    BY <1>2, <1>3, <1>6, <2>3, <2>4 DEF MutexStep, WaitOps
  <2> HIDE DEF x
  <2> QED  BY <1>1, <2>1, <2>2, <2>3, <2>5, MutexStepKeeps
<1> QED  BY <1>2, <1>4, <1>5, <1>6 DEF Sleep

\* Those that wake up do, and t may return.
LEMMA WakesLeave ==
  ASSUME HooksInv, NEW t \in Thread, NEW W \in SUBSET {u \in Thread : th[u].pc = "asleep"},
         th' = [u \in Thread |-> IF u = t THEN NoCall
                                 ELSE IF u \in W THEN [th[u] EXCEPT !.pc = "relock"] ELSE th[u]]
  PROVE  th' \in [Thread -> Call] /\ \A u \in Thread : Leaves(u)
<1>1. \A u \in Thread : Leaves(u)  BY DEF Leaves
<1>2. \A u \in Thread : th'[u] \in Call  BY <1>1, LeavesTo
<1> QED  BY <1>1, <1>2

LEMMA WakesKeep ==
  ASSUME HooksInv, NEW t \in Thread, Timeout(t) \/ RealSignal(t) \/ RealBroadcast(t)
  PROVE  HooksInv'
<1>1. UNCHANGED <<word, real, held, type, nvidia_hack>>
  BY DEF Timeout, RealSignal, RealBroadcast
<1>2. th \in [Thread -> Call]  BY DEF HooksInv, HooksTypeOK
<1>3. th' \in [Thread -> Call] /\ \A u \in Thread : Leaves(u)
  <2>1. CASE Timeout(t)
    <3>1. \A u \in Thread : Leaves(u)  BY <1>2, <2>1 DEF Timeout, Leaves
    <3>2. \A u \in Thread : th'[u] \in Call  BY <3>1, LeavesTo
    <3> QED  BY <1>2, <2>1, <3>1, <3>2 DEF Timeout
  <2>2. CASE RealBroadcast(t)
    BY <2>2, WakesLeave DEF RealBroadcast, Sleepers
  <2>3. CASE RealSignal(t) /\ Return(t)
    BY <2>3, ReturnLeaves
  <2>4. ASSUME NEW u \in Sleepers(th[t].cv), th' = [th EXCEPT ![t] = NoCall, ![u].pc = "relock"], th[t].pc = "call"
        PROVE  th' \in [Thread -> Call] /\ \A v \in Thread : Leaves(v)
    <3>1. u \in Thread /\ u # t /\ th[u].pc = "asleep"  BY <2>4 DEF Sleepers
    <3>2. th' = [v \in Thread |-> IF v = t THEN NoCall
                                  ELSE IF v \in {u} THEN [th[v] EXCEPT !.pc = "relock"] ELSE th[v]]
      BY <1>2, <2>4, <3>1
    <3> QED  BY <3>1, <3>2, WakesLeave
  <2> QED  BY <2>1, <2>2, <2>3, <2>4 DEF RealSignal, Calls
<1> QED  BY <1>1, <1>3, ThreadStepKeeps

\* What a destroy frees is the glibc object of what it destroys.
LEMMA DestroyedHere ==
  ASSUME HooksInv, Good, NEW t \in Thread, Calls(t, "destroy")
  PROVE  /\ DestroyedObject(t) \in Object /\ Made(DestroyedObject(t))
         /\ DestroyedWord(t) = word[DestroyedObject(t)] /\ DestroyedWord(t) \in Heap
         /\ \A u \in Thread \ {t} : ~InUse(u, DestroyedObject(t))
         /\ DestroyedObject(t) \in Mutex => th[t].m = DestroyedObject(t)
         /\ DestroyedObject(t) \in Cond => th[t].m = NULL
<1>1. th[t].pc = "call" /\ th[t].op = "destroy" /\ th[t] \in Call
  BY DEF Calls, HooksInv, HooksTypeOK
<1>2. (th[t].c = NULL) # (th[t].m = NULL)  BY <1>1 DEF HooksInv, CallShape
<1>3. CASE th[t].m # NULL
  <2>1. th[t].m \in Mutex  BY <1>1, <1>3 DEF Call
  <2>2. Made(th[t].m) /\ th[t].mv = word[th[t].m]  BY <1>1, <2>1, InGlibc
  <2>3. InUse(t, th[t].m) /\ th[t].m \in Object  BY <2>1 DEF InUse, Object
  <2>4. \A u \in Thread \ {t} : ~InUse(u, th[t].m)  BY <1>1, <2>3 DEF HooksInv, Alone
  <2> QED  BY <1>3, <2>1, <2>2, <2>3, <2>4, NullIsNone DEF DestroyedObject, DestroyedWord, Made
<1>4. CASE th[t].m = NULL
  <2>1. th[t].c \in Cond  BY <1>1, <1>2, <1>4 DEF Call
  <2>2. Made(th[t].c) /\ th[t].cv = word[th[t].c]  BY <1>1, <2>1, InGlibc
  <2>3. InUse(t, th[t].c) /\ th[t].c \in Object  BY <1>1, <2>1 DEF InUse, Object
  <2>4. \A u \in Thread \ {t} : ~InUse(u, th[t].c)  BY <1>1, <2>3 DEF HooksInv, Alone
  <2> QED  BY <1>4, <2>1, <2>2, <2>3, <2>4, NullIsNone DEF DestroyedObject, DestroyedWord, Made
<1> QED  BY <1>3, <1>4

LEMMA DestroyKeeps ==
  ASSUME HooksInv, Good, NEW t \in Thread, RealDestroy(t)
  PROVE  HooksInv'
<1> USE DEF HooksInv
<1>1. Calls(t, "destroy")  BY DEF RealDestroy
<1>2. PICK o \in Object : o = DestroyedObject(t)  BY <1>1, DestroyedHere
<1>3. /\ Made(o) /\ word[o] \in Heap /\ DestroyedWord(t) = word[o]
      /\ \A u \in Thread \ {t} : ~InUse(u, o)
      /\ o \in Mutex => th[t].m = o /\ th[t].op = "destroy"
  BY <1>1, <1>2, DestroyedHere DEF Made, Calls
<1>4. /\ real' \in [Heap -> Real] /\ real'[word[o]] = Freed
      /\ \A b \in Heap \ {word[o]} : real'[b] = real[b]
      /\ type' \in [Object -> Type \cup {"dead"}] /\ type'[o] = "dead"
      /\ \A p \in Object \ {o} : type'[p] = type[p]
      /\ UNCHANGED <<word, held, nvidia_hack>>
  BY <1>2, <1>3, NewReals DEF RealDestroy, HooksTypeOK
<1>5. th' \in [Thread -> Call] /\ th'[t] = NoCall /\ \A u \in Thread \ {t} : th'[u] = th[u]
  BY NoCallIsCall DEF RealDestroy, Return, HooksTypeOK
<1>6. HooksTypeOK'  BY <1>4, <1>5 DEF HooksTypeOK
<1>7. CallShape'  BY <1>5, NoCallFields DEF CallShape
<1>8. \A u \in Thread, p \in Object :
        /\ InUse(u, p)' => u # t /\ p # o /\ InUse(u, p)
        /\ FirstUse(u, p)' => u # t /\ FirstUse(u, p)
  BY <1>3, <1>5, NoCallFields, NullIsNone DEF InUse, FirstUse, Object
<1>9. WordsRead'
  <2> SUFFICES ASSUME NEW u \in Thread PROVE ReadBy(u)'  BY DEF WordsRead
  <2>1. CASE u = t  BY <1>8, <2>1 DEF ReadBy, Object
  <2>2. CASE u # t
    <3>1. \A p \in Object : FirstUse(u, p) => FirstUse(u, p)'  BY <1>5, <2>2 DEF FirstUse
    <3>2. \A p \in Object : InUse(u, p)' => (Live(p) => Live(p)')  BY <1>4, <1>8 DEF Live
    <3> QED  BY <1>4, <1>5, <1>8, <2>2, <3>1, <3>2 DEF WordsRead, ReadBy, Object
  <2> QED  BY <2>1, <2>2
<1>10. Alone'
  BY <1>5, <1>8 DEF Alone
<1>11. HeldOf'
  <2>1. o \in Mutex => \A u \in Thread : held[u][o] = 0  BY <1>3 DEF HeldOf
  <2> SUFFICES ASSUME NEW u \in Thread, NEW n \in Mutex
               PROVE  /\ ~Live(n)' => held'[u][n] = 0
                      /\ \A v \in Thread : th'[v].op = "destroy" /\ th'[v].m = n => held'[u][n] = 0
                      /\ th'[u].m = n /\ th'[u].op = "unlock" => held'[u][n] > 0
                      /\ th'[u].m = n /\ th'[u].op \in WaitOps /\ th'[u].pc \in {"cond", "mutex", "call"}
                           => held'[u][n] = 1
    BY DEF HeldOf
  <2>2. ~Live(n)' => held'[u][n] = 0  BY <1>4, <2>1 DEF HeldOf, Live, Object
  <2>3. \A v \in Thread : th'[v].op = "destroy" /\ th'[v].m = n => held'[u][n] = 0
    BY <1>4, <1>5, NoCallFields, NullIsNone DEF HeldOf
  <2> QED  BY <1>4, <1>5, <2>2, <2>3, NoCallFields, NullIsNone DEF HeldOf
<1>12. \A p \in Object : Made(p)' <=> Made(p) /\ p # o  BY <1>4 DEF Made, Live
<1>13. \A p \in Object : Live(p)' /\ word[p] \in Heap =>
          p # o /\ Live(p) /\ word[p] # word[o] /\ real'[word[p]] = real[word[p]]
  BY <1>3, <1>4 DEF WordsOf, Made, Live
<1>14. WordsOf'
  <2>1. ASSUME NEW m \in Mutex
        PROVE  IF word'[m] \in Heap THEN Live(m)' => real'[word'[m]].is = "mutex"
               ELSE word'[m] \in MutexWord /\ type'[m] = InitializerType(word'[m])
    BY <1>3, <1>4, <1>13 DEF WordsOf, Object
  <2>2. ASSUME NEW c \in Cond
        PROVE  IF word'[c] \in Heap THEN Live(c)' => real'[word'[c]].is = "cond"
               ELSE word'[c] \in CondWord /\ Live(c)'
    BY <1>3, <1>4, <1>13 DEF WordsOf, Object, Live
  <2>3. \A p, q \in Object : Made(p)' /\ Made(q)' /\ word'[p] = word'[q] => p = q
    BY <1>4, <1>12 DEF WordsOf
  <2>4. ASSUME NEW b \in Heap, real'[b].is # "free" PROVE \E p \in Object : Made(p)' /\ word'[p] = b
    <3>1. b # word[o] /\ b \in Heap \ Unallocated
      BY <1>3, <1>4, <2>4, NewFields DEF Unallocated
    <3> QED  BY <1>4, <1>12, <3>1 DEF WordsOf
  <2>5. \A b \in (Heap \ Unallocated)' : \E p \in Object : Made(p)' /\ word'[p] = b
    BY <2>4 DEF Unallocated
  <2> QED  BY <2>1, <2>2, <2>3, <2>5 DEF WordsOf
<1>15. OwnersAgree'
  <2> SUFFICES ASSUME ~nvidia_hack, NEW m \in Mutex, Live(m)', Hooked(m)'
               PROVE  IF word'[m] \in Heap
                      THEN LET r == real'[word'[m]]
                           IN /\ Locked(r) /\ r.kind = type'[m]
                              /\ \A u \in Thread : held'[u][m] = IF r.owner = u THEN r.depth ELSE 0
                      ELSE \A u \in Thread : held'[u][m] = 0
    BY <1>4 DEF OwnersAgree
  <2>1. Hooked(m) /\ Live(m) /\ m # o /\ m \in Object  BY <1>4 DEF Hooked, Live, Object
  <2> QED  BY <1>4, <1>13, <2>1 DEF OwnersAgree
<1> QED  BY <1>6, <1>7, <1>9, <1>10, <1>11, <1>14, <1>15

-----------------------------------------------------------------------------
(* The invariant.                                                          *)

LEMMA InitHooksKeep ==
  ASSUME HooksInv, Good, NEW t \in Thread,
         (\E m \in Mutex : MutexInit(t, m)) \/ (\E c \in Cond : CondInit(t, c))
  PROVE  HooksInv'
<1>1. ASSUME NEW m \in Mutex, MutexInit(t, m) PROVE HooksInv'
  <2>1. m \in Object  BY DEF Object
  <2> QED  BY <1>1, <2>1, InitsKeep DEF MutexInit
<1>2. ASSUME NEW c \in Cond, CondInit(t, c) PROVE HooksInv'
  <2>1. c \in Object /\ c \notin Mutex /\ "normal" \in Type  BY NullIsNone DEF Object, Type
  <2>2. PICK a \in Unallocated :
          /\ word' = [word EXCEPT ![c] = a] /\ real' = [real EXCEPT ![a] = NewCond]
          /\ type' = [type EXCEPT ![c] = "normal"]
    BY <1>2 DEF CondInit
  <2>3. MayInit(t, c) /\ UNCHANGED <<th, held, nvidia_hack>>  BY <1>2 DEF CondInit
  <2>4. real' = [real EXCEPT ![a] = IF c \in Mutex THEN NewMutex("normal") ELSE NewCond]
    BY <2>1, <2>2
  <2> QED  BY <2>1, <2>2, <2>3, <2>4, InitsKeep
<1> QED  BY <1>1, <1>2

\* Every step of a thread keeps the invariant.
LEMMA HooksStep ==
  ASSUME HooksInv, Good, [Next]_vars
  PROVE  HooksInv'
<1>1. CASE UNCHANGED vars  BY <1>1, StutterKeeps
<1>2. ASSUME NEW t \in Thread, Hook(t) PROVE HooksInv'
  BY <1>2, CallsKeep, CondCallsKeep, InitHooksKeep, AllocationsKeep DEF Hook
<1>3. ASSUME NEW t \in Thread, Glibc(t) PROVE HooksInv'
  BY <1>3, LocksKeep, UnlockKeeps, SleepKeeps, WakesKeep, DestroyKeeps DEF Glibc
<1> QED  BY <1>1, <1>2, <1>3 DEF Next

\* With clients in good order, addresses the hooks recognise and the
\* initialisers they know, the invariant holds throughout.
THEOREM HooksInvariant == ASSUME Good PROVE Spec => []HooksInv
<1>1. Init => HooksInv  BY HooksInitially
<1>2. HooksInv /\ [Next]_vars => HooksInv'  BY HooksStep
<1> QED  BY <1>1, <1>2, PTL DEF Spec

-----------------------------------------------------------------------------
(* What the runs check, for any instance.                                  *)

\* Every variable of the hooks has its type, as the clients' counts in
\* particular: nothing is unlocked below zero.
THEOREM HooksTypeCorrect == ASSUME Good PROVE Spec => []HooksTypeOK
<1>1. HooksInv => HooksTypeOK  BY DEF HooksInv
<1> QED  BY <1>1, HooksInvariant, PTL

\* No glibc object leaks and none belongs to two bionic objects, whatever
\* mixture of first uses, inits and destroys made them.
THEOREM RealsAreOwned == ASSUME Good PROVE Spec => []RealsOwned
<1>1. ASSUME HooksInv, NEW a \in Heap \ Unallocated
      PROVE  \E o \in Object : {p \in Object : type[p] # "dead" /\ word[p] = a} = {o}
  <2>1. PICK o \in Object : Made(o) /\ word[o] = a  BY <1>1 DEF HooksInv, WordsOf
  <2>2. \A p \in Object : type[p] # "dead" /\ word[p] = a <=> p = o
    BY <1>1, <2>1 DEF HooksInv, WordsOf, Made, Live
  <2> QED  BY <2>2
<1>2. HooksInv => RealsOwned  BY <1>1 DEF RealsOwned
<1> QED  BY <1>2, HooksInvariant, PTL

\* glibc is given live objects of the right sort only.
THEOREM AddressesAreLive == ASSUME Good PROVE Spec => []AddressesLive
<1>1. ASSUME HooksInv, NEW t \in Thread
      PROVE  /\ th[t].pc = "call" /\ th[t].m # NULL => LiveMutex(th[t].mv)
             /\ th[t].pc = "call" /\ th[t].c # NULL => LiveCond(th[t].cv)
             /\ th[t].pc = "asleep" => LiveCond(th[t].cv)
             /\ th[t].pc = "relock" => LiveMutex(th[t].mv)
  <2>1. th[t] \in Call  BY <1>1 DEF HooksInv, HooksTypeOK
  <2>2. th[t].pc \in {"asleep", "relock"} => th[t].c \in Cond /\ th[t].m \in Mutex
    BY <1>1, GuardIsMutex DEF HooksInv, CallShape
  <2>3. th[t].m # NULL => th[t].m \in Mutex  BY <2>1 DEF Call
  <2>4. th[t].c # NULL => th[t].c \in Cond  BY <2>1 DEF Call
  <2>5. th[t].pc \in {"call", "relock"} /\ th[t].m \in Mutex => LiveMutex(th[t].mv)
    BY <1>1, InGlibc DEF LiveMutex, Made
  <2>6. th[t].pc \in {"call", "asleep"} /\ th[t].c \in Cond => LiveCond(th[t].cv)
    BY <1>1, InGlibc DEF LiveCond, Made
  <2> QED  BY <2>2, <2>3, <2>4, <2>5, <2>6
<1>2. HooksInv => AddressesLive  BY <1>1 DEF AddressesLive
<1> QED  BY <1>2, HooksInvariant, PTL

\* The glibc mutex agrees with what its users were told.
THEOREM OwnersAreHolders == ASSUME Good PROVE Spec => []OwnerIsHolder
<1>1. HooksInv => OwnerIsHolder  BY DEF HooksInv, OwnersAgree, OwnerIsHolder, Live
<1> QED  BY <1>1, HooksInvariant, PTL

\* Two threads are never told that they hold the same mutex.
THEOREM HoldersExclude == ASSUME Good PROVE Spec => []MutualExclusion
<1>1. ASSUME HooksInv, NEW m \in Mutex, Hooked(m), NEW t \in Thread, NEW u \in Thread,
             held[t][m] > 0, held[u][m] > 0
      PROVE  t = u
  <2>1. Live(m) /\ ~nvidia_hack  BY <1>1 DEF HooksInv, HeldOf, Hooked
  <2> QED  BY <1>1, <2>1 DEF HooksInv, OwnersAgree
<1>2. HooksInv => MutualExclusion  BY <1>1 DEF MutualExclusion
<1> QED  BY <1>2, HooksInvariant, PTL

-----------------------------------------------------------------------------
(* What a step may not do.                                                 *)

\* The word of what has a glibc object behind it stays as it is.
LEMMA WordsStay ==
  ASSUME HooksInv, Good, [Next]_vars, NEW o \in Object, Made(o)
  PROVE  word'[o] = word[o]
<1> USE DEF HooksInv
<1>1. CASE UNCHANGED word  BY <1>1
<1>2. ASSUME NEW t \in Thread, NEW p \in Object, MayInit(t, p), NEW a, word' = [word EXCEPT ![p] = a]
      PROVE  word'[o] = word[o]
  BY <1>2, NotMade DEF MayInit, Live, HooksTypeOK
<1>3. ASSUME NEW t \in Thread, NEW p \in Object, FirstUse(t, p), NEW a, word' = [word EXCEPT ![p] = a]
      PROVE  word'[o] = word[o]
  BY <1>3, FirstUseOf DEF HooksTypeOK
<1>4. ASSUME NEW t \in Thread, Hook(t) PROVE word'[o] = word[o]
  <2>1. ASSUME NEW m \in Mutex, Lock(t, m) \/ Trylock(t, m) \/ Unlock(t, m) \/ MutexDestroy(t, m)
        PROVE  UNCHANGED word
    BY <2>1 DEF Lock, Trylock, Unlock, MutexDestroy, Begin, Pretend
  <2>2. ASSUME NEW c \in Cond, \/ Signal(t, c) \/ Broadcast(t, c) \/ CondDestroy(t, c)
                               \/ \E m \in Mutex : Wait(t, c, m) \/ Timedwait(t, c, m)
        PROVE  UNCHANGED word
    BY <2>2 DEF Signal, Broadcast, CondDestroy, Wait, Timedwait, Begin, vars
  <2>3. ASSUME NEW m \in Mutex, MutexInit(t, m) PROVE word'[o] = word[o]
    BY <1>2, <2>3 DEF MutexInit, Object
  <2>4. ASSUME NEW c \in Cond, CondInit(t, c) PROVE word'[o] = word[o]
    BY <1>2, <2>4 DEF CondInit, Object
  <2>5. CASE InitCond(t)
    <3>1. PICK c \in Cond : c = th[t].c  BY <2>5 DEF InitCond, CallShape
    <3>2. FirstUse(t, c) /\ c \in Object  BY <2>5, <3>1 DEF FirstUse, InitCond, Object
    <3> QED  BY <1>3, <2>5, <3>1, <3>2 DEF InitCond
  <2>6. CASE InitMutex(t)
    <3>1. PICK m \in Mutex : m = th[t].m  BY <2>6, GuardIsMutex DEF InitMutex, CallShape
    <3>2. InUse(t, m) /\ m \in Object /\ th[t].pc = "mutex"  BY <2>6, <3>1 DEF InUse, InitMutex, Object
    <3>3. FirstUse(t, m)  BY <3>1, <3>2 DEF FirstUse, WordsRead, ReadBy
    <3> QED  BY <1>3, <2>6, <3>1, <3>2, <3>3 DEF InitMutex
  <2> QED  BY <1>1, <1>4, <2>1, <2>2, <2>3, <2>4, <2>5, <2>6 DEF Hook
<1>5. ASSUME NEW t \in Thread, Glibc(t) PROVE UNCHANGED word
  BY <1>5 DEF Glibc, RealLock, RealTrylock, RealUnlock, Sleep, Timeout, Relock, RealSignal, RealBroadcast,
              RealDestroy
<1> QED  BY <1>1, <1>4, <1>5 DEF Next, vars

\* The address of a glibc object is not replaced while its object is in use.
THEOREM InitialisedOnceOnly == ASSUME Good PROVE Spec => InitialisedOnce
<1>1. HooksInv /\ [Next]_vars => [\A o \in Object : word[o] \in Heap /\ type[o] # "dead" => word'[o] = word[o]]_vars
  BY WordsStay DEF Made, Live
<1> QED  BY <1>1, HooksInvariant, PTL DEF InitialisedOnce, Spec

\* Who sleeps on the address of c waits for c.
LEMMA SleepersOf ==
  ASSUME HooksInv, Good, NEW t \in Thread, NEW c \in Cond, th[t].c = c, th[t].pc = "call", NEW u \in Thread
  PROVE  u \in Sleepers(th[t].cv) <=> th[u].pc = "asleep" /\ th[u].c = c
<1>1. Made(c) /\ th[t].cv = word[c] /\ c \in Object  BY InGlibc DEF Object
<1>2. ASSUME th[u].pc = "asleep" PROVE th[u].cv = word[c] <=> th[u].c = c
  <2>1. th[u].c \in Cond  BY <1>2 DEF HooksInv, CallShape
  <2>2. Made(th[u].c) /\ th[u].cv = word[th[u].c] /\ th[u].c \in Object
    BY <1>2, <2>1, InGlibc DEF Object
  <2> QED  BY <1>1, <2>2 DEF HooksInv, WordsOf
<1> QED  BY <1>1, <1>2 DEF Sleepers

\* A call in glibc is ended by its own thread.
LEMMA OthersStay ==
  ASSUME HooksInv, NEW t \in Thread, NEW u \in Thread \ {t}, Hook(u) \/ Glibc(u), th[t].pc = "call"
  PROVE  th'[t] = th[t]
<1> USE DEF HooksInv, HooksTypeOK
<1>1. CASE Hook(u)
  BY <1>1 DEF Hook, Lock, Trylock, Unlock, MutexInit, MutexDestroy, Signal, Broadcast, CondInit, CondDestroy,
              Wait, Timedwait, InitCond, InitMutex, Begin, Pretend, vars
<1>2. CASE Glibc(u)
  BY <1>2 DEF Glibc, RealLock, RealTrylock, RealUnlock, Sleep, Timeout, Relock, RealSignal, RealBroadcast,
              RealDestroy, Return, Sleepers
<1> QED  BY <1>1, <1>2

\* A signal is ended by glibc's, a broadcast too.
LEMMA WakersStep ==
  ASSUME HooksInv, NEW t \in Thread, Hook(t) \/ Glibc(t), th[t].pc = "call", th'[t].pc = "idle"
  PROVE  /\ th[t].op = "signal" => RealSignal(t)
         /\ th[t].op = "broadcast" => RealBroadcast(t)
<1>1. CASE Hook(t)
  <2>1. UNCHANGED th
    BY <1>1 DEF Hook, Lock, Trylock, Unlock, MutexInit, MutexDestroy, Signal, Broadcast, CondInit, CondDestroy,
                Wait, Timedwait, InitCond, InitMutex, MayLock, MayUnlock, MayWait, MayUse, MayInit, MayDestroy
  <2> QED  BY <2>1
<1>2. CASE Glibc(t)
  <2>1. RealLock(t) => th[t].op = "lock"  BY DEF RealLock, Calls
  <2>2. RealTrylock(t) => th[t].op = "trylock"  BY DEF RealTrylock, Calls
  <2>3. RealUnlock(t) => th[t].op = "unlock"  BY DEF RealUnlock, Calls
  <2>4. Sleep(t) => th[t].op \in {"wait", "timedwait"}  BY DEF Sleep, Calls
  <2>5. ~Timeout(t) /\ ~Relock(t)  BY DEF Timeout, Relock
  <2>6. RealSignal(t) => th[t].op = "signal"  BY DEF RealSignal, Calls
  <2>7. RealBroadcast(t) => th[t].op = "broadcast"  BY DEF RealBroadcast, Calls
  <2>8. RealDestroy(t) => th[t].op = "destroy"  BY DEF RealDestroy, Calls
  <2> QED  BY <1>2, <2>1, <2>2, <2>3, <2>4, <2>5, <2>6, <2>7, <2>8 DEF Glibc
<1> QED  BY <1>1, <1>2

LEMMA SignalWakes ==
  ASSUME HooksInv, Good, [Next]_vars, NEW t \in Thread, NEW c \in Cond,
         th[t].c = c, th[t].pc = "call", th'[t].pc = "idle"
  PROVE  LET before == {u \in Thread : th[u].pc = "asleep" /\ th[u].c = c}
             after  == {u \in Thread : th'[u].pc = "asleep" /\ th'[u].c = c}
         IN /\ th[t].op = "signal" /\ before # {} => after # before
            /\ th[t].op = "broadcast" => after = {}
<1> DEFINE before == {u \in Thread : th[u].pc = "asleep" /\ th[u].c = c}
           after  == {u \in Thread : th'[u].pc = "asleep" /\ th'[u].c = c}
<1>1. th \in [Thread -> Call]  BY DEF HooksInv, HooksTypeOK
<1>2. Hook(t) \/ Glibc(t)
  <2>1. th'[t] # th[t]  OBVIOUS
  <2>2. PICK u \in Thread : Hook(u) \/ Glibc(u)  BY <2>1 DEF Next, vars
  <2> QED  BY <2>1, <2>2, OthersStay
<1>3. Sleepers(th[t].cv) = before  BY SleepersOf DEF Sleepers
<1>4. ASSUME th[t].op = "signal", before # {} PROVE after # before
  <2>1. RealSignal(t)  BY <1>2, <1>4, WakersStep
  <2>2. PICK u \in before : th' = [th EXCEPT ![t] = NoCall, ![u].pc = "relock"]
    BY <1>3, <1>4, <2>1 DEF RealSignal
  <2>3. u # t /\ u \in Thread  OBVIOUS
  <2>4. th'[u].pc = "relock"  BY <1>1, <2>2, <2>3 DEF Call
  <2> QED  BY <2>2, <2>4
<1>5. ASSUME th[t].op = "broadcast" PROVE after = {}
  <2>1. RealBroadcast(t)  BY <1>2, <1>5, WakersStep
  <2>2. ASSUME NEW u \in Thread, th'[u].pc = "asleep", th'[u].c = c PROVE FALSE
    <3>1. u # t  BY <2>2
    <3>2. u \notin before  
      <4>1. u \in before => th'[u].pc = "relock"
        BY <1>1, <1>3, <2>1, <3>1 DEF RealBroadcast, Call
      <4> QED  BY <2>2, <4>1
    <3>3. th'[u] = th[u]  BY <1>3, <2>1, <3>1, <3>2 DEF RealBroadcast
    <3> QED  BY <2>2, <3>2, <3>3
  <2> QED  BY <2>2
<1> QED  BY <1>4, <1>5

\* A signal wakes one of the threads that wait, a broadcast all of them.
THEOREM SignalsDoArrive == ASSUME Good PROVE Spec => SignalsArrive
<1>1. HooksInv /\ [Next]_vars =>
        [\A t \in Thread, c \in Cond :
           LET before == {u \in Thread : th[u].pc = "asleep" /\ th[u].c = c}
               after  == {u \in Thread : th'[u].pc = "asleep" /\ th'[u].c = c}
           IN th[t].c = c /\ th[t].pc = "call" /\ th'[t].pc = "idle" =>
                /\ th[t].op = "signal" /\ before # {} => after # before
                /\ th[t].op = "broadcast" => after = {}]_vars
  BY SignalWakes
<1> QED  BY <1>1, HooksInvariant, PTL DEF SignalsArrive, Spec

-----------------------------------------------------------------------------
(* PthreadHooks implements Monitor: each step is one of Monitor's or none.  *)

\* What the clients of m see of t's hold on it.
HoldsOf(t, m) == IF Hooked(m) THEN held[t][m] ELSE 0

LEMMA HoldsValue == \A t \in Thread, m \in Mutex : Holds[t][m] = HoldsOf(t, m)
  BY DEF Holds, HoldsOf

LEMMA HoldsStay ==
  ASSUME \A t \in Thread, m \in Mutex : HoldsOf(t, m)' = HoldsOf(t, m)
  PROVE  UNCHANGED Holds
  BY DEF Holds, HoldsOf

LEMMA HoldsChange ==
  ASSUME NEW t \in Thread, NEW m \in Mutex, NEW n, HoldsOf(t, m)' = n,
         \A u \in Thread, k \in Mutex : u # t \/ k # m => HoldsOf(u, k)' = HoldsOf(u, k)
  PROVE  Holds' = [Holds EXCEPT ![t][m] = n]
<1>1. \A u \in Thread, k \in Mutex :
        HoldsOf(u, k)' = IF u = t /\ k = m THEN n ELSE HoldsOf(u, k)
  OBVIOUS
<1>2. [Holds EXCEPT ![t][m] = n] =
        [u \in Thread |-> [k \in Mutex |-> IF u = t /\ k = m THEN n ELSE HoldsOf(u, k)]]
  BY DEF Holds, HoldsOf
<1>3. Holds' = [u \in Thread |-> [k \in Mutex |-> HoldsOf(u, k)']]  BY DEF Holds, HoldsOf
<1> QED  BY <1>1, <1>2, <1>3

WaitsFor(t) == IF th[t].pc = "asleep" /\ ~nvidia_hack THEN th[t].c ELSE NULL

LEMMA WaitingValue == \A t \in Thread : Waiting[t] = WaitsFor(t)
  BY DEF Waiting, WaitsFor

LEMMA WaitingStays ==
  ASSUME \A t \in Thread : WaitsFor(t)' = WaitsFor(t) PROVE UNCHANGED Waiting
  BY DEF Waiting, WaitsFor

LEMMA WaitingChanges ==
  ASSUME NEW t \in Thread, NEW c, WaitsFor(t)' = c, \A u \in Thread \ {t} : WaitsFor(u)' = WaitsFor(u)
  PROVE  Waiting' = [Waiting EXCEPT ![t] = c]
  BY DEF Waiting, WaitsFor

LEMMA KindStays ==
  ASSUME \A m \in Mutex : type'[m] = type[m] PROVE UNCHANGED Kind
  BY DEF Kind

LEMMA KindIsOneType == ASSUME HooksInv PROVE Kind \in [Mutex -> Type]
  BY DEF HooksInv, HooksTypeOK, Kind, Type, Object

\* A step of Monitor or none.
Serves == HooksMonitor!Next \/ UNCHANGED <<Holds, Waiting, Kind>>

LEMMA MonitorInitially == ASSUME Init, Good PROVE HooksMonitor!Init
<1>1. HooksInv  BY HooksInitially
<1>2. Kind \in [Mutex -> Type]  BY <1>1, KindIsOneType
<1>3. Holds = [t \in Thread |-> [m \in Mutex |-> 0]]  BY DEF Init, Holds
<1>4. Waiting = [t \in Thread |-> NULL]  BY DEF Init, Waiting, NoCall
<1> QED  BY <1>2, <1>3, <1>4 DEF HooksMonitor!Init

\* Steps of a hook before it calls glibc.
LEMMA CallsServe ==
  ASSUME HooksInv, Good, NEW t \in Thread, NEW op, NEW c, NEW m, th[t].pc = "idle", Begin(t, op, c, m)
  PROVE  Serves
<1>1. /\ UNCHANGED <<word, real, held, type, nvidia_hack>> /\ th'[t].pc # "asleep"
      /\ \A u \in Thread \ {t} : th'[u] = th[u]
  BY DEF Begin, FirstStep, HooksInv, HooksTypeOK
<1>2. UNCHANGED Holds  BY <1>1, HoldsStay DEF HoldsOf, Hooked
<1>3. UNCHANGED Waiting  BY <1>1, WaitingStays DEF WaitsFor
<1>4. UNCHANGED Kind  BY <1>1, KindStays
<1> QED  BY <1>2, <1>3, <1>4 DEF Serves

LEMMA PretendServes ==
  ASSUME HooksInv, Good, NEW t \in Thread, NEW m \in Mutex, NEW n, ~Hooked(m), Pretend(t, m, n)
  PROVE  Serves
<1>1. /\ UNCHANGED <<word, real, th, type, nvidia_hack>>
      /\ \A u \in Thread, k \in Mutex : k # m => held'[u][k] = held[u][k]
  BY DEF Pretend, HooksInv, HooksTypeOK
<1>2. UNCHANGED Holds  BY <1>1, HoldsStay DEF HoldsOf, Hooked
<1>3. UNCHANGED Waiting  BY <1>1, WaitingStays DEF WaitsFor
<1>4. UNCHANGED Kind  BY <1>1, KindStays
<1> QED  BY <1>2, <1>3, <1>4 DEF Serves

LEMMA StutterServes == ASSUME UNCHANGED vars PROVE Serves
<1>1. UNCHANGED Holds  BY HoldsStay DEF HoldsOf, Hooked, vars
<1>2. UNCHANGED Waiting  BY WaitingStays DEF WaitsFor, vars
<1>3. UNCHANGED Kind  BY KindStays DEF vars
<1> QED  BY <1>1, <1>2, <1>3 DEF Serves

LEMMA HookCallsServe ==
  ASSUME HooksInv, Good, NEW t \in Thread,
         \/ \E m \in Mutex : Lock(t, m) \/ Trylock(t, m) \/ Unlock(t, m) \/ MutexDestroy(t, m)
         \/ \E c \in Cond : Signal(t, c) \/ Broadcast(t, c) \/ CondDestroy(t, c)
         \/ \E c \in Cond, m \in Mutex : Wait(t, c, m) \/ Timedwait(t, c, m)
  PROVE  Serves
<1>1. ASSUME NEW m \in Mutex, Lock(t, m) PROVE Serves
  BY <1>1, CallsServe, PretendServes DEF Lock, MayLock, MayUse, Hooked
<1>2. ASSUME NEW m \in Mutex, Trylock(t, m) PROVE Serves
  BY <1>2, CallsServe, PretendServes DEF Trylock, MayLock, MayUse, Hooked
<1>3. ASSUME NEW m \in Mutex, Unlock(t, m) PROVE Serves
  <2>1. th[t].pc = "idle" /\ held[t][m] > 0 /\ Live(m)  BY <1>3 DEF Unlock, MayUnlock, MayUse, Live
  <2>2. nvidia_hack \/ Low(word[m]) => ~Hooked(m)
    BY <2>1, HeapIsHigh DEF HooksInv, OwnersAgree, Hooked
  <2> QED  BY <1>3, <2>1, <2>2, CallsServe, PretendServes DEF Unlock
<1>4. ASSUME NEW m \in Mutex, MutexDestroy(t, m) PROVE Serves
  BY <1>4, CallsServe DEF MutexDestroy, MayDestroy
<1>5. ASSUME NEW c \in Cond, Signal(t, c) \/ Broadcast(t, c) \/ CondDestroy(t, c) PROVE Serves
  BY <1>5, CallsServe, StutterServes DEF Signal, Broadcast, CondDestroy, MayUse, MayDestroy
<1>6. ASSUME NEW c \in Cond, NEW m \in Mutex, Wait(t, c, m) \/ Timedwait(t, c, m) PROVE Serves
  BY <1>6, CallsServe, StutterServes DEF Wait, Timedwait, MayWait, MayUse
<1> QED  BY <1>1, <1>2, <1>3, <1>4, <1>5, <1>6

\* A first use: the mutex stays free, the condition without waiters.
LEMMA FirstUsesServe ==
  ASSUME HooksInv, Good, NEW t \in Thread, InitCond(t) \/ InitMutex(t)
  PROVE  Serves
<1> USE DEF HooksInv, HooksTypeOK
<1>1. /\ UNCHANGED <<held, type, nvidia_hack>> /\ \A u \in Thread \ {t} : th'[u] = th[u]
  BY DEF InitCond, InitMutex
<1>2. th[t].pc # "asleep" /\ th'[t].pc # "asleep"
  <2>1. CASE InitCond(t)
    <3>1. \E a : \E w \in {"mutex", "call"} : th' = [th EXCEPT ![t].cv = a, ![t].pc = w]
      BY <2>1 DEF InitCond
    <3>2. th'[t].pc \in {"mutex", "call"}  BY <3>1 DEF Call
    <3> QED  BY <2>1, <3>2 DEF InitCond
  <2>2. CASE InitMutex(t)
    <3>1. \E a : th' = [th EXCEPT ![t].mv = a, ![t].pc = "call"]  BY <2>2 DEF InitMutex
    <3>2. th'[t].pc = "call"  BY <3>1 DEF Call
    <3> QED  BY <2>2, <3>2 DEF InitMutex
  <2> QED  BY <2>1, <2>2
<1>3. ASSUME NEW m \in Mutex PROVE Hooked(m)' <=> Hooked(m)
  <2>1. CASE InitCond(t)
    <3>1. th[t].c \in Cond  BY <2>1 DEF InitCond, CallShape
    <3>2. \E a \in Unallocated : word' = [word EXCEPT ![th[t].c] = a]  BY <2>1 DEF InitCond
    <3>3. word'[m] = word[m]  BY <3>1, <3>2, NullIsNone DEF Object
    <3> QED  BY <1>1, <3>3 DEF Hooked
  <2>2. CASE InitMutex(t)
    <3>1. CASE m = th[t].m
      <4>1. ~hybris_check_android_shared_mutex(word[m])
        BY <3>1 DEF WordsRead, ReadBy, InUse
      <4>2. word'[m] \in Heap  BY <2>2, <3>1 DEF InitMutex, Unallocated, Object
      <4> QED  BY <1>1, <4>1, <4>2, AddressIsPrivate DEF Hooked
    <3>2. CASE m # th[t].m
      <4>1. word'[m] = word[m]  BY <2>2, <3>2 DEF InitMutex, Object
      <4> QED  BY <1>1, <4>1 DEF Hooked
    <3> QED  BY <3>1, <3>2
  <2> QED  BY <2>1, <2>2
<1>4. UNCHANGED Holds  BY <1>1, <1>3, HoldsStay DEF HoldsOf
<1>5. UNCHANGED Waiting  BY <1>1, <1>2, WaitingStays DEF WaitsFor
<1>6. UNCHANGED Kind  BY <1>1, KindStays
<1> QED  BY <1>4, <1>5, <1>6 DEF Serves

\* A mutex is initialised or destroyed when nobody holds it.
LEMMA RenewServes ==
  ASSUME HooksInv, NEW m \in Mutex, NEW k \in Type, UNCHANGED <<held, nvidia_hack>>,
         Kind' = [Kind EXCEPT ![m] = k], \A t \in Thread : held[t][m] = 0,
         \A n \in Mutex \ {m} : word'[n] = word[n], UNCHANGED Waiting
  PROVE  Serves
<1>1. UNCHANGED Holds  BY HoldsStay DEF HoldsOf, Hooked
<1>2. \A t \in Thread : Holds[t][m] = 0  BY HoldsValue DEF HoldsOf
<1>3. HooksMonitor!Renew(m)  BY <1>1, <1>2 DEF HooksMonitor!Renew
<1> QED  BY <1>3 DEF Serves, HooksMonitor!Next

LEMMA InitsServe ==
  ASSUME HooksInv, Good, NEW t \in Thread,
         (\E m \in Mutex : MutexInit(t, m)) \/ (\E c \in Cond : CondInit(t, c))
  PROVE  Serves
<1> USE DEF HooksInv, HooksTypeOK
<1>1. ASSUME NEW m \in Mutex, MutexInit(t, m) PROVE Serves
  <2>1. PICK k \in Type : type' = [type EXCEPT ![m] = k]  BY <1>1 DEF MutexInit
  <2>2. Kind' = [Kind EXCEPT ![m] = k]  BY <2>1 DEF Kind, Type, Object
  <2>3. /\ \A u \in Thread : held[u][m] = 0
        /\ UNCHANGED <<th, held, nvidia_hack>>
        /\ \A n \in Mutex \ {m} : word'[n] = word[n]
    BY <1>1 DEF MutexInit, MayInit, AtRest, Object
  <2>4. UNCHANGED Waiting  BY <2>3, WaitingStays DEF WaitsFor
  <2> QED  BY <2>2, <2>3, <2>4, RenewServes
<1>2. ASSUME NEW c \in Cond, CondInit(t, c) PROVE Serves
  <2>1. /\ UNCHANGED <<th, held, nvidia_hack>>
        /\ \A m \in Mutex : word'[m] = word[m] /\ type'[m] = type[m]
    BY <1>2, NullIsNone DEF CondInit, Object
  <2>2. UNCHANGED Holds  BY <2>1, HoldsStay DEF HoldsOf, Hooked
  <2>3. UNCHANGED Waiting  BY <2>1, WaitingStays DEF WaitsFor
  <2>4. UNCHANGED Kind  BY <2>1, KindStays
  <2> QED  BY <2>2, <2>3, <2>4 DEF Serves
<1> QED  BY <1>1, <1>2

\* Steps of glibc that leave the words as they are.
LEMMA GlibcLeaves ==
  ASSUME UNCHANGED <<word, type, nvidia_hack>>
  PROVE  UNCHANGED Kind /\ \A m \in Mutex : Hooked(m)' <=> Hooked(m)
<1>1. UNCHANGED Kind  BY KindStays
<1> QED  BY <1>1 DEF Hooked

LEMMA ReturnServes ==
  ASSUME HooksInv, NEW t \in Thread, Return(t), th[t].pc # "asleep", UNCHANGED nvidia_hack
  PROVE  UNCHANGED Waiting /\ Waiting[t] = NULL
<1>1. th'[t].pc # "asleep" /\ \A u \in Thread \ {t} : th'[u] = th[u]
  BY NoCallFields DEF Return, HooksInv, HooksTypeOK
<1>2. UNCHANGED Waiting  BY <1>1, WaitingStays DEF WaitsFor
<1>3. Waiting[t] = NULL  BY WaitingValue DEF WaitsFor
<1> QED  BY <1>2, <1>3

\* A lock of a mutex the hooks serve takes it from nobody.
LEMMA TakeServes ==
  ASSUME HooksInv, Good, NEW t \in Thread, NEW m \in Mutex, th[t].m = m, th[t].pc \in {"call", "relock"},
         Take(t), Return(t), UNCHANGED <<word, type, nvidia_hack>>
  PROVE  Serves
<1> DEFINE x == real[word[m]]
<1>1. /\ Made(m) /\ th[t].mv = word[m] /\ x \in Real /\ m \in Object
      /\ \A u \in Thread : held[u][m] \in Nat
      /\ Hooked(m) => /\ Locked(x) /\ x.kind = type[m]
                      /\ \A u \in Thread : held[u][m] = IF x.owner = u THEN x.depth ELSE 0
  BY RealOf
<1>2. /\ x.owner = NoThread \/ (x.owner = t /\ x.kind = "recursive")
      /\ held'[t][m] = held[t][m] + 1
      /\ \A u \in Thread, k \in Mutex : u # t \/ k # m => held'[u][k] = held[u][k]
  BY <1>1 DEF Take, CanTake, HooksInv, HooksTypeOK
<1>3. UNCHANGED Kind /\ \A k \in Mutex : Hooked(k)' <=> Hooked(k)  BY GlibcLeaves
<1>4. UNCHANGED Waiting /\ Waiting[t] = NULL  BY ReturnServes
<1>5. CASE Hooked(m)
  <2>1. Holds' = [Holds EXCEPT ![t][m] = HoldsOf(t, m) + 1]
    BY <1>2, <1>3, <1>5, HoldsChange DEF HoldsOf
  <2>2. Holds' = [Holds EXCEPT ![t][m] = @ + 1]  BY <2>1, HoldsValue DEF Holds
  <2>3. \A u \in Thread \ {t} : Holds[u][m] = 0
    BY <1>1, <1>2, <1>5, HoldsValue, NullIsNone DEF HoldsOf
  <2>4. Holds[t][m] = 0 \/ Kind[m] = "recursive"
    <3>1. CASE x.owner = NoThread
      BY <1>1, <1>5, <3>1, HoldsValue, NullIsNone DEF HoldsOf
    <3>2. CASE x.kind = "recursive"  BY <1>1, <1>5, <3>2 DEF Kind
    <3> QED  BY <1>2, <3>1, <3>2
  <2>5. HooksMonitor!Acquire(t, m)
    BY <1>3, <1>4, <2>2, <2>3, <2>4 DEF HooksMonitor!Acquire
  <2> QED  BY <2>5 DEF Serves, HooksMonitor!Next
<1>6. CASE ~Hooked(m)
  <2>1. UNCHANGED Holds  BY <1>2, <1>3, <1>6, HoldsStay DEF HoldsOf
  <2> QED  BY <1>3, <1>4, <2>1 DEF Serves
<1> QED  BY <1>5, <1>6

LEMMA LocksServe ==
  ASSUME HooksInv, Good, NEW t \in Thread, RealLock(t) \/ RealTrylock(t) \/ Relock(t)
  PROVE  Serves
<1>1. th[t].m \in Mutex /\ th[t].pc \in {"call", "relock"}
  BY CallMutex DEF RealLock, RealTrylock, Relock, LockOps
<1>2. Return(t) /\ UNCHANGED <<word, type, nvidia_hack>>
  BY DEF RealLock, RealTrylock, Relock
<1>3. Take(t) \/ UNCHANGED <<real, held>>
  BY DEF RealLock, RealTrylock, Relock
<1>4. CASE Take(t)  BY <1>1, <1>2, <1>4, TakeServes
<1>5. CASE UNCHANGED held
  <2>1. UNCHANGED Kind /\ \A k \in Mutex : Hooked(k)' <=> Hooked(k)  BY <1>2, GlibcLeaves
  <2>2. UNCHANGED Holds  BY <1>5, <2>1, HoldsStay DEF HoldsOf
  <2>3. UNCHANGED Waiting  BY <1>1, <1>2, ReturnServes
  <2> QED  BY <2>1, <2>2, <2>3 DEF Serves
<1> QED  BY <1>3, <1>4, <1>5

LEMMA UnlockServes ==
  ASSUME HooksInv, Good, NEW t \in Thread, RealUnlock(t)
  PROVE  Serves
<1>1. Calls(t, "unlock") /\ Return(t) /\ UNCHANGED <<word, type, nvidia_hack>>
  BY DEF RealUnlock
<1>2. PICK m \in Mutex : th[t].m = m  BY <1>1, CallMutex
<1>3. th[t].pc = "call" /\ th[t].op = "unlock"  BY <1>1 DEF Calls
<1>4. /\ held'[t][m] = held[t][m] - 1
      /\ \A u \in Thread, k \in Mutex : u # t \/ k # m => held'[u][k] = held[u][k]
  BY <1>2 DEF RealUnlock, HooksInv, HooksTypeOK
<1>5. held[t][m] > 0  BY <1>2, <1>3 DEF HooksInv, HeldOf
<1>6. UNCHANGED Kind /\ \A k \in Mutex : Hooked(k)' <=> Hooked(k)  BY <1>1, GlibcLeaves
<1>7. UNCHANGED Waiting  BY <1>1, <1>3, ReturnServes
<1>8. CASE Hooked(m)
  <2>1. Holds' = [Holds EXCEPT ![t][m] = HoldsOf(t, m) - 1]
    BY <1>4, <1>6, <1>8, HoldsChange DEF HoldsOf
  <2>2. Holds' = [Holds EXCEPT ![t][m] = @ - 1]  BY <2>1, HoldsValue DEF Holds
  <2>3. Holds[t][m] > 0  BY <1>5, <1>8, HoldsValue DEF HoldsOf
  <2>4. HooksMonitor!Release(t, m)  BY <1>6, <1>7, <2>2, <2>3 DEF HooksMonitor!Release
  <2> QED  BY <2>4 DEF Serves, HooksMonitor!Next
<1>9. CASE ~Hooked(m)
  <2>1. UNCHANGED Holds  BY <1>4, <1>6, <1>9, HoldsStay DEF HoldsOf
  <2> QED  BY <1>6, <1>7, <2>1 DEF Serves
<1> QED  BY <1>8, <1>9

LEMMA SleepServes ==
  ASSUME HooksInv, Good, NEW t \in Thread, Sleep(t)
  PROVE  Serves
<1>1. Calls(t, "wait") \/ Calls(t, "timedwait")  BY DEF Sleep
<1>2. PICK m \in Mutex : th[t].m = m  BY <1>1, CallMutex DEF WaitOps
<1>3. th[t].pc = "call" /\ th[t].op \in WaitOps  BY <1>1 DEF Calls, WaitOps
<1>4. PICK c \in Cond : th[t].c = c  BY <1>3 DEF HooksInv, CallShape
<1>5. UNCHANGED <<word, type, nvidia_hack>>  BY DEF Sleep
<1>6. UNCHANGED Kind /\ \A k \in Mutex : Hooked(k)' <=> Hooked(k)  BY <1>5, GlibcLeaves
<1>7. CASE Return(t) /\ UNCHANGED held
  <2>1. UNCHANGED Holds  BY <1>6, <1>7, HoldsStay DEF HoldsOf
  <2>2. UNCHANGED Waiting  BY <1>3, <1>5, <1>7, ReturnServes
  <2> QED  BY <1>6, <2>1, <2>2 DEF Serves
<1>8. CASE held' = [held EXCEPT ![t][m] = 0] /\ th' = [th EXCEPT ![t].pc = "asleep"]
  <2>1. /\ held'[t][m] = 0
        /\ \A u \in Thread, k \in Mutex : u # t \/ k # m => held'[u][k] = held[u][k]
    BY <1>8 DEF HooksInv, HooksTypeOK
  <2>2. /\ th'[t].pc = "asleep" /\ th'[t].c = c
        /\ \A u \in Thread \ {t} : th'[u] = th[u]
    BY <1>4, <1>8 DEF HooksInv, HooksTypeOK, Call
  <2>3. Hooked(m) <=> ~nvidia_hack  BY <1>2, <1>3, RealOf
  <2>4. CASE Hooked(m)
    <3>1. Holds' = [Holds EXCEPT ![t][m] = 0]
      BY <1>6, <2>1, <2>4, HoldsChange DEF HoldsOf
    <3>2. Holds[t][m] = 1
      BY <1>2, <1>3, <2>4, HolderIsServed, HoldsValue DEF HoldsOf
    <3>3. Waiting' = [Waiting EXCEPT ![t] = c]
      BY <1>5, <2>2, <2>3, <2>4, WaitingChanges DEF WaitsFor
    <3>4. HooksMonitor!Wait(t, c, m)  BY <1>6, <3>1, <3>2, <3>3 DEF HooksMonitor!Wait
    <3> QED  BY <3>4 DEF Serves, HooksMonitor!Next
  <2>5. CASE ~Hooked(m)
    <3>1. UNCHANGED Holds  BY <1>6, <2>1, <2>5, HoldsStay DEF HoldsOf
    <3>2. UNCHANGED Waiting  BY <1>5, <2>3, <2>5, WaitingStays DEF WaitsFor
    <3> QED  BY <1>6, <3>1, <3>2 DEF Serves
  <2> QED  BY <2>4, <2>5
<1> QED  BY <1>2, <1>7, <1>8 DEF Sleep

\* u alone leaves its wait.
LEMMA WakeServes ==
  ASSUME HooksInv, NEW u \in Thread, th[u].pc = "asleep", th'[u].pc = "relock",
         \A v \in Thread \ {u} : \/ th[v].pc # "asleep" /\ th'[v].pc # "asleep"
                                \/ th'[v] = th[v],
         UNCHANGED <<word, held, type, nvidia_hack>>
  PROVE  Serves
<1>1. UNCHANGED Kind /\ \A k \in Mutex : Hooked(k)' <=> Hooked(k)  BY GlibcLeaves
<1>2. UNCHANGED Holds  BY <1>1, HoldsStay DEF HoldsOf
<1>3. CASE nvidia_hack
  <2>1. UNCHANGED Waiting  BY <1>3, WaitingStays DEF WaitsFor
  <2> QED  BY <1>1, <1>2, <2>1 DEF Serves
<1>4. CASE ~nvidia_hack
  <2>1. Waiting' = [Waiting EXCEPT ![u] = NULL]  BY <1>4, WaitingChanges DEF WaitsFor
  <2>2. th[u].c \in Cond  BY DEF HooksInv, CallShape
  <2>3. Waiting[u] # NULL  BY <1>4, <2>2, WaitingValue, NullIsNone DEF WaitsFor
  <2>4. HooksMonitor!Wake(u)  BY <1>1, <1>2, <2>1, <2>3 DEF HooksMonitor!Wake
  <2> QED  BY <2>4 DEF Serves, HooksMonitor!Next
<1> QED  BY <1>3, <1>4

LEMMA TimeoutServes ==
  ASSUME HooksInv, NEW t \in Thread, Timeout(t)
  PROVE  Serves
<1>1. /\ th[t].pc = "asleep" /\ th'[t].pc = "relock" /\ \A v \in Thread \ {t} : th'[v] = th[v]
      /\ UNCHANGED <<word, held, type, nvidia_hack>>
  BY DEF Timeout, HooksInv, HooksTypeOK, Call
<1> QED  BY <1>1, WakeServes

LEMMA SignalServes ==
  ASSUME HooksInv, NEW t \in Thread, RealSignal(t)
  PROVE  Serves
<1>1. th[t].pc = "call" /\ UNCHANGED <<word, held, type, nvidia_hack>>  BY DEF RealSignal, Calls
<1>2. CASE Return(t)
  <2>1. UNCHANGED Kind /\ \A k \in Mutex : Hooked(k)' <=> Hooked(k)  BY <1>1, GlibcLeaves
  <2>2. UNCHANGED Holds  BY <1>1, <2>1, HoldsStay DEF HoldsOf
  <2>3. UNCHANGED Waiting  BY <1>1, <1>2, ReturnServes
  <2> QED  BY <2>1, <2>2, <2>3 DEF Serves
<1>3. ASSUME NEW u \in Sleepers(th[t].cv), th' = [th EXCEPT ![t] = NoCall, ![u].pc = "relock"]
      PROVE  Serves
  <2>1. u \in Thread /\ u # t /\ th[u].pc = "asleep"  BY <1>1, <1>3 DEF Sleepers
  <2>2. /\ th'[u].pc = "relock" /\ th'[t].pc = "idle"
        /\ \A v \in Thread \ {t, u} : th'[v] = th[v]
    BY <1>3, <2>1, NoCallFields DEF HooksInv, HooksTypeOK, Call
  <2> QED  BY <1>1, <2>1, <2>2, WakeServes
<1> QED  BY <1>2, <1>3 DEF RealSignal

LEMMA BroadcastServes ==
  ASSUME HooksInv, Good, NEW t \in Thread, RealBroadcast(t)
  PROVE  Serves
<1>1. /\ th[t].pc = "call" /\ th[t].op = "broadcast" /\ UNCHANGED <<word, held, type, nvidia_hack>>
  BY DEF RealBroadcast, Calls
<1>2. PICK c \in Cond : th[t].c = c  BY <1>1 DEF HooksInv, CallShape, WakeOps
<1>3. UNCHANGED Kind /\ \A k \in Mutex : Hooked(k)' <=> Hooked(k)  BY <1>1, GlibcLeaves
<1>4. UNCHANGED Holds  BY <1>1, <1>3, HoldsStay DEF HoldsOf
<1>5. ASSUME NEW u \in Thread
      PROVE  IF u # t /\ th[u].pc = "asleep" /\ th[u].c = c THEN th'[u].pc = "relock"
             ELSE IF u = t THEN th'[u].pc = "idle" ELSE th'[u] = th[u]
  <2>1. u \in Sleepers(th[t].cv) <=> th[u].pc = "asleep" /\ th[u].c = c
    BY <1>1, <1>2, SleepersOf
  <2>2. th[u] \in Call  BY DEF HooksInv, HooksTypeOK
  <2> QED  BY <2>1, <2>2, NoCallFields DEF RealBroadcast, Call
<1>6. Waiting' = [u \in Thread |-> IF Waiting[u] = c THEN NULL ELSE Waiting[u]]
  <2>1. \A u \in Thread : WaitsFor(u)' = IF WaitsFor(u) = c THEN NULL ELSE WaitsFor(u)
    BY <1>1, <1>5, NullIsNone DEF WaitsFor
  <2>2. Waiting' = [u \in Thread |-> WaitsFor(u)']  BY DEF Waiting, WaitsFor
  <2> QED  BY <2>1, <2>2, WaitingValue
<1>7. HooksMonitor!WakeAll(c)  BY <1>3, <1>4, <1>6 DEF HooksMonitor!WakeAll
<1> QED  BY <1>7 DEF Serves, HooksMonitor!Next

LEMMA DestroyServes ==
  ASSUME HooksInv, Good, NEW t \in Thread, RealDestroy(t)
  PROVE  Serves
<1> USE DEF HooksInv, HooksTypeOK
<1>1. Calls(t, "destroy") /\ Return(t) /\ UNCHANGED <<word, held, nvidia_hack>>  BY DEF RealDestroy
<1>2. PICK o \in Object : o = DestroyedObject(t)  BY <1>1, DestroyedHere
<1>3. type' = [type EXCEPT ![o] = "dead"]  BY <1>2 DEF RealDestroy
<1>4. UNCHANGED Waiting  BY <1>1, ReturnServes DEF Calls
<1>5. CASE o \in Mutex
  <2>1. \A u \in Thread : held[u][o] = 0
    BY <1>1, <1>2, <1>5, DestroyedHere DEF HeldOf, Calls
  <2>2. Kind' = [Kind EXCEPT ![o] = "normal"]  BY <1>3, <1>5 DEF Kind, Object
  <2> QED  BY <1>1, <1>4, <1>5, <2>1, <2>2, RenewServes DEF Type
<1>6. CASE o \in Cond
  <2>1. UNCHANGED Holds  BY <1>1, HoldsStay DEF HoldsOf, Hooked
  <2>2. UNCHANGED Kind  BY <1>3, <1>6, KindStays, NullIsNone DEF Object
  <2> QED  BY <1>4, <2>1, <2>2 DEF Serves
<1> QED  BY <1>5, <1>6 DEF Object

LEMMA StepServes ==
  ASSUME HooksInv, Good, [Next]_vars
  PROVE  Serves
<1>1. CASE UNCHANGED vars  BY <1>1, StutterServes
<1>2. ASSUME NEW t \in Thread, Hook(t) PROVE Serves
  BY <1>2, HookCallsServe, InitsServe, FirstUsesServe DEF Hook
<1>3. ASSUME NEW t \in Thread, Glibc(t) PROVE Serves
  BY <1>3, LocksServe, UnlockServes, SleepServes, TimeoutServes, SignalServes, BroadcastServes, DestroyServes
  DEF Glibc
<1> QED  BY <1>1, <1>2, <1>3 DEF Next

\* The hooks are a monitor: every step of a thread is one that a user of POSIX
\* mutexes and conditions expects, or changes nothing the user sees.
THEOREM HooksImplementMonitor == ASSUME Good PROVE Spec => MonitorSpec
<1>1. Init => HooksMonitor!Init  BY MonitorInitially
<1>2. HooksInv /\ [Next]_vars => [HooksMonitor!Next]_<<Holds, Waiting, Kind>>
  BY StepServes DEF Serves
<1> QED  BY <1>1, <1>2, HooksInvariant, PTL DEF MonitorSpec, HooksMonitor!Spec, Spec
=============================================================================
