---------------------------- MODULE PthreadHooks ----------------------------
(***************************************************************************)
(* The mutexes and condition variables of hooked bionic code               *)
(* (common/hooks.c).  The first int of the bionic object is either a value *)
(* Android's static initialisers put there, or the address of a glibc      *)
(* object; the hooks allocate the glibc object at the first use.           *)
(*                                                                         *)
(* A call reads the word once, stores the address of a new object if the   *)
(* word looks uninitialised, and calls glibc: three steps that those of    *)
(* other threads can come between.  Words are the C int the hooks compare: *)
(* an address from 2^31 up is negative.                                    *)
(***************************************************************************)
EXTENDS Integers, FiniteSets

CONSTANTS
  Thread, NoThread,
  Mutex, Cond,      \* the bionic objects
  MutexWord,        \* Android's static initialisers of mutexes in use
  CondWord,         \* the same of condition variables
  Heap,             \* addresses malloc can return
  GuardedBy,        \* Cond -> the mutex clients use with a condition
  Habits,           \* what clients do beyond good order, see MayUse, MayDestroy
  MaxDepth,         \* bound: locks a thread holds on one mutex
  NULL

ASSUME HooksAssumption ==
  /\ NoThread \notin Thread
  /\ Mutex \cap Cond = {} /\ NULL \notin Mutex \cup Cond
  /\ GuardedBy \in [Cond -> Mutex]
  /\ \A v \in MutexWord \cup CondWord : v \in Nat /\ v <= 65535
  /\ \A a \in Heap : a \in Int /\ (a < 0 \/ a > 65535)
  /\ Habits \subseteq {"race", "destroy"} /\ MaxDepth \in Nat

VARIABLES
  word,         \* the first int of each bionic object
  real,         \* the glibc object at each address
  th,           \* what each thread executes, see Call
  held,         \* the clients: how often each thread holds each mutex
  type,         \* the clients: what they made of each object, "dead" when destroyed
  nvidia_hack   \* set from $GRAPHICS by the first symbol lookup

vars == <<word, real, th, held, type, nvidia_hack>>

Object == Mutex \cup Cond
Type   == {"normal", "recursive", "errorcheck"}

LockOps == {"lock", "trylock"}
WaitOps == {"wait", "timedwait"}
WakeOps == {"signal", "broadcast"}
Op      == LockOps \cup WaitOps \cup WakeOps \cup {"unlock", "destroy"}

\* "cond", "mutex": about to store the address of a new object.  "call": about
\* to call glibc.  "asleep": in pthread_cond_wait.  "relock": woken up there.
Call == [pc : {"idle", "cond", "mutex", "call", "asleep", "relock"}, op : Op \cup {NULL},
         c : Cond \cup {NULL}, m : Mutex \cup {NULL}, cv : Int, mv : Int]

NoCall == [pc |-> "idle", op |-> NULL, c |-> NULL, m |-> NULL, cv |-> 0, mv |-> 0]

Real     == [is : {"free", "mutex", "cond"}, kind : Type, owner : Thread \cup {NoThread}, depth : Nat]
Freed    == [is |-> "free", kind |-> "normal", owner |-> NoThread, depth |-> 0]
NewCond  == [Freed EXCEPT !.is = "cond"]
NewMutex(k) == [Freed EXCEPT !.is = "mutex", !.kind = k]

LiveMutex(a) == a \in Heap /\ real[a].is = "mutex"
LiveCond(a)  == a \in Heap /\ real[a].is = "cond"

-----------------------------------------------------------------------------
(* The tests on a word.                                                    *)

ANDROID_TOP_ADDR_VALUE   == 65535    \* 0xFFFF, of mutexes and conditions
ANDROID_MUTEX_SHARED     == 8192     \* 0x2000
ANDROID_RECURSIVE_MUTEX  == 16384    \* 0x4000
ANDROID_ERRORCHECK_MUTEX == 32768    \* 0x8000
ANDROID_COND_SHARED      == 1

Bit(v, mask) == (v \div mask) % 2 = 1
Low(v)       == v <= ANDROID_TOP_ADDR_VALUE

hybris_check_android_shared_mutex(v) == Low(v) /\ Bit(v, ANDROID_MUTEX_SHARED)
hybris_check_android_shared_cond(v)  == Low(v) /\ Bit(v, ANDROID_COND_SHARED)

\* Slip: the attribute is not initialised.
hybris_set_mutex_attr_Uninit(v) ==
  IF Bit(v, ANDROID_RECURSIVE_MUTEX) THEN "recursive"
  ELSE IF Bit(v, ANDROID_ERRORCHECK_MUTEX) THEN "errorcheck" ELSE "unset"

\* Slip: the two masks are confused.
hybris_set_mutex_attr_Swapped(v) ==
  IF Bit(v, ANDROID_RECURSIVE_MUTEX) THEN "errorcheck"
  ELSE IF Bit(v, ANDROID_ERRORCHECK_MUTEX) THEN "recursive" ELSE "normal"

hybris_set_mutex_attr(v) ==
  IF Bit(v, ANDROID_RECURSIVE_MUTEX) THEN "recursive"
  ELSE IF Bit(v, ANDROID_ERRORCHECK_MUTEX) THEN "errorcheck" ELSE "normal"

\* What Android's initialisers stand for, by the names hooks.c gives them.
InitializerType(v) ==
  CASE v = ANDROID_RECURSIVE_MUTEX  -> "recursive"
    [] v = ANDROID_ERRORCHECK_MUTEX -> "errorcheck"
    [] OTHER                        -> "normal"

\* Slip: an initialised mutex gets a new glibc mutex too.
FirstStep_Always(op, cv, mv) ==
  IF op \in WaitOps \cup WakeOps /\ Low(cv) THEN "cond"
  ELSE IF op \in LockOps \cup WaitOps THEN "mutex" ELSE "call"

\* Where a call goes on with the values it has read: a low word makes it
\* allocate, the condition before the mutex.
FirstStep(op, cv, mv) ==
  IF op \in WaitOps \cup WakeOps /\ Low(cv) THEN "cond"
  ELSE IF op \in LockOps \cup WaitOps /\ Low(mv) THEN "mutex" ELSE "call"

-----------------------------------------------------------------------------
(* The clients.                                                            *)

\* Some thread is between reading a static initialiser and replacing it.
InFirstUse(o) == \E u \in Thread :
  \/ th[u].c = o /\ th[u].pc = "cond"
  \/ th[u].m = o /\ th[u].pc \in {"cond", "mutex"} /\ Low(th[u].mv)

BeingDestroyed(o) == \E u \in Thread : th[u].op = "destroy" /\ o \in {th[u].c, th[u].m}

\* A thread uses what is not destroyed; without the habit "race" it does not
\* use an object in the middle of another thread's first use of it.
MayUse(t, o) ==
  /\ th[t].pc = "idle"
  /\ type[o] # "dead" /\ ~BeingDestroyed(o)
  /\ "race" \in Habits \/ ~InFirstUse(o)

MayLock(t, m)    == MayUse(t, m) /\ held[t][m] < MaxDepth
MayUnlock(t, m)  == MayUse(t, m) /\ held[t][m] > 0
MayWait(t, c, m) == MayUse(t, c) /\ MayUse(t, m) /\ m = GuardedBy[c] /\ held[t][m] = 1

\* Nobody holds or uses what is destroyed or initialised (a thread woken up
\* no longer uses the condition).
AtRest(o) ==
  /\ \A u \in Thread : th[u].m # o /\ (th[u].c = o => th[u].pc = "relock")
  /\ o \in Mutex => \A u \in Thread : held[u][o] = 0

\* Without the habit "destroy" what was never used is not destroyed.
MayDestroy(t, o) ==
  /\ th[t].pc = "idle" /\ type[o] # "dead" /\ AtRest(o)
  /\ word[o] \in Heap \/ "destroy" \in Habits

MayInit(t, o) ==
  /\ th[t].pc = "idle" /\ AtRest(o)
  /\ type[o] = "dead" \/ word[o] \in MutexWord \cup CondWord

Init ==
  /\ word \in {w \in [Object -> MutexWord \cup CondWord] :
                 /\ \A m \in Mutex : w[m] \in MutexWord
                 /\ \A c \in Cond  : w[c] \in CondWord}
  /\ type = [o \in Object |-> IF o \in Mutex THEN InitializerType(word[o]) ELSE "normal"]
  /\ real = [a \in Heap |-> Freed]
  /\ th   = [t \in Thread |-> NoCall]
  /\ held = [t \in Thread |-> [m \in Mutex |-> 0]]
  /\ nvidia_hack \in BOOLEAN

-----------------------------------------------------------------------------
(* The hooks, up to the call of glibc.  cv and mv are read here; the steps  *)
(* that follow go by these values.                                         *)

Begin(t, op, c, m) ==
  LET cv == IF c = NULL THEN 0 ELSE word[c]
      mv == IF m = NULL THEN 0 ELSE word[m]
  IN /\ th' = [th EXCEPT ![t] = [pc |-> FirstStep(op, cv, mv), op |-> op,
                                 c |-> c, m |-> m, cv |-> cv, mv |-> mv]]
     /\ UNCHANGED <<word, real, held, type, nvidia_hack>>

\* The hook answers 0 at once, and the client takes the mutex as (un)locked.
Pretend(t, m, n) ==
  /\ held' = [held EXCEPT ![t][m] = @ + n]
  /\ UNCHANGED <<word, real, th, type, nvidia_hack>>

\* Only a recursive or an error checking mutex is locked again by its holder.
Lock(t, m) ==
  /\ MayLock(t, m)
  /\ held[t][m] > 0 => type[m] # "normal"
  /\ \/ /\ nvidia_hack \/ hybris_check_android_shared_mutex(word[m])
        /\ Pretend(t, m, 1)
     \/ /\ ~nvidia_hack /\ ~hybris_check_android_shared_mutex(word[m])
        /\ Begin(t, "lock", NULL, m)

Trylock(t, m) ==
  /\ MayLock(t, m)
  /\ \/ /\ hybris_check_android_shared_mutex(word[m])
        /\ Pretend(t, m, 1)
     \/ /\ ~hybris_check_android_shared_mutex(word[m])
        /\ Begin(t, "trylock", NULL, m)

Unlock(t, m) ==
  /\ MayUnlock(t, m)
  /\ \/ /\ nvidia_hack \/ Low(word[m])   \* shared or not
        /\ Pretend(t, m, -1)
     \/ /\ ~nvidia_hack /\ ~Low(word[m])
        /\ Begin(t, "unlock", NULL, m)

Shared(c, m) == hybris_check_android_shared_cond(word[c]) \/ hybris_check_android_shared_mutex(word[m])

Wait(t, c, m) ==
  /\ MayWait(t, c, m)
  /\ \/ Shared(c, m) /\ UNCHANGED vars
     \/ ~Shared(c, m) /\ Begin(t, "wait", c, m)

Timedwait(t, c, m) ==
  /\ MayWait(t, c, m)
  /\ \/ (nvidia_hack \/ Shared(c, m)) /\ UNCHANGED vars
     \/ ~nvidia_hack /\ ~Shared(c, m) /\ Begin(t, "timedwait", c, m)

Signal(t, c) ==
  /\ MayUse(t, c)
  /\ \/ hybris_check_android_shared_cond(word[c]) /\ UNCHANGED vars
     \/ ~hybris_check_android_shared_cond(word[c]) /\ Begin(t, "signal", c, NULL)

Broadcast(t, c) ==
  /\ MayUse(t, c)
  /\ \/ (nvidia_hack \/ hybris_check_android_shared_cond(word[c])) /\ UNCHANGED vars
     \/ ~nvidia_hack /\ ~hybris_check_android_shared_cond(word[c])
        /\ Begin(t, "broadcast", c, NULL)

\* No test at all: the word goes to glibc and to free as it is.
MutexDestroy(t, m) == MayDestroy(t, m) /\ Begin(t, "destroy", NULL, m)
CondDestroy(t, c)  == MayDestroy(t, c) /\ Begin(t, "destroy", c, NULL)

Unallocated == {a \in Heap : real[a].is = "free"}

\* Slip: the address of the new mutex is not stored.
MutexInit_Unstored(t, m) ==
  /\ MayInit(t, m)
  /\ \E a \in Unallocated, k \in Type :
       /\ real' = [real EXCEPT ![a] = NewMutex(k)]
       /\ type' = [type EXCEPT ![m] = k]
  /\ UNCHANGED <<word, th, held, nvidia_hack>>

MutexInit(t, m) ==
  /\ MayInit(t, m)
  /\ \E a \in Unallocated, k \in Type :
       /\ word' = [word EXCEPT ![m] = a]
       /\ real' = [real EXCEPT ![a] = NewMutex(k)]
       /\ type' = [type EXCEPT ![m] = k]
  /\ UNCHANGED <<th, held, nvidia_hack>>

CondInit(t, c) ==
  /\ MayInit(t, c)
  /\ \E a \in Unallocated :
       /\ word' = [word EXCEPT ![c] = a]
       /\ real' = [real EXCEPT ![a] = NewCond]
       /\ type' = [type EXCEPT ![c] = "normal"]
  /\ UNCHANGED <<th, held, nvidia_hack>>

\* Slip: the new condition serves this call only.
InitCond_Unstored(t) ==
  /\ th[t].pc = "cond"
  /\ \E a \in Unallocated :
       /\ real' = [real EXCEPT ![a] = NewCond]
       /\ th' = [th EXCEPT ![t].cv = a,
                           ![t].pc = IF th[t].op \in WaitOps /\ Low(th[t].mv) THEN "mutex" ELSE "call"]
  /\ UNCHANGED <<word, held, type, nvidia_hack>>

\* hybris_alloc_init_cond and the store of its result.
InitCond(t) ==
  /\ th[t].pc = "cond"
  /\ \E a \in Unallocated :
       /\ real' = [real EXCEPT ![a] = NewCond]
       /\ word' = [word EXCEPT ![th[t].c] = a]
       /\ th' = [th EXCEPT ![t].cv = a,
                           ![t].pc = IF th[t].op \in WaitOps /\ Low(th[t].mv) THEN "mutex" ELSE "call"]
  /\ UNCHANGED <<held, type, nvidia_hack>>

\* Slip: the new mutex serves this call only.
InitMutex_Unstored(t) ==
  /\ th[t].pc = "mutex"
  /\ \E a \in Unallocated :
       /\ real' = [real EXCEPT ![a] = NewMutex(hybris_set_mutex_attr(th[t].mv))]
       /\ th' = [th EXCEPT ![t].mv = a, ![t].pc = "call"]
  /\ UNCHANGED <<word, held, type, nvidia_hack>>

\* hybris_alloc_init_mutex and the store of its result.
InitMutex(t) ==
  /\ th[t].pc = "mutex"
  /\ \E a \in Unallocated :
       /\ real' = [real EXCEPT ![a] = NewMutex(hybris_set_mutex_attr(th[t].mv))]
       /\ word' = [word EXCEPT ![th[t].m] = a]
       /\ th' = [th EXCEPT ![t].mv = a, ![t].pc = "call"]
  /\ UNCHANGED <<held, type, nvidia_hack>>

-----------------------------------------------------------------------------
(* glibc, and the return to the client.  What is not a glibc object has no *)
(* step: AddressesLive is about that.                                      *)

Calls(t, op) == th[t].pc = "call" /\ th[t].op = op

CanTake(t, r) ==
  /\ r.owner = NoThread \/ (r.owner = t /\ r.kind = "recursive")
  /\ r.depth < MaxDepth
Taken(t, r)   == [r EXCEPT !.owner = t, !.depth = @ + 1]

\* EPERM: these two types know their owner.
Refuses(t, r) == r.kind # "normal" /\ r.owner # t
Given(r)      == IF r.kind = "recursive" /\ r.depth > 1 THEN [r EXCEPT !.depth = @ - 1]
                 ELSE [r EXCEPT !.owner = NoThread, !.depth = 0]

Take(t) ==
  /\ CanTake(t, real[th[t].mv])
  /\ real' = [real EXCEPT ![th[t].mv] = Taken(t, @)]
  /\ held' = [held EXCEPT ![t][th[t].m] = @ + 1]

Return(t) == th' = [th EXCEPT ![t] = NoCall]

\* The second case is EDEADLK.
RealLock(t) ==
  /\ Calls(t, "lock") /\ LiveMutex(th[t].mv)
  /\ \/ Take(t)
     \/ /\ real[th[t].mv].owner = t /\ real[th[t].mv].kind = "errorcheck"
        /\ UNCHANGED <<real, held>>
  /\ Return(t)
  /\ UNCHANGED <<word, type, nvidia_hack>>

\* Slip: a mutex another thread owns is reported as taken.
RealTrylock_Busy(t) ==
  /\ Calls(t, "trylock") /\ LiveMutex(th[t].mv)
  /\ held' = [held EXCEPT ![t][th[t].m] = @ + 1]
  /\ \/ Take(t)
     \/ ~CanTake(t, real[th[t].mv]) /\ UNCHANGED real
  /\ Return(t)
  /\ UNCHANGED <<word, type, nvidia_hack>>

\* The second case is EBUSY.
RealTrylock(t) ==
  /\ Calls(t, "trylock") /\ LiveMutex(th[t].mv)
  /\ \/ Take(t)
     \/ ~CanTake(t, real[th[t].mv]) /\ UNCHANGED <<real, held>>
  /\ Return(t)
  /\ UNCHANGED <<word, type, nvidia_hack>>

RealUnlock(t) ==
  /\ Calls(t, "unlock") /\ LiveMutex(th[t].mv)
  /\ IF Refuses(t, real[th[t].mv]) THEN UNCHANGED real
     ELSE real' = [real EXCEPT ![th[t].mv] = Given(@)]
  /\ held' = [held EXCEPT ![t][th[t].m] = @ - 1]
  /\ Return(t)
  /\ UNCHANGED <<word, type, nvidia_hack>>

\* pthread_cond_wait gives the mutex up and waits, in one step for signallers.
Sleep(t) ==
  /\ Calls(t, "wait") \/ Calls(t, "timedwait")
  /\ LiveCond(th[t].cv) /\ LiveMutex(th[t].mv)
  /\ \/ /\ Refuses(t, real[th[t].mv])
        /\ Return(t)
        /\ UNCHANGED <<real, held>>
     \/ /\ ~Refuses(t, real[th[t].mv])
        /\ real' = [real EXCEPT ![th[t].mv] = Given(@)]
        /\ held' = [held EXCEPT ![t][th[t].m] = 0]
        /\ th' = [th EXCEPT ![t].pc = "asleep"]
  /\ UNCHANGED <<word, type, nvidia_hack>>

Timeout(t) ==
  /\ th[t].pc = "asleep" /\ th[t].op = "timedwait"
  /\ th' = [th EXCEPT ![t].pc = "relock"]
  /\ UNCHANGED <<word, real, held, type, nvidia_hack>>

\* The end of pthread_cond_wait.
Relock(t) ==
  /\ th[t].pc = "relock" /\ LiveMutex(th[t].mv)
  /\ Take(t)
  /\ Return(t)
  /\ UNCHANGED <<word, type, nvidia_hack>>

Sleepers(a) == {u \in Thread : th[u].pc = "asleep" /\ th[u].cv = a}

RealSignal(t) ==
  /\ Calls(t, "signal") /\ LiveCond(th[t].cv)
  /\ \/ \E u \in Sleepers(th[t].cv) : th' = [th EXCEPT ![t] = NoCall, ![u].pc = "relock"]
     \/ Sleepers(th[t].cv) = {} /\ Return(t)
  /\ UNCHANGED <<word, real, held, type, nvidia_hack>>

RealBroadcast(t) ==
  /\ Calls(t, "broadcast") /\ LiveCond(th[t].cv)
  /\ th' = [u \in Thread |-> IF u = t THEN NoCall
                             ELSE IF u \in Sleepers(th[t].cv) THEN [th[u] EXCEPT !.pc = "relock"]
                             ELSE th[u]]
  /\ UNCHANGED <<word, real, held, type, nvidia_hack>>

DestroyedObject(t) == IF th[t].m # NULL THEN th[t].m ELSE th[t].c
DestroyedWord(t)   == IF th[t].m # NULL THEN th[t].mv ELSE th[t].cv

\* Slip: the memory is not freed.
RealDestroy_Leaks(t) ==
  /\ Calls(t, "destroy") /\ DestroyedWord(t) \in Heap
  /\ type' = [type EXCEPT ![DestroyedObject(t)] = "dead"]
  /\ Return(t)
  /\ UNCHANGED <<word, real, held, nvidia_hack>>

\* glibc's destroy may answer EBUSY; the memory is freed all the same.
RealDestroy(t) ==
  /\ Calls(t, "destroy") /\ DestroyedWord(t) \in Heap
  /\ real' = [real EXCEPT ![DestroyedWord(t)] = Freed]
  /\ type' = [type EXCEPT ![DestroyedObject(t)] = "dead"]
  /\ Return(t)
  /\ UNCHANGED <<word, held, nvidia_hack>>

Hook(t) ==
  \/ \E m \in Mutex : Lock(t, m) \/ Trylock(t, m) \/ Unlock(t, m)
                        \/ MutexInit(t, m) \/ MutexDestroy(t, m)
  \/ \E c \in Cond : Signal(t, c) \/ Broadcast(t, c) \/ CondInit(t, c) \/ CondDestroy(t, c)
  \/ \E c \in Cond, m \in Mutex : Wait(t, c, m) \/ Timedwait(t, c, m)
  \/ InitCond(t) \/ InitMutex(t)

Glibc(t) ==
  \/ RealLock(t) \/ RealTrylock(t) \/ RealUnlock(t)
  \/ Sleep(t) \/ Timeout(t) \/ Relock(t)
  \/ RealSignal(t) \/ RealBroadcast(t) \/ RealDestroy(t)

Next == \E t \in Thread : Hook(t) \/ Glibc(t)

Spec == Init /\ [][Next]_vars

-----------------------------------------------------------------------------
(* Properties.                                                             *)

\* Every variable has its type.
HooksTypeOK ==
  /\ word \in [Object -> Int]
  /\ real \in [Heap -> Real]
  /\ th   \in [Thread -> Call]
  /\ held \in [Thread -> [Mutex -> Nat]]
  /\ type \in [Object -> Type \cup {"dead"}]
  /\ nvidia_hack \in BOOLEAN

\* The hooks leave these alone: Android's own shared objects, and every mutex
\* once $GRAPHICS is NVIDIA.
Hooked(m) == ~nvidia_hack /\ ~hybris_check_android_shared_mutex(word[m])

\* Two threads are never told that they hold the same mutex (the pthread_mutex
\* hooks), although it began its life as a static initialiser.
MutualExclusion == \A m \in Mutex : Hooked(m) =>
  \A t, u \in Thread : held[t][m] > 0 /\ held[u][m] > 0 => t = u

\* What the clients see of the mutexes the hooks serve, and of the waits.
Holds   == [t \in Thread |-> [m \in Mutex |-> IF Hooked(m) THEN held[t][m] ELSE 0]]
Waiting == [t \in Thread |-> IF th[t].pc = "asleep" /\ ~nvidia_hack THEN th[t].c ELSE NULL]
Kind    == [m \in Mutex |-> IF type[m] = "dead" THEN "normal" ELSE type[m]]

\* The hooks are a monitor: whatever mixture of static initialisers, inits,
\* destroys, timeouts and wake-ups the threads go through, each call is a step
\* a POSIX user expects or none.
HooksMonitor == INSTANCE Monitor WITH holds <- Holds, waiting <- Waiting, type <- Kind

MonitorSpec == HooksMonitor!Spec

\* The address of a glibc object is never replaced while its object is in use:
\* whoever waits for it or owns it is still found there (the tests for a low
\* value in every hook).
InitialisedOnce ==
  [][\A o \in Object : word[o] \in Heap /\ type[o] # "dead" => word'[o] = word[o]]_vars

\* Every glibc object belongs to exactly one bionic object: none leaks, none
\* is shared by two (the mallocs of hybris_alloc_init_* and the init hooks
\* against the frees of the destroy hooks).
RealsOwned == \A a \in Heap \ Unallocated :
  \E o \in Object : {p \in Object : type[p] # "dead" /\ word[p] = a} = {o}

\* glibc is only ever given a live object of the right sort, up to the last
\* thread that comes out of a wait.
AddressesLive == \A t \in Thread :
  /\ th[t].pc = "call" /\ th[t].m # NULL => LiveMutex(th[t].mv)
  /\ th[t].pc = "call" /\ th[t].c # NULL => LiveCond(th[t].cv)
  /\ th[t].pc = "asleep" => LiveCond(th[t].cv)
  /\ th[t].pc = "relock" => LiveMutex(th[t].mv)

\* The glibc mutex agrees with its users: of the type they asked for, and
\* locked by the thread, as often, as the hooks told it.
OwnerIsHolder == ~nvidia_hack => \A m \in Mutex :
  word[m] \in Heap /\ type[m] # "dead" /\ Hooked(m) =>
    /\ real[word[m]].kind = type[m]
    /\ \A t \in Thread : held[t][m] = IF real[word[m]].owner = t THEN real[word[m]].depth ELSE 0

\* A signal wakes a waiter when there is one, a broadcast all of them; the
\* waiter and the waker may each be the first to use the condition.
SignalsArrive ==
  [][\A t \in Thread, c \in Cond :
       LET before == {u \in Thread : th[u].pc = "asleep" /\ th[u].c = c}
           after  == {u \in Thread : th'[u].pc = "asleep" /\ th'[u].c = c}
       IN th[t].c = c /\ th[t].pc = "call" /\ th'[t].pc = "idle" =>
            /\ th[t].op = "signal" /\ before # {} => after # before
            /\ th[t].op = "broadcast" => after = {}]_vars
=============================================================================
