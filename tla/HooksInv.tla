------------------------------- MODULE HooksInv -------------------------------
(***************************************************************************)
(* The inductive invariant of PthreadHooks, for clients in good order and  *)
(* a heap whose addresses the hooks recognise.  OwnerIsHolder is not       *)
(* inductive by itself: that a first use replaces nothing in use depends   *)
(* on who else has read the word, and that a wait gives its mutex up on    *)
(* what the thread held when it began to.                                  *)
(***************************************************************************)
EXTENDS PthreadHooks

\* Clients neither race for a first use nor destroy what they never used.
GoodOrder == Habits = {}

\* malloc returns what the hooks recognise as an address.
HeapHigh == \A a \in Heap : ~Low(a)

\* The initialisers of the private mutexes are those hooks.c has names for.
InitialisersKnown ==
  \A v \in MutexWord : ~Bit(v, ANDROID_MUTEX_SHARED) => hybris_set_mutex_attr(v) = InitializerType(v)

Live(o) == type[o] # "dead"
Made(o) == Live(o) /\ word[o] \in Heap

\* What a call was made with, and where it can be.
CallShape == \A t \in Thread :
  /\ th[t].pc = "idle" <=> th[t] = NoCall
  /\ th[t].pc # "idle" =>
       /\ th[t].op \in Op
       /\ th[t].op \in LockOps \cup {"unlock"} => th[t].c = NULL /\ th[t].m \in Mutex
       /\ th[t].op \in WaitOps => th[t].c \in Cond /\ th[t].m = GuardedBy[th[t].c]
       /\ th[t].op \in WakeOps => th[t].c \in Cond /\ th[t].m = NULL
       /\ th[t].op = "destroy" => (th[t].c = NULL) # (th[t].m = NULL)
  /\ th[t].pc = "cond" => th[t].op \in WaitOps \cup WakeOps
  /\ th[t].pc = "mutex" => th[t].op \in LockOps \cup WaitOps
  /\ th[t].pc \in {"asleep", "relock"} => th[t].op \in WaitOps

\* The thread still goes by what it has read of o.
InUse(t, o)     == th[t].m = o \/ (th[t].c = o /\ th[t].pc # "relock")
FirstUse(t, o) == \/ th[t].c = o /\ th[t].pc = "cond"
                  \/ th[t].m = o /\ th[t].pc \in {"cond", "mutex"} /\ Low(th[t].mv)

\* What a call has read is what is there, an address except where a first use
\* is about to replace it, and of an object that the hooks do not leave alone.
ReadBy(t) ==
  /\ \A m \in Mutex : InUse(t, m) =>
       /\ Live(m) /\ th[t].mv = word[m]
       /\ ~hybris_check_android_shared_mutex(word[m])
       /\ FirstUse(t, m) \/ word[m] \in Heap
       /\ th[t].pc = "mutex" => Low(th[t].mv)
  /\ \A c \in Cond : InUse(t, c) =>
       /\ Live(c) /\ th[t].cv = word[c]
       /\ IF th[t].pc = "cond" THEN Low(word[c]) ELSE word[c] \in Heap

WordsRead == \A t \in Thread : ReadBy(t)

\* A first use, and a destroy, has its object to itself.
Alone == \A t, u \in Thread : \A o \in Object :
  (FirstUse(t, o) \/ th[t].op = "destroy") /\ InUse(t, o) /\ InUse(u, o) => t = u

\* Nobody holds what is dead or about to be; who unlocks holds, and who waits
\* holds once, until the call is made.
HeldOf == \A t \in Thread : \A m \in Mutex :
  /\ ~Live(m) => held[t][m] = 0
  /\ \A u \in Thread : th[u].op = "destroy" /\ th[u].m = m => held[t][m] = 0
  /\ th[t].m = m /\ th[t].op = "unlock" => held[t][m] > 0
  /\ th[t].m = m /\ th[t].op \in WaitOps /\ th[t].pc \in {"cond", "mutex", "call"} => held[t][m] = 1

\* An object is in its first state, or it has a glibc object of its own.
WordsOf ==
  /\ \A m \in Mutex : IF word[m] \in Heap THEN Live(m) => real[word[m]].is = "mutex"
                      ELSE word[m] \in MutexWord /\ type[m] = InitializerType(word[m])
  /\ \A c \in Cond  : IF word[c] \in Heap THEN Live(c) => real[word[c]].is = "cond"
                      ELSE word[c] \in CondWord /\ Live(c)
  /\ \A o, p \in Object : Made(o) /\ Made(p) /\ word[o] = word[p] => o = p
  /\ \A a \in Heap \ Unallocated : \E o \in Object : Made(o) /\ word[o] = a

\* A glibc mutex is owned or not locked at all, and only a recursive one is
\* locked more than once.
Locked(r) ==
  /\ r.owner = NoThread <=> r.depth = 0
  /\ r.kind # "recursive" => r.depth <= 1

\* The mutexes the hooks serve agree with their clients.
OwnersAgree == ~nvidia_hack => \A m \in Mutex : Live(m) /\ Hooked(m) =>
  IF word[m] \in Heap
  THEN LET r == real[word[m]]
       IN /\ Locked(r) /\ r.kind = type[m]
          /\ \A t \in Thread : held[t][m] = IF r.owner = t THEN r.depth ELSE 0
  ELSE \A t \in Thread : held[t][m] = 0

HooksInv ==
  /\ HooksTypeOK
  /\ CallShape
  /\ WordsRead
  /\ Alone
  /\ HeldOf
  /\ WordsOf
  /\ OwnersAgree
=============================================================================
