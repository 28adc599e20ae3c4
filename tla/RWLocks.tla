-------------------------------- MODULE RWLocks --------------------------------
(***************************************************************************)
(* The reader-writer locks of hooked bionic code (common/hooks.c).  Like a *)
(* mutex (module PthreadHooks), the bionic object holds a static           *)
(* initialiser or the address of a glibc lock, which the first use makes:  *)
(* but all hooks do so in one helper, there is no shared variant and no    *)
(* NVIDIA mode, and an unlock of what is not initialised is an empty       *)
(* success.                                                                *)
(***************************************************************************)
EXTENDS PthreadHooks

CONSTANTS
  RWLock,       \* the bionic objects
  RWLockWord    \* Android's static initialisers of them

ASSUME RWLocksAssumption     == NULL \notin RWLock /\ NULL \notin [Thread -> {"read", "write", "no"}]
ASSUME RWLockWordsAssumption == \A v \in RWLockWord : v \in Int /\ Low(v)

VARIABLES
  rwword,   \* the first int of each
  rwreal,   \* the glibc lock at each address: its holders, and how they hold it
  user,     \* what each thread executes
  has,      \* the clients: what they were told they hold
  rwdead    \* the clients: what they have destroyed

rwVars == <<rwword, rwreal, user, has, rwdead>>

Want    == {"read", "write"}
Manner  == {"wait", "try", "timed"}   \* rdlock, tryrdlock, timedrdlock; the same of wrlock
NoUse   == [pc |-> "idle", op |-> NULL, how |-> NULL, o |-> NULL, v |-> 0]
Use     == [pc : {"idle", "make", "call"}, op : Want \cup {"unlock", "destroy", NULL},
            how : Manner \cup {NULL}, o : RWLock \cup {NULL}, v : Int]

\* A glibc lock, or NULL where there is none: who has it for what.
Holding == [Thread -> Want \cup {"no"}]
Nobody  == [t \in Thread |-> "no"]
Free    == {x \in Heap : rwreal[x] = NULL}

RWInit ==
  /\ rwword \in [RWLock -> RWLockWord] /\ rwreal = [x \in Heap |-> NULL]
  /\ user = [t \in Thread |-> NoUse] /\ has = [o \in RWLock |-> Nobody] /\ rwdead = {}

\* Clients lock once, unlock what they have, and use nothing in the middle of
\* another's first use unless they race.
Uses(t, o) ==
  /\ user[t].pc = "idle" /\ o \notin rwdead
  /\ \A u \in Thread : user[u].o = o => user[u].op # "destroy" /\ (user[u].pc = "make" => "race" \in Habits)
Unused(o) == has[o] = Nobody /\ \A u \in Thread : user[u].o # o

\* hybris_set_realrwlock, up to the allocation.
RWLockCall(t, o, op, how) ==
  /\ Uses(t, o) /\ has[o][t] = "no"
  /\ user' = [user EXCEPT ![t] = [pc |-> IF Low(rwword[o]) THEN "make" ELSE "call",
                                  op |-> op, how |-> how, o |-> o, v |-> rwword[o]]]
  /\ UNCHANGED <<rwword, rwreal, has, rwdead>>

\* Slip: the lock serves this call only.
MakeRWLock_Unstored(t) ==
  /\ user[t].pc = "make"
  /\ \E x \in Free :
       /\ rwreal' = [rwreal EXCEPT ![x] = Nobody]
       /\ user' = [user EXCEPT ![t].pc = "call", ![t].v = x]
  /\ UNCHANGED <<rwword, has, rwdead>>

\* hybris_alloc_init_rwlock and the store of its result.
MakeRWLock(t) ==
  /\ user[t].pc = "make"
  /\ \E x \in Free :
       /\ rwreal' = [rwreal EXCEPT ![x] = Nobody]
       /\ rwword' = [rwword EXCEPT ![user[t].o] = x]
       /\ user' = [user EXCEPT ![t].pc = "call", ![t].v = x]
  /\ UNCHANGED <<has, rwdead>>

RWUnlock(t, o) ==
  /\ Uses(t, o) /\ (has[o][t] # "no" \/ Low(rwword[o]))
  /\ IF Low(rwword[o]) THEN has' = [has EXCEPT ![o][t] = "no"] /\ UNCHANGED user
     ELSE /\ user' = [user EXCEPT ![t] = [NoUse EXCEPT !.pc = "call", !.op = "unlock", !.o = o, !.v = rwword[o]]]
          /\ UNCHANGED has
  /\ UNCHANGED <<rwword, rwreal, rwdead>>

\* With an attribute object: the hook reads through it, so that there is none
\* without.
RWLockInit(t, o) ==
  /\ user[t].pc = "idle" /\ Unused(o) /\ (o \in rwdead \/ Low(rwword[o]))
  /\ \E x \in Free :
       /\ rwreal' = [rwreal EXCEPT ![x] = Nobody]
       /\ rwword' = [rwword EXCEPT ![o] = x]
  /\ rwdead' = rwdead \ {o}
  /\ UNCHANGED <<user, has>>

RWLockDestroy(t, o) ==
  /\ Uses(t, o) /\ Unused(o) /\ (~Low(rwword[o]) \/ "destroy" \in Habits)
  /\ user' = [user EXCEPT ![t] = [NoUse EXCEPT !.pc = "call", !.op = "destroy", !.o = o, !.v = rwword[o]]]
  /\ UNCHANGED <<rwword, rwreal, has, rwdead>>

-----------------------------------------------------------------------------
(* glibc.                                                                  *)

InGlibc(t) == user[t].pc = "call" /\ rwreal[user[t].v] # NULL
Returns(t) == user' = [user EXCEPT ![t] = NoUse]

Grants(t) ==
  \A u \in Thread : rwreal[user[t].v][u] = "no" \/ (user[t].op = "read" /\ rwreal[user[t].v][u] = "read")

Granted(t) ==
  /\ InGlibc(t) /\ user[t].op \in Want /\ Grants(t)
  /\ rwreal' = [rwreal EXCEPT ![user[t].v][t] = user[t].op]
  /\ has' = [has EXCEPT ![user[t].o][t] = user[t].op]
  /\ Returns(t) /\ UNCHANGED <<rwword, rwdead>>

\* EBUSY or ETIMEDOUT.
Refused(t) ==
  /\ InGlibc(t) /\ user[t].op \in Want /\ user[t].how # "wait" /\ ~Grants(t)
  /\ Returns(t) /\ UNCHANGED <<rwword, rwreal, has, rwdead>>

Unlocked(t) ==
  /\ InGlibc(t) /\ user[t].op = "unlock"
  /\ rwreal' = [rwreal EXCEPT ![user[t].v][t] = "no"]
  /\ has' = [has EXCEPT ![user[t].o][t] = "no"]
  /\ Returns(t) /\ UNCHANGED <<rwword, rwdead>>

Destroyed(t) ==
  /\ InGlibc(t) /\ user[t].op = "destroy"
  /\ rwreal' = [rwreal EXCEPT ![user[t].v] = NULL]
  /\ rwdead' = rwdead \cup {user[t].o}
  /\ Returns(t) /\ UNCHANGED <<rwword, has>>

RWNext ==
  \E t \in Thread :
    \/ \E o \in RWLock : \/ \E op \in Want, how \in Manner : RWLockCall(t, o, op, how)
                         \/ RWUnlock(t, o) \/ RWLockInit(t, o) \/ RWLockDestroy(t, o)
    \/ MakeRWLock(t) \/ Granted(t) \/ Refused(t) \/ Unlocked(t) \/ Destroyed(t)

RWSpec == RWInit /\ [][RWNext]_rwVars

RWTypeOK ==
  /\ rwword \in [RWLock -> Int] /\ rwreal \in [Heap -> Holding \cup {NULL}]
  /\ user \in [Thread -> Use] /\ has \in [RWLock -> Holding] /\ rwdead \subseteq RWLock

-----------------------------------------------------------------------------
(* Properties.                                                             *)

\* Through static initialisers, inits, first uses and destroys, the threads
\* that were told they have a lock are the readers, or the one writer, that the
\* glibc lock behind it knows; a lock that somebody waits for is still there.
ReadersOrWriter ==
  \A o \in RWLock :
    /\ \A t, u \in Thread : has[o][t] = "write" /\ has[o][u] # "no" => t = u
    /\ has[o] # Nobody => rwword[o] \in Heap /\ rwreal[rwword[o]] = has[o]
    /\ \A t \in Thread : user[t].pc = "call" /\ user[t].o = o => user[t].v = rwword[o] /\ user[t].v \notin Free
=============================================================================
