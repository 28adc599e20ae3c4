------------------------------- MODULE MCHooks -------------------------------
(***************************************************************************)
(* Small instances of PthreadHooks and RWLocks, which share nothing.        *)
(***************************************************************************)
EXTENDS RWLocks, HooksInv, TLC

CONSTANTS m1, c1

VARIABLE about   \* what a behaviour is about

MCGuardedBy == c1 :> m1

\* Addresses just above the static initialisers, and two from 2^31 up: one
\* looks like a low word only, the other like a shared mutex too.
MCHeap     == 65536..65538
MCHighHeap == {-2147483647 + 15, -2147483647 + ANDROID_MUTEX_SHARED - 1}

hooksVars == <<about, vars, rwVars>>

HooksInit ==
  /\ about \in {"monitor", "rwlock"}
  /\ about = "monitor" \/ (word = [o \in Object |-> 0] /\ nvidia_hack = FALSE)
  /\ Init /\ RWInit

MonitorStep == about = "monitor" /\ Next   /\ UNCHANGED <<about, rwVars>>
RWLockStep  == about = "rwlock"  /\ RWNext /\ UNCHANGED <<about, vars>>

HooksSpec == HooksInit /\ [][MonitorStep \/ RWLockStep]_hooksVars

HooksAllTypeOK == HooksTypeOK /\ RWTypeOK
=============================================================================
