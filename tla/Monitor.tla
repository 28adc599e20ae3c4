------------------------------- MODULE Monitor -------------------------------
(***************************************************************************)
(* What the users of pthread mutexes and condition variables are promised, *)
(* whatever implements them (PthreadHooks does, out of glibc's).           *)
(***************************************************************************)
EXTENDS Naturals

CONSTANTS Thread, Mutex, Cond, Type,
          NULL   \* waiting for no condition

VARIABLES
  holds,    \* how often each thread holds each mutex
  waiting,  \* the condition each thread waits for, or NULL
  type      \* the type of each mutex

Init ==
  /\ holds = [t \in Thread |-> [m \in Mutex |-> 0]]
  /\ waiting = [t \in Thread |-> NULL]
  /\ type \in [Mutex -> Type]

\* A mutex that nobody else holds is taken; once more only if it is recursive.
Acquire(t, m) ==
  /\ waiting[t] = NULL
  /\ \A u \in Thread \ {t} : holds[u][m] = 0
  /\ holds[t][m] = 0 \/ type[m] = "recursive"
  /\ holds' = [holds EXCEPT ![t][m] = @ + 1]
  /\ UNCHANGED <<waiting, type>>

Release(t, m) ==
  /\ holds[t][m] > 0
  /\ holds' = [holds EXCEPT ![t][m] = @ - 1]
  /\ UNCHANGED <<waiting, type>>

\* The mutex is released and the thread waits, in one step.
Wait(t, c, m) ==
  /\ holds[t][m] = 1
  /\ holds' = [holds EXCEPT ![t][m] = 0]
  /\ waiting' = [waiting EXCEPT ![t] = c]
  /\ UNCHANGED type

\* One thread (a signal, a timeout) or all that wait for c leave the wait.
Wake(t) ==
  /\ waiting[t] # NULL
  /\ waiting' = [waiting EXCEPT ![t] = NULL]
  /\ UNCHANGED <<holds, type>>

WakeAll(c) ==
  /\ waiting' = [t \in Thread |-> IF waiting[t] = c THEN NULL ELSE waiting[t]]
  /\ UNCHANGED <<holds, type>>

\* A mutex nobody holds is destroyed or initialised.
Renew(m) ==
  /\ \A t \in Thread : holds[t][m] = 0
  /\ \E k \in Type : type' = [type EXCEPT ![m] = k]
  /\ UNCHANGED <<holds, waiting>>

Next ==
  \/ \E t \in Thread, m \in Mutex : Acquire(t, m) \/ Release(t, m)
  \/ \E t \in Thread, c \in Cond, m \in Mutex : Wait(t, c, m)
  \/ \E t \in Thread : Wake(t)
  \/ \E c \in Cond : WakeAll(c)
  \/ \E m \in Mutex : Renew(m)

Spec == Init /\ [][Next]_<<holds, waiting, type>>
=============================================================================
