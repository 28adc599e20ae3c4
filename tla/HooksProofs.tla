------------------------------ MODULE HooksProofs ------------------------------
(***************************************************************************)
(* Proofs about the reader-writer locks, for any number of threads, locks  *)
(* and addresses.                                                          *)
(***************************************************************************)
EXTENDS RWLocks, TLAPS

\* The lock has a glibc lock behind it.
Made(o) == o \notin rwdead /\ ~Low(rwword[o])

\* What the glibc lock knows is what the clients were told, and what nothing is
\* behind, nobody holds.
WordsInv ==
  /\ \A o \in RWLock : IF Made(o) THEN rwword[o] \in Heap /\ rwreal[rwword[o]] = has[o] ELSE has[o] = Nobody
  /\ \A o, p \in RWLock : Made(o) /\ Made(p) /\ rwword[o] = rwword[p] => o = p
  /\ \A o \in RWLock : \A t, u \in Thread : has[o][t] = "write" /\ has[o][u] # "no" => t = u

\* A first use or a destroy has the lock to itself; a call is made with the
\* word as it is.
UsersInv ==
  \A t \in Thread :
    /\ user[t].pc = "idle" => user[t].o = NULL
    /\ user[t].pc # "idle" => user[t].o \in RWLock
    /\ user[t].pc = "make" => user[t].op \in Want /\ user[t].o \notin rwdead /\ Low(rwword[user[t].o])
    /\ user[t].pc = "call" => Made(user[t].o) /\ user[t].v = rwword[user[t].o]
    /\ user[t].pc = "make" \/ (user[t].pc = "call" /\ user[t].op = "destroy") => \A u \in Thread : user[u].o = user[t].o => u = t
    /\ user[t].pc = "call" /\ user[t].op = "destroy" => has[user[t].o] = Nobody

RWInv == RWTypeOK /\ WordsInv /\ UsersInv

\* malloc returns what the hooks recognise as an address.
HeapHigh == \A x \in Heap : x \in Int /\ ~Low(x)

LEMMA NobodyIsHolding == Nobody \in Holding
  BY DEF Nobody, Holding

LEMMA RWInitially == ASSUME RWInit, HeapHigh PROVE RWInv
<1>1. /\ RWLockWord \subseteq Int /\ \A v \in RWLockWord : Low(v)
      /\ rwword \in [RWLock -> RWLockWord]
  BY RWLockWordsAssumption DEF RWInit
<1>2. RWTypeOK /\ \A o \in RWLock : ~Made(o)
  <2>1. rwword \in [RWLock -> Int] /\ \A o \in RWLock : ~Made(o)  BY <1>1 DEF Made
  <2>2. rwreal \in [Heap -> Holding \cup {NULL}]  BY DEF RWInit
  <2>3. NoUse \in Use  BY DEF NoUse, Use
  <2> QED  BY <2>1, <2>2, <2>3, NobodyIsHolding DEF RWInit, RWTypeOK
<1>3. WordsInv  BY <1>2 DEF RWInit, WordsInv, Nobody
<1>4. UsersInv
  <2>1. \A t \in Thread : user[t] = NoUse  BY DEF RWInit
  <2> QED  BY <2>1 DEF UsersInv, NoUse
<1> QED  BY <1>2, <1>3, <1>4 DEF RWInv

LEMMA RealIsNotNull ==
  ASSUME RWTypeOK, NEW o \in RWLock
  PROVE  has[o] # NULL /\ has[o] \in Holding
BY RWLocksAssumption DEF RWTypeOK, Holding, Want

LEMMA CallKeeps ==
  ASSUME RWInv, HeapHigh, Habits = {}, NEW t \in Thread, NEW o \in RWLock,
         NEW op \in Want, NEW how \in Manner, RWLockCall(t, o, op, how)
  PROVE  RWInv'
<1> USE DEF RWInv
<1>1. user[t].pc = "idle" /\ o \notin rwdead
  BY DEF RWLockCall, Uses
<1>2. \A u \in Thread : user[u].o = o => user[u].pc = "call" /\ user[u].op # "destroy"
  BY RWLocksAssumption DEF RWLockCall, Uses, UsersInv, RWTypeOK, Use
<1>3. user' = [user EXCEPT ![t] = [pc |-> IF Low(rwword[o]) THEN "make" ELSE "call",
                                   op |-> op, how |-> how, o |-> o, v |-> rwword[o]]]
  BY DEF RWLockCall
<1>4. UNCHANGED <<rwword, rwreal, has, rwdead>>  BY DEF RWLockCall
<1>5. RWTypeOK'  BY <1>3, <1>4 DEF RWTypeOK, Use
<1>6. WordsInv'  BY <1>4 DEF WordsInv, Made
<1>7. Low(rwword[o]) => \A u \in Thread : user[u].o # o
  BY <1>2 DEF UsersInv, Made
<1>8. op # "destroy"  BY DEF Want
<1>9. \A u \in Thread \ {t} : user'[u] = user[u]  BY <1>3 DEF RWTypeOK
<1>10. user'[t].o = o /\ user'[t].op = op /\ user'[t].v = rwword[o]
       /\ user'[t].pc = IF Low(rwword[o]) THEN "make" ELSE "call"
  BY <1>3 DEF RWTypeOK
<1>11. UsersInv'
  BY <1>1, <1>2, <1>4, <1>7, <1>8, <1>9, <1>10 DEF UsersInv, Made
<1> QED  BY <1>5, <1>6, <1>11

\* A first use goes on to glibc.
LEMMA CalledFields ==
  ASSUME NEW r \in Use, NEW x
  PROVE  LET s == [r EXCEPT !.pc = "call", !.v = x]
         IN  s.pc = "call" /\ s.v = x /\ s.o = r.o /\ s.op = r.op
BY DEF Use

LEMMA MakeKeeps ==
  ASSUME RWInv, HeapHigh, NEW t \in Thread, MakeRWLock(t)
  PROVE  RWInv'
<1> USE DEF RWInv
<1>0. PICK o \in RWLock : o = user[t].o /\ user[t].pc = "make"  BY DEF MakeRWLock, UsersInv
<1>1. PICK x \in Free : /\ rwreal' = [rwreal EXCEPT ![x] = Nobody]
                        /\ rwword' = [rwword EXCEPT ![o] = x]
                        /\ user' = [user EXCEPT ![t].pc = "call", ![t].v = x]
  BY <1>0 DEF MakeRWLock
<1>2. /\ user[t].pc = "make" /\ UNCHANGED <<has, rwdead>>
      /\ x \in Heap /\ rwreal[x] = NULL /\ ~Low(x)
  BY DEF MakeRWLock, Free, HeapHigh
<1>3. /\ o \in RWLock /\ o \notin rwdead /\ Low(rwword[o]) /\ user[t].op \in Want
      /\ \A u \in Thread : user[u].o = o => u = t
  BY <1>0 DEF UsersInv
<1>4. RWTypeOK'
  <2>1. x \in Int  BY <1>2 DEF HeapHigh
  <2>2. rwword' \in [RWLock -> Int]  BY <1>1, <1>3, <2>1 DEF RWTypeOK
  <2>3. rwreal' \in [Heap -> Holding \cup {NULL}]  BY <1>1, <1>2, NobodyIsHolding DEF RWTypeOK
  <2>4. [user[t] EXCEPT !.pc = "call", !.v = x] \in Use  BY <2>1 DEF RWTypeOK, Use
  <2>5. user' \in [Thread -> Use]  BY <1>1, <2>4 DEF RWTypeOK
  <2> QED  BY <1>2, <2>2, <2>3, <2>5 DEF RWTypeOK
<1>5. has[o] = Nobody  BY <1>3 DEF WordsInv, Made
<1>6. \A p \in RWLock : Made(p) => rwword[p] \in Heap /\ rwword[p] # x
  BY <1>2, RealIsNotNull DEF WordsInv
<1>7. o \in RWLock /\ rwword' = [rwword EXCEPT ![o] = x] /\ rwword \in [RWLock -> Int]
  BY <1>1, <1>3 DEF RWTypeOK
<1>8. \A p \in RWLock \ {o} : rwword'[p] = rwword[p] /\ (Made(p)' <=> Made(p))
  BY <1>2, <1>7 DEF Made
<1>9. rwword'[o] = x /\ Made(o)'  BY <1>2, <1>3, <1>7 DEF Made
<1>10. rwreal'[x] = Nobody /\ \A y \in Heap \ {x} : rwreal'[y] = rwreal[y]
  BY <1>1, <1>2 DEF RWTypeOK
<1>11. WordsInv'
  <2>1. \A p \in RWLock : IF Made(p)' THEN rwword'[p] \in Heap /\ rwreal'[rwword'[p]] = has'[p] ELSE has'[p] = Nobody
    BY <1>2, <1>5, <1>6, <1>8, <1>9, <1>10 DEF WordsInv
  <2>2. \A p, q \in RWLock : Made(p)' /\ Made(q)' /\ rwword'[p] = rwword'[q] => p = q
    BY <1>6, <1>8, <1>9 DEF WordsInv
  <2> QED  BY <2>1, <2>2, <1>2 DEF WordsInv, Nobody
<1>12. /\ user'[t].pc = "call" /\ user'[t].v = x /\ user'[t].o = o /\ user'[t].op = user[t].op
       /\ \A u \in Thread \ {t} : user'[u] = user[u]
  <2>1. user[t] \in Use /\ user' = [user EXCEPT ![t] = [user[t] EXCEPT !.pc = "call", !.v = x]]
    BY <1>1 DEF RWTypeOK
  <2>2. user'[t] = [user[t] EXCEPT !.pc = "call", !.v = x] /\ \A u \in Thread \ {t} : user'[u] = user[u]
    BY <2>1 DEF RWTypeOK
  <2>3. LET s == [user[t] EXCEPT !.pc = "call", !.v = x]
        IN  s.pc = "call" /\ s.v = x /\ s.o = user[t].o /\ s.op = user[t].op
    BY <2>1, CalledFields
  <2> QED  BY <1>0, <2>2, <2>3, Zenon
<1>13. UsersInv'
  BY <1>0, <1>2, <1>3, <1>8, <1>9, <1>12 DEF UsersInv, Want
<1> QED  BY <1>4, <1>11, <1>13

LEMMA UnlockKeeps ==
  ASSUME RWInv, Habits = {}, NEW t \in Thread, NEW o \in RWLock, RWUnlock(t, o)
  PROVE  RWInv'
<1> USE DEF RWInv
<1>1. user[t].pc = "idle" /\ o \notin rwdead /\ UNCHANGED <<rwword, rwreal, rwdead>>
  BY DEF RWUnlock, Uses
<1>2. CASE Low(rwword[o])
  <2>1. has[o] = Nobody /\ has' = [has EXCEPT ![o][t] = "no"] /\ UNCHANGED user
    BY <1>2 DEF RWUnlock, WordsInv, Made
  <2>2. has' = has  BY <2>1 DEF RWTypeOK, Holding, Nobody
  <2>3. RWTypeOK'  BY <1>1, <2>1, <2>2 DEF RWTypeOK
  <2>4. WordsInv'  BY <1>1, <2>2 DEF WordsInv, Made
  <2>5. UsersInv'  BY <1>1, <2>1, <2>2 DEF UsersInv, Made
  <2> QED  BY <2>3, <2>4, <2>5
<1>3. CASE ~Low(rwword[o])
  <2>1. /\ user' = [user EXCEPT ![t] = [NoUse EXCEPT !.pc = "call", !.op = "unlock", !.o = o, !.v = rwword[o]]]
        /\ UNCHANGED has
    BY <1>3 DEF RWUnlock
  <2>2. \A u \in Thread : user[u].o = o => user[u].pc = "call" /\ user[u].op # "destroy"
    BY RWLocksAssumption DEF RWUnlock, Uses, UsersInv, RWTypeOK, Use
  <2>3. /\ user' \in [Thread -> Use]
        /\ user'[t].pc = "call" /\ user'[t].op = "unlock" /\ user'[t].o = o /\ user'[t].v = rwword[o]
        /\ \A u \in Thread \ {t} : user'[u] = user[u]
    <3> DEFINE r == [NoUse EXCEPT !.pc = "call", !.op = "unlock", !.o = o, !.v = rwword[o]]
    <3>1. rwword[o] \in Int /\ user \in [Thread -> Use]  BY DEF RWTypeOK
    <3>2. r \in Use /\ r.pc = "call" /\ r.op = "unlock" /\ r.o = o /\ r.v = rwword[o]
      BY <3>1 DEF NoUse, Use
    <3>3. user' = [user EXCEPT ![t] = r]  BY <2>1
    <3> HIDE DEF r
    <3> QED  BY <3>1, <3>2, <3>3
  <2>4. RWTypeOK' /\ WordsInv'  BY <1>1, <2>1, <2>3 DEF RWTypeOK, WordsInv, Made
  <2>5. UsersInv'  BY <1>1, <1>3, <2>1, <2>2, <2>3 DEF UsersInv, Made
  <2> QED  BY <2>4, <2>5
<1> QED  BY <1>2, <1>3

LEMMA InitKeeps ==
  ASSUME RWInv, HeapHigh, NEW t \in Thread, NEW o \in RWLock, RWLockInit(t, o)
  PROVE  RWInv'
<1> USE DEF RWInv
<1>1. PICK x \in Free : rwreal' = [rwreal EXCEPT ![x] = Nobody] /\ rwword' = [rwword EXCEPT ![o] = x]
  BY DEF RWLockInit
<1>2. /\ rwdead' = rwdead \ {o} /\ UNCHANGED <<user, has>> /\ has[o] = Nobody
      /\ \A u \in Thread : user[u].o # o
      /\ x \in Heap /\ rwreal[x] = NULL /\ ~Low(x) /\ x \in Int
  BY DEF RWLockInit, Unused, Free, HeapHigh
<1>3. /\ rwword'[o] = x /\ \A p \in RWLock \ {o} : rwword'[p] = rwword[p]
      /\ rwreal'[x] = Nobody /\ \A y \in Heap \ {x} : rwreal'[y] = rwreal[y]
  BY <1>1, <1>2 DEF RWTypeOK
<1>4. Made(o)' /\ \A p \in RWLock \ {o} : Made(p)' <=> Made(p)
  BY <1>2, <1>3 DEF Made
<1>5. \A p \in RWLock : Made(p) => rwword[p] \in Heap /\ rwword[p] # x
  BY <1>2, RealIsNotNull DEF WordsInv
<1>6. RWTypeOK'
  BY <1>1, <1>2, NobodyIsHolding DEF RWTypeOK
<1>7. WordsInv'
  <2>1. \A p \in RWLock : IF Made(p)' THEN rwword'[p] \in Heap /\ rwreal'[rwword'[p]] = has'[p] ELSE has'[p] = Nobody
    <3>1. ASSUME NEW p \in RWLock \ {o}, Made(p)
          PROVE  rwword'[p] \in Heap /\ rwreal'[rwword'[p]] = has'[p]
      BY <1>2, <1>3, <1>5, <3>1 DEF WordsInv
    <3>2. \A p \in RWLock \ {o} : ~Made(p) => has'[p] = Nobody
      BY <1>2 DEF WordsInv
    <3> QED  BY <1>2, <1>3, <1>4, <3>1, <3>2
  <2>2. \A p, q \in RWLock : Made(p)' /\ Made(q)' /\ rwword'[p] = rwword'[q] => p = q
    BY <1>3, <1>4, <1>5 DEF WordsInv
  <2> QED  BY <2>1, <2>2, <1>2 DEF WordsInv
<1>8. UsersInv'
  BY <1>2, <1>3, <1>4 DEF UsersInv
<1> QED  BY <1>6, <1>7, <1>8

LEMMA DestroyKeeps ==
  ASSUME RWInv, Habits = {}, NEW t \in Thread, NEW o \in RWLock, RWLockDestroy(t, o)
  PROVE  RWInv'
<1> USE DEF RWInv
<1>1. user[t].pc = "idle" /\ o \notin rwdead /\ UNCHANGED <<rwword, rwreal, has, rwdead>>
  BY DEF RWLockDestroy, Uses
<1>2. has[o] = Nobody /\ (\A u \in Thread : user[u].o # o) /\ ~Low(rwword[o])
  BY DEF RWLockDestroy, Unused
<1>3. user' = [user EXCEPT ![t] = [NoUse EXCEPT !.pc = "call", !.op = "destroy", !.o = o, !.v = rwword[o]]]
  BY DEF RWLockDestroy
<1>4. /\ user' \in [Thread -> Use]
      /\ user'[t].pc = "call" /\ user'[t].op = "destroy" /\ user'[t].o = o /\ user'[t].v = rwword[o]
      /\ \A u \in Thread \ {t} : user'[u] = user[u]
  <2> DEFINE r == [NoUse EXCEPT !.pc = "call", !.op = "destroy", !.o = o, !.v = rwword[o]]
  <2>1. rwword[o] \in Int /\ user \in [Thread -> Use]  BY DEF RWTypeOK
  <2>2. r \in Use /\ r.pc = "call" /\ r.op = "destroy" /\ r.o = o /\ r.v = rwword[o]
    BY <2>1 DEF NoUse, Use
  <2>3. user' = [user EXCEPT ![t] = r]  BY <1>3
  <2> HIDE DEF r
  <2> QED  BY <2>1, <2>2, <2>3
<1>5. RWTypeOK' /\ WordsInv'  BY <1>1, <1>4 DEF RWTypeOK, WordsInv, Made
<1>6. UsersInv'  BY <1>1, <1>2, <1>4 DEF UsersInv, Made
<1> QED  BY <1>5, <1>6

\* glibc grants, refuses, unlocks or destroys.
LEMMA GlibcKeeps ==
  ASSUME RWInv, NEW t \in Thread, Granted(t) \/ Refused(t) \/ Unlocked(t) \/ Destroyed(t)
  PROVE  RWInv'
<1> USE DEF RWInv
<1>1. PICK o \in RWLock : /\ o = user[t].o /\ user[t].pc = "call" /\ Made(o)
                          /\ user[t].v = rwword[o] /\ rwword[o] \in Heap /\ rwreal[rwword[o]] = has[o]
  BY DEF Granted, Refused, Unlocked, Destroyed, InGlibc, UsersInv, WordsInv
<1>2. user' = [user EXCEPT ![t] = NoUse] /\ UNCHANGED rwword /\ NoUse \in Use
  BY DEF Granted, Refused, Unlocked, Destroyed, Returns, NoUse, Use
<1>3. user'[t] = NoUse /\ (\A u \in Thread \ {t} : user'[u] = user[u]) /\ user' \in [Thread -> Use]
  BY <1>2 DEF RWTypeOK
<1>4. ASSUME UNCHANGED <<rwdead, has>> PROVE UsersInv'
  BY <1>2, <1>3, <1>4, RWLocksAssumption DEF UsersInv, Made, NoUse
<1>5. CASE Refused(t)
  <2>1. UNCHANGED <<rwreal, has, rwdead>>  BY <1>5 DEF Refused
  <2>2. RWTypeOK'  BY <1>2, <1>3, <2>1 DEF RWTypeOK
  <2>3. WordsInv'  BY <1>2, <2>1 DEF WordsInv, Made
  <2> QED  BY <1>4, <2>1, <2>2, <2>3
<1>6. ASSUME NEW w \in Want \cup {"no"}, UNCHANGED rwdead,
             user[t].op # "destroy",
             w = "no" \/ \A u \in Thread : has[o][u] = "no" \/ (w = "read" /\ has[o][u] = "read"),
             rwreal' = [rwreal EXCEPT ![rwword[o]][t] = w], has' = [has EXCEPT ![o][t] = w]
      PROVE  RWInv'
  <2>1. has[o] \in Holding /\ [has[o] EXCEPT ![t] = w] \in Holding
    BY <1>6 DEF RWTypeOK, Holding
  <2>2. /\ has'[o] = [has[o] EXCEPT ![t] = w] /\ \A p \in RWLock \ {o} : has'[p] = has[p]
        /\ rwreal'[rwword[o]] = [has[o] EXCEPT ![t] = w]
        /\ \A y \in Heap \ {rwword[o]} : rwreal'[y] = rwreal[y]
    BY <1>1, <1>6 DEF RWTypeOK
  <2>3. RWTypeOK'
    BY <1>1, <1>2, <1>3, <1>6, <2>1 DEF RWTypeOK
  <2>4. \A p \in RWLock : Made(p)' <=> Made(p)  BY <1>2, <1>6 DEF Made
  <2>5. WordsInv'
    <3>1. \A p \in RWLock : IF Made(p)' THEN rwword'[p] \in Heap /\ rwreal'[rwword'[p]] = has'[p] ELSE has'[p] = Nobody
      BY <1>1, <1>2, <2>2, <2>4 DEF WordsInv
    <3>2. \A p, q \in RWLock : Made(p)' /\ Made(q)' /\ rwword'[p] = rwword'[q] => p = q
      BY <1>2, <2>4 DEF WordsInv
    <3>3. \A u, v \in Thread : has'[o][u] = "write" /\ has'[o][v] # "no" => u = v
      BY <1>6, <2>1, <2>2 DEF WordsInv, Holding
    <3>4. \A p \in RWLock : \A u, v \in Thread : has'[p][u] = "write" /\ has'[p][v] # "no" => u = v
      <4>1. \A p \in RWLock \ {o} : \A u, v \in Thread : has'[p][u] = "write" /\ has'[p][v] # "no" => u = v
        BY <2>2 DEF WordsInv
      <4> QED  BY <3>3, <4>1
    <3> QED  BY <3>1, <3>2, <3>4 DEF WordsInv
  <2>6. UsersInv'
    <3>1. \A u \in Thread \ {t} : user[u].pc # "idle" /\ user[u].o = o => user[u].pc = "call" /\ user[u].op # "destroy"
      BY <1>1 DEF UsersInv, RWTypeOK, Use
    <3> QED  BY <1>1, <1>2, <1>3, <1>6, <2>2, <2>4, <3>1, RWLocksAssumption DEF UsersInv, NoUse
  <2> QED  BY <2>3, <2>5, <2>6
<1>7. CASE Granted(t)
  BY <1>1, <1>6, <1>7 DEF Granted, Grants, Want
<1>8. CASE Unlocked(t)
  BY <1>1, <1>6, <1>8 DEF Unlocked
<1>9. CASE Destroyed(t)
  <2>1. /\ rwreal' = [rwreal EXCEPT ![rwword[o]] = NULL] /\ rwdead' = rwdead \cup {o} /\ UNCHANGED has
        /\ has[o] = Nobody /\ \A u \in Thread : user[u].o = o => u = t
    BY <1>1, <1>9 DEF Destroyed, UsersInv
  <2>2. ~Made(o)' /\ \A p \in RWLock \ {o} : Made(p)' <=> Made(p)
    BY <1>2, <2>1 DEF Made
  <2>3. \A y \in Heap \ {rwword[o]} : rwreal'[y] = rwreal[y]
    BY <2>1 DEF RWTypeOK
  <2>4. \A p \in RWLock \ {o} : Made(p) => rwword[p] # rwword[o]
    BY <1>1 DEF WordsInv
  <2>5. RWTypeOK'  BY <1>2, <1>3, <2>1 DEF RWTypeOK
  <2>6. WordsInv'  BY <1>2, <2>1, <2>2, <2>3, <2>4 DEF WordsInv
  <2>7. UsersInv'  BY <1>1, <1>2, <1>3, <2>1, <2>2, RWLocksAssumption DEF UsersInv, NoUse
  <2> QED  BY <2>5, <2>6, <2>7
<1> QED  BY <1>5, <1>7, <1>8, <1>9

LEMMA RWInvariant ==
  ASSUME Habits = {}, HeapHigh
  PROVE  RWSpec => []RWInv
<1>1. RWInit => RWInv  BY RWInitially
<1>2. RWInv /\ [RWNext]_rwVars => RWInv'
  <2> SUFFICES ASSUME RWInv, [RWNext]_rwVars PROVE RWInv'  OBVIOUS
  <2>1. ASSUME NEW t \in Thread, NEW o \in RWLock,
               \/ \E op \in Want, how \in Manner : RWLockCall(t, o, op, how)
               \/ RWUnlock(t, o) \/ RWLockInit(t, o) \/ RWLockDestroy(t, o)
        PROVE  RWInv'
    BY <2>1, CallKeeps, UnlockKeeps, InitKeeps, DestroyKeeps
  <2>2. ASSUME NEW t \in Thread,
               MakeRWLock(t) \/ Granted(t) \/ Refused(t) \/ Unlocked(t) \/ Destroyed(t)
        PROVE  RWInv'
    BY <2>2, MakeKeeps, GlibcKeeps
  <2>3. CASE UNCHANGED rwVars
    BY <2>3 DEF rwVars, RWInv, RWTypeOK, WordsInv, UsersInv, Made
  <2> QED  BY <2>1, <2>2, <2>3 DEF RWNext
<1> QED  BY <1>1, <1>2, PTL DEF RWSpec

\* With clients that do not race for a first use nor destroy what they never
\* used, and addresses the hooks recognise, every reader-writer lock of hooked
\* code excludes as the one glibc lock behind it does.
THEOREM LocksExclude ==
  ASSUME Habits = {}, HeapHigh
  PROVE  RWSpec => []ReadersOrWriter
<1>1. RWInv => ReadersOrWriter
  <2> SUFFICES ASSUME RWInv PROVE ReadersOrWriter  OBVIOUS
  <2> USE DEF RWInv
  <2>1. \A o \in RWLock : has[o] # Nobody => rwword[o] \in Heap /\ rwreal[rwword[o]] = has[o]
    BY DEF WordsInv
  <2>2. \A o \in RWLock : \A t \in Thread :
          user[t].pc = "call" /\ user[t].o = o => user[t].v = rwword[o] /\ user[t].v \notin Free
    BY RealIsNotNull DEF UsersInv, WordsInv, Free
  <2>3. \A o \in RWLock : \A t, u \in Thread : has[o][t] = "write" /\ has[o][u] # "no" => t = u
    BY DEF WordsInv
  <2> QED  BY <2>1, <2>2, <2>3 DEF ReadersOrWriter
<1>2. RWSpec => []RWInv  BY RWInvariant
<1> QED  BY <1>1, <1>2, PTL
=============================================================================
