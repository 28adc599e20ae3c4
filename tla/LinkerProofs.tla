---------------------------- MODULE LinkerProofs ----------------------------
(***************************************************************************)
(* Proofs about Linker: the inductive invariant of LinkerInv and what      *)
(* follows from it for every pool size, every set of libraries and every   *)
(* dependency graph.                                                       *)
(***************************************************************************)
EXTENDS LinkerInv, TLAPS, FiniteSetTheorems, SequenceTheorems

-----------------------------------------------------------------------------
(* Lists without repetition.                                               *)

\* A new element at the end of a list (solist, the debug map).
LEMMA AppendList ==
  ASSUME NEW S, NEW q \in Seq(S), NEW e \in S
  PROVE  /\ Append(q, e) \in Seq(S)
         /\ Range(Append(q, e)) = Range(q) \cup {e}
         /\ IsInjective(q) /\ e \notin Range(q) => IsInjective(Append(q, e))
         /\ q # <<>> => Append(q, e)[1] = q[1]
         /\ Append(q, e) # <<>>
  BY AppendProperties DEF Range, IsInjective

\* A new element at the front (freelist).
LEMMA ConsList ==
  ASSUME NEW S, NEW q \in Seq(S), NEW e \in S
  PROVE  /\ <<e>> \o q \in Seq(S)
         /\ Range(<<e>> \o q) = Range(q) \cup {e}
         /\ IsInjective(q) /\ e \notin Range(q) => IsInjective(<<e>> \o q)
<1> DEFINE p == <<e>> \o q
<1>1. /\ p \in Seq(S) /\ Len(p) = Len(q) + 1
      /\ p[1] = e /\ \A i \in 1..Len(q) : p[i + 1] = q[i]
  BY ConcatProperties
<1>2. \A i \in 2..Len(p) : p[i] = q[i - 1] /\ i - 1 \in 1..Len(q)
  BY <1>1
<1>3. DOMAIN p = 1..Len(q) + 1 /\ DOMAIN q = 1..Len(q)
  BY <1>1
<1>4. Range(p) = Range(q) \cup {e}
  <2>1. Range(p) \subseteq Range(q) \cup {e}
    BY <1>1, <1>2, <1>3 DEF Range
  <2>2. Range(q) \cup {e} \subseteq Range(p)
    <3>1. ASSUME NEW i \in 1..Len(q) PROVE q[i] \in Range(p)
      BY <1>1, <1>3, i + 1 \in 1..Len(q) + 1 DEF Range
    <3>2. e \in Range(p)
      BY <1>1, <1>3, 1 \in 1..Len(q) + 1 DEF Range
    <3> QED BY <3>1, <3>2, <1>3 DEF Range
  <2> QED BY <2>1, <2>2
<1>5. IsInjective(q) /\ e \notin Range(q) => IsInjective(p)
  BY <1>1, <1>2, <1>3 DEF IsInjective, Range
<1> QED BY <1>1, <1>4, <1>5

\* The first element taken away (freelist).
LEMMA TailList ==
  ASSUME NEW S, NEW q \in Seq(S), q # <<>>, IsInjective(q)
  PROVE  /\ Head(q) \in S /\ Tail(q) \in Seq(S)
         /\ Head(q) \in Range(q)
         /\ Range(Tail(q)) = Range(q) \ {Head(q)}
         /\ IsInjective(Tail(q))
<1>1. /\ Head(q) \in S /\ Head(q) = q[1]
      /\ Tail(q) \in Seq(S) /\ Len(Tail(q)) = Len(q) - 1 /\ Len(q) > 0
      /\ \A i \in 1..Len(q) - 1 : Tail(q)[i] = q[i + 1]
  BY HeadTailProperties
<1>2. DOMAIN Tail(q) = 1..Len(q) - 1 /\ DOMAIN q = 1..Len(q)
  BY <1>1
<1>3. Range(Tail(q)) = Range(q) \ {Head(q)}
  <2>1. Range(Tail(q)) \subseteq Range(q) \ {Head(q)}
    BY <1>1, <1>2 DEF Range, IsInjective
  <2>2. ASSUME NEW i \in 1..Len(q), q[i] # Head(q) PROVE q[i] \in Range(Tail(q))
    <3>1. i - 1 \in 1..Len(q) - 1 /\ (i - 1) + 1 = i
      BY <1>1, <2>2
    <3> QED BY <3>1, <1>1, <1>2 DEF Range
  <2> QED BY <2>1, <2>2, <1>2 DEF Range
<1>4. IsInjective(Tail(q))
  BY <1>1, <1>2 DEF IsInjective
<1>5. Head(q) \in Range(q)
  BY <1>1, <1>2 DEF Range
<1> QED BY <1>1, <1>3, <1>4, <1>5

\* One element unlinked: those behind it move up by one.
LEMMA UnlinkShape ==
  ASSUME NEW S, NEW q \in Seq(S), NEW e \in Range(q)
  PROVE  /\ Unlink(q, e) \in Seq(S) /\ Len(Unlink(q, e)) = Len(q) - 1 /\ Len(q) \in Nat
         /\ \E k \in 1..Len(q) :
              /\ q[k] = e
              /\ \A i \in 1..Len(q) - 1 : Unlink(q, e)[i] = IF i < k THEN q[i] ELSE q[i + 1]
<1> DEFINE k == CHOOSE i \in DOMAIN q : q[i] = e
           p == Unlink(q, e)
<1>1. k \in DOMAIN q /\ q[k] = e
  BY DEF Range
<1> HIDE DEF k
<1>2. DOMAIN q = 1..Len(q) /\ k \in 1..Len(q) /\ Len(q) \in Nat /\ \A i \in 1..Len(q) : q[i] \in S
  BY <1>1
<1>3. p = SubSeq(q, 1, k - 1) \o SubSeq(q, k + 1, Len(q))
  BY DEF Unlink, RemoveAt, k
<1>4. /\ SubSeq(q, 1, k - 1) \in Seq(S) /\ Len(SubSeq(q, 1, k - 1)) = k - 1
      /\ \A i \in 1..k - 1 : SubSeq(q, 1, k - 1)[i] = q[i]
  <2>1. 1 \in Int /\ k - 1 \in Int /\ \A i \in 1..k - 1 : q[i] \in S
    BY <1>2
  <2> QED BY <2>1, <1>2, SubSeqProperties
<1>5. /\ SubSeq(q, k + 1, Len(q)) \in Seq(S) /\ Len(SubSeq(q, k + 1, Len(q))) = Len(q) - k
      /\ \A i \in 1..Len(q) - k : SubSeq(q, k + 1, Len(q))[i] = q[i + k]
  <2> DEFINE t == SubSeq(q, k + 1, Len(q))
  <2>1. k + 1 \in Int /\ Len(q) \in Int /\ \A i \in k + 1..Len(q) : q[i] \in S
    BY <1>2
  <2>2. /\ t \in Seq(S)
        /\ Len(t) = IF k + 1 <= Len(q) THEN Len(q) - (k + 1) + 1 ELSE 0
        /\ \A i \in 1..Len(q) - (k + 1) + 1 : t[i] = q[(k + 1) + i - 1]
    BY <2>1, SubSeqProperties
  <2> HIDE DEF t
  <2>3. Len(q) - (k + 1) + 1 = Len(q) - k /\ \A i \in 1..Len(q) - k : (k + 1) + i - 1 = i + k
    BY <1>2
  <2>4. Len(t) = Len(q) - k
    <3>1. k \in Int /\ Len(q) \in Int /\ k <= Len(q)
      BY <1>2
    <3>2. CASE k + 1 <= Len(q)
      BY <2>2, <2>3, <3>2
    <3>3. CASE ~(k + 1 <= Len(q))
      <4>1. k = Len(q)
        BY <3>1, <3>3
      <4> QED BY <2>2, <3>1, <3>3, <4>1
    <3> QED BY <3>2, <3>3
  <2>5. \A i \in 1..Len(q) - k : t[i] = q[i + k]
    BY <2>2, <2>3
  <2> QED BY <2>2, <2>4, <2>5 DEF t
<1>6. /\ p \in Seq(S) /\ Len(p) = Len(q) - 1
      /\ \A i \in 1..Len(q) - 1 : p[i] = IF i < k THEN q[i] ELSE q[i + 1]
  <2>1. /\ p \in Seq(S) /\ Len(p) = Len(q) - 1
        /\ \A i \in 1..Len(q) - 1 : p[i] = IF i <= k - 1 THEN SubSeq(q, 1, k - 1)[i]
                                           ELSE SubSeq(q, k + 1, Len(q))[i - (k - 1)]
    <3> DEFINE a == SubSeq(q, 1, k - 1)
               b == SubSeq(q, k + 1, Len(q))
    <3>1. /\ a \o b \in Seq(S) /\ Len(a \o b) = Len(a) + Len(b)
          /\ \A i \in 1..Len(a) + Len(b) :
               (a \o b)[i] = IF i <= Len(a) THEN a[i] ELSE b[i - Len(a)]
      BY <1>4, <1>5, ConcatProperties
    <3>2. Len(a) = k - 1 /\ Len(b) = Len(q) - k /\ p = a \o b
      BY <1>3, <1>4, <1>5
    <3> HIDE DEF a, b, p
    <3>3. Len(a) + Len(b) = Len(q) - 1
      BY <3>2, <1>2
    <3> QED BY <3>1, <3>2, <3>3 DEF a, b
  <2>2. ASSUME NEW i \in 1..Len(q) - 1, i < k PROVE p[i] = q[i]
    BY <2>1, <2>2, <1>2, <1>4
  <2>3. ASSUME NEW i \in 1..Len(q) - 1, ~(i < k) PROVE p[i] = q[i + 1]
    <3>1. i - (k - 1) \in 1..Len(q) - k /\ (i - (k - 1)) + k = i + 1
      BY <2>3, <1>2
    <3> QED BY <2>1, <2>3, <3>1, <1>2, <1>5
  <2> QED BY <2>1, <2>2, <2>3
<1> HIDE DEF p
<1>7. \E j \in 1..Len(q) :
        /\ q[j] = e
        /\ \A i \in 1..Len(q) - 1 : p[i] = IF i < j THEN q[i] ELSE q[i + 1]
  BY <1>1, <1>2, <1>6
<1> QED BY <1>2, <1>6, <1>7 DEF p

\* One element unlinked (free_info, remove_soinfo_from_debug_map).
LEMMA UnlinkList ==
  ASSUME NEW S, NEW q \in Seq(S), NEW e \in Range(q), IsInjective(q)
  PROVE  /\ Unlink(q, e) \in Seq(S)
         /\ Range(Unlink(q, e)) = Range(q) \ {e}
         /\ IsInjective(Unlink(q, e))
         /\ q[1] # e => Unlink(q, e) # <<>> /\ Unlink(q, e)[1] = q[1]
<1> DEFINE p == Unlink(q, e)
<1>1. /\ p \in Seq(S) /\ Len(p) = Len(q) - 1
      /\ DOMAIN q = 1..Len(q) /\ Len(q) \in Nat
  BY UnlinkShape
<1>2. PICK k \in 1..Len(q) :
        /\ q[k] = e
        /\ \A i \in 1..Len(q) - 1 : p[i] = IF i < k THEN q[i] ELSE q[i + 1]
  BY UnlinkShape
<1>3. DOMAIN p = 1..Len(q) - 1
  BY <1>1, <1>2
<1> HIDE DEF p
<1>4. Range(p) = Range(q) \ {e}
  <2>1. ASSUME NEW i \in 1..Len(q) - 1 PROVE p[i] \in Range(q) \ {e}
    <3>1. PICK j \in 1..Len(q) : j # k /\ p[i] = q[j]
      <4>1. CASE i < k
        BY <4>1, <1>1, <1>2, i \in 1..Len(q)
      <4>2. CASE ~(i < k)
        BY <4>2, <1>1, <1>2, i + 1 \in 1..Len(q), i + 1 # k
      <4> QED BY <4>1, <4>2
    <3>2. q[j] # e
      BY <3>1, <1>1, <1>2 DEF IsInjective
    <3> QED BY <3>1, <3>2, <1>2 DEF Range
  <2>2. ASSUME NEW i \in 1..Len(q), q[i] # e PROVE q[i] \in Range(p)
    <3>1. CASE i < k
      <4>1. i \in 1..Len(q) - 1
        BY <3>1, <1>2
      <4> QED BY <3>1, <4>1, <1>1, <1>2, <1>3 DEF Range
    <3>2. CASE i > k
      <4>1. i - 1 \in 1..Len(q) - 1 /\ (i - 1) + 1 = i /\ ~(i - 1 < k)
        BY <3>2, <1>2
      <4> QED BY <4>1, <1>1, <1>2, <1>3 DEF Range
    <3>3. i # k
      BY <2>2, <1>2
    <3> QED BY <3>1, <3>2, <3>3, <1>2
  <2> QED BY <2>1, <2>2, <1>1, <1>2, <1>3 DEF Range
<1>5. IsInjective(p)
  <2> SUFFICES ASSUME NEW i \in 1..Len(q) - 1, NEW j \in 1..Len(q) - 1, p[i] = p[j]
               PROVE  i = j
    BY <1>3 DEF IsInjective
  <2> DEFINE at(x) == IF x < k THEN x ELSE x + 1
  <2>1. \A x \in 1..Len(q) - 1 : at(x) \in 1..Len(q) /\ p[x] = q[at(x)]
    BY <1>1, <1>2
  <2>2. at(i) = at(j)
    <3> HIDE DEF at
    <3> QED BY <2>1, <1>2 DEF IsInjective
  <2> QED BY <2>2, <1>2
<1>6. q[1] # e => p # <<>> /\ p[1] = q[1]
  <2> SUFFICES ASSUME q[1] # e PROVE p # <<>> /\ p[1] = q[1]
    OBVIOUS
  <2>1. k > 1 /\ Len(q) > 1
    BY <1>1, <1>2
  <2> QED BY <2>1, <1>1, <1>2
<1> QED BY <1>1, <1>4, <1>5, <1>6 DEF p

\* Those left stay in their order.
LEMMA UnlinkOrder ==
  ASSUME NEW S, NEW q \in Seq(S), NEW e \in Range(q),
         NEW i \in DOMAIN Unlink(q, e), NEW j \in DOMAIN Unlink(q, e)
  PROVE  \E a, b \in DOMAIN q :
           Unlink(q, e)[i] = q[a] /\ Unlink(q, e)[j] = q[b] /\ (a < b => i < j)
<1> DEFINE p == Unlink(q, e)
<1>1. DOMAIN p = 1..Len(q) - 1 /\ DOMAIN q = 1..Len(q) /\ Len(q) \in Nat
  BY UnlinkShape
<1>2. PICK k \in 1..Len(q) : \A n \in 1..Len(q) - 1 : p[n] = IF n < k THEN q[n] ELSE q[n + 1]
  BY UnlinkShape
<1> HIDE DEF p
<1>3. i \in 1..Len(q) - 1 /\ j \in 1..Len(q) - 1
  BY <1>1 DEF p
<1> DEFINE at(n) == IF n < k THEN n ELSE n + 1
<1>4. at(i) \in DOMAIN q /\ at(j) \in DOMAIN q
  BY <1>1, <1>3
<1>5. p[i] = q[at(i)] /\ p[j] = q[at(j)]
  BY <1>2, <1>3
<1>6. at(i) < at(j) => i < j
  BY <1>1, <1>3
<1> HIDE DEF at
<1> QED BY <1>4, <1>5, <1>6 DEF p

-----------------------------------------------------------------------------
(* The stack of activations.                                               *)

\* The innermost activation, when there is one.
LEMMA TopFacts ==
  ASSUME TypeOK, StackShape, stack # <<>>
  PROVE  /\ Len(stack) \in Nat \ {0} /\ Len(stack) \in 1..Len(stack)
         /\ Top = stack[Len(stack)] /\ Top \in Activation
         /\ Top.si \in Loaded /\ Top.si # LibdlInfo /\ Top.si \in Slot
         /\ EntriesMatch(Top)
<1>1. Len(stack) \in Nat \ {0} /\ Len(stack) \in 1..Len(stack) /\ Top \in Activation
  BY DEF TypeOK, Top
<1> QED BY <1>1 DEF StackShape, Top, Activation

\* Entering one.
LEMMA PushFacts ==
  ASSUME TypeOK, NEW f \in Activation, Push(f)
  PROVE  /\ stack' \in Seq(Activation) /\ stack' # <<>>
         /\ Len(stack') = Len(stack) + 1 /\ Len(stack) \in Nat
         /\ \A k \in 1..Len(stack) : stack'[k] = stack[k]
         /\ stack'[Len(stack) + 1] = f
<1>1. stack \in Seq(Activation) /\ stack' = Append(stack, f) /\ Len(stack) \in Nat
  BY DEF TypeOK, Push
<1>2. /\ Append(stack, f) \in Seq(Activation) /\ Append(stack, f) # <<>>
      /\ Len(Append(stack, f)) = Len(stack) + 1
      /\ \A k \in 1..Len(stack) : Append(stack, f)[k] = stack[k]
      /\ Append(stack, f)[Len(stack) + 1] = f
  BY <1>1, AppendProperties
<1> QED BY <1>1, <1>2

\* Leaving one.
LEMMA PopFacts ==
  ASSUME TypeOK, stack # <<>>, Pop
  PROVE  /\ stack' \in Seq(Activation)
         /\ Len(stack) \in Nat \ {0}
         /\ Len(stack') = Len(stack) - 1
         /\ \A k \in 1..Len(stack) - 1 : stack'[k] = stack[k]
         /\ stack' = <<>> <=> Len(stack) = 1
<1>1. Len(stack) \in Nat \ {0} /\ \A i \in 1..Len(stack) - 1 : stack[i] \in Activation
  BY DEF TypeOK
<1>2. 1 \in Int /\ Len(stack) - 1 \in Int
  BY <1>1
<1>3. /\ stack' \in Seq(Activation)
      /\ Len(stack') = IF 1 <= Len(stack) - 1 THEN (Len(stack) - 1) - 1 + 1 ELSE 0
      /\ \A i \in 1..(Len(stack) - 1) - 1 + 1 : stack'[i] = stack[1 + i - 1]
  BY <1>1, <1>2, SubSeqProperties DEF Pop
<1>4. Len(stack') = Len(stack) - 1
  <2>1. CASE 1 <= Len(stack) - 1
    <3>1. Len(stack') = (Len(stack) - 1) - 1 + 1
      BY <1>3, <2>1
    <3>2. \A n \in Nat \ {0} : (n - 1) - 1 + 1 = n - 1
      OBVIOUS
    <3>3. Len(stack) \in Nat \ {0}
      BY <1>1
    <3> QED BY <3>1, <3>2, <3>3
  <2>2. CASE ~(1 <= Len(stack) - 1)
    <3>1. Len(stack') = 0
      BY <1>3, <2>2
    <3>2. \A n \in Nat \ {0} : ~(1 <= n - 1) => n - 1 = 0
      OBVIOUS
    <3>3. Len(stack) \in Nat \ {0}
      BY <1>1
    <3> QED BY <3>1, <3>2, <3>3, <2>2
  <2> QED BY <2>1, <2>2
<1>5. \A k \in 1..Len(stack) - 1 : stack'[k] = stack[k]
  BY <1>1, <1>3
<1>6. stack' = <<>> <=> Len(stack') = 0
  BY <1>3, EmptySeq
<1> QED BY <1>1, <1>3, <1>4, <1>5, <1>6

\* Moving to the next DT_NEEDED entry.
LEMMA AdvanceFacts ==
  ASSUME TypeOK, stack # <<>>, AdvanceD
  PROVE  /\ stack' \in Seq(Activation) /\ stack' # <<>>
         /\ Len(stack) \in Nat \ {0} /\ Len(stack') = Len(stack)
         /\ \A k \in 1..Len(stack) - 1 : stack'[k] = stack[k]
         /\ stack'[Len(stack)] = [Top EXCEPT !.d = @ + 1]
         /\ \A k \in 1..Len(stack) : stack'[k].si = stack[k].si /\ stack'[k].fn = stack[k].fn
         /\ stack'[Len(stack)].d = Top.d + 1
<1>1. Len(stack) \in Nat \ {0} /\ Top \in Activation /\ Len(stack) \in 1..Len(stack)
  BY DEF TypeOK, Top
<1>2. /\ stack' = [stack EXCEPT ![Len(stack)] = [stack[Len(stack)] EXCEPT !.d = @ + 1]]
      /\ [Top EXCEPT !.d = @ + 1] \in Activation
  BY <1>1 DEF AdvanceD, Activation, Top
<1>3. /\ stack' \in Seq(Activation) /\ Len(stack') = Len(stack)
      /\ \A k \in 1..Len(stack) :
           stack'[k] = IF k = Len(stack) THEN [Top EXCEPT !.d = @ + 1] ELSE stack[k]
  <2> DEFINE e == [Top EXCEPT !.d = @ + 1]
  <2>1. stack \in Seq(Activation) /\ e \in Activation /\ stack' = [stack EXCEPT ![Len(stack)] = e]
    BY <1>2 DEF TypeOK, Top
  <2> HIDE DEF e
  <2>2. /\ [stack EXCEPT ![Len(stack)] = e] \in Seq(Activation)
        /\ Len([stack EXCEPT ![Len(stack)] = e]) = Len(stack)
        /\ \A k \in 1..Len(stack) :
             [stack EXCEPT ![Len(stack)] = e][k] = IF k = Len(stack) THEN e ELSE stack[k]
    BY <1>1, <2>1, ExceptSeq
  <2> QED BY <2>1, <2>2 DEF e
<1>4. /\ \A k \in 1..Len(stack) - 1 : stack'[k] = stack[k]
      /\ stack'[Len(stack)] = [Top EXCEPT !.d = @ + 1]
  BY <1>1, <1>3
<1>5. [Top EXCEPT !.d = @ + 1].si = Top.si /\ [Top EXCEPT !.d = @ + 1].fn = Top.fn
      /\ [Top EXCEPT !.d = @ + 1].d = Top.d + 1
  BY <1>1 DEF Activation
<1>6. \A k \in 1..Len(stack) : stack'[k].si = stack[k].si /\ stack'[k].fn = stack[k].fn
  <2>1. stack'[Len(stack)].si = stack[Len(stack)].si /\ stack'[Len(stack)].fn = stack[Len(stack)].fn
    BY <1>4, <1>5 DEF Top
  <2>2. \A k \in 1..Len(stack) : k = Len(stack) \/ k \in 1..Len(stack) - 1
    BY <1>1
  <2> QED BY <1>4, <2>1, <2>2
<1>7. stack' # <<>>
  BY <1>1, <1>3, EmptySeq
<1> QED BY <1>1, <1>3, <1>4, <1>5, <1>6, <1>7

\* Each activation is of a soinfo.
LEMMA StackElems ==
  ASSUME TypeOK
  PROVE  \A k \in 1..Len(stack) : stack[k] \in Activation /\ stack[k].si \in Slot
<1>1. \A k \in 1..Len(stack) : stack[k] \in Activation
  BY ElementOfSeq DEF TypeOK
<1>2. \A f \in Activation : f.si \in Slot
  BY DEF Activation
<1> QED BY <1>1, <1>2

\* What is left when the innermost activation returns: all the others, as
\* they were, each of another soinfo.
LEMMA PopShape ==
  ASSUME TypeOK, StackShape, stack # <<>>, Pop
  PROVE  /\ stack' \in Seq(Activation)
         /\ Len(stack') = Len(stack) - 1
         /\ \A k \in 1..Len(stack') :
              /\ k \in 1..Len(stack) /\ k < Len(stack)
              /\ stack'[k] = stack[k]
              /\ stack[k] \in Activation /\ stack[k].si \in Slot /\ stack[k].si # Top.si
         /\ stack' # <<>> => Len(stack') \in 1..Len(stack') /\ Top' = stack'[Len(stack')]
         /\ Len(stack) - 1 = 0 <=> stack' = <<>>
         /\ Active = Active' \cup {Top.si} /\ Top.si \notin Active'
<1>1. /\ Len(stack) \in Nat \ {0} /\ Len(stack') = Len(stack) - 1 /\ stack' \in Seq(Activation)
      /\ \A k \in 1..Len(stack) - 1 : stack'[k] = stack[k]
      /\ Len(stack) \in 1..Len(stack) /\ Top = stack[Len(stack)]
  BY PopFacts, TopFacts
<1>2. \A n \in Nat \ {0}, k \in Int : k \in 1..n - 1 <=> k \in 1..n /\ k < n
  OBVIOUS
<1>3. \A k \in 1..Len(stack') : k \in 1..Len(stack) /\ k < Len(stack) /\ stack'[k] = stack[k]
  BY <1>1, <1>2
<1>4. \A k \in 1..Len(stack) : stack[k].si = Top.si => k = Len(stack)
  BY <1>1 DEF StackShape
<1>5. \A k \in 1..Len(stack') : k # Len(stack)
  BY <1>1, <1>3
<1>6. \A k \in 1..Len(stack') : stack[k] \in Activation /\ stack[k].si \in Slot /\ stack[k].si # Top.si
  BY <1>3, <1>4, <1>5, StackElems
<1>7. stack' # <<>> => Len(stack') \in 1..Len(stack') /\ Top' = stack'[Len(stack')]
  <2>1. Len(stack') \in Nat /\ (stack' # <<>> => Len(stack') # 0)
    BY <1>1, EmptySeq
  <2> QED BY <2>1 DEF Top
<1>8. Len(stack) - 1 = 0 <=> stack' = <<>>
  BY <1>1, EmptySeq
<1>9. Active = Active' \cup {Top.si}
  <2>1. \A k \in 1..Len(stack) : k = Len(stack) \/ (k \in 1..Len(stack') /\ stack'[k] = stack[k])
    <3>1. \A n \in Nat \ {0} : \A k \in 1..n : k = n \/ k \in 1..n - 1
      OBVIOUS
    <3> QED BY <3>1, <1>1
  <2>2. Active \subseteq Active' \cup {Top.si}
    BY <2>1, <1>1 DEF Active
  <2>3. Active' \cup {Top.si} \subseteq Active
    BY <1>1, <1>3 DEF Active
  <2> QED BY <2>2, <2>3
<1>10. Top.si \notin Active'
  BY <1>3, <1>6 DEF Active
<1> QED BY <1>1, <1>3, <1>6, <1>7, <1>8, <1>9, <1>10

-----------------------------------------------------------------------------
(* Steps that only move the control.                                       *)

\* Where nothing but the control moves, the parts of the invariant about the
\* control are all there is to show.
LEMMA QuietStep ==
  ASSUME IInv, TypeOK', ControlShape', SoValid',
         UNCHANGED <<needed, solist, freelist, socount, soname, flags, refcount, dyn, dbgmap, stack, handles>>,
         \A s \in Slot : GivenUp(s)' <=> GivenUp(s)
  PROVE  IInv'
<1>1. PoolConserved'
  BY DEF IInv, PoolConserved, Loaded
<1>2. RefcountAccounts'
  BY DEF IInv, RefcountAccounts, Edges, Unloading
<1>3. StackShape'
  BY DEF IInv, StackShape, EntriesMatch, Loaded, Needs
<1>4. ReferencedLinked' /\ DebugMapExact' /\ FreeUnbound' /\ LinkedBound' /\ EntriesWithin' /\ LibdlFixed'
  BY DEF IInv, ReferencedLinked, DebugMapExact, FreeUnbound, LinkedBound, EntriesWithin, LibdlFixed,
         Linked, Loaded, Active, Needs
<1> QED BY <1>1, <1>2, <1>3, <1>4 DEF IInv

LEMMA DlopenInv ==
  ASSUME IInv, NEW t \in Thread, NEW l \in Lib, Dlopen(t, l)
  PROVE  IInv'
<1>1. TypeOK'
  BY DEF IInv, TypeOK, Dlopen, Location, Opening, fileVars, poolVars, infoVars
<1>2. ControlShape' /\ SoValid' /\ \A s \in Slot : GivenUp(s)' <=> GivenUp(s)
  BY DEF IInv, ControlShape, SoValid, GivenUp, Dlopen, Opening, Closing, InLink, InUnload, AtRest
<1> QED BY <1>1, <1>2, QuietStep DEF Dlopen, fileVars, poolVars, infoVars

LEMMA FindKnownInv == IInv /\ FindKnown => IInv'
<1> SUFFICES ASSUME IInv, FindKnown PROVE IInv'
  OBVIOUS
<1>1. TypeOK'
  BY RangeOfSeq DEF IInv, TypeOK, FindKnown, FindReturns, Loaded, Location, Opening, fileVars, poolVars, infoVars
<1>2. Len(stack) = 0 <=> stack = <<>>
  BY EmptySeq DEF IInv, TypeOK
<1>3. ControlShape'
  BY <1>2 DEF IInv, ControlShape, FindKnown, FindReturns, Opening, Closing, InLink, InUnload, AtRest, Top, Needs,
         fileVars, infoVars
<1>4. SoValid' /\ \A s \in Slot : GivenUp(s)' <=> GivenUp(s)
  BY DEF IInv, SoValid, GivenUp, FindKnown, FindReturns, Linked, Loaded, poolVars, infoVars
<1> QED BY <1>1, <1>3, <1>4, QuietStep DEF FindKnown, fileVars, poolVars, infoVars

LEMMA LoadRefusedInv == IInv /\ LoadRefused => IInv'
<1> SUFFICES ASSUME IInv, LoadRefused PROVE IInv'
  OBVIOUS
<1>1. TypeOK'
  BY DEF IInv, TypeOK, LoadRefused, FindReturns, Location, Opening, fileVars, poolVars, infoVars
<1>2. Len(stack) = 0 <=> stack = <<>>
  BY EmptySeq DEF IInv, TypeOK
<1>3. ControlShape'
  BY <1>2 DEF IInv, ControlShape, LoadRefused, FindReturns, Opening, Closing, InLink, InUnload, AtRest, Top, Needs,
         fileVars, infoVars
<1>4. SoValid' /\ \A s \in Slot : GivenUp(s)' <=> GivenUp(s)
  BY DEF IInv, SoValid, GivenUp, LoadRefused, FindReturns
<1> QED BY <1>1, <1>3, <1>4, QuietStep DEF LoadRefused, fileVars, poolVars, infoVars

\* The file an entry names.
LEMMA NeededLib ==
  ASSUME TypeOK, NEW s \in Slot, NEW i \in 1..Len(Needs(s))
  PROVE  Needs(s)[i] \in Lib /\ i \in Entry /\ Len(Needs(s)) \in Nat
<1>1. /\ needed \in [Lib -> Seq(Lib)] /\ soname[s] \in Lib
      /\ Len(needed[soname[s]]) <= MaxNeeded
  BY GraphAssumption DEF TypeOK
<1>2. needed[soname[s]] \in Seq(Lib)
  BY <1>1
<1>3. Len(Needs(s)) \in Nat /\ Needs(s)[i] \in Lib /\ Len(Needs(s)) <= MaxNeeded
  BY <1>1, <1>2 DEF Needs
<1> QED BY <1>3, SizesAssumption DEF Entry

LEMMA MapLibraryInv == IInv /\ MapLibrary => IInv'
<1> SUFFICES ASSUME IInv, MapLibrary PROVE IInv'
  OBVIOUS
<1>1. stack # <<>> /\ Top.si \in Slot /\ soname[Top.si] \in Lib
  BY TopFacts DEF IInv, ControlShape, MapLibrary, InLink, TypeOK
<1>2. MmapChoice(soname[Top.si]) \subseteq Region
  BY <1>1, RegionAssumption DEF MmapChoice
<1>3. TypeOK'
  BY <1>1, <1>2 DEF IInv, TypeOK, MapLibrary, Location, Opening, fileVars, poolVars
<1>4. ControlShape' /\ SoValid' /\ \A s \in Slot : GivenUp(s)' <=> GivenUp(s)
  BY <1>1 DEF IInv, ControlShape, SoValid, GivenUp, MapLibrary, Opening, Closing, InLink, InUnload, AtRest,
              Top, Needs, fileVars, poolVars
<1> QED BY <1>3, <1>4, QuietStep DEF MapLibrary, fileVars, poolVars

LEMMA ParseDynamicInv == IInv /\ ParseDynamic => IInv'
<1> SUFFICES ASSUME IInv, ParseDynamic PROVE IInv'
  OBVIOUS
<1>1. TypeOK'
  BY DEF IInv, TypeOK, ParseDynamic, Location, Opening, fileVars, poolVars, infoVars
<1>2. ControlShape' /\ SoValid' /\ \A s \in Slot : GivenUp(s)' <=> GivenUp(s)
  BY DEF IInv, ControlShape, SoValid, GivenUp, ParseDynamic, Opening, Closing, InLink, InUnload, AtRest,
         Top, Needs, fileVars, poolVars, infoVars
<1> QED BY <1>1, <1>2, QuietStep DEF ParseDynamic, fileVars, poolVars, infoVars

LEMMA NeedNextInv == IInv /\ NeedNext => IInv'
<1> SUFFICES ASSUME IInv, NeedNext PROVE IInv'
  OBVIOUS
<1>1. stack # <<>> /\ Top.si \in Slot /\ Top \in Activation /\ EntriesMatch(Top)
  BY TopFacts DEF IInv, ControlShape, NeedNext, InLink
<1>2. want' \in Lib
  <2>1. Top.d \in 1..Len(Needs(Top.si))
    BY <1>1 DEF NeedNext, EntriesMatch
  <2> QED BY <1>1, <2>1, NeededLib DEF IInv, NeedNext
<1>3. TypeOK'
  BY <1>2 DEF IInv, TypeOK, NeedNext, Location, Opening, fileVars, poolVars, infoVars
<1>4. ControlShape' /\ SoValid' /\ \A s \in Slot : GivenUp(s)' <=> GivenUp(s)
  BY <1>1, <1>2 DEF IInv, ControlShape, SoValid, GivenUp, NeedNext, Opening, Closing, InLink, InUnload, AtRest,
         Top, Needs, fileVars, poolVars, infoVars
<1> QED BY <1>3, <1>4, QuietStep DEF NeedNext, fileVars, poolVars, infoVars

LEMMA NeedDoneInv == IInv /\ NeedDone => IInv'
<1> SUFFICES ASSUME IInv, NeedDone PROVE IInv'
  OBVIOUS
<1>1. TypeOK'
  BY DEF IInv, TypeOK, NeedDone, Location, Opening, fileVars, poolVars, infoVars
<1>2. ControlShape' /\ SoValid' /\ \A s \in Slot : GivenUp(s)' <=> GivenUp(s)
  BY DEF IInv, ControlShape, SoValid, GivenUp, NeedDone, Opening, Closing, InLink, InUnload, AtRest,
         Top, Needs, fileVars, poolVars, infoVars
<1> QED BY <1>1, <1>2, QuietStep DEF NeedDone, fileVars, poolVars, infoVars

LEMMA CallbackReentersInv == IInv /\ CallbackReenters => IInv'
<1> SUFFICES ASSUME IInv, CallbackReenters PROVE IInv'
  OBVIOUS
<1>1. TypeOK'
  BY DEF IInv, TypeOK, CallbackReenters, Location, fileVars, poolVars, infoVars
<1>2. ControlShape' /\ SoValid' /\ \A s \in Slot : GivenUp(s)' <=> GivenUp(s)
  BY DEF IInv, ControlShape, SoValid, GivenUp, CallbackReenters, Opening, Closing, InLink, InUnload, AtRest
<1> QED BY <1>1, <1>2, QuietStep DEF CallbackReenters, fileVars, poolVars, infoVars

LEMMA UnloadLibdlInv == IInv /\ UnloadLibdl => IInv'
<1> SUFFICES ASSUME IInv, UnloadLibdl PROVE IInv'
  OBVIOUS
<1>1. TypeOK'
  BY DEF IInv, TypeOK, UnloadLibdl, Location, fileVars, poolVars, infoVars
<1>2. ControlShape' /\ SoValid' /\ \A s \in Slot : GivenUp(s)' <=> GivenUp(s)
  BY DEF IInv, ControlShape, SoValid, GivenUp, UnloadLibdl, Opening, Closing, InLink, InUnload, AtRest
<1> QED BY <1>1, <1>2, QuietStep DEF UnloadLibdl, fileVars, poolVars, infoVars

LEMMA DestructorsDoneInv == IInv /\ DestructorsDone => IInv'
<1> SUFFICES ASSUME IInv, DestructorsDone PROVE IInv'
  OBVIOUS
<1>1. TypeOK'
  BY DEF IInv, TypeOK, DestructorsDone, Location, Closing, fileVars, poolVars
<1>2. ControlShape' /\ SoValid' /\ \A s \in Slot : GivenUp(s)' <=> GivenUp(s)
  BY DEF IInv, ControlShape, SoValid, GivenUp, DestructorsDone, Opening, Closing, InLink, InUnload, AtRest
<1> QED BY <1>1, <1>2, QuietStep DEF DestructorsDone, fileVars, poolVars

LEMMA DropDoneInv == IInv /\ DropDone => IInv'
<1> SUFFICES ASSUME IInv, DropDone PROVE IInv'
  OBVIOUS
<1>1. TypeOK'
  BY DEF IInv, TypeOK, DropDone, Location, Closing, fileVars, poolVars, infoVars
<1>2. ControlShape' /\ SoValid' /\ \A s \in Slot : GivenUp(s)' <=> GivenUp(s)
  BY DEF IInv, ControlShape, SoValid, GivenUp, DropDone, Opening, Closing, InLink, InUnload, AtRest,
         Top, Needs, fileVars, poolVars, infoVars
<1> QED BY <1>1, <1>2, QuietStep DEF DropDone, fileVars, poolVars, infoVars

LEMMA DlcloseReturnsInv == IInv /\ DlcloseReturns => IInv'
<1> SUFFICES ASSUME IInv, DlcloseReturns PROVE IInv'
  OBVIOUS
<1>1. TypeOK'
  BY DEF IInv, TypeOK, DlcloseReturns, Unlock, Location, fileVars, poolVars, infoVars
<1>2. ControlShape' /\ SoValid' /\ \A s \in Slot : GivenUp(s)' <=> GivenUp(s)
  BY DEF IInv, ControlShape, SoValid, GivenUp, DlcloseReturns, Unlock,
         Opening, Closing, InLink, InUnload, AtRest
<1> QED BY <1>1, <1>2, QuietStep DEF DlcloseReturns, fileVars, poolVars, infoVars

-----------------------------------------------------------------------------
(* Counting references.                                                    *)

\* There are finitely many entries.
LEMMA EdgesFinite ==
  ASSUME NEW s
  PROVE  IsFiniteSet(Edges(s)) /\ Cardinality(Edges(s)) \in Nat
<1>1. IsFiniteSet(Slot) /\ IsFiniteSet(Entry)
  BY FS_Interval, SizesAssumption DEF Slot, Entry
<1>2. IsFiniteSet(Slot \X Entry)
  BY <1>1, FS_Product
<1>3. Edges(s) \in SUBSET (Slot \X Entry)
  BY DEF Edges
<1>4. IsFiniteSet(Edges(s))
  BY <1>2, <1>3, FS_Subset
<1> QED BY <1>4, FS_CardinalityType

\* Binding an unbound entry adds one reference.
LEMMA BindEdge ==
  ASSUME TypeOK, NEW p \in Slot, NEW i \in Entry, NEW q \in Slot,
         dyn[p][i] = NULL, dyn' = [dyn EXCEPT ![p][i] = q]
  PROVE  /\ Cardinality(Edges(q)') = Cardinality(Edges(q)) + 1
         /\ \A s \in Slot : s # q => Edges(s)' = Edges(s)
<1>1. \A a \in Slot, b \in Entry :
        dyn'[a][b] = IF a = p /\ b = i THEN q ELSE dyn[a][b]
  BY DEF TypeOK
<1>2. NULL \notin Slot
  BY NullAssumption
<1>3. Edges(q)' = Edges(q) \cup {<<p, i>>}
  BY <1>1 DEF Edges
<1>4. <<p, i>> \notin Edges(q)
  BY <1>2 DEF Edges
<1>5. \A s \in Slot : s # q => Edges(s)' = Edges(s)
  BY <1>1, <1>2 DEF Edges
<1> QED BY <1>3, <1>4, <1>5, EdgesFinite, FS_AddElement

\* Clearing a bound one takes it away.
LEMMA DropEdge ==
  ASSUME TypeOK, NEW p \in Slot, NEW i \in Entry, NEW q \in Slot,
         dyn[p][i] = q, dyn' = [dyn EXCEPT ![p][i] = NULL]
  PROVE  /\ Cardinality(Edges(q)') = Cardinality(Edges(q)) - 1
         /\ \A s \in Slot : s # q => Edges(s)' = Edges(s)
<1>1. \A a \in Slot, b \in Entry :
        dyn'[a][b] = IF a = p /\ b = i THEN NULL ELSE dyn[a][b]
  BY DEF TypeOK
<1>2. NULL \notin Slot
  BY NullAssumption
<1>3. Edges(q)' = Edges(q) \ {<<p, i>>}
  BY <1>1, <1>2 DEF Edges
<1>4. <<p, i>> \in Edges(q)
  BY DEF Edges
<1>5. \A s \in Slot : s # q => Edges(s)' = Edges(s)
  BY <1>1, <1>2 DEF Edges
<1> QED BY <1>3, <1>4, <1>5, EdgesFinite, FS_RemoveElement

\* While the control is in android_dlopen nothing is being unloaded or given up.
LEMMA OpeningCounts ==
  ASSUME IInv, pc \in Opening \cup {"idle"}, NEW s \in Slot
  PROVE  /\ ~Unloading(s) /\ ~GivenUp(s)
         /\ refcount[s] = Cardinality(Edges(s)) + handles[s]
<1>1. ~Unloading(s) /\ ~GivenUp(s)
  <2>1. \A k \in 1..Len(stack) : stack[k].fn # "unload"
    <3>1. CASE pc = "idle"
      BY <3>1, EmptySeq DEF IInv, ControlShape, AtRest
    <3>2. CASE pc \in Opening
      BY <3>2 DEF IInv, ControlShape
    <3> QED BY <3>1, <3>2
  <2> QED BY <2>1 DEF Unloading, GivenUp, Opening
<1>2. Cardinality(Edges(s)) \in Nat /\ handles[s] \in Nat
  BY EdgesFinite DEF IInv, TypeOK
<1> QED BY <1>1, <1>2 DEF IInv, RefcountAccounts

-----------------------------------------------------------------------------
(* Steps that leave the innermost activation.                              *)

\* The activations below are as they were.
LEMMA PopStackShape ==
  ASSUME IInv, stack # <<>>, Pop,
         UNCHANGED <<needed, soname, dyn>>, Loaded \ {Top.si} \subseteq Loaded',
         \A u \in Slot : u # Top.si => flags'[u] = flags[u] /\ refcount'[u] = refcount[u]
  PROVE  StackShape'
<1>1. TypeOK /\ StackShape
  BY DEF IInv
<1>2. \A k \in 1..Len(stack') :
        /\ k \in 1..Len(stack) /\ k < Len(stack)
        /\ stack'[k] = stack[k] /\ stack[k].si \in Slot /\ stack[k].si # Top.si
  BY <1>1, PopShape
<1>3. \A k \in 1..Len(stack') : EntriesMatch(stack[k]) => EntriesMatch(stack[k])'
  BY <1>2 DEF EntriesMatch, Needs
<1>4. ASSUME NEW k \in 1..Len(stack')
      PROVE  /\ stack'[k].si \in Loaded' /\ stack'[k].si # LibdlInfo
             /\ EntriesMatch(stack[k])'
             /\ stack'[k].fn = "link" =>
                  flags'[stack'[k].si] = "none" /\ stack'[k].d <= Len(Needs(stack[k].si)')
             /\ stack'[k].fn = "unload" =>
                  flags'[stack'[k].si] = "LINKED" /\ refcount'[stack'[k].si] = 1
  BY <1>1, <1>2, <1>3 DEF StackShape, Needs
<1>5. \A j, k \in 1..Len(stack') : stack'[j].si = stack'[k].si => j = k
  BY <1>1, <1>2 DEF StackShape
<1> QED BY <1>4, <1>5 DEF StackShape

\* find_library returns to the link_image that waits for it, or to android_dlopen.
LEMMA FindReturnsControl ==
  ASSUME IInv, stack # <<>>, Pop, pc \in Opening,
         UNCHANGED <<needed, soname>>,
         \A u \in Slot : u # Top.si => flags'[u] = flags[u],
         pc' = IF Len(stack) - 1 = 0 THEN "opened" ELSE "needed"
  PROVE  ControlShape'
<1>1. TypeOK /\ StackShape
  BY DEF IInv
<1>2. /\ \A k \in 1..Len(stack') :
             /\ k \in 1..Len(stack) /\ k < Len(stack)
             /\ stack'[k] = stack[k] /\ stack[k].si \in Slot /\ stack[k].si # Top.si
      /\ stack' # <<>> => Len(stack') \in 1..Len(stack') /\ Top' = stack'[Len(stack')]
      /\ pc' = IF stack' = <<>> THEN "opened" ELSE "needed"
  BY <1>1, PopShape
<1>3. \A k \in 1..Len(stack') : stack'[k].fn = "link"
  BY <1>2 DEF IInv, ControlShape
<1>4. stack' # <<>> => flags'[Top'.si] = "none" /\ Top'.d <= Len(Needs(Top.si)')
  <2> SUFFICES ASSUME stack' # <<>> PROVE flags'[Top'.si] = "none" /\ Top'.d <= Len(Needs(Top.si)')
    OBVIOUS
  <2> DEFINE m == Len(stack')
  <2>1. /\ m \in 1..Len(stack') /\ m \in 1..Len(stack) /\ m < Len(stack)
        /\ Top' = stack[m] /\ stack[m].fn = "link" /\ stack[m].si \in Slot /\ stack[m].si # Top.si
    BY <1>2, <1>3
  <2> HIDE DEF m
  <2>2. flags[stack[m].si] = "none" /\ stack[m].d <= Len(Needs(stack[m].si))
    BY <1>1, <2>1 DEF StackShape
  <2> QED BY <2>1, <2>2 DEF Needs
<1> QED BY <1>2, <1>3, <1>4 DEF ControlShape, Opening, Closing, InLink, InUnload, AtRest, Needs

-----------------------------------------------------------------------------
(* Steps of android_dlopen.                                                *)

LEMMA LinkFailsInv ==
  ASSUME IInv, LinkFails, pc \in {"link", "needed", "reloc"}, stack # <<>>
  PROVE  IInv'
<1> DEFINE top == Top.si
<1>1. /\ top \in Loaded /\ top # LibdlInfo /\ top \in Slot /\ flags[top] = "none"
      /\ pc \in Opening
  BY TopFacts DEF IInv, ControlShape, Opening
<1>2. /\ UNCHANGED <<needed, solist, freelist, socount, soname, refcount, dyn, base, inited, dbgmap, handles>>
      /\ flags' = [flags EXCEPT ![top] = "ERROR"] /\ Pop
      /\ so' = NULL /\ pc' = IF Len(stack) - 1 = 0 THEN "opened" ELSE "needed"
  BY DEF LinkFails, FindReturns, fileVars, poolVars
<1>3. \A u \in Slot : flags'[u] = IF u = top THEN "ERROR" ELSE flags[u]
  BY <1>1, <1>2 DEF IInv, TypeOK
<1>4. Loaded' = Loaded /\ Linked' = Linked
  BY <1>1, <1>2, <1>3, RangeOfSeq DEF Loaded, Linked, IInv, TypeOK
<1>5. stack' \in Seq(Activation) /\ Active = Active' \cup {top}
  BY <1>2, PopShape DEF IInv
<1>6. StackShape'
  BY <1>2, <1>3, <1>4, PopStackShape
<1>7. ControlShape'
  BY <1>1, <1>2, <1>3, FindReturnsControl
<1>8. TypeOK'
  <2>1. mem' \in [Region -> Slot \cup {NULL}]
    BY DEF LinkFails, munmap, IInv, TypeOK
  <2> QED BY <1>1, <1>2, <1>5, <2>1 DEF IInv, TypeOK, LinkFails, Location, Opening
<1>9. PoolConserved'
  BY <1>2, <1>4 DEF IInv, PoolConserved
<1>10. RefcountAccounts'
  <2>1. pc' \in Opening
    BY <1>2 DEF Opening
  <2>2. \A s \in Slot : ~Unloading(s)' /\ ~GivenUp(s)' /\ Edges(s)' = Edges(s)
    BY <1>2, <1>7, <2>1 DEF Unloading, GivenUp, Edges, ControlShape, Opening
  <2>3. \A s \in Slot : refcount[s] = Cardinality(Edges(s)) + handles[s]
    BY <1>1, OpeningCounts
  <2>4. \A s \in Slot : Cardinality(Edges(s)) \in Nat /\ handles[s] \in Nat
    BY EdgesFinite DEF IInv, TypeOK
  <2> QED BY <1>2, <2>2, <2>3, <2>4 DEF RefcountAccounts
<1>11. ReferencedLinked' /\ DebugMapExact' /\ FreeUnbound' /\ EntriesWithin'
  BY <1>2, <1>4 DEF IInv, ReferencedLinked, DebugMapExact, FreeUnbound, EntriesWithin, Needs
<1>12. LinkedBound'
  <2>1. top \notin Linked
    BY <1>1 DEF Linked
  <2> QED BY <1>2, <1>4, <1>5, <2>1 DEF IInv, LinkedBound, Needs
<1>13. LibdlFixed' /\ SoValid'
  BY <1>1, <1>2, <1>3 DEF IInv, LibdlFixed, SoValid, Slot, LibdlInfo
<1> QED BY <1>6, <1>7, <1>8, <1>9, <1>10, <1>11, <1>12, <1>13 DEF IInv

LEMMA ParseFailsInv == IInv /\ ParseFails => IInv'
<1> SUFFICES ASSUME IInv, ParseFails PROVE IInv'
  OBVIOUS
<1>1. LinkFails /\ pc \in {"link", "needed", "reloc"} /\ stack # <<>>
  BY DEF ParseFails, IInv, ControlShape, InLink
<1> QED BY <1>1, LinkFailsInv

LEMMA NeedMissingInv == IInv /\ NeedMissing => IInv'
  BY LinkFailsInv DEF NeedMissing, IInv, ControlShape, InLink

LEMMA RelocateFailsInv == IInv /\ RelocateFails => IInv'
  BY LinkFailsInv DEF RelocateFails, IInv, ControlShape, InLink

-----------------------------------------------------------------------------
(* Steps that enter an activation.                                         *)

\* One more activation, of a soinfo that has none, on top of those there are.
LEMMA PushStackShape ==
  ASSUME IInv, NEW f \in Activation, Push(f),
         UNCHANGED <<needed, dyn>>, Loaded \subseteq Loaded',
         \A u \in Loaded : soname'[u] = soname[u] /\ flags'[u] = flags[u] /\ refcount'[u] = refcount[u],
         f.si \notin Active, f.si \in Loaded', f.si # LibdlInfo, EntriesMatch(f)',
         f.fn = "unload" => flags'[f.si] = "LINKED" /\ refcount'[f.si] = 1,
         stack # <<>> /\ Top.fn = "link" => flags[Top.si] = "none" /\ Top.d <= Len(Needs(Top.si))
  PROVE  /\ StackShape' /\ stack' \in Seq(Activation) /\ stack' # <<>> /\ Top' = f
         /\ Active' = Active \cup {f.si}
         /\ \A k \in 1..Len(stack') : stack'[k] = f \/ (k \in 1..Len(stack) /\ stack'[k] = stack[k])
         /\ \A k \in 1..Len(stack) : k \in 1..Len(stack') /\ stack'[k] = stack[k]
         /\ Len(stack') \in 1..Len(stack') /\ stack'[Len(stack')] = f
<1> PICK n \in Nat : n = Len(stack)
  BY DEF IInv, TypeOK
<1>1. /\ stack' \in Seq(Activation) /\ stack' # <<>> /\ Len(stack') = n + 1 /\ n \in Nat
      /\ \A k \in 1..n : stack'[k] = stack[k]
      /\ stack'[n + 1] = f
  BY PushFacts DEF IInv
<1>2. /\ \A k \in 1..n : /\ stack[k].si \in Loaded /\ stack[k].si # LibdlInfo /\ EntriesMatch(stack[k])
                         /\ k < n /\ stack[k].fn = "link" =>
                              flags[stack[k].si] = "none" /\ stack[k].d <= Len(Needs(stack[k].si))
                         /\ stack[k].fn = "unload" => flags[stack[k].si] = "LINKED" /\ refcount[stack[k].si] = 1
      /\ \A j, k \in 1..n : stack[j].si = stack[k].si => j = k
      /\ \A k \in 1..n : f.si # stack[k].si
  BY DEF IInv, StackShape, Active
<1>3. n # 0 => stack # <<>> /\ Top = stack[n]
  BY EmptySeq DEF IInv, TypeOK, Top
<1>4. Top' = f
  BY <1>1 DEF Top
<1>5. \A k \in 1..n + 1 : k = n + 1 \/ k \in 1..n
  BY <1>1
<1>6. \A k \in 1..n : k \in 1..n + 1 /\ k # n + 1 /\ (k < n \/ k = n) /\ n # 0
  BY <1>1
<1>7. \A k \in 1..n : EntriesMatch(stack[k])'
  <2>1. ASSUME NEW k \in 1..n PROVE EntriesMatch(stack[k])'
    <3>1. stack'[k] = stack[k] /\ stack[k].si \in Loaded /\ EntriesMatch(stack[k])
      BY <1>1, <1>2
    <3>2. soname'[stack[k].si] = soname[stack[k].si]
      BY <3>1
    <3> QED BY <3>1, <3>2 DEF EntriesMatch, Needs
  <2> QED BY <2>1
<1>8. EntriesMatch(stack[n + 1])'
  BY <1>1 DEF EntriesMatch
<1>9. ASSUME NEW k \in 1..n
      PROVE  /\ stack'[k].si \in Loaded' /\ stack'[k].si # LibdlInfo
             /\ stack'[k].fn = "link" =>
                  flags'[stack'[k].si] = "none" /\ stack'[k].d <= Len(Needs(stack[k].si)')
             /\ stack'[k].fn = "unload" =>
                  flags'[stack'[k].si] = "LINKED" /\ refcount'[stack'[k].si] = 1
  <2>1. stack'[k] = stack[k] /\ stack[k].si \in Loaded /\ Needs(stack[k].si)' = Needs(stack[k].si)
    BY <1>1, <1>2 DEF Needs
  <2>2. k < n \/ Top = stack[k]
    BY <1>3, <1>6
  <2>3. stack[k].fn = "link" => flags[stack[k].si] = "none" /\ stack[k].d <= Len(Needs(stack[k].si))
    BY <1>2, <1>3, <1>6, <2>2
  <2> QED BY <1>2, <2>1, <2>3
<1>10. \A j, k \in 1..n + 1 : stack'[j].si = stack'[k].si => j = k
  BY <1>1, <1>2, <1>5
<1>11. StackShape'
  <2>1. \A k \in 1..Len(stack') : k < Len(stack') => k \in 1..n
    BY <1>1
  <2> QED BY <1>1, <1>5, <1>7, <1>8, <1>9, <1>10, <2>1 DEF StackShape
<1>12. Active' = Active \cup {f.si}
  BY <1>1, <1>5, <1>6 DEF Active
<1> QED BY <1>1, <1>4, <1>5, <1>6, <1>11, <1>12

\* alloc_info takes a soinfo nobody refers to, and nothing else changes.
LEMMA AllocFacts ==
  ASSUME IInv, NEW s \in Slot, NEW l \in Lib, alloc_info(s, l)
  PROVE  /\ s \notin Loaded /\ s # LibdlInfo
         /\ solist' \in Seq(Slot) /\ freelist' \in Seq(Slot) /\ socount' \in 0..SO_MAX
         /\ Loaded' = Loaded \cup {s} /\ Linked' = Linked
         /\ dyn' = dyn /\ refcount' = refcount
         /\ \A u \in Slot : /\ soname'[u] = IF u = s THEN l ELSE soname[u]
                            /\ flags'[u] = IF u = s THEN "none" ELSE flags[u]
         /\ PoolConserved'
<1>1. /\ solist \in Seq(Slot) /\ freelist \in Seq(Slot) /\ socount \in 0..SO_MAX /\ socount \in Nat
      /\ solist # <<>> /\ solist[1] = LibdlInfo /\ IsInjective(solist) /\ IsInjective(freelist)
      /\ Loaded \cap Range(freelist) = {} /\ Loaded \cup Range(freelist) = 0..socount
  BY SizesAssumption DEF IInv, TypeOK, PoolConserved
<1>2. LibdlInfo \in Loaded
  <2>1. Len(solist) \in Nat \ {0}
    BY <1>1, EmptySeq
  <2> QED BY <1>1, <2>1 DEF Loaded, Range
<1>3. /\ s \notin Loaded
      /\ freelist' \in Seq(Slot) /\ IsInjective(freelist') /\ socount' \in 0..SO_MAX
      /\ s \notin Range(freelist') /\ Range(freelist') \subseteq Range(freelist)
      /\ {s} \cup Loaded \cup Range(freelist') = 0..socount'
  <2>1. CASE /\ freelist # <<>> /\ s = Head(freelist)
             /\ freelist' = Tail(freelist) /\ UNCHANGED socount
    BY <1>1, <2>1, TailList
  <2>2. CASE /\ freelist = <<>> /\ socount < SO_MAX /\ s = socount + 1
             /\ socount' = socount + 1 /\ UNCHANGED freelist
    <3>1. Range(freelist) = {}
      BY <2>2 DEF Range
    <3>2. /\ socount' \in 0..SO_MAX /\ 0..socount + 1 = (0..socount) \cup {socount + 1}
          /\ socount + 1 \notin 0..socount
      BY <1>1, <2>2, SizesAssumption
    <3> QED BY <1>1, <2>2, <3>1, <3>2
  <2> QED BY <2>1, <2>2 DEF alloc_info
<1>4. /\ solist' \in Seq(Slot) /\ Loaded' = Loaded \cup {s} /\ IsInjective(solist')
      /\ solist' # <<>> /\ solist'[1] = LibdlInfo
  <2>1. solist' = Append(solist, s)
    BY DEF alloc_info
  <2>2. /\ Append(solist, s) \in Seq(Slot) /\ Append(solist, s) # <<>>
        /\ Range(Append(solist, s)) = Range(solist) \cup {s}
        /\ s \notin Range(solist) => IsInjective(Append(solist, s))
        /\ Append(solist, s)[1] = solist[1]
    BY <1>1, AppendList
  <2> QED BY <1>1, <1>3, <2>1, <2>2 DEF Loaded
<1>5. PoolConserved'
  BY <1>1, <1>3, <1>4 DEF PoolConserved
<1>6. /\ soname \in [Slot -> Lib] /\ flags \in [Slot -> {"none", "LINKED", "ERROR"}]
      /\ refcount \in [Slot -> Nat] /\ dyn \in [Slot -> [Entry -> Slot \cup {NULL}]]
  BY DEF IInv, TypeOK
<1>7. \A u \in Slot : /\ soname'[u] = IF u = s THEN l ELSE soname[u]
                      /\ flags'[u] = IF u = s THEN "none" ELSE flags[u]
  BY <1>6 DEF alloc_info
<1>8. refcount' = refcount
  <2>1. refcount[s] = 0
    BY <1>3, <1>6 DEF IInv, ReferencedLinked, Linked
  <2> QED BY <1>6, <2>1 DEF alloc_info
<1>9. dyn' = dyn
  <2>1. dyn[s] = Unbound
    BY <1>3 DEF IInv, FreeUnbound
  <2> QED BY <1>6, <2>1 DEF alloc_info
<1>10. Linked' = Linked
  <2>1. Loaded \subseteq Slot
    BY <1>1, RangeOfSeq DEF Loaded
  <2>2. \A u \in Loaded \cup {s} : flags'[u] = "LINKED" <=> u \in Loaded /\ flags[u] = "LINKED"
    BY <1>3, <1>7, <2>1
  <2> QED BY <1>4, <2>2 DEF Linked
<1> QED BY <1>2, <1>3, <1>4, <1>5, <1>7, <1>8, <1>9, <1>10

LEMMA LoadLibraryInv == IInv /\ LoadLibrary => IInv'
<1> SUFFICES ASSUME IInv, LoadLibrary PROVE IInv'
  OBVIOUS
<1>1. pc = "find" /\ want \in Lib /\ pc' = "map"
  BY DEF LoadLibrary, IInv, SoValid
<1>2. PICK s \in Slot : alloc_info(s, want) /\ Push([fn |-> "link", si |-> s, d |-> 1])
  BY DEF LoadLibrary
<1>3. PICK l \in Lib : l = want
  BY <1>1
<1> DEFINE f == [fn |-> "link", si |-> s, d |-> 1]
<1>4. /\ s \notin Loaded /\ s # LibdlInfo
      /\ solist' \in Seq(Slot) /\ freelist' \in Seq(Slot) /\ socount' \in 0..SO_MAX
      /\ Loaded' = Loaded \cup {s} /\ Linked' = Linked
      /\ dyn' = dyn /\ refcount' = refcount
      /\ \A u \in Slot : /\ soname'[u] = IF u = s THEN l ELSE soname[u]
                         /\ flags'[u] = IF u = s THEN "none" ELSE flags[u]
      /\ PoolConserved'
  <2>1. alloc_info(s, l)
    BY <1>2, <1>3
  <2> QED BY <2>1, AllocFacts
<1>5. UNCHANGED <<needed, dbgmap, mem, dl_lock, want, so, handles>>
  BY DEF LoadLibrary, fileVars
<1>6. Loaded \subseteq Slot
  BY RangeOfSeq DEF IInv, TypeOK, Loaded
<1>7. f \in Activation
  BY DEF Activation
<1>8. s \notin Active
  BY <1>4 DEF IInv, StackShape, Active
<1>9. EntriesMatch(f)'
  <2>1. dyn[s] = Unbound
    BY <1>4 DEF IInv, FreeUnbound
  <2>2. needed \in [Lib -> Seq(Lib)] /\ soname'[s] = l
    BY <1>4, GraphAssumption DEF IInv, TypeOK
  <2>3. Len(needed[l]) \in Nat
    BY <2>2
  <2>4. 1 \in 1..Len(needed'[soname'[s]]) + 1
    BY <1>5, <2>2, <2>3
  <2>5. \A i \in Entry : dyn'[s][i] = NULL /\ ~(i < 1)
    BY <1>4, <2>1 DEF Unbound, Entry
  <2> QED BY <2>4, <2>5 DEF EntriesMatch, Needs
<1>10. /\ StackShape' /\ stack' \in Seq(Activation) /\ stack' # <<>> /\ Top' = f
       /\ Active' = Active \cup {s}
       /\ \A k \in 1..Len(stack') : stack'[k] = f \/ (k \in 1..Len(stack) /\ stack'[k] = stack[k])
  <2>1. stack # <<>> => flags[Top.si] = "none" /\ Top.d <= Len(Needs(Top.si))
    BY <1>1 DEF IInv, ControlShape, Opening
  <2>2. Push(f)
    BY <1>2
  <2>3. \A u \in Loaded : soname'[u] = soname[u] /\ flags'[u] = flags[u] /\ refcount'[u] = refcount[u]
    BY <1>4, <1>6
  <2>4. f.si = s /\ f.fn = "link"
    OBVIOUS
  <2> HIDE DEF f
  <2> QED BY <1>4, <1>5, <1>7, <1>8, <1>9, <2>1, <2>2, <2>3, <2>4, PushStackShape
<1>11. \A k \in 1..Len(stack') : stack'[k].fn = "link"
  BY <1>1, <1>10 DEF IInv, ControlShape, Opening
<1>12. TypeOK'
  <2>1. /\ soname' \in [Slot -> Lib] /\ flags' \in [Slot -> {"none", "LINKED", "ERROR"}]
        /\ base' \in [Slot -> Region \cup {NoRegion}] /\ inited' \in [Slot -> BOOLEAN]
    BY <1>1, <1>2, RegionAssumption DEF alloc_info, IInv, TypeOK
  <2> QED BY <1>1, <1>4, <1>5, <1>10, <2>1 DEF IInv, TypeOK, Location, Opening
<1>13. ControlShape'
  BY <1>1, <1>4, <1>10, <1>11 DEF ControlShape, Opening, Closing, InLink, InUnload, AtRest
<1>14. RefcountAccounts'
  <2>1. \A u \in Slot : ~Unloading(u)' /\ ~GivenUp(u)' /\ Edges(u)' = Edges(u)
    BY <1>1, <1>4, <1>11 DEF Unloading, GivenUp, Edges
  <2>2. \A u \in Slot : refcount[u] = Cardinality(Edges(u)) + handles[u]
    BY <1>1, OpeningCounts DEF Opening
  <2>3. \A u \in Slot : Cardinality(Edges(u)) \in Nat /\ handles[u] \in Nat
    BY EdgesFinite DEF IInv, TypeOK
  <2> QED BY <1>4, <1>5, <2>1, <2>2, <2>3 DEF RefcountAccounts
<1>15. ReferencedLinked' /\ DebugMapExact' /\ FreeUnbound'
  BY <1>4, <1>5 DEF IInv, ReferencedLinked, DebugMapExact, FreeUnbound, Unbound
<1>16. LinkedBound'
  <2>1. \A u \in Linked : u \in Slot /\ Needs(u)' = Needs(u)
    BY <1>4, <1>5, <1>6 DEF Linked, Needs
  <2> QED BY <1>4, <1>10, <2>1 DEF IInv, LinkedBound
<1>17. EntriesWithin'
  <2>1. \A i \in Entry : dyn[s][i] = NULL
    BY <1>4 DEF IInv, FreeUnbound, Unbound
  <2> QED BY <1>4, <1>5, <2>1 DEF IInv, EntriesWithin, Needs
<1>18. LibdlFixed' /\ SoValid'
  BY <1>1, <1>4, SizesAssumption DEF IInv, LibdlFixed, SoValid, Slot, LibdlInfo
<1> QED BY <1>4, <1>10, <1>12, <1>13, <1>14, <1>15, <1>16, <1>17, <1>18 DEF IInv

\* free_info moves a soinfo of solist to freelist.
LEMMA FreeFacts ==
  ASSUME IInv, NEW s \in Loaded \ {LibdlInfo}, free_info(s)
  PROVE  /\ solist' \in Seq(Slot) /\ freelist' \in Seq(Slot) /\ socount' = socount
         /\ Loaded' = Loaded \ {s} /\ PoolConserved'
<1>1. /\ solist \in Seq(Slot) /\ freelist \in Seq(Slot)
      /\ solist # <<>> /\ solist[1] = LibdlInfo /\ IsInjective(solist) /\ IsInjective(freelist)
      /\ Loaded \cap Range(freelist) = {} /\ Loaded \cup Range(freelist) = 0..socount
      /\ s \in Loaded /\ s # LibdlInfo /\ s \in Slot /\ s \in Range(solist)
  BY RangeOfSeq DEF IInv, TypeOK, PoolConserved, Loaded
<1>2. /\ solist' \in Seq(Slot) /\ Loaded' = Loaded \ {s} /\ IsInjective(solist')
      /\ solist' # <<>> /\ solist'[1] = LibdlInfo
  BY <1>1, UnlinkList DEF free_info, Loaded
<1>3. freelist' \in Seq(Slot) /\ Range(freelist') = Range(freelist) \cup {s} /\ IsInjective(freelist')
  BY <1>1, ConsList DEF free_info
<1> QED BY <1>1, <1>2, <1>3 DEF PoolConserved, free_info

\* load_library gives a soinfo back before any entry is bound.
LEMMA LoadFails ==
  ASSUME IInv, pc = "map", free_info(Top.si), Pop, FindReturns(NULL, Len(stack) - 1),
         UNCHANGED <<needed, soname, refcount, dyn, inited, dbgmap, dl_lock, want, handles>>,
         flags' = [flags EXCEPT ![Top.si] = "ERROR"] \/ flags' = flags,
         base' \in [Slot -> Region \cup {NoRegion}], mem' \in [Region -> Slot \cup {NULL}]
  PROVE  IInv'
<1> DEFINE top == Top.si
<1>1. /\ stack # <<>> /\ top \in Loaded /\ top # LibdlInfo /\ top \in Slot
      /\ flags[top] = "none" /\ pc \in Opening /\ Top \in Activation /\ EntriesMatch(Top)
  BY TopFacts DEF IInv, ControlShape, InLink, Opening
<1>2. so' = NULL /\ pc' = IF Len(stack) - 1 = 0 THEN "opened" ELSE "needed"
  BY DEF FindReturns
<1>3. flags' \in [Slot -> {"none", "LINKED", "ERROR"}] /\ \A u \in Slot \ {top} : flags'[u] = flags[u]
  BY <1>1 DEF IInv, TypeOK
<1>4. /\ solist' \in Seq(Slot) /\ freelist' \in Seq(Slot) /\ socount' = socount
      /\ Loaded' = Loaded \ {top} /\ PoolConserved'
  <2>1. PICK s \in Loaded \ {LibdlInfo} : s = top
    BY <1>1
  <2>2. free_info(s)
    BY <2>1
  <2> QED BY <2>1, <2>2, FreeFacts
<1>5. Linked' = Linked
  BY <1>1, <1>3, <1>4, RangeOfSeq DEF Linked, Loaded, IInv, TypeOK
<1>6. stack' \in Seq(Activation) /\ Active = Active' \cup {top}
  BY <1>1, PopShape DEF IInv
<1>7. StackShape'
  BY <1>1, <1>3, <1>4, PopStackShape
<1>8. ControlShape'
  BY <1>1, <1>2, <1>3, FindReturnsControl
<1>9. TypeOK'
  BY <1>2, <1>3, <1>4, <1>6 DEF IInv, TypeOK, Location, Opening
<1>10. RefcountAccounts'
  <2>1. pc' \in Opening
    BY <1>2 DEF Opening
  <2>2. \A s \in Slot : ~Unloading(s)' /\ ~GivenUp(s)' /\ Edges(s)' = Edges(s)
    BY <1>2, <1>8, <2>1 DEF Unloading, GivenUp, Edges, ControlShape, Opening
  <2>3. \A s \in Slot : refcount[s] = Cardinality(Edges(s)) + handles[s]
    BY <1>1, OpeningCounts
  <2>4. \A s \in Slot : Cardinality(Edges(s)) \in Nat /\ handles[s] \in Nat
    BY EdgesFinite DEF IInv, TypeOK
  <2> QED BY <2>2, <2>3, <2>4 DEF RefcountAccounts
<1>11. dyn[top] = Unbound
  <2>1. Top.d = 1 /\ Top.fn = "link"
    BY <1>1, TopFacts DEF IInv, ControlShape, Opening
  <2>2. \A i \in Entry : dyn[top][i] = NULL
    BY <1>1, <2>1 DEF EntriesMatch, Entry
  <2>3. dyn[top] \in [Entry -> Slot \cup {NULL}]
    BY <1>1 DEF IInv, TypeOK
  <2> QED BY <2>2, <2>3 DEF Unbound
<1>12. FreeUnbound'
  BY <1>4, <1>11 DEF IInv, FreeUnbound, Unbound
<1>13. ReferencedLinked' /\ DebugMapExact' /\ EntriesWithin'
  BY <1>5 DEF IInv, ReferencedLinked, DebugMapExact, EntriesWithin, Needs
<1>14. LinkedBound'
  <2>1. top \notin Linked
    BY <1>1 DEF Linked
  <2> QED BY <1>5, <1>6, <2>1 DEF IInv, LinkedBound, Needs
<1>15. LibdlFixed' /\ SoValid'
  BY <1>1, <1>2, <1>3, SizesAssumption DEF IInv, LibdlFixed, SoValid, Slot, LibdlInfo
<1> QED BY <1>4, <1>7, <1>8, <1>9, <1>10, <1>12, <1>13, <1>14, <1>15 DEF IInv

LEMMA ReserveFailsInv == IInv /\ ReserveFails => IInv'
<1> SUFFICES ASSUME IInv, ReserveFails PROVE IInv'
  OBVIOUS
<1>1. /\ pc = "map" /\ free_info(Top.si) /\ Pop /\ FindReturns(NULL, Len(stack) - 1)
      /\ UNCHANGED <<needed, soname, refcount, dyn, inited, dbgmap, dl_lock, want, handles>>
      /\ flags' = flags
      /\ base' \in [Slot -> Region \cup {NoRegion}] /\ mem' \in [Region -> Slot \cup {NULL}]
  BY DEF ReserveFails, fileVars, infoVars, IInv, TypeOK
<1> QED BY <1>1, LoadFails

LEMMA SegmentsFailInv == IInv /\ SegmentsFail => IInv'
<1> SUFFICES ASSUME IInv, SegmentsFail PROVE IInv'
  OBVIOUS
<1>1. /\ pc = "map" /\ free_info(Top.si) /\ Pop /\ FindReturns(NULL, Len(stack) - 1)
      /\ UNCHANGED <<needed, soname, refcount, dyn, inited, dbgmap, dl_lock, want, handles>>
      /\ flags' = [flags EXCEPT ![Top.si] = "ERROR"]
  BY DEF SegmentsFail, fileVars
<1>2. soname[Top.si] \in Lib
  BY <1>1, TopFacts DEF IInv, TypeOK, ControlShape, InLink
<1>3. MmapChoice(soname[Top.si]) \subseteq Region
  BY <1>2, RegionAssumption DEF MmapChoice
<1>4. base' \in [Slot -> Region \cup {NoRegion}] /\ mem' \in [Region -> Slot \cup {NULL}]
  BY <1>3 DEF SegmentsFail, munmap, IInv, TypeOK
<1> QED BY <1>1, <1>4, LoadFails

\* reloc_library, FLAG_LINKED, the debug map.
LEMMA RelocateInv == IInv /\ Relocate => IInv'
<1> SUFFICES ASSUME IInv, Relocate PROVE IInv'
  OBVIOUS
<1> DEFINE top == Top.si
<1>1. /\ stack # <<>> /\ top \in Loaded /\ top # LibdlInfo /\ top \in Slot
      /\ flags[top] = "none" /\ pc = "reloc" /\ pc' = "init"
      /\ Len(stack) \in 1..Len(stack) /\ Top = stack[Len(stack)]
      /\ \A k \in 1..Len(stack) : stack[k].fn = "link"
  BY TopFacts DEF IInv, ControlShape, InLink, Opening, Relocate
<1>2. /\ UNCHANGED <<needed, solist, freelist, socount, soname, refcount, dyn, base, inited, mem,
                     dl_lock, stack, want, so, handles>>
      /\ flags' = [flags EXCEPT ![top] = "LINKED"] /\ dbgmap' = Append(dbgmap, top)
  BY DEF Relocate, notify_gdb_of_load, fileVars, poolVars
<1>3. \A u \in Slot : flags'[u] = IF u = top THEN "LINKED" ELSE flags[u]
  BY <1>1, <1>2 DEF IInv, TypeOK
<1>4. Loaded' = Loaded /\ Linked' = Linked \cup {top} /\ top \notin Linked
  BY <1>1, <1>2, <1>3, RangeOfSeq DEF Loaded, Linked, IInv, TypeOK
<1>5. dbgmap' \in Seq(Slot) /\ DebugMapExact'
  BY <1>1, <1>2, <1>4, AppendList DEF IInv, TypeOK, DebugMapExact
<1>6. TypeOK'
  BY <1>1, <1>2, <1>5 DEF IInv, TypeOK, Location, Opening
<1>7. StackShape'
  <2>1. \A k \in 1..Len(stack) : k < Len(stack) => stack[k].si # top /\ stack[k].si \in Slot
    BY <1>1, StackElems DEF IInv, StackShape
  <2>2. \A k \in 1..Len(stack) : EntriesMatch(stack[k])' <=> EntriesMatch(stack[k])
    BY <1>2 DEF EntriesMatch, Needs
  <2>3. \A k \in 1..Len(stack) : Len(Needs(stack[k].si))' = Len(Needs(stack[k].si))
    BY <1>2 DEF Needs
  <2>4. ASSUME NEW k \in 1..Len(stack)
        PROVE  /\ stack[k].si \in Loaded /\ stack[k].si # LibdlInfo
               /\ EntriesMatch(stack[k])
               /\ k < Len(stack) => flags[stack[k].si] = "none" /\ stack[k].d <= Len(Needs(stack[k].si))
               /\ stack[k].fn # "unload"
    BY <1>1 DEF IInv, StackShape
  <2>5. \A k \in 1..Len(stack) : k < Len(stack) => flags'[stack[k].si] = "none"
    BY <1>3, <2>1, <2>4
  <2>6. \A j, k \in 1..Len(stack) : stack[j].si = stack[k].si => j = k
    BY DEF IInv, StackShape
  <2> QED BY <1>2, <1>4, <2>2, <2>3, <2>4, <2>5, <2>6 DEF StackShape
<1>8. ControlShape'
  BY <1>1, <1>2, <1>3 DEF IInv, ControlShape, Opening, Closing, InLink, InUnload, AtRest, Top, Needs
<1>9. PoolConserved'
  BY <1>2, <1>4 DEF IInv, PoolConserved
<1>10. RefcountAccounts'
  BY <1>1, <1>2 DEF IInv, RefcountAccounts, Edges, Unloading, GivenUp
<1>11. ReferencedLinked' /\ FreeUnbound' /\ EntriesWithin'
  BY <1>2, <1>4 DEF IInv, ReferencedLinked, FreeUnbound, EntriesWithin, Needs
<1>12. LinkedBound'
  <2>1. top \in Active' /\ Active' = Active
    BY <1>1, <1>2 DEF Active
  <2> QED BY <1>2, <1>4, <2>1 DEF IInv, LinkedBound, Needs
<1>13. LibdlFixed' /\ SoValid'
  BY <1>1, <1>2, <1>3, SizesAssumption DEF IInv, LibdlFixed, SoValid, Slot, LibdlInfo
<1> QED BY <1>5, <1>6, <1>7, <1>8, <1>9, <1>10, <1>11, <1>12, <1>13 DEF IInv

\* The constructors have returned, so does link_image.
LEMMA ConstructorsDoneInv == IInv /\ ConstructorsDone => IInv'
<1> SUFFICES ASSUME IInv, ConstructorsDone PROVE IInv'
  OBVIOUS
<1> DEFINE top == Top.si
<1>1. /\ stack # <<>> /\ top \in Loaded /\ top # LibdlInfo /\ top \in Slot
      /\ flags[top] = "LINKED" /\ pc = "init" /\ pc \in Opening
      /\ Top.fn = "link" /\ Top.d > Len(Needs(top)) /\ EntriesMatch(Top)
  BY TopFacts DEF IInv, ControlShape, InLink, Opening, ConstructorsDone
<1>2. /\ UNCHANGED <<needed, solist, freelist, socount, soname, flags, refcount, dyn, base, dbgmap, mem,
                     dl_lock, want, handles>>
      /\ inited' = [inited EXCEPT ![top] = soname[top] # Libc] /\ Pop
      /\ so' = top /\ pc' = IF Len(stack) - 1 = 0 THEN "opened" ELSE "needed"
  BY DEF ConstructorsDone, FindReturns, fileVars, poolVars
<1>3. stack' \in Seq(Activation) /\ Active = Active' \cup {top}
  BY <1>1, <1>2, PopShape DEF IInv
<1>4. StackShape'
  BY <1>1, <1>2, PopStackShape DEF Loaded
<1>5. ControlShape'
  BY <1>1, <1>2, FindReturnsControl
<1>6. TypeOK'
  BY <1>1, <1>2, <1>3 DEF IInv, TypeOK, Location, Opening
<1>7. Linked' = Linked /\ Loaded' = Loaded /\ PoolConserved'
  BY <1>2 DEF IInv, PoolConserved, Loaded, Linked
<1>8. RefcountAccounts'
  <2>1. pc' \in Opening
    BY <1>2 DEF Opening
  <2>2. \A s \in Slot : ~Unloading(s)' /\ ~GivenUp(s)' /\ Edges(s)' = Edges(s)
    BY <1>2, <1>5, <2>1 DEF Unloading, GivenUp, Edges, ControlShape, Opening
  <2>3. \A s \in Slot : refcount[s] = Cardinality(Edges(s)) + handles[s]
    BY <1>1, OpeningCounts
  <2>4. \A s \in Slot : Cardinality(Edges(s)) \in Nat /\ handles[s] \in Nat
    BY EdgesFinite DEF IInv, TypeOK
  <2> QED BY <1>2, <2>2, <2>3, <2>4 DEF RefcountAccounts
<1>9. ReferencedLinked' /\ DebugMapExact' /\ FreeUnbound' /\ EntriesWithin' /\ LibdlFixed'
  BY <1>2, <1>7 DEF IInv, ReferencedLinked, DebugMapExact, FreeUnbound, EntriesWithin, LibdlFixed, Needs
<1>10. LinkedBound'
  <2>1. \A i \in 1..Len(Needs(top)) : dyn[top][i] # NULL
    <3>1. \A i \in 1..Len(Needs(top)) : i \in Entry /\ i < Top.d
      <4>1. \A i \in 1..Len(Needs(top)) : i \in Entry /\ Len(Needs(top)) \in Nat
        BY <1>1, NeededLib DEF IInv
      <4>2. Top.d \in Int
        BY <1>1, TopFacts DEF IInv, Activation
      <4> QED BY <1>1, <4>1, <4>2
    <3> QED BY <1>1, <3>1 DEF EntriesMatch
  <2> QED BY <1>2, <1>3, <1>7, <2>1 DEF IInv, LinkedBound, Needs
<1>11. SoValid'
  BY <1>1, <1>2, <1>7 DEF SoValid, Linked
<1> QED BY <1>4, <1>5, <1>6, <1>7, <1>8, <1>9, <1>10, <1>11 DEF IInv

-----------------------------------------------------------------------------
(* Steps to the next DT_NEEDED entry.                                      *)

\* The innermost activation has bound, or dropped, one more entry.
LEMMA AdvanceStackShape ==
  ASSUME IInv, stack # <<>>, AdvanceD, NEW q \in Slot \cup {NULL},
         UNCHANGED <<needed, solist, soname, flags>>,
         Top.d <= Len(Needs(Top.si)),
         dyn' = [dyn EXCEPT ![Top.si][Top.d] = q],
         Top.fn = "link" <=> q # NULL,
         \A k \in 1..Len(stack) : stack[k].fn = "unload" => refcount'[stack[k].si] = refcount[stack[k].si]
  PROVE  /\ StackShape' /\ stack' \in Seq(Activation) /\ Active' = Active
         /\ Len(stack') = Len(stack) /\ stack' # <<>>
         /\ \A k \in 1..Len(stack') : stack'[k].si = stack[k].si /\ stack'[k].fn = stack[k].fn
         /\ Top.d \in Entry /\ Top'.si = Top.si
<1>1. /\ stack' \in Seq(Activation) /\ Len(stack') = Len(stack)
      /\ \A k \in 1..Len(stack) - 1 : stack'[k] = stack[k]
      /\ \A k \in 1..Len(stack) : stack'[k].si = stack[k].si /\ stack'[k].fn = stack[k].fn
      /\ stack'[Len(stack)].d = Top.d + 1 /\ stack' # <<>>
  BY AdvanceFacts DEF IInv
<1>2. /\ Len(stack) \in Nat \ {0} /\ Len(stack) \in 1..Len(stack) /\ Top = stack[Len(stack)]
      /\ Top.si \in Slot /\ Top \in Activation /\ EntriesMatch(Top)
  BY TopFacts DEF IInv
<1>3. /\ \A k \in 1..Len(stack) :
           /\ stack[k].si \in Loaded /\ stack[k].si # LibdlInfo /\ EntriesMatch(stack[k])
           /\ k < Len(stack) /\ stack[k].fn = "link" =>
                flags[stack[k].si] = "none" /\ stack[k].d <= Len(Needs(stack[k].si))
           /\ stack[k].fn = "unload" => flags[stack[k].si] = "LINKED" /\ refcount[stack[k].si] = 1
      /\ \A j, k \in 1..Len(stack) : stack[j].si = stack[k].si => j = k
  BY DEF IInv, StackShape
<1>4. \A k \in 1..Len(stack) :
        k < Len(stack) => stack'[k] = stack[k] /\ stack[k].si # Top.si /\ stack[k].si \in Slot
  <2>1. \A n \in Nat \ {0} : \A k \in 1..n : k < n => k \in 1..n - 1 /\ k # n
    OBVIOUS
  <2>2. \A k \in 1..Len(stack) : k < Len(stack) => k \in 1..Len(stack) - 1 /\ k # Len(stack)
    BY <1>2, <2>1
  <2> QED BY <1>1, <1>2, <1>3, <2>2, StackElems DEF IInv
<1>5. Top.fn \in {"link", "unload"} /\ Top.d \in 1..Len(Needs(Top.si)) /\ Top.d \in Entry
      /\ Top.d \in Nat /\ Len(Needs(Top.si)) \in Nat
  <2>1. Top.fn \in {"link", "unload"} /\ Top.d \in Nat
    BY <1>2 DEF Activation
  <2>2. Len(Needs(Top.si)) \in Nat
    BY <1>2, GraphAssumption DEF IInv, TypeOK, Needs
  <2>3. Top.d \in 1..Len(Needs(Top.si))
    BY <1>2, <2>1, <2>2 DEF EntriesMatch
  <2> QED BY <1>2, <2>1, <2>2, <2>3, NeededLib DEF IInv
<1>6. \A a \in Slot, b \in Entry :
        dyn'[a][b] = IF a = Top.si /\ b = Top.d THEN q ELSE dyn[a][b]
  BY <1>2, <1>5 DEF IInv, TypeOK
<1>7. ASSUME NEW k \in 1..Len(stack) PROVE EntriesMatch(stack[k])'
  <2>1. CASE k < Len(stack)
    <3>1. stack'[k] = stack[k] /\ stack[k].si # Top.si /\ stack[k].si \in Slot /\ EntriesMatch(stack[k])
      BY <1>3, <1>4, <2>1
    <3>2. \A i \in Entry : dyn'[stack[k].si][i] = dyn[stack[k].si][i]
      BY <1>6, <3>1
    <3> QED BY <3>1, <3>2 DEF EntriesMatch, Needs
  <2>2. CASE k = Len(stack)
    <3> DEFINE g == stack'[k]
               m == Len(Needs(Top.si))
    <3>1. g.si = Top.si /\ g.fn = Top.fn /\ g.d = Top.d + 1
      BY <1>1, <1>2, <2>2
    <3>2. Len(needed'[soname'[Top.si]]) = m /\ m \in Nat
      BY <1>5 DEF Needs
    <3>3. Top.d + 1 \in 1..m + 1
      BY <1>5
    <3>4. ASSUME NEW i \in Entry
          PROVE dyn'[Top.si][i] # NULL <=>
                  IF Top.fn = "link" THEN i < Top.d + 1 ELSE Top.d + 1 <= i /\ i <= m
      <4>1. dyn[Top.si][i] # NULL <=> IF Top.fn = "link" THEN i < Top.d ELSE Top.d <= i /\ i <= m
        BY <1>2 DEF EntriesMatch
      <4>2. dyn'[Top.si][i] = IF i = Top.d THEN q ELSE dyn[Top.si][i]
        BY <1>2, <1>6
      <4>3. i \in Nat /\ Top.d \in Nat
        BY <1>5 DEF Entry
      <4>4. CASE Top.fn = "link"
        BY <4>1, <4>2, <4>3, <4>4
      <4>5. CASE Top.fn # "link"
        BY <4>1, <4>2, <4>3, <4>5
      <4> QED BY <4>4, <4>5
    <3> HIDE DEF g, m
    <3>5. g.d \in 1..Len(needed'[soname'[g.si]]) + 1
      BY <3>1, <3>2, <3>3
    <3>6. \A i \in Entry :
            dyn'[g.si][i] # NULL <=>
              IF g.fn = "link" THEN i < g.d ELSE g.d <= i /\ i <= Len(needed'[soname'[g.si]])
      BY <3>1, <3>2, <3>4
    <3> QED BY <3>5, <3>6 DEF EntriesMatch, Needs, g
  <2>3. \A n \in Nat \ {0} : \A j \in 1..n : j < n \/ j = n
    OBVIOUS
  <2> QED BY <1>2, <2>1, <2>2, <2>3
<1>8. StackShape'
  <2>1. ASSUME NEW k \in 1..Len(stack)
        PROVE  /\ stack'[k].si \in Loaded' /\ stack'[k].si # LibdlInfo
               /\ k < Len(stack') /\ stack'[k].fn = "link" =>
                    flags'[stack'[k].si] = "none" /\ stack'[k].d <= Len(Needs(stack[k].si)')
               /\ stack'[k].fn = "unload" =>
                    flags'[stack'[k].si] = "LINKED" /\ refcount'[stack'[k].si] = 1
    BY <1>1, <1>3, <1>4 DEF Loaded, Needs
  <2> QED BY <1>1, <1>3, <1>7, <2>1 DEF StackShape
<1>9. Active' = Active
  BY <1>1 DEF Active
<1>10. Top'.si = Top.si
  BY <1>1, <1>2 DEF Top
<1> QED BY <1>1, <1>5, <1>8, <1>9, <1>10

\* A DT_NEEDED entry is bound and its reference counted.
LEMMA NeedBoundInv == IInv /\ NeedBound => IInv'
<1> SUFFICES ASSUME IInv, NeedBound PROVE IInv'
  OBVIOUS
<1>1. pc = "needed" /\ pc' = "need" /\ so # NULL /\ so \in Linked /\ so \in Slot
  BY RangeOfSeq DEF NeedBound, IInv, SoValid, Linked, Loaded, TypeOK
<1>2. PICK q \in Slot : q = so
  BY <1>1
<1>3. /\ q # NULL /\ q \in Linked /\ dyn' = [dyn EXCEPT ![Top.si][Top.d] = q]
      /\ refcount' = [refcount EXCEPT ![q] = @ + 1] /\ AdvanceD
      /\ UNCHANGED <<needed, solist, freelist, socount, soname, flags, base, inited, dbgmap, mem,
                     dl_lock, want, so, handles>>
  BY <1>1, <1>2 DEF NeedBound, fileVars, poolVars
<1>4. /\ stack # <<>> \/ stack = <<>>
      /\ \A k \in 1..Len(stack) : stack[k].fn = "link"
  BY <1>1 DEF IInv, ControlShape, Opening
<1>5. stack # <<>>
  BY <1>1 DEF IInv, ControlShape, InLink
<1>6. /\ Top.si \in Slot /\ Top.si \in Loaded /\ Top.fn = "link" /\ flags[Top.si] = "none"
      /\ Top.d <= Len(Needs(Top.si)) /\ EntriesMatch(Top) /\ Top \in Activation
  BY <1>1, <1>4, <1>5, TopFacts DEF IInv, ControlShape, Opening
<1>7. /\ StackShape' /\ stack' \in Seq(Activation) /\ Active' = Active
      /\ stack' # <<>> /\ Top.d \in Entry /\ Top'.si = Top.si
      /\ \A k \in 1..Len(stack') : stack'[k].fn = "link"
  <2>1. \A k \in 1..Len(stack) : stack[k].fn = "unload" => refcount'[stack[k].si] = refcount[stack[k].si]
    BY <1>4
  <2>2. Top.fn = "link" <=> q # NULL
    BY <1>3, <1>6
  <2>3. /\ StackShape' /\ stack' \in Seq(Activation) /\ Active' = Active
        /\ Len(stack') = Len(stack) /\ stack' # <<>> /\ Top.d \in Entry /\ Top'.si = Top.si
        /\ \A k \in 1..Len(stack') : stack'[k].si = stack[k].si /\ stack'[k].fn = stack[k].fn
    BY <1>3, <1>5, <1>6, <2>1, <2>2, AdvanceStackShape
  <2> QED BY <1>4, <2>3
<1>8. Loaded' = Loaded /\ Linked' = Linked /\ PoolConserved'
  BY <1>3 DEF IInv, PoolConserved, Loaded, Linked
<1>9. PICK p \in Slot, i \in Entry : p = Top.si /\ i = Top.d
  BY <1>6, <1>7
<1>10. /\ dyn[p][i] = NULL
       /\ dyn' = [dyn EXCEPT ![p][i] = q]
  <2>1. i < i <=> FALSE
    BY DEF Entry
  <2> QED BY <1>3, <1>6, <1>9, <2>1 DEF EntriesMatch
<1>11. /\ Cardinality(Edges(q)') = Cardinality(Edges(q)) + 1
       /\ \A s \in Slot : s # q => Edges(s)' = Edges(s)
  BY <1>10, BindEdge DEF IInv
<1>12. \A s \in Slot : refcount'[s] = IF s = q THEN refcount[s] + 1 ELSE refcount[s]
  BY <1>3 DEF IInv, TypeOK
<1>13. \A a \in Slot, b \in Entry : dyn'[a][b] = IF a = p /\ b = i THEN q ELSE dyn[a][b]
  BY <1>10 DEF IInv, TypeOK
<1>14. TypeOK'
  <2>1. dyn' \in [Slot -> [Entry -> Slot \cup {NULL}]]
    <3>1. dyn \in [Slot -> [Entry -> Slot \cup {NULL}]]
      BY DEF IInv, TypeOK
    <3>2. [dyn[p] EXCEPT ![i] = q] \in [Entry -> Slot \cup {NULL}]
      BY <3>1
    <3> QED BY <1>10, <3>1, <3>2
  <2>2. refcount' \in [Slot -> Nat]
    BY <1>3 DEF IInv, TypeOK
  <2> QED BY <1>1, <1>3, <1>7, <2>1, <2>2 DEF IInv, TypeOK, Location, Opening
<1>15. ControlShape'
  BY <1>1, <1>3, <1>6, <1>7 DEF ControlShape, Opening, Closing, InLink, InUnload, AtRest
<1>16. RefcountAccounts'
  <2>1. \A s \in Slot : ~Unloading(s)' /\ ~GivenUp(s)'
    BY <1>1, <1>7 DEF Unloading, GivenUp
  <2>2. \A s \in Slot : refcount[s] = Cardinality(Edges(s)) + handles[s]
    BY <1>1, OpeningCounts DEF Opening
  <2>3. \A s \in Slot : Cardinality(Edges(s)) \in Nat /\ handles[s] \in Nat
    BY EdgesFinite DEF IInv, TypeOK
  <2>4. \A s \in Slot : refcount'[s] = Cardinality(Edges(s)') + handles'[s]
    BY <1>3, <1>11, <1>12, <2>2, <2>3
  <2>5. \A s \in Slot : Cardinality(Edges(s)') \in Nat
    BY <1>11, <2>3
  <2> QED BY <1>3, <2>1, <2>3, <2>4, <2>5 DEF RefcountAccounts
<1>17. ReferencedLinked'
  BY <1>3, <1>8, <1>12 DEF IInv, ReferencedLinked
<1>18. DebugMapExact' /\ LibdlFixed'
  BY <1>3, <1>8 DEF IInv, DebugMapExact, LibdlFixed
<1>19. FreeUnbound'
  <2>1. \A s \in Slot \ Loaded : dyn'[s] = dyn[s]
    BY <1>3, <1>6 DEF IInv, TypeOK
  <2> QED BY <1>8, <2>1 DEF IInv, FreeUnbound, Unbound
<1>20. LinkedBound'
  <2>1. p \notin Linked
    BY <1>6, <1>9 DEF Linked
  <2>2. \A s \in Linked \ Active : s \in Slot /\ Needs(s)' = Needs(s)
    BY <1>3, RangeOfSeq DEF Linked, Loaded, Needs, IInv, TypeOK
  <2>3. \A s \in Linked \ Active : \A j \in 1..Len(Needs(s)) : dyn'[s][j] = dyn[s][j]
    BY <1>3, <1>9, <2>1, <2>2 DEF IInv, TypeOK
  <2> QED BY <1>7, <1>8, <2>2, <2>3 DEF IInv, LinkedBound
<1>21. EntriesWithin'
  BY <1>3, <1>6, <1>9, <1>13 DEF IInv, EntriesWithin, Needs
<1>22. SoValid'
  BY <1>1, <1>3 DEF SoValid
<1> QED BY <1>7, <1>8, <1>14, <1>15, <1>16, <1>17, <1>18, <1>19, <1>20, <1>21, <1>22 DEF IInv

\* The handle android_dlopen returns is counted.
LEMMA DlopenReturnsInv == IInv /\ DlopenReturns => IInv'
<1> SUFFICES ASSUME IInv, DlopenReturns PROVE IInv'
  OBVIOUS
<1>1. /\ pc = "opened" /\ pc' = "idle" /\ stack = <<>> /\ Len(stack) = 0
      /\ UNCHANGED <<needed, solist, freelist, socount, soname, flags, dyn, base, inited, dbgmap, mem, stack>>
      /\ want' = NULL /\ so' = NULL /\ dl_lock' = NoThread
  BY EmptySeq DEF DlopenReturns, Unlock, fileVars, poolVars, IInv, ControlShape, AtRest
<1>2. CASE so = NULL
  <2>1. UNCHANGED <<refcount, handles>>
    BY <1>2 DEF DlopenReturns
  <2>2. TypeOK'
    BY <1>1, <2>1 DEF IInv, TypeOK, Location
  <2>3. ControlShape' /\ SoValid' /\ \A s \in Slot : GivenUp(s)' <=> GivenUp(s)
    BY <1>1 DEF ControlShape, SoValid, GivenUp, Opening, Closing, InLink, InUnload, AtRest
  <2> QED BY <1>1, <2>1, <2>2, <2>3, QuietStep
<1>3. CASE so # NULL
  <2>1. so \in Linked /\ so \in Slot
    BY <1>1, <1>3 DEF IInv, SoValid, TypeOK
  <2>2. /\ refcount' = [refcount EXCEPT ![so] = @ + 1] /\ handles' = [handles EXCEPT ![so] = @ + 1]
    BY <1>3 DEF DlopenReturns
  <2>3. TypeOK'
    <3>1. refcount' \in [Slot -> Nat] /\ handles' \in [Slot -> Nat]
      BY <2>1, <2>2 DEF IInv, TypeOK
    <3> QED BY <1>1, <3>1 DEF IInv, TypeOK, Location
  <2>4. \A s \in Slot : /\ refcount'[s] = IF s = so THEN refcount[s] + 1 ELSE refcount[s]
                        /\ handles'[s] = IF s = so THEN handles[s] + 1 ELSE handles[s]
    BY <2>2 DEF IInv, TypeOK
  <2>5. ControlShape' /\ SoValid'
    BY <1>1 DEF ControlShape, SoValid, Opening, Closing, InLink, InUnload, AtRest
  <2>6. StackShape'
    BY <1>1 DEF StackShape
  <2>7. Loaded' = Loaded /\ Linked' = Linked /\ PoolConserved' /\ Active' = Active
    BY <1>1 DEF IInv, PoolConserved, Loaded, Linked, Active
  <2>8. RefcountAccounts'
    <3>1. \A s \in Slot : ~Unloading(s)' /\ ~GivenUp(s)' /\ Edges(s)' = Edges(s)
      BY <1>1 DEF Unloading, GivenUp, Edges
    <3>2. \A s \in Slot : refcount[s] = Cardinality(Edges(s)) + handles[s]
      BY <1>1, OpeningCounts DEF Opening
    <3>3. \A s \in Slot : Cardinality(Edges(s)) \in Nat /\ handles[s] \in Nat
      BY EdgesFinite DEF IInv, TypeOK
    <3>4. \A s \in Slot : refcount'[s] = Cardinality(Edges(s)) + handles'[s] /\ handles'[s] \in Nat
      BY <2>4, <3>2, <3>3
    <3> QED BY <3>1, <3>3, <3>4 DEF RefcountAccounts
  <2>9. ReferencedLinked'
    BY <2>1, <2>4, <2>7 DEF IInv, ReferencedLinked
  <2>10. DebugMapExact' /\ FreeUnbound' /\ LinkedBound' /\ EntriesWithin' /\ LibdlFixed'
    BY <1>1, <2>7 DEF IInv, DebugMapExact, FreeUnbound, LinkedBound, EntriesWithin, LibdlFixed, Needs
  <2> QED BY <2>3, <2>5, <2>6, <2>7, <2>8, <2>9, <2>10 DEF IInv
<1> QED BY <1>2, <1>3

-----------------------------------------------------------------------------
(* Steps of android_dlclose.                                               *)

\* While the control is in unload_library every activation is one of it.
LEMMA ClosingCounts ==
  ASSUME IInv, pc \in Closing, NEW s \in Slot
  PROVE  /\ Unloading(s) <=> s \in Active
         /\ refcount[s] = Cardinality(Edges(s)) + handles[s]
                            + (IF s \in Active THEN 1 ELSE 0) + (IF GivenUp(s) THEN 1 ELSE 0)
         /\ Cardinality(Edges(s)) \in Nat /\ handles[s] \in Nat
<1>1. Unloading(s) <=> s \in Active
  BY DEF IInv, ControlShape, Unloading, Active
<1>2. Cardinality(Edges(s)) \in Nat /\ handles[s] \in Nat
  BY EdgesFinite DEF IInv, TypeOK
<1> QED BY <1>1, <1>2 DEF IInv, RefcountAccounts

\* A handle is passed to unload_library.
LEMMA DlcloseInv ==
  ASSUME IInv, NEW t \in Thread, NEW s \in Slot, Dlclose(t, s)
  PROVE  IInv'
<1>1. /\ pc = "idle" /\ pc' = "unload" /\ stack = <<>> /\ Len(stack) = 0 /\ so' = s
      /\ handles[s] > 0 /\ handles' = [handles EXCEPT ![s] = @ - 1] /\ dl_lock' = t
      /\ UNCHANGED <<needed, solist, freelist, socount, soname, flags, refcount, dyn, base, inited,
                     dbgmap, mem, stack, want>>
  BY EmptySeq DEF Dlclose, fileVars, poolVars, infoVars, IInv, ControlShape, AtRest
<1>2. \A u \in Slot : handles'[u] = IF u = s THEN handles[u] - 1 ELSE handles[u]
  BY <1>1 DEF IInv, TypeOK
<1>3. TypeOK'
  <2>1. handles' \in [Slot -> Nat]
    BY <1>1 DEF IInv, TypeOK
  <2> QED BY <1>1, <2>1 DEF IInv, TypeOK, Location, Closing
<1>4. ControlShape' /\ SoValid' /\ StackShape'
  BY <1>1 DEF ControlShape, SoValid, StackShape, Opening, Closing, InLink, InUnload, AtRest
<1>5. Loaded' = Loaded /\ Linked' = Linked /\ PoolConserved' /\ Active' = Active
  BY <1>1 DEF IInv, PoolConserved, Loaded, Linked, Active
<1>6. RefcountAccounts'
  <2>1. \A u \in Slot : ~Unloading(u)' /\ (GivenUp(u)' <=> u = s) /\ Edges(u)' = Edges(u)
    BY <1>1 DEF Unloading, GivenUp, Edges
  <2>2. \A u \in Slot : refcount[u] = Cardinality(Edges(u)) + handles[u]
    BY <1>1, OpeningCounts
  <2>3. \A u \in Slot : Cardinality(Edges(u)) \in Nat /\ handles[u] \in Nat
    BY EdgesFinite DEF IInv, TypeOK
  <2>4. \A u \in Slot :
          refcount'[u] = Cardinality(Edges(u)) + handles'[u] + (IF u = s THEN 1 ELSE 0)
    BY <1>1, <1>2, <2>2, <2>3
  <2>5. handles' \in [Slot -> Nat]
    BY <1>3 DEF TypeOK
  <2> QED BY <2>1, <2>3, <2>4, <2>5 DEF RefcountAccounts
<1>7. ReferencedLinked' /\ DebugMapExact' /\ FreeUnbound' /\ LinkedBound' /\ EntriesWithin' /\ LibdlFixed'
  BY <1>1, <1>5 DEF IInv, ReferencedLinked, DebugMapExact, FreeUnbound, LinkedBound, EntriesWithin,
                    LibdlFixed, Needs
<1> QED BY <1>3, <1>4, <1>5, <1>6, <1>7 DEF IInv

\* unload_library gives one of several references up.
LEMMA UnreferenceInv == IInv /\ Unreference => IInv'
<1> SUFFICES ASSUME IInv, Unreference PROVE IInv'
  OBVIOUS
<1>1. /\ pc = "unload" /\ pc \in Closing /\ so \in Slot /\ refcount[so] # 1
      /\ UNCHANGED <<needed, solist, freelist, socount, soname, flags, dyn, base, inited, dbgmap, mem,
                     dl_lock, stack, want, so, handles>>
      /\ refcount' = [refcount EXCEPT ![so] = @ - 1]
  BY DEF Unreference, fileVars, poolVars, IInv, SoValid, Closing
<1>2. pc' = IF stack = <<>> THEN "closed" ELSE "drop"
  BY <1>1, EmptySeq DEF Unreference, UnloadReturns, IInv, TypeOK
<1>3. GivenUp(so) /\ refcount[so] \in Nat /\ refcount[so] > 1
  <2>1. GivenUp(so)
    BY <1>1 DEF GivenUp
  <2>2. PICK q \in Slot : q = so
    BY <1>1
  <2>3. refcount[q] = Cardinality(Edges(q)) + handles[q]
                        + (IF q \in Active THEN 1 ELSE 0) + (IF GivenUp(q) THEN 1 ELSE 0)
        /\ Cardinality(Edges(q)) \in Nat /\ handles[q] \in Nat
    BY <1>1, ClosingCounts
  <2>4. GivenUp(q) /\ refcount[q] # 1
    BY <1>1, <2>1, <2>2
  <2>5. refcount[q] \in Nat /\ refcount[q] > 1
    BY <2>3, <2>4
  <2> QED BY <2>1, <2>2, <2>5
<1>4. \A s \in Slot : refcount'[s] = IF s = so THEN refcount[s] - 1 ELSE refcount[s]
  BY <1>1 DEF IInv, TypeOK
<1>5. TypeOK'
  <2>1. refcount' \in [Slot -> Nat]
    BY <1>1, <1>3 DEF IInv, TypeOK
  <2> QED BY <1>1, <1>2, <2>1 DEF IInv, TypeOK, Location, Closing
<1>6. Loaded' = Loaded /\ Linked' = Linked /\ PoolConserved' /\ Active' = Active
  BY <1>1 DEF IInv, PoolConserved, Loaded, Linked, Active
<1>7. StackShape'
  <2>1. \A k \in 1..Len(stack) : stack[k].fn = "unload" => refcount'[stack[k].si] = refcount[stack[k].si]
    <3>1. \A k \in 1..Len(stack) : stack[k].fn = "unload" => stack[k].si # so /\ stack[k].si \in Slot
      BY <1>1, StackElems DEF IInv, StackShape
    <3> QED BY <1>4, <3>1
  <2>2. \A k \in 1..Len(stack) : EntriesMatch(stack[k])' <=> EntriesMatch(stack[k])
    BY <1>1 DEF EntriesMatch, Needs
  <2> QED BY <1>1, <1>6, <2>1, <2>2 DEF IInv, StackShape, Needs
<1>8. ControlShape' /\ SoValid'
  BY <1>1, <1>2 DEF IInv, ControlShape, SoValid, Opening, Closing, InLink, InUnload, AtRest
<1>9. RefcountAccounts'
  <2> SUFFICES ASSUME NEW s \in Slot
               PROVE  refcount'[s] = Cardinality(Edges(s)') + handles'[s]
                        + (IF Unloading(s)' THEN 1 ELSE 0) + (IF GivenUp(s)' THEN 1 ELSE 0)
    BY DEF RefcountAccounts
  <2>1. /\ Edges(s)' = Edges(s) /\ (Unloading(s)' <=> Unloading(s)) /\ ~GivenUp(s)'
        /\ (GivenUp(s) <=> s = so) /\ handles'[s] = handles[s]
    BY <1>1, <1>2 DEF Edges, Unloading, GivenUp
  <2>2. /\ (Unloading(s) <=> s \in Active)
        /\ refcount[s] = Cardinality(Edges(s)) + handles[s]
                           + (IF s \in Active THEN 1 ELSE 0) + (IF GivenUp(s) THEN 1 ELSE 0)
        /\ Cardinality(Edges(s)) \in Nat /\ handles[s] \in Nat
    BY <1>1, ClosingCounts
  <2>3. refcount'[s] = IF GivenUp(s) THEN refcount[s] - 1 ELSE refcount[s]
    BY <1>4, <2>1
  <2>4. refcount'[s] = Cardinality(Edges(s)) + handles[s] + (IF s \in Active THEN 1 ELSE 0)
    BY <2>2, <2>3
  <2> QED BY <2>1, <2>2, <2>4
<1>10. ReferencedLinked'
  BY <1>1, <1>3, <1>4, <1>6 DEF IInv, ReferencedLinked
<1>11. DebugMapExact' /\ FreeUnbound' /\ LinkedBound' /\ EntriesWithin' /\ LibdlFixed'
  BY <1>1, <1>6 DEF IInv, DebugMapExact, FreeUnbound, LinkedBound, EntriesWithin, LibdlFixed, Needs
<1> QED BY <1>5, <1>6, <1>7, <1>8, <1>9, <1>10, <1>11 DEF IInv

\* unload_library gives the last one up and begins to unload.
LEMMA UnloadLastInv == IInv /\ UnloadLast => IInv'
<1> SUFFICES ASSUME IInv, UnloadLast PROVE IInv'
  OBVIOUS
<1>1. /\ pc = "unload" /\ pc \in Closing /\ pc' = "fini" /\ so \in Slot /\ refcount[so] = 1 /\ so # LibdlInfo
      /\ UNCHANGED <<needed, solist, freelist, socount, soname, flags, refcount, dyn, base, inited,
                     dbgmap, mem, dl_lock, want, so, handles>>
      /\ Push([fn |-> "unload", si |-> so, d |-> 1])
  BY DEF UnloadLast, fileVars, poolVars, infoVars, IInv, SoValid, Closing
<1>2. PICK q \in Slot : q = so
  BY <1>1
<1> DEFINE f == [fn |-> "unload", si |-> q, d |-> 1]
<1>3. f \in Activation /\ f.si = q /\ f.fn = "unload" /\ f.d = 1 /\ Push(f)
  BY <1>1, <1>2 DEF Activation
<1>4. /\ q \notin Active /\ q \in Linked /\ q \in Loaded /\ flags[q] = "LINKED"
      /\ Cardinality(Edges(q)) = 0 /\ handles[q] = 0
  <2>1. /\ refcount[q] = Cardinality(Edges(q)) + handles[q]
                           + (IF q \in Active THEN 1 ELSE 0) + (IF GivenUp(q) THEN 1 ELSE 0)
        /\ Cardinality(Edges(q)) \in Nat /\ handles[q] \in Nat
    BY <1>1, ClosingCounts
  <2>2. GivenUp(q) /\ refcount[q] = 1
    BY <1>1, <1>2 DEF GivenUp
  <2>3. q \in Linked
    BY <2>2 DEF IInv, ReferencedLinked
  <2>4. q \notin Active /\ Cardinality(Edges(q)) = 0 /\ handles[q] = 0
    BY <2>1, <2>2
  <2> QED BY <2>3, <2>4 DEF Linked
<1> HIDE DEF f
<1>5. EntriesMatch(f)'
  <2>1. Len(Needs(q)) \in Nat
    BY GraphAssumption DEF IInv, TypeOK, Needs
  <2>2. 1 \in 1..Len(Needs(q)) + 1
    BY <2>1
  <2>3. ASSUME NEW i \in Entry PROVE dyn[q][i] # NULL <=> 1 <= i /\ i <= Len(Needs(q))
    <3>1. 1 <= i /\ i \in Nat
      BY DEF Entry
    <3>2. dyn[q][i] # NULL => i <= Len(Needs(q))
      BY DEF IInv, EntriesWithin
    <3>3. i \in 1..Len(Needs(q)) => dyn[q][i] # NULL
      BY <1>4 DEF IInv, LinkedBound
    <3> QED BY <2>1, <3>1, <3>2, <3>3
  <2> QED BY <1>1, <1>3, <2>2, <2>3 DEF EntriesMatch, Needs
<1>6. /\ StackShape' /\ stack' \in Seq(Activation) /\ stack' # <<>> /\ Top' = f
      /\ Active' = Active \cup {q}
      /\ \A k \in 1..Len(stack') : stack'[k] = f \/ (k \in 1..Len(stack) /\ stack'[k] = stack[k])
  <2>1. stack # <<>> => Top.fn = "unload"
    BY <1>1, TopFacts DEF IInv, ControlShape
  <2>2. f.si \notin Active /\ f.si \in Loaded' /\ f.si # LibdlInfo /\ Loaded \subseteq Loaded'
    BY <1>1, <1>2, <1>3, <1>4 DEF Loaded
  <2>3. flags'[f.si] = "LINKED" /\ refcount'[f.si] = 1
    BY <1>1, <1>2, <1>3, <1>4
  <2> QED BY <1>1, <1>3, <1>5, <2>1, <2>2, <2>3, PushStackShape
<1>7. \A k \in 1..Len(stack') : stack'[k].fn = "unload"
  BY <1>1, <1>3, <1>6 DEF IInv, ControlShape
<1>8. TypeOK'
  BY <1>1, <1>6 DEF IInv, TypeOK, Location, Closing
<1>9. ControlShape' /\ SoValid'
  BY <1>1, <1>6, <1>7 DEF ControlShape, SoValid, Opening, Closing, InLink, InUnload, AtRest
<1>10. Loaded' = Loaded /\ Linked' = Linked /\ PoolConserved'
  BY <1>1 DEF IInv, PoolConserved, Loaded, Linked
<1>11. RefcountAccounts'
  <2> SUFFICES ASSUME NEW s \in Slot
               PROVE  refcount'[s] = Cardinality(Edges(s)') + handles'[s]
                        + (IF Unloading(s)' THEN 1 ELSE 0) + (IF GivenUp(s)' THEN 1 ELSE 0)
    BY DEF RefcountAccounts
  <2>1. /\ Edges(s)' = Edges(s) /\ ~GivenUp(s)' /\ (GivenUp(s) <=> s = q) /\ handles'[s] = handles[s]
        /\ refcount'[s] = refcount[s]
    BY <1>1, <1>2 DEF Edges, GivenUp
  <2>2. Unloading(s)' <=> s \in Active'
    BY <1>7 DEF Unloading, Active
  <2>3. /\ refcount[s] = Cardinality(Edges(s)) + handles[s]
                           + (IF s \in Active THEN 1 ELSE 0) + (IF GivenUp(s) THEN 1 ELSE 0)
        /\ Cardinality(Edges(s)) \in Nat /\ handles[s] \in Nat
    BY <1>1, ClosingCounts
  <2>4. s \in Active' <=> s \in Active \/ s = q
    BY <1>6
  <2> QED BY <1>4, <2>1, <2>2, <2>3, <2>4
<1>12. ReferencedLinked' /\ DebugMapExact' /\ FreeUnbound' /\ LinkedBound' /\ EntriesWithin' /\ LibdlFixed'
  BY <1>1, <1>6, <1>10 DEF IInv, ReferencedLinked, DebugMapExact, FreeUnbound, LinkedBound, EntriesWithin,
                           LibdlFixed, Needs
<1> QED BY <1>6, <1>8, <1>9, <1>10, <1>11, <1>12 DEF IInv

\* A DT_NEEDED entry is cleared and what it named goes to unload_library.
LEMMA DropNextInv == IInv /\ DropNext => IInv'
<1> SUFFICES ASSUME IInv, DropNext PROVE IInv'
  OBVIOUS
<1>1. /\ pc = "drop" /\ pc \in Closing /\ pc' = "unload" /\ so' = dyn[Top.si][Top.d]
      /\ Top.d <= Len(Needs(Top.si)) /\ dyn' = [dyn EXCEPT ![Top.si][Top.d] = NULL] /\ AdvanceD
      /\ UNCHANGED <<needed, solist, freelist, socount, soname, flags, refcount, base, inited, dbgmap, mem,
                     dl_lock, want, handles>>
  BY DEF DropNext, fileVars, poolVars, Closing
<1>2. stack # <<>> /\ \A k \in 1..Len(stack) : stack[k].fn = "unload"
  BY <1>1 DEF IInv, ControlShape, InUnload
<1>3. /\ Top.si \in Slot /\ Top.si \in Loaded /\ Top.fn = "unload"
      /\ EntriesMatch(Top) /\ Top \in Activation /\ Top.si \in Active
  BY <1>2, TopFacts DEF IInv, Active
<1>4. /\ StackShape' /\ stack' \in Seq(Activation) /\ Active' = Active
      /\ stack' # <<>> /\ Top.d \in Entry
      /\ \A k \in 1..Len(stack') : stack'[k].fn = "unload"
  <2>1. Top.fn = "link" <=> NULL # NULL
    BY <1>3
  <2>2. \A k \in 1..Len(stack) : stack[k].fn = "unload" => refcount'[stack[k].si] = refcount[stack[k].si]
    BY <1>1
  <2>3. NULL \in Slot \cup {NULL}
    OBVIOUS
  <2>4. /\ StackShape' /\ stack' \in Seq(Activation) /\ Active' = Active
        /\ Len(stack') = Len(stack) /\ stack' # <<>> /\ Top.d \in Entry
        /\ \A k \in 1..Len(stack') : stack'[k].si = stack[k].si /\ stack'[k].fn = stack[k].fn
    BY <1>1, <1>2, <2>1, <2>2, <2>3, AdvanceStackShape
  <2> QED BY <1>2, <2>4
<1>5. PICK p \in Slot, i \in Entry : p = Top.si /\ i = Top.d
  BY <1>3, <1>4
<1>6. dyn[p][i] # NULL /\ dyn[p][i] \in Slot /\ dyn' = [dyn EXCEPT ![p][i] = NULL]
  <2>1. i <= i
    BY DEF Entry
  <2>2. dyn[p][i] \in Slot \cup {NULL}
    BY DEF IInv, TypeOK
  <2> QED BY <1>1, <1>3, <1>5, <2>1, <2>2 DEF EntriesMatch
<1>7. PICK q \in Slot : dyn[p][i] = q /\ so' = q
  BY <1>1, <1>5, <1>6
<1>8. /\ Cardinality(Edges(q)') = Cardinality(Edges(q)) - 1
      /\ \A s \in Slot : s # q => Edges(s)' = Edges(s)
  BY <1>6, <1>7, DropEdge DEF IInv
<1>9. /\ dyn' \in [Slot -> [Entry -> Slot \cup {NULL}]]
      /\ \A a \in Slot, b \in Entry : dyn'[a][b] = IF a = p /\ b = i THEN NULL ELSE dyn[a][b]
      /\ \A a \in Slot : a # p => dyn'[a] = dyn[a]
  <2>1. dyn \in [Slot -> [Entry -> Slot \cup {NULL}]]
    BY DEF IInv, TypeOK
  <2>2. [dyn[p] EXCEPT ![i] = NULL] \in [Entry -> Slot \cup {NULL}]
    BY <2>1
  <2> QED BY <1>6, <2>1, <2>2
<1>10. TypeOK'
  BY <1>1, <1>4, <1>7, <1>9 DEF IInv, TypeOK, Location, Closing
<1>11. ControlShape' /\ SoValid'
  BY <1>1, <1>4, <1>7 DEF ControlShape, SoValid, Opening, Closing, InLink, InUnload, AtRest
<1>12. Loaded' = Loaded /\ Linked' = Linked /\ PoolConserved'
  BY <1>1 DEF IInv, PoolConserved, Loaded, Linked
<1>13. RefcountAccounts'
  <2> SUFFICES ASSUME NEW s \in Slot
               PROVE  refcount'[s] = Cardinality(Edges(s)') + handles'[s]
                        + (IF Unloading(s)' THEN 1 ELSE 0) + (IF GivenUp(s)' THEN 1 ELSE 0)
    BY DEF RefcountAccounts
  <2>1. /\ ~GivenUp(s) /\ (GivenUp(s)' <=> s = q) /\ handles'[s] = handles[s]
        /\ refcount'[s] = refcount[s]
    BY <1>1, <1>7 DEF GivenUp
  <2>2. Unloading(s)' <=> s \in Active
    BY <1>4 DEF Unloading, Active
  <2>3. /\ refcount[s] = Cardinality(Edges(s)) + handles[s]
                           + (IF s \in Active THEN 1 ELSE 0) + (IF GivenUp(s) THEN 1 ELSE 0)
        /\ Cardinality(Edges(s)) \in Nat /\ handles[s] \in Nat
    BY <1>1, ClosingCounts
  <2>4. Cardinality(Edges(s)') = IF s = q THEN Cardinality(Edges(s)) - 1 ELSE Cardinality(Edges(s))
    BY <1>8
  <2> QED BY <2>1, <2>2, <2>3, <2>4
<1>14. ReferencedLinked' /\ DebugMapExact' /\ LibdlFixed'
  BY <1>1, <1>12 DEF IInv, ReferencedLinked, DebugMapExact, LibdlFixed
<1>15. FreeUnbound'
  BY <1>3, <1>5, <1>9, <1>12 DEF IInv, FreeUnbound, Unbound
<1>16. LinkedBound'
  <2>1. \A s \in Linked \ Active : s \in Slot /\ s # p /\ Needs(s)' = Needs(s)
    BY <1>1, <1>3, <1>5, RangeOfSeq DEF Linked, Loaded, Needs, IInv, TypeOK
  <2> QED BY <1>4, <1>9, <1>12, <2>1 DEF IInv, LinkedBound
<1>17. EntriesWithin'
  BY <1>1, <1>9 DEF IInv, EntriesWithin, Needs
<1> QED BY <1>4, <1>10, <1>11, <1>12, <1>13, <1>14, <1>15, <1>16, <1>17 DEF IInv

\* unload_library frees the soinfo, to which nobody refers any more.
LEMMA ReleaseInv == IInv /\ Release => IInv'
<1> SUFFICES ASSUME IInv, Release PROVE IInv'
  OBVIOUS
<1>1. /\ pc = "release" /\ pc \in Closing /\ free_info(Top.si) /\ Pop
      /\ dbgmap' = Unlink(dbgmap, Top.si) /\ refcount' = [refcount EXCEPT ![Top.si] = 0]
      /\ UNCHANGED <<needed, soname, flags, dyn, base, inited, dl_lock, want, so, handles>>
      /\ pc' = IF Len(stack) - 1 = 0 THEN "closed" ELSE "drop"
  BY DEF Release, notify_gdb_of_unload, UnloadReturns, fileVars, Closing
<1>2. /\ stack # <<>> /\ Top.si \in Loaded /\ Top.si # LibdlInfo /\ Top.si \in Slot
      /\ EntriesMatch(Top) /\ Top.d > Len(Needs(Top.si)) /\ Top \in Activation
      /\ Len(stack) \in 1..Len(stack) /\ Top = stack[Len(stack)]
      /\ \A k \in 1..Len(stack) : stack[k].fn = "unload"
  BY <1>1, TopFacts DEF IInv, ControlShape, InUnload
<1>3. PICK top \in Slot : top = Top.si
  BY <1>2
<1>4. flags[top] = "LINKED" /\ refcount[top] = 1 /\ top \in Linked /\ top \in Active
  BY <1>2, <1>3 DEF IInv, StackShape, Linked, Active
<1>5. Cardinality(Edges(top)) = 0 /\ handles[top] = 0 /\ \A s \in Slot : ~GivenUp(s)
  <2>1. \A s \in Slot : ~GivenUp(s)
    BY <1>1 DEF GivenUp
  <2>2. /\ refcount[top] = Cardinality(Edges(top)) + handles[top]
                             + (IF top \in Active THEN 1 ELSE 0) + (IF GivenUp(top) THEN 1 ELSE 0)
        /\ Cardinality(Edges(top)) \in Nat /\ handles[top] \in Nat
    BY <1>1, ClosingCounts
  <2> QED BY <1>4, <2>1, <2>2
<1>6. dyn[top] = Unbound
  <2>1. \A i \in Entry : dyn[top][i] = NULL
    <3>1. Top.fn = "unload" /\ Top.d \in Nat /\ Len(Needs(top)) \in Nat
      <4>1. Top.fn = "unload" /\ Top.d \in Nat
        BY <1>2 DEF Activation
      <4>2. Len(Needs(top)) \in Nat
        BY GraphAssumption DEF IInv, TypeOK, Needs
      <4> QED BY <4>1, <4>2
    <3>2. \A i \in Entry : i \in Nat /\ ~(Top.d <= i /\ i <= Len(Needs(top)))
      BY <1>2, <1>3, <3>1 DEF Entry
    <3> QED BY <1>2, <1>3, <3>1, <3>2 DEF EntriesMatch
  <2>2. dyn[top] \in [Entry -> Slot \cup {NULL}]
    BY DEF IInv, TypeOK
  <2> QED BY <2>1, <2>2 DEF Unbound
<1>7. /\ solist' \in Seq(Slot) /\ freelist' \in Seq(Slot) /\ socount' = socount
      /\ Loaded' = Loaded \ {top} /\ PoolConserved'
  <2>1. PICK s \in Loaded \ {LibdlInfo} : s = Top.si
    BY <1>2
  <2>2. free_info(s)
    BY <1>1, <2>1
  <2> QED BY <1>3, <2>1, <2>2, FreeFacts
<1>8. Linked' = Linked \ {top}
  BY <1>1, <1>7 DEF Linked
<1>9. dbgmap' \in Seq(Slot) /\ DebugMapExact'
  <2>1. /\ dbgmap \in Seq(Slot) /\ top \in Range(dbgmap) /\ IsInjective(dbgmap)
        /\ Range(dbgmap) = Linked \ {LibdlInfo}
    BY <1>2, <1>3, <1>4 DEF IInv, TypeOK, DebugMapExact
  <2>2. dbgmap' = Unlink(dbgmap, top)
    BY <1>1, <1>3
  <2> QED BY <1>8, <2>1, <2>2, UnlinkList DEF DebugMapExact
<1>10. /\ refcount' \in [Slot -> Nat]
       /\ \A s \in Slot : refcount'[s] = IF s = top THEN 0 ELSE refcount[s]
  BY <1>1, <1>3 DEF IInv, TypeOK
<1>11. /\ stack' \in Seq(Activation) /\ Active = Active' \cup {top} /\ top \notin Active'
       /\ \A k \in 1..Len(stack') : stack'[k].fn = "unload"
       /\ pc' = IF stack' = <<>> THEN "closed" ELSE "drop"
  BY <1>1, <1>2, <1>3, PopShape DEF IInv
<1>12. StackShape'
  BY <1>1, <1>2, <1>3, <1>7, <1>10, PopStackShape
<1>13. ControlShape' /\ SoValid'
  BY <1>11 DEF ControlShape, SoValid, Opening, Closing, InLink, InUnload, AtRest
<1>14. TypeOK'
  <2>1. mem' \in [Region -> Slot \cup {NULL}]
    BY DEF Release, munmap, IInv, TypeOK
  <2> QED BY <1>1, <1>7, <1>9, <1>10, <1>11, <2>1 DEF IInv, TypeOK, Location, Closing
<1>15. RefcountAccounts'
  <2> SUFFICES ASSUME NEW s \in Slot
               PROVE  refcount'[s] = Cardinality(Edges(s)') + handles'[s]
                        + (IF Unloading(s)' THEN 1 ELSE 0) + (IF GivenUp(s)' THEN 1 ELSE 0)
    BY DEF RefcountAccounts
  <2>1. Edges(s)' = Edges(s) /\ ~GivenUp(s)' /\ handles'[s] = handles[s]
    BY <1>1, <1>11 DEF Edges, GivenUp
  <2>2. Unloading(s)' <=> s \in Active'
    BY <1>11 DEF Unloading, Active
  <2>3. /\ refcount[s] = Cardinality(Edges(s)) + handles[s]
                           + (IF s \in Active THEN 1 ELSE 0) + (IF GivenUp(s) THEN 1 ELSE 0)
        /\ Cardinality(Edges(s)) \in Nat /\ handles[s] \in Nat
    BY <1>1, ClosingCounts
  <2>4. s \in Active' <=> s \in Active /\ s # top
    BY <1>11
  <2> QED BY <1>5, <1>10, <2>1, <2>2, <2>3, <2>4
<1>16. ReferencedLinked'
  BY <1>8, <1>10 DEF IInv, ReferencedLinked
<1>17. FreeUnbound'
  BY <1>1, <1>6, <1>7 DEF IInv, FreeUnbound, Unbound
<1>18. LinkedBound'
  BY <1>1, <1>8, <1>11 DEF IInv, LinkedBound, Needs
<1>19. EntriesWithin' /\ LibdlFixed'
  BY <1>1 DEF IInv, EntriesWithin, LibdlFixed, Needs
<1> QED BY <1>7, <1>9, <1>12, <1>13, <1>14, <1>15, <1>16, <1>17, <1>18, <1>19 DEF IInv

-----------------------------------------------------------------------------
(* The invariant holds.                                                    *)

LEMMA InitInv == Init => IInv
<1> SUFFICES ASSUME Init PROVE IInv
  OBVIOUS
<1>1. LibdlInfo \in Slot /\ Libdl \in Lib /\ Len(stack) = 0 /\ stack = <<>>
  BY SizesAssumption, LibAssumption DEF Init, Slot, LibdlInfo
<1>2. solist \in Seq(Slot) /\ Loaded = {LibdlInfo} /\ IsInjective(solist)
      /\ solist # <<>> /\ solist[1] = LibdlInfo
  <2>1. /\ <<LibdlInfo>> \in Seq(Slot) /\ DOMAIN <<LibdlInfo>> = {1} /\ <<LibdlInfo>>[1] = LibdlInfo
        /\ <<LibdlInfo>> # <<>>
    BY <1>1
  <2> QED BY <2>1 DEF Init, Loaded, Range, IsInjective
<1>3. TypeOK
  <2>1. 0 \in 0..SO_MAX
    BY SizesAssumption
  <2>2. /\ freelist \in Seq(Slot) /\ dbgmap \in Seq(Slot) /\ stack \in Seq(Activation)
    BY DEF Init
  <2>3. dyn \in [Slot -> [Entry -> Slot \cup {NULL}]]
    BY DEF Init, Unbound
  <2> QED BY <1>1, <1>2, <2>1, <2>2, <2>3 DEF Init, TypeOK, Location
<1>4. PoolConserved
  <2>1. Range(<<>>) = {} /\ IsInjective(<<>>)
    BY DEF Range, IsInjective
  <2>2. Loaded \cup {} = 0..0
    BY <1>2 DEF LibdlInfo
  <2> QED BY <1>2, <2>1, <2>2 DEF Init, PoolConserved
<1>5. RefcountAccounts
  <2> SUFFICES ASSUME NEW s \in Slot
               PROVE  refcount[s] = Cardinality(Edges(s)) + handles[s]
                        + (IF Unloading(s) THEN 1 ELSE 0) + (IF GivenUp(s) THEN 1 ELSE 0)
    BY DEF RefcountAccounts
  <2>1. Edges(s) = {}
    BY NullAssumption DEF Init, Edges, Unbound
  <2>2. ~Unloading(s) /\ ~GivenUp(s)
    BY <1>1 DEF Init, Unloading, GivenUp
  <2> QED BY <2>1, <2>2, FS_EmptySet DEF Init
<1>6. StackShape /\ ControlShape
  BY <1>1 DEF Init, StackShape, ControlShape, Opening, Closing, InLink, InUnload, AtRest
<1>7. Linked = {LibdlInfo}
  BY <1>1, <1>2 DEF Init, Linked
<1>8. ReferencedLinked /\ DebugMapExact
  BY <1>7 DEF Init, ReferencedLinked, DebugMapExact, Range, IsInjective
<1>9. FreeUnbound /\ EntriesWithin
  BY DEF Init, FreeUnbound, EntriesWithin, Unbound
<1>10. LinkedBound
  <2>1. Len(Needs(LibdlInfo)) = 0
    BY <1>1, GraphAssumption DEF Init, Needs
  <2> QED BY <1>7, <2>1 DEF LinkedBound
<1>11. LibdlFixed /\ SoValid
  BY <1>1 DEF Init, LibdlFixed, SoValid
<1> QED BY <1>3, <1>4, <1>5, <1>6, <1>8, <1>9, <1>10, <1>11 DEF IInv

\* One case for each action.
LEMMA NextInv == IInv /\ [Next]_vars => IInv'
<1> SUFFICES ASSUME IInv, [Next]_vars PROVE IInv'
  OBVIOUS
<1>1. CASE Calls
  BY <1>1, DlopenInv, DlcloseInv DEF Calls
<1>2. CASE OpenSteps
  BY <1>2, FindKnownInv, LoadLibraryInv, LoadRefusedInv, MapLibraryInv, ReserveFailsInv, SegmentsFailInv,
     ParseDynamicInv, ParseFailsInv, NeedNextInv, NeedBoundInv, NeedMissingInv, NeedDoneInv,
     RelocateInv, RelocateFailsInv, ConstructorsDoneInv, DlopenReturnsInv DEF OpenSteps
<1>3. CASE CloseSteps
  BY <1>3, UnreferenceInv, UnloadLastInv, UnloadLibdlInv, DestructorsDoneInv, DropNextInv, DropDoneInv,
     ReleaseInv, DlcloseReturnsInv DEF CloseSteps
<1>4. CASE CallbackReenters
  BY <1>4, CallbackReentersInv
<1>5. CASE UNCHANGED vars
  <2>1. UNCHANGED <<needed, solist, freelist, socount, soname, flags, refcount, dyn, base, inited, dbgmap,
                    mem, dl_lock, pc, stack, want, so, handles>>
    BY <1>5 DEF vars, fileVars, poolVars, infoVars, ctlVars
  <2>2. TypeOK'
    BY <2>1 DEF IInv, TypeOK
  <2>3. ControlShape' /\ SoValid' /\ \A s \in Slot : GivenUp(s)' <=> GivenUp(s)
    BY <2>1 DEF IInv, ControlShape, SoValid, GivenUp, Top, Needs, Linked, Loaded
  <2> QED BY <2>1, <2>2, <2>3, QuietStep
<1> QED BY <1>1, <1>2, <1>3, <1>4, <1>5 DEF Next, LinkerSteps

\* The inductive invariant of the linker holds in every behaviour.
THEOREM Invariance == Spec => []IInv
<1>1. Init => IInv
  BY InitInv
<1>2. IInv /\ [Next]_vars => IInv'
  BY NextInv
<1> QED BY <1>1, <1>2, PTL DEF Spec

\* The variables keep their types: no reference count goes below zero, no
\* activation leaves the stack it is on.
THEOREM TypeCorrect == Spec => []TypeOK
  BY Invariance, PTL DEF IInv

\* alloc_info and free_info neither lose a soinfo nor list one twice, whatever
\* fails and whatever the dependencies are: find_library, dladdr and the
\* unwinder walk a list of distinct live soinfos that starts with libdl_info.
THEOREM PoolIsConserved == Spec => []PoolConserved
  BY Invariance, PTL DEF IInv

\* si->refcount is the number of references at every step of dlopen and
\* dlclose, through every recursion of link_image and unload_library.
THEOREM RefcountsAccount == Spec => []RefcountAccounts
  BY Invariance, PTL DEF IInv

\* What can still be reached is linked: a soinfo the client has a handle on,
\* or that is saved in a DT_NEEDED entry of whatever soinfo, is in solist with
\* FLAG_LINKED.  unload_library never frees a soinfo that is in use.
ReachableLinked ==
  \A s \in Slot : handles[s] > 0 \/ Edges(s) # {} => s \in Linked

LEMMA ReachableFacts == IInv => ReachableLinked
<1> SUFFICES ASSUME IInv, NEW s \in Slot, handles[s] > 0 \/ Edges(s) # {}
             PROVE  s \in Linked
  BY DEF ReachableLinked
<1>1. IsFiniteSet(Edges(s)) /\ Cardinality(Edges(s)) \in Nat /\ handles[s] \in Nat
  BY EdgesFinite DEF IInv, TypeOK
<1>2. Edges(s) # {} => Cardinality(Edges(s)) > 0
  BY <1>1, FS_EmptySet
<1>3. refcount[s] > 0
  BY <1>1, <1>2 DEF IInv, RefcountAccounts
<1> QED BY <1>3 DEF IInv, ReferencedLinked

THEOREM ReachableIsLinked == Spec => []ReachableLinked
  BY Invariance, ReachableFacts, PTL

-----------------------------------------------------------------------------
(* A failed link is final.                                                 *)

StaysFailed == \A s \in Slot : s \in Failed => s \in Failed' /\ soname'[s] = soname[s]

\* free_info is never called for a soinfo that failed to link.
LEMMA FreeStaysFailed ==
  ASSUME IInv, NEW s \in Loaded \ {LibdlInfo}, free_info(s), s \notin Failed, UNCHANGED soname,
         \A u \in Slot \ {s} : flags'[u] = flags[u]
  PROVE  StaysFailed
<1>1. Loaded' = Loaded \ {s}
  BY FreeFacts
<1> QED BY <1>1 DEF StaysFailed, Failed

\* One case for each action that touches solist, the flags or the names.
LEMMA FailureStep == IInv /\ [Next]_vars => StaysFailed
<1> SUFFICES ASSUME IInv, [Next]_vars PROVE StaysFailed
  OBVIOUS
<1>1. CASE UNCHANGED <<solist, soname, flags>>
  BY <1>1 DEF StaysFailed, Failed, Loaded
<1>2. CASE LoadLibrary
  <2>1. PICK s \in Slot : alloc_info(s, want)
    BY <1>2 DEF LoadLibrary
  <2>2. PICK l \in Lib : l = want
    BY <1>2 DEF LoadLibrary, IInv, SoValid
  <2>3. alloc_info(s, l)
    BY <2>1, <2>2
  <2>4. /\ s \notin Loaded /\ Loaded' = Loaded \cup {s}
        /\ \A u \in Slot : /\ soname'[u] = IF u = s THEN l ELSE soname[u]
                           /\ flags'[u] = IF u = s THEN "none" ELSE flags[u]
    BY <2>3, AllocFacts
  <2> QED BY <2>4 DEF StaysFailed, Failed
<1>3. CASE ReserveFails \/ SegmentsFail
  <2>1. /\ stack # <<>> /\ flags[Top.si] = "none" /\ Top.si \in Slot
        /\ Top.si \in Loaded /\ Top.si # LibdlInfo
    BY <1>3, TopFacts DEF ReserveFails, SegmentsFail, IInv, ControlShape, InLink, Opening
  <2>2. free_info(Top.si) /\ UNCHANGED soname
    BY <1>3 DEF ReserveFails, SegmentsFail, infoVars
  <2>3. \A u \in Slot \ {Top.si} : flags'[u] = flags[u]
    BY <1>3 DEF ReserveFails, SegmentsFail, infoVars, IInv, TypeOK
  <2>4. PICK s \in Loaded \ {LibdlInfo} : s = Top.si
    BY <2>1
  <2>5. s \notin Failed
    BY <2>1, <2>4 DEF Failed
  <2>6. free_info(s) /\ \A u \in Slot \ {s} : flags'[u] = flags[u]
    BY <2>2, <2>3, <2>4
  <2> QED BY <2>2, <2>5, <2>6, FreeStaysFailed
<1>4. CASE ParseFails \/ NeedMissing \/ RelocateFails
  <2>1. UNCHANGED <<solist, soname>> /\ flags' = [flags EXCEPT ![Top.si] = "ERROR"]
    BY <1>4 DEF ParseFails, NeedMissing, RelocateFails, LinkFails, poolVars
  <2> QED BY <2>1 DEF StaysFailed, Failed, Loaded, IInv, TypeOK
<1>5. CASE Relocate
  <2>1. /\ UNCHANGED <<solist, soname>> /\ flags' = [flags EXCEPT ![Top.si] = "LINKED"]
        /\ Top.si \in Slot /\ flags[Top.si] = "none"
    BY <1>5, TopFacts DEF Relocate, poolVars, IInv, ControlShape, InLink, Opening
  <2> QED BY <2>1 DEF StaysFailed, Failed, Loaded, IInv, TypeOK
<1>6. CASE Release
  <2>1. /\ Top.si \in Slot /\ Top.si \in Loaded /\ Top.si # LibdlInfo /\ flags[Top.si] = "LINKED"
    <3>1. stack # <<>> /\ \A k \in 1..Len(stack) : stack[k].fn = "unload"
      BY <1>6 DEF Release, IInv, ControlShape, InUnload, Closing
    <3> QED BY <3>1, TopFacts DEF IInv, StackShape
  <2>2. free_info(Top.si) /\ UNCHANGED <<soname, flags>>
    BY <1>6 DEF Release
  <2>3. PICK s \in Loaded \ {LibdlInfo} : s = Top.si
    BY <2>1
  <2>4. s \notin Failed /\ free_info(s)
    BY <2>1, <2>2, <2>3 DEF Failed
  <2> QED BY <2>2, <2>4, FreeStaysFailed
<1>7. CASE Calls
  BY <1>1, <1>7 DEF Calls, Dlopen, Dlclose, poolVars, infoVars
<1>8. CASE FindKnown \/ LoadRefused \/ MapLibrary \/ ParseDynamic \/ NeedNext \/ NeedBound \/ NeedDone
  BY <1>1, <1>8 DEF FindKnown, LoadRefused, MapLibrary, ParseDynamic, NeedNext, NeedBound, NeedDone,
     poolVars, infoVars
<1>9. CASE ConstructorsDone \/ DlopenReturns \/ CallbackReenters
  BY <1>1, <1>9 DEF ConstructorsDone, DlopenReturns, CallbackReenters, poolVars, infoVars
<1>10. CASE Unreference \/ UnloadLast \/ UnloadLibdl \/ DestructorsDone \/ DropNext \/ DropDone \/ DlcloseReturns
  BY <1>1, <1>10 DEF Unreference, UnloadLast, UnloadLibdl, DestructorsDone, DropNext, DropDone,
     DlcloseReturns, poolVars, infoVars
<1>11. CASE UNCHANGED vars
  BY <1>1, <1>11 DEF vars, poolVars, infoVars
<1> QED BY <1>2, <1>3, <1>4, <1>5, <1>6, <1>7, <1>8, <1>9, <1>10, <1>11
       DEF Next, LinkerSteps, OpenSteps, CloseSteps

\* A library that failed to link keeps its soinfo, its name and FLAG_ERROR for
\* good, so that find_library refuses the name from then on.
THEOREM FailureStays == Spec => FailureIsFinal
<1>1. IInv /\ [Next]_vars => [StaysFailed]_vars
  BY FailureStep
<1> QED BY <1>1, Invariance, PTL DEF Spec, FailureIsFinal, StaysFailed

-----------------------------------------------------------------------------
(* One soinfo to a name.                                                   *)

\* load_library is the only step that names a soinfo, and it runs only when
\* find_library has found none of that name.
LEMMA NamesStep == IInv /\ UniqueNames /\ [Next]_vars => UniqueNames'
<1> SUFFICES ASSUME IInv, UniqueNames, [Next]_vars PROVE UniqueNames'
  OBVIOUS
<1>1. CASE UNCHANGED soname /\ Loaded' \subseteq Loaded
  BY <1>1 DEF UniqueNames
<1>2. CASE UNCHANGED <<solist, soname>>
  BY <1>1, <1>2 DEF Loaded
<1>3. CASE LoadLibrary
  <2>1. PICK s \in Slot : alloc_info(s, want)
    BY <1>3 DEF LoadLibrary
  <2>2. PICK l \in Lib : l = want
    BY <1>3 DEF LoadLibrary, IInv, SoValid
  <2>3. alloc_info(s, l) /\ \A u \in Loaded : soname[u] # l
    BY <1>3, <2>1, <2>2 DEF LoadLibrary
  <2>4. /\ s \notin Loaded /\ Loaded' = Loaded \cup {s} /\ Loaded \subseteq Slot
        /\ \A u \in Slot : soname'[u] = IF u = s THEN l ELSE soname[u]
    BY <2>3, AllocFacts, RangeOfSeq DEF IInv, TypeOK, Loaded
  <2> QED BY <2>3, <2>4 DEF UniqueNames
<1>4. CASE ReserveFails \/ SegmentsFail \/ Release
  <2>1. stack # <<>> /\ free_info(Top.si) /\ UNCHANGED soname
    BY <1>4 DEF ReserveFails, SegmentsFail, Release, infoVars, IInv, ControlShape, InLink, InUnload
  <2>2. PICK s \in Loaded \ {LibdlInfo} : s = Top.si
    BY <2>1, TopFacts DEF IInv
  <2>3. free_info(s)
    BY <2>1, <2>2
  <2>4. Loaded' \subseteq Loaded
    BY <2>3, FreeFacts
  <2> QED BY <1>1, <2>1, <2>4
<1>5. CASE ParseFails \/ NeedMissing \/ RelocateFails \/ Calls
  BY <1>2, <1>5 DEF ParseFails, NeedMissing, RelocateFails, LinkFails, Calls, Dlopen, Dlclose, poolVars, infoVars
<1>6. CASE FindKnown \/ LoadRefused \/ MapLibrary \/ ParseDynamic \/ NeedNext \/ NeedBound \/ NeedDone \/ Relocate
  BY <1>2, <1>6 DEF FindKnown, LoadRefused, MapLibrary, ParseDynamic, NeedNext, NeedBound, NeedDone, Relocate,
     poolVars, infoVars
<1>7. CASE ConstructorsDone \/ DlopenReturns \/ CallbackReenters
  BY <1>2, <1>7 DEF ConstructorsDone, DlopenReturns, CallbackReenters, poolVars, infoVars
<1>8. CASE Unreference \/ UnloadLast \/ UnloadLibdl \/ DestructorsDone \/ DropNext \/ DropDone \/ DlcloseReturns
  BY <1>2, <1>8 DEF Unreference, UnloadLast, UnloadLibdl, DestructorsDone, DropNext, DropDone,
     DlcloseReturns, poolVars, infoVars
<1>9. CASE UNCHANGED vars
  BY <1>2, <1>9 DEF vars, poolVars, infoVars
<1> QED BY <1>3, <1>4, <1>5, <1>6, <1>7, <1>8, <1>9 DEF Next, LinkerSteps, OpenSteps, CloseSteps

\* find_library never has two soinfos of a name to choose from, so that a
\* library is loaded once however many libraries need it, cycles included.
THEOREM NamesAreUnique == Spec => []UniqueNames
<1>1. Init => UniqueNames
  <2> SUFFICES ASSUME Init PROVE Loaded = {LibdlInfo}
    BY DEF UniqueNames
  <2> QED BY DEF Init, Loaded, Range
<1>2. IInv /\ IInv' /\ UniqueNames /\ [Next]_vars => UniqueNames'
  BY NamesStep
<1> QED BY <1>1, <1>2, Invariance, PTL DEF Spec
=============================================================================
