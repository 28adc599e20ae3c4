---------------------------- MODULE LoadingProofs ----------------------------
(***************************************************************************)
(* Proofs about Images and Symbols, for every page size, file, library and *)
(* hash function: loading leaves what is other people's alone and puts     *)
(* every byte of the file in its place, and references are to what they    *)
(* should be.  What the walk over a hash chain finds is proved without     *)
(* induction: what it should find is written down as a function, which     *)
(* solves the equation of the walk and is its only solution, because of    *)
(* the entries where another would differ there is a greatest.             *)
(***************************************************************************)
EXTENDS Images, Symbols, TLAPS, FiniteSetTheorems, WellFoundedInduction

-----------------------------------------------------------------------------
(* Pages.                                                                  *)

\* An address where a page begins.
OnPage(x) == x % PAGE = 0

\* Dividing by the size of a page.
LEMMA ModRange ==
  ASSUME NEW x \in Int
  PROVE  /\ x % PAGE \in 0..PAGE - 1
         /\ x = PAGE * (x \div PAGE) + (x % PAGE) /\ x \div PAGE \in Int
<1>1. PAGE \in Nat \ {0}
  BY ImagesAssumption
<1>2. x % PAGE \in 0..PAGE - 1
  BY <1>1
<1>3. x \div PAGE \in Int
  BY <1>1
<1>4. x = PAGE * (x \div PAGE) + (x % PAGE)
  <2>1. \A p \in Nat \ {0} : x = p * (x \div p) + (x % p)
    OBVIOUS
  <2> QED BY <1>1, <2>1
<1> QED BY <1>2, <1>3, <1>4

\* Multiples of it are on a page.
LEMMA Multiples ==
  ASSUME NEW q \in Int
  PROVE  (PAGE * q) % PAGE = 0
<1>1. PAGE \in Nat \ {0}
  BY ImagesAssumption
<1>2. PICK x \in Int : x = PAGE * q
  BY <1>1
<1>3. PICK p \in Int, r \in 0..PAGE - 1 : x = PAGE * p + r /\ r = x % PAGE
  BY ModRange
<1>4. PAGE * (q - p) = r
  <2>1. PAGE * q = PAGE * p + r
    BY <1>2, <1>3
  <2>2. PAGE * (q - p) = PAGE * q - PAGE * p /\ PAGE * q \in Int /\ PAGE * p \in Int
    BY <1>1, <1>3
  <2> QED BY <1>3, <2>1, <2>2
<1>5. q - p = 0
  <2>1. q - p >= 1 => PAGE * (q - p) >= PAGE
    BY <1>1
  <2>2. q - p <= -1 => PAGE * (q - p) <= -PAGE
    BY <1>1
  <2> QED BY <1>1, <1>4, <2>1, <2>2
<1>6. r = 0
  BY <1>1, <1>4, <1>5
<1> QED BY <1>2, <1>3, <1>6

\* So are the sum and the difference of two that are; the next one is a page on.
LEMMA PageSums ==
  ASSUME NEW x \in Int, NEW y \in Int, OnPage(x), OnPage(y)
  PROVE  OnPage(x + y) /\ OnPage(x - y) /\ (x < y => x + PAGE <= y)
<1>1. PAGE \in Nat \ {0}
  BY ImagesAssumption
<1>2. PICK p \in Int, q \in Int : x = PAGE * p /\ y = PAGE * q
  <2>1. ASSUME NEW z \in Int, OnPage(z) PROVE \E p \in Int : z = PAGE * p
    <3>1. z = PAGE * (z \div PAGE) + (z % PAGE) /\ z \div PAGE \in Int /\ z % PAGE = 0
      BY <2>1, ModRange DEF OnPage
    <3>2. PICK p \in Int : p = z \div PAGE
      BY <3>1
    <3>3. z = PAGE * p
      BY <1>1, <3>1, <3>2
    <3> QED BY <3>3
  <2> QED BY <2>1
<1>3. x + y = PAGE * (p + q) /\ x - y = PAGE * (p - q)
  BY <1>1, <1>2
<1>4. OnPage(x + y) /\ OnPage(x - y)
  <2>1. p + q \in Int /\ p - q \in Int
    BY <1>2
  <2> QED BY <1>3, <2>1, Multiples DEF OnPage
<1>5. ASSUME x < y PROVE x + PAGE <= y
  <2>1. ~(q - p <= 0)
    <3>1. q - p <= 0 => PAGE * (q - p) <= 0
      BY <1>1, <1>2
    <3> QED BY <1>1, <1>2, <1>5, <3>1
  <2>2. q - p >= 1 => PAGE * (q - p) >= PAGE
    BY <1>1, <1>2
  <2> QED BY <1>1, <1>2, <2>1, <2>2
<1> QED BY <1>4, <1>5

\* Down goes to where the page begins.
LEMMA DownFacts ==
  ASSUME NEW x \in Nat
  PROVE  Down(x) \in Nat /\ OnPage(Down(x)) /\ Down(x) <= x /\ x < Down(x) + PAGE
         /\ Down(x) + (x % PAGE) = x /\ x % PAGE \in Nat /\ x % PAGE < PAGE
<1>1. /\ PAGE \in Nat \ {0} /\ x % PAGE \in 0..PAGE - 1 /\ x \in Int
      /\ x = PAGE * (x \div PAGE) + (x % PAGE) /\ x \div PAGE \in Int
  <2>1. x \in Int
    OBVIOUS
  <2> QED BY <2>1, ImagesAssumption, ModRange
<1>2. Down(x) = PAGE * (x \div PAGE)
  BY <1>1 DEF Down
<1>3. OnPage(Down(x))
  BY <1>1, <1>2, Multiples DEF OnPage
<1>4. Down(x) >= 0
  <2>1. x \div PAGE >= 0
    <3>1. x \div PAGE <= -1 => PAGE * (x \div PAGE) <= -PAGE
      BY <1>1
    <3> QED BY <1>1, <3>1
  <2> QED BY <1>1, <1>2, <2>1
<1> QED BY <1>1, <1>3, <1>4 DEF Down

\* Up goes to the first page that does not begin before.
LEMMA UpFacts ==
  ASSUME NEW x \in Nat
  PROVE  Up(x) \in Nat /\ OnPage(Up(x)) /\ x <= Up(x) /\ Up(x) < x + PAGE
<1>1. PAGE \in Nat \ {0} /\ x + PAGE - 1 \in Nat
  BY ImagesAssumption
<1>2. /\ Down(x + PAGE - 1) \in Nat /\ OnPage(Down(x + PAGE - 1))
      /\ Down(x + PAGE - 1) <= x + PAGE - 1 /\ x + PAGE - 1 < Down(x + PAGE - 1) + PAGE
  BY <1>1, DownFacts
<1> QED BY <1>1, <1>2 DEF Up

\* Up keeps the order.
LEMMA UpMonotone ==
  ASSUME NEW x \in Nat, NEW y \in Nat, x <= y
  PROVE  Up(x) <= Up(y) /\ Down(x) <= Down(y)
<1>1. PAGE \in Nat \ {0}
  BY ImagesAssumption
<1>2. Up(y) < Up(x) => Up(y) + PAGE <= Up(x)
  BY UpFacts, PageSums
<1>3. Down(y) < Down(x) => Down(y) + PAGE <= Down(x)
  BY DownFacts, PageSums
<1>4. Up(x) <= Up(y)
  BY <1>1, <1>2, UpFacts
<1>5. Down(x) <= Down(y)
  <2>1. /\ Down(x) \in Nat /\ Down(x) <= x
        /\ Down(y) \in Nat /\ y < Down(y) + PAGE
    BY DownFacts
  <2> HIDE DEF Down
  <2> QED BY <1>1, <1>3, <2>1
<1> QED BY <1>4, <1>5

\* Up does not mind a move by whole pages.
LEMMA UpShift ==
  ASSUME NEW b \in Nat, OnPage(b), NEW x \in Nat
  PROVE  Up(b + x) = b + Up(x)
<1>1. PAGE \in Nat \ {0}
  BY ImagesAssumption
<1>2. /\ Up(b + x) \in Nat /\ OnPage(Up(b + x)) /\ b + x <= Up(b + x) /\ Up(b + x) < b + x + PAGE
      /\ Up(x) \in Nat /\ OnPage(Up(x)) /\ x <= Up(x) /\ Up(x) < x + PAGE
  <2>1. b + x \in Nat
    OBVIOUS
  <2> QED BY <2>1, UpFacts
<1>3. OnPage(b + Up(x))
  BY <1>2, PageSums
<1>4. /\ Up(b + x) < b + Up(x) => Up(b + x) + PAGE <= b + Up(x)
      /\ b + Up(x) < Up(b + x) => b + Up(x) + PAGE <= Up(b + x)
  <2>1. b + Up(x) \in Int /\ Up(b + x) \in Int
    BY <1>2
  <2> QED BY <1>2, <1>3, <2>1, PageSums
<1> QED BY <1>1, <1>2, <1>4

\* Up stays where a page begins.
LEMMA UpOnPage ==
  ASSUME NEW x \in Nat, OnPage(x)
  PROVE  Up(x) = x
<1>1. PAGE \in Nat \ {0}
  BY ImagesAssumption
<1>2. PICK u \in Nat : u = Up(x) /\ OnPage(u) /\ x <= u /\ u < x + PAGE
  BY UpFacts
<1>3. x < u => x + PAGE <= u
  BY <1>2, PageSums
<1> QED BY <1>1, <1>2, <1>3

\* Two addresses that are as far into their pages stay so, page by page.
LEMMA SameInPage ==
  ASSUME NEW x \in Nat, NEW y \in Nat, OnPage(x - y)
  PROVE  x - Down(x) = y - Down(y)
<1>1. PAGE \in Nat \ {0}
  BY ImagesAssumption
<1>2. PICK d \in Nat, e \in Nat : /\ d = Down(x) /\ OnPage(d) /\ d <= x /\ x < d + PAGE
                                  /\ e = Down(y) /\ OnPage(e) /\ e <= y /\ y < e + PAGE
  <2>1. Down(x) \in Nat /\ OnPage(Down(x)) /\ Down(x) <= x /\ x < Down(x) + PAGE
    BY DownFacts
  <2>2. Down(y) \in Nat /\ OnPage(Down(y)) /\ Down(y) <= y /\ y < Down(y) + PAGE
    BY DownFacts
  <2> QED BY <2>1, <2>2
<1>3. PICK r \in Int : r = (x - y) - (d - e)
  OBVIOUS
<1>4. OnPage(r) /\ OnPage(0)
  <2>1. d \in Int /\ e \in Int /\ x - y \in Int /\ d - e \in Int /\ OnPage(d) /\ OnPage(e)
    BY <1>2
  <2>4. OnPage(d - e)
    BY <2>1, PageSums
  <2>2. OnPage((x - y) - (d - e))
    BY <2>1, <2>4, PageSums
  <2>3. OnPage(0)
    <3>1. 0 \in Int /\ PAGE * 0 = 0
      BY <1>1
    <3> QED BY <3>1, Multiples DEF OnPage
  <2> QED BY <1>3, <2>2, <2>3
<1>5. r < 0 => r + PAGE <= 0
  BY <1>4, PageSums
<1>6. 0 < r => 0 + PAGE <= r
  BY <1>4, PageSums
<1>7. d <= x /\ x < d + PAGE /\ e <= y /\ y < e + PAGE
  BY <1>2
<1>8. r = 0
  BY <1>1, <1>3, <1>5, <1>6, <1>7
<1>9. x - d = y - e
  BY <1>3, <1>8
<1> QED BY <1>2, <1>9

-----------------------------------------------------------------------------
(* The extent of a library.                                                *)

\* A set of natural numbers has a least one.
LEMMA LeastNatural ==
  ASSUME NEW T \in SUBSET Nat, T # {}
  PROVE  \E m \in T : \A k \in T : m <= k
<1> DEFINE R == {ss \in Nat \X Nat : ss[1] < ss[2]}
<1>1. IsWellFoundedOn(R, Nat)
  BY NatLessThanWellFounded DEF OpToRel
<1> HIDE DEF R
<1>2. PICK m \in T : \A k \in T : ~(<<k, m>> \in R)
  BY <1>1, WFMin
<1>3. \A k \in Nat, n \in Nat : k < n => <<k, n>> \in R
  BY DEF R
<1>4. \A k \in T : ~(k < m)
  BY <1>2, <1>3
<1> QED BY <1>4

\* Some element of a list of natural numbers is greatest.
LEMMA GreatestElement ==
  ASSUME NEW n \in Nat \ {0}, NEW f, \A i \in 1..n : f[i] \in Nat
  PROVE  \E k \in 1..n : \A i \in 1..n : f[i] <= f[k]
<1> DEFINE Good(m) == \E k \in 1..m : \A i \in 1..m : f[i] <= f[k]
           Bad == {m \in 1..n : ~Good(m)}
<1> SUFFICES ASSUME Bad # {} PROVE FALSE
  BY n \in 1..n
<1>1. PICK m \in Bad : \A k \in Bad : m <= k
  BY LeastNatural, Bad \in SUBSET Nat
<1>2. m # 1
  <2>1. Good(1)
    OBVIOUS
  <2> QED BY <2>1, <1>1
<1>3. m - 1 \in 1..n /\ Good(m - 1)
  <2>1. m - 1 \in 1..n /\ ~(m <= m - 1)
    BY <1>1, <1>2
  <2> QED BY <2>1, <1>1
<1>4. PICK k \in 1..m - 1 : \A i \in 1..m - 1 : f[i] <= f[k]
  BY <1>3
<1>5. m \in 1..n /\ k \in 1..m /\ m \in 1..m /\ \A i \in 1..m : i = m \/ i \in 1..m - 1
  BY <1>1, <1>4
<1>6. CASE f[m] <= f[k]
  BY <1>1, <1>4, <1>5, <1>6
<1>7. CASE f[k] <= f[m]
  <2>1. ASSUME NEW i \in 1..m PROVE f[i] <= f[m]
    <3>1. f[i] \in Nat /\ f[k] \in Nat /\ f[m] \in Nat
      <4>1. i \in 1..n /\ k \in 1..n /\ m \in 1..n
        BY <1>4, <1>5
      <4> QED BY <4>1
    <3>2. i = m \/ f[i] <= f[k]
      BY <1>4, <1>5
    <3> QED BY <1>7, <3>1, <3>2
  <2> QED BY <1>1, <1>5, <2>1
<1> QED BY <1>5, <1>6, <1>7

\* Every segment lies between the first page and the last one that
\* get_lib_extents finds.
LEMMA ExtentFacts ==
  ASSUME segments \in Layouts, segments # <<>>
  PROVE  /\ Least(Starts) \in Nat /\ Greatest(Ends) \in Nat
         /\ \A k \in DOMAIN segments :
              Least(Starts) <= segments[k].vaddr /\ segments[k].vaddr + segments[k].memsz <= Greatest(Ends)
         /\ \E j, k \in DOMAIN segments :
              Least(Starts) = segments[j].vaddr /\ Greatest(Ends) = segments[k].vaddr + segments[k].memsz
<1>1. /\ segments \in Seq(Segment) /\ Len(segments) \in Nat \ {0} /\ DOMAIN segments = 1..Len(segments)
      /\ \A k \in DOMAIN segments : segments[k].vaddr \in Nat /\ segments[k].memsz \in Nat
  <2>1. segments \in Seq(Segment)
    BY ImagesAssumption
  <2>2. Len(segments) \in Nat /\ DOMAIN segments = 1..Len(segments) /\ Len(segments) # 0
    BY <2>1
  <2>3. \A k \in DOMAIN segments : segments[k] \in Segment
    BY <2>1
  <2>4. \A s \in Segment : s.vaddr \in Nat /\ s.memsz \in Nat
    BY DEF Segment
  <2> QED BY <2>1, <2>2, <2>3, <2>4
<1>2. Starts \in SUBSET Nat /\ Starts # {}
  BY <1>1 DEF Starts
<1>3. \E x \in Starts : \A y \in Starts : x <= y
  BY <1>2, LeastNatural
<1>4. Least(Starts) \in Starts /\ \A y \in Starts : Least(Starts) <= y
  BY <1>3 DEF Least
<1> DEFINE end == [k \in 1..Len(segments) |-> segments[k].vaddr + segments[k].memsz]
<1>5. \E k \in 1..Len(segments) : \A i \in 1..Len(segments) : end[i] <= end[k]
  <2>1. \A i \in 1..Len(segments) : end[i] \in Nat
    BY <1>1
  <2> HIDE DEF end
  <2> QED BY <1>1, <2>1, GreatestElement
<1>6. \E x \in Ends : \A y \in Ends : x >= y
  <2>1. Ends = {end[k] : k \in 1..Len(segments)} /\ \A k \in 1..Len(segments) : end[k] \in Nat
    BY <1>1 DEF Ends
  <2> HIDE DEF end
  <2> QED BY <1>5, <2>1
<1>7. Greatest(Ends) \in Ends /\ \A y \in Ends : Greatest(Ends) >= y
  BY <1>6 DEF Greatest
<1>8. \A k \in DOMAIN segments : segments[k].vaddr \in Starts /\ segments[k].vaddr + segments[k].memsz \in Ends
  BY DEF Starts, Ends
<1>9. \E j \in DOMAIN segments : Least(Starts) = segments[j].vaddr
  BY <1>4 DEF Starts
<1>10. \E k \in DOMAIN segments : Greatest(Ends) = segments[k].vaddr + segments[k].memsz
  BY <1>7 DEF Ends
<1>11. Ends \in SUBSET Nat
  BY <1>1 DEF Ends
<1> QED BY <1>2, <1>4, <1>7, <1>8, <1>9, <1>10, <1>11

-----------------------------------------------------------------------------
(* What loading keeps.                                                     *)

\* The pages of a segment, from the first on and up to the next after them.
FirstPage(s) == Down(s.vaddr)
EndPage(s)   == Up(s.vaddr + s.memsz)
Span(s)      == EndPage(s) - FirstPage(s)
Apart(s, t)  == EndPage(s) <= FirstPage(t) \/ EndPage(t) <= FirstPage(s)

\* From the page of the first segment's beginning to the page after the last one's end.
Extent == Up(Greatest(Ends)) - Down(Least(Starts))

\* The base a prelinked file asks for is on a page and leaves room for it.
PrelinksFit ==
  \A p \in Prelinks \ {0} :
    OnPage(p) /\ \A layout \in Layouts : \A i \in DOMAIN layout : p + EndPage(layout[i]) <= Top

\* Files have a text and a data segment, as the static linker makes them; where
\* there are more no two of them share a page.
OverlapsShow ==
  \A layout \in Layouts :
    Len(layout) <= 2 \/ \A j, k \in DOMAIN layout : j # k => Apart(layout[j], layout[k])

\* A region has been reserved.
Within == step \in {"load", "loaded"}

\* The region has the size of the library, and is where there is room for it.
Placed ==
  /\ step = "reserve" \/ Within => segments # <<>> /\ size = Extent
  /\ Within /\ (req_base = 0 \/ PrelinksFit) => OnPage(at_base) /\ at_base + Up(Greatest(Ends)) <= Top

\* It is beside the others.
OthersBeside ==
  req_base = 0 /\ (segments # <<>> => Least(Starts) < PAGE) =>
    /\ \A x \in Others : memory[x] = Foreign
    /\ Within => \A x \in Others : x < at_base \/ at_base + size <= x

\* A segment is as the file has it until another is loaded into one of its pages.
InPlace(s) ==
  \A i \in 0 .. s.memsz - 1 : s.write \/ i < s.filesz => memory[at_base + s.vaddr + i] = Holds(s, i)

LastInPlace ==
  Within /\ (req_base = 0 \/ PrelinksFit) =>
    \A k \in 1..cnt :
      (\A j \in k + 1 .. cnt : Apart(segments[k], segments[j])) => InPlace(segments[k])

\* total_sz is the sum of the pages of the segments, of the first two at least.
Totalled ==
  /\ Within /\ (req_base = 0 \/ PrelinksFit) =>
       /\ \A k \in 1..cnt : Span(segments[k]) > 0
       /\ cnt = 0 => total_sz = 0
       /\ cnt = 1 => total_sz = Span(segments[1])
       /\ cnt = 2 => total_sz = Span(segments[1]) + Span(segments[2])
  /\ step \in {"extents", "reserve"} => cnt = 0 /\ total_sz = 0
  /\ step = "loaded" => cnt = Len(segments) /\ total_sz <= size

\* All of it, an inductive invariant.
ImagesInv == ImagesTypeOK /\ Placed /\ OthersBeside /\ LastInPlace /\ Totalled

\* Which segment is next, and where its bytes go.
LEMMA CurrentFacts ==
  ASSUME ImagesInv, step = "load", cnt < Len(segments), FileLen > 0
  PROVE  /\ cnt + 1 \in DOMAIN segments /\ Current \in Segment /\ Current.filesz <= Current.memsz
         /\ (Current.vaddr - Current.offset) % PAGE = 0
         /\ FirstPage(Current) \in Nat /\ EndPage(Current) \in Nat
         /\ FirstPage(Current) <= Current.vaddr /\ Current.vaddr + Current.memsz <= EndPage(Current)
         /\ FirstPage(Current) < EndPage(Current)
         /\ PBase = at_base + FirstPage(Current) /\ PBase \in Nat
         /\ FileEnd = at_base + Current.vaddr + Current.filesz /\ FileEnd \in Nat
         /\ SegEnd \in Nat /\ FileEnd <= SegEnd /\ PBase < FileEnd
<1>1. /\ segments \in Layouts /\ segments \in Seq(Segment) /\ cnt \in 0..Len(segments) /\ at_base \in Nat
      /\ Len(segments) \in Nat /\ DOMAIN segments = 1..Len(segments)
  <2>1. segments \in Layouts /\ segments \in Seq(Segment)
    BY ImagesAssumption DEF ImagesInv, ImagesTypeOK
  <2> QED BY <2>1 DEF ImagesInv, ImagesTypeOK
<1>2. cnt + 1 \in DOMAIN segments
  BY <1>1
<1>3. Current \in Segment /\ Current.filesz <= Current.memsz /\ (Current.vaddr - Current.offset) % PAGE = 0
  BY <1>1, <1>2, ImagesAssumption DEF Current
<1>4. Current.vaddr \in Nat /\ Current.filesz \in Nat /\ Current.memsz \in Nat
  BY <1>3 DEF Segment
<1>5. PICK v \in Nat, fs \in Nat, ms \in Nat :
        v = Current.vaddr /\ fs = Current.filesz /\ ms = Current.memsz /\ fs <= ms
  BY <1>3, <1>4
<1>6. PICK d \in Nat, w \in Nat : d = Down(v) /\ w = v % PAGE /\ d <= v /\ d + w = v
  BY DownFacts
<1>7. PICK e \in Nat : e = Up(v + ms) /\ v + ms <= e
  <2>1. v + ms \in Nat
    OBVIOUS
  <2> QED BY <2>1, UpFacts
<1>8. fs + w > 0
  BY <1>5, <1>6 DEF FileLen
<1>9. fs <= ms /\ d + w = v /\ v + ms <= e /\ d < e
  <2>1. fs <= ms /\ d + w = v /\ v + ms <= e
    BY <1>5, <1>6, <1>7
  <2> QED BY <1>8, <2>1
<1>10. /\ PBase = at_base + d /\ FileEnd = (at_base + d) + (fs + w) /\ SegEnd = at_base + v + ms
  BY <1>5, <1>6 DEF PBase, FileEnd, FileLen, SegEnd
<1>11. FileEnd = at_base + v + fs /\ PBase < FileEnd /\ FileEnd <= SegEnd
  BY <1>1, <1>8, <1>9, <1>10
<1>12. FirstPage(Current) = d /\ EndPage(Current) = e
  BY <1>5, <1>6, <1>7 DEF FirstPage, EndPage
<1>13. v = Current.vaddr /\ fs = Current.filesz /\ ms = Current.memsz /\ d <= v
  BY <1>5, <1>6
<1>14. PBase \in Nat /\ FileEnd \in Nat /\ SegEnd \in Nat
  BY <1>1, <1>10
<1> QED BY <1>2, <1>3, <1>9, <1>10, <1>11, <1>12, <1>13, <1>14

\* What each address holds when a segment was loaded: its pages alone are
\* touched, the file is where FileEnd says, and zeros follow if it is written.
LEMMA LoadedBytes ==
  ASSUME ImagesInv, LoadSegment
  PROVE  /\ memory' \in [Address -> {Zero, Foreign, Unmapped} \cup Nat]
         /\ PBase <= Up(SegEnd) /\ Up(SegEnd) \in Nat
         /\ \A x \in Address :
              /\ x < PBase \/ Up(SegEnd) <= x => memory'[x] = memory[x]
              /\ PBase <= x /\ x < FileEnd => memory'[x] = Down(Current.offset) + (x - PBase)
              /\ OnPage(at_base) /\ Current.write /\ FileEnd <= x /\ x < SegEnd => memory'[x] = Zero
<1>1. /\ step = "load" /\ cnt < Len(segments) /\ FileLen > 0
      /\ memory' = Extended(Cleared(FilePages(memory)))
  BY DEF LoadSegment, Loads
<1>2. /\ Current \in Segment /\ PBase \in Nat /\ FileEnd \in Nat /\ SegEnd \in Nat
      /\ PBase < FileEnd /\ FileEnd <= SegEnd /\ PBase = at_base + FirstPage(Current)
      /\ FirstPage(Current) \in Nat
  BY <1>1, CurrentFacts
<1>3. PICK p \in Nat, f \in Nat, g \in Nat : p = PBase /\ f = FileEnd /\ g = SegEnd /\ p < f /\ f <= g
  BY <1>2
<1>4. PICK u \in Nat, w \in Nat : u = Up(f) /\ w = Up(g) /\ f <= u /\ g <= w /\ u <= w
  BY <1>3, UpFacts, UpMonotone
<1>5. memory \in [Address -> {Zero, Foreign, Unmapped} \cup Nat] /\ Address \subseteq Nat /\ at_base \in Nat
  BY DEF ImagesInv, ImagesTypeOK, Address
<1>6. PICK o \in Nat : o = Down(Current.offset)
  <2>1. Current.offset \in Nat
    BY <1>2 DEF Segment
  <2> QED BY <2>1, DownFacts
<1> DEFINE pages   == FilePages(memory)
           cleared == Cleared(pages)
<1>7. \A x \in Address : pages[x] = IF p <= x /\ x < u THEN o + (x - p) ELSE memory[x]
  <2>1. PBase + FileLen = f
    BY <1>3 DEF FileEnd
  <2>2. pages = [x \in Address |-> IF x \in p .. u - 1 THEN o + (x - p) ELSE memory[x]]
    BY <1>3, <1>4, <1>6, <2>1 DEF FilePages, Mapped, FromFile
  <2> QED BY <1>5, <2>2
<1>8. pages \in [Address -> {Zero, Foreign, Unmapped} \cup Nat]
  <2>1. pages = [x \in Address |-> pages[x]]
    BY DEF FilePages, Mapped
  <2>2. ASSUME NEW x \in Address PROVE pages[x] \in {Zero, Foreign, Unmapped} \cup Nat
    <3>1. CASE p <= x /\ x < u
      BY <1>5, <1>7, <3>1
    <3>2. CASE ~(p <= x /\ x < u)
      BY <1>5, <1>7, <3>2
    <3> QED BY <3>1, <3>2
  <2> QED BY <2>1, <2>2
<1> HIDE DEF pages
<1>9. /\ cleared \in [Address -> {Zero, Foreign, Unmapped} \cup Nat]
      /\ \A x \in Address : /\ x < f \/ u <= x => cleared[x] = pages[x]
                            /\ Current.write /\ FileLen % PAGE # 0 /\ f <= x /\ x < u => cleared[x] = Zero
  <2>1. CASE Current.write /\ FileLen % PAGE # 0
    <3>1. cleared = [x \in Address |-> IF x \in f .. u - 1 THEN Zero ELSE pages[x]]
      BY <1>3, <1>4, <2>1 DEF Cleared
    <3> QED BY <1>5, <1>8, <3>1
  <2>2. CASE ~(Current.write /\ FileLen % PAGE # 0)
    BY <1>8, <2>2 DEF Cleared
  <2> QED BY <2>1, <2>2
<1> HIDE DEF cleared
<1>10. /\ memory' \in [Address -> {Zero, Foreign, Unmapped} \cup Nat]
       /\ \A x \in Address : /\ x < u \/ w <= x => memory'[x] = cleared[x]
                             /\ u <= x /\ x < g => memory'[x] = Zero
  <2>1. memory' = Extended(cleared)
    BY <1>1 DEF cleared, pages
  <2>2. CASE u < g
    <3>1. Up(FileEnd) + (SegEnd - Up(FileEnd)) = g
      BY <1>3, <1>4
    <3>2. memory' = [x \in Address |-> IF x \in u .. w - 1 THEN Zero ELSE cleared[x]]
      <4>1. Extended(cleared) = Mapped(cleared, Up(FileEnd), SegEnd - Up(FileEnd), Zeros)
        BY <1>3, <1>4, <2>2 DEF Extended
      <4> QED BY <1>3, <1>4, <2>1, <3>1, <4>1 DEF Mapped, Zeros
    <3> QED BY <1>4, <1>5, <1>9, <3>2
  <2>3. CASE ~(u < g)
    <3>1. memory' = cleared
      BY <1>3, <1>4, <2>1, <2>3 DEF Extended
    <3> QED BY <1>4, <1>5, <1>9, <2>3, <3>1
  <2> QED BY <2>2, <2>3
<1>11. ASSUME OnPage(at_base), ~(FileLen % PAGE # 0) PROVE u = f
  <2>1. FirstPage(Current) \in Nat /\ OnPage(FirstPage(Current)) /\ FileLen \in Nat
    <3>1. Current.vaddr \in Nat /\ Current.filesz \in Nat
      BY <1>2 DEF Segment
    <3>2. /\ Down(Current.vaddr) \in Nat /\ OnPage(Down(Current.vaddr)) /\ Current.vaddr % PAGE \in Nat
      BY <3>1, DownFacts
    <3>3. FileLen \in Nat
      BY <3>1, <3>2 DEF FileLen
    <3> QED BY <3>2, <3>3 DEF FirstPage
  <2>2. OnPage(p)
    BY <1>2, <1>3, <1>5, <1>11, <2>1, PageSums
  <2>3. f = p + FileLen /\ OnPage(FileLen)
    BY <1>3, <1>11 DEF FileEnd, OnPage
  <2>4. OnPage(f)
    BY <2>1, <2>2, <2>3, PageSums
  <2>5. OnPage(u) /\ u < f + PAGE
    BY <1>4, UpFacts
  <2>6. f < u => f + PAGE <= u
    BY <2>4, <2>5, PageSums
  <2>7. PAGE \in Nat
    BY ImagesAssumption
  <2> QED BY <1>4, <2>5, <2>6, <2>7
<1>12. ASSUME NEW x \in Address
       PROVE  /\ x < p \/ w <= x => memory'[x] = memory[x]
              /\ p <= x /\ x < f => memory'[x] = o + (x - p)
              /\ OnPage(at_base) /\ Current.write /\ f <= x /\ x < g => memory'[x] = Zero
  <2>0. x \in Nat /\ p < f /\ f <= g /\ f <= u /\ g <= w /\ u <= w
    BY <1>3, <1>4, <1>5
  <2>1. ASSUME x < p \/ w <= x PROVE memory'[x] = memory[x]
    <3>1. (x < f \/ u <= x) /\ (x < u \/ w <= x) /\ ~(p <= x /\ x < u)
      BY <2>0, <2>1
    <3> QED BY <1>7, <1>9, <1>10, <3>1
  <2>2. ASSUME p <= x, x < f PROVE memory'[x] = o + (x - p)
    <3>1. x < u
      BY <2>0, <2>2
    <3> QED BY <1>7, <1>9, <1>10, <2>2, <3>1
  <2>3. ASSUME OnPage(at_base), Current.write, f <= x, x < g PROVE memory'[x] = Zero
    <3>1. CASE u <= x
      BY <1>10, <2>3, <3>1
    <3>2. CASE x < u
      <4>1. FileLen % PAGE # 0
        BY <1>11, <2>0, <2>3, <3>2
      <4> QED BY <1>9, <1>10, <2>3, <3>2, <4>1
    <3> QED BY <2>0, <3>1, <3>2
  <2> QED BY <2>1, <2>2, <2>3
<1>13. /\ PBase = p /\ FileEnd = f /\ SegEnd = g /\ Up(SegEnd) = w /\ Down(Current.offset) = o
       /\ p <= w
  BY <1>3, <1>4, <1>6
<1> QED BY <1>10, <1>12, <1>13

\* Where the pages of the segments are within the region.
LEMMA RegionFacts ==
  ASSUME segments \in Layouts, segments # <<>>
  PROVE  /\ Extent \in Nat /\ Up(Greatest(Ends)) \in Nat /\ OnPage(Up(Greatest(Ends)))
         /\ Extent <= Up(Greatest(Ends))
         /\ \A k \in DOMAIN segments :
              /\ FirstPage(segments[k]) \in Nat /\ EndPage(segments[k]) \in Nat
              /\ FirstPage(segments[k]) <= segments[k].vaddr
              /\ segments[k].vaddr + segments[k].memsz <= EndPage(segments[k])
              /\ EndPage(segments[k]) <= Up(Greatest(Ends))
         /\ \E j, k \in DOMAIN segments :
              Up(Greatest(Ends)) = EndPage(segments[k]) /\ Extent = EndPage(segments[k]) - FirstPage(segments[j])
         /\ Least(Starts) < PAGE => Extent = Up(Greatest(Ends))
<1>1. PICK l \in Nat, g \in Nat : l = Least(Starts) /\ g = Greatest(Ends)
  BY ExtentFacts
<1>2. \A k \in DOMAIN segments :
        /\ segments[k].vaddr \in Nat /\ segments[k].memsz \in Nat
        /\ l <= segments[k].vaddr /\ segments[k].vaddr + segments[k].memsz <= g
  <2>1. segments \in Seq(Segment)
    BY ImagesAssumption
  <2>2. \A k \in DOMAIN segments : segments[k] \in Segment
    BY <2>1
  <2>3. \A s \in Segment : s.vaddr \in Nat /\ s.memsz \in Nat
    BY DEF Segment
  <2> QED BY <1>1, <2>2, <2>3, ExtentFacts
<1>3. PICK dl \in Nat, ug \in Nat : /\ dl = Down(l) /\ OnPage(dl) /\ dl <= l
                                    /\ ug = Up(g) /\ OnPage(ug) /\ g <= ug
  BY DownFacts, UpFacts
<1>4. Extent = ug - dl
  BY <1>1, <1>3 DEF Extent
<1>5. PICK j \in DOMAIN segments, k \in DOMAIN segments :
        l = segments[j].vaddr /\ g = segments[k].vaddr + segments[k].memsz
  BY <1>1, ExtentFacts
<1>6. dl <= ug
  <2>1. l <= g
    BY <1>2, <1>5
  <2> QED BY <1>3, <2>1
<1>7. ASSUME NEW i \in DOMAIN segments
      PROVE  /\ FirstPage(segments[i]) \in Nat /\ EndPage(segments[i]) \in Nat
             /\ FirstPage(segments[i]) <= segments[i].vaddr
             /\ segments[i].vaddr + segments[i].memsz <= EndPage(segments[i])
             /\ EndPage(segments[i]) <= ug
  <2>1. PICK v \in Nat, e \in Nat : v = segments[i].vaddr /\ e = segments[i].vaddr + segments[i].memsz /\ e <= g
    BY <1>2
  <2>2. Down(v) \in Nat /\ Down(v) <= v
    BY DownFacts
  <2>3. Up(e) \in Nat /\ e <= Up(e) /\ Up(e) <= Up(g)
    BY <2>1, UpFacts, UpMonotone
  <2> QED BY <1>3, <2>1, <2>2, <2>3 DEF FirstPage, EndPage
<1>8. ug = EndPage(segments[k]) /\ Extent = EndPage(segments[k]) - FirstPage(segments[j])
  BY <1>3, <1>4, <1>5 DEF FirstPage, EndPage
<1>9. ASSUME l < PAGE PROVE Extent = ug
  <2>1. PAGE \in Nat \ {0}
    BY ImagesAssumption
  <2>2. OnPage(0)
    <3>1. 0 \in Int /\ PAGE * 0 = 0
      BY <2>1
    <3> QED BY <3>1, Multiples DEF OnPage
  <2>3. 0 < dl => 0 + PAGE <= dl
    BY <1>3, <2>2, PageSums
  <2>4. dl = 0
    BY <1>3, <1>9, <2>1, <2>3
  <2> QED BY <1>4, <2>4
<1>10. Up(Greatest(Ends)) = ug /\ Least(Starts) = l
  BY <1>1, <1>3
<1> QED BY <1>3, <1>4, <1>5, <1>6, <1>7, <1>8, <1>9, <1>10

\* The region is the same region as long as the file is the same.
LEMMA SameFile ==
  ASSUME UNCHANGED segments
  PROVE  Extent' = Extent /\ Greatest(Ends)' = Greatest(Ends) /\ Least(Starts)' = Least(Starts)
BY DEF Extent, Greatest, Least, Ends, Starts, Up, Down

\* mmap, and munmap, of whole pages.
LEMMA MappedFacts ==
  ASSUME ImagesTypeOK, NEW from \in Nat, NEW len \in Nat, NEW byte \in {Zero, Unmapped},
         memory' = Mapped(memory, from, len, [x \in Address |-> byte])
  PROVE  /\ memory' \in [Address -> {Zero, Foreign, Unmapped} \cup Nat]
         /\ \A x \in Address : x < from \/ Up(from + len) <= x => memory'[x] = memory[x]
<1>1. memory \in [Address -> {Zero, Foreign, Unmapped} \cup Nat] /\ Address \subseteq Nat
  BY DEF ImagesTypeOK, Address
<1>2. PICK u \in Nat : u = Up(from + len)
  <2>1. from + len \in Nat
    OBVIOUS
  <2> QED BY <2>1, UpFacts
<1>3. memory' = [x \in Address |-> IF x \in from .. u - 1 THEN byte ELSE memory[x]]
  BY <1>2 DEF Mapped
<1>4. ASSUME NEW x \in Address
      PROVE  /\ memory'[x] \in {Zero, Foreign, Unmapped} \cup Nat
             /\ x < from \/ u <= x => memory'[x] = memory[x]
  <2>1. memory'[x] = IF x \in from .. u - 1 THEN byte ELSE memory[x]
    BY <1>3
  <2>2. x < from \/ u <= x => x \notin from .. u - 1
    BY <1>1
  <2> QED BY <1>1, <2>1, <2>2
<1>5. memory' = [x \in Address |-> memory'[x]]
  BY <1>3
<1> QED BY <1>2, <1>4, <1>5

-----------------------------------------------------------------------------
(* The steps.                                                              *)

\* Nothing is loaded at first.
LEMMA InitImages == ImagesInit => ImagesInv
<1> SUFFICES ASSUME ImagesInit PROVE ImagesInv
  OBVIOUS
<1>1. segments \in Seq(Segment)
  BY ImagesAssumption DEF ImagesInit
<1>2. ImagesTypeOK
  BY <1>1 DEF ImagesInit, ImagesTypeOK, Steps
<1>3. \A x \in Others : memory[x] = Foreign
  BY ImagesAssumption DEF ImagesInit
<1> QED BY <1>2, <1>3 DEF ImagesInit, ImagesInv, Placed, OthersBeside, LastInPlace, Totalled, Within

\* get_lib_extents gives the size of the library.
LEMMA ExtentsImages == ImagesInv /\ get_lib_extents => ImagesInv'
<1> SUFFICES ASSUME ImagesInv, get_lib_extents PROVE ImagesInv'
  OBVIOUS
<1>1. /\ step = "extents" /\ UNCHANGED <<segments, req_base, memory, at_base, cnt, total_sz>>
      /\ IF segments = <<>> THEN step' = "failed" /\ UNCHANGED size ELSE step' = "reserve" /\ size' = Extent
  BY DEF get_lib_extents, Extent
<1>2. Extent' = Extent /\ Least(Starts)' = Least(Starts)
  BY <1>1, SameFile
<1>3. segments # <<>> => size' \in Nat
  BY <1>1, RegionFacts DEF ImagesInv, ImagesTypeOK
<1>4. ImagesTypeOK'
  BY <1>1, <1>3 DEF ImagesInv, ImagesTypeOK, Steps
<1>5. Placed' /\ LastInPlace' /\ Totalled'
  BY <1>1, <1>2 DEF ImagesInv, Placed, LastInPlace, Totalled, Within
<1>6. OthersBeside'
  BY <1>1, <1>2 DEF ImagesInv, OthersBeside, Within
<1> QED BY <1>4, <1>5, <1>6 DEF ImagesInv

\* The region is beside the others, or where the prelinked file wants it.
LEMMA ReserveImages == ImagesInv /\ (reserve_mem_region \/ alloc_mem_region) => ImagesInv'
<1> SUFFICES ASSUME ImagesInv, reserve_mem_region \/ alloc_mem_region PROVE ImagesInv'
  OBVIOUS
<1>1. PICK b \in Nat :
        /\ step = "reserve" /\ Reserved(b)
        /\ req_base # 0 => b = req_base
        /\ req_base = 0 => /\ OnPage(b) /\ b + Up(Greatest(Ends)) <= Top
                           /\ \A x \in b .. b + size - 1 : memory[x] = Unmapped
  <2>1. CASE reserve_mem_region
    BY <2>1, ImagesAssumption DEF reserve_mem_region, ImagesInv, ImagesTypeOK
  <2>2. CASE alloc_mem_region
    BY <2>2 DEF alloc_mem_region, Address, OnPage
  <2> QED BY <2>1, <2>2
<1>2. /\ at_base' = b /\ step' = "load" /\ UNCHANGED <<segments, req_base, size, cnt, total_sz>>
      /\ memory' = Mapped(memory, b, size, [x \in Address |-> Zero])
  BY <1>1 DEF Reserved, Zeros
<1>3. segments \in Layouts /\ segments # <<>> /\ size = Extent /\ size \in Nat /\ cnt = 0 /\ total_sz = 0
  BY <1>1 DEF ImagesInv, ImagesTypeOK, Placed, Totalled
<1>4. /\ memory' \in [Address -> {Zero, Foreign, Unmapped} \cup Nat]
      /\ \A x \in Address : x < b \/ Up(b + size) <= x => memory'[x] = memory[x]
  BY <1>2, <1>3, MappedFacts DEF ImagesInv
<1>5. Extent' = Extent /\ Greatest(Ends)' = Greatest(Ends) /\ Least(Starts)' = Least(Starts)
  BY <1>2, SameFile
<1>6. ImagesTypeOK'
  BY <1>2, <1>4 DEF ImagesInv, ImagesTypeOK, Steps
<1>7. Placed'
  <2>1. ASSUME req_base = 0 \/ PrelinksFit PROVE OnPage(b) /\ b + Up(Greatest(Ends)) <= Top
    <3>1. CASE req_base = 0
      BY <1>1, <3>1
    <3>2. CASE req_base # 0
      <4>1. PICK k \in DOMAIN segments : Up(Greatest(Ends)) = EndPage(segments[k])
        BY <1>3, RegionFacts
      <4>2. b \in Prelinks \ {0} /\ PrelinksFit
        BY <1>1, <2>1, <3>2 DEF ImagesInv, ImagesTypeOK
      <4> QED BY <1>3, <4>1, <4>2 DEF PrelinksFit
    <3> QED BY <3>1, <3>2
  <2>2. Up(Greatest(Ends))' = Up(Greatest(Ends))
    BY <1>5 DEF Up, Down
  <2> QED BY <1>2, <1>3, <1>5, <2>1, <2>2 DEF Placed, OnPage, Within
<1>8. OthersBeside'
  <2> SUFFICES ASSUME req_base = 0, Least(Starts) < PAGE
               PROVE  \A x \in Others : memory'[x] = Foreign /\ (x < b \/ b + size <= x)
    BY <1>2, <1>3, <1>5 DEF OthersBeside
  <2>1. \A x \in Others : memory[x] = Foreign /\ x \in Address /\ x \in Nat
    BY ImagesAssumption DEF ImagesInv, OthersBeside, Address
  <2>2. \A x \in Others : x < b \/ b + size <= x
    <3>1. Foreign # Unmapped
      BY DEF Foreign, Unmapped
    <3> QED BY <1>1, <1>3, <2>1, <3>1
  <2>3. OnPage(b) /\ OnPage(size)
    BY <1>1, <1>3, RegionFacts
  <2>4. Up(b + size) = b + size
    <3>1. b + size \in Nat /\ OnPage(b + size)
      BY <1>3, <2>3, PageSums
    <3> QED BY <3>1, UpOnPage
  <2> QED BY <1>4, <2>1, <2>2, <2>4
<1>9. LastInPlace' /\ Totalled'
  BY <1>2, <1>3 DEF LastInPlace, Totalled, Within
<1> QED BY <1>6, <1>7, <1>8, <1>9 DEF ImagesInv

\* What a failure unmaps is the region.
LEMMA UnloadsImages ==
  ASSUME ImagesInv, step = "load", Unloads
  PROVE  ImagesInv'
<1>1. /\ step' = "failed" /\ UNCHANGED <<segments, req_base, at_base, size, cnt, total_sz>>
      /\ memory' = Mapped(memory, at_base, size, [x \in Address |-> Unmapped])
  BY DEF Unloads, Gone
<1>2. /\ at_base \in Nat /\ size \in Nat /\ segments \in Layouts /\ segments # <<>> /\ size = Extent
  BY DEF ImagesInv, ImagesTypeOK, Placed, Within
<1>3. /\ memory' \in [Address -> {Zero, Foreign, Unmapped} \cup Nat]
      /\ \A x \in Address : x < at_base \/ Up(at_base + size) <= x => memory'[x] = memory[x]
  BY <1>1, <1>2, MappedFacts DEF ImagesInv
<1>4. ImagesTypeOK'
  BY <1>1, <1>3 DEF ImagesInv, ImagesTypeOK, Steps
<1>5. OthersBeside'
  <2> SUFFICES ASSUME req_base = 0, Least(Starts) < PAGE
               PROVE  \A x \in Others : memory'[x] = Foreign
    BY <1>1, <1>2, SameFile DEF OthersBeside, Within
  <2>1. \A x \in Others : memory[x] = Foreign /\ x \in Address /\ (x < at_base \/ at_base + size <= x)
    BY ImagesAssumption DEF ImagesInv, OthersBeside, Within
  <2>2. OnPage(at_base) /\ OnPage(size)
    BY <1>2, RegionFacts DEF ImagesInv, Placed, Within
  <2>3. Up(at_base + size) = at_base + size
    <3>1. at_base + size \in Nat /\ OnPage(at_base + size)
      BY <1>2, <2>2, PageSums
    <3> QED BY <3>1, UpOnPage
  <2> QED BY <1>3, <2>1, <2>3
<1>6. Placed' /\ LastInPlace' /\ Totalled'
  BY <1>1 DEF Placed, LastInPlace, Totalled, Within
<1> QED BY <1>4, <1>5, <1>6 DEF ImagesInv

\* A segment that is loaded stays in the region and disturbs its own pages only.
LEMMA LoadSegmentImages == ImagesInv /\ LoadSegment => ImagesInv'
<1> SUFFICES ASSUME ImagesInv, LoadSegment PROVE ImagesInv'
  OBVIOUS
<1> DEFINE n == cnt + 1
<1>1. /\ step = "load" /\ cnt < Len(segments) /\ FileLen > 0 /\ Current = segments[n]
      /\ cnt' = n /\ total_sz' = total_sz + Up(SegEnd) - PBase
      /\ UNCHANGED <<segments, req_base, step, at_base, size>>
  BY DEF LoadSegment, Loads, Current
<1>2. /\ segments \in Layouts /\ segments # <<>> /\ size = Extent /\ size \in Nat /\ at_base \in Nat
      /\ segments \in Seq(Segment) /\ DOMAIN segments = 1..Len(segments) /\ Len(segments) \in Nat
      /\ cnt \in Nat /\ total_sz \in Nat /\ n \in DOMAIN segments /\ Address \subseteq Nat
  <2>1. segments \in Layouts /\ segments \in Seq(Segment)
    BY ImagesAssumption DEF ImagesInv, ImagesTypeOK
  <2> QED BY <1>1, <2>1 DEF ImagesInv, ImagesTypeOK, Placed, Within, Address
<1>3. /\ memory' \in [Address -> {Zero, Foreign, Unmapped} \cup Nat]
      /\ PBase <= Up(SegEnd) /\ Up(SegEnd) \in Nat
      /\ \A x \in Address :
           /\ x < PBase \/ Up(SegEnd) <= x => memory'[x] = memory[x]
           /\ PBase <= x /\ x < FileEnd => memory'[x] = Down(Current.offset) + (x - PBase)
           /\ OnPage(at_base) /\ Current.write /\ FileEnd <= x /\ x < SegEnd => memory'[x] = Zero
  BY LoadedBytes
<1>4. /\ Current.filesz <= Current.memsz
      /\ FirstPage(Current) \in Nat /\ EndPage(Current) \in Nat /\ FirstPage(Current) < EndPage(Current)
      /\ FirstPage(Current) <= Current.vaddr /\ Current.vaddr + Current.memsz <= EndPage(Current)
      /\ PBase = at_base + FirstPage(Current) /\ PBase \in Nat
      /\ FileEnd = at_base + Current.vaddr + Current.filesz
      /\ Current.vaddr \in Nat /\ Current.offset \in Nat /\ Current.filesz \in Nat /\ Current.memsz \in Nat
  BY <1>1, CurrentFacts DEF Segment
<1>13. OnPage(Current.vaddr - Current.offset)
  BY <1>1, CurrentFacts DEF OnPage
<1>14. PICK fp \in Nat, ep \in Nat, v \in Nat, fs \in Nat, ms \in Nat :
         /\ fp = FirstPage(Current) /\ ep = EndPage(Current)
         /\ v = Current.vaddr /\ fs = Current.filesz /\ ms = Current.memsz
  BY <1>4
<1>15. /\ fs <= ms /\ fp < ep /\ fp <= v /\ v + ms <= ep
       /\ PBase = at_base + fp /\ FileEnd = at_base + v + fs /\ SegEnd = at_base + v + ms
  BY <1>4, <1>14 DEF SegEnd
<1>5. OnPage(at_base) => Up(SegEnd) = at_base + ep
  <2>1. SegEnd = at_base + (v + ms) /\ v + ms \in Nat
    BY <1>2, <1>15
  <2>2. ep = Up(v + ms)
    BY <1>14 DEF EndPage
  <2> QED BY <1>2, <2>1, <2>2, UpShift
<1>6. Extent' = Extent /\ Greatest(Ends)' = Greatest(Ends) /\ Least(Starts)' = Least(Starts)
  BY <1>1, SameFile
<1>7. ImagesTypeOK'
  <2>1. total_sz' \in Nat
    BY <1>1, <1>2, <1>3, <1>15
  <2>2. cnt' \in 0..Len(segments)
    BY <1>1, <1>2
  <2> QED BY <1>1, <1>3, <2>1, <2>2 DEF ImagesInv, ImagesTypeOK
<1>8. Placed'
  <2>1. Up(Greatest(Ends))' = Up(Greatest(Ends))
    BY <1>6 DEF Up, Down
  <2> QED BY <1>1, <1>6, <2>1 DEF ImagesInv, Placed, OnPage, Within
<1>9. req_base = 0 \/ PrelinksFit =>
        /\ OnPage(at_base) /\ at_base + Up(Greatest(Ends)) <= Top
        /\ \A k \in DOMAIN segments : at_base + EndPage(segments[k]) <= Top
  <2>1. \A k \in DOMAIN segments : EndPage(segments[k]) \in Nat /\ EndPage(segments[k]) <= Up(Greatest(Ends))
    BY <1>2, RegionFacts
  <2>2. Up(Greatest(Ends)) \in Nat /\ Top \in Nat
    BY <1>2, RegionFacts, ImagesAssumption
  <2>3. req_base = 0 \/ PrelinksFit => OnPage(at_base) /\ at_base + Up(Greatest(Ends)) <= Top
    BY <1>1 DEF ImagesInv, Placed, Within
  <2> QED BY <1>2, <2>1, <2>2, <2>3
<1>10. OthersBeside'
  <2> SUFFICES ASSUME req_base = 0, Least(Starts) < PAGE
               PROVE  \A x \in Others : memory'[x] = Foreign /\ (x < at_base \/ at_base + size <= x)
    BY <1>1, <1>2, <1>6 DEF OthersBeside
  <2>1. \A x \in Others : memory[x] = Foreign /\ x \in Address /\ (x < at_base \/ at_base + size <= x)
    BY <1>1, ImagesAssumption DEF ImagesInv, OthersBeside, Within
  <2>2. ep <= size
    BY <1>1, <1>2, <1>14, RegionFacts
  <2>3. at_base <= PBase /\ Up(SegEnd) = at_base + ep /\ at_base + ep <= at_base + size
    BY <1>2, <1>5, <1>9, <1>15, <2>2
  <2>4. \A x \in Others : x < PBase \/ Up(SegEnd) <= x
    <3>1. \A x \in Others : x \in Nat /\ (x < at_base \/ at_base + size <= x)
      BY <1>2, <2>1
    <3> QED BY <1>2, <1>15, <2>2, <2>3, <3>1
  <2> QED BY <1>3, <2>1, <2>4
<1>11. LastInPlace'
  <2> SUFFICES ASSUME req_base = 0 \/ PrelinksFit, NEW k \in 1..n,
                      \A j \in k + 1 .. n : Apart(segments[k], segments[j])
               PROVE  InPlace(segments[k])'
    BY <1>1 DEF LastInPlace, Apart, EndPage, FirstPage, Up, Down
  <2>1. k \in DOMAIN segments
    BY <1>2
  <2>2. PICK s \in Segment : s = segments[k]
    BY <1>2, <2>1
  <2>3. PICK sv \in Nat, sf \in Nat, sm \in Nat, first \in Nat, end \in Nat :
          /\ sv = s.vaddr /\ sf = s.filesz /\ sm = s.memsz /\ first = FirstPage(s) /\ end = EndPage(s)
    <3>1. s.vaddr \in Nat /\ s.filesz \in Nat /\ s.memsz \in Nat
      BY DEF Segment
    <3>2. FirstPage(s) \in Nat /\ EndPage(s) \in Nat
      BY <1>2, <2>1, <2>2, RegionFacts
    <3> QED BY <3>1, <3>2
  <2>4. first <= sv /\ sv + sm <= end /\ at_base + end <= Top
    BY <1>2, <1>9, <2>1, <2>2, <2>3, RegionFacts
  <2> SUFFICES ASSUME NEW i \in 0 .. sm - 1, s.write \/ i < sf
               PROVE  memory'[at_base + sv + i] = Holds(s, i)
    BY <1>1, <2>2, <2>3 DEF InPlace, Holds
  <2>7. PICK x \in Address : /\ x = at_base + sv + i /\ x \in Nat
                             /\ at_base + first <= x /\ x < at_base + end /\ i \in Nat /\ i < sm
    BY <1>2, <2>4, ImagesAssumption DEF Address
  <2>5. CASE k = n
    <3>1. s = Current /\ sv = v /\ sf = fs /\ sm = ms /\ first = fp
      BY <1>1, <1>14, <2>2, <2>3, <2>5
    <3>2. PBase <= x /\ x < SegEnd
      BY <1>2, <1>15, <2>7, <3>1
    <3>3. CASE i < sf
      <4>1. x < FileEnd
        BY <1>2, <1>15, <2>7, <3>1, <3>3
      <4>2. memory'[x] = Down(Current.offset) + (x - PBase)
        BY <1>3, <3>2, <4>1
      <4>3. PICK o \in Nat, off \in Nat :
              o = Down(Current.offset) /\ off = Current.offset /\ v - fp = off - o
        <5>1. Current.vaddr - Down(Current.vaddr) = Current.offset - Down(Current.offset)
          BY <1>4, <1>13, SameInPage
        <5>2. Down(Current.offset) \in Nat
          BY <1>4, DownFacts
        <5> QED BY <1>4, <1>14, <5>1, <5>2 DEF FirstPage
      <4>4. x - PBase = (v - fp) + i
        BY <1>2, <1>15, <2>7, <3>1
      <4>5. memory'[x] = off + i
        <5>1. memory'[x] = o + ((off - o) + i)
          BY <4>2, <4>3, <4>4
        <5> QED BY <2>7, <5>1
      <4> QED BY <2>3, <2>7, <3>1, <3>3, <4>3, <4>5 DEF Holds
    <3>4. CASE ~(i < sf)
      <4>1. s.write /\ FileEnd <= x
        BY <1>2, <1>15, <2>7, <3>1, <3>4
      <4> QED BY <1>3, <1>9, <2>3, <2>7, <3>1, <3>2, <3>4, <4>1 DEF Holds
    <3> QED BY <3>3, <3>4
  <2>6. CASE k # n
    <3>1. k \in 1..cnt /\ n \in k + 1 .. n /\ \A j \in k + 1 .. cnt : j \in k + 1 .. n
      BY <1>2, <2>6
    <3>2. InPlace(s)
      BY <1>1, <2>2, <3>1 DEF ImagesInv, LastInPlace, Within
    <3>3. memory[x] = Holds(s, i)
      BY <2>3, <2>7, <3>2 DEF InPlace
    <3>4. end <= fp \/ ep <= first
      BY <1>1, <1>14, <2>2, <2>3, <3>1 DEF Apart
    <3>5. x < PBase \/ at_base + ep <= x
      BY <1>2, <1>15, <2>7, <3>4
    <3> QED BY <1>3, <1>5, <1>9, <2>7, <3>3, <3>5
  <2> QED BY <2>5, <2>6
<1>12. Totalled'
  <2>1. ASSUME req_base = 0 \/ PrelinksFit
        PROVE  /\ \A k \in 1..n : Span(segments[k]) > 0
               /\ n = 1 => total_sz' = Span(segments[1])
               /\ n = 2 => total_sz' = Span(segments[1]) + Span(segments[2])
    <3>1. /\ \A k \in 1..cnt : Span(segments[k]) > 0
          /\ cnt = 0 => total_sz = 0
          /\ cnt = 1 => total_sz = Span(segments[1])
      BY <1>1, <2>1 DEF ImagesInv, Totalled, Within
    <3>2. Up(SegEnd) - PBase = Span(segments[n]) /\ Span(segments[n]) > 0 /\ Span(segments[n]) \in Nat
      <4>1. Span(segments[n]) = ep - fp
        BY <1>1, <1>14 DEF Span
      <4>2. Up(SegEnd) = at_base + ep
        BY <1>5, <1>9, <2>1
      <4> QED BY <1>2, <1>15, <4>1, <4>2
    <3>3. total_sz' = total_sz + Span(segments[n])
      BY <1>1, <1>2, <1>3, <1>4, <3>2
    <3>4. \A k \in 1..n : k = n \/ k \in 1..cnt
      BY <1>2
    <3>5. \A k \in 1..n : Span(segments[k]) > 0
      BY <3>1, <3>2, <3>4
    <3>6. n = 1 => total_sz' = Span(segments[1])
      BY <1>2, <3>1, <3>2, <3>3
    <3>7. n = 2 => total_sz' = Span(segments[1]) + Span(segments[2])
      BY <1>2, <3>1, <3>3
    <3> QED BY <3>5, <3>6, <3>7
  <2>2. cnt' # 0
    BY <1>1, <1>2
  <2> QED BY <1>1, <2>1, <2>2 DEF Totalled, Span, EndPage, FirstPage, Up, Down
<1> QED BY <1>7, <1>8, <1>10, <1>11, <1>12 DEF ImagesInv

\* Every step.
LEMMA NextImages == ImagesInv /\ [ImagesNext]_imageVars => ImagesInv'
<1> SUFFICES ASSUME ImagesInv, [ImagesNext]_imageVars PROVE ImagesInv'
  OBVIOUS
<1>1. CASE LoadSegmentFails \/ LoadFailsOverlap
  BY <1>1, UnloadsImages DEF LoadSegmentFails, LoadFailsOverlap
<1>2. CASE Loaded
  <2>1. /\ step = "load" /\ step' = "loaded" /\ cnt = Len(segments) /\ total_sz <= size
        /\ UNCHANGED <<segments, req_base, memory, at_base, size, cnt, total_sz>>
    BY <1>2 DEF Loaded
  <2>2. Extent' = Extent /\ Greatest(Ends)' = Greatest(Ends) /\ Least(Starts)' = Least(Starts)
    BY <2>1, SameFile
  <2>3. ImagesTypeOK' /\ LastInPlace' /\ Totalled'
    BY <2>1 DEF ImagesInv, ImagesTypeOK, Steps, LastInPlace, InPlace, Holds, Apart, Totalled, Span, EndPage,
       FirstPage, Up, Down, Within
  <2>4. Placed'
    <3>1. Up(Greatest(Ends))' = Up(Greatest(Ends))
      BY <2>2 DEF Up, Down
    <3> QED BY <2>1, <2>2, <3>1 DEF ImagesInv, Placed, OnPage, Within
  <2>5. OthersBeside'
    BY <2>1, <2>2 DEF ImagesInv, OthersBeside, Within
  <2> QED BY <2>3, <2>4, <2>5 DEF ImagesInv
<1>3. CASE UNCHANGED imageVars
  <2>1. UNCHANGED <<segments, req_base, memory, step, at_base, size, cnt, total_sz>>
    BY <1>3 DEF imageVars
  <2>2. Extent' = Extent /\ Greatest(Ends)' = Greatest(Ends) /\ Least(Starts)' = Least(Starts)
    BY <2>1, SameFile
  <2>3. ImagesTypeOK' /\ LastInPlace' /\ Totalled'
    BY <2>1 DEF ImagesInv, ImagesTypeOK, LastInPlace, InPlace, Holds, Apart, Totalled, Span, EndPage,
       FirstPage, Up, Down, Within
  <2>4. Placed'
    <3>1. Up(Greatest(Ends))' = Up(Greatest(Ends))
      BY <2>2 DEF Up, Down
    <3> QED BY <2>1, <2>2, <3>1 DEF ImagesInv, Placed, OnPage, Within
  <2>5. OthersBeside'
    BY <2>1, <2>2 DEF ImagesInv, OthersBeside, Within
  <2> QED BY <2>3, <2>4, <2>5 DEF ImagesInv
<1> QED BY <1>1, <1>2, <1>3, ExtentsImages, ReserveImages, LoadSegmentImages DEF ImagesNext

\* While a library is loaded, by one of the two ways to get a region for it, the
\* region has its size and is beside the others, what was loaded is in its place
\* until something is loaded over it, and total_sz is the sum of the spans.
THEOREM ImagesInvariance == ImagesSpec => []ImagesInv
<1>1. ImagesInv /\ [ImagesNext]_imageVars => ImagesInv'
  BY NextImages
<1> QED BY <1>1, InitImages, PTL DEF ImagesSpec

\* A load that is not at a base of its own choosing, of a file that begins in
\* its first page, changes no byte that was another's: neither where it maps the
\* segments, nor where it clears the end of a page, nor where it unmaps what it
\* mapped after a failure.
THEOREM OthersAreUntouched == ImagesSpec => []OthersUntouched
<1>1. ImagesInv => OthersUntouched
  BY DEF ImagesInv, OthersBeside, OthersUntouched
<1> QED BY <1>1, ImagesInvariance, PTL

\* That total_sz is no more than the region is enough to tell two segments apart.
LEMMA LoadedApart ==
  ASSUME ImagesInv, PrelinksFit, OverlapsShow, step = "loaded",
         NEW j \in DOMAIN segments, NEW k \in DOMAIN segments, j # k
  PROVE  Apart(segments[j], segments[k])
<1>1. /\ segments \in Layouts /\ segments \in Seq(Segment) /\ Len(segments) \in Nat
      /\ DOMAIN segments = 1..Len(segments) /\ segments # <<>>
  <2>1. segments \in Layouts /\ segments \in Seq(Segment)
    BY ImagesAssumption DEF ImagesInv, ImagesTypeOK
  <2> QED BY <2>1 DEF ImagesInv, Placed, Within
<1>2. CASE Len(segments) > 2
  BY <1>1, <1>2 DEF OverlapsShow
<1>3. CASE Len(segments) <= 2
  <2>1. Len(segments) = 2 /\ DOMAIN segments = {1, 2}
    BY <1>1, <1>3
  <2>2. /\ cnt = 2 /\ total_sz = Span(segments[1]) + Span(segments[2]) /\ total_sz <= Extent
        /\ Span(segments[1]) > 0 /\ Span(segments[2]) > 0
    BY <2>1 DEF ImagesInv, Totalled, Placed, Within
  <2>3. /\ FirstPage(segments[1]) \in Nat /\ EndPage(segments[1]) \in Nat
        /\ FirstPage(segments[2]) \in Nat /\ EndPage(segments[2]) \in Nat
        /\ \E a, b \in {1, 2} : Extent = EndPage(segments[b]) - FirstPage(segments[a])
    BY <1>1, <2>1, RegionFacts
  <2>4. Apart(segments[1], segments[2])
    BY <2>2, <2>3 DEF Apart, Span
  <2> QED BY <2>1, <2>4 DEF Apart
<1> QED BY <1>1, <1>2, <1>3

\* What a library that was loaded reads in its segments is what its file has
\* there, and zeros where it may write and the file has nothing: no segment
\* that was loaded later, and no page cleared for one, is in the way.
THEOREM BytesAreInPlace == ASSUME PrelinksFit, OverlapsShow PROVE ImagesSpec => []BytesInPlace
<1>1. ImagesInv => BytesInPlace
  <2> SUFFICES ASSUME ImagesInv, step = "loaded", NEW k \in DOMAIN segments PROVE InPlace(segments[k])
    BY DEF BytesInPlace, InPlace
  <2>1. cnt = Len(segments) /\ DOMAIN segments = 1..Len(segments) /\ Len(segments) \in Nat
    <3>1. segments \in Seq(Segment)
      BY ImagesAssumption DEF ImagesInv, ImagesTypeOK
    <3> QED BY <3>1 DEF ImagesInv, Totalled
  <2>2. \A j \in k + 1 .. cnt : j \in DOMAIN segments /\ j # k
    BY <2>1
  <2>3. \A j \in k + 1 .. cnt : Apart(segments[k], segments[j])
    BY <2>2, LoadedApart
  <2> QED BY <2>1, <2>3 DEF ImagesInv, LastInPlace, Within
<1> QED BY <1>1, ImagesInvariance, PTL

-----------------------------------------------------------------------------
(* The hash table of one library.                                          *)

\* The symbol table is one.
Table(l) == symtab(l) \in Seq(Sym)

\* The bucket an entry is in.
Bucket(l, i) == elfhash[symtab(l)[i].name] % solist[l].nbucket

\* A bucket leads to its first entry at this place or behind it.
LEMMA InBucketFacts ==
  ASSUME NEW l, Table(l), NEW b, NEW from \in Nat \ {0}
  PROVE  /\ InBucket(l, b, from) # 0 =>
              /\ InBucket(l, b, from) \in from .. Len(symtab(l)) /\ Bucket(l, InBucket(l, b, from)) = b
              /\ \A j \in from .. Len(symtab(l)) : Bucket(l, j) = b => InBucket(l, b, from) <= j
         /\ InBucket(l, b, from) = 0 => \A j \in from .. Len(symtab(l)) : Bucket(l, j) # b
         /\ InBucket(l, b, from) \in 0 .. Len(symtab(l))
<1>1. Len(symtab(l)) \in Nat
  BY DEF Table
<1> DEFINE here == {i \in from .. Len(symtab(l)) : Bucket(l, i) = b}
<1>2. InBucket(l, b, from) = IF here = {} THEN 0 ELSE Min(here)
  BY DEF InBucket, Bucket
<1>3. CASE here = {}
  BY <1>1, <1>2, <1>3
<1>4. CASE here # {}
  <2>1. here \in SUBSET Nat
    BY <1>1
  <2>2. \E m \in here : \A k \in here : m <= k
    <3> HIDE DEF here
    <3> QED BY <1>4, <2>1, LeastNatural
  <2>3. Min(here) \in here /\ \A k \in here : Min(here) <= k
    <3> HIDE DEF here
    <3> QED BY <2>2 DEF Min
  <2>4. PICK m \in from .. Len(symtab(l)) :
          /\ m = InBucket(l, b, from) /\ Bucket(l, m) = b
          /\ \A j \in from .. Len(symtab(l)) : Bucket(l, j) = b => m <= j
    BY <1>2, <1>4, <2>3
  <2> QED BY <1>1, <2>4
<1> QED BY <1>3, <1>4

\* The entries from here on that count as definitions of a name, and the first
\* of them.
Named(l, name, from) == {j \in from .. Len(symtab(l)) : Counts(symtab(l)[j], name)}
First(S) == IF S = {} THEN 0 ELSE Min(S)

\* The first of a set is its least element, or 0.
LEMMA FirstFacts ==
  ASSUME NEW S \in SUBSET Nat
  PROVE  /\ S = {} => First(S) = 0
         /\ S # {} => First(S) \in S /\ \A k \in S : First(S) <= k
<1>1. CASE S = {}
  BY <1>1 DEF First
<1>2. CASE S # {}
  <2>1. \E m \in S : \A k \in S : m <= k
    BY <1>2, LeastNatural
  <2> QED BY <1>2, <2>1 DEF First, Min
<1> QED BY <1>1, <1>2

\* What the walk over a library's chains finds from each entry on.
Walked(l, name) ==
  [i \in 0 .. Len(symtab(l)) |->
     IF i # 0 /\ Bucket(l, i) = elfhash[name] % solist[l].nbucket THEN First(Named(l, name, i)) ELSE 0]

\* It takes the step that the code takes.
LEMMA WalkedStep ==
  ASSUME NEW l, Table(l), NEW name, NEW i \in 0 .. Len(symtab(l))
  PROVE  Walked(l, name)[i] = IF i = 0 \/ Counts(symtab(l)[i], name) THEN i
                              ELSE Walked(l, name)[chain(l, i)]
<1> DEFINE n == Len(symtab(l))
           b == elfhash[name] % solist[l].nbucket
           W == Walked(l, name)
<1>1. n \in Nat
  BY DEF Table
<1>2. \A j \in 0..n : W[j] = IF j # 0 /\ Bucket(l, j) = b THEN First(Named(l, name, j)) ELSE 0
  BY DEF Walked
<1>3. \A j \in 1..n : Counts(symtab(l)[j], name) => Bucket(l, j) = b
  BY DEF Counts, Bucket
<1>4. \A j \in 1..n : /\ Named(l, name, j) \in SUBSET Nat
                      /\ \A k : k \in Named(l, name, j) <=> k \in j..n /\ Counts(symtab(l)[k], name)
  BY <1>1 DEF Named
<1>5. CASE i = 0
  BY <1>1, <1>2, <1>5
<1>6. CASE i # 0 /\ Counts(symtab(l)[i], name)
  <2>1. i \in 1..n
    BY <1>1, <1>6
  <2>2. i \in Named(l, name, i)
    BY <1>1, <1>4, <1>6, <2>1
  <2>3. First(Named(l, name, i)) \in Named(l, name, i) /\ First(Named(l, name, i)) <= i
    BY <1>4, <2>1, <2>2, FirstFacts
  <2>4. First(Named(l, name, i)) = i
    BY <1>1, <1>4, <2>1, <2>3
  <2> QED BY <1>2, <1>3, <1>6, <2>1, <2>4
<1>7. CASE i # 0 /\ ~Counts(symtab(l)[i], name)
  <2>1. i \in 1..n /\ i + 1 \in Nat \ {0}
    BY <1>1, <1>7
  <2> DEFINE c == chain(l, i)
  <2>2. c = InBucket(l, Bucket(l, i), i + 1)
    BY DEF chain, Bucket
  <2>3. /\ c # 0 => /\ c \in i + 1 .. n /\ Bucket(l, c) = Bucket(l, i)
                    /\ \A j \in i + 1 .. n : Bucket(l, j) = Bucket(l, i) => c <= j
        /\ c = 0 => \A j \in i + 1 .. n : Bucket(l, j) # Bucket(l, i)
        /\ c \in 0..n
    BY <2>1, <2>2, InBucketFacts
  <2> HIDE DEF c
  <2>4. CASE Bucket(l, i) # b
    <3>1. W[i] = 0
      BY <1>2, <2>1, <2>4
    <3>2. W[c] = 0
      BY <1>2, <2>3, <2>4
    <3> QED BY <1>7, <3>1, <3>2 DEF c
  <2>5. CASE Bucket(l, i) = b /\ c = 0
    <3>1. Named(l, name, i) = {}
      BY <1>1, <1>3, <1>4, <1>7, <2>1, <2>3, <2>5
    <3>2. W[i] = 0 /\ W[c] = 0
      BY <1>1, <1>2, <2>1, <2>5, <3>1 DEF First
    <3> QED BY <1>7, <3>2 DEF c
  <2>6. CASE Bucket(l, i) = b /\ c # 0
    <3>1. c \in 1..n
      BY <1>1, <2>1, <2>3, <2>6
    <3>2. Named(l, name, i) = Named(l, name, c)
      <4>1. ASSUME NEW k \in Named(l, name, i) PROVE k \in Named(l, name, c)
        <5>1. k \in i..n /\ Counts(symtab(l)[k], name) /\ Bucket(l, k) = b
          BY <1>1, <1>3, <1>4, <2>1, <4>1
        <5>2. k \in i + 1 .. n
          BY <1>1, <1>7, <2>1, <5>1
        <5> QED BY <1>1, <1>4, <2>3, <2>6, <3>1, <5>1, <5>2
      <4>2. ASSUME NEW k \in Named(l, name, c) PROVE k \in Named(l, name, i)
        BY <1>1, <1>4, <2>1, <2>3, <2>6, <3>1, <4>2
      <4> QED BY <4>1, <4>2
    <3>3. W[i] = W[c]
      BY <1>2, <2>1, <2>3, <2>6, <3>1, <3>2
    <3> QED BY <1>7, <3>3 DEF c
  <2> QED BY <2>4, <2>5, <2>6
<1> QED BY <1>5, <1>6, <1>7

\* And no other function does: of the entries where another would differ, the
\* last leads to one where it does not.
LEMMA WalkedOnly ==
  ASSUME NEW l, Table(l), NEW name, NEW w,
         w = [i \in 0 .. Len(symtab(l)) |->
                IF i = 0 \/ Counts(symtab(l)[i], name) THEN i ELSE w[chain(l, i)]]
  PROVE  w = Walked(l, name)
<1> DEFINE n == Len(symtab(l))
           W == Walked(l, name)
           differ == {i \in 0..n : w[i] # W[i]}
<1>1. n \in Nat
  BY DEF Table
<1>2. \A i \in 0..n : w[i] = IF i = 0 \/ Counts(symtab(l)[i], name) THEN i ELSE w[chain(l, i)]
  OBVIOUS
<1>3. \A i \in 0..n : W[i] = IF i = 0 \/ Counts(symtab(l)[i], name) THEN i ELSE W[chain(l, i)]
  BY WalkedStep
<1>4. W = [i \in 0..n |-> W[i]] /\ w = [i \in 0..n |-> w[i]]
  BY DEF Walked
<1> HIDE DEF W
<1>5. differ = {}
  <2> SUFFICES ASSUME differ # {} PROVE FALSE
    OBVIOUS
  <2>1. PICK i \in differ : \A k \in differ : k <= i
    <3>1. differ \in SUBSET (0..n) /\ differ # {}
      OBVIOUS
    <3> HIDE DEF differ
    <3> QED BY <1>1, <3>1, GreatestElement
  <2>2. i # 0 /\ i \in 1..n /\ w[i] = w[chain(l, i)] /\ W[i] = W[chain(l, i)]
    BY <1>1, <1>2, <1>3, <2>1
  <2>3. chain(l, i) = 0 \/ chain(l, i) \in i + 1 .. n
    <3>1. i + 1 \in Nat \ {0}
      BY <1>1, <2>2
    <3>2. chain(l, i) = InBucket(l, Bucket(l, i), i + 1)
      BY DEF chain, Bucket
    <3> QED BY <3>1, <3>2, InBucketFacts
  <2>4. chain(l, i) \in 0..n /\ ~(chain(l, i) \in differ)
    <3>1. CASE chain(l, i) = 0
      BY <1>1, <1>2, <1>3, <3>1
    <3>2. CASE chain(l, i) \in i + 1 .. n
      BY <1>1, <2>1, <2>2, <3>2
    <3> QED BY <2>3, <3>1, <3>2
  <2> QED BY <2>1, <2>2, <2>4
<1> QED BY <1>4, <1>5

\* _elf_lookup finds the first definition of the name in the table, whatever
\* shares its hash, its bucket or its name.
THEOREM LookupFinds ==
  ASSUME NEW l, Table(l), NEW name
  PROVE  _elf_lookup(l, name) = First(Named(l, name, 1))
<1> DEFINE n == Len(symtab(l))
           b == elfhash[name] % solist[l].nbucket
           Step(w) == [i \in 0 .. Len(symtab(l)) |->
                         IF i = 0 \/ Counts(symtab(l)[i], name) THEN i ELSE w[chain(l, i)]]
           W == Walked(l, name)
<1>1. n \in Nat
  BY DEF Table
<1>2. W = Step(W)
  <2>1. W = [i \in 0..n |-> W[i]]
    BY DEF Walked
  <2> HIDE DEF W
  <2> QED BY <2>1, WalkedStep DEF W
<1>3. _elf_lookup(l, name) = W[bucket(l, b)]
  <2>1. _elf_lookup(l, name) = (CHOOSE w : w = Step(w))[bucket(l, b)]
    BY DEF _elf_lookup
  <2>2. (CHOOSE w : w = Step(w)) = Step(CHOOSE w : w = Step(w))
    BY <1>2
  <2>3. (CHOOSE w : w = Step(w)) = W
    BY <2>2, WalkedOnly
  <2> QED BY <2>1, <2>3
<1>4. \A j \in 1..n : Counts(symtab(l)[j], name) => Bucket(l, j) = b
  BY DEF Counts, Bucket
<1>5. /\ bucket(l, b) # 0 => /\ bucket(l, b) \in 1..n /\ Bucket(l, bucket(l, b)) = b
                             /\ \A j \in 1..n : Bucket(l, j) = b => bucket(l, b) <= j
      /\ bucket(l, b) = 0 => \A j \in 1..n : Bucket(l, j) # b
      /\ bucket(l, b) \in 0..n
  BY InBucketFacts DEF bucket
<1>6. \A j \in 0..n : W[j] = IF j # 0 /\ Bucket(l, j) = b THEN First(Named(l, name, j)) ELSE 0
  BY DEF Walked
<1>7. CASE bucket(l, b) = 0
  <2>1. Named(l, name, 1) = {}
    BY <1>1, <1>4, <1>5, <1>7 DEF Named
  <2> QED BY <1>1, <1>3, <1>5, <1>6, <1>7, <2>1 DEF First
<1>8. CASE bucket(l, b) # 0
  <2>1. Named(l, name, 1) = Named(l, name, bucket(l, b))
    BY <1>1, <1>4, <1>5, <1>8 DEF Named
  <2> QED BY <1>1, <1>3, <1>5, <1>6, <1>8, <2>1
<1> QED BY <1>7, <1>8

\* It finds one in the libraries that have one, and no other.
LEMMA LookupDefines ==
  ASSUME NEW l, Table(l), NEW name
  PROVE  /\ _elf_lookup(l, name) # 0 <=> Defines(l, name)
         /\ _elf_lookup(l, name) # 0 =>
              /\ _elf_lookup(l, name) \in DOMAIN symtab(l)
              /\ Counts(symtab(l)[_elf_lookup(l, name)], name)
<1>1. Len(symtab(l)) \in Nat /\ DOMAIN symtab(l) = 1 .. Len(symtab(l))
  BY DEF Table
<1>2. Named(l, name, 1) \in SUBSET Nat
  BY <1>1 DEF Named
<1>3. Defines(l, name) <=> Named(l, name, 1) # {}
  BY <1>1 DEF Defines, Named, ToSet
<1>4. CASE Named(l, name, 1) = {}
  BY <1>2, <1>3, <1>4, FirstFacts, LookupFinds
<1>5. CASE Named(l, name, 1) # {}
  <2>1. _elf_lookup(l, name) \in Named(l, name, 1)
    BY <1>2, <1>5, FirstFacts, LookupFinds
  <2>2. _elf_lookup(l, name) # 0
    BY <1>1, <2>1 DEF Named
  <2> QED BY <1>1, <1>3, <1>5, <2>1, <2>2 DEF Named
<1> QED BY <1>4, <1>5

-----------------------------------------------------------------------------
(* Relocation and dlsym.                                                   *)

\* What a place may hold.
Word == {Null, Base} \cup ({"hook"} \X Name) \cup ({"trap"} \X Int) \cup ({"at"} \X Nat \X Nat)

\* The relocations done are of this world.
WorldOK == world \in Worlds /\ words \in Seq(Word) /\ Len(words) <= Len(world.rels) /\ counter \in Int

\* Every reference relocated so far is to a hook, to a trap, or to what
\* _do_lookup finds, which may be nothing if the reference is weak.
AllBound ==
  \A k \in DOMAIN words : world.rels[k].sym # 0 =>
    LET s == symtab(1)[world.rels[k].sym]
    IN  /\ Hooked(s.name) => words[k] = Hook(s.name)
        /\ Trapped(s.name) => words[k][1] = "trap"
        /\ ~Hooked(s.name) /\ ~Trapped(s.name) =>
             /\ words[k] = _do_lookup(1, s.name)
             /\ words[k] = Null => s.bind = "WEAK"

\* What dlsym last said of the first library is what its table has.
AskedFound ==
  asked.in = 1 /\ asked.got # Null =>
    _elf_lookup(1, asked.name) # 0 /\ asked.got = DefinedAt(1, _elf_lookup(1, asked.name))

\* All of it, an inductive invariant.
SymInv == WorldOK /\ AllBound /\ AskedFound

\* FirstIn's answer is of the first library of the list that defines the name.
LEMMA FirstInFacts ==
  ASSUME NEW libs, libs \in Seq(DOMAIN solist), \A l \in DOMAIN solist : Table(l), NEW name
  PROVE  LET has == {k \in DOMAIN libs : Defines(libs[k], name)}
         IN  /\ has # {} => /\ Min(has) \in has /\ \A k \in has : Min(has) <= k
                            /\ FirstIn(libs, name) = DefinedAt(libs[Min(has)], _elf_lookup(libs[Min(has)], name))
             /\ has = {} => FirstIn(libs, name) = Null
<1> DEFINE has == {k \in DOMAIN libs : Defines(libs[k], name)}
<1>1. has \in SUBSET Nat
  OBVIOUS
<1>2. \A k \in DOMAIN libs : libs[k] \in DOMAIN solist
  OBVIOUS
<1>3. {k \in DOMAIN libs : _elf_lookup(libs[k], name) # 0} = has
  BY <1>2, LookupDefines
<1>4. FirstIn(libs, name) = IF has = {} THEN Null
                            ELSE DefinedAt(libs[Min(has)], _elf_lookup(libs[Min(has)], name))
  BY <1>3 DEF FirstIn
<1>5. has # {} => Min(has) \in has /\ \A k \in has : Min(has) <= k
  <2> HIDE DEF has
  <2> SUFFICES ASSUME has # {} PROVE Min(has) \in has /\ \A k \in has : Min(has) <= k
    OBVIOUS
  <2>1. \E m \in has : \A k \in has : m <= k
    BY <1>1, LeastNatural
  <2> QED BY <2>1 DEF Min
<1> QED BY <1>4, <1>5

\* What the assumption on worlds says of the one that is.
LEMMA WorldFacts ==
  ASSUME world \in Worlds
  PROVE  /\ solist \in Seq(Library) /\ 1 \in DOMAIN solist /\ DOMAIN solist \subseteq Nat
         /\ \A l \in DOMAIN solist : Table(l)
         /\ << 1 >> \o solist[1].needed \in Seq(DOMAIN solist)
         /\ world.rels \in Seq(Rel)
         /\ \A k \in DOMAIN world.rels : world.rels[k].sym # 0 =>
              world.rels[k].sym \in DOMAIN symtab(1) /\ symtab(1)[world.rels[k].sym] \in Sym
<1>1. /\ world \in World /\ world.solist # <<>>
      /\ \A r \in ToSet(world.rels) : r.sym \in 0 .. Len(world.solist[1].symtab)
      /\ \A l \in ToSet(world.solist) : ToSet(l.needed) \subseteq DOMAIN world.solist
  BY SymbolsAssumption
<1>2. solist \in Seq(Library) /\ world.rels \in Seq(Rel)
  BY <1>1 DEF World, solist
<1>3. 1 \in DOMAIN solist /\ DOMAIN solist \subseteq Nat
  BY <1>1, <1>2 DEF solist
<1>4. \A l \in DOMAIN solist : solist[l] \in Library /\ Table(l)
  <2>1. \A l \in DOMAIN solist : solist[l] \in Library
    BY <1>2
  <2>2. \A x \in Library : x.symtab \in Seq(Sym)
    BY DEF Library
  <2> QED BY <2>1, <2>2 DEF Table, symtab
<1>5. solist[1].needed \in Seq(Nat)
  BY <1>3, <1>4 DEF Library
<1>6. \A k \in DOMAIN solist[1].needed : solist[1].needed[k] \in DOMAIN solist
  BY <1>1, <1>3 DEF ToSet, solist
<1>7. solist[1].needed \in Seq(DOMAIN solist)
  BY <1>5, <1>6
<1>8. << 1 >> \o solist[1].needed \in Seq(DOMAIN solist)
  BY <1>3, <1>7
<1>9. ASSUME NEW k \in DOMAIN world.rels, world.rels[k].sym # 0
      PROVE  world.rels[k].sym \in DOMAIN symtab(1) /\ symtab(1)[world.rels[k].sym] \in Sym
  <2>1. world.rels[k].sym \in 0 .. Len(symtab(1))
    BY <1>1 DEF ToSet, symtab, solist
  <2>2. symtab(1) \in Seq(Sym)
    BY <1>3, <1>4 DEF Table
  <2> QED BY <1>9, <2>1, <2>2
<1> QED BY <1>2, <1>3, <1>4, <1>8, <1>9

\* _elf_lookup as a function of the world, which no step changes.
LookupIn(w, l, name) ==
  LET tab == w.solist[l].symtab
      in(b, from) ==
        LET there == {i \in from .. Len(tab) : elfhash[tab[i].name] % w.solist[l].nbucket = b}
        IN  IF there = {} THEN 0 ELSE Min(there)
      found[i \in 0 .. Len(tab)] ==
        IF i = 0 \/ Counts(tab[i], name) THEN i
        ELSE found[in(elfhash[tab[i].name] % w.solist[l].nbucket, i + 1)]
  IN  found[in(elfhash[name] % w.solist[l].nbucket, 1)]

\* So none of these changes.
LEMMA SameWorld ==
  ASSUME world' = world
  PROVE  /\ symtab(1)' = symtab(1)
         /\ \A n : Hooked(n)' = Hooked(n) /\ Trapped(n)' = Trapped(n)
         /\ \A l, n : _elf_lookup(l, n)' = _elf_lookup(l, n)
         /\ \A n : _do_lookup(1, n)' = _do_lookup(1, n)
<1>1. \A l, n : _elf_lookup(l, n) = LookupIn(world, l, n)
  BY DEF LookupIn, _elf_lookup, bucket, chain, InBucket, symtab, solist
<1>2. \A l, n : _elf_lookup(l, n)' = LookupIn(world', l, n)
  BY DEF LookupIn, _elf_lookup, bucket, chain, InBucket, symtab, solist
<1>3. \A l, n : _elf_lookup(l, n)' = _elf_lookup(l, n)
  BY <1>1, <1>2
<1>4. ASSUME NEW n PROVE _do_lookup(1, n)' = _do_lookup(1, n)
  BY <1>3 DEF _do_lookup, FirstIn, solist
<1> QED BY <1>3, <1>4 DEF symtab, solist, Hooked, Trapped

\* A place that is filled is the next one, and what was bound stays bound.
LEMMA PlacesBound ==
  ASSUME SymInv, Relocating, NEW what \in Word, Places(what), counter' \in Int,
         rel.sym # 0 =>
           /\ Hooked(entry.name) => what = Hook(entry.name)
           /\ Trapped(entry.name) => what[1] = "trap"
           /\ ~Hooked(entry.name) /\ ~Trapped(entry.name) =>
                what = _do_lookup(1, entry.name) /\ (what = Null => entry.bind = "WEAK")
  PROVE  SymInv'
<1>1. /\ world' = world /\ asked' = asked /\ words' = Append(words, what)
      /\ world.rels \in Seq(Rel) /\ words \in Seq(Word) /\ Len(words) < Len(world.rels)
  BY WorldFacts DEF SymInv, WorldOK, Places, Relocating
<1>2. /\ words' \in Seq(Word) /\ Len(words') = Len(words) + 1 /\ Len(words) \in Nat
      /\ \A k \in DOMAIN words : words'[k] = words[k]
      /\ words'[Len(words) + 1] = what
      /\ \A k \in DOMAIN words' : k \in DOMAIN words \/ k = Len(words) + 1
  BY <1>1
<1>3. WorldOK'
  BY <1>1, <1>2 DEF SymInv, WorldOK
<1>4. AskedFound'
  BY <1>1, SameWorld DEF SymInv, AskedFound
<1>5. /\ symtab(1)' = symtab(1)
      /\ \A n : Hooked(n)' = Hooked(n) /\ Trapped(n)' = Trapped(n) /\ _do_lookup(1, n)' = _do_lookup(1, n)
  BY <1>1, SameWorld
<1>6. AllBound'
  <2> SUFFICES ASSUME NEW k \in DOMAIN words', world.rels[k].sym # 0, NEW s, s = symtab(1)[world.rels[k].sym]
               PROVE  /\ Hooked(s.name) => words'[k] = Hook(s.name)
                      /\ Trapped(s.name) => words'[k][1] = "trap"
                      /\ ~Hooked(s.name) /\ ~Trapped(s.name) =>
                           words'[k] = _do_lookup(1, s.name) /\ (words'[k] = Null => s.bind = "WEAK")
    BY <1>1, <1>5 DEF AllBound
  <2>1. CASE k \in DOMAIN words
    BY <1>2, <2>1 DEF SymInv, AllBound
  <2>2. CASE k = Len(words) + 1
    BY <1>2, <2>2 DEF rel, entry
  <2> QED BY <1>2, <2>1, <2>2
<1> QED BY <1>3, <1>4, <1>6 DEF SymInv

\* No place is filled at first.
LEMMA InitSymbols == SymbolsInit => SymInv
<1> SUFFICES ASSUME SymbolsInit PROVE SymInv
  OBVIOUS
<1>1. world \in Worlds /\ words = <<>> /\ counter = -1 /\ asked.got = Null
  BY DEF SymbolsInit
<1>2. world.rels \in Seq(Rel)
  BY <1>1, WorldFacts
<1>3. WorldOK
  BY <1>1, <1>2 DEF WorldOK
<1> QED BY <1>1, <1>3 DEF SymInv, AllBound, AskedFound

\* What _do_lookup finds is a place in a library's table, or nothing.
LEMMA LookupWord ==
  ASSUME world \in Worlds, NEW name
  PROVE  _do_lookup(1, name) \in Word
<1> DEFINE libs == << 1 >> \o solist[1].needed
           has  == {k \in DOMAIN libs : Defines(libs[k], name)}
<1>1. libs \in Seq(DOMAIN solist) /\ \A l \in DOMAIN solist : Table(l)
  BY WorldFacts
<1>2. _do_lookup(1, name) = FirstIn(libs, name)
  BY DEF _do_lookup
<1>3. CASE has = {}
  BY <1>1, <1>2, <1>3, FirstInFacts DEF Word
<1>4. CASE has # {}
  <2>1. PICK k \in DOMAIN libs : _do_lookup(1, name) = DefinedAt(libs[k], _elf_lookup(libs[k], name))
                                 /\ Defines(libs[k], name)
    BY <1>1, <1>2, <1>4, FirstInFacts
  <2>2. libs[k] \in DOMAIN solist /\ libs[k] \in Nat
    BY <1>1, WorldFacts
  <2>3. _elf_lookup(libs[k], name) \in Nat
    <3>1. Table(libs[k])
      BY <1>1, <2>2
    <3>2. _elf_lookup(libs[k], name) \in DOMAIN symtab(libs[k])
      BY <2>1, <3>1, LookupDefines
    <3> QED BY <3>1, <3>2 DEF Table
  <2> QED BY <2>1, <2>2, <2>3 DEF Word, DefinedAt
<1> QED BY <1>3, <1>4

\* Every step.
LEMMA NextSymbols == SymInv /\ [SymbolsNext]_symbolVars => SymInv'
<1> SUFFICES ASSUME SymInv, [SymbolsNext]_symbolVars PROVE SymInv'
  OBVIOUS
<1>1. world \in Worlds /\ counter \in Int
  BY DEF SymInv, WorldOK
<1>2. ASSUME Relocating, rel.sym # 0 PROVE entry.name \in Name
  <2>1. Len(words) + 1 \in DOMAIN world.rels
    BY <1>2, WorldFacts, <1>1 DEF SymInv, WorldOK, Relocating
  <2>2. entry \in Sym
    BY <1>1, <1>2, <2>1, WorldFacts DEF rel, entry
  <2> QED BY <2>2 DEF Sym
<1>3. ASSUME NEW n
      PROVE  /\ get_hooked_symbol(n) = Null => ~Hooked(n) /\ ~Trapped(n)
             /\ get_hooked_symbol(n) # Null /\ Hooked(n) => get_hooked_symbol(n) = Hook(n) /\ ~Trapped(n)
             /\ get_hooked_symbol(n) # Null /\ ~Hooked(n) => get_hooked_symbol(n) = Trap(counter - 1) /\ Trapped(n)
  BY DEF get_hooked_symbol, Hooked, Trapped, Hook, Trap, Null
<1>4. ASSUME world' = world, words' = words, counter' \in Int, AskedFound' PROVE SymInv'
  <2>1. /\ symtab(1)' = symtab(1)
        /\ \A n : Hooked(n)' = Hooked(n) /\ Trapped(n)' = Trapped(n) /\ _do_lookup(1, n)' = _do_lookup(1, n)
    BY <1>4, SameWorld
  <2>2. AllBound'
    BY <1>4, <2>1 DEF SymInv, AllBound
  <2> QED BY <1>4, <2>2 DEF SymInv, WorldOK
<1>5. asked' = asked /\ world' = world => AskedFound'
  BY SameWorld DEF SymInv, AskedFound
<1>6. CASE RelocateBase
  BY <1>1, <1>6, PlacesBound DEF RelocateBase, Word
<1>7. CASE RelocateHooked
  <2> DEFINE what == get_hooked_symbol(entry.name)
  <2>1. Relocating /\ rel.sym # 0 /\ what # Null /\ Places(what) /\ counter' = Counted(entry.name)
    BY <1>7 DEF RelocateHooked
  <2>2. counter' \in Int
    BY <1>1, <2>1 DEF Counted
  <2>3. what \in Word
    BY <1>1, <1>2, <1>3, <2>1 DEF Word, Hook, Trap
  <2>4. /\ Hooked(entry.name) => what = Hook(entry.name)
        /\ Trapped(entry.name) => what[1] = "trap"
        /\ Hooked(entry.name) \/ Trapped(entry.name)
    BY <1>3, <2>1 DEF Trap
  <2> HIDE DEF what
  <2> QED BY <2>1, <2>2, <2>3, <2>4, PlacesBound
<1>8. CASE RelocateDefined
  <2>1. Relocating /\ Places(_do_lookup(1, entry.name)) /\ counter' = counter
        /\ get_hooked_symbol(entry.name) = Null /\ _do_lookup(1, entry.name) # Null
    BY <1>8 DEF RelocateDefined
  <2>2. ~Hooked(entry.name) /\ ~Trapped(entry.name)
    BY <1>3, <2>1
  <2>3. _do_lookup(1, entry.name) \in Word
    BY <1>1, LookupWord
  <2> QED BY <1>1, <2>1, <2>2, <2>3, PlacesBound
<1>9. CASE RelocateWeak
  <2>1. Relocating /\ Places(Null) /\ counter' = counter /\ entry.bind = "WEAK"
        /\ get_hooked_symbol(entry.name) = Null /\ _do_lookup(1, entry.name) = Null
    BY <1>9 DEF RelocateWeak
  <2>2. ~Hooked(entry.name) /\ ~Trapped(entry.name) /\ Null \in Word
    BY <1>3, <2>1 DEF Word
  <2> QED BY <1>1, <2>1, <2>2, PlacesBound
<1>10. CASE RelocateFails
  <2>1. counter' \in Int
    BY <1>1, <1>10 DEF RelocateFails, Counted
  <2> QED BY <1>4, <1>5, <1>10, <2>1 DEF RelocateFails
<1>11. CASE Relocated
  BY <1>1, <1>4, <1>5, <1>11 DEF Relocated
<1>12. ASSUME NEW l \in DOMAIN solist, NEW name \in Name, dlsym(l, name) PROVE SymInv'
  <2> DEFINE found == IF _elf_lookup(l, name) # 0 THEN DefinedAt(l, _elf_lookup(l, name)) ELSE Null
  <2>1. /\ asked' = [in |-> l, name |-> name, got |-> Answer(found)]
        /\ UNCHANGED <<world, words, counter, linked>>
    BY <1>12 DEF dlsym, Asks
  <2>2. Answer(found) # Null => _elf_lookup(l, name) # 0 /\ Answer(found) = DefinedAt(l, _elf_lookup(l, name))
    BY DEF Answer
  <2>3. \A i, n : _elf_lookup(i, n)' = _elf_lookup(i, n)
    BY <2>1, SameWorld
  <2> HIDE DEF found
  <2>4. AskedFound'
    BY <2>1, <2>2, <2>3 DEF AskedFound
  <2> QED BY <1>1, <1>4, <2>1, <2>4
<1>13. ASSUME NEW l \in DOMAIN solist, NEW name \in Name, dlsym_next(l, name) PROVE SymInv'
  <2>1. /\ asked'.in = NONE /\ UNCHANGED <<world, words, counter, linked>>
    BY <1>13 DEF dlsym_next, Asks
  <2>2. AskedFound'
    BY <2>1, SymbolsAssumption DEF AskedFound
  <2> QED BY <1>1, <1>4, <2>1, <2>2
<1>14. CASE UNCHANGED symbolVars
  BY <1>1, <1>4, <1>5, <1>14 DEF symbolVars
<1> QED BY <1>6, <1>7, <1>8, <1>9, <1>10, <1>11, <1>12, <1>13, <1>14 DEF SymbolsNext

\* What ReferencesBound says of one reference.
Reference(k, s, scope, first) ==
  /\ CASE Hooked(s.name)  -> words[k] = Hook(s.name)
       [] Trapped(s.name) -> words[k][1] = "trap"
       [] OTHER -> IF \E l \in ToSet(scope) : Defines(l, s.name)
                     THEN \E i \in DOMAIN symtab(scope[first]) :
                            /\ words[k] = DefinedAt(scope[first], i)
                            /\ Counts(symtab(scope[first])[i], s.name)
                     ELSE words[k] = Null /\ s.bind = "WEAK"
  /\ asked.in = 1 /\ asked.name = s.name /\ asked.got # Null /\ words[k][1] = "at" =>
       words[k] = asked.got

\* The first place is the least.
LEMMA AtMostOne ==
  ASSUME NEW n \in Nat, NEW i \in 1 .. n, i <= 1
  PROVE  i = 1
  OBVIOUS

\* The invariant says as much.
LEMMA ReferenceBound ==
  ASSUME SymInv, NEW k \in DOMAIN words, world.rels[k].sym # 0,
         NEW s, s = symtab(1)[world.rels[k].sym],
         NEW scope, scope = << 1 >> \o solist[1].needed,
         NEW first, first = Min({j \in DOMAIN scope : Defines(scope[j], s.name)})
  PROVE  Reference(k, s, scope, first)
<1> DEFINE has == {j \in DOMAIN scope : Defines(scope[j], s.name)}
<1>1. world \in Worlds
  BY DEF SymInv, WorldOK
<1>2. scope \in Seq(DOMAIN solist) /\ \A l \in DOMAIN solist : Table(l)
  BY <1>1, WorldFacts
<1>3. /\ Hooked(s.name) => words[k] = Hook(s.name)
      /\ Trapped(s.name) => words[k][1] = "trap"
      /\ ~Hooked(s.name) /\ ~Trapped(s.name) =>
           words[k] = _do_lookup(1, s.name) /\ (words[k] = Null => s.bind = "WEAK")
  BY DEF SymInv, AllBound
<1>4. /\ has # {} => /\ first \in has /\ \A j \in has : first <= j
                     /\ _do_lookup(1, s.name) = DefinedAt(scope[first], _elf_lookup(scope[first], s.name))
      /\ has = {} => _do_lookup(1, s.name) = Null
  <2>1. /\ has # {} => /\ Min(has) \in has /\ \A j \in has : Min(has) <= j
                       /\ FirstIn(scope, s.name) = DefinedAt(scope[Min(has)], _elf_lookup(scope[Min(has)], s.name))
        /\ has = {} => FirstIn(scope, s.name) = Null
    BY <1>2, FirstInFacts
  <2>2. first = Min(has)
    OBVIOUS
  <2>3. _do_lookup(1, s.name) = FirstIn(scope, s.name)
    BY DEF _do_lookup
  <2> HIDE DEF has
  <2> QED BY <2>1, <2>2, <2>3
<1>5. (\E l \in ToSet(scope) : Defines(l, s.name)) <=> has # {}
  BY <1>2 DEF ToSet
<1>6. ASSUME has # {}
      PROVE  /\ _elf_lookup(scope[first], s.name) \in DOMAIN symtab(scope[first])
             /\ Counts(symtab(scope[first])[_elf_lookup(scope[first], s.name)], s.name)
  <2>1. first \in DOMAIN scope /\ Defines(scope[first], s.name)
    BY <1>4, <1>6
  <2>2. Table(scope[first])
    <3>1. \A j \in DOMAIN scope : scope[j] \in DOMAIN solist
      BY <1>2
    <3> QED BY <1>2, <2>1, <3>1
  <2> QED BY <2>1, <2>2, LookupDefines
<1>7. ASSUME asked.in = 1, asked.name = s.name, asked.got # Null, words[k][1] = "at"
      PROVE  words[k] = asked.got
  <2>1. ~Hooked(s.name) /\ ~Trapped(s.name)
    BY <1>3, <1>7 DEF Hook
  <2>2. _elf_lookup(1, s.name) # 0 /\ asked.got = DefinedAt(1, _elf_lookup(1, s.name))
    BY <1>7 DEF SymInv, AskedFound
  <2>3. Defines(1, s.name)
    BY <1>1, <2>2, WorldFacts, LookupDefines
  <2>4. 1 \in DOMAIN scope /\ scope[1] = 1 /\ DOMAIN scope = 1 .. Len(scope) /\ Len(scope) \in Nat
    <3>1. solist[1].needed \in Seq(Nat)
      BY <1>1, WorldFacts DEF Library
    <3> QED BY <3>1
  <2>5. 1 \in has
    BY <2>3, <2>4
  <2>6. first = 1
    <3>1. first \in has /\ first <= 1
      BY <1>4, <2>5
    <3>2. first \in 1 .. Len(scope)
      BY <2>4, <3>1
    <3> QED BY <2>4, <3>1, <3>2, AtMostOne
  <2> QED BY <1>3, <1>4, <2>1, <2>2, <2>4, <2>5, <2>6
<1>8. CASE Hooked(s.name)
  <2>1. ~Trapped(s.name)
    BY <1>8 DEF Hooked, Trapped
  <2> QED BY <1>3, <1>7, <1>8, <2>1 DEF Reference
<1>9. CASE Trapped(s.name)
  <2>1. ~Hooked(s.name)
    BY <1>9 DEF Hooked, Trapped
  <2> QED BY <1>3, <1>7, <1>9, <2>1 DEF Reference
<1>10. CASE ~Hooked(s.name) /\ ~Trapped(s.name)
  BY <1>3, <1>4, <1>5, <1>6, <1>7, <1>10 DEF Reference
<1> QED BY <1>8, <1>9, <1>10

\* In every world, however many libraries and entries it has and whatever their
\* names and hashes are, each reference of a library that was relocated is to
\* its hook, or to the first definition in the library's scope, or weak and to
\* nothing, and dlsym gives the same definition.
THEOREM ReferencesAreBound == SymbolsSpec => []ReferencesBound
<1>1. SymbolsInit => SymInv
  BY InitSymbols
<1>2. SymInv /\ [SymbolsNext]_symbolVars => SymInv'
  BY NextSymbols
<1>3. SymInv => ReferencesBound
  <2> SUFFICES ASSUME SymInv, NEW k \in DOMAIN words, world.rels[k].sym # 0
               PROVE  LET s     == symtab(1)[world.rels[k].sym]
                          scope == << 1 >> \o solist[1].needed
                      IN  Reference(k, s, scope, Min({j \in DOMAIN scope : Defines(scope[j], s.name)}))
    BY DEF ReferencesBound, Reference
  <2> QED BY ReferenceBound
<1> QED BY <1>1, <1>2, <1>3, PTL DEF SymbolsSpec

=============================================================================
