-------------------------- MODULE MemoryAccessProofs --------------------------
(***************************************************************************)
(* The checks of memory access are exact, for an address space of any size *)
(* cut into regions in any way that the configurator may produce.          *)
(***************************************************************************)
EXTENDS MemoryAccess, WellFoundedInduction, FiniteSetTheorems, TLAPS

\* The inductive invariant: the regions never change, and calls name areas.
MemInv ==
  /\ memmap \in MemMap /\ prun \in MemTask
  /\ area \in [base : Addresses, size : 0..(ADDRMOD - 1)]

-----------------------------------------------------------------------------
(* Induction: by the least of a set of natural numbers.                      *)

Less == {w \in Nat \X Nat : w[1] < w[2]}

\* A non-empty set of natural numbers has a least element.
LEMMA LeastNumber ==
  ASSUME NEW T \in SUBSET Nat, T # {}
  PROVE  \E n \in T : \A m \in T : n <= m
<1>1. IsWellFoundedOn(Less, Nat)
  BY NatLessThanWellFounded DEF OpToRel, Less
<1>2. PICK n \in T : \A m \in T : ~ (<<m, n>> \in Less)
  BY <1>1, WFMin
<1>3. ASSUME NEW m \in T PROVE n <= m
  <2>1. <<m, n>> \notin Less
    BY <1>2
  <2>2. ~(m < n)
    BY <2>1 DEF Less
  <2> QED
    BY <2>2
<1> QED
  BY <1>3

\* The remainder of what is smaller than the modulus.
LEMMA SmallRemainder ==
  ASSUME NEW n \in Nat \ {0}, NEW y \in 0..(n - 1)
  PROVE  y % n = y
OBVIOUS

\* The remainder of a small negative number.
LEMMA NegativeRemainder ==
  ASSUME NEW n \in Nat \ {0}, NEW y \in 1..(n - 1)
  PROVE  (0 - y) % n = n - y
OBVIOUS

-----------------------------------------------------------------------------
(* The regions. *)

\* Where region i ends.
End(i) == IF i < Len(memmap) THEN memmap[i + 1].top ELSE ADDRMOD

\* Address x is in region i.
InRegion(x, i) == i \in DOMAIN memmap /\ memmap[i].top <= x /\ x < End(i)

\* What the configurator guarantees of the present map.
LEMMA MapFacts ==
  ASSUME MemInv
  PROVE  /\ ADDRMOD \in Nat \ {0, 1}
         /\ Len(memmap) \in Nat /\ Len(memmap) >= 2 /\ DOMAIN memmap = 1..Len(memmap)
         /\ memmap[1].top = 0
         /\ \A i \in 1..Len(memmap) :
              /\ memmap[i] \in Region /\ memmap[i].top \in Addresses
              /\ i > 1 => memmap[i - 1].top < memmap[i].top
              /\ "NOWRITE" \in memmap[i].accatr => memmap[i].acptn1 = {}
              /\ "NOEXS" \in memmap[i].accatr =>
                   /\ memmap[i].accatr = {"NOEXS"}
                   /\ memmap[i].acptn1 \union memmap[i].acptn2 \union memmap[i].acptn4 = {}
<1>1. memmap \in Seq(Region) /\ ADDRMOD \in Nat \ {0, 1}
  BY MapAssumption DEF MapAssumption, MemInv
<1>2. Len(memmap) \in Nat /\ DOMAIN memmap = 1..Len(memmap)
      /\ \A i \in 1..Len(memmap) : memmap[i] \in Region
  BY <1>1
<1>3. \A i \in 1..Len(memmap) : memmap[i].top \in Addresses
  BY <1>2 DEF Region, Addresses
<1> QED
  BY <1>1, <1>2, <1>3, MapAssumption DEF MapAssumption, MemInv

\* The regions are in the order of their addresses.
LEMMA RegionsSorted ==
  ASSUME MemInv, NEW i \in 1..Len(memmap), NEW j \in 1..Len(memmap), i < j
  PROVE  memmap[i].top < memmap[j].top
<1> DEFINE T == {k \in 1..Len(memmap) : i < k /\ ~(memmap[i].top < memmap[k].top)}
<1>1. SUFFICES ASSUME T # {} PROVE FALSE
  OBVIOUS
<1>2. PICK k \in T : \A m \in T : k <= m
  <2>1. T \in SUBSET Nat
    BY MapFacts
  <2> QED
    BY <1>1, <2>1, LeastNumber
<1>3. k \in 1..Len(memmap) /\ i < k /\ k - 1 \in 1..Len(memmap) /\ k - 1 < k
  BY <1>2, MapFacts
<1>4. memmap[k - 1].top < memmap[k].top
  BY <1>3, MapFacts
<1>5. /\ memmap[i].top \in Nat /\ memmap[k].top \in Nat /\ memmap[k - 1].top \in Nat
  BY <1>3, MapFacts DEF Addresses
<1>6. k - 1 \notin T
  BY <1>2, <1>3
<1>7. k - 1 = i \/ memmap[i].top < memmap[k - 1].top
  BY <1>3, <1>6
<1>8. memmap[i].top < memmap[k].top
  BY <1>4, <1>5, <1>7
<1> QED
  BY <1>2, <1>8

\* An address is in one region at most.
LEMMA RegionUnique ==
  ASSUME MemInv, NEW x \in Addresses, NEW i, NEW j, InRegion(x, i), InRegion(x, j)
  PROVE  i = j
<1>1. ASSUME NEW k, NEW l, InRegion(x, k), InRegion(x, l), k < l PROVE FALSE
  <2>1. k \in 1..Len(memmap) /\ l \in 1..Len(memmap) /\ k + 1 \in 1..Len(memmap) /\ k + 1 <= l
    BY <1>1, MapFacts DEF InRegion
  <2>2. x < memmap[k + 1].top /\ memmap[l].top <= x
    BY <1>1, <2>1, MapFacts DEF InRegion, End
  <2>3. k + 1 = l \/ memmap[k + 1].top < memmap[l].top
    BY <2>1, RegionsSorted, MapFacts
  <2>4. x \in Nat /\ memmap[k + 1].top \in Nat /\ memmap[l].top \in Nat
    BY <2>1, MapFacts DEF Addresses
  <2> QED
    BY <2>2, <2>3, <2>4
<1>2. i \in Nat /\ j \in Nat
  BY MapFacts DEF InRegion
<1> QED
  BY <1>1, <1>2

\* RegionAt is the region of an address.
LEMMA RegionAtIs ==
  ASSUME MemInv, NEW x \in Addresses, NEW i, InRegion(x, i)
  PROVE  RegionAt(x) = i
<1> DEFINE P(k) == /\ k \in DOMAIN memmap /\ memmap[k].top <= x
                   /\ \A j \in DOMAIN memmap : memmap[j].top <= x => j <= k
<1>1. x \in Nat /\ \A k \in DOMAIN memmap : memmap[k].top \in Nat /\ k \in Nat
  BY MapFacts DEF Addresses
<1>2. P(i)
  <2>1. ASSUME NEW j \in DOMAIN memmap, memmap[j].top <= x, ~(j <= i) PROVE FALSE
    <3>1. i \in 1..Len(memmap) /\ j \in 1..Len(memmap) /\ i + 1 \in 1..Len(memmap) /\ i + 1 <= j
      BY <2>1, MapFacts DEF InRegion
    <3>2. x < memmap[i + 1].top
      BY <3>1, MapFacts DEF InRegion, End
    <3>3. i + 1 = j \/ memmap[i + 1].top < memmap[j].top
      BY <3>1, RegionsSorted, MapFacts
    <3> QED
      BY <1>1, <2>1, <3>1, <3>2, <3>3, MapFacts
  <2> QED
    BY <2>1 DEF InRegion
<1>3. ASSUME NEW k, P(k) PROVE k = i
  BY <1>1, <1>2, <1>3
<1>4. RegionAt(x) = CHOOSE k : P(k)
  BY DEF RegionAt
<1> QED
  BY <1>2, <1>3, <1>4

-----------------------------------------------------------------------------
(* The bisection. *)

\* Of the regions l to r, i is the last one that begins at addr or before, or l.
LastOf(addr, l, r, i) ==
  /\ i \in l..r
  /\ i = l \/ memmap[i].top <= addr
  /\ \A j \in (i + 1)..r : addr < memmap[j].top

Halve(addr, f, w) ==
  IF w[1] >= w[2] THEN w[1]
  ELSE IF addr < memmap[Middle(w)].top THEN f[<<w[1], Middle(w) - 1>>]
  ELSE f[<<Middle(w), w[2]>>]

Bisect(addr) == CHOOSE f : f = [w \in Interval |-> Halve(addr, f, w)]

\* The index a correct search ends with.
Sought(addr, w) ==
  IF w[1] >= w[2] THEN w[1] ELSE CHOOSE i : LastOf(addr, w[1], w[2], i)

\* The middle divides what is left into two parts, neither of them empty.
LEMMA MiddleInside ==
  ASSUME MemInv, NEW w \in Interval, w[1] < w[2]
  PROVE  /\ w[1] \in 1..Len(memmap) /\ w[2] \in 1..Len(memmap)
         /\ Middle(w) \in (w[1] + 1)..w[2]
         /\ <<w[1], Middle(w) - 1>> \in Interval /\ <<Middle(w), w[2]>> \in Interval
<1>1. w[1] \in 1..Len(memmap) /\ w[2] \in 1..Len(memmap) /\ Len(memmap) \in Nat
  BY MapFacts DEF Interval
<1>2. Middle(w) \in (w[1] + 1)..w[2]
  BY <1>1 DEF Middle
<1>3. Middle(w) - 1 \in 1..Len(memmap) /\ Middle(w) \in 1..Len(memmap)
  BY <1>1, <1>2
<1> QED
  BY <1>1, <1>2, <1>3 DEF Interval

\* There is one last region.
LEMMA LastUnique ==
  ASSUME MemInv, NEW addr \in Addresses,
         NEW l \in 1..Len(memmap), NEW r \in 1..Len(memmap), l <= r
  PROVE  \E i : LastOf(addr, l, r, i) /\ \A k : LastOf(addr, l, r, k) => k = i
<1>1. Len(memmap) \in Nat /\ addr \in Nat
      /\ \A k \in 1..Len(memmap) : memmap[k].top \in Nat
  BY MapFacts DEF Addresses
<1> DEFINE T == {d \in 0..(r - l) : r - d = l \/ memmap[r - d].top <= addr}
<1>2. PICK d \in T : \A m \in T : d <= m
  <2>1. r - l \in T /\ T \in SUBSET Nat
    BY <1>1
  <2> QED
    BY <2>1, LeastNumber
<1>3. r - d \in l..r
  BY <1>1, <1>2
<1>4. ASSUME NEW j \in (r - d + 1)..r PROVE addr < memmap[j].top
  <2>1. r - j \in 0..(r - l) /\ r - j < d /\ j \in 1..Len(memmap) /\ r - (r - j) = j
    BY <1>1, <1>2, <1>3
  <2>2. r - j \notin T
    <3>1. d \in Nat /\ r - j \in Nat /\ ~(d <= r - j)
      BY <1>1, <1>2, <2>1
    <3> QED
      BY <1>2, <3>1
  <2>3. ~(memmap[j].top <= addr)
    BY <2>1, <2>2
  <2> QED
    BY <1>1, <2>1, <2>3
<1>5. LastOf(addr, l, r, r - d)
  BY <1>2, <1>3, <1>4 DEF LastOf
<1>6. ASSUME NEW i, NEW k, LastOf(addr, l, r, i), LastOf(addr, l, r, k), i < k PROVE FALSE
  <2>1. k \in (i + 1)..r /\ k # l /\ k \in 1..Len(memmap)
    BY <1>1, <1>6 DEF LastOf
  <2> QED
    BY <1>1, <1>6, <2>1 DEF LastOf
<1>7. ASSUME NEW k, LastOf(addr, l, r, k) PROVE k = r - d
  <2>1. k \in l..r
    BY <1>7 DEF LastOf
  <2>2. k \in Int /\ r - d \in Int
    BY <1>1, <1>3, <2>1
  <2>3. ~(k < r - d) /\ ~(r - d < k)
    BY ONLY <1>5, <1>6, <1>7, Zenon
  <2> QED
    BY ONLY <2>2, <2>3
<1> QED
  BY <1>5, <1>7

\* Searching one of the halves finds what a search of the whole would.
LEMMA HalfIsEnough ==
  ASSUME MemInv, NEW addr \in Addresses, NEW w \in Interval, w[1] < w[2], NEW i,
         IF addr < memmap[Middle(w)].top THEN LastOf(addr, w[1], Middle(w) - 1, i)
         ELSE LastOf(addr, Middle(w), w[2], i)
  PROVE  LastOf(addr, w[1], w[2], i)
<1> DEFINE m == Middle(w)
<1>1. /\ w[1] \in 1..Len(memmap) /\ w[2] \in 1..Len(memmap) /\ m \in (w[1] + 1)..w[2]
  BY MiddleInside
<1>2. /\ w[1] \in 1..Len(memmap) /\ w[2] \in 1..Len(memmap) /\ m \in (w[1] + 1)..w[2]
      /\ Len(memmap) \in Nat /\ m \in 1..Len(memmap)
  <2> HIDE DEF m
  <2> QED
    BY <1>1, MapFacts
<1>3. addr \in Nat /\ \A k \in 1..Len(memmap) : memmap[k].top \in Nat
  BY MapFacts DEF Addresses
<1> HIDE DEF m
<1>4. CASE addr < memmap[m].top
  <2>1. LastOf(addr, w[1], m - 1, i)
    BY <1>4 DEF m
  <2>2. ASSUME NEW j \in (i + 1)..w[2] PROVE addr < memmap[j].top
    <3>1. CASE j <= m - 1
      BY <1>2, <2>1, <2>2, <3>1 DEF LastOf
    <3>2. CASE j = m
      BY <1>4, <3>2
    <3>3. CASE j > m
      <4>1. j \in 1..Len(memmap) /\ m < j
        BY <1>2, <2>1, <2>2, <3>3
      <4>2. memmap[m].top < memmap[j].top
        BY <1>2, <4>1, RegionsSorted
      <4> QED
        BY <1>2, <1>3, <1>4, <4>1, <4>2
    <3> QED
      BY <1>2, <2>1, <2>2, <3>1, <3>2, <3>3 DEF LastOf
  <2> QED
    BY <1>2, <2>1, <2>2 DEF LastOf
<1>5. CASE ~(addr < memmap[m].top)
  <2>1. LastOf(addr, m, w[2], i)
    BY <1>5 DEF m
  <2>2. memmap[i].top <= addr
    BY <1>2, <1>3, <1>5, <2>1 DEF LastOf
  <2> QED
    BY <1>2, <2>1, <2>2 DEF LastOf
<1> QED
  BY <1>4, <1>5

\* What the search returns is what Halve makes of itself.
LEMMA BisectUnfolds ==
  ASSUME MemInv, NEW addr \in Addresses
  PROVE  Bisect(addr) = [w \in Interval |-> Halve(addr, Bisect(addr), w)]
<1> DEFINE g == [w \in Interval |-> Sought(addr, w)]
<1>1. ASSUME NEW w \in Interval PROVE Halve(addr, g, w) = Sought(addr, w)
  <2>1. CASE w[1] >= w[2]
    BY <2>1 DEF Halve, Sought
  <2>2. CASE ~(w[1] >= w[2])
    <3> DEFINE v == IF addr < memmap[Middle(w)].top THEN <<w[1], Middle(w) - 1>>
                    ELSE <<Middle(w), w[2]>>
    <3>1. /\ w[1] \in 1..Len(memmap) /\ w[2] \in 1..Len(memmap) /\ Len(memmap) \in Nat
          /\ w[1] < w[2]
      <4>1. w[1] \in 1..Len(memmap) /\ w[2] \in 1..Len(memmap) /\ Len(memmap) \in Nat
        BY MapFacts DEF Interval
      <4> QED
        BY <2>2, <4>1
    <3>2. /\ Middle(w) \in (w[1] + 1)..w[2]
          /\ <<w[1], Middle(w) - 1>> \in Interval /\ <<Middle(w), w[2]>> \in Interval
      BY <3>1, MiddleInside
    <3>3. v \in Interval /\ v[1] \in 1..Len(memmap) /\ v[2] \in 1..Len(memmap) /\ v[1] <= v[2]
      <4>1. v \in Interval /\ v[1] \in 1..Len(memmap) /\ v[2] \in 1..Len(memmap)
        BY <3>2 DEF Interval
      <4>2. w[1] <= Middle(w) - 1 /\ Middle(w) <= w[2]
        BY <3>1, <3>2
      <4>3. v[1] <= v[2]
        BY <4>2
      <4> QED
        BY <4>1, <4>3
    <3>4. Halve(addr, g, w) = g[v]
      BY <2>2 DEF Halve
    <3>5. g[v] = Sought(addr, v)
      BY <3>3
    <3> HIDE DEF g
    <3>6. LastOf(addr, v[1], v[2], Sought(addr, v))
      <4>1. CASE v[1] >= v[2]
        <5>1. v[1] = v[2] /\ v[1] \in Nat
          BY <3>1, <3>3, <4>1
        <5>2. Sought(addr, v) = v[1]
          BY <4>1 DEF Sought
        <5> QED
          BY <5>1, <5>2 DEF LastOf
      <4>2. CASE ~(v[1] >= v[2])
        <5>1. Sought(addr, v) = CHOOSE i : LastOf(addr, v[1], v[2], i)
          BY <4>2 DEF Sought
        <5>2. \E i : LastOf(addr, v[1], v[2], i)
          BY <3>3, LastUnique
        <5> QED
          BY <5>1, <5>2
      <4> QED
        BY <4>1, <4>2
    <3>7. LastOf(addr, w[1], w[2], Sought(addr, v))
      BY <3>1, <3>6, HalfIsEnough
    <3>8. LastOf(addr, w[1], w[2], Sought(addr, w))
      <4>1. Sought(addr, w) = CHOOSE i : LastOf(addr, w[1], w[2], i)
        BY <2>2 DEF Sought
      <4> QED
        BY <3>7, <4>1
    <3>9. Sought(addr, v) = Sought(addr, w)
      <4>1. \E i : \A k : LastOf(addr, w[1], w[2], k) => k = i
        <5>1. w[1] <= w[2]
          BY <3>1
        <5> QED
          BY <3>1, <5>1, LastUnique
      <4> QED
        BY <3>7, <3>8, <4>1
    <3> QED
      BY <3>4, <3>5, <3>9
  <2> QED
    BY <2>1, <2>2
<1>2. g = [w \in Interval |-> Halve(addr, g, w)]
  BY <1>1
<1> HIDE DEF g
<1> QED
  BY <1>2 DEF Bisect

\* The search finds the last region that begins at addr or before, wherever it is.
LEMMA BisectFinds ==
  ASSUME MemInv, NEW addr \in Addresses, NEW u \in Interval, u[1] <= u[2]
  PROVE  LastOf(addr, u[1], u[2], Bisect(addr)[u])
<1> DEFINE b == Bisect(addr)
           Wrong(w) == w[1] <= w[2] /\ ~LastOf(addr, w[1], w[2], b[w])
           T == {d \in Nat : \E w \in Interval : Wrong(w) /\ d = w[2] - w[1]}
<1>1. \A w \in Interval : b[w] = Halve(addr, b, w)
  BY BisectUnfolds
<1>2. Len(memmap) \in Nat
      /\ \A w \in Interval : w[1] \in 1..Len(memmap) /\ w[2] \in 1..Len(memmap)
  BY MapFacts DEF Interval
<1> HIDE DEF b
<1>3. SUFFICES ASSUME Wrong(u) PROVE FALSE
  BY DEF b
<1>4. PICK d \in T : \A m \in T : d <= m
  <2>1. u[2] - u[1] \in T
    BY <1>2, <1>3
  <2>2. T \in SUBSET Nat
    OBVIOUS
  <2> QED
    BY <2>1, <2>2, LeastNumber
<1>5. PICK w \in Interval : Wrong(w) /\ d = w[2] - w[1]
  BY <1>4
<1>6. ASSUME NEW v \in Interval, v[1] <= v[2], v[2] - v[1] < w[2] - w[1]
      PROVE  LastOf(addr, v[1], v[2], b[v])
  <2>1. v[2] - v[1] \in Nat /\ ~(d <= v[2] - v[1])
    BY <1>2, <1>5, <1>6
  <2>2. v[2] - v[1] \notin T
    BY <1>4, <2>1
  <2> QED
    BY <1>6, <2>1, <2>2
<1>7. CASE w[1] = w[2]
  <2>1. w[1] \in Nat /\ w[1] >= w[2]
    BY <1>2, <1>7
  <2>2. b[w] = w[1]
    BY <1>1, <2>1 DEF Halve
  <2> QED
    BY <1>5, <1>7, <2>1, <2>2 DEF LastOf
<1>8. CASE w[1] < w[2]
  <2>1. /\ Middle(w) \in (w[1] + 1)..w[2] /\ ~(w[1] >= w[2])
        /\ <<w[1], Middle(w) - 1>> \in Interval /\ <<Middle(w), w[2]>> \in Interval
    BY <1>2, <1>8, MiddleInside
  <2>2. w[1] <= Middle(w) - 1 /\ Middle(w) - 1 - w[1] < w[2] - w[1]
        /\ Middle(w) <= w[2] /\ w[2] - Middle(w) < w[2] - w[1]
    BY <1>2, <2>1
  <2>3. LastOf(addr, w[1], Middle(w) - 1, b[<<w[1], Middle(w) - 1>>])
    BY <1>6, <2>1, <2>2
  <2>4. LastOf(addr, Middle(w), w[2], b[<<Middle(w), w[2]>>])
    BY <1>6, <2>1, <2>2
  <2>5. b[w] = IF addr < memmap[Middle(w)].top THEN b[<<w[1], Middle(w) - 1>>]
               ELSE b[<<Middle(w), w[2]>>]
    BY <1>1, <2>1 DEF Halve
  <2>6. IF addr < memmap[Middle(w)].top THEN LastOf(addr, w[1], Middle(w) - 1, b[w])
        ELSE LastOf(addr, Middle(w), w[2], b[w])
    BY <2>3, <2>4, <2>5
  <2>7. LastOf(addr, w[1], w[2], b[w])
    BY <1>8, <2>6, HalfIsEnough
  <2> QED
    BY <1>5, <2>7
<1> QED
  BY <1>2, <1>5, <1>7, <1>8

\* search_meminib finds the region of the address.
LEMMA SearchExact ==
  ASSUME MemInv, NEW addr \in Addresses
  PROVE  /\ InRegion(addr, search_meminib(addr))
         /\ RegionAt(addr) = search_meminib(addr)
<1> DEFINE i == search_meminib(addr)
           w == <<1, Len(memmap)>>
<1>1. i = Bisect(addr)[w]
  BY DEF search_meminib, Bisect, Halve
<1>2. w \in Interval /\ w[1] = 1 /\ w[2] = Len(memmap) /\ w[1] <= w[2]
  BY MapFacts DEF Interval
<1>3. LastOf(addr, 1, Len(memmap), i)
  <2>1. LastOf(addr, w[1], w[2], i)
    BY <1>1, <1>2, BisectFinds
  <2> QED
    BY <1>2, <2>1
<1> HIDE DEF i
<1>4. i \in 1..Len(memmap) /\ addr \in Nat /\ addr < ADDRMOD
  BY <1>3, MapFacts DEF LastOf, Addresses
<1>5. memmap[i].top <= addr
  BY <1>3, <1>4, MapFacts DEF LastOf
<1>6. addr < End(i)
  BY <1>3, <1>4, MapFacts DEF LastOf, End
<1>7. InRegion(addr, i)
  BY <1>4, <1>5, <1>6, MapFacts DEF InRegion
<1> QED
  BY <1>7, RegionAtIs DEF i

-----------------------------------------------------------------------------
(* Sizes. *)

\* What MemSize finds from an address on is what is left of its region.
LEMMA MemSizeIs ==
  ASSUME MemInv, NEW x \in Addresses, NEW i, InRegion(x, i)
  PROVE  /\ search_meminib(x) = i /\ RegionAt(x) = i
         /\ MemSize(x) = End(i) - x
         /\ End(i) \in 1..ADDRMOD /\ MemSize(x) \in 1..(ADDRMOD - 1)
<1>1. search_meminib(x) = i /\ RegionAt(x) = i
  BY SearchExact, RegionUnique
<1>2. /\ i \in 1..Len(memmap) /\ Len(memmap) \in Nat /\ Len(memmap) >= 2
      /\ ADDRMOD \in Nat \ {0, 1} /\ x \in 0..(ADDRMOD - 1)
      /\ memmap[i].top <= x /\ x < End(i) /\ memmap[i].top \in 0..(ADDRMOD - 1)
  BY MapFacts DEF InRegion, Addresses
<1>3. CASE i < Len(memmap)
  <2>1. End(i) = memmap[i + 1].top /\ i + 1 \in 1..Len(memmap)
    BY <1>2, <1>3 DEF End
  <2>2. End(i) \in 0..(ADDRMOD - 1)
    BY <2>1, MapFacts DEF Addresses
  <2>3. MemSize(x) = (End(i) - x) % ADDRMOD
    BY <1>1, <1>3, <2>1 DEF MemSize
  <2>4. End(i) - x \in 1..(ADDRMOD - 1)
    BY <1>2, <2>2
  <2>5. (End(i) - x) % ADDRMOD = End(i) - x
    BY <1>2, <2>4, SmallRemainder
  <2> QED
    BY <1>1, <1>2, <2>2, <2>3, <2>4, <2>5
<1>4. CASE ~(i < Len(memmap))
  <2>1. End(i) = ADDRMOD /\ i = Len(memmap)
    BY <1>2, <1>4 DEF End
  <2>2. x > 0
    <3>1. 1 \in 1..Len(memmap) /\ 1 < i
      BY <1>2, <2>1
    <3>2. memmap[1].top < memmap[i].top /\ memmap[1].top = 0
      BY <1>2, <3>1, RegionsSorted, MapFacts
    <3> QED
      BY <1>2, <3>2
  <2>3. MemSize(x) = (0 - x) % ADDRMOD
    BY <1>1, <1>4 DEF MemSize
  <2>4. End(i) - x \in 1..(ADDRMOD - 1)
    BY <1>2, <2>1, <2>2
  <2>5. (0 - x) % ADDRMOD = ADDRMOD - x
    <3>1. ADDRMOD \in Nat \ {0} /\ x \in 1..(ADDRMOD - 1)
      BY <1>2, <2>2
    <3> QED
      BY ONLY <3>1, NegativeRemainder, Zenon
  <2> QED
    BY <1>1, <1>2, <2>1, <2>3, <2>4, <2>5
<1> QED
  BY <1>3, <1>4

\* The area is in memory and in one region.
Fits(base, size) ==
  /\ Bytes(base, size) \subseteq Addresses
  /\ \A x \in Bytes(base, size) : RegionAt(x) = search_meminib(base)

\* An area that is not empty has a first and a last byte.
LEMMA FirstAndLast ==
  ASSUME MemInv, NEW base \in Addresses, NEW size \in 1..(ADDRMOD - 1)
  PROVE  /\ base \in Bytes(base, size) /\ base + size - 1 \in Bytes(base, size)
         /\ base \in Nat /\ size \in Nat \ {0} /\ ADDRMOD \in Nat
BY MapFacts DEF Addresses, Bytes

\* The comparison of sizes tells the areas that fit.
LEMMA SizeTellsFit ==
  ASSUME MemInv, NEW base \in Addresses, NEW size \in 1..(ADDRMOD - 1)
  PROVE  size <= MemSize(base) <=> Fits(base, size)
<1> DEFINE i == search_meminib(base)
<1>1. InRegion(base, i)
  BY SearchExact
<1>2. MemSize(base) = End(i) - base /\ End(i) \in 1..ADDRMOD
  BY <1>1, MemSizeIs
<1>3. memmap[i].top <= base /\ memmap[i].top \in Nat /\ i \in DOMAIN memmap
  BY <1>1, MapFacts DEF InRegion, Addresses
<1> HIDE DEF i
<1>4. base \in Nat /\ size \in Nat \ {0} /\ ADDRMOD \in Nat
  BY FirstAndLast
<1>5. ASSUME size <= MemSize(base) PROVE Fits(base, size)
  <2>1. ASSUME NEW x \in Bytes(base, size) PROVE x \in Addresses /\ RegionAt(x) = i
    <3>1. x \in Nat /\ base <= x /\ x < base + size
      BY <1>4, <2>1 DEF Bytes
    <3>2. x \in Addresses /\ memmap[i].top <= x /\ x < End(i)
      BY <1>2, <1>3, <1>4, <1>5, <3>1 DEF Addresses
    <3>3. InRegion(x, i)
      BY <1>3, <3>2 DEF InRegion
    <3> QED
      BY <3>2, <3>3, RegionAtIs
  <2> QED
    BY <2>1 DEF Fits, i
<1>6. ASSUME Fits(base, size) PROVE size <= MemSize(base)
  <2> DEFINE last == base + size - 1
  <2>1. last \in Addresses /\ RegionAt(last) = i
    BY <1>6, FirstAndLast DEF Fits, i
  <2>2. last = base + size - 1
    OBVIOUS
  <2> HIDE DEF last
  <2>3. InRegion(last, i)
    <3>1. InRegion(last, search_meminib(last)) /\ RegionAt(last) = search_meminib(last)
      BY <2>1, SearchExact
    <3> QED
      BY <2>1, <3>1
  <2>4. last < End(i)
    BY <2>3 DEF InRegion
  <2> QED
    BY <1>2, <1>4, <2>2, <2>4
<1> QED
  BY <1>5, <1>6

\* The area touches one region when it fits, and only then.
LEMMA TouchedOne ==
  ASSUME MemInv, NEW base \in Addresses, NEW size \in 1..(ADDRMOD - 1),
         Bytes(base, size) \subseteq Addresses
  PROVE  /\ \A j : Touched(base, size) = {j} <=> Fits(base, size) /\ j = search_meminib(base)
         /\ Cardinality(Touched(base, size)) = 1 <=> Fits(base, size)
         /\ search_meminib(base) \in Touched(base, size)
<1> DEFINE i == search_meminib(base)
           U == Touched(base, size)
<1>1. U = {RegionAt(x) : x \in Bytes(base, size)}
  BY DEF Touched
<1>2. base \in Bytes(base, size) /\ RegionAt(base) = i
  BY FirstAndLast, SearchExact
<1>3. Fits(base, size) <=> \A x \in Bytes(base, size) : RegionAt(x) = i
  BY DEF Fits
<1> HIDE DEF i, U
<1>4. i \in U
  BY <1>1, <1>2
<1>5. ASSUME NEW j PROVE U = {j} <=> Fits(base, size) /\ j = i
  <2>1. ASSUME U = {j} PROVE Fits(base, size) /\ j = i
    BY <1>1, <1>3, <1>4, <2>1
  <2>2. ASSUME Fits(base, size), j = i PROVE U = {j}
    BY <1>1, <1>2, <1>3, <2>2
  <2> QED
    BY <2>1, <2>2
<1>6. Cardinality(U) = 1 <=> Fits(base, size)
  <2>1. IsFiniteSet(U)
    <3>1. U \subseteq 1..Len(memmap)
      <4>1. ASSUME NEW x \in Bytes(base, size) PROVE RegionAt(x) \in 1..Len(memmap)
        <5>1. InRegion(x, search_meminib(x)) /\ RegionAt(x) = search_meminib(x)
          BY SearchExact
        <5> QED
          BY <5>1, MapFacts DEF InRegion
      <4> QED
        BY <1>1, <4>1
    <3>2. IsFiniteSet(1..Len(memmap))
      BY FS_Interval, MapFacts
    <3> QED
      BY <3>1, <3>2, FS_Subset
  <2>2. Cardinality(U) = 1 <=> \E x : U = {x}
    BY <2>1, FS_Singleton
  <2> QED
    BY <1>5, <2>2
<1> QED
  BY <1>4, <1>5, <1>6 DEF i, U

\* valid_memobj tells the areas in one memory object.
LEMMA ObjectIs ==
  ASSUME MemInv, NEW base \in Addresses, NEW size \in 1..(ADDRMOD - 1)
  PROVE  /\ InOneObject(base, size)
              <=> Fits(base, size) /\ "NOEXS" \notin MemIni(base).accatr
         /\ valid_memobj(base, size) <=> InOneObject(base, size)
<1>1. InRegion(base, search_meminib(base))
  BY SearchExact
<1>2. search_meminib(base) \in DOMAIN memmap
  BY <1>1 DEF InRegion
<1>3. InOneObject(base, size) <=> Fits(base, size) /\ "NOEXS" \notin MemIni(base).accatr
  <2>1. CASE Bytes(base, size) \subseteq Addresses
    BY <1>2, <2>1, TouchedOne DEF InOneObject, MemIni
  <2>2. CASE ~(Bytes(base, size) \subseteq Addresses)
    BY <2>2 DEF InOneObject, Fits
  <2> QED
    BY <2>1, <2>2
<1> QED
  BY <1>3, SizeTellsFit DEF valid_memobj

-----------------------------------------------------------------------------
(* Rights and stacks. *)

\* The domain has the right in a region.
RightIn(mo, right, domptn) ==
  CASE right = "WRITE" -> domptn \intersect mo.acptn1 # {}
    [] right = "READ"  -> "NOREAD" \notin mo.accatr /\ domptn \intersect mo.acptn2 # {}
    [] right = "EXEC"  -> "EXEC" \in mo.accatr /\ domptn \intersect mo.acptn2 # {}

\* What a domain may do to the area is what it may do in the region.
LEMMA DomainMayIs ==
  ASSUME MemInv, NEW base \in Addresses, NEW size \in 1..(ADDRMOD - 1),
         NEW domptn, NEW rights \in SUBSET {"READ", "WRITE", "EXEC"}, rights # {}
  PROVE  DomainMay(domptn, rights, base, size)
           <=> /\ Fits(base, size)
               /\ "NOEXS" \notin MemIni(base).accatr /\ "USTACK" \notin MemIni(base).accatr
               /\ \A r \in rights : RightIn(MemIni(base), r, domptn)
<1>1. ASSUME Fits(base, size), NEW x \in Bytes(base, size)
      PROVE  /\ StackByte(x) <=> \/ "NOEXS" \in MemIni(base).accatr
                                 \/ "USTACK" \in MemIni(base).accatr
             /\ \A r \in rights : Grants(x, r, domptn) <=> RightIn(MemIni(base), r, domptn)
  <2>1. memmap[RegionAt(x)] = MemIni(base)
    BY <1>1 DEF Fits, MemIni
  <2> QED
    BY <2>1 DEF StackByte, Grants, RightIn
<1>2. base \in Bytes(base, size)
  BY FirstAndLast
<1> QED
  BY <1>1, <1>2, ObjectIs DEF DomainMay

\* An area is in the stack of a task when its bytes are.
LEMMA StackIs ==
  ASSUME MemInv, NEW base \in Addresses, NEW size \in 1..(ADDRMOD - 1), NEW t \in MemTask
  PROVE  within_ustack(base, size, t)
           <=> Bytes(base, size) \subseteq Bytes(TaskInfo[t].ustk, TaskInfo[t].ustksz)
<1> DEFINE u == TaskInfo[t].ustk
           n == TaskInfo[t].ustksz
<1>1. base \in Nat /\ size \in Nat \ {0}
  BY FirstAndLast
<1>2. u \in Nat /\ n \in Nat
  BY StackAssumption, MapFacts DEF StackAssumption
<1>3. within_ustack(base, size, t) <=> u <= base /\ size <= n /\ base - u <= n - size
  BY DEF within_ustack, within_memobj
<1> HIDE DEF u, n
<1>4. ASSUME u <= base, size <= n, base - u <= n - size
      PROVE  Bytes(base, size) \subseteq Bytes(u, n)
  BY <1>1, <1>2, <1>4 DEF Bytes
<1>5. ASSUME Bytes(base, size) \subseteq Bytes(u, n)
      PROVE  u <= base /\ size <= n /\ base - u <= n - size
  <2>1. base \in Bytes(u, n) /\ base + size - 1 \in Bytes(u, n)
    BY <1>5, FirstAndLast
  <2> QED
    BY <1>1, <1>2, <2>1 DEF Bytes
<1> QED
  BY <1>3, <1>4, <1>5 DEF u, n

\* A stack is in one region, unused or of the stacks of the task's domain.
LEMMA StackFits ==
  ASSUME MemInv, NEW base \in Addresses, NEW size \in 1..(ADDRMOD - 1), NEW t \in MemTask,
         within_ustack(base, size, t)
  PROVE  /\ Fits(base, size) /\ TaskInfo[t].domptn # {}
         /\ \/ "NOEXS" \in MemIni(base).accatr
            \/ /\ "USTACK" \in MemIni(base).accatr
               /\ MemIni(base).acptn1 = TaskInfo[t].domptn
<1> DEFINE u == TaskInfo[t].ustk
           n == TaskInfo[t].ustksz
<1>1. base \in Nat /\ size \in Nat \ {0} /\ ADDRMOD \in Nat
  BY FirstAndLast
<1>2. u \in Nat /\ n \in Nat /\ u + n <= ADDRMOD
  BY StackAssumption, MapFacts DEF StackAssumption
<1>3. u <= base /\ size <= n /\ base - u <= n - size
  BY DEF within_ustack, within_memobj
<1>4. n > 0 /\ memmap \in MemMap
  <2> HIDE DEF u, n
  <2> QED
    BY <1>1, <1>2, <1>3 DEF MemInv
<1>5. TaskInfo[t].domptn # {}
  BY <1>4, StackAssumption DEF StackAssumption
<1>6. PICK i \in DOMAIN memmap :
        /\ memmap[i].top <= u
        /\ i < Len(memmap) => u + n <= memmap[i + 1].top
        /\ \/ "NOEXS" \in memmap[i].accatr
           \/ "USTACK" \in memmap[i].accatr /\ memmap[i].acptn1 = TaskInfo[t].domptn
  BY <1>4, StackAssumption DEF StackAssumption
<1> HIDE DEF u, n
<1>7. i \in 1..Len(memmap) /\ Len(memmap) \in Nat /\ memmap[i].top \in Nat
  BY <1>6, MapFacts DEF Addresses
<1>8. u + n <= End(i)
  <2>1. CASE i < Len(memmap)
    BY <1>6, <2>1 DEF End
  <2>2. CASE ~(i < Len(memmap))
    BY <1>2, <2>2 DEF End
  <2> QED
    BY <2>1, <2>2
<1>9. End(i) \in Nat
  <2>1. CASE i < Len(memmap)
    <3>1. i + 1 \in 1..Len(memmap)
      BY <1>7, <2>1
    <3>2. memmap[i + 1].top \in Nat
      BY <3>1, MapFacts DEF Addresses
    <3> QED
      BY <2>1, <3>2 DEF End
  <2>2. CASE ~(i < Len(memmap))
    BY <1>1, <2>2 DEF End
  <2> QED
    BY <2>1, <2>2
<1>10. memmap[i].top <= base /\ base < End(i) /\ size <= End(i) - base
  BY <1>1, <1>2, <1>3, <1>6, <1>7, <1>8, <1>9
<1>11. InRegion(base, i)
  BY <1>7, <1>6, <1>10 DEF InRegion
<1>12. search_meminib(base) = i /\ size <= MemSize(base)
  BY <1>10, <1>11, MemSizeIs
<1>13. Fits(base, size)
  BY <1>12, SizeTellsFit
<1> QED
  BY <1>5, <1>6, <1>12, <1>13 DEF MemIni

\* What a task may do to the area, from its stack, the region and its domain.
LEMMA TaskMayIs ==
  ASSUME MemInv, NEW base \in Addresses, NEW size \in 1..(ADDRMOD - 1), NEW t \in MemTask,
         NEW rights \in SUBSET {"READ", "WRITE", "EXEC"}, rights # {}
  PROVE  TaskMay(t, rights, base, size)
           <=> \/ /\ within_ustack(base, size, t)
                  /\ "EXEC" \in rights => "EXEC" \in MemIni(base).accatr
               \/ /\ Fits(base, size)
                  /\ "NOEXS" \notin MemIni(base).accatr /\ "USTACK" \notin MemIni(base).accatr
                  /\ \A r \in rights : RightIn(MemIni(base), r, TaskInfo[t].domptn)
               \/ /\ TaskInfo[t].domptn = {} /\ Fits(base, size)
                  /\ "NOEXS" \notin MemIni(base).accatr
<1> DEFINE OnStack == /\ Bytes(base, size) \subseteq Bytes(TaskInfo[t].ustk, TaskInfo[t].ustksz)
                      /\ \A x \in Bytes(base, size) :
                           /\ StackByte(x)
                           /\ "EXEC" \in rights => "EXEC" \in memmap[RegionAt(x)].accatr
<1>1. OnStack <=> /\ within_ustack(base, size, t)
                  /\ "EXEC" \in rights => "EXEC" \in MemIni(base).accatr
  <2>1. CASE within_ustack(base, size, t)
    <3>1. \A x \in Bytes(base, size) : memmap[RegionAt(x)] = MemIni(base)
      BY <2>1, StackFits DEF Fits, MemIni
    <3>2. {"NOEXS", "USTACK"} \intersect MemIni(base).accatr # {}
      BY <2>1, StackFits
    <3>3. base \in Bytes(base, size)
      BY FirstAndLast
    <3> QED
      BY <2>1, <3>1, <3>2, <3>3, StackIs DEF StackByte
  <2>2. CASE ~within_ustack(base, size, t)
    BY <2>2, StackIs
  <2> QED
    BY <2>1, <2>2
<1>2. TaskMay(t, rights, base, size)
        <=> \/ OnStack
            \/ DomainMay(TaskInfo[t].domptn, rights, base, size)
            \/ TaskInfo[t].domptn = {} /\ InOneObject(base, size)
  BY DEF TaskMay, TACP_KERNEL
<1> HIDE DEF OnStack
<1> QED
  BY <1>1, <1>2, DomainMayIs, ObjectIs

-----------------------------------------------------------------------------
(* The checks. *)

\* For the running task: writing and reading.
LEMMA ProbeExact ==
  ASSUME MemInv, NEW base \in Addresses, NEW size \in 1..(ADDRMOD - 1), rundom # TACP_KERNEL
  PROVE  /\ probe_mem_write(base, size) <=> TaskMay(prun, {"WRITE"}, base, size)
         /\ probe_mem_read(base, size) <=> TaskMay(prun, {"READ"}, base, size)
<1>1. prun \in MemTask /\ TaskInfo[prun].domptn # {}
  BY DEF MemInv, rundom, TACP_KERNEL
<1>2. ASSUME NEW permitted, NEW r \in {"READ", "WRITE"},
             permitted <=> RightIn(MemIni(base), r, rundom)
      PROVE  Probe(base, size, permitted) <=> TaskMay(prun, {r}, base, size)
  <2>1. {r} \in SUBSET {"READ", "WRITE", "EXEC"} /\ {r} # {} /\ "EXEC" \notin {r}
    OBVIOUS
  <2>2. TaskMay(prun, {r}, base, size)
          <=> \/ within_ustack(base, size, prun)
              \/ /\ Fits(base, size)
                 /\ "NOEXS" \notin MemIni(base).accatr /\ "USTACK" \notin MemIni(base).accatr
                 /\ permitted
    BY <1>1, <1>2, <2>1, TaskMayIs DEF rundom
  <2>3. within_ustack(base, size, prun) =>
          /\ Fits(base, size)
          /\ "NOEXS" \in MemIni(base).accatr \/ "USTACK" \in MemIni(base).accatr
    BY <1>1, StackFits
  <2>4. size <= MemSize(base) <=> Fits(base, size)
    BY SizeTellsFit
  <2> QED
    BY <2>2, <2>3, <2>4 DEF Probe
<1>3. probe_mem_write(base, size) <=> TaskMay(prun, {"WRITE"}, base, size)
  BY <1>2 DEF probe_mem_write, RightIn
<1>4. probe_mem_read(base, size) <=> TaskMay(prun, {"READ"}, base, size)
  BY <1>2 DEF probe_mem_read, RightIn
<1> QED
  BY <1>3, <1>4

\* For a domain whose notification sets a variable, and for areas of the kernel's own.
LEMMA DomainChecksExact ==
  ASSUME MemInv, NEW base \in Addresses, NEW size \in 1..(ADDRMOD - 1)
  PROVE  /\ \A d \in Domain :
              check_nfyinfo("SETVAR", base, size, {d}) <=> DomainMay({d}, {"WRITE"}, base, size)
         /\ valid_memobj_kernel(base, size) => \A t \in MemTask, r \in {"READ", "WRITE"} :
              TaskMay(t, {r}, base, size) => TaskInfo[t].domptn = TACP_KERNEL
<1>1. ASSUME NEW d \in Domain
      PROVE check_nfyinfo("SETVAR", base, size, {d}) <=> DomainMay({d}, {"WRITE"}, base, size)
  <2>1. DomainMay({d}, {"WRITE"}, base, size)
          <=> /\ Fits(base, size)
              /\ "NOEXS" \notin MemIni(base).accatr /\ "USTACK" \notin MemIni(base).accatr
              /\ {d} \intersect MemIni(base).acptn1 # {}
    <3>1. {"WRITE"} \in SUBSET {"READ", "WRITE", "EXEC"} /\ {"WRITE"} # {}
      OBVIOUS
    <3>2. (\A r \in {"WRITE"} : RightIn(MemIni(base), r, {d}))
            <=> {d} \intersect MemIni(base).acptn1 # {}
      BY DEF RightIn
    <3> QED
      BY <3>1, <3>2, DomainMayIs
  <2>2. valid_memobj(base, size) <=> Fits(base, size) /\ "NOEXS" \notin MemIni(base).accatr
    BY ObjectIs
  <2> QED
    BY <2>1, <2>2 DEF check_nfyinfo, probe_mem_write_domptn, TACP_KERNEL
<1>2. ASSUME valid_memobj_kernel(base, size), NEW t \in MemTask, NEW r \in {"READ", "WRITE"},
             TaskMay(t, {r}, base, size), TaskInfo[t].domptn # TACP_KERNEL
      PROVE  FALSE
  <2>1. /\ "NOEXS" \notin MemIni(base).accatr
        /\ MemIni(base).acptn1 = {} /\ MemIni(base).acptn2 = {}
    BY <1>2 DEF valid_memobj_kernel, valid_memobj, TACP_KERNEL
  <2>2. within_ustack(base, size, t) \/ RightIn(MemIni(base), r, TaskInfo[t].domptn)
    BY <1>2, TaskMayIs DEF TACP_KERNEL
  <2>3. ~within_ustack(base, size, t)
    BY <1>2, <2>1, StackFits
  <2>4. ~RightIn(MemIni(base), r, TaskInfo[t].domptn)
    BY <2>1 DEF RightIn
  <2> QED
    BY <2>2, <2>3, <2>4
<1> QED
  BY <1>1, <1>2

\* For the stack of a new task.
LEMMA StackCheckExact ==
  ASSUME MemInv, NEW base \in Addresses, NEW size \in 1..(ADDRMOD - 1)
  PROVE  valid_ustack(base, size) <=>
           /\ Bytes(base, size) \subseteq Addresses
           /\ Cardinality(Touched(base, size)) = 1
           /\ \A i \in Touched(base, size) : "NOEXS" \in memmap[i].accatr
<1>1. valid_ustack(base, size) <=> "NOEXS" \in MemIni(base).accatr /\ Fits(base, size)
  BY SizeTellsFit DEF valid_ustack
<1>2. CASE Bytes(base, size) \subseteq Addresses
  <2>1. /\ Cardinality(Touched(base, size)) = 1 <=> Fits(base, size)
        /\ Fits(base, size) => Touched(base, size) = {search_meminib(base)}
    BY <1>2, TouchedOne
  <2> QED
    BY <1>1, <1>2, <2>1 DEF MemIni
<1>3. CASE ~(Bytes(base, size) \subseteq Addresses)
  BY <1>1, <1>3 DEF Fits
<1> QED
  BY <1>2, <1>3

\* prb_mem tells what the calls of the task will find.
LEMMA ProbeMemoryExact ==
  ASSUME MemInv, NEW base \in Addresses, NEW size \in 1..(ADDRMOD - 1), NEW t \in MemTask,
         NEW pmmode \in (SUBSET {"READ", "WRITE", "EXEC"}) \ {{}},
         probe_memory(base, size, t, pmmode) # "E_OACV"
  PROVE  probe_memory(base, size, t, pmmode) = "E_OK" <=> TaskMay(t, pmmode, base, size)
<1> DEFINE mo == MemIni(base)
           domptn == TaskInfo[t].domptn
           Within == within_ustack(base, size, t)
           Granted == \A r \in pmmode : RightIn(mo, r, domptn)
           Fit == Fits(base, size)
           May == TaskMay(t, pmmode, base, size)
           ercd == probe_memory(base, size, t, pmmode)
<1>1. May <=> \/ Within /\ ("EXEC" \in pmmode => "EXEC" \in mo.accatr)
              \/ Fit /\ "NOEXS" \notin mo.accatr /\ "USTACK" \notin mo.accatr /\ Granted
              \/ domptn = {} /\ Fit /\ "NOEXS" \notin mo.accatr
  <2>1. pmmode \in SUBSET {"READ", "WRITE", "EXEC"} /\ pmmode # {}
    OBVIOUS
  <2> QED
    BY <2>1, TaskMayIs
<1>2. Within => /\ Fit /\ domptn # {}
                /\ "NOEXS" \in mo.accatr \/ "USTACK" \in mo.accatr
  BY StackFits
<1>3. "NOEXS" \in mo.accatr => "EXEC" \notin mo.accatr
  <2>1. search_meminib(base) \in 1..Len(memmap)
    BY SearchExact, MapFacts DEF InRegion
  <2> QED
    BY <2>1, MapFacts DEF MemIni
<1>4. size > MemSize(base) <=> ~Fit
  <2>1. InRegion(base, search_meminib(base))
    BY SearchExact
  <2>2. MemSize(base) \in Nat /\ size \in Nat
    BY <2>1, MemSizeIs, FirstAndLast
  <2>3. size <= MemSize(base) <=> Fit
    BY SizeTellsFit
  <2> QED
    BY <2>2, <2>3
<1>5. Granted <=>
        /\ "WRITE" \in pmmode => domptn \intersect mo.acptn1 # {}
        /\ "READ" \in pmmode => "NOREAD" \notin mo.accatr /\ domptn \intersect mo.acptn2 # {}
        /\ "EXEC" \in pmmode => "EXEC" \in mo.accatr /\ domptn \intersect mo.acptn2 # {}
  BY DEF RightIn
<1>6. ercd =
        IF "NOEXS" \in mo.accatr
        THEN IF ~Within THEN "E_NOEXS" ELSE IF "EXEC" \in pmmode THEN "E_MACV" ELSE "E_OK"
        ELSE IF ~Fit THEN "E_OBJ"
        ELSE IF rundom # TACP_KERNEL /\ rundom \intersect mo.acptn4 = {} THEN "E_OACV"
        ELSE IF \/ domptn = {}
                \/ IF "USTACK" \in mo.accatr
                   THEN Within /\ ("EXEC" \in pmmode => "EXEC" \in mo.accatr) ELSE Granted
             THEN "E_OK" ELSE "E_MACV"
  BY <1>4, <1>5 DEF probe_memory, TACP_KERNEL
<1>7. ercd # "E_OACV"
  OBVIOUS
<1> HIDE DEF mo, domptn, Within, Granted, Fit, May, ercd
<1>8. ercd = "E_OK" <=> May
  BY <1>1, <1>2, <1>3, <1>6, <1>7
<1> QED
  BY <1>8 DEF ercd, May

\* ref_mem names the whole region.
LEMMA RefMemExact ==
  ASSUME MemInv, NEW base \in Addresses, ref_mem(base).ercd = "E_OK"
  PROVE  Bytes(ref_mem(base).base, ref_mem(base).size)
           = {x \in Addresses : RegionAt(x) = RegionAt(base)}
<1> DEFINE i == search_meminib(base)
           top == memmap[i].top
<1>1. InRegion(base, i) /\ RegionAt(base) = i
  BY SearchExact
<1>2. i \in 1..Len(memmap)
  BY <1>1, MapFacts DEF InRegion
<1>3. top \in Addresses /\ top <= base
  BY <1>1, <1>2, MapFacts DEF InRegion
<1>4. ref_mem(base).base = top /\ ref_mem(base).size = MemSize(top)
  BY DEF ref_mem
<1> DEFINE mo == ref_mem(base)
<1>5. mo.base = top /\ mo.size = MemSize(top)
  BY <1>4
<1> HIDE DEF i, mo
<1>6. base < End(i) /\ base \in Nat /\ top \in Nat /\ ADDRMOD \in Nat
  BY <1>1, <1>3, MapFacts DEF InRegion, Addresses
<1>7. MemSize(top) = End(i) - top /\ End(i) \in 1..ADDRMOD
  <2>1. End(i) \in 1..ADDRMOD
    BY <1>1, MemSizeIs
  <2>2. top < End(i)
    BY <1>3, <1>6, <2>1
  <2>3. InRegion(top, i)
    BY <1>2, <1>3, <1>6, <2>2, MapFacts DEF InRegion
  <2> QED
    BY <1>3, <2>1, <2>3, MemSizeIs
<1>8. \A x \in Addresses : RegionAt(x) = i <=> InRegion(x, i)
  BY SearchExact, RegionAtIs
<1>9. \A x \in Addresses : InRegion(x, i) <=> top <= x /\ x < End(i)
  BY <1>2, MapFacts DEF InRegion
<1>10. Bytes(top, MemSize(top)) = {x \in Addresses : top <= x /\ x < End(i)}
  <2> DEFINE e == End(i)
  <2>1. Bytes(top, MemSize(top)) = top..(e - 1)
    BY <1>6, <1>7 DEF Bytes
  <2>2. top..(e - 1) = {x \in 0..(ADDRMOD - 1) : top <= x /\ x < e}
    <3>1. e \in 1..ADDRMOD /\ top \in Nat
      BY <1>6, <1>7
    <3> HIDE DEF e, top
    <3> QED
      BY <1>6, <3>1
  <2> QED
    BY <2>1, <2>2 DEF Addresses
<1> QED
  BY <1>1, <1>5, <1>8, <1>9, <1>10 DEF mo

-----------------------------------------------------------------------------
(* The theorem. *)

\* The regions and the range of the areas stay as they are.
LEMMA MemInvInductive == MemSpec => []MemInv
<1>1. MemInit => MemInv
  BY MapAssumption DEF MapAssumption, MemInit, MemInv, Addresses
<1>2. MemInv /\ [MemNext]_memvars => MemInv'
  <2> SUFFICES ASSUME MemInv, [MemNext]_memvars PROVE MemInv'
    OBVIOUS
  <2>1. CASE MemCall
    <3>1. area' \in Area /\ memmap' = memmap /\ prun' = prun
      BY <2>1 DEF MemCall
    <3>2. area' \in [base : Addresses, size : 0..(ADDRMOD - 1)]
      <4>1. area'.base \in Addresses /\ area'.size \in 0..(ADDRMOD - 1)
            /\ area' = [base |-> area'.base, size |-> area'.size]
        BY <3>1, MapFacts DEF Area, Addresses
      <4> QED
        BY <4>1
    <3> QED
      BY <3>1, <3>2 DEF MemInv, Addresses
  <2>2. CASE MemDispatch
    BY <2>2 DEF MemDispatch, MemInv, Addresses
  <2>3. CASE UNCHANGED memvars
    BY <2>3 DEF memvars, MemInv, Addresses
  <2> QED
    BY <2>1, <2>2, <2>3 DEF MemNext
<1> QED
  BY <1>1, <1>2, PTL DEF MemSpec

\* The checks of memory access decide as a check of every byte would (memory.c:105 and
\* extension/dcre/kernel/memory.c), whatever the regions and wherever the area ends.
THEOREM MemoryChecksCorrect == MemSpec => []MemoryChecksExact
<1>1. MemInv => MemoryChecksExact
  <2> DEFINE base == area.base
             size == area.size
  <2> SUFFICES ASSUME MemInv, size > 0 PROVE MemoryChecksExact
    <3>1. ~(area.size > 0) => MemoryChecksExact
      BY DEF MemoryChecksExact
    <3> QED
      BY <3>1
  <2>1. base \in Addresses /\ size \in 1..(ADDRMOD - 1)
    BY MapFacts DEF MemInv
  <2>2. rundom # TACP_KERNEL =>
          /\ probe_mem_write(base, size) <=> TaskMay(prun, {"WRITE"}, base, size)
          /\ probe_mem_read(base, size) <=> TaskMay(prun, {"READ"}, base, size)
    BY <2>1, ProbeExact
  <2>3. /\ \A d \in Domain :
             check_nfyinfo("SETVAR", base, size, {d}) <=> DomainMay({d}, {"WRITE"}, base, size)
        /\ valid_memobj_kernel(base, size) => \A t \in MemTask, r \in {"READ", "WRITE"} :
             TaskMay(t, {r}, base, size) => TaskInfo[t].domptn = TACP_KERNEL
    BY <2>1, DomainChecksExact
  <2>4. valid_ustack(base, size) <=>
          /\ Bytes(base, size) \subseteq Addresses
          /\ Cardinality(Touched(base, size)) = 1
          /\ \A i \in Touched(base, size) : "NOEXS" \in memmap[i].accatr
    BY <2>1, StackCheckExact
  <2>5. \A t \in MemTask, pmmode \in (SUBSET {"READ", "WRITE", "EXEC"}) \ {{}} :
          probe_memory(base, size, t, pmmode) # "E_OACV" =>
            (probe_memory(base, size, t, pmmode) = "E_OK" <=> TaskMay(t, pmmode, base, size))
    BY <2>1, ProbeMemoryExact
  <2>6. ref_mem(base).ercd = "E_OK" =>
          Bytes(ref_mem(base).base, ref_mem(base).size)
            = {x \in Addresses : RegionAt(x) = RegionAt(base)}
    BY <2>1, RefMemExact
  <2> QED
    BY ONLY <2>2, <2>3, <2>4, <2>5, <2>6, Zenon DEF MemoryChecksExact
<1> QED
  BY <1>1, MemInvInductive, PTL
===============================================================================
