--------------------------- MODULE DataQueueProofs ---------------------------
(***************************************************************************)
(* Theorems about data queues and priority data queues, for any number of  *)
(* queues, places and tasks: who waits has nothing to receive or no room,  *)
(* a data queue is a first-in first-out channel, and the data of a         *)
(* priority data queue leave by priority and in order of arrival.          *)
(***************************************************************************)
EXTENDS ObjectProofs, DataQueue, PriDataq, SequencesExt, FiniteSetTheorems, SequenceTheorems,
        TLAPS

-----------------------------------------------------------------------------
(* Sequences. *)

\* A sequence without repetitions is as long as it has elements.
LEMMA LengthOfInjective ==
  ASSUME NEW S, NEW q \in Seq(S), IsInjective(q)
  PROVE  Len(q) = Cardinality(Range(q))
<1>1. DOMAIN q = 1..Len(q) /\ Len(q) \in Nat
  OBVIOUS
<1>2. q \in [1..Len(q) -> Range(q)]
  <2>1. q = [i \in 1..Len(q) |-> q[i]]
    OBVIOUS
  <2> QED
    BY <1>1, <2>1 DEF Range
<1>3. q \in Bijection(1..Len(q), Range(q))
  BY <1>1, <1>2 DEF Bijection, Injection, Surjection, IsInjective, Range
<1>4. ExistsBijection(1..Len(q), Range(q))
  BY <1>3 DEF ExistsBijection
<1> QED
  BY <1>1, <1>4, FS_CountingElements

\* The first element leaves a sequence without repetitions.
LEMMA FirstGone ==
  ASSUME NEW S, NEW q \in Seq(S), IsInjective(q), q # << >>
  PROVE  /\ Tail(q) \in Seq(S) /\ IsInjective(Tail(q)) /\ Head(q) \in Range(q)
         /\ Range(Tail(q)) = Range(q) \ {Head(q)}
<1>1. /\ Tail(q) \in Seq(S) /\ Len(q) \in Nat /\ Len(q) >= 1 /\ DOMAIN q = 1..Len(q)
      /\ Len(Tail(q)) = Len(q) - 1 /\ DOMAIN Tail(q) = 1..(Len(q) - 1)
      /\ \A i \in 1..(Len(q) - 1) : Tail(q)[i] = q[i + 1]
      /\ Head(q) = q[1]
  OBVIOUS
<1>2. IsInjective(Tail(q))
  BY <1>1 DEF IsInjective
<1>3. Head(q) \in Range(q)
  BY <1>1 DEF Range
<1>4. Range(Tail(q)) \subseteq Range(q) \ {Head(q)}
  BY <1>1 DEF Range, IsInjective
<1>5. ASSUME NEW x \in Range(q), x # Head(q) PROVE x \in Range(Tail(q))
  <2>1. PICK i \in 1..Len(q) : q[i] = x
    BY <1>1, <1>5 DEF Range
  <2>2. i - 1 \in 1..(Len(q) - 1) /\ (i - 1) + 1 = i
    BY <1>1, <1>5, <2>1
  <2>3. Tail(q)[i - 1] = x
    BY <1>1, <2>1, <2>2
  <2> QED
    BY <1>1, <2>2, <2>3 DEF Range
<1> QED
  BY <1>1, <1>2, <1>3, <1>4, <1>5

\* A new element joins it.
LEMMA NewLast ==
  ASSUME NEW S, NEW q \in Seq(S), IsInjective(q), NEW x \in S, x \notin Range(q)
  PROVE  /\ Append(q, x) \in Seq(S) /\ IsInjective(Append(q, x))
         /\ Range(Append(q, x)) = Range(q) \union {x}
<1> SUFFICES ASSUME NEW r, r = Append(q, x)
             PROVE  r \in Seq(S) /\ IsInjective(r) /\ Range(r) = Range(q) \union {x}
  OBVIOUS
<1>1. r \in Seq(S)
  OBVIOUS
<1>2. /\ Len(q) \in Nat /\ DOMAIN q = 1..Len(q)
      /\ DOMAIN r = 1..(Len(q) + 1) /\ r[Len(q) + 1] = x
      /\ \A i \in 1..Len(q) : r[i] = q[i]
  OBVIOUS
<1>3. \A i \in DOMAIN r : i \in 1..Len(q) \/ i = Len(q) + 1
  BY <1>2
<1>4. \A i \in 1..Len(q) : q[i] # x
  BY <1>2 DEF Range
<1>5. IsInjective(r)
  BY <1>2, <1>3, <1>4 DEF IsInjective
<1>6. Range(r) = Range(q) \union {x}
  BY <1>2, <1>3 DEF Range
<1> QED
  BY <1>1, <1>5, <1>6

-----------------------------------------------------------------------------
(* Sequences that are joined. *)

\* Two sequences with the same elements in the same places are equal.
LEMMA SameElements ==
  ASSUME NEW S, NEW q \in Seq(S), NEW r \in Seq(S), NEW n, Len(q) = n, Len(r) = n,
         \A i \in 1..n : q[i] = r[i]
  PROVE  q = r
<1>1. q = [i \in 1..n |-> q[i]]
  OBVIOUS
<1>2. r = [i \in 1..n |-> r[i]]
  OBVIOUS
<1> QED
  BY <1>1, <1>2

\* The places of a concatenation.
LEMMA JoinFacts ==
  ASSUME NEW S, NEW s \in Seq(S), NEW w \in Seq(S)
  PROVE  /\ s \o w \in Seq(S) /\ Len(s \o w) = Len(s) + Len(w)
         /\ Len(s) \in Nat /\ Len(w) \in Nat
         /\ \A i \in 1..(Len(s) + Len(w)) :
              (s \o w)[i] = IF i <= Len(s) THEN s[i] ELSE w[i - Len(s)]
OBVIOUS

\* The places of a sequence with one more element.
LEMMA AppendFacts ==
  ASSUME NEW S, NEW s \in Seq(S), NEW v \in S
  PROVE  /\ Append(s, v) \in Seq(S) /\ Len(Append(s, v)) = Len(s) + 1 /\ Len(s) \in Nat
         /\ \A i \in 1..(Len(s) + 1) : Append(s, v)[i] = IF i <= Len(s) THEN s[i] ELSE v
OBVIOUS

\* The places of a sequence without its first element.
LEMMA TailFacts ==
  ASSUME NEW S, NEW s \in Seq(S), s # << >>
  PROVE  /\ Tail(s) \in Seq(S) /\ Len(Tail(s)) = Len(s) - 1 /\ Len(s) \in Nat \ {0}
         /\ Head(s) = s[1] /\ Head(s) \in S
         /\ \A i \in 1..(Len(s) - 1) : Tail(s)[i] = s[i + 1]
OBVIOUS

\* A sequence that is not empty has a length above zero.
LEMMA NotEmpty ==
  ASSUME NEW S, NEW s \in Seq(S)
  PROVE  s # << >> <=> Len(s) > 0
OBVIOUS

\* Taking the first element out of a concatenation.
LEMMA TailJoin ==
  ASSUME NEW S, NEW s \in Seq(S), NEW w \in Seq(S), s # << >>
  PROVE  Tail(s \o w) = Tail(s) \o w /\ s \o w # << >> /\ Head(s \o w) = Head(s)
<1> DEFINE x == s \o w
           y == Tail(s)
           a == Tail(x)
           b == y \o w
           m == Len(s)
           n == Len(s) + Len(w) - 1
<1>1. /\ x \in Seq(S) /\ Len(x) = m + Len(w) /\ m \in Nat /\ Len(w) \in Nat
      /\ \A i \in 1..(m + Len(w)) : x[i] = IF i <= m THEN s[i] ELSE w[i - m]
  BY JoinFacts
<1>2. /\ y \in Seq(S) /\ Len(y) = m - 1 /\ m \in Nat \ {0} /\ Head(s) = s[1]
      /\ \A i \in 1..(m - 1) : y[i] = s[i + 1]
  BY TailFacts
<1> HIDE DEF x, y
<1>3. x # << >>
  BY <1>1, <1>2, NotEmpty
<1>4. /\ a \in Seq(S) /\ Len(a) = Len(x) - 1 /\ Head(x) = x[1]
      /\ \A i \in 1..(Len(x) - 1) : a[i] = x[i + 1]
  BY <1>1, <1>3, TailFacts
<1>5. /\ b \in Seq(S) /\ Len(b) = Len(y) + Len(w)
      /\ \A i \in 1..(Len(y) + Len(w)) : b[i] = IF i <= Len(y) THEN y[i] ELSE w[i - Len(y)]
  <2>1. y \in Seq(S)
    BY <1>2
  <2> QED
    BY <2>1, JoinFacts
<1> HIDE DEF a, b, m
<1>6. Len(a) = n /\ Len(b) = n
  BY <1>1, <1>2, <1>4, <1>5 DEF m
<1>7. ASSUME NEW i \in 1..n PROVE a[i] = b[i]
  <2>1. i \in 1..(m - 1 + Len(w)) /\ i + 1 \in 1..(m + Len(w))
    BY <1>1 DEF m
  <2>2. a[i] = x[i + 1]
    BY <1>1, <1>4, <2>1
  <2>3. CASE i <= m - 1
    <3>1. i + 1 <= m /\ i <= Len(y) /\ i \in 1..(Len(y) + Len(w)) /\ i \in 1..(m - 1)
      BY <1>1, <1>2, <2>1, <2>3
    <3>2. x[i + 1] = s[i + 1]
      BY <1>1, <2>1, <3>1
    <3>3. b[i] = y[i]
      BY <1>5, <3>1
    <3> QED
      BY <1>2, <2>2, <3>1, <3>2, <3>3
  <2>4. CASE ~(i <= m - 1)
    <3> DEFINE j == i - (m - 1)
    <3>1. x[i + 1] = w[j]
      <4>1. i + 1 - m = j /\ ~(i + 1 <= m)
        BY <1>1, <2>1, <2>4
      <4> HIDE DEF j
      <4> QED
        BY <1>1, <2>1, <4>1
    <3>2. b[i] = w[j]
      <4>1. i - Len(y) = j /\ ~(i <= Len(y)) /\ i \in 1..(Len(y) + Len(w))
        BY <1>1, <1>2, <2>1, <2>4
      <4> HIDE DEF j
      <4> QED
        BY <1>5, <4>1
    <3> QED
      BY <2>2, <3>1, <3>2
  <2> QED
    BY <2>3, <2>4
<1>8. a = b
  <2>1. /\ a \in Seq(S) /\ Len(a) = n /\ b \in Seq(S) /\ Len(b) = n
        /\ \A i \in 1..n : a[i] = b[i]
    BY <1>4, <1>5, <1>6, <1>7
  <2> QED
    BY ONLY <2>1, SameElements
<1>9. Head(x) = Head(s)
  BY <1>1, <1>2, <1>4
<1> QED
  BY <1>3, <1>8, <1>9 DEF a, b, x, y

\* The first element of the second part may count as the last of the first.
LEMMA MoveJoin ==
  ASSUME NEW S, NEW s \in Seq(S), NEW w \in Seq(S), w # << >>
  PROVE  s \o w = Append(s, Head(w)) \o Tail(w)
<1> DEFINE x == Append(s, Head(w))
           y == Tail(w)
           a == s \o w
           b == x \o y
           m == Len(s)
           n == Len(s) + Len(w)
<1>1. /\ a \in Seq(S) /\ Len(a) = m + Len(w) /\ m \in Nat /\ Len(w) \in Nat
      /\ \A i \in 1..(m + Len(w)) : a[i] = IF i <= m THEN s[i] ELSE w[i - m]
  BY JoinFacts
<1>2. /\ y \in Seq(S) /\ Len(y) = Len(w) - 1 /\ Len(w) \in Nat \ {0} /\ Head(w) = w[1]
      /\ Head(w) \in S /\ \A i \in 1..(Len(w) - 1) : y[i] = w[i + 1]
  BY TailFacts
<1>3. /\ x \in Seq(S) /\ Len(x) = m + 1
      /\ \A i \in 1..(m + 1) : x[i] = IF i <= m THEN s[i] ELSE Head(w)
  BY <1>2, AppendFacts
<1> HIDE DEF x, y, m
<1>4. /\ b \in Seq(S) /\ Len(b) = Len(x) + Len(y)
      /\ \A i \in 1..(Len(x) + Len(y)) : b[i] = IF i <= Len(x) THEN x[i] ELSE y[i - Len(x)]
  <2>1. x \in Seq(S) /\ y \in Seq(S)
    BY <1>2, <1>3
  <2> QED
    BY <2>1, JoinFacts
<1> HIDE DEF a, b
<1>5. Len(a) = n /\ Len(b) = n
  BY <1>1, <1>2, <1>3, <1>4 DEF m
<1>6. ASSUME NEW i \in 1..n PROVE a[i] = b[i]
  <2>1. i \in 1..(m + Len(w)) /\ i \in 1..(Len(x) + Len(y))
    BY <1>1, <1>2, <1>3 DEF m
  <2>2. CASE i <= m
    BY <1>1, <1>3, <1>4, <2>1, <2>2
  <2>3. CASE i = m + 1
    <3>1. a[i] = w[1]
      <4>1. i - m = 1 /\ ~(i <= m)
        BY <1>1, <2>3
      <4> QED
        BY <1>1, <2>1, <4>1
    <3>2. b[i] = Head(w)
      BY <1>1, <1>3, <1>4, <2>1, <2>3
    <3> QED
      BY <1>2, <3>1, <3>2
  <2>4. CASE i > m + 1
    <3> DEFINE j == i - (m + 1)
    <3>1. j \in 1..(Len(w) - 1) /\ i - m = j + 1 /\ i - Len(x) = j /\ ~(i <= Len(x)) /\ ~(i <= m)
      BY <1>1, <1>2, <1>3, <2>1, <2>4
    <3> HIDE DEF j
    <3>2. a[i] = w[j + 1]
      BY <1>1, <2>1, <3>1
    <3>3. b[i] = y[j]
      BY <1>4, <2>1, <3>1
    <3> QED
      BY <1>2, <3>1, <3>2, <3>3
  <2> QED
    BY <1>1, <2>1, <2>2, <2>3, <2>4
<1>7. a = b
  <2>1. /\ a \in Seq(S) /\ Len(a) = n /\ b \in Seq(S) /\ Len(b) = n
        /\ \A i \in 1..n : a[i] = b[i]
    BY <1>1, <1>4, <1>5, <1>6
  <2> QED
    BY ONLY <2>1, SameElements
<1> QED
  BY <1>7 DEF a, b, x, y

\* Taking the first element out and putting one last commute.
LEMMA TailAppend ==
  ASSUME NEW S, NEW s \in Seq(S), NEW v \in S, s # << >>
  PROVE  Tail(Append(s, v)) = Append(Tail(s), v)
<1>1. <<v>> \in Seq(S) /\ Append(s, v) = s \o <<v>>
  OBVIOUS
<1>2. Tail(s) \in Seq(S)
  BY TailFacts
<1>3. Tail(s \o <<v>>) = Tail(s) \o <<v>>
  BY <1>1, TailJoin
<1>4. Append(Tail(s), v) = Tail(s) \o <<v>>
  BY <1>2
<1> QED
  BY <1>1, <1>3, <1>4

\* Inserting between the parts of a concatenation appends to the first.
LEMMA InsertJoin ==
  ASSUME NEW S, NEW s \in Seq(S), NEW w \in Seq(S), NEW v \in S
  PROVE  InsertAt(s \o w, Len(s) + 1, v) = Append(s, v) \o w
<1> DEFINE x == s \o w
<1>1. /\ x \in Seq(S) /\ Len(x) = Len(s) + Len(w) /\ Len(s) \in Nat /\ Len(w) \in Nat
      /\ \A i \in 1..(Len(s) + Len(w)) : x[i] = IF i <= Len(s) THEN s[i] ELSE w[i - Len(s)]
  BY JoinFacts
<1> HIDE DEF x
<1>2. SubSeq(x, 1, Len(s)) = s
  <2> DEFINE a == SubSeq(x, 1, Len(s))
  <2>1. a \in Seq(S) /\ Len(a) = Len(s) /\ \A i \in 1..Len(s) : a[i] = x[i]
    BY <1>1
  <2>2. \A i \in 1..Len(s) : x[i] = s[i]
    BY <1>1
  <2> HIDE DEF a
  <2> QED
    BY <2>1, <2>2, SameElements DEF a
<1>3. SubSeq(x, Len(s) + 1, Len(x)) = w
  <2> DEFINE a == SubSeq(x, Len(s) + 1, Len(x))
  <2>1. a \in Seq(S) /\ Len(a) = Len(w) /\ \A i \in 1..Len(w) : a[i] = x[Len(s) + i]
    BY <1>1
  <2> HIDE DEF a
  <2>2. ASSUME NEW i \in 1..Len(w) PROVE a[i] = w[i]
    <3> DEFINE k == Len(s) + i
    <3>1. k \in 1..(Len(s) + Len(w)) /\ ~(k <= Len(s)) /\ k - Len(s) = i /\ a[i] = x[k]
      BY <1>1, <2>1
    <3> HIDE DEF k
    <3> QED
      BY <1>1, <3>1
  <2> QED
    BY <2>1, <2>2, SameElements DEF a
<1>4. Append(s, v) = s \o <<v>>
  OBVIOUS
<1>5. Len(s) + 1 - 1 = Len(s)
  BY <1>1
<1> DEFINE k == Len(s) + 1
<1>6. SubSeq(x, 1, k - 1) = s /\ SubSeq(x, k, Len(x)) = w
  BY <1>2, <1>3, <1>5
<1> HIDE DEF k
<1>7. InsertAt(x, k, v) = SubSeq(x, 1, k - 1) \o <<v>> \o SubSeq(x, k, Len(x))
  BY DEF InsertAt
<1> QED
  BY <1>4, <1>6, <1>7 DEF k, x

\* The same if the first element is dropped for it, as a forced send does.
LEMMA ForceJoin ==
  ASSUME NEW S, NEW s \in Seq(S), NEW w \in Seq(S), NEW v \in S, s # << >>
  PROVE  Tail(InsertAt(s \o w, Len(s) + 1, v)) = Append(Tail(s), v) \o w
<1> DEFINE x == Append(s, v)
<1>1. x \in Seq(S) /\ x # << >> /\ Tail(x) = Append(Tail(s), v)
  <2>1. x \in Seq(S) /\ Len(x) = Len(s) + 1 /\ Len(s) \in Nat
    BY AppendFacts
  <2>2. Tail(x) = Append(Tail(s), v)
    BY TailAppend
  <2> HIDE DEF x
  <2> QED
    BY <2>1, <2>2, NotEmpty
<1>2. InsertAt(s \o w, Len(s) + 1, v) = x \o w
  BY InsertJoin
<1> HIDE DEF x
<1> QED
  BY <1>1, <1>2, TailJoin

\* Removing behind the first part.
LEMMA RemoveFacts ==
  ASSUME NEW S, NEW s \in Seq(S), NEW k \in 1..Len(s)
  PROVE  /\ RemoveAt(s, k) \in Seq(S) /\ Len(RemoveAt(s, k)) = Len(s) - 1 /\ Len(s) \in Nat \ {0}
         /\ \A i \in 1..(Len(s) - 1) : RemoveAt(s, k)[i] = IF i < k THEN s[i] ELSE s[i + 1]
<1> DEFINE a == SubSeq(s, 1, k - 1)
           b == SubSeq(s, k + 1, Len(s))
<1>0. Len(s) \in Nat /\ k \in Nat /\ 1 <= k /\ k <= Len(s)
  OBVIOUS
<1>1. a \in Seq(S) /\ Len(a) = k - 1 /\ \A i \in 1..(k - 1) : a[i] = s[i]
  OBVIOUS
<1>2. b \in Seq(S) /\ Len(b) = Len(s) - k /\ \A i \in 1..(Len(s) - k) : b[i] = s[k + i]
  OBVIOUS
<1>3. RemoveAt(s, k) = a \o b
  BY DEF RemoveAt
<1> HIDE DEF a, b
<1> DEFINE r == a \o b
<1>4. /\ r \in Seq(S) /\ Len(r) = Len(a) + Len(b)
      /\ \A i \in 1..(Len(a) + Len(b)) : r[i] = IF i <= Len(a) THEN a[i] ELSE b[i - Len(a)]
  BY <1>1, <1>2, JoinFacts
<1> HIDE DEF r
<1>5. Len(r) = Len(s) - 1
  BY <1>0, <1>1, <1>2, <1>4
<1>6. ASSUME NEW i \in 1..(Len(s) - 1) PROVE r[i] = IF i < k THEN s[i] ELSE s[i + 1]
  <2>1. i \in 1..(Len(a) + Len(b))
    BY <1>0, <1>1, <1>2
  <2>2. CASE i < k
    BY <1>0, <1>1, <1>4, <2>1, <2>2
  <2>3. CASE ~(i < k)
    <3> DEFINE j == i - (k - 1)
    <3>1. j \in 1..(Len(s) - k) /\ k + j = i + 1 /\ i - Len(a) = j /\ ~(i <= Len(a))
      BY <1>0, <1>1, <2>3
    <3> HIDE DEF j
    <3>2. r[i] = b[j]
      BY <1>4, <2>1, <3>1
    <3> QED
      BY <1>2, <2>3, <3>1, <3>2
  <2> QED
    BY <2>2, <2>3
<1> QED
  BY <1>0, <1>3, <1>4, <1>5, <1>6 DEF r

\* Taking an element out of the second part of a concatenation.
LEMMA RemoveJoin ==
  ASSUME NEW S, NEW s \in Seq(S), NEW w \in Seq(S), NEW k \in 1..Len(w)
  PROVE  RemoveAt(s \o w, Len(s) + k) = s \o RemoveAt(w, k)
<1> DEFINE x == s \o w
           y == RemoveAt(w, k)
           m == Len(s)
           h == m + k
           a == RemoveAt(x, h)
           b == s \o y
           n == Len(s) + Len(w) - 1
<1>1. /\ x \in Seq(S) /\ Len(x) = m + Len(w) /\ m \in Nat /\ Len(w) \in Nat
      /\ \A i \in 1..(m + Len(w)) : x[i] = IF i <= m THEN s[i] ELSE w[i - m]
  BY JoinFacts
<1>2. /\ y \in Seq(S) /\ Len(y) = Len(w) - 1 /\ Len(w) \in Nat \ {0}
      /\ \A i \in 1..(Len(w) - 1) : y[i] = IF i < k THEN w[i] ELSE w[i + 1]
  BY RemoveFacts
<1>3. h \in 1..Len(x) /\ k \in Nat /\ h = m + k
  BY <1>1
<1> HIDE DEF x, y, h
<1>4. /\ a \in Seq(S) /\ Len(a) = Len(x) - 1
      /\ \A i \in 1..(Len(x) - 1) : a[i] = IF i < h THEN x[i] ELSE x[i + 1]
  BY <1>1, <1>3, RemoveFacts
<1>5. /\ b \in Seq(S) /\ Len(b) = m + Len(y)
      /\ \A i \in 1..(m + Len(y)) : b[i] = IF i <= m THEN s[i] ELSE y[i - m]
  <2>1. y \in Seq(S)
    BY <1>2
  <2> QED
    BY <2>1, JoinFacts
<1> HIDE DEF a, b, m
<1>6. Len(a) = n /\ Len(b) = n
  BY <1>1, <1>2, <1>4, <1>5 DEF m
<1>7. ASSUME NEW i \in 1..n PROVE a[i] = b[i]
  <2>1. /\ i \in 1..(Len(x) - 1) /\ i \in 1..(m + Len(y)) /\ i \in 1..(m + Len(w))
        /\ i + 1 \in 1..(m + Len(w))
    BY <1>1, <1>2 DEF m
  <2>2. CASE i <= m
    <3>1. i < h
      BY <1>1, <1>3, <2>1, <2>2
    <3> QED
      BY <1>1, <1>4, <1>5, <2>1, <2>2, <3>1
  <2>3. CASE ~(i <= m)
    <3> DEFINE j == i - m
    <3>1. /\ j \in 1..(Len(w) - 1) /\ (i < h <=> j < k) /\ (i + 1) - m = j + 1
          /\ ~(i + 1 <= m)
      BY <1>1, <1>2, <1>3, <2>1, <2>3
    <3>2. b[i] = y[j] /\ x[i] = w[j]
      BY <1>1, <1>5, <2>1, <2>3
    <3> HIDE DEF j
    <3>3. x[i + 1] = w[j + 1]
      <4>1. x[i + 1] = w[(i + 1) - m]
        BY <1>1, <2>1, <3>1
      <4>2. (i + 1) - m = j + 1
        BY <3>1
      <4> QED
        BY ONLY <4>1, <4>2
    <3>4. CASE j < k
      BY <1>2, <1>4, <2>1, <3>1, <3>2, <3>4
    <3>5. CASE ~(j < k)
      BY <1>2, <1>4, <2>1, <3>1, <3>2, <3>3, <3>5
    <3> QED
      BY <3>4, <3>5
  <2> QED
    BY <2>2, <2>3
<1>8. a = b
  <2>1. /\ a \in Seq(S) /\ Len(a) = n /\ b \in Seq(S) /\ Len(b) = n
        /\ \A i \in 1..n : a[i] = b[i]
    BY <1>4, <1>5, <1>6, <1>7
  <2> QED
    BY ONLY <2>1, SameElements
<1> QED
  BY <1>8 DEF a, b, x, y, h, m

\* Concatenation with nothing.
LEMMA JoinEmpty ==
  ASSUME NEW S, NEW s \in Seq(S)
  PROVE  s \o << >> = s /\ << >> \o s = s
OBVIOUS

\* Appending to the second part appends to the whole.
LEMMA JoinAppend ==
  ASSUME NEW S, NEW s \in Seq(S), NEW w \in Seq(S), NEW v \in S, NEW x, x = s \o w,
         NEW y, y = Append(w, v), NEW a, a = Append(x, v)
  PROVE  a = s \o y
<1> DEFINE b == s \o y
           n == Len(s) + Len(w) + 1
<1>1. /\ x \in Seq(S) /\ Len(x) = Len(s) + Len(w) /\ Len(s) \in Nat /\ Len(w) \in Nat
      /\ \A i \in 1..(Len(s) + Len(w)) : x[i] = IF i <= Len(s) THEN s[i] ELSE w[i - Len(s)]
  BY JoinFacts
<1>2. /\ y \in Seq(S) /\ Len(y) = Len(w) + 1
      /\ \A i \in 1..(Len(w) + 1) : y[i] = IF i <= Len(w) THEN w[i] ELSE v
  BY AppendFacts
<1>3. /\ a \in Seq(S) /\ Len(a) = Len(x) + 1
      /\ \A i \in 1..(Len(x) + 1) : a[i] = IF i <= Len(x) THEN x[i] ELSE v
  <2>1. x \in Seq(S) /\ v \in S /\ a = Append(x, v)
    BY <1>1
  <2> QED
    BY ONLY <2>1, AppendFacts
<1>4. /\ b \in Seq(S) /\ Len(b) = Len(s) + Len(y)
      /\ \A i \in 1..(Len(s) + Len(y)) : b[i] = IF i <= Len(s) THEN s[i] ELSE y[i - Len(s)]
  <2>1. y \in Seq(S)
    BY <1>2
  <2> QED
    BY <2>1, JoinFacts
<1> HIDE DEF b
<1>5. Len(a) = n /\ Len(b) = n
  BY <1>1, <1>2, <1>3, <1>4
<1>6. ASSUME NEW i \in 1..n PROVE a[i] = b[i]
  <2> DEFINE j == i - Len(s)
  <2>1. CASE i <= Len(s)
    BY <1>1, <1>2, <1>3, <1>4, <2>1
  <2>2. CASE ~(i <= Len(s))
    <3>1. j \in 1..(Len(w) + 1) /\ (i <= Len(x) <=> j <= Len(w))
      BY <1>1, <2>2
    <3>2. b[i] = y[j]
      BY <1>1, <1>2, <1>4, <2>2
    <3>3. y[j] = IF j <= Len(w) THEN w[j] ELSE v
      BY <1>2, <3>1
    <3>4. i <= Len(x) => x[i] = w[j]
      BY <1>1, <2>2
    <3>5. a[i] = IF i <= Len(x) THEN x[i] ELSE v
      BY <1>1, <1>3
    <3> QED
      BY <3>1, <3>2, <3>3, <3>4, <3>5
  <2> QED
    BY <2>1, <2>2
<1> HIDE DEF n
<1>7. a = b
  <2>1. /\ a \in Seq(S) /\ Len(a) = n /\ b \in Seq(S) /\ Len(b) = n
        /\ \A i \in 1..n : a[i] = b[i]
    BY <1>3, <1>4, <1>5, <1>6
  <2> QED
    BY ONLY <2>1, SameElements
<1> QED
  BY <1>7 DEF b

-----------------------------------------------------------------------------
(* The ring buffer of a data queue. *)

\* The i-th place behind h in a ring of N places.
PlaceAt(h, i, N) == IF h + i >= N THEN h + i - N ELSE h + i

Ring(N) == [count: Nat, head: Nat, tail: Nat, mb: [0..(N - 1) -> DtqData \union {NoData}]]

\* The ring c of N places holds the data s, the oldest first.
IsRing(c, N, s) ==
  /\ c \in Ring(N)
  /\ c.head \in 0..N /\ (c.head < N \/ N = 0)
  /\ c.count \in 0..N /\ c.tail = PlaceAt(c.head, c.count, N)
  /\ s \in Seq(DtqData) /\ Len(s) = c.count
  /\ \A i \in 1..c.count : c.mb[PlaceAt(c.head, i - 1, N)] = s[i]

\* enqueue_data appends to what a ring with a free place holds.
LEMMA EnqueueRing ==
  ASSUME NEW d \in Dtq, NEW N \in Nat, N = DtqCnt[d], NEW c, NEW s, IsRing(c, N, s),
         c.count < N, NEW v \in DtqData
  PROVE  IsRing(EnqueueData(c, d, v), N, Append(s, v))
<1> DEFINE e == EnqueueData(c, d, v)
           r == Append(s, v)
<1>1. /\ c.head \in Nat /\ c.head < N /\ c.count \in Nat
      /\ c.tail = PlaceAt(c.head, c.count, N) /\ c.tail \in 0..(N - 1)
  BY DEF IsRing, PlaceAt
<1>2. /\ e.count = c.count + 1 /\ e.head = c.head /\ e.tail = NextPlace(d, c.tail)
      /\ e \in Ring(N)
      /\ e.mb = [c.mb EXCEPT ![c.tail] = v]
  <2>1. /\ c \in Ring(N) /\ c.mb \in [0..(N - 1) -> DtqData \union {NoData}]
        /\ NextPlace(d, c.tail) \in Nat
    BY <1>1 DEF IsRing, Ring, NextPlace
  <2> DEFINE m == [c.mb EXCEPT ![c.tail] = v]
  <2>2. m \in [0..(N - 1) -> DtqData \union {NoData}]
    BY <1>1, <2>1
  <2>3. e = [c EXCEPT !.mb = m, !.count = c.count + 1, !.tail = NextPlace(d, c.tail)]
    BY DEF EnqueueData
  <2>4. m = [c.mb EXCEPT ![c.tail] = v]
    OBVIOUS
  <2> HIDE DEF m, e
  <2>5. /\ e.count = c.count + 1 /\ e.head = c.head /\ e.tail = NextPlace(d, c.tail)
        /\ e \in Ring(N) /\ e.mb = m
    <3>1. c.count + 1 \in Nat
      BY <1>1
    <3> QED
      BY <2>1, <2>2, <2>3, <3>1 DEF Ring
  <2> QED
    BY <2>4, <2>5
<1> HIDE DEF e
<1>3. e \in Ring(N) /\ e.mb[c.tail] = v
      /\ \A i \in 0..(N - 1) : i # c.tail => e.mb[i] = c.mb[i]
  <2>1. c.mb \in [0..(N - 1) -> DtqData \union {NoData}]
    BY DEF IsRing, Ring
  <2> QED
    BY <1>1, <1>2, <2>1
<1>4. e.tail = PlaceAt(e.head, e.count, N)
  BY <1>1, <1>2 DEF PlaceAt, NextPlace
<1>5. /\ s \in Seq(DtqData) /\ Len(s) = c.count /\ r \in Seq(DtqData) /\ Len(r) = c.count + 1
      /\ r[c.count + 1] = v /\ \A i \in 1..c.count : r[i] = s[i]
  BY <1>1 DEF IsRing
<1> HIDE DEF r
<1>6. ASSUME NEW i \in 1..(c.count + 1) PROVE e.mb[PlaceAt(c.head, i - 1, N)] = r[i]
  <2>1. CASE i = c.count + 1
    BY <1>1, <1>3, <1>5, <2>1
  <2>2. CASE i # c.count + 1
    <3>1. i \in 1..c.count /\ PlaceAt(c.head, i - 1, N) \in 0..(N - 1)
          /\ PlaceAt(c.head, i - 1, N) # c.tail
      BY <1>1, <2>2 DEF PlaceAt
    <3>2. c.mb[PlaceAt(c.head, i - 1, N)] = s[i]
      BY <3>1 DEF IsRing
    <3> QED
      BY <1>3, <1>5, <3>1, <3>2
  <2> QED
    BY <2>1, <2>2
<1>7. e.head \in 0..N /\ e.head < N /\ e.count \in 0..N
  BY <1>1, <1>2
<1> QED
  BY <1>2, <1>3, <1>4, <1>5, <1>6, <1>7 DEF IsRing, e, r

\* dequeue_data takes the oldest datum out of a ring that holds one.
LEMMA DequeueRing ==
  ASSUME NEW d \in Dtq, NEW N \in Nat, N = DtqCnt[d], NEW c, NEW s, IsRing(c, N, s),
         c.count > 0
  PROVE  /\ IsRing(DequeueData(c, d), N, Tail(s)) /\ Oldest(c) = Head(s) /\ s # << >>
         /\ DequeueData(c, d).count = c.count - 1
<1> DEFINE e == DequeueData(c, d)
           r == Tail(s)
<1>1. /\ c.head \in Nat /\ c.head < N /\ c.count \in Nat /\ c.count <= N
      /\ c.tail = PlaceAt(c.head, c.count, N)
  BY DEF IsRing
<1>2. /\ e.count = c.count - 1 /\ e.head = NextPlace(d, c.head) /\ e.tail = c.tail
      /\ e \in Ring(N)
      /\ e.mb = [c.mb EXCEPT ![c.head] = NoData]
  <2>1. /\ c \in Ring(N) /\ c.mb \in [0..(N - 1) -> DtqData \union {NoData}]
        /\ NextPlace(d, c.head) \in Nat /\ c.count - 1 \in Nat
    BY <1>1 DEF IsRing, Ring, NextPlace
  <2> DEFINE m == [c.mb EXCEPT ![c.head] = NoData]
  <2>2. m \in [0..(N - 1) -> DtqData \union {NoData}]
    BY <1>1, <2>1
  <2>3. e = [c EXCEPT !.count = c.count - 1, !.head = NextPlace(d, c.head), !.mb = m]
    BY DEF DequeueData
  <2> QED
    BY <1>1, <2>1, <2>2, <2>3 DEF Ring
<1> HIDE DEF e
<1>3. /\ e \in Ring(N)
      /\ \A i \in 0..(N - 1) : i # c.head => e.mb[i] = c.mb[i]
  <2>1. c.mb \in [0..(N - 1) -> DtqData \union {NoData}]
    BY DEF IsRing, Ring
  <2> QED
    BY <1>1, <1>2, <2>1
<1>4. /\ e.head = PlaceAt(c.head, 1, N) /\ e.tail = PlaceAt(e.head, e.count, N)
      /\ e.head \in 0..N /\ e.head < N /\ e.count \in 0..N
  BY <1>1, <1>2 DEF PlaceAt, NextPlace
<1>5. /\ s \in Seq(DtqData) /\ Len(s) = c.count /\ s # << >> /\ Head(s) = s[1]
      /\ r \in Seq(DtqData) /\ Len(r) = c.count - 1
      /\ \A i \in 1..(c.count - 1) : r[i] = s[i + 1]
  BY <1>1 DEF IsRing
<1> HIDE DEF r
<1>6. ASSUME NEW i \in 1..e.count PROVE e.mb[PlaceAt(e.head, i - 1, N)] = r[i]
  <2>1. /\ i + 1 \in 1..c.count /\ i \in 1..(c.count - 1)
        /\ PlaceAt(e.head, i - 1, N) = PlaceAt(c.head, (i + 1) - 1, N)
        /\ PlaceAt(e.head, i - 1, N) \in 0..(N - 1) /\ PlaceAt(e.head, i - 1, N) # c.head
    BY <1>1, <1>2, <1>4 DEF PlaceAt
  <2>2. c.mb[PlaceAt(c.head, (i + 1) - 1, N)] = s[i + 1]
    BY <2>1 DEF IsRing
  <2> QED
    BY <1>3, <1>5, <2>1, <2>2
<1>7. Oldest(c) = Head(s)
  <2>1. PlaceAt(c.head, 1 - 1, N) = c.head /\ 1 \in 1..c.count
    BY <1>1 DEF PlaceAt
  <2>2. c.mb[PlaceAt(c.head, 1 - 1, N)] = s[1]
    BY <2>1 DEF IsRing
  <2> QED
    BY <1>5, <2>1, <2>2 DEF Oldest
<1> QED
  BY <1>2, <1>3, <1>4, <1>5, <1>6, <1>7 DEF IsRing, e, r

\* A forced send into a full ring replaces the oldest datum.
LEMMA ForceRing ==
  ASSUME NEW d \in Dtq, NEW N \in Nat, N = DtqCnt[d], NEW c, NEW s, IsRing(c, N, s),
         c.count = N, N > 0, NEW v \in DtqData
  PROVE  IsRing(ForceEnqueueData(c, d, v), N, Append(Tail(s), v)) /\ s # << >>
<1> DEFINE e == ForceEnqueueData(c, d, v)
           r == Append(Tail(s), v)
<1>1. c.head \in Nat /\ c.head < N /\ c.tail = c.head
  BY DEF IsRing, PlaceAt
<1>2. /\ e.count = c.count /\ e.tail = NextPlace(d, c.tail) /\ e.head = e.tail
      /\ e \in Ring(N)
      /\ e.mb = [c.mb EXCEPT ![c.tail] = v]
  BY <1>1 DEF IsRing, ForceEnqueueData, Ring, NextPlace
<1> HIDE DEF e
<1>3. /\ e \in Ring(N) /\ e.mb[c.head] = v
      /\ \A i \in 0..(N - 1) : i # c.head => e.mb[i] = c.mb[i]
  <2>1. c.mb \in [0..(N - 1) -> DtqData \union {NoData}]
    BY DEF IsRing, Ring
  <2> QED
    BY <1>1, <1>2, <2>1
<1>4. /\ e.head = PlaceAt(c.head, 1, N) /\ e.tail = PlaceAt(e.head, e.count, N)
      /\ e.head \in 0..N /\ e.head < N /\ e.count \in 0..N
  BY <1>1, <1>2 DEF PlaceAt, NextPlace
<1>5. /\ s \in Seq(DtqData) /\ Len(s) = N /\ s # << >>
      /\ r \in Seq(DtqData) /\ Len(r) = N /\ r[N] = v
      /\ \A i \in 1..(N - 1) : r[i] = s[i + 1]
  BY <1>1 DEF IsRing
<1> HIDE DEF r
<1>6. ASSUME NEW i \in 1..e.count PROVE e.mb[PlaceAt(e.head, i - 1, N)] = r[i]
  <2>1. CASE i = N
    <3>1. PlaceAt(e.head, i - 1, N) = c.head
      BY <1>1, <1>4, <2>1 DEF PlaceAt
    <3> QED
      BY <1>3, <1>5, <2>1, <3>1
  <2>2. CASE i # N
    <3>1. i + 1 \in 1..c.count /\ i \in 1..(N - 1)
      BY <1>2, <2>2 DEF IsRing
    <3> DEFINE h == c.head
    <3>2. h \in 0..(N - 1) /\ e.head = IF h + 1 >= N THEN h + 1 - N ELSE h + 1
      BY <1>1, <1>4 DEF PlaceAt
    <3> HIDE DEF h
    <3>3. /\ PlaceAt(e.head, i - 1, N) = PlaceAt(h, (i + 1) - 1, N)
          /\ PlaceAt(e.head, i - 1, N) \in 0..(N - 1) /\ PlaceAt(e.head, i - 1, N) # h
      BY <3>1, <3>2 DEF PlaceAt
    <3>4. c.mb[PlaceAt(c.head, (i + 1) - 1, N)] = s[i + 1]
      BY <3>1 DEF IsRing
    <3> QED
      BY <1>3, <1>5, <3>1, <3>3, <3>4 DEF h
  <2> QED
    BY <2>1, <2>2
<1> QED
  BY <1>2, <1>3, <1>4, <1>5, <1>6 DEF IsRing, e, r

\* An empty ring.
LEMMA EmptyRing ==
  ASSUME NEW d \in Dtq, NEW N \in Nat, N = DtqCnt[d]
  PROVE  IsRing(EmptyDtq(d), N, << >>)
BY DEF IsRing, EmptyDtq, PlaceAt, Ring

\* The data are those that the property reads from the ring.
LEMMA RingContents ==
  ASSUME NEW N \in Nat, NEW c, NEW s, IsRing(c, N, s)
  PROVE  s = [i \in 1..c.count |-> c.mb[(c.head + i - 1) % N]]
<1>1. ASSUME NEW i \in 1..c.count PROVE PlaceAt(c.head, i - 1, N) = (c.head + i - 1) % N
  <2>1. /\ c.head \in Nat /\ c.head < N /\ N \in Nat \ {0} /\ i - 1 \in Nat /\ i - 1 < N
        /\ i \in Nat
    BY DEF IsRing
  <2> DEFINE x == c.head + i - 1
  <2>2. x \in Nat /\ x < N + N /\ PlaceAt(c.head, i - 1, N) = IF x >= N THEN x - N ELSE x
    BY <2>1 DEF PlaceAt
  <2> HIDE DEF x
  <2>3. x % N = IF x >= N THEN x - N ELSE x
    BY <2>1, <2>2
  <2> QED
    BY <2>2, <2>3 DEF x
<1>2. s \in Seq(DtqData) /\ Len(s) = c.count /\ c.count \in Nat
  BY DEF IsRing
<1>3. s = [i \in 1..c.count |-> s[i]]
  BY <1>2
<1>4. \A i \in 1..c.count : s[i] = c.mb[(c.head + i - 1) % N]
  BY <1>1 DEF IsRing
<1> QED
  BY <1>3, <1>4

-----------------------------------------------------------------------------
(* The wait queues of data queues. *)

\* Two objects have no queue in common.
LEMMA QueueNames ==
  ASSUME NEW d, NEW e
  PROVE  /\ SQ(d) # RQ(e)
         /\ SQ(d) = SQ(e) => d = e
         /\ RQ(d) = RQ(e) => d = e
BY DEF SQ, RQ

\* Both queues of an object are emptied.
LEMMA BothLeave ==
  ASSUME WaitInv, NEW v \in WObj, NEW w \in WObj,
         Return(InitWaitQueue(InitWaitQueue(K, v), w))
  PROVE  /\ WaitInv' /\ wque'[v] = << >> /\ wque'[w] = << >>
         /\ \A x \in WObj \ {v, w} : wque'[x] = wque[x]
<1> DEFINE y == InitWaitQueue(K, v)
           z == InitWaitQueue(y, w)
<1>1. IInv /\ SInv /\ SchedtskExact(K) /\ Releases(K) /\ K.wque = wque
      /\ wque \in [WObj -> Seq(Task)]
  BY QueueTypes
<1>2. Releases(y) /\ y.wque = [wque EXCEPT ![v] = << >>]
  BY <1>1, AllReleasedOK
<1> HIDE DEF y
<1>3. Releases(z) /\ z.wque = [y.wque EXCEPT ![w] = << >>]
  BY <1>2, AllReleasedOK
<1> HIDE DEF z
<1>4. Return(z)
  BY DEF z, y
<1>5. IInv' /\ SStep /\ WaitsExact(K') /\ wque' = z.wque
  BY <1>1, <1>3, <1>4, ReleasesReturn
<1>6. WaitInv'
  BY <1>1, <1>3, <1>5 DEF WaitInv, FullInv, SStep
<1>7. wque' = [[wque EXCEPT ![v] = << >>] EXCEPT ![w] = << >>]
  BY <1>2, <1>3, <1>5
<1> QED
  BY <1>1, <1>6, <1>7

\* A task in a queue waits.
LEMMA QueuedWaits ==
  ASSUME WaitInv, NEW w \in WObj, NEW i \in DOMAIN wque[w]
  PROVE  wque[w][i] \in WaitersOf(K, w) /\ IsWaiting(tcb[wque[w][i]].tstat)
<1>1. /\ wque \in [WObj -> Seq(Task)] /\ K.wque = wque /\ K.tcb = tcb /\ tcb \in [Task -> TCB]
      /\ WaitsExact(K)
  BY QueueTypes
<1>2. Range(K.wque[w]) = WaitersOf(K, w)
  BY <1>1, RangeIsWaiters
<1>3. wque[w][i] \in WaitersOf(K, w)
  BY <1>1, <1>2 DEF Range
<1>4. \A b \in TCB : InQueue(b) => IsWaiting(b.tstat)
  BY DEF InQueue, IsWaiting, WaitFlag
<1> QED
  BY <1>1, <1>3, <1>4 DEF WaitersOf

\* Of a queue q of tasks: what they send.
DataOf(q, sd) == [i \in DOMAIN q |-> sd[q[i]]]

Sending(d) == DataOf(wque[SQ(d)], sdata)

\* SendersKept keeps the data of the tasks that still wait.
LEMMA DataKept ==
  ASSUME WaitInv', SendersKept, NEW w \in WObj
  PROVE  DataOf(wque'[w], sdata') = DataOf(wque'[w], sdata)
<1>1. wque' \in [WObj -> Seq(Task)] /\ tcb' \in [Task -> TCB]
  BY QueueTypesNext
<1>2. ASSUME NEW i \in DOMAIN wque'[w] PROVE sdata'[wque'[w][i]] = sdata[wque'[w][i]]
  <2>1. wque'[w][i] \in Task /\ IsWaiting(tcb'[wque'[w][i]].tstat)
    <3>1. /\ K'.wque = wque' /\ K'.tcb = tcb' /\ WaitsExact(K')
      BY <1>1, WaitFields, QueueTypesNext
    <3>2. wque'[w][i] \in WaitersOf(K', w)
      BY <3>1 DEF WaitsExact, IsQueue
    <3>3. \A b \in TCB : InQueue(b) => IsWaiting(b.tstat)
      BY DEF InQueue, IsWaiting, WaitFlag
    <3> QED
      BY <1>1, <3>1, <3>2, <3>3 DEF WaitersOf
  <2> QED
    BY <2>1 DEF SendersKept
<1> QED
  BY <1>2 DEF DataOf

\* The data of the tasks that remain when the first one leaves.
LEMMA DataOfTail ==
  ASSUME NEW q \in Seq(Task), q # << >>, NEW sd
  PROVE  /\ DataOf(Tail(q), sd) = Tail(DataOf(q, sd)) /\ DataOf(q, sd) # << >>
         /\ Head(DataOf(q, sd)) = sd[Head(q)]
<1> DEFINE S == {sd[t] : t \in Task}
           r == DataOf(q, sd)
<1>1. r \in Seq(S) /\ Len(r) = Len(q) /\ \A i \in 1..Len(q) : r[i] = sd[q[i]]
  <2>1. \A i \in 1..Len(q) : q[i] \in Task /\ sd[q[i]] \in S
    OBVIOUS
  <2> HIDE DEF S
  <2>2. r = [i \in 1..Len(q) |-> sd[q[i]]]
    BY DEF DataOf
  <2> QED
    BY <2>1, <2>2
<1>2. Len(q) \in Nat \ {0} /\ Head(q) = q[1] /\ Tail(q) \in Seq(Task)
      /\ Len(Tail(q)) = Len(q) - 1 /\ \A i \in 1..(Len(q) - 1) : Tail(q)[i] = q[i + 1]
  OBVIOUS
<1> HIDE DEF r, S
<1>3. r # << >> /\ Head(r) = sd[Head(q)] /\ Tail(r) \in Seq(S) /\ Len(Tail(r)) = Len(q) - 1
      /\ \A i \in 1..(Len(q) - 1) : Tail(r)[i] = r[i + 1]
  BY <1>1, <1>2
<1> DEFINE u == DataOf(Tail(q), sd)
<1>4. /\ u \in Seq(S) /\ Len(u) = Len(q) - 1
      /\ \A i \in 1..(Len(q) - 1) : u[i] = r[i + 1]
  <2>1. u = [i \in 1..(Len(q) - 1) |-> sd[q[i + 1]]]
    BY <1>2 DEF DataOf
  <2>2. \A i \in 1..(Len(q) - 1) : r[i + 1] \in S /\ sd[q[i + 1]] = r[i + 1]
    BY <1>1, <1>2
  <2>3. Len(q) - 1 \in Nat
    BY <1>2
  <2> HIDE DEF u
  <2> QED
    BY <2>1, <2>2, <2>3
<1> HIDE DEF u
<1>5. Tail(r) = u
  <2> DEFINE x == Tail(r)
             n == Len(q) - 1
  <2>1. x \in Seq(S) /\ Len(x) = n /\ Len(u) = n /\ \A i \in 1..n : x[i] = u[i]
    BY <1>3, <1>4
  <2> HIDE DEF x, n
  <2>2. x = u
    BY <1>4, <2>1, SameElements
  <2> QED
    BY <2>2 DEF x
<1> QED
  BY <1>3, <1>5 DEF r, u

-----------------------------------------------------------------------------
(* Data queues.                                                               *)

\* The data in the buffer of d are where its head, tail and count say; only if it
\* is empty do receivers wait, and only if it is full senders.
BufferOK(d) ==
  /\ \E s : IsRing(dtqcb[d], DtqCnt[d], s)
  /\ ReceiverWaits(d) => dtqcb[d].count = 0 /\ ~SenderWaits(d)
  /\ SenderWaits(d) => dtqcb[d].count = DtqCnt[d]

DtqTyped == dtqcb = [d \in Dtq |-> dtqcb[d]] /\ sdata = [t \in Task |-> sdata[t]]

\* The inductive invariant: that of the kernel, the buffers, and the data of the
\* tasks that wait to send.
DtqInv ==
  /\ WaitInv /\ DtqTyped
  /\ \A d \in Dtq : BufferOK(d) /\ \A t \in WaitersOf(K, SQ(d)) : sdata[t] \in DtqData

\* What the invariant says of types.
LEMMA DtqTypes ==
  ASSUME DtqInv
  PROVE  /\ WaitInv /\ wque \in [WObj -> Seq(Task)] /\ WaitsExact(K)
         /\ dtqcb = [d \in Dtq |-> dtqcb[d]] /\ sdata = [t \in Task |-> sdata[t]]
         /\ \A d \in Dtq : SQ(d) \in WObj /\ RQ(d) \in WObj /\ DtqCnt[d] \in Nat
BY QueueTypes, DataQueueAssumption DEF DtqInv, DtqTyped

\* A task that still waits keeps its datum.
LEMMA WaiterDatum ==
  ASSUME WaitInv', SendersKept \/ sdata' = sdata, NEW w, NEW t \in WaitersOf(K', w)
  PROVE  sdata'[t] = sdata[t]
<1>1. tcb' \in [Task -> TCB] /\ K'.tcb = tcb'
  BY QueueTypesNext, WaitFields
<1>2. \A b \in TCB : InQueue(b) => IsWaiting(b.tstat)
  BY DEF InQueue, IsWaiting, WaitFlag
<1>3. t \in Task /\ IsWaiting(tcb'[t].tstat)
  BY <1>1, <1>2 DEF WaitersOf
<1> QED
  BY <1>3 DEF SendersKept

\* The waiters of a queue of which some leave.
LEMMA FewerWait ==
  ASSUME WaitInv, WaitInv', NEW w \in WObj, Range(wque'[w]) \subseteq Range(wque[w])
  PROVE  WaitersOf(K', w) \subseteq WaitersOf(K, w)
<1>1. /\ WaitsExact(K) /\ WaitsExact(K') /\ K.wque = wque /\ K'.wque = wque'
  BY QueueTypes, QueueTypesNext
<1>2. Range(K.wque[w]) = WaitersOf(K, w) /\ Range(K'.wque[w]) = WaitersOf(K', w)
  BY <1>1, RangeIsWaiters
<1> QED
  BY <1>1, <1>2

\* A step in which no task starts to wait to send.
LEMMA DtqStepOK ==
  ASSUME DtqInv, WaitInv', SendersKept \/ sdata' = sdata,
         dtqcb' = [d \in Dtq |-> dtqcb'[d]],
         \A d \in Dtq : WaitersOf(K', SQ(d)) \subseteq WaitersOf(K, SQ(d)),
         \A d \in Dtq : \/ dtqcb'[d] = dtqcb[d] /\ (wque[RQ(d)] = << >> => wque'[RQ(d)] = << >>)
                        \/ BufferOK(d)'
  PROVE  DtqInv'
<1>1. DtqTyped'
  BY DtqTypes DEF DtqTyped, SendersKept
<1>2. ASSUME NEW d \in Dtq, NEW t \in WaitersOf(K', SQ(d)) PROVE sdata'[t] \in DtqData
  BY <1>2, WaiterDatum DEF DtqInv
<1>3. ASSUME NEW d \in Dtq PROVE BufferOK(d)'
  <2>1. /\ WaitsExact(K) /\ WaitsExact(K') /\ K.wque = wque /\ K'.wque = wque'
        /\ SQ(d) \in WObj /\ wque \in [WObj -> Seq(Task)] /\ wque' \in [WObj -> Seq(Task)]
    BY DtqTypes, QueueTypes, QueueTypesNext
  <2>2. wque[SQ(d)] = << >> => wque'[SQ(d)] = << >>
    <3>1. /\ IsQueue(wque[SQ(d)], WaitersOf(K, SQ(d)))
          /\ IsQueue(wque'[SQ(d)], WaitersOf(K', SQ(d)))
      BY <2>1 DEF WaitsExact
    <3> DEFINE q == wque[SQ(d)]
               r == wque'[SQ(d)]
    <3>2. q \in Seq(Task) /\ r \in Seq(Task)
      BY <2>1
    <3> HIDE DEF q, r
    <3>3. (q = << >> <=> WaitersOf(K, SQ(d)) = {}) /\ (r = << >> <=> WaitersOf(K', SQ(d)) = {})
      BY <3>1, <3>2, EmptyQueue DEF q, r
    <3> QED
      BY <3>3 DEF q, r
  <2>3. CASE BufferOK(d)'
    BY <2>3
  <2>4. CASE dtqcb'[d] = dtqcb[d] /\ (wque[RQ(d)] = << >> => wque'[RQ(d)] = << >>)
    BY <2>2, <2>4 DEF DtqInv, BufferOK, ReceiverWaits, SenderWaits
  <2> QED
    BY <1>3, <2>3, <2>4
<1>4. \A d \in Dtq : \A t \in WaitersOf(K', SQ(d)) : sdata'[t] \in DtqData
  BY <1>2
<1> QED
  BY <1>1, <1>3, <1>4 DEF DtqInv

\* A step of the buffer alone: d gets the ring c, and no queue changes.
Stores(d, c) == wque' = wque /\ dtqcb' = [dtqcb EXCEPT ![d] = c]

\* The first sender of d is released, and d gets the ring c.
LetsIn(d, c) ==
  /\ SenderWaits(d) /\ wque' = [wque EXCEPT ![SQ(d)] = Tail(@)]
  /\ dtqcb' = [dtqcb EXCEPT ![d] = c]

\* The first receiver of d is released with v.
HandsOver(d, v) ==
  /\ ReceiverWaits(d) /\ wque' = [wque EXCEPT ![RQ(d)] = Tail(@)]
  /\ dtqcb' = dtqcb /\ Head(wque[RQ(d)]) \in Task /\ Deliver(Head(wque[RQ(d)]), v)

\* The tail of a queue.
LEMMA TailWaits ==
  ASSUME NEW S, NEW q \in Seq(S), q # << >>
  PROVE  Tail(q) \in Seq(S) /\ Range(Tail(q)) \subseteq Range(q) /\ Head(q) \in S
<1>1. /\ Tail(q) \in Seq(S) /\ DOMAIN Tail(q) = 1..(Len(q) - 1) /\ Len(q) \in Nat \ {0}
      /\ DOMAIN q = 1..Len(q) /\ \A i \in 1..(Len(q) - 1) : Tail(q)[i] = q[i + 1]
      /\ Head(q) \in S
  OBVIOUS
<1>2. \A i \in 1..(Len(q) - 1) : i + 1 \in 1..Len(q)
  BY <1>1
<1> QED
  BY <1>1, <1>2 DEF Range

\* The invariant after a datum is stored or taken with nobody let in.
LEMMA StoresOK ==
  ASSUME DtqInv, WaitInv', SendersKept \/ sdata' = sdata, NEW d \in Dtq, NEW c,
         NEW s, IsRing(c, DtqCnt[d], s), Stores(d, c),
         ReceiverWaits(d) => c.count = 0 /\ ~SenderWaits(d),
         SenderWaits(d) => c.count = DtqCnt[d]
  PROVE  DtqInv'
<1>1. dtqcb' = [e \in Dtq |-> IF e = d THEN c ELSE dtqcb[e]]
  BY DtqTypes DEF Stores
<1>2. \A w \in WObj : WaitersOf(K', w) \subseteq WaitersOf(K, w)
  BY FewerWait, DtqTypes DEF Stores
<1>3. BufferOK(d)'
  BY <1>1 DEF BufferOK, ReceiverWaits, SenderWaits, Stores
<1>4. \A e \in Dtq : e # d => dtqcb'[e] = dtqcb[e]
  BY <1>1
<1>5. dtqcb' = [e \in Dtq |-> dtqcb'[e]] /\ \A e \in Dtq : SQ(e) \in WObj
  BY <1>1, DtqTypes
<1> QED
  BY <1>2, <1>3, <1>4, <1>5, DtqStepOK DEF Stores

\* The invariant after the first waiting sender is let in.
LEMMA LetsInOK ==
  ASSUME DtqInv, WaitInv', SendersKept, NEW d \in Dtq, NEW c,
         NEW s, IsRing(c, DtqCnt[d], s), LetsIn(d, c), c.count = DtqCnt[d]
  PROVE  DtqInv'
<1> DEFINE q == wque[SQ(d)]
<1>1. /\ dtqcb' = [e \in Dtq |-> IF e = d THEN c ELSE dtqcb[e]]
      /\ wque \in [WObj -> Seq(Task)] /\ SQ(d) \in WObj /\ RQ(d) \in WObj
  BY DtqTypes DEF LetsIn
<1>2. q \in Seq(Task) /\ q # << >> /\ wque'[SQ(d)] = Tail(q)
      /\ \A w \in WObj : w # SQ(d) => wque'[w] = wque[w]
  BY <1>1 DEF LetsIn, SenderWaits
<1>3. \A w \in WObj : Range(wque'[w]) \subseteq Range(wque[w])
  <2> HIDE DEF q
  <2>1. Range(Tail(q)) \subseteq Range(q)
    BY <1>2, TailWaits
  <2> QED
    BY <1>2, <2>1 DEF q
<1>4. \A w \in WObj : WaitersOf(K', w) \subseteq WaitersOf(K, w)
  BY <1>3, FewerWait, DtqTypes
<1>5. \A e \in Dtq : wque'[RQ(e)] = wque[RQ(e)]
  BY <1>2, DtqTypes, QueueNames
<1>6. BufferOK(d)'
  <2>1. ~ReceiverWaits(d)
    BY DEF DtqInv, BufferOK, LetsIn
  <2> QED
    BY <1>1, <1>5, <2>1 DEF BufferOK, ReceiverWaits, SenderWaits
<1>7. \A e \in Dtq : e # d => dtqcb'[e] = dtqcb[e]
  BY <1>1
<1>8. dtqcb' = [e \in Dtq |-> dtqcb'[e]] /\ \A e \in Dtq : SQ(e) \in WObj
  BY <1>1, DtqTypes
<1> QED
  BY <1>4, <1>5, <1>6, <1>7, <1>8, DtqStepOK

\* The invariant after a datum goes straight to a receiver.
LEMMA HandsOverOK ==
  ASSUME DtqInv, WaitInv', SendersKept, NEW d \in Dtq, NEW v, HandsOver(d, v)
  PROVE  DtqInv'
<1> DEFINE q == wque[RQ(d)]
<1>1. wque \in [WObj -> Seq(Task)] /\ RQ(d) \in WObj
  BY DtqTypes
<1>2. /\ q # << >> /\ \A w \in WObj : w # RQ(d) => wque'[w] = wque[w]
  BY <1>1 DEF HandsOver, ReceiverWaits
<1>3. \A e \in Dtq : wque'[SQ(e)] = wque[SQ(e)]
  BY <1>2, DtqTypes, QueueNames
<1>4. \A e \in Dtq : WaitersOf(K', SQ(e)) \subseteq WaitersOf(K, SQ(e))
  BY <1>3, FewerWait, DtqTypes
<1>5. ASSUME NEW e \in Dtq PROVE wque[RQ(e)] = << >> => wque'[RQ(e)] = << >>
  BY <1>2, DtqTypes, QueueNames
<1>6. dtqcb' = dtqcb /\ dtqcb' = [e \in Dtq |-> dtqcb'[e]]
  BY DtqTypes DEF HandsOver
<1> QED
  BY <1>4, <1>5, <1>6, DtqStepOK

\* The running task starts to wait to send v to d.
StartsToSend(d, v) ==
  /\ ~ReceiverWaits(d) /\ ~DtqHasRoom(d) /\ dtqcb' = dtqcb
  /\ runtsk \in Task /\ JoinsQueue(K, K', runtsk, SQ(d))
  /\ sdata' = [sdata EXCEPT ![runtsk] = v]

\* It starts to wait to receive.
StartsToReceive(d) ==
  /\ dtqcb[d].count = 0 /\ ~SenderWaits(d) /\ dtqcb' = dtqcb
  /\ \A w \in WObj \ {RQ(d)} : wque'[w] = wque[w]

\* d is initialised.
Empties(d) ==
  /\ wque'[SQ(d)] = << >> /\ wque'[RQ(d)] = << >>
  /\ \A w \in WObj \ {SQ(d), RQ(d)} : wque'[w] = wque[w]
  /\ dtqcb' = [dtqcb EXCEPT ![d] = EmptyDtq(d)]

\* The buffer is full when there is no room.
LEMMA FullBuffer ==
  ASSUME DtqInv, NEW d \in Dtq
  PROVE  /\ ~DtqHasRoom(d) => dtqcb[d].count = DtqCnt[d]
         /\ dtqcb[d].count \in 0..DtqCnt[d]
BY DtqTypes DEF DtqInv, BufferOK, IsRing, DtqHasRoom

\* The invariant after a task starts to wait to send.
LEMMA StartsToSendOK ==
  ASSUME DtqInv, WaitInv', NEW d \in Dtq, NEW v \in DtqData, StartsToSend(d, v)
  PROVE  DtqInv'
<1> DEFINE t == runtsk
<1>1. /\ wque \in [WObj -> Seq(Task)] /\ SQ(d) \in WObj /\ K.wque = wque /\ K'.wque = wque'
      /\ K.tcb = tcb /\ K'.tcb = tcb' /\ t \in Task /\ sdata = [x \in Task |-> sdata[x]]
      /\ sdata' = [sdata EXCEPT ![t] = v]
  BY DtqTypes, QueueTypes DEF StartsToSend
<1>2. /\ ~InQueue(tcb[t]) /\ InQueue(tcb'[t]) /\ tcb'[t].wobj = SQ(d)
      /\ \A x \in Task \ {t} : SameWait(tcb[x], tcb'[x])
      /\ wque' = [wque EXCEPT ![SQ(d)] = WObjInsert(@, SQ(d), t, tcb)]
  BY <1>1 DEF StartsToSend, JoinsQueue, OthersWait
<1> HIDE DEF t
<1>3. \A w \in WObj : w # SQ(d) => wque'[w] = wque[w]
  BY <1>1, <1>2
<1>4. \A e \in Dtq : wque'[RQ(e)] = wque[RQ(e)]
  BY <1>3, DtqTypes, QueueNames
<1>5. \A e \in Dtq \ {d} : wque'[SQ(e)] = wque[SQ(e)]
  BY <1>3, DtqTypes, QueueNames
<1>6. dtqcb' = dtqcb /\ dtqcb[d].count = DtqCnt[d] /\ ~ReceiverWaits(d)
  BY FullBuffer DEF StartsToSend
<1>7. ASSUME NEW e \in Dtq PROVE BufferOK(e)'
  <2>1. CASE e = d
    BY <1>4, <1>6, <2>1 DEF DtqInv, BufferOK, ReceiverWaits, SenderWaits
  <2>2. CASE e # d
    BY <1>4, <1>5, <1>6, <2>2 DEF DtqInv, BufferOK, ReceiverWaits, SenderWaits
  <2> QED
    BY <2>1, <2>2
<1>8. ASSUME NEW e \in Dtq, NEW x \in WaitersOf(K', SQ(e)) PROVE sdata'[x] \in DtqData
  <2>1. x \in Task /\ InQueue(tcb'[x]) /\ tcb'[x].wobj = SQ(e)
    BY <1>1 DEF WaitersOf
  <2>2. CASE x = t
    BY <1>1, <2>2
  <2>3. CASE x # t
    <3>1. x \in WaitersOf(K, SQ(e))
      BY <1>1, <1>2, <2>1, <2>3 DEF WaitersOf, SameWait
    <3> QED
      BY <1>1, <2>1, <2>3, <3>1 DEF DtqInv
  <2> QED
    BY <2>2, <2>3
<1>9. DtqTyped'
  BY <1>1, <1>6, DtqTypes DEF DtqTyped
<1> QED
  BY <1>7, <1>8, <1>9 DEF DtqInv

\* The invariant after a task starts to wait to receive.
LEMMA StartsToReceiveOK ==
  ASSUME DtqInv, WaitInv', SendersKept, NEW d \in Dtq, StartsToReceive(d)
  PROVE  DtqInv'
<1>1. /\ RQ(d) \in WObj /\ dtqcb' = dtqcb /\ \A w \in WObj : w # RQ(d) => wque'[w] = wque[w]
  BY DtqTypes DEF StartsToReceive
<1>2. \A e \in Dtq : wque'[SQ(e)] = wque[SQ(e)]
  BY <1>1, DtqTypes, QueueNames
<1>3. \A e \in Dtq \ {d} : wque'[RQ(e)] = wque[RQ(e)]
  BY <1>1, DtqTypes, QueueNames
<1>4. \A e \in Dtq : WaitersOf(K', SQ(e)) \subseteq WaitersOf(K, SQ(e))
  BY <1>2, FewerWait, DtqTypes
<1>5. BufferOK(d)'
  BY <1>1, <1>2 DEF DtqInv, BufferOK, ReceiverWaits, SenderWaits, StartsToReceive
<1>6. dtqcb' = [e \in Dtq |-> dtqcb'[e]]
  BY <1>1, DtqTypes
<1> QED
  BY <1>1, <1>3, <1>4, <1>5, <1>6, DtqStepOK

\* The invariant after ini_dtq.
LEMMA EmptiesOK ==
  ASSUME DtqInv, WaitInv', SendersKept, NEW d \in Dtq, Empties(d)
  PROVE  DtqInv'
<1> DEFINE c == EmptyDtq(d)
<1>1. /\ dtqcb' = [e \in Dtq |-> IF e = d THEN c ELSE dtqcb[e]]
      /\ RQ(d) \in WObj /\ SQ(d) \in WObj /\ wque'[SQ(d)] = << >> /\ wque'[RQ(d)] = << >>
      /\ \A w \in WObj : w # RQ(d) /\ w # SQ(d) => wque'[w] = wque[w]
  BY DtqTypes DEF Empties
<1>2. IsRing(c, DtqCnt[d], << >>)
  BY EmptyRing, DtqTypes
<1> HIDE DEF c
<1>3. \A e \in Dtq \ {d} : wque'[SQ(e)] = wque[SQ(e)] /\ wque'[RQ(e)] = wque[RQ(e)]
  BY <1>1, DtqTypes, QueueNames
<1>4. \A e \in Dtq : Range(wque'[SQ(e)]) \subseteq Range(wque[SQ(e)])
  BY <1>1, <1>3 DEF Range
<1>5. \A e \in Dtq : WaitersOf(K', SQ(e)) \subseteq WaitersOf(K, SQ(e))
  BY <1>4, FewerWait, DtqTypes
<1>6. BufferOK(d)'
  BY <1>1, <1>2 DEF BufferOK, ReceiverWaits, SenderWaits
<1>7. dtqcb' = [e \in Dtq |-> dtqcb'[e]] /\ \A e \in Dtq : e # d => dtqcb'[e] = dtqcb[e]
  BY <1>1
<1> QED
  BY <1>3, <1>5, <1>6, <1>7, DtqStepOK

\* Of a call of the core.
LEMMA CoreDtqOK ==
  ASSUME DtqInv, [Next]_vars, SendersKept \/ sdata' = sdata, dtqcb' = dtqcb
  PROVE  DtqInv'
<1>1. /\ WaitInv' /\ \A w \in WObj : WaitersOf(K', w) \subseteq WaitersOf(K, w)
      /\ SameLengths \/ \E w \in WObj : OneLess(w)
  BY CoreWaits, DtqTypes
<1>2. /\ wque \in [WObj -> Seq(Task)] /\ wque' \in [WObj -> Seq(Task)]
      /\ WaitsExact(K) /\ WaitsExact(K') /\ K.wque = wque /\ K'.wque = wque'
  BY <1>1, DtqTypes, QueueTypes, QueueTypesNext
<1>3. ASSUME NEW w \in WObj, wque[w] = << >> PROVE wque'[w] = << >>
  <2>1. /\ IsQueue(wque[w], WaitersOf(K, w)) /\ IsQueue(wque'[w], WaitersOf(K', w))
    BY <1>2 DEF WaitsExact
  <2>2. WaitersOf(K, w) = {}
    BY <1>2, <1>3, <2>1, EmptyQueue
  <2>3. WaitersOf(K', w) = {}
    BY <1>1, <2>2
  <2> QED
    BY <1>2, <2>1, <2>3, EmptyQueue
<1>4. dtqcb' = [d \in Dtq |-> dtqcb'[d]]
  BY DtqTypes
<1> QED
  BY <1>1, <1>3, <1>4, DtqStepOK, DtqTypes

\* A forced send with room is a send; without, it keeps the count.
LEMMA ForceWithRoom ==
  ASSUME NEW d \in Dtq, NEW N \in Nat, N = DtqCnt[d], NEW c, NEW s, IsRing(c, N, s),
         c.count < N, NEW v
  PROVE  ForceEnqueueData(c, d, v) = EnqueueData(c, d, v)
<1>1. c \in Ring(N)
  BY DEF IsRing
<1> QED
  BY <1>1 DEF ForceEnqueueData, EnqueueData, Ring

\* A forced send into a full ring leaves it full.
LEMMA ForceFull ==
  ASSUME NEW d \in Dtq, NEW N \in Nat, N = DtqCnt[d], NEW c, NEW s, IsRing(c, N, s),
         c.count = N, NEW v
  PROVE  ForceEnqueueData(c, d, v).count = N
<1>1. c \in Ring(N) /\ ~(N < N)
  BY DEF IsRing
<1> QED
  BY <1>1 DEF ForceEnqueueData, Ring

\* The calls of data queues: what each of them does to queues, buffers and data.
DtqMove ==
  \/ wque' = wque /\ dtqcb' = dtqcb /\ NoDelivery
  \/ \E d \in Dtq, v \in DtqData : HandsOver(d, v)
  \/ \E d \in Dtq, v \in DtqData : \E s :
       /\ IsRing(dtqcb[d], DtqCnt[d], s) /\ ~ReceiverWaits(d) /\ NoDelivery
       /\ \/ DtqHasRoom(d) /\ Stores(d, EnqueueData(dtqcb[d], d, v))
          \/ DtqCnt[d] > 0 /\ Stores(d, ForceEnqueueData(dtqcb[d], d, v))
  \/ \E d \in Dtq : \E s :
       /\ IsRing(dtqcb[d], DtqCnt[d], s) /\ runtsk \in Task
       /\ \/ /\ dtqcb[d].count > 0 /\ ~SenderWaits(d)
             /\ Deliver(runtsk, Oldest(dtqcb[d]))
             /\ Stores(d, DequeueData(dtqcb[d], d))
          \/ /\ dtqcb[d].count > 0 /\ Deliver(runtsk, Oldest(dtqcb[d]))
             /\ LetsIn(d, EnqueueData(DequeueData(dtqcb[d], d), d,
                                      sdata[Head(wque[SQ(d)])]))
          \/ /\ dtqcb[d].count = 0 /\ Deliver(runtsk, sdata[Head(wque[SQ(d)])])
             /\ LetsIn(d, dtqcb[d])
  \/ \E d \in Dtq : NoDelivery /\ (StartsToReceive(d) \/ Empties(d))

\* The first task that waits to send, and what it sends.
LEMMA FirstSender ==
  ASSUME DtqInv, NEW d \in Dtq, SenderWaits(d)
  PROVE  Head(wque[SQ(d)]) \in Task /\ sdata[Head(wque[SQ(d)])] \in DtqData
<1> DEFINE q == wque[SQ(d)]
<1>1. /\ q \in Seq(Task) /\ q # << >> /\ IsQueue(q, WaitersOf(K, SQ(d)))
  BY DtqTypes, QueueTypes DEF SenderWaits, WaitsExact
<1> HIDE DEF q
<1>2. Head(q) \in WaitersOf(K, SQ(d)) /\ Head(q) \in Task
  BY <1>1, HeadInQueue
<1> QED
  BY <1>2 DEF q, DtqInv

\* Every such step preserves the invariant.
LEMMA DtqMoveOK ==
  ASSUME DtqInv, WaitInv', SendersKept, DtqMove
  PROVE  DtqInv'
<1>1. CASE wque' = wque /\ dtqcb' = dtqcb
  <2>1. \A w \in WObj : WaitersOf(K', w) \subseteq WaitersOf(K, w)
    BY <1>1, FewerWait, DtqTypes
  <2>2. dtqcb' = [d \in Dtq |-> dtqcb'[d]]
    BY <1>1, DtqTypes
  <2> QED
    BY <1>1, <2>1, <2>2, DtqStepOK, DtqTypes
<1>2. ASSUME NEW d \in Dtq, NEW v \in DtqData, HandsOver(d, v) PROVE DtqInv'
  BY <1>2, HandsOverOK
<1>3. ASSUME NEW d \in Dtq, NEW v \in DtqData, NEW s,
             IsRing(dtqcb[d], DtqCnt[d], s), ~ReceiverWaits(d),
             DtqHasRoom(d), Stores(d, EnqueueData(dtqcb[d], d, v))
      PROVE  DtqInv'
  <2> DEFINE c == EnqueueData(dtqcb[d], d, v)
  <2>1. dtqcb[d].count < DtqCnt[d] /\ DtqCnt[d] \in Nat
    BY <1>3, DtqTypes DEF DtqHasRoom
  <2>2. IsRing(c, DtqCnt[d], Append(s, v))
    BY <1>3, <2>1, EnqueueRing
  <2>3. ~SenderWaits(d)
    BY <2>1, DtqTypes DEF DtqInv, BufferOK
  <2>4. Stores(d, c)
    BY <1>3
  <2> HIDE DEF c
  <2> QED
    BY <1>3, <2>2, <2>3, <2>4, StoresOK
<1>4. ASSUME NEW d \in Dtq, NEW v \in DtqData, NEW s,
             IsRing(dtqcb[d], DtqCnt[d], s), ~ReceiverWaits(d),
             DtqCnt[d] > 0, Stores(d, ForceEnqueueData(dtqcb[d], d, v))
      PROVE  DtqInv'
  <2> DEFINE c == ForceEnqueueData(dtqcb[d], d, v)
  <2>1. CASE DtqHasRoom(d)
    <3>1. c = EnqueueData(dtqcb[d], d, v)
      BY <1>4, <2>1, ForceWithRoom, DtqTypes DEF DtqHasRoom
    <3> QED
      BY <1>3, <1>4, <2>1, <3>1
  <2>2. CASE ~DtqHasRoom(d)
    <3>1. dtqcb[d].count = DtqCnt[d] /\ DtqCnt[d] \in Nat
      BY <2>2, FullBuffer, DtqTypes
    <3>2. IsRing(c, DtqCnt[d], Append(Tail(s), v)) /\ c.count = DtqCnt[d]
      BY <1>4, <3>1, ForceRing, ForceFull
    <3>3. Stores(d, c)
      BY <1>4
    <3> HIDE DEF c
    <3> QED
      BY <1>4, <3>2, <3>3, StoresOK
  <2> QED
    BY <2>1, <2>2
<1>5. ASSUME NEW d \in Dtq, NEW s, IsRing(dtqcb[d], DtqCnt[d], s), dtqcb[d].count > 0,
             ~SenderWaits(d), Stores(d, DequeueData(dtqcb[d], d))
      PROVE  DtqInv'
  <2> DEFINE c == DequeueData(dtqcb[d], d)
  <2>1. IsRing(c, DtqCnt[d], Tail(s))
    BY <1>5, DequeueRing, DtqTypes
  <2>2. ~ReceiverWaits(d)
    BY <1>5, FullBuffer DEF DtqInv, BufferOK
  <2>3. Stores(d, c)
    BY <1>5
  <2> HIDE DEF c
  <2> QED
    BY <1>5, <2>1, <2>2, <2>3, StoresOK
<1>6. ASSUME NEW d \in Dtq, NEW s, IsRing(dtqcb[d], DtqCnt[d], s), dtqcb[d].count > 0,
             LetsIn(d, EnqueueData(DequeueData(dtqcb[d], d), d, sdata[Head(wque[SQ(d)])]))
      PROVE  DtqInv'
  <2> DEFINE c == DequeueData(dtqcb[d], d)
             v == sdata[Head(wque[SQ(d)])]
             e == EnqueueData(c, d, v)
  <2>1. IsRing(c, DtqCnt[d], Tail(s)) /\ c.count = dtqcb[d].count - 1
    BY <1>6, DequeueRing, DtqTypes
  <2>2. SenderWaits(d) /\ v \in DtqData
    BY <1>6, FirstSender DEF LetsIn
  <2>3. dtqcb[d].count = DtqCnt[d] /\ DtqCnt[d] \in Nat
    BY <2>2, DtqTypes DEF DtqInv, BufferOK
  <2>4. LetsIn(d, e)
    BY <1>6
  <2> HIDE DEF c, v
  <2>5. c.count < DtqCnt[d] /\ DtqCnt[d] \in Nat
    BY <2>1, <2>3
  <2>6. IsRing(e, DtqCnt[d], Append(Tail(s), v)) /\ e.count = DtqCnt[d]
    <3>1. IsRing(e, DtqCnt[d], Append(Tail(s), v))
      BY <2>1, <2>2, <2>5, EnqueueRing
    <3>2. Len(Tail(s)) = c.count /\ Tail(s) \in Seq(DtqData)
      BY <2>1 DEF IsRing
    <3>3. Len(Append(Tail(s), v)) = c.count + 1
      BY <2>2, <3>2
    <3>4. e.count = c.count + 1
      BY <3>1, <3>3 DEF IsRing
    <3> QED
      BY <2>1, <2>3, <3>1, <3>4
  <2> HIDE DEF e
  <2> QED
    BY <2>4, <2>6, LetsInOK
<1>7. ASSUME NEW d \in Dtq, NEW s, IsRing(dtqcb[d], DtqCnt[d], s), LetsIn(d, dtqcb[d])
      PROVE  DtqInv'
  <2>1. dtqcb[d].count = DtqCnt[d]
    BY <1>7 DEF LetsIn, DtqInv, BufferOK
  <2> QED
    BY <1>7, <2>1, LetsInOK
<1>8. ASSUME NEW d \in Dtq, StartsToReceive(d) \/ Empties(d) PROVE DtqInv'
  BY <1>8, StartsToReceiveOK, EmptiesOK
<1> QED
  BY <1>1, <1>2, <1>3, <1>4, <1>5, <1>6, <1>7, <1>8 DEF DtqMove

\* The calls.
LEMMA HandToReceiverOK ==
  ASSUME DtqInv, NEW d \in Dtq, NEW v \in DtqData, HandToReceiver(d, v)
  PROVE  WaitInv' /\ DtqMove
<1>1. /\ RQ(d) \in WObj /\ wque[RQ(d)] # << >> /\ wque[RQ(d)] \in Seq(Task)
      /\ Return(WaitComplete([K EXCEPT !.wque[RQ(d)] = Tail(@)], Head(wque[RQ(d)])))
  BY DtqTypes DEF HandToReceiver, ReceiverWaits, ReleaseFirst
<1>2. WaitInv' /\ wque' = [wque EXCEPT ![RQ(d)] = Tail(@)]
  BY <1>1, FirstLeaves DEF DtqInv
<1>3. Head(wque[RQ(d)]) \in Task
  BY <1>1, TailWaits
<1>4. HandsOver(d, v)
  BY <1>2, <1>3 DEF HandsOver, HandToReceiver
<1> QED
  BY <1>2, <1>4 DEF DtqMove

\* send_data is one of the moves.
LEMMA SendDataOK ==
  ASSUME DtqInv, NEW d \in Dtq, NEW v \in DtqData, SendData(d, v)
  PROVE  WaitInv' /\ DtqMove
<1>1. CASE HandToReceiver(d, v)
  BY <1>1, HandToReceiverOK
<1>2. CASE /\ ~ReceiverWaits(d) /\ DtqHasRoom(d)
           /\ dtqcb' = [dtqcb EXCEPT ![d] = EnqueueData(@, d, v)]
           /\ NoDelivery /\ UNCHANGED vars
  <2>1. WaitInv' /\ wque' = wque
    BY <1>2, CoreUnchanged DEF DtqInv
  <2>2. Stores(d, EnqueueData(dtqcb[d], d, v))
    BY <1>2, <2>1 DEF Stores
  <2>3. PICK s : IsRing(dtqcb[d], DtqCnt[d], s)
    BY DEF DtqInv, BufferOK
  <2> QED
    BY <1>2, <2>1, <2>2, <2>3 DEF DtqMove
<1> QED
  BY <1>1, <1>2 DEF SendData

\* force_send_data is one of the moves.
LEMMA ForceSendDataOK ==
  ASSUME DtqInv, NEW d \in Dtq, NEW v \in DtqData, ForceSendData(d, v), DtqCnt[d] > 0
  PROVE  WaitInv' /\ DtqMove
<1>1. CASE HandToReceiver(d, v)
  BY <1>1, HandToReceiverOK
<1>2. CASE /\ ~ReceiverWaits(d)
           /\ dtqcb' = [dtqcb EXCEPT ![d] = ForceEnqueueData(@, d, v)]
           /\ NoDelivery /\ UNCHANGED vars
  <2>1. WaitInv' /\ wque' = wque
    BY <1>2, CoreUnchanged DEF DtqInv
  <2>2. Stores(d, ForceEnqueueData(dtqcb[d], d, v))
    BY <1>2, <2>1 DEF Stores
  <2>3. PICK s : IsRing(dtqcb[d], DtqCnt[d], s)
    BY DEF DtqInv, BufferOK
  <2> QED
    BY <1>2, <2>1, <2>2, <2>3 DEF DtqMove
<1> QED
  BY <1>1, <1>2 DEF ForceSendData

\* receive_data is one of the moves.
LEMMA ReceiveDataOK ==
  ASSUME DtqInv, NEW d \in Dtq, ReceiveData(d), runtsk \in Task
  PROVE  WaitInv' /\ DtqMove
<1> DEFINE c == DequeueData(dtqcb[d], d)
           e == EnqueueData(c, d, sdata[Head(wque[SQ(d)])])
<1>1. PICK s : IsRing(dtqcb[d], DtqCnt[d], s)
  BY DEF DtqInv, BufferOK
<1>2. /\ dtqcb = [x \in Dtq |-> dtqcb[x]] /\ SQ(d) \in WObj
  BY DtqTypes
<1>3. ASSUME SenderWaits(d), Return(ReleaseFirst(SQ(d)))
      PROVE  WaitInv' /\ wque' = [wque EXCEPT ![SQ(d)] = Tail(@)]
  BY <1>2, <1>3, FirstLeaves DEF DtqInv, SenderWaits, ReleaseFirst
<1>4. CASE /\ dtqcb[d].count > 0 /\ SenderWaits(d) /\ Deliver(runtsk, Oldest(dtqcb[d]))
           /\ dtqcb' = [dtqcb EXCEPT ![d] = e] /\ Return(ReleaseFirst(SQ(d)))
  <2>1. WaitInv' /\ LetsIn(d, e)
    BY <1>3, <1>4 DEF LetsIn
  <2> QED
    BY <1>1, <1>4, <2>1 DEF DtqMove
<1>5. CASE /\ dtqcb[d].count > 0 /\ ~SenderWaits(d) /\ Deliver(runtsk, Oldest(dtqcb[d]))
           /\ dtqcb' = [dtqcb EXCEPT ![d] = c] /\ UNCHANGED vars
  <2>1. WaitInv' /\ wque' = wque
    BY <1>5, CoreUnchanged DEF DtqInv
  <2>2. Stores(d, c)
    BY <1>5, <2>1 DEF Stores
  <2> QED
    BY <1>1, <1>5, <2>1, <2>2 DEF DtqMove
<1>6. CASE /\ dtqcb[d].count = 0 /\ SenderWaits(d)
           /\ Deliver(runtsk, sdata[Head(wque[SQ(d)])])
           /\ Return(ReleaseFirst(SQ(d))) /\ UNCHANGED dtqcb
  <2>1. dtqcb' = [dtqcb EXCEPT ![d] = dtqcb[d]]
    BY <1>2, <1>6
  <2>2. WaitInv' /\ LetsIn(d, dtqcb[d])
    BY <1>3, <1>6, <2>1 DEF LetsIn
  <2> QED
    BY <1>1, <1>6, <2>2 DEF DtqMove
<1> QED
  BY <1>4, <1>5, <1>6 DEF ReceiveData

\* Tasks that may call are tasks that run.
LEMMA CallerRuns ==
  ASSUME WaitInv, TskCtxUnl
  PROVE  runtsk \in Task
BY QueueTypes, RunningTask DEF TskCtxUnl

\* Every service call is a move, or lets its caller wait to send.
LEMMA DtqCallOK ==
  ASSUME DtqInv, NEW d \in Dtq, DtqCall(d)
  PROVE  /\ WaitInv'
         /\ \/ DtqMove /\ SendersKept
            \/ NoDelivery /\ \E v \in DtqData : StartsToSend(d, v)
<1>1. ASSUME NEW v \in DtqData, psnd_dtq(d, v) PROVE WaitInv' /\ DtqMove /\ SendersKept
  BY <1>1, SendDataOK DEF psnd_dtq
<1>2. ASSUME NEW v \in DtqData, fsnd_dtq(d, v) PROVE WaitInv' /\ DtqMove /\ SendersKept
  BY <1>2, ForceSendDataOK DEF fsnd_dtq
<1>3. ASSUME NEW v \in DtqData, NEW timed \in BOOLEAN, snd_dtq(d, v, timed)
      PROVE  /\ WaitInv'
             /\ (DtqMove /\ SendersKept) \/ (NoDelivery /\ StartsToSend(d, v))
  <2>1. CASE SendData(d, v) /\ SendersKept
    BY <2>1, SendDataOK
  <2>2. CASE /\ ~ReceiverWaits(d) /\ ~DtqHasRoom(d)
             /\ sdata' = [sdata EXCEPT ![runtsk] = v]
             /\ Return(WObjMakeWait(K, SQ(d), timed))
             /\ NoDelivery /\ UNCHANGED dtqcb
    <3>1. WaitInv /\ CheckDispatch /\ ~tcb[runtsk].raster /\ SQ(d) \in WObj
      BY <1>3, DtqTypes DEF snd_dtq
    <3>2. WaitInv' /\ runtsk \in Task /\ JoinsQueue(K, K', runtsk, SQ(d))
      BY <2>2, <3>1, RunningJoins
    <3> QED
      BY <2>2, <3>2 DEF StartsToSend
  <2> QED
    BY <1>3, <2>1, <2>2 DEF snd_dtq
<1>4. ASSUME NEW timed \in BOOLEAN, rcv_dtq(d, timed) PROVE WaitInv' /\ DtqMove /\ SendersKept
  <2>0. WaitInv /\ CheckDispatch /\ ~tcb[runtsk].raster /\ RQ(d) \in WObj /\ runtsk \in Task
    BY <1>4, DtqTypes, CallerRuns DEF rcv_dtq, CheckDispatch
  <2>1. CASE ReceiveData(d)
    BY <1>4, <2>0, <2>1, ReceiveDataOK DEF rcv_dtq
  <2>2. CASE /\ dtqcb[d].count = 0 /\ ~SenderWaits(d)
             /\ Return(WObjMakeWait(K, RQ(d), timed))
             /\ NoDelivery /\ UNCHANGED dtqcb
    <3>1. WaitInv' /\ \A w \in WObj \ {RQ(d)} : wque'[w] = wque[w]
      BY <2>0, <2>2, RunningJoins
    <3>2. StartsToReceive(d)
      BY <2>2, <3>1 DEF StartsToReceive
    <3> QED
      BY <1>4, <2>2, <3>1, <3>2 DEF DtqMove, rcv_dtq
  <2> QED
    BY <1>4, <2>1, <2>2 DEF rcv_dtq
<1>5. ASSUME prcv_dtq(d) PROVE WaitInv' /\ DtqMove /\ SendersKept
  BY <1>5, DtqTypes, CallerRuns, ReceiveDataOK DEF prcv_dtq
<1>6. ASSUME ini_dtq(d) PROVE WaitInv' /\ DtqMove /\ SendersKept
  <2>1. SQ(d) \in WObj /\ RQ(d) \in WObj
    BY DtqTypes
  <2>2. /\ WaitInv' /\ wque'[SQ(d)] = << >> /\ wque'[RQ(d)] = << >>
        /\ \A w \in WObj \ {SQ(d), RQ(d)} : wque'[w] = wque[w]
    BY <1>6, <2>1, BothLeave DEF ini_dtq, DtqInv
  <2>3. Empties(d)
    BY <1>6, <2>2 DEF ini_dtq, Empties
  <2> QED
    BY <1>6, <2>2, <2>3 DEF ini_dtq, DtqMove
<1> QED
  BY <1>1, <1>2, <1>3, <1>4, <1>5, <1>6 DEF DtqCall

\* The invariant holds initially.
LEMMA DtqInitOK == DtqInit => DtqInv
<1> SUFFICES ASSUME DtqInit PROVE DtqInv
  OBVIOUS
<1>1. WaitInv /\ \A w \in WObj : wque[w] = << >>
  BY InitWaitInv DEF DtqInit
<1>2. dtqcb = [d \in Dtq |-> EmptyDtq(d)] /\ sdata = [t \in Task |-> NoData]
  BY DEF DtqInit, SRInit, NothingData
<1>3. DtqTyped
  BY <1>2 DEF DtqTyped
<1>4. ASSUME NEW d \in Dtq PROVE BufferOK(d)
  <2>1. DtqCnt[d] \in Nat /\ SQ(d) \in WObj /\ RQ(d) \in WObj
    BY DataQueueAssumption
  <2>2. IsRing(dtqcb[d], DtqCnt[d], << >>)
    BY <1>2, <2>1, EmptyRing
  <2> QED
    BY <1>1, <2>1, <2>2 DEF BufferOK, ReceiverWaits, SenderWaits
<1>5. ASSUME NEW d \in Dtq, NEW t \in WaitersOf(K, SQ(d)) PROVE sdata[t] \in DtqData
  <2>1. /\ WaitsExact(K) /\ K.wque = wque /\ SQ(d) \in WObj
    BY <1>1, QueueTypes, DataQueueAssumption
  <2>2. IsQueue(<< >>, WaitersOf(K, SQ(d)))
    BY <1>1, <2>1 DEF WaitsExact
  <2> QED
    BY <1>5, <2>2 DEF IsQueue
<1> QED
  BY <1>1, <1>3, <1>4, <1>5 DEF DtqInv

\* Every step preserves the invariant.
LEMMA DtqNextOK == DtqInv /\ [DtqNext]_dvars => DtqInv'
<1> SUFFICES ASSUME DtqInv, [DtqNext]_dvars PROVE DtqInv'
  OBVIOUS
<1>1. CASE Next /\ DtqKept
  BY <1>1, CoreDtqOK DEF DtqKept
<1>2. ASSUME NEW d \in Dtq, DtqCall(d) PROVE DtqInv'
  <2>1. CASE DtqMove /\ SendersKept
    BY <1>2, <2>1, DtqCallOK, DtqMoveOK
  <2>2. ASSUME NEW v \in DtqData, StartsToSend(d, v) PROVE DtqInv'
    BY <1>2, <2>2, DtqCallOK, StartsToSendOK
  <2> QED
    BY <1>2, <2>1, <2>2, DtqCallOK
<1>3. CASE UNCHANGED dvars
  BY <1>3, CoreDtqOK DEF dvars, srvars, vars
<1> QED
  BY <1>1, <1>2, <1>3 DEF DtqNext

\* The invariant holds in every reachable state.
LEMMA DtqInvariantHolds == DtqSpec => []DtqInv
BY DtqInitOK, DtqNextOK, PTL DEF DtqSpec

\* What the invariant says of those who wait at a data queue.
LEMMA DtqInvJustifies == DtqInv => DtqWaitsAreJustified
<1> SUFFICES ASSUME DtqInv, NEW d \in Dtq
             PROVE  /\ ReceiverWaits(d) => dtqcb[d].count = 0 /\ ~SenderWaits(d)
                    /\ SenderWaits(d) => ~DtqHasRoom(d)
  BY DEF DtqWaitsAreJustified
<1> QED
  BY DtqTypes DEF DtqInv, BufferOK, DtqHasRoom

\* No forced send, time-out, termination or ini_dtq leaves a receiver waiting while
\* there is a datum or a sender, or a sender while there is room.
THEOREM DtqWaitsJustified == DtqSpec => []DtqWaitsAreJustified
BY DtqInvJustifies, DtqInvariantHolds, PTL

-----------------------------------------------------------------------------
(* A data queue is a first-in first-out channel. *)

DtqChannel == INSTANCE DataChannel
             WITH Chan <- Dtq, Data <- DtqData,
                  chan <- [d \in Dtq |-> DtqContents(d)],
                  sent <- [d \in Dtq |-> dtqcb[d].count],
                  got <- rdata

\* What the tasks of a queue send when one more joins with v,
JoinsWith(q, sd, t, v, p, e) ==
  /\ t \notin Range(q) /\ p = Append(q, t)
  /\ e[t] = v /\ \A x \in Task : x # t => e[x] = sd[x]

\* What the tasks of a queue send when one more joins them.
LEMMA DataOfAppend ==
  ASSUME NEW q \in Seq(Task), NEW t \in Task, NEW D, NEW v \in D, NEW sd,
         NEW w \in Seq(D), w = DataOf(q, sd), NEW p, NEW e, JoinsWith(q, sd, t, v, p, e)
  PROVE  DataOf(p, e) = Append(w, v)
<1> DEFINE a == DataOf(p, e)
           b == Append(w, v)
           n == Len(q) + 1
<1>1. /\ p \in Seq(Task) /\ Len(p) = n /\ Len(q) \in Nat /\ DOMAIN q = 1..Len(q)
      /\ \A i \in 1..n : p[i] = IF i <= Len(q) THEN q[i] ELSE t
      /\ \A i \in 1..Len(q) : q[i] \in Task
  BY AppendFacts DEF JoinsWith
<1>2. /\ \A i \in 1..Len(q) : q[i] # t
      /\ e[t] = v /\ \A x \in Task : x # t => e[x] = sd[x]
  BY <1>1 DEF Range, JoinsWith
<1>3. Len(w) = Len(q) /\ \A i \in 1..Len(q) : w[i] = sd[q[i]] /\ w[i] \in D
  <2>1. w = [i \in 1..Len(q) |-> sd[q[i]]]
    BY <1>1 DEF DataOf
  <2>2. Len(w) = Len(q)
    BY <1>1, <2>1
  <2>3. \A i \in 1..Len(w) : w[i] \in D
    OBVIOUS
  <2> QED
    BY <2>1, <2>2, <2>3
<1>4. /\ b \in Seq(D) /\ Len(b) = n
      /\ \A i \in 1..n : b[i] = IF i <= Len(q) THEN w[i] ELSE v
  BY <1>3, AppendFacts
<1> HIDE DEF b
<1>5. ASSUME NEW i \in 1..n PROVE e[p[i]] = b[i] /\ b[i] \in D
  <2>1. CASE i <= Len(q)
    <3>1. i \in 1..Len(q) /\ b[i] = w[i] /\ p[i] = q[i]
      BY <1>1, <1>4, <2>1
    <3>2. q[i] \in Task /\ q[i] # t /\ w[i] = sd[q[i]] /\ w[i] \in D
      BY <1>1, <1>2, <1>3, <3>1
    <3> QED
      BY <1>2, <3>1, <3>2
  <2>2. CASE ~(i <= Len(q))
    BY <1>1, <1>2, <1>4, <2>2
  <2> QED
    BY <2>1, <2>2
<1>6. a \in Seq(D) /\ Len(a) = n /\ \A i \in 1..n : a[i] = b[i]
  <2>1. a = [i \in 1..n |-> e[p[i]]]
    BY <1>1 DEF DataOf
  <2>2. n \in Nat
    BY <1>1
  <2> HIDE DEF a, n
  <2> QED
    BY ONLY <1>5, <2>1, <2>2
<1> HIDE DEF a
<1>7. /\ a \in Seq(D) /\ Len(a) = n /\ b \in Seq(D) /\ Len(b) = n
      /\ \A i \in 1..n : a[i] = b[i]
  BY <1>4, <1>6
<1>8. a = b
  BY ONLY <1>7, SameElements
<1> QED
  BY <1>8 DEF a, b

\* and when one of them leaves.
LEMMA DataOfWithout ==
  ASSUME NEW q \in Seq(Task), NEW T, IsQueue(q, T), NEW t \in T, NEW sd,
         NEW D, NEW w \in Seq(D), w = DataOf(q, sd), NEW r, r = Without(q, t)
  PROVE  \E k \in 1..Len(w) : DataOf(r, sd) = RemoveAt(w, k)
<1> DEFINE n == Len(q) - 1
<1>1. DOMAIN q = 1..Len(q) /\ Len(q) \in Nat
  OBVIOUS
<1>2. PICK k \in DOMAIN q : q[k] = t
  BY DEF IsQueue
<1>3. \A j \in DOMAIN q : q[j] = t => j = k
  BY <1>2 DEF IsQueue
<1>4. \A i \in 1..n : (\A j \in 1..i : q[j] # t) <=> i < k
  BY <1>1, <1>2, <1>3
<1>5. n \in Nat /\ k \in 1..Len(q)
  BY <1>1, <1>2
<1>6. \A i \in 1..n : r[i] = IF i < k THEN q[i] ELSE q[i + 1]
  BY <1>1, <1>4 DEF Without
<1>7. DOMAIN r = 1..n
  BY DEF Without
<1>8. w \in Seq(D) /\ Len(w) = Len(q) /\ \A i \in 1..Len(q) : w[i] = sd[q[i]]
  <2>1. w = [i \in 1..Len(q) |-> sd[q[i]]]
    BY <1>1 DEF DataOf
  <2> QED
    BY <1>1, <2>1
<1> DEFINE b == RemoveAt(w, k)
<1>9. /\ b \in Seq(D) /\ Len(b) = n /\ \A i \in 1..n : b[i] = IF i < k THEN w[i] ELSE w[i + 1]
  <2>1. w \in Seq(D) /\ k \in 1..Len(w)
    BY <1>5, <1>8
  <2>2. /\ b \in Seq(D) /\ Len(b) = Len(w) - 1
        /\ \A i \in 1..(Len(w) - 1) : b[i] = IF i < k THEN w[i] ELSE w[i + 1]
    BY ONLY <2>1, RemoveFacts
  <2> QED
    BY <1>8, <2>2
<1> HIDE DEF b
<1> DEFINE a == DataOf(r, sd)
<1>10. ASSUME NEW i \in 1..n PROVE sd[r[i]] = b[i] /\ b[i] \in D
  <2>1. i \in 1..Len(q) /\ i + 1 \in 1..Len(q)
    BY <1>1
  <2>2. CASE i < k
    BY <1>6, <1>8, <1>9, <2>1, <2>2
  <2>3. CASE ~(i < k)
    BY <1>6, <1>8, <1>9, <2>1, <2>3
  <2> QED
    BY <1>9, <2>2, <2>3
<1>11. a \in Seq(D) /\ Len(a) = n /\ \A i \in 1..n : a[i] = b[i]
  <2>1. a = [i \in 1..n |-> sd[r[i]]]
    BY <1>7 DEF DataOf
  <2> HIDE DEF a, n
  <2> QED
    BY <1>5, <1>10, <2>1
<1> HIDE DEF a
<1>12. a = b
  <2>1. /\ a \in Seq(D) /\ Len(a) = n /\ b \in Seq(D) /\ Len(b) = n
        /\ \A i \in 1..n : a[i] = b[i]
    BY <1>9, <1>11
  <2> QED
    BY ONLY <2>1, SameElements
<1>13. k \in 1..Len(w)
  BY <1>5, <1>8
<1> QED
  BY <1>12, <1>13 DEF a, b

-----------------------------------------------------------------------------
(* The steps of the channels.                                                 *)

Chans == [d \in Dtq |-> DtqContents(d)]
Sents == [d \in Dtq |-> dtqcb[d].count]

ChannelStep == [DtqChannel!Next]_<<Chans, Sents, rdata>>

\* Neither the channel of e nor its count changes.
SameChannel(e) == DtqContents(e)' = DtqContents(e) /\ dtqcb'[e].count = dtqcb[e].count

\* The channels and their committed counts, now and in the next state.
LEMMA ChansNext ==
  /\ \A d \in Dtq : /\ Chans[d] = DtqContents(d) /\ Chans'[d] = DtqContents(d)'
                    /\ Sents[d] = dtqcb[d].count /\ Sents'[d] = dtqcb'[d].count
  /\ (\A d \in Dtq : SameChannel(d)) => Chans' = Chans /\ Sents' = Sents
<1>1. Chans' = [d \in Dtq |-> DtqContents(d)'] /\ Sents' = [d \in Dtq |-> dtqcb'[d].count]
  BY DEF Chans, Sents
<1>2. \A d \in Dtq : /\ Chans[d] = DtqContents(d) /\ Chans'[d] = DtqContents(d)'
                     /\ Sents[d] = dtqcb[d].count /\ Sents'[d] = dtqcb'[d].count
  BY <1>1 DEF Chans, Sents
<1>3. ASSUME \A d \in Dtq : SameChannel(d) PROVE Chans' = Chans /\ Sents' = Sents
  BY <1>1, <1>3 DEF SameChannel, Chans, Sents
<1> QED
  BY <1>2, <1>3

\* A step in which no channel changes and nobody receives.
LEMMA ChannelSilent ==
  ASSUME NoDelivery, \A d \in Dtq : SameChannel(d)
  PROVE  ChannelStep
<1>1. Chans' = Chans /\ Sents' = Sents
  BY ChansNext
<1>2. DtqChannel!Undelivered
  BY <1>1 DEF NoDelivery, NothingData, DtqChannel!Undelivered, DtqChannel!Nothing, Chans, Sents
<1> QED
  BY <1>2 DEF ChannelStep, DtqChannel!Next

\* A step in which one channel changes and nobody receives.
LEMMA ChannelUndelivered ==
  ASSUME NoDelivery, NEW d \in Dtq, \A e \in Dtq \ {d} : SameChannel(e),
         NEW q, q = DtqContents(d), NEW n, n = dtqcb[d].count,
         <<DtqContents(d)', dtqcb'[d].count>> \in
           DtqChannel!Send(q, n) \union DtqChannel!ForceSend(q, n)
             \union DtqChannel!Withdraw(q, n) \union DtqChannel!Reset
  PROVE  ChannelStep
<1>1. CASE SameChannel(d)
  BY <1>1, ChannelSilent
<1>2. CASE ~SameChannel(d)
  <2>1. q = Chans[d] /\ n = Sents[d]
    BY ChansNext
  <2>2. Chans'[d] # Chans[d] \/ Sents'[d] # Sents[d]
    BY <1>2, ChansNext DEF SameChannel
  <2>3. \A c \in Dtq \ {d} : Chans'[c] = Chans[c] /\ Sents'[c] = Sents[c]
    BY ChansNext DEF SameChannel
  <2>4. <<Chans'[d], Sents'[d]>> \in
          DtqChannel!Send(Chans[d], Sents[d]) \union DtqChannel!ForceSend(Chans[d], Sents[d])
            \union DtqChannel!Withdraw(Chans[d], Sents[d]) \union DtqChannel!Reset
    BY <2>1, ChansNext
  <2>5. rdata' = DtqChannel!Nothing
    BY DEF NoDelivery, NothingData, DtqChannel!Nothing
  <2>6. DtqChannel!Undelivered
    BY <2>2, <2>3, <2>4, <2>5
    DEF DtqChannel!Undelivered, DtqChannel!Changes, DtqChannel!Moves, Chans, Sents
  <2> QED
    BY <2>6 DEF ChannelStep, DtqChannel!Next
<1> QED
  BY <1>1, <1>2

\* A step in which a task receives from one channel, or past it.
LEMMA ChannelDelivered ==
  ASSUME NEW t \in Task, NEW v \in DtqData, Deliver(t, v),
         NEW d \in Dtq, \A e \in Dtq \ {d} : SameChannel(e),
         NEW q, q = DtqContents(d), NEW n, n = dtqcb[d].count,
         \/ /\ q # << >> /\ Head(q) = v
            /\ <<DtqContents(d)', dtqcb'[d].count>> \in DtqChannel!Receive(q, n)
         \/ q = << >> /\ SameChannel(d)
  PROVE  ChannelStep
<1>1. rdata'[t] = v /\ rdata' = [DtqChannel!Nothing EXCEPT ![t] = v]
  BY DEF Deliver, NothingData, DtqChannel!Nothing
<1>2. q = Chans[d] /\ n = Sents[d]
  BY ChansNext
<1>3. CASE /\ q # << >> /\ Head(q) = v
           /\ <<DtqContents(d)', dtqcb'[d].count>> \in DtqChannel!Receive(q, n)
  <2>1. Chans[d] # << >> /\ Head(Chans[d]) = rdata'[t]
    BY <1>1, <1>2, <1>3
  <2>2. \A c \in Dtq \ {d} : Chans'[c] = Chans[c] /\ Sents'[c] = Sents[c]
    BY ChansNext DEF SameChannel
  <2>3. <<Chans'[d], Sents'[d]>> \in DtqChannel!Receive(Chans[d], Sents[d])
    BY <1>2, <1>3, ChansNext
  <2>4. rdata'[t] \in DtqData /\ rdata' = [DtqChannel!Nothing EXCEPT ![t] = rdata'[t]]
    BY <1>1
  <2>5. DtqChannel!Delivered(t)
    BY <2>1, <2>2, <2>3, <2>4 DEF DtqChannel!Delivered, DtqChannel!Moves, Chans, Sents
  <2> QED
    BY <2>5 DEF ChannelStep, DtqChannel!Next
<1>4. CASE q = << >> /\ SameChannel(d)
  <2>1. Chans' = Chans /\ Sents' = Sents
    BY <1>4, ChansNext
  <2>2. DtqChannel!Delivered(t)
    BY <1>1, <1>2, <1>4, <2>1 DEF DtqChannel!Delivered, Chans, Sents
  <2> QED
    BY <2>2 DEF ChannelStep, DtqChannel!Next
<1> QED
  BY <1>3, <1>4

-----------------------------------------------------------------------------
(* The contents of a data queue.                                              *)

Contents(c, N, q, sd) ==
  [i \in 1..c.count |-> c.mb[(c.head + i - 1) % N]] \o DataOf(q, sd)

\* DtqContents in terms of Contents, now and in the next state.
LEMMA ContentsNow ==
  ASSUME NEW d
  PROVE  /\ DtqContents(d) = Contents(dtqcb[d], DtqCnt[d], wque[SQ(d)], sdata)
         /\ DtqContents(d)' = Contents(dtqcb'[d], DtqCnt[d], wque'[SQ(d)], sdata')
BY DEF DtqContents, Contents, DataOf

\* A channel holds the data of the ring, then those of the waiting senders.
LEMMA ContentsAre ==
  ASSUME NEW N \in Nat, NEW c, NEW s, IsRing(c, N, s), NEW q, NEW sd
  PROVE  Contents(c, N, q, sd) = s \o DataOf(q, sd)
BY RingContents DEF Contents

\* The senders' data.
LEMMA SendingTypes ==
  ASSUME DtqInv, NEW d \in Dtq
  PROVE  /\ Sending(d) \in Seq(DtqData) /\ Len(Sending(d)) = Len(wque[SQ(d)])
         /\ \A i \in DOMAIN wque[SQ(d)] : sdata[wque[SQ(d)][i]] \in DtqData
         /\ SenderWaits(d) <=> Sending(d) # << >>
         /\ SenderWaits(d) => /\ DataOf(Tail(wque[SQ(d)]), sdata) = Tail(Sending(d))
                              /\ Head(Sending(d)) = sdata[Head(wque[SQ(d)])]
<1> DEFINE q == wque[SQ(d)]
           w == Sending(d)
<1>1. q \in Seq(Task) /\ SQ(d) \in WObj
  BY DtqTypes
<1>2. \A i \in DOMAIN q : sdata[q[i]] \in DtqData
  BY <1>1, QueuedWaits DEF DtqInv
<1>3. w = DataOf(q, sdata)
  BY DEF Sending
<1> HIDE DEF w, q
<1>4. w \in Seq(DtqData) /\ Len(w) = Len(q)
  <2>1. w = [i \in 1..Len(q) |-> sdata[q[i]]] /\ Len(q) \in Nat
    BY <1>1, <1>3 DEF DataOf
  <2>2. \A i \in 1..Len(q) : sdata[q[i]] \in DtqData
    BY <1>1, <1>2
  <2> QED
    BY <2>1, <2>2
<1>5. q # << >> <=> w # << >>
  BY <1>1, <1>4
<1>6. q # << >> => DataOf(Tail(q), sdata) = Tail(w) /\ Head(w) = sdata[Head(q)]
  BY <1>1, <1>3, DataOfTail
<1> QED
  BY <1>2, <1>4, <1>5, <1>6 DEF q, w, SenderWaits

\* A data queue of which neither the buffer nor the senders change.
LEMMA SameContents ==
  ASSUME WaitInv', SendersKept, NEW d \in Dtq, SQ(d) \in WObj, dtqcb'[d] = dtqcb[d],
         wque'[SQ(d)] = wque[SQ(d)]
  PROVE  SameChannel(d)
<1>1. DataOf(wque'[SQ(d)], sdata') = DataOf(wque[SQ(d)], sdata)
  BY DataKept
<1> QED
  BY <1>1, ContentsNow DEF SameChannel, Contents

-----------------------------------------------------------------------------
(* The buffer s and the senders' data w of a data queue are a channel s \o w of *)
(* which the data of s are committed.                                        *)

\* A channel before a step.
LEMMA OldContents ==
  ASSUME DtqInv, NEW d \in Dtq, NEW s, IsRing(dtqcb[d], DtqCnt[d], s)
  PROVE  /\ DtqContents(d) = s \o Sending(d) /\ dtqcb[d].count = Len(s)
         /\ s \in Seq(DtqData) /\ Len(s) \in Nat
<1>1. DtqContents(d) = s \o Sending(d)
  BY ContentsNow, ContentsAre, DtqTypes DEF Sending
<1> QED
  BY <1>1 DEF IsRing

\* A channel after a step that keeps the data of the waiting senders.
LEMMA NewContents ==
  ASSUME DtqInv, WaitInv', SendersKept, NEW d \in Dtq, NEW s, IsRing(dtqcb'[d], DtqCnt[d], s)
  PROVE  /\ DtqContents(d)' = s \o DataOf(wque'[SQ(d)], sdata) /\ dtqcb'[d].count = Len(s)
         /\ s \in Seq(DtqData) /\ Len(s) \in Nat
<1>1. DtqContents(d)' = s \o DataOf(wque'[SQ(d)], sdata')
  BY ContentsNow, ContentsAre, DtqTypes
<1>2. DataOf(wque'[SQ(d)], sdata') = DataOf(wque'[SQ(d)], sdata)
  BY DataKept, DtqTypes
<1> QED
  BY <1>1, <1>2 DEF IsRing

\* A sender that starts to wait sends without its datum being committed.
LEMMA JoinsChannel ==
  ASSUME NEW s \in Seq(DtqData), NEW w \in Seq(DtqData), NEW v \in DtqData
  PROVE  <<s \o Append(w, v), Len(s)>> \in DtqChannel!Send(s \o w, Len(s))
<1> DEFINE q == s \o w
           r == Append(q, v)
<1>1. q \in Seq(DtqData) /\ Len(q) = Len(s) + Len(w) /\ Len(s) \in Nat /\ Len(w) \in Nat
  BY JoinFacts
<1>2. Len(r) = Len(q) + 1
  BY <1>1, AppendFacts
<1> HIDE DEF q, r
<1>3. Len(s) \in Len(s)..Len(r)
  BY <1>1, <1>2
<1>4. <<r, Len(s)>> \in DtqChannel!Becomes(r, Len(s))
  BY <1>3 DEF DtqChannel!Becomes
<1>5. r = Append(q, v)
  BY DEF r
<1>6. <<r, Len(s)>> \in DtqChannel!Send(q, Len(s))
  BY <1>4, <1>5 DEF DtqChannel!Send
<1>7. r = s \o Append(w, v)
  <2> DEFINE p == Append(w, v)
  <2>1. q = s \o w /\ p = Append(w, v) /\ r = Append(q, v)
    BY DEF q, r
  <2> HIDE DEF p
  <2>2. r = s \o p
    BY <2>1, JoinAppend
  <2> QED
    BY <2>2 DEF p
<1> QED
  BY <1>6, <1>7 DEF q

\* A datum that is stored is sent and committed.
LEMMA StoredInChannel ==
  ASSUME NEW s \in Seq(DtqData), NEW v \in DtqData
  PROVE  <<Append(s, v), Len(Append(s, v))>> \in DtqChannel!Send(s, Len(s))
<1> DEFINE r == Append(s, v)
<1>1. Len(r) = Len(s) + 1 /\ Len(s) \in Nat
  BY AppendFacts
<1>2. Len(r) \in Len(s)..Len(r)
  BY <1>1
<1>3. <<r, Len(r)>> \in DtqChannel!Becomes(Append(s, v), Len(s))
  BY <1>2 DEF DtqChannel!Becomes
<1> QED
  BY <1>3 DEF DtqChannel!Send

\* A forced send drops the oldest datum, and goes before the waiting senders.
LEMMA ForcedInChannel ==
  ASSUME NEW s \in Seq(DtqData), NEW w \in Seq(DtqData), NEW v \in DtqData, s # << >>
  PROVE  <<Append(Tail(s), v) \o w, Len(s)>> \in DtqChannel!ForceSend(s \o w, Len(s))
<1> DEFINE q == s \o w
           n == Len(s)
           u == Append(Tail(s), v)
           r == Tail(InsertAt(q, n + 1, v))
<1>1. r = u \o w
  BY ForceJoin
<1>2. Tail(s) \in Seq(DtqData) /\ Len(Tail(s)) = n - 1 /\ n \in Nat \ {0}
  BY TailFacts
<1>3. u \in Seq(DtqData) /\ Len(u) = n
  BY <1>2, AppendFacts
<1>4. Len(u \o w) = Len(u) + Len(w) /\ Len(w) \in Nat
  BY <1>3, JoinFacts
<1> HIDE DEF u, n, q
<1>5. n \in n..Len(r) /\ n > 0
  BY <1>1, <1>2, <1>3, <1>4
<1>6. r = Tail(InsertAt(q, n + 1, v))
  BY DEF r
<1> HIDE DEF r
<1>7. <<r, n>> \in DtqChannel!Becomes(r, n)
  BY <1>5 DEF DtqChannel!Becomes
<1>8. <<r, n>> \in DtqChannel!ForceSend(q, n)
  BY <1>5, <1>6, <1>7 DEF DtqChannel!ForceSend, DtqChannel!InsertAt, InsertAt
<1> QED
  BY <1>1, <1>8 DEF q, u, n

\* A sender that leaves its wait queue withdraws its datum.
LEMMA WithdrawnFromChannel ==
  ASSUME NEW s \in Seq(DtqData), NEW w \in Seq(DtqData), NEW k \in 1..Len(w)
  PROVE  <<s \o RemoveAt(w, k), Len(s)>> \in DtqChannel!Withdraw(s \o w, Len(s))
<1> DEFINE q == s \o w
           n == Len(s)
           m == n + k
           r == RemoveAt(q, m)
<1>1. r = s \o RemoveAt(w, k)
  BY RemoveJoin
<1>2. q \in Seq(DtqData) /\ Len(q) = n + Len(w) /\ n \in Nat /\ Len(w) \in Nat
  BY JoinFacts
<1> HIDE DEF q, n
<1>3. m \in (n + 1)..Len(q) /\ m \in 1..Len(q)
  BY <1>2
<1>4. Len(r) = Len(q) - 1
  BY <1>2, <1>3, RemoveFacts
<1>5. n \in n..Len(r)
  BY <1>2, <1>3, <1>4
<1> HIDE DEF m
<1>6. r = RemoveAt(q, m)
  BY DEF r
<1> HIDE DEF r
<1>7. <<r, n>> \in DtqChannel!Becomes(r, n)
  BY <1>5 DEF DtqChannel!Becomes
<1>8. <<r, n>> \in DtqChannel!Withdraw(q, n)
  <2>1. \E i \in (n + 1)..Len(q) : <<r, n>> \in DtqChannel!Becomes(RemoveAt(q, i), n)
    BY <1>3, <1>6, <1>7
  <2> QED
    BY <2>1 DEF DtqChannel!Withdraw, DtqChannel!RemoveAt, RemoveAt
<1> QED
  BY <1>1, <1>8 DEF q, n

\* The new channel when the first datum is received: m is the committed data.
LEMMA TakenFromChannel ==
  ASSUME NEW q \in Seq(DtqData), q # << >>, NEW n \in Nat, NEW m \in Nat,
         m = n \/ m = n - 1, n = 0 => m = 0, m <= Len(Tail(q))
  PROVE  <<Tail(q), m>> \in DtqChannel!Receive(q, n)
<1>1. Len(Tail(q)) \in Nat
  BY TailFacts
<1>2. m \in (IF n = 0 THEN 0 ELSE n - 1)..Len(Tail(q))
  BY <1>1
<1> QED
  BY <1>2 DEF DtqChannel!Receive, DtqChannel!Becomes

-----------------------------------------------------------------------------
(* Every step of the data queues is a step of the channels.                  *)

\* A task of a queue leaves it, and the channel loses its datum.
LEMMA CoreChannel ==
  ASSUME DtqInv, [Next]_vars, SendersKept, NoDelivery, dtqcb' = dtqcb,
         \A d \in Dtq : SQ(d) \notin TPriObj
  PROVE  ChannelStep
<1>1. WaitInv' /\ WaitInv
  BY CoreWaits, DtqTypes
<1>2. WaitStep
  BY <1>1, NextWaits DEF WaitInv, FullInv
<1>3. \A d \in Dtq : SQ(d) \in WObj /\ dtqcb'[d] = dtqcb[d]
  BY DtqTypes
<1>4. CASE wque' = wque
  BY <1>1, <1>3, <1>4, SameContents, ChannelSilent
<1>5. ASSUME NEW w \in WObj, \A d \in Dtq : SQ(d) # w,
             \A x \in WObj \ {w} : wque'[x] = wque[x]
      PROVE  ChannelStep
  BY <1>1, <1>3, <1>5, SameContents, ChannelSilent
<1>6. ASSUME NEW t \in Task, NEW w \in WObj, t \in WaitersOf(K, w), ~(\A d \in Dtq : SQ(d) # w),
             wque' = [wque EXCEPT ![w] = Without(@, t)]
      PROVE  ChannelStep
  <2>1. PICK d \in Dtq : SQ(d) = w
    BY <1>6
  <2>2. \A e \in Dtq \ {d} : SameChannel(e)
    BY <1>1, <1>3, <1>6, <2>1, SameContents, QueueNames
  <2>3. PICK s : IsRing(dtqcb[d], DtqCnt[d], s)
    BY DEF DtqInv, BufferOK
  <2>4. /\ DtqContents(d) = s \o Sending(d) /\ dtqcb[d].count = Len(s) /\ s \in Seq(DtqData)
        /\ DtqContents(d)' = s \o DataOf(wque'[SQ(d)], sdata) /\ dtqcb'[d].count = Len(s)
    BY <1>1, <1>3, <2>3, OldContents, NewContents
  <2>5. /\ wque[w] \in Seq(Task) /\ IsQueue(wque[w], WaitersOf(K, w))
        /\ wque'[w] = Without(wque[w], t)
    BY <1>6, DtqTypes, QueueTypes DEF WaitsExact
  <2>6. Sending(d) \in Seq(DtqData) /\ \A i \in DOMAIN wque[SQ(d)] : sdata[wque[SQ(d)][i]] \in DtqData
    BY SendingTypes
  <2>7. \E k \in 1..Len(Sending(d)) : DataOf(wque'[SQ(d)], sdata) = RemoveAt(Sending(d), k)
    <3> DEFINE q == wque[w]
               T == WaitersOf(K, w)
               z == Sending(d)
               r == wque'[w]
    <3>1. /\ q \in Seq(Task) /\ IsQueue(q, T) /\ t \in T /\ r = Without(q, t)
          /\ z \in Seq(DtqData) /\ z = DataOf(q, sdata)
      BY <1>6, <2>1, <2>5, <2>6 DEF Sending
    <3> HIDE DEF q, T, z, r
    <3>2. \E k \in 1..Len(z) : DataOf(r, sdata) = RemoveAt(z, k)
      BY ONLY <3>1, DataOfWithout
    <3> QED
      BY <2>1, <3>2 DEF z, r
  <2>8. <<DtqContents(d)', dtqcb'[d].count>> \in DtqChannel!Withdraw(DtqContents(d), dtqcb[d].count)
    BY <2>4, <2>6, <2>7, WithdrawnFromChannel
  <2> QED
    BY <2>2, <2>8, ChannelUndelivered
<1>7. ASSUME NEW t \in Task, LeavesQueue(K, K', t) PROVE ChannelStep
  <2>1. /\ InQueue(tcb[t]) /\ tcb[t].wobj \in WObj /\ t \in WaitersOf(K, tcb[t].wobj)
        /\ wque' = [wque EXCEPT ![tcb[t].wobj] = Without(@, t)]
    BY <1>1, <1>7, QueueTypes DEF LeavesQueue, WaitersOf, WaitsExact
  <2>2. \A x \in WObj \ {tcb[t].wobj} : wque'[x] = wque[x]
    BY <2>1, DtqTypes
  <2> QED
    BY <1>5, <1>6, <2>1, <2>2
<1>8. ASSUME NEW t \in Task, MovesInQueue(K, K', t) PROVE ChannelStep
  <2> DEFINE w == tcb[t].wobj
  <2>1. w \in TPriObj /\ w \in WObj
    BY <1>8, QueueTypes, KernelAssumption, <1>1 DEF MovesInQueue
  <2>2. \A x \in WObj \ {w} : wque'[x] = wque[x]
    BY <1>1, <1>8, QueueTypes DEF MovesInQueue
  <2> QED
    BY <1>5, <2>1, <2>2
<1> QED
  BY <1>1, <1>2, <1>4, <1>7, <1>8, QueueTypes DEF WaitStep, KeepsWaits

\* The caller's datum becomes the last of the channel.
LEMMA StartsToSendChannel ==
  ASSUME DtqInv, WaitInv', NEW d \in Dtq, SQ(d) \notin TPriObj, NEW v \in DtqData,
         StartsToSend(d, v), NoDelivery
  PROVE  ChannelStep
<1> DEFINE q == wque[SQ(d)]
           t == runtsk
<1>1. /\ t \in Task /\ JoinsQueue(K, K', t, SQ(d)) /\ dtqcb' = dtqcb
      /\ sdata' = [sdata EXCEPT ![t] = v] /\ sdata = [x \in Task |-> sdata[x]]
      /\ SQ(d) \in WObj /\ wque \in [WObj -> Seq(Task)]
  BY DtqTypes DEF StartsToSend
<1>2. wque' = [wque EXCEPT ![SQ(d)] = Append(q, t)] /\ ~InQueue(tcb[t])
  BY <1>1, DtqTypes, QueueTypes DEF JoinsQueue, WObjInsert
<1>3. ASSUME NEW w \in WObj, NEW i \in DOMAIN wque[w] PROVE wque[w][i] # t
  BY <1>2, QueuedWaits, QueueTypes, DtqTypes DEF WaitersOf
<1>4. ASSUME NEW e \in Dtq \ {d} PROVE SameChannel(e)
  <2>1. SQ(e) # SQ(d) /\ SQ(e) \in WObj
    BY QueueNames, DtqTypes
  <2>2. wque'[SQ(e)] = wque[SQ(e)] /\ wque[SQ(e)] \in Seq(Task)
    BY <1>1, <1>2, <2>1
  <2>3. \A i \in DOMAIN wque[SQ(e)] : sdata'[wque[SQ(e)][i]] = sdata[wque[SQ(e)][i]]
    <3>1. \A x \in Task : x # t => sdata'[x] = sdata[x]
      BY <1>1
    <3>2. \A i \in DOMAIN wque[SQ(e)] : wque[SQ(e)][i] \in Task
      BY <2>2
    <3> QED
      BY <1>3, <2>1, <3>1, <3>2
  <2>4. DataOf(wque'[SQ(e)], sdata') = DataOf(wque[SQ(e)], sdata)
    BY <2>2, <2>3 DEF DataOf
  <2> QED
    BY <1>1, <2>4, ContentsNow DEF SameChannel, Contents
<1>5. PICK s : IsRing(dtqcb[d], DtqCnt[d], s)
  BY DEF DtqInv, BufferOK
<1>6. /\ DtqContents(d) = s \o Sending(d) /\ dtqcb[d].count = Len(s) /\ s \in Seq(DtqData)
      /\ Sending(d) = DataOf(q, sdata)
  BY <1>5, OldContents DEF Sending
<1>7. DtqContents(d)' = s \o DataOf(wque'[SQ(d)], sdata') /\ dtqcb'[d].count = Len(s)
  <2>1. IsRing(dtqcb'[d], DtqCnt[d], s) /\ DtqCnt[d] \in Nat /\ dtqcb'[d].count = dtqcb[d].count
    BY <1>1, <1>5, DtqTypes
  <2>2. Contents(dtqcb'[d], DtqCnt[d], wque'[SQ(d)], sdata') = s \o DataOf(wque'[SQ(d)], sdata')
    BY <2>1, ContentsAre
  <2> QED
    BY <1>6, <2>1, <2>2, ContentsNow
<1>8. q \in Seq(Task) /\ wque'[SQ(d)] = Append(q, t) /\ t \notin Range(q)
  <2>1. q \in Seq(Task) /\ wque'[SQ(d)] = Append(q, t)
    BY <1>1, <1>2
  <2>2. \A i \in DOMAIN q : q[i] # t
    BY <1>1, <1>3
  <2> QED
    BY <2>1, <2>2 DEF Range
<1>9. Sending(d) \in Seq(DtqData) /\ \A i \in DOMAIN q : sdata[q[i]] \in DtqData
  BY SendingTypes
<1>10. DataOf(wque'[SQ(d)], sdata') = Append(Sending(d), v)
  <2> DEFINE p == wque'[SQ(d)]
             e == sdata'
             w == Sending(d)
  <2>1. /\ q \in Seq(Task) /\ t \in Task /\ v \in DtqData /\ w \in Seq(DtqData)
        /\ w = DataOf(q, sdata) /\ JoinsWith(q, sdata, t, v, p, e)
    BY <1>1, <1>6, <1>8, <1>9 DEF JoinsWith
  <2> HIDE DEF q, t, p, e, w
  <2>2. DataOf(p, e) = Append(w, v)
    BY ONLY <2>1, DataOfAppend
  <2> QED
    BY <2>2 DEF p, e, w
<1>11. <<DtqContents(d)', dtqcb'[d].count>> \in DtqChannel!Send(DtqContents(d), dtqcb[d].count)
  BY <1>6, <1>7, <1>9, <1>10, JoinsChannel
<1> QED
  BY <1>4, <1>11, ChannelUndelivered

\* A step that changes the buffer or the senders of d, and no other queue but that
\* of the receivers of d.
Touches(d) ==
  /\ \A w \in WObj \ {SQ(d), RQ(d)} : wque'[w] = wque[w]
  /\ \A e \in Dtq \ {d} : dtqcb'[e] = dtqcb[e]

\* The channels of the other data queues stay.
LEMMA OtherChannels ==
  ASSUME DtqInv, WaitInv', SendersKept, NEW d \in Dtq, Touches(d)
  PROVE  \A e \in Dtq \ {d} : SameChannel(e)
<1>1. ASSUME NEW e \in Dtq \ {d}
      PROVE  SQ(e) \in WObj /\ SQ(e) # SQ(d) /\ SQ(e) # RQ(d)
  BY QueueNames, DtqTypes
<1> QED
  BY <1>1, SameContents DEF Touches

\* Of a move that stores a datum, or lets in the first sender.
LEMMA StoresTouches ==
  ASSUME DtqInv, NEW d \in Dtq, NEW c, Stores(d, c)
  PROVE  Touches(d) /\ dtqcb'[d] = c /\ wque'[SQ(d)] = wque[SQ(d)]
BY DtqTypes DEF Stores, Touches

\* A sender that is let in changes its own data queue only.
LEMMA LetsInTouches ==
  ASSUME DtqInv, NEW d \in Dtq, NEW c, LetsIn(d, c)
  PROVE  Touches(d) /\ dtqcb'[d] = c /\ wque'[SQ(d)] = Tail(wque[SQ(d)]) /\ SenderWaits(d)
BY DtqTypes DEF LetsIn, Touches

\* While a receiver waits, the channel is empty.
LEMMA HandsOverChannel ==
  ASSUME DtqInv, WaitInv', SendersKept, NEW d \in Dtq, NEW v \in DtqData, HandsOver(d, v)
  PROVE  ChannelStep
<1>1. PICK s : IsRing(dtqcb[d], DtqCnt[d], s)
  BY DEF DtqInv, BufferOK
<1>2. dtqcb[d].count = 0 /\ ~SenderWaits(d)
  BY DEF DtqInv, BufferOK, HandsOver
<1>3. DtqContents(d) = s \o Sending(d) /\ dtqcb[d].count = Len(s) /\ s \in Seq(DtqData)
  BY <1>1, OldContents
<1>4. Sending(d) = << >> /\ s = << >>
  BY <1>2, <1>3, SendingTypes
<1>5. DtqContents(d) = << >>
  BY <1>3, <1>4
<1>6. ASSUME NEW e \in Dtq PROVE SameChannel(e)
  <2>1. SQ(e) \in WObj /\ SQ(e) # RQ(d)
    BY QueueNames, DtqTypes
  <2>2. wque'[SQ(e)] = wque[SQ(e)] /\ dtqcb'[e] = dtqcb[e]
    BY <2>1, DtqTypes DEF HandsOver
  <2> QED
    BY <2>1, <2>2, SameContents
<1> QED
  BY <1>5, <1>6, ChannelDelivered DEF HandsOver

\* A datum stored while nobody waits, and a forced one.
LEMMA StoresChannel ==
  ASSUME DtqInv, WaitInv', SendersKept, NoDelivery, NEW d \in Dtq, NEW v \in DtqData, NEW s,
         IsRing(dtqcb[d], DtqCnt[d], s), DtqHasRoom(d),
         Stores(d, EnqueueData(dtqcb[d], d, v))
  PROVE  ChannelStep
<1> DEFINE c == EnqueueData(dtqcb[d], d, v)
           z == Append(s, v)
<1>1. IsRing(c, DtqCnt[d], z)
  BY EnqueueRing, DtqTypes DEF DtqHasRoom
<1>2. ~SenderWaits(d)
  BY FullBuffer DEF DtqHasRoom, DtqInv, BufferOK
<1>3. Touches(d) /\ dtqcb'[d] = c /\ wque'[SQ(d)] = wque[SQ(d)]
  BY StoresTouches
<1>4. DtqContents(d) = s \o Sending(d) /\ dtqcb[d].count = Len(s) /\ s \in Seq(DtqData)
  BY OldContents
<1> HIDE DEF c, z
<1>5. DtqContents(d)' = z \o Sending(d) /\ dtqcb'[d].count = Len(z) /\ z \in Seq(DtqData)
  BY <1>1, <1>3, NewContents DEF Sending
<1>6. Sending(d) = << >>
  BY <1>2, SendingTypes
<1>7. DtqContents(d) = s /\ DtqContents(d)' = z
  BY <1>4, <1>5, <1>6, JoinEmpty
<1>8. <<z, Len(z)>> \in DtqChannel!Send(s, Len(s))
  BY <1>4, StoredInChannel DEF z
<1>9. <<DtqContents(d)', dtqcb'[d].count>> \in DtqChannel!Send(DtqContents(d), dtqcb[d].count)
  BY <1>4, <1>5, <1>7, <1>8
<1>10. \A e \in Dtq \ {d} : SameChannel(e)
  BY <1>3, OtherChannels
<1> QED
  BY <1>9, <1>10, ChannelUndelivered

\* A forced send is a step of the channel.
LEMMA ForcesChannel ==
  ASSUME DtqInv, WaitInv', SendersKept, NoDelivery, NEW d \in Dtq, NEW v \in DtqData, NEW s,
         IsRing(dtqcb[d], DtqCnt[d], s), DtqCnt[d] > 0,
         Stores(d, ForceEnqueueData(dtqcb[d], d, v))
  PROVE  ChannelStep
<1> DEFINE c == ForceEnqueueData(dtqcb[d], d, v)
           z == Append(Tail(s), v)
<1>1. CASE DtqHasRoom(d)
  <2>1. c = EnqueueData(dtqcb[d], d, v)
    BY <1>1, ForceWithRoom, DtqTypes DEF DtqHasRoom
  <2> QED
    BY <1>1, <2>1, StoresChannel
<1>2. CASE ~DtqHasRoom(d)
  <2>1. dtqcb[d].count = DtqCnt[d] /\ DtqCnt[d] \in Nat
    BY <1>2, FullBuffer, DtqTypes
  <2>2. IsRing(c, DtqCnt[d], z) /\ c.count = DtqCnt[d] /\ s # << >>
    <3>1. IsRing(c, DtqCnt[d], z) /\ s # << >>
      BY <2>1, ForceRing
    <3>2. c.count = DtqCnt[d]
      BY <2>1, ForceFull
    <3> QED
      BY <3>1, <3>2
  <2>3. Touches(d) /\ dtqcb'[d] = c /\ wque'[SQ(d)] = wque[SQ(d)]
    BY StoresTouches
  <2>4. DtqContents(d) = s \o Sending(d) /\ dtqcb[d].count = Len(s) /\ s \in Seq(DtqData)
    BY OldContents
  <2> HIDE DEF c, z
  <2>5. DtqContents(d)' = z \o Sending(d) /\ dtqcb'[d].count = Len(s)
    BY <2>1, <2>2, <2>3, <2>4, NewContents DEF Sending
  <2>6. Sending(d) \in Seq(DtqData)
    BY SendingTypes
  <2>7. <<z \o Sending(d), Len(s)>> \in DtqChannel!ForceSend(s \o Sending(d), Len(s))
    BY <2>2, <2>4, <2>6, ForcedInChannel DEF z
  <2>8. <<DtqContents(d)', dtqcb'[d].count>> \in
          DtqChannel!ForceSend(DtqContents(d), dtqcb[d].count)
    BY <2>4, <2>5, <2>7
  <2>9. \A e \in Dtq \ {d} : SameChannel(e)
    BY <2>3, OtherChannels
  <2> QED
    BY <2>8, <2>9, ChannelUndelivered
<1> QED
  BY <1>1, <1>2

\* The first datum of the buffer leaves it; the place stays empty,
LEMMA ReceivesChannel ==
  ASSUME DtqInv, WaitInv', SendersKept, NEW d \in Dtq, NEW s, IsRing(dtqcb[d], DtqCnt[d], s),
         NEW t \in Task, Deliver(t, Oldest(dtqcb[d])), dtqcb[d].count > 0, ~SenderWaits(d),
         Stores(d, DequeueData(dtqcb[d], d))
  PROVE  ChannelStep
<1> DEFINE c == DequeueData(dtqcb[d], d)
           z == Tail(s)
           v == Oldest(dtqcb[d])
<1>1. IsRing(c, DtqCnt[d], z) /\ v = Head(s) /\ s # << >>
  BY DequeueRing, DtqTypes
<1>2. Touches(d) /\ dtqcb'[d] = c /\ wque'[SQ(d)] = wque[SQ(d)]
  BY StoresTouches
<1>3. DtqContents(d) = s \o Sending(d) /\ dtqcb[d].count = Len(s) /\ s \in Seq(DtqData)
  BY OldContents
<1> HIDE DEF c
<1>4. DtqContents(d)' = z \o Sending(d) /\ dtqcb'[d].count = Len(z)
  BY <1>1, <1>2, NewContents DEF Sending
<1>5. Sending(d) = << >>
  BY SendingTypes
<1>6. z \in Seq(DtqData) /\ Len(z) = Len(s) - 1 /\ Len(s) \in Nat \ {0} /\ Head(s) \in DtqData
  BY <1>1, <1>3, TailFacts
<1>7. DtqContents(d) = s /\ DtqContents(d)' = Tail(s)
  BY <1>3, <1>4, <1>5, <1>6, JoinEmpty
<1>8. <<Tail(s), Len(z)>> \in DtqChannel!Receive(s, Len(s))
  <2> DEFINE m == Len(z)
             n == Len(s)
  <2> HIDE DEF z
  <2>1. n \in Nat /\ m \in Nat /\ m = n - 1 /\ n # 0 /\ m <= Len(z) /\ z = Tail(s)
    BY <1>6 DEF z
  <2> HIDE DEF m, n
  <2>2. <<Tail(s), m>> \in DtqChannel!Receive(s, n)
    BY <1>1, <1>3, <2>1, TakenFromChannel
  <2> QED
    BY <2>2 DEF m, n
<1>9. <<DtqContents(d)', dtqcb'[d].count>> \in DtqChannel!Receive(DtqContents(d), dtqcb[d].count)
  BY <1>3, <1>4, <1>7, <1>8
<1>10. \A e \in Dtq \ {d} : SameChannel(e)
  BY <1>2, OtherChannels
<1>11. DtqContents(d) # << >> /\ Head(DtqContents(d)) = v /\ v \in DtqData
  BY <1>1, <1>6, <1>7
<1> QED
  BY <1>9, <1>10, <1>11, ChannelDelivered

\* or takes the datum of the first sender,
LEMMA ReceivesAndLetsInChannel ==
  ASSUME DtqInv, WaitInv', SendersKept, NEW d \in Dtq, NEW s, IsRing(dtqcb[d], DtqCnt[d], s),
         NEW t \in Task, Deliver(t, Oldest(dtqcb[d])), dtqcb[d].count > 0,
         LetsIn(d, EnqueueData(DequeueData(dtqcb[d], d), d, sdata[Head(wque[SQ(d)])]))
  PROVE  ChannelStep
<1> DEFINE c == DequeueData(dtqcb[d], d)
           u == sdata[Head(wque[SQ(d)])]
           e == EnqueueData(c, d, u)
           z == Tail(s)
           v == Oldest(dtqcb[d])
           w == Sending(d)
           q == DtqContents(d)
<1>1. /\ IsRing(c, DtqCnt[d], z) /\ c.count = dtqcb[d].count - 1
      /\ v = Head(s) /\ s # << >>
  BY DequeueRing, DtqTypes
<1>2. Touches(d) /\ dtqcb'[d] = e /\ wque'[SQ(d)] = Tail(wque[SQ(d)]) /\ SenderWaits(d)
  BY LetsInTouches
<1>3. u \in DtqData
  BY <1>2, FirstSender
<1>4. dtqcb[d].count = DtqCnt[d] /\ DtqCnt[d] \in Nat
  BY <1>2, DtqTypes DEF DtqInv, BufferOK
<1>5. IsRing(e, DtqCnt[d], Append(z, u))
  <2> HIDE DEF c, z, u
  <2>1. c.count < DtqCnt[d]
    BY <1>1, <1>4
  <2> QED
    BY <1>1, <1>3, <1>4, <2>1, EnqueueRing
<1>6. q = s \o w /\ dtqcb[d].count = Len(s) /\ s \in Seq(DtqData)
  BY OldContents
<1>7. /\ w \in Seq(DtqData) /\ w # << >> /\ u = Head(w)
      /\ DataOf(Tail(wque[SQ(d)]), sdata) = Tail(w)
  BY <1>2, SendingTypes
<1> HIDE DEF c, e, u, w, q, z
<1>8. /\ DtqContents(d)' = Append(z, u) \o Tail(w) /\ dtqcb'[d].count = Len(Append(z, u))
  BY <1>2, <1>5, <1>7, NewContents
<1>9. z \in Seq(DtqData) /\ Len(z) = Len(s) - 1 /\ Len(s) \in Nat \ {0} /\ Head(s) \in DtqData
  BY <1>1, <1>6, TailFacts DEF z
<1>10. Len(Append(z, u)) = Len(s)
  BY <1>3, <1>9, AppendFacts
<1>11. Tail(q) = z \o w /\ q # << >> /\ Head(q) = v
  BY <1>1, <1>6, <1>7, TailJoin DEF z
<1>12. Tail(q) = DtqContents(d)'
  BY <1>7, <1>8, <1>9, <1>11, MoveJoin
<1>13. q \in Seq(DtqData) /\ Len(Tail(q)) = Len(z) + Len(w) /\ Len(w) \in Nat \ {0}
  <2>1. q \in Seq(DtqData)
    BY <1>6, <1>7, JoinFacts
  <2>2. Len(z \o w) = Len(z) + Len(w) /\ Len(w) \in Nat \ {0}
    BY <1>7, <1>9, JoinFacts, TailFacts
  <2> QED
    BY <1>11, <2>1, <2>2
<1>14. <<Tail(q), Len(s)>> \in DtqChannel!Receive(q, Len(s))
  <2> DEFINE n == Len(s)
  <2>1. n \in Nat /\ n <= Len(Tail(q)) /\ q \in Seq(DtqData) /\ q # << >>
    BY <1>9, <1>11, <1>13
  <2> HIDE DEF n
  <2>2. <<Tail(q), n>> \in DtqChannel!Receive(q, n)
    BY <2>1, TakenFromChannel
  <2> QED
    BY <2>2 DEF n
<1>15. <<DtqContents(d)', dtqcb'[d].count>> \in DtqChannel!Receive(DtqContents(d), dtqcb[d].count)
  BY <1>6, <1>8, <1>10, <1>12, <1>14 DEF q
<1>16. \A x \in Dtq \ {d} : SameChannel(x)
  BY <1>2, OtherChannels
<1>17. DtqContents(d) # << >> /\ Head(DtqContents(d)) = v /\ v \in DtqData
  BY <1>1, <1>9, <1>11 DEF q
<1> QED
  BY <1>15, <1>16, <1>17, ChannelDelivered

\* or there is no buffer, and the first sender's datum goes to the receiver.
LEMMA MeetsChannel ==
  ASSUME DtqInv, WaitInv', SendersKept, NEW d \in Dtq, NEW s, IsRing(dtqcb[d], DtqCnt[d], s),
         NEW t \in Task, Deliver(t, sdata[Head(wque[SQ(d)])]), dtqcb[d].count = 0,
         LetsIn(d, dtqcb[d])
  PROVE  ChannelStep
<1> DEFINE u == sdata[Head(wque[SQ(d)])]
           w == Sending(d)
<1>1. Touches(d) /\ dtqcb'[d] = dtqcb[d] /\ wque'[SQ(d)] = Tail(wque[SQ(d)]) /\ SenderWaits(d)
  BY LetsInTouches
<1>2. u \in DtqData
  BY <1>1, FirstSender
<1>3. DtqContents(d) = s \o w /\ dtqcb[d].count = Len(s) /\ s \in Seq(DtqData)
  BY OldContents
<1>4. /\ w \in Seq(DtqData) /\ w # << >> /\ u = Head(w)
      /\ DataOf(Tail(wque[SQ(d)]), sdata) = Tail(w)
  BY <1>1, SendingTypes
<1> HIDE DEF u, w
<1>5. IsRing(dtqcb'[d], DtqCnt[d], s)
  BY <1>1
<1>6. DtqContents(d)' = s \o Tail(w) /\ dtqcb'[d].count = 0
  BY <1>1, <1>3, <1>4, <1>5, NewContents
<1>7. s = << >> /\ Tail(w) \in Seq(DtqData) /\ Len(Tail(w)) \in Nat
  BY <1>3, <1>4, TailFacts
<1>8. DtqContents(d) = w /\ DtqContents(d)' = Tail(w)
  BY <1>3, <1>4, <1>6, <1>7, JoinEmpty
<1>9. <<Tail(w), 0>> \in DtqChannel!Receive(w, 0)
  BY <1>4, <1>7, TakenFromChannel
<1>10. <<DtqContents(d)', dtqcb'[d].count>> \in
         DtqChannel!Receive(DtqContents(d), dtqcb[d].count)
  BY <1>6, <1>8, <1>9
<1>11. \A x \in Dtq \ {d} : SameChannel(x)
  BY <1>1, OtherChannels
<1>12. DtqContents(d) # << >> /\ Head(DtqContents(d)) = u /\ u \in DtqData
  BY <1>2, <1>4, <1>8
<1>13. Deliver(t, u)
  BY DEF u
<1> QED
  BY <1>10, <1>11, <1>12, <1>13, ChannelDelivered

\* A task that starts to wait to receive is none of the channel's business.
LEMMA StartsToReceiveChannel ==
  ASSUME DtqInv, WaitInv', SendersKept, NoDelivery, NEW d \in Dtq, StartsToReceive(d)
  PROVE  ChannelStep
<1>1. \A e \in Dtq : SQ(e) \in WObj \ {RQ(d)}
  BY QueueNames, DtqTypes
<1>2. \A e \in Dtq : SameChannel(e)
  BY <1>1, SameContents DEF StartsToReceive
<1> QED
  BY <1>2, ChannelSilent

\* ini_dtq resets the channel.
LEMMA EmptiesChannel ==
  ASSUME DtqInv, WaitInv', SendersKept, NoDelivery, NEW d \in Dtq, Empties(d)
  PROVE  ChannelStep
<1>1. Touches(d) /\ dtqcb'[d] = EmptyDtq(d) /\ wque'[SQ(d)] = << >>
  BY DtqTypes DEF Empties, Touches
<1>2. IsRing(dtqcb'[d], DtqCnt[d], << >>)
  BY <1>1, EmptyRing, DtqTypes
<1>3. DtqContents(d)' = << >> \o DataOf(wque'[SQ(d)], sdata) /\ dtqcb'[d].count = Len(<< >>)
  BY <1>2, NewContents
<1>4. DataOf(wque'[SQ(d)], sdata) = << >>
  BY <1>1 DEF DataOf
<1>5. DtqContents(d)' = << >> /\ dtqcb'[d].count = 0
  BY <1>3, <1>4
<1>6. <<DtqContents(d)', dtqcb'[d].count>> \in DtqChannel!Reset
  BY <1>5 DEF DtqChannel!Reset
<1>7. \A e \in Dtq \ {d} : SameChannel(e)
  BY <1>1, OtherChannels
<1> QED
  BY <1>6, <1>7, ChannelUndelivered

\* Every move is a step of the channel.
LEMMA DtqMoveChannel ==
  ASSUME DtqInv, WaitInv', SendersKept, DtqMove
  PROVE  ChannelStep
<1>1. CASE wque' = wque /\ dtqcb' = dtqcb /\ NoDelivery
  BY <1>1, SameContents, ChannelSilent, DtqTypes
<1>2. ASSUME NEW d \in Dtq, NEW v \in DtqData, HandsOver(d, v) PROVE ChannelStep
  BY <1>2, HandsOverChannel
<1>3. ASSUME NEW d \in Dtq, NEW v \in DtqData, NEW s, IsRing(dtqcb[d], DtqCnt[d], s), NoDelivery,
             \/ DtqHasRoom(d) /\ Stores(d, EnqueueData(dtqcb[d], d, v))
             \/ DtqCnt[d] > 0 /\ Stores(d, ForceEnqueueData(dtqcb[d], d, v))
      PROVE  ChannelStep
  BY <1>3, StoresChannel, ForcesChannel
<1>4. ASSUME NEW d \in Dtq, NEW s, IsRing(dtqcb[d], DtqCnt[d], s), runtsk \in Task,
             \/ /\ dtqcb[d].count > 0 /\ ~SenderWaits(d)
                /\ Deliver(runtsk, Oldest(dtqcb[d]))
                /\ Stores(d, DequeueData(dtqcb[d], d))
             \/ /\ dtqcb[d].count > 0 /\ Deliver(runtsk, Oldest(dtqcb[d]))
                /\ LetsIn(d, EnqueueData(DequeueData(dtqcb[d], d), d,
                                         sdata[Head(wque[SQ(d)])]))
             \/ /\ dtqcb[d].count = 0 /\ Deliver(runtsk, sdata[Head(wque[SQ(d)])])
                /\ LetsIn(d, dtqcb[d])
      PROVE  ChannelStep
  BY <1>4, ReceivesChannel, ReceivesAndLetsInChannel, MeetsChannel
<1>5. ASSUME NEW d \in Dtq, NoDelivery, StartsToReceive(d) \/ Empties(d) PROVE ChannelStep
  BY <1>5, StartsToReceiveChannel, EmptiesChannel
<1> QED
  BY <1>1, <1>2, <1>3, <1>4, <1>5 DEF DtqMove

\* Data queues created with TA_TFIFO: those with TA_TPRI let a sender that waits
\* overtake another on purpose.
FifoSenders == \A d \in Dtq : SQ(d) \notin TPriObj

\* Every step of the data queues is a step of the channels.
LEMMA DtqChannelNext ==
  ASSUME DtqInv, [DtqNext]_dvars, FifoSenders
  PROVE  ChannelStep
<1>1. CASE Next /\ DtqKept
  BY <1>1, CoreChannel DEF DtqKept, FifoSenders
<1>2. ASSUME NEW d \in Dtq, DtqCall(d) PROVE ChannelStep
  <2>1. CASE DtqMove /\ SendersKept
    BY <1>2, <2>1, DtqCallOK, DtqMoveChannel
  <2>2. ASSUME NEW v \in DtqData, StartsToSend(d, v), NoDelivery PROVE ChannelStep
    BY <1>2, <2>2, DtqCallOK, StartsToSendChannel DEF FifoSenders
  <2> QED
    BY <1>2, <2>1, <2>2, DtqCallOK
<1>3. CASE UNCHANGED dvars
  <2>1. wque' = wque /\ sdata' = sdata /\ dtqcb' = dtqcb /\ rdata' = rdata
    BY <1>3 DEF dvars, vars, srvars, kvars
  <2>2. \A d \in Dtq : SameChannel(d)
    BY <2>1, ContentsNow DEF SameChannel
  <2>3. Chans' = Chans /\ Sents' = Sents
    BY <2>2, ChansNext
  <2> QED
    BY <2>1, <2>3 DEF ChannelStep
<1> QED
  BY <1>1, <1>2, <1>3 DEF DtqNext

\* The channels are empty initially.
LEMMA DtqChannelInit == DtqInit => DtqChannel!Init
<1> SUFFICES ASSUME DtqInit PROVE DtqChannel!Init
  OBVIOUS
<1>1. /\ rdata = [t \in Task |-> NoData] /\ dtqcb = [d \in Dtq |-> EmptyDtq(d)]
      /\ \A w \in WObj : wque[w] = << >>
  BY InitWaitInv DEF DtqInit, SRInit, NothingData
<1>2. ASSUME NEW d \in Dtq PROVE DtqContents(d) = << >> /\ dtqcb[d].count = 0
  <2>1. dtqcb[d] = EmptyDtq(d) /\ wque[SQ(d)] = << >> /\ DtqCnt[d] \in Nat
    BY <1>1, DataQueueAssumption
  <2>2. DtqContents(d) = << >> \o DataOf(wque[SQ(d)], sdata)
    <3> DEFINE e == << >>
    <3>1. IsRing(dtqcb[d], DtqCnt[d], e) /\ DtqCnt[d] \in Nat
      BY <2>1, EmptyRing
    <3> HIDE DEF e
    <3>2. DtqContents(d) = e \o DataOf(wque[SQ(d)], sdata)
      BY <3>1, ContentsNow, ContentsAre
    <3> QED
      BY <3>2 DEF e
  <2>3. DataOf(wque[SQ(d)], sdata) = << >>
    BY <2>1 DEF DataOf
  <2> QED
    BY <2>1, <2>2, <2>3 DEF EmptyDtq
<1> QED
  BY <1>1, <1>2 DEF DtqChannel!Init, DtqChannel!Nothing

\* THEOREM: data queues whose senders wait in FIFO order are first-in first-out
\* channels.  No datum is lost, sent twice or overtaken, whether the buffer is full,
\* empty or absent, whoever waits, and however waits end; only a forced send drops
\* the oldest datum, and only ini_dtq all of them.
THEOREM DataQueueIsChannel ==
  ASSUME FifoSenders
  PROVE  DtqSpec => DtqChannel!Spec
<1>1. DtqInv /\ [DtqNext]_dvars => [DtqChannel!Next]_<<Chans, Sents, rdata>>
  BY DtqChannelNext DEF ChannelStep
<1>2. DtqInv /\ [DtqNext]_dvars =>
        [DtqChannel!Next]_<<[d \in Dtq |-> DtqContents(d)], [d \in Dtq |-> dtqcb[d].count], rdata>>
  BY <1>1 DEF Chans, Sents
<1> QED
  BY <1>2, DtqChannelInit, DtqInvariantHolds, PTL DEF DtqSpec, DtqChannel!Spec

-----------------------------------------------------------------------------
(* The lists of cells of a priority data queue. *)

\* A set of places that holds every place before one of it is a prefix.
LEMMA Prefix ==
  ASSUME NEW L \in Nat, NEW J \in SUBSET (1..L), \A j \in J : \A i \in 1..j : i \in J,
         NEW n, n = Cardinality(J)
  PROVE  n \in 0..L /\ J = 1..n
<1>1. \A m \in Nat : IsFiniteSet(1..m) /\ Cardinality(1..m) = m
  BY FS_Interval
<1>2. IsFiniteSet(J) /\ n <= L /\ n \in Nat
  <2>1. IsFiniteSet(1..L) /\ Cardinality(1..L) = L
    BY <1>1
  <2>2. IsFiniteSet(J) /\ Cardinality(J) <= L
    BY <2>1, FS_Subset
  <2> QED
    BY <2>2, FS_CardinalityType
<1>3. ASSUME NEW x \in J PROVE x <= n
  <2>1. x \in Nat /\ (1..x) \in SUBSET J
    OBVIOUS
  <2> QED
    BY <1>1, <1>2, <2>1, FS_Subset
<1>4. J \in SUBSET (1..n)
  BY <1>3
<1>5. J = 1..n
  BY <1>1, <1>2, <1>4, FS_Subset
<1> QED
  BY <1>2, <1>5

\* The sequence r is q with x inserted at k.
InsertsAt(r, q, k, x) ==
  /\ Len(r) = Len(q) + 1
  /\ \A i \in 1..(Len(q) + 1) : r[i] = IF i < k THEN q[i] ELSE IF i = k THEN x ELSE q[i - 1]

\* The places of a sequence with an element inserted.
LEMMA InsertPlaces ==
  ASSUME NEW S, NEW q \in Seq(S), NEW x \in S, NEW k \in 1..(Len(q) + 1), NEW r,
         r = InsertAt(q, k, x)
  PROVE  r \in Seq(S) /\ InsertsAt(r, q, k, x)
<1> DEFINE a == SubSeq(q, 1, k - 1)
           b == SubSeq(q, k, Len(q))
           e == <<x>>
           m == a \o e
           n == Len(q)
<1>1. k \in Nat /\ n \in Nat /\ k >= 1 /\ k <= n + 1
  OBVIOUS
<1>2. a \in Seq(S) /\ Len(a) = k - 1 /\ \A i \in 1..(k - 1) : a[i] = q[i]
  OBVIOUS
<1>3. b \in Seq(S) /\ Len(b) = n + 1 - k /\ \A i \in 1..(n + 1 - k) : b[i] = q[k + i - 1]
  OBVIOUS
<1>4. e \in Seq(S) /\ Len(e) = 1 /\ e[1] = x
  OBVIOUS
<1>5. r = m \o b
  BY DEF InsertAt
<1> HIDE DEF a, b, e
<1>6. /\ m \in Seq(S) /\ Len(m) = Len(a) + Len(e)
      /\ \A i \in 1..(Len(a) + Len(e)) : m[i] = IF i <= Len(a) THEN a[i] ELSE e[i - Len(a)]
  BY <1>2, <1>4, JoinFacts
<1> HIDE DEF m
<1>7. /\ Len(m) = k /\ \A i \in 1..k : m[i] = IF i <= k - 1 THEN a[i] ELSE e[i - (k - 1)]
  <2>1. Len(a) + Len(e) = k /\ Len(a) = k - 1
    BY <1>1, <1>2, <1>4
  <2> QED
    BY <1>6, <2>1
<1>8. /\ r \in Seq(S) /\ Len(r) = Len(m) + Len(b)
      /\ \A i \in 1..(Len(m) + Len(b)) : r[i] = IF i <= Len(m) THEN m[i] ELSE b[i - Len(m)]
  <2>1. m \in Seq(S) /\ b \in Seq(S)
    BY <1>3, <1>6
  <2>2. /\ m \o b \in Seq(S) /\ Len(m \o b) = Len(m) + Len(b)
        /\ \A i \in 1..(Len(m) + Len(b)) :
             (m \o b)[i] = IF i <= Len(m) THEN m[i] ELSE b[i - Len(m)]
    BY ONLY <2>1, JoinFacts
  <2> QED
    BY <1>5, <2>2
<1> HIDE DEF n
<1>9. Len(r) = n + 1 /\ \A i \in 1..(n + 1) : r[i] = IF i <= k THEN m[i] ELSE b[i - k]
  BY <1>1, <1>3, <1>7, <1>8
<1>10. ASSUME NEW i \in 1..(n + 1)
       PROVE  r[i] = IF i < k THEN q[i] ELSE IF i = k THEN x ELSE q[i - 1]
  <2>1. CASE i < k
    BY <1>1, <1>2, <1>7, <1>9, <2>1
  <2>2. CASE i = k
    <3>1. m[k] = e[1]
      BY <1>1, <1>7
    <3> QED
      BY <1>1, <1>4, <1>9, <2>2, <3>1
  <2>3. CASE i > k
    <3> DEFINE j == i - k
    <3>1. j \in 1..(n + 1 - k) /\ k + j - 1 = i - 1 /\ i \in Int
      BY <1>1, <2>3
    <3>2. r[i] = b[j]
      BY <1>1, <1>9, <2>3
    <3> HIDE DEF j
    <3>3. b[j] = q[k + j - 1]
      BY <1>3, <3>1
    <3> QED
      BY <1>1, <2>3, <3>1, <3>2, <3>3
  <2> QED
    BY <1>1, <2>1, <2>2, <2>3
<1> QED
  BY <1>8, <1>9, <1>10 DEF InsertsAt, n

\* A new element.
LEMMA InsertNew ==
  ASSUME NEW S, NEW q \in Seq(S), NEW r \in Seq(S), NEW k \in 1..(Len(q) + 1), NEW x,
         InsertsAt(r, q, k, x), NEW T, IsQueue(q, T), x \notin T
  PROVE  IsQueue(r, T \union {x}) /\ r[k] = x
<1> DEFINE n == Len(q)
<1>1. DOMAIN q = 1..n /\ n \in Nat /\ DOMAIN r = 1..(n + 1)
  BY DEF InsertsAt
<1>2. /\ \A i \in 1..(n + 1) : i < k => r[i] = q[i] /\ i \in 1..n
      /\ \A i \in 1..(n + 1) : i > k => r[i] = q[i - 1] /\ i - 1 \in 1..n
      /\ k \in 1..(n + 1) /\ r[k] = x
  BY <1>1 DEF InsertsAt
<1>3. \A i, j \in 1..n : q[i] = q[j] => i = j
  BY <1>1 DEF IsQueue
<1>4. \A i \in 1..n : q[i] \in T
  BY <1>1 DEF IsQueue
<1>5. \A y \in T : \E i \in 1..n : q[i] = y
  BY <1>1 DEF IsQueue
<1> HIDE DEF n
<1>6. ASSUME NEW i \in 1..(n + 1), NEW j \in 1..(n + 1), r[i] = r[j] PROVE i = j
  <2>1. CASE i = k \/ j = k
    BY <1>1, <1>2, <1>4, <1>6, <2>1
  <2>2. CASE i # k /\ j # k
    <3>1. (i < k \/ i > k) /\ (j < k \/ j > k)
      BY <1>1, <2>2
    <3>2. CASE i < k /\ j < k
      BY <1>2, <1>3, <1>6, <3>2
    <3>3. CASE i > k /\ j > k
      <4>1. i - 1 = j - 1
        BY <1>2, <1>3, <1>6, <3>3
      <4> QED
        BY <1>1, <4>1
    <3>4. CASE i < k /\ j > k
      <4>1. i = j - 1
        BY <1>2, <1>3, <1>6, <3>4
      <4> QED
        BY <1>1, <3>4, <4>1
    <3>5. CASE i > k /\ j < k
      <4>1. i - 1 = j
        BY <1>2, <1>3, <1>6, <3>5
      <4> QED
        BY <1>1, <3>5, <4>1
    <3> QED
      BY <3>1, <3>2, <3>3, <3>4, <3>5
  <2> QED
    BY <2>1, <2>2
<1>7. \A i \in 1..(n + 1) : r[i] \in T \union {x}
  <2> TAKE i \in 1..(n + 1)
  <2>1. i < k \/ i = k \/ i > k
    BY <1>1
  <2> QED
    BY <1>2, <1>4, <2>1
<1>8. ASSUME NEW y \in T \union {x} PROVE \E i \in 1..(n + 1) : r[i] = y
  <2>1. CASE y = x
    BY <1>2, <2>1
  <2>2. CASE y \in T
    <3>1. PICK j \in 1..n : q[j] = y
      BY <1>5, <2>2
    <3>2. CASE j < k
      <4>1. j \in 1..(n + 1)
        BY <1>1
      <4> QED
        BY <1>2, <3>1, <3>2, <4>1
    <3>3. CASE ~(j < k)
      <4>1. j + 1 \in 1..(n + 1) /\ j + 1 > k /\ (j + 1) - 1 = j
        BY <1>1, <3>3
      <4>2. r[j + 1] = q[j]
        BY <1>2, <4>1
      <4> QED
        BY <3>1, <4>1, <4>2
    <3> QED
      BY <3>2, <3>3
  <2> QED
    BY <2>1, <2>2
<1>9. \A i, j \in DOMAIN r : r[i] = r[j] => i = j
  BY <1>1, <1>6
<1>10. {r[i] : i \in DOMAIN r} = T \union {x}
  BY ONLY <1>1, <1>7, <1>8
<1> QED
  BY <1>2, <1>9, <1>10 DEF IsQueue

\* What is inserted can be removed again.
LEMMA RemoveInserted ==
  ASSUME NEW S, NEW q \in Seq(S), NEW r \in Seq(S), NEW k \in 1..(Len(q) + 1), NEW x,
         InsertsAt(r, q, k, x)
  PROVE  RemoveAt(r, k) = q /\ k \in DOMAIN r
<1> DEFINE a == RemoveAt(r, k)
           n == Len(q)
<1>1. Len(r) = n + 1 /\ n \in Nat /\ k \in 1..Len(r) /\ DOMAIN r = 1..(n + 1)
  BY DEF InsertsAt
<1>2. /\ a \in Seq(S) /\ Len(a) = Len(r) - 1
      /\ \A i \in 1..(Len(r) - 1) : a[i] = IF i < k THEN r[i] ELSE r[i + 1]
  <2>1. r \in Seq(S) /\ k \in 1..Len(r)
    BY <1>1
  <2> QED
    BY ONLY <2>1, RemoveFacts
<1> HIDE DEF a
<1>3. ASSUME NEW i \in 1..n PROVE a[i] = q[i]
  <2>1. i \in 1..(n + 1) /\ i + 1 \in 1..(n + 1) /\ (i + 1) - 1 = i
    BY <1>1
  <2>2. CASE i < k
    <3>1. a[i] = r[i] /\ r[i] = q[i]
      BY <1>1, <1>2, <2>1, <2>2 DEF InsertsAt
    <3> QED
      BY <3>1
  <2>3. CASE ~(i < k)
    <3>1. a[i] = r[i + 1]
      BY <1>1, <1>2, <2>3
    <3>2. ~(i + 1 < k) /\ i + 1 # k
      BY <1>1, <2>3
    <3>3. r[i + 1] = q[(i + 1) - 1]
      BY <2>1, <3>2 DEF InsertsAt
    <3> QED
      BY <2>1, <3>1, <3>3
  <2> QED
    BY <2>2, <2>3
<1>4. /\ a \in Seq(S) /\ Len(a) = n /\ q \in Seq(S) /\ Len(q) = n
      /\ \A i \in 1..n : a[i] = q[i]
  BY <1>1, <1>2, <1>3
<1>5. a = q
  BY ONLY <1>4, SameElements
<1> QED
  BY <1>1, <1>5 DEF a

-----------------------------------------------------------------------------
(* The cells of a priority data queue: U is the set of those in use and F the  *)
(* set of those given back.                                                  *)

CellBlock(N) == [used: Seq(0..(N - 1)), free: Seq(0..(N - 1)), unused: 0..N,
                 mb: [0..(N - 1) -> Datum \union {NoData}]]

Sorted(q, mb) ==
  \A i \in 1..Len(q) :
    mb[q[i]] \in Datum /\ \A j \in 1..Len(q) : i <= j => mb[q[i]].datapri <= mb[q[j]].datapri

CellsWith(c, N, U, F) ==
  /\ c \in CellBlock(N) /\ IsQueue(c.used, U) /\ IsQueue(c.free, F)
  /\ U \intersect F = {} /\ U \union F = 0..(c.unused - 1)
  /\ Sorted(c.used, c.mb)

IsCells(c, N) == \E U, F : CellsWith(c, N, U, F)

\* A queue of places, and how many it holds.
LEMMA CellQueue ==
  ASSUME NEW S, NEW q \in Seq(S), NEW T, IsQueue(q, T)
  PROVE  Len(q) = Cardinality(T) /\ T = Range(q) /\ T \in SUBSET S /\ IsInjective(q)
<1>1. IsInjective(q) /\ T = Range(q)
  BY DEF IsQueue, IsInjective, Range
<1>2. \A i \in DOMAIN q : q[i] \in S
  OBVIOUS
<1>3. T \in SUBSET S
  BY <1>1, <1>2 DEF Range
<1> QED
  BY <1>1, <1>3, LengthOfInjective

\* The lengths of the lists of cells.
LEMMA CellCounts ==
  ASSUME NEW N \in Nat, NEW c, NEW U, NEW F, CellsWith(c, N, U, F)
  PROVE  /\ Len(c.used) + Len(c.free) = c.unused
         /\ Len(c.used) \in 0..N /\ Len(c.free) \in Nat /\ c.unused \in 0..N
         /\ c.free = << >> => c.unused = Len(c.used)
<1> DEFINE S == 0..(N - 1)
           W == 0..(c.unused - 1)
<1>1. /\ c.used \in Seq(S) /\ c.free \in Seq(S) /\ c.unused \in 0..N
      /\ IsQueue(c.used, U) /\ IsQueue(c.free, F) /\ U \intersect F = {} /\ U \union F = W
  BY DEF CellsWith, CellBlock
<1> HIDE DEF S
<1>2. Len(c.used) = Cardinality(U) /\ Len(c.free) = Cardinality(F)
  BY <1>1, CellQueue
<1>3. IsFiniteSet(W) /\ Cardinality(W) = c.unused
  <2> DEFINE u == c.unused - 1
  <2>1. c.unused \in Nat /\ u \in Int /\ 0 \in Int
    BY <1>1
  <2>2. W = 0..u
    OBVIOUS
  <2> HIDE DEF u, W
  <2>3. IsFiniteSet(W) /\ Cardinality(W) = IF 0 > u THEN 0 ELSE u - 0 + 1
    BY <2>1, <2>2, FS_Interval
  <2> QED
    BY <2>1, <2>3 DEF u
<1> HIDE DEF W
<1>4. IsFiniteSet(U) /\ IsFiniteSet(F)
  BY <1>1, <1>3, FS_Subset
<1>5. Cardinality(U \union F) = Cardinality(U) + Cardinality(F) - Cardinality(U \intersect F)
  BY <1>4, FS_Union
<1>6. Cardinality(U) \in Nat /\ Cardinality(F) \in Nat /\ Cardinality({}) = 0
  BY <1>4, FS_CardinalityType, FS_EmptySet
<1>7. Len(c.used) + Len(c.free) = c.unused
  <2>1. Cardinality(U \union F) = c.unused /\ Cardinality(U \intersect F) = 0
    BY <1>1, <1>3, <1>6
  <2> QED
    BY <1>2, <1>5, <1>6, <2>1
<1>8. c.free = << >> => Len(c.free) = 0
  OBVIOUS
<1> QED
  BY <1>1, <1>2, <1>6, <1>7, <1>8

\* The cell that a new datum gets.
NewCell(c) == IF c.free # << >> THEN Head(c.free) ELSE c.unused

\* The cell that a new datum gets is one of the block and not in use.
LEMMA CellTaken ==
  ASSUME NEW N \in Nat, NEW c, NEW U, NEW F, CellsWith(c, N, U, F), Len(c.used) < N,
         NEW v, NEW e, e = EnqueuePridata(c, v), NEW i, i = NewCell(c)
  PROVE  /\ i \in 0..(N - 1) /\ i \notin U
         /\ e.free \in Seq(0..(N - 1)) /\ e.unused \in 0..N
         /\ \E G : /\ IsQueue(e.free, G) /\ (U \union {i}) \intersect G = {}
                   /\ (U \union {i}) \union G = 0..(e.unused - 1)
<1> DEFINE S == 0..(N - 1)
<1>1. /\ c \in CellBlock(N) /\ c.used \in Seq(S) /\ c.free \in Seq(S) /\ c.unused \in 0..N
      /\ IsQueue(c.free, F) /\ U \intersect F = {} /\ U \union F = 0..(c.unused - 1)
  BY DEF CellsWith, CellBlock
<1>2. /\ e.free = IF c.free # << >> THEN Tail(c.free) ELSE c.free
      /\ e.unused = IF c.free # << >> THEN c.unused ELSE c.unused + 1
  BY <1>1 DEF EnqueuePridata, CellBlock
<1>3. CASE c.free # << >>
  <2> DEFINE q == c.free
  <2>1. i = Head(q) /\ e.free = Tail(q) /\ e.unused = c.unused
    BY <1>2, <1>3 DEF NewCell
  <2>2. q \in Seq(S) /\ q # << >> /\ IsQueue(q, F)
    BY <1>1, <1>3
  <2> HIDE DEF q, S
  <2>3. IsInjective(q) /\ F = Range(q) /\ F \in SUBSET S
    BY <2>2, CellQueue
  <2>4. /\ Tail(q) \in Seq(S) /\ IsInjective(Tail(q)) /\ Head(q) \in F
        /\ Range(Tail(q)) = F \ {Head(q)}
    BY <2>2, <2>3, FirstGone
  <2>5. IsQueue(e.free, F \ {i})
    BY <2>1, <2>4 DEF IsQueue, IsInjective, Range
  <2>6. i \in F /\ i \in S /\ i \notin U /\ e.free \in Seq(S)
    BY <1>1, <2>1, <2>3, <2>4
  <2>7. /\ (U \union {i}) \intersect (F \ {i}) = {}
        /\ (U \union {i}) \union (F \ {i}) = 0..(e.unused - 1)
    BY <1>1, <2>1, <2>6
  <2> QED
    BY <1>1, <2>1, <2>5, <2>6, <2>7 DEF S
<1>4. CASE c.free = << >>
  <2>1. i = c.unused /\ e.free = c.free /\ e.unused = c.unused + 1
    BY <1>2, <1>4 DEF NewCell
  <2>2. c.unused = Len(c.used)
    BY <1>4, CellCounts
  <2>3. i \in S /\ e.unused \in 0..N /\ i \notin U /\ i \notin F
    BY <1>1, <2>1, <2>2
  <2>4. 0..(e.unused - 1) = (0..(c.unused - 1)) \union {i}
    BY <1>1, <2>1
  <2>5. (U \union {i}) \intersect F = {} /\ (U \union {i}) \union F = 0..(e.unused - 1)
    BY <1>1, <2>3, <2>4
  <2> QED
    BY <1>1, <2>1, <2>3, <2>5
<1> QED
  BY <1>3, <1>4

\* Behind the data whose priority is not lower.
LEMMA InsertionPoint ==
  ASSUME NEW S, NEW q \in Seq(S), NEW mb, Sorted(q, mb), NEW v \in Datum, NEW n,
         n = Cardinality({j \in DOMAIN q : mb[q[j]].datapri <= v.datapri})
  PROVE  /\ n \in 0..Len(q)
         /\ \A j \in 1..Len(q) : mb[q[j]].datapri <= v.datapri <=> j <= n
<1> DEFINE J == {j \in DOMAIN q : mb[q[j]].datapri <= v.datapri}
           L == Len(q)
<1>1. DOMAIN q = 1..L /\ L \in Nat
  OBVIOUS
<1>2. \A j \in 1..L : mb[q[j]].datapri \in Int
  BY DEF Sorted, Datum
<1>3. ASSUME NEW j \in J, NEW i \in 1..j PROVE i \in J
  <2>1. j \in 1..L /\ i \in 1..L /\ i <= j /\ mb[q[j]].datapri <= v.datapri
    BY <1>1
  <2>2. mb[q[i]].datapri <= mb[q[j]].datapri
    BY <2>1 DEF Sorted
  <2>3. mb[q[i]].datapri <= v.datapri
    BY <1>2, <2>1, <2>2, PriDataqAssumption DEF Datum
  <2> QED
    BY <1>1, <2>1, <2>3
<1>4. J \in SUBSET (1..L) /\ n = Cardinality(J)
  BY <1>1
<1>5. \A j \in 1..L : j \in J <=> mb[q[j]].datapri <= v.datapri
  BY <1>1
<1> HIDE DEF J, L
<1>6. n \in 0..L /\ J = 1..n
  BY <1>1, <1>3, <1>4, Prefix
<1>7. \A j \in 1..L : j \in J <=> j <= n
  BY <1>1, <1>6
<1> QED
  BY <1>5, <1>6, <1>7 DEF L

\* The block e holds the data of the places q, as mb does, and one more, behind
\* those of its priority and before the lower ones.
Puts(q, mb, e) ==
  /\ \A x \in Range(q) : e.mb[x] = mb[x]
  /\ \E k \in DOMAIN e.used :
       /\ RemoveAt(e.used, k) = q
       /\ \A i \in 1..(k - 1) : e.mb[e.used[i]].datapri <= e.mb[e.used[k]].datapri
       /\ \A i \in (k + 1)..Len(e.used) : e.mb[e.used[k]].datapri < e.mb[e.used[i]].datapri

\* enqueue_pridata puts the datum behind those of its priority and no other.
LEMMA EnqueueCells ==
  ASSUME NEW N \in Nat, NEW c, NEW U, NEW F, CellsWith(c, N, U, F), Len(c.used) < N,
         NEW v \in Datum, NEW e, e = EnqueuePridata(c, v)
  PROVE  IsCells(e, N) /\ Len(e.used) = Len(c.used) + 1 /\ Puts(c.used, c.mb, e)
<1> DEFINE S == 0..(N - 1)
           x == NewCell(c)
           q == c.used
           L == Len(q)
           n == Cardinality({j \in DOMAIN q : c.mb[q[j]].datapri <= v.datapri})
           k == n + 1
           r == e.used
<1>1. /\ c \in CellBlock(N) /\ q \in Seq(S) /\ IsQueue(q, U) /\ Sorted(q, c.mb)
      /\ c.mb \in [S -> Datum \union {NoData}]
  BY DEF CellsWith, CellBlock
<1>2. /\ x \in S /\ x \notin U /\ e.free \in Seq(S) /\ e.unused \in 0..N
      /\ \E G : /\ IsQueue(e.free, G) /\ (U \union {x}) \intersect G = {}
                /\ (U \union {x}) \union G = 0..(e.unused - 1)
  <2> HIDE DEF x
  <2>1. x = NewCell(c)
    BY DEF x
  <2> QED
    BY <2>1, CellTaken
<1>3. /\ r = InsertAt(q, k, x) /\ e.mb = [c.mb EXCEPT ![x] = v]
      /\ e = [used |-> r, free |-> e.free, unused |-> e.unused, mb |-> e.mb]
  BY <1>1 DEF EnqueuePridata, NewCell, Insert, CellBlock
<1>4. n = Cardinality({j \in DOMAIN q : c.mb[q[j]].datapri <= v.datapri})
  OBVIOUS
<1> HIDE DEF n, x, S
<1>5. n \in 0..L /\ \A j \in 1..L : c.mb[q[j]].datapri <= v.datapri <=> j <= n
  BY <1>1, <1>4, InsertionPoint
<1>6. k \in 1..(L + 1) /\ L \in Nat /\ n \in Nat /\ DOMAIN q = 1..L
  BY <1>1, <1>5
<1> HIDE DEF k
<1>7. r \in Seq(S) /\ InsertsAt(r, q, k, x)
  BY <1>1, <1>2, <1>3, <1>6, InsertPlaces
<1>8. IsQueue(r, U \union {x}) /\ r[k] = x
  BY <1>1, <1>2, <1>6, <1>7, InsertNew
<1>9. RemoveAt(r, k) = q /\ k \in DOMAIN r
  BY <1>1, <1>6, <1>7, RemoveInserted
<1>10. Len(r) = L + 1 /\ DOMAIN r = 1..(L + 1)
  BY <1>7 DEF InsertsAt
<1>11. \A y \in U : y \in S /\ y # x
  BY <1>1, <1>2, CellQueue
<1>12. e.mb[x] = v /\ \A y \in U : e.mb[y] = c.mb[y]
  BY <1>1, <1>2, <1>3, <1>11
<1>13. \A j \in 1..L : q[j] \in U
  BY <1>1, <1>6 DEF IsQueue
<1>14. ASSUME NEW i \in 1..(L + 1)
       PROVE  /\ i < k => /\ i \in 1..L /\ e.mb[r[i]] = c.mb[q[i]]
                          /\ c.mb[q[i]].datapri <= v.datapri
              /\ i = k => e.mb[r[i]] = v
              /\ i > k => /\ i - 1 \in 1..L /\ e.mb[r[i]] = c.mb[q[i - 1]]
                          /\ ~(c.mb[q[i - 1]].datapri <= v.datapri)
  <2>1. CASE i < k
    <3>1. i \in 1..L /\ i <= n /\ ~(i > k) /\ i # k
      BY <1>6, <2>1 DEF k
    <3>2. r[i] = q[i] /\ q[i] \in U
      BY <1>7, <1>13, <2>1, <3>1 DEF InsertsAt
    <3> QED
      BY <1>5, <1>12, <3>1, <3>2
  <2>2. CASE i = k
    BY <1>6, <1>8, <1>12, <2>2
  <2>3. CASE i > k
    <3>1. i - 1 \in 1..L /\ ~(i - 1 <= n) /\ ~(i < k) /\ i # k
      BY <1>6, <2>3 DEF k
    <3>2. r[i] = q[i - 1] /\ q[i - 1] \in U
      BY <1>7, <1>13, <3>1 DEF InsertsAt
    <3> QED
      BY <1>5, <1>12, <3>1, <3>2
  <2> QED
    BY <1>6, <2>1, <2>2, <2>3
<1>15. v.datapri \in Int /\ \A j \in 1..L : c.mb[q[j]] \in Datum /\ c.mb[q[j]].datapri \in Int
  BY <1>1, PriDataqAssumption DEF Sorted, Datum
<1>16. \A i \in 1..(L + 1) : e.mb[r[i]] \in Datum /\ e.mb[r[i]].datapri \in Int
  <2> TAKE i \in 1..(L + 1)
  <2>1. i < k \/ i = k \/ i > k
    BY <1>6
  <2> QED
    BY <1>14, <1>15, <2>1
<1> DEFINE p(i) == e.mb[r[i]].datapri
           o(i) == c.mb[q[i]].datapri
           w    == v.datapri
<1>17. /\ w \in Int /\ \A i \in 1..(L + 1) : p(i) \in Int
       /\ \A i \in 1..L : o(i) \in Int /\ \A j \in 1..L : i <= j => o(i) <= o(j)
       /\ \A i \in 1..(L + 1) : /\ i < k => i \in 1..L /\ p(i) = o(i) /\ o(i) <= w
                                /\ i = k => p(i) = w
                                /\ i > k => i - 1 \in 1..L /\ p(i) = o(i - 1) /\ w < o(i - 1)
  <2>1. \A i \in 1..L : o(i) \in Int /\ \A j \in 1..L : i <= j => o(i) <= o(j)
    BY <1>1, <1>15 DEF Sorted
  <2>2. w \in Int /\ \A i \in 1..(L + 1) : p(i) \in Int
    BY <1>15, <1>16
  <2>3. ASSUME NEW i \in 1..(L + 1)
        PROVE  /\ i < k => i \in 1..L /\ p(i) = o(i) /\ o(i) <= w
               /\ i = k => p(i) = w
               /\ i > k => i - 1 \in 1..L /\ p(i) = o(i - 1) /\ ~(o(i - 1) <= w)
    BY <1>14
  <2> HIDE DEF p, o, w
  <2>4. \A i \in 1..(L + 1) : i > k => w < o(i - 1)
    BY <2>1, <2>2, <2>3
  <2> QED
    BY <2>1, <2>2, <2>3, <2>4
<1> HIDE DEF p, o, w, L
<1>18. \A i, j \in 1..(L + 1) : i <= j => p(i) <= p(j)
  <2> SUFFICES ASSUME NEW i \in 1..(L + 1), NEW j \in 1..(L + 1), i <= j PROVE p(i) <= p(j)
    OBVIOUS
  <2>1. (i < k \/ i = k \/ i > k) /\ (j < k \/ j = k \/ j > k)
    BY <1>6
  <2>2. CASE i < k /\ j < k
    BY <1>17, <2>2
  <2>3. CASE i < k /\ ~(j < k)
    <3>1. p(i) <= w
      BY <1>17, <2>3
    <3>2. w <= p(j)
      BY <1>17, <2>1, <2>3
    <3> QED
      BY <1>17, <3>1, <3>2
  <2>4. CASE i = k
    <3>1. ~(j < k)
      BY <1>6, <2>4
    <3>2. w <= p(j)
      BY <1>17, <2>1, <3>1
    <3> QED
      BY <1>17, <2>4, <3>2
  <2>5. CASE i > k
    <3>1. j > k /\ i - 1 <= j - 1
      BY <1>6, <2>5
    <3> QED
      BY <1>17, <2>5, <3>1
  <2> QED
    BY <2>1, <2>2, <2>3, <2>4, <2>5
<1>19. Sorted(r, e.mb)
  BY <1>10, <1>16, <1>18 DEF Sorted, p
<1>20. e \in CellBlock(N)
  <2>1. e.mb \in [S -> Datum \union {NoData}]
    BY <1>1, <1>3
  <2> QED
    BY <1>2, <1>3, <1>7, <2>1 DEF CellBlock, S
<1>21. IsCells(e, N)
  BY <1>2, <1>8, <1>19, <1>20 DEF IsCells, CellsWith
<1>22. Puts(q, c.mb, e)
  <2>1. \A y \in Range(q) : e.mb[y] = c.mb[y]
    BY <1>1, <1>12, CellQueue
  <2>2. \A i \in 1..(k - 1) : p(i) <= p(k)
    BY <1>6, <1>18
  <2>3. \A i \in (k + 1)..Len(r) : p(k) < p(i)
    <3> TAKE i \in (k + 1)..Len(r)
    <3>1. i \in 1..(L + 1) /\ i > k
      BY <1>6, <1>10
    <3> QED
      BY <1>6, <1>17, <3>1
  <2> QED
    BY <1>9, <2>1, <2>2, <2>3 DEF Puts, p
<1> QED
  BY <1>10, <1>21, <1>22 DEF L

\* dequeue_pridata takes the first datum and keeps the others.
LEMMA DequeueCells ==
  ASSUME NEW N \in Nat, NEW c, NEW U, NEW F, CellsWith(c, N, U, F), Len(c.used) > 0,
         NEW e, e = DequeuePridata(c)
  PROVE  /\ \E V, G : CellsWith(e, N, V, G)
         /\ e.used = Tail(c.used) /\ Len(e.used) = Len(c.used) - 1 /\ c.used # << >>
         /\ \A x \in Range(e.used) : e.mb[x] = c.mb[x] /\ x \in 0..(N - 1)
<1> DEFINE S == 0..(N - 1)
           q == c.used
           h == Head(q)
           V == U \ {h}
           G == F \union {h}
           r == Tail(q)
<1>1. /\ c \in CellBlock(N) /\ q \in Seq(S) /\ IsQueue(q, U) /\ Sorted(q, c.mb)
      /\ c.mb \in [S -> Datum \union {NoData}] /\ c.free \in Seq(S) /\ IsQueue(c.free, F)
      /\ U \intersect F = {} /\ U \union F = 0..(c.unused - 1)
  BY DEF CellsWith, CellBlock
<1>2. /\ e = [used |-> r, free |-> <<h>> \o c.free, unused |-> c.unused,
              mb |-> [c.mb EXCEPT ![h] = NoData]]
  BY <1>1 DEF DequeuePridata, CellBlock
<1>3. q # << >> /\ Len(q) \in Nat
  BY <1>1
<1> HIDE DEF q, S
<1>4. /\ r \in Seq(S) /\ Len(r) = Len(q) - 1 /\ \A i \in 1..(Len(q) - 1) : r[i] = q[i + 1]
  BY <1>1, <1>3, TailFacts
<1>5. IsInjective(q) /\ U = Range(q) /\ U \in SUBSET S
  BY <1>1, CellQueue
<1>6. r \in Seq(S) /\ IsInjective(r) /\ h \in U /\ Range(r) = V
  BY <1>1, <1>3, <1>5, FirstGone
<1>7. IsQueue(r, V)
  BY <1>6 DEF IsQueue, IsInjective, Range
<1>8. h \in S /\ h \notin F
  BY <1>1, <1>5, <1>6
<1>9. IsQueue(<<h>> \o c.free, G)
  BY <1>1, <1>8, PrependQueue
<1>10. <<h>> \o c.free \in Seq(S)
  BY <1>1, <1>8
<1>11. V \intersect G = {} /\ V \union G = 0..(c.unused - 1)
  BY <1>1, <1>6
<1>12. \A x \in V : e.mb[x] = c.mb[x] /\ x \in S
  BY <1>1, <1>2, <1>5
<1> HIDE DEF r
<1>13. Sorted(r, e.mb)
  <2>1. \A i \in 1..Len(r) : i + 1 \in 1..Len(q) /\ r[i] = q[i + 1] /\ r[i] \in V
    BY <1>3, <1>4, <1>6 DEF Range
  <2>2. \A i \in 1..Len(r) : e.mb[r[i]] = c.mb[q[i + 1]]
    BY <1>12, <2>1
  <2>3. ASSUME NEW i \in 1..Len(r) PROVE e.mb[r[i]] \in Datum
    BY <1>1, <2>1, <2>2 DEF Sorted
  <2>4. ASSUME NEW i \in 1..Len(r), NEW j \in 1..Len(r), i <= j
        PROVE  e.mb[r[i]].datapri <= e.mb[r[j]].datapri
    <3> DEFINE a == i + 1
               b == j + 1
    <3>1. a \in 1..Len(q) /\ b \in 1..Len(q) /\ a <= b
      BY <2>1, <2>4
    <3>2. e.mb[r[i]] = c.mb[q[a]] /\ e.mb[r[j]] = c.mb[q[b]]
      BY <2>2
    <3> HIDE DEF a, b
    <3>3. c.mb[q[a]].datapri <= c.mb[q[b]].datapri
      BY <1>1, <3>1 DEF Sorted
    <3> QED
      BY <3>2, <3>3
  <2> QED
    BY <2>3, <2>4 DEF Sorted
<1>14. e \in CellBlock(N)
  <2>1. e.mb = [c.mb EXCEPT ![h] = NoData]
    BY <1>2
  <2>2. e.mb \in [S -> Datum \union {NoData}]
    BY <1>1, <2>1
  <2> QED
    BY <1>1, <1>2, <1>4, <1>10, <2>2 DEF CellBlock, S
<1>15. CellsWith(e, N, V, G)
  BY <1>2, <1>7, <1>9, <1>11, <1>13, <1>14 DEF CellsWith
<1>16. e.used = r
  BY <1>2
<1> QED
  BY <1>3, <1>4, <1>6, <1>12, <1>15, <1>16 DEF q, r, S

\* A priority data queue that is created or initialised holds nothing.
LEMMA EmptyCells ==
  ASSUME NEW d \in Pdq, PdqCnt[d] \in Nat
  PROVE  IsCells(EmptyPdq(d), PdqCnt[d]) /\ Len(EmptyPdq(d).used) = 0
<1> DEFINE c == EmptyPdq(d)
           N == PdqCnt[d]
<1>1. c \in CellBlock(N)
  BY DEF EmptyPdq, CellBlock, Cells
<1>2. c.used = << >> /\ c.free = << >> /\ c.unused = 0
  BY DEF EmptyPdq
<1> HIDE DEF c
<1>3. IsQueue(c.used, {}) /\ IsQueue(c.free, {}) /\ 0..(c.unused - 1) = {}
  BY <1>2 DEF IsQueue
<1>4. Sorted(c.used, c.mb)
  BY <1>2 DEF Sorted
<1> QED
  BY <1>1, <1>2, <1>3, <1>4 DEF IsCells, CellsWith, c

-----------------------------------------------------------------------------
(* Priority data queues.                                                      *)

\* The cells of d are in its lists; only if none holds a datum do receivers wait,
\* and only if every cell does senders.
CellsFit(d) ==
  /\ IsCells(pdqcb[d], PdqCnt[d])
  /\ ReceiverWaits(d) => Len(pdqcb[d].used) = 0 /\ ~SenderWaits(d)
  /\ SenderWaits(d) => Len(pdqcb[d].used) = PdqCnt[d]

PdqTyped == pdqcb = [d \in Pdq |-> pdqcb[d]] /\ sdata = [t \in Task |-> sdata[t]]

\* The inductive invariant: that of the kernel, the cells, and the data of the
\* tasks that wait to send.
PdqInv ==
  /\ WaitInv /\ PdqTyped
  /\ \A d \in Pdq : CellsFit(d) /\ \A t \in WaitersOf(K, SQ(d)) : sdata[t] \in Datum

\* What the invariant says of types.
LEMMA PdqTypes ==
  ASSUME PdqInv
  PROVE  /\ WaitInv /\ wque \in [WObj -> Seq(Task)] /\ WaitsExact(K)
         /\ pdqcb = [d \in Pdq |-> pdqcb[d]] /\ sdata = [t \in Task |-> sdata[t]]
         /\ \A d \in Pdq : SQ(d) \in WObj /\ RQ(d) \in WObj /\ PdqCnt[d] \in Nat
BY QueueTypes, PriDataqAssumption DEF PdqInv, PdqTyped

\* A step in which no task starts to wait to send.
LEMMA PdqStepOK ==
  ASSUME PdqInv, WaitInv', SendersKept \/ sdata' = sdata,
         pdqcb' = [d \in Pdq |-> pdqcb'[d]],
         \A d \in Pdq : WaitersOf(K', SQ(d)) \subseteq WaitersOf(K, SQ(d)),
         \A d \in Pdq : \/ pdqcb'[d] = pdqcb[d] /\ (wque[RQ(d)] = << >> => wque'[RQ(d)] = << >>)
                        \/ CellsFit(d)'
  PROVE  PdqInv'
<1>1. PdqTyped'
  BY PdqTypes DEF PdqTyped, SendersKept
<1>2. ASSUME NEW d \in Pdq, NEW t \in WaitersOf(K', SQ(d)) PROVE sdata'[t] \in Datum
  BY <1>2, WaiterDatum DEF PdqInv
<1>3. ASSUME NEW d \in Pdq PROVE CellsFit(d)'
  <2>1. /\ WaitsExact(K) /\ WaitsExact(K') /\ K.wque = wque /\ K'.wque = wque'
        /\ SQ(d) \in WObj /\ wque \in [WObj -> Seq(Task)] /\ wque' \in [WObj -> Seq(Task)]
    BY PdqTypes, QueueTypes, QueueTypesNext
  <2>2. wque[SQ(d)] = << >> => wque'[SQ(d)] = << >>
    <3>1. /\ IsQueue(wque[SQ(d)], WaitersOf(K, SQ(d)))
          /\ IsQueue(wque'[SQ(d)], WaitersOf(K', SQ(d)))
      BY <2>1 DEF WaitsExact
    <3> DEFINE q == wque[SQ(d)]
               r == wque'[SQ(d)]
    <3>2. q \in Seq(Task) /\ r \in Seq(Task)
      BY <2>1
    <3> HIDE DEF q, r
    <3>3. (q = << >> <=> WaitersOf(K, SQ(d)) = {}) /\ (r = << >> <=> WaitersOf(K', SQ(d)) = {})
      BY <3>1, <3>2, EmptyQueue DEF q, r
    <3> QED
      BY <3>3 DEF q, r
  <2>3. CASE CellsFit(d)'
    BY <2>3
  <2>4. CASE pdqcb'[d] = pdqcb[d] /\ (wque[RQ(d)] = << >> => wque'[RQ(d)] = << >>)
    BY <2>2, <2>4 DEF PdqInv, CellsFit, ReceiverWaits, SenderWaits
  <2> QED
    BY <1>3, <2>3, <2>4
<1>4. \A d \in Pdq : \A t \in WaitersOf(K', SQ(d)) : sdata'[t] \in Datum
  BY <1>2
<1> QED
  BY <1>1, <1>3, <1>4 DEF PdqInv

\* A step of the cells alone: d gets the cells c, and no queue changes.
PdqStores(d, c) == wque' = wque /\ pdqcb' = [pdqcb EXCEPT ![d] = c]

\* The first sender of d is released, and d gets the cells c.
PdqLetsIn(d, c) ==
  /\ SenderWaits(d) /\ wque' = [wque EXCEPT ![SQ(d)] = Tail(@)]
  /\ pdqcb' = [pdqcb EXCEPT ![d] = c]

\* The first receiver of d is released.
PdqHandsOver(d) ==
  /\ ReceiverWaits(d) /\ wque' = [wque EXCEPT ![RQ(d)] = Tail(@)]
  /\ pdqcb' = pdqcb

\* The invariant after a datum is stored or taken with nobody let in.
LEMMA PdqStoresOK ==
  ASSUME PdqInv, WaitInv', SendersKept \/ sdata' = sdata, NEW d \in Pdq, NEW c,
         IsCells(c, PdqCnt[d]), PdqStores(d, c),
         ReceiverWaits(d) => Len(c.used) = 0 /\ ~SenderWaits(d),
         SenderWaits(d) => Len(c.used) = PdqCnt[d]
  PROVE  PdqInv'
<1>1. pdqcb' = [e \in Pdq |-> IF e = d THEN c ELSE pdqcb[e]]
  BY PdqTypes DEF PdqStores
<1>2. \A w \in WObj : WaitersOf(K', w) \subseteq WaitersOf(K, w)
  BY FewerWait, PdqTypes DEF PdqStores
<1>3. CellsFit(d)'
  BY <1>1 DEF CellsFit, ReceiverWaits, SenderWaits, PdqStores
<1>4. \A e \in Pdq : e # d => pdqcb'[e] = pdqcb[e]
  BY <1>1
<1>5. pdqcb' = [e \in Pdq |-> pdqcb'[e]] /\ \A e \in Pdq : SQ(e) \in WObj
  BY <1>1, PdqTypes
<1> QED
  BY <1>2, <1>3, <1>4, <1>5, PdqStepOK DEF PdqStores

\* The invariant after the first waiting sender is let in.
LEMMA PdqLetsInOK ==
  ASSUME PdqInv, WaitInv', SendersKept, NEW d \in Pdq, NEW c,
         IsCells(c, PdqCnt[d]), PdqLetsIn(d, c), Len(c.used) = PdqCnt[d]
  PROVE  PdqInv'
<1> DEFINE q == wque[SQ(d)]
<1>1. /\ pdqcb' = [e \in Pdq |-> IF e = d THEN c ELSE pdqcb[e]]
      /\ wque \in [WObj -> Seq(Task)] /\ SQ(d) \in WObj /\ RQ(d) \in WObj
  BY PdqTypes DEF PdqLetsIn
<1>2. q \in Seq(Task) /\ q # << >> /\ wque'[SQ(d)] = Tail(q)
      /\ \A w \in WObj : w # SQ(d) => wque'[w] = wque[w]
  BY <1>1 DEF PdqLetsIn, SenderWaits
<1>3. \A w \in WObj : Range(wque'[w]) \subseteq Range(wque[w])
  <2> HIDE DEF q
  <2>1. Range(Tail(q)) \subseteq Range(q)
    BY <1>2, TailWaits
  <2> QED
    BY <1>2, <2>1 DEF q
<1>4. \A w \in WObj : WaitersOf(K', w) \subseteq WaitersOf(K, w)
  BY <1>3, FewerWait, PdqTypes
<1>5. \A e \in Pdq : wque'[RQ(e)] = wque[RQ(e)]
  BY <1>2, PdqTypes, QueueNames
<1>6. CellsFit(d)'
  <2>1. ~ReceiverWaits(d)
    BY DEF PdqInv, CellsFit, PdqLetsIn
  <2> QED
    BY <1>1, <1>5, <2>1 DEF CellsFit, ReceiverWaits, SenderWaits
<1>7. \A e \in Pdq : e # d => pdqcb'[e] = pdqcb[e]
  BY <1>1
<1>8. pdqcb' = [e \in Pdq |-> pdqcb'[e]] /\ \A e \in Pdq : SQ(e) \in WObj
  BY <1>1, PdqTypes
<1> QED
  BY <1>4, <1>5, <1>6, <1>7, <1>8, PdqStepOK

\* The invariant after a datum goes straight to a receiver.
LEMMA PdqHandsOverOK ==
  ASSUME PdqInv, WaitInv', SendersKept, NEW d \in Pdq, PdqHandsOver(d)
  PROVE  PdqInv'
<1> DEFINE q == wque[RQ(d)]
<1>1. wque \in [WObj -> Seq(Task)] /\ RQ(d) \in WObj
  BY PdqTypes
<1>2. /\ q # << >> /\ \A w \in WObj : w # RQ(d) => wque'[w] = wque[w]
  BY <1>1 DEF PdqHandsOver, ReceiverWaits
<1>3. \A e \in Pdq : wque'[SQ(e)] = wque[SQ(e)]
  BY <1>2, PdqTypes, QueueNames
<1>4. \A e \in Pdq : WaitersOf(K', SQ(e)) \subseteq WaitersOf(K, SQ(e))
  BY <1>3, FewerWait, PdqTypes
<1>5. ASSUME NEW e \in Pdq PROVE wque[RQ(e)] = << >> => wque'[RQ(e)] = << >>
  BY <1>2, PdqTypes, QueueNames
<1>6. pdqcb' = pdqcb /\ pdqcb' = [e \in Pdq |-> pdqcb'[e]]
  BY PdqTypes DEF PdqHandsOver
<1> QED
  BY <1>4, <1>5, <1>6, PdqStepOK

\* The running task starts to wait to send v to d.
PdqStartsToSend(d, v) ==
  /\ ~ReceiverWaits(d) /\ ~PdqHasRoom(d) /\ pdqcb' = pdqcb
  /\ runtsk \in Task /\ JoinsQueue(K, K', runtsk, SQ(d))
  /\ sdata' = [sdata EXCEPT ![runtsk] = v]

\* It starts to wait to receive.
PdqStartsToReceive(d) ==
  /\ Len(pdqcb[d].used) = 0 /\ ~SenderWaits(d) /\ pdqcb' = pdqcb
  /\ \A w \in WObj \ {RQ(d)} : wque'[w] = wque[w]

\* d is initialised.
PdqEmpties(d) ==
  /\ wque'[SQ(d)] = << >> /\ wque'[RQ(d)] = << >>
  /\ \A w \in WObj \ {SQ(d), RQ(d)} : wque'[w] = wque[w]
  /\ pdqcb' = [pdqcb EXCEPT ![d] = EmptyPdq(d)]

\* Every cell holds a datum when there is no room.
LEMMA FullCells ==
  ASSUME PdqInv, NEW d \in Pdq
  PROVE  /\ ~PdqHasRoom(d) => Len(pdqcb[d].used) = PdqCnt[d]
         /\ Len(pdqcb[d].used) \in 0..PdqCnt[d]
<1> DEFINE c == pdqcb[d]
           N == PdqCnt[d]
<1>1. N \in Nat /\ IsCells(c, N)
  BY PdqTypes DEF PdqInv, CellsFit
<1> HIDE DEF c, N
<1>2. Len(c.used) \in 0..N
  BY <1>1, CellCounts DEF IsCells
<1> QED
  BY <1>1, <1>2 DEF c, N, PdqHasRoom, Count

\* The invariant after a task starts to wait to send.
LEMMA PdqStartsToSendOK ==
  ASSUME PdqInv, WaitInv', NEW d \in Pdq, NEW v \in Datum, PdqStartsToSend(d, v)
  PROVE  PdqInv'
<1> DEFINE t == runtsk
<1>1. /\ wque \in [WObj -> Seq(Task)] /\ SQ(d) \in WObj /\ K.wque = wque /\ K'.wque = wque'
      /\ K.tcb = tcb /\ K'.tcb = tcb' /\ t \in Task /\ sdata = [x \in Task |-> sdata[x]]
      /\ sdata' = [sdata EXCEPT ![t] = v]
  BY PdqTypes, QueueTypes DEF PdqStartsToSend
<1>2. /\ ~InQueue(tcb[t]) /\ InQueue(tcb'[t]) /\ tcb'[t].wobj = SQ(d)
      /\ \A x \in Task \ {t} : SameWait(tcb[x], tcb'[x])
      /\ wque' = [wque EXCEPT ![SQ(d)] = WObjInsert(@, SQ(d), t, tcb)]
  BY <1>1 DEF PdqStartsToSend, JoinsQueue, OthersWait
<1> HIDE DEF t
<1>3. \A w \in WObj : w # SQ(d) => wque'[w] = wque[w]
  BY <1>1, <1>2
<1>4. \A e \in Pdq : wque'[RQ(e)] = wque[RQ(e)]
  BY <1>3, PdqTypes, QueueNames
<1>5. \A e \in Pdq \ {d} : wque'[SQ(e)] = wque[SQ(e)]
  BY <1>3, PdqTypes, QueueNames
<1>6. pdqcb' = pdqcb /\ Len(pdqcb[d].used) = PdqCnt[d] /\ ~ReceiverWaits(d)
  BY FullCells DEF PdqStartsToSend
<1>7. ASSUME NEW e \in Pdq PROVE CellsFit(e)'
  <2>1. CASE e = d
    BY <1>4, <1>6, <2>1 DEF PdqInv, CellsFit, ReceiverWaits, SenderWaits
  <2>2. CASE e # d
    BY <1>4, <1>5, <1>6, <2>2 DEF PdqInv, CellsFit, ReceiverWaits, SenderWaits
  <2> QED
    BY <2>1, <2>2
<1>8. ASSUME NEW e \in Pdq, NEW x \in WaitersOf(K', SQ(e)) PROVE sdata'[x] \in Datum
  <2>1. x \in Task /\ InQueue(tcb'[x]) /\ tcb'[x].wobj = SQ(e)
    BY <1>1 DEF WaitersOf
  <2>2. CASE x = t
    BY <1>1, <2>2
  <2>3. CASE x # t
    <3>1. x \in WaitersOf(K, SQ(e))
      BY <1>1, <1>2, <2>1, <2>3 DEF WaitersOf, SameWait
    <3> QED
      BY <1>1, <2>1, <2>3, <3>1 DEF PdqInv
  <2> QED
    BY <2>2, <2>3
<1>9. PdqTyped'
  BY <1>1, <1>6, PdqTypes DEF PdqTyped
<1> QED
  BY <1>7, <1>8, <1>9 DEF PdqInv

\* The invariant after a task starts to wait to receive.
LEMMA PdqStartsToReceiveOK ==
  ASSUME PdqInv, WaitInv', SendersKept, NEW d \in Pdq, PdqStartsToReceive(d)
  PROVE  PdqInv'
<1>1. /\ RQ(d) \in WObj /\ pdqcb' = pdqcb /\ \A w \in WObj : w # RQ(d) => wque'[w] = wque[w]
  BY PdqTypes DEF PdqStartsToReceive
<1>2. \A e \in Pdq : wque'[SQ(e)] = wque[SQ(e)]
  BY <1>1, PdqTypes, QueueNames
<1>3. \A e \in Pdq \ {d} : wque'[RQ(e)] = wque[RQ(e)]
  BY <1>1, PdqTypes, QueueNames
<1>4. \A e \in Pdq : WaitersOf(K', SQ(e)) \subseteq WaitersOf(K, SQ(e))
  BY <1>2, FewerWait, PdqTypes
<1>5. CellsFit(d)'
  BY <1>1, <1>2 DEF PdqInv, CellsFit, ReceiverWaits, SenderWaits, PdqStartsToReceive
<1>6. pdqcb' = [e \in Pdq |-> pdqcb'[e]]
  BY <1>1, PdqTypes
<1> QED
  BY <1>1, <1>3, <1>4, <1>5, <1>6, PdqStepOK

\* The invariant after ini_pdq.
LEMMA PdqEmptiesOK ==
  ASSUME PdqInv, WaitInv', SendersKept, NEW d \in Pdq, PdqEmpties(d)
  PROVE  PdqInv'
<1> DEFINE c == EmptyPdq(d)
<1>1. /\ pdqcb' = [e \in Pdq |-> IF e = d THEN c ELSE pdqcb[e]]
      /\ RQ(d) \in WObj /\ SQ(d) \in WObj /\ wque'[SQ(d)] = << >> /\ wque'[RQ(d)] = << >>
      /\ \A w \in WObj : w # RQ(d) /\ w # SQ(d) => wque'[w] = wque[w]
  BY PdqTypes DEF PdqEmpties
<1>2. IsCells(c, PdqCnt[d])
  BY EmptyCells, PdqTypes
<1> HIDE DEF c
<1>3. \A e \in Pdq \ {d} : wque'[SQ(e)] = wque[SQ(e)] /\ wque'[RQ(e)] = wque[RQ(e)]
  BY <1>1, PdqTypes, QueueNames
<1>4. \A e \in Pdq : Range(wque'[SQ(e)]) \subseteq Range(wque[SQ(e)])
  BY <1>1, <1>3 DEF Range
<1>5. \A e \in Pdq : WaitersOf(K', SQ(e)) \subseteq WaitersOf(K, SQ(e))
  BY <1>4, FewerWait, PdqTypes
<1>6. CellsFit(d)'
  BY <1>1, <1>2 DEF CellsFit, ReceiverWaits, SenderWaits
<1>7. pdqcb' = [e \in Pdq |-> pdqcb'[e]] /\ \A e \in Pdq : e # d => pdqcb'[e] = pdqcb[e]
  BY <1>1
<1> QED
  BY <1>3, <1>5, <1>6, <1>7, PdqStepOK

\* Of a call of the core.
LEMMA CorePdqOK ==
  ASSUME PdqInv, [Next]_vars, SendersKept \/ sdata' = sdata, pdqcb' = pdqcb
  PROVE  PdqInv'
<1>1. /\ WaitInv' /\ \A w \in WObj : WaitersOf(K', w) \subseteq WaitersOf(K, w)
      /\ SameLengths \/ \E w \in WObj : OneLess(w)
  BY CoreWaits, PdqTypes
<1>2. /\ wque \in [WObj -> Seq(Task)] /\ wque' \in [WObj -> Seq(Task)]
      /\ WaitsExact(K) /\ WaitsExact(K') /\ K.wque = wque /\ K'.wque = wque'
  BY <1>1, PdqTypes, QueueTypes, QueueTypesNext
<1>3. ASSUME NEW w \in WObj, wque[w] = << >> PROVE wque'[w] = << >>
  <2>1. /\ IsQueue(wque[w], WaitersOf(K, w)) /\ IsQueue(wque'[w], WaitersOf(K', w))
    BY <1>2 DEF WaitsExact
  <2>2. WaitersOf(K, w) = {}
    BY <1>2, <1>3, <2>1, EmptyQueue
  <2>3. WaitersOf(K', w) = {}
    BY <1>1, <2>2
  <2> QED
    BY <1>2, <2>1, <2>3, EmptyQueue
<1>4. pdqcb' = [d \in Pdq |-> pdqcb'[d]]
  BY PdqTypes
<1> QED
  BY <1>1, <1>3, <1>4, PdqStepOK, PdqTypes

\* The calls of priority data queues: what each of them does to queues and cells.
PdqMove ==
  \/ wque' = wque /\ pdqcb' = pdqcb
  \/ \E d \in Pdq : PdqHandsOver(d)
  \/ \E d \in Pdq, v \in Datum :
       /\ ~ReceiverWaits(d) /\ PdqHasRoom(d)
       /\ PdqStores(d, EnqueuePridata(pdqcb[d], v))
  \/ \E d \in Pdq :
       \/ /\ Len(pdqcb[d].used) > 0 /\ ~SenderWaits(d)
          /\ PdqStores(d, DequeuePridata(pdqcb[d]))
       \/ /\ Len(pdqcb[d].used) > 0
          /\ PdqLetsIn(d, EnqueuePridata(DequeuePridata(pdqcb[d]),
                                         sdata[Head(wque[SQ(d)])]))
       \/ Len(pdqcb[d].used) = 0 /\ PdqLetsIn(d, pdqcb[d])
       \/ PdqStartsToReceive(d)
       \/ PdqEmpties(d)

\* The first task that waits to send, and what it sends.
LEMMA FirstPdqSender ==
  ASSUME PdqInv, NEW d \in Pdq, SenderWaits(d)
  PROVE  Head(wque[SQ(d)]) \in Task /\ sdata[Head(wque[SQ(d)])] \in Datum
<1> DEFINE q == wque[SQ(d)]
<1>1. /\ q \in Seq(Task) /\ q # << >> /\ IsQueue(q, WaitersOf(K, SQ(d)))
  BY PdqTypes, QueueTypes DEF SenderWaits, WaitsExact
<1> HIDE DEF q
<1>2. Head(q) \in WaitersOf(K, SQ(d)) /\ Head(q) \in Task
  BY <1>1, HeadInQueue
<1> QED
  BY <1>2 DEF q, PdqInv

\* The cells of a call that sends, receives, or does both for a waiting sender.
LEMMA SentCells ==
  ASSUME PdqInv, NEW d \in Pdq, NEW v \in Datum, PdqHasRoom(d),
         NEW c, c = EnqueuePridata(pdqcb[d], v)
  PROVE  /\ IsCells(c, PdqCnt[d]) /\ Puts(pdqcb[d].used, pdqcb[d].mb, c)
         /\ ~SenderWaits(d)
<1> DEFINE b == pdqcb[d]
           N == PdqCnt[d]
<1>1. N \in Nat /\ Len(b.used) < N /\ IsCells(b, N)
  BY PdqTypes DEF PdqHasRoom, Count, PdqInv, CellsFit
<1>2. PICK U, F : CellsWith(b, N, U, F)
  BY <1>1 DEF IsCells
<1>3. c = EnqueuePridata(b, v)
  OBVIOUS
<1>4. ~SenderWaits(d)
  BY <1>1 DEF PdqInv, CellsFit
<1> HIDE DEF b, N
<1>5. IsCells(c, N) /\ Puts(b.used, b.mb, c)
  BY <1>1, <1>2, <1>3, EnqueueCells
<1> QED
  BY <1>4, <1>5 DEF b, N

\* The cells after the first datum is taken.
LEMMA ReceivedCells ==
  ASSUME PdqInv, NEW d \in Pdq, Len(pdqcb[d].used) > 0,
         NEW c, c = DequeuePridata(pdqcb[d])
  PROVE  /\ \E V, G : CellsWith(c, PdqCnt[d], V, G)
         /\ c.used = Tail(pdqcb[d].used) /\ Len(c.used) = Len(pdqcb[d].used) - 1
         /\ pdqcb[d].used # << >> /\ ~ReceiverWaits(d)
         /\ \A x \in Range(c.used) : c.mb[x] = pdqcb[d].mb[x] /\ x \in Cells(d)
<1> DEFINE b == pdqcb[d]
           N == PdqCnt[d]
<1>1. N \in Nat /\ Len(b.used) > 0 /\ IsCells(b, N)
  BY PdqTypes DEF PdqInv, CellsFit
<1>2. PICK U, F : CellsWith(b, N, U, F)
  BY <1>1 DEF IsCells
<1>3. c = DequeuePridata(b)
  OBVIOUS
<1>4. ~ReceiverWaits(d)
  BY <1>1 DEF PdqInv, CellsFit
<1>5. Cells(d) = 0..(N - 1)
  BY DEF Cells
<1> HIDE DEF b, N
<1>6. /\ \E V, G : CellsWith(c, N, V, G)
      /\ c.used = Tail(b.used) /\ Len(c.used) = Len(b.used) - 1 /\ b.used # << >>
      /\ \A x \in Range(c.used) : c.mb[x] = b.mb[x] /\ x \in 0..(N - 1)
  BY <1>1, <1>2, <1>3, DequeueCells
<1> QED
  BY <1>4, <1>5, <1>6 DEF b, N

\* The cells after the first datum is taken and a sender let in for it.
LEMMA LetInCells ==
  ASSUME PdqInv, NEW d \in Pdq, Len(pdqcb[d].used) > 0, SenderWaits(d),
         NEW c, c = DequeuePridata(pdqcb[d]),
         NEW e, e = EnqueuePridata(c, sdata[Head(wque[SQ(d)])])
  PROVE  /\ IsCells(e, PdqCnt[d]) /\ Len(e.used) = PdqCnt[d]
         /\ Puts(c.used, c.mb, e)
<1> DEFINE v == sdata[Head(wque[SQ(d)])]
           N == PdqCnt[d]
<1>1. v \in Datum
  BY FirstPdqSender
<1>2. N \in Nat /\ Len(pdqcb[d].used) = N
  BY PdqTypes DEF PdqInv, CellsFit
<1>3. /\ \E V, G : CellsWith(c, N, V, G)
      /\ Len(c.used) = N - 1
  BY <1>2, ReceivedCells
<1>4. e = EnqueuePridata(c, v) /\ Len(c.used) < N
  BY <1>2, <1>3
<1> HIDE DEF v, N
<1>5. IsCells(e, N) /\ Len(e.used) = Len(c.used) + 1 /\ Puts(c.used, c.mb, e)
  BY <1>1, <1>2, <1>3, <1>4, EnqueueCells
<1> QED
  BY <1>2, <1>3, <1>5 DEF N

\* Every such step preserves the invariant.
LEMMA PdqMoveOK ==
  ASSUME PdqInv, WaitInv', SendersKept, PdqMove
  PROVE  PdqInv'
<1>1. CASE wque' = wque /\ pdqcb' = pdqcb
  <2>1. \A w \in WObj : WaitersOf(K', w) \subseteq WaitersOf(K, w)
    BY <1>1, FewerWait, PdqTypes
  <2>2. pdqcb' = [d \in Pdq |-> pdqcb'[d]]
    BY <1>1, PdqTypes
  <2> QED
    BY <1>1, <2>1, <2>2, PdqStepOK, PdqTypes
<1>2. ASSUME NEW d \in Pdq, PdqHandsOver(d) PROVE PdqInv'
  BY <1>2, PdqHandsOverOK
<1>3. ASSUME NEW d \in Pdq, NEW v \in Datum, ~ReceiverWaits(d), PdqHasRoom(d),
             PdqStores(d, EnqueuePridata(pdqcb[d], v))
      PROVE  PdqInv'
  <2> DEFINE c == EnqueuePridata(pdqcb[d], v)
  <2>1. PdqStores(d, c) /\ c = EnqueuePridata(pdqcb[d], v)
    BY <1>3
  <2> HIDE DEF c
  <2>2. IsCells(c, PdqCnt[d]) /\ ~SenderWaits(d)
    BY <1>3, <2>1, SentCells
  <2> QED
    BY <1>3, <2>1, <2>2, PdqStoresOK
<1>4. ASSUME NEW d \in Pdq, Len(pdqcb[d].used) > 0, ~SenderWaits(d),
             PdqStores(d, DequeuePridata(pdqcb[d]))
      PROVE  PdqInv'
  <2> DEFINE c == DequeuePridata(pdqcb[d])
  <2>1. PdqStores(d, c) /\ c = DequeuePridata(pdqcb[d])
    BY <1>4
  <2> HIDE DEF c
  <2>2. IsCells(c, PdqCnt[d]) /\ ~ReceiverWaits(d)
    BY <1>4, <2>1, ReceivedCells DEF IsCells
  <2> QED
    BY <1>4, <2>1, <2>2, PdqStoresOK
<1>5. ASSUME NEW d \in Pdq, Len(pdqcb[d].used) > 0,
             PdqLetsIn(d, EnqueuePridata(DequeuePridata(pdqcb[d]), sdata[Head(wque[SQ(d)])]))
      PROVE  PdqInv'
  <2> DEFINE c == DequeuePridata(pdqcb[d])
             e == EnqueuePridata(c, sdata[Head(wque[SQ(d)])])
  <2>1. PdqLetsIn(d, e) /\ SenderWaits(d)
    BY <1>5 DEF PdqLetsIn
  <2>2. IsCells(e, PdqCnt[d]) /\ Len(e.used) = PdqCnt[d]
    BY <1>5, <2>1, LetInCells
  <2> HIDE DEF e
  <2> QED
    BY <2>1, <2>2, PdqLetsInOK
<1>6. ASSUME NEW d \in Pdq, PdqLetsIn(d, pdqcb[d]) PROVE PdqInv'
  <2>1. Len(pdqcb[d].used) = PdqCnt[d] /\ IsCells(pdqcb[d], PdqCnt[d])
    BY <1>6 DEF PdqLetsIn, PdqInv, CellsFit
  <2> QED
    BY <1>6, <2>1, PdqLetsInOK
<1>7. ASSUME NEW d \in Pdq, PdqStartsToReceive(d) \/ PdqEmpties(d) PROVE PdqInv'
  BY <1>7, PdqStartsToReceiveOK, PdqEmptiesOK
<1> QED
  BY <1>1, <1>2, <1>3, <1>4, <1>5, <1>6, <1>7 DEF PdqMove

\* The calls.
LEMMA SendPridataOK ==
  ASSUME PdqInv, NEW d \in Pdq, NEW v \in Datum, SendPridata(d, v)
  PROVE  WaitInv' /\ PdqMove
<1>1. CASE ReceiverWaits(d) /\ Return(ReleaseFirst(RQ(d))) /\ UNCHANGED pdqcb
  <2>1. /\ RQ(d) \in WObj /\ wque[RQ(d)] # << >>
        /\ Return(WaitComplete([K EXCEPT !.wque[RQ(d)] = Tail(@)], Head(wque[RQ(d)])))
    BY <1>1, PdqTypes DEF ReceiverWaits, ReleaseFirst
  <2>2. WaitInv' /\ wque' = [wque EXCEPT ![RQ(d)] = Tail(@)]
    BY <2>1, FirstLeaves DEF PdqInv
  <2>3. PdqHandsOver(d)
    BY <1>1, <2>2 DEF PdqHandsOver
  <2> QED
    BY <2>2, <2>3 DEF PdqMove
<1>2. CASE /\ ~ReceiverWaits(d) /\ PdqHasRoom(d)
           /\ pdqcb' = [pdqcb EXCEPT ![d] = EnqueuePridata(@, v)]
           /\ UNCHANGED vars
  <2>1. WaitInv' /\ wque' = wque
    BY <1>2, CoreUnchanged DEF PdqInv
  <2>2. PdqStores(d, EnqueuePridata(pdqcb[d], v))
    BY <1>2, <2>1 DEF PdqStores
  <2> QED
    BY <1>2, <2>1, <2>2 DEF PdqMove
<1> QED
  BY <1>1, <1>2 DEF SendPridata

\* receive_pridata is one of the moves.
LEMMA ReceivePridataOK ==
  ASSUME PdqInv, NEW d \in Pdq, ReceivePridata(d)
  PROVE  WaitInv' /\ PdqMove
<1> DEFINE c == DequeuePridata(pdqcb[d])
           e == EnqueuePridata(c, sdata[Head(wque[SQ(d)])])
<1>1. pdqcb = [x \in Pdq |-> pdqcb[x]] /\ SQ(d) \in WObj
  BY PdqTypes
<1>2. ASSUME SenderWaits(d), Return(ReleaseFirst(SQ(d)))
      PROVE  WaitInv' /\ wque' = [wque EXCEPT ![SQ(d)] = Tail(@)]
  BY <1>1, <1>2, FirstLeaves DEF PdqInv, SenderWaits, ReleaseFirst
<1>3. CASE /\ Count(pdqcb[d]) > 0 /\ SenderWaits(d)
           /\ pdqcb' = [pdqcb EXCEPT ![d] = e] /\ Return(ReleaseFirst(SQ(d)))
  <2>1. WaitInv' /\ PdqLetsIn(d, e)
    BY <1>2, <1>3 DEF PdqLetsIn
  <2> QED
    BY <1>3, <2>1 DEF PdqMove, Count
<1>4. CASE /\ Count(pdqcb[d]) > 0 /\ ~SenderWaits(d)
           /\ pdqcb' = [pdqcb EXCEPT ![d] = c] /\ UNCHANGED vars
  <2>1. WaitInv' /\ wque' = wque
    BY <1>4, CoreUnchanged DEF PdqInv
  <2>2. PdqStores(d, c)
    BY <1>4, <2>1 DEF PdqStores
  <2> QED
    BY <1>4, <2>1, <2>2 DEF PdqMove, Count
<1>5. CASE /\ Count(pdqcb[d]) = 0 /\ SenderWaits(d)
           /\ Return(ReleaseFirst(SQ(d))) /\ UNCHANGED pdqcb
  <2>1. pdqcb' = [pdqcb EXCEPT ![d] = pdqcb[d]]
    BY <1>1, <1>5
  <2>2. WaitInv' /\ PdqLetsIn(d, pdqcb[d])
    BY <1>2, <1>5, <2>1 DEF PdqLetsIn
  <2> QED
    BY <1>5, <2>2 DEF PdqMove, Count
<1> QED
  BY <1>3, <1>4, <1>5 DEF ReceivePridata

\* Every call of a priority data queue.
LEMMA PdqCallOK ==
  ASSUME PdqInv, NEW d \in Pdq, PdqCall(d)
  PROVE  /\ WaitInv'
         /\ \/ PdqMove /\ SendersKept
            \/ \E v \in Datum : PdqStartsToSend(d, v)
<1>1. ASSUME NEW v \in Datum, psnd_pdq(d, v) PROVE WaitInv' /\ PdqMove /\ SendersKept
  BY <1>1, SendPridataOK DEF psnd_pdq
<1>2. ASSUME NEW v \in Datum, NEW timed \in BOOLEAN, snd_pdq(d, v, timed)
      PROVE  /\ WaitInv'
             /\ (PdqMove /\ SendersKept) \/ PdqStartsToSend(d, v)
  <2>1. CASE SendPridata(d, v) /\ SendersKept
    BY <2>1, SendPridataOK
  <2>2. CASE /\ ~ReceiverWaits(d) /\ ~PdqHasRoom(d)
             /\ sdata' = [sdata EXCEPT ![runtsk] = v]
             /\ Return(WObjMakeWait(K, SQ(d), timed))
             /\ UNCHANGED pdqcb
    <3>1. WaitInv /\ CheckDispatch /\ ~tcb[runtsk].raster /\ SQ(d) \in WObj
      BY <1>2, PdqTypes DEF snd_pdq
    <3>2. WaitInv' /\ runtsk \in Task /\ JoinsQueue(K, K', runtsk, SQ(d))
      BY <2>2, <3>1, RunningJoins
    <3> QED
      BY <2>2, <3>2 DEF PdqStartsToSend
  <2> QED
    BY <1>2, <2>1, <2>2 DEF snd_pdq
<1>3. ASSUME NEW timed \in BOOLEAN, rcv_pdq(d, timed) PROVE WaitInv' /\ PdqMove /\ SendersKept
  <2>0. WaitInv /\ CheckDispatch /\ ~tcb[runtsk].raster /\ RQ(d) \in WObj
    BY <1>3, PdqTypes DEF rcv_pdq, CheckDispatch
  <2>1. CASE ReceivePridata(d)
    BY <1>3, <2>1, ReceivePridataOK DEF rcv_pdq
  <2>2. CASE /\ Count(pdqcb[d]) = 0 /\ ~SenderWaits(d)
             /\ Return(WObjMakeWait(K, RQ(d), timed))
             /\ UNCHANGED pdqcb
    <3>1. WaitInv' /\ \A w \in WObj \ {RQ(d)} : wque'[w] = wque[w]
      BY <2>0, <2>2, RunningJoins
    <3>2. PdqStartsToReceive(d)
      BY <2>2, <3>1 DEF PdqStartsToReceive, Count
    <3> QED
      BY <1>3, <2>2, <3>1, <3>2 DEF PdqMove, rcv_pdq
  <2> QED
    BY <1>3, <2>1, <2>2 DEF rcv_pdq
<1>4. ASSUME prcv_pdq(d) PROVE WaitInv' /\ PdqMove /\ SendersKept
  BY <1>4, ReceivePridataOK DEF prcv_pdq
<1>5. ASSUME ini_pdq(d) PROVE WaitInv' /\ PdqMove /\ SendersKept
  <2>1. SQ(d) \in WObj /\ RQ(d) \in WObj
    BY PdqTypes
  <2>2. /\ WaitInv' /\ wque'[SQ(d)] = << >> /\ wque'[RQ(d)] = << >>
        /\ \A w \in WObj \ {SQ(d), RQ(d)} : wque'[w] = wque[w]
    BY <1>5, <2>1, BothLeave DEF ini_pdq, PdqInv
  <2>3. PdqEmpties(d)
    BY <1>5, <2>2 DEF ini_pdq, PdqEmpties
  <2> QED
    BY <1>5, <2>2, <2>3 DEF ini_pdq, PdqMove
<1> QED
  BY <1>1, <1>2, <1>3, <1>4, <1>5 DEF PdqCall

\* The invariant holds initially.
LEMMA PdqInitOK == PdqInit => PdqInv
<1> SUFFICES ASSUME PdqInit PROVE PdqInv
  OBVIOUS
<1>1. WaitInv /\ \A w \in WObj : wque[w] = << >>
  BY InitWaitInv DEF PdqInit
<1>2. pdqcb = [d \in Pdq |-> EmptyPdq(d)] /\ sdata = [t \in Task |-> NoData]
  BY DEF PdqInit, SRInit, NothingData
<1>3. PdqTyped
  BY <1>2 DEF PdqTyped
<1>4. ASSUME NEW d \in Pdq PROVE CellsFit(d)
  <2>1. PdqCnt[d] \in Nat /\ SQ(d) \in WObj /\ RQ(d) \in WObj
    BY PriDataqAssumption
  <2>2. IsCells(pdqcb[d], PdqCnt[d]) /\ Len(pdqcb[d].used) = 0
    BY <1>2, <2>1, EmptyCells
  <2> QED
    BY <1>1, <2>1, <2>2 DEF CellsFit, ReceiverWaits, SenderWaits
<1>5. ASSUME NEW d \in Pdq, NEW t \in WaitersOf(K, SQ(d)) PROVE sdata[t] \in Datum
  <2>1. /\ WaitsExact(K) /\ K.wque = wque /\ SQ(d) \in WObj
    BY <1>1, QueueTypes, PriDataqAssumption
  <2>2. IsQueue(<< >>, WaitersOf(K, SQ(d)))
    BY <1>1, <2>1 DEF WaitsExact
  <2> QED
    BY <1>5, <2>2 DEF IsQueue
<1> QED
  BY <1>1, <1>3, <1>4, <1>5 DEF PdqInv

\* Every step preserves the invariant.
LEMMA PdqNextOK == PdqInv /\ [PdqNext]_qvars => PdqInv'
<1> SUFFICES ASSUME PdqInv, [PdqNext]_qvars PROVE PdqInv'
  OBVIOUS
<1>1. CASE Next /\ PdqKept
  BY <1>1, CorePdqOK DEF PdqKept
<1>2. ASSUME NEW d \in Pdq, PdqCall(d) PROVE PdqInv'
  <2>1. CASE PdqMove /\ SendersKept
    BY <1>2, <2>1, PdqCallOK, PdqMoveOK
  <2>2. ASSUME NEW v \in Datum, PdqStartsToSend(d, v) PROVE PdqInv'
    BY <1>2, <2>2, PdqCallOK, PdqStartsToSendOK
  <2> QED
    BY <1>2, <2>1, <2>2, PdqCallOK
<1>3. CASE UNCHANGED qvars
  BY <1>3, CorePdqOK DEF qvars, srvars, vars
<1> QED
  BY <1>1, <1>2, <1>3 DEF PdqNext

\* The invariant holds in every reachable state.
LEMMA PdqInvariantHolds == PdqSpec => []PdqInv
BY PdqInitOK, PdqNextOK, PTL DEF PdqSpec

\* What the invariant says of those who wait at a priority data queue.
LEMMA PdqInvJustifies == PdqInv => PdqWaitsAreJustified
<1> SUFFICES ASSUME PdqInv, NEW d \in Pdq
             PROVE  /\ ReceiverWaits(d) => Count(pdqcb[d]) = 0 /\ ~SenderWaits(d)
                    /\ SenderWaits(d) => ~PdqHasRoom(d)
  BY DEF PdqWaitsAreJustified
<1> QED
  BY PdqTypes DEF PdqInv, CellsFit, PdqHasRoom, Count

\* No time-out, termination or ini_pdq leaves a receiver waiting while
\* there is a datum or a sender, or a sender while there is room.
THEOREM PdqWaitsJustified == PdqSpec => []PdqWaitsAreJustified
BY PdqInvJustifies, PdqInvariantHolds, PTL

\* The elements of a sequence that consists of two.
LEMMA RangeOfJoin ==
  ASSUME NEW S, NEW q \in Seq(S), NEW f \in Seq(S), NEW a \in Seq(S),
         Len(a) = Len(q) + Len(f),
         \A i \in 1..(Len(q) + Len(f)) : a[i] = IF i <= Len(q) THEN q[i] ELSE f[i - Len(q)]
  PROVE  Range(a) = Range(q) \union Range(f)
<1>1. /\ DOMAIN a = 1..(Len(q) + Len(f)) /\ DOMAIN q = 1..Len(q) /\ DOMAIN f = 1..Len(f)
      /\ Len(q) \in Nat /\ Len(f) \in Nat
  OBVIOUS
<1>2. Range(a) \subseteq Range(q) \union Range(f)
  <2> SUFFICES ASSUME NEW i \in DOMAIN a PROVE a[i] \in Range(q) \union Range(f)
    BY DEF Range
  <2>1. CASE i <= Len(q)
    <3>1. i \in DOMAIN q /\ a[i] = q[i]
      BY <1>1, <2>1
    <3> QED
      BY <3>1 DEF Range
  <2>2. CASE ~(i <= Len(q))
    <3>1. i - Len(q) \in DOMAIN f /\ a[i] = f[i - Len(q)]
      BY <1>1, <2>2
    <3> QED
      BY <3>1 DEF Range
  <2> QED
    BY <2>1, <2>2
<1>3. Range(q) \subseteq Range(a)
  <2> SUFFICES ASSUME NEW i \in DOMAIN q PROVE q[i] \in Range(a)
    BY DEF Range
  <2>1. i \in DOMAIN a /\ a[i] = q[i]
    BY <1>1
  <2> QED
    BY <2>1 DEF Range
<1>4. Range(f) \subseteq Range(a)
  <2> SUFFICES ASSUME NEW i \in DOMAIN f PROVE f[i] \in Range(a)
    BY DEF Range
  <2> DEFINE j == i + Len(q)
  <2>1. j \in 1..(Len(q) + Len(f)) /\ ~(j <= Len(q)) /\ j - Len(q) = i
    BY <1>1
  <2> HIDE DEF j
  <2>2. j \in DOMAIN a /\ a[j] = f[i]
    BY <1>1, <2>1
  <2> QED
    BY <2>2 DEF Range
<1> QED
  BY <1>2, <1>3, <1>4

\* The cells of a queue are in one of its two lists, once, or have never been used.
LEMMA CellsOnce ==
  ASSUME NEW N \in Nat, NEW c, IsCells(c, N), NEW all, all = c.used \o c.free
  PROVE  c.unused \in 0..N /\ Len(all) = c.unused /\ Range(all) = 0..(c.unused - 1)
<1> DEFINE S == 0..(N - 1)
           q == c.used
           f == c.free
<1>1. PICK U, F : CellsWith(c, N, U, F)
  BY DEF IsCells
<1>2. /\ q \in Seq(S) /\ f \in Seq(S) /\ IsQueue(q, U) /\ IsQueue(f, F)
      /\ U \union F = 0..(c.unused - 1) /\ Len(q) + Len(f) = c.unused /\ c.unused \in 0..N
  BY <1>1, CellCounts DEF CellsWith, CellBlock
<1>3. all = q \o f
  OBVIOUS
<1> HIDE DEF S, q, f
<1>4. U = Range(q) /\ F = Range(f)
  BY <1>2, CellQueue
<1>5. Len(all) = Len(q) + Len(f) /\ Range(all) = U \union F
  <2>1. /\ all \in Seq(S) /\ Len(all) = Len(q) + Len(f)
        /\ \A i \in 1..(Len(q) + Len(f)) : all[i] = IF i <= Len(q) THEN q[i] ELSE f[i - Len(q)]
    BY <1>2, <1>3, JoinFacts
  <2> QED
    BY ONLY <1>2, <1>4, <2>1, RangeOfJoin
<1> QED
  BY ONLY <1>2, <1>5

\* What DataInOrder says of a step from the cells b to the cells c: with the data of
\* `kept' in their order, and at most one more.
OrderOf(b, c, kept) ==
  /\ \A i \in Range(kept) : c.mb[i] = b.mb[i]
  /\ \/ c.used = kept
     \/ \E k \in DOMAIN c.used :
          /\ RemoveAt(c.used, k) = kept
          /\ \A i \in 1..(k - 1) : c.mb[c.used[i]].datapri <= c.mb[c.used[k]].datapri
          /\ \A i \in (k + 1)..Len(c.used) :
               c.mb[c.used[k]].datapri < c.mb[c.used[i]].datapri

KeepsOrder(b, c) ==
  \/ c.used = << >>
  \/ \E gone \in {0, 1} : /\ gone <= Len(b.used)
                         /\ OrderOf(b, c, SubSeq(b.used, gone + 1, Len(b.used)))

\* Taking nothing keeps the whole list, taking the first its tail.
LEMMA KeptParts ==
  ASSUME NEW S, NEW q \in Seq(S)
  PROVE  /\ SubSeq(q, 0 + 1, Len(q)) = q /\ 0 <= Len(q)
         /\ q # << >> => SubSeq(q, 1 + 1, Len(q)) = Tail(q) /\ 1 <= Len(q)
<1> DEFINE n == Len(q)
           w == SubSeq(q, 1, n)
<1>1. n \in Nat
  OBVIOUS
<1>2. w \in Seq(S) /\ Len(w) = n /\ \A i \in 1..n : w[i] = q[i]
  BY <1>1
<1> HIDE DEF w
<1>3. w = q
  BY ONLY <1>1, <1>2, n = Len(q), q \in Seq(S), SameElements
<1>4. q # << >> => SubSeq(q, 2, n) = Tail(q) /\ 1 <= n
  BY <1>1, TailIsSubSeq
<1> QED
  BY <1>1, <1>3, <1>4 DEF w

\* Steps that keep the order: of the whole list, or of its tail.
LEMMA KeepsWhole ==
  ASSUME NEW S, NEW b, NEW c, b.used \in Seq(S), OrderOf(b, c, b.used)
  PROVE  KeepsOrder(b, c)
BY KeptParts DEF KeepsOrder

\* The order is kept if that of all data but the first is.
LEMMA KeepsTail ==
  ASSUME NEW S, NEW b, NEW c, b.used \in Seq(S), b.used # << >>,
         NEW w, w = Tail(b.used), OrderOf(b, c, w)
  PROVE  KeepsOrder(b, c)
BY KeptParts DEF KeepsOrder

\* Cells that do not change keep their order.
LEMMA KeepsSame ==
  ASSUME NEW S, NEW b, NEW c, b.used \in Seq(S), c = b
  PROVE  KeepsOrder(b, c)
<1>1. OrderOf(b, c, b.used)
  BY DEF OrderOf
<1> QED
  BY <1>1, KeepsWhole

\* A datum that is put in keeps the order of the others.
LEMMA KeepsPut ==
  ASSUME NEW S, NEW b, NEW c, b.used \in Seq(S), Puts(b.used, b.mb, c)
  PROVE  KeepsOrder(b, c)
<1>1. OrderOf(b, c, b.used)
  BY DEF OrderOf, Puts
<1> QED
  BY <1>1, KeepsWhole

\* Taking the first datum keeps the order of the others.
LEMMA KeepsTaken ==
  ASSUME NEW S, NEW b, NEW c, b.used \in Seq(S), b.used # << >>,
         NEW w, w = Tail(b.used), c.used = w, \A x \in Range(w) : c.mb[x] = b.mb[x]
  PROVE  KeepsOrder(b, c)
<1>1. OrderOf(b, c, w)
  BY DEF OrderOf
<1> QED
  BY <1>1, KeepsTail

\* So does taking the first one and putting another in.
LEMMA KeepsTakenAndPut ==
  ASSUME NEW S, NEW b, NEW c, NEW e, b.used \in Seq(S), b.used # << >>,
         NEW w, w = Tail(b.used), c.used = w, \A x \in Range(w) : c.mb[x] = b.mb[x],
         Puts(w, c.mb, e)
  PROVE  KeepsOrder(b, e)
<1>1. OrderOf(b, e, w)
  BY DEF OrderOf, Puts
<1> QED
  BY <1>1, KeepsTail

\* Cells that hold no datum have no order to keep.
LEMMA KeepsNone ==
  ASSUME NEW b, NEW c, c.used = << >>
  PROVE  KeepsOrder(b, c)
BY DEF KeepsOrder

\* Of the other queues, and of this one if nothing moves.
LEMMA KeepsOthers ==
  ASSUME PdqInv, NEW d \in Pdq, NEW c, pdqcb' = [pdqcb EXCEPT ![d] = c],
         KeepsOrder(pdqcb[d], c)
  PROVE  \A e \in Pdq : KeepsOrder(pdqcb[e], pdqcb'[e])
<1> SUFFICES ASSUME NEW e \in Pdq PROVE KeepsOrder(pdqcb[e], pdqcb'[e])
  OBVIOUS
<1>1. pdqcb' = [x \in Pdq |-> IF x = d THEN c ELSE pdqcb[x]]
  BY PdqTypes
<1>2. CASE e = d
  BY <1>1, <1>2
<1>3. CASE e # d
  <2>1. pdqcb'[e] = pdqcb[e] /\ pdqcb[e].used \in Seq(0..(PdqCnt[e] - 1))
    BY <1>1, <1>3 DEF PdqInv, CellsFit, IsCells, CellsWith, CellBlock
  <2> QED
    BY <2>1, KeepsSame
<1> QED
  BY <1>2, <1>3

\* A step that changes no cell keeps every order.
LEMMA KeepsAll ==
  ASSUME PdqInv, pdqcb' = pdqcb
  PROVE  \A e \in Pdq : KeepsOrder(pdqcb[e], pdqcb'[e])
<1>1. \A e \in Pdq : pdqcb[e].used \in Seq(0..(PdqCnt[e] - 1)) /\ pdqcb'[e] = pdqcb[e]
  BY DEF PdqInv, CellsFit, IsCells, CellsWith, CellBlock
<1> QED
  BY <1>1, KeepsSame

\* Every step of a call keeps the order.
LEMMA PdqMoveKeeps ==
  ASSUME PdqInv, PdqMove
  PROVE  \A e \in Pdq : KeepsOrder(pdqcb[e], pdqcb'[e])
<1>0. \A d \in Pdq : pdqcb[d].used \in Seq(0..(PdqCnt[d] - 1))
  BY DEF PdqInv, CellsFit, IsCells, CellsWith, CellBlock
<1>1. ASSUME NEW d \in Pdq, NEW c, pdqcb' = [pdqcb EXCEPT ![d] = c],
             KeepsOrder(pdqcb[d], c)
      PROVE  \A e \in Pdq : KeepsOrder(pdqcb[e], pdqcb'[e])
  BY <1>1, KeepsOthers
<1>2. CASE pdqcb' = pdqcb
  BY <1>2, KeepsAll
<1>3. ASSUME NEW d \in Pdq, NEW v \in Datum, PdqHasRoom(d),
             PdqStores(d, EnqueuePridata(pdqcb[d], v))
      PROVE  \A e \in Pdq : KeepsOrder(pdqcb[e], pdqcb'[e])
  <2> DEFINE c == EnqueuePridata(pdqcb[d], v)
  <2>1. pdqcb' = [pdqcb EXCEPT ![d] = c] /\ c = EnqueuePridata(pdqcb[d], v)
    BY <1>3 DEF PdqStores
  <2> HIDE DEF c
  <2>2. Puts(pdqcb[d].used, pdqcb[d].mb, c)
    BY <1>3, <2>1, SentCells
  <2>3. KeepsOrder(pdqcb[d], c)
    BY <1>0, <2>2, KeepsPut
  <2> QED
    BY <1>1, <2>1, <2>3
<1>4. ASSUME NEW d \in Pdq, Len(pdqcb[d].used) > 0, PdqStores(d, DequeuePridata(pdqcb[d]))
      PROVE  \A e \in Pdq : KeepsOrder(pdqcb[e], pdqcb'[e])
  <2> DEFINE c == DequeuePridata(pdqcb[d])
  <2>1. pdqcb' = [pdqcb EXCEPT ![d] = c] /\ c = DequeuePridata(pdqcb[d])
    BY <1>4 DEF PdqStores
  <2> HIDE DEF c
  <2>2. /\ c.used = Tail(pdqcb[d].used) /\ pdqcb[d].used # << >>
        /\ \A x \in Range(c.used) : c.mb[x] = pdqcb[d].mb[x]
    BY <1>4, <2>1, ReceivedCells
  <2>3. KeepsOrder(pdqcb[d], c)
    <3> DEFINE b == pdqcb[d]
               w == Tail(b.used)
               S == 0..(PdqCnt[d] - 1)
    <3>1. /\ b.used \in Seq(S) /\ b.used # << >> /\ w = Tail(b.used) /\ c.used = w
          /\ \A x \in Range(w) : c.mb[x] = b.mb[x]
      BY <1>0, <2>2
    <3> HIDE DEF b, w, S
    <3>2. KeepsOrder(b, c)
      BY ONLY <3>1, KeepsTaken
    <3> QED
      BY <3>2 DEF b
  <2> QED
    BY <1>1, <2>1, <2>3
<1>5. ASSUME NEW d \in Pdq, Len(pdqcb[d].used) > 0,
             PdqLetsIn(d, EnqueuePridata(DequeuePridata(pdqcb[d]), sdata[Head(wque[SQ(d)])]))
      PROVE  \A e \in Pdq : KeepsOrder(pdqcb[e], pdqcb'[e])
  <2> DEFINE c == DequeuePridata(pdqcb[d])
             x == EnqueuePridata(c, sdata[Head(wque[SQ(d)])])
  <2>1. /\ pdqcb' = [pdqcb EXCEPT ![d] = x] /\ SenderWaits(d)
        /\ c = DequeuePridata(pdqcb[d])
        /\ x = EnqueuePridata(c, sdata[Head(wque[SQ(d)])])
    BY <1>5 DEF PdqLetsIn
  <2> HIDE DEF c, x
  <2>2. /\ c.used = Tail(pdqcb[d].used) /\ pdqcb[d].used # << >>
        /\ \A y \in Range(c.used) : c.mb[y] = pdqcb[d].mb[y]
    BY <1>5, <2>1, ReceivedCells
  <2>3. Puts(c.used, c.mb, x)
    BY <1>5, <2>1, LetInCells
  <2>4. KeepsOrder(pdqcb[d], x)
    <3> DEFINE b == pdqcb[d]
               w == Tail(b.used)
               S == 0..(PdqCnt[d] - 1)
    <3>1. /\ b.used \in Seq(S) /\ b.used # << >> /\ w = Tail(b.used) /\ c.used = w
          /\ (\A y \in Range(w) : c.mb[y] = b.mb[y]) /\ Puts(w, c.mb, x)
      BY <1>0, <2>2, <2>3
    <3> HIDE DEF b, w, S
    <3>2. KeepsOrder(b, x)
      BY ONLY <3>1, KeepsTakenAndPut
    <3> QED
      BY <3>2 DEF b
  <2> QED
    BY <1>1, <2>1, <2>4
<1>6. ASSUME NEW d \in Pdq, PdqLetsIn(d, pdqcb[d])
      PROVE  \A e \in Pdq : KeepsOrder(pdqcb[e], pdqcb'[e])
  <2>1. pdqcb' = pdqcb
    BY <1>6, PdqTypes DEF PdqLetsIn
  <2> QED
    BY <2>1, KeepsAll
<1>7. ASSUME NEW d \in Pdq, PdqEmpties(d)
      PROVE  \A e \in Pdq : KeepsOrder(pdqcb[e], pdqcb'[e])
  <2> DEFINE c == EmptyPdq(d)
  <2>1. pdqcb' = [pdqcb EXCEPT ![d] = c] /\ c.used = << >>
    BY <1>7 DEF PdqEmpties, EmptyPdq
  <2> HIDE DEF c
  <2>2. KeepsOrder(pdqcb[d], c)
    BY <2>1, KeepsNone
  <2> QED
    BY <1>1, <2>1, <2>2
<1> QED
  BY <1>2, <1>3, <1>4, <1>5, <1>6, <1>7 DEF PdqMove, PdqHandsOver, PdqStartsToReceive

\* Every step keeps the order of every priority data queue.
LEMMA PdqStepKeeps ==
  ASSUME PdqInv, [PdqNext]_qvars
  PROVE  \A e \in Pdq : KeepsOrder(pdqcb[e], pdqcb'[e])
<1>1. CASE pdqcb' = pdqcb
  BY <1>1, KeepsAll
<1>2. ASSUME NEW d \in Pdq, PdqCall(d)
      PROVE  \A e \in Pdq : KeepsOrder(pdqcb[e], pdqcb'[e])
  <2>1. CASE PdqMove
    BY <2>1, PdqMoveKeeps
  <2>2. ASSUME NEW v \in Datum, PdqStartsToSend(d, v) PROVE pdqcb' = pdqcb
    BY <2>2 DEF PdqStartsToSend
  <2> QED
    BY <1>1, <1>2, <2>1, <2>2, PdqCallOK
<1> QED
  BY <1>1, <1>2 DEF PdqNext, PdqKept, qvars

\* What the invariant says of the cells of a priority data queue.
LEMMA PdqInvPartitions == PdqInv => CellsPartitioned
<1> SUFFICES ASSUME PdqInv, NEW d \in Pdq
             PROVE  LET all == pdqcb[d].used \o pdqcb[d].free IN
                      /\ pdqcb[d].unused \in 0..PdqCnt[d]
                      /\ Len(all) = pdqcb[d].unused
                      /\ Range(all) = 0..(pdqcb[d].unused - 1)
  BY DEF CellsPartitioned
<1>1. PdqCnt[d] \in Nat /\ IsCells(pdqcb[d], PdqCnt[d])
  BY PdqTypes DEF PdqInv, CellsFit
<1> QED
  BY <1>1, CellsOnce

\* The free list never loses a cell and never holds one that is in use, however often
\* cells are given back and taken again, and by ini_pdq in between.
THEOREM CellsArePartitioned == PdqSpec => []CellsPartitioned
BY PdqInvPartitions, PdqInvariantHolds, PTL

\* Data leave by priority and among equals in the order in which they came, also when
\* the cell just given back is taken for the datum of a waiting sender.
THEOREM DataKeepTheirOrder == PdqSpec => DataInOrder
<1>1. PdqInv /\ [PdqNext]_qvars =>
        \A d \in Pdq :
          LET q == pdqcb[d].used
              r == pdqcb'[d].used
              pri(i) == pdqcb'[d].mb[r[i]].datapri
              sameData(i) == pdqcb'[d].mb[i] = pdqcb[d].mb[i]
          IN  r = << >> \/
              \E gone \in {0, 1} :
                LET kept == SubSeq(q, gone + 1, Len(q))
                IN  /\ gone <= Len(q)
                    /\ \A i \in Range(kept) : sameData(i)
                    /\ \/ r = kept
                       \/ \E k \in DOMAIN r :
                            /\ RemoveAt(r, k) = kept
                            /\ \A i \in 1..(k - 1) : pri(i) <= pri(k)
                            /\ \A i \in (k + 1)..Len(r) : pri(k) < pri(i)
  BY PdqStepKeeps DEF KeepsOrder, OrderOf
<1> QED
  BY <1>1, PdqInvariantHolds, PTL DEF PdqSpec, DataInOrder
===============================================================================
