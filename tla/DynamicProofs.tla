---------------------------- MODULE DynamicProofs ----------------------------
(***************************************************************************)
(* The free lists and the kernel memory pool of the dynamic creation       *)
(* extension, whatever the kinds of objects do with them, for any number   *)
(* of objects and any size of the pool; fixed-size memory pools, for any   *)
(* number of blocks and tasks; and what holds of semaphores, event flags,  *)
(* queues, pools, tasks and mutexes that are deleted and created again.    *)
(***************************************************************************)
EXTENDS DataQueueProofs, DcreSemaphore, DcreEventFlag, DcreDataQueue, DcrePriDataq,
        DcreMessageBuf, DcreMempfix, DcreTask, SequencesExt, FiniteSetTheorems,
        SequenceTheorems, TLAPS

\* The objects, in use or not, to which an area is on record.
Holders == {x \in DynId : area[x] # {}}

DynTyped ==
  /\ exist \subseteq DynId
  /\ free \in [Kind -> Seq(DynId)]
  /\ mpk \in [brk: Nat, count: Nat]
  /\ area \in [DynId -> SUBSET Nat]

\* A free list holds the reserved IDs that do not exist, each once.
ListsOK ==
  \A k \in Kind : IsInjective(free[k]) /\ Range(free[k]) = Range(Dyn[k]) \ exist

\* Areas are below the mark, and disjoint.
AreasOK ==
  /\ \A x \in DynId : area[x] \subseteq 0..(mpk.brk - 1)
  /\ \A x, y \in DynId : x # y => area[x] \intersect area[y] = {}

\* The count is large enough for it to reach zero only with the last area; it is
\* too large after del_pdq, which does not return the memory.
CountOK == IsFiniteSet(Holders) /\ Cardinality(Holders) <= mpk.count

\* The inductive invariant.
DynInv == DynTyped /\ ListsOK /\ AreasOK /\ CountOK

\* What the kinds do with their lists and the pool.
Delete(x) ==
  \E k \in Kind : Unregister(k, x) /\ (FreeArea(x) \/ UNCHANGED <<mpk, area>>)

DynStep ==
  \/ UNCHANGED dynvars
  \/ \E k \in Kind, n \in Nat : Create(k, n)
  \/ \E x \in DynId : Delete(x)

-----------------------------------------------------------------------------
(* The lists and the pool. *)

\* Nobody has an object or an area at first.
LEMMA DynInitOK == InitDyn => DynInv
<1> SUFFICES ASSUME InitDyn PROVE DynInv
  OBVIOUS
<1>1. /\ exist = {} /\ free = Dyn /\ mpk = [brk |-> 0, count |-> 0]
      /\ area = [x \in DynId |-> {}]
  BY DEF InitDyn
<1>2. \A k \in Kind : Dyn[k] \in Seq(DynId)
  <2> SUFFICES ASSUME NEW k \in Kind PROVE Dyn[k] \in Seq(DynId)
    OBVIOUS
  <2>1. Dyn[k] \in Seq(Range(Dyn[k])) /\ Range(Dyn[k]) \subseteq DynId
    BY DynAssumption DEF Kind, DynId
  <2> QED
    BY <2>1
<1>3. free \in [Kind -> Seq(DynId)]
  BY <1>1, <1>2, DynAssumption DEF Kind
<1>4. DynTyped
  BY <1>1, <1>3 DEF DynTyped
<1>5. ListsOK
  BY <1>1, DynAssumption DEF ListsOK, Kind
<1>6. AreasOK
  BY <1>1 DEF AreasOK
<1>7. CountOK
  <2>1. Holders = {}
    BY <1>1 DEF Holders
  <2> QED
    BY <1>1, <2>1, FS_EmptySet DEF CountOK
<1> QED
  BY <1>4, <1>5, <1>6, <1>7 DEF DynInv

\* The reserved IDs of a kind belong to no other.
LEMMA KindOfId ==
  ASSUME NEW k \in Kind, NEW l \in Kind, k # l, NEW x \in Range(Dyn[k])
  PROVE  x \in DynId /\ x \notin Range(Dyn[l])
  BY DynAssumption DEF Kind, DynId

\* An ID leaves its free list and comes into existence.
LEMMA CreateLists ==
  ASSUME DynTyped, ListsOK, NEW k \in Kind, NEW n \in Nat, Create(k, n)
  PROVE  /\ NewId(k) \in DynId /\ exist' \subseteq DynId
         /\ free' \in [Kind -> Seq(DynId)] /\ ListsOK'
<1> DEFINE x == NewId(k)
<1>1. /\ free \in [Kind -> Seq(DynId)] /\ exist \subseteq DynId
      /\ free[k] # << >> /\ exist' = exist \union {x} /\ free' = [free EXCEPT ![k] = Tail(@)]
  BY DEF DynTyped, Create
<1>2. /\ Tail(free[k]) \in Seq(DynId) /\ IsInjective(Tail(free[k])) /\ x \in Range(free[k])
      /\ Range(Tail(free[k])) = Range(free[k]) \ {x}
  BY <1>1, FirstGone DEF ListsOK, NewId
<1> HIDE DEF x
<1>3. x \in Range(Dyn[k]) /\ x \in DynId
  BY <1>2 DEF ListsOK, DynId
<1>4. free' \in [Kind -> Seq(DynId)] /\ exist' \subseteq DynId
  BY <1>1, <1>2, <1>3
<1>5. ASSUME NEW l \in Kind
      PROVE  IsInjective(free'[l]) /\ Range(free'[l]) = Range(Dyn[l]) \ exist'
  <2>1. CASE l = k
    BY <1>1, <1>2, <2>1 DEF ListsOK
  <2>2. CASE l # k
    <3>1. free'[l] = free[l] /\ x \notin Range(Dyn[l])
      BY <1>1, <1>3, <2>2, KindOfId
    <3> QED
      BY <1>1, <3>1 DEF ListsOK
  <2> QED
    BY <2>1, <2>2
<1> QED
  BY <1>3, <1>4, <1>5 DEF ListsOK, x

\* An ID goes out of existence and into its free list.
LEMMA DeleteLists ==
  ASSUME DynTyped, ListsOK, NEW k \in Kind, NEW x \in DynId, Unregister(k, x)
  PROVE  exist' \subseteq DynId /\ free' \in [Kind -> Seq(DynId)] /\ ListsOK'
<1>1. /\ free \in [Kind -> Seq(DynId)] /\ exist \subseteq DynId
      /\ x \in Range(Dyn[k]) /\ x \in exist
      /\ exist' = exist \ {x} /\ free' = [free EXCEPT ![k] = Append(@, x)]
  BY DEF DynTyped, Unregister
<1>2. /\ Append(free[k], x) \in Seq(DynId) /\ IsInjective(Append(free[k], x))
      /\ Range(Append(free[k], x)) = Range(free[k]) \union {x}
  BY <1>1, NewLast DEF ListsOK
<1>3. free' \in [Kind -> Seq(DynId)] /\ exist' \subseteq DynId
  BY <1>1, <1>2
<1>4. ASSUME NEW l \in Kind
      PROVE  IsInjective(free'[l]) /\ Range(free'[l]) = Range(Dyn[l]) \ exist'
  <2>1. CASE l = k
    BY <1>1, <1>2, <2>1 DEF ListsOK
  <2>2. CASE l # k
    <3>1. free'[l] = free[l] /\ x \notin Range(Dyn[l])
      BY <1>1, <2>2, KindOfId
    <3> QED
      BY <1>1, <3>1 DEF ListsOK
  <2> QED
    BY <2>1, <2>2
<1> QED
  BY <1>3, <1>4 DEF ListsOK

\* A new area lies above all the others.
LEMMA CreateAreas ==
  ASSUME DynTyped, AreasOK, CountOK, NEW k \in Kind, NEW n \in Nat, Create(k, n),
         NewId(k) \in DynId
  PROVE  /\ mpk' \in [brk: Nat, count: Nat] /\ area' \in [DynId -> SUBSET Nat]
         /\ AreasOK' /\ CountOK'
<1> DEFINE x == NewId(k)
           b == mpk.brk
           top == b + n
           new == b..(b + n - 1)
<1>1. /\ mpk \in [brk: Nat, count: Nat] /\ b \in Nat /\ mpk.count \in Nat
      /\ area \in [DynId -> SUBSET Nat] /\ x \in DynId
      /\ area' = [area EXCEPT ![x] = new]
      /\ mpk' = IF n > 0 THEN [brk |-> top, count |-> mpk.count + 1] ELSE mpk
  BY DEF DynTyped, Create, Malloc
<1>2. new = b..(top - 1) /\ new \in SUBSET Nat /\ (n = 0 => new = {}) /\ \A y \in 0..(b - 1) : y \notin new
  BY <1>1
<1>3. /\ mpk'.brk = top /\ mpk'.count = IF n > 0 THEN mpk.count + 1 ELSE mpk.count
      /\ mpk' \in [brk: Nat, count: Nat] /\ top \in Nat
  <2>1. top \in Nat /\ mpk.count + 1 \in Nat
    BY <1>1
  <2>2. CASE n > 0
    <3> HIDE DEF top
    <3> QED
      BY <1>1, <2>1, <2>2
  <2>3. CASE n = 0
    <3>1. top = b
      BY <1>1, <2>3
    <3> HIDE DEF top
    <3> QED
      BY <1>1, <2>1, <2>3, <3>1
  <2> QED
    BY <2>2, <2>3
<1>4. new \subseteq 0..(top - 1) /\ 0..(b - 1) \subseteq 0..(top - 1)
  BY <1>1
<1> HIDE DEF x, b, top, new
<1>5. area' \in [DynId -> SUBSET Nat] /\ area'[x] = new
      /\ \A y \in DynId \ {x} : area'[y] = area[y]
  BY <1>1, <1>2
<1>6. \A y \in DynId : area[y] \subseteq 0..(b - 1)
  BY DEF AreasOK, b
<1>7. AreasOK'
  <2>1. \A y \in DynId : area'[y] \subseteq 0..(top - 1)
    BY <1>4, <1>5, <1>6
  <2>2. \A y \in DynId \ {x} : area[y] \intersect new = {}
    BY <1>2, <1>6
  <2>3. ASSUME NEW y \in DynId, NEW z \in DynId, y # z PROVE area'[y] \intersect area'[z] = {}
    <3>1. CASE y # x /\ z # x
      BY <1>5, <2>3, <3>1 DEF AreasOK
    <3>2. CASE y = x
      BY <1>5, <2>2, <2>3, <3>2
    <3>3. CASE z = x
      BY <1>5, <2>2, <2>3, <3>3
    <3> QED
      BY <3>1, <3>2, <3>3
  <2>4. \A y \in DynId : area'[y] \subseteq 0..(mpk'.brk - 1)
    BY <1>3, <2>1
  <2> QED
    BY <2>3, <2>4 DEF AreasOK
<1>8. CountOK'
  <2>1. IsFiniteSet(Holders) /\ Cardinality(Holders) \in Nat /\ Cardinality(Holders) <= mpk.count
    BY FS_CardinalityType DEF CountOK
  <2>2. CASE n = 0
    <3>1. Holders' = Holders \ {x}
      BY <1>1, <1>2, <1>5, <2>2 DEF Holders
    <3>2. IsFiniteSet(Holders \ {x}) /\ Cardinality(Holders \ {x}) <= Cardinality(Holders)
      BY <2>1, FS_Subset
    <3>3. Cardinality(Holders \ {x}) \in Nat
      BY <3>2, FS_CardinalityType
    <3>4. mpk'.count = mpk.count /\ Cardinality(Holders \ {x}) <= mpk.count
      BY <1>1, <1>3, <2>1, <2>2, <3>2, <3>3
    <3>5. IsFiniteSet(Holders') /\ Cardinality(Holders') <= mpk'.count
      BY <3>1, <3>2, <3>4
    <3> QED
      BY <3>5 DEF CountOK
  <2>3. CASE n > 0
    <3>1. Holders' \subseteq Holders \union {x}
      BY <1>1, <1>5 DEF Holders
    <3>2. IsFiniteSet(Holders \union {x}) /\ Cardinality(Holders \union {x}) <= Cardinality(Holders) + 1
      <4>1. /\ IsFiniteSet(Holders \union {x})
            /\ Cardinality(Holders \union {x}) =
                 IF x \in Holders THEN Cardinality(Holders) ELSE Cardinality(Holders) + 1
        BY <2>1, FS_AddElement
      <4> QED
        BY <2>1, <4>1
    <3>3. IsFiniteSet(Holders') /\ Cardinality(Holders') <= Cardinality(Holders \union {x})
      BY <3>1, <3>2, FS_Subset
    <3>4. Cardinality(Holders') \in Nat /\ Cardinality(Holders \union {x}) \in Nat
      BY <3>2, <3>3, FS_CardinalityType
    <3> QED
      BY <1>1, <1>3, <2>1, <2>3, <3>2, <3>3, <3>4 DEF CountOK
  <2> QED
    BY <2>2, <2>3
<1> QED
  BY <1>3, <1>5, <1>7, <1>8

\* The pool starts afresh only when nobody has an area of it any more.
LEMMA FreeAreas ==
  ASSUME DynTyped, AreasOK, CountOK, NEW x \in DynId, FreeArea(x)
  PROVE  /\ mpk' \in [brk: Nat, count: Nat] /\ area' \in [DynId -> SUBSET Nat]
         /\ AreasOK' /\ CountOK'
<1>1. /\ mpk \in [brk: Nat, count: Nat] /\ mpk.brk \in Nat /\ mpk.count \in Nat
      /\ area \in [DynId -> SUBSET Nat] /\ area' = [area EXCEPT ![x] = {}]
      /\ mpk' = IF area[x] # {} THEN FreeMempool(mpk) ELSE mpk
  BY DEF DynTyped, FreeArea
<1>2. /\ area' \in [DynId -> SUBSET Nat] /\ area'[x] = {}
      /\ \A y \in DynId \ {x} : area'[y] = area[y]
  BY <1>1
<1>3. IsFiniteSet(Holders) /\ Cardinality(Holders) \in Nat /\ Cardinality(Holders) <= mpk.count
  BY FS_CardinalityType DEF CountOK
<1>4. Holders' = Holders \ {x}
  BY <1>2 DEF Holders
<1>5. \A y, z \in DynId : y # z => area'[y] \intersect area'[z] = {}
  BY <1>2 DEF AreasOK
<1>6. CASE area[x] = {}
  <2>1. area' = area /\ mpk' = mpk
    BY <1>1, <1>6
  <2> QED
    BY <1>1, <2>1 DEF AreasOK, CountOK, Holders
<1>7. CASE area[x] # {}
  <2>1. /\ IsFiniteSet(Holders') /\ Cardinality(Holders') = Cardinality(Holders) - 1
        /\ Cardinality(Holders') \in Nat
    <3>1. x \in Holders
      BY <1>7 DEF Holders
    <3> QED
      BY <1>3, <1>4, <3>1, FS_RemoveElement, FS_CardinalityType
  <2>2. /\ mpk'.count = mpk.count - 1 /\ mpk.count >= 1
        /\ mpk'.brk = IF mpk.count = 1 THEN 0 ELSE mpk.brk
        /\ mpk' \in [brk: Nat, count: Nat]
    <3>1. mpk' = [brk |-> IF mpk.count = 1 THEN 0 ELSE mpk.brk, count |-> mpk.count - 1]
      BY <1>1, <1>7 DEF FreeMempool
    <3>2. mpk.count >= 1 /\ mpk.count - 1 \in Nat
      BY <1>1, <1>3, <2>1
    <3> QED
      BY <1>1, <3>1, <3>2
  <2>3. CountOK'
    BY <1>1, <1>3, <2>1, <2>2 DEF CountOK
  <2>4. \A y \in DynId : area'[y] \subseteq 0..(mpk'.brk - 1)
    <3>1. CASE mpk.count = 1
      <4>1. Holders' = {}
        <5>1. Cardinality(Holders') = 0
          BY <1>1, <1>3, <2>1, <3>1
        <5> QED
          BY <2>1, <5>1, FS_EmptySet
      <4> QED
        BY <4>1 DEF Holders
    <3>2. CASE mpk.count # 1
      BY <1>2, <2>2, <3>2 DEF AreasOK
    <3> QED
      BY <3>1, <3>2
  <2> QED
    BY <1>2, <1>5, <2>2, <2>3, <2>4 DEF AreasOK
<1> QED
  BY <1>6, <1>7

\* Whatever is done to the lists and the pool, they stay exact.
LEMMA DynStepOK ==
  ASSUME DynInv, DynStep
  PROVE  DynInv'
<1>1. DynTyped /\ ListsOK /\ AreasOK /\ CountOK
  BY DEF DynInv
<1>2. CASE UNCHANGED dynvars
  BY <1>1, <1>2
  DEF DynInv, DynTyped, ListsOK, AreasOK, CountOK, Holders, dynvars
<1>3. ASSUME NEW k \in Kind, NEW n \in Nat, Create(k, n) PROVE DynInv'
  BY <1>1, <1>3, CreateLists, CreateAreas DEF DynInv, DynTyped
<1>4. ASSUME NEW x \in DynId, Delete(x) PROVE DynInv'
  <2>1. PICK k \in Kind : Unregister(k, x) /\ (FreeArea(x) \/ UNCHANGED <<mpk, area>>)
    BY <1>4 DEF Delete
  <2>2. exist' \subseteq DynId /\ free' \in [Kind -> Seq(DynId)] /\ ListsOK'
    BY <1>1, <2>1, DeleteLists
  <2>3. /\ mpk' \in [brk: Nat, count: Nat] /\ area' \in [DynId -> SUBSET Nat]
        /\ AreasOK' /\ CountOK'
    <3>1. CASE FreeArea(x)
      BY <1>1, <3>1, FreeAreas
    <3>2. CASE UNCHANGED <<mpk, area>>
      BY <1>1, <3>2 DEF DynTyped, AreasOK, CountOK, Holders
    <3> QED
      BY <2>1, <3>1, <3>2
  <2> QED
    BY <2>2, <2>3 DEF DynInv, DynTyped
<1> QED
  BY <1>2, <1>3, <1>4 DEF DynStep

\* What the invariant says of the properties.
LEMMA DynExactOK == DynInv => DynamicExact
<1> SUFFICES ASSUME DynInv PROVE DynamicExact
  OBVIOUS
<1>1. DynTyped /\ ListsOK /\ AreasOK
  BY DEF DynInv
<1>2. ASSUME NEW k \in Kind
      PROVE  Len(free[k]) = Cardinality(Range(free[k])) /\ Range(free[k]) = Range(Dyn[k]) \ exist
  BY <1>1, LengthOfInjective DEF DynTyped, ListsOK
<1>3. ASSUME NEW x \in exist
      PROVE  /\ area[x] \subseteq 0..(mpk.brk - 1)
             /\ \A y \in exist \ {x} : area[x] \intersect area[y] = {}
  BY <1>1, <1>3 DEF DynTyped, AreasOK
<1> QED
  BY <1>2, <1>3 DEF DynamicExact

\* A new object is one of those reserved for its kind.
LEMMA NewIdOK ==
  ASSUME DynInv, NEW k \in Kind, free[k] # << >>
  PROVE  NewId(k) \in Range(Dyn[k])
<1>1. free[k] \in Seq(DynId) /\ IsInjective(free[k]) /\ Range(free[k]) \subseteq Range(Dyn[k])
  BY DEF DynInv, DynTyped, ListsOK
<1>2. Head(free[k]) \in Range(free[k])
  BY <1>1, FirstGone
<1> QED
  BY <1>1, <1>2 DEF NewId

\* Deleting an object of any kind.
LEMMA DeleteIsStep ==
  ASSUME NEW k \in Kind, NEW x, Unregister(k, x), FreeArea(x) \/ UNCHANGED <<mpk, area>>
  PROVE  DynStep
<1>1. x \in DynId
  BY DEF Unregister, DynId
<1> QED
  BY <1>1 DEF DynStep, Delete

-----------------------------------------------------------------------------
(* The kinds. *)

\* Those of semaphores, which need no memory.
LEMMA DcreSemDynamic == DcreSemSpec => []DynInv
<1> DEFINE kind == "sem"
<1>1. kind \in Kind
  BY DcreSemAssumption DEF Kind
<1>2. [DcreSemNext]_<<svars, dynvars>> => DynStep
  <2> SUFFICES ASSUME [DcreSemNext]_<<svars, dynvars>> PROVE DynStep
    OBVIOUS
  <2>1. CASE UNCHANGED dynvars
    BY <2>1 DEF DynStep
  <2>2. CASE acre_sem
    <3>1. Create(kind, 0) /\ 0 \in Nat
      BY <2>2 DEF acre_sem
    <3> QED
      BY <1>1, <3>1 DEF DynStep
  <2>3. ASSUME NEW x \in Sem, del_sem(x) PROVE DynStep
    BY <1>1, <2>3, DeleteIsStep DEF del_sem
  <2> QED
    BY <2>1, <2>2, <2>3 DEF DcreSemNext, DcreSemCall, SemKept, dynvars
<1>3. DynInv /\ [DcreSemNext]_<<svars, dynvars>> => DynInv'
  BY <1>2, DynStepOK
<1>4. DcreSemInit => DynInv
  BY DynInitOK DEF DcreSemInit
<1> QED
  BY <1>3, <1>4, PTL DEF DcreSemSpec

\* Those of event flags, which need no memory.
LEMMA DcreFlgDynamic == DcreFlgSpec => []DynInv
<1> DEFINE kind == "flg"
<1>1. kind \in Kind
  BY DcreFlgAssumption DEF Kind
<1>2. [DcreFlgNext]_<<evars, dynvars>> => DynStep
  <2> SUFFICES ASSUME [DcreFlgNext]_<<evars, dynvars>> PROVE DynStep
    OBVIOUS
  <2>1. CASE UNCHANGED dynvars
    BY <2>1 DEF DynStep
  <2>2. CASE acre_flg
    <3>1. Create(kind, 0) /\ 0 \in Nat
      BY <2>2 DEF acre_flg
    <3> QED
      BY <1>1, <3>1 DEF DynStep
  <2>3. ASSUME NEW f \in Flg, del_flg(f) PROVE DynStep
    BY <1>1, <2>3, DeleteIsStep DEF del_flg
  <2> QED
    BY <2>1, <2>2, <2>3 DEF DcreFlgNext, DcreFlgCall, dynvars
<1>3. DynInv /\ [DcreFlgNext]_<<evars, dynvars>> => DynInv'
  BY <1>2, DynStepOK
<1>4. DcreFlgInit => DynInv
  BY DynInitOK DEF DcreFlgInit
<1> QED
  BY <1>3, <1>4, PTL DEF DcreFlgSpec

\* Those of data queues.
LEMMA DcreDtqDynamic == DcreDtqSpec => []DynInv
<1> DEFINE kind == "dtq"
<1>1. kind \in Kind
  BY DcreDtqAssumption DEF Kind
<1>2. ASSUME DynInv, [DcreDtqNext]_<<dvars, dynvars>> PROVE DynInv'
  <2>1. CASE UNCHANGED dynvars
    BY <1>2, <2>1, DynStepOK DEF DynStep
  <2>2. ASSUME NEW own \in BOOLEAN, acre_dtq(own) PROVE DynInv'
    <3> DEFINE n == IF own THEN 0 ELSE DtqCnt[NewId(kind)]
    <3>1. Create(kind, n) /\ NewId(kind) \in Range(Dyn[kind])
      BY <1>1, <1>2, <2>2, NewIdOK DEF acre_dtq
    <3>2. n \in Nat
      BY <3>1, DcreDtqAssumption, DataQueueAssumption
    <3> HIDE DEF n, kind
    <3> QED
      BY <1>1, <1>2, <3>1, <3>2, DynStepOK DEF DynStep
  <2>3. ASSUME NEW d \in Dtq, del_dtq(d) PROVE DynInv'
    BY <1>1, <1>2, <2>3, DeleteIsStep, DynStepOK DEF del_dtq
  <2> QED
    BY <1>2, <2>1, <2>2, <2>3 DEF DcreDtqNext, DcreDtqCall, dynvars
<1>3. DcreDtqInit => DynInv
  BY DynInitOK DEF DcreDtqInit
<1> QED
  BY <1>2, <1>3, PTL DEF DcreDtqSpec

\* Those of priority data queues.
LEMMA DcrePdqDynamic == DcrePdqSpec => []DynInv
<1> DEFINE kind == "pdq"
<1>1. kind \in Kind
  BY DcrePdqAssumption DEF Kind
<1>2. ASSUME DynInv, [DcrePdqNext]_<<qvars, dynvars>> PROVE DynInv'
  <2>1. CASE UNCHANGED dynvars
    BY <1>2, <2>1, DynStepOK DEF DynStep
  <2>2. ASSUME NEW own \in BOOLEAN, acre_pdq(own) PROVE DynInv'
    <3> DEFINE n == IF own THEN 0 ELSE PdqCnt[NewId(kind)]
    <3>1. Create(kind, n) /\ NewId(kind) \in Range(Dyn[kind])
      BY <1>1, <1>2, <2>2, NewIdOK DEF acre_pdq
    <3>2. n \in Nat
      BY <3>1, DcrePdqAssumption, PriDataqAssumption
    <3> HIDE DEF n, kind
    <3> QED
      BY <1>1, <1>2, <3>1, <3>2, DynStepOK DEF DynStep
  <2>3. ASSUME NEW d \in Pdq, del_pdq(d) PROVE DynInv'
    BY <1>1, <1>2, <2>3, DeleteIsStep, DynStepOK DEF del_pdq
  <2> QED
    BY <1>2, <2>1, <2>2, <2>3 DEF DcrePdqNext, DcrePdqCall, dynvars
<1>3. DcrePdqInit => DynInv
  BY DynInitOK DEF DcrePdqInit
<1> QED
  BY <1>2, <1>3, PTL DEF DcrePdqSpec

\* Those of message buffers.
LEMMA DcreMbfDynamic == DcreMbfSpec => []DynInv
<1> DEFINE kind == "mbf"
<1>1. kind \in Kind
  BY DcreMbfAssumption DEF Kind
<1>2. ASSUME DynInv, [DcreMbfNext]_<<bvars, dynvars>> PROVE DynInv'
  <2>1. CASE UNCHANGED dynvars
    BY <1>2, <2>1, DynStepOK DEF DynStep
  <2>2. ASSUME NEW own \in BOOLEAN, acre_mbf(own) PROVE DynInv'
    <3> DEFINE n == IF own THEN 0 ELSE MbfSz[NewId(kind)]
    <3>1. Create(kind, n) /\ NewId(kind) \in Range(Dyn[kind])
      BY <1>1, <1>2, <2>2, NewIdOK DEF acre_mbf
    <3>2. n \in Nat
      BY <3>1, DcreMbfAssumption, MessageBufAssumption
    <3> HIDE DEF n, kind
    <3> QED
      BY <1>1, <1>2, <3>1, <3>2, DynStepOK DEF DynStep
  <2>3. ASSUME NEW b \in Mbf, del_mbf(b) PROVE DynInv'
    BY <1>1, <1>2, <2>3, DeleteIsStep, DynStepOK DEF del_mbf
  <2> QED
    BY <1>2, <2>1, <2>2, <2>3 DEF DcreMbfNext, DcreMbfCall, dynvars
<1>3. DcreMbfInit => DynInv
  BY DynInitOK DEF DcreMbfInit
<1> QED
  BY <1>2, <1>3, PTL DEF DcreMbfSpec

\* Those of memory pools.
LEMMA DcreMpfDynamic == DcreMpfSpec => []DynInv
<1> DEFINE kind == "mpf"
<1>1. kind \in Kind
  BY DcreMpfAssumption DEF Kind
<1>2. ASSUME DynInv, [DcreMpfNext]_<<pvars, dynvars>> PROVE DynInv'
  <2>1. CASE UNCHANGED dynvars
    BY <1>2, <2>1, DynStepOK DEF DynStep
  <2>2. ASSUME NEW own \in BOOLEAN, acre_mpf(own) PROVE DynInv'
    <3> DEFINE n == IF own THEN 0 ELSE BlkCnt[NewId(kind)]
    <3>1. Create(kind, n) /\ NewId(kind) \in Range(Dyn[kind])
      BY <1>1, <1>2, <2>2, NewIdOK DEF acre_mpf
    <3>2. n \in Nat
      BY <3>1, DcreMpfAssumption, MempfixAssumption
    <3> HIDE DEF n, kind
    <3> QED
      BY <1>1, <1>2, <3>1, <3>2, DynStepOK DEF DynStep
  <2>3. ASSUME NEW p \in Mpf, del_mpf(p) PROVE DynInv'
    BY <1>1, <1>2, <2>3, DeleteIsStep, DynStepOK DEF del_mpf
  <2> QED
    BY <1>2, <2>1, <2>2, <2>3 DEF DcreMpfNext, DcreMpfCall, dynvars
<1>3. DcreMpfInit => DynInv
  BY DynInitOK DEF DcreMpfInit
<1> QED
  BY <1>2, <1>3, PTL DEF DcreMpfSpec

\* Those of tasks and mutexes.
LEMMA DtDynamic == DtSpec => []DynInv
<1>1. "tsk" \in Kind /\ "mtx" \in Kind
  BY DcreTaskAssumption DEF Kind
<1>2. [DtNext]_dtvars => DynStep
  <2> SUFFICES ASSUME [DtNext]_dtvars PROVE DynStep
    OBVIOUS
  <2>1. CASE UNCHANGED dynvars
    BY <2>1 DEF DynStep
  <2>2. ASSUME NEW act \in BOOLEAN, NEW own \in BOOLEAN, acre_tsk(act, own) PROVE DynStep
    <3> DEFINE n == IF own THEN 0 ELSE 1
    <3>1. Create("tsk", n) /\ n \in Nat
      BY <2>2 DEF acre_tsk
    <3> HIDE DEF n
    <3> QED
      BY <1>1, <3>1 DEF DynStep
  <2>3. ASSUME NEW t \in Task, del_tsk(t) PROVE DynStep
    BY <1>1, <2>3, DeleteIsStep DEF del_tsk
  <2>4. CASE acre_mtx
    <3>1. Create("mtx", 0) /\ 0 \in Nat
      BY <2>4 DEF acre_mtx
    <3> QED
      BY <1>1, <3>1 DEF DynStep
  <2>5. ASSUME NEW m \in Mtx, del_mtx(m) PROVE DynStep
    BY <1>1, <2>5, DeleteIsStep DEF del_mtx
  <2> QED
    BY <2>1, <2>2, <2>3, <2>4, <2>5
    DEF DtNext, DcreTaskCall, DcreMtxCall, DcreCreate, dtvars, dynvars
<1>3. DynInv /\ [DtNext]_dtvars => DynInv'
  BY <1>2, DynStepOK
<1>4. DtInit => DynInv
  BY DynInitOK DEF DtInit
<1> QED
  BY <1>3, <1>4, PTL DEF DtSpec

\* THEOREM: whichever kind of objects is created and deleted, each reserved ID is
\* either in the free list of its kind or in use, once, and areas of the kernel
\* memory pool never overlap, although the pool takes its words back only all at
\* once and del_pdq returns none.
THEOREM DynamicCorrect ==
  /\ DtSpec => []DynamicExact
  /\ DcreSemSpec => []DynamicExact
  /\ DcreFlgSpec => []DynamicExact
  /\ DcreDtqSpec => []DynamicExact
  /\ DcrePdqSpec => []DynamicExact
  /\ DcreMbfSpec => []DynamicExact
  /\ DcreMpfSpec => []DynamicExact
<1>1. []DynInv => []DynamicExact
  BY DynExactOK, PTL
<1> QED
  BY <1>1, DtDynamic, DcreSemDynamic, DcreFlgDynamic, DcreDtqDynamic, DcrePdqDynamic,
     DcreMbfDynamic, DcreMpfDynamic, PTL
-----------------------------------------------------------------------------
(* Fixed-size memory pools: the control block of one pool.                    *)

\* The free list of c is q: linked by the next fields, and ended.
Linked(c, q) ==
  /\ c.freelist = IF q = << >> THEN INDEX_NULL ELSE q[1]
  /\ \A i \in 1..Len(q) : c.next[q[i]] = IF i = Len(q) THEN INDEX_NULL ELSE q[i + 1]

\* The blocks of pool p that were used are those of T, which the tasks have, and
\* those in the free list q.
PoolWith(p, c, T, q) ==
  /\ c \in [fblkcnt: Int, unused: 0..BlkCnt[p], freelist: Int, next: [Blk(p) -> Int]]
  /\ q \in Seq(Blk(p)) /\ IsInjective(q) /\ Linked(c, q)
  /\ T \intersect Range(q) = {} /\ T \union Range(q) = 0..(c.unused - 1)
  /\ c.fblkcnt = BlkCnt[p] - c.unused + Len(q)
  /\ \A b \in T : c.next[b] = INDEX_ALLOC

PoolExact(p, c, T) == \E q : PoolWith(p, c, T, q)

\* The places of a sequence.
LEMMA SeqPlaces ==
  ASSUME NEW S, NEW q \in Seq(S)
  PROVE  /\ Len(q) \in Nat /\ DOMAIN q = 1..Len(q) /\ (q = << >> <=> Len(q) = 0)
         /\ \A i \in 1..Len(q) : q[i] \in S
         /\ \A i \in 1..Len(q) : q[i] \in Range(q)
         /\ \A x \in Range(q) : x \in S /\ \E i \in 1..Len(q) : q[i] = x
<1>1. Len(q) \in Nat /\ DOMAIN q = 1..Len(q)
  OBVIOUS
<1>2. q = << >> <=> Len(q) = 0
  OBVIOUS
<1>3. \A i \in 1..Len(q) : q[i] \in S
  OBVIOUS
<1>4. \A i \in 1..Len(q) : q[i] \in Range(q)
  BY <1>1 DEF Range
<1>5. \A x \in Range(q) : \E i \in 1..Len(q) : q[i] = x
  BY <1>1 DEF Range
<1>6. \A x \in Range(q) : x \in S
  BY <1>3, <1>5
<1> QED
  BY <1>1, <1>2, <1>3, <1>4, <1>5, <1>6

\* The places of its tail.
LEMMA TailPlaces ==
  ASSUME NEW S, NEW q \in Seq(S), q # << >>
  PROVE  /\ Tail(q) \in Seq(S) /\ Len(Tail(q)) = Len(q) - 1 /\ Len(q) - 1 \in Nat
         /\ \A i \in 1..(Len(q) - 1) : i + 1 \in 1..Len(q)
         /\ \A i \in 1..(Len(q) - 1) : Tail(q)[i] = q[i + 1]
<1>1. Tail(q) \in Seq(S) /\ Len(Tail(q)) = Len(q) - 1
  OBVIOUS
<1>2. Len(q) - 1 \in Nat /\ \A i \in 1..(Len(q) - 1) : i + 1 \in 1..Len(q)
  OBVIOUS
<1>3. \A i \in 1..(Len(q) - 1) : Tail(q)[i] = q[i + 1]
  OBVIOUS
<1> QED
  BY <1>1, <1>2, <1>3

\* What PoolWith says, in numbers.
LEMMA PoolFacts ==
  ASSUME NEW p \in Mpf, NEW c, NEW T, NEW q, PoolWith(p, c, T, q), NEW N, N = BlkCnt[p]
  PROVE  /\ N \in Nat \ {0} /\ Blk(p) = 0..(N - 1) /\ INDEX_NULL = -1 /\ INDEX_NULL \notin Blk(p)
         /\ c \in [fblkcnt: Int, unused: 0..N, freelist: Int, next: [0..(N - 1) -> Int]]
         /\ q \in Seq(0..(N - 1)) /\ DOMAIN q = 1..Len(q) /\ Len(q) \in Nat
         /\ T \intersect Range(q) = {} /\ T \union Range(q) = 0..(c.unused - 1)
         /\ c.fblkcnt = N - c.unused + Len(q)
         /\ \A i, j \in 1..Len(q) : q[i] = q[j] => i = j
<1>1. N \in Nat \ {0} /\ Blk(p) = 0..(N - 1) /\ INDEX_NULL = -1 /\ INDEX_NULL \notin Blk(p)
  BY MempfixAssumption DEF Blk, INDEX_NULL
<1>2. /\ c \in [fblkcnt: Int, unused: 0..N, freelist: Int, next: [0..(N - 1) -> Int]]
      /\ q \in Seq(0..(N - 1))
  BY <1>1 DEF PoolWith
<1>3. DOMAIN q = 1..Len(q) /\ Len(q) \in Nat
  BY <1>2, SeqPlaces
<1>4. /\ T \intersect Range(q) = {} /\ T \union Range(q) = 0..(c.unused - 1)
      /\ c.fblkcnt = N - c.unused + Len(q)
  BY DEF PoolWith
<1>5. IsInjective(q)
  BY DEF PoolWith
<1>6. \A i, j \in 1..Len(q) : q[i] = q[j] => i = j
  BY <1>3, <1>5 DEF IsInjective
<1> QED
  BY <1>1, <1>2, <1>3, <1>4, <1>6

\* A block from the pool, of the free list if it is not empty.
LEMMA GetBlockOK ==
  ASSUME NEW p \in Mpf, NEW c, NEW T, PoolExact(p, c, T), c.fblkcnt > 0
  PROVE  /\ FirstFree(c) \in Blk(p) /\ FirstFree(c) \notin T
         /\ PoolExact(p, GetMpfBlock(c), T \union {FirstFree(c)})
<1> DEFINE b == FirstFree(c)
           N == BlkCnt[p]
           d == GetMpfBlock(c)
<1>1. PICK q : PoolWith(p, c, T, q)
  BY DEF PoolExact
<1>2. N \in Nat \ {0} /\ Blk(p) = 0..(N - 1) /\ INDEX_NULL = -1
  BY <1>1, PoolFacts
<1>3. /\ c \in [fblkcnt: Int, unused: 0..N, freelist: Int, next: [0..(N - 1) -> Int]]
      /\ q \in Seq(0..(N - 1)) /\ DOMAIN q = 1..Len(q) /\ Len(q) \in Nat
      /\ T \intersect Range(q) = {} /\ T \union Range(q) = 0..(c.unused - 1)
      /\ c.fblkcnt = N - c.unused + Len(q)
      /\ \A i, j \in 1..Len(q) : q[i] = q[j] => i = j
  BY <1>1, PoolFacts
<1> HIDE DEF N
<1>4. /\ c.unused \in Nat /\ c.unused <= N /\ c.fblkcnt \in Int /\ c.freelist \in Int
      /\ N \in Nat /\ c.next \in [0..(N - 1) -> Int] /\ INDEX_ALLOC \in Int
  BY <1>2, <1>3 DEF INDEX_ALLOC
<1> HIDE DEF b, d
<1>5. CASE q = << >>
  <2>1. c.freelist = INDEX_NULL
    BY <1>1, <1>5 DEF PoolWith, Linked
  <2>2. b = c.unused
    BY <2>1 DEF FirstFree, b
  <2>3. c.unused < N
    <3>1. Len(q) = 0
      BY <1>5
    <3> QED
      BY <1>3, <1>4, <3>1
  <2>4. b \in 0..(N - 1) /\ b \notin T /\ c.unused + 1 \in 0..N
    <3>1. c.unused \notin 0..(c.unused - 1)
      BY <1>4
    <3> QED
      BY <1>3, <1>4, <2>2, <2>3, <3>1
  <2>5. d = [c EXCEPT !.unused = c.unused + 1, !.fblkcnt = c.fblkcnt - 1,
                      !.next = [c.next EXCEPT ![b] = INDEX_ALLOC]]
    BY <1>3, <2>1, <2>2 DEF GetMpfBlock, FirstFree, d
  <2>6. /\ d.freelist = c.freelist /\ d.unused = c.unused + 1 /\ d.fblkcnt = c.fblkcnt - 1
        /\ d.next = [c.next EXCEPT ![b] = INDEX_ALLOC]
        /\ d \in [fblkcnt: Int, unused: 0..N, freelist: Int, next: [0..(N - 1) -> Int]]
    <3>1. [c.next EXCEPT ![b] = INDEX_ALLOC] \in [0..(N - 1) -> Int]
      BY <1>4
    <3>2. c.fblkcnt - 1 \in Int
      BY <1>4
    <3> QED
      BY <1>3, <2>4, <2>5, <3>1, <3>2
  <2>7. (T \union {b}) \union Range(q) = 0..(d.unused - 1) /\ (T \union {b}) \intersect Range(q) = {}
    <3>1. Range(q) = {}
      BY <1>5 DEF Range
    <3>2. 0..(c.unused + 1 - 1) = 0..(c.unused - 1) \union {c.unused}
      BY <1>4
    <3> QED
      BY <1>3, <2>2, <2>6, <3>1, <3>2
  <2>8. d.fblkcnt = N - d.unused + Len(q)
    BY <1>3, <1>4, <2>6
  <2>9. \A a \in T \union {b} : d.next[a] = INDEX_ALLOC
    <3>1. T \subseteq 0..(N - 1) /\ \A a \in T : c.next[a] = INDEX_ALLOC
      BY <1>1, <1>3, <1>4 DEF PoolWith
    <3> QED
      BY <1>3, <2>4, <2>6, <3>1
  <2>10. Linked(d, q)
    BY <1>5, <2>1, <2>6 DEF Linked
  <2>11. PoolWith(p, d, T \union {b}, q)
    BY <1>1, <1>2, <2>6, <2>7, <2>8, <2>9, <2>10 DEF PoolWith, N
  <2> QED
    BY <1>2, <2>4, <2>11 DEF PoolExact, N, b, d
<1>6. CASE q # << >>
  <2> DEFINE r == Tail(q)
  <2>1. Len(q) >= 1 /\ Len(q) - 1 \in Nat /\ q[1] \in 0..(N - 1) /\ q[1] # INDEX_NULL
    BY <1>2, <1>3, <1>6
  <2>2. /\ r \in Seq(0..(N - 1)) /\ Len(r) = Len(q) - 1 /\ DOMAIN r = 1..(Len(q) - 1)
        /\ \A i \in 1..(Len(q) - 1) : r[i] = q[i + 1] /\ i + 1 \in 1..Len(q)
    <3>1. q \in Seq(0..(N - 1))
      BY <1>3
    <3>2. /\ r \in Seq(0..(N - 1)) /\ Len(r) = Len(q) - 1
          /\ \A i \in 1..(Len(q) - 1) : r[i] = q[i + 1] /\ i + 1 \in 1..Len(q)
      BY <1>6, <3>1, TailPlaces
    <3> HIDE DEF r
    <3>3. DOMAIN r = 1..(Len(q) - 1)
      BY <3>2
    <3> QED
      BY <3>2, <3>3
  <2>3. c.freelist = q[1] /\ c.next[q[1]] = IF 1 = Len(q) THEN INDEX_NULL ELSE q[1 + 1]
    <3>1. Linked(c, q)
      BY <1>1 DEF PoolWith
    <3>2. 1 \in 1..Len(q)
      BY <2>1
    <3> QED
      BY <1>6, <3>1, <3>2 DEF Linked
  <2>4. b = q[1]
    BY <2>1, <2>3 DEF FirstFree, b
  <2> HIDE DEF r
  <2>5. b \in Range(q) /\ b \notin T /\ b \in 0..(N - 1)
    <3>1. b \in Range(q)
      BY <1>3, <2>1, <2>4 DEF Range
    <3> QED
      BY <1>3, <2>1, <2>4, <3>1
  <2>6. Range(q) = Range(r) \union {b} /\ b \notin Range(r)
    <3>1. \A i \in 1..Len(q) : i = 1 \/ (i - 1 \in 1..(Len(q) - 1) /\ (i - 1) + 1 = i)
      BY <1>3
    <3>2. \A i \in 1..(Len(q) - 1) : r[i] = q[i + 1] /\ i + 1 \in 1..Len(q) /\ i + 1 # 1
      BY <2>2
    <3>3. 1 \in 1..Len(q)
      BY <1>3, <2>1
    <3>4. ASSUME NEW x \in Range(q) PROVE x \in Range(r) \union {b}
      <4>1. PICK i \in 1..Len(q) : q[i] = x
        BY <1>3 DEF Range
      <4>2. CASE i = 1
        BY <2>4, <4>1, <4>2
      <4>3. CASE i # 1
        <5>1. i - 1 \in 1..(Len(q) - 1) /\ r[i - 1] = q[(i - 1) + 1]
          BY <3>1, <2>2, <4>3
        <5>2. r[i - 1] = x
          BY <3>1, <4>1, <4>3, <5>1
        <5> QED
          BY <2>2, <5>1, <5>2 DEF Range
      <4> QED
        BY <4>2, <4>3
    <3>5. ASSUME NEW x \in Range(r) PROVE x \in Range(q) /\ x # b
      <4>1. PICK i \in 1..(Len(q) - 1) : r[i] = x
        BY <2>2 DEF Range
      <4>2. x = q[i + 1] /\ i + 1 \in 1..Len(q) /\ i + 1 # 1
        BY <3>2, <4>1
      <4> QED
        BY <1>3, <2>4, <3>3, <4>2 DEF Range
    <3> QED
      BY <2>5, <3>4, <3>5
  <2>7. d = [c EXCEPT !.freelist = c.next[c.freelist], !.fblkcnt = c.fblkcnt - 1,
                      !.next = [c.next EXCEPT ![b] = INDEX_ALLOC]]
    BY <1>3, <2>1, <2>3, <2>4 DEF GetMpfBlock, FirstFree, d
  <2>8. /\ d.freelist = c.next[b] /\ d.unused = c.unused /\ d.fblkcnt = c.fblkcnt - 1
        /\ d.next = [c.next EXCEPT ![b] = INDEX_ALLOC]
        /\ d \in [fblkcnt: Int, unused: 0..N, freelist: Int, next: [0..(N - 1) -> Int]]
    <3>1. [c.next EXCEPT ![b] = INDEX_ALLOC] \in [0..(N - 1) -> Int] /\ c.next[c.freelist] \in Int
      BY <1>4, <2>1, <2>3
    <3>2. c.fblkcnt - 1 \in Int
      BY <1>4
    <3> QED
      BY <1>3, <2>3, <2>4, <2>5, <2>7, <3>1, <3>2
  <2>9. (T \union {b}) \union Range(r) = 0..(d.unused - 1) /\ (T \union {b}) \intersect Range(r) = {}
    BY <1>3, <2>5, <2>6, <2>8
  <2>10. d.fblkcnt = N - d.unused + Len(r)
    BY <1>3, <1>4, <2>2, <2>8
  <2>11. \A a \in T \union {b} : d.next[a] = INDEX_ALLOC
    <3>1. T \subseteq 0..(N - 1) /\ \A a \in T : c.next[a] = INDEX_ALLOC
      BY <1>1, <1>3, <1>4 DEF PoolWith
    <3> QED
      BY <1>3, <2>5, <2>8, <3>1
  <2>12. Linked(d, r)
    <3>1. ASSUME NEW i \in 1..Len(r)
          PROVE  d.next[r[i]] = IF i = Len(r) THEN INDEX_NULL ELSE r[i + 1]
      <4>1. /\ i \in 1..(Len(q) - 1) /\ i + 1 \in 1..Len(q) /\ r[i] = q[i + 1]
            /\ i = Len(r) <=> i + 1 = Len(q)
            /\ i # Len(r) => i + 1 \in 1..(Len(q) - 1)
        BY <2>2
      <4>2. c.next[q[i + 1]] = IF i + 1 = Len(q) THEN INDEX_NULL ELSE q[(i + 1) + 1]
        BY <1>1, <4>1 DEF PoolWith, Linked
      <4>3. ASSUME i # Len(r) PROVE r[i + 1] = q[(i + 1) + 1]
        BY <2>2, <4>1, <4>3
      <4>4. d.next[r[i]] = c.next[r[i]]
        <5>1. r[i] \in Range(r) /\ r[i] \in 0..(N - 1)
          BY <2>2, SeqPlaces
        <5> QED
          BY <1>3, <2>6, <2>8, <5>1
      <4> QED
        BY <4>1, <4>2, <4>3, <4>4
    <3>2. d.freelist = IF r = << >> THEN INDEX_NULL ELSE r[1]
      <4>1. r = << >> <=> 1 = Len(q)
        BY <2>2
      <4>2. Len(q) # 1 => 1 \in 1..(Len(q) - 1) /\ r[1] = q[1 + 1]
        BY <2>1, <2>2
      <4> QED
        BY <2>3, <2>4, <2>8, <4>1, <4>2
    <3> QED
      BY <3>1, <3>2 DEF Linked
  <2>13. IsInjective(r)
    <3>1. \A i, j \in 1..(Len(q) - 1) : r[i] = r[j] => i + 1 = j + 1
      BY <1>3, <2>2
    <3> QED
      BY <2>2, <3>1 DEF IsInjective
  <2>14. PoolWith(p, d, T \union {b}, r)
    BY <1>2, <2>2, <2>8, <2>9, <2>10, <2>11, <2>12, <2>13 DEF PoolWith, N
  <2> QED
    BY <1>2, <2>5, <2>14 DEF PoolExact, N, b, d
<1> QED
  BY <1>5, <1>6

\* A block goes back into the pool, at the head of the free list.
LEMMA ReturnBlockOK ==
  ASSUME NEW p \in Mpf, NEW c, NEW T, PoolExact(p, c, T), NEW b \in T,
         NEW d, d = [c EXCEPT !.fblkcnt = @ + 1, !.next[b] = c.freelist, !.freelist = b]
  PROVE  PoolExact(p, d, T \ {b})
<1> DEFINE N == BlkCnt[p]
<1>1. PICK q : PoolWith(p, c, T, q)
  BY DEF PoolExact
<1>2. N \in Nat \ {0} /\ Blk(p) = 0..(N - 1) /\ INDEX_NULL = -1
  BY <1>1, PoolFacts
<1>3. /\ c \in [fblkcnt: Int, unused: 0..N, freelist: Int, next: [0..(N - 1) -> Int]]
      /\ q \in Seq(0..(N - 1)) /\ DOMAIN q = 1..Len(q) /\ Len(q) \in Nat
      /\ T \intersect Range(q) = {} /\ T \union Range(q) = 0..(c.unused - 1)
      /\ c.fblkcnt = N - c.unused + Len(q)
      /\ \A i, j \in 1..Len(q) : q[i] = q[j] => i = j
  BY <1>1, PoolFacts
<1> HIDE DEF N
<1>4. /\ c.unused \in Nat /\ c.unused <= N /\ c.fblkcnt \in Int /\ c.freelist \in Int
      /\ N \in Nat /\ c.next \in [0..(N - 1) -> Int]
  BY <1>2, <1>3
<1> DEFINE r == [i \in 1..(Len(q) + 1) |-> IF i = 1 THEN b ELSE q[i - 1]]
<1>5. b \in 0..(N - 1) /\ b \notin Range(q) /\ T \subseteq 0..(N - 1)
  BY <1>3, <1>4
<1>6. /\ r \in Seq(0..(N - 1)) /\ Len(r) = Len(q) + 1 /\ DOMAIN r = 1..(Len(q) + 1)
      /\ r[1] = b /\ r # << >>
      /\ \A i \in 1..Len(q) : r[i + 1] = q[i] /\ i + 1 \in 1..(Len(q) + 1)
      /\ \A i \in 1..(Len(q) + 1) : i = 1 \/ (i - 1 \in 1..Len(q) /\ r[i] = q[i - 1])
  <2>1. \A i \in 1..(Len(q) + 1) : i = 1 \/ i - 1 \in 1..Len(q)
    BY <1>3
  <2>2. \A i \in 1..(Len(q) + 1) : r[i] \in 0..(N - 1)
    <3>1. \A i \in 1..Len(q) : q[i] \in 0..(N - 1)
      BY <1>3, SeqPlaces
    <3> QED
      BY <1>5, <2>1, <3>1
  <2>3. Len(q) + 1 \in Nat /\ 1 \in 1..(Len(q) + 1)
    BY <1>3
  <2>4. r \in Seq(0..(N - 1)) /\ Len(r) = Len(q) + 1
    BY <2>2, <2>3
  <2>5. \A i \in 1..Len(q) : i + 1 \in 1..(Len(q) + 1) /\ i + 1 # 1 /\ (i + 1) - 1 = i
    BY <1>3
  <2>6. \A i \in 1..Len(q) : r[i + 1] = q[i]
    BY <2>5
  <2> QED
    BY <2>1, <2>3, <2>4, <2>5, <2>6
<1> HIDE DEF r
<1>7. Range(r) = Range(q) \union {b}
  <2>1. ASSUME NEW x \in Range(r) PROVE x \in Range(q) \union {b}
    <3>1. PICK i \in 1..(Len(q) + 1) : r[i] = x
      BY <1>6 DEF Range
    <3> QED
      BY <1>3, <1>6, <3>1 DEF Range
  <2>2. ASSUME NEW x \in Range(q) PROVE x \in Range(r)
    <3>1. PICK i \in 1..Len(q) : q[i] = x
      BY <1>3 DEF Range
    <3>2. i + 1 \in DOMAIN r /\ r[i + 1] = x
      BY <1>6, <3>1
    <3> QED
      BY <3>2 DEF Range
  <2>3. b \in Range(r)
    <3>1. 1 \in DOMAIN r /\ r[1] = b
      BY <1>3, <1>6
    <3> QED
      BY <3>1 DEF Range
  <2> QED
    BY <2>1, <2>2, <2>3
<1>8. /\ d.freelist = b /\ d.unused = c.unused /\ d.fblkcnt = c.fblkcnt + 1
      /\ d.next = [c.next EXCEPT ![b] = c.freelist]
      /\ d \in [fblkcnt: Int, unused: 0..N, freelist: Int, next: [0..(N - 1) -> Int]]
  <2>1. [c.next EXCEPT ![b] = c.freelist] \in [0..(N - 1) -> Int]
    BY <1>3
  <2>2. b \in Int /\ c.fblkcnt + 1 \in Int
    BY <1>4, <1>5
  <2> QED
    BY <1>3, <2>1, <2>2
<1>9. (T \ {b}) \intersect Range(r) = {} /\ (T \ {b}) \union Range(r) = 0..(d.unused - 1)
  BY <1>3, <1>7, <1>8
<1>10. d.fblkcnt = N - d.unused + Len(r)
  BY <1>3, <1>4, <1>6, <1>8
<1>11. \A a \in T \ {b} : d.next[a] = INDEX_ALLOC
  <2>1. \A a \in T : c.next[a] = INDEX_ALLOC
    BY <1>1 DEF PoolWith
  <2> QED
    BY <1>3, <1>5, <1>8, <2>1
<1>12. IsInjective(r)
  <2>1. \A i \in 1..Len(q) : q[i] # b
    BY <1>3, <1>5 DEF Range
  <2>2. ASSUME NEW i \in 1..(Len(q) + 1), NEW j \in 1..(Len(q) + 1), r[i] = r[j] PROVE i = j
    <3>1. CASE i = 1 \/ j = 1
      BY <1>6, <2>1, <2>2, <3>1
    <3>2. CASE i # 1 /\ j # 1
      <4>1. i - 1 \in 1..Len(q) /\ j - 1 \in 1..Len(q) /\ q[i - 1] = q[j - 1]
        BY <1>6, <2>2, <3>2
      <4>2. i - 1 = j - 1
        BY <1>3, <4>1
      <4> QED
        BY <4>2
    <3> QED
      BY <3>1, <3>2
  <2> QED
    BY <1>6, <2>2 DEF IsInjective
<1>13. Linked(d, r)
  <2>1. \A i \in 1..Len(q) : c.next[q[i]] = IF i = Len(q) THEN INDEX_NULL ELSE q[i + 1]
    BY <1>1 DEF PoolWith, Linked
  <2>2. c.freelist = IF q = << >> THEN INDEX_NULL ELSE q[1]
    BY <1>1 DEF PoolWith, Linked
  <2>3. \A i \in 1..Len(q) : d.next[q[i]] = c.next[q[i]]
    <3>1. \A i \in 1..Len(q) : q[i] \in 0..(N - 1) /\ q[i] \in Range(q)
      BY <1>3, SeqPlaces
    <3>2. \A a \in 0..(N - 1) : a # b => d.next[a] = c.next[a]
      BY <1>4, <1>8
    <3> QED
      BY <1>5, <3>1, <3>2
  <2>4. ASSUME NEW i \in 1..Len(r)
        PROVE  d.next[r[i]] = IF i = Len(r) THEN INDEX_NULL ELSE r[i + 1]
    <3>1. CASE i = 1
      <4>1. d.next[r[i]] = c.freelist
        BY <1>3, <1>5, <1>6, <1>8, <3>1
      <4>2. CASE q = << >>
        BY <1>6, <2>2, <3>1, <4>1, <4>2
      <4>3. CASE q # << >>
        <5>1. 1 \in 1..Len(q) /\ Len(r) # 1
          BY <1>3, <1>6, <4>3
        <5>2. r[1 + 1] = q[1]
          BY <1>6, <5>1
        <5> QED
          BY <2>2, <3>1, <4>1, <4>3, <5>1, <5>2
      <4> QED
        BY <4>2, <4>3
    <3>2. CASE i # 1
      <4>1. /\ i - 1 \in 1..Len(q) /\ r[i] = q[i - 1] /\ (i - 1) + 1 = i
            /\ i = Len(r) <=> i - 1 = Len(q)
            /\ i # Len(r) => i \in 1..Len(q)
        BY <1>3, <1>6, <2>4, <3>2
      <4>2. d.next[r[i]] = IF i - 1 = Len(q) THEN INDEX_NULL ELSE q[(i - 1) + 1]
        BY <2>1, <2>3, <4>1
      <4>3. i # Len(r) => r[i + 1] = q[i]
        BY <1>6, <4>1
      <4> QED
        BY <4>1, <4>2, <4>3
    <3> QED
      BY <3>1, <3>2
  <2> QED
    BY <1>6, <1>8, <2>4 DEF Linked
<1>14. PoolWith(p, d, T \ {b}, r)
  BY <1>2, <1>6, <1>8, <1>9, <1>10, <1>11, <1>12, <1>13 DEF PoolWith, N
<1> QED
  BY <1>14 DEF PoolExact

\* An initialised pool.
LEMMA EmptyPoolOK ==
  ASSUME NEW p \in Mpf, NEW f \in [Blk(p) -> Int]
  PROVE  PoolExact(p, EmptyPool(p, f), {})
<1> DEFINE c == EmptyPool(p, f)
<1>1. BlkCnt[p] \in Nat /\ INDEX_NULL \in Int
  BY MempfixAssumption DEF INDEX_NULL
<1>2. /\ c \in [fblkcnt: Int, unused: 0..BlkCnt[p], freelist: Int, next: [Blk(p) -> Int]]
      /\ c.freelist = INDEX_NULL /\ c.unused = 0 /\ c.fblkcnt = BlkCnt[p]
  BY <1>1 DEF EmptyPool
<1>3. << >> \in Seq(Blk(p)) /\ IsInjective(<< >>) /\ Range(<< >>) = {} /\ Len(<< >>) = 0
  BY DEF IsInjective, Range
<1>4. Linked(c, << >>)
  BY <1>2, <1>3 DEF Linked
<1>5. 0..(c.unused - 1) = {}
  BY <1>2
<1>6. c.fblkcnt = BlkCnt[p] - c.unused + Len(<< >>)
  BY <1>1, <1>2, <1>3
<1> HIDE DEF c
<1>7. PoolWith(p, c, {}, << >>)
  BY <1>2, <1>3, <1>4, <1>5, <1>6 DEF PoolWith
<1> QED
  BY <1>7 DEF PoolExact, c

\* The links of the free list, as the properties read them.
LEMMA LinkIsChain ==
  ASSUME NEW p \in Mpf, NEW T, NEW q, PoolWith(p, mpfcb[p], T, q)
  PROVE  /\ FreeBlocks(p) = Range(q) /\ Link(p)[BlkCnt[p]] = INDEX_NULL
<1> DEFINE N == BlkCnt[p]
           c == mpfcb[p]
           F(g) == [n \in 0..N |-> IF n = 0 THEN c.freelist
                                  ELSE IF g[n - 1] \in Blk(p) THEN c.next[g[n - 1]] ELSE g[n - 1]]
           h == [n \in 0..N |-> IF n < Len(q) THEN q[n + 1] ELSE INDEX_NULL]
           f == Link(p)
<1>1. N \in Nat \ {0} /\ Blk(p) = 0..(N - 1) /\ INDEX_NULL = -1 /\ INDEX_NULL \notin Blk(p)
  BY PoolFacts
<1>2. /\ q \in Seq(Blk(p)) /\ Len(q) \in Nat /\ (q = << >> <=> Len(q) = 0)
      /\ \A i \in 1..Len(q) : q[i] \in Blk(p) /\ q[i] \in Range(q)
      /\ \A x \in Range(q) : x \in Blk(p) /\ \E i \in 1..Len(q) : q[i] = x
  <2>1. q \in Seq(Blk(p))
    BY DEF PoolWith
  <2> QED
    BY <2>1, SeqPlaces
<1>3. /\ c.freelist = IF q = << >> THEN INDEX_NULL ELSE q[1]
     /\ \A i \in 1..Len(q) : c.next[q[i]] = IF i = Len(q) THEN INDEX_NULL ELSE q[i + 1]
  BY DEF PoolWith, Linked
<1>4. Len(q) <= N
  <2>1. IsInjective(q) /\ Range(q) \subseteq Blk(p)
    <3>1. IsInjective(q)
      BY DEF PoolWith
    <3> QED
      BY <1>2, <3>1
  <2>2. Len(q) = Cardinality(Range(q))
    BY <1>2, <2>1, LengthOfInjective
  <2>3. IsFiniteSet(0..(N - 1)) /\ Cardinality(0..(N - 1)) = N
    <3>1. 0 \in Int /\ N - 1 \in Int /\ ~(0 > N - 1) /\ (N - 1) - 0 + 1 = N
      BY <1>1
    <3> QED
      BY <3>1, FS_Interval
  <2> QED
    BY <1>1, <2>1, <2>2, <2>3, FS_Subset
<1> HIDE DEF N, c
<1>5. \A n \in 0..N : h[n] = IF n < Len(q) THEN q[n + 1] ELSE INDEX_NULL
  OBVIOUS
<1>6. DOMAIN h = 0..N /\ h = [n \in 0..N |-> h[n]]
  OBVIOUS
<1>7. h = F(h)
  <2> HIDE DEF h
  <2>1. ASSUME NEW n \in 0..N
        PROVE  h[n] = IF n = 0 THEN c.freelist
                      ELSE IF h[n - 1] \in Blk(p) THEN c.next[h[n - 1]] ELSE h[n - 1]
    <3>1. CASE n = 0
      <4>1. 0 \in 0..N /\ (0 < Len(q) <=> q # << >>) /\ 0 + 1 = 1
        BY <1>1, <1>2
      <4>2. h[0] = IF 0 < Len(q) THEN q[0 + 1] ELSE INDEX_NULL
        BY <1>5, <4>1
      <4> QED
        BY <1>3, <3>1, <4>1, <4>2
    <3>2. CASE n # 0
      <4>1. n - 1 \in 0..N /\ n \in Nat /\ (n - 1) + 1 = n
        BY <1>1, <3>2
      <4>2. h[n - 1] = IF n - 1 < Len(q) THEN q[n] ELSE INDEX_NULL
        BY <1>5, <4>1
      <4>3. h[n] = IF n < Len(q) THEN q[n + 1] ELSE INDEX_NULL
        BY <1>5
      <4>4. CASE n - 1 < Len(q)
        <5>1. h[n - 1] = q[n] /\ n \in 1..Len(q)
          BY <1>2, <4>1, <4>2, <4>4, <3>2
        <5>2. q[n] \in Blk(p) /\ c.next[q[n]] = IF n = Len(q) THEN INDEX_NULL ELSE q[n + 1]
          BY <1>2, <1>3, <5>1
        <5>3. n < Len(q) <=> n # Len(q)
          BY <1>2, <5>1
        <5> QED
          BY <3>2, <4>3, <5>1, <5>2, <5>3
      <4>5. CASE ~(n - 1 < Len(q))
        <5>1. ~(n < Len(q))
          BY <1>2, <4>1, <4>5
        <5>2. h[n - 1] = INDEX_NULL /\ h[n] = INDEX_NULL
          BY <4>2, <4>3, <4>5, <5>1
        <5> QED
          BY <1>1, <3>2, <5>2
      <4> QED
        BY <4>4, <4>5
    <3> QED
      BY <3>1, <3>2
  <2> QED
    BY <1>6, <2>1
<1>8. f = F(f)
  <2> DEFINE g == CHOOSE g : g = F(g)
  <2>1. f = g
    BY DEF Link, N, c
  <2> HIDE DEF f, F
  <2> QED
    BY <1>7, <2>1
<1>9. f = h
  <2> DEFINE Bad == {n \in 0..N : f[n] # h[n]}
  <2> HIDE DEF f, h
  <2>1. \A n \in 0..N : f[n] = IF n = 0 THEN c.freelist
                               ELSE IF f[n - 1] \in Blk(p) THEN c.next[f[n - 1]] ELSE f[n - 1]
    BY <1>8
  <2>2. \A n \in 0..N : h[n] = IF n = 0 THEN c.freelist
                               ELSE IF h[n - 1] \in Blk(p) THEN c.next[h[n - 1]] ELSE h[n - 1]
    BY <1>7
  <2>3. Bad = {}
    <3> SUFFICES ASSUME Bad # {} PROVE FALSE
      OBVIOUS
    <3>1. PICK n \in Bad : \A m \in Bad : n <= m
      <4>1. Bad \in SUBSET Nat
        BY <1>1
      <4> HIDE DEF Bad
      <4> QED
        BY <4>1, LeastNumber
    <3>2. n \in 0..N /\ f[n] # h[n]
      BY <3>1
    <3>3. n # 0
      BY <2>1, <2>2, <3>2
    <3>4. n - 1 \in 0..N /\ n - 1 \notin Bad
      BY <1>1, <3>1, <3>2, <3>3
    <3>5. f[n - 1] = h[n - 1]
      BY <3>4
    <3> QED
      BY <2>1, <2>2, <3>2, <3>3, <3>5
  <2>4. f = [n \in 0..N |-> f[n]] /\ h = [n \in 0..N |-> h[n]]
    BY <1>7, <1>8, <1>6
  <2> QED
    BY <2>3, <2>4
<1> HIDE DEF f, h
<1>10. f[N] = INDEX_NULL
  <2>1. N \in 0..N /\ ~(N < Len(q))
    BY <1>1, <1>2, <1>4
  <2> QED
    BY <1>9, <1>5, <2>1
<1>11. FreeBlocks(p) = {h[n] : n \in 0..N} \ {INDEX_NULL}
  <2>1. FreeBlocks(p) = {f[n] : n \in DOMAIN f} \ {INDEX_NULL}
    BY DEF FreeBlocks, f
  <2> QED
    BY <1>9, <1>6, <2>1
<1>12. {h[n] : n \in 0..N} \ {INDEX_NULL} = Range(q)
  <2>1. ASSUME NEW n \in 0..N, h[n] # INDEX_NULL PROVE h[n] \in Range(q)
    <3>1. n < Len(q) /\ h[n] = q[n + 1]
      BY <1>5, <2>1
    <3>2. n + 1 \in 1..Len(q)
      BY <1>1, <1>2, <3>1
    <3> QED
      BY <1>2, <3>1, <3>2
  <2>2. ASSUME NEW x \in Range(q) PROVE x # INDEX_NULL /\ \E n \in 0..N : h[n] = x
    <3>1. PICK i \in 1..Len(q) : q[i] = x
      BY <1>2
    <3>2. i - 1 \in 0..N /\ i - 1 < Len(q) /\ (i - 1) + 1 = i
      BY <1>1, <1>2, <1>4
    <3>3. h[i - 1] = x
      BY <1>5, <3>1, <3>2
    <3>4. x \in Blk(p)
      BY <1>2
    <3> QED
      BY <1>1, <3>2, <3>3, <3>4
  <2> QED
    BY <2>1, <2>2
<1> QED
  BY <1>10, <1>11, <1>12 DEF N, f

\* fblkcnt counts the blocks that nobody has.
LEMMA FreeCountOK ==
  ASSUME NEW p \in Mpf, NEW c, NEW T, NEW q, PoolWith(p, c, T, q)
  PROVE  c.fblkcnt = BlkCnt[p] - Cardinality(T)
<1> DEFINE u == c.unused
<1>1. u \in Nat /\ BlkCnt[p] \in Nat /\ q \in Seq(Blk(p)) /\ IsInjective(q) /\ Len(q) \in Nat
  BY MempfixAssumption DEF PoolWith
<1>2. /\ T \intersect Range(q) = {} /\ T \union Range(q) = 0..(u - 1)
      /\ c.fblkcnt = BlkCnt[p] - u + Len(q)
  BY DEF PoolWith
<1>3. Len(q) = Cardinality(Range(q))
  BY <1>1, LengthOfInjective
<1> HIDE DEF u
<1>4. IsFiniteSet(0..(u - 1)) /\ Cardinality(0..(u - 1)) = u
  <2>1. /\ IsFiniteSet(0..(u - 1))
        /\ Cardinality(0..(u - 1)) = IF 0 > u - 1 THEN 0 ELSE (u - 1) - 0 + 1
    <3>1. 0 \in Int /\ u - 1 \in Int
      BY <1>1
    <3> QED
      BY <3>1, FS_Interval
  <2> QED
    BY <1>1, <2>1
<1>5. IsFiniteSet(T) /\ IsFiniteSet(Range(q))
  BY <1>2, <1>4, FS_Subset
<1>6. /\ Cardinality(T \union Range(q))
           = Cardinality(T) + Cardinality(Range(q)) - Cardinality(T \intersect Range(q))
      /\ Cardinality(T) \in Nat
  BY <1>5, FS_Union, FS_CardinalityType
<1>7. Cardinality(T \intersect Range(q)) = 0
  BY <1>2, FS_EmptySet
<1>8. u = Cardinality(T) + Len(q)
  <2>1. u = Cardinality(T) + Len(q) - 0
    BY <1>2, <1>3, <1>4, <1>6, <1>7
  <2> QED
    BY <1>1, <1>6, <2>1
<1> QED
  BY <1>1, <1>2, <1>6, <1>8

-----------------------------------------------------------------------------
(* Memory pools, their blocks with the tasks, and those who wait for one.     *)

\* Somebody has it.
Taken(p) == UNION {held[t][p] : t \in Task}

PoolOK(p) ==
  /\ PoolExact(p, mpfcb[p], Taken(p))
  /\ \A t, v \in Task : t # v => held[t][p] \intersect held[v][p] = {}
  /\ wque[p] # << >> => mpfcb[p].fblkcnt = 0

PoolsTyped ==
  /\ mpfcb = [p \in Mpf |-> mpfcb[p]]
  /\ \A p \in Mpf :
       mpfcb[p] \in [fblkcnt: Int, unused: Int, freelist: Int, next: [Blk(p) -> Int]]
  /\ held \in [Task -> [Mpf -> SUBSET Int]]

\* A step that concerns no pool but p.
OthersKept(p) ==
  \A r \in Mpf \ {p} : /\ mpfcb'[r] = mpfcb[r] /\ \A t \in Task : held'[t][r] = held[t][r]
                       /\ wque[r] = << >> => wque'[r] = << >>

\* A pool that a step does not concern, although waiters may leave it.
LEMMA PoolKept ==
  ASSUME NEW p \in Mpf, PoolOK(p), mpfcb'[p] = mpfcb[p],
         \A t \in Task : held'[t][p] = held[t][p],
         wque[p] = << >> => wque'[p] = << >>
  PROVE  PoolOK(p)'
<1>1. Taken(p)' = Taken(p)
  BY DEF Taken
<1> QED
  BY <1>1 DEF PoolOK

\* A task without blocks in hand changes, the pools do not.
LEMMA CorePools ==
  ASSUME WaitInv, PoolsTyped, [Next]_vars, UNCHANGED <<mpfcb, held>>
  PROVE  /\ WaitInv' /\ PoolsTyped'
         /\ \A p \in Mpf : (wque[p] = << >> => wque'[p] = << >>) /\ (PoolOK(p) => PoolOK(p)')
<1>1. WaitInv' /\ (SameLengths \/ \E w \in WObj : OneLess(w))
  BY CoreWaits
<1>2. /\ wque \in [WObj -> Seq(Task)] /\ wque' \in [WObj -> Seq(Task)]
      /\ Mpf \subseteq WObj
  BY <1>1, QueueTypes, QueueTypesNext, MempfixAssumption
<1>3. ASSUME NEW w \in WObj, wque[w] = << >> PROVE wque'[w] = << >>
  <2>1. CASE SameLengths
    <3>1. Len(wque'[w]) = 0 /\ wque'[w] \in Seq(Task)
      BY <1>2, <1>3, <2>1 DEF SameLengths
    <3> QED
      BY <3>1
  <2>2. CASE \E x \in WObj : OneLess(x)
    BY <1>3, <2>2 DEF OneLess
  <2> QED
    BY <1>1, <2>1, <2>2
<1>4. PoolsTyped'
  BY DEF PoolsTyped
<1> QED
  BY <1>1, <1>2, <1>3, <1>4, PoolKept

\* The running task takes a block.
LEMMA TakeBlockOK ==
  ASSUME WaitInv, PoolsTyped, NEW p \in Mpf, PoolOK(p), runtsk \in Task, TakeBlock(p)
  PROVE  /\ WaitInv' /\ PoolsTyped' /\ PoolOK(p)' /\ OthersKept(p) /\ wque' = wque
         /\ \A t \in Task, r \in Mpf : held[t][r] \subseteq held'[t][r]
<1> DEFINE c == mpfcb[p]
           b == FirstFree(c)
<1>1. /\ c.fblkcnt > 0 /\ UNCHANGED vars
      /\ mpfcb' = [mpfcb EXCEPT ![p] = GetMpfBlock(c)]
      /\ held' = [held EXCEPT ![runtsk][p] = held[runtsk][p] \union {b}]
  BY DEF TakeBlock
<1>2. WaitInv' /\ wque' = wque
  BY <1>1, CoreUnchanged
<1>3. /\ b \in Blk(p) /\ b \notin Taken(p)
      /\ PoolExact(p, GetMpfBlock(c), Taken(p) \union {b})
  BY <1>1, GetBlockOK DEF PoolOK
<1>4. b \in Int
  BY <1>3, MempfixAssumption DEF Blk
<1> HIDE DEF b
<1>5. /\ mpfcb'[p] = GetMpfBlock(c) /\ \A r \in Mpf \ {p} : mpfcb'[r] = mpfcb[r]
      /\ mpfcb' = [r \in Mpf |-> mpfcb'[r]]
  BY <1>1 DEF PoolsTyped
<1>6. /\ held' \in [Task -> [Mpf -> SUBSET Int]]
      /\ held'[runtsk][p] = held[runtsk][p] \union {b}
      /\ \A t \in Task, r \in Mpf : t # runtsk \/ r # p => held'[t][r] = held[t][r]
  BY <1>1, <1>4 DEF PoolsTyped
<1>7. Taken(p)' = Taken(p) \union {b}
  BY <1>6 DEF Taken
<1>8. \A t, v \in Task : t # v => held'[t][p] \intersect held'[v][p] = {}
  <2>1. \A t \in Task : b \notin held[t][p]
    BY <1>3 DEF Taken
  <2> QED
    BY <1>6, <2>1 DEF PoolOK
<1>9. wque[p] = << >>
  BY <1>1 DEF PoolOK, PoolsTyped
<1>10. GetMpfBlock(c) \in [fblkcnt: Int, unused: Int, freelist: Int, next: [Blk(p) -> Int]]
  BY <1>3, MempfixAssumption DEF PoolExact, PoolWith
<1>11. PoolOK(p)'
  BY <1>2, <1>3, <1>5, <1>7, <1>8, <1>9 DEF PoolOK
<1>12. PoolsTyped'
  BY <1>5, <1>6, <1>10 DEF PoolsTyped
<1> QED
  BY <1>2, <1>5, <1>6, <1>11, <1>12 DEF OthersKept

\* The running task waits for a block.
LEMMA AwaitBlockOK ==
  ASSUME WaitInv, PoolsTyped, NEW p \in Mpf, PoolOK(p), NEW timed \in BOOLEAN,
         CheckDispatch, ~tcb[runtsk].raster, mpfcb[p].fblkcnt = 0,
         Return(WObjMakeWait(K, p, timed)), UNCHANGED <<mpfcb, held>>
  PROVE  WaitInv' /\ PoolsTyped' /\ PoolOK(p)' /\ OthersKept(p)
<1>1. Mpf \subseteq WObj
  BY MempfixAssumption
<1>2. WaitInv' /\ \A x \in WObj \ {p} : wque'[x] = wque[x]
  BY <1>1, RunningJoins
<1>3. Taken(p)' = Taken(p)
  BY DEF Taken
<1> QED
  BY <1>1, <1>2, <1>3 DEF PoolOK, PoolsTyped, OthersKept

\* The running task returns a block that it has, which goes to the first waiter,
\* or back into the pool.
LEMMA BlockReturned ==
  ASSUME WaitInv, PoolsTyped, NEW p \in Mpf, PoolOK(p), runtsk \in Task,
         NEW b \in held[runtsk][p],
         \/ wque[p] # << >> /\ HandOverBlock(p, b)
         \/ wque[p] = << >> /\ ReturnBlock(p, b)
  PROVE  /\ WaitInv' /\ PoolsTyped' /\ PoolOK(p)' /\ OthersKept(p)
         /\ \A r \in Mpf : wque[r] = << >> => wque'[r] = << >>
         /\ \A t \in Task \ {runtsk}, r \in Mpf : held[t][r] \subseteq held'[t][r]
         /\ \A r \in Mpf \ {p} : held[runtsk][r] = held'[runtsk][r]
<1> DEFINE h == Returned(p, b)
<1>1. /\ h \in [Task -> [Mpf -> SUBSET Int]] /\ held \in [Task -> [Mpf -> SUBSET Int]]
      /\ b \in Int /\ b \in Taken(p) /\ Mpf \subseteq WObj
      /\ \A t \in Task : h[t][p] = held[t][p] \ {b}
      /\ \A t \in Task : \A r \in Mpf \ {p} : h[t][r] = held[t][r]
  <2>1. held \in [Task -> [Mpf -> SUBSET Int]] /\ Mpf \subseteq WObj
    BY MempfixAssumption DEF PoolsTyped
  <2>2. h = [t \in Task |-> [held[t] EXCEPT ![p] = held[t][p] \ {b}]]
    BY DEF Returned
  <2> HIDE DEF h
  <2>3. b \in Int /\ b \in Taken(p)
    BY <2>1 DEF Taken
  <2> QED
    BY <2>1, <2>2, <2>3
<1>2. \A t \in Task \ {runtsk} : b \notin held[t][p] /\ h[t][p] = held[t][p]
  <2> SUFFICES ASSUME NEW t \in Task \ {runtsk} PROVE b \notin held[t][p] /\ h[t][p] = held[t][p]
    OBVIOUS
  <2>1. held[t][p] \intersect held[runtsk][p] = {}
    BY DEF PoolOK
  <2>2. b \notin held[t][p]
    BY <2>1
  <2>3. h[t][p] = held[t][p] \ {b}
    BY <1>1
  <2> QED
    BY <2>2, <2>3
<1> HIDE DEF h
<1>3. CASE wque[p] # << >> /\ HandOverBlock(p, b)
  <2> DEFINE u == Head(wque[p])
  <2>1. /\ held' = [h EXCEPT ![u][p] = h[u][p] \union {b}] /\ mpfcb' = mpfcb
        /\ Return(WaitComplete([K EXCEPT !.wque[p] = Tail(@)], u))
    BY <1>3 DEF HandOverBlock, h
  <2>2. WaitInv' /\ wque' = [wque EXCEPT ![p] = Tail(@)] /\ u \in Task
    BY <1>1, <1>3, <2>1, FirstLeaves DEF WaitersOf
  <2> HIDE DEF u
  <2>3. /\ held' \in [Task -> [Mpf -> SUBSET Int]]
        /\ held'[u][p] = h[u][p] \union {b}
        /\ \A t \in Task, r \in Mpf : t # u \/ r # p => held'[t][r] = h[t][r]
    BY <1>1, <2>1, <2>2
  <2>4. Taken(p)' = Taken(p)
    <3>1. \A t \in Task : held'[t][p] = IF t = u THEN (held[t][p] \ {b}) \union {b}
                                        ELSE held[t][p] \ {b}
      BY <1>1, <2>3
    <3>2. ASSUME NEW x \in Taken(p) PROVE x \in Taken(p)'
      <4>1. PICK t \in Task : x \in held[t][p]
        BY DEF Taken
      <4>2. x \in held'[t][p] \/ x \in held'[u][p]
        BY <2>2, <3>1, <4>1
      <4> QED
        BY <2>2, <4>2 DEF Taken
    <3>3. ASSUME NEW x \in Taken(p)' PROVE x \in Taken(p)
      <4>1. PICK t \in Task : x \in held'[t][p]
        BY <3>3 DEF Taken
      <4>2. x \in held[t][p] \/ x = b
        BY <3>1, <4>1
      <4> QED
        BY <1>1, <4>2 DEF Taken
    <3> QED
      BY <3>2, <3>3
  <2>5. \A t, v \in Task : t # v => held'[t][p] \intersect held'[v][p] = {}
    BY <1>1, <1>2, <2>3 DEF PoolOK
  <2>6. mpfcb[p].fblkcnt = 0
    BY <1>3 DEF PoolOK
  <2>7. PoolOK(p)'
    BY <2>1, <2>4, <2>5, <2>6 DEF PoolOK
  <2>8. PoolsTyped'
    BY <2>1, <2>3 DEF PoolsTyped
  <2>9. \A r \in Mpf \ {p} : wque'[r] = wque[r]
    <3>1. wque \in [WObj -> Seq(Task)]
      BY QueueTypes
    <3> QED
      BY <1>1, <2>2, <3>1
  <2>10. OthersKept(p)
    BY <1>1, <2>1, <2>3, <2>9 DEF OthersKept
  <2>11. \A t \in Task \ {runtsk}, r \in Mpf : held[t][r] \subseteq held'[t][r]
    BY <1>1, <1>2, <2>3
  <2>12. \A r \in Mpf \ {p} : held[runtsk][r] = held'[runtsk][r]
    BY <1>1, <2>3
  <2> QED
    BY <1>3, <2>2, <2>7, <2>8, <2>9, <2>10, <2>11, <2>12
<1>4. CASE wque[p] = << >> /\ ReturnBlock(p, b)
  <2> DEFINE c == mpfcb[p]
             d == [c EXCEPT !.fblkcnt = @ + 1, !.next[b] = c.freelist, !.freelist = b]
  <2>1. mpfcb' = [mpfcb EXCEPT ![p] = d] /\ held' = h /\ UNCHANGED vars
    <3>1. mpfcb' = [mpfcb EXCEPT ![p] = d]
      BY <1>4 DEF ReturnBlock
    <3>2. held' = h /\ UNCHANGED vars
      BY <1>4 DEF ReturnBlock, h
    <3> QED
      BY <3>1, <3>2
  <2>2. WaitInv' /\ wque' = wque
    BY <2>1, CoreUnchanged
  <2>3. PoolExact(p, d, Taken(p) \ {b})
    BY <1>1, ReturnBlockOK DEF PoolOK
  <2> HIDE DEF d
  <2>4. /\ mpfcb'[p] = d /\ \A r \in Mpf \ {p} : mpfcb'[r] = mpfcb[r]
        /\ mpfcb' = [r \in Mpf |-> mpfcb'[r]]
    BY <2>1 DEF PoolsTyped
  <2>5. Taken(p)' = Taken(p) \ {b}
    BY <1>1, <2>1 DEF Taken
  <2>6. \A t, v \in Task : t # v => held'[t][p] \intersect held'[v][p] = {}
    BY <1>1, <2>1 DEF PoolOK
  <2>7. PoolOK(p)'
    BY <1>4, <2>2, <2>3, <2>4, <2>5, <2>6 DEF PoolOK
  <2>8. d \in [fblkcnt: Int, unused: Int, freelist: Int, next: [Blk(p) -> Int]]
    BY <2>3, MempfixAssumption DEF PoolExact, PoolWith
  <2>9. PoolsTyped'
    BY <1>1, <2>1, <2>4, <2>8 DEF PoolsTyped
  <2>10. OthersKept(p)
    BY <1>1, <2>1, <2>2, <2>4 DEF OthersKept
  <2> QED
    BY <1>1, <1>2, <2>1, <2>2, <2>7, <2>9, <2>10
<1> QED
  BY <1>3, <1>4

\* A pool is initialised, and the tasks have given up its blocks.
LEMMA EmptiedOK ==
  ASSUME WaitInv, PoolsTyped, NEW p \in Mpf, Return(InitWaitQueue(K, p)),
         held' = [t \in Task |-> [held[t] EXCEPT ![p] = {}]],
         mpfcb' = [mpfcb EXCEPT ![p] = EmptyPool(p, @.next)] \/ mpfcb' = mpfcb
  PROVE  /\ WaitInv' /\ PoolsTyped' /\ OthersKept(p)
         /\ mpfcb'[p] = EmptyPool(p, mpfcb[p].next) => PoolOK(p)'
         /\ wque'[p] = << >> /\ \A t \in Task : held'[t][p] = {}
         /\ \A t \in Task, r \in Mpf \ {p} : held'[t][r] = held[t][r]
<1>1. Mpf \subseteq WObj /\ wque \in [WObj -> Seq(Task)]
  BY QueueTypes, MempfixAssumption
<1>2. WaitInv' /\ wque' = [wque EXCEPT ![p] = << >>]
  BY <1>1, AllLeave
<1>3. wque'[p] = << >> /\ \A r \in Mpf \ {p} : wque'[r] = wque[r]
  BY <1>1, <1>2
<1>4. held' \in [Task -> [Mpf -> SUBSET Int]]
  BY DEF PoolsTyped
<1>5. /\ \A t \in Task : held'[t][p] = {}
      /\ \A t \in Task, r \in Mpf \ {p} : held'[t][r] = held[t][r]
  BY DEF PoolsTyped
<1>6. mpfcb[p].next \in [Blk(p) -> Int]
  BY DEF PoolsTyped
<1>7. /\ mpfcb' = [r \in Mpf |-> mpfcb'[r]] /\ \A r \in Mpf \ {p} : mpfcb'[r] = mpfcb[r]
      /\ mpfcb'[p] = EmptyPool(p, mpfcb[p].next) \/ mpfcb'[p] = mpfcb[p]
  BY DEF PoolsTyped
<1>8. EmptyPool(p, mpfcb[p].next)
        \in [fblkcnt: Int, unused: Int, freelist: Int, next: [Blk(p) -> Int]]
  BY <1>6, MempfixAssumption DEF EmptyPool, INDEX_NULL
<1>9. PoolsTyped'
  BY <1>4, <1>7, <1>8 DEF PoolsTyped
<1>10. Taken(p)' = {}
  BY <1>5 DEF Taken
<1>11. PoolExact(p, EmptyPool(p, mpfcb[p].next), {})
  BY <1>6, EmptyPoolOK
<1>12. mpfcb'[p] = EmptyPool(p, mpfcb[p].next) => PoolOK(p)'
  BY <1>3, <1>5, <1>10, <1>11 DEF PoolOK
<1> QED
  BY <1>2, <1>3, <1>5, <1>7, <1>9, <1>12 DEF OthersKept

\* What the properties say of a pool.
LEMMA PoolProperties ==
  ASSUME NEW p \in Mpf, PoolOK(p)
  PROVE  /\ BlocksPartitioned(p)
         /\ \A t \in Task : \A b \in held[t][p] :
              b < mpfcb[p].unused /\ mpfcb[p].next[b] = INDEX_ALLOC
<1> DEFINE c == mpfcb[p]
           T == Taken(p)
<1>1. PICK q : PoolWith(p, c, T, q)
  BY DEF PoolOK, PoolExact
<1>2. /\ FreeBlocks(p) = Range(q) /\ Link(p)[BlkCnt[p]] = INDEX_NULL
      /\ c.fblkcnt = BlkCnt[p] - Cardinality(T)
  BY <1>1, LinkIsChain, FreeCountOK
<1>3. /\ c.unused \in 0..BlkCnt[p] /\ T \intersect Range(q) = {}
      /\ T \union Range(q) = 0..(c.unused - 1) /\ \A b \in T : c.next[b] = INDEX_ALLOC
  BY <1>1 DEF PoolWith
<1>4. BlocksPartitioned(p)
  BY <1>2, <1>3 DEF BlocksPartitioned, Taken, PoolOK
<1>5. ASSUME NEW t \in Task, NEW b \in held[t][p]
      PROVE  b < c.unused /\ c.next[b] = INDEX_ALLOC
  <2>1. b \in T
    BY <1>5 DEF Taken
  <2>2. b \in 0..(c.unused - 1) /\ c.unused \in Int
    BY <1>3, <2>1, MempfixAssumption
  <2> QED
    BY <1>3, <2>1, <2>2
<1> QED
  BY <1>4, <1>5

-----------------------------------------------------------------------------
(* Memory pools of the kernel without the extension. *)

\* A task inside rel_mpf has the block that it returns.
RelOK ==
  /\ relblk = [t \in Task |-> relblk[t]]
  /\ \A t \in Task : relblk[t] # NoRel =>
       \E p \in Mpf : \E b \in held[t][p] : relblk[t] = <<p, b>>

\* The inductive invariant.
MpfInv == WaitInv /\ PoolsTyped /\ RelOK /\ \A p \in Mpf : PoolOK(p)

\* At the start every block of every pool is free.
LEMMA PoolsInitOK ==
  ASSUME MpfInit
  PROVE  /\ WaitInv /\ PoolsTyped /\ RelOK /\ \A p \in Mpf : PoolOK(p)
         /\ \A p \in Mpf : wque[p] = << >> /\ \A t \in Task : held[t][p] = {}
<1>1. WaitInv /\ \A p \in Mpf : wque[p] = << >>
  BY InitWaitInv, MempfixAssumption DEF MpfInit
<1>2. /\ mpfcb = [p \in Mpf |-> EmptyPool(p, [b \in Blk(p) |-> INDEX_NULL])]
      /\ held = [t \in Task |-> [p \in Mpf |-> {}]] /\ relblk = [t \in Task |-> NoRel]
  BY DEF MpfInit
<1>3. PoolsTyped
  BY <1>2, MempfixAssumption DEF PoolsTyped, EmptyPool, INDEX_NULL
<1>4. ASSUME NEW p \in Mpf PROVE PoolOK(p)
  <2>1. Taken(p) = {}
    BY <1>2 DEF Taken
  <2>2. [b \in Blk(p) |-> INDEX_NULL] \in [Blk(p) -> Int]
    BY DEF INDEX_NULL
  <2>3. PoolExact(p, mpfcb[p], {})
    BY <1>2, <2>2, EmptyPoolOK
  <2> QED
    BY <1>1, <1>2, <2>1, <2>3 DEF PoolOK
<1> QED
  BY <1>1, <1>2, <1>3, <1>4 DEF RelOK

\* The calls on one pool, as long as a task returns only blocks that it has.
LEMMA MpfCallOK ==
  ASSUME MpfInv, "twice" \notin Api, NEW p \in Mpf, MpfCall(p)
  PROVE  MpfInv'
<1>1. WaitInv /\ PoolsTyped /\ RelOK /\ PoolOK(p)
  BY DEF MpfInv
<1>2. TskCtxUnl => runtsk \in Task
  BY <1>1, QueueTypes, RunningTask DEF TskCtxUnl
<1>3. ASSUME WaitInv', PoolsTyped', PoolOK(p)', OthersKept(p), RelOK' PROVE MpfInv'
  <2>1. \A r \in Mpf \ {p} : PoolOK(r)'
    BY <1>3, PoolKept DEF MpfInv, OthersKept
  <2> QED
    BY <1>3, <2>1 DEF MpfInv
<1>4. ASSUME \A t \in Task, r \in Mpf : held[t][r] \subseteq held'[t][r], relblk' = relblk
      PROVE  RelOK'
  BY <1>1, <1>4 DEF RelOK
<1>5. ASSUME TakeBlock(p), TskCtxUnl PROVE MpfInv'
  <2>1. relblk' = relblk
    BY <1>5 DEF TakeBlock
  <2> QED
    BY <1>1, <1>2, <1>3, <1>4, <1>5, <2>1, TakeBlockOK
<1>6. ASSUME NEW timed \in BOOLEAN, get_mpf(p, timed) PROVE MpfInv'
  <2>1. CheckDispatch /\ TskCtxUnl /\ ~tcb[runtsk].raster
    BY <1>6 DEF get_mpf, CheckDispatch
  <2>2. CASE mpfcb[p].fblkcnt = 0 /\ Return(WObjMakeWait(K, p, timed)) /\ UNCHANGED mpvars
    <3>1. UNCHANGED <<mpfcb, held>> /\ relblk' = relblk
      BY <2>2 DEF mpvars
    <3> QED
      BY <1>1, <1>3, <1>4, <2>1, <2>2, <3>1, AwaitBlockOK
  <2> QED
    BY <1>5, <1>6, <2>1, <2>2 DEF get_mpf
<1>7. ASSUME NEW b \in Blk(p), RelMpfCheck(p, b) PROVE MpfInv'
  <2>1. /\ UNCHANGED vars /\ UNCHANGED <<mpfcb, held>> /\ b \in held[runtsk][p]
        /\ relblk' = [relblk EXCEPT ![runtsk] = <<p, b>>] /\ runtsk \in Task
    BY <1>2, <1>7 DEF RelMpfCheck
  <2>2. WaitInv' /\ PoolsTyped' /\ \A r \in Mpf : PoolOK(r)'
    BY <1>1, <2>1, CorePools DEF MpfInv
  <2>3. RelOK'
    BY <1>1, <2>1 DEF RelOK
  <2> QED
    BY <2>2, <2>3 DEF MpfInv
<1>8. ASSUME NEW b \in Blk(p), rel_mpf(p, b) PROVE MpfInv'
  <2>1. /\ runtsk \in Task /\ relblk[runtsk] = <<p, b>>
        /\ relblk' = [relblk EXCEPT ![runtsk] = NoRel]
        /\ \/ wque[p] # << >> /\ HandOverBlock(p, b)
           \/ wque[p] = << >> /\ ReturnBlock(p, b)
    BY <1>2, <1>8 DEF rel_mpf
  <2>2. b \in held[runtsk][p]
    <3>1. relblk[runtsk] # NoRel
      BY <2>1 DEF NoRel
    <3> QED
      BY <1>1, <2>1, <3>1 DEF RelOK
  <2>3. /\ WaitInv' /\ PoolsTyped' /\ PoolOK(p)' /\ OthersKept(p)
        /\ \A t \in Task \ {runtsk}, r \in Mpf : held[t][r] \subseteq held'[t][r]
    BY <1>1, <2>1, <2>2, BlockReturned
  <2>4. RelOK'
    BY <1>1, <2>1, <2>3 DEF RelOK
  <2> QED
    BY <1>3, <2>3, <2>4
<1>9. ASSUME ini_mpf(p) PROVE MpfInv'
  <2>1. /\ Return(InitWaitQueue(K, p)) /\ relblk' = relblk
        /\ held' = [t \in Task |-> [held[t] EXCEPT ![p] = {}]]
        /\ mpfcb' = [mpfcb EXCEPT ![p] = EmptyPool(p, @.next)]
        /\ \A t \in Task : relblk[t] # NoRel => relblk[t][1] # p
    BY <1>9 DEF ini_mpf
  <2>2. mpfcb'[p] = EmptyPool(p, mpfcb[p].next)
    BY <1>1, <2>1 DEF PoolsTyped
  <2>3. /\ WaitInv' /\ PoolsTyped' /\ OthersKept(p) /\ PoolOK(p)'
        /\ \A t \in Task, r \in Mpf \ {p} : held'[t][r] = held[t][r]
    BY <1>1, <2>1, <2>2, EmptiedOK
  <2>4. RelOK'
    BY <1>1, <2>1, <2>3 DEF RelOK
  <2> QED
    BY <1>3, <2>3, <2>4
<1> QED
  BY <1>5, <1>6, <1>7, <1>8, <1>9 DEF MpfCall, pget_mpf

\* Every step preserves the invariant of the pools, unless a block is released twice.
LEMMA MpfNextOK ==
  ASSUME "twice" \notin Api
  PROVE  MpfInv /\ [MpfNext]_pvars => MpfInv'
<1> SUFFICES ASSUME MpfInv, [MpfNext]_pvars PROVE MpfInv'
  OBVIOUS
<1>1. ASSUME [Next]_vars, UNCHANGED <<mpfcb, held>>, RelOK' PROVE MpfInv'
  BY <1>1, CorePools DEF MpfInv
<1>2. CASE UNCHANGED pvars
  <2>1. UNCHANGED vars /\ UNCHANGED <<mpfcb, held>> /\ relblk' = relblk
    BY <1>2 DEF pvars, mpvars
  <2>2. RelOK'
    BY <2>1 DEF MpfInv, RelOK
  <2> QED
    BY <1>1, <2>1, <2>2
<1>3. CASE OtherCall
  <2>1. /\ Next /\ UNCHANGED <<mpfcb, held>>
        /\ relblk' = [t \in Task |-> IF IsDormant(tcb'[t].tstat) THEN NoRel ELSE relblk[t]]
    BY <1>3 DEF OtherCall
  <2>2. RelOK'
    BY <2>1 DEF MpfInv, RelOK
  <2> QED
    BY <1>1, <2>1, <2>2
<1> QED
  BY <1>2, <1>3, MpfCallOK DEF MpfNext

\* THEOREM: each block of a memory pool is with one task, in the free list, or was
\* not used so far, and fblkcnt counts those that nobody has; no task waits while a
\* block is free; and what rel_mpf checked of a block without the CPU lock still
\* holds when it takes the lock.  All of it as long as the application returns a
\* block once, and only a block that it has.
THEOREM PoolsCorrect ==
  "twice" \notin Api /\ MpfSpec =>
    [](/\ \A p \in Mpf : BlocksPartitioned(p)
       /\ NobodyWaitsForFreeBlock /\ CheckStillHolds)
<1> DEFINE P == /\ \A p \in Mpf : BlocksPartitioned(p)
                /\ NobodyWaitsForFreeBlock /\ CheckStillHolds
<1> SUFFICES ASSUME "twice" \notin Api PROVE MpfSpec => []P
  OBVIOUS
<1>1. MpfInit => MpfInv
  BY PoolsInitOK DEF MpfInv
<1>2. MpfInv /\ [MpfNext]_pvars => MpfInv'
  BY MpfNextOK
<1>3. MpfInv => P
  <2> SUFFICES ASSUME MpfInv PROVE P
    OBVIOUS
  <2>1. \A p \in Mpf : BlocksPartitioned(p)
    BY PoolProperties DEF MpfInv
  <2>2. NobodyWaitsForFreeBlock
    BY DEF MpfInv, PoolOK, NobodyWaitsForFreeBlock
  <2>3. CheckStillHolds
    BY PoolProperties DEF MpfInv, RelOK, CheckStillHolds
  <2> QED
    BY <2>1, <2>2, <2>3
<1> QED
  BY <1>1, <1>2, <1>3, PTL DEF MpfSpec

-----------------------------------------------------------------------------
(* Who begins to wait. *)

\* Tasks begin to wait in no queue but those of W.
JoinsOnly(W) == \A w \in WObj \ W : wque[w] = << >> => wque'[w] = << >>

\* The kernel's own steps let nobody begin to wait for an object.
LEMMA CoreJoins ==
  ASSUME WaitInv, [Next]_vars
  PROVE  WaitInv' /\ JoinsOnly({})
<1>1. WaitInv' /\ (SameLengths \/ \E w \in WObj : OneLess(w))
  BY CoreWaits
<1>2. wque \in [WObj -> Seq(Task)] /\ wque' \in [WObj -> Seq(Task)]
  BY <1>1, QueueTypes, QueueTypesNext
<1>3. ASSUME NEW w \in WObj, wque[w] = << >> PROVE wque'[w] = << >>
  <2>1. CASE SameLengths
    <3>1. Len(wque'[w]) = 0
      BY <1>3, <2>1 DEF SameLengths
    <3> QED
      BY <1>2, <3>1, NotEmpty
  <2>2. ASSUME NEW x \in WObj, OneLess(x) PROVE wque'[w] = << >>
    <3>1. x # w
      BY <1>3, <2>2 DEF OneLess
    <3> QED
      BY <1>3, <2>2, <3>1 DEF OneLess
  <2> QED
    BY <1>1, <2>1, <2>2
<1> QED
  BY <1>1, <1>3 DEF JoinsOnly

\* A call releases the first waiter of an object, lets the caller wait, or empties
\* the queues of the object.
LEMMA CallJoins ==
  ASSUME WaitInv, NEW v \in WObj, NEW w \in WObj,
         \/ UNCHANGED vars
         \/ wque[v] # << >> /\ Return(ReleaseFirst(v))
         \/ wque[w] # << >> /\ Return(ReleaseFirst(w))
         \/ \E x \in {v, w}, timed \in BOOLEAN :
              CheckDispatch /\ ~tcb[runtsk].raster /\ Return(WObjMakeWait(K, x, timed))
         \/ Return(InitWaitQueue(K, w))
         \/ Return(InitWaitQueue(InitWaitQueue(K, v), w))
  PROVE  WaitInv' /\ JoinsOnly({v, w})
<1>0. wque \in [WObj -> Seq(Task)]
  BY QueueTypes
<1>1. CASE UNCHANGED vars
  BY <1>1, CoreUnchanged DEF JoinsOnly
<1>2. ASSUME NEW x \in {v, w}, wque[x] # << >>, Return(ReleaseFirst(x))
      PROVE  WaitInv' /\ JoinsOnly({v, w})
  <2>1. x \in WObj
    OBVIOUS
  <2>2. WaitInv' /\ wque' = [wque EXCEPT ![x] = Tail(@)]
    BY <1>2, <2>1, FirstLeaves DEF ReleaseFirst
  <2> QED
    BY <1>0, <2>1, <2>2 DEF JoinsOnly
<1>3. ASSUME NEW x \in {v, w}, NEW timed \in BOOLEAN,
             CheckDispatch, ~tcb[runtsk].raster, Return(WObjMakeWait(K, x, timed))
      PROVE  WaitInv' /\ JoinsOnly({v, w})
  <2>1. x \in WObj
    OBVIOUS
  <2>2. WaitInv' /\ \A y \in WObj \ {x} : wque'[y] = wque[y]
    BY <1>3, <2>1, RunningJoins
  <2> QED
    BY <2>2 DEF JoinsOnly
<1>4. CASE Return(InitWaitQueue(K, w))
  <2>1. WaitInv' /\ wque' = [wque EXCEPT ![w] = << >>]
    BY <1>4, AllLeave
  <2> QED
    BY <1>0, <2>1 DEF JoinsOnly
<1>5. CASE Return(InitWaitQueue(InitWaitQueue(K, v), w))
  <2>1. WaitInv' /\ \A x \in WObj \ {v, w} : wque'[x] = wque[x]
    BY <1>5, BothLeave
  <2> QED
    BY <2>1 DEF JoinsOnly
<1> QED
  BY <1>1, <1>2, <1>3, <1>4, <1>5

\* The calls on a semaphore.
LEMMA SemCallJoins ==
  ASSUME WaitInv, NEW x \in Sem, SemCall(x)
  PROVE  WaitInv' /\ JoinsOnly({x})
<1>1. x \in WObj
  BY SemaphoreAssumption
<1>2. CASE \/ UNCHANGED vars
           \/ wque[x] # << >> /\ Return(ReleaseFirst(x))
           \/ \E timed \in BOOLEAN :
                CheckDispatch /\ ~tcb[runtsk].raster /\ Return(WObjMakeWait(K, x, timed))
           \/ Return(InitWaitQueue(K, x))
  <2>1. WaitInv' /\ JoinsOnly({x, x})
    BY <1>1, <1>2, CallJoins
  <2> QED
    BY <2>1, {x, x} = {x}
<1> QED
  BY <1>2 DEF SemCall, sig_sem, pol_sem, ini_sem, wai_sem, ReleaseFirst

\* set_flg releases waiters of one flag.
LEMMA SetFlgJoins ==
  ASSUME FlgInv, NEW f \in Flg, NEW ptn \in FLGPTN, set_flg(f, ptn)
  PROVE  JoinsOnly({f})
<1>1. WaitInv /\ f \in WObj /\ Releases(K) /\ K.wque = wque /\ K'.wque = wque'
  BY PatternTypes, QueueTypes DEF FlgInv
<1>2. PICK T : Return(ReleaseWaiters(K, f, T))
  BY DEF set_flg, Serve
<1> DEFINE z == ReleaseWaiters(K, f, T)
<1>3. \A x \in WObj \ {f} : z.wque[x] = K.wque[x]
  BY <1>1, WalkOK DEF HaveLeft
<1>4. wque' = z.wque
  BY <1>2 DEF Return, DispatchIfNeeded, Becomes, Dispatch
<1> QED
  BY <1>1, <1>3, <1>4 DEF JoinsOnly

\* The calls on an event flag.
LEMMA FlgCallJoins ==
  ASSUME FlgInv, NEW f \in Flg, FlgCall(f)
  PROVE  JoinsOnly({f})
<1>1. f \in WObj /\ WaitInv
  BY PatternTypes DEF FlgInv
<1>2. CASE \/ UNCHANGED vars
           \/ \E timed \in BOOLEAN :
                CheckDispatch /\ ~tcb[runtsk].raster /\ Return(WObjMakeWait(K, f, timed))
           \/ Return(InitWaitQueue(K, f))
  <2>1. WaitInv' /\ JoinsOnly({f, f})
    BY <1>1, <1>2, CallJoins
  <2> QED
    BY <2>1, {f, f} = {f}
<1>3. ASSUME NEW ptn \in FLGPTN, set_flg(f, ptn) PROVE JoinsOnly({f})
  BY <1>3, SetFlgJoins
<1> QED
  BY <1>2, <1>3 DEF FlgCall, clr_flg, pol_flg, ini_flg, wai_flg, Poll

\* The calls on a data queue.
LEMMA DtqCallJoins ==
  ASSUME WaitInv, NEW d \in Dtq, DtqCall(d)
  PROVE  WaitInv' /\ JoinsOnly({SQ(d), RQ(d)})
<1>1. SQ(d) \in WObj /\ RQ(d) \in WObj
  BY DataQueueAssumption
<1> DEFINE v == SQ(d)
           w == RQ(d)
<1>2. \/ UNCHANGED vars
      \/ wque[v] # << >> /\ Return(ReleaseFirst(v))
      \/ wque[w] # << >> /\ Return(ReleaseFirst(w))
      \/ \E x \in {v, w}, timed \in BOOLEAN :
           CheckDispatch /\ ~tcb[runtsk].raster /\ Return(WObjMakeWait(K, x, timed))
      \/ Return(InitWaitQueue(InitWaitQueue(K, v), w))
  BY DEF DtqCall, psnd_dtq, fsnd_dtq, snd_dtq, rcv_dtq, prcv_dtq, ini_dtq, SendData,
         ForceSendData, HandToReceiver, ReceiveData, ReceiverWaits, SenderWaits
<1> HIDE DEF v, w
<1>3. v \in WObj /\ w \in WObj
  BY <1>1 DEF v, w
<1>4. WaitInv' /\ JoinsOnly({v, w})
  BY <1>2, <1>3, CallJoins
<1> QED
  BY <1>4 DEF v, w

\* The calls on a priority data queue.
LEMMA PdqCallJoins ==
  ASSUME WaitInv, NEW d \in Pdq, PdqCall(d)
  PROVE  WaitInv' /\ JoinsOnly({SQ(d), RQ(d)})
<1>1. SQ(d) \in WObj /\ RQ(d) \in WObj
  BY PriDataqAssumption
<1> DEFINE v == SQ(d)
           w == RQ(d)
<1>2. \/ UNCHANGED vars
      \/ wque[v] # << >> /\ Return(ReleaseFirst(v))
      \/ wque[w] # << >> /\ Return(ReleaseFirst(w))
      \/ \E x \in {v, w}, timed \in BOOLEAN :
           CheckDispatch /\ ~tcb[runtsk].raster /\ Return(WObjMakeWait(K, x, timed))
      \/ Return(InitWaitQueue(InitWaitQueue(K, v), w))
  BY DEF PdqCall, psnd_pdq, snd_pdq, rcv_pdq, prcv_pdq, ini_pdq, SendPridata,
         ReceivePridata, ReceiverWaits, SenderWaits
<1> HIDE DEF v, w
<1>3. v \in WObj /\ w \in WObj
  BY <1>1 DEF v, w
<1>4. WaitInv' /\ JoinsOnly({v, w})
  BY <1>2, <1>3, CallJoins
<1> QED
  BY <1>4 DEF v, w

\* The calls on a memory pool.
LEMMA MpfCallJoins ==
  ASSUME WaitInv, NEW p \in Mpf, DcreMpfCall(p)
  PROVE  WaitInv' /\ JoinsOnly({p})
<1>1. p \in WObj
  BY MempfixAssumption
<1>2. CASE \/ UNCHANGED vars
           \/ wque[p] # << >> /\ Return(ReleaseFirst(p))
           \/ \E timed \in BOOLEAN :
                CheckDispatch /\ ~tcb[runtsk].raster /\ Return(WObjMakeWait(K, p, timed))
           \/ Return(InitWaitQueue(K, p))
  <2>1. WaitInv' /\ JoinsOnly({p, p})
    BY <1>1, <1>2, CallJoins
  <2> QED
    BY <2>1, {p, p} = {p}
<1> QED
  BY <1>2 DEF DcreMpfCall, dcre_get_mpf, dcre_rel_mpf, dcre_pget_mpf, dcre_ini_mpf, get_mpf,
              pget_mpf, ini_mpf, TakeBlock, HandOverBlock, ReturnBlock, ReleaseFirst

-----------------------------------------------------------------------------
(* Objects that do not exist. *)

\* As long as nobody begins to wait there, nobody waits at what does not exist.
LEMMA AwaitedExist ==
  ASSUME NobodyAwaitsDeleted, exist' = exist, NEW W, JoinsOnly(W),
         \A x \in DynId \ exist : x \notin W /\ <<"S", x>> \notin W /\ <<"R", x>> \notin W
  PROVE  NobodyAwaitsDeleted'
BY DEF NobodyAwaitsDeleted, Waits, JoinsOnly

\* A new object takes nobody in, and the others stay as they are.
LEMMA CreatedAwaited ==
  ASSUME NobodyAwaitsDeleted, NEW k, NEW n, Create(k, n), wque' = wque
  PROVE  NobodyAwaitsDeleted'
BY DEF NobodyAwaitsDeleted, Waits, Create

\* Deleting an object empties its queues.
LEMMA DeletedAwaited ==
  ASSUME NobodyAwaitsDeleted, NEW k, NEW x, Unregister(k, x), JoinsOnly({}),
         \A w \in {x, <<"S", x>>, <<"R", x>>} \intersect WObj : wque'[w] = << >>
  PROVE  NobodyAwaitsDeleted'
<1>1. exist' = exist \ {x}
  BY DEF Unregister
<1> QED
  BY <1>1 DEF NobodyAwaitsDeleted, Waits, JoinsOnly

\* Semaphores with dynamic creation.
LEMMA DcreSemAwaited ==
  ASSUME WaitInv, NobodyAwaitsDeleted, [DcreSemNext]_<<svars, dynvars>>
  PROVE  WaitInv' /\ NobodyAwaitsDeleted'
<1>1. CASE [Next]_vars /\ exist' = exist
  BY <1>1, CoreJoins, AwaitedExist
<1>2. CASE acre_sem
  <2>1. UNCHANGED vars /\ Create("sem", 0)
    BY <1>2 DEF acre_sem
  <2> QED
    BY <2>1, CoreUnchanged, CreatedAwaited
<1>3. ASSUME NEW x \in Sem, Exists(x), SemCall(x), exist' = exist
      PROVE  WaitInv' /\ NobodyAwaitsDeleted'
  <2>1. WaitInv' /\ JoinsOnly({x})
    BY <1>3, SemCallJoins
  <2>2. \A y \in DynId \ exist : y # x /\ <<"S", y>> # x /\ <<"R", y>> # x
    BY <1>3, DcreSemAssumption DEF Exists
  <2> QED
    BY <1>3, <2>1, <2>2, AwaitedExist
<1>4. ASSUME NEW x \in Sem, del_sem(x) PROVE WaitInv' /\ NobodyAwaitsDeleted'
  <2>1. Unregister("sem", x) /\ Return(InitWaitQueue(K, x)) /\ x \in WObj
    BY <1>4, SemaphoreAssumption DEF del_sem
  <2>2. WaitInv' /\ wque' = [wque EXCEPT ![x] = << >>] /\ wque \in [WObj -> Seq(Task)]
    BY <2>1, AllLeave, QueueTypes
  <2>3. {x, <<"S", x>>, <<"R", x>>} \intersect WObj = {x}
    BY <2>1, DcreSemAssumption DEF Unregister
  <2>4. JoinsOnly({}) /\ wque'[x] = << >>
    BY <2>1, <2>2 DEF JoinsOnly
  <2> QED
    BY <2>1, <2>2, <2>3, <2>4, DeletedAwaited
<1>5. CASE UNCHANGED <<svars, dynvars>>
  BY <1>1, <1>5 DEF svars, dynvars
<1>6. CASE Next /\ SemKept
  BY <1>1, <1>6 DEF SemKept, dynvars
<1>7. ASSUME NEW x \in Sem, DcreSemCall(x) PROVE WaitInv' /\ NobodyAwaitsDeleted'
  <2>1. CASE del_sem(x)
    BY <1>4, <2>1
  <2>2. CASE Exists(x) /\ SemCall(x) /\ UNCHANGED dynvars
    BY <1>3, <2>2 DEF dynvars
  <2> QED
    BY <1>7, <2>1, <2>2 DEF DcreSemCall, SemCall, dcre_sig_sem, dcre_pol_sem, dcre_ini_sem,
                           dcre_wai_sem
<1> QED
  BY <1>2, <1>5, <1>6, <1>7 DEF DcreSemNext

\* A new object did not exist before.
LEMMA NewIdFree ==
  ASSUME DynInv, NEW k \in Kind, free[k] # << >>
  PROVE  NewId(k) \in Range(Dyn[k]) /\ NewId(k) \in DynId \ exist
<1>1. NewId(k) \in Range(Dyn[k])
  BY NewIdOK
<1>2. free[k] \in Seq(DynId) /\ IsInjective(free[k]) /\ Range(free[k]) = Range(Dyn[k]) \ exist
  BY DEF DynInv, DynTyped, ListsOK
<1>3. NewId(k) \in Range(free[k])
  BY <1>2, FirstGone DEF NewId
<1> QED
  BY <1>1, <1>2, <1>3 DEF DynId

\* Event flags with dynamic creation, whose own invariant holds, too.
LEMMA DcreFlgAwaited ==
  ASSUME FlgInv, NobodyAwaitsDeleted, DynInv, [DcreFlgNext]_<<evars, dynvars>>
  PROVE  FlgInv' /\ NobodyAwaitsDeleted'
<1>1. ASSUME [FlgNext]_evars, JoinsOnly({}), exist' = exist PROVE FlgInv' /\ NobodyAwaitsDeleted'
  <2>1. FlgInv'
    BY <1>1, FlgNextOK
  <2>2. NobodyAwaitsDeleted'
    BY <1>1, AwaitedExist
  <2> QED
    BY <2>1, <2>2
<1>2. WaitInv
  BY DEF FlgInv
<1>3. CASE UNCHANGED <<evars, dynvars>>
  <2>1. JoinsOnly({})
    BY <1>3 DEF JoinsOnly, evars, vars, kvars
  <2> QED
    BY <1>1, <1>3, <2>1 DEF evars, dynvars
<1>4. CASE Next /\ FlgKept /\ UNCHANGED dynvars
  <2>1. JoinsOnly({})
    BY <1>2, <1>4, CoreJoins
  <2> QED
    BY <1>1, <1>4, <2>1 DEF dynvars, FlgNext
<1>5. CASE acre_flg
  <2> DEFINE f == NewId("flg")
  <2>1. UNCHANGED vars /\ Create("flg", 0) /\ flgptn' = [flgptn EXCEPT ![f] = IFlgPtn[f]] /\ WinfoKept
    BY <1>5 DEF acre_flg
  <2>2. f \in Flg /\ f \in DynId \ exist
    <3>1. "flg" \in Kind /\ free["flg"] # << >>
      BY <2>1, DcreFlgAssumption DEF Create, Kind
    <3>2. f \in Range(Dyn["flg"]) /\ f \in DynId \ exist
      BY <3>1, NewIdFree
    <3> QED
      BY <3>1, <3>2, DcreFlgAssumption
  <2> HIDE DEF f
  <2>3. wque[f] = << >> /\ f \in WObj
    BY <2>2, PatternTypes DEF NobodyAwaitsDeleted, Waits
  <2>4. WaitInv' /\ wque' = wque /\ tcb' = tcb
    BY <1>2, <2>1, CoreUnchanged DEF vars, kvars
  <2>5. /\ wque \in [WObj -> Seq(Task)] /\ tcb' \in [Task -> TCB] /\ WaitsExact(K)
        /\ WaitsExact(K') /\ K.wque = wque /\ K'.tcb = K.tcb /\ K'.wque = K.wque
    BY <1>2, <2>4, QueueTypes, QueueTypesNext
  <2>6. \A e : WaitersOf(K', e) = WaitersOf(K, e)
    BY <2>5 DEF WaitersOf
  <2>7. WaitersOf(K, f) = {}
    BY <2>3, <2>5, RangeIsWaiters DEF Range
  <2>8. /\ flgptn' \in [Flg -> SUBSET Bit]
        /\ winfo' \in [Task -> [waiptn: SUBSET Bit, wfmode: WFMode]]
        /\ \A t \in Task : IsWaiting(tcb'[t].tstat) => winfo'[t] = winfo[t]
    BY <2>1, <2>2, PatternTypes DEF WinfoKept, WinfoOf
  <2>9. ASSUME NEW e \in Flg, NEW t \in WaitersOf(K', e)
        PROVE  ~Satisfied(flgptn'[e], winfo[t].waiptn, winfo[t].wfmode)
    <3>1. t \in WaitersOf(K, e) /\ e # f
      BY <2>6, <2>7, <2>9
    <3>2. flgptn'[e] = flgptn[e]
      BY <2>1, <3>1
    <3> QED
      BY <3>1, <3>2 DEF FlgInv, Awaited
  <2>10. Awaited'
    BY <2>5, <2>6, <2>8, <2>9, AwaitedKept
  <2> QED
    BY <2>1, <2>4, <2>10, CreatedAwaited DEF FlgInv
<1>6. ASSUME NEW f \in Flg, Exists(f), FlgCall(f), exist' = exist
      PROVE  FlgInv' /\ NobodyAwaitsDeleted'
  <2>1. FlgInv' /\ JoinsOnly({f})
    BY <1>6, FlgCallJoins, FlgNextOK DEF FlgNext
  <2>2. \A y \in DynId \ exist : y # f /\ <<"S", y>> # f /\ <<"R", y>> # f
    BY <1>6, DcreFlgAssumption DEF Exists
  <2> QED
    BY <1>6, <2>1, <2>2, AwaitedExist
<1>7. ASSUME NEW f \in Flg, del_flg(f) PROVE FlgInv' /\ NobodyAwaitsDeleted'
  <2>1. Unregister("flg", f) /\ Return(InitWaitQueue(K, f)) /\ f \in WObj /\ FlgKept
    BY <1>7, PatternTypes DEF del_flg
  <2>2. WaitInv' /\ wque' = [wque EXCEPT ![f] = << >>] /\ wque \in [WObj -> Seq(Task)]
    BY <1>2, <2>1, AllLeave, QueueTypes
  <2>3. {f, <<"S", f>>, <<"R", f>>} \intersect WObj = {f}
    BY <2>1, DcreFlgAssumption DEF Unregister
  <2>4. JoinsOnly({}) /\ wque'[f] = << >>
    BY <2>1, <2>2 DEF JoinsOnly
  <2>5. NobodyAwaitsDeleted'
    BY <2>1, <2>3, <2>4, DeletedAwaited
  <2>6. /\ WaitsExact(K) /\ tcb' \in [Task -> TCB]
        /\ WaitsExact(K') /\ K.wque = wque /\ K'.wque = wque'
    BY <1>2, <2>2, QueueTypes, QueueTypesNext
  <2>7. ASSUME NEW e \in Flg PROVE WaitersOf(K', e) \subseteq WaitersOf(K, e)
    <3>1. e \in WObj
      BY PatternTypes
    <3>2. Range(wque'[e]) \subseteq Range(wque[e])
      BY <2>2, <3>1 DEF Range
    <3> QED
      BY <1>2, <2>2, <3>1, <3>2, FewerWait
  <2>8. /\ flgptn' = flgptn
        /\ winfo' \in [Task -> [waiptn: SUBSET Bit, wfmode: WFMode]]
        /\ \A t \in Task : IsWaiting(tcb'[t].tstat) => winfo'[t] = winfo[t]
    BY <2>1, PatternTypes DEF FlgKept, WinfoKept, WinfoOf
  <2>9. \A e \in Flg : \A t \in WaitersOf(K', e) :
          ~Satisfied(flgptn'[e], winfo[t].waiptn, winfo[t].wfmode)
    BY <2>7, <2>8 DEF FlgInv, Awaited
  <2>10. flgptn' \in [Flg -> SUBSET Bit]
    BY <2>8, PatternTypes
  <2>11. Awaited'
    BY <2>6, <2>7, <2>8, <2>9, <2>10, AwaitedKept
  <2> QED
    BY <2>2, <2>5, <2>11 DEF FlgInv
<1>8. ASSUME NEW f \in Flg, DcreFlgCall(f) PROVE FlgInv' /\ NobodyAwaitsDeleted'
  <2>1. CASE del_flg(f)
    BY <1>7, <2>1
  <2>2. CASE Exists(f) /\ FlgCall(f) /\ UNCHANGED dynvars
    BY <1>6, <2>2 DEF dynvars
  <2> QED
    BY <1>8, <2>1, <2>2 DEF DcreFlgCall, FlgCall, dcre_set_flg, dcre_clr_flg, dcre_wai_flg,
                           dcre_pol_flg, dcre_ini_flg
<1> QED
  BY <1>3, <1>4, <1>5, <1>8 DEF DcreFlgNext

\* Data queues with dynamic creation.
LEMMA DcreDtqAwaited ==
  ASSUME DtqInv, NobodyAwaitsDeleted, DynInv, [DcreDtqNext]_<<dvars, dynvars>>
  PROVE  DtqInv' /\ NobodyAwaitsDeleted'
<1>1. WaitInv
  BY DEF DtqInv
<1>2. CASE UNCHANGED <<dvars, dynvars>>
  <2>1. JoinsOnly({})
    BY <1>2 DEF JoinsOnly, dvars, vars, kvars
  <2>2. NobodyAwaitsDeleted'
    BY <1>2, <2>1, AwaitedExist DEF dynvars
  <2>3. DtqInv'
    BY <1>2, DtqNextOK
  <2> QED
    BY <2>2, <2>3
<1>3. CASE Next /\ DtqKept /\ UNCHANGED dynvars
  <2>1. JoinsOnly({}) /\ exist' = exist
    BY <1>1, <1>3, CoreJoins DEF dynvars
  <2>2. NobodyAwaitsDeleted'
    BY <2>1, AwaitedExist
  <2>3. DtqInv'
    BY <1>3, DtqNextOK DEF DtqNext
  <2> QED
    BY <2>2, <2>3
<1>4. ASSUME NEW own \in BOOLEAN, acre_dtq(own) PROVE DtqInv' /\ NobodyAwaitsDeleted'
  <2>1. UNCHANGED <<vars, srvars>> /\ \E n : Create("dtq", n)
    BY <1>4 DEF acre_dtq
  <2>2. PICK d \in Dtq : d \in DynId \ exist /\ dtqcb' = [dtqcb EXCEPT ![d] = EmptyDtq(d)]
    <3>1. "dtq" \in Kind /\ free["dtq"] # << >>
      BY <2>1, DcreDtqAssumption DEF Create, Kind
    <3>2. NewId("dtq") \in Range(Dyn["dtq"]) /\ NewId("dtq") \in DynId \ exist
      BY <3>1, NewIdFree
    <3>3. dtqcb' = [dtqcb EXCEPT ![NewId("dtq")] = EmptyDtq(NewId("dtq"))]
      BY <1>4 DEF acre_dtq
    <3> QED
      BY <3>1, <3>2, <3>3, DcreDtqAssumption
  <2>3. wque[SQ(d)] = << >> /\ wque[RQ(d)] = << >>
    BY <2>2, DtqTypes DEF NobodyAwaitsDeleted, Waits, SQ, RQ
  <2>4. WaitInv' /\ wque' = wque /\ tcb' = tcb /\ sdata' = sdata
    BY <1>1, <2>1, CoreUnchanged DEF vars, kvars, srvars
  <2>5. /\ wque \in [WObj -> Seq(Task)] /\ K'.tcb = K.tcb /\ K'.wque = K.wque
    BY <1>1, <2>4, QueueTypes
  <2>6. \A w : WaitersOf(K', w) = WaitersOf(K, w)
    BY <2>5 DEF WaitersOf
  <2>7. BufferOK(d)'
    <3>1. IsRing(dtqcb'[d], DtqCnt[d], << >>)
      BY <2>2, DtqTypes, EmptyRing
    <3> QED
      BY <2>3, <2>4, <3>1 DEF BufferOK, ReceiverWaits, SenderWaits
  <2>8. dtqcb' = [e \in Dtq |-> dtqcb'[e]] /\ \A e \in Dtq : e # d => dtqcb'[e] = dtqcb[e]
    BY <2>2, DtqTypes
  <2>9. DtqInv'
    BY <2>4, <2>6, <2>7, <2>8, DtqStepOK
  <2> QED
    BY <2>1, <2>4, <2>9, CreatedAwaited
<1>5. ASSUME NEW d \in Dtq, Exists(d), DtqCall(d), exist' = exist
      PROVE  DtqInv' /\ NobodyAwaitsDeleted'
  <2>1. DtqInv'
    BY <1>5, DtqNextOK DEF DtqNext
  <2>2. JoinsOnly({SQ(d), RQ(d)})
    BY <1>1, <1>5, DtqCallJoins
  <2>3. \A x \in DynId \ exist : {x, SQ(x), RQ(x)} \intersect {SQ(d), RQ(d)} = {}
    <3>1. \A x \in DynId : x # SQ(d) /\ x # RQ(d)
      BY DcreDtqAssumption
    <3>2. \A x \in DynId \ exist : x # d
      BY <1>5 DEF Exists
    <3>3. \A x : SQ(x) # RQ(d) /\ RQ(x) # SQ(d) /\ (x # d => SQ(x) # SQ(d) /\ RQ(x) # RQ(d))
      BY QueueNames
    <3> QED
      BY <3>1, <3>2, <3>3
  <2> DEFINE W == {SQ(d), RQ(d)}
  <2>4. \A x \in DynId \ exist : x \notin W /\ <<"S", x>> \notin W /\ <<"R", x>> \notin W
    BY <2>3 DEF SQ, RQ
  <2> HIDE DEF W
  <2>5. JoinsOnly(W)
    BY <2>2 DEF W
  <2>6. NobodyAwaitsDeleted'
    BY <1>5, <2>4, <2>5, AwaitedExist
  <2> QED
    BY <2>1, <2>6
<1>6. ASSUME NEW d \in Dtq, del_dtq(d) PROVE DtqInv' /\ NobodyAwaitsDeleted'
  <2>1. /\ Unregister("dtq", d) /\ SQ(d) \in WObj /\ RQ(d) \in WObj
        /\ Return(InitWaitQueue(InitWaitQueue(K, SQ(d)), RQ(d)))
        /\ SendersKept /\ dtqcb' = dtqcb
    BY <1>6, DtqTypes DEF del_dtq, DtqKept
  <2>2. /\ WaitInv' /\ wque'[SQ(d)] = << >> /\ wque'[RQ(d)] = << >>
        /\ \A w \in WObj \ {SQ(d), RQ(d)} : wque'[w] = wque[w]
    BY <1>1, <2>1, BothLeave
  <2>3. d \notin WObj
    BY <2>1, DcreDtqAssumption DEF Unregister
  <2>4. JoinsOnly({})
    BY <2>2 DEF JoinsOnly
  <2>5. NobodyAwaitsDeleted'
    BY <2>1, <2>2, <2>3, <2>4, DeletedAwaited DEF SQ, RQ
  <2>6. ASSUME NEW e \in Dtq PROVE WaitersOf(K', SQ(e)) \subseteq WaitersOf(K, SQ(e))
    <3>1. SQ(e) \in WObj
      BY DtqTypes
    <3>2. Range(wque'[SQ(e)]) \subseteq Range(wque[SQ(e)])
      BY <2>2, <3>1 DEF Range
    <3> QED
      BY <1>1, <2>2, <3>1, <3>2, FewerWait
  <2>7. dtqcb' = [e \in Dtq |-> dtqcb'[e]]
    BY <2>1, DtqTypes
  <2>8. \A e \in Dtq : dtqcb'[e] = dtqcb[e] /\ (wque[RQ(e)] = << >> => wque'[RQ(e)] = << >>)
    BY <2>1, <2>4, DtqTypes DEF JoinsOnly
  <2>9. DtqInv'
    BY <2>1, <2>2, <2>6, <2>7, <2>8, DtqStepOK
  <2> QED
    BY <2>5, <2>9
<1>7. ASSUME NEW d \in Dtq, DcreDtqCall(d) PROVE DtqInv' /\ NobodyAwaitsDeleted'
  <2>1. Exists(d) /\ DtqCall(d) /\ exist' = exist
    BY <1>7 DEF DcreDtqCall, DtqCall, dcre_snd_dtq, dcre_psnd_dtq, dcre_fsnd_dtq, dcre_rcv_dtq,
                dcre_prcv_dtq, dcre_ini_dtq, dynvars
  <2> QED
    BY <1>5, <2>1
<1> QED
  BY <1>2, <1>3, <1>4, <1>6, <1>7 DEF DcreDtqNext

\* Priority data queues with dynamic creation.
LEMMA DcrePdqAwaited ==
  ASSUME PdqInv, NobodyAwaitsDeleted, DynInv, [DcrePdqNext]_<<qvars, dynvars>>
  PROVE  PdqInv' /\ NobodyAwaitsDeleted'
<1>1. WaitInv
  BY DEF PdqInv
<1>2. CASE UNCHANGED <<qvars, dynvars>>
  <2>1. JoinsOnly({})
    BY <1>2 DEF JoinsOnly, qvars, vars, kvars
  <2>2. NobodyAwaitsDeleted'
    BY <1>2, <2>1, AwaitedExist DEF dynvars
  <2>3. PdqInv'
    BY <1>2, PdqNextOK
  <2> QED
    BY <2>2, <2>3
<1>3. CASE Next /\ PdqKept /\ UNCHANGED dynvars
  <2>1. JoinsOnly({}) /\ exist' = exist
    BY <1>1, <1>3, CoreJoins DEF dynvars
  <2>2. NobodyAwaitsDeleted'
    BY <2>1, AwaitedExist
  <2>3. PdqInv'
    BY <1>3, PdqNextOK DEF PdqNext
  <2> QED
    BY <2>2, <2>3
<1>4. ASSUME NEW own \in BOOLEAN, acre_pdq(own) PROVE PdqInv' /\ NobodyAwaitsDeleted'
  <2>1. UNCHANGED <<vars, srvars>> /\ \E n : Create("pdq", n)
    BY <1>4 DEF acre_pdq
  <2>2. PICK d \in Pdq : d \in DynId \ exist /\ pdqcb' = [pdqcb EXCEPT ![d] = EmptyPdq(d)]
    <3>1. "pdq" \in Kind /\ free["pdq"] # << >>
      BY <2>1, DcrePdqAssumption DEF Create, Kind
    <3>2. NewId("pdq") \in Range(Dyn["pdq"]) /\ NewId("pdq") \in DynId \ exist
      BY <3>1, NewIdFree
    <3>3. pdqcb' = [pdqcb EXCEPT ![NewId("pdq")] = EmptyPdq(NewId("pdq"))]
      BY <1>4 DEF acre_pdq
    <3> QED
      BY <3>1, <3>2, <3>3, DcrePdqAssumption
  <2>3. wque[SQ(d)] = << >> /\ wque[RQ(d)] = << >>
    BY <2>2, PdqTypes DEF NobodyAwaitsDeleted, Waits, SQ, RQ
  <2>4. WaitInv' /\ wque' = wque /\ tcb' = tcb /\ sdata' = sdata
    BY <1>1, <2>1, CoreUnchanged DEF vars, kvars, srvars
  <2>5. /\ wque \in [WObj -> Seq(Task)] /\ K'.tcb = K.tcb /\ K'.wque = K.wque
    BY <1>1, <2>4, QueueTypes
  <2>6. \A w : WaitersOf(K', w) = WaitersOf(K, w)
    BY <2>5 DEF WaitersOf
  <2>7. CellsFit(d)'
    <3>1. IsCells(pdqcb'[d], PdqCnt[d]) /\ Len(pdqcb'[d].used) = 0
      BY <2>2, PdqTypes, EmptyCells
    <3> QED
      BY <2>3, <2>4, <3>1 DEF CellsFit, ReceiverWaits, SenderWaits
  <2>8. pdqcb' = [e \in Pdq |-> pdqcb'[e]] /\ \A e \in Pdq : e # d => pdqcb'[e] = pdqcb[e]
    BY <2>2, PdqTypes
  <2>9. PdqInv'
    BY <2>4, <2>6, <2>7, <2>8, PdqStepOK
  <2> QED
    BY <2>1, <2>4, <2>9, CreatedAwaited
<1>5. ASSUME NEW d \in Pdq, Exists(d), PdqCall(d), exist' = exist
      PROVE  PdqInv' /\ NobodyAwaitsDeleted'
  <2>1. PdqInv'
    BY <1>5, PdqNextOK DEF PdqNext
  <2>2. JoinsOnly({SQ(d), RQ(d)})
    BY <1>1, <1>5, PdqCallJoins
  <2>3. \A x \in DynId \ exist : {x, SQ(x), RQ(x)} \intersect {SQ(d), RQ(d)} = {}
    <3>1. \A x \in DynId : x # SQ(d) /\ x # RQ(d)
      BY DcrePdqAssumption
    <3>2. \A x \in DynId \ exist : x # d
      BY <1>5 DEF Exists
    <3>3. \A x : SQ(x) # RQ(d) /\ RQ(x) # SQ(d) /\ (x # d => SQ(x) # SQ(d) /\ RQ(x) # RQ(d))
      BY QueueNames
    <3> QED
      BY <3>1, <3>2, <3>3
  <2> DEFINE W == {SQ(d), RQ(d)}
  <2>4. \A x \in DynId \ exist : x \notin W /\ <<"S", x>> \notin W /\ <<"R", x>> \notin W
    BY <2>3 DEF SQ, RQ
  <2> HIDE DEF W
  <2>5. JoinsOnly(W)
    BY <2>2 DEF W
  <2>6. NobodyAwaitsDeleted'
    BY <1>5, <2>4, <2>5, AwaitedExist
  <2> QED
    BY <2>1, <2>6
<1>6. ASSUME NEW d \in Pdq, del_pdq(d) PROVE PdqInv' /\ NobodyAwaitsDeleted'
  <2>1. /\ Unregister("pdq", d) /\ SQ(d) \in WObj /\ RQ(d) \in WObj
        /\ Return(InitWaitQueue(InitWaitQueue(K, SQ(d)), RQ(d)))
        /\ SendersKept /\ pdqcb' = pdqcb
    BY <1>6, PdqTypes DEF del_pdq, PdqKept
  <2>2. /\ WaitInv' /\ wque'[SQ(d)] = << >> /\ wque'[RQ(d)] = << >>
        /\ \A w \in WObj \ {SQ(d), RQ(d)} : wque'[w] = wque[w]
    BY <1>1, <2>1, BothLeave
  <2>3. d \notin WObj
    BY <2>1, DcrePdqAssumption DEF Unregister
  <2>4. JoinsOnly({})
    BY <2>2 DEF JoinsOnly
  <2>5. NobodyAwaitsDeleted'
    BY <2>1, <2>2, <2>3, <2>4, DeletedAwaited DEF SQ, RQ
  <2>6. ASSUME NEW e \in Pdq PROVE WaitersOf(K', SQ(e)) \subseteq WaitersOf(K, SQ(e))
    <3>1. SQ(e) \in WObj
      BY PdqTypes
    <3>2. Range(wque'[SQ(e)]) \subseteq Range(wque[SQ(e)])
      BY <2>2, <3>1 DEF Range
    <3> QED
      BY <1>1, <2>2, <3>1, <3>2, FewerWait
  <2>7. pdqcb' = [e \in Pdq |-> pdqcb'[e]]
    BY <2>1, PdqTypes
  <2>8. \A e \in Pdq : pdqcb'[e] = pdqcb[e] /\ (wque[RQ(e)] = << >> => wque'[RQ(e)] = << >>)
    BY <2>1, <2>4, PdqTypes DEF JoinsOnly
  <2>9. PdqInv'
    BY <2>1, <2>2, <2>6, <2>7, <2>8, PdqStepOK
  <2> QED
    BY <2>5, <2>9
<1>7. ASSUME NEW d \in Pdq, DcrePdqCall(d) PROVE PdqInv' /\ NobodyAwaitsDeleted'
  <2>1. Exists(d) /\ PdqCall(d) /\ exist' = exist
    BY <1>7 DEF DcrePdqCall, PdqCall, dcre_snd_pdq, dcre_psnd_pdq, dcre_rcv_pdq,
                dcre_prcv_pdq, dcre_ini_pdq, dynvars
  <2> QED
    BY <1>5, <2>1
<1> QED
  BY <1>2, <1>3, <1>4, <1>6, <1>7 DEF DcrePdqNext

\* Memory pools with dynamic creation, whatever the application returns.
LEMMA DcreMpfAwaited ==
  ASSUME WaitInv, NobodyAwaitsDeleted, [DcreMpfNext]_<<pvars, dynvars>>
  PROVE  WaitInv' /\ NobodyAwaitsDeleted'
<1>1. CASE [Next]_vars /\ exist' = exist
  BY <1>1, CoreJoins, AwaitedExist
<1>2. ASSUME NEW own \in BOOLEAN, acre_mpf(own) PROVE WaitInv' /\ NobodyAwaitsDeleted'
  <2>1. UNCHANGED vars /\ \E n : Create("mpf", n)
    BY <1>2 DEF acre_mpf
  <2> QED
    BY <2>1, CoreUnchanged, CreatedAwaited
<1>3. ASSUME NEW p \in Mpf, DcreMpfCall(p) PROVE WaitInv' /\ NobodyAwaitsDeleted'
  <2>1. WaitInv' /\ JoinsOnly({p})
    BY <1>3, MpfCallJoins
  <2>2. Exists(p) /\ exist' = exist
    BY <1>3 DEF DcreMpfCall, dcre_get_mpf, dcre_rel_mpf, dcre_pget_mpf, dcre_ini_mpf, dynvars
  <2>3. \A y \in DynId \ exist : y # p /\ <<"S", y>> # p /\ <<"R", y>> # p
    BY <2>2, DcreMpfAssumption DEF Exists
  <2> QED
    BY <2>1, <2>2, <2>3, AwaitedExist
<1>4. ASSUME NEW p \in Mpf, del_mpf(p) PROVE WaitInv' /\ NobodyAwaitsDeleted'
  <2>1. Unregister("mpf", p) /\ Return(InitWaitQueue(K, p)) /\ p \in WObj
    BY <1>4, MempfixAssumption DEF del_mpf
  <2>2. WaitInv' /\ wque' = [wque EXCEPT ![p] = << >>] /\ wque \in [WObj -> Seq(Task)]
    BY <2>1, AllLeave, QueueTypes
  <2>3. {p, <<"S", p>>, <<"R", p>>} \intersect WObj = {p}
    BY <2>1, DcreMpfAssumption DEF Unregister
  <2>4. JoinsOnly({}) /\ wque'[p] = << >>
    BY <2>1, <2>2 DEF JoinsOnly
  <2> QED
    BY <2>1, <2>2, <2>3, <2>4, DeletedAwaited
<1>5. CASE UNCHANGED <<pvars, dynvars>>
  BY <1>1, <1>5 DEF pvars, dynvars
<1>6. CASE OtherCall /\ UNCHANGED dynvars
  BY <1>1, <1>6 DEF OtherCall, dynvars
<1> QED
  BY <1>2, <1>3, <1>4, <1>5, <1>6 DEF DcreMpfNext

\* Semaphores with dynamic creation: their counts.
LEMMA DcreSemCounted ==
  ASSUME SemInv, NobodyAwaitsDeleted, DynInv, [DcreSemNext]_<<svars, dynvars>>
  PROVE  SemInv' /\ NobodyAwaitsDeleted'
<1>1. WaitInv /\ WaitInv' /\ NobodyAwaitsDeleted'
  BY DcreSemAwaited DEF SemInv
<1>2. CASE [SemNext]_svars
  BY <1>1, <1>2, SemNextOK
<1>3. CASE acre_sem
  <2>1. UNCHANGED vars /\ Create("sem", 0)
    BY <1>3 DEF acre_sem
  <2>2. PICK x \in Sem : x \in DynId \ exist /\ semcnt' = [semcnt EXCEPT ![x] = ISemCnt[x]]
    <3>1. "sem" \in Kind /\ free["sem"] # << >>
      BY <2>1, DcreSemAssumption DEF Create, Kind
    <3>2. NewId("sem") \in Range(Dyn["sem"]) /\ NewId("sem") \in DynId \ exist
      BY <3>1, NewIdFree
    <3> QED
      BY <1>3, <3>2, DcreSemAssumption DEF acre_sem
  <2>3. wque[x] = << >> /\ wque' = wque
    BY <2>1, <2>2, CountTypes DEF NobodyAwaitsDeleted, Waits, vars, kvars
  <2>4. Counted'
    BY <2>2, <2>3, CountTypes DEF Counted
  <2> QED
    BY <1>1, <2>4 DEF SemInv
<1>4. ASSUME NEW x \in Sem, del_sem(x) PROVE SemInv' /\ NobodyAwaitsDeleted'
  <2>1. semcnt' = semcnt /\ x \in WObj /\ Return(InitWaitQueue(K, x))
    BY <1>4, CountTypes DEF del_sem
  <2>2. wque' = [wque EXCEPT ![x] = << >>]
    BY <1>1, <2>1, AllLeave
  <2>3. Counted'
    BY <2>1, <2>2, CountTypes DEF Counted
  <2> QED
    BY <1>1, <2>3 DEF SemInv
<1>5. CASE UNCHANGED <<svars, dynvars>>
  BY <1>2, <1>5
<1>6. CASE Next /\ SemKept
  BY <1>2, <1>6 DEF SemKept, SemNext
<1>7. ASSUME NEW x \in Sem, DcreSemCall(x) PROVE SemInv' /\ NobodyAwaitsDeleted'
  <2>1. CASE del_sem(x)
    BY <1>4, <2>1
  <2>2. CASE SemCall(x)
    BY <1>2, <2>2 DEF SemNext
  <2> QED
    BY <1>7, <2>1, <2>2 DEF DcreSemCall, SemCall, dcre_sig_sem, dcre_pol_sem, dcre_ini_sem,
                           dcre_wai_sem
<1> QED
  BY <1>3, <1>5, <1>6, <1>7 DEF DcreSemNext

\* Initially no object exists that is created later, and nobody waits.
LEMMA InitAwaited == Init => NobodyAwaitsDeleted
BY InitWaits DEF NobodyAwaitsDeleted, Waits

\* What a memory pool is when it does not exist: nobody has one of its blocks.
DcrePoolOK(p) == IF Exists(p) THEN PoolOK(p) ELSE \A t \in Task : held[t][p] = {}

DcreMpfInv ==
  /\ WaitInv /\ PoolsTyped /\ NobodyAwaitsDeleted
  /\ \A p \in Mpf : DcrePoolOK(p)

\* A step on one pool leaves the others as they are.
LEMMA OtherPools ==
  ASSUME DcreMpfInv, NEW p \in Mpf, OthersKept(p), NEW r \in Mpf, r # p,
         r \in exist' <=> r \in exist
  PROVE  DcrePoolOK(r)'
<1>1. /\ mpfcb'[r] = mpfcb[r] /\ \A t \in Task : held'[t][r] = held[t][r]
      /\ wque[r] = << >> => wque'[r] = << >>
  BY DEF OthersKept
<1>2. DcrePoolOK(r) /\ (Exists(r)' <=> Exists(r))
  BY DEF DcreMpfInv, Exists
<1>3. CASE Exists(r)
  <2>1. PoolOK(r)'
    BY <1>1, <1>2, <1>3, PoolKept DEF DcrePoolOK
  <2> QED
    BY <1>2, <1>3, <2>1 DEF DcrePoolOK
<1>4. CASE ~Exists(r)
  BY <1>1, <1>2, <1>4 DEF DcrePoolOK
<1> QED
  BY <1>3, <1>4

\* The calls on a memory pool that exists.
LEMMA DcreMpfCallOK ==
  ASSUME DcreMpfInv, "twice" \notin Api, NEW p \in Mpf, DcreMpfCall(p)
  PROVE  PoolsTyped' /\ \A r \in Mpf : DcrePoolOK(r)'
<1>1. Exists(p) /\ UNCHANGED dynvars
  BY DEF DcreMpfCall, dcre_get_mpf, dcre_rel_mpf, dcre_pget_mpf, dcre_ini_mpf
<1>2. WaitInv /\ PoolsTyped /\ PoolOK(p) /\ exist' = exist
  BY <1>1 DEF DcreMpfInv, DcrePoolOK, dynvars
<1>3. ASSUME PoolsTyped', PoolOK(p)', OthersKept(p)
      PROVE  PoolsTyped' /\ \A r \in Mpf : DcrePoolOK(r)'
  <2>1. DcrePoolOK(p)'
    BY <1>1, <1>2, <1>3 DEF DcrePoolOK, Exists
  <2>2. \A r \in Mpf : r # p => DcrePoolOK(r)'
    BY <1>2, <1>3, OtherPools
  <2> QED
    BY <1>3, <2>1, <2>2
<1>4. ASSUME TakeBlock(p), TskCtxUnl PROVE PoolsTyped' /\ PoolOK(p)' /\ OthersKept(p)
  BY <1>2, <1>4, CallerRuns, TakeBlockOK
<1>5. ASSUME NEW timed \in BOOLEAN, get_mpf(p, timed) PROVE PoolsTyped' /\ PoolOK(p)' /\ OthersKept(p)
  <2>1. CheckDispatch /\ TskCtxUnl /\ ~tcb[runtsk].raster
    BY <1>5 DEF get_mpf, CheckDispatch
  <2>2. CASE mpfcb[p].fblkcnt = 0 /\ Return(WObjMakeWait(K, p, timed)) /\ UNCHANGED mpvars
    <3>1. UNCHANGED <<mpfcb, held>>
      BY <2>2 DEF mpvars
    <3> QED
      BY <1>2, <2>1, <2>2, <3>1, AwaitBlockOK
  <2> QED
    BY <1>4, <1>5, <2>1, <2>2 DEF get_mpf
<1>6. ASSUME NEW b \in Blk(p), dcre_rel_mpf(p, b) PROVE PoolsTyped' /\ PoolOK(p)' /\ OthersKept(p)
  <2>1. /\ runtsk \in Task /\ b \in held[runtsk][p]
        /\ \/ wque[p] # << >> /\ HandOverBlock(p, b)
           \/ wque[p] = << >> /\ ReturnBlock(p, b)
    BY <1>2, <1>6, CallerRuns DEF dcre_rel_mpf
  <2> QED
    BY <1>2, <2>1, BlockReturned
<1>7. ASSUME ini_mpf(p) PROVE PoolsTyped' /\ PoolOK(p)' /\ OthersKept(p)
  <2>1. /\ Return(InitWaitQueue(K, p))
        /\ held' = [t \in Task |-> [held[t] EXCEPT ![p] = {}]]
        /\ mpfcb' = [mpfcb EXCEPT ![p] = EmptyPool(p, @.next)]
    BY <1>7 DEF ini_mpf
  <2>2. mpfcb'[p] = EmptyPool(p, mpfcb[p].next)
    BY <1>2, <2>1 DEF PoolsTyped
  <2> QED
    BY <1>2, <2>1, <2>2, EmptiedOK
<1>8. PoolsTyped' /\ PoolOK(p)' /\ OthersKept(p)
  BY <1>4, <1>5, <1>6, <1>7 DEF DcreMpfCall, dcre_get_mpf, dcre_pget_mpf, dcre_ini_mpf, pget_mpf
<1> QED
  BY <1>3, <1>8

\* acre_mpf makes an empty pool.
LEMMA AcreMpfOK ==
  ASSUME DcreMpfInv, DynInv, NEW own \in BOOLEAN, acre_mpf(own)
  PROVE  PoolsTyped' /\ \A r \in Mpf : DcrePoolOK(r)'
<1>1. UNCHANGED vars /\ held' = held /\ \E n : Create("mpf", n)
  BY DEF acre_mpf
<1>2. PICK p \in Mpf : /\ p \in DynId \ exist /\ exist' = exist \union {p}
                       /\ mpfcb' = [mpfcb EXCEPT ![p] = EmptyPool(p, @.next)]
  <2>1. "mpf" \in Kind /\ free["mpf"] # << >>
    BY <1>1, DcreMpfAssumption DEF Create, Kind
  <2>2. NewId("mpf") \in Range(Dyn["mpf"]) /\ NewId("mpf") \in DynId \ exist
    BY <2>1, NewIdFree
  <2>3. exist' = exist \union {NewId("mpf")}
    BY <1>1 DEF Create
  <2> QED
    BY <2>2, <2>3, DcreMpfAssumption DEF acre_mpf
<1>3. /\ WaitInv /\ PoolsTyped /\ p \in WObj /\ p \in Mpf /\ ~Exists(p)
      /\ wque \in [WObj -> Seq(Task)]
  BY <1>2, MempfixAssumption, QueueTypes DEF DcreMpfInv, Exists
<1>4. wque[p] = << >> /\ wque' = wque /\ \A t \in Task : held[t][p] = {}
  <2>1. wque[p] = << >>
    BY <1>2, <1>3 DEF DcreMpfInv, NobodyAwaitsDeleted, Waits
  <2>2. wque' = wque
    BY <1>1 DEF vars, kvars
  <2> QED
    BY <1>2, <1>3, <2>1, <2>2 DEF DcreMpfInv, DcrePoolOK
<1> DEFINE c == EmptyPool(p, mpfcb[p].next)
<1>5. /\ mpfcb[p].next \in [Blk(p) -> Int] /\ mpfcb'[p] = c
      /\ \A r \in Mpf : r # p => mpfcb'[r] = mpfcb[r]
  BY <1>2, <1>3 DEF PoolsTyped
<1>6. PoolExact(p, c, {}) /\ c \in [fblkcnt: Int, unused: Int, freelist: Int, next: [Blk(p) -> Int]]
  <2>1. BlkCnt[p] \in Int /\ INDEX_NULL \in Int
    BY MempfixAssumption DEF INDEX_NULL
  <2> QED
    BY <1>5, <2>1, EmptyPoolOK DEF EmptyPool
<1> HIDE DEF c
<1>7. PoolsTyped'
  BY <1>1, <1>2, <1>3, <1>5, <1>6 DEF PoolsTyped
<1>8. Taken(p)' = {}
  BY <1>1, <1>4 DEF Taken
<1>9. PoolOK(p)'
  BY <1>1, <1>4, <1>5, <1>6, <1>8 DEF PoolOK
<1>10. DcrePoolOK(p)'
  BY <1>2, <1>9 DEF DcrePoolOK, Exists
<1>11. OthersKept(p)
  BY <1>1, <1>4, <1>5 DEF OthersKept
<1>12. ASSUME NEW r \in Mpf, r # p PROVE DcrePoolOK(r)'
  BY <1>2, <1>11, <1>12, OtherPools
<1> QED
  BY <1>7, <1>10, <1>12

\* del_mpf: the application gives up the blocks, and the waiters are released.
LEMMA DelMpfOK ==
  ASSUME DcreMpfInv, NEW p \in Mpf, del_mpf(p)
  PROVE  PoolsTyped' /\ \A r \in Mpf : DcrePoolOK(r)'
<1>1. /\ Return(InitWaitQueue(K, p)) /\ mpfcb' = mpfcb
      /\ held' = [t \in Task |-> [held[t] EXCEPT ![p] = {}]]
      /\ p \in DynId /\ exist' = exist \ {p}
  BY DcreMpfAssumption DEF del_mpf, Unregister, DynId, Kind
<1>2. WaitInv /\ PoolsTyped
  BY DEF DcreMpfInv
<1>3. PoolsTyped' /\ OthersKept(p) /\ \A t \in Task : held'[t][p] = {}
  BY <1>1, <1>2, EmptiedOK
<1>4. DcrePoolOK(p)'
  BY <1>1, <1>3 DEF DcrePoolOK, Exists
<1>5. ASSUME NEW r \in Mpf, r # p PROVE DcrePoolOK(r)'
  BY <1>1, <1>3, <1>5, OtherPools
<1> QED
  BY <1>3, <1>4, <1>5

\* Every step preserves the invariant of memory pools with dynamic creation.
LEMMA DcreMpfOK ==
  ASSUME "twice" \notin Api, DcreMpfInv, DynInv, [DcreMpfNext]_<<pvars, dynvars>>
  PROVE  DcreMpfInv'
<1>1. WaitInv' /\ NobodyAwaitsDeleted'
  BY DcreMpfAwaited DEF DcreMpfInv
<1>2. ASSUME [Next]_vars, UNCHANGED <<mpfcb, held>>, exist' = exist
      PROVE  PoolsTyped' /\ \A r \in Mpf : DcrePoolOK(r)'
  <2>1. PoolsTyped' /\ \A r \in Mpf : PoolOK(r) => PoolOK(r)'
    BY <1>2, CorePools DEF DcreMpfInv
  <2>2. ASSUME NEW r \in Mpf PROVE DcrePoolOK(r)'
    <3>1. DcrePoolOK(r) /\ (Exists(r)' <=> Exists(r))
      BY <1>2 DEF DcreMpfInv, Exists
    <3>2. CASE Exists(r)
      BY <2>1, <3>1, <3>2 DEF DcrePoolOK
    <3>3. CASE ~Exists(r)
      BY <1>2, <3>1, <3>3 DEF DcrePoolOK
    <3> QED
      BY <3>2, <3>3
  <2> QED
    BY <2>1, <2>2
<1>3. PoolsTyped' /\ \A r \in Mpf : DcrePoolOK(r)'
  <2>1. CASE UNCHANGED <<pvars, dynvars>>
    BY <1>2, <2>1 DEF pvars, mpvars, dynvars
  <2>2. CASE OtherCall /\ UNCHANGED dynvars
    BY <1>2, <2>2 DEF OtherCall, dynvars
  <2>3. CASE \E own \in BOOLEAN : acre_mpf(own)
    BY <2>3, AcreMpfOK
  <2>4. CASE \E p \in Mpf : del_mpf(p)
    BY <2>4, DelMpfOK
  <2>5. CASE \E p \in Mpf : DcreMpfCall(p)
    BY <2>5, DcreMpfCallOK
  <2> QED
    BY <2>1, <2>2, <2>3, <2>4, <2>5 DEF DcreMpfNext
<1> QED
  BY <1>1, <1>3 DEF DcreMpfInv

-----------------------------------------------------------------------------
(* What holds of objects that come and go. *)

\* Semaphores.
LEMMA DcreSemHolds == DcreSemSpec => [](SemInv /\ NobodyAwaitsDeleted)
<1>1. DcreSemInit => SemInv /\ NobodyAwaitsDeleted
  BY SemInitOK, InitAwaited DEF DcreSemInit, SemInit
<1> QED
  BY <1>1, DcreSemDynamic, DcreSemCounted, PTL DEF DcreSemSpec

\* Event flags.
LEMMA DcreFlgHolds == DcreFlgSpec => [](FlgInv /\ NobodyAwaitsDeleted)
<1>1. DcreFlgInit => FlgInv /\ NobodyAwaitsDeleted
  BY FlgInitOK, InitAwaited DEF DcreFlgInit, FlgInit
<1> QED
  BY <1>1, DcreFlgDynamic, DcreFlgAwaited, PTL DEF DcreFlgSpec

\* Data queues.
LEMMA DcreDtqHolds == DcreDtqSpec => [](DtqInv /\ NobodyAwaitsDeleted)
<1>1. DcreDtqInit => DtqInv /\ NobodyAwaitsDeleted
  BY DtqInitOK, InitAwaited DEF DcreDtqInit, DtqInit
<1> QED
  BY <1>1, DcreDtqDynamic, DcreDtqAwaited, PTL DEF DcreDtqSpec

\* Priority data queues.
LEMMA DcrePdqHolds == DcrePdqSpec => [](PdqInv /\ NobodyAwaitsDeleted)
<1>1. DcrePdqInit => PdqInv /\ NobodyAwaitsDeleted
  BY PdqInitOK, InitAwaited DEF DcrePdqInit, PdqInit
<1> QED
  BY <1>1, DcrePdqDynamic, DcrePdqAwaited, PTL DEF DcrePdqSpec

\* Memory pools, whatever blocks the application returns.
LEMMA DcreMpfWaits == DcreMpfSpec => [](WaitInv /\ NobodyAwaitsDeleted)
<1>1. DcreMpfInit => WaitInv /\ NobodyAwaitsDeleted
  BY InitWaitInv, InitAwaited DEF DcreMpfInit, MpfInit
<1> QED
  BY <1>1, DcreMpfAwaited, PTL DEF DcreMpfSpec

\* Memory pools, when the application returns each block once.
LEMMA DcreMpfHolds ==
  ASSUME "twice" \notin Api
  PROVE  DcreMpfSpec => []DcreMpfInv
<1>1. ASSUME DcreMpfInit PROVE DcreMpfInv
  <2>1. MpfInit /\ Init
    BY <1>1 DEF DcreMpfInit, MpfInit
  <2> QED
    BY <2>1, PoolsInitOK, InitAwaited DEF DcreMpfInv, DcrePoolOK
<1>2. DcreMpfInv /\ DynInv /\ [DcreMpfNext]_<<pvars, dynvars>> => DcreMpfInv'
  BY DcreMpfOK
<1> QED
  BY <1>1, <1>2, DcreMpfDynamic, PTL DEF DcreMpfSpec

\* Deleting a semaphore, an event flag, a data queue, a priority data queue or a
\* memory pool releases all who wait there, also those in both queues of a data
\* queue, and no call lets a task wait at an object that was deleted or is not
\* created yet: no task waits at an object that does not exist.
THEOREM DeletedNotAwaited ==
  /\ DcreSemSpec => []NobodyAwaitsDeleted
  /\ DcreFlgSpec => []NobodyAwaitsDeleted
  /\ DcreDtqSpec => []NobodyAwaitsDeleted
  /\ DcrePdqSpec => []NobodyAwaitsDeleted
  /\ DcreMpfSpec => []NobodyAwaitsDeleted
BY DcreSemHolds, DcreFlgHolds, DcreDtqHolds, DcrePdqHolds, DcreMpfWaits, PTL

\* No task waits at a memory pool while a block is free, and the blocks of a pool
\* that exists are those the tasks have and those that are free.
LEMMA DcrePoolsOK ==
  ASSUME DcreMpfInv
  PROVE  NobodyWaitsForFreeBlock /\ \A p \in Mpf : Exists(p) => BlocksPartitioned(p)
<1>1. ASSUME NEW p \in Mpf, wque[p] # << >> PROVE mpfcb[p].fblkcnt = 0
  <2>1. p \in WObj
    BY MempfixAssumption
  <2>2. Exists(p)
    BY <1>1, <2>1 DEF DcreMpfInv, NobodyAwaitsDeleted, Waits, Exists
  <2> QED
    BY <1>1, <2>2 DEF DcreMpfInv, DcrePoolOK, PoolOK
<1>2. ASSUME NEW p \in Mpf, Exists(p) PROVE BlocksPartitioned(p)
  BY <1>2, PoolProperties DEF DcreMpfInv, DcrePoolOK
<1> QED
  BY <1>1, <1>2 DEF NobodyWaitsForFreeBlock

\* However objects are deleted and created again under the same ID, with whatever
\* the old object left in its control block, nobody waits for what is there: a
\* unit of a semaphore, a pattern that satisfies the wait, a datum or room in a
\* queue, a block. The cells of a priority data queue and, when the application
\* returns each block once, the blocks of a pool are in one place each.
THEOREM DynamicWaitsJustified ==
  /\ DcreSemSpec => []NobodyWaitsForFreeUnit
  /\ DcreFlgSpec => []NoSatisfiedWaiter
  /\ DcreDtqSpec => []DtqWaitsAreJustified
  /\ DcrePdqSpec => [](PdqWaitsAreJustified /\ CellsPartitioned)
  /\ "twice" \notin Api /\ DcreMpfSpec =>
       [](NobodyWaitsForFreeBlock /\ \A p \in Mpf : Exists(p) => BlocksPartitioned(p))
<1>1. SemInv => NobodyWaitsForFreeUnit
  BY DEF SemInv, Counted, NobodyWaitsForFreeUnit
<1>2. FlgInv => NoSatisfiedWaiter
  BY PatternTypes, RangeIsWaiters, QueueTypes DEF FlgInv, Awaited, NoSatisfiedWaiter
<1>3. DcreSemSpec => []NobodyWaitsForFreeUnit
  BY <1>1, DcreSemHolds, PTL
<1>4. DcreFlgSpec => []NoSatisfiedWaiter
  BY <1>2, DcreFlgHolds, PTL
<1>5. DcreDtqSpec => []DtqWaitsAreJustified
  BY DtqInvJustifies, DcreDtqHolds, PTL
<1>6. DcrePdqSpec => [](PdqWaitsAreJustified /\ CellsPartitioned)
  BY PdqInvJustifies, PdqInvPartitions, DcrePdqHolds, PTL
<1>7. ASSUME "twice" \notin Api
      PROVE  DcreMpfSpec =>
               [](NobodyWaitsForFreeBlock /\ \A p \in Mpf : Exists(p) => BlocksPartitioned(p))
  <2> DEFINE P == NobodyWaitsForFreeBlock /\ \A p \in Mpf : Exists(p) => BlocksPartitioned(p)
  <2>1. DcreMpfInv => P
    BY DcrePoolsOK
  <2>2. DcreMpfSpec => []DcreMpfInv
    BY <1>7, DcreMpfHolds
  <2> QED
    BY <2>1, <2>2, PTL
<1> QED
  BY <1>3, <1>4, <1>5, <1>6, <1>7
-----------------------------------------------------------------------------
(* Tasks and mutexes that come and go. *)

\* A task that does not exist is dormant, and a mutex that does not exist is free.
Absent ==
  \A x \in DynId \ exist : /\ x \in Task => IsDormant(tcb[x].tstat)
                           /\ x \in Mtx => loctsk[x] = NULL

DtInv == MtxInv /\ Absent

\* Nobody waits for a mutex that is free, and a dormant task holds none.
LEMMA FreeFacts ==
  ASSUME MtxInv
  PROVE  /\ \A m \in Mtx : loctsk[m] = NULL => wque[m] = << >> /\ NextOwner(KM, m) = NULL
         /\ \A t \in Task : IsDormant(tcb[t].tstat) => tcb[t] = InitTCB(t) /\ lastmtx[t] = << >>
<1>1. OwnershipExact /\ DormantIsClean
  BY OwnershipOfInvariant, KernelOfInvariant
<1> QED
  BY <1>1, MtxFields DEF OwnershipExact, DormantIsClean, NextOwner

\* A call locks no free mutex and activates at most one task, which exists.
LEMMA MoveAbsent ==
  ASSUME DtInv, NEW t, MtxMove(t), exist \subseteq exist',
         t \notin Task \/ t \notin DynId \ exist' \/ ~IsDormant(tcb[t].tstat)
  PROVE  DtInv'
<1> SUFFICES ASSUME NEW x \in DynId \ exist'
             PROVE  /\ x \in Task => IsDormant(tcb'[x].tstat)
                    /\ x \in Mtx => loctsk'[x] = NULL
  BY DEF DtInv, Absent, MtxMove
<1>1. x \in DynId \ exist
  OBVIOUS
<1>2. ASSUME x \in Task PROVE IsDormant(tcb'[x].tstat)
  <2>1. IsDormant(tcb[x].tstat)
    BY <1>1, <1>2 DEF DtInv, Absent
  <2> QED
    BY <1>2, <2>1 DEF MtxMove, LeavesDormant
<1>3. ASSUME x \in Mtx PROVE loctsk'[x] = NULL
  <2>1. loctsk[x] = NULL /\ NextOwner(KM, x) = NULL
    BY <1>1, <1>3, FreeFacts DEF DtInv, Absent
  <2> QED
    BY <1>3, <2>1 DEF MtxMove
<1> QED
  BY <1>2, <1>3

\* The same of a call that changes the control block of the task t only.
LEMMA QuietAbsent ==
  ASSUME DtInv, [Next]_vars, NEW t, RankStep(t), UNCHANGED mtxvars, exist \subseteq exist',
         t \notin Task \/ t \notin DynId \ exist' \/ ~IsDormant(tcb[t].tstat)
  PROVE  DtInv'
<1>1. MtxMove(t)
  BY QuietOwn DEF DtInv
<1> QED
  BY <1>1, MoveAbsent

\* The running task is not dormant.
LEMMA RunningActive ==
  ASSUME DtInv
  PROVE  runtsk \notin Task \/ ~IsDormant(tcb[runtsk].tstat)
<1>1. NULL \notin Task
  BY MtxTypes DEF DtInv
<1> QED
  BY <1>1, RunningChain DEF DtInv

\* Nothing changes.
LEMMA SameAbsent ==
  ASSUME DtInv, UNCHANGED <<vars, mtxvars>>, exist \subseteq exist'
  PROVE  DtInv'
<1>1. tcb' = tcb
  BY DEF vars, kvars
<1>2. RankStep(runtsk)
  BY <1>1, SameRank DEF DtInv
<1> QED
  BY <1>2, RunningActive, QuietAbsent

\* The calls on one task.
LEMMA DcreTaskAbsent ==
  ASSUME DtInv, NEW t \in Task, DcreTaskCall(t)
  PROVE  DtInv'
<1>1. exist' = exist /\ MtxInv
  BY DEF DcreTaskCall, dynvars, DtInv
<1>2. CASE Exists(t) /\ PlainTaskCall(t) /\ UNCHANGED mtxvars
  <2>1. [Next]_vars
    BY <1>2 DEF Next, PlainCall
  <2>2. RankStep(t)
    BY <1>1, <1>2, PlainTaskRank
  <2> QED
    BY <1>1, <1>2, <2>1, <2>2, QuietAbsent DEF Exists
<1>3. CASE Exists(t) /\ MtxTaskCall(t)
  BY <1>1, <1>3, TaskCallOwn, MoveAbsent DEF Exists
<1>4. CASE TimerExpires(t) /\ UNCHANGED mtxvars
  <2>1. MtxMove(t)
    BY <1>1, <1>4, TaskCallOwn DEF MtxTaskCall
  <2>2. IsWaiting(tcb[t].tstat)
    BY <1>1, <1>4, MtxTypes, QueueTypes, TaskBefore DEF TimerExpires, TcbOK
  <2>3. ~IsDormant(tcb[t].tstat)
    BY <2>2 DEF IsWaiting, IsDormant
  <2> QED
    BY <1>1, <2>1, <2>3, MoveAbsent
<1> QED
  BY <1>2, <1>3, <1>4
  DEF DcreTaskCall, DcrePlainCall, PlainTaskCall, MtxTaskCall, dcre_act_tsk, dcre_can_act,
      dcre_chg_pri, dcre_ras_ter, dcre_ter_tsk, dcre_wup_tsk, dcre_can_wup, dcre_rel_wai,
      dcre_sus_tsk, dcre_rsm_tsk

\* The calls on one mutex.
LEMMA DcreMtxAbsent ==
  ASSUME DtInv, NEW m \in Mtx, DcreMtxCall(m)
  PROVE  DtInv'
<1>1. exist' = exist /\ MtxInv /\ Exists(m)
  BY DEF DcreMtxCall, dynvars, DtInv, dcre_loc_mtx, dcre_ploc_mtx, dcre_unl_mtx, dcre_ini_mtx
<1>2. CASE unl_mtx(m) \/ ini_mtx(m)
  BY <1>1, <1>2, UnlockOwn, IniOwn, RunningActive, MoveAbsent
<1>3. CASE ploc_mtx(m) \/ \E timed \in BOOLEAN : loc_mtx(m, timed)
  <2>1. /\ MtxInv' /\ LeavesDormant(runtsk)
        /\ \A w \in Mtx \ {m} : loctsk'[w] = loctsk[w]
    BY <1>1, <1>3, LockOwn DEF MtxStep
  <2>2. ASSUME NEW x \in DynId \ exist
        PROVE  /\ x \in Task => IsDormant(tcb'[x].tstat)
               /\ x \in Mtx => loctsk'[x] = NULL
    <3>1. x # m /\ (x \in Task => IsDormant(tcb[x].tstat)) /\ (x \in Mtx => loctsk[x] = NULL)
      BY <1>1 DEF DtInv, Absent, Exists
    <3> QED
      BY <2>1, <3>1, RunningActive DEF LeavesDormant
  <2> QED
    BY <1>1, <2>1, <2>2 DEF DtInv, Absent
<1> QED
  BY <1>2, <1>3 DEF DcreMtxCall, dcre_loc_mtx, dcre_ploc_mtx, dcre_unl_mtx, dcre_ini_mtx

\* Preparing the control block of a dormant task again changes nothing.
LEMMA DormantAgain ==
  ASSUME MtxInv, NEW t \in Task, IsDormant(tcb[t].tstat)
  PROVE  MakeDormant([K EXCEPT !.tcb[t].actque = FALSE], t) = K
<1> DEFINE b == tcb[t]
           c == [[b EXCEPT !.actque = FALSE] EXCEPT !.tstat = {}, !.bpri = IniPri[t],
                   !.pri = IniPri[t], !.wupque = FALSE, !.raster = FALSE, !.enater = TRUE]
<1>1. b = InitTCB(t) /\ tcb \in [Task -> TCB] /\ K.tcb = tcb
  BY FreeFacts, MtxTypes, MtxFields
<1>2. c = b
  <2>1. b \in TCB
    BY <1>1
  <2>2. /\ b.actque = FALSE /\ b.tstat = {} /\ b.bpri = IniPri[t] /\ b.pri = IniPri[t]
        /\ b.wupque = FALSE /\ b.raster = FALSE /\ b.enater = TRUE
    <3> HIDE DEF b
    <3> QED
      BY ONLY <1>1 DEF InitTCB
  <2> HIDE DEF b
  <2> QED
    BY ONLY <2>1, <2>2 DEF TCB
<1>3. MakeDormant([K EXCEPT !.tcb[t].actque = FALSE], t) = [K EXCEPT !.tcb = [tcb EXCEPT ![t] = c]]
  BY <1>1 DEF MakeDormant, K
<1> HIDE DEF b, c
<1>4. [tcb EXCEPT ![t] = c] = tcb
  BY <1>1, <1>2 DEF b
<1> QED
  BY <1>3, <1>4 DEF K

\* A dormant task becomes active.
LEMMA ActivateOwn ==
  ASSUME MtxInv, NEW t \in Task, IsDormant(tcb[t].tstat), Return(MakeActive(K, t)),
         UNCHANGED mtxvars
  PROVE  MtxMove(t)
<1> DEFINE b == tcb[t]
           c == [b EXCEPT !.tstat = {"RUNNABLE"}]
           s == MakeRunnable(TcbSet(K, t, c), t)
           z == [KM EXCEPT !.k = s]
<1>1. /\ Own(KM, NULL, NULL) /\ KM \in MState /\ Base(K) /\ Chain(K, K, NULL)
      /\ K.tcb = tcb /\ K.tmevt = tmevt /\ K.wque = wque /\ tcb \in [Task -> TCB]
      /\ NULL \notin Task /\ NULL \notin Mtx /\ IInv /\ SInv /\ K \in KState
      /\ loctsk \in [Mtx -> Task \union {NULL}] /\ lastmtx \in [Task -> Seq(Mtx)]
      /\ KM.k = K /\ KM.loctsk = loctsk /\ KM.lastmtx = lastmtx
  BY MtxTypes, MtxFields, QueueTypes DEF K
<1>2. b = InitTCB(t) /\ b \in TCB
  BY <1>1, FreeFacts
<1>3. /\ c \in TCB /\ c.tstat = {"RUNNABLE"} /\ c.wobj = NULL /\ b.wobj = NULL
      /\ c.raster = FALSE /\ c.pri = b.pri /\ c.bpri = b.bpri
      /\ ~IsRunnable(b.tstat) /\ IsRunnable(c.tstat) /\ ~IsDormant(c.tstat)
  <2>1. b.wobj = NULL /\ b.tstat = {} /\ b.raster = FALSE
    BY <1>2 DEF InitTCB
  <2>2. {"RUNNABLE"} \in TStat /\ IsRunnable({"RUNNABLE"}) /\ ~IsDormant({"RUNNABLE"})
        /\ ~IsRunnable({})
    BY StatesType, FlagFacts
  <2>3. b \in TCB
    BY <1>2
  <2> HIDE DEF b
  <2>4. /\ c \in TCB /\ c.tstat = {"RUNNABLE"} /\ c.wobj = b.wobj
        /\ c.raster = b.raster /\ c.pri = b.pri /\ c.bpri = b.bpri
    BY ONLY <2>2, <2>3 DEF TCB
  <2> HIDE DEF c
  <2> QED
    BY <2>1, <2>2, <2>4
<1>4. Return(s)
  BY <1>1 DEF MakeActive, TcbSet
<1> HIDE DEF c
<1>5. t \notin tmevt
  BY <1>1, TaskBefore DEF TcbOK, IsWaiting, IsDormant
<1>6. TcbOK(t, c, t \in tmevt)
  BY <1>3, <1>5, FlagFacts DEF TcbOK
<1>7. Operation(s, t, c, tmevt)
  BY <1>1, <1>3, <1>6, EnterOperation
<1>8. Effect(K, s, t, c, tmevt, wque)
  <2>1. Agree(K, Place(K))
    BY <1>1 DEF Base
  <2> QED
    BY <1>1, <1>3, <2>1, EnterEffect
<1>9. /\ Sound(K, s) /\ WellTyped(s) /\ Agree(s, Place(s)) /\ TasksOK(s)
      /\ SchedtskExact(K) => SchedtskExact(s)
      /\ s.tcb[t] = c /\ \A v \in Task \ {t} : s.tcb[v] = tcb[v]
  BY <1>1, <1>7, OperationFacts
<1>10. s.wque = wque /\ s.tcb = [tcb EXCEPT ![t] = c]
  BY <1>1, <1>8 DEF Effect
<1> HIDE DEF s
<1>11. WaitsExact(s)
  <2>1. KeepsWaits(K, s)
    <3>1. SameWait(b, c)
      BY <1>3, FlagFacts DEF SameWait, InQueue, IsRunnable, IsDormant
    <3>2. \A v \in Task : SameWait(K.tcb[v], s.tcb[v])
      BY <1>1, <1>9, <3>1 DEF SameWait
    <3> QED
      BY <1>1, <1>10, <3>2 DEF KeepsWaits
  <2> QED
    BY <1>1, <2>1, KeepsWaitsExact DEF Base
<1>12. Chain(K, s, NULL)
  <2>1. View(s, NULL) = s
    BY <1>1, <1>9, ViewFacts
  <2>2. ~MustEnd(c)
    BY <1>3 DEF MustEnd
  <2>3. \A v \in Task : MustEnd(s.tcb[v]) => MustEnd(K.tcb[v])
    BY <1>1, <1>9, <2>2
  <2> QED
    BY <1>9, <1>11, <2>1, <2>3 DEF Chain, TasksOKBut, TasksOK
<1>13. /\ z.k = s /\ z.loctsk = loctsk /\ z.lastmtx = lastmtx
       /\ z = [k |-> s, loctsk |-> loctsk, lastmtx |-> lastmtx]
  BY DEF KM
<1>14. z \in MState
  BY <1>1, <1>9, <1>13 DEF MState, WellTyped
<1> HIDE DEF z
<1>15. Own(z, NULL, NULL)
  <2>1. \A v \in Task \ {NULL} : KeepsRank(KM.k.tcb[v], z.k.tcb[v])
    BY <1>1, <1>3, <1>9, <1>13 DEF KeepsRank
  <2>2. \A v \in Task : z.k.tcb[v].wobj = KM.k.tcb[v].wobj \/ z.k.tcb[v].wobj = NULL
    BY <1>1, <1>3, <1>9, <1>13
  <2>3. \A w \in Mtx : KM.k.wque[w] = << >> => z.k.wque[w] = << >>
    BY <1>1, <1>10, <1>13
  <2>4. Own(KM, NULL, NULL) /\ z.loctsk = KM.loctsk /\ z.lastmtx = KM.lastmtx
    BY <1>1, <1>13
  <2> QED
    BY ONLY <1>14, <2>1, <2>2, <2>3, <2>4, OwnKept
<1>16. MtxReturn(z)
  BY <1>4, <1>13 DEF MtxReturn, OwnersBecome, mtxvars
<1>17. runtsk # NULL => IsRunnable(z.k.tcb[runtsk].tstat)
  BY <1>3, <1>9, <1>13, RunningChain
<1>18. MtxInv' /\ loctsk' = loctsk /\ tcb' = s.tcb
  BY <1>12, <1>13, <1>15, <1>16, <1>17, ReturnOwn
<1> QED
  BY <1>9, <1>18 DEF MtxMove, LeavesDormant

\* acre_tsk takes a task that does not exist, thus a dormant one.
LEMMA AcreTskAbsent ==
  ASSUME DtInv, DynInv, NEW act \in BOOLEAN, NEW own \in BOOLEAN, acre_tsk(act, own)
  PROVE  DtInv'
<1> DEFINE t == NewId("tsk")
           k == MakeDormant([K EXCEPT !.tcb[t].actque = FALSE], t)
<1>1. MtxInv /\ "tsk" \in Kind
  BY DcreTaskAssumption DEF DtInv, Kind
<1>2. /\ free["tsk"] # << >> /\ exist' = exist \union {t}
      /\ Return(IF act THEN MakeActive(k, t) ELSE k)
      /\ loctsk' = loctsk /\ lastmtx' = [lastmtx EXCEPT ![t] = << >>]
  BY DEF acre_tsk, Create
<1>3. t \in Task /\ t \in DynId \ exist
  BY <1>1, <1>2, NewIdFree, DcreTaskAssumption
<1>4. IsDormant(tcb[t].tstat)
  BY <1>3 DEF DtInv, Absent
<1>5. k = K
  BY <1>1, <1>3, <1>4, DormantAgain
<1> HIDE DEF k, t
<1>6. UNCHANGED mtxvars
  <2>1. lastmtx[t] = << >> /\ lastmtx \in [Task -> Seq(Mtx)]
    BY <1>1, <1>3, <1>4, FreeFacts, MtxTypes
  <2>2. lastmtx' = lastmtx
    BY <1>2, <1>3, <2>1
  <2> QED
    BY <1>2, <2>2 DEF mtxvars
<1>7. MtxMove(t)
  <2>1. CASE act
    <3>1. Return(MakeActive(K, t))
      BY <1>2, <1>5, <2>1
    <3> QED
      BY <1>1, <1>3, <1>4, <1>6, <3>1, ActivateOwn
  <2>2. CASE ~act
    <3>1. MtxReturn(KM) /\ KM.k = K /\ KM.loctsk = loctsk /\ K.tcb = tcb
      BY <1>2, <1>5, <1>6, <2>2, MtxFields DEF MtxReturn, OwnersBecome, mtxvars
    <3>2. MtxInv' /\ loctsk' = loctsk /\ tcb' = tcb
      BY <1>1, <3>1, MtxTypes, RunningChain, ReturnOwn
    <3> QED
      BY <3>2 DEF MtxMove, LeavesDormant
  <2> QED
    BY <2>1, <2>2
<1> QED
  BY <1>2, <1>7, MoveAbsent

\* del_tsk deletes a dormant task.
LEMMA DelTskAbsent ==
  ASSUME DtInv, NEW t \in Task, del_tsk(t)
  PROVE  DtInv'
<1>1. /\ IsDormant(tcb[t].tstat) /\ exist' = exist \ {t} /\ UNCHANGED mvars /\ t \notin Mtx
  BY DcreTaskAssumption DEF del_tsk, Unregister
<1>2. /\ UNCHANGED vars /\ UNCHANGED mtxvars /\ tcb' = tcb /\ loctsk' = loctsk
  BY <1>1 DEF mvars, vars, kvars, mtxvars
<1>3. MtxInv'
  <2>1. RankStep(t)
    BY <1>2, SameRank DEF DtInv
  <2>2. MtxMove(t)
    BY <1>2, <2>1, QuietOwn DEF DtInv
  <2> QED
    BY <2>2 DEF MtxMove
<1>4. ASSUME NEW x \in DynId \ exist'
      PROVE  /\ x \in Task => IsDormant(tcb[x].tstat)
             /\ x \in Mtx => loctsk[x] = NULL
  BY <1>1 DEF DtInv, Absent
<1> QED
  BY <1>2, <1>3, <1>4 DEF DtInv, Absent

\* acre_mtx takes a mutex that does not exist, thus a free one.
LEMMA AcreMtxAbsent ==
  ASSUME DtInv, DynInv, acre_mtx
  PROVE  DtInv'
<1> DEFINE m == NewId("mtx")
<1>1. "mtx" \in Kind /\ free["mtx"] # << >> /\ exist \subseteq exist'
  BY DcreTaskAssumption DEF acre_mtx, Create, Kind
<1>2. m \in DynId \ exist /\ m \in Mtx
  BY <1>1, NewIdFree, DcreTaskAssumption
<1>3. loctsk[m] = NULL /\ loctsk \in [Mtx -> Task \union {NULL}]
  BY <1>2, MtxTypes DEF DtInv, Absent
<1>4. loctsk' = loctsk
  BY <1>2, <1>3 DEF acre_mtx
<1>5. UNCHANGED <<vars, mtxvars>>
  BY <1>4 DEF acre_mtx, mtxvars
<1> QED
  BY <1>1, <1>5, SameAbsent

\* del_mtx deletes a mutex that nobody has locked.
LEMMA DelMtxAbsent ==
  ASSUME "del_locked" \notin Api, DtInv, NEW m \in Mtx, del_mtx(m)
  PROVE  DtInv'
<1> DEFINE k == InitWaitQueue(K, m)
           s == SameOwners(k)
<1>1. /\ loctsk[m] = NULL /\ exist' = exist \ {m} /\ Return(k) /\ UNCHANGED mtxvars
      /\ MtxInv /\ m \in WObj /\ m \notin Task
  BY DcreTaskAssumption, MutexAssumption DEF del_mtx, Unregister, DtInv
<1>2. /\ WaitInv /\ K.tcb = tcb /\ K.wque = wque /\ wque \in [WObj -> Seq(Task)]
  BY <1>1, MtxTypes, MtxFields
<1>3. Releases(k) /\ k.wque = [wque EXCEPT ![m] = << >>] /\ SameRanks(K, k)
  <2>1. Releases(K)
    BY <1>2, QueueTypes
  <2> QED
    BY <1>1, <1>2, <2>1, AllReleasedOK
<1> HIDE DEF k
<1>4. NoneAdded(k)
  BY <1>2, <1>3, MutexAssumption DEF NoneAdded
<1>5. /\ Chain(K, k, NULL) /\ Own(s, NULL, NULL)
      /\ s.k = k /\ s.loctsk = loctsk /\ s.lastmtx = lastmtx
  <2>1. s = SameOwners(k)
    OBVIOUS
  <2> HIDE DEF s
  <2> QED
    BY <1>1, <1>3, <1>4, <2>1, ReleasesChain
<1> HIDE DEF s
<1>6. MtxReturn(s)
  BY <1>1, <1>5 DEF MtxReturn, OwnersBecome, mtxvars
<1>7. runtsk # NULL => IsRunnable(k.tcb[runtsk].tstat)
  BY <1>1, <1>3, RunningChain DEF Releases
<1>8. MtxInv' /\ loctsk' = loctsk /\ tcb' = k.tcb
  BY <1>1, <1>5, <1>6, <1>7, ReturnOwn
<1>9. ASSUME NEW x \in DynId \ exist'
      PROVE  /\ x \in Task => IsDormant(tcb'[x].tstat)
             /\ x \in Mtx => loctsk'[x] = NULL
  <2>1. CASE x = m
    BY <1>1, <1>8, <2>1
  <2>2. CASE x # m
    <3>1. /\ x \in Task => IsDormant(tcb[x].tstat)
          /\ x \in Mtx => loctsk[x] = NULL
      BY <1>1, <2>2 DEF DtInv, Absent
    <3> QED
      BY <1>2, <1>3, <1>8, <3>1 DEF SameRanks
  <2> QED
    BY <2>1, <2>2
<1> QED
  BY <1>8, <1>9 DEF DtInv, Absent

\* Every step keeps what does not exist out of use.
LEMMA DtNextOK ==
  ASSUME "del_locked" \notin Api
  PROVE  DtInv /\ DynInv /\ [DtNext]_dtvars => DtInv'
<1> SUFFICES ASSUME DtInv, DynInv, [DtNext]_dtvars PROVE DtInv'
  OBVIOUS
<1>1. CASE UNCHANGED dtvars
  BY <1>1, SameAbsent DEF dtvars, mvars, dynvars
<1>2. CASE (MtxExtTsk \/ MtxEnaTer) /\ UNCHANGED dynvars
  <2>1. MtxMove(runtsk)
    BY <1>2, SelfCallOwn DEF DtInv
  <2> QED
    BY <1>2, <2>1, RunningActive, MoveAbsent DEF dynvars
<1>3. CASE (dis_ter \/ IntEnter \/ IntExit) /\ UNCHANGED <<mtxvars, dynvars>>
  <2>1. [Next]_vars /\ exist' = exist /\ UNCHANGED mtxvars
    BY <1>3 DEF Next, PlainCall, dynvars
  <2>2. CASE dis_ter
    <3>1. runtsk \in Task
      BY <2>2, RunningChain DEF dis_ter, TskCtxUnl, DtInv
    <3>2. RankStep(runtsk)
      BY <2>2, <3>1, FieldRank DEF dis_ter, DtInv
    <3> QED
      BY <2>1, <3>2, RunningActive, QuietAbsent
  <2>3. CASE IntEnter \/ IntExit
    <3>1. tcb' = tcb
      BY <2>3, WaitFields, ReturnWaits DEF IntEnter, IntExit, kvars
    <3>2. RankStep(runtsk)
      BY <3>1, SameRank DEF DtInv
    <3> QED
      BY <2>1, <3>2, RunningActive, QuietAbsent
  <2> QED
    BY <1>3, <2>2, <2>3
<1>4. CASE DcreCreate
  BY <1>4, AcreTskAbsent, DelTskAbsent, AcreMtxAbsent, DelMtxAbsent DEF DcreCreate
<1> QED
  BY <1>1, <1>2, <1>3, <1>4, DcreTaskAbsent, DcreMtxAbsent DEF DtNext

\* At the start only the initial task is active.
LEMMA DtInitOK == DtInit => DtInv
<1> SUFFICES ASSUME DtInit PROVE DtInv
  OBVIOUS
<1>1. MtxInv /\ Init /\ loctsk = [m \in Mtx |-> NULL]
  BY MtxInitOK DEF DtInit, MtxInit
<1>2. \A t \in Task \ {Main} : IsDormant(tcb[t].tstat)
  <2> DEFINE s == [InitK EXCEPT !.tcb[Main].tstat = {"RUNNABLE"}]
  <2>1. HasWaits(s) /\ \A t \in Task \ {Main} : s.tcb[t].tstat = {}
    BY DEF HasWaits, InitK, InitTCB
  <2> HIDE DEF s
  <2>2. MakeRunnable(s, Main).tcb = s.tcb /\ HasWaits(MakeRunnable(s, Main))
    BY <2>1, SchedulingFrame DEF SameWaits
  <2>3. StartK.tcb = s.tcb
    <3> DEFINE y == MakeRunnable(s, Main)
    <3>1. StartK = Dispatch(y)
      BY DEF StartK, MakeActive, s
    <3> HIDE DEF y
    <3>2. Dispatch(y).tcb = y.tcb
      BY <2>2 DEF y, Dispatch, HasWaits
    <3> QED
      BY <2>2, <3>1, <3>2 DEF y
  <2> QED
    BY <1>1, <2>1, <2>3 DEF Init, IsDormant
<1> QED
  BY <1>1, <1>2, DcreTaskAssumption DEF DtInv, Absent

\* The invariant of tasks and mutexes that come and go.
LEMMA DtHolds ==
  ASSUME "del_locked" \notin Api
  PROVE  DtSpec => []DtInv
<1>1. DtInv /\ DynInv /\ [DtNext]_dtvars => DtInv'
  BY DtNextOK
<1> QED
  BY <1>1, DtInitOK, DtDynamic, PTL DEF DtSpec

\* If no mutex is deleted while a task has it locked, nothing refers to a task or
\* a mutex that does not exist: acre_tsk finds the control block of a dormant task
\* that holds no mutex, and nobody holds or awaits a mutex before acre_mtx or
\* after del_mtx.
THEOREM NothingDanglesCorrect ==
  "del_locked" \notin Api /\ DtSpec => []NothingDangles
<1>1. DtInv => NothingDangles
  <2> SUFFICES ASSUME DtInv, NEW x \in DynId \ exist
               PROVE  /\ x \in Task => IsDormant(tcb[x].tstat) /\ lastmtx[x] = << >>
                      /\ x \in Mtx  => /\ wque[x] = << >>
                                       /\ \A t \in Task : x \notin Range(lastmtx[t])
    BY DEF NothingDangles
  <2>1. MtxInv /\ NULL \notin Task
    BY MtxTypes DEF DtInv
  <2>2. /\ x \in Task => IsDormant(tcb[x].tstat)
        /\ x \in Mtx => loctsk[x] = NULL
    BY DEF DtInv, Absent
  <2>3. ASSUME x \in Mtx, NEW t \in Task PROVE x \notin Range(lastmtx[t])
    BY <2>1, <2>2, <2>3, HeldFacts
  <2> QED
    BY <2>1, <2>2, <2>3, FreeFacts
<1>2. ASSUME "del_locked" \notin Api PROVE DtSpec => []NothingDangles
  BY <1>1, <1>2, DtHolds, PTL
<1> QED
  BY <1>2

\* What holds of mutexes and of the kernel with static objects holds, too, when
\* tasks and mutexes are deleted and created again under the same ID.
THEOREM DynamicMutexesCorrect ==
  "del_locked" \notin Api /\ DtSpec =>
    [](/\ OwnershipExact /\ PriorityIsCeiling
       /\ TypeOK /\ DspflgExact /\ RunsWhatIsScheduled
       /\ ReadyQueuesExact /\ SchedtskIsBest /\ WaitQueuesExact
       /\ TerminationRequestHeld /\ DormantIsClean /\ TimersMatchWaits)
<1> DEFINE P == /\ OwnershipExact /\ PriorityIsCeiling
                /\ TypeOK /\ DspflgExact /\ RunsWhatIsScheduled
                /\ ReadyQueuesExact /\ SchedtskIsBest /\ WaitQueuesExact
                /\ TerminationRequestHeld /\ DormantIsClean /\ TimersMatchWaits
<1>1. DtInv => P
  BY OwnershipOfInvariant, PriorityOfInvariant, KernelOfInvariant DEF DtInv
<1>2. ASSUME "del_locked" \notin Api PROVE DtSpec => []P
  BY <1>1, <1>2, DtHolds, PTL
<1> QED
  BY <1>2
===============================================================================
