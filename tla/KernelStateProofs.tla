-------------------------- MODULE KernelStateProofs --------------------------
(***************************************************************************)
(* Lemmas about the internal operations of KernelState: each keeps the     *)
(* kernel data well typed and leaves dispatching to its callers, and after *)
(* each the scheduling data agree with each other.                         *)
(***************************************************************************)
EXTENDS KernelState, WellFoundedInduction, TLAPS

\* The kernel data have their types and the bitmap marks no empty queue, so
\* that search_predtsk always finds a task.
WellTyped(s) ==
  /\ s \in KState
  /\ \A u \in Unit, p \in Pri : p \in s.primap[u] => s.ready[u][p] # << >>

\* What the internal operations leave to their callers: they never dispatch
\* and select no task while dispatching is held off.
KeepsSched(s, s2) ==
  /\ s2.runtsk = s.runtsk /\ s2.dspflg = s.dspflg
  /\ s2.twdsched = s.twdsched /\ s2.idlesched = s.idlesched
  /\ ~s.dspflg => s2.schedtsk = s.schedtsk

Sound(s, s2) == WellTyped(s2) /\ KeepsSched(s, s2)

-----------------------------------------------------------------------------
\* Operations compose.
LEMMA SoundTrans ==
  ASSUME NEW s1, NEW s2, NEW s3, Sound(s1, s2), Sound(s2, s3)
  PROVE  Sound(s1, s3)
BY DEF Sound, KeepsSched

\* update_schedtsk selects a task or nothing.
LEMMA SelectedType ==
  ASSUME NEW s \in KState
  PROVE  Selected(s) \in Task \union {NULL}
BY KernelAssumption DEF Selected, KState

\* Changes of one task control block that keep it well typed are sound.
LEMMA TcbSound ==
  ASSUME NEW s, WellTyped(s), NEW t, NEW b,
         t \in Task => b \in TCB
  PROVE  Sound(s, [s EXCEPT !.tcb[t] = b])
<1> DEFINE m == [s.tcb EXCEPT ![t] = b]
<1>1. s \in KState /\ s.tcb \in [Task -> TCB]
  BY DEF WellTyped, KState
<1>2. m \in [Task -> TCB]
  BY <1>1
<1>3. [s EXCEPT !.tcb[t] = b] = [s EXCEPT !.tcb = m]
  BY DEF m
<1> HIDE DEF m
<1> QED
  BY <1>1, <1>2, <1>3 DEF Sound, WellTyped, KeepsSched, KState

\* So are changes of the queues of one scheduling unit and of its bitmap.
LEMMA ReadySound ==
  ASSUME NEW s, WellTyped(s), NEW r, NEW m,
         r \in [Unit -> [Pri -> Seq(Task)]], m \in [Unit -> SUBSET Pri],
         \A u \in Unit, p \in Pri : p \in m[u] => r[u][p] # << >>
  PROVE  Sound(s, [s EXCEPT !.ready = r, !.primap = m])
BY DEF Sound, WellTyped, KeepsSched, KState

\* Updating p_predtsk and, if dispatching is possible, p_schedtsk.
LEMMA SetPredtskSound ==
  ASSUME NEW s, WellTyped(s), NEW u \in Unit, NEW t \in Task \union {NULL}
  PROVE  Sound(s, SetPredtsk(s, u, t))
<1> DEFINE s1 == [s EXCEPT !.predtsk[u] = t]
<1>1. Sound(s, s1)
  BY DEF Sound, WellTyped, KeepsSched, KState
<1>2. Selected(s1) \in Task \union {NULL}
  BY <1>1, SelectedType DEF Sound, WellTyped
<1>3. s1.dspflg = s.dspflg
  BY DEF WellTyped, KState
<1> HIDE DEF s1
<1>4. Sound(s, UpdateIfDsp(s1))
  BY <1>1, <1>2, <1>3 DEF Sound, WellTyped, KeepsSched, KState, UpdateIfDsp, UpdateSchedtsk
<1> QED
  BY <1>4 DEF SetPredtsk, s1

-----------------------------------------------------------------------------
(* Queues. *)

\* Appending a task.
LEMMA AppendType ==
  ASSUME NEW q \in Seq(Task), NEW t \in Task
  PROVE  Append(q, t) \in Seq(Task) /\ Append(q, t) # << >>
<1>1. Append(q, t) \in Seq(Task)
  OBVIOUS
<1>2. Len(Append(q, t)) = Len(q) + 1 /\ Len(q) \in Nat
  OBVIOUS
<1>3. Len(<< >>) = 0
  OBVIOUS
<1> QED
  BY <1>1, <1>2, <1>3

\* Removing a task keeps a queue a queue of tasks.
LEMMA WithoutType ==
  ASSUME NEW S, NEW q \in Seq(S), NEW t
  PROVE  Without(q, t) \in Seq(S)
<1>1. CASE q = << >>
  BY <1>1 DEF Without
<1>2. CASE q # << >>
  <2>1. Len(q) - 1 \in Nat
    BY <1>2
  <2> QED
    BY <2>1 DEF Without
<1> QED
  BY <1>1, <1>2

\* So does inserting one in priority order.
LEMMA InsertTPriType ==
  ASSUME NEW q \in Seq(Task), NEW t \in Task, NEW f
  PROVE  InsertTPri(q, t, f) \in Seq(Task)
<1> DEFINE ahead(n) == \A j \in 1..n : f[q[j]].pri <= f[t].pri
<1>1. ahead(0)
  OBVIOUS
<1> HIDE DEF ahead
<1>2. \A i \in 1..(Len(q) + 1) :
        (IF i <= Len(q) /\ ahead(i) THEN q[i]
         ELSE IF ahead(i - 1) THEN t ELSE q[i - 1]) \in Task
  BY <1>1
<1>3. [i \in 1..(Len(q) + 1) |->
         IF i <= Len(q) /\ ahead(i) THEN q[i]
         ELSE IF ahead(i - 1) THEN t ELSE q[i - 1]] \in Seq(Task)
  BY <1>2
<1> QED
  BY <1>3 DEF InsertTPri, ahead

-----------------------------------------------------------------------------
(* The ready queues. *)

\* Facts about a task of a well typed state that every proof below needs.
LEMMA TaskFacts ==
  ASSUME NEW s, WellTyped(s), NEW t \in Task
  PROVE  /\ UnitOf[t] \in Unit
         /\ s.tcb[t] \in TCB /\ s.tcb[t].pri \in Pri
         /\ s.ready[UnitOf[t]][s.tcb[t].pri] \in Seq(Task)
         /\ s.ready \in [Unit -> [Pri -> Seq(Task)]]
         /\ s.primap \in [Unit -> SUBSET Pri]
<1>1. s \in KState
  BY DEF WellTyped
<1>2. UnitOf[t] \in Unit
  BY KernelAssumption
<1>3. s.tcb[t] \in TCB
  BY <1>1 DEF KState
<1>4. s.tcb[t].pri \in Pri
  BY <1>3 DEF TCB
<1>5. s.ready \in [Unit -> [Pri -> Seq(Task)]] /\ s.primap \in [Unit -> SUBSET Pri]
  BY <1>1 DEF KState
<1> QED
  BY <1>2, <1>3, <1>4, <1>5

\* Replacing one ready queue and the bitmap of its unit is sound.
LEMMA QueueSound ==
  ASSUME NEW s, WellTyped(s), NEW u \in Unit, NEW p \in Pri, NEW q \in Seq(Task),
         NEW pm \in SUBSET Pri,
         \A p2 \in pm : (p2 = p /\ q # << >>) \/ (p2 # p /\ p2 \in s.primap[u])
  PROVE  Sound(s, [s EXCEPT !.ready[u][p] = q, !.primap[u] = pm])
<1> DEFINE r  == [s.ready EXCEPT ![u][p] = q]
           m  == [s.primap EXCEPT ![u] = pm]
<1>1. s.ready \in [Unit -> [Pri -> Seq(Task)]] /\ s.primap \in [Unit -> SUBSET Pri]
  BY DEF WellTyped, KState
<1>2. r \in [Unit -> [Pri -> Seq(Task)]] /\ m \in [Unit -> SUBSET Pri]
  BY <1>1
<1>3. \A u2 \in Unit, p2 \in Pri : p2 \in m[u2] => r[u2][p2] # << >>
  BY <1>1 DEF WellTyped
<1>4. [s EXCEPT !.ready[u][p] = q, !.primap[u] = pm] = [s EXCEPT !.ready = r, !.primap = m]
  OBVIOUS
<1> HIDE DEF r, m
<1> QED
  BY <1>2, <1>3, <1>4, ReadySound

\* make_runnable is sound.
LEMMA MakeRunnableSound ==
  ASSUME NEW s, WellTyped(s), NEW t \in Task
  PROVE  Sound(s, MakeRunnable(s, t))
<1> DEFINE u  == UnitOf[t]
           p  == s.tcb[t].pri
           q  == Append(s.ready[u][p], t)
           pm == s.primap[u] \union {p}
           s1 == [s EXCEPT !.ready[u][p] = q, !.primap[u] = pm]
<1>1. u \in Unit /\ p \in Pri /\ s.ready[u][p] \in Seq(Task) /\ pm \in SUBSET Pri
  BY TaskFacts
<1>2. q \in Seq(Task) /\ q # << >>
  BY <1>1, AppendType
<1>3. MakeRunnable(s, t) = s1 \/ MakeRunnable(s, t) = SetPredtsk(s1, u, t)
  BY DEF MakeRunnable
<1>4. \A p2 \in pm : p2 = p \/ (p2 # p /\ p2 \in s.primap[u])
  OBVIOUS
<1> HIDE DEF u, p, q, pm
<1>5. Sound(s, s1)
  BY <1>1, <1>2, <1>4, QueueSound
<1> HIDE DEF s1
<1>6. Sound(s1, SetPredtsk(s1, u, t))
  BY <1>1, <1>5, SetPredtskSound DEF Sound
<1>7. Sound(s, SetPredtsk(s1, u, t))
  BY <1>5, <1>6, SoundTrans
<1> QED
  BY <1>3, <1>5, <1>7

\* The order of the natural numbers, in which every set has a least element.
Less == {w \in Nat \X Nat : w[1] < w[2]}

\* A non-empty set of natural numbers has a least element: what is false of some
\* number is false of a first one.
LEMMA LeastNumber ==
  ASSUME NEW T \in SUBSET Nat, T # {}
  PROVE  \E n \in T : \A m \in T : n <= m
<1>1. IsWellFoundedOn(Less, Nat)
  BY NatLessThanWellFounded DEF OpToRel, Less
<1>2. PICK n \in T : \A m \in T : ~ (<<m, n>> \in Less)
  BY <1>1, WFMin
<1>3. ASSUME NEW m \in T PROVE n <= m
  <2>1. <<m, n>> \notin Less
    BY <1>2
  <2>2. ~(m < n)
    BY <2>1 DEF Less
  <2> QED
    BY <2>2
<1> QED
  BY <1>3

\* search_predtsk finds a task if the bitmap is not empty: the least element
\* of a set of priorities exists.
LEMMA LeastPri ==
  ASSUME NEW T, T \subseteq Pri, T # {}
  PROVE  \E p \in T : \A p2 \in T : p <= p2
<1>1. T \in SUBSET Nat
  BY KernelAssumption DEF Pri
<1> QED
  BY <1>1, LeastNumber

\* search_predtsk returns a task if the bitmap is not empty.
LEMMA SearchPredtskType ==
  ASSUME NEW s, WellTyped(s), NEW u \in Unit, s.primap[u] # {}
  PROVE  SearchPredtsk(s, u) \in Task
<1> DEFINE first == CHOOSE p \in s.primap[u] : \A p2 \in s.primap[u] : p <= p2
<1>1. s.primap[u] \subseteq Pri
  BY DEF WellTyped, KState
<1>2. \E p \in s.primap[u] : \A p2 \in s.primap[u] : p <= p2
  BY <1>1, LeastPri
<1>3. first \in s.primap[u]
  BY <1>2
<1>4. s.ready[u][first] \in Seq(Task) /\ s.ready[u][first] # << >>
  BY <1>1, <1>3 DEF WellTyped, KState
<1> HIDE DEF first
<1>5. Head(s.ready[u][first]) \in Task
  BY <1>4
<1> QED
  BY <1>5 DEF SearchPredtsk, first

\* make_non_runnable is sound.
LEMMA MakeNonRunnableSound ==
  ASSUME NEW s, WellTyped(s), NEW t \in Task
  PROVE  Sound(s, MakeNonRunnable(s, t))
<1> DEFINE u  == UnitOf[t]
           p  == s.tcb[t].pri
           q  == Without(s.ready[u][p], t)
           pm == IF q = << >> THEN s.primap[u] \ {p} ELSE s.primap[u]
           s1 == [s EXCEPT !.ready[u][p] = q, !.primap[u] = pm]
<1>1. u \in Unit /\ p \in Pri /\ s.ready[u][p] \in Seq(Task) /\ s.primap[u] \in SUBSET Pri
  BY TaskFacts
<1>2. q \in Seq(Task)
  BY <1>1, WithoutType
<1>3. pm \in SUBSET Pri
      /\ \A p2 \in pm : (p2 = p /\ q # << >>) \/ (p2 # p /\ p2 \in s.primap[u])
  BY <1>1
<1>4. s1 = [s EXCEPT !.ready[u][p] = q,
                     !.primap[u] = IF q = << >> THEN @ \ {p} ELSE @]
  OBVIOUS
<1>5. \/ MakeNonRunnable(s, t) = s1
      \/ q # << >> /\ MakeNonRunnable(s, t) = SetPredtsk(s1, u, Head(q))
      \/ MakeNonRunnable(s, t) = SetPredtsk(s1, u, NULL)
      \/ /\ s1.primap[u] # {}
         /\ MakeNonRunnable(s, t) = SetPredtsk(s1, u, SearchPredtsk(s1, u))
  BY <1>4 DEF MakeNonRunnable
<1> HIDE DEF u, p, q, pm
<1>6. Sound(s, s1)
  BY <1>1, <1>2, <1>3, QueueSound
<1>7. WellTyped(s1)
  BY <1>6 DEF Sound
<1> HIDE DEF s1
<1>8. q # << >> => Head(q) \in Task
  BY <1>2
<1>9. s1.primap[u] # {} => SearchPredtsk(s1, u) \in Task
  BY <1>1, <1>7, SearchPredtskType
<1>10. \A v \in Task \union {NULL} : Sound(s, SetPredtsk(s1, u, v))
  BY <1>1, <1>6, <1>7, SetPredtskSound, SoundTrans
<1> QED
  BY <1>5, <1>6, <1>8, <1>9, <1>10

\* The part of change_priority that moves a runnable task is sound, and the
\* bitmap of its unit is not empty afterwards.
LEMMA RequeueSound ==
  ASSUME NEW s, WellTyped(s), NEW t \in Task, NEW old \in Pri, NEW new \in Pri,
         NEW mode \in BOOLEAN
  PROVE  /\ Sound(s, Requeue(s, t, old, new, mode))
         /\ Requeue(s, t, old, new, mode).primap[UnitOf[t]] # {}
<1> DEFINE u  == UnitOf[t]
           q  == Without(s.ready[u][old], t)
           pm == IF q = << >> THEN s.primap[u] \ {old} ELSE s.primap[u]
           s1 == [s EXCEPT !.ready[u][old] = q, !.primap[u] = pm]
           q2 == IF mode THEN <<t>> \o s1.ready[u][new] ELSE Append(s1.ready[u][new], t)
           pm2 == s1.primap[u] \union {new}
           s2 == [s1 EXCEPT !.ready[u][new] = q2, !.primap[u] = pm2]
<1>1. u \in Unit /\ s.ready[u][old] \in Seq(Task) /\ s.primap[u] \in SUBSET Pri
  BY TaskFacts
<1>2. q \in Seq(Task)
  BY <1>1, WithoutType
<1>3. pm \in SUBSET Pri
      /\ \A p2 \in pm : (p2 = old /\ q # << >>) \/ (p2 # old /\ p2 \in s.primap[u])
  BY <1>1
<1>4. Requeue(s, t, old, new, mode) = s2
  BY DEF Requeue
<1> HIDE DEF u, q, pm
<1>5. Sound(s, s1)
  BY <1>1, <1>2, <1>3, QueueSound
<1> HIDE DEF s1
<1>6. s1.ready[u][new] \in Seq(Task) /\ s1.primap \in [Unit -> SUBSET Pri]
  BY <1>1, <1>5 DEF Sound, WellTyped, KState
<1>7. q2 \in Seq(Task) /\ q2 # << >>
  <2>1. CASE mode
    <3>1. <<t>> \in Seq(Task) /\ Len(<<t>>) = 1
      OBVIOUS
    <3>2. <<t>> \o s1.ready[u][new] \in Seq(Task)
      BY <1>6, <3>1
    <3>3. Len(<<t>> \o s1.ready[u][new]) = 1 + Len(s1.ready[u][new])
      BY <1>6, <3>1
    <3>4. Len(s1.ready[u][new]) \in Nat /\ Len(<< >>) = 0
      BY <1>6
    <3> QED
      BY <2>1, <3>2, <3>3, <3>4
  <2>2. CASE ~mode
    BY <1>6, <2>2, AppendType
  <2> QED
    BY <2>1, <2>2
<1>8. pm2 \in SUBSET Pri /\ new \in pm2
      /\ \A p2 \in pm2 : (p2 = new /\ q2 # << >>) \/ (p2 # new /\ p2 \in s1.primap[u])
  BY <1>1, <1>6, <1>7
<1>9. WellTyped(s1)
  BY <1>5 DEF Sound
<1>10. s2.primap[u] = pm2
  <2>1. s1 \in KState
    BY <1>9 DEF WellTyped
  <2> HIDE DEF pm2, q2
  <2> QED
    BY <1>1, <2>1 DEF KState
<1> HIDE DEF q2, pm2
<1>11. Sound(s1, s2)
  BY <1>1, <1>7, <1>8, <1>9, QueueSound
<1> HIDE DEF s2
<1> QED
  BY <1>4, <1>5, <1>8, <1>10, <1>11, SoundTrans DEF u

\* A change of one wait queue is sound.
LEMMA WqueSound ==
  ASSUME NEW s, WellTyped(s), NEW w, NEW q, w \in WObj => q \in Seq(Task)
  PROVE  Sound(s, [s EXCEPT !.wque[w] = q])
<1> DEFINE m == [s.wque EXCEPT ![w] = q]
<1>1. m \in [WObj -> Seq(Task)]
  BY DEF WellTyped, KState
<1>2. [s EXCEPT !.wque[w] = q] = [s EXCEPT !.wque = m]
  OBVIOUS
<1> HIDE DEF m
<1> QED
  BY <1>1, <1>2 DEF Sound, WellTyped, KeepsSched, KState

\* wobj_change_priority is sound.
LEMMA WObjChangePrioritySound ==
  ASSUME NEW s, WellTyped(s), NEW t \in Task
  PROVE  Sound(s, WObjChangePriority(s, t))
<1> DEFINE w == s.tcb[t].wobj
           q == InsertTPri(Without(s.wque[w], t), t, s.tcb)
<1>1. CASE w \in TPriObj
  <2>1. s.wque[w] \in Seq(Task)
    BY <1>1, KernelAssumption DEF WellTyped, KState
  <2>2. q \in Seq(Task)
    BY <2>1, WithoutType, InsertTPriType
  <2>3. WObjChangePriority(s, t) = [s EXCEPT !.wque[w] = q]
    BY <1>1 DEF WObjChangePriority
  <2> HIDE DEF q, w
  <2>4. Sound(s, [s EXCEPT !.wque[w] = q])
    BY <2>2, WqueSound
  <2> QED
    BY <2>3, <2>4
<1>2. CASE w \notin TPriObj
  BY <1>2 DEF WObjChangePriority, Sound, KeepsSched
<1> QED
  BY <1>1, <1>2

\* change_priority is sound.
LEMMA ChangePrioritySound ==
  ASSUME NEW s, WellTyped(s), NEW t \in Task, NEW new \in Pri, NEW mode \in BOOLEAN
  PROVE  Sound(s, ChangePriority(s, t, new, mode))
<1> DEFINE u   == UnitOf[t]
           old == s.tcb[t].pri
           s1  == [s EXCEPT !.tcb[t].pri = new]
           s2  == Requeue(s1, t, old, new, mode)
<1>1. u \in Unit /\ old \in Pri /\ s.tcb[t] \in TCB
  BY TaskFacts
<1>2. Sound(s, s1)
  <2>1. [s.tcb[t] EXCEPT !.pri = new] \in TCB
    BY <1>1 DEF TCB
  <2> QED
    BY <2>1, TcbSound
<1>3. ChangePriority(s, t, new, mode) \in
        {WObjChangePriority(s1, t), s1, s2, SetPredtsk(s2, u, t),
         SetPredtsk(s2, u, SearchPredtsk(s2, u))}
  BY DEF ChangePriority
<1> HIDE DEF u, old, s1
<1>4. WellTyped(s1) /\ Sound(s, WObjChangePriority(s1, t))
  BY <1>2, WObjChangePrioritySound, SoundTrans DEF Sound
<1>5. Sound(s, s2) /\ s2.primap[u] # {}
  BY <1>1, <1>2, <1>4, RequeueSound, SoundTrans DEF u
<1>6. WellTyped(s2)
  BY <1>5 DEF Sound
<1> HIDE DEF s2
<1>7. SearchPredtsk(s2, u) \in Task
  BY <1>1, <1>5, <1>6, SearchPredtskType
<1>8. \A v \in Task \union {NULL} : Sound(s, SetPredtsk(s2, u, v))
  BY <1>1, <1>5, <1>6, SetPredtskSound, SoundTrans
<1> QED
  BY <1>2, <1>3, <1>4, <1>5, <1>7, <1>8

\* rotate_ready_queue is sound.
LEMMA RotateReadyQueueSound ==
  ASSUME NEW s, WellTyped(s), NEW p \in Pri, NEW u \in Unit
  PROVE  Sound(s, RotateReadyQueue(s, p, u))
<1> DEFINE q  == s.ready[u][p]
           r  == Append(Tail(q), Head(q))
           s1 == [s EXCEPT !.ready[u][p] = r]
<1>1. q \in Seq(Task)
  BY DEF WellTyped, KState
<1>2. CASE Len(q) < 2
  BY <1>2 DEF RotateReadyQueue, Sound, KeepsSched
<1>3. CASE ~(Len(q) < 2)
  <2>1. q # << >> /\ Tail(q) \in Seq(Task) /\ Head(q) \in Task
    BY <1>1, <1>3
  <2>2. r \in Seq(Task) /\ r # << >>
    BY <2>1, AppendType
  <2>3. Head(r) \in Task
    <3> HIDE DEF r
    <3> QED
      BY <2>2
  <2>4. s1 = [s EXCEPT !.ready[u][p] = r, !.primap[u] = s.primap[u]]
    BY DEF WellTyped, KState
  <2>5. s.primap[u] \in SUBSET Pri
        /\ \A p2 \in s.primap[u] : (p2 = p /\ r # << >>) \/ (p2 # p /\ p2 \in s.primap[u])
    BY <2>2 DEF WellTyped, KState
  <2>6. RotateReadyQueue(s, p, u) \in {s1, SetPredtsk(s1, u, Head(r))}
    BY <1>3 DEF RotateReadyQueue
  <2> HIDE DEF r, s1, q
  <2>7. Sound(s, s1)
    BY <2>2, <2>4, <2>5, QueueSound
  <2>8. WellTyped(s1)
    BY <2>7 DEF Sound
  <2>9. Sound(s, SetPredtsk(s1, u, Head(r)))
    BY <2>3, <2>7, <2>8, SetPredtskSound, SoundTrans
  <2> QED
    BY <2>6, <2>7, <2>9
<1> QED
  BY <1>2, <1>3

-----------------------------------------------------------------------------
(* Task states. *)

\* The states of the state diagram are the values of tstat.
LEMMA StatesType ==
  /\ {} \in TStat /\ {"RUNNABLE"} \in TStat /\ {"SUSPENDED"} \in TStat
  /\ \A f \in WaitFlag : {f} \in TStat /\ {f, "SUSPENDED"} \in TStat
BY DEF TStat

\* Setting the state of a task is sound.
LEMMA TstatSound ==
  ASSUME NEW s, WellTyped(s), NEW t \in Task, NEW ts \in TStat
  PROVE  Sound(s, [s EXCEPT !.tcb[t].tstat = ts])
<1>1. [s.tcb[t] EXCEPT !.tstat = ts] \in TCB
  BY TaskFacts DEF TCB
<1> QED
  BY <1>1, TcbSound

\* A task that becomes runnable is moved to its ready queue.
LEMMA TstatRunnableSound ==
  ASSUME NEW s, WellTyped(s), NEW t \in Task
  PROVE  Sound(s, MakeRunnable([s EXCEPT !.tcb[t].tstat = {"RUNNABLE"}], t))
<1> DEFINE s1 == [s EXCEPT !.tcb[t].tstat = {"RUNNABLE"}]
<1>1. Sound(s, s1)
  BY TstatSound, StatesType
<1> HIDE DEF s1
<1>2. Sound(s, MakeRunnable(s1, t))
  BY <1>1, MakeRunnableSound, SoundTrans DEF Sound
<1> QED
  BY <1>2 DEF s1

\* make_active is sound.
LEMMA MakeActiveSound ==
  ASSUME NEW s, WellTyped(s), NEW t \in Task
  PROVE  Sound(s, MakeActive(s, t))
BY TstatRunnableSound DEF MakeActive

\* A task that stops being runnable is taken out of its ready queue.
LEMMA TstatNonRunnableSound ==
  ASSUME NEW s, WellTyped(s), NEW t \in Task, NEW ts \in TStat
  PROVE  Sound(s, MakeNonRunnable([s EXCEPT !.tcb[t].tstat = ts], t))
<1> DEFINE s1 == [s EXCEPT !.tcb[t].tstat = ts]
<1>1. Sound(s, s1)
  BY TstatSound
<1> HIDE DEF s1
<1>2. Sound(s, MakeNonRunnable(s1, t))
  BY <1>1, MakeNonRunnableSound, SoundTrans DEF Sound
<1> QED
  BY <1>2 DEF s1

\* Registering or cancelling time events is sound.
LEMMA TmevtSound ==
  ASSUME NEW s, WellTyped(s), NEW T \in SUBSET Task
  PROVE  Sound(s, [s EXCEPT !.tmevt = T])
BY DEF Sound, WellTyped, KeepsSched, KState

\* make_wait_tmout of the running task is sound.
LEMMA MakeWaitTmoutSound ==
  ASSUME NEW s, WellTyped(s), s.runtsk \in Task, NEW flag \in WaitFlag, NEW timed \in BOOLEAN
  PROVE  Sound(s, MakeWaitTmout(s, flag, timed))
<1> DEFINE s1 == MakeWait(s, flag)
<1>1. Sound(s, s1)
  BY TstatNonRunnableSound, StatesType DEF MakeWait
<1> HIDE DEF s1
<1>2. s1.tmevt \union {s.runtsk} \in SUBSET Task
  BY <1>1 DEF Sound, WellTyped, KState
<1>3. Sound(s, [s1 EXCEPT !.tmevt = s1.tmevt \union {s.runtsk}])
  BY <1>1, <1>2, TmevtSound, SoundTrans DEF Sound
<1>4. MakeWaitTmout(s, flag, timed) \in {s1, [s1 EXCEPT !.tmevt = s1.tmevt \union {s.runtsk}]}
  BY DEF MakeWaitTmout, s1
<1> QED
  BY <1>1, <1>3, <1>4

\* make_non_wait is sound.
LEMMA MakeNonWaitSound ==
  ASSUME NEW s, WellTyped(s), NEW t \in Task
  PROVE  Sound(s, MakeNonWait(s, t))
BY TstatSound, TstatRunnableSound, StatesType DEF MakeNonWait

\* Forgetting the object waited for is sound.
LEMMA WobjSound ==
  ASSUME NEW s, WellTyped(s), NEW t \in Task
  PROVE  Sound(s, [s EXCEPT !.tcb[t].wobj = NULL])
<1>1. [s.tcb[t] EXCEPT !.wobj = NULL] \in TCB
  BY TaskFacts DEF TCB
<1> QED
  BY <1>1, TcbSound

\* wait_dequeue_wobj and wait_dequeue_tmevtb are sound.
LEMMA WaitDequeueSound ==
  ASSUME NEW s, WellTyped(s), NEW t \in Task
  PROVE  /\ Sound(s, WaitDequeueWObj(s, t))
         /\ Sound(s, WaitDequeueTmevtb(s, t))
<1> DEFINE w  == s.tcb[t].wobj
           q  == Without(s.wque[w], t)
           s1 == [s EXCEPT !.wque[w] = q]
<1>1. w \in WObj => q \in Seq(Task)
  BY WithoutType DEF WellTyped, KState
<1>2. WaitDequeueWObj(s, t) \in {s, [s1 EXCEPT !.tcb[t].wobj = NULL]}
  BY DEF WaitDequeueWObj
<1> HIDE DEF w, q
<1>3. Sound(s, s1)
  BY <1>1, WqueSound
<1> HIDE DEF s1
<1>4. Sound(s, [s1 EXCEPT !.tcb[t].wobj = NULL])
  BY <1>3, WobjSound, SoundTrans DEF Sound
<1>5. Sound(s, s)
  BY DEF Sound, KeepsSched
<1>6. s.tmevt \ {t} \in SUBSET Task
  BY DEF WellTyped, KState
<1>7. Sound(s, WaitDequeueTmevtb(s, t))
  BY <1>6, TmevtSound DEF WaitDequeueTmevtb
<1> QED
  BY <1>2, <1>4, <1>5, <1>7

\* So is leaving both queues, in either order.
LEMMA DequeueSound ==
  ASSUME NEW s, WellTyped(s), NEW t \in Task
  PROVE  /\ Sound(s, WaitDequeueTmevtb(WaitDequeueWObj(s, t), t))
         /\ Sound(s, WaitDequeueWObj(WaitDequeueTmevtb(s, t), t))
BY WaitDequeueSound, SoundTrans DEF Sound

\* The release from a wait (wait_complete, rel_wai, wait_tmout) is sound.
LEMMA WaitReleaseSound ==
  ASSUME NEW s, WellTyped(s), NEW t \in Task
  PROVE  /\ Sound(s, WaitComplete(s, t))
         /\ Sound(s, WaitTmout(s, t))
         /\ Sound(s, MakeNonWait(WaitDequeueTmevtb(WaitDequeueWObj(s, t), t), t))
<1> DEFINE s1 == [s EXCEPT !.tcb[t].wobj = NULL]
<1>1. Sound(s, s1)
  BY WobjSound
<1> HIDE DEF s1
<1>2. Sound(s, WaitDequeueTmevtb(s1, t))
  BY <1>1, WaitDequeueSound, SoundTrans DEF Sound
<1>3. Sound(s, MakeNonWait(WaitDequeueTmevtb(s1, t), t))
  BY <1>2, MakeNonWaitSound, SoundTrans DEF Sound
<1>4. Sound(s, MakeNonWait(WaitDequeueTmevtb(WaitDequeueWObj(s, t), t), t))
  BY DequeueSound, MakeNonWaitSound, SoundTrans DEF Sound
<1>5. Sound(s, MakeNonWait(WaitDequeueWObj(WaitDequeueTmevtb(s, t), t), t))
  BY DequeueSound, MakeNonWaitSound, SoundTrans DEF Sound
<1> QED
  BY <1>3, <1>4, <1>5 DEF WaitComplete, WaitTmout, s1

-----------------------------------------------------------------------------
(* Termination. *)

\* make_dormant is sound.
LEMMA MakeDormantSound ==
  ASSUME NEW s, WellTyped(s), NEW t \in Task
  PROVE  Sound(s, MakeDormant(s, t))
<1> DEFINE b == [s.tcb[t] EXCEPT !.tstat = {}, !.bpri = IniPri[t], !.pri = IniPri[t],
                   !.wupque = FALSE, !.raster = FALSE, !.enater = TRUE]
<1>1. IniPri[t] \in Pri
  BY KernelAssumption
<1>2. b \in TCB
  BY <1>1, TaskFacts, StatesType DEF TCB
<1>3. MakeDormant(s, t) = [s EXCEPT !.tcb[t] = b]
  BY DEF MakeDormant
<1> HIDE DEF b
<1> QED
  BY <1>2, <1>3, TcbSound

\* task_terminate is sound.
LEMMA TaskTerminateSound ==
  ASSUME NEW s, WellTyped(s), NEW t \in Task
  PROVE  Sound(s, TaskTerminate(s, t))
<1>1. Sound(s, LeaveQueues(s, t))
  <2>1. Sound(s, s)
    BY DEF Sound, KeepsSched
  <2> QED
    BY <2>1, MakeNonRunnableSound, DequeueSound DEF LeaveQueues
<1>2. \A z : WellTyped(z) => Sound(z, BecomeDormant(z, t))
  <2> SUFFICES ASSUME NEW z, WellTyped(z)
               PROVE  Sound(z, BecomeDormant(z, t))
    OBVIOUS
  <2> DEFINE z1 == MakeDormant(z, t)
             z2 == [z1 EXCEPT !.tcb[t].actque = FALSE]
  <2>1. Sound(z, z1)
    BY MakeDormantSound
  <2>2. BecomeDormant(z, t) \in {z1, MakeActive(z2, t)}
    BY DEF BecomeDormant
  <2> HIDE DEF z1
  <2>3. WellTyped(z1)
    BY <2>1 DEF Sound
  <2>4. [z1.tcb[t] EXCEPT !.actque = FALSE] \in TCB
    BY <2>3, TaskFacts DEF TCB
  <2>5. Sound(z, z2)
    BY <2>1, <2>3, <2>4, TcbSound, SoundTrans
  <2> HIDE DEF z2
  <2>6. Sound(z, MakeActive(z2, t))
    BY <2>5, MakeActiveSound, SoundTrans DEF Sound
  <2> QED
    BY <2>1, <2>2, <2>6
<1> QED
  BY <1>1, <1>2, SoundTrans DEF TaskTerminate, Sound
-----------------------------------------------------------------------------
(***************************************************************************)
(* The scheduling data: the ready queues, the bitmaps, p_predtsk and       *)
(* p_schedtsk agree with each other and with the task control blocks after *)
(* every internal operation.                                               *)
(***************************************************************************)

(***************************************************************************)
(* Inside an operation a task may be in no queue although its tstat still  *)
(* says that it is runnable, so the lemmas are about a placement `pl': the  *)
(* priority of the ready queue a task is in, or 0 if it is in none.        *)
(***************************************************************************)

\* The queue q holds exactly the tasks of T, each once.
IsQueue(q, T) ==
  /\ \A i, j \in DOMAIN q : q[i] = q[j] => i = j
  /\ {q[i] : i \in DOMAIN q} = T

\* The tasks that are placed in the queue of priority p of unit u.
PlacedIn(pl, u, p) == {t \in Task : UnitOf[t] = u /\ pl[t] = p}

IsPlacement(pl) == pl \in [Task -> Pri \union {0}]

\* Task t is placed in the queue of priority p.
Put(pl, t, p) == [pl EXCEPT ![t] = p]

\* The ready queues and bitmaps are those of the placement.
QueuesExact(s, pl) ==
  \A u \in Unit, p \in Pri :
    /\ IsQueue(s.ready[u][p], PlacedIn(pl, u, p))
    /\ p \in s.primap[u] <=> s.ready[u][p] # << >>

\* A task that is placed is in the queue of its current priority.
AtPriority(s, pl) ==
  /\ IsPlacement(pl)
  /\ \A t \in Task : pl[t] # 0 => pl[t] = s.tcb[t].pri

\* p is the highest priority of unit u that has a task.
IsTopPri(s, u, p) == p \in s.primap[u] /\ \A h \in s.primap[u] : p <= h

\* v is the task that p_predtsk of unit u has to be.
IsTop(s, u, v) ==
  /\ s.primap[u] = {} => v = NULL
  /\ \A p \in Pri : IsTopPri(s, u, p) => v = Head(s.ready[u][p])

PredtskExact(s)  == \A u \in Unit : IsTop(s, u, s.predtsk[u])
SchedtskExact(s) == s.dspflg => s.schedtsk = Selected(s)

\* The queues, the bitmaps and p_predtsk agree.
Agree(s, pl) ==
  /\ WellTyped(s) /\ QueuesExact(s, pl) /\ AtPriority(s, pl)
  /\ PredtskExact(s)

\* They agree in z, an operation after s, and p_schedtsk is right in z if it
\* was in s: in the middle of a switch of the time window it may not be.
AgreeAfter(s, z, pl) ==
  /\ Agree(z, pl)
  /\ SchedtskExact(s) => SchedtskExact(z)

\* The placement that the task control blocks ask for.
PlaceOf(b) == IF IsRunnable(b.tstat) THEN b.pri ELSE 0
Place(s)   == [t \in Task |-> PlaceOf(s.tcb[t])]

\* The two states differ in the scheduling data only.
SameTasks(s, s2) == s2.tcb = s.tcb /\ s2.tmevt = s.tmevt /\ s2.wque = s.wque

-----------------------------------------------------------------------------
(* Queues. *)

\* A queue is empty iff it holds no task.
LEMMA EmptyQueue ==
  ASSUME NEW q \in Seq(Task), NEW T, IsQueue(q, T)
  PROVE  q = << >> <=> T = {}
<1>1. DOMAIN q = 1..Len(q) /\ Len(q) \in Nat
  OBVIOUS
<1>2. CASE q = << >>
  BY <1>2 DEF IsQueue
<1>3. CASE q # << >>
  <2>1. 1 \in DOMAIN q
    BY <1>1, <1>3
  <2> QED
    BY <1>3, <2>1 DEF IsQueue
<1> QED
  BY <1>2, <1>3

\* The head of a queue is one of its tasks.
LEMMA HeadInQueue ==
  ASSUME NEW S, NEW q \in Seq(S), NEW T, IsQueue(q, T), q # << >>
  PROVE  Head(q) \in T /\ Head(q) = q[1] /\ Head(q) \in S
<1>1. 1 \in DOMAIN q /\ Head(q) = q[1] /\ Head(q) \in S
  OBVIOUS
<1> QED
  BY <1>1 DEF IsQueue

\* Appending a task that is not in the queue.
LEMMA AppendQueue ==
  ASSUME NEW q \in Seq(Task), NEW T, IsQueue(q, T), NEW t \in Task, t \notin T
  PROVE  IsQueue(Append(q, t), T \union {t})
<1> DEFINE r == Append(q, t)
<1>1. /\ DOMAIN r = 1..(Len(q) + 1) /\ Len(q) \in Nat /\ DOMAIN q = 1..Len(q)
      /\ \A i \in 1..Len(q) : r[i] = q[i]
      /\ r[Len(q) + 1] = t
  OBVIOUS
<1>2. \A i \in DOMAIN q : q[i] # t /\ q[i] \in T
  BY DEF IsQueue
<1> HIDE DEF r
<1>3. \A i \in DOMAIN r : (i \in DOMAIN q /\ r[i] = q[i]) \/ (i = Len(q) + 1 /\ r[i] = t)
  BY <1>1
<1>4. ASSUME NEW i \in DOMAIN r, NEW j \in DOMAIN r, r[i] = r[j] PROVE i = j
  BY <1>2, <1>3, <1>4 DEF IsQueue
<1>5. ASSUME NEW v \in T PROVE \E i \in DOMAIN r : r[i] = v
  BY <1>1, <1>5 DEF IsQueue
<1>6. {r[i] : i \in DOMAIN r} = T \union {t}
  BY <1>1, <1>2, <1>3, <1>5
<1> QED
  BY <1>4, <1>6 DEF IsQueue, r

\* Inserting it at the head.
LEMMA PrependQueue ==
  ASSUME NEW S, NEW q \in Seq(S), NEW T, IsQueue(q, T), NEW t \in S, t \notin T
  PROVE  IsQueue(<<t>> \o q, T \union {t}) /\ Head(<<t>> \o q) = t
<1> DEFINE r == <<t>> \o q
<1>1. /\ r \in Seq(S) /\ Len(r) = Len(q) + 1 /\ Len(q) \in Nat
      /\ DOMAIN q = 1..Len(q) /\ DOMAIN r = 1..(Len(q) + 1)
      /\ r[1] = t
      /\ \A i \in 2..(Len(q) + 1) : r[i] = q[i - 1]
  OBVIOUS
<1>2. \A i \in DOMAIN q : q[i] # t /\ q[i] \in T
  BY DEF IsQueue
<1> HIDE DEF r
<1>3. \A i \in DOMAIN r : (i - 1 \in DOMAIN q /\ r[i] = q[i - 1]) \/ (i = 1 /\ r[i] = t)
  BY <1>1
<1>4. ASSUME NEW i \in DOMAIN r, NEW j \in DOMAIN r, r[i] = r[j] PROVE i = j
  <2>1. i \in Nat /\ j \in Nat
    BY <1>1
  <2>2. (i - 1 \in DOMAIN q /\ j - 1 \in DOMAIN q) => i - 1 = j - 1
    BY <1>2, <1>3, <1>4 DEF IsQueue
  <2> QED
    BY <1>2, <1>3, <1>4, <2>1, <2>2
<1>5. ASSUME NEW v \in T PROVE \E i \in DOMAIN r : r[i] = v
  <2>1. PICK k \in DOMAIN q : q[k] = v
    BY <1>5 DEF IsQueue
  <2>2. k + 1 \in DOMAIN r /\ r[k + 1] = v
    BY <1>1, <2>1
  <2> QED
    BY <2>2
<1>6. {r[i] : i \in DOMAIN r} = T \union {t}
  BY <1>1, <1>2, <1>3, <1>5
<1>7. Head(r) = t
  BY <1>1
<1> QED
  BY <1>4, <1>6, <1>7 DEF IsQueue, r

\* queue_delete removes exactly the task.
LEMMA WithoutQueue ==
  ASSUME NEW S, NEW q \in Seq(S), NEW T, IsQueue(q, T), NEW t \in T
  PROVE  IsQueue(Without(q, t), T \ {t})
<1> DEFINE r == Without(q, t)
<1>1. DOMAIN q = 1..Len(q) /\ Len(q) \in Nat
  OBVIOUS
<1>2. PICK k \in DOMAIN q : q[k] = t
  BY DEF IsQueue
<1>3. \A j \in DOMAIN q : q[j] = t => j = k
  BY <1>2 DEF IsQueue
<1>4. \A i \in 1..(Len(q) - 1) : (\A j \in 1..i : q[j] # t) <=> i < k
  BY <1>1, <1>2, <1>3
<1>5. DOMAIN r = 1..(Len(q) - 1)
  BY DEF Without
<1>6. \A i \in DOMAIN r : (i < k /\ r[i] = q[i]) \/ (i >= k /\ r[i] = q[i + 1])
  BY <1>1, <1>2, <1>4, <1>5 DEF Without
<1> HIDE DEF r
<1>7. ASSUME NEW i \in DOMAIN r, NEW j \in DOMAIN r, r[i] = r[j] PROVE i = j
  <2>1. /\ i \in DOMAIN q /\ i + 1 \in DOMAIN q /\ j \in DOMAIN q /\ j + 1 \in DOMAIN q
        /\ i \in Nat /\ j \in Nat /\ k \in Nat
    BY <1>1, <1>5, <1>2
  <2>2. \A a, b \in DOMAIN q : q[a] = q[b] => a = b
    BY DEF IsQueue
  <2>3. CASE i < k /\ j < k
    BY <1>6, <1>7, <2>1, <2>2, <2>3
  <2>4. CASE i >= k /\ j >= k
    BY <1>6, <1>7, <2>1, <2>2, <2>4
  <2>5. CASE i < k /\ j >= k
    BY <1>6, <1>7, <2>1, <2>2, <2>5
  <2>6. CASE i >= k /\ j < k
    BY <1>6, <1>7, <2>1, <2>2, <2>6
  <2> QED
    BY <2>1, <2>3, <2>4, <2>5, <2>6
<1>8. ASSUME NEW i \in DOMAIN r PROVE r[i] \in T \ {t}
  <2>1. \A a \in DOMAIN q : q[a] \in T /\ (a # k => q[a] # t)
    BY <1>3 DEF IsQueue
  <2>2. i \in DOMAIN q /\ i + 1 \in DOMAIN q /\ i \in Nat /\ k \in Nat
    BY <1>1, <1>2, <1>5
  <2> QED
    BY <1>6, <2>1, <2>2
<1>9. ASSUME NEW v \in T, v # t PROVE \E i \in DOMAIN r : r[i] = v
  <2>1. PICK a \in DOMAIN q : q[a] = v
    BY DEF IsQueue
  <2>2. a # k /\ a \in Nat /\ k \in Nat
    BY <1>1, <1>2, <1>9, <2>1
  <2>3. CASE a < k
    <3>1. a \in DOMAIN r
      BY <1>1, <1>2, <1>5, <2>2, <2>3
    <3> QED
      BY <1>6, <2>1, <2>2, <2>3, <3>1
  <2>4. CASE a > k
    <3>1. a - 1 \in DOMAIN r /\ a - 1 >= k /\ (a - 1) + 1 = a
      BY <1>1, <1>2, <1>5, <2>2, <2>4
    <3> QED
      BY <1>6, <2>1, <2>2, <2>4, <3>1
  <2> QED
    BY <2>2, <2>3, <2>4
<1>10. {r[i] : i \in DOMAIN r} = T \ {t}
  BY <1>8, <1>9
<1> QED
  BY <1>7, <1>10 DEF IsQueue, r

\* Moving the head of a queue to its end.
LEMMA RotateQueue ==
  ASSUME NEW q \in Seq(Task), NEW T, IsQueue(q, T), q # << >>
  PROVE  IsQueue(Append(Tail(q), Head(q)), T)
<1> DEFINE q2 == Tail(q)
           r  == Append(q2, Head(q))
<1>1. DOMAIN q = 1..Len(q) /\ Len(q) \in Nat /\ Len(q) >= 1
  OBVIOUS
<1>2. /\ q2 \in Seq(Task) /\ Len(q2) = Len(q) - 1 /\ DOMAIN q2 = 1..(Len(q) - 1)
      /\ \A i \in 1..(Len(q) - 1) : q2[i] = q[i + 1]
  OBVIOUS
<1>3. Head(q) = q[1] /\ Head(q) \in T /\ Head(q) \in Task
  BY HeadInQueue
<1> HIDE DEF q2
<1>4. IsQueue(q2, T \ {Head(q)})
  <2>1. \A i, j \in DOMAIN q : q[i] = q[j] => i = j
    BY DEF IsQueue
  <2>2. ASSUME NEW i \in DOMAIN q2, NEW j \in DOMAIN q2, q2[i] = q2[j] PROVE i = j
    <3>1. i + 1 \in DOMAIN q /\ j + 1 \in DOMAIN q /\ i \in Nat /\ j \in Nat
      BY <1>1, <1>2
    <3> QED
      BY <1>2, <2>1, <2>2, <3>1
  <2>3. ASSUME NEW i \in DOMAIN q2 PROVE q2[i] \in T \ {Head(q)}
    <3>1. i + 1 \in DOMAIN q /\ 1 \in DOMAIN q /\ i + 1 # 1
      BY <1>1, <1>2
    <3>2. q[i + 1] \in T /\ q[i + 1] # q[1]
      BY <2>1, <3>1 DEF IsQueue
    <3> QED
      BY <1>2, <1>3, <3>2
  <2>4. ASSUME NEW v \in T, v # Head(q) PROVE \E i \in DOMAIN q2 : q2[i] = v
    <3>1. PICK a \in DOMAIN q : q[a] = v
      BY DEF IsQueue
    <3>2. a - 1 \in DOMAIN q2 /\ (a - 1) + 1 = a
      BY <1>1, <1>2, <1>3, <2>4, <3>1
    <3> QED
      BY <1>2, <3>1, <3>2
  <2>5. {q2[i] : i \in DOMAIN q2} = T \ {Head(q)}
    BY <2>3, <2>4
  <2> QED
    BY <2>2, <2>5 DEF IsQueue
<1>5. IsQueue(r, (T \ {Head(q)}) \union {Head(q)})
  BY <1>2, <1>3, <1>4, AppendQueue
<1>6. (T \ {Head(q)}) \union {Head(q)} = T
  BY <1>3
<1> QED
  BY <1>5, <1>6 DEF r, q2

-----------------------------------------------------------------------------
(* p_predtsk and p_schedtsk. *)

\* A unit with tasks has a highest priority, and p_predtsk is the first task of
\* that priority; a unit without tasks has none.
LEMMA TopFacts ==
  ASSUME NEW s, NEW pl, WellTyped(s), QueuesExact(s, pl), AtPriority(s, pl),
         NEW u \in Unit, NEW v, IsTop(s, u, v)
  PROVE  \/ s.primap[u] = {} /\ v = NULL
         \/ \E h \in Pri : /\ IsTopPri(s, u, h) /\ v = Head(s.ready[u][h])
                           /\ s.ready[u][h] # << >>
                           /\ v \in Task /\ v # NULL /\ UnitOf[v] = u
                           /\ pl[v] = h /\ s.tcb[v].pri = h
<1>1. CASE s.primap[u] = {}
  BY <1>1 DEF IsTop
<1>2. CASE s.primap[u] # {}
  <2>1. s.primap[u] \subseteq Pri
    BY DEF WellTyped, KState
  <2>2. PICK h \in s.primap[u] : \A g \in s.primap[u] : h <= g
    BY <1>2, <2>1, LeastPri
  <2>3. h \in Pri /\ IsTopPri(s, u, h) /\ v = Head(s.ready[u][h])
    BY <2>1, <2>2 DEF IsTop, IsTopPri
  <2>4. s.ready[u][h] \in Seq(Task) /\ s.ready[u][h] # << >>
    BY <2>2, <2>3 DEF WellTyped, KState
  <2>5. IsQueue(s.ready[u][h], PlacedIn(pl, u, h))
    BY <2>3 DEF QueuesExact
  <2>6. v \in PlacedIn(pl, u, h)
    BY <2>3, <2>4, <2>5, HeadInQueue
  <2>7. v \in Task /\ UnitOf[v] = u /\ pl[v] = h /\ h # 0
    BY <2>3, <2>6 DEF PlacedIn, Pri
  <2> QED
    BY <2>3, <2>4, <2>7, KernelAssumption DEF AtPriority
<1> QED
  BY <1>1, <1>2

\* search_predtsk finds the task that p_predtsk has to be.
LEMMA SearchIsTop ==
  ASSUME NEW s, WellTyped(s), NEW u \in Unit, s.primap[u] # {}
  PROVE  IsTop(s, u, SearchPredtsk(s, u))
<1> DEFINE first == CHOOSE p \in s.primap[u] : \A p2 \in s.primap[u] : p <= p2
<1>1. s.primap[u] \subseteq Pri /\ Pri \subseteq Int
  BY DEF WellTyped, KState, Pri
<1>2. \E p \in s.primap[u] : \A p2 \in s.primap[u] : p <= p2
  BY <1>1, LeastPri
<1>3. first \in s.primap[u] /\ \A p2 \in s.primap[u] : first <= p2
  BY <1>2
<1>4. SearchPredtsk(s, u) = Head(s.ready[u][first])
  BY DEF SearchPredtsk
<1> HIDE DEF first
<1>5. ASSUME NEW p \in Pri, IsTopPri(s, u, p) PROVE p = first
  <2>1. p <= first /\ first <= p
    BY <1>3, <1>5 DEF IsTopPri
  <2>2. p \in Int /\ first \in Int
    BY <1>1, <1>3
  <2> QED
    BY <2>1, <2>2
<1> QED
  BY <1>4, <1>5 DEF IsTop

\* The selection depends only on p_predtsk, on the current units, and on the
\* priorities of the tasks that are some p_predtsk.
LEMMA SelectedSame ==
  ASSUME NEW s \in KState, NEW s2, s2.predtsk = s.predtsk,
         s2.twdsched = s.twdsched, s2.idlesched = s.idlesched,
         \A u \in Unit : s.predtsk[u] # NULL =>
           s2.tcb[s.predtsk[u]].pri = s.tcb[s.predtsk[u]].pri
  PROVE  Selected(s2) = Selected(s)
<1>1. KERNEL \in Unit /\ s.twdsched \in Unit
  BY KernelAssumption DEF KState
<1> QED
  BY <1>1 DEF Selected

\* Setting p_predtsk of a unit to the right task makes everything agree.
LEMMA SetPredtskExact ==
  ASSUME NEW s, NEW pl, WellTyped(s), QueuesExact(s, pl), AtPriority(s, pl),
         NEW u \in Unit, NEW v, IsTop(s, u, v),
         \A u2 \in Unit \ {u} : IsTop(s, u2, s.predtsk[u2])
  PROVE  /\ Agree(SetPredtsk(s, u, v), pl) /\ SchedtskExact(SetPredtsk(s, u, v))
         /\ SameTasks(s, SetPredtsk(s, u, v))
<1> DEFINE s1 == [s EXCEPT !.predtsk[u] = v]
           s2 == SetPredtsk(s, u, v)
<1>1. v \in Task \union {NULL}
  BY TopFacts
<1>2. WellTyped(s2)
  BY <1>1, SetPredtskSound DEF Sound
<1>3. /\ s \in KState /\ s1.predtsk = [s.predtsk EXCEPT ![u] = v]
      /\ s1.tcb = s.tcb /\ s1.tmevt = s.tmevt /\ s1.wque = s.wque
      /\ s1.ready = s.ready /\ s1.primap = s.primap /\ s1.dspflg = s.dspflg
      /\ s1 \in KState
  BY <1>1 DEF WellTyped, KState
<1> HIDE DEF s1
<1>4. s2 = IF s1.dspflg THEN [s1 EXCEPT !.schedtsk = Selected(s1)] ELSE s1
  BY DEF SetPredtsk, UpdateIfDsp, UpdateSchedtsk, s1
<1> HIDE DEF s2
<1>5. /\ s2.predtsk = s1.predtsk /\ s2.tcb = s1.tcb /\ s2.dspflg = s1.dspflg
      /\ s2.ready = s1.ready /\ s2.primap = s1.primap
      /\ s2.twdsched = s1.twdsched /\ s2.idlesched = s1.idlesched
      /\ s2.tmevt = s1.tmevt /\ s2.wque = s1.wque
      /\ s1.dspflg => s2.schedtsk = Selected(s1)
  BY <1>3, <1>4 DEF KState
<1>6. Selected(s2) = Selected(s1)
  BY <1>3, <1>5, SelectedSame
<1>7. QueuesExact(s2, pl) /\ AtPriority(s2, pl)
  BY <1>3, <1>5 DEF QueuesExact, AtPriority
<1>8. PredtskExact(s2)
  <2>1. s.predtsk \in [Unit -> Task \union {NULL}]
    BY <1>3 DEF KState
  <2>2. \A u2 \in Unit : s2.predtsk[u2] = IF u2 = u THEN v ELSE s.predtsk[u2]
    BY <1>3, <1>5, <2>1
  <2> QED
    BY <1>3, <1>5, <2>2 DEF PredtskExact, IsTop, IsTopPri
<1>9. SchedtskExact(s2)
  BY <1>5, <1>6 DEF SchedtskExact
<1> QED
  BY <1>2, <1>3, <1>5, <1>7, <1>8, <1>9 DEF Agree, SameTasks, s2

\* Leaving it alone, if it still is the right task.
LEMMA KeepPredtskExact ==
  ASSUME NEW s, NEW pl, NEW s2, NEW pl2, Agree(s, pl),
         WellTyped(s2), QueuesExact(s2, pl2), AtPriority(s2, pl2),
         s2.predtsk = s.predtsk, s2.schedtsk = s.schedtsk, s2.dspflg = s.dspflg,
         s2.twdsched = s.twdsched, s2.idlesched = s.idlesched,
         \A u \in Unit : s.predtsk[u] # NULL =>
           s2.tcb[s.predtsk[u]].pri = s.tcb[s.predtsk[u]].pri,
         \A u \in Unit : IsTop(s2, u, s.predtsk[u])
  PROVE  AgreeAfter(s, s2, pl2)
<1>1. s \in KState
  BY DEF Agree, WellTyped
<1>2. Selected(s2) = Selected(s)
  BY <1>1, SelectedSame
<1> QED
  BY <1>2 DEF Agree, AgreeAfter, PredtskExact, SchedtskExact

-----------------------------------------------------------------------------
(* Moving one task in the ready queues and the bitmap. *)

\* The queues after queue_delete of t, with the bit cleared if none is left.
Removed(s, t, p) ==
  LET u == UnitOf[t]
      q == Without(s.ready[u][p], t)
  IN  [s EXCEPT !.ready[u][p] = q,
                !.primap[u] = IF q = << >> THEN @ \ {p} ELSE @]

\* The queues after the insertion of t at one of the ends, with the bit set.
Added(s, t, p, mode) ==
  LET u == UnitOf[t]
  IN  [s EXCEPT !.ready[u][p] = IF mode THEN <<t>> \o @ ELSE Append(@, t),
                !.primap[u] = @ \union {p}]

\* One queue and the bitmap of its unit are replaced.
Replaced(s, u, p, q, pm) == [s EXCEPT !.ready[u][p] = q, !.primap[u] = pm]

\* What that changes.
LEMMA QueueFields ==
  ASSUME NEW s, WellTyped(s), NEW u \in Unit, NEW p \in Pri, NEW q, NEW pm, NEW s2,
         s2 = Replaced(s, u, p, q, pm)
  PROVE  /\ s2.ready[u][p] = q /\ s2.primap[u] = pm
         /\ \A u2 \in Unit, p2 \in Pri :
              ~(u2 = u /\ p2 = p) => s2.ready[u2][p2] = s.ready[u2][p2]
         /\ \A u2 \in Unit : u2 # u => s2.primap[u2] = s.primap[u2]
         /\ SameTasks(s, s2) /\ s2.predtsk = s.predtsk /\ KeepsSched(s, s2)
         /\ s2.schedtsk = s.schedtsk
BY DEF WellTyped, KState, SameTasks, KeepsSched, Replaced

\* Only the queues and the bitmap of unit u changed, to those of the placement.
Moved(s, z, pl, u) ==
  /\ WellTyped(z) /\ QueuesExact(z, pl)
  /\ SameTasks(s, z) /\ z.predtsk = s.predtsk /\ KeepsSched(s, z)
  /\ z.schedtsk = s.schedtsk
  /\ \A u2 \in Unit : \A v : u2 # u /\ IsTop(s, u2, v) => IsTop(z, u2, v)

\* z is s without t in the queue of priority p of unit u.
RemovedFrom(s, z, pl, t, p, u) ==
  /\ Moved(s, z, Put(pl, t, 0), u)
  /\ z.ready[u][p] = Without(s.ready[u][p], t)
  /\ \A p2 \in Pri : p2 # p => z.ready[u][p2] = s.ready[u][p2]
  /\ z.primap[u] = IF z.ready[u][p] = << >> THEN s.primap[u] \ {p} ELSE s.primap[u]

\* z is s with t at one end of the queue of priority p of unit u.
AddedTo(s, z, pl, t, p, mode, u) ==
  /\ Moved(s, z, Put(pl, t, p), u)
  /\ Head(z.ready[u][p]) = IF mode \/ s.ready[u][p] = << >> THEN t ELSE Head(s.ready[u][p])
  /\ \A p2 \in Pri : p2 # p => z.ready[u][p2] = s.ready[u][p2]
  /\ z.primap[u] = s.primap[u] \union {p}

\* Taking a task out of its queue.
LEMMA RemovedExact ==
  ASSUME NEW s, NEW pl, WellTyped(s), QueuesExact(s, pl), IsPlacement(pl),
         NEW t \in Task, NEW p \in Pri, pl[t] = p
  PROVE  RemovedFrom(s, Removed(s, t, p), pl, t, p, UnitOf[t])
<1> DEFINE u  == UnitOf[t]
           q  == Without(s.ready[u][p], t)
           pm == IF q = << >> THEN s.primap[u] \ {p} ELSE s.primap[u]
           s2 == [s EXCEPT !.ready[u][p] = q, !.primap[u] = pm]
           pl2 == Put(pl, t, 0)
<1>1. u \in Unit /\ s.ready[u][p] \in Seq(Task) /\ s.primap[u] \in SUBSET Pri
  BY TaskFacts
<1>2. Removed(s, t, p) = s2
  BY DEF Removed
<1>3. t \in PlacedIn(pl, u, p) /\ IsQueue(s.ready[u][p], PlacedIn(pl, u, p))
  BY <1>1 DEF PlacedIn, QueuesExact
<1>4. IsQueue(q, PlacedIn(pl, u, p) \ {t}) /\ q \in Seq(Task)
  BY <1>1, <1>3, WithoutQueue, WithoutType
<1>5. pm \in SUBSET Pri
      /\ \A p2 \in pm : (p2 = p /\ q # << >>) \/ (p2 # p /\ p2 \in s.primap[u])
  BY <1>1
<1>6. p \in s.primap[u]
  BY <1>1, <1>3, EmptyQueue DEF QueuesExact
<1>7. /\ \A p2 \in Pri : p2 # p => (p2 \in pm <=> p2 \in s.primap[u])
      /\ p \in pm <=> q # << >>
  BY <1>6
<1>8. /\ PlacedIn(pl2, u, p) = PlacedIn(pl, u, p) \ {t}
      /\ \A u2 \in Unit, p2 \in Pri :
           ~(u2 = u /\ p2 = p) => PlacedIn(pl2, u2, p2) = PlacedIn(pl, u2, p2)
  BY DEF PlacedIn, Pri, Put, IsPlacement
<1>9. pm = IF q = << >> THEN s.primap[u] \ {p} ELSE s.primap[u]
  OBVIOUS
<1>10. q = Without(s.ready[u][p], t)
  OBVIOUS
<1> HIDE DEF q, pm, pl2, u
<1>11. WellTyped(s2)
  BY <1>1, <1>4, <1>5, QueueSound DEF Sound
<1>12. s2 = Replaced(s, u, p, q, pm)
  BY DEF Replaced
<1> HIDE DEF s2
<1>13. /\ s2.ready[u][p] = q /\ s2.primap[u] = pm
       /\ \A u2 \in Unit, p2 \in Pri :
            ~(u2 = u /\ p2 = p) => s2.ready[u2][p2] = s.ready[u2][p2]
       /\ \A u2 \in Unit : u2 # u => s2.primap[u2] = s.primap[u2]
       /\ SameTasks(s, s2) /\ s2.predtsk = s.predtsk /\ KeepsSched(s, s2)
       /\ s2.schedtsk = s.schedtsk
  BY <1>1, <1>12, QueueFields
<1>14. QueuesExact(s2, pl2)
  <2> SUFFICES ASSUME NEW u2 \in Unit, NEW p2 \in Pri
               PROVE  /\ IsQueue(s2.ready[u2][p2], PlacedIn(pl2, u2, p2))
                      /\ p2 \in s2.primap[u2] <=> s2.ready[u2][p2] # << >>
    BY DEF QueuesExact
  <2>1. CASE u2 = u /\ p2 = p
    BY <1>4, <1>7, <1>8, <1>13, <2>1
  <2>2. CASE ~(u2 = u /\ p2 = p)
    <3>1. /\ s2.ready[u2][p2] = s.ready[u2][p2]
          /\ PlacedIn(pl2, u2, p2) = PlacedIn(pl, u2, p2)
          /\ p2 \in s2.primap[u2] <=> p2 \in s.primap[u2]
      BY <1>7, <1>8, <1>13, <2>2
    <3> QED
      BY <3>1 DEF QueuesExact
  <2> QED
    BY <2>1, <2>2
<1>15. \A u2 \in Unit : \A v : u2 # u /\ IsTop(s, u2, v) => IsTop(s2, u2, v)
  BY <1>13 DEF IsTop, IsTopPri
<1> QED
  BY <1>1, <1>2, <1>9, <1>10, <1>11, <1>13, <1>14, <1>15 DEF u, pl2, Moved, RemovedFrom

\* Putting a task into a queue.
LEMMA AddedExact ==
  ASSUME NEW s, NEW pl, WellTyped(s), QueuesExact(s, pl), IsPlacement(pl),
         NEW t \in Task, NEW p \in Pri, NEW mode \in BOOLEAN, pl[t] = 0
  PROVE  AddedTo(s, Added(s, t, p, mode), pl, t, p, mode, UnitOf[t])
<1> DEFINE u  == UnitOf[t]
           q0 == s.ready[u][p]
           q  == IF mode THEN <<t>> \o q0 ELSE Append(q0, t)
           pm == s.primap[u] \union {p}
           s2 == [s EXCEPT !.ready[u][p] = q, !.primap[u] = pm]
           pl2 == Put(pl, t, p)
<1>1. u \in Unit /\ q0 \in Seq(Task) /\ s.primap[u] \in SUBSET Pri
  BY TaskFacts
<1>2. Added(s, t, p, mode) = s2
  BY DEF Added
<1>3. t \notin PlacedIn(pl, u, p) /\ IsQueue(q0, PlacedIn(pl, u, p))
  <2>1. t \notin PlacedIn(pl, u, p)
    BY DEF PlacedIn, Pri
  <2> QED
    BY <1>1, <2>1 DEF QueuesExact
<1>4. /\ q \in Seq(Task) /\ q # << >> /\ IsQueue(q, PlacedIn(pl, u, p) \union {t})
      /\ Head(q) = IF mode \/ q0 = << >> THEN t ELSE Head(q0)
  <2> HIDE DEF q0
  <2>1. CASE mode
    <3>1. /\ IsQueue(<<t>> \o q0, PlacedIn(pl, u, p) \union {t})
          /\ Head(<<t>> \o q0) = t
      BY <1>1, <1>3, PrependQueue
    <3>2. <<t>> \o q0 \in Seq(Task)
      BY <1>1
    <3>3. <<t>> \o q0 # << >>
      BY <3>1, <3>2, EmptyQueue
    <3> QED
      BY <2>1, <3>1, <3>2, <3>3
  <2>2. CASE ~mode
    <3>1. IsQueue(Append(q0, t), PlacedIn(pl, u, p) \union {t})
      BY <1>1, <1>3, AppendQueue
    <3>2. Append(q0, t) \in Seq(Task) /\ Append(q0, t) # << >>
      BY <1>1, AppendType
    <3>3. q0 = << >> => Head(Append(q0, t)) = t
      OBVIOUS
    <3>4. q0 # << >> => Head(Append(q0, t)) = Head(q0)
      BY <1>1
    <3> QED
      BY <2>2, <3>1, <3>2, <3>3, <3>4
  <2> QED
    BY <2>1, <2>2
<1>5. pm \in SUBSET Pri
      /\ \A p2 \in pm : (p2 = p /\ q # << >>) \/ (p2 # p /\ p2 \in s.primap[u])
  BY <1>1, <1>4
<1>6. /\ \A p2 \in Pri : p2 # p => (p2 \in pm <=> p2 \in s.primap[u])
      /\ p \in pm
  OBVIOUS
<1>7. /\ PlacedIn(pl2, u, p) = PlacedIn(pl, u, p) \union {t}
      /\ \A u2 \in Unit, p2 \in Pri :
           ~(u2 = u /\ p2 = p) => PlacedIn(pl2, u2, p2) = PlacedIn(pl, u2, p2)
  BY DEF PlacedIn, Pri, Put, IsPlacement
<1> HIDE DEF q, pm, pl2, u
<1>8. WellTyped(s2)
  BY <1>1, <1>4, <1>5, QueueSound DEF Sound
<1>9. s2 = Replaced(s, u, p, q, pm)
  BY DEF Replaced
<1> HIDE DEF s2
<1>10. /\ s2.ready[u][p] = q /\ s2.primap[u] = pm
       /\ \A u2 \in Unit, p2 \in Pri :
            ~(u2 = u /\ p2 = p) => s2.ready[u2][p2] = s.ready[u2][p2]
       /\ \A u2 \in Unit : u2 # u => s2.primap[u2] = s.primap[u2]
       /\ SameTasks(s, s2) /\ s2.predtsk = s.predtsk /\ KeepsSched(s, s2)
       /\ s2.schedtsk = s.schedtsk
  BY <1>1, <1>9, QueueFields
<1>11. QueuesExact(s2, pl2)
  BY <1>1, <1>4, <1>6, <1>7, <1>10 DEF QueuesExact
<1>12. \A u2 \in Unit : \A v : u2 # u /\ IsTop(s, u2, v) => IsTop(s2, u2, v)
  BY <1>10 DEF IsTop, IsTopPri
<1> QED
  BY <1>1, <1>2, <1>4, <1>8, <1>10, <1>11, <1>12 DEF u, pl2, pm, Moved, AddedTo

-----------------------------------------------------------------------------
(* The internal operations. *)

\* make_runnable: the task is in no queue; afterwards it is in that of its
\* priority and everything agrees.
LEMMA MakeRunnableExact ==
  ASSUME NEW s, NEW pl, Agree(s, pl), NEW t \in Task, pl[t] = 0
  PROVE  /\ AgreeAfter(s, MakeRunnable(s, t), Put(pl, t, s.tcb[t].pri))
         /\ SameTasks(s, MakeRunnable(s, t))
<1> DEFINE u   == UnitOf[t]
           p   == s.tcb[t].pri
           top == s.predtsk[u]
           s1  == Added(s, t, p, FALSE)
           pl2 == Put(pl, t, p)
           s2  == MakeRunnable(s, t)
<1>1. /\ WellTyped(s) /\ QueuesExact(s, pl) /\ AtPriority(s, pl)
      /\ IsPlacement(pl) /\ u \in Unit /\ p \in Pri
      /\ Pri \subseteq Int
  BY TaskFacts DEF Agree, AtPriority, Pri
<1>2. s2 = IF top = NULL \/ p < s.tcb[top].pri THEN SetPredtsk(s1, u, t) ELSE s1
  BY DEF MakeRunnable, Added
<1>3. IsTop(s, u, top)
  BY <1>1 DEF Agree, PredtskExact
<1> HIDE DEF s1, s2, u, p, top, pl2
<1>4. /\ WellTyped(s1) /\ QueuesExact(s1, pl2)
      /\ SameTasks(s, s1) /\ s1.predtsk = s.predtsk /\ KeepsSched(s, s1)
      /\ s1.schedtsk = s.schedtsk
      /\ Head(s1.ready[u][p]) = IF s.ready[u][p] = << >> THEN t ELSE Head(s.ready[u][p])
      /\ \A p2 \in Pri : p2 # p => s1.ready[u][p2] = s.ready[u][p2]
      /\ s1.primap[u] = s.primap[u] \union {p}
      /\ \A u2 \in Unit : \A v : u2 # u /\ IsTop(s, u2, v) => IsTop(s1, u2, v)
  <2>1. s1 = Added(s, t, p, FALSE) /\ u = UnitOf[t] /\ pl2 = Put(pl, t, p)
    BY DEF s1, u, pl2
  <2>2. AddedTo(s, s1, pl, t, p, FALSE, u)
    BY <1>1, <2>1, AddedExact
  <2> QED
    BY <2>1, <2>2 DEF AddedTo, Moved
<1>5. AtPriority(s1, pl2)
  BY <1>1, <1>4 DEF AtPriority, IsPlacement, SameTasks, Put, pl2, p
<1>6. \A u2 \in Unit \ {u} : IsTop(s1, u2, s1.predtsk[u2])
  BY <1>4 DEF Agree, PredtskExact
<1>7. p \in s.primap[u] <=> s.ready[u][p] # << >>
  BY <1>1 DEF QueuesExact
<1>8. \/ s.primap[u] = {} /\ top = NULL
      \/ \E h \in Pri : /\ IsTopPri(s, u, h) /\ top = Head(s.ready[u][h])
                        /\ s.ready[u][h] # << >> /\ top # NULL /\ s.tcb[top].pri = h
  BY <1>1, <1>3, TopFacts
<1>9. CASE top = NULL \/ p < s.tcb[top].pri
  <2>1. p \notin s.primap[u] /\ \A h \in s1.primap[u] : p <= h
    <3>1. CASE s.primap[u] = {}
      BY <1>1, <1>4, <3>1
    <3>2. CASE s.primap[u] # {}
      <4>1. PICK h \in Pri : IsTopPri(s, u, h) /\ p < h
        BY <1>8, <1>9, <3>2
      <4>2. s.primap[u] \subseteq Pri
        BY <1>1 DEF WellTyped, KState
      <4>3. ASSUME NEW g \in s.primap[u] PROVE p <= g
        <5>1. p \in Int /\ h \in Int /\ g \in Int
          BY <1>1, <4>1, <4>2
        <5>2. h <= g /\ p < h
          BY <4>1 DEF IsTopPri
        <5> QED
          BY <5>1, <5>2
      <4>4. p \notin s.primap[u]
        <5>1. p \in Int /\ h \in Int
          BY <1>1, <4>1
        <5> QED
          BY <4>1, <5>1 DEF IsTopPri
      <4> QED
        BY <1>1, <1>4, <4>3, <4>4
    <3> QED
      BY <3>1, <3>2
  <2>2. IsTop(s1, u, t)
    <3>1. Head(s1.ready[u][p]) = t
      BY <1>4, <1>7, <2>1
    <3>2. ASSUME NEW h \in Pri, IsTopPri(s1, u, h) PROVE h = p
      <4>1. h <= p /\ p <= h
        BY <1>4, <2>1, <3>2 DEF IsTopPri
      <4> QED
        BY <1>1, <4>1
    <3> QED
      BY <1>4, <3>1, <3>2 DEF IsTop
  <2>3. /\ Agree(SetPredtsk(s1, u, t), pl2) /\ SchedtskExact(SetPredtsk(s1, u, t))
        /\ SameTasks(s1, SetPredtsk(s1, u, t))
    BY <1>1, <1>4, <1>5, <1>6, <2>2, SetPredtskExact
  <2> QED
    BY <1>2, <1>4, <1>9, <2>3 DEF SameTasks, AgreeAfter, s2, pl2, p
<1>10. CASE ~(top = NULL \/ p < s.tcb[top].pri)
  <2>1. PICK h \in Pri : /\ IsTopPri(s, u, h) /\ top = Head(s.ready[u][h])
                         /\ s.ready[u][h] # << >> /\ h <= p
    BY <1>1, <1>8, <1>10
  <2>2. IsTop(s1, u, top)
    <3>1. Head(s1.ready[u][h]) = top
      BY <1>4, <2>1
    <3>2. h \in s1.primap[u] /\ \A g \in s1.primap[u] : h <= g
      BY <1>4, <2>1 DEF IsTopPri
    <3>3. ASSUME NEW g \in Pri, IsTopPri(s1, u, g) PROVE g = h
      <4>1. g <= h /\ h <= g
        BY <3>2, <3>3 DEF IsTopPri
      <4> QED
        BY <1>1, <4>1
    <3> QED
      BY <3>1, <3>2, <3>3 DEF IsTop
  <2>3. \A u2 \in Unit : IsTop(s1, u2, s.predtsk[u2])
    BY <1>4, <1>6, <2>2 DEF top
  <2>4. AgreeAfter(s, s1, pl2)
    BY <1>4, <1>5, <2>3, KeepPredtskExact DEF SameTasks, KeepsSched
  <2> QED
    BY <1>2, <1>4, <1>10, <2>4 DEF s2, pl2, p
<1> QED
  BY <1>9, <1>10

\* Removing another task leaves the head of a queue alone.
LEMMA WithoutHead ==
  ASSUME NEW q \in Seq(Task), NEW T, IsQueue(q, T), NEW t \in T, q # << >>, Head(q) # t
  PROVE  Without(q, t) # << >> /\ Head(Without(q, t)) = Head(q)
<1>1. PICK k \in DOMAIN q : q[k] = t
  BY DEF IsQueue
<1>2. DOMAIN q = 1..Len(q) /\ Len(q) \in Nat /\ Head(q) = q[1]
  OBVIOUS
<1>3. k # 1 /\ Len(q) - 1 >= 1 /\ Len(q) - 1 \in Nat
  BY <1>1, <1>2
<1>4. 1 \in 1..(Len(q) - 1) /\ \A j \in 1..1 : q[j] # t
  BY <1>2, <1>3
<1>5. Without(q, t)[1] = q[1]
  BY <1>4 DEF Without
<1>6. Without(q, t) \in Seq(Task) /\ Len(Without(q, t)) = Len(q) - 1
  <2>1. Without(q, t) \in Seq(Task)
    BY WithoutType
  <2> QED
    BY <1>3, <2>1 DEF Without
<1> HIDE DEF Without
<1>7. Without(q, t) # << >>
  BY <1>3, <1>6
<1> QED
  BY <1>2, <1>5, <1>6, <1>7

\* make_non_runnable: the task leaves its queue and everything agrees.
LEMMA MakeNonRunnableExact ==
  ASSUME NEW s, NEW pl, Agree(s, pl), NEW t \in Task, pl[t] # 0
  PROVE  /\ AgreeAfter(s, MakeNonRunnable(s, t), Put(pl, t, 0))
         /\ SameTasks(s, MakeNonRunnable(s, t))
<1> DEFINE u   == UnitOf[t]
           p   == s.tcb[t].pri
           top == s.predtsk[u]
           s1  == Removed(s, t, p)
           pl2 == Put(pl, t, 0)
           s2  == MakeNonRunnable(s, t)
           q0  == s.ready[u][p]
           q   == Without(q0, t)
<1>1. /\ WellTyped(s) /\ QueuesExact(s, pl) /\ AtPriority(s, pl)
      /\ IsPlacement(pl) /\ u \in Unit /\ p \in Pri
      /\ Pri \subseteq Int /\ pl[t] = p /\ q0 \in Seq(Task)
  BY TaskFacts DEF Agree, AtPriority, Pri
<1>2. s2 = IF top # t THEN s1
           ELSE IF q # << >> THEN SetPredtsk(s1, u, Head(q))
           ELSE IF s1.primap[u] = {} THEN SetPredtsk(s1, u, NULL)
           ELSE SetPredtsk(s1, u, SearchPredtsk(s1, u))
  BY DEF MakeNonRunnable, Removed
<1>3. IsTop(s, u, top)
  BY <1>1 DEF Agree, PredtskExact
<1>4. /\ WellTyped(s1) /\ QueuesExact(s1, pl2)
      /\ SameTasks(s, s1) /\ s1.predtsk = s.predtsk /\ KeepsSched(s, s1)
      /\ s1.schedtsk = s.schedtsk
      /\ s1.ready[u][p] = q
      /\ \A p2 \in Pri : p2 # p => s1.ready[u][p2] = s.ready[u][p2]
      /\ s1.primap[u] = IF q = << >> THEN s.primap[u] \ {p} ELSE s.primap[u]
      /\ \A u2 \in Unit : \A v : u2 # u /\ IsTop(s, u2, v) => IsTop(s1, u2, v)
  <2>1. s1 = Removed(s, t, p) /\ u = UnitOf[t] /\ pl2 = Put(pl, t, 0)
        /\ q = Without(s.ready[u][p], t)
    OBVIOUS
  <2> HIDE DEF s1, u, pl2, p, q
  <2>2. RemovedFrom(s, s1, pl, t, p, u)
    BY <1>1, <2>1, RemovedExact
  <2> QED
    BY <2>1, <2>2 DEF RemovedFrom, Moved
<1>5. IsQueue(q0, PlacedIn(pl, u, p)) /\ t \in PlacedIn(pl, u, p)
      /\ p \in s.primap[u] /\ q0 # << >>
  <2>1. t \in PlacedIn(pl, u, p)
    BY <1>1 DEF PlacedIn
  <2>2. /\ IsQueue(q0, PlacedIn(pl, u, p))
        /\ p \in s.primap[u] <=> q0 # << >>
    BY <1>1 DEF QueuesExact
  <2> HIDE DEF q0, u, p
  <2>3. q0 # << >>
    BY <1>1, <2>1, <2>2, EmptyQueue
  <2> QED
    BY <2>1, <2>2, <2>3
<1>6. q0 = s.ready[u][p] /\ q = Without(q0, t) /\ top = s.predtsk[u]
  OBVIOUS
<1> HIDE DEF s1, s2, u, p, top, pl2, q0, q
<1>7. AtPriority(s1, pl2)
  BY <1>1, <1>4 DEF AtPriority, IsPlacement, SameTasks, Put, pl2
<1>8. \A u2 \in Unit \ {u} : IsTop(s1, u2, s1.predtsk[u2])
  BY <1>4 DEF Agree, PredtskExact
<1>9. PICK h \in Pri : /\ IsTopPri(s, u, h) /\ top = Head(s.ready[u][h])
                       /\ s.ready[u][h] # << >> /\ top # NULL /\ pl[top] = h
  <2>1. \/ s.primap[u] = {} /\ top = NULL
        \/ \E h \in Pri : /\ IsTopPri(s, u, h) /\ top = Head(s.ready[u][h])
                          /\ s.ready[u][h] # << >>
                          /\ top \in Task /\ top # NULL /\ UnitOf[top] = u
                          /\ pl[top] = h /\ s.tcb[top].pri = h
    BY <1>1, <1>3, TopFacts
  <2> QED
    BY <1>5, <2>1
<1>10. h <= p /\ s1.primap[u] \subseteq s.primap[u] /\ s.primap[u] \subseteq Pri
  BY <1>1, <1>4, <1>5, <1>9 DEF IsTopPri, WellTyped, KState
<1>11. \A v : IsTop(s1, u, v) => /\ Agree(SetPredtsk(s1, u, v), pl2)
                                 /\ SchedtskExact(SetPredtsk(s1, u, v))
                                 /\ SameTasks(s1, SetPredtsk(s1, u, v))
  BY <1>1, <1>4, <1>7, <1>8, SetPredtskExact
<1>12. \A v : /\ h \in s1.primap[u] => \A g \in Pri : IsTopPri(s1, u, g) => g = h
              /\ h \in s1.primap[u] /\ Head(s1.ready[u][h]) = v => IsTop(s1, u, v)
  <2>1. ASSUME NEW g \in Pri, h \in s1.primap[u], IsTopPri(s1, u, g) PROVE g = h
    <3>1. g <= h /\ h <= g
      BY <1>9, <1>10, <2>1 DEF IsTopPri
    <3> QED
      BY <1>1, <3>1
  <2> QED
    BY <2>1 DEF IsTop
<1>13. CASE top # t
  <2>1. h \in s1.primap[u] /\ Head(s1.ready[u][h]) = top
    <3>1. CASE h = p
      <4>1. q # << >> /\ Head(q) = Head(q0)
        BY <1>1, <1>5, <1>6, <1>9, <1>13, <3>1, WithoutHead
      <4> QED
        BY <1>4, <1>5, <1>6, <1>9, <3>1, <4>1
    <3>2. CASE h # p
      BY <1>4, <1>9, <3>2 DEF IsTopPri
    <3> QED
      BY <3>1, <3>2
  <2>2. \A u2 \in Unit : IsTop(s1, u2, s.predtsk[u2])
    BY <1>4, <1>6, <1>8, <1>12, <2>1
  <2>3. AgreeAfter(s, s1, pl2)
    BY <1>4, <1>7, <2>2, KeepPredtskExact DEF SameTasks, KeepsSched
  <2> QED
    BY <1>2, <1>4, <1>13, <2>3 DEF s2, pl2
<1>14. CASE top = t
  <2>1. h = p
    BY <1>1, <1>9, <1>14
  <2>2. \E v : s2 = SetPredtsk(s1, u, v) /\ IsTop(s1, u, v)
    <3>1. CASE q # << >>
      BY <1>2, <1>4, <1>5, <1>12, <1>14, <2>1, <3>1
    <3>2. CASE s1.primap[u] = {}
      <4>1. IsTop(s1, u, NULL)
        BY <3>2 DEF IsTop, IsTopPri
      <4>2. q = << >>
        BY <1>4, <1>5, <3>2
      <4> QED
        BY <1>2, <1>14, <3>2, <4>1, <4>2
    <3>3. CASE q = << >> /\ s1.primap[u] # {}
      BY <1>1, <1>2, <1>4, <1>14, <3>3, SearchIsTop
    <3> QED
      BY <3>1, <3>2, <3>3
  <2> QED
    BY <1>4, <1>11, <2>2 DEF SameTasks, AgreeAfter, s2, pl2
<1> QED
  BY <1>13, <1>14

-----------------------------------------------------------------------------
(* change_priority and rotate_ready_queue. *)

\* The highest priority is unique.
LEMMA TopPriIs ==
  ASSUME NEW s, WellTyped(s), NEW u \in Unit, NEW h \in Pri, IsTopPri(s, u, h), NEW v,
         v = Head(s.ready[u][h])
  PROVE  IsTop(s, u, v)
<1>1. ASSUME NEW g \in Pri, IsTopPri(s, u, g) PROVE g = h
  <2>1. g <= h /\ h <= g
    BY <1>1 DEF IsTopPri
  <2>2. g \in Int /\ h \in Int
    BY DEF Pri
  <2> QED
    BY <2>1, <2>2
<1>2. s.primap[u] # {}
  BY DEF IsTopPri
<1> QED
  BY <1>1, <1>2 DEF IsTop

\* The part of change_priority that moves a runnable task: the queues are those
\* of the new placement, and the task is first in its new queue if it was put
\* at the head or is alone.
MovedTo(s, z, pl, t, old, new, mode, u) ==
  /\ WellTyped(z) /\ QueuesExact(z, Put(pl, t, new))
  /\ SameTasks(s, z) /\ z.predtsk = s.predtsk /\ KeepsSched(s, z)
  /\ z.schedtsk = s.schedtsk
  /\ \A u2 \in Unit : \A v : u2 # u /\ IsTop(s, u2, v) => IsTop(z, u2, v)
  /\ new \in z.primap[u]
  /\ mode \/ new \notin s.primap[u] => Head(z.ready[u][new]) = t
  /\ z.primap[u] \subseteq s.primap[u] \union {new}
  /\ \A h \in Pri : /\ h \in s.primap[u] /\ Head(s.ready[u][h]) # t
                    /\ ~(mode /\ h = new)
                    => h \in z.primap[u] /\ Head(z.ready[u][h]) = Head(s.ready[u][h])

\* Moving a task leaves the queues those of the new placement and every other
\* head where it was.
LEMMA RequeueMoves ==
  ASSUME NEW s, NEW pl, WellTyped(s), QueuesExact(s, pl), IsPlacement(pl),
         NEW t \in Task, NEW old \in Pri, NEW new \in Pri, NEW mode \in BOOLEAN,
         pl[t] = old
  PROVE  MovedTo(s, Requeue(s, t, old, new, mode), pl, t, old, new, mode, UnitOf[t])
<1> DEFINE u   == UnitOf[t]
           s1  == Removed(s, t, old)
           pl1 == Put(pl, t, 0)
           s2  == Added(s1, t, new, mode)
           q0  == s.ready[u][old]
<1>1. u \in Unit /\ q0 \in Seq(Task) /\ \A p \in Pri : s.ready[u][p] \in Seq(Task)
  <2>1. u \in Unit /\ s.ready \in [Unit -> [Pri -> Seq(Task)]]
    BY TaskFacts
  <2> QED
    BY <2>1
<1>2. Requeue(s, t, old, new, mode) = s2
  BY DEF Requeue, Removed, Added
<1>3. RemovedFrom(s, s1, pl, t, old, u)
  BY RemovedExact
<1>4. IsPlacement(pl1) /\ pl1[t] = 0 /\ Put(pl1, t, new) = Put(pl, t, new)
  BY DEF IsPlacement, Put
<1>5. t \in PlacedIn(pl, u, old) /\ IsQueue(q0, PlacedIn(pl, u, old))
  BY <1>1 DEF PlacedIn, QueuesExact
<1>6. Without(q0, t) = Without(s.ready[u][old], t)
  OBVIOUS
<1>7. q0 # << >> /\ Head(q0) # t => Without(q0, t) # << >> /\ Head(Without(q0, t)) = Head(q0)
  <2> HIDE DEF q0, u
  <2> QED
    BY <1>1, <1>5, WithoutHead
<1>8. q0 = s.ready[u][old]
  OBVIOUS
<1> HIDE DEF u, s1, s2, pl1, q0
<1>9. /\ WellTyped(s1) /\ QueuesExact(s1, pl1)
      /\ SameTasks(s, s1) /\ s1.predtsk = s.predtsk /\ KeepsSched(s, s1)
      /\ s1.schedtsk = s.schedtsk
      /\ \A u2 \in Unit : \A v : u2 # u /\ IsTop(s, u2, v) => IsTop(s1, u2, v)
      /\ s1.ready[u][old] = Without(q0, t)
      /\ \A p2 \in Pri : p2 # old => s1.ready[u][p2] = s.ready[u][p2]
      /\ s1.primap[u] = IF s1.ready[u][old] = << >> THEN s.primap[u] \ {old}
                        ELSE s.primap[u]
  BY <1>3, <1>6 DEF RemovedFrom, Moved, pl1
<1>10. AddedTo(s1, s2, pl1, t, new, mode, UnitOf[t])
  BY <1>4, <1>9, AddedExact DEF s2
<1>11. /\ WellTyped(s2) /\ QueuesExact(s2, Put(pl, t, new))
       /\ SameTasks(s1, s2) /\ s2.predtsk = s1.predtsk /\ KeepsSched(s1, s2)
       /\ s2.schedtsk = s1.schedtsk
       /\ \A u2 \in Unit : \A v : u2 # u /\ IsTop(s1, u2, v) => IsTop(s2, u2, v)
       /\ Head(s2.ready[u][new]) =
            IF mode \/ s1.ready[u][new] = << >> THEN t ELSE Head(s1.ready[u][new])
       /\ \A p2 \in Pri : p2 # new => s2.ready[u][p2] = s1.ready[u][p2]
       /\ s2.primap[u] = s1.primap[u] \union {new}
  <2>1. UnitOf[t] = u
    BY DEF u
  <2> QED
    BY <1>4, <1>10, <2>1 DEF AddedTo, Moved
<1>12. /\ SameTasks(s, s2) /\ s2.predtsk = s.predtsk /\ KeepsSched(s, s2)
       /\ s2.schedtsk = s.schedtsk
       /\ \A u2 \in Unit : \A v : u2 # u /\ IsTop(s, u2, v) => IsTop(s2, u2, v)
  BY <1>9, <1>11 DEF SameTasks, KeepsSched
<1>13. \A p \in Pri : p \in s.primap[u] <=> s.ready[u][p] # << >>
  BY <1>1 DEF QueuesExact
<1>14. new \notin s.primap[u] => s1.ready[u][new] = << >>
  <2> SUFFICES ASSUME new \notin s.primap[u] PROVE s1.ready[u][new] = << >>
    OBVIOUS
  <2>1. old \in s.primap[u]
    BY <1>1, <1>5, <1>8, <1>13, EmptyQueue
  <2> QED
    BY <1>9, <1>13, <2>1
<1>15. ASSUME NEW h \in Pri, h \in s.primap[u], Head(s.ready[u][h]) # t, ~(mode /\ h = new)
       PROVE  h \in s2.primap[u] /\ Head(s2.ready[u][h]) = Head(s.ready[u][h])
  <2>1. h \in s1.primap[u] /\ s1.ready[u][h] # << >>
        /\ Head(s1.ready[u][h]) = Head(s.ready[u][h])
    BY <1>7, <1>8, <1>9, <1>13, <1>15
  <2> QED
    BY <1>11, <1>15, <2>1
<1>16. s2.primap[u] \subseteq s.primap[u] \union {new} /\ new \in s2.primap[u]
  BY <1>9, <1>11
<1>17. mode \/ new \notin s.primap[u] => Head(s2.ready[u][new]) = t
  BY <1>11, <1>14
<1>18. MovedTo(s, s2, pl, t, old, new, mode, u)
  BY <1>11, <1>12, <1>15, <1>16, <1>17 DEF MovedTo
<1> QED
  BY <1>2, <1>18 DEF u

\* The unit of a task that is placed has a p_predtsk, which has at least the
\* priority of the task; the facts about it.
HasTop(s, pl, u, h, v) ==
  /\ IsTopPri(s, u, h) /\ v = Head(s.ready[u][h]) /\ s.ready[u][h] # << >>
  /\ v \in Task /\ v # NULL /\ UnitOf[v] = u /\ pl[v] = h /\ s.tcb[v].pri = h

\* A unit in which a task is placed has a highest priority, and p_predtsk heads
\* its queue.
LEMMA PlacedHasTop ==
  ASSUME NEW s, NEW pl, Agree(s, pl), NEW t \in Task, pl[t] # 0
  PROVE  \E h \in Pri : /\ HasTop(s, pl, UnitOf[t], h, s.predtsk[UnitOf[t]])
                        /\ h <= pl[t] /\ pl[t] \in s.primap[UnitOf[t]]
<1> DEFINE u   == UnitOf[t]
           p   == pl[t]
           top == s.predtsk[u]
<1>1. /\ WellTyped(s) /\ QueuesExact(s, pl) /\ AtPriority(s, pl)
      /\ u \in Unit /\ p \in Pri /\ s.ready[u][p] \in Seq(Task) /\ IsTop(s, u, top)
  <2>1. /\ WellTyped(s) /\ QueuesExact(s, pl) /\ AtPriority(s, pl)
        /\ u \in Unit /\ p \in Pri
    BY KernelAssumption DEF Agree, AtPriority, IsPlacement
  <2>2. s.ready \in [Unit -> [Pri -> Seq(Task)]]
    BY <2>1, TaskFacts
  <2> QED
    BY <2>1, <2>2 DEF Agree, PredtskExact
<1>2. p \in s.primap[u]
  <2>1. t \in PlacedIn(pl, u, p)
    BY DEF PlacedIn
  <2>2. IsQueue(s.ready[u][p], PlacedIn(pl, u, p))
        /\ (p \in s.primap[u] <=> s.ready[u][p] # << >>)
    BY <1>1 DEF QueuesExact
  <2> HIDE DEF u, p
  <2> QED
    BY <1>1, <2>1, <2>2, EmptyQueue
<1> HIDE DEF u, p, top
<1>3. \/ s.primap[u] = {} /\ top = NULL
      \/ \E h \in Pri : /\ IsTopPri(s, u, h) /\ top = Head(s.ready[u][h])
                        /\ s.ready[u][h] # << >>
                        /\ top \in Task /\ top # NULL /\ UnitOf[top] = u
                        /\ pl[top] = h /\ s.tcb[top].pri = h
  BY <1>1, TopFacts
<1>4. PICK h \in Pri : HasTop(s, pl, u, h, top)
  BY <1>2, <1>3 DEF HasTop
<1>5. h <= p
  BY <1>2, <1>4 DEF HasTop, IsTopPri
<1> QED
  BY <1>2, <1>4, <1>5 DEF u, p, top

\* Changes of one task control block.
TcbSet(s, t, b) == [s EXCEPT !.tcb[t] = b]

\* Setting a task control block changes that control block only.
LEMMA TcbFields ==
  ASSUME NEW s, WellTyped(s), NEW t \in Task, NEW b \in TCB
  PROVE  LET z == TcbSet(s, t, b)
         IN  /\ WellTyped(z) /\ KeepsSched(s, z) /\ z.schedtsk = s.schedtsk
             /\ z.tcb = [s.tcb EXCEPT ![t] = b]
             /\ z.tmevt = s.tmevt /\ z.wque = s.wque
             /\ z.ready = s.ready /\ z.primap = s.primap /\ z.predtsk = s.predtsk
<1>1. Sound(s, TcbSet(s, t, b))
  BY TcbSound DEF TcbSet
<1> QED
  BY <1>1 DEF Sound, WellTyped, KState, TcbSet, KeepsSched

\* change_priority of a runnable task: everything agrees with its new priority.
LEMMA ChangePriorityExact ==
  ASSUME NEW s, NEW pl, Agree(s, pl), NEW t \in Task, pl[t] # 0,
         IsRunnable(s.tcb[t].tstat), NEW new \in Pri, NEW mode \in BOOLEAN
  PROVE  LET z == ChangePriority(s, t, new, mode)
         IN  /\ AgreeAfter(s, z, Put(pl, t, new))
             /\ z.tcb = [s.tcb EXCEPT ![t].pri = new]
             /\ z.tmevt = s.tmevt /\ z.wque = s.wque
<1> DEFINE u   == UnitOf[t]
           old == s.tcb[t].pri
           top == s.predtsk[u]
           s1  == [s EXCEPT !.tcb[t].pri = new]
           s2  == Requeue(s1, t, old, new, mode)
           pl2 == Put(pl, t, new)
           z   == ChangePriority(s, t, new, mode)
<1>1. /\ WellTyped(s) /\ QueuesExact(s, pl) /\ AtPriority(s, pl) /\ IsPlacement(pl)
      /\ u \in Unit /\ old \in Pri /\ pl[t] = old /\ s.tcb[t] \in TCB
  BY TaskFacts DEF Agree, AtPriority
<1>2. z = IF top = t
          THEN SetPredtsk(s2, u, IF new >= old THEN SearchPredtsk(s2, u) ELSE t)
          ELSE IF new < s.tcb[top].pri \/ (mode /\ new = s.tcb[top].pri)
               THEN SetPredtsk(s2, u, t) ELSE s2
  BY DEF ChangePriority
<1>3. /\ WellTyped(s1) /\ KeepsSched(s, s1) /\ s1.schedtsk = s.schedtsk
      /\ s1.tcb = [s.tcb EXCEPT ![t].pri = new] /\ s1.tmevt = s.tmevt /\ s1.wque = s.wque
      /\ s1.ready = s.ready /\ s1.primap = s.primap /\ s1.predtsk = s.predtsk
  <2> DEFINE b == [s.tcb[t] EXCEPT !.pri = new]
  <2>1. b \in TCB
    BY <1>1 DEF TCB
  <2>2. s1 = TcbSet(s, t, b) /\ [s.tcb EXCEPT ![t].pri = new] = [s.tcb EXCEPT ![t] = b]
    BY DEF TcbSet
  <2> HIDE DEF s1, b
  <2>3. /\ WellTyped(s1) /\ KeepsSched(s, s1) /\ s1.schedtsk = s.schedtsk
        /\ s1.tcb = [s.tcb EXCEPT ![t] = b] /\ s1.tmevt = s.tmevt /\ s1.wque = s.wque
        /\ s1.ready = s.ready /\ s1.primap = s.primap /\ s1.predtsk = s.predtsk
    BY <1>1, <2>1, <2>2, TcbFields
  <2> QED
    BY <2>2, <2>3
<1> HIDE DEF s1
<1>4. QueuesExact(s1, pl)
  BY <1>1, <1>3 DEF QueuesExact
<1>5. PICK h \in Pri : HasTop(s, pl, u, h, top) /\ h <= old /\ old \in s.primap[u]
  BY <1>1, PlacedHasTop
<1>6. s2 = Requeue(s1, t, old, new, mode) /\ top = s.predtsk[u] /\ u = UnitOf[t]
  OBVIOUS
<1> HIDE DEF u, old, top, s2, pl2, z
<1>7. MovedTo(s1, s2, pl, t, old, new, mode, u)
  BY <1>1, <1>3, <1>4, <1>6, RequeueMoves
<1>8. /\ WellTyped(s2) /\ QueuesExact(s2, pl2)
      /\ s2.tcb = s1.tcb /\ s2.tmevt = s.tmevt /\ s2.wque = s.wque
      /\ s2.predtsk = s.predtsk /\ KeepsSched(s, s2) /\ s2.schedtsk = s.schedtsk
      /\ new \in s2.primap[u] /\ s2.primap[u] \subseteq s.primap[u] \union {new}
      /\ mode \/ new \notin s.primap[u] => Head(s2.ready[u][new]) = t
      /\ h # new \/ ~mode => (top # t => h \in s2.primap[u] /\ Head(s2.ready[u][h]) = top)
      /\ \A u2 \in Unit : \A v : u2 # u /\ IsTop(s1, u2, v) => IsTop(s2, u2, v)
  BY <1>3, <1>5, <1>7 DEF MovedTo, SameTasks, KeepsSched, HasTop, IsTopPri, pl2
<1>9. AtPriority(s2, pl2)
  <2>1. s.tcb \in [Task -> TCB] /\ \A v \in Task : s.tcb[v] \in TCB
    BY <1>1 DEF WellTyped, KState
  <2>2. \A v \in Task : s2.tcb[v].pri = IF v = t THEN new ELSE s.tcb[v].pri
    BY <1>3, <1>8, <2>1 DEF TCB
  <2>3. IsPlacement(pl2) /\ \A v \in Task : pl2[v] = IF v = t THEN new ELSE pl[v]
    BY <1>1 DEF IsPlacement, Put, pl2
  <2> QED
    BY <1>1, <2>2, <2>3 DEF AtPriority
<1>10. \A u2 \in Unit \ {u} : IsTop(s2, u2, s2.predtsk[u2])
  <2> SUFFICES ASSUME NEW u2 \in Unit \ {u} PROVE IsTop(s2, u2, s2.predtsk[u2])
    OBVIOUS
  <2>1. IsTop(s, u2, s.predtsk[u2])
    BY DEF Agree, PredtskExact
  <2>2. IsTop(s1, u2, s.predtsk[u2])
    BY <1>3, <2>1 DEF IsTop, IsTopPri
  <2> QED
    BY <1>8, <2>2
<1>11. \A v : IsTop(s2, u, v) => /\ Agree(SetPredtsk(s2, u, v), pl2)
                                 /\ SchedtskExact(SetPredtsk(s2, u, v))
                                 /\ SameTasks(s2, SetPredtsk(s2, u, v))
  BY <1>1, <1>8, <1>9, <1>10, SetPredtskExact
<1>12. \A g \in s.primap[u] : h <= g
  BY <1>5 DEF HasTop, IsTopPri
<1>13. h \in Int /\ new \in Int /\ old \in Int /\ s.primap[u] \subseteq Int
       /\ s.tcb[top].pri = h
  BY <1>1, <1>5 DEF Pri, WellTyped, KState, HasTop
\* A task that precedes the old first one is the first one.
<1>14. new < h \/ (mode /\ new = h) => IsTop(s2, u, t)
  <2> SUFFICES ASSUME new < h \/ (mode /\ new = h) PROVE IsTop(s2, u, t)
    OBVIOUS
  <2>1. mode \/ new \notin s.primap[u]
    BY <1>12, <1>13
  <2>2. IsTopPri(s2, u, new)
    <3>1. ASSUME NEW g \in s2.primap[u] PROVE new <= g
      <4>1. CASE g = new
        BY <1>13, <4>1
      <4>2. CASE g \in s.primap[u]
        <5>1. h <= g /\ g \in Int
          BY <1>12, <1>13, <4>2
        <5> QED
          BY <1>13, <5>1
      <4> QED
        BY <1>8, <4>1, <4>2
    <3> QED
      BY <1>8, <3>1 DEF IsTopPri
  <2> QED
    BY <1>1, <1>8, <2>1, <2>2, TopPriIs
<1>15. CASE \E v : z = SetPredtsk(s2, u, v) /\ IsTop(s2, u, v)
  BY <1>3, <1>8, <1>11, <1>15 DEF SameTasks, AgreeAfter, z, pl2
<1>16. CASE z = s2 /\ top # t /\ (h < new \/ (h = new /\ ~mode))
  <2>1. h \in s2.primap[u] /\ Head(s2.ready[u][h]) = top
    BY <1>8, <1>13, <1>16
  <2>2. IsTopPri(s2, u, h)
    BY <1>8, <1>12, <1>13, <1>16, <2>1 DEF IsTopPri
  <2>3. IsTop(s2, u, top)
    BY <1>1, <1>8, <2>1, <2>2, TopPriIs
  <2>4. \A u2 \in Unit : IsTop(s2, u2, s.predtsk[u2])
    BY <1>6, <1>8, <1>10, <2>3
  <2>5. ASSUME NEW u2 \in Unit, s.predtsk[u2] # NULL
        PROVE  s2.tcb[s.predtsk[u2]].pri = s.tcb[s.predtsk[u2]].pri
    <3>1. s.predtsk[u2] \in Task /\ UnitOf[s.predtsk[u2]] = u2
      <4>1. IsTop(s, u2, s.predtsk[u2])
        BY DEF Agree, PredtskExact
      <4> QED
        BY <1>1, <2>5, <4>1, TopFacts
    <3>2. s.predtsk[u2] # t
      BY <1>6, <1>16, <3>1
    <3> QED
      BY <1>3, <1>8, <3>1, <3>2
  <2>6. AgreeAfter(s, s2, pl2)
    BY <1>8, <1>9, <2>4, <2>5, KeepPredtskExact DEF KeepsSched
  <2> QED
    BY <1>3, <1>8, <1>16, <2>6 DEF z, pl2
<1> QED
  <2>1. CASE top = t /\ new >= old
    <3>1. s2.primap[u] # {}
      BY <1>8
    <3> QED
      BY <1>1, <1>2, <1>8, <1>15, <2>1, <3>1, SearchIsTop
  <2>2. CASE top = t /\ ~(new >= old)
    <3>1. h = old
      BY <1>1, <1>5, <2>2 DEF HasTop
    <3> QED
      BY <1>2, <1>13, <1>14, <1>15, <2>2, <3>1
  <2>3. CASE top # t /\ (new < h \/ (mode /\ new = h))
    BY <1>2, <1>13, <1>14, <1>15, <2>3
  <2>4. CASE top # t /\ ~(new < h \/ (mode /\ new = h))
    BY <1>2, <1>13, <1>16, <2>4
  <2> QED
    BY <2>1, <2>2, <2>3, <2>4

\* rotate_ready_queue: the same tasks in another order.
LEMMA RotateReadyQueueExact ==
  ASSUME NEW s, NEW pl, Agree(s, pl), NEW p \in Pri, NEW u \in Unit
  PROVE  /\ AgreeAfter(s, RotateReadyQueue(s, p, u), pl)
         /\ SameTasks(s, RotateReadyQueue(s, p, u))
<1> DEFINE q   == s.ready[u][p]
           r   == Append(Tail(q), Head(q))
           s1  == [s EXCEPT !.ready[u][p] = r]
           top == s.predtsk[u]
           z   == RotateReadyQueue(s, p, u)
<1>1. /\ WellTyped(s) /\ QueuesExact(s, pl) /\ AtPriority(s, pl)
      /\ q \in Seq(Task) /\ IsTop(s, u, top)
      /\ s.primap[u] \in SUBSET Pri
  BY DEF Agree, WellTyped, KState, PredtskExact
<1>2. IsQueue(q, PlacedIn(pl, u, p)) /\ (p \in s.primap[u] <=> q # << >>)
  BY <1>1 DEF QueuesExact
<1>3. CASE Len(q) < 2
  BY <1>3 DEF RotateReadyQueue, SameTasks, AgreeAfter
<1>4. CASE ~(Len(q) < 2)
  <2>1. q # << >> /\ Tail(q) \in Seq(Task) /\ Head(q) \in Task
    BY <1>1, <1>4
  <2>2. r \in Seq(Task) /\ r # << >> /\ IsQueue(r, PlacedIn(pl, u, p))
    BY <1>1, <1>2, <2>1, AppendType, RotateQueue
  <2>3. s1 = Replaced(s, u, p, r, s.primap[u])
    BY <1>1 DEF Replaced, WellTyped, KState
  <2>4. z = IF top = Head(q) THEN SetPredtsk(s1, u, Head(r)) ELSE s1
    BY <1>4 DEF RotateReadyQueue
  <2>5. q = s.ready[u][p] /\ top = s.predtsk[u]
    OBVIOUS
  <2> HIDE DEF q, r, s1, top, z
  <2>6. WellTyped(s1)
    <3>1. \A p2 \in s.primap[u] : (p2 = p /\ r # << >>) \/ (p2 # p /\ p2 \in s.primap[u])
      BY <2>2
    <3> QED
      BY <1>1, <2>2, <2>3, <3>1, QueueSound DEF Sound, Replaced
  <2>7. /\ s1.ready[u][p] = r /\ s1.primap[u] = s.primap[u]
        /\ \A u2 \in Unit, p2 \in Pri :
             ~(u2 = u /\ p2 = p) => s1.ready[u2][p2] = s.ready[u2][p2]
        /\ \A u2 \in Unit : u2 # u => s1.primap[u2] = s.primap[u2]
        /\ SameTasks(s, s1) /\ s1.predtsk = s.predtsk /\ KeepsSched(s, s1)
        /\ s1.schedtsk = s.schedtsk
    BY <1>1, <2>3, QueueFields
  <2>8. QueuesExact(s1, pl)
    <3> SUFFICES ASSUME NEW u2 \in Unit, NEW p2 \in Pri
                 PROVE  /\ IsQueue(s1.ready[u2][p2], PlacedIn(pl, u2, p2))
                        /\ p2 \in s1.primap[u2] <=> s1.ready[u2][p2] # << >>
      BY DEF QueuesExact
    <3>1. CASE u2 = u /\ p2 = p
      BY <1>2, <2>1, <2>2, <2>7, <3>1
    <3>2. CASE ~(u2 = u /\ p2 = p)
      <4>1. s1.ready[u2][p2] = s.ready[u2][p2] /\ s1.primap[u2] = s.primap[u2]
        BY <2>7, <3>2
      <4> QED
        BY <1>1, <4>1 DEF QueuesExact
    <3> QED
      BY <3>1, <3>2
  <2>9. AtPriority(s1, pl)
    BY <1>1, <2>7 DEF AtPriority, SameTasks
  <2>10. \A u2 \in Unit \ {u} : \A v : IsTop(s, u2, v) => IsTop(s1, u2, v)
    BY <2>7 DEF IsTop, IsTopPri
  <2>11. \A u2 \in Unit \ {u} : IsTop(s1, u2, s.predtsk[u2])
    BY <2>10 DEF Agree, PredtskExact
  <2>12. \/ s.primap[u] = {} /\ top = NULL
         \/ \E h \in Pri : /\ IsTopPri(s, u, h) /\ top = Head(s.ready[u][h])
                           /\ s.ready[u][h] # << >>
                           /\ top \in Task /\ top # NULL /\ UnitOf[top] = u
                           /\ pl[top] = h /\ s.tcb[top].pri = h
    BY <1>1, TopFacts
  <2>13. PICK h \in Pri : IsTopPri(s, u, h) /\ top = Head(s.ready[u][h]) /\ pl[top] = h
    BY <1>2, <2>1, <2>12
  <2>14. IsTopPri(s1, u, h)
    BY <2>7, <2>13 DEF IsTopPri
  <2>15. CASE top = Head(q)
    <3>1. top \in PlacedIn(pl, u, p)
      BY <1>1, <1>2, <2>1, <2>15, HeadInQueue
    <3>2. h = p
      BY <2>13, <3>1 DEF PlacedIn
    <3>3. IsTop(s1, u, Head(r))
      BY <2>6, <2>7, <2>14, <3>2, TopPriIs
    <3>4. /\ Agree(SetPredtsk(s1, u, Head(r)), pl)
          /\ SchedtskExact(SetPredtsk(s1, u, Head(r)))
          /\ SameTasks(s1, SetPredtsk(s1, u, Head(r)))
      BY <2>6, <2>7, <2>8, <2>9, <2>11, <3>3, SetPredtskExact
    <3> QED
      BY <2>4, <2>7, <2>15, <3>4 DEF SameTasks, AgreeAfter, z
  <2>16. CASE top # Head(q)
    <3>1. h # p
      BY <2>5, <2>13, <2>16
    <3>2. top = Head(s1.ready[u][h])
      BY <2>7, <2>13, <3>1
    <3>3. IsTop(s1, u, top)
      BY <2>6, <2>14, <3>2, TopPriIs
    <3>4. \A u2 \in Unit : IsTop(s1, u2, s.predtsk[u2])
      BY <2>5, <2>11, <3>3
    <3>5. AgreeAfter(s, s1, pl)
      BY <2>6, <2>7, <2>8, <2>9, <3>4, KeepPredtskExact DEF SameTasks, KeepsSched
    <3> QED
      BY <2>4, <2>7, <2>16, <3>5 DEF z
  <2> QED
    BY <2>15, <2>16
<1> QED
  BY <1>3, <1>4

-----------------------------------------------------------------------------
(* Changes of the other data. *)

\* The queues, the bitmaps and p_predtsk depend on nothing but themselves and
\* the task control blocks.
LEMMA FrameExact ==
  ASSUME NEW s, NEW pl, NEW s2, Agree(s, pl), WellTyped(s2),
         s2.ready = s.ready, s2.primap = s.primap, s2.predtsk = s.predtsk,
         s2.tcb = s.tcb
  PROVE  Agree(s2, pl)
<1>1. QueuesExact(s2, pl)
  BY DEF Agree, QueuesExact
<1>2. AtPriority(s2, pl)
  BY DEF Agree, AtPriority
<1>3. PredtskExact(s2)
  <2>1. \A u \in Unit : \A v : IsTop(s, u, v) => IsTop(s2, u, v)
    BY DEF IsTop, IsTopPri
  <2> QED
    BY <2>1 DEF Agree, PredtskExact
<1> QED
  BY <1>1, <1>2, <1>3 DEF Agree

\* A task control block changes without changing the priority of a placed task.
LEMMA TcbExact ==
  ASSUME NEW s, NEW pl, Agree(s, pl), NEW t \in Task, NEW b \in TCB,
         pl[t] # 0 => b.pri = s.tcb[t].pri
  PROVE  AgreeAfter(s, TcbSet(s, t, b), pl)
<1> DEFINE s2 == TcbSet(s, t, b)
<1>1. WellTyped(s) /\ s \in KState /\ s.tcb \in [Task -> TCB]
  BY DEF Agree, WellTyped, KState
<1> HIDE DEF s2
<1>2. /\ WellTyped(s2) /\ KeepsSched(s, s2) /\ s2.schedtsk = s.schedtsk
      /\ s2.tcb = [s.tcb EXCEPT ![t] = b]
      /\ s2.ready = s.ready /\ s2.primap = s.primap /\ s2.predtsk = s.predtsk
  BY <1>1, TcbFields DEF s2
<1>3. \A v \in Task : pl[v] # 0 => s2.tcb[v].pri = s.tcb[v].pri
  BY <1>1, <1>2
<1>4. QueuesExact(s2, pl)
  BY <1>2 DEF Agree, QueuesExact
<1>5. AtPriority(s2, pl)
  BY <1>3 DEF Agree, AtPriority
<1>6. \A u \in Unit : \A v : IsTop(s, u, v) => IsTop(s2, u, v)
  BY <1>2 DEF IsTop, IsTopPri
<1>7. \A u \in Unit : IsTop(s2, u, s.predtsk[u])
  BY <1>6 DEF Agree, PredtskExact
<1>8. ASSUME NEW u \in Unit, s.predtsk[u] # NULL
      PROVE  s2.tcb[s.predtsk[u]].pri = s.tcb[s.predtsk[u]].pri
  <2>1. IsTop(s, u, s.predtsk[u])
    BY DEF Agree, PredtskExact
  <2>2. QueuesExact(s, pl) /\ AtPriority(s, pl)
    BY DEF Agree
  <2>3. s.predtsk[u] \in Task /\ pl[s.predtsk[u]] \in Pri
    BY <1>1, <1>8, <2>1, <2>2, TopFacts
  <2>4. pl[s.predtsk[u]] # 0
    BY <2>3 DEF Pri
  <2> QED
    BY <1>3, <2>3, <2>4
<1> QED
  BY <1>2, <1>4, <1>5, <1>7, <1>8, KeepPredtskExact DEF KeepsSched, s2

-----------------------------------------------------------------------------
(***************************************************************************)
(* The effect of the operations on a task: in the terms of the task states *)
(* alone, with the scheduling data in agreement before and after.          *)
(***************************************************************************)

\* From s to z the control block of t becomes b, the time events become T and
\* the wait queues W.
Effect(s, z, t, b, T, W) ==
  /\ Sound(s, z) /\ AgreeAfter(s, z, Place(z))
  /\ z.tcb = [s.tcb EXCEPT ![t] = b]
  /\ z.tmevt = T /\ z.wque = W

\* Effects on the same task compose.
LEMMA EffectTrans ==
  ASSUME NEW s, NEW z, NEW x, NEW t \in Task, NEW b, NEW c, NEW T, NEW U, NEW W, NEW V,
         Effect(s, z, t, b, T, W), Effect(z, x, t, c, U, V)
  PROVE  Effect(s, x, t, c, U, V)
<1>1. Sound(s, x)
  BY SoundTrans DEF Effect
<1>2. AgreeAfter(s, x, Place(x))
  BY DEF Effect, AgreeAfter
<1>3. x.tcb = [s.tcb EXCEPT ![t] = c]
  BY DEF Effect
<1> QED
  BY <1>1, <1>2, <1>3 DEF Effect

\* After an effect, the data agree and the control block is the new one.
LEMMA EffectFacts ==
  ASSUME NEW s, NEW z, NEW t \in Task, NEW b, NEW T, NEW W,
         WellTyped(s), Effect(s, z, t, b, T, W)
  PROVE  /\ Agree(z, Place(z)) /\ WellTyped(z) /\ z.tcb[t] = b
         /\ z.tmevt = T /\ z.wque = W
<1>1. s.tcb \in [Task -> TCB]
  BY DEF WellTyped, KState
<1> QED
  BY <1>1 DEF Effect, AgreeAfter, Agree

\* The placement of a well typed state; setting a control block changes it for
\* that task only.
LEMMA PlaceFacts ==
  ASSUME NEW s, WellTyped(s), NEW t \in Task, NEW b \in TCB
  PROVE  /\ IsPlacement(Place(s))
         /\ Place(s)[t] = PlaceOf(s.tcb[t])
         /\ PlaceOf(b) = 0 <=> ~IsRunnable(b.tstat)
         /\ \A z : z.tcb = [s.tcb EXCEPT ![t] = b] => Place(z) = Put(Place(s), t, PlaceOf(b))
         /\ Place(s)[t] = PlaceOf(b) => Put(Place(s), t, PlaceOf(b)) = Place(s)
         /\ \A p : Put(Place(s), t, p)[t] = p
<1>1. s.tcb \in [Task -> TCB] /\ \A v \in Task : s.tcb[v] \in TCB
  BY DEF WellTyped, KState
<1>2. \A c \in TCB : c.pri \in Pri /\ (PlaceOf(c) = c.pri \/ PlaceOf(c) = 0)
  BY DEF PlaceOf, TCB
<1>3. IsPlacement(Place(s)) /\ Place(s)[t] = PlaceOf(s.tcb[t])
  BY <1>1, <1>2 DEF Place, IsPlacement
<1>4. PlaceOf(b) = 0 <=> ~IsRunnable(b.tstat)
  BY <1>2 DEF PlaceOf, Pri
<1>5. ASSUME NEW z, z.tcb = [s.tcb EXCEPT ![t] = b]
      PROVE  Place(z) = Put(Place(s), t, PlaceOf(b))
  <2>1. \A v \in Task : z.tcb[v] = IF v = t THEN b ELSE s.tcb[v]
    BY <1>1, <1>5
  <2> QED
    BY <2>1 DEF Place, Put
<1>6. Place(s)[t] = PlaceOf(b) => Put(Place(s), t, PlaceOf(b)) = Place(s)
  BY DEF Put, Place
<1>7. \A p : Put(Place(s), t, p)[t] = p
  BY DEF Put, Place
<1> QED
  BY <1>3, <1>4, <1>5, <1>6, <1>7

\* A change of the control block that does not concern the queues.
LEMMA TcbEffect ==
  ASSUME NEW s, Agree(s, Place(s)), NEW t \in Task, NEW b \in TCB,
         PlaceOf(b) = PlaceOf(s.tcb[t])
  PROVE  Effect(s, TcbSet(s, t, b), t, b, s.tmevt, s.wque)
<1> DEFINE z == TcbSet(s, t, b)
<1>1. WellTyped(s) /\ s.tcb[t] \in TCB
  BY TaskFacts DEF Agree
<1>2. Sound(s, z)
  BY <1>1, TcbSound DEF TcbSet
<1>3. z.tcb = [s.tcb EXCEPT ![t] = b] /\ z.tmevt = s.tmevt /\ z.wque = s.wque
  BY <1>1, TcbFields
<1>4. Place(s)[t] # 0 => b.pri = s.tcb[t].pri
  BY <1>1, PlaceFacts DEF PlaceOf
<1>5. AgreeAfter(s, z, Place(s))
  BY <1>4, TcbExact
<1> HIDE DEF z
<1>6. Place(z) = Place(s)
  BY <1>1, <1>3, PlaceFacts
<1> QED
  BY <1>2, <1>3, <1>5, <1>6 DEF Effect, z

\* A task becomes runnable.
LEMMA EnterEffect ==
  ASSUME NEW s, Agree(s, Place(s)), NEW t \in Task, NEW b \in TCB,
         ~IsRunnable(s.tcb[t].tstat), IsRunnable(b.tstat)
  PROVE  Effect(s, MakeRunnable(TcbSet(s, t, b), t), t, b, s.tmevt, s.wque)
<1> DEFINE s1 == TcbSet(s, t, b)
           z  == MakeRunnable(s1, t)
<1>1. WellTyped(s) /\ s.tcb[t] \in TCB
  BY TaskFacts DEF Agree
<1>2. Sound(s, s1)
  BY <1>1, TcbSound DEF TcbSet
<1>3. /\ s1.tcb = [s.tcb EXCEPT ![t] = b] /\ s1.tmevt = s.tmevt /\ s1.wque = s.wque
  BY <1>1, TcbFields
<1>4. Place(s)[t] = 0
  BY DEF Place, PlaceOf
<1>5. AgreeAfter(s, s1, Place(s))
  BY <1>4, TcbExact
<1> HIDE DEF s1
<1>6. AgreeAfter(s1, z, Put(Place(s), t, s1.tcb[t].pri)) /\ SameTasks(s1, z)
  BY <1>4, <1>5, MakeRunnableExact DEF AgreeAfter
<1>7. Sound(s, z)
  BY <1>2, MakeRunnableSound, SoundTrans DEF Sound
<1> HIDE DEF z
<1>8. s1.tcb[t].pri = PlaceOf(b)
  BY <1>1, <1>3 DEF PlaceOf, WellTyped, KState
<1>9. Place(z) = Put(Place(s), t, PlaceOf(b))
  BY <1>1, <1>3, <1>6, PlaceFacts DEF SameTasks
<1>10. Effect(s, z, t, b, s.tmevt, s.wque)
  BY <1>3, <1>5, <1>6, <1>7, <1>8, <1>9 DEF Effect, AgreeAfter, SameTasks
<1> QED
  BY <1>10 DEF z, s1

\* A task stops being runnable.
LEMMA LeaveEffect ==
  ASSUME NEW s, Agree(s, Place(s)), NEW t \in Task, NEW b \in TCB,
         IsRunnable(s.tcb[t].tstat), ~IsRunnable(b.tstat), b.pri = s.tcb[t].pri
  PROVE  Effect(s, MakeNonRunnable(TcbSet(s, t, b), t), t, b, s.tmevt, s.wque)
<1> DEFINE s1 == TcbSet(s, t, b)
           z  == MakeNonRunnable(s1, t)
<1>1. WellTyped(s) /\ s.tcb[t] \in TCB
  BY TaskFacts DEF Agree
<1>2. Sound(s, s1)
  BY <1>1, TcbSound DEF TcbSet
<1>3. /\ s1.tcb = [s.tcb EXCEPT ![t] = b] /\ s1.tmevt = s.tmevt /\ s1.wque = s.wque
  BY <1>1, TcbFields
<1>4. Place(s)[t] # 0 /\ PlaceOf(b) = 0
  BY <1>1, PlaceFacts
<1>5. AgreeAfter(s, s1, Place(s))
  BY TcbExact
<1> HIDE DEF s1
<1>6. AgreeAfter(s1, z, Put(Place(s), t, 0)) /\ SameTasks(s1, z)
  BY <1>4, <1>5, MakeNonRunnableExact DEF AgreeAfter
<1>7. Sound(s, z)
  BY <1>2, MakeNonRunnableSound, SoundTrans DEF Sound
<1> HIDE DEF z
<1>8. Place(z) = Put(Place(s), t, 0)
  BY <1>1, <1>3, <1>4, <1>6, PlaceFacts DEF SameTasks
<1>9. Effect(s, z, t, b, s.tmevt, s.wque)
  BY <1>3, <1>5, <1>6, <1>7, <1>8 DEF Effect, AgreeAfter, SameTasks
<1> QED
  BY <1>9 DEF z, s1

-----------------------------------------------------------------------------
(* The effects of the operations of wait.[ch] and of task_terminate. *)

\* An operation that changes nothing but the time events and the wait queues.
LEMMA OtherEffect ==
  ASSUME NEW s, Agree(s, Place(s)), NEW t \in Task, NEW z, Sound(s, z),
         z.tcb = s.tcb, z.ready = s.ready, z.primap = s.primap, z.predtsk = s.predtsk,
         z.schedtsk = s.schedtsk
  PROVE  Effect(s, z, t, s.tcb[t], z.tmevt, z.wque)
<1>1. s.tcb \in [Task -> TCB] /\ s \in KState
  BY DEF Agree, WellTyped, KState
<1>2. Place(z) = Place(s)
  BY DEF Place
<1>3. Agree(z, Place(z))
  BY <1>2, FrameExact DEF Sound
<1>4. SchedtskExact(s) => SchedtskExact(z)
  BY <1>1, SelectedSame DEF SchedtskExact, Sound, KeepsSched
<1>5. z.tcb = [s.tcb EXCEPT ![t] = s.tcb[t]]
  BY <1>1
<1> QED
  BY <1>3, <1>4, <1>5 DEF Effect, AgreeAfter

\* The control block of a task that is released from its wait.
Released(b) ==
  [b EXCEPT !.tstat = IF IsSuspended(b.tstat) THEN {"SUSPENDED"} ELSE {"RUNNABLE"}]

\* make_non_wait.
LEMMA MakeNonWaitEffect ==
  ASSUME NEW s, Agree(s, Place(s)), NEW t \in Task, ~IsRunnable(s.tcb[t].tstat)
  PROVE  Effect(s, MakeNonWait(s, t), t, Released(s.tcb[t]), s.tmevt, s.wque)
<1> DEFINE b == s.tcb[t]
           c == Released(b)
<1>1. WellTyped(s) /\ b \in TCB
  BY TaskFacts DEF Agree
<1>2. c \in TCB
  BY <1>1, StatesType DEF TCB, Released
<1>3. CASE IsSuspended(b.tstat)
  <2>1. c.tstat = {"SUSPENDED"}
    BY <1>1, <1>3 DEF TCB, Released
  <2>2. PlaceOf(c) = PlaceOf(b)
    BY <2>1 DEF PlaceOf, IsRunnable
  <2>3. MakeNonWait(s, t) = TcbSet(s, t, c)
    BY <1>3 DEF MakeNonWait, TcbSet, Released
  <2> QED
    BY <1>2, <2>2, <2>3, TcbEffect
<1>4. CASE ~IsSuspended(b.tstat)
  <2>1. IsRunnable(c.tstat)
    BY <1>1, <1>4 DEF TCB, Released, IsRunnable
  <2>2. MakeNonWait(s, t) = MakeRunnable(TcbSet(s, t, c), t)
    BY <1>4 DEF MakeNonWait, TcbSet, Released
  <2> QED
    BY <1>2, <2>1, <2>2, EnterEffect
<1> QED
  BY <1>3, <1>4

\* Forgetting the object a task waits for.
Unbound(b) == [b EXCEPT !.wobj = NULL]

\* Forgetting the object waited for has the effect of unbinding the task, and
\* nothing else.
LEMMA UnboundEffect ==
  ASSUME NEW s, Agree(s, Place(s)), NEW t \in Task
  PROVE  /\ Unbound(s.tcb[t]) \in TCB /\ Unbound(s.tcb[t]).tstat = s.tcb[t].tstat
         /\ [s EXCEPT !.tcb[t].wobj = NULL] = TcbSet(s, t, Unbound(s.tcb[t]))
         /\ Effect(s, TcbSet(s, t, Unbound(s.tcb[t])), t, Unbound(s.tcb[t]), s.tmevt, s.wque)
<1> DEFINE c == Unbound(s.tcb[t])
<1>1. WellTyped(s) /\ s.tcb[t] \in TCB
  BY TaskFacts DEF Agree
<1>2. c \in TCB /\ c.tstat = s.tcb[t].tstat /\ c.pri = s.tcb[t].pri
  BY <1>1 DEF TCB, Unbound
<1>3. PlaceOf(c) = PlaceOf(s.tcb[t])
  BY <1>2 DEF PlaceOf
<1>4. [s EXCEPT !.tcb[t].wobj = NULL] = TcbSet(s, t, c)
  BY DEF TcbSet, Unbound
<1> HIDE DEF c
<1>5. Effect(s, TcbSet(s, t, c), t, c, s.tmevt, s.wque)
  BY <1>2, <1>3, TcbEffect
<1> QED
  BY <1>2, <1>4, <1>5 DEF c

\* wait_dequeue_tmevtb.
LEMMA DequeueTmevtbEffect ==
  ASSUME NEW s, Agree(s, Place(s)), NEW t \in Task
  PROVE  Effect(s, WaitDequeueTmevtb(s, t), t, s.tcb[t], s.tmevt \ {t}, s.wque)
<1> DEFINE z == WaitDequeueTmevtb(s, t)
<1>1. WellTyped(s) /\ s \in KState
  BY DEF Agree, WellTyped
<1>2. Sound(s, z)
  BY <1>1, WaitDequeueSound
<1>3. /\ z.tcb = s.tcb /\ z.ready = s.ready /\ z.primap = s.primap
      /\ z.predtsk = s.predtsk /\ z.schedtsk = s.schedtsk
      /\ z.tmevt = s.tmevt \ {t} /\ z.wque = s.wque
  BY <1>1 DEF WaitDequeueTmevtb, KState
<1> HIDE DEF z
<1>4. Effect(s, z, t, s.tcb[t], z.tmevt, z.wque)
  BY <1>2, <1>3, OtherEffect
<1> QED
  BY <1>3, <1>4 DEF z

\* wait_dequeue_wobj, of a task that names an object only if it waits for it.
LEMMA DequeueWObjEffect ==
  ASSUME NEW s, Agree(s, Place(s)), NEW t \in Task,
         "OBJ" \notin s.tcb[t].tstat => s.tcb[t].wobj = NULL
  PROVE  \E W : Effect(s, WaitDequeueWObj(s, t), t, Unbound(s.tcb[t]), s.tmevt, W)
<1> DEFINE z == WaitDequeueWObj(s, t)
           w == s.tcb[t].wobj
           q == Without(s.wque[w], t)
           s1 == [s EXCEPT !.wque[w] = q]
<1>1. WellTyped(s) /\ s \in KState /\ s.tcb[t] \in TCB /\ s.wque \in [WObj -> Seq(Task)]
  BY TaskFacts DEF Agree, WellTyped, KState
<1>2. CASE "OBJ" \in s.tcb[t].tstat
  <2>1. z = [s1 EXCEPT !.tcb[t].wobj = NULL]
    BY <1>2 DEF WaitDequeueWObj
  <2>2. w \in WObj => q \in Seq(Task)
    BY <1>1, WithoutType
  <2>3. /\ s1.tcb = s.tcb /\ s1.ready = s.ready /\ s1.primap = s.primap
        /\ s1.predtsk = s.predtsk /\ s1.schedtsk = s.schedtsk /\ s1.tmevt = s.tmevt
    BY <1>1 DEF KState
  <2> HIDE DEF w, q
  <2>4. Sound(s, s1)
    BY <1>1, <2>2, WqueSound
  <2> HIDE DEF s1, z
  <2>5. Effect(s, s1, t, s.tcb[t], s1.tmevt, s1.wque)
    BY <2>3, <2>4, OtherEffect
  <2>6. Agree(s1, Place(s1)) /\ s1.tcb[t] = s.tcb[t]
    BY <1>1, <2>3, <2>5, EffectFacts
  <2>7. Effect(s1, z, t, Unbound(s1.tcb[t]), s1.tmevt, s1.wque)
    BY <2>1, <2>6, UnboundEffect
  <2>8. Effect(s, z, t, Unbound(s.tcb[t]), s.tmevt, s1.wque)
    BY <2>3, <2>5, <2>6, <2>7, EffectTrans
  <2> QED
    BY <2>8 DEF z
<1>3. CASE "OBJ" \notin s.tcb[t].tstat
  <2>1. z = s
    BY <1>3 DEF WaitDequeueWObj
  <2>2. Unbound(s.tcb[t]) = s.tcb[t]
    BY <1>1, <1>3 DEF Unbound, TCB
  <2>3. Sound(s, s)
    BY <1>1 DEF Sound, KeepsSched
  <2>4. Effect(s, s, t, s.tcb[t], s.tmevt, s.wque)
    BY <2>3, OtherEffect
  <2> QED
    BY <2>1, <2>2, <2>4
<1> QED
  BY <1>2, <1>3

\* wait_complete.
LEMMA WaitCompleteEffect ==
  ASSUME NEW s, Agree(s, Place(s)), NEW t \in Task, ~IsRunnable(s.tcb[t].tstat)
  PROVE  Effect(s, WaitComplete(s, t), t, Released(Unbound(s.tcb[t])),
                s.tmevt \ {t}, s.wque)
<1> DEFINE c  == Unbound(s.tcb[t])
           s1 == TcbSet(s, t, c)
           s2 == WaitDequeueTmevtb(s1, t)
<1>1. WaitComplete(s, t) = MakeNonWait(s2, t) /\ c.tstat = s.tcb[t].tstat
  BY UnboundEffect DEF WaitComplete
<1>2. WellTyped(s) /\ Effect(s, s1, t, c, s.tmevt, s.wque)
  BY UnboundEffect DEF Agree
<1> HIDE DEF s1, c
<1>3. Agree(s1, Place(s1)) /\ s1.tcb[t] = c /\ s1.tmevt = s.tmevt /\ s1.wque = s.wque
  <2>1. s.tcb \in [Task -> TCB]
    BY <1>2 DEF WellTyped, KState
  <2> QED
    BY <1>2, <2>1 DEF Effect, AgreeAfter
<1>4. Effect(s1, s2, t, c, s.tmevt \ {t}, s.wque)
  BY <1>3, DequeueTmevtbEffect
<1> HIDE DEF s2
<1>5. /\ Agree(s2, Place(s2)) /\ s2.tcb[t] = c /\ s2.tmevt = s.tmevt \ {t}
      /\ s2.wque = s.wque
  BY <1>3, <1>4, EffectFacts DEF Agree
<1>6. Effect(s2, MakeNonWait(s2, t), t, Released(c), s.tmevt \ {t}, s.wque)
  BY <1>1, <1>5, MakeNonWaitEffect
<1>7. Effect(s, MakeNonWait(s2, t), t, Released(c), s.tmevt \ {t}, s.wque)
  BY <1>2, <1>4, <1>6, EffectTrans
<1> QED
  BY <1>1, <1>7 DEF c

\* The two dequeue operations, in the order of rel_wai and in that of wait_tmout.
LEMMA DequeueEffect ==
  ASSUME NEW s, Agree(s, Place(s)), NEW t \in Task,
         "OBJ" \notin s.tcb[t].tstat => s.tcb[t].wobj = NULL
  PROVE  /\ \E W : Effect(s, WaitDequeueTmevtb(WaitDequeueWObj(s, t), t), t,
                          Unbound(s.tcb[t]), s.tmevt \ {t}, W)
         /\ \E W : Effect(s, WaitDequeueWObj(WaitDequeueTmevtb(s, t), t), t,
                          Unbound(s.tcb[t]), s.tmevt \ {t}, W)
<1> DEFINE c  == Unbound(s.tcb[t])
           s1 == WaitDequeueWObj(s, t)
           s2 == WaitDequeueTmevtb(s, t)
<1>1. WellTyped(s)
  BY DEF Agree
<1>2. PICK W : Effect(s, s1, t, c, s.tmevt, W)
  BY DequeueWObjEffect
<1>3. Effect(s, s2, t, s.tcb[t], s.tmevt \ {t}, s.wque)
  BY DequeueTmevtbEffect
<1> HIDE DEF c, s1, s2
<1>4. Agree(s1, Place(s1)) /\ s1.tcb[t] = c /\ s1.tmevt = s.tmevt /\ s1.wque = W
  BY <1>1, <1>2, EffectFacts
<1>5. Effect(s1, WaitDequeueTmevtb(s1, t), t, c, s.tmevt \ {t}, W)
  BY <1>4, DequeueTmevtbEffect
<1>6. Effect(s, WaitDequeueTmevtb(s1, t), t, c, s.tmevt \ {t}, W)
  BY <1>2, <1>5, EffectTrans
<1>7. Agree(s2, Place(s2)) /\ s2.tcb[t] = s.tcb[t] /\ s2.tmevt = s.tmevt \ {t}
  BY <1>1, <1>3, EffectFacts
<1>8. PICK V : Effect(s2, WaitDequeueWObj(s2, t), t, c, s.tmevt \ {t}, V)
  BY <1>7, DequeueWObjEffect DEF c
<1>9. Effect(s, WaitDequeueWObj(s2, t), t, c, s.tmevt \ {t}, V)
  BY <1>3, <1>8, EffectTrans
<1> QED
  BY <1>6, <1>9 DEF c, s1, s2

\* The release of rel_wai and that of wait_tmout.
LEMMA ReleaseEffect ==
  ASSUME NEW s, Agree(s, Place(s)), NEW t \in Task, ~IsRunnable(s.tcb[t].tstat),
         "OBJ" \notin s.tcb[t].tstat => s.tcb[t].wobj = NULL
  PROVE  /\ \E W : Effect(s, MakeNonWait(WaitDequeueTmevtb(WaitDequeueWObj(s, t), t), t), t,
                          Released(Unbound(s.tcb[t])), s.tmevt \ {t}, W)
         /\ \E W : Effect(s, WaitTmout(s, t), t,
                          Released(Unbound(s.tcb[t])), s.tmevt \ {t}, W)
<1> DEFINE c  == Unbound(s.tcb[t])
           T  == s.tmevt \ {t}
<1>1. WellTyped(s) /\ c.tstat = s.tcb[t].tstat
  BY UnboundEffect DEF Agree
<1> HIDE DEF c, T
<1>2. ASSUME NEW z, NEW W, Effect(s, z, t, c, T, W)
      PROVE  Effect(s, MakeNonWait(z, t), t, Released(c), T, W)
  <2>1. Agree(z, Place(z)) /\ z.tcb[t] = c /\ z.tmevt = T /\ z.wque = W
    BY <1>1, <1>2, EffectFacts
  <2>2. Effect(z, MakeNonWait(z, t), t, Released(c), T, W)
    BY <1>1, <2>1, MakeNonWaitEffect
  <2> QED
    BY <1>2, <2>2, EffectTrans
<1>3. PICK W : Effect(s, WaitDequeueTmevtb(WaitDequeueWObj(s, t), t), t, c, T, W)
  BY DequeueEffect DEF c, T
<1>4. PICK V : Effect(s, WaitDequeueWObj(WaitDequeueTmevtb(s, t), t), t, c, T, V)
  BY DequeueEffect DEF c, T
<1>5. Effect(s, WaitTmout(s, t), t, Released(c), T, V)
  BY <1>2, <1>4 DEF WaitTmout
<1>6. Effect(s, MakeNonWait(WaitDequeueTmevtb(WaitDequeueWObj(s, t), t), t), t,
             Released(c), T, W)
  BY <1>2, <1>3
<1> QED
  BY <1>5, <1>6 DEF c, T

\* The control block of a task that starts to wait.
Waiting(b, flag) == [b EXCEPT !.tstat = {flag}]

\* make_wait_tmout.
LEMMA MakeWaitTmoutEffect ==
  ASSUME NEW s, Agree(s, Place(s)), NEW t \in Task, s.runtsk = t,
         IsRunnable(s.tcb[t].tstat), NEW flag \in WaitFlag, NEW timed \in BOOLEAN
  PROVE  Effect(s, MakeWaitTmout(s, flag, timed), t, Waiting(s.tcb[t], flag),
                IF timed THEN s.tmevt \union {t} ELSE s.tmevt, s.wque)
<1> DEFINE c  == Waiting(s.tcb[t], flag)
           s1 == MakeNonRunnable(TcbSet(s, t, c), t)
           s2 == [s1 EXCEPT !.tmevt = @ \union {t}]
<1>1. WellTyped(s) /\ s.tcb[t] \in TCB
  BY TaskFacts DEF Agree
<1>2. c \in TCB /\ c.tstat = {flag} /\ c.pri = s.tcb[t].pri
  BY <1>1, StatesType DEF TCB, Waiting
<1>3. ~IsRunnable(c.tstat)
  BY <1>2 DEF IsRunnable, WaitFlag
<1>4. MakeWaitTmout(s, flag, timed) = IF timed THEN s2 ELSE s1
  BY DEF MakeWaitTmout, MakeWait, TcbSet, Waiting
<1> HIDE DEF c
<1>5. Effect(s, s1, t, c, s.tmevt, s.wque)
  BY <1>2, <1>3, LeaveEffect
<1> HIDE DEF s1, s2
<1>6. Agree(s1, Place(s1)) /\ s1.tcb[t] = c /\ s1.tmevt = s.tmevt /\ s1.wque = s.wque
  <2>1. s.tcb \in [Task -> TCB]
    BY <1>1 DEF WellTyped, KState
  <2> QED
    BY <1>5, <2>1 DEF Effect, AgreeAfter
<1> USE DEF s2
<1>7. WellTyped(s1) /\ s1 \in KState
  BY <1>6 DEF Agree, WellTyped
<1>8. Sound(s1, s2)
  <2>1. s1.tmevt \union {t} \in SUBSET Task
    BY <1>7 DEF KState
  <2> QED
    BY <1>7, <2>1, TmevtSound
<1>9. /\ s2.tcb = s1.tcb /\ s2.ready = s1.ready /\ s2.primap = s1.primap
      /\ s2.predtsk = s1.predtsk /\ s2.schedtsk = s1.schedtsk
      /\ s2.tmevt = s.tmevt \union {t} /\ s2.wque = s.wque
  BY <1>6, <1>7 DEF KState
<1> HIDE DEF s2
<1>10. Effect(s1, s2, t, c, s.tmevt \union {t}, s.wque)
  BY <1>6, <1>8, <1>9, OtherEffect
<1>11. Effect(s, s2, t, c, s.tmevt \union {t}, s.wque)
  BY <1>5, <1>10, EffectTrans
<1> QED
  BY <1>4, <1>5, <1>11 DEF c

\* The control block that task_terminate leaves: dormant, or active again if an
\* activation was queued.
Dormant(b, t) ==
  [b EXCEPT !.tstat = {}, !.bpri = IniPri[t], !.pri = IniPri[t], !.wupque = FALSE,
            !.raster = FALSE, !.enater = TRUE]
Restarted(b)     == [b EXCEPT !.actque = FALSE, !.tstat = {"RUNNABLE"}]
Terminated(b, t) == IF b.actque THEN Restarted(Dormant(b, t)) ELSE Dormant(b, t)

\* The second half of task_terminate, of a task in no ready queue.
LEMMA BecomeDormantEffect ==
  ASSUME NEW s, NEW t \in Task, Agree(s, Put(Place(s), t, 0))
  PROVE  Effect(s, BecomeDormant(s, t), t, Terminated(s.tcb[t], t), s.tmevt, s.wque)
<1> DEFINE b  == s.tcb[t]
           d  == Dormant(b, t)
           s1 == TcbSet(s, t, d)
           d2 == [d EXCEPT !.actque = FALSE]
           c  == Restarted(d)
           s2 == MakeRunnable(TcbSet(s1, t, c), t)
<1>1. WellTyped(s) /\ b \in TCB
  BY TaskFacts DEF Agree
<1>2. d \in TCB /\ d.tstat = {} /\ d.actque = b.actque
  BY <1>1, StatesType, KernelAssumption DEF TCB, Dormant
<1>3. c \in TCB /\ c.tstat = {"RUNNABLE"}
  BY <1>2, StatesType DEF TCB, Restarted
<1>4. MakeDormant(s, t) = s1
  BY DEF MakeDormant, Dormant, TcbSet
<1>5. s1.tcb = [s.tcb EXCEPT ![t] = d] /\ s1.tmevt = s.tmevt /\ s1.wque = s.wque
  BY <1>1, <1>2, TcbFields
<1>6. s1.tcb[t] = d
  BY <1>1, <1>5 DEF WellTyped, KState
<1>7. BecomeDormant(s, t) = IF b.actque THEN s2 ELSE s1
  <2>1. [[s1 EXCEPT !.tcb[t].actque = FALSE] EXCEPT !.tcb[t].tstat = {"RUNNABLE"}]
          = TcbSet(s1, t, c)
    <3>1. s1 \in KState /\ s1.tcb \in [Task -> TCB]
      BY <1>2, <1>1, TcbSound DEF TcbSet, Sound, WellTyped, KState
    <3>2. [s1 EXCEPT !.tcb[t].actque = FALSE]
            = [s1 EXCEPT !.tcb = [s1.tcb EXCEPT ![t] = d2]]
      BY <1>6
    <3>3. [s1.tcb EXCEPT ![t] = d2][t] = d2
      BY <3>1
    <3>4. c = [d2 EXCEPT !.tstat = {"RUNNABLE"}]
      BY DEF Restarted
    <3> HIDE DEF d2, c, s1
    <3>5. [[s1 EXCEPT !.tcb[t].actque = FALSE] EXCEPT !.tcb[t].tstat = {"RUNNABLE"}]
            = [s1 EXCEPT !.tcb = [[s1.tcb EXCEPT ![t] = d2] EXCEPT ![t] = c]]
      BY <3>1, <3>2, <3>3, <3>4 DEF KState
    <3>6. [[s1.tcb EXCEPT ![t] = d2] EXCEPT ![t] = c] = [s1.tcb EXCEPT ![t] = c]
      BY <3>1
    <3>7. TcbSet(s1, t, c) = [s1 EXCEPT !.tcb = [s1.tcb EXCEPT ![t] = c]]
      BY DEF TcbSet
    <3> QED
      BY <3>5, <3>6, <3>7
  <2> QED
    BY <1>4, <2>1 DEF BecomeDormant, MakeActive
<1> HIDE DEF d, b, c
<1>8. Effect(s, s1, t, d, s.tmevt, s.wque)
  <2>1. Put(Place(s), t, 0)[t] = 0
    BY DEF Put, Place
  <2>2. AgreeAfter(s, s1, Put(Place(s), t, 0))
    BY <1>2, <2>1, TcbExact
  <2>3. PlaceOf(d) = 0
    BY <1>2 DEF PlaceOf, IsRunnable
  <2>4. Place(s1) = Put(Place(s), t, 0)
    BY <1>1, <1>2, <1>5, <2>3, PlaceFacts
  <2>5. Sound(s, s1)
    BY <1>1, <1>2, TcbSound DEF TcbSet
  <2> QED
    BY <1>5, <2>2, <2>4, <2>5 DEF Effect
<1> HIDE DEF s1
<1>9. Effect(s1, s2, t, c, s.tmevt, s.wque)
  <2>1. Agree(s1, Place(s1))
    BY <1>8 DEF Effect, AgreeAfter
  <2>2. ~IsRunnable(s1.tcb[t].tstat) /\ IsRunnable(c.tstat)
    BY <1>2, <1>3, <1>6 DEF IsRunnable
  <2> QED
    BY <1>3, <1>5, <2>1, <2>2, EnterEffect
<1> HIDE DEF s2
<1>10. Effect(s, s2, t, c, s.tmevt, s.wque)
  BY <1>8, <1>9, EffectTrans
<1>11. Terminated(b, t) = IF b.actque THEN c ELSE d
  BY DEF Terminated, c, d
<1> QED
  BY <1>7, <1>8, <1>10, <1>11 DEF b

\* task_terminate of a task that holds no mutex.
LEMMA TerminateEffect ==
  ASSUME NEW s, Agree(s, Place(s)), NEW t \in Task,
         "OBJ" \notin s.tcb[t].tstat => s.tcb[t].wobj = NULL,
         t \in s.tmevt => IsWaiting(s.tcb[t].tstat)
  PROVE  \E W : Effect(s, TaskTerminate(s, t), t, Terminated(Unbound(s.tcb[t]), t),
                       s.tmevt \ {t}, W)
<1> DEFINE b == s.tcb[t]
           z == LeaveQueues(s, t)
           x == BecomeDormant(z, t)
<1>1. WellTyped(s) /\ s \in KState /\ s.tcb \in [Task -> TCB] /\ b \in TCB
  BY TaskFacts DEF Agree, WellTyped, KState
<1>2. ASSUME Unbound(b) = b, t \notin s.tmevt, Sound(s, z),
             AgreeAfter(s, z, Put(Place(s), t, 0)), SameTasks(s, z)
      PROVE  Effect(s, x, t, Terminated(Unbound(b), t), s.tmevt \ {t}, s.wque)
  <2> HIDE DEF z
  <2>1. Place(z) = Place(s) /\ z.tcb[t] = b
    BY <1>2 DEF Place, SameTasks
  <2>2. Agree(z, Put(Place(z), t, 0))
    BY <1>2, <2>1 DEF AgreeAfter
  <2>3. Effect(z, x, t, Terminated(b, t), z.tmevt, z.wque)
    BY <2>1, <2>2, BecomeDormantEffect
  <2> HIDE DEF x
  <2>4. Sound(s, x)
    BY <1>2, <2>3, SoundTrans DEF Effect
  <2>5. AgreeAfter(s, x, Place(x))
    BY <1>2, <2>3 DEF Effect, AgreeAfter
  <2>6. s.tmevt \ {t} = s.tmevt
    BY <1>2
  <2> QED
    BY <1>2, <2>3, <2>4, <2>5, <2>6 DEF Effect, SameTasks
<1>3. CASE IsRunnable(b.tstat)
  <2>1. z = MakeNonRunnable(s, t)
    BY <1>3 DEF LeaveQueues
  <2>2. b.tstat = {"RUNNABLE"}
    BY <1>1, <1>3 DEF TCB, TStat, WaitFlag, IsRunnable
  <2>3. Unbound(b) = b /\ t \notin s.tmevt
    BY <1>1, <2>2 DEF TCB, Unbound, IsWaiting, WaitFlag
  <2>4. Place(s)[t] # 0
    BY <1>1, <1>3, PlaceFacts
  <2>5. AgreeAfter(s, z, Put(Place(s), t, 0)) /\ SameTasks(s, z)
    BY <2>1, <2>4, MakeNonRunnableExact
  <2>6. Sound(s, z)
    BY <1>1, <2>1, MakeNonRunnableSound
  <2> QED
    BY <1>2, <2>3, <2>5, <2>6 DEF TaskTerminate
<1>4. CASE ~IsRunnable(b.tstat) /\ IsWaiting(b.tstat)
  <2>1. z = WaitDequeueTmevtb(WaitDequeueWObj(s, t), t)
    BY <1>4 DEF LeaveQueues
  <2>2. PICK W : Effect(s, z, t, Unbound(b), s.tmevt \ {t}, W)
    BY <2>1, DequeueEffect
  <2> HIDE DEF z
  <2>3. Agree(z, Place(z)) /\ z.tcb[t] = Unbound(b) /\ z.tmevt = s.tmevt \ {t} /\ z.wque = W
    BY <1>1, <2>2 DEF Effect, AgreeAfter
  <2>4. Put(Place(z), t, 0) = Place(z)
    <3>1. Unbound(b).tstat = b.tstat
      BY UnboundEffect
    <3>2. PlaceOf(z.tcb[t]) = 0
      BY <1>4, <2>3, <3>1 DEF PlaceOf
    <3> QED
      BY <3>2 DEF Place, Put
  <2>5. Effect(z, x, t, Terminated(Unbound(b), t), s.tmevt \ {t}, W)
    BY <2>3, <2>4, BecomeDormantEffect
  <2>6. Effect(s, x, t, Terminated(Unbound(b), t), s.tmevt \ {t}, W)
    BY <2>2, <2>5, EffectTrans
  <2> QED
    BY <2>6 DEF TaskTerminate, z
<1>5. CASE ~IsRunnable(b.tstat) /\ ~IsWaiting(b.tstat)
  <2>1. z = s
    BY <1>5 DEF LeaveQueues
  <2>2. Unbound(b) = b /\ t \notin s.tmevt
    BY <1>1, <1>5 DEF TCB, Unbound, IsWaiting, WaitFlag
  <2>3. Put(Place(s), t, 0) = Place(s)
    BY <1>5 DEF Place, Put, PlaceOf
  <2>4. AgreeAfter(s, s, Put(Place(s), t, 0)) /\ SameTasks(s, s) /\ Sound(s, s)
    BY <1>1, <2>3 DEF AgreeAfter, SameTasks, Sound, KeepsSched
  <2>5. Effect(s, x, t, Terminated(Unbound(b), t), s.tmevt \ {t}, s.wque)
    BY <1>2, <2>1, <2>2, <2>4
  <2> QED
    BY <2>5 DEF TaskTerminate
<1> QED
  BY <1>3, <1>4, <1>5

\* change_priority.
AtPri(b, p) == [b EXCEPT !.pri = p]

\* change_priority has the effect of setting the current priority.
LEMMA ChangePriorityEffect ==
  ASSUME NEW s, Agree(s, Place(s)), NEW t \in Task, NEW new \in Pri, NEW mode \in BOOLEAN
  PROVE  \E W : Effect(s, ChangePriority(s, t, new, mode), t, AtPri(s.tcb[t], new),
                       s.tmevt, W)
<1> DEFINE b == s.tcb[t]
           c == AtPri(b, new)
           z == ChangePriority(s, t, new, mode)
<1>1. WellTyped(s) /\ b \in TCB /\ s.tcb \in [Task -> TCB]
  BY TaskFacts DEF Agree, WellTyped, KState
<1>2. c \in TCB /\ c.tstat = b.tstat /\ c.pri = new
  BY <1>1 DEF TCB, AtPri
<1>3. Sound(s, z)
  BY <1>1, ChangePrioritySound
<1>4. CASE IsRunnable(b.tstat)
  <2>1. Place(s)[t] # 0
    BY <1>1, <1>4, PlaceFacts
  <2>2. /\ AgreeAfter(s, z, Put(Place(s), t, new))
        /\ z.tcb = [s.tcb EXCEPT ![t].pri = new]
        /\ z.tmevt = s.tmevt /\ z.wque = s.wque
    BY <1>4, <2>1, ChangePriorityExact
  <2> HIDE DEF z
  <2>3. z.tcb = [s.tcb EXCEPT ![t] = c]
    BY <2>2 DEF AtPri
  <2>4. PlaceOf(c) = new
    BY <1>2, <1>4 DEF PlaceOf
  <2> HIDE DEF c
  <2>5. Place(z) = Put(Place(s), t, new)
    BY <1>1, <1>2, <2>3, <2>4, PlaceFacts
  <2>6. Effect(s, z, t, c, s.tmevt, s.wque)
    BY <1>3, <2>2, <2>3, <2>5 DEF Effect
  <2> QED
    BY <2>6 DEF z, c
<1>5. CASE ~IsRunnable(b.tstat)
  <2> DEFINE s1 == TcbSet(s, t, c)
  <2>1. z = IF "OBJ" \in b.tstat THEN WObjChangePriority(s1, t) ELSE s1
    BY <1>5 DEF ChangePriority, TcbSet, AtPri
  <2>2. PlaceOf(c) = PlaceOf(b)
    BY <1>2, <1>5 DEF PlaceOf
  <2> HIDE DEF c
  <2>3. Effect(s, s1, t, c, s.tmevt, s.wque)
    BY <1>2, <2>2, TcbEffect
  <2> HIDE DEF s1
  <2>4. Agree(s1, Place(s1)) /\ s1.tcb[t] = c /\ s1.tmevt = s.tmevt
    BY <1>1, <2>3 DEF Effect, AgreeAfter
  <2>5. WellTyped(s1) /\ s1 \in KState
    BY <2>4 DEF Agree, WellTyped
  <2> DEFINE x == WObjChangePriority(s1, t)
  <2>6. Sound(s1, x)
    BY <2>5, WObjChangePrioritySound
  <2>7. /\ x.tcb = s1.tcb /\ x.ready = s1.ready /\ x.primap = s1.primap
        /\ x.predtsk = s1.predtsk /\ x.schedtsk = s1.schedtsk /\ x.tmevt = s.tmevt
    BY <2>4, <2>5 DEF WObjChangePriority, KState
  <2> HIDE DEF x, z
  <2>8. Effect(s1, x, t, c, s.tmevt, x.wque)
    BY <2>4, <2>6, <2>7, OtherEffect
  <2>9. Effect(s, x, t, c, s.tmevt, x.wque)
    BY <2>3, <2>8, EffectTrans
  <2>10. z = x \/ z = s1
    BY <2>1 DEF x
  <2>11. \E W : Effect(s, z, t, c, s.tmevt, W)
    BY <2>3, <2>9, <2>10
  <2> QED
    BY <2>11 DEF z, c
<1> QED
  BY <1>4, <1>5

\* rotate_ready_queue changes no task.
LEMMA RotateEffect ==
  ASSUME NEW s, Agree(s, Place(s)), NEW t \in Task, NEW p \in Pri, NEW u \in Unit
  PROVE  Effect(s, RotateReadyQueue(s, p, u), t, s.tcb[t], s.tmevt, s.wque)
<1> DEFINE z == RotateReadyQueue(s, p, u)
<1>1. WellTyped(s) /\ s.tcb \in [Task -> TCB]
  BY DEF Agree, WellTyped, KState
<1>2. Sound(s, z)
  BY <1>1, RotateReadyQueueSound
<1>3. AgreeAfter(s, z, Place(s)) /\ SameTasks(s, z)
  BY RotateReadyQueueExact
<1> HIDE DEF z
<1>4. Place(z) = Place(s)
  BY <1>3 DEF Place, SameTasks
<1>5. z.tcb = [s.tcb EXCEPT ![t] = s.tcb[t]]
  BY <1>1, <1>3 DEF SameTasks
<1>6. Effect(s, z, t, s.tcb[t], s.tmevt, s.wque)
  BY <1>2, <1>3, <1>4, <1>5 DEF Effect, SameTasks
<1> QED
  BY <1>6 DEF z

-----------------------------------------------------------------------------
(* What the agreement of the data says of the tasks. *)

\* The queues hold exactly the runnable tasks, and p_predtsk is what
\* search_predtsk would find.
LEMMA AgreeIsExact ==
  ASSUME NEW s, Agree(s, Place(s)), NEW u \in Unit
  PROVE  /\ \A p \in Pri :
              /\ p \in s.primap[u] <=> s.ready[u][p] # << >>
              /\ IsQueue(s.ready[u][p],
                         {t \in Task : /\ UnitOf[t] = u /\ IsRunnable(s.tcb[t].tstat)
                                       /\ s.tcb[t].pri = p})
         /\ s.predtsk[u] = IF s.primap[u] = {} THEN NULL ELSE SearchPredtsk(s, u)
<1>1. WellTyped(s) /\ QueuesExact(s, Place(s)) /\ IsTop(s, u, s.predtsk[u])
  BY DEF Agree, PredtskExact
<1>2. ASSUME NEW p \in Pri
      PROVE  PlacedIn(Place(s), u, p) =
               {t \in Task : /\ UnitOf[t] = u /\ IsRunnable(s.tcb[t].tstat)
                             /\ s.tcb[t].pri = p}
  BY DEF PlacedIn, Place, PlaceOf, Pri
<1>3. CASE s.primap[u] = {}
  BY <1>1, <1>2, <1>3 DEF QueuesExact, IsTop
<1>4. CASE s.primap[u] # {}
  <2>1. IsTop(s, u, SearchPredtsk(s, u))
    BY <1>1, <1>4, SearchIsTop
  <2>2. s.primap[u] \subseteq Pri
    BY <1>1 DEF WellTyped, KState
  <2>3. PICK p \in Pri : IsTopPri(s, u, p)
    BY <1>4, <2>2, LeastPri DEF IsTopPri
  <2>4. s.predtsk[u] = SearchPredtsk(s, u)
    BY <1>1, <2>1, <2>3 DEF IsTop
  <2> QED
    BY <1>1, <1>2, <1>4, <2>4 DEF QueuesExact
<1> QED
  BY <1>3, <1>4

\* The runnable tasks of a unit, and what its p_predtsk is to them.
RunnableIn(s, u) == {t \in Task : IsRunnable(s.tcb[t].tstat) /\ UnitOf[t] = u}

Leads(s, u, v) ==
  /\ v = NULL => RunnableIn(s, u) = {}
  /\ v # NULL => /\ v \in RunnableIn(s, u)
                 /\ \A t \in RunnableIn(s, u) : s.tcb[v].pri <= s.tcb[t].pri

\* p_predtsk of a unit has the highest priority of the unit's runnable tasks.
LEMMA PredtskLeads ==
  ASSUME NEW s, Agree(s, Place(s)), NEW u \in Unit
  PROVE  Leads(s, u, s.predtsk[u])
<1> DEFINE v == s.predtsk[u]
<1>1. /\ WellTyped(s) /\ QueuesExact(s, Place(s)) /\ AtPriority(s, Place(s))
      /\ IsTop(s, u, v)
  BY DEF Agree, PredtskExact
<1>2. ASSUME NEW t \in RunnableIn(s, u)
      PROVE  v # NULL /\ v \in Task /\ s.tcb[v].pri <= s.tcb[t].pri
  <2>1. t \in Task /\ UnitOf[t] = u /\ Place(s)[t] = s.tcb[t].pri /\ s.tcb[t].pri \in Pri
    BY <1>1, TaskFacts DEF RunnableIn, Place, PlaceOf
  <2>2. Place(s)[t] # 0
    BY <2>1 DEF Pri
  <2>3. PICK h \in Pri : HasTop(s, Place(s), u, h, v) /\ h <= Place(s)[t]
    BY <2>1, <2>2, PlacedHasTop
  <2> QED
    BY <2>1, <2>3 DEF HasTop
<1>3. ASSUME v # NULL
      PROVE  v \in RunnableIn(s, u)
  <2>1. v \in Task /\ UnitOf[v] = u /\ Place(s)[v] \in Pri
    BY <1>1, <1>3, TopFacts
  <2>2. Place(s)[v] # 0
    BY <2>1 DEF Pri
  <2> QED
    BY <2>1, <2>2 DEF RunnableIn, Place, PlaceOf
<1> QED
  BY <1>2, <1>3 DEF Leads

\* The task v is the one of highest precedence of the kernel domain, the current
\* unit and, if they have none, the idle unit.
Best(s, v) ==
  LET cand == RunnableIn(s, KERNEL) \union RunnableIn(s, s.twdsched)
      idle == RunnableIn(s, s.idlesched)
  IN  IF v = NULL THEN cand = {} /\ idle = {}
      ELSE /\ v \in Task /\ v = s.predtsk[UnitOf[v]] /\ IsRunnable(s.tcb[v].tstat)
           /\ IF cand = {} THEN v \in idle
              ELSE /\ v \in cand
                   /\ \A t \in cand :
                        \/ s.tcb[v].pri < s.tcb[t].pri
                        \/ /\ s.tcb[v].pri = s.tcb[t].pri
                           /\ UnitOf[t] = KERNEL => UnitOf[v] = KERNEL

\* update_schedtsk selects the task of highest precedence.
LEMMA SelectedIsBest ==
  ASSUME NEW s, Agree(s, Place(s))
  PROVE  Best(s, Selected(s))
<1> DEFINE k == s.predtsk[KERNEL]
           d == s.predtsk[s.twdsched]
           i == s.predtsk[s.idlesched]
           KT == RunnableIn(s, KERNEL)
           DT == RunnableIn(s, s.twdsched)
           IT == RunnableIn(s, s.idlesched)
           v == Selected(s)
<1>1. KERNEL \in Unit /\ s.twdsched \in Unit /\ s.idlesched \in Unit
  BY KernelAssumption DEF Agree, WellTyped, KState
<1>2. Leads(s, KERNEL, k) /\ Leads(s, s.twdsched, d) /\ Leads(s, s.idlesched, i)
  BY <1>1, PredtskLeads
<1>3. v = IF k # NULL THEN IF d # NULL /\ s.tcb[d].pri < s.tcb[k].pri THEN d ELSE k
          ELSE IF d # NULL THEN d ELSE i
  BY DEF Selected
<1>4. /\ k # NULL => k \in Task /\ UnitOf[k] = KERNEL /\ IsRunnable(s.tcb[k].tstat)
      /\ d # NULL => d \in Task /\ UnitOf[d] = s.twdsched /\ IsRunnable(s.tcb[d].tstat)
      /\ i # NULL => i \in Task /\ UnitOf[i] = s.idlesched /\ IsRunnable(s.tcb[i].tstat)
  BY <1>2 DEF Leads, RunnableIn
<1>5. \A t \in Task : s.tcb[t].pri \in Int
  BY TaskFacts DEF Agree, Pri
<1>6. \A t \in KT : t \in Task /\ UnitOf[t] = KERNEL
  BY DEF RunnableIn
<1>7. \A t \in DT : t \in Task /\ UnitOf[t] = s.twdsched
  BY DEF RunnableIn
<1>8. /\ k = NULL => KT = {}
      /\ k # NULL => k \in KT /\ \A t \in KT : s.tcb[k].pri <= s.tcb[t].pri
      /\ d = NULL => DT = {}
      /\ d # NULL => d \in DT /\ \A t \in DT : s.tcb[d].pri <= s.tcb[t].pri
      /\ i = NULL => IT = {}
      /\ i # NULL => i \in IT
  BY <1>2 DEF Leads
<1>9. v # NULL => v \in Task /\ v = s.predtsk[UnitOf[v]] /\ IsRunnable(s.tcb[v].tstat)
  BY <1>3, <1>4
<1> HIDE DEF KT, DT, IT, k, d, i, v
<1>10. CASE k = NULL /\ d = NULL
  <2>1. KT \union DT = {} /\ v = i
    BY <1>3, <1>8, <1>10
  <2> QED
    BY <1>8, <1>9, <2>1 DEF Best, KT, DT, IT, v
<1>11. CASE k # NULL \/ d # NULL
  <2>1. v # NULL /\ v \in KT \union DT
    BY <1>3, <1>8, <1>11
  <2>2. ASSUME NEW t \in KT \union DT
        PROVE  \/ s.tcb[v].pri < s.tcb[t].pri
               \/ /\ s.tcb[v].pri = s.tcb[t].pri
                  /\ UnitOf[t] = KERNEL => UnitOf[v] = KERNEL
    <3>1. s.tcb[v].pri \in Int /\ s.tcb[t].pri \in Int /\ (k # NULL => s.tcb[k].pri \in Int)
          /\ (d # NULL => s.tcb[d].pri \in Int)
      BY <1>5, <1>6, <1>7, <1>8, <2>1
    <3>2. CASE v = k
      <4>1. UnitOf[v] = KERNEL /\ k # NULL
        BY <1>4, <2>1, <3>2
      <4>2. s.tcb[k].pri <= s.tcb[t].pri
        <5>1. CASE t \in KT
          BY <1>8, <4>1, <5>1
        <5>2. CASE t \in DT
          <6>1. d # NULL /\ s.tcb[d].pri <= s.tcb[t].pri
            BY <1>8, <5>2
          <6>2. ~(s.tcb[d].pri < s.tcb[k].pri)
            BY <1>3, <3>1, <3>2, <4>1, <6>1
          <6> QED
            BY <3>1, <4>1, <6>1, <6>2
        <5> QED
          BY <5>1, <5>2
      <4> QED
        BY <3>1, <3>2, <4>1, <4>2
    <3>3. CASE v # k
      <4>1. v = d /\ d # NULL /\ (k # NULL => s.tcb[d].pri < s.tcb[k].pri)
        BY <1>3, <1>11, <3>3
      <4>2. CASE t \in DT
        <5>1. s.tcb[v].pri <= s.tcb[t].pri /\ UnitOf[t] = UnitOf[v]
          BY <1>4, <1>7, <1>8, <4>1, <4>2
        <5> QED
          BY <3>1, <5>1
      <4>3. CASE t \in KT
        <5>1. k # NULL /\ s.tcb[k].pri <= s.tcb[t].pri
          BY <1>8, <4>3
        <5> QED
          BY <3>1, <4>1, <5>1
      <4> QED
        BY <4>2, <4>3
    <3> QED
      BY <3>2, <3>3
  <2>3. KT \union DT # {}
    BY <2>1
  <2> QED
    BY <1>9, <2>1, <2>2, <2>3 DEF Best, KT, DT, IT, v
<1> QED
  BY <1>10, <1>11

\* Selecting the task to execute, dispatching and changing dspflg leave the
\* queues, the bitmaps and p_predtsk as they are.
LEMMA CpuFrame ==
  ASSUME NEW s, NEW z, Agree(s, Place(s)), WellTyped(z), z.tcb = s.tcb,
         z.ready = s.ready, z.primap = s.primap, z.predtsk = s.predtsk
  PROVE  Agree(z, Place(z))
<1>1. Place(z) = Place(s)
  BY DEF Place
<1> QED
  BY <1>1, FrameExact

\* update_schedtsk with dispatching possible or not.
LEMMA SelectExact ==
  ASSUME NEW s, NEW z, Agree(s, Place(s)), NEW f \in BOOLEAN,
         z = UpdateSchedtsk([s EXCEPT !.dspflg = f])
  PROVE  /\ Agree(z, Place(z)) /\ SchedtskExact(z) /\ z.dspflg = f
         /\ z.tcb = s.tcb /\ z.tmevt = s.tmevt /\ z.wque = s.wque /\ z.runtsk = s.runtsk
         /\ z.twdsched = s.twdsched /\ z.idlesched = s.idlesched
<1> DEFINE s1 == [s EXCEPT !.dspflg = f]
<1>1. WellTyped(s) /\ s \in KState
  BY DEF Agree, WellTyped
<1>2. /\ s1 \in KState /\ s1.tcb = s.tcb /\ s1.ready = s.ready /\ s1.primap = s.primap
      /\ s1.predtsk = s.predtsk /\ s1.tmevt = s.tmevt /\ s1.wque = s.wque
      /\ s1.runtsk = s.runtsk /\ s1.dspflg = f
      /\ s1.twdsched = s.twdsched /\ s1.idlesched = s.idlesched
  BY <1>1 DEF KState
<1>3. Selected(s1) \in Task \union {NULL}
  BY <1>2, SelectedType
<1>4. z = [s1 EXCEPT !.schedtsk = Selected(s1)]
  BY DEF UpdateSchedtsk
<1> HIDE DEF s1
<1>5. /\ z \in KState /\ z.tcb = s.tcb /\ z.ready = s.ready /\ z.primap = s.primap
      /\ z.predtsk = s.predtsk /\ z.tmevt = s.tmevt /\ z.wque = s.wque
      /\ z.runtsk = s.runtsk /\ z.dspflg = f /\ z.schedtsk = Selected(s1)
      /\ z.twdsched = s.twdsched /\ z.idlesched = s.idlesched
  BY <1>2, <1>3, <1>4 DEF KState
<1>6. WellTyped(z)
  BY <1>1, <1>5 DEF WellTyped
<1>7. Selected(z) = Selected(s1)
  BY <1>2, <1>5 DEF Selected
<1> QED
  BY <1>5, <1>6, <1>7, CpuFrame DEF SchedtskExact

-----------------------------------------------------------------------------
(***************************************************************************)
(* The wait queues: each operation keeps them exact.                       *)
(***************************************************************************)

\* The queue q with t behind its first k tasks.
Inserted(q, t, k) ==
  [i \in 1..(Len(q) + 1) |-> IF i <= k THEN q[i] ELSE IF i = k + 1 THEN t ELSE q[i - 1]]

\* The queue is in the order of the priorities that f gives.
InOrder(q, f) == \A i, j \in DOMAIN q : i < j => f[q[i]].pri <= f[q[j]].pri

\* queue_insert_tpri puts the task behind the first tasks whose priority is not
\* lower, and before the next one.
LEMMA InsertPlace ==
  ASSUME NEW q \in Seq(Task), NEW t, NEW f
  PROVE  \E k \in 0..Len(q) :
           /\ InsertTPri(q, t, f) = Inserted(q, t, k)
           /\ \A j \in 1..k : f[q[j]].pri <= f[t].pri
           /\ k < Len(q) => ~(f[q[k + 1]].pri <= f[t].pri)
<1> DEFINE after(n) == ~(f[q[n]].pri <= f[t].pri)
           ahead(n) == \A j \in 1..n : f[q[j]].pri <= f[t].pri
           B == {n \in 1..Len(q) : after(n)}
<1>1. Len(q) \in Nat /\ B \in SUBSET Nat
  OBVIOUS
<1>2. \E k \in 0..Len(q) : ahead(k) /\ (k < Len(q) => after(k + 1))
  <2>1. CASE B = {}
    <3>1. ahead(Len(q))
      BY <2>1
    <3> QED
      BY <1>1, <3>1
  <2>2. CASE B # {}
    <3>1. PICK m \in B : \A n \in B : m <= n
      BY <1>1, <2>2, LeastNumber
    <3>2. m - 1 \in 0..Len(q) /\ after((m - 1) + 1) /\ m \in Nat
      BY <1>1, <3>1
    <3>3. ASSUME NEW j \in 1..(m - 1) PROVE ~after(j)
      <4>1. j \in 1..Len(q) /\ ~(m <= j)
        BY <1>1, <3>2
      <4> QED
        BY <3>1, <4>1
    <3>4. ahead(m - 1)
      BY <3>3
    <3> QED
      BY <3>2, <3>4
  <2> QED
    BY <2>1, <2>2
<1>3. PICK k \in 0..Len(q) : ahead(k) /\ (k < Len(q) => after(k + 1))
  BY <1>2
<1>4. ASSUME NEW n \in 0..Len(q) PROVE ahead(n) <=> n <= k
  <2>1. CASE n <= k
    <3>1. \A j \in 1..n : j \in 1..k
      BY <1>1, <2>1
    <3> QED
      BY <1>3, <2>1, <3>1
  <2>2. CASE n > k
    <3>1. k + 1 \in 1..n /\ k < Len(q)
      BY <1>1, <2>2
    <3> QED
      BY <1>3, <2>2, <3>1
  <2> QED
    BY <1>1, <2>1, <2>2
<1> HIDE DEF ahead
<1>5. ASSUME NEW i \in 1..(Len(q) + 1)
      PROVE  (IF i <= Len(q) /\ ahead(i) THEN q[i] ELSE IF ahead(i - 1) THEN t ELSE q[i - 1])
               = (IF i <= k THEN q[i] ELSE IF i = k + 1 THEN t ELSE q[i - 1])
  <2>1. i \in Nat /\ i - 1 \in 0..Len(q) /\ k \in Nat
    BY <1>1
  <2>2. i <= Len(q) => i \in 0..Len(q)
    BY <1>1
  <2>3. (i <= Len(q) /\ ahead(i)) <=> i <= k
    BY <1>1, <1>4, <2>1, <2>2
  <2>4. ahead(i - 1) <=> i <= k + 1
    BY <1>4, <2>1
  <2> QED
    BY <2>1, <2>3, <2>4
<1>6. InsertTPri(q, t, f) = Inserted(q, t, k)
  BY <1>5 DEF InsertTPri, Inserted, ahead
<1> QED
  BY <1>3, <1>6 DEF ahead

\* Inserting a task that is not in the queue, at any place.
LEMMA InsertedQueue ==
  ASSUME NEW q \in Seq(Task), NEW T, IsQueue(q, T), NEW t \in Task, t \notin T,
         NEW k \in 0..Len(q)
  PROVE  /\ IsQueue(Inserted(q, t, k), T \union {t})
         /\ Len(Inserted(q, t, k)) = Len(q) + 1
<1> DEFINE r == Inserted(q, t, k)
<1>1. Len(q) \in Nat /\ DOMAIN q = 1..Len(q) /\ DOMAIN r = 1..(Len(q) + 1) /\ k \in Nat
  BY DEF Inserted
<1>2. \A i \in DOMAIN r : \/ i <= k /\ i \in DOMAIN q /\ r[i] = q[i]
                          \/ i = k + 1 /\ r[i] = t
                          \/ i > k + 1 /\ i - 1 \in DOMAIN q /\ r[i] = q[i - 1]
  BY <1>1 DEF Inserted
<1>3. \A i \in DOMAIN q : \/ i <= k /\ i \in DOMAIN r /\ r[i] = q[i]
                          \/ i > k /\ i + 1 \in DOMAIN r /\ r[i + 1] = q[i]
  BY <1>1 DEF Inserted
<1>4. k + 1 \in DOMAIN r /\ r[k + 1] = t
  BY <1>1 DEF Inserted
<1>5. Len(r) = Len(q) + 1
  <2>1. r \in Seq(Task)
    BY <1>1, <1>2 DEF Inserted
  <2> QED
    BY <1>1, <2>1
<1> HIDE DEF r
<1>6. \A i \in DOMAIN q : q[i] \in T /\ q[i] # t
  BY DEF IsQueue
<1>7. ASSUME NEW i \in DOMAIN r, NEW j \in DOMAIN r, r[i] = r[j] PROVE i = j
  <2>1. \A a, b \in DOMAIN q : q[a] = q[b] => a = b
    BY DEF IsQueue
  <2>2. i \in Nat /\ j \in Nat
    BY <1>1
  <2>3. CASE i = k + 1
    BY <1>2, <1>6, <1>7, <2>2, <2>3, <1>1
  <2>4. CASE j = k + 1
    BY <1>2, <1>6, <1>7, <2>2, <2>4, <1>1
  <2>5. CASE i <= k /\ j <= k
    BY <1>1, <1>2, <1>7, <2>1, <2>2, <2>5
  <2>6. CASE i <= k /\ j > k + 1
    <3>1. i \in DOMAIN q /\ j - 1 \in DOMAIN q /\ q[i] = q[j - 1] /\ i # j - 1
      BY <1>1, <1>2, <1>7, <2>2, <2>6
    <3> QED
      BY <2>1, <3>1
  <2>7. CASE i > k + 1 /\ j <= k
    <3>1. j \in DOMAIN q /\ i - 1 \in DOMAIN q /\ q[j] = q[i - 1] /\ j # i - 1
      BY <1>1, <1>2, <1>7, <2>2, <2>7
    <3> QED
      BY <2>1, <3>1
  <2>8. CASE i > k + 1 /\ j > k + 1
    <3>1. i - 1 \in DOMAIN q /\ j - 1 \in DOMAIN q /\ q[i - 1] = q[j - 1]
      BY <1>1, <1>2, <1>7, <2>2, <2>8
    <3>2. i - 1 = j - 1
      BY <2>1, <3>1
    <3> QED
      BY <2>2, <3>2
  <2> QED
    BY <1>1, <2>2, <2>3, <2>4, <2>5, <2>6, <2>7, <2>8
<1>8. \A i \in DOMAIN r : r[i] \in T \union {t}
  BY <1>2, <1>6
<1>9. ASSUME NEW v \in T \union {t} PROVE \E i \in DOMAIN r : r[i] = v
  <2>1. CASE v = t
    BY <1>4, <2>1
  <2>2. CASE v # t
    <3>1. PICK a \in DOMAIN q : q[a] = v
      BY <2>2 DEF IsQueue
    <3> QED
      BY <1>3, <3>1
  <2> QED
    BY <2>1, <2>2
<1>10. {r[i] : i \in DOMAIN r} = T \union {t}
  BY <1>8, <1>9
<1>11. IsQueue(r, T \union {t})
  BY <1>7, <1>10 DEF IsQueue
<1> QED
  BY <1>5, <1>11 DEF r

\* Removing a task shortens its queue by one and keeps the order.
LEMMA WithoutOrder ==
  ASSUME NEW q \in Seq(Task), NEW T, IsQueue(q, T), NEW t \in T, NEW f
  PROVE  /\ q # << >> /\ Len(q) > 0 /\ Len(Without(q, t)) = Len(q) - 1
         /\ InOrder(q, f) => InOrder(Without(q, t), f)
<1> DEFINE r == Without(q, t)
<1>1. DOMAIN q = 1..Len(q) /\ Len(q) \in Nat
  OBVIOUS
<1>2. PICK k \in DOMAIN q : q[k] = t
  BY DEF IsQueue
<1>3. Len(q) > 0 /\ Len(q) - 1 \in Nat /\ q # << >>
  BY <1>1, <1>2
<1>4. DOMAIN r = 1..(Len(q) - 1) /\ r \in Seq(Task)
  BY WithoutType DEF Without
<1>5. Len(r) = Len(q) - 1
  BY <1>3, <1>4
<1>6. \A j \in DOMAIN q : q[j] = t => j = k
  BY <1>2 DEF IsQueue
<1>7. \A i \in 1..(Len(q) - 1) : (\A j \in 1..i : q[j] # t) <=> i < k
  BY <1>1, <1>2, <1>6
<1>8. \A i \in DOMAIN r : (i < k /\ r[i] = q[i]) \/ (i >= k /\ r[i] = q[i + 1])
  BY <1>1, <1>2, <1>4, <1>7 DEF Without
<1> HIDE DEF r
<1>9. ASSUME InOrder(q, f), NEW i \in DOMAIN r, NEW j \in DOMAIN r, i < j
      PROVE  f[r[i]].pri <= f[r[j]].pri
  <2>1. \A a, b \in DOMAIN q : a < b => f[q[a]].pri <= f[q[b]].pri
    BY <1>9 DEF InOrder
  <2>2. /\ i \in DOMAIN q /\ i + 1 \in DOMAIN q /\ j \in DOMAIN q /\ j + 1 \in DOMAIN q
        /\ i \in Nat /\ j \in Nat /\ k \in Nat
    BY <1>1, <1>2, <1>4
  <2>3. CASE i < k /\ j < k
    <3>1. r[i] = q[i] /\ r[j] = q[j]
      BY <1>8, <2>2, <2>3
    <3> QED
      BY <1>9, <2>1, <2>2, <3>1
  <2>4. CASE i < k /\ j >= k
    <3>1. r[i] = q[i] /\ r[j] = q[j + 1] /\ i < j + 1
      BY <1>8, <1>9, <2>2, <2>4
    <3> QED
      BY <2>1, <2>2, <3>1
  <2>5. CASE i >= k
    <3>1. r[i] = q[i + 1] /\ r[j] = q[j + 1] /\ i + 1 < j + 1
      BY <1>8, <1>9, <2>2, <2>5
    <3> QED
      BY <2>1, <2>2, <3>1
  <2> QED
    BY <2>2, <2>3, <2>4, <2>5
<1>10. InOrder(q, f) => InOrder(r, f)
  BY <1>9 DEF InOrder
<1> QED
  BY <1>3, <1>5, <1>10 DEF r

\* Inserting a task by its priority keeps the order.
LEMMA InsertOrder ==
  ASSUME NEW q \in Seq(Task), NEW T, IsQueue(q, T), NEW t \in Task, t \notin T, NEW f,
         \A v \in Task : f[v].pri \in Int, InOrder(q, f)
  PROVE  /\ IsQueue(InsertTPri(q, t, f), T \union {t})
         /\ Len(InsertTPri(q, t, f)) = Len(q) + 1
         /\ InOrder(InsertTPri(q, t, f), f)
<1>1. PICK k \in 0..Len(q) :
        /\ InsertTPri(q, t, f) = Inserted(q, t, k)
        /\ \A j \in 1..k : f[q[j]].pri <= f[t].pri
        /\ k < Len(q) => ~(f[q[k + 1]].pri <= f[t].pri)
  BY InsertPlace
<1> DEFINE r == Inserted(q, t, k)
<1>2. Len(q) \in Nat /\ DOMAIN q = 1..Len(q) /\ DOMAIN r = 1..(Len(q) + 1) /\ k \in Nat
  BY DEF Inserted
<1>3. \A i \in DOMAIN r : \/ i <= k /\ i \in DOMAIN q /\ r[i] = q[i]
                          \/ i = k + 1 /\ r[i] = t
                          \/ i > k + 1 /\ i - 1 \in DOMAIN q /\ r[i] = q[i - 1]
  BY <1>2 DEF Inserted
<1> HIDE DEF r
<1>4. \A i \in DOMAIN q : q[i] \in Task
  OBVIOUS
<1>5. \A a, b \in DOMAIN q : a < b => f[q[a]].pri <= f[q[b]].pri
  BY DEF InOrder
\* The tasks behind the place have a lower priority than t.
<1>6. ASSUME NEW b \in DOMAIN q, b >= k + 1 PROVE f[t].pri <= f[q[b]].pri
  <2>1. k + 1 \in DOMAIN q /\ k < Len(q) /\ b \in Nat
    BY <1>2, <1>6
  <2>2. f[q[k + 1]].pri \in Int /\ f[q[b]].pri \in Int /\ f[t].pri \in Int
    BY <1>4, <2>1
  <2>3. ~(f[q[k + 1]].pri <= f[t].pri)
    BY <1>1, <2>1
  <2>4. b = k + 1 \/ f[q[k + 1]].pri <= f[q[b]].pri
    BY <1>2, <1>5, <1>6, <2>1
  <2> QED
    BY <2>2, <2>3, <2>4
<1>7. ASSUME NEW i \in DOMAIN r, NEW j \in DOMAIN r, i < j
      PROVE  f[r[i]].pri <= f[r[j]].pri
  <2>1. i \in Nat /\ j \in Nat
    BY <1>2
  <2>2. CASE j <= k
    <3>1. i \in DOMAIN q /\ j \in DOMAIN q /\ r[i] = q[i] /\ r[j] = q[j]
      BY <1>2, <1>3, <1>7, <2>1, <2>2
    <3> QED
      BY <1>5, <1>7, <3>1
  <2>3. CASE j = k + 1
    <3>1. i \in 1..k /\ r[i] = q[i] /\ r[j] = t
      BY <1>2, <1>3, <1>7, <2>1, <2>3
    <3> QED
      BY <1>1, <3>1
  <2>4. CASE j > k + 1 /\ i <= k
    <3>1. i \in DOMAIN q /\ j - 1 \in DOMAIN q /\ r[i] = q[i] /\ r[j] = q[j - 1] /\ i < j - 1
      BY <1>2, <1>3, <2>1, <2>4
    <3> QED
      BY <1>5, <3>1
  <2>5. CASE j > k + 1 /\ i = k + 1
    <3>1. j - 1 \in DOMAIN q /\ r[i] = t /\ r[j] = q[j - 1] /\ j - 1 >= k + 1
      BY <1>2, <1>3, <2>1, <2>5
    <3> QED
      BY <1>6, <3>1
  <2>6. CASE j > k + 1 /\ i > k + 1
    <3>1. /\ i - 1 \in DOMAIN q /\ j - 1 \in DOMAIN q
          /\ r[i] = q[i - 1] /\ r[j] = q[j - 1] /\ i - 1 < j - 1
      BY <1>2, <1>3, <1>7, <2>1, <2>6
    <3> QED
      BY <1>5, <3>1
  <2> QED
    BY <1>2, <1>7, <2>1, <2>2, <2>3, <2>4, <2>5, <2>6
<1>8. InOrder(r, f)
  BY <1>7 DEF InOrder
<1> QED
  BY <1>1, <1>8, InsertedQueue DEF r

\* The order of a queue depends on the priorities of its tasks only.
LEMMA SameOrder ==
  ASSUME NEW q, NEW T, IsQueue(q, T), NEW f, NEW g,
         \A v \in T : g[v].pri = f[v].pri, InOrder(q, f)
  PROVE  InOrder(q, g)
<1>1. \A i \in DOMAIN q : q[i] \in T
  BY DEF IsQueue
<1> QED
  BY <1>1 DEF InOrder

\* The task with the control block b waits in a queue.
InQueue(b) == "OBJ" \in b.tstat

WaitersOf(s, w) == {t \in Task : InQueue(s.tcb[t]) /\ s.tcb[t].wobj = w}

\* Every wait queue holds exactly the tasks that wait for its object, each once
\* and in the order that the object asks for.
WaitsExact(s) ==
  /\ \A t \in Task : InQueue(s.tcb[t]) => s.tcb[t].wobj \in WObj
  /\ \A w \in WObj : IsQueue(s.wque[w], WaitersOf(s, w))
  /\ \A w \in TPriObj : InOrder(s.wque[w], s.tcb)

\* A task waits in the same queue, at the same place, with the control blocks b
\* and c.
SameWait(b, c) ==
  /\ InQueue(c) <=> InQueue(b)
  /\ InQueue(b) => c.wobj = b.wobj /\ (b.wobj \in TPriObj => c.pri = b.pri)

OthersWait(s, z, t) == \A v \in Task \ {t} : SameWait(s.tcb[v], z.tcb[v])

\* What operations do to the wait queues between the states s and z: nothing,
KeepsWaits(s, z) == z.wque = s.wque /\ \A v \in Task : SameWait(s.tcb[v], z.tcb[v])

\* take t out of its queue,
LeavesQueue(s, z, t) ==
  /\ InQueue(s.tcb[t]) /\ ~InQueue(z.tcb[t]) /\ OthersWait(s, z, t)
  /\ z.wque = [s.wque EXCEPT ![s.tcb[t].wobj] = Without(@, t)]

\* move t to the place of its new priority,
MovesInQueue(s, z, t) ==
  LET w == s.tcb[t].wobj
  IN  /\ InQueue(s.tcb[t]) /\ InQueue(z.tcb[t]) /\ OthersWait(s, z, t)
      /\ w \in TPriObj /\ z.tcb[t].wobj = w
      /\ z.wque = [s.wque EXCEPT ![w] = InsertTPri(Without(@, t), t, z.tcb)]

\* or put t into the queue of w.
JoinsQueue(s, z, t, w) ==
  /\ ~InQueue(s.tcb[t]) /\ InQueue(z.tcb[t]) /\ OthersWait(s, z, t)
  /\ z.tcb[t].wobj = w /\ z.tcb[t].pri = s.tcb[t].pri
  /\ z.wque = [s.wque EXCEPT ![w] = WObjInsert(@, w, t, s.tcb)]

\* A queue that an operation does not concern stays exact.
LEMMA OtherQueueExact ==
  ASSUME NEW s, NEW z, WaitsExact(s), NEW w \in WObj, z.wque[w] = s.wque[w],
         \A v \in Task : \/ SameWait(s.tcb[v], z.tcb[v])
                         \/ v \notin WaitersOf(s, w) /\ v \notin WaitersOf(z, w)
  PROVE  /\ IsQueue(z.wque[w], WaitersOf(z, w))
         /\ w \in TPriObj => InOrder(z.wque[w], z.tcb)
<1>1. \A v \in Task : v \in WaitersOf(z, w) <=> v \in WaitersOf(s, w)
  BY DEF WaitersOf, SameWait
<1>2. WaitersOf(z, w) = WaitersOf(s, w)
  BY <1>1 DEF WaitersOf
<1>3. IsQueue(s.wque[w], WaitersOf(s, w))
  BY DEF WaitsExact
<1>4. ASSUME w \in TPriObj PROVE InOrder(z.wque[w], z.tcb)
  <2>1. \A v \in WaitersOf(s, w) : z.tcb[v].pri = s.tcb[v].pri
    BY <1>2, <1>4 DEF WaitersOf, SameWait
  <2>2. InOrder(s.wque[w], s.tcb)
    BY <1>4 DEF WaitsExact
  <2> QED
    BY <1>3, <2>1, <2>2, SameOrder
<1> QED
  BY <1>2, <1>3, <1>4

\* Operations that leave the waits alone.
LEMMA KeepsWaitsExact ==
  ASSUME NEW s, NEW z, WaitsExact(s), KeepsWaits(s, z)
  PROVE  WaitsExact(z)
<1>1. \A w \in WObj : /\ IsQueue(z.wque[w], WaitersOf(z, w))
                      /\ w \in TPriObj => InOrder(z.wque[w], z.tcb)
  BY OtherQueueExact DEF KeepsWaits
<1>2. \A t \in Task : InQueue(z.tcb[t]) => z.tcb[t].wobj \in WObj
  BY DEF WaitsExact, KeepsWaits, SameWait
<1> QED
  BY <1>1, <1>2, KernelAssumption DEF WaitsExact

\* A task leaves its queue, which was not empty.
LEMMA LeavesQueueExact ==
  ASSUME NEW s, NEW z, WellTyped(s), WaitsExact(s), NEW t \in Task, LeavesQueue(s, z, t)
  PROVE  LET w == s.tcb[t].wobj
         IN  /\ WaitsExact(z) /\ w \in WObj /\ s.wque[w] # << >>
             /\ Len(z.wque[w]) = Len(s.wque[w]) - 1
             /\ \A x \in WObj \ {w} : z.wque[x] = s.wque[x]
<1> DEFINE w == s.tcb[t].wobj
           q == s.wque[w]
<1>1. w \in WObj /\ InQueue(s.tcb[t]) /\ ~InQueue(z.tcb[t])
  BY DEF WaitsExact, LeavesQueue
<1>2. s.wque \in [WObj -> Seq(Task)] /\ q \in Seq(Task)
  BY <1>1 DEF WellTyped, KState
<1>3. z.wque[w] = Without(q, t) /\ \A x \in WObj \ {w} : z.wque[x] = s.wque[x]
  BY <1>1, <1>2 DEF LeavesQueue
<1>4. \A v \in Task \ {t} : SameWait(s.tcb[v], z.tcb[v])
  BY DEF LeavesQueue, OthersWait
<1>5. t \in WaitersOf(s, w) /\ IsQueue(q, WaitersOf(s, w))
  BY <1>1 DEF WaitersOf, WaitsExact
<1>6. WaitersOf(z, w) = WaitersOf(s, w) \ {t}
  <2>1. \A v \in Task : v \in WaitersOf(z, w) <=> v \in WaitersOf(s, w) \ {t}
    BY <1>1, <1>4 DEF WaitersOf, SameWait
  <2> QED
    BY <2>1 DEF WaitersOf
<1> HIDE DEF w
<1>7. /\ IsQueue(z.wque[w], WaitersOf(z, w))
      /\ q # << >> /\ Len(z.wque[w]) = Len(q) - 1
  <2> HIDE DEF q
  <2>1. IsQueue(Without(q, t), WaitersOf(s, w) \ {t})
    BY <1>2, <1>5, WithoutQueue
  <2>2. q # << >> /\ Len(Without(q, t)) = Len(q) - 1
    BY <1>2, <1>5, WithoutOrder
  <2> QED
    BY <1>3, <1>6, <2>1, <2>2
<1>8. ASSUME w \in TPriObj PROVE InOrder(z.wque[w], z.tcb)
  <2>1. InOrder(z.wque[w], s.tcb)
    BY <1>2, <1>3, <1>5, <1>8, WithoutOrder DEF WaitsExact
  <2>2. \A v \in WaitersOf(z, w) : z.tcb[v].pri = s.tcb[v].pri
    BY <1>4, <1>6, <1>8 DEF WaitersOf, SameWait
  <2> QED
    BY <1>7, <2>1, <2>2, SameOrder
<1>9. \A x \in WObj \ {w} : /\ IsQueue(z.wque[x], WaitersOf(z, x))
                            /\ x \in TPriObj => InOrder(z.wque[x], z.tcb)
  <2>1. \A x \in WObj \ {w} : t \notin WaitersOf(s, x) /\ t \notin WaitersOf(z, x)
    BY <1>1 DEF WaitersOf, w
  <2> QED
    BY <1>3, <1>4, <2>1, OtherQueueExact
<1>10. \A v \in Task : InQueue(z.tcb[v]) => z.tcb[v].wobj \in WObj
  BY <1>1, <1>4 DEF WaitsExact, SameWait
<1>11. WaitsExact(z)
  BY <1>7, <1>8, <1>9, <1>10, KernelAssumption DEF WaitsExact
<1> QED
  BY <1>1, <1>3, <1>7, <1>11 DEF w

\* A task moves inside its queue, whose length stays.
LEMMA MovesInQueueExact ==
  ASSUME NEW s, NEW z, WellTyped(s), WellTyped(z), WaitsExact(s), NEW t \in Task,
         MovesInQueue(s, z, t)
  PROVE  WaitsExact(z) /\ \A x \in WObj : Len(z.wque[x]) = Len(s.wque[x])
<1> DEFINE w == s.tcb[t].wobj
           q == s.wque[w]
           r == Without(q, t)
<1>1. w \in WObj /\ w \in TPriObj /\ InQueue(s.tcb[t]) /\ InQueue(z.tcb[t]) /\ z.tcb[t].wobj = w
  BY DEF WaitsExact, MovesInQueue
<1>2. s.wque \in [WObj -> Seq(Task)] /\ q \in Seq(Task) /\ r \in Seq(Task)
  <2>1. s.wque \in [WObj -> Seq(Task)] /\ q \in Seq(Task)
    BY <1>1 DEF WellTyped, KState
  <2> QED
    BY <2>1, WithoutType
<1>3. z.wque[w] = InsertTPri(r, t, z.tcb) /\ \A x \in WObj \ {w} : z.wque[x] = s.wque[x]
  BY <1>1, <1>2 DEF MovesInQueue
<1>4. \A v \in Task \ {t} : SameWait(s.tcb[v], z.tcb[v])
  BY DEF MovesInQueue, OthersWait
<1>5. t \in WaitersOf(s, w) /\ IsQueue(q, WaitersOf(s, w)) /\ InOrder(q, s.tcb)
  BY <1>1 DEF WaitersOf, WaitsExact
<1>6. WaitersOf(z, w) = WaitersOf(s, w)
  <2>1. \A v \in Task : v \in WaitersOf(z, w) <=> v \in WaitersOf(s, w)
    BY <1>1, <1>4 DEF WaitersOf, SameWait
  <2> QED
    BY <2>1 DEF WaitersOf
<1>7. \A v \in Task : z.tcb[v].pri \in Int
  BY KernelAssumption DEF WellTyped, KState, TCB, Pri
<1> HIDE DEF w
<1>8. /\ IsQueue(r, WaitersOf(s, w) \ {t}) /\ InOrder(r, s.tcb)
      /\ Len(r) = Len(q) - 1 /\ Len(q) \in Nat
  BY <1>2, <1>5, WithoutQueue, WithoutOrder
<1>9. InOrder(r, z.tcb)
  <2>1. \A v \in WaitersOf(s, w) \ {t} : z.tcb[v].pri = s.tcb[v].pri
    BY <1>1, <1>4 DEF WaitersOf, SameWait
  <2> QED
    BY <1>8, <2>1, SameOrder
<1> HIDE DEF r
<1>10. /\ IsQueue(z.wque[w], (WaitersOf(s, w) \ {t}) \union {t})
       /\ Len(z.wque[w]) = Len(r) + 1 /\ InOrder(z.wque[w], z.tcb)
  <2> DEFINE T == WaitersOf(s, w) \ {t}
             f == z.tcb
  <2>1. r \in Seq(Task) /\ IsQueue(r, T) /\ t \notin T /\ InOrder(r, f) /\ t \in Task
    BY <1>2, <1>8, <1>9
  <2>2. \A v \in Task : f[v].pri \in Int
    BY <1>7
  <2>3. z.wque[w] = InsertTPri(r, t, f)
    BY <1>3
  <2> HIDE DEF T, f
  <2>4. /\ IsQueue(InsertTPri(r, t, f), T \union {t})
        /\ Len(InsertTPri(r, t, f)) = Len(r) + 1
        /\ InOrder(InsertTPri(r, t, f), f)
    BY ONLY <2>1, <2>2, InsertOrder
  <2> QED
    BY <2>3, <2>4 DEF T, f
<1>11. (WaitersOf(s, w) \ {t}) \union {t} = WaitersOf(z, w)
  BY <1>5, <1>6
<1>12. \A x \in WObj \ {w} : /\ IsQueue(z.wque[x], WaitersOf(z, x))
                             /\ x \in TPriObj => InOrder(z.wque[x], z.tcb)
  <2>1. \A x \in WObj \ {w} : t \notin WaitersOf(s, x) /\ t \notin WaitersOf(z, x)
    BY <1>1 DEF WaitersOf, w
  <2> QED
    BY <1>3, <1>4, <2>1, OtherQueueExact
<1>13. \A v \in Task : InQueue(z.tcb[v]) => z.tcb[v].wobj \in WObj
  BY <1>1, <1>4 DEF WaitsExact, SameWait
<1>14. WaitsExact(z)
  BY <1>10, <1>11, <1>12, <1>13, KernelAssumption DEF WaitsExact
<1>15. \A x \in WObj : Len(z.wque[x]) = Len(s.wque[x])
  BY <1>3, <1>8, <1>10
<1> QED
  BY <1>14, <1>15

\* A task joins a queue.
LEMMA JoinsQueueExact ==
  ASSUME NEW s, NEW z, WellTyped(s), WaitsExact(s), NEW t \in Task, NEW w \in WObj,
         JoinsQueue(s, z, t, w)
  PROVE  /\ WaitsExact(z) /\ Len(z.wque[w]) = Len(s.wque[w]) + 1
         /\ \A x \in WObj \ {w} : z.wque[x] = s.wque[x]
<1> DEFINE q == s.wque[w]
<1>1. ~InQueue(s.tcb[t]) /\ InQueue(z.tcb[t]) /\ z.tcb[t].wobj = w
  BY DEF JoinsQueue
<1>2. s.wque \in [WObj -> Seq(Task)] /\ q \in Seq(Task)
  BY DEF WellTyped, KState
<1>3. z.wque[w] = WObjInsert(q, w, t, s.tcb) /\ \A x \in WObj \ {w} : z.wque[x] = s.wque[x]
  BY <1>2 DEF JoinsQueue
<1>4. \A v \in Task \ {t} : SameWait(s.tcb[v], z.tcb[v])
  BY DEF JoinsQueue, OthersWait
<1>5. t \notin WaitersOf(s, w) /\ IsQueue(q, WaitersOf(s, w))
  BY <1>1 DEF WaitersOf, WaitsExact
<1>6. WaitersOf(z, w) = WaitersOf(s, w) \union {t}
  <2>1. \A v \in Task : v \in WaitersOf(z, w) <=> v \in WaitersOf(s, w) \union {t}
    BY <1>1, <1>4 DEF WaitersOf, SameWait
  <2> QED
    BY <2>1 DEF WaitersOf
<1>7. \A v \in Task : s.tcb[v].pri \in Int
  BY KernelAssumption DEF WellTyped, KState, TCB, Pri
<1>8. /\ IsQueue(z.wque[w], WaitersOf(z, w)) /\ Len(z.wque[w]) = Len(q) + 1
      /\ w \in TPriObj => InOrder(z.wque[w], z.tcb)
  <2> DEFINE T == WaitersOf(s, w)
             f == s.tcb
  <2>1. q \in Seq(Task) /\ IsQueue(q, T) /\ t \notin T /\ WaitersOf(z, w) = T \union {t}
    BY <1>2, <1>5, <1>6
  <2>2. \A v \in Task : f[v].pri \in Int
    BY <1>7
  <2>3. z.wque[w] = IF w \in TPriObj THEN InsertTPri(q, t, f) ELSE Append(q, t)
    BY <1>3 DEF WObjInsert
  <2>4. w \in TPriObj => InOrder(q, f)
    BY DEF WaitsExact
  <2>5. w \in TPriObj => \A v \in WaitersOf(z, w) : z.tcb[v].pri = f[v].pri
    BY <1>4 DEF WaitersOf, SameWait, JoinsQueue
  <2> HIDE DEF q, T, f
  <2>6. ASSUME w \notin TPriObj
        PROVE  IsQueue(z.wque[w], T \union {t}) /\ Len(z.wque[w]) = Len(q) + 1
    <3>1. IsQueue(Append(q, t), T \union {t}) /\ Len(Append(q, t)) = Len(q) + 1
      BY <2>1, AppendQueue
    <3> QED
      BY <2>3, <2>6, <3>1
  <2>7. ASSUME w \in TPriObj
        PROVE  /\ IsQueue(z.wque[w], T \union {t}) /\ Len(z.wque[w]) = Len(q) + 1
               /\ InOrder(z.wque[w], z.tcb)
    <3>1. /\ IsQueue(InsertTPri(q, t, f), T \union {t})
          /\ Len(InsertTPri(q, t, f)) = Len(q) + 1
          /\ InOrder(InsertTPri(q, t, f), f)
      BY <2>1, <2>2, <2>4, <2>7, InsertOrder
    <3>2. InOrder(z.wque[w], f) /\ IsQueue(z.wque[w], T \union {t})
      BY <2>3, <2>7, <3>1
    <3>3. InOrder(z.wque[w], z.tcb)
      BY <2>1, <2>5, <2>7, <3>2, SameOrder
    <3> QED
      BY <2>3, <2>7, <3>1, <3>2, <3>3
  <2> QED
    BY <2>1, <2>6, <2>7
<1>9. \A x \in WObj \ {w} : /\ IsQueue(z.wque[x], WaitersOf(z, x))
                            /\ x \in TPriObj => InOrder(z.wque[x], z.tcb)
  <2>1. \A x \in WObj \ {w} : t \notin WaitersOf(s, x) /\ t \notin WaitersOf(z, x)
    BY <1>1 DEF WaitersOf
  <2> QED
    BY <1>3, <1>4, <2>1, OtherQueueExact
<1>10. \A v \in Task : InQueue(z.tcb[v]) => z.tcb[v].wobj \in WObj
  BY <1>1, <1>4 DEF WaitsExact, SameWait
<1>11. WaitsExact(z)
  BY <1>8, <1>9, <1>10, KernelAssumption DEF WaitsExact
<1> QED
  BY <1>3, <1>8, <1>11

-----------------------------------------------------------------------------
(* What the internal operations do to the wait queues. *)

\* s is a record that has task control blocks and wait queues.
HasWaits(s) == {"tcb", "wque"} \subseteq DOMAIN s

\* The operations of the ready queues concern neither.
SameWaits(s, z) == HasWaits(z) /\ z.tcb = s.tcb /\ z.wque = s.wque

\* The operations of the ready queues leave the control blocks and the wait queues alone.
LEMMA SchedulingFrame ==
  ASSUME NEW s, HasWaits(s)
  PROVE  /\ \A u, t : SameWaits(s, SetPredtsk(s, u, t))
         /\ \A t : SameWaits(s, MakeRunnable(s, t))
         /\ \A t : SameWaits(s, MakeNonRunnable(s, t))
         /\ \A p, u : SameWaits(s, RotateReadyQueue(s, p, u))
         /\ SameWaits(s, UpdateSchedtsk(s))
<1>1. \A z : HasWaits(z) => SameWaits(z, UpdateSchedtsk(z))
  BY DEF HasWaits, SameWaits, UpdateSchedtsk
<1>2. \A z, u, t : HasWaits(z) => SameWaits(z, SetPredtsk(z, u, t))
  <2> SUFFICES ASSUME NEW z, NEW u, NEW t, HasWaits(z) PROVE SameWaits(z, SetPredtsk(z, u, t))
    OBVIOUS
  <2> DEFINE y == [z EXCEPT !.predtsk[u] = t]
  <2>1. SameWaits(z, y)
    BY DEF HasWaits, SameWaits
  <2> HIDE DEF y
  <2>2. SameWaits(z, UpdateIfDsp(y))
    BY <1>1, <2>1 DEF SameWaits, UpdateIfDsp
  <2> QED
    BY <2>2 DEF SetPredtsk, y
<1>3. \A z, y, x : SameWaits(z, y) /\ SameWaits(y, x) => SameWaits(z, x)
  BY DEF SameWaits
<1>4. SameWaits(s, s)
  BY DEF SameWaits
<1>5. ASSUME NEW t PROVE SameWaits(s, MakeRunnable(s, t))
  <2> DEFINE u == UnitOf[t]
             p == s.tcb[t].pri
             y == [s EXCEPT !.ready[u][p] = Append(@, t), !.primap[u] = @ \union {p}]
  <2>1. SameWaits(s, y)
    BY DEF HasWaits, SameWaits
  <2>2. MakeRunnable(s, t) \in {y, SetPredtsk(y, u, t)}
    BY DEF MakeRunnable
  <2> HIDE DEF y, u
  <2>3. SameWaits(y, SetPredtsk(y, u, t))
    BY <1>2, <2>1 DEF SameWaits
  <2> QED
    BY <1>3, <2>1, <2>2, <2>3
<1>6. ASSUME NEW t PROVE SameWaits(s, MakeNonRunnable(s, t))
  <2> DEFINE u == UnitOf[t]
             p == s.tcb[t].pri
             q == Without(s.ready[u][p], t)
             y == [s EXCEPT !.ready[u][p] = q,
                            !.primap[u] = IF q = << >> THEN @ \ {p} ELSE @]
  <2>1. SameWaits(s, y)
    BY DEF HasWaits, SameWaits
  <2>2. MakeNonRunnable(s, t) \in {y, SetPredtsk(y, u, Head(q)), SetPredtsk(y, u, NULL),
                                   SetPredtsk(y, u, SearchPredtsk(y, u))}
    BY DEF MakeNonRunnable
  <2> HIDE DEF y, u, q
  <2>3. \A v : SameWaits(y, SetPredtsk(y, u, v))
    BY <1>2, <2>1 DEF SameWaits
  <2> QED
    BY <1>3, <2>1, <2>2, <2>3
<1>7. ASSUME NEW p, NEW u PROVE SameWaits(s, RotateReadyQueue(s, p, u))
  <2> DEFINE q == s.ready[u][p]
             r == Append(Tail(q), Head(q))
             y == [s EXCEPT !.ready[u][p] = r]
  <2>1. SameWaits(s, y)
    BY DEF HasWaits, SameWaits
  <2>2. RotateReadyQueue(s, p, u) \in {s, y, SetPredtsk(y, u, Head(r))}
    BY DEF RotateReadyQueue
  <2> HIDE DEF y, r
  <2>3. SameWaits(y, SetPredtsk(y, u, Head(r)))
    BY <1>2, <2>1 DEF SameWaits
  <2> QED
    BY <1>3, <1>4, <2>1, <2>2, <2>3
<1> QED
  BY <1>1, <1>2, <1>5, <1>6, <1>7

\* The wait queues without t, if it is in one of them.
Dequeued(s, t) ==
  IF InQueue(s.tcb[t]) THEN [s.wque EXCEPT ![s.tcb[t].wobj] = Without(@, t)] ELSE s.wque

KeepsWque(s, z) == HasWaits(z) /\ z.wque = s.wque

\* Nor do the other changes of the state of a task concern the wait queues.
LEMMA StateFrame ==
  ASSUME NEW s, HasWaits(s), NEW t
  PROVE  /\ KeepsWque(s, MakeActive(s, t))
         /\ KeepsWque(s, MakeNonWait(s, t))
         /\ KeepsWque(s, WaitComplete(s, t))
         /\ \A flag, timed : KeepsWque(s, MakeWaitTmout(s, flag, timed))
         /\ KeepsWque(s, BecomeDormant(s, t))
<1>1. \A z, m : KeepsWque(s, z) => KeepsWque(s, [z EXCEPT !.tcb = m])
  BY DEF HasWaits, KeepsWque
<1>2. \A z, m : KeepsWque(s, z) => KeepsWque(s, [z EXCEPT !.tmevt = m])
  BY DEF HasWaits, KeepsWque
<1>3. \A z, v : KeepsWque(s, z) => /\ KeepsWque(s, MakeRunnable(z, v))
                                   /\ KeepsWque(s, MakeNonRunnable(z, v))
  BY SchedulingFrame DEF KeepsWque, SameWaits
<1>4. \A z, b : KeepsWque(s, z) => KeepsWque(s, [z EXCEPT !.tcb[t] = b])
  BY <1>1
<1>5. \A z, b : KeepsWque(s, z) => KeepsWque(s, [z EXCEPT !.tcb[t].tstat = b])
  BY <1>1
<1>6. \A z : KeepsWque(s, z) => /\ KeepsWque(s, MakeActive(z, t))
                                /\ KeepsWque(s, MakeNonWait(z, t))
  BY <1>3, <1>5 DEF MakeActive, MakeNonWait
<1>7. KeepsWque(s, s)
  BY DEF KeepsWque
<1>8. KeepsWque(s, WaitComplete(s, t))
  <2>1. KeepsWque(s, [s EXCEPT !.tcb[t].wobj = NULL])
    BY <1>1, <1>7
  <2> QED
    BY <1>2, <1>6, <2>1 DEF WaitComplete, WaitDequeueTmevtb
<1>9. ASSUME NEW flag, NEW timed PROVE KeepsWque(s, MakeWaitTmout(s, flag, timed))
  <2>1. KeepsWque(s, [s EXCEPT !.tcb[s.runtsk].tstat = {flag}])
    BY <1>1, <1>7
  <2>2. KeepsWque(s, MakeWait(s, flag))
    BY <1>3, <2>1 DEF MakeWait
  <2> QED
    BY <1>2, <2>2 DEF MakeWaitTmout
<1>10. KeepsWque(s, BecomeDormant(s, t))
  <2>1. KeepsWque(s, MakeDormant(s, t))
    BY <1>1, <1>7 DEF MakeDormant
  <2>2. KeepsWque(s, [MakeDormant(s, t) EXCEPT !.tcb[t].actque = FALSE])
    BY <1>1, <2>1
  <2> QED
    BY <1>6, <2>1, <2>2 DEF BecomeDormant
<1> QED
  BY <1>6, <1>7, <1>8, <1>9, <1>10

\* A task that is released or terminated leaves its queue.
LEMMA DequeueFrame ==
  ASSUME NEW s, HasWaits(s), NEW t, InQueue(s.tcb[t]) => ~IsRunnable(s.tcb[t].tstat)
  PROVE  LET d == WaitDequeueTmevtb(WaitDequeueWObj(s, t), t)
         IN  /\ HasWaits(d) /\ d.wque = Dequeued(s, t)
             /\ MakeNonWait(d, t).wque = Dequeued(s, t)
             /\ WaitTmout(s, t).wque = Dequeued(s, t)
             /\ TaskTerminate(s, t).wque = Dequeued(s, t)
<1> DEFINE d == WaitDequeueTmevtb(WaitDequeueWObj(s, t), t)
           e == WaitDequeueWObj(WaitDequeueTmevtb(s, t), t)
           f == LeaveQueues(s, t)
<1>1. \A z : HasWaits(z) => SameWaits(z, WaitDequeueTmevtb(z, t))
  BY DEF HasWaits, SameWaits, WaitDequeueTmevtb
<1>2. \A z : HasWaits(z) => LET y == WaitDequeueWObj(z, t)
                            IN  HasWaits(y) /\ y.wque = Dequeued(z, t)
  BY DEF HasWaits, WaitDequeueWObj, Dequeued, InQueue
<1>3. HasWaits(d) /\ d.wque = Dequeued(s, t)
  BY <1>1, <1>2 DEF SameWaits
<1>4. HasWaits(e) /\ e.wque = Dequeued(s, t)
  BY <1>1, <1>2 DEF SameWaits, Dequeued
<1>5. HasWaits(f) /\ f.wque = Dequeued(s, t)
  <2>1. CASE IsRunnable(s.tcb[t].tstat)
    <3>1. f = MakeNonRunnable(s, t) /\ Dequeued(s, t) = s.wque
      BY <2>1 DEF LeaveQueues, Dequeued
    <3> QED
      BY <3>1, SchedulingFrame DEF SameWaits
  <2>2. CASE ~IsRunnable(s.tcb[t].tstat) /\ IsWaiting(s.tcb[t].tstat)
    BY <1>3, <2>2 DEF LeaveQueues
  <2>3. CASE ~IsRunnable(s.tcb[t].tstat) /\ ~IsWaiting(s.tcb[t].tstat)
    BY <2>3 DEF LeaveQueues, Dequeued, InQueue, IsWaiting, WaitFlag
  <2> QED
    BY <2>1, <2>2, <2>3
<1> HIDE DEF d, e, f
<1>6. /\ KeepsWque(d, MakeNonWait(d, t)) /\ KeepsWque(e, MakeNonWait(e, t))
      /\ KeepsWque(f, BecomeDormant(f, t))
  BY <1>3, <1>4, <1>5, StateFrame
<1> QED
  BY <1>3, <1>4, <1>5, <1>6 DEF KeepsWque, WaitTmout, TaskTerminate, d, e, f

\* The wait queues with t, if it waits in priority order, at the place of its
\* priority in f.
Reordered(s, t, f) ==
  LET w == s.tcb[t].wobj
  IN  IF InQueue(s.tcb[t]) /\ w \in TPriObj
      THEN [s.wque EXCEPT ![w] = InsertTPri(Without(@, t), t, f)]
      ELSE s.wque

\* A change of priority moves a waiting task in a queue in task priority order.
LEMMA PriorityFrame ==
  ASSUME NEW s, HasWaits(s), NEW t, NEW p, NEW mode \in BOOLEAN,
         InQueue(s.tcb[t]) => ~IsRunnable(s.tcb[t].tstat)
  PROVE  LET z == ChangePriority(s, t, p, mode)
         IN  z.wque = Reordered(s, t, z.tcb)
<1> DEFINE z  == ChangePriority(s, t, p, mode)
           w  == s.tcb[t].wobj
           u  == UnitOf[t]
           s1 == [s EXCEPT !.tcb[t].pri = p]
           s2 == Requeue(s1, t, s.tcb[t].pri, p, mode)
<1>1. HasWaits(s1) /\ s1.wque = s.wque
  BY DEF HasWaits
<1>2. s1.tcb[t].wobj = w
  BY DEF HasWaits
<1>3. CASE IsRunnable(s.tcb[t].tstat)
  <2>1. KeepsWque(s, s2)
    BY <1>1 DEF Requeue, HasWaits, KeepsWque
  <2>2. z \in {s2, SetPredtsk(s2, u, t), SetPredtsk(s2, u, SearchPredtsk(s2, u))}
    BY <1>3 DEF ChangePriority
  <2> HIDE DEF s2, z
  <2>3. \A v : KeepsWque(s, SetPredtsk(s2, u, v))
    BY <2>1, SchedulingFrame DEF KeepsWque, SameWaits
  <2>4. z.wque = s.wque
    BY <2>1, <2>2, <2>3 DEF KeepsWque
  <2> QED
    BY <1>3, <2>4 DEF z, Reordered
<1>4. CASE ~IsRunnable(s.tcb[t].tstat) /\ InQueue(s.tcb[t])
  <2>1. z = WObjChangePriority(s1, t)
    BY <1>4 DEF ChangePriority, InQueue
  <2> HIDE DEF s1, z
  <2>2. w \in TPriObj => /\ z.tcb = s1.tcb
                         /\ z.wque = [s1.wque EXCEPT ![w] = InsertTPri(Without(@, t), t, s1.tcb)]
    BY <1>1, <1>2, <2>1 DEF WObjChangePriority, HasWaits
  <2>3. w \notin TPriObj => z = s1
    BY <1>2, <2>1 DEF WObjChangePriority
  <2> QED
    BY <1>1, <1>4, <2>2, <2>3 DEF z, Reordered
<1>5. CASE ~IsRunnable(s.tcb[t].tstat) /\ ~InQueue(s.tcb[t])
  <2>1. z = s1
    BY <1>5 DEF ChangePriority, InQueue
  <2> QED
    BY <1>1, <1>5, <2>1 DEF Reordered
<1> QED
  BY <1>3, <1>4, <1>5
===============================================================================
