---------------------------- MODULE ObjectProofs ----------------------------
(***************************************************************************)
(* Semaphores keep their units, event flags forget no waiter and mutexes   *)
(* keep their owners and the owners' priorities, whatever takes tasks out  *)
(* of their queues or ends them, for any number of tasks, priorities and   *)
(* objects.                                                                *)
(***************************************************************************)
EXTENDS Semaphore, EventFlag, Mutex, TaskKernelProofs, FiniteSetTheorems

-----------------------------------------------------------------------------
(* What a step may do to the wait queues. *)

\* The queues keep their lengths.
SameLengths == \A x \in WObj : Len(wque'[x]) = Len(wque[x])

\* One task leaves the queue of w, and no other queue changes.
OneLess(w) ==
  /\ wque[w] # << >> /\ Len(wque'[w]) = Len(wque[w]) - 1
  /\ \A x \in WObj \ {w} : wque'[x] = wque[x]

\* A call of the core keeps the wait queues exact; it may shorten one of them.
LEMMA CallLengths ==
  ASSUME WellTyped(K), WellTyped(K)', WaitsExact(K), WaitStep
  PROVE  WaitsExact(K') /\ (SameLengths \/ \E w \in WObj : OneLess(w))
<1>1. WellTyped(K') /\ K.wque = wque /\ K'.wque = wque'
  BY WaitFields
<1>2. CASE KeepsWaits(K, K')
  BY <1>1, <1>2, KeepsWaitsExact DEF KeepsWaits, SameLengths
<1>3. ASSUME NEW t \in Task, LeavesQueue(K, K', t)
      PROVE  WaitsExact(K') /\ \E w \in WObj : OneLess(w)
  <2> DEFINE w == K.tcb[t].wobj
  <2>1. /\ WaitsExact(K') /\ w \in WObj /\ K.wque[w] # << >>
        /\ Len(K'.wque[w]) = Len(K.wque[w]) - 1
        /\ \A x \in WObj \ {w} : K'.wque[x] = K.wque[x]
    BY <1>1, <1>3, LeavesQueueExact
  <2> HIDE DEF w
  <2> QED
    BY <1>1, <2>1 DEF OneLess
<1>4. ASSUME NEW t \in Task, MovesInQueue(K, K', t)
      PROVE  WaitsExact(K') /\ SameLengths
  BY <1>1, <1>4, MovesInQueueExact DEF SameLengths
<1> QED
  BY <1>2, <1>3, <1>4 DEF WaitStep

-----------------------------------------------------------------------------
(* The initial states. *)

\* Nobody waits at first.
LEMMA InitWaits == Init => WaitsExact(K) /\ \A w \in WObj : wque[w] = << >>
<1> SUFFICES ASSUME Init PROVE WaitsExact(K) /\ \A w \in WObj : wque[w] = << >>
  OBVIOUS
<1>1. HasWaits(InitK) /\ InitK.wque = [w \in WObj |-> << >>]
  BY DEF HasWaits, InitK
<1> DEFINE s == MakeActive(InitK, Main)
<1>2. HasWaits(s) /\ s.wque = [w \in WObj |-> << >>]
  <2>1. KeepsWque(InitK, s)
    BY <1>1, StateFrame
  <2> QED
    BY <1>1, <2>1 DEF KeepsWque
<1>3. s.tcb = [InitK.tcb EXCEPT ![Main].tstat = {"RUNNABLE"}]
  <2>1. HasWaits([InitK EXCEPT !.tcb[Main].tstat = {"RUNNABLE"}])
    BY DEF HasWaits, InitK
  <2>2. s.tcb = [InitK EXCEPT !.tcb[Main].tstat = {"RUNNABLE"}].tcb
    BY <2>1, SchedulingFrame DEF MakeActive, SameWaits
  <2> QED
    BY <2>2 DEF InitK
<1>4. wque = s.wque /\ tcb = s.tcb
  <2>1. Dispatch(s).tcb = s.tcb /\ Dispatch(s).wque = s.wque
    BY <1>2 DEF HasWaits, Dispatch
  <2> QED
    BY <2>1 DEF Init, StartK
<1>5. \A t \in Task : tcb[t].tstat = {} \/ tcb[t].tstat = {"RUNNABLE"}
  <2>1. InitK.tcb = [t \in Task |-> InitTCB(t)]
    BY DEF InitK
  <2>2. \A t \in Task : InitTCB(t).tstat = {}
    BY DEF InitTCB
  <2> HIDE DEF s
  <2>3. ASSUME NEW t \in Task PROVE tcb[t].tstat = {} \/ tcb[t].tstat = {"RUNNABLE"}
    <3>1. CASE t = Main
      BY <1>3, <1>4, <2>1, <3>1 DEF InitTCB
    <3>2. CASE t # Main
      BY <1>3, <1>4, <2>1, <2>2, <3>2
    <3> QED
      BY <3>1, <3>2
  <2> QED
    BY <2>3
<1>6. \A t \in Task : ~InQueue(K.tcb[t])
  BY <1>5, WaitFields DEF InQueue
<1>7. \A w \in WObj : K.wque[w] = << >> /\ WaitersOf(K, w) = {}
  BY <1>2, <1>4, <1>6, WaitFields DEF WaitersOf
<1>8. WaitsExact(K)
  BY <1>6, <1>7, KernelAssumption DEF WaitsExact, IsQueue, InOrder
<1> QED
  BY <1>7, <1>8, WaitFields

-----------------------------------------------------------------------------
(* The kernel under its objects: wait queues are exact, and what the calls of *)
(* the objects do to them.                                                    *)

WaitInv == FullInv /\ WaitsExact(K)

\* The initial states.
LEMMA InitWaitInv == Init => WaitInv /\ \A w \in WObj : wque[w] = << >>
BY InitOK, InitExact, InitWaits DEF WaitInv, FullInv

\* The types that the objects need.
LEMMA QueueTypes ==
  ASSUME WaitInv
  PROVE  /\ wque \in [WObj -> Seq(Task)] /\ K.wque = wque /\ K'.wque = wque'
         /\ tcb \in [Task -> TCB] /\ K.tcb = tcb /\ K'.tcb = tcb'
         /\ IInv /\ SInv /\ SchedtskExact(K) /\ WellTyped(K) /\ WaitsExact(K) /\ Releases(K)
<1>1. IInv /\ SInv /\ SchedtskExact(K) /\ WellTyped(K) /\ WaitsExact(K)
  BY DEF WaitInv, FullInv, IInv
<1> QED
  BY <1>1, NoReleases, WaitFields DEF WellTyped, KState

\* They hold after a step as well.
LEMMA QueueTypesNext ==
  ASSUME WaitInv'
  PROVE  wque' \in [WObj -> Seq(Task)] /\ tcb' \in [Task -> TCB] /\ WaitsExact(K')
BY WaitFields DEF WaitInv, FullInv, IInv, WellTyped, KState

\* The range of a queue is the set of those who wait.
LEMMA RangeIsWaiters ==
  ASSUME NEW s, WaitsExact(s), NEW w \in WObj
  PROVE  Range(s.wque[w]) = WaitersOf(s, w)
BY DEF WaitsExact, IsQueue, Range

\* A call of the core: tasks only leave queues, or none of them changes.
LEMMA CoreWaits ==
  ASSUME WaitInv, [Next]_vars
  PROVE  /\ WaitInv' /\ (SameLengths \/ \E w \in WObj : OneLess(w))
         /\ \A w \in WObj : WaitersOf(K', w) \subseteq WaitersOf(K, w)
<1>1. FullInv'
  BY NextOK, NextExact DEF WaitInv, FullInv, SStep
<1>2. WaitStep
  BY NextWaits DEF WaitInv, FullInv
<1>3. WaitsExact(K') /\ (SameLengths \/ \E w \in WObj : OneLess(w))
  BY <1>1, <1>2, CallLengths DEF WaitInv, FullInv, IInv
<1>4. ASSUME NEW w \in WObj, NEW v \in WaitersOf(K', w) PROVE v \in WaitersOf(K, w)
  <2>1. v \in Task /\ InQueue(K'.tcb[v]) /\ K'.tcb[v].wobj = w
    BY <1>4 DEF WaitersOf
  <2>2. CASE SameWait(K.tcb[v], K'.tcb[v])
    BY <2>1, <2>2 DEF SameWait, WaitersOf
  <2>3. ASSUME NEW t \in Task, LeavesQueue(K, K', t) PROVE v \in WaitersOf(K, w)
    BY <2>1, <2>2, <2>3 DEF LeavesQueue, OthersWait
  <2>4. ASSUME NEW t \in Task, MovesInQueue(K, K', t) PROVE v \in WaitersOf(K, w)
    BY <2>1, <2>2, <2>4 DEF MovesInQueue, OthersWait, WaitersOf
  <2> QED
    BY <1>2, <2>1, <2>2, <2>3, <2>4 DEF WaitStep, KeepsWaits
<1> QED
  BY <1>1, <1>3, <1>4 DEF WaitInv

\* A call that leaves the core alone.
LEMMA CoreUnchanged ==
  ASSUME WaitInv, UNCHANGED vars
  PROVE  WaitInv' /\ wque' = wque
BY CoreWaits DEF vars, kvars

\* A call that releases the first waiter of w.
LEMMA FirstLeaves ==
  ASSUME WaitInv, NEW w \in WObj, wque[w] # << >>,
         Return(WaitComplete([K EXCEPT !.wque[w] = Tail(@)], Head(wque[w])))
  PROVE  /\ WaitInv' /\ wque' = [wque EXCEPT ![w] = Tail(@)] /\ OneLess(w)
         /\ Head(wque[w]) \in WaitersOf(K, w)
<1>1. /\ wque \in [WObj -> Seq(Task)] /\ K.wque = wque
      /\ IInv /\ SInv /\ SchedtskExact(K) /\ Releases(K)
  BY QueueTypes
<1> DEFINE z == FirstReleased(K, w, Head(K.wque[w]))
<1>2. Return(z)
  BY <1>1 DEF FirstReleased
<1>3. Releases(z) /\ z.wque = [K.wque EXCEPT ![w] = Tail(@)] /\ Head(wque[w]) \in WaitersOf(K, w)
  BY <1>1, FirstReleasedOK
<1> HIDE DEF z
<1>4. IInv' /\ SStep /\ WaitsExact(K') /\ wque' = z.wque
  BY <1>1, <1>2, <1>3, ReleasesReturn
<1>5. wque' = [wque EXCEPT ![w] = Tail(@)] /\ Len(Tail(wque[w])) = Len(wque[w]) - 1
  BY <1>1, <1>3, <1>4
<1> QED
  BY <1>1, <1>3, <1>4, <1>5 DEF WaitInv, FullInv, SStep, OneLess

\* A call in which the running task starts to wait in the queue of w.
LEMMA RunningJoins ==
  ASSUME WaitInv, NEW w \in WObj, NEW timed \in BOOLEAN, CheckDispatch,
         ~tcb[runtsk].raster, Return(WObjMakeWait(K, w, timed))
  PROVE  /\ WaitInv' /\ runtsk \in Task /\ JoinsQueue(K, K', runtsk, w)
         /\ Len(wque'[w]) = Len(wque[w]) + 1 /\ \A x \in WObj \ {w} : wque'[x] = wque[x]
         /\ tcb' = [tcb EXCEPT ![runtsk] = JoinedTcb(tcb[runtsk], w)]
<1>1. /\ IInv /\ SInv /\ SchedtskExact(K) /\ WellTyped(K) /\ WaitsExact(K)
      /\ K.wque = wque /\ K'.wque = wque'
  BY QueueTypes
<1>2. runtsk # NULL /\ ~intnest /\ dspflg /\ ~tcb[runtsk].raster
  BY DEF CheckDispatch, TskCtxUnl
<1>3. runtsk \in Task
  BY <1>1, <1>2, RunningTask
<1>4. /\ IInv' /\ SStep /\ WaitsExact(K') /\ JoinsQueue(K, K', runtsk, w)
      /\ tcb' = [tcb EXCEPT ![runtsk] = JoinedTcb(tcb[runtsk], w)]
  BY <1>1, <1>2, JoinOK
<1>5. Len(wque'[w]) = Len(wque[w]) + 1 /\ \A x \in WObj \ {w} : wque'[x] = wque[x]
  BY <1>1, <1>3, <1>4, JoinsQueueExact
<1> QED
  BY <1>3, <1>4, <1>5 DEF WaitInv, FullInv, SStep

\* A call that releases all the waiters of w.
LEMMA AllLeave ==
  ASSUME WaitInv, NEW w \in WObj, Return(InitWaitQueue(K, w))
  PROVE  WaitInv' /\ wque' = [wque EXCEPT ![w] = << >>]
<1> DEFINE z == InitWaitQueue(K, w)
<1>1. IInv /\ SInv /\ SchedtskExact(K) /\ Releases(K) /\ K.wque = wque
  BY QueueTypes
<1>2. Releases(z) /\ z.wque = [wque EXCEPT ![w] = << >>]
  BY <1>1, AllReleasedOK
<1> HIDE DEF z
<1>3. Return(z)
  BY DEF z
<1>4. IInv' /\ SStep /\ WaitsExact(K') /\ wque' = z.wque
  BY <1>1, <1>2, <1>3, ReleasesReturn
<1> QED
  BY <1>2, <1>4 DEF WaitInv, FullInv, SStep

-----------------------------------------------------------------------------
(* Semaphores. *)

\* The units of a semaphore are free, or somebody may wait for them.
Counted ==
  /\ semcnt \in [Sem -> Nat]
  /\ \A x \in Sem : semcnt[x] <= MaxSem[x] /\ (semcnt[x] > 0 => wque[x] = << >>)

\* The inductive invariant: that of the kernel, exact wait queues, and counters
\* that agree with them.
SemInv == WaitInv /\ Counted

\* The initial states satisfy the invariant.
LEMMA SemInitOK == SemInit => SemInv
BY InitWaitInv, SemaphoreAssumption DEF SemInit, SemInv, Counted

-----------------------------------------------------------------------------
(* The steps. *)

\* One unit more or less, or one waiter more, at x.
UnitFreed(x) ==
  /\ semcnt[x] < MaxSem[x] /\ wque[x] = << >> /\ wque' = wque
  /\ semcnt' = [semcnt EXCEPT ![x] = @ + 1]

UnitTaken(x) ==
  semcnt[x] >= 1 /\ wque' = wque /\ semcnt' = [semcnt EXCEPT ![x] = @ - 1]

WaitBegun(x) ==
  /\ semcnt[x] = 0 /\ semcnt' = semcnt /\ Len(wque'[x]) = Len(wque[x]) + 1
  /\ \A w \in WObj \ {x} : wque'[w] = wque[w]

\* All the waiters of x leave, and it gets its initial units.
Initialised(x) ==
  /\ wque' = [wque EXCEPT ![x] = << >>]
  /\ semcnt' = [semcnt EXCEPT ![x] = ISemCnt[x]]

\* What a step does to the counters and the wait queues.
SemStep ==
  \/ SameLengths /\ semcnt' = semcnt
  \/ (\E w \in WObj : OneLess(w)) /\ semcnt' = semcnt
  \/ \E x \in Sem : UnitFreed(x) \/ UnitTaken(x) \/ WaitBegun(x) \/ Initialised(x)

\* The types that the counting needs.
LEMMA CountTypes ==
  ASSUME SemInv
  PROVE  /\ wque \in [WObj -> Seq(Task)] /\ semcnt \in [Sem -> Nat]
         /\ Sem \subseteq WObj /\ MaxSem \in [Sem -> Nat \ {0}] /\ ISemCnt \in [Sem -> Nat]
         /\ \A x \in Sem : /\ ISemCnt[x] <= MaxSem[x] /\ semcnt[x] <= MaxSem[x]
                           /\ semcnt[x] > 0 => wque[x] = << >>
<1>1. wque \in [WObj -> Seq(Task)]
  BY QueueTypes DEF SemInv
<1> QED
  BY <1>1, SemaphoreAssumption DEF SemInv, Counted

\* Every such step keeps the counters in their bounds, and a semaphore that has
\* free units without waiters.
LEMMA StepCounted ==
  ASSUME SemInv, SemStep, wque' \in [WObj -> Seq(Task)]
  PROVE  Counted'
<1>1. /\ wque \in [WObj -> Seq(Task)] /\ semcnt \in [Sem -> Nat]
      /\ Sem \subseteq WObj /\ MaxSem \in [Sem -> Nat \ {0}] /\ ISemCnt \in [Sem -> Nat]
      /\ \A x \in Sem : /\ ISemCnt[x] <= MaxSem[x] /\ semcnt[x] <= MaxSem[x]
                        /\ semcnt[x] > 0 => wque[x] = << >>
  BY CountTypes
<1>2. CASE SameLengths /\ semcnt' = semcnt
  <2>1. \A x \in WObj : wque[x] = << >> => wque'[x] = << >>
    BY <1>1, <1>2 DEF SameLengths
  <2> QED
    BY <1>1, <1>2, <2>1 DEF Counted
<1>3. ASSUME NEW w \in WObj, OneLess(w), semcnt' = semcnt PROVE Counted'
  <2>1. \A x \in WObj : wque[x] = << >> => wque'[x] = << >>
    BY <1>1, <1>3 DEF OneLess
  <2> QED
    BY <1>1, <1>3, <2>1 DEF Counted
<1>4. ASSUME NEW x \in Sem, UnitFreed(x) PROVE Counted'
  <2>1. semcnt' \in [Sem -> Nat]
    BY <1>1, <1>4 DEF UnitFreed
  <2>2. semcnt'[x] = semcnt[x] + 1 /\ \A y \in Sem \ {x} : semcnt'[y] = semcnt[y]
    BY <1>1, <1>4 DEF UnitFreed
  <2>3. wque' = wque /\ wque[x] = << >> /\ semcnt'[x] <= MaxSem[x]
    <3>1. semcnt[x] \in Nat /\ MaxSem[x] \in Nat /\ semcnt[x] < MaxSem[x]
      BY <1>1, <1>4 DEF UnitFreed
    <3>2. semcnt[x] + 1 <= MaxSem[x]
      BY <3>1
    <3> QED
      BY <1>4, <2>2, <3>2 DEF UnitFreed
  <2>4. ASSUME NEW y \in Sem PROVE semcnt'[y] <= MaxSem[y] /\ (semcnt'[y] > 0 => wque'[y] = << >>)
    BY <1>1, <2>2, <2>3
  <2> QED
    BY <2>1, <2>4 DEF Counted
<1>5. ASSUME NEW x \in Sem, UnitTaken(x) PROVE Counted'
  <2>1. semcnt[x] \in Nat /\ MaxSem[x] \in Nat /\ semcnt[x] >= 1 /\ wque' = wque
    BY <1>1, <1>5 DEF UnitTaken
  <2>2. semcnt[x] - 1 \in Nat /\ semcnt[x] - 1 <= semcnt[x] /\ semcnt[x] > 0
    BY <2>1
  <2>3. semcnt' \in [Sem -> Nat]
    BY <1>1, <1>5, <2>2 DEF UnitTaken
  <2>4. semcnt'[x] = semcnt[x] - 1 /\ \A y \in Sem \ {x} : semcnt'[y] = semcnt[y]
    BY <1>1, <1>5 DEF UnitTaken
  <2>5. semcnt'[x] <= MaxSem[x] /\ wque'[x] = << >>
    <3>1. semcnt[x] <= MaxSem[x] /\ wque[x] = << >>
      BY <1>1, <2>2
    <3> QED
      BY <2>1, <2>2, <2>4, <3>1
  <2>6. ASSUME NEW y \in Sem PROVE semcnt'[y] <= MaxSem[y] /\ (semcnt'[y] > 0 => wque'[y] = << >>)
    BY <1>1, <2>1, <2>4, <2>5
  <2> QED
    BY <2>3, <2>6 DEF Counted
<1>6. ASSUME NEW x \in Sem, WaitBegun(x) PROVE Counted'
  <2>1. semcnt' = semcnt /\ semcnt[x] = 0
    BY <1>6 DEF WaitBegun
  <2>2. \A y \in Sem \ {x} : wque'[y] = wque[y]
    BY <1>1, <1>6 DEF WaitBegun
  <2> QED
    BY <1>1, <2>1, <2>2 DEF Counted
<1>7. ASSUME NEW x \in Sem, Initialised(x) PROVE Counted'
  <2>1. semcnt' \in [Sem -> Nat] /\ wque'[x] = << >>
    BY <1>1, <1>7 DEF Initialised
  <2>2. semcnt'[x] = ISemCnt[x] /\ \A y \in Sem \ {x} : semcnt'[y] = semcnt[y]
    BY <1>1, <1>7 DEF Initialised
  <2>3. \A y \in Sem \ {x} : wque'[y] = wque[y]
    BY <1>1, <1>7 DEF Initialised
  <2> QED
    BY <1>1, <2>1, <2>2, <2>3 DEF Counted
<1> QED
  BY <1>2, <1>3, <1>4, <1>5, <1>6, <1>7 DEF SemStep

\* sig_sem releases the first waiter, or frees a unit if there is none.
LEMMA SignalOK ==
  ASSUME SemInv, NEW x \in Sem, sig_sem(x)
  PROVE  WaitInv' /\ SemStep
<1>1. x \in WObj /\ WaitInv
  BY CountTypes DEF SemInv
<1>2. CASE /\ wque[x] # << >> /\ UNCHANGED semcnt
           /\ Return(WaitComplete([K EXCEPT !.wque[x] = Tail(@)], Head(wque[x])))
  BY <1>1, <1>2, FirstLeaves DEF SemStep
<1>3. CASE /\ wque[x] = << >> /\ semcnt[x] < MaxSem[x] /\ UNCHANGED vars
           /\ semcnt' = [semcnt EXCEPT ![x] = @ + 1]
  BY <1>1, <1>3, CoreUnchanged DEF SemStep, UnitFreed
<1> QED
  BY <1>2, <1>3 DEF sig_sem

\* wai_sem takes a unit, or waits.
LEMMA WaitOK ==
  ASSUME SemInv, NEW x \in Sem, NEW timed \in BOOLEAN, wai_sem(x, timed)
  PROVE  WaitInv' /\ SemStep
<1>1. x \in WObj /\ WaitInv /\ CheckDispatch /\ ~tcb[runtsk].raster
  BY CountTypes DEF SemInv, wai_sem
<1>2. CASE semcnt[x] >= 1 /\ semcnt' = [semcnt EXCEPT ![x] = @ - 1] /\ UNCHANGED vars
  BY <1>1, <1>2, CoreUnchanged DEF SemStep, UnitTaken
<1>3. CASE semcnt[x] = 0 /\ Return(WObjMakeWait(K, x, timed)) /\ UNCHANGED semcnt
  BY <1>1, <1>3, RunningJoins DEF SemStep, WaitBegun
<1> QED
  BY <1>2, <1>3 DEF wai_sem

\* ini_sem releases all the waiters.
LEMMA InitialiseOK ==
  ASSUME SemInv, NEW x \in Sem, ini_sem(x)
  PROVE  WaitInv' /\ SemStep
<1>1. x \in WObj /\ WaitInv
  BY CountTypes DEF SemInv
<1>2. Return(InitWaitQueue(K, x)) /\ semcnt' = [semcnt EXCEPT ![x] = ISemCnt[x]]
  BY DEF ini_sem
<1> QED
  BY <1>1, <1>2, AllLeave DEF SemStep, Initialised

\* Every step preserves the invariant, and does to the counters and the queues
\* what SemStep says.
LEMMA SemNextOK ==
  ASSUME SemInv, [SemNext]_svars
  PROVE  SemInv' /\ SemStep
<1>1. WaitInv' /\ SemStep
  <2>1. CASE UNCHANGED svars
    <3>1. semcnt' = semcnt /\ UNCHANGED vars
      BY <2>1 DEF svars
    <3> QED
      BY <3>1, CoreWaits DEF SemInv, SemStep
  <2>2. CASE Next /\ UNCHANGED semcnt
    BY <2>2, CoreWaits DEF SemInv, SemStep
  <2>3. ASSUME NEW x \in Sem, pol_sem(x) PROVE WaitInv' /\ SemStep
    BY <2>3, CoreUnchanged DEF SemInv, pol_sem, SemStep, UnitTaken
  <2> QED
    BY <2>1, <2>2, <2>3, SignalOK, WaitOK, InitialiseOK DEF SemNext, SemCall
<1>2. wque' \in [WObj -> Seq(Task)]
  BY <1>1, QueueTypesNext
<1> QED
  BY <1>1, <1>2, StepCounted DEF SemInv

\* The invariant holds in every reachable state.
LEMMA SemInvariantHolds == SemSpec => []SemInv
<1>1. SemInv /\ [SemNext]_svars => SemInv'
  BY SemNextOK
<1> QED
  BY <1>1, SemInitOK, PTL DEF SemSpec

-----------------------------------------------------------------------------
(* What it says of the properties. *)

\* A queue is as long as its set is large.
LEMMA QueueLength ==
  ASSUME NEW S, NEW q \in Seq(S), NEW T, IsQueue(q, T)
  PROVE  Len(q) = Cardinality(T)
<1>1. DOMAIN q = 1..Len(q) /\ Len(q) \in Nat
  OBVIOUS
<1>2. q \in [1..Len(q) -> T]
  <2>1. q = [i \in 1..Len(q) |-> q[i]]
    OBVIOUS
  <2> QED
    BY <1>1, <2>1 DEF IsQueue
<1>3. q \in Bijection(1..Len(q), T)
  BY <1>1, <1>2 DEF IsQueue, Bijection, Injection, Surjection, IsInjective
<1>4. ExistsBijection(1..Len(q), T)
  BY <1>3 DEF ExistsBijection
<1> QED
  BY <1>1, <1>4, FS_CountingElements

\* The invariant of the wait queues implies that they are exact.
LEMMA QueuesAreExact == WaitInv => WaitQueuesExact
<1> SUFFICES ASSUME WaitInv, NEW w \in WObj
             PROVE  /\ Len(wque[w]) = Cardinality(Range(wque[w]))
                    /\ Range(wque[w]) = WaitersOf(K, w)
                    /\ w \in TPriObj => InOrder(wque[w], tcb)
  BY WaitFields DEF WaitQueuesExact, WaitersOf, InQueue, InOrder
<1> DEFINE q == wque[w]
<1>1. q \in Seq(Task) /\ IsQueue(q, WaitersOf(K, w)) /\ (w \in TPriObj => InOrder(q, tcb))
  BY QueueTypes DEF WaitsExact
<1>2. Range(q) = WaitersOf(K, w)
  BY <1>1 DEF IsQueue, Range
<1>3. Len(q) = Cardinality(Range(q))
  BY <1>1, <1>2, QueueLength
<1> QED
  BY <1>1, <1>2, <1>3

\* THEOREM: every wait queue holds exactly the tasks that wait for its object,
\* each once, and in priority order if the object has TA_TPRI: also while tasks
\* are timed out, released, terminated, suspended and change their priorities.
THEOREM WaitQueuesCorrect == SemSpec => []WaitQueuesExact
<1>1. SemInv => WaitQueuesExact
  BY QueuesAreExact DEF SemInv
<1> QED
  BY <1>1, SemInvariantHolds, PTL

\* THEOREM: no task waits for a unit that is free: neither a signal nor the
\* initialisation is lost while a task waits.
THEOREM NobodyWaitsCorrect == SemSpec => []NobodyWaitsForFreeUnit
<1>1. SemInv => NobodyWaitsForFreeUnit
  BY DEF SemInv, Counted, NobodyWaitsForFreeUnit
<1> QED
  BY <1>1, SemInvariantHolds, PTL

\* The abstract counters.
Free == [x \in Sem |-> semcnt[x] - Len(wque[x])]

\* Each step is one of the abstract counters, or does not change them.
LEMMA StepRefines ==
  ASSUME SemInv, SemInv', SemStep
  PROVE  [Abstract!Next]_Free
<1>1. /\ wque \in [WObj -> Seq(Task)] /\ semcnt \in [Sem -> Nat]
      /\ Sem \subseteq WObj /\ MaxSem \in [Sem -> Nat \ {0}] /\ ISemCnt \in [Sem -> Nat]
      /\ \A x \in Sem : semcnt[x] > 0 => wque[x] = << >>
  BY CountTypes
<1>2. wque' \in [WObj -> Seq(Task)]
  BY QueueTypesNext DEF SemInv
<1>3. \A x \in Sem : /\ Free[x] = semcnt[x] - Len(wque[x]) /\ Len(wque[x]) \in Nat
                     /\ Free'[x] = semcnt'[x] - Len(wque'[x]) /\ Len(wque'[x]) \in Nat
  BY <1>1, <1>2 DEF Free
<1>4. Free = [x \in Sem |-> Free[x]] /\ Free' = [x \in Sem |-> Free'[x]]
  BY DEF Free
<1>5. ASSUME \A x \in Sem : Free'[x] = Free[x] PROVE Free' = Free
  BY <1>4, <1>5
<1>6. ASSUME NEW x \in Sem, NEW n, Free'[x] = n, \A y \in Sem \ {x} : Free'[y] = Free[y]
      PROVE  Free' = [Free EXCEPT ![x] = n]
  BY <1>4, <1>6
<1>7. CASE SameLengths /\ semcnt' = semcnt
  BY <1>1, <1>3, <1>5, <1>7 DEF SameLengths
<1>8. ASSUME NEW w \in WObj, OneLess(w), semcnt' = semcnt PROVE [Abstract!Next]_Free
  <2>1. \A y \in WObj \ {w} : wque'[y] = wque[y]
    BY <1>8 DEF OneLess
  <2>2. CASE w \notin Sem
    BY <1>1, <1>3, <1>5, <1>8, <2>1, <2>2
  <2>3. CASE w \in Sem
    <3>1. wque[w] # << >> /\ Len(wque'[w]) = Len(wque[w]) - 1
      BY <1>8 DEF OneLess
    <3>2. semcnt[w] = 0 /\ Len(wque[w]) >= 1
      BY <1>1, <2>3, <3>1
    <3>3. Free'[w] = Free[w] + 1 /\ Free[w] < 0 /\ Free[w] \in Int
      BY <1>3, <1>8, <2>3, <3>1, <3>2
    <3>4. \A y \in Sem \ {w} : Free'[y] = Free[y]
      BY <1>1, <1>3, <1>8, <2>1
    <3>5. Free' = [Free EXCEPT ![w] = Free[w] + 1]
      BY <1>6, <2>3, <3>3, <3>4
    <3>6. Abstract!GiveUp(w)
      BY <3>3, <3>5 DEF Abstract!GiveUp, Free
    <3> QED
      BY <2>3, <3>6 DEF Abstract!Next
  <2> QED
    BY <2>2, <2>3
<1>9. ASSUME NEW x \in Sem, UnitFreed(x) PROVE [Abstract!Next]_Free
  <2>1. /\ semcnt[x] < MaxSem[x] /\ wque[x] = << >> /\ wque' = wque
        /\ semcnt'[x] = semcnt[x] + 1 /\ \A y \in Sem \ {x} : semcnt'[y] = semcnt[y]
    BY <1>1, <1>9 DEF UnitFreed
  <2>2. Free'[x] = Free[x] + 1 /\ Free[x] < MaxSem[x]
    BY <1>1, <1>3, <2>1
  <2>3. Free' = [Free EXCEPT ![x] = Free[x] + 1]
    BY <1>3, <1>6, <2>1, <2>2
  <2>4. Abstract!Signal(x)
    BY <2>2, <2>3 DEF Abstract!Signal, Free
  <2> QED
    BY <2>4 DEF Abstract!Next
<1>10. ASSUME NEW x \in Sem, Free'[x] = Free[x] - 1, \A y \in Sem \ {x} : Free'[y] = Free[y]
       PROVE  [Abstract!Next]_Free
  <2>1. Free' = [Free EXCEPT ![x] = Free[x] - 1]
    BY <1>6, <1>10
  <2>2. Abstract!Take(x)
    BY <2>1 DEF Abstract!Take, Free
  <2> QED
    BY <2>2 DEF Abstract!Next
<1>11. ASSUME NEW x \in Sem, UnitTaken(x) PROVE [Abstract!Next]_Free
  <2>1. /\ wque' = wque
        /\ semcnt'[x] = semcnt[x] - 1 /\ \A y \in Sem \ {x} : semcnt'[y] = semcnt[y]
    BY <1>1, <1>11 DEF UnitTaken
  <2>2. semcnt[x] \in Nat /\ semcnt[x] \in Int /\ Len(wque[x]) \in Int
    BY <1>1, <1>3
  <2>3. Free'[x] = Free[x] - 1
    BY <1>3, <2>1, <2>2
  <2>4. \A y \in Sem \ {x} : semcnt'[y] = semcnt[y] /\ Len(wque'[y]) = Len(wque[y])
    BY <2>1
  <2>5. \A y \in Sem \ {x} : Free'[y] = Free[y]
    BY <1>3, <2>4
  <2> QED
    BY <1>10, <2>3, <2>5
<1>12. ASSUME NEW x \in Sem, WaitBegun(x) PROVE [Abstract!Next]_Free
  <2>1. /\ semcnt' = semcnt /\ Len(wque'[x]) = Len(wque[x]) + 1
        /\ \A w \in WObj \ {x} : wque'[w] = wque[w]
    BY <1>12 DEF WaitBegun
  <2>2. semcnt[x] \in Nat /\ semcnt[x] \in Int /\ Len(wque[x]) \in Int
    BY <1>1, <1>3
  <2>3. Free'[x] = Free[x] - 1
    BY <1>3, <2>1, <2>2
  <2>4. \A y \in Sem \ {x} : Free'[y] = Free[y]
    BY <1>1, <1>3, <2>1
  <2> QED
    BY <1>10, <2>3, <2>4
<1>13. ASSUME NEW x \in Sem, Initialised(x) PROVE [Abstract!Next]_Free
  <2>1. /\ wque'[x] = << >> /\ \A w \in WObj \ {x} : wque'[w] = wque[w]
        /\ semcnt'[x] = ISemCnt[x] /\ \A y \in Sem \ {x} : semcnt'[y] = semcnt[y]
    BY <1>1, <1>13 DEF Initialised
  <2>2. Free'[x] = ISemCnt[x] /\ \A y \in Sem \ {x} : Free'[y] = Free[y]
    BY <1>1, <1>3, <2>1
  <2>3. Abstract!Reset(x)
    BY <1>6, <2>2 DEF Abstract!Reset, Free
  <2> QED
    BY <2>3 DEF Abstract!Next
<1> QED
  BY <1>7, <1>8, <1>9, <1>11, <1>12, <1>13 DEF SemStep

\* THEOREM: semaphores implement counters that grow by one unit with every signal,
\* shrink with every request, and get back the claim of a task that gives up:
\* no unit is made or lost, whatever ends a wait.
THEOREM UnitsConservedCorrect == SemSpec => UnitsConserved
<1>1. SemInit => Abstract!Init
  <2> SUFFICES ASSUME SemInit PROVE Free = ISemCnt
    BY DEF Abstract!Init, Free
  <2>1. semcnt = ISemCnt /\ ISemCnt \in [Sem -> Nat] /\ \A x \in Sem : wque[x] = << >>
    BY InitWaits, SemaphoreAssumption DEF SemInit
  <2> QED
    BY <2>1 DEF Free
<1>2. SemInv /\ SemInv' /\ [SemNext]_svars => [Abstract!Next]_Free
  BY SemNextOK, StepRefines
<1> QED
  BY <1>1, <1>2, SemInvariantHolds, PTL DEF SemSpec, UnitsConserved, Abstract!Spec, Free

-----------------------------------------------------------------------------
(* The walk of set_flg along the queue of a flag. *)

\* The walk passes task t.
Passed(s, f, T, t) == IF t \in T THEN WaiterReleased(s, f, t) ELSE s

\* The states that it goes through, q being the queue before.
PassedUpTo(s, f, T, q, r, m) ==
  r = [n \in 0..m |-> IF n = 0 THEN s ELSE Passed(r[n - 1], f, T, q[n])]

\* They exist.
LEMMA PassedExists ==
  ASSUME NEW s, NEW f, NEW T, NEW q, NEW k \in Nat
  PROVE  \E r : PassedUpTo(s, f, T, q, r, k)
<1> DEFINE Bad == {m \in Nat : ~\E r : PassedUpTo(s, f, T, q, r, m)}
<1> SUFFICES ASSUME Bad # {} PROVE FALSE
  OBVIOUS
<1>1. PICK m \in Bad : \A n \in Bad : m <= n
  BY LeastNumber
<1>2. m # 0
  <2>1. PassedUpTo(s, f, T, q, [n \in 0..0 |-> s], 0)
    BY DEF PassedUpTo
  <2> QED
    BY <2>1
<1>3. m \in Nat /\ m - 1 \in Nat /\ m - 1 \notin Bad
  BY <1>1, <1>2
<1>4. PICK r : PassedUpTo(s, f, T, q, r, m - 1)
  BY <1>3
<1> DEFINE g == [n \in 0..m |-> IF n = m THEN Passed(r[m - 1], f, T, q[m]) ELSE r[n]]
<1>5. \A n \in 0..(m - 1) : r[n] = IF n = 0 THEN s ELSE Passed(r[n - 1], f, T, q[n])
  BY <1>4 DEF PassedUpTo
<1>6. \A n \in 0..m : g[n] = IF n = 0 THEN s ELSE Passed(g[n - 1], f, T, q[n])
  <2> TAKE n \in 0..m
  <2>1. CASE n = 0
    BY <1>2, <1>3, <1>5, <2>1
  <2>2. CASE n = m
    <3>1. g[n - 1] = r[m - 1] /\ g[n] = Passed(r[m - 1], f, T, q[m])
      BY <1>3, <2>2
    <3> QED
      BY <1>2, <2>2, <3>1
  <2>3. CASE n # 0 /\ n # m
    <3>1. n \in 0..(m - 1) /\ g[n] = r[n] /\ g[n - 1] = r[n - 1]
      BY <1>3, <2>3
    <3> QED
      BY <1>5, <2>3, <3>1
  <2> QED
    BY <2>1, <2>2, <2>3
<1>7. PassedUpTo(s, f, T, q, g, m)
  <2>1. g = [n \in 0..m |-> g[n]]
    OBVIOUS
  <2> HIDE DEF g
  <2> QED
    BY <1>6, <2>1 DEF PassedUpTo
<1> QED
  BY <1>1, <1>7

\* The tasks of Gone have been released from the queue of f since s.
HaveLeft(s, z, f, Gone) ==
  /\ Releases(z) /\ \A x \in WObj \ {f} : z.wque[x] = s.wque[x]
  /\ \A t \in Gone : ~IsWaiting(z.tcb[t].tstat)
  /\ \A t \in Task \ Gone : z.tcb[t] = s.tcb[t]

\* One more waiter leaves.
LEMMA OneMoreLeaves ==
  ASSUME NEW s, NEW y, NEW f \in WObj, NEW Gone \in SUBSET Task,
         HaveLeft(s, y, f, Gone),
         NEW t \in WaitersOf(s, f), t \notin Gone,
         NEW z, z = WaiterReleased(y, f, t)
  PROVE  HaveLeft(s, z, f, Gone \union {t})
<1>1. t \in Task /\ y.tcb[t] = s.tcb[t] /\ s.tcb[t].wobj = f
  BY DEF HaveLeft, WaitersOf
<1>2. Releases(y) /\ t \in WaitersOf(y, f)
  BY <1>1 DEF HaveLeft, WaitersOf
<1>3. /\ Releases(z) /\ LeavesQueue(y, z, t)
      /\ \A v \in Task \ {t} : z.tcb[v] = y.tcb[v]
      /\ ~IsWaiting(z.tcb[t].tstat)
  BY <1>2, WaiterReleasedOK
<1>4. y.wque \in [WObj -> Seq(Task)] /\ y.tcb[t].wobj = f
  BY <1>1, <1>2 DEF Releases, Agree, WellTyped, KState
<1>5. \A x \in WObj \ {f} : z.wque[x] = y.wque[x]
  BY <1>3, <1>4 DEF LeavesQueue
<1>6. ASSUME NEW v \in Gone PROVE ~IsWaiting(z.tcb[v].tstat)
  <2>1. ~IsWaiting(y.tcb[v].tstat)
    BY <1>6 DEF HaveLeft
  <2>2. v # t /\ z.tcb[v] = y.tcb[v]
    BY <1>3, <1>6
  <2> QED
    BY <2>1, <2>2
<1> QED
  BY <1>3, <1>5, <1>6 DEF HaveLeft

\* set_flg releases exactly the waiters of T, in the order of the queue.
LEMMA WalkOK ==
  ASSUME NEW s, Releases(s), NEW f \in WObj, NEW T
  PROVE  HaveLeft(s, ReleaseWaiters(s, f, T), f, WaitersOf(s, f) \intersect T)
<1> DEFINE q == s.wque[f]
           k == Len(q)
<1>1. PICK r : ReleaseWaiters(s, f, T) = r[k] /\ PassedUpTo(s, f, T, q, r, k)
  <2>1. q \in Seq(Task) /\ k \in Nat
    BY DEF Releases, Agree, WellTyped, KState
  <2> DEFINE r == CHOOSE g : g = [n \in 0..k |->
                    IF n = 0 THEN s
                    ELSE IF q[n] \in T
                         THEN WaitComplete([g[n - 1] EXCEPT !.wque[f] = Without(@, q[n])], q[n])
                         ELSE g[n - 1]]
  <2>2. ReleaseWaiters(s, f, T) = r[k]
    BY DEF ReleaseWaiters
  <2>3. \A g : PassedUpTo(s, f, T, q, g, k) <=>
                g = [n \in 0..k |->
                    IF n = 0 THEN s
                    ELSE IF q[n] \in T
                         THEN WaitComplete([g[n - 1] EXCEPT !.wque[f] = Without(@, q[n])], q[n])
                         ELSE g[n - 1]]
    BY DEF PassedUpTo, Passed, WaiterReleased
  <2>4. PassedUpTo(s, f, T, q, r, k)
    BY <2>1, <2>3, PassedExists
  <2> QED
    BY <2>2, <2>4
<1>2. /\ q \in Seq(Task) /\ k \in Nat /\ DOMAIN q = 1..k
      /\ IsQueue(q, WaitersOf(s, f))
  BY DEF Releases, Agree, WellTyped, KState, WaitsExact
<1>3. r[0] = s /\ \A n \in 1..k : r[n] = Passed(r[n - 1], f, T, q[n])
  <2>1. \A n \in 0..k : r[n] = IF n = 0 THEN s ELSE Passed(r[n - 1], f, T, q[n])
    BY <1>1 DEF PassedUpTo
  <2>2. 0 \in 0..k /\ \A n \in 1..k : n \in 0..k /\ n # 0
    BY <1>2
  <2> QED
    BY <2>1, <2>2
<1> DEFINE Gone(n) == {q[i] : i \in 1..n} \intersect T
           Right(n) == HaveLeft(s, r[n], f, Gone(n))
           Bad == {n \in 0..k : ~Right(n)}
<1>4. Right(0)
  <2>1. Gone(0) = {}
    OBVIOUS
  <2> HIDE DEF Gone
  <2> QED
    BY <1>3, <2>1 DEF HaveLeft
<1>5. ASSUME NEW n \in 1..k, Right(n - 1) PROVE Right(n)
  <2>1. /\ n \in DOMAIN q /\ n - 1 \in Nat /\ n \in Nat
        /\ \A i \in 1..n : i \in 1..(n - 1) \/ i = n
        /\ \A i \in 1..(n - 1) : i \in 1..n /\ i \in 1..k /\ i # n
    BY <1>2
  <2>2. q[n] \in WaitersOf(s, f) /\ q[n] \notin Gone(n - 1) /\ Gone(n - 1) \subseteq Task
    <3>1. \A i \in 1..k : q[i] \in Task
      BY <1>2
    <3> QED
      BY <1>2, <2>1, <3>1 DEF IsQueue
  <2>3. /\ q[n] \in T => Gone(n) = Gone(n - 1) \union {q[n]}
        /\ q[n] \notin T => Gone(n) = Gone(n - 1)
    BY <2>1
  <2> HIDE DEF Gone
  <2>4. CASE q[n] \in T
    <3>1. r[n] = WaiterReleased(r[n - 1], f, q[n])
      BY <1>3, <2>4 DEF Passed
    <3> QED
      BY <1>5, <2>2, <2>3, <2>4, <3>1, OneMoreLeaves
  <2>5. CASE q[n] \notin T
    <3>1. r[n] = r[n - 1]
      BY <1>3, <2>5 DEF Passed
    <3> QED
      BY <1>5, <2>3, <2>5, <3>1
  <2> QED
    BY <2>4, <2>5
<1>6. Bad = {}
  <2> SUFFICES ASSUME Bad # {} PROVE FALSE
    OBVIOUS
  <2> HIDE DEF Right
  <2>1. PICK n \in Bad : \A m \in Bad : n <= m
    <3>1. Bad \in SUBSET Nat
      BY <1>2
    <3> HIDE DEF Bad
    <3> QED
      BY <3>1, LeastNumber
  <2>2. n \in 1..k /\ n - 1 \in 0..k /\ n - 1 \notin Bad
    BY <1>2, <1>4, <2>1
  <2> QED
    BY <1>5, <2>1, <2>2
<1>7. Right(k)
  <2> HIDE DEF Right
  <2> QED
    BY <1>2, <1>6
<1>8. Gone(k) = WaitersOf(s, f) \intersect T
  BY <1>2 DEF IsQueue
<1> HIDE DEF Gone
<1> QED
  BY <1>1, <1>7, <1>8

-----------------------------------------------------------------------------
(* Event flags. *)

\* Whoever waits for a flag waits for bits, and not for what the flag has.
Awaited ==
  /\ flgptn \in [Flg -> SUBSET Bit]
  /\ winfo \in [Task -> [waiptn: SUBSET Bit, wfmode: WFMode]]
  /\ \A f \in Flg : \A t \in WaitersOf(K, f) :
       /\ winfo[t].waiptn # {}
       /\ ~Satisfied(flgptn[f], winfo[t].waiptn, winfo[t].wfmode)

\* The inductive invariant.
FlgInv == WaitInv /\ Awaited

\* Nobody waits at first.
LEMMA FlgInitOK == FlgInit => FlgInv
<1> SUFFICES ASSUME FlgInit PROVE FlgInv
  OBVIOUS
<1>1. WaitInv /\ WaitsExact(K) /\ \A w \in WObj : wque[w] = << >>
  BY InitWaitInv DEF FlgInit, WaitInv
<1>2. Flg \subseteq WObj /\ flgptn \in [Flg -> SUBSET Bit]
  BY EventFlagAssumption DEF FlgInit
<1>3. \A f \in Flg : WaitersOf(K, f) = {}
  BY <1>1, <1>2, RangeIsWaiters, WaitFields DEF Range
<1>4. winfo \in [Task -> [waiptn: SUBSET Bit, wfmode: WFMode]]
  BY DEF FlgInit, NoWinfo, WFMode
<1> QED
  BY <1>1, <1>2, <1>3, <1>4 DEF FlgInv, Awaited

\* Waiters leave, those who stay keep their patterns, and the flags have nothing
\* that these wait for.
LEMMA AwaitedKept ==
  ASSUME FlgInv, WaitsExact(K'), tcb' \in [Task -> TCB],
         flgptn' \in [Flg -> SUBSET Bit],
         winfo' \in [Task -> [waiptn: SUBSET Bit, wfmode: WFMode]],
         \A t \in Task : IsWaiting(tcb'[t].tstat) => winfo'[t] = winfo[t],
         \A f \in Flg : WaitersOf(K', f) \subseteq WaitersOf(K, f),
         \A f \in Flg : \A t \in WaitersOf(K', f) :
           ~Satisfied(flgptn'[f], winfo[t].waiptn, winfo[t].wfmode)
  PROVE  Awaited'
<1>1. ASSUME NEW f \in Flg, NEW t \in WaitersOf(K', f)
      PROVE  winfo'[t] = winfo[t] /\ winfo[t].waiptn # {}
  <2>1. t \in Task /\ InQueue(tcb'[t])
    BY <1>1, WaitFields DEF WaitersOf
  <2>2. IsWaiting(tcb'[t].tstat)
    BY <2>1, StateWaits
  <2>3. t \in WaitersOf(K, f)
    BY <1>1
  <2> QED
    BY <2>1, <2>2, <2>3 DEF FlgInv, Awaited
<1>2. \A f \in Flg : \A t \in WaitersOf(K', f) :
        winfo'[t].waiptn # {} /\ ~Satisfied(flgptn'[f], winfo'[t].waiptn, winfo'[t].wfmode)
  BY <1>1
<1> QED
  BY <1>2 DEF Awaited

\* The types of what the calls write.
LEMMA PatternTypes ==
  ASSUME FlgInv
  PROVE  /\ Flg \subseteq WObj /\ TA_CLR \subseteq Flg
         /\ flgptn \in [Flg -> SUBSET Bit]
         /\ winfo \in [Task -> [waiptn: SUBSET Bit, wfmode: WFMode]]
         /\ NoWinfo \in [waiptn: SUBSET Bit, wfmode: WFMode]
         /\ \A t \in Task : WinfoOf(t) \in [waiptn: SUBSET Bit, wfmode: WFMode]
         /\ IFlgPtn \in [Flg -> SUBSET Bit]
<1>1. winfo \in [Task -> [waiptn: SUBSET Bit, wfmode: WFMode]]
  BY DEF FlgInv, Awaited
<1>2. NoWinfo \in [waiptn: SUBSET Bit, wfmode: WFMode]
  BY DEF NoWinfo, WFMode
<1>3. \A t \in Task : WinfoOf(t) \in [waiptn: SUBSET Bit, wfmode: WFMode]
  BY <1>1, <1>2 DEF WinfoOf
<1> QED
  BY <1>1, <1>2, <1>3, EventFlagAssumption DEF FlgInv, Awaited

\* Steps of the core, or none, that set no flag, or clear some bits.
LEMMA CoreFlgOK ==
  ASSUME FlgInv, [Next]_vars, WinfoKept \/ winfo' = winfo,
         flgptn' \in [Flg -> SUBSET Bit],
         \A f \in Flg : flgptn'[f] \subseteq flgptn[f]
  PROVE  FlgInv'
<1>1. /\ WaitInv' /\ WaitsExact(K') /\ tcb' \in [Task -> TCB] /\ Flg \subseteq WObj
      /\ \A w \in WObj : WaitersOf(K', w) \subseteq WaitersOf(K, w)
  BY CoreWaits, QueueTypesNext, PatternTypes DEF FlgInv
<1>2. /\ winfo' \in [Task -> [waiptn: SUBSET Bit, wfmode: WFMode]]
      /\ \A t \in Task : IsWaiting(tcb'[t].tstat) => winfo'[t] = winfo[t]
  BY PatternTypes DEF WinfoKept, WinfoOf
<1>3. ASSUME NEW f \in Flg, NEW t \in WaitersOf(K', f)
      PROVE  ~Satisfied(flgptn'[f], winfo[t].waiptn, winfo[t].wfmode)
  <2>1. ~Satisfied(flgptn[f], winfo[t].waiptn, winfo[t].wfmode)
    BY <1>1, <1>3 DEF FlgInv, Awaited
  <2> QED
    BY <1>3, <2>1 DEF Satisfied
<1>4. Awaited'
  BY <1>1, <1>2, <1>3, AwaitedKept
<1> QED
  BY <1>1, <1>4 DEF FlgInv

\* Whom set_flg serves: waiters whose condition holds, all of them, or one if
\* the flag is cleared.
LEMMA ServedFacts ==
  ASSUME FlgInv, NEW f \in Flg, NEW ptn
  PROVE  LET T == Served(f, ptn)
             Now(t) == Satisfied(ptn, winfo[t].waiptn, winfo[t].wfmode)
         IN  /\ T \subseteq WaitersOf(K, f) /\ \A t \in T : Now(t)
             /\ f \notin TA_CLR \/ T = {} => \A t \in WaitersOf(K, f) \ T : ~Now(t)
             /\ f \in TA_CLR /\ T # {} => \E t \in T : T = {t}
<1> DEFINE T == Served(f, ptn)
           Now(t) == Satisfied(ptn, winfo[t].waiptn, winfo[t].wfmode)
           q == wque[f]
           Sat == {i \in DOMAIN q : Now(q[i])}
           First == {i \in Sat : f \in TA_CLR => \A j \in Sat : i <= j}
<1>1. f \in WObj /\ q \in Seq(Task) /\ IsQueue(q, WaitersOf(K, f))
  BY PatternTypes, QueueTypes DEF FlgInv, WaitsExact
<1>2. T = {q[i] : i \in First}
  BY DEF Served
<1>3. DOMAIN q = 1..Len(q) /\ Len(q) \in Nat
  BY <1>1
<1> HIDE DEF Now, T, q
<1>4. T \subseteq WaitersOf(K, f) /\ \A t \in T : Now(t)
  BY <1>1, <1>2 DEF IsQueue
<1>5. ASSUME f \notin TA_CLR, NEW t \in WaitersOf(K, f), Now(t) PROVE t \in T
  <2>1. PICK i \in DOMAIN q : q[i] = t
    BY <1>1 DEF IsQueue
  <2> QED
    BY <1>2, <1>5, <2>1
<1>6. ASSUME NEW t \in WaitersOf(K, f), Now(t) PROVE T # {}
  <2>1. PICK i \in DOMAIN q : q[i] = t
    BY <1>1 DEF IsQueue
  <2>2. Sat \in SUBSET Nat /\ Sat # {}
    BY <1>3, <1>6, <2>1
  <2>3. \E j \in Sat : \A n \in Sat : j <= n
    <3> HIDE DEF Sat
    <3> QED
      BY <2>2, LeastNumber
  <2> QED
    BY <1>2, <2>3
<1>7. ASSUME f \in TA_CLR, T # {} PROVE \E t \in T : T = {t}
  <2>1. PICK i \in First : q[i] \in T
    BY <1>2, <1>7
  <2>2. ASSUME NEW j \in First PROVE j = i
    <3>1. i <= j /\ j <= i /\ i \in Nat /\ j \in Nat
      BY <1>3, <1>7, <2>1
    <3> QED
      BY <3>1
  <2>3. T = {q[i]}
    BY <1>2, <2>1, <2>2
  <2> QED
    BY <2>1, <2>3
<1> QED
  BY <1>4, <1>5, <1>6, <1>7 DEF T, Now

\* What set_flg does to the queue of f: the tasks of T leave it with the pattern p.
Handed(f, T, p) ==
  /\ Range(wque[f]) \ Range(wque'[f]) = T
  /\ \A t \in T : /\ Satisfied(p, winfo[t].waiptn, winfo[t].wfmode)
                  /\ winfo'[t].waiptn = p
  /\ f \in TA_CLR /\ T # {} => flgptn'[f] = {} /\ \E t \in T : T = {t}

\* set_flg preserves the invariant and hands a pattern to those it releases.
LEMMA SetFlgOK ==
  ASSUME FlgInv, NEW f \in Flg, NEW setptn \in FLGPTN, set_flg(f, setptn)
  PROVE  FlgInv' /\ \E T, p : Handed(f, T, p)
<1> DEFINE p == flgptn[f] \union setptn
           T == Served(f, p)
           z == ReleaseWaiters(K, f, T)
           Now(t) == Satisfied(p, winfo[t].waiptn, winfo[t].wfmode)
<1>1. /\ Flg \subseteq WObj /\ TA_CLR \subseteq Flg /\ f \in WObj /\ p \in SUBSET Bit
      /\ flgptn \in [Flg -> SUBSET Bit]
      /\ winfo \in [Task -> [waiptn: SUBSET Bit, wfmode: WFMode]]
      /\ \A t \in Task : WinfoOf(t) \in [waiptn: SUBSET Bit, wfmode: WFMode]
      /\ IInv /\ SInv /\ SchedtskExact(K) /\ WaitsExact(K)
  BY PatternTypes, QueueTypes DEF FlgInv, FLGPTN
<1>2. /\ flgptn' = [flgptn EXCEPT ![f] = IF T = {} THEN p ELSE Cleared(f, p)]
      /\ Return(z)
      /\ winfo' = [t \in Task |-> IF t \in T THEN [winfo[t] EXCEPT !.waiptn = p]
                                 ELSE WinfoOf(t)]
  BY DEF set_flg, Serve
<1>3. /\ T \subseteq WaitersOf(K, f) /\ \A t \in T : Now(t)
      /\ f \notin TA_CLR \/ T = {} => \A t \in WaitersOf(K, f) \ T : ~Now(t)
      /\ f \in TA_CLR /\ T # {} => \E t \in T : T = {t}
  <2> HIDE DEF p
  <2> QED
    BY ServedFacts
<1> HIDE DEF T
<1>4. HaveLeft(K, z, f, T)
  <2>1. WaitersOf(K, f) \intersect T = T
    BY <1>3
  <2> QED
    BY <1>1, <2>1, NoReleases, WalkOK
<1> HIDE DEF z, p, Now
<1>5. IInv' /\ SStep /\ WaitsExact(K') /\ wque' = z.wque /\ tcb' = z.tcb
  <2>1. Releases(z) /\ HasWaits(z)
    BY <1>4 DEF HaveLeft, Releases, Agree, WellTyped, KState, HasWaits
  <2> QED
    BY <1>1, <1>2, <2>1, ReleasesReturn, ReturnWaits
<1>6. WaitInv' /\ tcb' \in [Task -> TCB]
  <2>1. WaitInv'
    BY <1>1, <1>5 DEF WaitInv, FullInv, SStep
  <2> QED
    BY <2>1, QueueTypesNext
<1>7. /\ \A t \in T : ~IsWaiting(tcb'[t].tstat)
      /\ \A t \in Task \ T : tcb'[t] = tcb[t]
  BY <1>4, <1>5, WaitFields DEF HaveLeft
<1>8. \A w \in WObj : WaitersOf(K', w) = WaitersOf(K, w) \ T
  <2>1. \A t \in T : ~InQueue(tcb'[t])
    BY <1>3, <1>6, <1>7, StateWaits DEF WaitersOf
  <2> QED
    BY <1>7, <2>1, WaitFields DEF WaitersOf
<1>9. flgptn' \in [Flg -> SUBSET Bit]
  BY <1>1, <1>2 DEF Cleared
<1>10. winfo' \in [Task -> [waiptn: SUBSET Bit, wfmode: WFMode]]
  <2>1. \A t \in Task : [winfo[t] EXCEPT !.waiptn = p] \in [waiptn: SUBSET Bit, wfmode: WFMode]
    BY <1>1
  <2> QED
    BY <1>1, <1>2, <2>1
<1>11. \A t \in Task : IsWaiting(tcb'[t].tstat) => winfo'[t] = winfo[t]
  BY <1>2, <1>7 DEF WinfoOf
<1>12. ASSUME NEW g \in Flg, NEW t \in WaitersOf(K', g)
       PROVE  ~Satisfied(flgptn'[g], winfo[t].waiptn, winfo[t].wfmode)
  <2>1. t \in WaitersOf(K, g) \ T
    BY <1>1, <1>8, <1>12
  <2>2. winfo[t].waiptn # {} /\ ~Satisfied(flgptn[g], winfo[t].waiptn, winfo[t].wfmode)
    BY <2>1 DEF FlgInv, Awaited
  <2>3. CASE g # f
    BY <1>1, <1>2, <2>2, <2>3
  <2>4. CASE g = f /\ (T = {} \/ f \notin TA_CLR)
    <3>1. flgptn'[g] = p
      BY <1>1, <1>2, <2>4 DEF Cleared
    <3> QED
      BY <1>3, <2>1, <2>4, <3>1 DEF Now
  <2>5. CASE g = f /\ T # {} /\ f \in TA_CLR
    <3>1. flgptn'[g] = {}
      BY <1>1, <1>2, <2>5 DEF Cleared
    <3> QED
      BY <2>2, <3>1 DEF Satisfied
  <2> QED
    BY <2>3, <2>4, <2>5
<1>13. Awaited'
  BY <1>1, <1>5, <1>6, <1>8, <1>9, <1>10, <1>11, <1>12, AwaitedKept
<1>14. Handed(f, T, p)
  <2>1. Range(wque[f]) \ Range(wque'[f]) = T
    <3>1. Range(wque[f]) = WaitersOf(K, f) /\ Range(wque'[f]) = WaitersOf(K', f)
      BY <1>1, <1>5, RangeIsWaiters, WaitFields
    <3> QED
      BY <1>1, <1>3, <1>8, <3>1
  <2>2. \A t \in T : winfo'[t].waiptn = p
    BY <1>1, <1>2, <1>3 DEF WaitersOf
  <2>3. f \in TA_CLR /\ T # {} => flgptn'[f] = {}
    BY <1>1, <1>2 DEF Cleared
  <2> QED
    BY <1>3, <2>1, <2>2, <2>3 DEF Handed, Now
<1> QED
  BY <1>5, <1>6, <1>13, <1>14 DEF FlgInv

\* wai_flg when the condition does not hold: the running task waits for it.
LEMMA WaiFlgOK ==
  ASSUME FlgInv, NEW f \in Flg, NEW ptn \in WaiPtn, NEW mode \in WFMode,
         NEW timed \in BOOLEAN, wai_flg(f, ptn, mode, timed),
         ~Satisfied(flgptn[f], ptn, mode)
  PROVE  FlgInv'
<1> DEFINE r == runtsk
<1>1. /\ Flg \subseteq WObj /\ f \in WObj /\ flgptn \in [Flg -> SUBSET Bit]
      /\ \A t \in Task : WinfoOf(t) \in [waiptn: SUBSET Bit, wfmode: WFMode]
      /\ WaitInv /\ ptn \in SUBSET Bit /\ ptn # {}
  BY PatternTypes DEF FlgInv, WaiPtn, FLGPTN
<1>2. /\ Return(WObjMakeWait(K, f, timed)) /\ flgptn' = flgptn
      /\ winfo' = [t \in Task |-> IF t = r THEN [waiptn |-> ptn, wfmode |-> mode]
                                 ELSE WinfoOf(t)]
  BY DEF wai_flg, Poll
<1>3. WaitInv' /\ r \in Task /\ JoinsQueue(K, K', r, f)
  <2>1. CheckDispatch /\ ~tcb[runtsk].raster
    BY DEF wai_flg
  <2> QED
    BY <1>1, <1>2, <2>1, RunningJoins
<1>4. tcb' \in [Task -> TCB]
  BY <1>3, QueueTypesNext
<1>5. ASSUME NEW g \in Flg, NEW t \in WaitersOf(K', g)
      PROVE  /\ winfo'[t].waiptn # {}
             /\ ~Satisfied(flgptn'[g], winfo'[t].waiptn, winfo'[t].wfmode)
  <2>1. t \in Task /\ InQueue(tcb'[t]) /\ tcb'[t].wobj = g
    BY <1>5, WaitFields DEF WaitersOf
  <2>2. CASE t = r
    <3>1. g = f
      BY <1>3, <2>1, <2>2, WaitFields DEF JoinsQueue
    <3>2. winfo'[t] = [waiptn |-> ptn, wfmode |-> mode]
      BY <1>2, <2>1, <2>2
    <3> QED
      BY <1>1, <1>2, <3>1, <3>2
  <2>3. CASE t # r
    <3>1. SameWait(tcb[t], tcb'[t])
      BY <1>3, <2>1, <2>3, WaitFields DEF JoinsQueue, OthersWait
    <3>2. t \in WaitersOf(K, g)
      BY <2>1, <3>1, WaitFields DEF SameWait, WaitersOf
    <3>3. IsWaiting(tcb'[t].tstat)
      BY <1>4, <2>1, StateWaits
    <3>4. winfo'[t] = winfo[t]
      BY <1>2, <2>1, <2>3, <3>3 DEF WinfoOf
    <3> QED
      BY <1>2, <3>2, <3>4 DEF FlgInv, Awaited
  <2> QED
    BY <2>2, <2>3
<1>6. winfo' \in [Task -> [waiptn: SUBSET Bit, wfmode: WFMode]]
  <2>1. [waiptn |-> ptn, wfmode |-> mode] \in [waiptn: SUBSET Bit, wfmode: WFMode]
    BY <1>1
  <2> QED
    BY <1>1, <1>2, <2>1
<1>7. Awaited'
  BY <1>1, <1>2, <1>5, <1>6 DEF Awaited
<1> QED
  BY <1>3, <1>7 DEF FlgInv

\* ini_flg releases all the waiters.
LEMMA IniFlgOK ==
  ASSUME FlgInv, NEW f \in Flg, ini_flg(f)
  PROVE  FlgInv'
<1>1. /\ Flg \subseteq WObj /\ f \in WObj /\ flgptn \in [Flg -> SUBSET Bit]
      /\ IFlgPtn \in [Flg -> SUBSET Bit]
      /\ winfo \in [Task -> [waiptn: SUBSET Bit, wfmode: WFMode]]
      /\ \A t \in Task : WinfoOf(t) \in [waiptn: SUBSET Bit, wfmode: WFMode]
      /\ WaitInv /\ WaitsExact(K) /\ wque \in [WObj -> Seq(Task)] /\ K.wque = wque
  BY PatternTypes, QueueTypes DEF FlgInv
<1>2. Return(InitWaitQueue(K, f)) /\ flgptn' = [flgptn EXCEPT ![f] = IFlgPtn[f]] /\ WinfoKept
  BY DEF ini_flg
<1>3. WaitInv' /\ wque' = [wque EXCEPT ![f] = << >>]
  BY <1>1, <1>2, AllLeave
<1>4. WaitsExact(K') /\ tcb' \in [Task -> TCB]
  BY <1>3, QueueTypesNext
<1>5. \A w \in WObj : Range(wque[w]) = WaitersOf(K, w) /\ Range(wque'[w]) = WaitersOf(K', w)
  BY <1>1, <1>4, RangeIsWaiters, WaitFields
<1>6. WaitersOf(K', f) = {} /\ \A w \in WObj \ {f} : WaitersOf(K', w) = WaitersOf(K, w)
  <2>1. wque'[f] = << >> /\ \A w \in WObj \ {f} : wque'[w] = wque[w]
    BY <1>1, <1>3
  <2>2. Range(wque'[f]) = {} /\ \A w \in WObj \ {f} : Range(wque'[w]) = Range(wque[w])
    BY <2>1 DEF Range
  <2> QED
    BY <1>1, <1>5, <2>2
<1>7. \A g \in Flg : WaitersOf(K', g) \subseteq WaitersOf(K, g)
  BY <1>1, <1>6
<1>8. ASSUME NEW g \in Flg, NEW t \in WaitersOf(K', g)
      PROVE  ~Satisfied(flgptn'[g], winfo[t].waiptn, winfo[t].wfmode)
  <2>1. g # f /\ flgptn'[g] = flgptn[g] /\ t \in WaitersOf(K, g)
    BY <1>1, <1>2, <1>6, <1>8
  <2> QED
    BY <2>1 DEF FlgInv, Awaited
<1>9. flgptn' \in [Flg -> SUBSET Bit]
  BY <1>1, <1>2
<1>10. /\ winfo' \in [Task -> [waiptn: SUBSET Bit, wfmode: WFMode]]
       /\ \A t \in Task : IsWaiting(tcb'[t].tstat) => winfo'[t] = winfo[t]
  BY <1>1, <1>2 DEF WinfoKept, WinfoOf
<1>11. Awaited'
  BY <1>4, <1>7, <1>8, <1>9, <1>10, AwaitedKept
<1> QED
  BY <1>3, <1>11 DEF FlgInv

\* Every step preserves the invariant.
LEMMA FlgNextOK == FlgInv /\ [FlgNext]_evars => FlgInv'
<1> SUFFICES ASSUME FlgInv, [FlgNext]_evars PROVE FlgInv'
  OBVIOUS
<1>1. flgptn \in [Flg -> SUBSET Bit]
  BY PatternTypes
<1>2. CASE UNCHANGED evars
  <2>1. flgptn' = flgptn /\ winfo' = winfo /\ UNCHANGED vars
    BY <1>2 DEF evars, fvars
  <2> QED
    BY <1>1, <2>1, CoreFlgOK
<1>3. CASE Next /\ FlgKept
  BY <1>1, <1>3, CoreFlgOK DEF FlgKept
<1>4. ASSUME NEW f \in Flg, NEW ptn \in FLGPTN, clr_flg(f, ptn) PROVE FlgInv'
  BY <1>1, <1>4, CoreFlgOK DEF clr_flg
<1>5. ASSUME NEW f \in Flg, NEW ptn, NEW mode, Poll(f, ptn, mode) PROVE FlgInv'
  BY <1>1, <1>5, CoreFlgOK DEF Poll, Cleared
<1>6. ASSUME NEW f \in Flg, NEW ptn \in WaiPtn, NEW mode \in WFMode, NEW timed \in BOOLEAN,
             wai_flg(f, ptn, mode, timed)
      PROVE  FlgInv'
  BY <1>5, <1>6, WaiFlgOK DEF wai_flg
<1> QED
  BY <1>2, <1>3, <1>4, <1>5, <1>6, SetFlgOK, IniFlgOK DEF FlgNext, FlgCall, pol_flg

\* The invariant holds in every reachable state.
LEMMA FlgInvariantHolds == FlgSpec => []FlgInv
BY FlgInitOK, FlgNextOK, PTL DEF FlgSpec

\* THEOREM: no task waits for a pattern that the flag has: set_flg, which walks
\* the queue once while it releases and clears, leaves no satisfied waiter behind.
THEOREM NoSatisfiedWaiterCorrect == FlgSpec => []NoSatisfiedWaiter
<1>1. FlgInv => NoSatisfiedWaiter
  BY PatternTypes, RangeIsWaiters, QueueTypes DEF FlgInv, Awaited, NoSatisfiedWaiter
<1> QED
  BY <1>1, FlgInvariantHolds, PTL

\* THEOREM: a task that set_flg releases is handed a pattern that satisfies what
\* it waited for, although WINFO_FLG holds both in one field.
THEOREM ReleasedWithPatternCorrect == FlgSpec => ReleasedWithPattern
<1> DEFINE P == \A f \in Flg : \A t \in Range(wque[f]) \ Range(wque'[f]) :
                  (\E ptn \in FLGPTN : set_flg(f, ptn)) =>
                    Satisfied(winfo'[t].waiptn, winfo[t].waiptn, winfo[t].wfmode)
<1>1. FlgInv => P
  BY SetFlgOK DEF Handed
<1> QED
  BY <1>1, FlgInvariantHolds, PTL DEF ReleasedWithPattern

\* THEOREM: one event on a TA_CLR flag is consumed by one task, and leaves the
\* flag clear.
THEOREM EventConsumedOnceCorrect == FlgSpec => EventConsumedOnce
<1> DEFINE P == \A f \in TA_CLR :
                  LET gone == Range(wque[f]) \ Range(wque'[f])
                  IN  gone # {} /\ (\E ptn \in FLGPTN : set_flg(f, ptn)) =>
                        Cardinality(gone) = 1 /\ flgptn'[f] = {}
<1>1. FlgInv => P
  <2> SUFFICES ASSUME FlgInv, NEW f \in TA_CLR, NEW setptn \in FLGPTN, set_flg(f, setptn),
                      Range(wque[f]) \ Range(wque'[f]) # {}
               PROVE  /\ Cardinality(Range(wque[f]) \ Range(wque'[f])) = 1
                      /\ flgptn'[f] = {}
    OBVIOUS
  <2>1. PICK T, p : Handed(f, T, p)
    BY PatternTypes, SetFlgOK
  <2>2. Range(wque[f]) \ Range(wque'[f]) = T /\ T # {}
    BY <2>1 DEF Handed
  <2>3. flgptn'[f] = {} /\ \E t \in T : T = {t}
    BY <2>1, <2>2 DEF Handed
  <2>4. PICK t : T = {t}
    BY <2>3
  <2>5. Cardinality({t}) = 1
    BY FS_Singleton
  <2> QED
    BY <2>2, <2>3, <2>4, <2>5
<1> QED
  BY <1>1, FlgInvariantHolds, PTL DEF EventConsumedOnce

-----------------------------------------------------------------------------
(* Mutexes.  A task that ends has left every queue when its mutexes are    *)
(* released, while its control block still says in which state it was.     *)

AsEnded(b) == [b EXCEPT !.tstat = {}, !.wobj = NULL]

\* The kernel state s in which the task x, if there is one, is as good as dormant.
View(s, x) == [s EXCEPT !.tcb = [v \in Task |-> IF v = x THEN AsEnded(s.tcb[v]) ELSE s.tcb[v]]]

TasksOKBut(s, x) == \A v \in Task \ {x} : TcbOK(v, s.tcb[v], v \in s.tmevt)

\* z comes from s by operations between which the task x is ending.
Chain(s, z, x) ==
  /\ Sound(s, z) /\ Agree(z, Place(View(z, x))) /\ WaitsExact(View(z, x))
  /\ SchedtskExact(s) => SchedtskExact(z)
  /\ TasksOKBut(z, x)
  /\ \A v \in Task \ {x} : MustEnd(z.tcb[v]) => MustEnd(s.tcb[v])

\* A view has the types of the state and differs in one task only.
LEMMA ViewFacts ==
  ASSUME NEW s, WellTyped(s), NEW x
  PROVE  LET y == View(s, x)
         IN  /\ WellTyped(y) /\ y.wque = s.wque /\ y.tmevt = s.tmevt
             /\ y.tcb \in [Task -> TCB]
             /\ \A v \in Task \ {x} : y.tcb[v] = s.tcb[v]
             /\ x \in Task => y.tcb[x] = AsEnded(s.tcb[x]) /\ ~InQueue(y.tcb[x])
             /\ IsPlacement(Place(y))
             /\ \A v \in Task \ {x} : Place(y)[v] = PlaceOf(s.tcb[v])
             /\ x \in Task => Place(y)[x] = 0
             /\ x \notin Task => y = s
<1> DEFINE f == [v \in Task |-> IF v = x THEN AsEnded(s.tcb[v]) ELSE s.tcb[v]]
           y == View(s, x)
<1>1. s \in KState /\ s.tcb \in [Task -> TCB]
  BY DEF WellTyped, KState
<1>2. f \in [Task -> TCB]
  <2> SUFFICES ASSUME NEW v \in Task PROVE f[v] \in TCB
    OBVIOUS
  <2>1. s.tcb[v] \in TCB
    BY <1>1
  <2>2. AsEnded(s.tcb[v]) \in TCB
    BY <2>1, StatesType DEF AsEnded, TCB
  <2> QED
    BY <2>1, <2>2
<1>3. \A v \in Task : f[v] = IF v = x THEN AsEnded(s.tcb[v]) ELSE s.tcb[v]
  OBVIOUS
<1>4. y = [s EXCEPT !.tcb = f]
  BY DEF View
<1>5. x \notin Task => f = s.tcb
  BY <1>1
<1> HIDE DEF f
<1>6. /\ y.wque = s.wque /\ y.tmevt = s.tmevt /\ y.tcb = f /\ y \in KState
      /\ y.primap = s.primap /\ y.ready = s.ready
  BY <1>1, <1>2, <1>4 DEF KState
<1>7. WellTyped(y)
  BY <1>6 DEF WellTyped
<1>8. x \in Task => f[x] = AsEnded(s.tcb[x]) /\ f[x].tstat = {}
  BY <1>1, <1>3 DEF AsEnded, TCB
<1>9. x \notin Task => y = s
  BY <1>1, <1>4, <1>5 DEF KState
<1> HIDE DEF y
<1>10. \A v \in Task : Place(y)[v] = PlaceOf(f[v])
  BY <1>6 DEF Place
<1>11. IsPlacement(Place(y))
  <2>1. \A v \in Task : PlaceOf(f[v]) \in Pri \union {0}
    BY <1>2 DEF PlaceOf, TCB
  <2> QED
    BY <1>6, <2>1 DEF IsPlacement, Place
<1>12. x \in Task => Place(y)[x] = 0
  BY <1>8, <1>10 DEF PlaceOf, IsRunnable
<1> QED
  BY <1>2, <1>3, <1>6, <1>7, <1>8, <1>9, <1>10, <1>11, <1>12 DEF InQueue, y

\* A task in a wait queue is neither the one that ends nor runnable.
LEMMA WaiterFacts ==
  ASSUME NEW s, WellTyped(s), NEW x, WaitsExact(View(s, x)), NEW w \in WObj, s.wque[w] # << >>
  PROVE  LET h == Head(s.wque[w])
         IN  /\ h \in Task /\ h # x /\ InQueue(s.tcb[h]) /\ s.tcb[h].wobj = w
             /\ ~IsRunnable(s.tcb[h].tstat) /\ IsWaiting(s.tcb[h].tstat)
             /\ s.wque[w] \in Seq(Task) /\ Without(s.wque[w], h) = Tail(s.wque[w])
<1> DEFINE y == View(s, x)
           q == s.wque[w]
           h == Head(q)
<1>1. /\ y.wque = s.wque /\ y.tcb \in [Task -> TCB]
      /\ \A v \in Task \ {x} : y.tcb[v] = s.tcb[v]
      /\ x \in Task => ~InQueue(y.tcb[x])
  BY ViewFacts
<1> HIDE DEF y
<1>2. q \in Seq(Task) /\ IsQueue(q, WaitersOf(y, w))
  BY <1>1 DEF WellTyped, KState, WaitsExact, y
<1>3. h \in WaitersOf(y, w) /\ Without(q, h) = Tail(q)
  BY <1>2, HeadInQueue, WithoutFirst
<1>4. h \in Task /\ InQueue(y.tcb[h]) /\ y.tcb[h].wobj = w
  BY <1>3 DEF WaitersOf
<1>5. h # x /\ s.tcb[h] = y.tcb[h] /\ s.tcb[h] \in TCB
  BY <1>1, <1>4
<1> QED
  BY <1>2, <1>3, <1>4, <1>5, StateWaits

\* Like Effect, but with the places of the tasks in the ready queues given.
EffectAt(s, z, t, b, T, W, pl) ==
  /\ Sound(s, z) /\ AgreeAfter(s, z, pl)
  /\ z.tcb = [s.tcb EXCEPT ![t] = b]
  /\ z.tmevt = T /\ z.wque = W

\* One such operation after another.
LEMMA EffectAtTrans ==
  ASSUME NEW s, NEW z, NEW x, NEW t \in Task, NEW b, NEW c, NEW T, NEW U, NEW W, NEW V,
         NEW pl, NEW pl2, EffectAt(s, z, t, b, T, W, pl), EffectAt(z, x, t, c, U, V, pl2)
  PROVE  EffectAt(s, x, t, c, U, V, pl2)
<1>1. x.tcb = [s.tcb EXCEPT ![t] = c]
  BY DEF EffectAt
<1> QED
  BY <1>1, SoundTrans DEF EffectAt, AgreeAfter

\* Changing what the scheduler does not read.
LEMMA OtherEffectAt ==
  ASSUME NEW s, NEW pl, Agree(s, pl), NEW t \in Task, NEW z, Sound(s, z),
         z.tcb = s.tcb, z.ready = s.ready, z.primap = s.primap, z.predtsk = s.predtsk,
         z.schedtsk = s.schedtsk
  PROVE  EffectAt(s, z, t, s.tcb[t], z.tmevt, z.wque, pl)
<1>1. s.tcb \in [Task -> TCB] /\ s \in KState
  BY DEF Agree, WellTyped, KState
<1>2. Agree(z, pl)
  BY FrameExact DEF Sound
<1>3. SchedtskExact(s) => SchedtskExact(z)
  BY <1>1, SelectedSame DEF SchedtskExact, Sound, KeepsSched
<1>4. z.tcb = [s.tcb EXCEPT ![t] = s.tcb[t]]
  BY <1>1
<1> QED
  BY <1>2, <1>3, <1>4 DEF EffectAt, AgreeAfter

\* Changing the control block of a task that is in no ready queue.
LEMMA TcbEffectAt ==
  ASSUME NEW s, NEW pl, Agree(s, pl), NEW t \in Task, NEW b \in TCB, pl[t] = 0
  PROVE  EffectAt(s, TcbSet(s, t, b), t, b, s.tmevt, s.wque, pl)
<1> DEFINE z == TcbSet(s, t, b)
<1>1. WellTyped(s)
  BY DEF Agree
<1>2. /\ WellTyped(z) /\ KeepsSched(s, z) /\ z.tcb = [s.tcb EXCEPT ![t] = b]
      /\ z.tmevt = s.tmevt /\ z.wque = s.wque
  BY <1>1, TcbFields
<1>3. AgreeAfter(s, z, pl)
  BY TcbExact
<1> QED
  BY <1>2, <1>3 DEF EffectAt, Sound

\* make_non_wait.
LEMMA MakeNonWaitEffectAt ==
  ASSUME NEW s, NEW pl, Agree(s, pl), NEW t \in Task, pl[t] = 0, ~IsRunnable(s.tcb[t].tstat)
  PROVE  LET c == Released(s.tcb[t])
         IN  EffectAt(s, MakeNonWait(s, t), t, c, s.tmevt, s.wque, Put(pl, t, PlaceOf(c)))
<1> DEFINE b == s.tcb[t]
           c == Released(b)
           y == TcbSet(s, t, c)
<1>1. WellTyped(s) /\ b \in TCB /\ IsPlacement(pl)
  BY TaskFacts DEF Agree, AtPriority
<1>2. c \in TCB
  BY <1>1, StatesType DEF TCB, Released
<1>3. EffectAt(s, y, t, c, s.tmevt, s.wque, pl)
  BY <1>2, TcbEffectAt
<1>4. CASE IsSuspended(b.tstat)
  <2>1. c.tstat = {"SUSPENDED"}
    BY <1>1, <1>4 DEF TCB, Released
  <2>2. PlaceOf(c) = 0
    BY <2>1 DEF PlaceOf, IsRunnable
  <2>3. MakeNonWait(s, t) = y
    BY <1>4 DEF MakeNonWait, TcbSet, Released
  <2>4. Put(pl, t, 0) = pl
    BY <1>1 DEF Put, IsPlacement
  <2> QED
    BY <1>3, <2>2, <2>3, <2>4
<1>5. CASE ~IsSuspended(b.tstat)
  <2>1. IsRunnable(c.tstat)
    BY <1>1, <1>5 DEF TCB, Released, IsRunnable
  <2>2. MakeNonWait(s, t) = MakeRunnable(y, t)
    BY <1>5 DEF MakeNonWait, TcbSet, Released
  <2> DEFINE z == MakeRunnable(y, t)
  <2>3. s.tcb \in [Task -> TCB]
    BY <1>1 DEF WellTyped, KState
  <2> HIDE DEF y, c
  <2>4. Agree(y, pl) /\ y.tcb[t] = c /\ WellTyped(y) /\ Sound(s, y)
        /\ (SchedtskExact(s) => SchedtskExact(y))
        /\ y.tcb = [s.tcb EXCEPT ![t] = c] /\ y.tmevt = s.tmevt /\ y.wque = s.wque
    BY <1>3, <2>3 DEF EffectAt, AgreeAfter, Sound
  <2>5. AgreeAfter(y, z, Put(pl, t, c.pri)) /\ SameTasks(y, z)
    <3>1. /\ AgreeAfter(y, MakeRunnable(y, t), Put(pl, t, y.tcb[t].pri))
          /\ SameTasks(y, MakeRunnable(y, t))
      BY <2>4, MakeRunnableExact
    <3> QED
      BY <2>4, <3>1
  <2>6. Sound(y, z)
    BY <2>4, MakeRunnableSound
  <2>7. PlaceOf(c) = c.pri
    BY <2>1 DEF PlaceOf
  <2> HIDE DEF z
  <2>8. Sound(s, z)
    BY <2>4, <2>6, SoundTrans
  <2>9. EffectAt(s, z, t, c, s.tmevt, s.wque, Put(pl, t, PlaceOf(c)))
    BY <2>4, <2>5, <2>7, <2>8 DEF EffectAt, AgreeAfter, SameTasks
  <2> QED
    BY <2>2, <2>9 DEF z, c
<1> QED
  BY <1>4, <1>5

OthersSame(s, z, t) == \A v \in Task \ {t} : z.tcb[v] = s.tcb[v]

\* The view of z is that of s, but for the task t.
ViewChanges(s, z, x, t) ==
  /\ Place(View(z, x)) = Put(Place(View(s, x)), t, PlaceOf(z.tcb[t]))
  /\ \A v \in Task \ {t} : View(z, x).tcb[v] = View(s, x).tcb[v]
  /\ View(z, x).tcb[t] = z.tcb[t]

\* The places after a task other than x has changed.
LEMMA ViewPlace ==
  ASSUME NEW s, WellTyped(s), NEW z, WellTyped(z), NEW x, NEW t \in Task, t # x,
         OthersSame(s, z, t)
  PROVE  ViewChanges(s, z, x, t)
<1> DEFINE y == View(s, x)
           w == View(z, x)
<1>1. /\ y.tcb \in [Task -> TCB] /\ \A v \in Task \ {x} : y.tcb[v] = s.tcb[v]
      /\ x \in Task => y.tcb[x] = AsEnded(s.tcb[x])
  BY ViewFacts
<1>2. /\ w.tcb \in [Task -> TCB] /\ \A v \in Task \ {x} : w.tcb[v] = z.tcb[v]
      /\ x \in Task => w.tcb[x] = AsEnded(z.tcb[x])
  BY ViewFacts
<1> HIDE DEF y, w
<1>3. \A v \in Task : w.tcb[v] = IF v = t THEN z.tcb[t] ELSE y.tcb[v]
  BY <1>1, <1>2 DEF OthersSame
<1>4. Place(w) = Put(Place(y), t, PlaceOf(z.tcb[t]))
  BY <1>3 DEF Place, Put
<1> QED
  BY <1>3, <1>4 DEF y, w, ViewChanges

\* The waiter t leaves the queue of m with the priority p.
LeaveAt(k, t, m, p) ==
  LET k1 == [k EXCEPT !.wque[m] = Tail(@), !.tcb[t].wobj = NULL, !.tcb[t].pri = p]
  IN  MakeNonWait(WaitDequeueTmevtb(k1, t), t)

\* The control block of the new owner.
OwnerTcb(b, p) == Released(AtPri(Unbound(b), p))

\* The control block of a waiter that becomes the owner.
LEMMA OwnerTcbFacts ==
  ASSUME NEW b \in TCB, NEW t, IsWaiting(b.tstat), NEW p \in Pri, b.raster = FALSE
  PROVE  LET c == OwnerTcb(b, p)
         IN  /\ AtPri(Unbound(b), p) \in TCB /\ AtPri(Unbound(b), p).tstat = b.tstat
             /\ c \in TCB /\ c.wobj = NULL /\ c.pri = p /\ c.bpri = b.bpri /\ c.raster = FALSE
             /\ TcbOK(t, c, FALSE) /\ ~MustEnd(c) /\ ~InQueue(c) /\ ~IsDormant(c.tstat)
<1> DEFINE d == AtPri(Unbound(b), p)
           c == OwnerTcb(b, p)
<1>1. /\ d \in TCB /\ d.tstat = b.tstat /\ d.wobj = NULL /\ d.pri = p /\ d.bpri = b.bpri
      /\ d.raster = FALSE
  BY DEF TCB, AtPri, Unbound
<1>2. c = Released(d)
  BY DEF OwnerTcb
<1> HIDE DEF d, c
<1>3. /\ c.wobj = NULL /\ c.pri = p /\ c.bpri = b.bpri /\ c.raster = FALSE
      /\ c.tstat \in {{"SUSPENDED"}, {"RUNNABLE"}}
  BY <1>1, <1>2 DEF TCB, Released
<1>4. c \in TCB
  BY <1>1, <1>2, StatesType DEF TCB, Released
<1>5. TcbOK(t, c, FALSE) /\ ~MustEnd(c) /\ ~InQueue(c) /\ ~IsDormant(c.tstat)
  BY <1>3, FlagFacts DEF TcbOK, MustEnd, InQueue
<1> QED
  BY <1>1, <1>3, <1>4, <1>5 DEF d, c

\* The head of the queue of m leaves it with the priority p.
LEMMA LeaveEffectAt ==
  ASSUME NEW s, NEW x, WellTyped(s), Agree(s, Place(View(s, x))), WaitsExact(View(s, x)),
         TasksOKBut(s, x),
         NEW m \in WObj, s.wque[m] # << >>, NEW p \in Pri
  PROVE  LET t == Head(s.wque[m])
             z == LeaveAt(s, t, m, p)
             c == OwnerTcb(s.tcb[t], p)
         IN  /\ EffectAt(s, z, t, c, s.tmevt \ {t}, [s.wque EXCEPT ![m] = Tail(@)],
                         Place(View(z, x)))
             /\ t \in Task /\ t # x /\ InQueue(s.tcb[t]) /\ s.tcb[t].wobj = m
             /\ WaitsExact(View(z, x))
<1> DEFINE t == Head(s.wque[m])
           q == Tail(s.wque[m])
           z == LeaveAt(s, t, m, p)
           b == s.tcb[t]
           d == AtPri(Unbound(b), p)
           c == OwnerTcb(b, p)
           W == [s.wque EXCEPT ![m] = q]
           pl == Place(View(s, x))
           y1 == [s EXCEPT !.wque = W]
           y2 == TcbSet(y1, t, d)
           y3 == WaitDequeueTmevtb(y2, t)
<1>1. /\ t \in Task /\ t # x /\ InQueue(b) /\ b.wobj = m
      /\ ~IsRunnable(b.tstat) /\ IsWaiting(b.tstat)
      /\ s.wque[m] \in Seq(Task) /\ Without(s.wque[m], t) = q
  BY WaiterFacts
<1>2. s \in KState /\ b \in TCB
  BY <1>1 DEF WellTyped, KState
<1>3. TcbOK(t, b, t \in s.tmevt) /\ b.raster = FALSE
  <2>1. TcbOK(t, b, t \in s.tmevt)
    BY <1>1 DEF TasksOKBut
  <2> QED
    BY <1>1, <1>2, <2>1 DEF TcbOK, TCB
<1>4. q \in Seq(Task)
  BY <1>1, WithoutType
<1>5. d \in TCB /\ d.tstat = b.tstat /\ ~InQueue(c) /\ c = Released(d)
  BY <1>2, <1>1, <1>3, OwnerTcbFacts DEF OwnerTcb
<1>6. pl[t] = 0
  <2>1. pl[t] = PlaceOf(s.tcb[t])
    BY <1>1, ViewFacts
  <2> QED
    BY <1>1, <2>1 DEF PlaceOf
<1> HIDE DEF pl, q, t
<1>7. z = MakeNonWait(y3, t)
  <2>1. W \in [WObj -> Seq(Task)]
    BY <1>2, <1>4 DEF KState
  <2>2. [s EXCEPT !.wque[m] = q, !.tcb[t].wobj = NULL, !.tcb[t].pri = p] = y2
    BY <1>1, <1>2 DEF KState, TCB, TcbSet, AtPri, Unbound
  <2>3. [s EXCEPT !.wque[m] = Tail(@), !.tcb[t].wobj = NULL, !.tcb[t].pri = p]
          = [s EXCEPT !.wque[m] = q, !.tcb[t].wobj = NULL, !.tcb[t].pri = p]
    BY <1>2 DEF q
  <2> QED
    BY <2>2, <2>3 DEF LeaveAt
<1>8. EffectAt(s, y1, t, b, s.tmevt, W, pl)
  <2>1. Sound(s, y1)
    <3>1. Sound(s, [s EXCEPT !.wque[m] = q])
      BY <1>4, WqueSound
    <3>2. [s EXCEPT !.wque[m] = q] = y1
      BY <1>2 DEF KState
    <3> QED
      BY <3>1, <3>2
  <2>2. /\ y1.tcb = s.tcb /\ y1.ready = s.ready /\ y1.primap = s.primap
        /\ y1.predtsk = s.predtsk /\ y1.schedtsk = s.schedtsk
        /\ y1.wque = W /\ y1.tmevt = s.tmevt
    BY <1>2 DEF KState
  <2> HIDE DEF y1, W
  <2>3. EffectAt(s, y1, t, s.tcb[t], y1.tmevt, y1.wque, pl)
    BY <1>1, <2>1, <2>2, OtherEffectAt DEF pl
  <2> QED
    BY <2>2, <2>3
<1> HIDE DEF y1, W, d, c
<1>9. Agree(y1, pl) /\ y1.tmevt = s.tmevt /\ y1.wque = W
  BY <1>8 DEF EffectAt, AgreeAfter
<1>10. EffectAt(y1, y2, t, d, s.tmevt, W, pl)
  BY <1>1, <1>5, <1>6, <1>9, TcbEffectAt
<1> HIDE DEF y2
<1>11. EffectAt(s, y2, t, d, s.tmevt, W, pl)
  BY <1>1, <1>8, <1>10, EffectAtTrans
<1>12. Agree(y2, pl) /\ y2.tcb[t] = d /\ y2.tmevt = s.tmevt /\ y2.wque = W
  BY <1>1, <1>2, <1>11 DEF EffectAt, AgreeAfter, KState
<1>13. EffectAt(y2, y3, t, d, s.tmevt \ {t}, W, pl)
  <2>1. WellTyped(y2) /\ y2 \in KState
    BY <1>12 DEF Agree, WellTyped
  <2>2. Sound(y2, y3)
    BY <1>1, <2>1, WaitDequeueSound
  <2>3. /\ y3.tcb = y2.tcb /\ y3.ready = y2.ready /\ y3.primap = y2.primap
        /\ y3.predtsk = y2.predtsk /\ y3.schedtsk = y2.schedtsk
        /\ y3.wque = W /\ y3.tmevt = s.tmevt \ {t}
    BY <1>12, <2>1 DEF KState, WaitDequeueTmevtb
  <2> HIDE DEF y3
  <2>4. EffectAt(y2, y3, t, y2.tcb[t], y3.tmevt, y3.wque, pl)
    BY <1>1, <1>12, <2>2, <2>3, OtherEffectAt
  <2> QED
    BY <1>12, <2>3, <2>4
<1> HIDE DEF y3
<1>14. EffectAt(s, y3, t, d, s.tmevt \ {t}, W, pl)
  BY <1>1, <1>11, <1>13, EffectAtTrans
<1>15. Agree(y3, pl) /\ y3.tcb[t] = d /\ y3.tmevt = s.tmevt \ {t} /\ y3.wque = W
  BY <1>1, <1>2, <1>14 DEF EffectAt, AgreeAfter, KState
<1>16. EffectAt(y3, z, t, c, s.tmevt \ {t}, W, Put(pl, t, PlaceOf(c)))
  <2>1. ~IsRunnable(y3.tcb[t].tstat)
    BY <1>1, <1>5, <1>15
  <2>2. LET e == Released(y3.tcb[t])
        IN  EffectAt(y3, MakeNonWait(y3, t), t, e, y3.tmevt, y3.wque, Put(pl, t, PlaceOf(e)))
    BY <1>1, <1>6, <1>15, <2>1, MakeNonWaitEffectAt
  <2> QED
    BY <1>5, <1>7, <1>15, <2>2
<1> HIDE DEF z
<1>17. EffectAt(s, z, t, c, s.tmevt \ {t}, W, Put(pl, t, PlaceOf(c)))
  BY <1>1, <1>14, <1>16, EffectAtTrans
<1>18. /\ z.tcb[t] = c /\ \A v \in Task \ {t} : z.tcb[v] = s.tcb[v]
       /\ z.wque = W /\ WellTyped(z)
  BY <1>1, <1>2, <1>17 DEF EffectAt, Sound, KState
<1>19. /\ Place(View(z, x)) = Put(pl, t, PlaceOf(c))
       /\ View(z, x).tcb[t] = c
       /\ \A v \in Task \ {t} : View(z, x).tcb[v] = View(s, x).tcb[v]
  <2>1. ViewChanges(s, z, x, t)
    BY <1>1, <1>18, ViewPlace DEF OthersSame
  <2> QED
    BY <1>18, <2>1 DEF pl, ViewChanges
<1>20. WaitsExact(View(z, x))
  <2> DEFINE u == View(s, x)
             v == View(z, x)
  <2>1. /\ WellTyped(u) /\ u.wque = s.wque /\ u.tcb[t] = b
    <3>1. /\ WellTyped(u) /\ u.wque = s.wque /\ \A w \in Task \ {x} : u.tcb[w] = s.tcb[w]
      BY ViewFacts
    <3> QED
      BY <1>1, <3>1
  <2>2. v.wque = z.wque
    BY <1>18, ViewFacts
  <2>3. v.tcb[t] = c /\ \A w \in Task \ {t} : v.tcb[w] = u.tcb[w]
    BY <1>19
  <2>4. WaitsExact(u)
    OBVIOUS
  <2> HIDE DEF u, v
  <2>5. OthersWait(u, v, t)
    BY <2>3 DEF OthersWait, SameWait
  <2>6. v.wque = [u.wque EXCEPT ![u.tcb[t].wobj] = Without(@, t)]
    BY <1>1, <1>18, <2>1, <2>2, <1>2 DEF W, q, KState
  <2>7. LeavesQueue(u, v, t)
    BY <1>1, <1>5, <2>1, <2>3, <2>5, <2>6 DEF LeavesQueue
  <2>8. WaitsExact(v)
    BY <1>1, <2>1, <2>4, <2>7, LeavesQueueExact
  <2> QED
    BY <2>8 DEF v
<1>21. W = [s.wque EXCEPT ![m] = Tail(@)]
  BY <1>2 DEF W, q, KState
<1> QED
  BY <1>1, <1>17, <1>19, <1>20, <1>21 DEF z, c, t, b

\* Of s and a later state z: the waiter t, which was first in the queue of m, has
\* left it with the priority p.
HasLeft(s, z, t, m, p) ==
  /\ t \in Task /\ t = Head(s.wque[m]) /\ InQueue(s.tcb[t]) /\ s.tcb[t].wobj = m
  /\ z.tcb[t] \in TCB /\ z.tcb[t].wobj = NULL /\ z.tcb[t].pri = p
  /\ z.tcb[t].bpri = s.tcb[t].bpri
  /\ ~InQueue(z.tcb[t]) /\ ~IsDormant(z.tcb[t].tstat)
  /\ OthersSame(s, z, t)
  /\ z.wque[m] = Tail(s.wque[m]) /\ \A w \in WObj \ {m} : z.wque[w] = s.wque[w]
  /\ z.tmevt = s.tmevt \ {t}

\* The same as a link of a chain.
LEMMA LeaveChain ==
  ASSUME NEW s0, NEW s, NEW x, Chain(s0, s, x), NEW m \in WObj, s.wque[m] # << >>,
         NEW p \in Pri, NEW t, t = Head(s.wque[m]), NEW z, z = LeaveAt(s, t, m, p)
  PROVE  /\ Chain(s0, z, x) /\ HasLeft(s, z, t, m, p) /\ t # x
         /\ \A v \in Task : IsRunnable(s.tcb[v].tstat) => IsRunnable(z.tcb[v].tstat)
<1> DEFINE b == s.tcb[t]
           c == OwnerTcb(b, p)
           W == [s.wque EXCEPT ![m] = Tail(@)]
<1>1. /\ WellTyped(s) /\ Agree(s, Place(View(s, x))) /\ WaitsExact(View(s, x))
      /\ TasksOKBut(s, x) /\ Sound(s0, s) /\ (SchedtskExact(s0) => SchedtskExact(s))
      /\ s \in KState
  BY DEF Chain, Agree, WellTyped
<1>2. /\ EffectAt(s, z, t, c, s.tmevt \ {t}, W, Place(View(z, x)))
      /\ t \in Task /\ t # x /\ InQueue(b) /\ b.wobj = m
      /\ WaitsExact(View(z, x))
  BY <1>1, LeaveEffectAt
<1>3. b \in TCB /\ IsWaiting(b.tstat) /\ ~IsRunnable(b.tstat)
  <2>1. b \in TCB
    BY <1>1, <1>2 DEF KState
  <2> QED
    BY <1>2, <2>1, StateWaits
<1>4. b.raster = FALSE
  BY <1>2, <1>3, <1>1 DEF TasksOKBut, TcbOK, TCB
<1>5. /\ c \in TCB /\ c.wobj = NULL /\ c.pri = p /\ c.bpri = b.bpri /\ c.raster = FALSE
      /\ TcbOK(t, c, FALSE) /\ ~MustEnd(c) /\ ~InQueue(c) /\ ~IsDormant(c.tstat)
  BY <1>2, <1>3, <1>4, OwnerTcbFacts
<1> HIDE DEF c
<1>6. /\ Sound(s, z) /\ Agree(z, Place(View(z, x))) /\ (SchedtskExact(s) => SchedtskExact(z))
      /\ z.tcb = [s.tcb EXCEPT ![t] = c] /\ z.wque = W /\ z.tmevt = s.tmevt \ {t}
  BY <1>2 DEF EffectAt, AgreeAfter
<1>7. z.tcb[t] = c /\ \A v \in Task \ {t} : z.tcb[v] = s.tcb[v]
  BY <1>1, <1>2, <1>6 DEF KState
<1>8. z.wque[m] = Tail(s.wque[m]) /\ \A w \in WObj \ {m} : z.wque[w] = s.wque[w]
  BY <1>1, <1>6 DEF KState
<1>9. HasLeft(s, z, t, m, p)
  BY <1>2, <1>5, <1>6, <1>7, <1>8 DEF HasLeft, OthersSame
<1>10. TasksOKBut(z, x)
  <2> SUFFICES ASSUME NEW v \in Task \ {x} PROVE TcbOK(v, z.tcb[v], v \in z.tmevt)
    BY DEF TasksOKBut
  <2>1. CASE v = t
    <3>1. ~(v \in z.tmevt) /\ z.tcb[v] = c
      BY <1>6, <1>7, <2>1
    <3> QED
      BY <1>5, <2>1, <3>1 DEF TcbOK
  <2>2. CASE v # t
    <3>1. TcbOK(v, s.tcb[v], v \in s.tmevt)
      BY <1>1 DEF TasksOKBut
    <3>2. z.tcb[v] = s.tcb[v] /\ (v \in z.tmevt <=> v \in s.tmevt)
      BY <1>6, <1>7, <2>2
    <3> QED
      BY <3>1, <3>2 DEF TcbOK
  <2> QED
    BY <2>1, <2>2
<1>11. \A v \in Task \ {x} : MustEnd(z.tcb[v]) => MustEnd(s0.tcb[v])
  <2> TAKE v \in Task \ {x}
  <2>1. CASE v = t
    BY <1>5, <1>7, <2>1
  <2>2. CASE v # t
    BY <1>7, <2>2 DEF Chain
  <2> QED
    BY <2>1, <2>2
<1>12. Sound(s0, z)
  BY <1>1, <1>6, SoundTrans
<1>13. Chain(s0, z, x)
  BY <1>1, <1>2, <1>6, <1>10, <1>11, <1>12 DEF Chain
<1>14. \A v \in Task : IsRunnable(s.tcb[v].tstat) => IsRunnable(z.tcb[v].tstat)
  BY <1>3, <1>7
<1> QED
  BY <1>2, <1>9, <1>13, <1>14

\* The view of a state whose task t is the one that ends.
LEMMA ViewOwn ==
  ASSUME NEW s, WellTyped(s), NEW z, WellTyped(z), NEW t \in Task, OthersSame(s, z, t)
  PROVE  Place(View(z, t)) = Put(Place(s), t, 0)
<1> DEFINE w == View(z, t)
<1>1. /\ \A v \in Task \ {t} : w.tcb[v] = z.tcb[v] /\ Place(w)[v] = PlaceOf(z.tcb[v])
      /\ Place(w)[t] = 0
  BY ViewFacts
<1>2. /\ IsPlacement(Place(w)) /\ IsPlacement(Place(s))
      /\ \A v \in Task : Place(s)[v] = PlaceOf(s.tcb[v])
  <2>1. IsPlacement(Place(w))
    BY ViewFacts
  <2>2. s.tcb[t] \in TCB
    BY DEF WellTyped, KState
  <2>3. IsPlacement(Place(s))
    BY <2>2, PlaceFacts
  <2> QED
    BY <2>1, <2>3 DEF Place
<1> HIDE DEF w
<1>3. \A v \in Task : Place(w)[v] = IF v = t THEN 0 ELSE Place(s)[v]
  BY <1>1, <1>2 DEF OthersSame
<1>4. Place(w) = Put(Place(s), t, 0)
  BY <1>2, <1>3 DEF Put, IsPlacement
<1> QED
  BY <1>4 DEF w

\* A state in which no task is ending.
Base(s) == Agree(s, Place(s)) /\ TasksOK(s) /\ WaitsExact(s)

\* The ending task t has left its ready queue or its wait queue.
LEMMA LeaveQueuesChain ==
  ASSUME NEW s, Base(s), NEW t \in Task, NEW z, z = LeaveQueues(s, t)
  PROVE  /\ Chain(s, z, t) /\ OthersSame(s, z, t)
         /\ z.tcb[t].actque = s.tcb[t].actque /\ z.tcb[t].wobj = NULL
         /\ z.tmevt = s.tmevt \ {t} /\ z.wque = Dequeued(s, t)
<1> DEFINE b == s.tcb[t]
           u == View(z, t)
<1>1. /\ Agree(s, Place(s)) /\ WellTyped(s) /\ TasksOK(s) /\ WaitsExact(s) /\ s \in KState
      /\ b \in TCB /\ TcbOK(t, b, t \in s.tmevt)
  BY DEF Base, Agree, WellTyped, KState, TasksOK
<1>2. HasWaits(s) /\ Place(s)[t] = PlaceOf(b) /\ IsPlacement(Place(s))
  <2>1. HasWaits(s)
    BY <1>1 DEF KState, HasWaits
  <2> QED
    BY <1>1, <2>1, PlaceFacts
<1>3. /\ Sound(s, z) /\ AgreeAfter(s, z, Put(Place(s), t, 0)) /\ OthersSame(s, z, t)
      /\ z.tcb[t].actque = b.actque /\ z.tcb[t].wobj = NULL
      /\ z.tmevt = s.tmevt \ {t} /\ z.wque = Dequeued(s, t)
  <2>1. CASE IsRunnable(b.tstat)
    <3>1. z = MakeNonRunnable(s, t)
      BY <2>1 DEF LeaveQueues
    <3>2. PlaceOf(b) # 0
      BY <1>1, <2>1, PlaceFacts
    <3>3. AgreeAfter(s, z, Put(Place(s), t, 0)) /\ SameTasks(s, z)
      BY <1>1, <1>2, <3>1, <3>2, MakeNonRunnableExact
    <3>4. Sound(s, z)
      BY <1>1, <3>1, MakeNonRunnableSound
    <3>5. "OBJ" \notin b.tstat /\ ~IsWaiting(b.tstat)
      BY <1>1, <2>1, StateFacts, StateWaits DEF InQueue
    <3>6. b.wobj = NULL /\ t \notin s.tmevt /\ Dequeued(s, t) = s.wque
      BY <1>1, <3>5 DEF TcbOK, Dequeued, InQueue
    <3> QED
      BY <3>3, <3>4, <3>6 DEF SameTasks, OthersSame
  <2>2. CASE ~IsRunnable(b.tstat) /\ IsWaiting(b.tstat)
    <3>1. z = WaitDequeueTmevtb(WaitDequeueWObj(s, t), t)
      BY <2>2 DEF LeaveQueues
    <3>2. "OBJ" \notin b.tstat => b.wobj = NULL
      BY <1>1 DEF TcbOK
    <3>3. PICK W : Effect(s, z, t, Unbound(b), s.tmevt \ {t}, W)
      BY <1>1, <3>1, <3>2, DequeueEffect
    <3>4. z.wque = Dequeued(s, t)
      BY <1>2, <2>2, <3>1, DequeueFrame DEF InQueue
    <3>5. /\ Sound(s, z) /\ AgreeAfter(s, z, Place(z)) /\ z.tmevt = s.tmevt \ {t}
          /\ z.tcb[t] = Unbound(b) /\ OthersSame(s, z, t)
          /\ z.tcb = [s.tcb EXCEPT ![t] = Unbound(b)]
      BY <1>1, <3>3 DEF Effect, OthersSame, KState
    <3>6. Unbound(b).wobj = NULL /\ Unbound(b).actque = b.actque /\ PlaceOf(Unbound(b)) = 0
          /\ Unbound(b) \in TCB
      BY <1>1, <2>2 DEF Unbound, TCB, PlaceOf
    <3>7. Place(z) = Put(Place(s), t, PlaceOf(Unbound(b)))
      BY <1>1, <3>5, <3>6, PlaceFacts
    <3> QED
      BY <3>4, <3>5, <3>6, <3>7
  <2>3. CASE ~IsRunnable(b.tstat) /\ ~IsWaiting(b.tstat)
    <3>1. z = s
      BY <2>3 DEF LeaveQueues
    <3>2. "OBJ" \notin b.tstat /\ t \notin s.tmevt
      BY <1>1, <2>3 DEF TcbOK, IsWaiting, WaitFlag
    <3>3. b.wobj = NULL /\ Dequeued(s, t) = s.wque /\ s.tmevt = s.tmevt \ {t}
      BY <1>1, <3>2 DEF TcbOK, Dequeued, InQueue
    <3>4. Put(Place(s), t, 0) = Place(s)
      BY <1>2, <2>3 DEF PlaceOf, Put, IsPlacement
    <3>5. Sound(s, s)
      BY <1>1 DEF Sound, KeepsSched
    <3> QED
      BY <1>1, <3>1, <3>3, <3>4, <3>5 DEF AgreeAfter, OthersSame
  <2> QED
    BY <2>1, <2>2, <2>3
<1>4. WellTyped(z) /\ Place(u) = Put(Place(s), t, 0)
  <2>1. WellTyped(z)
    BY <1>3 DEF Sound
  <2> QED
    BY <1>1, <1>3, <2>1, ViewOwn
<1>5. /\ u.wque = Dequeued(s, t) /\ \A v \in Task \ {t} : u.tcb[v] = s.tcb[v]
      /\ ~InQueue(u.tcb[t])
  <2>1. /\ u.wque = z.wque /\ \A v \in Task \ {t} : u.tcb[v] = z.tcb[v]
        /\ ~InQueue(u.tcb[t])
    BY <1>4, ViewFacts
  <2> QED
    BY <1>3, <2>1 DEF OthersSame
<1> HIDE DEF u
<1>6. WaitsExact(u)
  <2>1. OthersWait(s, u, t)
    BY <1>5 DEF OthersWait, SameWait
  <2>2. CASE InQueue(b)
    <3>1. LeavesQueue(s, u, t)
      BY <1>5, <2>1, <2>2 DEF LeavesQueue, Dequeued
    <3> QED
      BY <1>1, <3>1, LeavesQueueExact
  <2>3. CASE ~InQueue(b)
    <3>1. KeepsWaits(s, u)
      BY <1>5, <2>1, <2>3 DEF KeepsWaits, Dequeued, OthersWait, SameWait
    <3> QED
      BY <1>1, <3>1, KeepsWaitsExact
  <2> QED
    BY <2>2, <2>3
<1>7. TasksOKBut(z, t)
  BY <1>1, <1>3 DEF TasksOK, TasksOKBut, OthersSame, TcbOK
<1>8. Chain(s, z, t)
  BY <1>3, <1>4, <1>6, <1>7 DEF Chain, AgreeAfter, OthersSame, u
<1> QED
  BY <1>3, <1>8

\* The ending task t becomes dormant, or starts again.
LEMMA BecomeDormantChain ==
  ASSUME NEW s0, NEW s, NEW t \in Task, Chain(s0, s, t), t \notin s.tmevt, s.tcb[t].wobj = NULL,
         NEW z, z = BecomeDormant(s, t)
  PROVE  /\ Chain(s0, z, NULL) /\ OthersSame(s, z, t) /\ ~MustEnd(z.tcb[t])
         /\ z.tcb[t].pri = IniPri[t] /\ z.tcb[t].bpri = IniPri[t] /\ z.tcb[t].wobj = NULL
         /\ ~InQueue(z.tcb[t])
         /\ z.tmevt = s.tmevt /\ z.wque = s.wque
<1> DEFINE b == s.tcb[t]
           c == Terminated(b, t)
           u == View(s, t)
<1>1. /\ WellTyped(s) /\ Agree(s, Place(u)) /\ WaitsExact(u) /\ TasksOKBut(s, t) /\ Sound(s0, s)
      /\ (SchedtskExact(s0) => SchedtskExact(s)) /\ s \in KState /\ b \in TCB
  BY DEF Chain, Agree, WellTyped, KState
<1>2. Place(u) = Put(Place(s), t, 0)
  BY <1>1, ViewOwn DEF OthersSame
<1>3. Effect(s, z, t, c, s.tmevt, s.wque)
  BY <1>1, <1>2, BecomeDormantEffect
<1>4. Unbound(b) = b
  BY <1>1 DEF Unbound, TCB
<1>5. TcbOK(t, c, FALSE) /\ ~MustEnd(c)
  BY <1>1, <1>4, TerminatedOK
<1>6. c.pri = IniPri[t] /\ c.bpri = IniPri[t] /\ c.wobj = NULL /\ ~InQueue(c)
  <2>1. c.pri = IniPri[t] /\ c.bpri = IniPri[t] /\ c.wobj = NULL
    BY <1>1 DEF Terminated, Restarted, Dormant, TCB
  <2>2. ~InQueue(c)
    BY <1>1, <1>4, EndedWaits
  <2> QED
    BY <2>1, <2>2
<1> HIDE DEF c
<1>7. /\ Sound(s, z) /\ Agree(z, Place(z)) /\ (SchedtskExact(s) => SchedtskExact(z))
      /\ z.tcb[t] = c /\ OthersSame(s, z, t) /\ z.tmevt = s.tmevt /\ z.wque = s.wque
  BY <1>1, <1>3 DEF Effect, AgreeAfter, OthersSame, KState
<1>8. WellTyped(z) /\ View(z, NULL) = z
  <2>1. WellTyped(z) /\ NULL \notin Task
    BY <1>7, KernelAssumption DEF Sound
  <2> QED
    BY <2>1, ViewFacts
<1>9. WaitsExact(z)
  <2>1. /\ u.wque = s.wque /\ \A v \in Task \ {t} : u.tcb[v] = s.tcb[v]
        /\ ~InQueue(u.tcb[t])
    BY <1>1, ViewFacts
  <2> HIDE DEF u
  <2>2. KeepsWaits(u, z)
    BY <1>6, <1>7, <2>1 DEF KeepsWaits, SameWait, OthersSame
  <2> QED
    BY <1>1, <2>2, KeepsWaitsExact
<1>10. TasksOKBut(z, NULL)
  <2> SUFFICES ASSUME NEW v \in Task PROVE TcbOK(v, z.tcb[v], v \in z.tmevt)
    BY DEF TasksOKBut
  <2>1. CASE v = t
    <3>1. ~(v \in z.tmevt)
      BY <1>7, <2>1
    <3> QED
      BY <1>5, <1>7, <2>1, <3>1 DEF TcbOK
  <2>2. CASE v # t
    BY <1>1, <1>7, <2>2 DEF TasksOKBut, TcbOK, OthersSame
  <2> QED
    BY <2>1, <2>2
<1>11. \A v \in Task \ {NULL} : MustEnd(z.tcb[v]) => MustEnd(s0.tcb[v])
  <2> TAKE v \in Task \ {NULL}
  <2>1. CASE v = t
    BY <1>5, <1>7, <2>1
  <2>2. CASE v # t
    BY <1>7, <2>2 DEF Chain, OthersSame
  <2> QED
    BY <2>1, <2>2
<1>12. Sound(s0, z)
  BY <1>1, <1>7, SoundTrans
<1>13. Chain(s0, z, NULL)
  BY <1>1, <1>7, <1>8, <1>9, <1>10, <1>11, <1>12 DEF Chain
<1> QED
  BY <1>5, <1>6, <1>7, <1>13

\* change_priority of a task that is not dormant; the queues keep their lengths.
LEMMA PriorityChain ==
  ASSUME NEW s0, NEW s, Chain(s0, s, NULL), NEW t \in Task, ~IsDormant(s.tcb[t].tstat),
         NEW p \in Pri, NEW mode \in BOOLEAN, NEW z, z = ChangePriority(s, t, p, mode)
  PROVE  /\ Chain(s0, z, NULL) /\ OthersSame(s, z, t) /\ z.tcb[t] = AtPri(s.tcb[t], p)
         /\ \A w \in WObj : s.wque[w] = << >> => z.wque[w] = << >>
         /\ ~InQueue(s.tcb[t]) => z.wque = s.wque
<1> DEFINE b == s.tcb[t]
           c == AtPri(b, p)
<1>1. /\ WellTyped(s) /\ Sound(s0, s) /\ s \in KState /\ b \in TCB
      /\ (SchedtskExact(s0) => SchedtskExact(s)) /\ NULL \notin Task
  BY KernelAssumption DEF Chain, Agree, WellTyped, KState
<1>2. View(s, NULL) = s
  BY <1>1, ViewFacts
<1>3. Agree(s, Place(s)) /\ WaitsExact(s) /\ TasksOKBut(s, NULL)
  BY <1>2 DEF Chain
<1>4. PICK W : Effect(s, z, t, c, s.tmevt, W)
  BY <1>3, ChangePriorityEffect
<1>5. /\ c.tstat = b.tstat /\ c.wobj = b.wobj /\ c.raster = b.raster /\ c.enater = b.enater
      /\ c.pri = p /\ c.actque = b.actque
  BY <1>1 DEF AtPri, TCB
<1> HIDE DEF c
<1>6. /\ Sound(s, z) /\ Agree(z, Place(z)) /\ (SchedtskExact(s) => SchedtskExact(z))
      /\ z.tcb = [s.tcb EXCEPT ![t] = c] /\ z.tmevt = s.tmevt /\ WellTyped(z)
  BY <1>4 DEF Effect, AgreeAfter, Sound
<1>7. z.tcb[t] = c /\ OthersSame(s, z, t)
  BY <1>1, <1>6 DEF KState, OthersSame
<1>8. View(z, NULL) = z
  BY <1>1, <1>6, ViewFacts
<1>9. InQueue(b) => ~IsRunnable(b.tstat)
  BY <1>1, StateWaits
<1>10. z.wque = Reordered(s, t, z.tcb)
  <2>1. HasWaits(s)
    BY <1>1 DEF KState, HasWaits
  <2> QED
    BY <1>9, <2>1, PriorityFrame
<1>11. OthersWait(s, z, t)
  BY <1>7 DEF OthersWait, OthersSame, SameWait
<1>12. /\ WaitsExact(z) /\ \A w \in WObj : Len(z.wque[w]) = Len(s.wque[w])
       /\ ~InQueue(b) => z.wque = s.wque
  <2>1. CASE InQueue(b) /\ b.wobj \in TPriObj
    <3>1. MovesInQueue(s, z, t)
      BY <1>5, <1>7, <1>10, <1>11, <2>1 DEF MovesInQueue, Reordered, InQueue
    <3> QED
      BY <1>1, <1>3, <1>6, <2>1, <3>1, MovesInQueueExact
  <2>2. CASE ~(InQueue(b) /\ b.wobj \in TPriObj)
    <3>1. z.wque = s.wque
      BY <1>10, <2>2 DEF Reordered
    <3>2. SameWait(b, c)
      BY <1>5, <2>2 DEF SameWait, InQueue
    <3>3. KeepsWaits(s, z)
      BY <1>7, <1>11, <3>1, <3>2 DEF KeepsWaits, OthersWait
    <3> QED
      BY <1>3, <3>1, <3>3, KeepsWaitsExact
  <2> QED
    BY <2>1, <2>2
<1>13. \A w \in WObj : s.wque[w] = << >> => z.wque[w] = << >>
  <2> TAKE w \in WObj
  <2>1. s.wque[w] \in Seq(Task) /\ z.wque[w] \in Seq(Task) /\ Len(z.wque[w]) = Len(s.wque[w])
    BY <1>1, <1>6, <1>12 DEF WellTyped, KState
  <2> QED
    BY <2>1
<1>14. TasksOKBut(z, NULL)
  <2> SUFFICES ASSUME NEW v \in Task PROVE TcbOK(v, z.tcb[v], v \in z.tmevt)
    BY DEF TasksOKBut
  <2>1. TcbOK(v, s.tcb[v], v \in s.tmevt)
    BY <1>1, <1>3 DEF TasksOKBut
  <2>2. CASE v = t
    BY <1>5, <1>6, <1>7, <2>1, <2>2 DEF TcbOK
  <2>3. CASE v # t
    BY <1>6, <1>7, <2>1, <2>3 DEF TcbOK, OthersSame
  <2> QED
    BY <2>2, <2>3
<1>15. \A v \in Task \ {NULL} : MustEnd(z.tcb[v]) => MustEnd(s0.tcb[v])
  <2> TAKE v \in Task \ {NULL}
  <2>1. MustEnd(s.tcb[v]) => MustEnd(s0.tcb[v])
    BY DEF Chain
  <2>2. MustEnd(z.tcb[v]) <=> MustEnd(s.tcb[v])
    BY <1>5, <1>7 DEF MustEnd, OthersSame
  <2> QED
    BY <2>1, <2>2
<1>16. Sound(s0, z)
  BY <1>1, <1>6, SoundTrans
<1>17. Chain(s0, z, NULL)
  BY <1>1, <1>6, <1>8, <1>12, <1>14, <1>15, <1>16 DEF Chain
<1> QED
  BY <1>7, <1>12, <1>13, <1>17 DEF c

\* The place of a task in the order of precedence: its current priority is the
\* least of its base priority and the ceilings of the set H of mutexes it holds,
\* none of which, nor of that it waits for, is below the base priority.
Prios(bpri, H) == {bpri} \union {CeilPri[m] : m \in {m \in H : MTX_CEILING(m)}}

IsLeast(p, P) == p \in P /\ \A q \in P : p <= q

Bounds(bpri, H) == \A m \in H : MTX_CEILING(m) => bpri >= CeilPri[m]

RankOK(b, H) ==
  /\ IsLeast(b.pri, Prios(b.bpri, H))
  /\ Bounds(b.bpri, H) /\ Bounds(b.bpri, {b.wobj} \intersect Mtx)

\* The priorities of which a task has the highest.
LEMMA PriosFacts ==
  ASSUME NEW bpri \in Pri, NEW H \in SUBSET Mtx
  PROVE  /\ Prios(bpri, H) \subseteq Pri /\ bpri \in Prios(bpri, H)
         /\ \A m \in H : MTX_CEILING(m) => CeilPri[m] \in Prios(bpri, H) /\ CeilPri[m] \in Pri
         /\ \A q \in Prios(bpri, H) :
              q = bpri \/ \E m \in H : MTX_CEILING(m) /\ q = CeilPri[m]
<1>1. \A m \in Mtx : MTX_CEILING(m) => CeilPri[m] \in Pri
  BY MutexAssumption DEF MTX_CEILING
<1> QED
  BY <1>1 DEF Prios

\* Min finds the least priority of a set that has one.
LEMMA MinIsLeast ==
  ASSUME NEW P, P \subseteq Pri, P # {}
  PROVE  IsLeast(Min(P), P) /\ \A p : IsLeast(p, P) => Min(P) = p
<1> DEFINE n == Min(P)
<1>1. PICK p \in P : \A q \in P : p <= q
  BY LeastPri
<1>2. n = CHOOSE x \in P : \A y \in P : x <= y
  BY DEF Min
<1>3. n \in P /\ \A y \in P : n <= y
  BY <1>1, <1>2
<1> HIDE DEF n
<1>4. ASSUME NEW p2 \in P, \A q \in P : p2 <= q PROVE n = p2
  <2>1. n <= p2 /\ p2 <= n /\ n \in Int /\ p2 \in Int
    BY <1>3, <1>4 DEF Pri
  <2> QED
    BY <2>1
<1> QED
  BY <1>3, <1>4 DEF IsLeast, n

\* A task takes over the mutex m, whose ceiling is not above its base priority.
LEMMA RankTakes ==
  ASSUME NEW b \in TCB, NEW H \in SUBSET Mtx, RankOK(b, H), NEW m \in Mtx,
         MTX_CEILING(m) => b.bpri >= CeilPri[m],
         NEW c \in TCB, c.bpri = b.bpri, c.wobj = NULL,
         c.pri = IF MTX_CEILING(m) /\ CeilPri[m] < b.pri THEN CeilPri[m] ELSE b.pri
  PROVE  RankOK(c, H \union {m})
<1> DEFINE P == Prios(b.bpri, H)
           Q == Prios(b.bpri, H \union {m})
<1>1. b.bpri \in Pri /\ b.pri \in Pri /\ NULL \notin Mtx
  BY MutexAssumption, KernelAssumption DEF TCB
<1>2. /\ P \subseteq Pri /\ Q \subseteq Pri
      /\ Q = IF MTX_CEILING(m) THEN P \union {CeilPri[m]} ELSE P
  <2>1. P \subseteq Pri /\ Q \subseteq Pri
    BY <1>1, PriosFacts
  <2>2. Q = IF MTX_CEILING(m) THEN P \union {CeilPri[m]} ELSE P
    BY DEF Prios
  <2> QED
    BY <2>1, <2>2
<1>3. b.pri \in P /\ \A q \in P : b.pri <= q
  BY DEF RankOK, IsLeast
<1> HIDE DEF P, Q
<1>4. IsLeast(c.pri, Q)
  <2>1. CASE MTX_CEILING(m) /\ CeilPri[m] < b.pri
    <3>1. CeilPri[m] \in Int /\ c.pri = CeilPri[m] /\ c.pri \in Q
      BY <1>2, <2>1 DEF Pri
    <3>2. \A q \in P : c.pri <= q
      <4> TAKE q \in P
      <4>1. b.pri <= q /\ q \in Int /\ b.pri \in Int
        BY <1>1, <1>2, <1>3 DEF Pri
      <4> QED
        BY <2>1, <3>1, <4>1
    <3> QED
      BY <1>2, <2>1, <3>1, <3>2 DEF IsLeast
  <2>2. CASE ~(MTX_CEILING(m) /\ CeilPri[m] < b.pri)
    <3>1. c.pri = b.pri /\ c.pri \in Q
      BY <1>2, <1>3, <2>2
    <3>2. \A q \in Q : c.pri <= q
      <4> TAKE q \in Q
      <4>1. CASE q \in P
        BY <1>3, <3>1, <4>1
      <4>2. CASE q \notin P
        <5>1. MTX_CEILING(m) /\ q = CeilPri[m] /\ q \in Int /\ b.pri \in Int
          BY <1>1, <1>2, <4>2 DEF Pri
        <5> QED
          BY <2>2, <3>1, <5>1
      <4> QED
        BY <4>1, <4>2
    <3> QED
      BY <3>1, <3>2 DEF IsLeast
  <2> QED
    BY <2>1, <2>2
<1>5. Bounds(c.bpri, H \union {m}) /\ Bounds(c.bpri, {c.wobj} \intersect Mtx)
  BY <1>1 DEF RankOK, Bounds
<1> QED
  BY <1>4, <1>5 DEF RankOK, Q

\* A task gives up the mutex m; unless m had decided its priority, it keeps it.
LEMMA RankDrops ==
  ASSUME NEW b \in TCB, NEW H \in SUBSET Mtx, RankOK(b, H), NEW m \in H
  PROVE  LET p == Min(Prios(b.bpri, H \ {m}))
         IN  /\ p \in Pri
             /\ \A c \in TCB : c = AtPri(b, p) => RankOK(c, H \ {m})
             /\ ~(MTX_CEILING(m) /\ CeilPri[m] = b.pri) \/ p = b.pri => RankOK(b, H \ {m})
<1> DEFINE P == Prios(b.bpri, H)
           Q == Prios(b.bpri, H \ {m})
           p == Min(Q)
<1>1. b.bpri \in Pri /\ b.pri \in Pri /\ NULL \notin Mtx
  BY MutexAssumption, KernelAssumption DEF TCB
<1>2. /\ P \subseteq Pri /\ Q \subseteq Pri /\ b.bpri \in Q /\ Q \subseteq P
      /\ \A q \in P : q \in Q \/ (MTX_CEILING(m) /\ q = CeilPri[m])
  <2>1. P \subseteq Pri /\ Q \subseteq Pri /\ b.bpri \in Q
    BY <1>1, PriosFacts
  <2>2. Q \subseteq P /\ \A q \in P : q \in Q \/ (MTX_CEILING(m) /\ q = CeilPri[m])
    BY DEF Prios
  <2> QED
    BY <2>1, <2>2
<1>3. b.pri \in P /\ \A q \in P : b.pri <= q
  BY DEF RankOK, IsLeast
<1> HIDE DEF P, Q
<1>4. IsLeast(p, Q)
  BY <1>2, MinIsLeast
<1>5. p \in Pri
  BY <1>2, <1>4 DEF IsLeast
<1>6. ~(MTX_CEILING(m) /\ CeilPri[m] = b.pri) \/ p = b.pri => IsLeast(b.pri, Q)
  <2>1. ~(MTX_CEILING(m) /\ CeilPri[m] = b.pri) => b.pri \in Q
    BY <1>2, <1>3
  <2>2. p = b.pri => b.pri \in Q
    BY <1>4 DEF IsLeast
  <2> QED
    BY <1>2, <1>3, <2>1, <2>2 DEF IsLeast
<1>7. Bounds(b.bpri, H \ {m}) /\ Bounds(b.bpri, {b.wobj} \intersect Mtx)
  BY DEF RankOK, Bounds
<1> HIDE DEF p
<1>8. ASSUME NEW c \in TCB, c = AtPri(b, p) PROVE RankOK(c, H \ {m})
  <2>1. c.pri = p /\ c.bpri = b.bpri /\ c.wobj = b.wobj
    BY <1>8 DEF AtPri, TCB
  <2> QED
    BY <1>4, <1>7, <2>1 DEF RankOK, Q
<1> QED
  BY <1>5, <1>6, <1>7, <1>8 DEF RankOK, Q, p

MState == [k: KState, loctsk: [Mtx -> Task \union {NULL}], lastmtx: [Task -> Seq(Mtx)]]

\* The mutexes that t owns; d, if it is a mutex, is just leaving its owner.
Held(s, t, d) == {m \in Mtx : m # d /\ s.loctsk[m] = t}

\* The data of the mutexes agree with each other and with the tasks, while d is
\* leaving its owner and the priority of the task x is not yet corrected.
Own(s, d, x) ==
  /\ s \in MState
  /\ \A t \in Task : IsQueue(s.lastmtx[t], Held(s, t, d))
  /\ \A t \in Task \ {x} : /\ RankOK(s.k.tcb[t], Held(s, t, d))
                           /\ IsDormant(s.k.tcb[t].tstat) => Held(s, t, d) = {}
  /\ \A m \in Mtx \ {d} : /\ s.loctsk[m] = NULL => s.k.wque[m] = << >>
                          /\ \A t \in Task : s.k.tcb[t].wobj = m => s.loctsk[m] # t

\* Operations of the kernel that touch no mutex keep them.
LEMMA OwnKept ==
  ASSUME NEW s, NEW d, NEW x, Own(s, d, x), NEW z \in MState,
         z.loctsk = s.loctsk, z.lastmtx = s.lastmtx,
         \A v \in Task \ {x} : KeepsRank(s.k.tcb[v], z.k.tcb[v]),
         \A v \in Task : z.k.tcb[v].wobj = s.k.tcb[v].wobj \/ z.k.tcb[v].wobj = NULL,
         \A w \in Mtx : s.k.wque[w] = << >> => z.k.wque[w] = << >>
  PROVE  Own(z, d, x)
<1>1. NULL \notin Mtx
  BY MutexAssumption, KernelAssumption
<1>2. \A t \in Task : Held(z, t, d) = Held(s, t, d)
  BY DEF Held
<1>3. ASSUME NEW t \in Task \ {x}
      PROVE  /\ RankOK(z.k.tcb[t], Held(z, t, d))
             /\ IsDormant(z.k.tcb[t].tstat) => Held(z, t, d) = {}
  <2> DEFINE b == s.k.tcb[t]
             c == z.k.tcb[t]
             H == Held(s, t, d)
  <2>1. RankOK(b, H) /\ KeepsRank(b, c) /\ (IsDormant(b.tstat) => H = {})
    BY DEF Own
  <2>2. Held(z, t, d) = H
    BY <1>2
  <2> HIDE DEF b, c, H
  <2>3. RankOK(c, H)
    BY <1>1, <2>1 DEF RankOK, KeepsRank, Bounds
  <2>4. IsDormant(c.tstat) => H = {}
    BY <2>1 DEF KeepsRank
  <2> QED
    BY <2>2, <2>3, <2>4 DEF c
<1>4. \A t \in Task : IsQueue(z.lastmtx[t], Held(z, t, d))
  BY <1>2 DEF Own
<1>5. ASSUME NEW m \in Mtx \ {d}
      PROVE  /\ z.loctsk[m] = NULL => z.k.wque[m] = << >>
             /\ \A t \in Task : z.k.tcb[t].wobj = m => z.loctsk[m] # t
  BY <1>1 DEF Own
<1> QED
  BY <1>3, <1>4, <1>5 DEF Own

NextOwner(s, m) == IF s.k.wque[m] = << >> THEN NULL ELSE Head(s.k.wque[m])

\* Of s and z = Release(s, m): m has its next owner, and nothing else has changed
\* for the other mutexes or for the task x that is ending.
Passes(s, z, m, x) ==
  /\ z.loctsk[m] = NextOwner(s, m)
  /\ \A w \in Mtx \ {m} : z.loctsk[w] = s.loctsk[w]
  /\ \A w \in WObj \ {m} : z.k.wque[w] = s.k.wque[w]
  /\ \A v \in Task : IsRunnable(s.k.tcb[v].tstat) => IsRunnable(z.k.tcb[v].tstat)
  /\ \A v \in Task : IsDormant(s.k.tcb[v].tstat) => IsDormant(z.k.tcb[v].tstat)
  /\ x \in Task => z.lastmtx[x] = s.lastmtx[x] /\ z.k.tcb[x] = s.k.tcb[x]
  /\ z.k.tmevt \subseteq s.k.tmevt

\* mutex_release of a mutex that nobody waits for.
LEMMA ReleaseFree ==
  ASSUME NEW s0, NEW s, NEW x, Chain(s0, s.k, x), NEW m \in Mtx, Own(s, m, x),
         s.k.wque[m] = << >>, NEW z, z = Release(s, m)
  PROVE  Chain(s0, z.k, x) /\ Own(z, NULL, x) /\ Passes(s, z, m, x)
<1>1. /\ s \in MState /\ NULL \notin Mtx /\ NULL \notin Task
      /\ z = [s EXCEPT !.loctsk[m] = NULL]
  BY MutexAssumption, KernelAssumption DEF Own, Release
<1>2. /\ z \in MState /\ z.k = s.k /\ z.lastmtx = s.lastmtx
      /\ z.loctsk[m] = NULL /\ \A w \in Mtx \ {m} : z.loctsk[w] = s.loctsk[w]
  BY <1>1 DEF MState
<1>3. \A t \in Task : Held(z, t, NULL) = Held(s, t, m)
  BY <1>1, <1>2 DEF Held
<1>4. Own(z, NULL, x)
  <2>1. \A t \in Task : IsQueue(z.lastmtx[t], Held(z, t, NULL))
    BY <1>2, <1>3 DEF Own
  <2>2. \A t \in Task \ {x} : /\ RankOK(z.k.tcb[t], Held(z, t, NULL))
                              /\ IsDormant(z.k.tcb[t].tstat) => Held(z, t, NULL) = {}
    BY <1>2, <1>3 DEF Own
  <2>3. \A w \in Mtx \ {NULL} :
          /\ z.loctsk[w] = NULL => z.k.wque[w] = << >>
          /\ \A t \in Task : z.k.tcb[t].wobj = w => z.loctsk[w] # t
    <3> TAKE w \in Mtx \ {NULL}
    <3>1. CASE w = m
      BY <1>1, <1>2, <3>1
    <3>2. CASE w # m
      BY <1>2, <3>2 DEF Own
    <3> QED
      BY <3>1, <3>2
  <2> QED
    BY <1>2, <2>1, <2>2, <2>3 DEF Own
<1>5. Passes(s, z, m, x)
  BY <1>2 DEF Passes, NextOwner
<1> QED
  BY <1>2, <1>4, <1>5

\* mutex_release of a mutex that tasks wait for.
LEMMA ReleaseTaken ==
  ASSUME NEW s0, NEW s, NEW x, Chain(s0, s.k, x), NEW m \in Mtx, Own(s, m, x),
         s.k.wque[m] # << >>, NEW z, z = Release(s, m)
  PROVE  Chain(s0, z.k, x) /\ Own(z, NULL, x) /\ Passes(s, z, m, x)
<1> DEFINE t == Head(s.k.wque[m])
           b == s.k.tcb[t]
           p == IF MTX_CEILING(m) /\ CeilPri[m] < b.pri THEN CeilPri[m] ELSE b.pri
           c == z.k.tcb[t]
<1>1. /\ s \in MState /\ NULL \notin Mtx /\ NULL \notin Task /\ m \in WObj
      /\ WellTyped(s.k) /\ s.k \in KState
      /\ CeilPri \in [Mtx -> Pri \union {NULL}]
  BY MutexAssumption, KernelAssumption DEF Own, Chain, Agree, WellTyped
<1>2. t \in Task /\ t # x /\ InQueue(b) /\ b.wobj = m /\ b \in TCB
  <2>1. t \in Task /\ t # x /\ InQueue(b) /\ b.wobj = m
    BY <1>1, WaiterFacts DEF Chain
  <2> QED
    BY <1>1, <2>1 DEF KState
<1>3. p \in Pri
  BY <1>1, <1>2 DEF MTX_CEILING, TCB
<1>4. z = [TakeOver(s, t, m) EXCEPT !.k = LeaveAt(s.k, t, m, p)]
  BY DEF Release, LeaveAsOwner, LeaveAt
<1> HIDE DEF p
<1>5. /\ z.k = LeaveAt(s.k, t, m, p)
      /\ z.loctsk = [s.loctsk EXCEPT ![m] = t]
      /\ z.lastmtx = [s.lastmtx EXCEPT ![t] = <<m>> \o s.lastmtx[t]]
      /\ z = [k |-> z.k, loctsk |-> z.loctsk, lastmtx |-> z.lastmtx]
  BY <1>1, <1>4 DEF TakeOver, MState
<1> HIDE DEF t
<1>6. /\ Chain(s0, z.k, x) /\ HasLeft(s.k, z.k, t, m, p)
      /\ \A v \in Task : IsRunnable(s.k.tcb[v].tstat) => IsRunnable(z.k.tcb[v].tstat)
  <2>1. t = Head(s.k.wque[m])
    BY DEF t
  <2> DEFINE j == s.k
             y == z.k
  <2>2. /\ Chain(s0, j, x) /\ m \in WObj /\ j.wque[m] # << >> /\ p \in Pri
        /\ t = Head(j.wque[m]) /\ y = LeaveAt(j, t, m, p)
    BY <1>1, <1>3, <1>5, <2>1
  <2> HIDE DEF j, y
  <2>3. /\ Chain(s0, y, x) /\ HasLeft(j, y, t, m, p)
        /\ \A v \in Task : IsRunnable(j.tcb[v].tstat) => IsRunnable(y.tcb[v].tstat)
    BY <2>2, LeaveChain
  <2> QED
    BY <2>3 DEF j, y
<1>7. /\ c \in TCB /\ c.wobj = NULL /\ c.pri = p /\ c.bpri = b.bpri /\ ~IsDormant(c.tstat)
      /\ \A v \in Task \ {t} : z.k.tcb[v] = s.k.tcb[v]
      /\ \A w \in WObj \ {m} : z.k.wque[w] = s.k.wque[w]
      /\ z.k.tmevt = s.k.tmevt \ {t}
  BY <1>6 DEF HasLeft, OthersSame
<1>8. /\ z.loctsk \in [Mtx -> Task \union {NULL}]
      /\ z.loctsk[m] = t /\ \A w \in Mtx \ {m} : z.loctsk[w] = s.loctsk[w]
  BY <1>1, <1>2, <1>5 DEF MState
<1>9. Held(z, t, NULL) = Held(s, t, m) \union {m}
  BY <1>1, <1>8 DEF Held
<1>10. \A v \in Task \ {t} : Held(z, v, NULL) = Held(s, v, m)
  BY <1>1, <1>8 DEF Held
<1>11. /\ s.lastmtx[t] \in Seq(Mtx) /\ IsQueue(s.lastmtx[t], Held(s, t, m))
       /\ m \notin Held(s, t, m)
       /\ Held(s, t, m) \in SUBSET Mtx
  BY <1>1, <1>2 DEF Own, MState, Held
<1>12. /\ <<m>> \o s.lastmtx[t] \in Seq(Mtx)
       /\ IsQueue(<<m>> \o s.lastmtx[t], Held(s, t, m) \union {m})
  <2>1. <<m>> \o s.lastmtx[t] \in Seq(Mtx)
    BY <1>11
  <2>2. IsQueue(<<m>> \o s.lastmtx[t], Held(s, t, m) \union {m})
    BY <1>11, PrependQueue
  <2> QED
    BY <2>1, <2>2
<1>13. /\ z.lastmtx \in [Task -> Seq(Mtx)] /\ z.lastmtx[t] = <<m>> \o s.lastmtx[t]
       /\ \A v \in Task \ {t} : z.lastmtx[v] = s.lastmtx[v]
  BY <1>1, <1>2, <1>5, <1>12 DEF MState
<1>14. z \in MState
  <2>1. z.k \in KState
    BY <1>6 DEF Chain, Agree, WellTyped
  <2> QED
    BY <1>5, <1>8, <1>13, <2>1 DEF MState
<1>15. \A v \in Task : IsQueue(z.lastmtx[v], Held(z, v, NULL))
  <2> TAKE v \in Task
  <2>1. CASE v = t
    BY <1>9, <1>12, <1>13, <2>1
  <2>2. CASE v # t
    BY <1>10, <1>13, <2>2 DEF Own
  <2> QED
    BY <2>1, <2>2
<1>16. RankOK(c, Held(z, t, NULL))
  <2>1. RankOK(b, Held(s, t, m))
    BY <1>2 DEF Own
  <2>2. MTX_CEILING(m) => b.bpri >= CeilPri[m]
    BY <1>2, <2>1 DEF RankOK, Bounds
  <2>3. c.pri = IF MTX_CEILING(m) /\ CeilPri[m] < b.pri THEN CeilPri[m] ELSE b.pri
    BY <1>7 DEF p
  <2> HIDE DEF b, c
  <2>4. RankOK(c, Held(s, t, m) \union {m})
    BY <1>2, <1>7, <1>11, <2>1, <2>2, <2>3, RankTakes
  <2> QED
    BY <1>9, <2>4
<1>17. ASSUME NEW v \in Task \ {x}
       PROVE  /\ RankOK(z.k.tcb[v], Held(z, v, NULL))
              /\ IsDormant(z.k.tcb[v].tstat) => Held(z, v, NULL) = {}
  <2>1. CASE v = t
    BY <1>7, <1>16, <2>1
  <2>2. CASE v # t
    <3>1. z.k.tcb[v] = s.k.tcb[v] /\ Held(z, v, NULL) = Held(s, v, m)
      BY <1>7, <1>10, <2>2
    <3> QED
      BY <3>1 DEF Own
  <2> QED
    BY <2>1, <2>2
<1>18. ASSUME NEW w \in Mtx
       PROVE  /\ z.loctsk[w] = NULL => z.k.wque[w] = << >>
              /\ \A v \in Task : z.k.tcb[v].wobj = w => z.loctsk[w] # v
  <2>1. CASE w = m
    BY <1>1, <1>2, <1>7, <1>8, <2>1
  <2>2. CASE w # m
    <3>1. z.loctsk[w] = s.loctsk[w] /\ z.k.wque[w] = s.k.wque[w]
      BY <1>7, <1>8, <2>2, MutexAssumption
    <3>2. \A v \in Task : z.k.tcb[v].wobj = w => s.k.tcb[v].wobj = w
      BY <1>1, <1>7
    <3> QED
      BY <2>2, <3>1, <3>2 DEF Own
  <2> QED
    BY <2>1, <2>2
<1>19. Own(z, NULL, x)
  BY <1>14, <1>15, <1>17, <1>18 DEF Own
<1>20. Passes(s, z, m, x)
  <2>1. z.loctsk[m] = NextOwner(s, m)
    BY <1>8 DEF NextOwner, t
  <2>2. x \in Task => z.lastmtx[x] = s.lastmtx[x] /\ z.k.tcb[x] = s.k.tcb[x]
    BY <1>2, <1>7, <1>13
  <2>3. \A v \in Task : IsDormant(s.k.tcb[v].tstat) => IsDormant(z.k.tcb[v].tstat)
    BY <1>2, <1>7 DEF InQueue, IsDormant
  <2> QED
    BY <1>6, <1>7, <1>8, <2>1, <2>2, <2>3 DEF Passes
<1> QED
  BY <1>6, <1>19, <1>20

\* mutex_release hands the mutex m over to the first waiter, if there is one.
LEMMA ReleaseOwn ==
  ASSUME NEW s0, NEW s, NEW x, Chain(s0, s.k, x), NEW m \in Mtx, Own(s, m, x),
         NEW z, z = Release(s, m)
  PROVE  Chain(s0, z.k, x) /\ Own(z, NULL, x) /\ Passes(s, z, m, x)
  BY ReleaseFree, ReleaseTaken

\* mutex_calc_priority, of a list that holds the mutexes of H.
LEMMA CalcIsMin ==
  ASSUME NEW s, NEW t, NEW H, IsQueue(s.lastmtx[t], H)
  PROVE  CalcPriority(s, t) = Min(Prios(s.k.tcb[t].bpri, H))
<1>1. Range(s.lastmtx[t]) = H
  BY DEF IsQueue, Range
<1> QED
  BY <1>1 DEF CalcPriority, Prios

\* Of s and y: the task t no longer lists the mutex m, which it locked last.
HasUnlisted(s, y, t, m) ==
  /\ m \in Mtx /\ s.loctsk[m] = t /\ y.k = s.k /\ y.loctsk = s.loctsk
  /\ y.lastmtx[t] = Tail(s.lastmtx[t])
  /\ Held(y, t, m) = Held(s, t, NULL) \ {m}
  /\ Held(s, t, NULL) = Held(y, t, m) \union {m}
  /\ Held(s, t, NULL) \in SUBSET Mtx

\* The mutex locked last is taken off its owner's list.
LEMMA UnlistOwn ==
  ASSUME NEW s, NEW t \in Task, NEW x \in {NULL, t}, Own(s, NULL, x), s.lastmtx[t] # << >>,
         NEW m, m = Head(s.lastmtx[t]), NEW y, y = [s EXCEPT !.lastmtx[t] = Tail(@)]
  PROVE  Own(y, m, t) /\ HasUnlisted(s, y, t, m)
<1> DEFINE q == s.lastmtx[t]
           H == Held(s, t, NULL)
<1>1. /\ s \in MState /\ NULL \notin Mtx /\ NULL \notin Task
      /\ q \in Seq(Mtx) /\ IsQueue(q, H) /\ H \in SUBSET Mtx
  BY MutexAssumption, KernelAssumption DEF Own, MState, Held
<1>2. m \in H /\ Without(q, m) = Tail(q) /\ Tail(q) \in Seq(Mtx)
  <2>1. Tail(q) \in Seq(Mtx)
    BY <1>1
  <2>2. m \in H
    BY <1>1, HeadInQueue
  <2> QED
    BY <1>1, <2>1, <2>2, WithoutFirst
<1>3. IsQueue(Tail(q), H \ {m})
  <2>1. IsQueue(Without(q, m), H \ {m})
    BY <1>1, <1>2, WithoutQueue
  <2> QED
    BY <1>2, <2>1
<1>4. /\ m \in Mtx /\ s.loctsk[m] = t
  BY <1>2 DEF Held
<1>5. /\ y.k = s.k /\ y.loctsk = s.loctsk /\ y.lastmtx[t] = Tail(q)
      /\ \A v \in Task \ {t} : y.lastmtx[v] = s.lastmtx[v]
      /\ y \in MState
  BY <1>1, <1>2 DEF MState
<1>6. Held(y, t, m) = H \ {m} /\ \A v \in Task \ {t} : Held(y, v, m) = Held(s, v, NULL)
  BY <1>1, <1>4, <1>5 DEF Held
<1>7. \A v \in Task : IsQueue(y.lastmtx[v], Held(y, v, m))
  <2> TAKE v \in Task
  <2>1. CASE v = t
    BY <1>3, <1>5, <1>6, <2>1
  <2>2. CASE v # t
    BY <1>5, <1>6, <2>2 DEF Own
  <2> QED
    BY <2>1, <2>2
<1>8. \A v \in Task \ {t} : /\ RankOK(y.k.tcb[v], Held(y, v, m))
                            /\ IsDormant(y.k.tcb[v].tstat) => Held(y, v, m) = {}
  BY <1>1, <1>5, <1>6 DEF Own
<1>9. \A w \in Mtx \ {m} : /\ y.loctsk[w] = NULL => y.k.wque[w] = << >>
                           /\ \A v \in Task : y.k.tcb[v].wobj = w => y.loctsk[w] # v
  BY <1>1, <1>5 DEF Own
<1>10. Own(y, m, t)
  BY <1>5, <1>7, <1>8, <1>9 DEF Own
<1>11. HasUnlisted(s, y, t, m)
  BY <1>1, <1>2, <1>4, <1>5, <1>6 DEF HasUnlisted
<1> QED
  BY <1>10, <1>11

\* Of s and z = DropPriority(s, t, m): at most the priority of t has changed.
HasDropped(s, z, t) ==
  /\ z.loctsk = s.loctsk /\ z.lastmtx = s.lastmtx /\ OthersSame(s.k, z.k, t)
  /\ z.k.tcb[t].tstat = s.k.tcb[t].tstat
  /\ \A w \in WObj : s.k.wque[w] = << >> => z.k.wque[w] = << >>
  /\ ~InQueue(s.k.tcb[t]) => z.k.wque = s.k.wque

\* mutex_drop_priority corrects the priority of the task that has lost m.
LEMMA DropOwn ==
  ASSUME NEW s0, NEW s, NEW d, NEW t \in Task, Own(s, d, t), Chain(s0, s.k, NULL),
         ~IsDormant(s.k.tcb[t].tstat), NEW m \in Mtx, m \notin Held(s, t, d),
         RankOK(s.k.tcb[t], Held(s, t, d) \union {m}), NEW z, z = DropPriority(s, t, m)
  PROVE  Chain(s0, z.k, NULL) /\ Own(z, d, NULL) /\ HasDropped(s, z, t)
<1> DEFINE b == s.k.tcb[t]
           c == z.k.tcb[t]
           H == Held(s, t, d)
           G == H \union {m}
           p == Min(Prios(b.bpri, H))
           j == s.k
           y == z.k
           f == TRUE
<1>1. /\ s \in MState /\ b \in TCB /\ NULL \notin Task /\ NULL \notin Mtx
      /\ IsQueue(s.lastmtx[t], H) /\ G \in SUBSET Mtx /\ m \in G /\ G \ {m} = H
      /\ RankOK(b, G)
  <2>1. s \in MState /\ NULL \notin Task /\ NULL \notin Mtx /\ IsQueue(s.lastmtx[t], H)
    BY MutexAssumption, KernelAssumption DEF Own
  <2>2. b \in TCB
    BY <2>1 DEF MState, KState
  <2>3. G \in SUBSET Mtx /\ m \in G /\ G \ {m} = H
    BY DEF Held
  <2> QED
    BY <2>1, <2>2, <2>3
<1>2. CalcPriority(s, t) = p
  BY <1>1, CalcIsMin
<1>3. z = IF MTX_CEILING(m) /\ CeilPri[m] = b.pri /\ p # b.pri
          THEN [s EXCEPT !.k = ChangePriority(s.k, t, p, TRUE)] ELSE s
  BY <1>2 DEF DropPriority
<1> HIDE DEF G
<1>4. /\ p \in Pri
      /\ \A e \in TCB : e = AtPri(b, p) => RankOK(e, H)
      /\ ~(MTX_CEILING(m) /\ CeilPri[m] = b.pri) \/ p = b.pri => RankOK(b, H)
  <2> HIDE DEF b
  <2>1. LET r == Min(Prios(b.bpri, G \ {m}))
        IN  /\ r \in Pri
            /\ \A e \in TCB : e = AtPri(b, r) => RankOK(e, G \ {m})
            /\ ~(MTX_CEILING(m) /\ CeilPri[m] = b.pri) \/ r = b.pri => RankOK(b, G \ {m})
    BY <1>1, RankDrops
  <2> QED
    BY <1>1, <2>1
<1> HIDE DEF p
<1>5. /\ Chain(s0, z.k, NULL) /\ HasDropped(s, z, t) /\ RankOK(c, H)
      /\ c.wobj = b.wobj /\ z \in MState
  <2>1. CASE MTX_CEILING(m) /\ CeilPri[m] = b.pri /\ p # b.pri
    <3>1. /\ z.k = ChangePriority(s.k, t, p, TRUE) /\ z.loctsk = s.loctsk /\ z.lastmtx = s.lastmtx
          /\ z = [k |-> z.k, loctsk |-> z.loctsk, lastmtx |-> z.lastmtx]
      BY <1>1, <1>3, <2>1 DEF MState
    <3>2. /\ Chain(s0, j, NULL) /\ ~IsDormant(j.tcb[t].tstat)
          /\ y = ChangePriority(j, t, p, f) /\ f \in BOOLEAN /\ p \in Pri
      BY <1>4, <3>1
    <3> HIDE DEF j, y, f
    <3>3. /\ Chain(s0, y, NULL) /\ OthersSame(j, y, t) /\ y.tcb[t] = AtPri(j.tcb[t], p)
          /\ \A w \in WObj : j.wque[w] = << >> => y.wque[w] = << >>
          /\ ~InQueue(j.tcb[t]) => y.wque = j.wque
      BY <3>2, PriorityChain
    <3>4. /\ y \in KState /\ y.tcb[t] \in TCB
      BY <3>3 DEF Chain, Agree, WellTyped, KState
    <3>5. AtPri(b, p).tstat = b.tstat /\ AtPri(b, p).wobj = b.wobj
      BY <1>1 DEF AtPri, TCB
    <3>6. z \in MState
      BY <1>1, <3>1, <3>4 DEF MState, y
    <3>7. RankOK(c, H)
      BY <1>4, <3>3, <3>4 DEF j, y
    <3> QED
      BY <3>1, <3>3, <3>5, <3>6, <3>7 DEF HasDropped, j, y
  <2>2. CASE ~(MTX_CEILING(m) /\ CeilPri[m] = b.pri /\ p # b.pri)
    <3>1. z = s
      BY <1>3, <2>2
    <3> QED
      BY <1>1, <1>4, <2>2, <3>1 DEF HasDropped, OthersSame
  <2> QED
    BY <2>1, <2>2
<1> HIDE DEF b, c
<1>6. /\ z.loctsk = s.loctsk /\ z.lastmtx = s.lastmtx
      /\ \A v \in Task \ {t} : z.k.tcb[v] = s.k.tcb[v]
      /\ c.tstat = b.tstat
      /\ \A w \in WObj : s.k.wque[w] = << >> => z.k.wque[w] = << >>
  BY <1>5 DEF HasDropped, OthersSame, b, c
<1>7. \A v \in Task : Held(z, v, d) = Held(s, v, d)
  BY <1>6 DEF Held
<1>8. ASSUME NEW v \in Task
      PROVE  /\ RankOK(z.k.tcb[v], Held(z, v, d))
             /\ IsDormant(z.k.tcb[v].tstat) => Held(z, v, d) = {}
  <2>1. CASE v = t
    BY <1>5, <1>6, <1>7, <2>1 DEF b, c
  <2>2. CASE v # t
    BY <1>6, <1>7, <2>2 DEF Own
  <2> QED
    BY <2>1, <2>2
<1>9. ASSUME NEW w \in Mtx \ {d}
      PROVE  /\ z.loctsk[w] = NULL => z.k.wque[w] = << >>
             /\ \A v \in Task : z.k.tcb[v].wobj = w => z.loctsk[w] # v
  <2>1. w \in WObj
    BY MutexAssumption
  <2>2. \A v \in Task : z.k.tcb[v].wobj = s.k.tcb[v].wobj
    BY <1>5, <1>6 DEF b, c
  <2> QED
    BY <1>6, <2>1, <2>2 DEF Own
<1>10. \A v \in Task : IsQueue(z.lastmtx[v], Held(z, v, d))
  BY <1>6, <1>7 DEF Own
<1>11. Own(z, d, NULL)
  BY <1>5, <1>8, <1>9, <1>10 DEF Own
<1> QED
  BY <1>5, <1>11

\* One turn of the loop of mutex_release_all for the ending task t.
OneReleased(s, t, m) == Release([s EXCEPT !.lastmtx[t] = Tail(@)], m)

\* Of s and a later state z: each mutex is as it was, or has left t.
HandedOver(s, z, t) ==
  \A m \in Mtx :
    \/ z.loctsk[m] = s.loctsk[m] /\ z.k.wque[m] = s.k.wque[m]
    \/ z.loctsk[m] = NextOwner(s, m) /\ m \in Held(s, t, NULL) \ Held(z, t, NULL)

\* What all these turns keep.
Releasing(s0, s, z, t) ==
  /\ Chain(s0, z.k, t) /\ Own(z, NULL, t) /\ HandedOver(s, z, t)
  /\ \A v \in Task : IsRunnable(s.k.tcb[v].tstat) => IsRunnable(z.k.tcb[v].tstat)
  /\ \A v \in Task : IsDormant(s.k.tcb[v].tstat) => IsDormant(z.k.tcb[v].tstat)
  /\ z.k.tcb[t] = s.k.tcb[t] /\ z.k.tmevt \subseteq s.k.tmevt

\* One step of mutex_release_all.
LEMMA OneReleasedOK ==
  ASSUME NEW s0, NEW s, NEW t \in Task, NEW y, Releasing(s0, s, y, t), y.lastmtx[t] # << >>,
         NEW m, m = Head(y.lastmtx[t]), NEW z, z = OneReleased(y, t, m)
  PROVE  Releasing(s0, s, z, t) /\ z.lastmtx[t] = Tail(y.lastmtx[t])
<1> DEFINE u == [y EXCEPT !.lastmtx[t] = Tail(@)]
<1>1. Chain(s0, y.k, t) /\ Own(y, NULL, t) /\ NULL \notin Mtx
  BY MutexAssumption, KernelAssumption DEF Releasing
<1>2. Own(u, m, t) /\ HasUnlisted(y, u, t, m)
  BY <1>1, UnlistOwn
<1>3. z = Release(u, m)
  BY DEF OneReleased
<1> HIDE DEF u
<1>4. /\ m \in Mtx /\ y.loctsk[m] = t /\ u.k = y.k /\ u.loctsk = y.loctsk
      /\ u.lastmtx[t] = Tail(y.lastmtx[t])
      /\ Held(u, t, m) = Held(y, t, NULL) \ {m}
  BY <1>2 DEF HasUnlisted
<1>5. Chain(s0, u.k, t)
  BY <1>1, <1>4
<1>6. Chain(s0, z.k, t) /\ Own(z, NULL, t) /\ Passes(u, z, m, t)
  BY <1>2, <1>3, <1>4, <1>5, ReleaseOwn
<1>7. /\ z.loctsk[m] = NextOwner(y, m)
      /\ \A w \in Mtx \ {m} : z.loctsk[w] = y.loctsk[w] /\ z.k.wque[w] = y.k.wque[w]
      /\ \A v \in Task : IsRunnable(y.k.tcb[v].tstat) => IsRunnable(z.k.tcb[v].tstat)
      /\ \A v \in Task : IsDormant(y.k.tcb[v].tstat) => IsDormant(z.k.tcb[v].tstat)
      /\ z.lastmtx[t] = Tail(y.lastmtx[t]) /\ z.k.tcb[t] = y.k.tcb[t]
      /\ z.k.tmevt \subseteq y.k.tmevt
  BY <1>4, <1>6, MutexAssumption DEF Passes, NextOwner
<1>8. Held(z, t, NULL) = Held(y, t, NULL) \ {m}
  <2>1. IsQueue(z.lastmtx[t], Held(z, t, NULL))
    BY <1>6 DEF Own
  <2>2. IsQueue(u.lastmtx[t], Held(u, t, m)) /\ u.lastmtx[t] = z.lastmtx[t]
    <3>1. IsQueue(u.lastmtx[t], Held(u, t, m))
      BY <1>2 DEF Own
    <3> QED
      BY <1>4, <1>7, <3>1
  <2> DEFINE q == z.lastmtx[t]
             A == Held(z, t, NULL)
             B == Held(u, t, m)
  <2> HIDE DEF q, A, B
  <2>3. A = B
    <3>1. IsQueue(q, A) /\ IsQueue(q, B)
      BY <2>1, <2>2 DEF q, A, B
    <3>2. A = {q[i] : i \in DOMAIN q} /\ B = {q[i] : i \in DOMAIN q}
      BY <3>1 DEF IsQueue
    <3> QED
      BY <3>2
  <2> USE DEF A, B
  <2> QED
    BY <1>4, <2>3
<1>9. HandedOver(s, z, t)
  <2> SUFFICES ASSUME NEW w \in Mtx
               PROVE  \/ z.loctsk[w] = s.loctsk[w] /\ z.k.wque[w] = s.k.wque[w]
                      \/ z.loctsk[w] = NextOwner(s, w) /\ w \in Held(s, t, NULL) \ Held(z, t, NULL)
    BY DEF HandedOver
  <2>1. \/ y.loctsk[w] = s.loctsk[w] /\ y.k.wque[w] = s.k.wque[w]
        \/ y.loctsk[w] = NextOwner(s, w) /\ w \in Held(s, t, NULL) \ Held(y, t, NULL)
    BY DEF Releasing, HandedOver
  <2>2. CASE w = m
    <3>1. m \in Held(y, t, NULL)
      BY <1>1, <1>4 DEF Held
    <3>2. y.k.wque[m] = s.k.wque[m] /\ s.loctsk[m] = t
      BY <1>4, <2>1, <2>2, <3>1
    <3>3. m \in Held(s, t, NULL)
      BY <1>1, <1>4, <3>2 DEF Held
    <3>4. NextOwner(y, m) = NextOwner(s, m)
      BY <3>2 DEF NextOwner
    <3> QED
      BY <1>7, <1>8, <2>2, <3>4, <3>3
  <2>3. CASE w # m
    BY <1>7, <1>8, <2>1, <2>3
  <2> QED
    BY <2>2, <2>3
<1> QED
  BY <1>6, <1>7, <1>9 DEF Releasing

\* The successive states of mutex_release_all.
MutexesReleased(s, t, q, r, k) ==
  r = [n \in 0..k |-> IF n = 0 THEN s ELSE OneReleased(r[n - 1], t, q[n])]

\* They exist.
LEMMA MutexesReleasedExist ==
  ASSUME NEW s, NEW t, NEW q, NEW k \in Nat
  PROVE  \E r : MutexesReleased(s, t, q, r, k)
<1> DEFINE Bad == {m \in Nat : ~\E r : MutexesReleased(s, t, q, r, m)}
<1> SUFFICES ASSUME Bad # {} PROVE FALSE
  OBVIOUS
<1>1. PICK m \in Bad : \A n \in Bad : m <= n
  BY LeastNumber
<1>2. m # 0
  <2>1. MutexesReleased(s, t, q, [n \in 0..0 |-> s], 0)
    BY DEF MutexesReleased
  <2> QED
    BY <2>1
<1>3. m \in Nat /\ m - 1 \in Nat /\ m - 1 \notin Bad
  BY <1>1, <1>2
<1>4. PICK r : MutexesReleased(s, t, q, r, m - 1)
  BY <1>3
<1> DEFINE f == [n \in 0..m |-> IF n = m THEN OneReleased(r[m - 1], t, q[m]) ELSE r[n]]
<1>5. \A n \in 0..(m - 1) : r[n] = IF n = 0 THEN s ELSE OneReleased(r[n - 1], t, q[n])
  BY <1>4 DEF MutexesReleased
<1>6. \A n \in 0..m : f[n] = IF n = 0 THEN s ELSE OneReleased(f[n - 1], t, q[n])
  <2> TAKE n \in 0..m
  <2>1. CASE n = 0
    BY <1>2, <1>3, <1>5, <2>1
  <2>2. CASE n = m
    <3>1. f[n - 1] = r[m - 1] /\ f[n] = OneReleased(r[m - 1], t, q[m])
      BY <1>3, <2>2
    <3> QED
      BY <1>2, <2>2, <3>1
  <2>3. CASE n # 0 /\ n # m
    <3>1. n \in 0..(m - 1) /\ f[n] = r[n] /\ f[n - 1] = r[n - 1]
      BY <1>3, <2>3
    <3> QED
      BY <1>5, <2>3, <3>1
  <2> QED
    BY <2>1, <2>2, <2>3
<1>7. MutexesReleased(s, t, q, f, m)
  <2>1. f = [n \in 0..m |-> f[n]]
    OBVIOUS
  <2> HIDE DEF f
  <2> QED
    BY <1>6, <2>1 DEF MutexesReleased
<1> QED
  BY <1>1, <1>7

\* mutex_release_all hands over every mutex of the ending task t.
LEMMA ReleaseAllOK ==
  ASSUME NEW s0, NEW s, NEW t \in Task, Chain(s0, s.k, t), Own(s, NULL, t),
         NEW z, z = ReleaseAll(s, t)
  PROVE  Releasing(s0, s, z, t) /\ Held(z, t, NULL) = {}
<1> DEFINE q == s.lastmtx[t]
           k == Len(q)
<1>1. q \in Seq(Mtx) /\ k \in Nat
  BY DEF Own, MState
<1>2. PICK r : z = r[k] /\ MutexesReleased(s, t, q, r, k)
  <2> DEFINE r == CHOOSE f : f = [n \in 0..k |-> IF n = 0 THEN s
                        ELSE Release([f[n - 1] EXCEPT !.lastmtx[t] = Tail(@)], q[n])]
  <2>1. z = r[k]
    BY DEF ReleaseAll
  <2>2. \A f : MutexesReleased(s, t, q, f, k) <=>
                f = [n \in 0..k |-> IF n = 0 THEN s
                        ELSE Release([f[n - 1] EXCEPT !.lastmtx[t] = Tail(@)], q[n])]
    BY DEF MutexesReleased, OneReleased
  <2>3. MutexesReleased(s, t, q, r, k)
    BY <1>1, <2>2, MutexesReleasedExist
  <2> QED
    BY <2>1, <2>3
<1>3. r[0] = s /\ \A n \in 1..k : r[n] = OneReleased(r[n - 1], t, q[n])
  <2>1. \A n \in 0..k : r[n] = IF n = 0 THEN s ELSE OneReleased(r[n - 1], t, q[n])
    BY <1>2 DEF MutexesReleased
  <2>2. 0 \in 0..k /\ \A n \in 1..k : n \in 0..k /\ n # 0
    BY <1>1
  <2> QED
    BY <2>1, <2>2
\* After n turns the list has lost its first n mutexes.
<1> DEFINE Left(n) ==
             LET y == r[n].lastmtx[t]
             IN  /\ Releasing(s0, s, r[n], t)
                 /\ Len(y) = k - n /\ \A i \in 1..(k - n) : y[i] = q[n + i]
           Bad == {n \in 0..k : ~Left(n)}
<1>4. Left(0)
  <2>1. Releasing(s0, s, s, t)
    BY DEF Releasing, HandedOver
  <2> QED
    BY <1>1, <1>3, <2>1
<1>5. ASSUME NEW n \in 1..k, Left(n - 1) PROVE Left(n)
  <2> DEFINE x == r[n - 1]
             w == r[n]
             y == x.lastmtx[t]
  <2>1. /\ n \in Nat /\ n - 1 \in Nat /\ n <= k /\ k - (n - 1) >= 1 /\ k - (n - 1) \in Nat
        /\ k - n \in Nat /\ k - n = k - (n - 1) - 1
    BY <1>1
  <2>2. /\ Releasing(s0, s, x, t)
        /\ Len(y) = k - (n - 1) /\ \A i \in 1..(k - (n - 1)) : y[i] = q[(n - 1) + i]
    BY <1>5
  <2>3. y \in Seq(Mtx)
    BY <2>2 DEF Releasing, Own, MState
  <2>4. y # << >> /\ Head(y) = q[n]
    <3>1. y # << >> /\ Head(y) = y[1] /\ 1 \in 1..(k - (n - 1))
      BY <2>1, <2>2, <2>3
    <3>2. y[1] = q[(n - 1) + 1] /\ (n - 1) + 1 = n
      BY <2>1, <2>2, <3>1
    <3> QED
      BY <3>1, <3>2
  <2>5. w = OneReleased(x, t, Head(y))
    BY <1>3, <2>4
  <2> HIDE DEF x, w, Left
  <2>6. Releasing(s0, s, w, t) /\ w.lastmtx[t] = Tail(y)
    BY <2>2, <2>4, <2>5, OneReleasedOK
  <2>7. /\ Len(Tail(y)) = k - n
        /\ \A i \in 1..(k - n) : Tail(y)[i] = y[i + 1]
    <3> HIDE DEF y
    <3> QED
      BY <2>1, <2>2, <2>3, <2>4
  <2>8. \A i \in 1..(k - n) : y[i + 1] = q[n + i]
    <3> TAKE i \in 1..(k - n)
    <3>1. i + 1 \in 1..(k - (n - 1)) /\ (n - 1) + (i + 1) = n + i
      BY <2>1
    <3>2. y[i + 1] = q[(n - 1) + (i + 1)]
      BY <2>2, <3>1
    <3> QED
      BY <3>1, <3>2
  <2>9. Len(w.lastmtx[t]) = k - n /\ \A i \in 1..(k - n) : w.lastmtx[t][i] = q[n + i]
    BY <2>6, <2>7, <2>8
  <2> HIDE DEF y
  <2> QED
    BY <2>6, <2>9 DEF Left, w
<1>6. Bad = {}
  <2> SUFFICES ASSUME Bad # {} PROVE FALSE
    OBVIOUS
  <2> HIDE DEF Left
  <2>1. PICK n \in Bad : \A m \in Bad : n <= m
    <3>1. Bad \in SUBSET Nat
      BY <1>1
    <3> HIDE DEF Bad
    <3> QED
      BY <3>1, LeastNumber
  <2>2. n \in 1..k /\ n - 1 \in 0..k /\ n - 1 \notin Bad
    BY <1>1, <1>4, <2>1
  <2> QED
    BY <1>5, <2>1, <2>2
<1>7. Left(k)
  <2> HIDE DEF Left
  <2> QED
    BY <1>1, <1>6
<1>8. Releasing(s0, s, z, t) /\ Len(z.lastmtx[t]) = 0
  BY <1>1, <1>2, <1>7
<1>9. Held(z, t, NULL) = {}
  <2>1. z.lastmtx[t] \in Seq(Mtx) /\ IsQueue(z.lastmtx[t], Held(z, t, NULL))
    BY <1>8 DEF Releasing, Own, MState
  <2>2. DOMAIN z.lastmtx[t] = {}
    BY <1>8, <2>1
  <2> QED
    BY <2>1, <2>2 DEF IsQueue
<1> QED
  BY <1>8, <1>9

\* Of s and a later state z: a mutex that has left its owner has its next owner.
HandedNext(s, z) ==
  \A m \in Mtx : z.loctsk[m] = s.loctsk[m] \/ z.loctsk[m] = NextOwner(s, m)

\* task_terminate: every mutex of t is handed over, and t starts afresh.
LEMMA MtxTerminateOK ==
  ASSUME NEW s, Base(s.k), Own(s, NULL, NULL), NEW t \in Task, NEW z, z = MtxTerminate(s, t)
  PROVE  /\ Chain(s.k, z.k, NULL) /\ Own(z, NULL, NULL) /\ HandedNext(s, z)
         /\ ~MustEnd(z.k.tcb[t])
         /\ \A v \in Task \ {t} : IsRunnable(s.k.tcb[v].tstat) => IsRunnable(z.k.tcb[v].tstat)
         /\ \A v \in Task \ {t} : IsDormant(s.k.tcb[v].tstat) => IsDormant(z.k.tcb[v].tstat)
<1> DEFINE y == [s EXCEPT !.k = LeaveQueues(s.k, t)]
           x == ReleaseAll(y, t)
           b == s.k.tcb[t]
<1>1. s \in MState /\ NULL \notin Mtx /\ NULL \notin Task
  BY MutexAssumption, KernelAssumption DEF Own
<1>2. /\ y.k = LeaveQueues(s.k, t) /\ y.loctsk = s.loctsk /\ y.lastmtx = s.lastmtx
      /\ y = [k |-> y.k, loctsk |-> y.loctsk, lastmtx |-> y.lastmtx]
  BY <1>1 DEF MState
<1>3. z = [x EXCEPT !.k = BecomeDormant(x.k, t)]
  BY DEF MtxTerminate
<1> HIDE DEF y
<1>4. /\ Chain(s.k, y.k, t) /\ OthersSame(s.k, y.k, t) /\ y.k.tcb[t].wobj = NULL
      /\ y.k.tmevt = s.k.tmevt \ {t} /\ y.k.wque = Dequeued(s.k, t)
  BY <1>2, LeaveQueuesChain
<1>5. y \in MState
  <2>1. y.k \in KState
    BY <1>4 DEF Chain, Agree, WellTyped
  <2> QED
    BY <1>1, <1>2, <2>1 DEF MState
<1>6. /\ \A w \in WObj : s.k.wque[w] = << >> => y.k.wque[w] = << >>
      /\ \A w \in WObj : w # b.wobj => y.k.wque[w] = s.k.wque[w]
  <2>1. /\ WaitsExact(s.k) /\ s.k.wque \in [WObj -> Seq(Task)]
    BY <1>1 DEF Base, MState, KState
  <2>2. CASE ~InQueue(b)
    BY <1>4, <2>2 DEF Dequeued
  <2>3. CASE InQueue(b)
    <3> DEFINE u == b.wobj
    <3>1. u \in WObj /\ IsQueue(s.k.wque[u], WaitersOf(s.k, u)) /\ t \in WaitersOf(s.k, u)
      BY <2>1, <2>3 DEF WaitsExact, WaitersOf
    <3>2. s.k.wque[u] # << >>
      BY <2>1, <3>1, EmptyQueue
    <3>3. y.k.wque = [s.k.wque EXCEPT ![u] = Without(@, t)]
      BY <1>4, <2>3 DEF Dequeued
    <3> HIDE DEF u
    <3>4. \A w \in WObj : w # u => y.k.wque[w] = s.k.wque[w]
      BY <2>1, <3>3
    <3> QED
      BY <3>2, <3>4 DEF u
  <2> QED
    BY <2>2, <2>3
<1>7. Own(y, NULL, t)
  <2>1. Own(s, NULL, t)
    BY <1>1 DEF Own
  <2>2. \A v \in Task \ {t} : KeepsRank(s.k.tcb[v], y.k.tcb[v])
    BY <1>4 DEF OthersSame, KeepsRank
  <2>3. \A v \in Task : y.k.tcb[v].wobj = s.k.tcb[v].wobj \/ y.k.tcb[v].wobj = NULL
    BY <1>4 DEF OthersSame
  <2>4. \A w \in Mtx : s.k.wque[w] = << >> => y.k.wque[w] = << >>
    BY <1>6, MutexAssumption
  <2> QED
    BY <1>2, <1>5, <2>1, <2>2, <2>3, <2>4, OwnKept
<1>8. Releasing(s.k, y, x, t) /\ Held(x, t, NULL) = {}
  BY <1>4, <1>7, ReleaseAllOK
<1> HIDE DEF x
<1>9. /\ Chain(s.k, x.k, t) /\ Own(x, NULL, t) /\ HandedOver(y, x, t)
      /\ \A v \in Task : IsRunnable(y.k.tcb[v].tstat) => IsRunnable(x.k.tcb[v].tstat)
      /\ \A v \in Task : IsDormant(y.k.tcb[v].tstat) => IsDormant(x.k.tcb[v].tstat)
      /\ x.k.tcb[t] = y.k.tcb[t] /\ t \notin x.k.tmevt
  BY <1>4, <1>8 DEF Releasing
<1>10. x \in MState
  BY <1>9 DEF Own
<1>11. /\ z.k = BecomeDormant(x.k, t) /\ z.loctsk = x.loctsk /\ z.lastmtx = x.lastmtx
       /\ z = [k |-> z.k, loctsk |-> z.loctsk, lastmtx |-> z.lastmtx]
  BY <1>3, <1>10 DEF MState
<1>12. /\ Chain(s.k, z.k, NULL) /\ OthersSame(x.k, z.k, t) /\ ~MustEnd(z.k.tcb[t])
       /\ z.k.tcb[t].pri = IniPri[t] /\ z.k.tcb[t].bpri = IniPri[t] /\ z.k.tcb[t].wobj = NULL
       /\ z.k.wque = x.k.wque
  <2> DEFINE i == x.k
             j == z.k
  <2>1. Chain(s.k, i, t) /\ t \notin i.tmevt /\ i.tcb[t].wobj = NULL /\ j = BecomeDormant(i, t)
    BY <1>4, <1>9, <1>11
  <2> HIDE DEF i, j
  <2>2. /\ Chain(s.k, j, NULL) /\ OthersSame(i, j, t) /\ ~MustEnd(j.tcb[t])
        /\ j.tcb[t].pri = IniPri[t] /\ j.tcb[t].bpri = IniPri[t] /\ j.tcb[t].wobj = NULL
        /\ j.wque = i.wque
    BY <2>1, BecomeDormantChain
  <2> QED
    BY <2>2 DEF i, j
<1>13. z \in MState
  <2>1. z.k \in KState
    BY <1>12 DEF Chain, Agree, WellTyped
  <2> QED
    BY <1>10, <1>11, <2>1 DEF MState
<1>14. \A v \in Task : Held(z, v, NULL) = Held(x, v, NULL)
  BY <1>11 DEF Held
<1>15. RankOK(z.k.tcb[t], {})
  <2>1. IniPri[t] \in Int
    BY KernelAssumption DEF Pri
  <2>2. Prios(IniPri[t], {}) = {IniPri[t]}
    BY DEF Prios
  <2> QED
    BY <1>1, <1>12, <2>1, <2>2 DEF RankOK, IsLeast, Bounds
<1>16. ASSUME NEW v \in Task
       PROVE  /\ RankOK(z.k.tcb[v], Held(z, v, NULL))
              /\ IsDormant(z.k.tcb[v].tstat) => Held(z, v, NULL) = {}
  <2>1. CASE v = t
    BY <1>8, <1>14, <1>15, <2>1
  <2>2. CASE v # t
    <3>1. z.k.tcb[v] = x.k.tcb[v]
      BY <1>12, <2>2 DEF OthersSame
    <3> QED
      BY <1>9, <1>14, <2>2, <3>1 DEF Own
  <2> QED
    BY <2>1, <2>2
<1>17. ASSUME NEW w \in Mtx
       PROVE  /\ z.loctsk[w] = NULL => z.k.wque[w] = << >>
              /\ \A v \in Task : z.k.tcb[v].wobj = w => z.loctsk[w] # v
  <2>1. \A v \in Task : z.k.tcb[v].wobj = w => x.k.tcb[v].wobj = w
    BY <1>1, <1>12 DEF OthersSame
  <2> QED
    BY <1>1, <1>9, <1>11, <1>12, <2>1 DEF Own
<1>18. \A v \in Task : IsQueue(z.lastmtx[v], Held(z, v, NULL))
  BY <1>9, <1>11, <1>14 DEF Own
<1>19. Own(z, NULL, NULL)
  BY <1>13, <1>16, <1>17, <1>18 DEF Own
<1>20. HandedNext(s, z)
  <2> SUFFICES ASSUME NEW m \in Mtx
               PROVE  z.loctsk[m] = s.loctsk[m] \/ z.loctsk[m] = NextOwner(s, m)
    BY DEF HandedNext
  <2>1. CASE z.loctsk[m] # s.loctsk[m]
    <3>1. x.loctsk[m] = NextOwner(y, m) /\ m \in Held(y, t, NULL)
      BY <1>2, <1>9, <1>11, <2>1 DEF HandedOver
    <3>2. s.loctsk[m] = t /\ m \in WObj
      BY <1>2, <3>1, MutexAssumption DEF Held
    <3>3. b.wobj # m
      BY <1>1, <3>2 DEF Own
    <3>4. NextOwner(y, m) = NextOwner(s, m)
      BY <1>6, <3>2, <3>3 DEF NextOwner
    <3> QED
      BY <1>11, <3>1, <3>4
  <2> QED
    BY <2>1
<1>21. \A v \in Task \ {t} : IsRunnable(s.k.tcb[v].tstat) => IsRunnable(z.k.tcb[v].tstat)
  BY <1>4, <1>9, <1>12 DEF OthersSame
<1>22. \A v \in Task \ {t} : IsDormant(s.k.tcb[v].tstat) => IsDormant(z.k.tcb[v].tstat)
  BY <1>4, <1>9, <1>12 DEF OthersSame
<1> QED
  BY <1>12, <1>19, <1>20, <1>21, <1>22

-----------------------------------------------------------------------------
\* A state in which no task is ending can be returned to the caller.
LEMMA ChainReturn ==
  ASSUME WaitInv, NEW s, Chain(K, s, NULL), Return(s),
         runtsk # NULL /\ (intnest \/ ~dspflg) => IsRunnable(s.tcb[runtsk].tstat)
  PROVE  WaitInv' /\ tcb' = s.tcb /\ wque' = s.wque
<1>1. /\ IInv /\ SInv /\ SchedtskExact(K) /\ K.tcb = tcb /\ NULL \notin Task
  BY QueueTypes, KernelAssumption
<1>2. WellTyped(s) /\ Sound(K, s) /\ View(s, NULL) = s
  <2>1. WellTyped(s) /\ Sound(K, s)
    BY DEF Chain, Agree
  <2> QED
    BY <1>1, <2>1, ViewFacts
<1>3. Agree(s, Place(s)) /\ WaitsExact(s) /\ SchedtskExact(s)
  BY <1>1, <1>2 DEF Chain
<1>4. TasksOK(s)
  BY <1>1 DEF Chain, TasksOKBut, TasksOK
<1>5. /\ s.runtsk = runtsk /\ s.dspflg = dspflg
      /\ ~dspflg => s.schedtsk = schedtsk
  BY <1>2 DEF Sound, KeepsSched, K
<1>6. \A v \in Task : MustEnd(s.tcb[v]) => v = runtsk /\ ~dspflg
  BY <1>1 DEF Chain, SInv, RequestsOK, K
<1>7. IInv'
  BY <1>1, <1>2, ReturnOK
<1>8. SStep
  BY <1>1, <1>2, <1>3, <1>4, <1>5, <1>6, ReturnTasksExact
<1>9. tcb' = s.tcb /\ wque' = s.wque
  BY <1>2, ReturnWaits DEF WellTyped, KState, HasWaits
<1>10. KeepsWaits(s, K')
  BY <1>9, WaitFields DEF KeepsWaits, SameWait
<1>11. WaitsExact(K')
  BY <1>3, <1>10, KeepsWaitsExact
<1> QED
  BY <1>1, <1>7, <1>8, <1>9, <1>11 DEF WaitInv, FullInv, SStep

\* The kernel state in which the running task ends, and the state after it.
Ending(s) == s = SetDspflg(K) \/ (s = K /\ dspflg /\ ~intnest)

\* The running task has ended and another is dispatched.
LEMMA ChainDispatch ==
  ASSUME WaitInv, NEW s0, Ending(s0), NEW s, Chain(s0, s, NULL), Becomes(Dispatch(s)),
         \A v \in Task \ {runtsk} : MustEnd(s.tcb[v]) => MustEnd(tcb[v]),
         ~MustEnd(s.tcb[runtsk]),
         enadsp' = TRUE, ipm' = FALSE, lock' \in BOOLEAN, intnest' = FALSE
  PROVE  WaitInv' /\ tcb' = s.tcb /\ wque' = s.wque
<1>1. /\ IInv /\ SInv /\ SchedtskExact(K) /\ K.tcb = tcb /\ NULL \notin Task
  BY QueueTypes, KernelAssumption
<1>2. /\ SchedtskExact(s0) /\ s0.dspflg = TRUE /\ s0.tcb = tcb
      /\ s0.twdsched = twdsched /\ s0.idlesched = idlesched
  <2>1. SchedtskExact(s0) /\ s0.dspflg = TRUE /\ s0.tcb = tcb
    BY <1>1, SetDspflgExact DEF Ending
  <2>2. s0.twdsched = twdsched /\ s0.idlesched = idlesched
    BY <1>1, SetDspflgOK DEF Ending, K
  <2> QED
    BY <2>1, <2>2
<1>3. WellTyped(s) /\ Sound(s0, s) /\ View(s, NULL) = s
  <2>1. WellTyped(s) /\ Sound(s0, s)
    BY DEF Chain, Agree
  <2> QED
    BY <1>1, <2>1, ViewFacts
<1>4. Agree(s, Place(s)) /\ WaitsExact(s) /\ SchedtskExact(s)
  BY <1>2, <1>3 DEF Chain
<1>5. TasksOK(s)
  BY <1>1 DEF Chain, TasksOKBut, TasksOK
<1>6. s.dspflg = TRUE /\ s.twdsched = twdsched /\ s.idlesched = idlesched
  BY <1>2, <1>3 DEF Sound, KeepsSched
<1>7. \A v \in Task : ~MustEnd(s.tcb[v])
  <2> TAKE v \in Task
  <2>1. MustEnd(tcb[v]) => v = runtsk
    BY <1>1 DEF SInv, RequestsOK, K
  <2> QED
    BY <2>1
<1>8. IInv'
  BY <1>1, <1>3, <1>6, DispatchOK
<1>9. SStep
  BY <1>4, <1>5, <1>6, <1>7, DispatchExact
<1>10. tcb' = s.tcb /\ wque' = s.wque
  BY <1>3, ReturnWaits DEF WellTyped, KState, HasWaits
<1>11. KeepsWaits(s, K')
  BY <1>10, WaitFields DEF KeepsWaits, SameWait
<1>12. WaitsExact(K')
  BY <1>4, <1>11, KeepsWaitsExact
<1> QED
  BY <1>1, <1>8, <1>9, <1>10, <1>12 DEF WaitInv, FullInv, SStep

\* The inductive invariant of the mutexes.
MtxInv == WaitInv /\ Own(KM, NULL, NULL)

\* The fields of KM.
LEMMA MtxFields ==
  /\ KM.k = K /\ KM.loctsk = loctsk /\ KM.lastmtx = lastmtx
  /\ KM'.k = K' /\ KM'.loctsk = loctsk' /\ KM'.lastmtx = lastmtx'
  /\ K.tcb = tcb /\ K.wque = wque /\ K'.tcb = tcb' /\ K'.wque = wque'
  /\ KM = [k |-> K, loctsk |-> loctsk, lastmtx |-> lastmtx]
  /\ KM' = [k |-> K', loctsk |-> loctsk', lastmtx |-> lastmtx']
BY WaitFields DEF KM

\* The types that the invariant gives.
LEMMA MtxTypes ==
  ASSUME MtxInv
  PROVE  /\ WaitInv /\ Own(KM, NULL, NULL) /\ KM \in MState
         /\ loctsk \in [Mtx -> Task \union {NULL}] /\ lastmtx \in [Task -> Seq(Mtx)]
         /\ Base(K) /\ Chain(K, K, NULL) /\ NULL \notin Task /\ NULL \notin Mtx
         /\ K \in KState /\ tcb \in [Task -> TCB] /\ wque \in [WObj -> Seq(Task)]
<1>1. /\ WaitInv /\ Own(KM, NULL, NULL) /\ KM \in MState /\ NULL \notin Task /\ NULL \notin Mtx
  BY MutexAssumption, KernelAssumption DEF MtxInv, Own
<1>2. /\ IInv /\ SInv /\ SchedtskExact(K) /\ WellTyped(K) /\ WaitsExact(K)
      /\ tcb \in [Task -> TCB] /\ wque \in [WObj -> Seq(Task)]
  BY <1>1, QueueTypes
<1>3. View(K, NULL) = K
  BY <1>1, <1>2, ViewFacts
<1>4. Base(K) /\ Chain(K, K, NULL)
  BY <1>2, <1>3 DEF SInv, Base, Chain, Sound, KeepsSched, TasksOK, TasksOKBut
<1> QED
  BY <1>1, <1>2, <1>4, MtxFields DEF MState, WellTyped

\* A step that has taken the kernel and the mutexes to z.
LEMMA OwnStep ==
  ASSUME WaitInv', NEW z, Own(z, NULL, NULL), tcb' = z.k.tcb, wque' = z.k.wque, OwnersBecome(z)
  PROVE  MtxInv' /\ loctsk' = z.loctsk
<1>1. /\ loctsk' = z.loctsk /\ lastmtx' = z.lastmtx
  BY DEF OwnersBecome
<1>2. K' \in KState
  BY DEF WaitInv, FullInv, IInv, WellTyped
<1>3. z \in MState
  BY DEF Own
<1>4. KM' \in MState
  <2>1. /\ loctsk' \in [Mtx -> Task \union {NULL}] /\ lastmtx' \in [Task -> Seq(Mtx)]
    BY <1>1, <1>3 DEF MState
  <2> QED
    BY <1>2, <2>1, MtxFields DEF MState
<1>5. /\ KM'.k.tcb = z.k.tcb /\ KM'.k.wque = z.k.wque
      /\ KM'.loctsk = z.loctsk /\ KM'.lastmtx = z.lastmtx
  BY <1>1, MtxFields
<1>6. Own(KM', NULL, NULL)
  <2>1. \A v \in Task \ {NULL} : KeepsRank(z.k.tcb[v], KM'.k.tcb[v])
    BY <1>5 DEF KeepsRank
  <2> QED
    BY <1>4, <1>5, <2>1, OwnKept
<1> QED
  BY <1>1, <1>6 DEF MtxInv

\* A step that gives no task another priority and takes none into a wait queue, and
\* changes the control block of the task t only.
RankStep(t) ==
  \A v \in Task : KeepsRank(tcb[v], tcb'[v]) /\ (v # t => tcb'[v] = tcb[v])

\* The changes of a control block that keep its rank.
LEMMA RankFields ==
  ASSUME NEW b \in TCB
  PROVE  /\ KeepsRank(b, b) /\ KeepsRank(b, Released(Unbound(b)))
         /\ \A f : /\ KeepsRank(b, [b EXCEPT !.actque = f])
                   /\ KeepsRank(b, [b EXCEPT !.wupque = f])
                   /\ KeepsRank(b, [b EXCEPT !.raster = f])
                   /\ KeepsRank(b, [b EXCEPT !.enater = f])
         /\ \A T : T # {} => KeepsRank(b, [b EXCEPT !.tstat = T])
         /\ \A flag : KeepsRank(b, Waiting(b, flag))
<1>1. {"SUSPENDED"} # {} /\ {"RUNNABLE"} # {} /\ \A flag : {flag} # {}
  OBVIOUS
<1> QED
  BY <1>1 DEF KeepsRank, Released, Unbound, Waiting, IsDormant, TCB

\* A step that changes one control block and keeps its rank.
LEMMA OneRank ==
  ASSUME MtxInv, NEW t \in Task, NEW b, NEW s, HasWaits(s),
         Return(s) \/ Becomes(s) \/ Becomes(Dispatch(s)) \/ Becomes(DispatchIfNeeded(s)),
         s.tcb = [tcb EXCEPT ![t] = b], KeepsRank(tcb[t], b)
  PROVE  RankStep(t)
<1>1. tcb' = [tcb EXCEPT ![t] = b]
  BY ReturnWaits
<1>2. tcb \in [Task -> TCB]
  BY MtxTypes
<1>3. tcb'[t] = b /\ \A v \in Task \ {t} : tcb'[v] = tcb[v]
  BY <1>1, <1>2
<1>4. \A v \in Task : KeepsRank(tcb[v], tcb[v])
  BY <1>2, RankFields
<1> QED
  BY <1>3, <1>4 DEF RankStep

\* A step that changes no control block.
LEMMA SameRank ==
  ASSUME MtxInv, tcb' = tcb
  PROVE  \A t : RankStep(t)
<1>1. \A v \in Task : KeepsRank(tcb[v], tcb[v])
  BY MtxTypes, RankFields
<1> QED
  BY <1>1 DEF RankStep

\* A step that sets a control block and makes its task runnable or not.
LEMMA CallRank ==
  ASSUME MtxInv, NEW t \in Task, NEW b, KeepsRank(tcb[t], b),
         LET z == TcbSet(K, t, b)
         IN  \E s \in {z, MakeRunnable(z, t), MakeNonRunnable(z, t)} : Return(s)
  PROVE  RankStep(t)
<1> DEFINE z == TcbSet(K, t, b)
<1>1. \A s \in {z, MakeRunnable(z, t), MakeNonRunnable(z, t)} :
        HasWaits(s) /\ s.tcb = [tcb EXCEPT ![t] = b]
  BY TcbSetWaits
<1>2. PICK s \in {z, MakeRunnable(z, t), MakeNonRunnable(z, t)} : Return(s)
  OBVIOUS
<1> HIDE DEF z
<1> QED
  BY <1>1, <1>2, OneRank

\* A step that sets one field of a control block.
LEMMA FieldRank ==
  ASSUME MtxInv, NEW t \in Task, NEW f,
         \/ Return([K EXCEPT !.tcb[t].actque = f])
         \/ Return([K EXCEPT !.tcb[t].wupque = f])
         \/ Return([K EXCEPT !.tcb[t].raster = f])
         \/ Return([K EXCEPT !.tcb[t].enater = f])
  PROVE  RankStep(t)
<1>1. tcb[t] \in TCB
  BY MtxTypes
<1>2. PICK c : KeepsRank(tcb[t], c) /\ Return(TcbSet(K, t, c))
  <2>1. CASE Return([K EXCEPT !.tcb[t].actque = f])
    <3>1. Return(TcbSet(K, t, [tcb[t] EXCEPT !.actque = f]))
      BY <2>1, WaitFields DEF TcbSet
    <3> QED
      BY <1>1, <3>1, RankFields
  <2>2. CASE Return([K EXCEPT !.tcb[t].wupque = f])
    <3>1. Return(TcbSet(K, t, [tcb[t] EXCEPT !.wupque = f]))
      BY <2>2, WaitFields DEF TcbSet
    <3> QED
      BY <1>1, <3>1, RankFields
  <2>3. CASE Return([K EXCEPT !.tcb[t].raster = f])
    <3>1. Return(TcbSet(K, t, [tcb[t] EXCEPT !.raster = f]))
      BY <2>3, WaitFields DEF TcbSet
    <3> QED
      BY <1>1, <3>1, RankFields
  <2>4. CASE Return([K EXCEPT !.tcb[t].enater = f])
    <3>1. Return(TcbSet(K, t, [tcb[t] EXCEPT !.enater = f]))
      BY <2>4, WaitFields DEF TcbSet
    <3> QED
      BY <1>1, <3>1, RankFields
  <2> QED
    BY <2>1, <2>2, <2>3, <2>4
<1> QED
  BY <1>2, CallRank

\* A task changes its state and stays active.
LEMMA StateRank ==
  ASSUME MtxInv, NEW t \in Task, NEW T, T # {},
         \/ Return([K EXCEPT !.tcb[t].tstat = T])
         \/ Return(MakeRunnable([K EXCEPT !.tcb[t].tstat = T], t))
         \/ Return(MakeNonRunnable([K EXCEPT !.tcb[t].tstat = T], t))
  PROVE  RankStep(t)
<1> DEFINE b == [tcb[t] EXCEPT !.tstat = T]
<1>1. [K EXCEPT !.tcb[t].tstat = T] = TcbSet(K, t, b)
  BY MtxTypes, WaitFields DEF TcbSet
<1>2. KeepsRank(tcb[t], b)
  BY MtxTypes, RankFields
<1> HIDE DEF b
<1>3. LET z == TcbSet(K, t, b)
      IN  \E s \in {z, MakeRunnable(z, t), MakeNonRunnable(z, t)} : Return(s)
  BY <1>1
<1> QED
  BY <1>2, <1>3, CallRank

\* An operation that changes one control block.
LEMMA OperationRank ==
  ASSUME MtxInv, NEW t \in Task, NEW s, NEW b, NEW T, Operation(s, t, b, T), Return(s),
         KeepsRank(tcb[t], b)
  PROVE  RankStep(t)
<1>1. PICK W : Effect(K, s, t, b, T, W)
  BY DEF Operation
<1>2. s \in KState
  BY <1>1 DEF Effect, Sound, WellTyped
<1>3. HasWaits(s) /\ s.tcb = [tcb EXCEPT ![t] = b]
  BY <1>1, <1>2, WaitFields DEF Effect, KState, HasWaits
<1> QED
  BY <1>3, OneRank

\* rel_wai, a timeout, or the end of a wait.
LEMMA ReleaseRank ==
  ASSUME MtxInv, NEW t \in Task, IsWaiting(tcb[t].tstat),
         \/ Return(WaitComplete(K, t)) \/ Return(WaitTmout(K, t))
         \/ Return(MakeNonWait(WaitDequeueTmevtb(WaitDequeueWObj(K, t), t), t))
  PROVE  RankStep(t)
<1> DEFINE b == Released(Unbound(tcb[t]))
           T == tmevt \ {t}
           d == MakeNonWait(WaitDequeueTmevtb(WaitDequeueWObj(K, t), t), t)
<1>1. IInv /\ SInv
  BY MtxTypes, QueueTypes
<1>2. /\ Operation(WaitComplete(K, t), t, b, T)
      /\ Operation(WaitTmout(K, t), t, b, T)
      /\ Operation(d, t, b, T)
  BY <1>1, ReleaseOperation
<1>3. KeepsRank(tcb[t], b)
  BY MtxTypes, RankFields
<1>4. Return(WaitComplete(K, t)) \/ Return(WaitTmout(K, t)) \/ Return(d)
  OBVIOUS
<1> HIDE DEF b, T, d
<1> QED
  BY <1>2, <1>3, <1>4, OperationRank

\* slp_tsk and dly_tsk.
LEMMA WaitRank ==
  ASSUME MtxInv, runtsk # NULL, NEW flag \in {"SLP", "DLY"}, NEW timed \in BOOLEAN,
         flag = "DLY" => timed, ~tcb[runtsk].raster, Return(MakeWaitTmout(K, flag, timed))
  PROVE  RankStep(runtsk)
<1> DEFINE b == Waiting(tcb[runtsk], flag)
           T == IF timed THEN tmevt \union {runtsk} ELSE tmevt
<1>1. IInv /\ SInv
  BY MtxTypes, QueueTypes
<1>2. Operation(MakeWaitTmout(K, flag, timed), runtsk, b, T)
  BY <1>1, WaitOperation
<1>3. runtsk \in Task
  BY <1>1, RunningTask
<1>4. KeepsRank(tcb[runtsk], b)
  BY <1>3, MtxTypes, RankFields
<1> HIDE DEF b, T
<1> QED
  BY <1>2, <1>3, <1>4, OperationRank

\* ras_ter of a task that has disabled its termination.
LEMMA RasTerRank ==
  ASSUME MtxInv, NEW t \in Task, ~tcb[t].enater, ~IsRunnable(tcb[t].tstat),
         Return(RasTerWaiting(t))
  PROVE  RankStep(t)
<1> DEFINE c == [Unbound(tcb[t]) EXCEPT !.raster = TRUE, !.tstat = {"RUNNABLE"}]
           T == tmevt \ {t}
<1>1. IInv /\ SInv
  BY MtxTypes, QueueTypes
<1>2. /\ Operation(RasTerWaiting(t), t, c, T)
      /\ c.wobj = NULL /\ c.pri = tcb[t].pri /\ c.bpri = tcb[t].bpri /\ ~IsDormant(c.tstat)
  BY <1>1, RasTerOperation
<1> HIDE DEF c, T
<1>3. KeepsRank(tcb[t], c)
  BY <1>2 DEF KeepsRank
<1> QED
  BY <1>2, <1>3, OperationRank

\* The calls on one task that no object depends on.
LEMMA PlainTaskRank ==
  ASSUME MtxInv, NEW t \in Task, PlainTaskCall(t)
  PROVE  RankStep(t)
<1>1. tcb[t] \in TCB /\ K.tcb = tcb /\ K.tcb[t] = tcb[t] /\ {"RUNNABLE"} # {} /\ {"SUSPENDED"} # {}
  BY MtxTypes, WaitFields
<1>2. CASE act_tsk(t) \/ can_act(t) \/ can_wup(t)
  BY <1>1, <1>2, FieldRank, StateRank DEF act_tsk, can_act, can_wup, MakeActive
<1>3. CASE wup_tsk(t)
  <2>1. "SLP" \in tcb[t].tstat => IsWaiting(tcb[t].tstat)
    BY DEF IsWaiting, WaitFlag
  <2> QED
    BY <1>3, <2>1, FieldRank, ReleaseRank DEF wup_tsk
<1>4. CASE sus_tsk(t)
  <2>1. CASE IsRunnable(tcb[t].tstat)
    BY <1>1, <1>4, <2>1, StateRank DEF sus_tsk
  <2>2. CASE ~IsRunnable(tcb[t].tstat)
    <3>1. tcb[t].tstat \union {"SUSPENDED"} # {}
      OBVIOUS
    <3>2. Return([K EXCEPT !.tcb[t].tstat = tcb[t].tstat \union {"SUSPENDED"}])
      BY <1>1, <1>4, <2>2 DEF sus_tsk
    <3> QED
      BY <3>1, <3>2, StateRank
  <2> QED
    BY <2>1, <2>2
<1>5. CASE rsm_tsk(t)
  <2>1. CASE ~IsWaiting(tcb[t].tstat)
    BY <1>1, <1>5, <2>1, StateRank DEF rsm_tsk
  <2>2. CASE IsWaiting(tcb[t].tstat)
    <3>1. tcb[t].tstat \ {"SUSPENDED"} # {}
      BY <2>2 DEF IsWaiting, WaitFlag
    <3>2. Return([K EXCEPT !.tcb[t].tstat = tcb[t].tstat \ {"SUSPENDED"}])
      BY <1>1, <1>5, <2>2 DEF rsm_tsk
    <3> QED
      BY <3>1, <3>2, StateRank
  <2> QED
    BY <2>1, <2>2
<1> QED
  BY <1>2, <1>3, <1>4, <1>5 DEF PlainTaskCall

\* The calls that no object depends on.
LEMMA PlainRank ==
  ASSUME MtxInv, PlainCall
  PROVE  \E t : RankStep(t)
<1>1. IInv /\ SInv /\ (runtsk # NULL => runtsk \in Task)
  BY MtxTypes, QueueTypes, RunningTask
<1>2. CASE \E t \in Task : PlainTaskCall(t)
  BY <1>2, PlainTaskRank
<1>3. CASE dis_ter
  BY <1>1, <1>3, FieldRank DEF dis_ter, TskCtxUnl
<1>4. CASE dly_tsk \/ \E timed \in BOOLEAN : slp_tsk(timed)
  BY <1>1, <1>4, FieldRank, WaitRank DEF dly_tsk, slp_tsk, CheckDispatch, TskCtxUnl
<1>5. CASE \E p \in Pri, u \in Unit : rot_rdq(p, u)
  <2>1. PICK p \in Pri, u \in Unit : Return(RotateReadyQueue(K, p, u))
    BY <1>5 DEF rot_rdq
  <2>2. SameWaits(K, RotateReadyQueue(K, p, u))
    BY WaitFields, SchedulingFrame
  <2> QED
    BY <2>1, <2>2, WaitFields, ReturnWaits, SameRank DEF SameWaits
<1>6. CASE loc_cpu \/ unl_cpu \/ IntEnter
  BY <1>6, SameRank DEF loc_cpu, unl_cpu, IntEnter, kvars
<1>7. CASE dis_dsp
  BY <1>7, SameRank DEF dis_dsp, Becomes, K
<1>8. CASE IntExit
  BY <1>8, WaitFields, ReturnWaits, SameRank DEF IntExit
<1> QED
  BY <1>2, <1>3, <1>4, <1>5, <1>6, <1>7, <1>8 DEF PlainCall

\* A call of the core that changes no priority keeps the invariant.
LEMMA CoreOwn ==
  ASSUME MtxInv, [Next]_vars, NEW t, RankStep(t), UNCHANGED mtxvars
  PROVE  MtxInv' /\ loctsk' = loctsk
<1>1. WaitInv /\ Own(KM, NULL, NULL) /\ KM \in MState /\ wque \in [WObj -> Seq(Task)]
  BY MtxTypes
<1>2. WaitInv' /\ (SameLengths \/ \E w \in WObj : OneLess(w))
  BY <1>1, CoreWaits
<1>3. wque' \in [WObj -> Seq(Task)] /\ K' \in KState
  BY <1>2, QueueTypesNext DEF WaitInv, FullInv, IInv, WellTyped
<1>4. \A w \in WObj : wque[w] = << >> => wque'[w] = << >>
  <2> TAKE w \in WObj
  <2>1. wque'[w] \in Seq(Task) /\ (Len(wque'[w]) = 0 => wque'[w] = << >>)
    BY <1>3
  <2>2. CASE SameLengths
    BY <2>1, <2>2 DEF SameLengths
  <2>3. CASE \E x \in WObj : OneLess(x)
    BY <2>3 DEF OneLess
  <2> QED
    BY <1>2, <2>2, <2>3
<1>5. loctsk' = loctsk /\ lastmtx' = lastmtx
  BY DEF mtxvars
<1>6. KM' \in MState
  BY <1>1, <1>3, <1>5, MtxFields DEF MState
<1>7. \A v \in Task \ {NULL} : KeepsRank(KM.k.tcb[v], KM'.k.tcb[v])
  BY MtxFields DEF RankStep
<1>8. \A v \in Task : KM'.k.tcb[v].wobj = KM.k.tcb[v].wobj \/ KM'.k.tcb[v].wobj = NULL
  BY MtxFields DEF RankStep, KeepsRank
<1>9. \A w \in Mtx : KM.k.wque[w] = << >> => KM'.k.wque[w] = << >>
  BY <1>4, MtxFields, MutexAssumption
<1>10. Own(KM', NULL, NULL)
  BY <1>1, <1>5, <1>6, <1>7, <1>8, <1>9, MtxFields, OwnKept
<1> QED
  BY <1>2, <1>5, <1>10 DEF MtxInv

\* What becomes of the owner of a mutex in one step.
MtxStep ==
  /\ MtxInv'
  /\ \A m \in Mtx : \/ loctsk[m] = NULL \/ loctsk'[m] = loctsk[m]
                    \/ loctsk'[m] = NextOwner(KM, m)
                    \/ loctsk'[m] = NULL /\ ini_mtx(m)

\* No dormant task but t becomes active.
LeavesDormant(t) ==
  \A v \in Task \ {t} : IsDormant(tcb[v].tstat) => IsDormant(tcb'[v].tstat)

\* A step that locks no free mutex and activates no task but t.
MtxMove(t) ==
  /\ MtxInv' /\ LeavesDormant(t)
  /\ \A m \in Mtx : \/ loctsk'[m] = loctsk[m] \/ loctsk'[m] = NextOwner(KM, m)
                    \/ loctsk'[m] = NULL /\ ini_mtx(m)

\* It is a step like any other.
LEMMA MoveIsStep ==
  ASSUME NEW t, MtxMove(t)
  PROVE  MtxStep
BY DEF MtxMove, MtxStep

\* The running task is runnable and in no wait queue.
LEMMA RunningChain ==
  ASSUME MtxInv, runtsk # NULL
  PROVE  /\ runtsk \in Task /\ K.runtsk = runtsk /\ tcb[runtsk] \in TCB
         /\ IsRunnable(tcb[runtsk].tstat) /\ ~IsDormant(tcb[runtsk].tstat)
         /\ ~InQueue(tcb[runtsk]) /\ tcb[runtsk].wobj = NULL
<1>1. IInv /\ SInv /\ K.tcb = tcb
  BY MtxTypes, QueueTypes
<1>2. runtsk \in Task /\ K.runtsk = runtsk
  BY <1>1, RunningTask
<1>3. tcb[runtsk] \in TCB /\ TcbOK(runtsk, tcb[runtsk], runtsk \in tmevt)
      /\ IsRunnable(tcb[runtsk].tstat)
  BY <1>1, <1>2, TaskBefore
<1>4. ~InQueue(tcb[runtsk])
  BY <1>3, StateWaits
<1>5. tcb[runtsk].wobj = NULL
  BY <1>3, <1>4 DEF TcbOK, InQueue
<1>6. ~IsDormant(tcb[runtsk].tstat)
  BY <1>3, StateFacts
<1> QED
  BY <1>2, <1>3, <1>4, <1>5, <1>6

\* chg_pri, first half: the base priority alone.
LEMMA BaseChain ==
  ASSUME MtxInv, NEW t \in Task, ~IsDormant(tcb[t].tstat), NEW p \in Pri,
         NEW c, c = [tcb[t] EXCEPT !.bpri = p], NEW k, k = [K EXCEPT !.tcb[t].bpri = p]
  PROVE  /\ Chain(K, k, NULL) /\ k.tcb = [tcb EXCEPT ![t] = c] /\ k.wque = wque /\ c \in TCB
<1> DEFINE b == tcb[t]
<1>1. /\ WaitInv /\ Base(K) /\ K \in KState /\ tcb \in [Task -> TCB] /\ NULL \notin Task
      /\ K.tcb = tcb /\ K.wque = wque /\ K.tmevt = tmevt
  BY MtxTypes, WaitFields
<1>2. IInv /\ SInv /\ WellTyped(K) /\ WaitsExact(K) /\ b \in TCB
  BY <1>1, QueueTypes
<1>3. /\ c \in TCB /\ c.tstat = b.tstat /\ c.pri = b.pri /\ c.wobj = b.wobj
      /\ c.raster = b.raster /\ c.enater = b.enater
  BY <1>2 DEF TCB
<1>4. k = TcbSet(K, t, c)
  BY <1>1 DEF TcbSet
<1>5. Effect(K, k, t, c, tmevt, wque)
  <2>1. Agree(K, Place(K)) /\ PlaceOf(c) = PlaceOf(K.tcb[t])
    BY <1>1, <1>3 DEF PlaceOf, Base
  <2> QED
    BY <1>1, <1>3, <1>4, <2>1, TcbEffect
<1>6. /\ Sound(K, k) /\ Agree(k, Place(k)) /\ (SchedtskExact(K) => SchedtskExact(k))
      /\ k.tcb = [tcb EXCEPT ![t] = c] /\ k.tmevt = tmevt /\ k.wque = wque
  BY <1>1, <1>5 DEF Effect, AgreeAfter
<1>7. k.tcb[t] = c /\ \A v \in Task \ {t} : k.tcb[v] = tcb[v]
  BY <1>1, <1>6
<1>8. View(k, NULL) = k
  BY <1>1, <1>6, ViewFacts DEF Sound
<1>9. WaitsExact(k)
  <2>1. SameWait(b, c) /\ \A v \in Task : SameWait(tcb[v], tcb[v])
    BY <1>3 DEF SameWait, InQueue
  <2>2. KeepsWaits(K, k)
    BY <1>1, <1>6, <1>7, <2>1 DEF KeepsWaits
  <2> QED
    BY <1>2, <2>2, KeepsWaitsExact
<1>10. TasksOKBut(k, NULL)
  <2> SUFFICES ASSUME NEW v \in Task PROVE TcbOK(v, k.tcb[v], v \in k.tmevt)
    BY DEF TasksOKBut
  <2>1. TcbOK(v, tcb[v], v \in tmevt)
    BY <1>1 DEF Base, TasksOK
  <2>2. CASE v = t
    BY <1>3, <1>6, <1>7, <2>1, <2>2 DEF TcbOK
  <2>3. CASE v # t
    BY <1>6, <1>7, <2>1, <2>3
  <2> QED
    BY <2>2, <2>3
<1>11. \A v \in Task \ {NULL} : MustEnd(k.tcb[v]) => MustEnd(K.tcb[v])
  <2> TAKE v \in Task \ {NULL}
  <2>1. CASE v = t
    BY <1>1, <1>3, <1>7, <2>1 DEF MustEnd
  <2>2. CASE v # t
    BY <1>1, <1>7, <2>2
  <2> QED
    BY <2>1, <2>2
<1> QED
  BY <1>3, <1>6, <1>8, <1>9, <1>10, <1>11 DEF Chain

\* The step of a call that takes the kernel and the mutexes to z.
LEMMA ReturnOwn ==
  ASSUME MtxInv, NEW z, Chain(K, z.k, NULL), Own(z, NULL, NULL), MtxReturn(z),
         runtsk # NULL => IsRunnable(z.k.tcb[runtsk].tstat)
  PROVE  MtxInv' /\ loctsk' = z.loctsk /\ tcb' = z.k.tcb
<1> DEFINE j == z.k
<1>1. Chain(K, j, NULL) /\ Return(j) /\ (runtsk # NULL => IsRunnable(j.tcb[runtsk].tstat))
  BY DEF MtxReturn
<1> HIDE DEF j
<1>2. WaitInv' /\ tcb' = j.tcb /\ wque' = j.wque
  BY <1>1, ChainReturn, MtxTypes
<1> QED
  BY <1>2, OwnStep DEF j, MtxReturn

\* The invariant of the owners, with one task left out or not.
LEMMA OwnBut ==
  ASSUME NEW s, NEW d, NEW t \in Task, NULL \notin Task
  PROVE  /\ Own(s, d, NULL) => Own(s, d, t)
         /\ /\ Own(s, d, t) /\ RankOK(s.k.tcb[t], Held(s, t, d))
            /\ IsDormant(s.k.tcb[t].tstat) => Held(s, t, d) = {}
            => Own(s, d, NULL)
BY DEF Own

\* chg_pri to a priority that no ceiling exceeds.
LEMMA RankSet ==
  ASSUME NEW b \in TCB, NEW H \in SUBSET Mtx, RankOK(b, H), NEW p \in Pri,
         Bounds(p, H), Bounds(p, {b.wobj} \intersect Mtx),
         NEW c \in TCB, c.bpri = p, c.wobj = b.wobj,
         c.pri = IF \E m \in H : MTX_CEILING(m) THEN b.pri ELSE p
  PROVE  RankOK(c, H)
<1> DEFINE P == Prios(b.bpri, H)
           Q == Prios(p, H)
<1>1. b.bpri \in Pri /\ b.pri \in Pri /\ b.pri \in Int /\ p \in Int
  BY DEF TCB, Pri
<1>2. IsLeast(b.pri, P)
  BY DEF RankOK
<1>3. /\ Q \subseteq Pri /\ p \in Q
      /\ \A m \in H : MTX_CEILING(m) => CeilPri[m] \in Q /\ CeilPri[m] \in P /\ CeilPri[m] \in Int
      /\ \A q \in Q : q = p \/ \E m \in H : MTX_CEILING(m) /\ q = CeilPri[m]
      /\ \A q \in P : q = b.bpri \/ \E m \in H : MTX_CEILING(m) /\ q = CeilPri[m]
  BY <1>1, PriosFacts DEF Pri
<1> HIDE DEF P, Q
<1>4. IsLeast(c.pri, Q)
  <2>1. CASE \E m \in H : MTX_CEILING(m)
    <3>1. PICK m \in H : MTX_CEILING(m)
      BY <2>1
    <3>2. c.pri = b.pri
      BY <2>1
    <3>3. /\ CeilPri[m] \in Int /\ b.pri <= CeilPri[m] /\ CeilPri[m] <= p /\ CeilPri[m] <= b.bpri
      <4>1. b.bpri >= CeilPri[m] /\ p >= CeilPri[m]
        BY <3>1 DEF RankOK, Bounds
      <4>2. b.bpri \in Int /\ CeilPri[m] \in Int
        BY <1>1, <1>3, <3>1 DEF Pri
      <4> QED
        BY <1>1, <1>2, <1>3, <3>1, <4>1, <4>2 DEF IsLeast
    <3>4. b.pri \in Q
      <4>1. CASE b.pri = b.bpri
        <5>1. b.pri = CeilPri[m]
          BY <1>1, <3>3, <4>1
        <5> QED
          BY <1>3, <3>1, <5>1
      <4>2. CASE b.pri # b.bpri
        BY <1>2, <1>3, <4>2 DEF IsLeast
      <4> QED
        BY <4>1, <4>2
    <3>5. \A q \in Q : b.pri <= q
      <4> TAKE q \in Q
      <4>1. CASE q = p
        BY <1>1, <3>3, <4>1
      <4>2. CASE q # p
        BY <1>2, <1>3, <4>2 DEF IsLeast
      <4> QED
        BY <4>1, <4>2
    <3> QED
      BY <3>2, <3>4, <3>5 DEF IsLeast
  <2>2. CASE ~\E m \in H : MTX_CEILING(m)
    <3>1. c.pri = p /\ \A q \in Q : q = p
      BY <1>3, <2>2
    <3> QED
      BY <1>1, <1>3, <3>1 DEF IsLeast
  <2> QED
    BY <2>1, <2>2
<1> QED
  BY <1>4 DEF RankOK, Q

\* chg_pri
LEMMA ChgPriOwn ==
  ASSUME MtxInv, NEW t \in Task, NEW p \in Pri, MtxChgPri(t, p)
  PROVE  MtxInv' /\ loctsk' = loctsk /\ LeavesDormant(t)
<1> DEFINE b == tcb[t]
           c == [b EXCEPT !.bpri = p]
           k == [K EXCEPT !.tcb[t].bpri = p]
           x == ChangePriority(k, t, p, FALSE)
           H == Held(KM, t, NULL)
<1>1. /\ WaitInv /\ Own(KM, NULL, NULL) /\ KM \in MState /\ NULL \notin Task
      /\ lastmtx \in [Task -> Seq(Mtx)] /\ b \in TCB /\ tcb \in [Task -> TCB]
      /\ KM.k = K /\ KM.loctsk = loctsk /\ KM.lastmtx = lastmtx /\ K.tcb = tcb /\ K.wque = wque
  BY MtxTypes, MtxFields
<1>2. /\ ~IsDormant(b.tstat) /\ CheckCeilPri(t, p) /\ ~intnest
      /\ UNCHANGED mtxvars
      /\ IF ScanCeilMtx(t) THEN Becomes(k) /\ UNCHANGED cpuvars ELSE Return(x)
  BY DEF MtxChgPri, TskCtxUnl
<1>3. H \in SUBSET Mtx /\ Range(lastmtx[t]) = H /\ RankOK(b, H)
  <2>1. IsQueue(lastmtx[t], H) /\ RankOK(b, H)
    BY <1>1 DEF Own
  <2>2. H \in SUBSET Mtx
    BY DEF Held
  <2> HIDE DEF H
  <2> QED
    BY <2>1, <2>2 DEF IsQueue, Range
<1>4. Bounds(p, H) /\ Bounds(p, {b.wobj} \intersect Mtx)
  BY <1>2, <1>3 DEF CheckCeilPri, Bounds
<1>5. ScanCeilMtx(t) <=> \E m \in H : MTX_CEILING(m)
  BY <1>3 DEF ScanCeilMtx
<1>6. Chain(K, k, NULL) /\ k.tcb = [tcb EXCEPT ![t] = c] /\ k.wque = wque /\ c \in TCB
  BY <1>1, <1>2, BaseChain
<1>7. c.tstat = b.tstat /\ c.pri = b.pri /\ c.wobj = b.wobj /\ c.bpri = p
  BY <1>1 DEF TCB
<1> HIDE DEF c, k, H, b
<1>8. k.tcb[t] = c /\ OthersSame(K, k, t)
  BY <1>1, <1>6 DEF OthersSame
<1>9. runtsk # NULL => IsRunnable(tcb[runtsk].tstat)
  BY RunningChain
<1>10. ASSUME NEW j, Chain(K, j, NULL), OthersSame(K, j, t), j.tcb[t].tstat = b.tstat,
              j.tcb[t].wobj = b.wobj, j.tcb[t].bpri = p, j.tcb[t] \in TCB,
              j.tcb[t].pri = IF \E m \in H : MTX_CEILING(m) THEN b.pri ELSE p,
              \A w \in WObj : wque[w] = << >> => j.wque[w] = << >>,
              Return(j)
       PROVE  MtxInv' /\ loctsk' = loctsk /\ LeavesDormant(t)
  <2> DEFINE z == [k |-> j, loctsk |-> loctsk, lastmtx |-> lastmtx]
  <2>1. z.k = j /\ z.loctsk = loctsk /\ z.lastmtx = lastmtx
    OBVIOUS
  <2>2. z \in MState
    <3>1. j \in KState
      BY <1>10 DEF Chain, Sound, WellTyped
    <3> QED
      BY <3>1, MtxTypes DEF MState
  <2> HIDE DEF z
  <2>3. \A v \in Task : Held(z, v, NULL) = Held(KM, v, NULL)
    BY <1>1, <2>1 DEF Held
  <2>4. Own(z, NULL, t)
    <3>1. Own(KM, NULL, t)
      BY <1>1, OwnBut
    <3>2. \A v \in Task \ {t} : KeepsRank(KM.k.tcb[v], z.k.tcb[v])
      BY <1>1, <1>10, <2>1 DEF OthersSame, KeepsRank
    <3>3. \A v \in Task : z.k.tcb[v].wobj = KM.k.tcb[v].wobj
      BY <1>1, <1>10, <2>1 DEF OthersSame, b
    <3>4. \A w \in Mtx : KM.k.wque[w] = << >> => z.k.wque[w] = << >>
      BY <1>1, <1>10, <2>1, MutexAssumption
    <3> QED
      BY <1>1, <2>1, <2>2, <3>1, <3>2, <3>3, <3>4, OwnKept
  <2>5. RankOK(j.tcb[t], H)
    <3> DEFINE d == j.tcb[t]
    <3>1. /\ d \in TCB /\ d.bpri = p /\ d.wobj = b.wobj
          /\ d.pri = IF \E m \in H : MTX_CEILING(m) THEN b.pri ELSE p
      BY <1>10
    <3>2. b \in TCB
      BY <1>1 DEF b
    <3> HIDE DEF d
    <3>3. RankOK(d, H)
      BY <1>3, <1>4, <3>1, <3>2, RankSet
    <3> QED
      BY <3>3 DEF d
  <2>6. Own(z, NULL, NULL)
    BY <1>1, <1>2, <1>10, <2>1, <2>3, <2>4, <2>5, OwnBut DEF H
  <2>7. MtxReturn(z)
    BY <1>2, <1>10, <2>1 DEF MtxReturn, OwnersBecome, mtxvars
  <2>8. runtsk # NULL => IsRunnable(z.k.tcb[runtsk].tstat)
    BY <1>1, <1>9, <1>10, <2>1, RunningChain DEF OthersSame, b
  <2> QED
    <3>1. MtxInv' /\ loctsk' = z.loctsk /\ tcb' = z.k.tcb
      BY <1>10, <2>1, <2>6, <2>7, <2>8, ReturnOwn
    <3> QED
      BY <1>1, <1>10, <2>1, <3>1 DEF LeavesDormant, OthersSame
<1>11. CASE ScanCeilMtx(t)
  <2>1. Becomes(k) /\ UNCHANGED cpuvars
    BY <1>2, <1>11
  <2>2. Return(k)
    <3>1. k.runtsk = K.runtsk /\ k.schedtsk = K.schedtsk
      BY DEF k, K
    <3>2. K.runtsk = K.schedtsk
      BY <1>1, <1>2, QueueTypes DEF IInv, RunsWhatIsScheduled, K
    <3> QED
      BY <2>1, <3>1, <3>2 DEF Return, DispatchIfNeeded
  <2> QED
    BY <1>1, <1>5, <1>6, <1>7, <1>8, <1>10, <1>11, <2>2
<1>12. CASE ~ScanCeilMtx(t)
  <2>1. Return(x)
    BY <1>2, <1>12
  <2>2. ~IsDormant(k.tcb[t].tstat)
    BY <1>2, <1>7, <1>8
  <2>3. /\ Chain(K, x, NULL) /\ OthersSame(k, x, t) /\ x.tcb[t] = AtPri(c, p)
        /\ \A w \in WObj : k.wque[w] = << >> => x.wque[w] = << >>
    <3> DEFINE f == FALSE
    <3>1. f \in BOOLEAN /\ x = ChangePriority(k, t, p, f) /\ Chain(K, k, NULL)
      BY <1>6
    <3> HIDE DEF f, x
    <3>2. /\ Chain(K, x, NULL) /\ OthersSame(k, x, t) /\ x.tcb[t] = AtPri(k.tcb[t], p)
          /\ \A w \in WObj : k.wque[w] = << >> => x.wque[w] = << >>
      BY <2>2, <3>1, PriorityChain
    <3> QED
      BY <1>8, <3>2
  <2>4. /\ AtPri(c, p) \in TCB /\ AtPri(c, p).pri = p /\ AtPri(c, p).tstat = b.tstat
        /\ AtPri(c, p).wobj = b.wobj /\ AtPri(c, p).bpri = p
    BY <1>6, <1>7 DEF AtPri, TCB
  <2>5. OthersSame(K, x, t)
    BY <1>8, <2>3 DEF OthersSame
  <2> QED
    BY <1>5, <1>6, <1>10, <1>12, <2>1, <2>3, <2>4, <2>5
<1> QED
  BY <1>11, <1>12

\* The task to be executed stays so when its priority is raised.
LEMMA RaisedIsSelected ==
  ASSUME NEW s, NEW y, Agree(s, Place(s)), NEW t \in Task, Selected(s) = t, NEW p \in Pri,
         p < s.tcb[t].pri, y.tcb = [s.tcb EXCEPT ![t].pri = p],
         y.predtsk = s.predtsk, y.twdsched = s.twdsched, y.idlesched = s.idlesched
  PROVE  Selected(y) = t
<1> DEFINE kernel == s.predtsk[KERNEL]
           twd    == s.predtsk[s.twdsched]
<1>1. /\ s.predtsk \in [Unit -> Task \union {NULL}] /\ s.tcb \in [Task -> TCB]
      /\ s.twdsched \in Unit /\ s.idlesched \in Unit /\ KERNEL \in Unit /\ NULL \notin Task
  BY KernelAssumption DEF Agree, WellTyped, KState
<1>2. \A v \in Task : /\ s.tcb[v].pri \in Int
                      /\ v # t => y.tcb[v].pri = s.tcb[v].pri
  BY <1>1 DEF TCB, Pri
<1>3. y.tcb[t].pri = p /\ p \in Int /\ s.tcb[t].pri \in Int
  BY <1>1, <1>2 DEF TCB, Pri
<1>4. kernel \in Task \union {NULL} /\ twd \in Task \union {NULL}
  BY <1>1
<1>5. y.predtsk[KERNEL] = kernel /\ y.predtsk[y.twdsched] = twd
      /\ y.predtsk[y.idlesched] = s.predtsk[s.idlesched]
  OBVIOUS
<1> HIDE DEF kernel, twd
<1>6. /\ Selected(s) = IF kernel # NULL
                       THEN IF twd # NULL /\ s.tcb[twd].pri < s.tcb[kernel].pri
                            THEN twd ELSE kernel
                       ELSE IF twd # NULL THEN twd ELSE s.predtsk[s.idlesched]
      /\ Selected(y) = IF kernel # NULL
                       THEN IF twd # NULL /\ y.tcb[twd].pri < y.tcb[kernel].pri
                            THEN twd ELSE kernel
                       ELSE IF twd # NULL THEN twd ELSE s.predtsk[s.idlesched]
  BY <1>5 DEF Selected, kernel, twd
<1>7. CASE kernel = NULL \/ twd = NULL \/ kernel = twd
  <2>1. kernel = twd /\ kernel # NULL => Selected(s) = kernel /\ Selected(y) = kernel
    BY <1>6
  <2> QED
    BY <1>6, <1>7, <2>1
<1>8. CASE kernel # NULL /\ twd # NULL /\ kernel # twd
  <2>1. kernel \in Task /\ twd \in Task
    BY <1>4, <1>8
  <2>2. CASE s.tcb[twd].pri < s.tcb[kernel].pri
    <3>1. t = twd
      BY <1>6, <1>8, <2>2
    <3>2. y.tcb[kernel].pri = s.tcb[kernel].pri /\ y.tcb[twd].pri = p
      BY <1>2, <1>3, <1>8, <2>1, <3>1
    <3>3. y.tcb[twd].pri < y.tcb[kernel].pri
      BY <1>2, <1>3, <2>1, <2>2, <3>1, <3>2
    <3> QED
      BY <1>6, <1>8, <3>1, <3>3
  <2>3. CASE ~(s.tcb[twd].pri < s.tcb[kernel].pri)
    <3>1. t = kernel
      BY <1>6, <1>8, <2>3
    <3>2. y.tcb[twd].pri = s.tcb[twd].pri /\ y.tcb[kernel].pri = p
      BY <1>2, <1>3, <1>8, <2>1, <3>1
    <3>3. ~(y.tcb[twd].pri < y.tcb[kernel].pri)
      BY <1>2, <1>3, <2>1, <2>3, <3>1, <3>2
    <3> QED
      BY <1>6, <1>8, <3>1, <3>3
  <2> QED
    BY <2>2, <2>3
<1> QED
  BY <1>7, <1>8

\* mutex.c:357: raising the running task to a ceiling needs no dispatch.
LEMMA RaiseRunning ==
  ASSUME MtxInv, ~intnest, runtsk # NULL, NEW p \in Pri, p < tcb[runtsk].pri,
         NEW z, z = ChangePriority(K, runtsk, p, TRUE)
  PROVE  z.runtsk = z.schedtsk
<1> DEFINE t == runtsk
           u == UnitOf[t]
           old == K.tcb[t].pri
           s1 == [K EXCEPT !.tcb[t].pri = p]
           s2 == Requeue(s1, t, old, p, TRUE)
<1>1. /\ WaitInv /\ Base(K) /\ K \in KState /\ tcb \in [Task -> TCB] /\ NULL \notin Task
      /\ K.tcb = tcb
  BY MtxTypes, WaitFields
<1>2. /\ IInv /\ SInv /\ WellTyped(K) /\ SchedtskExact(K) /\ Agree(K, Place(K))
  BY <1>1, QueueTypes DEF Base
<1>3. t \in Task /\ K.runtsk = t /\ tcb[t] \in TCB /\ IsRunnable(tcb[t].tstat)
  BY RunningChain
<1>4. K.schedtsk = t
  BY <1>2 DEF IInv, RunsWhatIsScheduled, K
<1>5. Sound(K, z)
  BY <1>2, <1>3, ChangePrioritySound
<1>6. z.runtsk = t
  BY <1>3, <1>5 DEF Sound, KeepsSched
<1>7. CASE ~K.dspflg
  BY <1>4, <1>5, <1>6, <1>7 DEF Sound, KeepsSched
<1>8. CASE K.dspflg
  <2>1. Selected(K) = t
    BY <1>2, <1>4, <1>8 DEF SchedtskExact
  <2>2. K.predtsk[u] = t
    <3>1. \E x \in Unit : K.predtsk[x] = t
      BY <1>1, <2>1, KernelAssumption DEF Selected, KState
    <3>2. PICK x \in Unit : K.predtsk[x] = t
      BY <3>1
    <3>3. t # NULL /\ Leads(K, x, t)
      BY <1>1, <1>2, <1>3, <3>2, PredtskLeads
    <3> QED
      BY <3>2, <3>3 DEF Leads, RunnableIn
  <2>3. old \in Int /\ p \in Int /\ ~(p >= old)
    BY <1>1, <1>3 DEF TCB, Pri
  <2>4. z = SetPredtsk(s2, u, t)
    BY <1>1, <1>3, <2>2, <2>3 DEF ChangePriority
  <2> DEFINE y == [s2 EXCEPT !.predtsk[u] = t]
  <2>5. /\ y.tcb = [tcb EXCEPT ![t].pri = p] /\ y.predtsk = K.predtsk
        /\ y.twdsched = K.twdsched /\ y.idlesched = K.idlesched /\ y.dspflg = K.dspflg
        /\ "schedtsk" \in DOMAIN y
    <3>1. u \in Unit
      BY <1>3, KernelAssumption
    <3>2. [K.predtsk EXCEPT ![u] = t] = K.predtsk
      BY <1>1, <2>2, <3>1 DEF KState
    <3> DEFINE b == [tcb[t] EXCEPT !.pri = p]
               pl == Place(K)
    <3>3. b \in TCB
      BY <1>3 DEF TCB
    <3>4. s1 = TcbSet(K, t, b) /\ [tcb EXCEPT ![t].pri = p] = [tcb EXCEPT ![t] = b]
      BY <1>1 DEF TcbSet
    <3> HIDE DEF b, s1
    <3>5. /\ WellTyped(s1) /\ KeepsSched(K, s1) /\ s1.schedtsk = K.schedtsk
          /\ s1.tcb = [tcb EXCEPT ![t].pri = p]
          /\ s1.ready = K.ready /\ s1.primap = K.primap /\ s1.predtsk = K.predtsk
      <4>1. LET x == TcbSet(K, t, b)
            IN  /\ WellTyped(x) /\ KeepsSched(K, x) /\ x.schedtsk = K.schedtsk
                /\ x.tcb = [K.tcb EXCEPT ![t] = b]
                /\ x.ready = K.ready /\ x.primap = K.primap /\ x.predtsk = K.predtsk
        BY <1>2, <1>3, <3>3, TcbFields
      <4> QED
        BY <1>1, <3>4, <4>1
    <3>6. /\ QueuesExact(s1, pl) /\ IsPlacement(pl) /\ old \in Pri /\ pl[t] = old
      <4>1. old \in Pri /\ IsPlacement(pl) /\ pl[t] = PlaceOf(K.tcb[t])
        BY <1>1, <1>2, <1>3, PlaceFacts DEF TCB
      <4>2. pl[t] = old
        BY <1>1, <1>3, <4>1 DEF PlaceOf
      <4>3. QueuesExact(K, pl)
        BY <1>2 DEF Agree
      <4> QED
        BY <3>5, <4>1, <4>2, <4>3 DEF QueuesExact
    <3> DEFINE f == TRUE
    <3>7. f \in BOOLEAN /\ s2 = Requeue(s1, t, old, p, f)
      OBVIOUS
    <3> HIDE DEF f, pl, old, s2
    <3>8. MovedTo(s1, s2, pl, t, old, p, f, UnitOf[t])
      BY <1>3, <3>5, <3>6, <3>7, RequeueMoves
    <3>9. /\ s2 \in KState /\ s2.tcb = [tcb EXCEPT ![t].pri = p] /\ s2.predtsk = K.predtsk
          /\ s2.twdsched = K.twdsched /\ s2.idlesched = K.idlesched /\ s2.dspflg = K.dspflg
      BY <3>5, <3>8 DEF MovedTo, SameTasks, KeepsSched, WellTyped
    <3>10. /\ y.tcb = s2.tcb /\ y.predtsk = K.predtsk /\ "schedtsk" \in DOMAIN y
           /\ y.twdsched = s2.twdsched /\ y.idlesched = s2.idlesched /\ y.dspflg = s2.dspflg
      BY <3>2, <3>9 DEF KState
    <3> QED
      BY <3>9, <3>10
  <2> HIDE DEF s2
  <2>6. z = UpdateSchedtsk(y)
    BY <1>8, <2>4, <2>5 DEF SetPredtsk, UpdateIfDsp
  <2> HIDE DEF y
  <2>7. Selected(y) = t
    BY <1>1, <1>2, <1>3, <2>1, <2>5, RaisedIsSelected
  <2>8. z.schedtsk = t
    BY <2>5, <2>6, <2>7 DEF UpdateSchedtsk
  <2> QED
    BY <1>6, <2>8
<1> QED
  BY <1>7, <1>8

\* The running task takes a free mutex: loc_mtx, ploc_mtx.
LEMMA AcquireOwn ==
  ASSUME MtxInv, ~intnest, runtsk # NULL, NEW m \in Mtx, LockOK(m), loctsk[m] = NULL,
         NEW z, z = Acquire(KM, runtsk, m), MtxBecomes(z), UNCHANGED cpuvars
  PROVE  MtxInv' /\ LeavesDormant(runtsk) /\ \A w \in Mtx \ {m} : loctsk'[w] = loctsk[w]
<1> DEFINE t == runtsk
           b == tcb[t]
           p == CeilPri[m]
           j == z.k
           c == j.tcb[t]
           H == Held(KM, t, NULL)
           raise == MTX_CEILING(m) /\ p < b.pri
           n == IF raise THEN ChangePriority(K, t, p, TRUE) ELSE K
<1>1. /\ WaitInv /\ Own(KM, NULL, NULL) /\ KM \in MState /\ NULL \notin Task /\ NULL \notin Mtx
      /\ Chain(K, K, NULL) /\ K \in KState
      /\ loctsk \in [Mtx -> Task \union {NULL}] /\ lastmtx \in [Task -> Seq(Mtx)]
      /\ KM.k = K /\ KM.loctsk = loctsk /\ KM.lastmtx = lastmtx /\ K.tcb = tcb /\ K.wque = wque
      /\ KM = [k |-> K, loctsk |-> loctsk, lastmtx |-> lastmtx]
  BY MtxTypes, MtxFields
<1>2. /\ t \in Task /\ K.runtsk = t /\ b \in TCB /\ IsRunnable(b.tstat) /\ ~IsDormant(b.tstat)
      /\ ~InQueue(b) /\ b.wobj = NULL
  BY RunningChain
<1>3. /\ j = n /\ z.loctsk = [loctsk EXCEPT ![m] = t]
      /\ z.lastmtx = [lastmtx EXCEPT ![t] = <<m>> \o lastmtx[t]]
      /\ z = [k |-> z.k, loctsk |-> z.loctsk, lastmtx |-> z.lastmtx]
  <2>1. KM.k.tcb[t] = b
    BY <1>1
  <2> DEFINE g == ChangePriority(K, t, p, TRUE)
             l1 == [loctsk EXCEPT ![m] = t]
             l2 == [lastmtx EXCEPT ![t] = <<m>> \o lastmtx[t]]
             y == TakeOver(KM, t, m)
  <2>2. y = [k |-> K, loctsk |-> l1, lastmtx |-> l2]
    <3>1. y = [KM EXCEPT !.loctsk[m] = t, !.lastmtx[t] = <<m>> \o @]
      BY DEF TakeOver
    <3> HIDE DEF y
    <3>2. y = [k |-> KM.k, loctsk |-> [KM.loctsk EXCEPT ![m] = t],
               lastmtx |-> [KM.lastmtx EXCEPT ![t] = <<m>> \o KM.lastmtx[t]]]
      BY <3>1 DEF KM
    <3> QED
      BY <1>1, <3>2
  <2>3. z = IF raise THEN [y EXCEPT !.k = g] ELSE y
    BY <1>1, <2>1 DEF Acquire
  <2> HIDE DEF y, g, l1, l2
  <2>4. CASE raise
    <3>1. z = [k |-> g, loctsk |-> l1, lastmtx |-> l2]
      BY <2>2, <2>3, <2>4
    <3> QED
      BY <2>4, <3>1 DEF g, l1, l2
  <2>5. CASE ~raise
    <3>1. z = [k |-> K, loctsk |-> l1, lastmtx |-> l2]
      BY <2>2, <2>3, <2>5
    <3>2. /\ z.k = K /\ z.loctsk = l1 /\ z.lastmtx = l2
          /\ z = [k |-> z.k, loctsk |-> z.loctsk, lastmtx |-> z.lastmtx]
      BY <3>1
    <3>3. n = K
      BY <2>5
    <3> HIDE DEF n, raise
    <3> QED
      BY <3>2, <3>3 DEF l1, l2
  <2> QED
    BY <2>4, <2>5
<1>4. K.runtsk = K.schedtsk
  BY <1>1, QueueTypes DEF IInv, RunsWhatIsScheduled, K
<1> HIDE DEF H
<1>5. /\ Chain(K, j, NULL) /\ OthersSame(K, j, t) /\ j.wque = wque /\ j.runtsk = j.schedtsk
      /\ c = IF raise THEN AtPri(b, p) ELSE b
  <2>1. CASE raise
    <3> DEFINE f == TRUE
               y == ChangePriority(K, t, p, f)
    <3>1. p \in Pri /\ f \in BOOLEAN /\ p < tcb[runtsk].pri
      BY <2>1, MutexAssumption DEF MTX_CEILING
    <3>2. y.runtsk = y.schedtsk
      BY <3>1, RaiseRunning
    <3>3. ~IsDormant(K.tcb[t].tstat) /\ ~InQueue(K.tcb[t])
      BY <1>1, <1>2
    <3>4. j = y
      BY <1>3, <2>1
    <3> HIDE DEF f, j, n
    <3>5. /\ Chain(K, y, NULL) /\ OthersSame(K, y, t) /\ y.tcb[t] = AtPri(K.tcb[t], p)
          /\ y.wque = K.wque
      <4> HIDE DEF y
      <4>1. y = ChangePriority(K, t, p, f)
        BY DEF y
      <4> QED
        BY <1>1, <1>2, <3>1, <3>3, <4>1, PriorityChain
    <3> QED
      BY <1>1, <2>1, <3>2, <3>4, <3>5
  <2>2. CASE ~raise
    BY <1>1, <1>3, <1>4, <2>2 DEF OthersSame
  <2> QED
    BY <2>1, <2>2
<1>6. /\ c \in TCB /\ c.wobj = NULL /\ c.bpri = b.bpri /\ c.tstat = b.tstat
      /\ c.pri = IF raise THEN p ELSE b.pri
  <2>1. raise => p \in Pri
    BY MutexAssumption DEF MTX_CEILING
  <2> QED
    BY <1>2, <1>5, <2>1 DEF AtPri, TCB
<1> HIDE DEF n, j
<1>7. /\ z.loctsk \in [Mtx -> Task \union {NULL}] /\ z.loctsk[m] = t
      /\ \A w \in Mtx \ {m} : z.loctsk[w] = loctsk[w]
  BY <1>1, <1>2, <1>3
<1>8. Held(z, t, NULL) = H \union {m}
  BY <1>1, <1>7 DEF Held, H
<1>9. \A v \in Task \ {t} : Held(z, v, NULL) = Held(KM, v, NULL)
  BY <1>1, <1>7 DEF Held
<1>10. /\ lastmtx[t] \in Seq(Mtx) /\ IsQueue(lastmtx[t], H) /\ m \notin H /\ H \in SUBSET Mtx
       /\ RankOK(b, H)
  <2>1. lastmtx[t] \in Seq(Mtx)
    BY <1>1, <1>2
  <2>2. IsQueue(KM.lastmtx[t], Held(KM, t, NULL)) /\ RankOK(KM.k.tcb[t], Held(KM, t, NULL))
    <3>1. NULL \notin Task
      BY <1>1
    <3> QED
      BY <1>1, <1>2, <3>1 DEF Own
  <2>3. m \notin H /\ H \in SUBSET Mtx
    <3>1. \A w \in H : w \in Mtx /\ loctsk[w] = t
      BY <1>1 DEF Held, H
    <3>2. t # NULL /\ H \subseteq Mtx
      BY <1>1, <1>2, <3>1
    <3> QED
      BY <3>1, <3>2
  <2> QED
    BY <1>1, <2>1, <2>2, <2>3 DEF H
<1>11. <<m>> \o lastmtx[t] \in Seq(Mtx) /\ IsQueue(<<m>> \o lastmtx[t], H \union {m})
  <2>1. <<m>> \o lastmtx[t] \in Seq(Mtx)
    BY <1>10
  <2>2. IsQueue(<<m>> \o lastmtx[t], H \union {m})
    BY <1>10, PrependQueue
  <2> QED
    BY <2>1, <2>2
<1>12. /\ z.lastmtx \in [Task -> Seq(Mtx)] /\ z.lastmtx[t] = <<m>> \o lastmtx[t]
       /\ \A v \in Task \ {t} : z.lastmtx[v] = lastmtx[v]
  <2> DEFINE r == <<m>> \o lastmtx[t]
  <2>1. r \in Seq(Mtx) /\ z.lastmtx = [lastmtx EXCEPT ![t] = r]
    BY <1>3, <1>11
  <2> HIDE DEF r
  <2>2. /\ z.lastmtx \in [Task -> Seq(Mtx)] /\ z.lastmtx[t] = r
        /\ \A v \in Task \ {t} : z.lastmtx[v] = lastmtx[v]
    BY <1>1, <1>2, <2>1
  <2> QED
    BY <2>2 DEF r
<1>13. z \in MState
  <2>1. z.k \in KState
    BY <1>5 DEF Chain, Sound, WellTyped, j
  <2> QED
    BY <1>3, <1>7, <1>12, <2>1 DEF MState
<1>14. \A v \in Task : IsQueue(z.lastmtx[v], Held(z, v, NULL))
  <2> TAKE v \in Task
  <2>1. CASE v = t
    BY <1>8, <1>11, <1>12, <2>1
  <2>2. CASE v # t
    BY <1>1, <1>9, <1>12, <2>2 DEF Own
  <2> QED
    BY <2>1, <2>2
<1>15. RankOK(c, Held(z, t, NULL))
  <2>1. MTX_CEILING(m) => b.bpri >= CeilPri[m]
    BY DEF LockOK
  <2>2. c.pri = IF MTX_CEILING(m) /\ CeilPri[m] < b.pri THEN CeilPri[m] ELSE b.pri
    BY <1>6
  <2> HIDE DEF b, c
  <2>3. RankOK(c, H \union {m})
    BY <1>2, <1>6, <1>10, <2>1, <2>2, RankTakes
  <2> QED
    BY <1>8, <2>3
<1>16. ASSUME NEW v \in Task
       PROVE  /\ RankOK(j.tcb[v], Held(z, v, NULL))
              /\ IsDormant(j.tcb[v].tstat) => Held(z, v, NULL) = {}
  <2>1. CASE v = t
    BY <1>2, <1>6, <1>15, <2>1
  <2>2. CASE v # t
    <3>1. j.tcb[v] = tcb[v] /\ Held(z, v, NULL) = Held(KM, v, NULL)
      BY <1>1, <1>5, <1>9, <2>2 DEF OthersSame
    <3> QED
      BY <1>1, <3>1 DEF Own
  <2> QED
    BY <2>1, <2>2
<1>17. ASSUME NEW w \in Mtx
       PROVE  /\ z.loctsk[w] = NULL => j.wque[w] = << >>
              /\ \A v \in Task : j.tcb[v].wobj = w => z.loctsk[w] # v
  <2>1. CASE w = m
    <3>1. z.loctsk[w] = t /\ t # NULL /\ j.tcb[t].wobj # w
      BY <1>1, <1>2, <1>6, <1>7, <2>1
    <3> QED
      BY <3>1
  <2>2. CASE w # m
    <3>1. z.loctsk[w] = loctsk[w] /\ j.wque[w] = wque[w]
      BY <1>5, <1>7, <2>2
    <3>2. \A v \in Task : j.tcb[v].wobj = w => tcb[v].wobj = w
      BY <1>1, <1>5, <1>6 DEF OthersSame
    <3> QED
      BY <1>1, <3>1, <3>2 DEF Own
  <2> QED
    BY <2>1, <2>2
<1>18. Own(z, NULL, NULL)
  BY <1>13, <1>14, <1>16, <1>17 DEF Own, j
<1>19. MtxReturn(z)
  <2>1. Becomes(j) /\ OwnersBecome(z)
    BY DEF MtxBecomes, j
  <2>2. Return(j)
    BY <1>5, <2>1 DEF Return, DispatchIfNeeded
  <2> QED
    BY <2>1, <2>2 DEF MtxReturn, j
<1>20. IsRunnable(z.k.tcb[runtsk].tstat)
  BY <1>2, <1>6 DEF j
<1>21. MtxInv' /\ loctsk' = z.loctsk /\ tcb' = j.tcb
  BY <1>5, <1>18, <1>19, <1>20, ReturnOwn DEF j
<1>22. LeavesDormant(t)
  BY <1>1, <1>5, <1>21 DEF LeavesDormant, OthersSame
<1> QED
  BY <1>7, <1>21, <1>22

\* The running task waits for a mutex that another task owns: loc_mtx, tloc_mtx.
LEMMA LockWaitOwn ==
  ASSUME MtxInv, NEW m \in Mtx, LockOK(m), loctsk[m] # NULL, NEW timed \in BOOLEAN,
         CheckDispatch, ~tcb[runtsk].raster, Return(WObjMakeWait(K, m, timed)),
         UNCHANGED mtxvars
  PROVE  MtxInv' /\ loctsk' = loctsk /\ LeavesDormant(runtsk)
<1> DEFINE t == runtsk
           b == tcb[t]
           c == JoinedTcb(b, m)
<1>1. /\ WaitInv /\ Own(KM, NULL, NULL) /\ KM \in MState /\ NULL \notin Task /\ NULL \notin Mtx
      /\ loctsk \in [Mtx -> Task \union {NULL}] /\ lastmtx \in [Task -> Seq(Mtx)]
      /\ tcb \in [Task -> TCB] /\ m \in WObj
  BY MtxTypes, MutexAssumption
<1>2. /\ WaitInv' /\ t \in Task /\ tcb' = [tcb EXCEPT ![t] = c]
      /\ \A w \in WObj \ {m} : wque'[w] = wque[w]
  BY <1>1, RunningJoins
<1>3. /\ b \in TCB /\ ~IsDormant(b.tstat) /\ b.wobj = NULL
  BY RunningChain DEF CheckDispatch, TskCtxUnl
<1>4. /\ c.pri = b.pri /\ c.bpri = b.bpri /\ c.wobj = m /\ c.tstat = {"OBJ"}
  BY <1>3 DEF JoinedTcb, Waiting, TCB
<1>5. ~IsDormant(c.tstat)
  BY <1>4 DEF IsDormant
<1> HIDE DEF c
<1>6. /\ tcb'[t] = c /\ \A v \in Task \ {t} : tcb'[v] = tcb[v]
  BY <1>1, <1>2
<1>7. /\ loctsk' = loctsk /\ lastmtx' = lastmtx /\ KM' \in MState
  <2>1. loctsk' = loctsk /\ lastmtx' = lastmtx
    BY DEF mtxvars
  <2>2. K' \in KState
    BY <1>2 DEF WaitInv, FullInv, IInv, WellTyped
  <2> QED
    BY <1>1, <2>1, <2>2, MtxFields DEF MState
<1>8. \A v \in Task : Held(KM', v, NULL) = Held(KM, v, NULL)
  BY <1>7, MtxFields DEF Held
<1>9. /\ \A v \in Task : IsQueue(lastmtx[v], Held(KM, v, NULL))
      /\ \A v \in Task : /\ RankOK(tcb[v], Held(KM, v, NULL))
                         /\ IsDormant(tcb[v].tstat) => Held(KM, v, NULL) = {}
      /\ \A w \in Mtx : /\ loctsk[w] = NULL => wque[w] = << >>
                        /\ \A v \in Task : tcb[v].wobj = w => loctsk[w] # v
  BY <1>1, MtxFields DEF Own
<1>10. RankOK(c, Held(KM, t, NULL))
  <2> DEFINE H == Held(KM, t, NULL)
  <2>1. RankOK(b, H)
    BY <1>2, <1>9
  <2>2. MTX_CEILING(m) => b.bpri >= CeilPri[m]
    BY DEF LockOK
  <2> HIDE DEF H, b
  <2>3. RankOK(c, H)
    BY <1>4, <2>1, <2>2 DEF RankOK, Bounds
  <2> QED
    BY <2>3 DEF H
<1>11. ASSUME NEW v \in Task
       PROVE  /\ RankOK(tcb'[v], Held(KM, v, NULL))
              /\ IsDormant(tcb'[v].tstat) => Held(KM, v, NULL) = {}
  <2>1. CASE v = t
    BY <1>5, <1>6, <1>10, <2>1
  <2>2. CASE v # t
    BY <1>6, <1>9, <2>2
  <2> QED
    BY <2>1, <2>2
<1>12. ASSUME NEW w \in Mtx
       PROVE  /\ loctsk[w] = NULL => wque'[w] = << >>
              /\ \A v \in Task : tcb'[v].wobj = w => loctsk[w] # v
  <2>1. loctsk[w] = NULL => wque'[w] = << >>
    BY <1>2, <1>9, MutexAssumption
  <2>2. ASSUME NEW v \in Task, tcb'[v].wobj = w
        PROVE  loctsk[w] # v
    <3>1. CASE v = t
      BY <1>4, <1>6, <2>2, <3>1 DEF LockOK
    <3>2. CASE v # t
      BY <1>6, <1>9, <2>2, <3>2
    <3> QED
      BY <3>1, <3>2
  <2> QED
    BY <2>1, <2>2
<1>13. Own(KM', NULL, NULL)
  <2>1. /\ KM'.k.tcb = tcb' /\ KM'.k.wque = wque' /\ KM'.loctsk = loctsk /\ KM'.lastmtx = lastmtx
    BY <1>7, MtxFields
  <2> QED
    BY <1>7, <1>8, <1>9, <1>11, <1>12, <2>1 DEF Own
<1>14. LeavesDormant(t)
  BY <1>6 DEF LeavesDormant
<1> QED
  BY <1>2, <1>7, <1>13, <1>14 DEF MtxInv

\* loc_mtx, tloc_mtx and ploc_mtx.
LEMMA LockOwn ==
  ASSUME MtxInv, NEW m \in Mtx, ploc_mtx(m) \/ \E timed \in BOOLEAN : loc_mtx(m, timed)
  PROVE  /\ MtxStep /\ LeavesDormant(runtsk)
         /\ \A w \in Mtx \ {m} : loctsk'[w] = loctsk[w]
<1> DEFINE Locked == /\ MtxStep /\ LeavesDormant(runtsk)
                     /\ \A w \in Mtx \ {m} : loctsk'[w] = loctsk[w]
<1> DEFINE z == Acquire(KM, runtsk, m)
<1>1. ASSUME ~intnest, runtsk # NULL, LockOK(m), loctsk[m] = NULL, MtxBecomes(z),
             UNCHANGED cpuvars
      PROVE  Locked
  <2> HIDE DEF z
  <2>1. z = Acquire(KM, runtsk, m)
    BY DEF z
  <2>2. MtxInv' /\ LeavesDormant(runtsk) /\ \A w \in Mtx \ {m} : loctsk'[w] = loctsk[w]
    BY <1>1, <2>1, AcquireOwn
  <2> QED
    BY <1>1, <2>2 DEF MtxStep
<1>2. CASE ploc_mtx(m)
  BY <1>1, <1>2 DEF ploc_mtx, TskCtxUnl
<1>3. ASSUME NEW timed \in BOOLEAN, loc_mtx(m, timed)
      PROVE  Locked
  <2>1. /\ CheckDispatch /\ ~tcb[runtsk].raster /\ LockOK(m)
        /\ IF loctsk[m] = NULL THEN MtxBecomes(z) /\ UNCHANGED cpuvars
           ELSE MtxReturn([KM EXCEPT !.k = WObjMakeWait(K, m, timed)])
    BY <1>3 DEF loc_mtx
  <2>2. CASE loctsk[m] = NULL
    BY <1>1, <2>1, <2>2 DEF CheckDispatch, TskCtxUnl
  <2>3. CASE loctsk[m] # NULL
    <3> DEFINE k == WObjMakeWait(K, m, timed)
               y == [KM EXCEPT !.k = k]
    <3>1. MtxReturn(y)
      BY <2>1, <2>3
    <3> HIDE DEF k
    <3>2. y.k = k /\ y.loctsk = loctsk /\ y.lastmtx = lastmtx
      BY DEF KM
    <3> HIDE DEF y
    <3>3. Return(k) /\ UNCHANGED mtxvars
      BY <3>1, <3>2 DEF MtxReturn, OwnersBecome, mtxvars
    <3>4. MtxInv' /\ loctsk' = loctsk /\ LeavesDormant(runtsk)
      BY <2>1, <2>3, <3>3, LockWaitOwn DEF k
    <3> QED
      BY <3>4 DEF MtxStep
  <2> QED
    BY <2>2, <2>3
<1> QED
  BY <1>2, <1>3

\* unl_mtx.
LEMMA UnlockOwn ==
  ASSUME MtxInv, NEW m \in Mtx, unl_mtx(m)
  PROVE  MtxMove(runtsk)
<1> DEFINE t == runtsk
           y == [KM EXCEPT !.lastmtx[runtsk] = Tail(@)]
           x == DropPriority(y, t, m)
           z == Release(x, m)
           j == y.k
           n == x.k
<1>1. /\ runtsk # NULL /\ lastmtx[t] # << >> /\ m = Head(lastmtx[t]) /\ MtxReturn(z)
  BY DEF unl_mtx, TskCtxUnl
<1>2. /\ t \in Task /\ IsRunnable(tcb[t].tstat) /\ ~IsDormant(tcb[t].tstat) /\ ~InQueue(tcb[t])
  BY <1>1, RunningChain
<1>3. /\ Own(KM, NULL, NULL) /\ Chain(K, K, NULL) /\ NULL \notin Task /\ NULL \notin Mtx
      /\ KM.k = K /\ KM.loctsk = loctsk /\ KM.lastmtx = lastmtx /\ K.tcb = tcb
  BY MtxTypes, MtxFields
<1>4. /\ Own(y, m, t) /\ HasUnlisted(KM, y, t, m)
  <2> HIDE DEF y
  <2>1. y = [KM EXCEPT !.lastmtx[t] = Tail(@)] /\ KM.lastmtx[t] # << >> /\ m = Head(KM.lastmtx[t])
    BY <1>1, <1>3 DEF y
  <2>2. NULL \in {NULL, t}
    OBVIOUS
  <2> HIDE DEF t
  <2> QED
    BY <1>2, <1>3, <2>1, <2>2, UnlistOwn
<1> HIDE DEF y
<1>5. /\ j = K /\ y.loctsk = loctsk /\ Held(KM, t, NULL) = Held(y, t, m) \union {m}
  BY <1>3, <1>4 DEF HasUnlisted
<1>6. RankOK(j.tcb[t], Held(y, t, m) \union {m})
  <2>1. RankOK(KM.k.tcb[t], Held(KM, t, NULL))
    BY <1>2, <1>3 DEF Own
  <2> QED
    BY <1>3, <1>5, <2>1
<1>7. m \notin Held(y, t, m)
  BY DEF Held
<1>8. Chain(K, n, NULL) /\ Own(x, m, NULL) /\ HasDropped(y, x, t)
  <2>1. ~IsDormant(j.tcb[t].tstat) /\ Chain(K, j, NULL)
    BY <1>2, <1>3, <1>5
  <2>2. x = DropPriority(y, t, m)
    OBVIOUS
  <2> HIDE DEF x, t
  <2> QED
    BY <1>2, <1>4, <1>6, <1>7, <2>1, <2>2, DropOwn
<1>9. x.loctsk = loctsk /\ n.wque = K.wque /\ n.tcb[t].tstat = tcb[t].tstat
  BY <1>2, <1>3, <1>5, <1>8 DEF HasDropped
<1> HIDE DEF x
<1>10. Chain(K, z.k, NULL) /\ Own(z, NULL, NULL) /\ Passes(x, z, m, NULL)
  <2>1. z = Release(x, m)
    OBVIOUS
  <2> HIDE DEF z
  <2> QED
    BY <1>8, <2>1, ReleaseOwn
<1> HIDE DEF z
<1>11. IsRunnable(z.k.tcb[runtsk].tstat)
  BY <1>2, <1>9, <1>10 DEF Passes
<1>12. MtxInv' /\ loctsk' = z.loctsk /\ tcb' = z.k.tcb
  BY <1>1, <1>10, <1>11, ReturnOwn
<1>13. z.loctsk[m] = NextOwner(KM, m) /\ \A w \in Mtx \ {m} : z.loctsk[w] = loctsk[w]
  BY <1>3, <1>9, <1>10 DEF Passes, NextOwner
<1>14. LeavesDormant(t)
  BY <1>3, <1>5, <1>8, <1>10, <1>12 DEF LeavesDormant, HasDropped, OthersSame, Passes
<1> QED
  BY <1>12, <1>13, <1>14 DEF MtxMove

\* The kernel state k with the owners as they are.
SameOwners(k) == [KM EXCEPT !.k = k]

NoneAdded(k) == \A w \in Mtx : wque[w] = << >> => k.wque[w] = << >>

\* A state with released waiters, as a chain that changes no rank.
LEMMA ReleasesChain ==
  ASSUME MtxInv, NEW k, Releases(k), SameRanks(K, k), NEW s, s = SameOwners(k),
         NoneAdded(k)
  PROVE  /\ Chain(K, k, NULL) /\ Own(s, NULL, NULL)
         /\ s.k = k /\ s.loctsk = loctsk /\ s.lastmtx = lastmtx
<1>1. /\ Own(KM, NULL, NULL) /\ KM \in MState /\ NULL \notin Task
      /\ loctsk \in [Mtx -> Task \union {NULL}] /\ lastmtx \in [Task -> Seq(Mtx)]
      /\ KM.k = K /\ KM.loctsk = loctsk /\ KM.lastmtx = lastmtx /\ K.tcb = tcb /\ K.wque = wque
  BY MtxTypes, MtxFields
<1>2. Chain(K, k, NULL)
  <2>1. WellTyped(k)
    BY DEF Releases, Sound
  <2>2. View(k, NULL) = k
    BY <1>1, <2>1, ViewFacts
  <2> QED
    BY <1>1, <2>2 DEF Chain, Releases, TasksOKBut, TasksOK
<1>3. s.k = k /\ s.loctsk = loctsk /\ s.lastmtx = lastmtx
  BY DEF KM, SameOwners
<1>4. s \in MState
  <2>1. k \in KState
    BY DEF Releases, Sound, WellTyped
  <2>2. s = [k |-> k, loctsk |-> loctsk, lastmtx |-> lastmtx]
    BY DEF KM, SameOwners
  <2> QED
    BY <1>1, <2>1, <2>2 DEF MState
<1>5. Own(s, NULL, NULL)
  <2>0. KM.k = K /\ s.k = k
    BY <1>1, <1>3
  <2>1. \A v \in Task : KeepsRank(KM.k.tcb[v], s.k.tcb[v])
    <3>1. \A v \in Task : KeepsRank(K.tcb[v], k.tcb[v])
      BY ONLY SameRanks(K, k) DEF SameRanks
    <3> QED
      BY ONLY <2>0, <3>1
  <2>2. \A v \in Task : s.k.tcb[v].wobj = KM.k.tcb[v].wobj \/ s.k.tcb[v].wobj = NULL
    BY ONLY <2>1 DEF KeepsRank
  <2> QED
    BY <1>1, <1>3, <1>4, <2>1, <2>2, OwnKept DEF NoneAdded
<1> QED
  BY <1>2, <1>3, <1>5

OwnerRemoved(s, t, m) == [s EXCEPT !.loctsk[m] = NULL, !.lastmtx[t] = Without(@, m)]

\* The owner t of m loses m, whose waiters have left.
LEMMA RemoveOwn ==
  ASSUME NEW s, Own(s, NULL, NULL), NEW m \in Mtx, NEW t \in Task, s.loctsk[m] = t,
         s.k.wque[m] = << >>,
         NEW y, y = OwnerRemoved(s, t, m)
  PROVE  /\ Own(y, NULL, t) /\ y.k = s.k /\ y.loctsk = [s.loctsk EXCEPT ![m] = NULL]
         /\ Held(s, t, NULL) = Held(y, t, NULL) \union {m} /\ m \notin Held(y, t, NULL)
<1> DEFINE q == s.lastmtx[t]
           H == Held(s, t, NULL)
           r == Without(q, m)
<1>1. /\ s \in MState /\ NULL \notin Mtx /\ NULL \notin Task
      /\ q \in Seq(Mtx) /\ IsQueue(q, H) /\ H \in SUBSET Mtx /\ m \in H
      /\ s.loctsk \in [Mtx -> Task \union {NULL}] /\ s.lastmtx \in [Task -> Seq(Mtx)]
      /\ s.k \in KState
  BY MutexAssumption, KernelAssumption DEF Own, MState, Held
<1>2. IsQueue(r, H \ {m}) /\ r \in Seq(Mtx)
  <2>1. IsQueue(r, H \ {m})
    BY <1>1, WithoutQueue
  <2> QED
    BY <1>1, <2>1, WithoutType
<1>3. /\ y.k = s.k /\ y.loctsk = [s.loctsk EXCEPT ![m] = NULL]
      /\ y.lastmtx = [s.lastmtx EXCEPT ![t] = r]
      /\ y = [k |-> y.k, loctsk |-> y.loctsk, lastmtx |-> y.lastmtx]
  BY <1>1 DEF MState, OwnerRemoved
<1> HIDE DEF r, q
<1>4. /\ y.lastmtx[t] = r /\ \A v \in Task \ {t} : y.lastmtx[v] = s.lastmtx[v]
      /\ y.loctsk[m] = NULL /\ \A w \in Mtx \ {m} : y.loctsk[w] = s.loctsk[w]
      /\ y.lastmtx \in [Task -> Seq(Mtx)] /\ y.loctsk \in [Mtx -> Task \union {NULL}]
  BY <1>1, <1>2, <1>3
<1>5. y \in MState
  BY <1>1, <1>3, <1>4 DEF MState
<1>6. Held(y, t, NULL) = H \ {m} /\ \A v \in Task \ {t} : Held(y, v, NULL) = Held(s, v, NULL)
  <2>1. \A v \in Task : Held(y, v, NULL) = Held(s, v, NULL) \ {m}
    BY <1>1, <1>4 DEF Held
  <2>2. \A v \in Task \ {t} : Held(s, v, NULL) \ {m} = Held(s, v, NULL)
    <3> TAKE v \in Task \ {t}
    <3> DEFINE G == Held(s, v, NULL)
    <3>1. m \notin G
      BY DEF Held
    <3> HIDE DEF G
    <3>2. G \ {m} = G
      BY <3>1
    <3> QED
      BY <3>2 DEF G
  <2> QED
    BY <2>1, <2>2
<1>7. \A v \in Task : IsQueue(y.lastmtx[v], Held(y, v, NULL))
  <2> TAKE v \in Task
  <2>1. CASE v = t
    BY <1>2, <1>4, <1>6, <2>1
  <2>2. CASE v # t
    BY <1>4, <1>6, <2>2 DEF Own
  <2> QED
    BY <2>1, <2>2
<1>8. \A v \in Task \ {t} : /\ RankOK(y.k.tcb[v], Held(y, v, NULL))
                            /\ IsDormant(y.k.tcb[v].tstat) => Held(y, v, NULL) = {}
  BY <1>1, <1>3, <1>6 DEF Own
<1>9. \A w \in Mtx : /\ y.loctsk[w] = NULL => y.k.wque[w] = << >>
                     /\ \A v \in Task : y.k.tcb[v].wobj = w => y.loctsk[w] # v
  BY <1>1, <1>3, <1>4 DEF Own
<1>10. Own(y, NULL, t)
  BY <1>5, <1>7, <1>8, <1>9 DEF Own
<1> HIDE DEF H
<1>11. H = (H \ {m}) \union {m}
  BY <1>1
<1> QED
  BY <1>3, <1>6, <1>10, <1>11 DEF H

\* ini_mtx.
LEMMA IniOwn ==
  ASSUME MtxInv, NEW m \in Mtx, ini_mtx(m)
  PROVE  MtxMove(runtsk)
<1> DEFINE t == loctsk[m]
           k == InitWaitQueue(K, m)
           s == [KM EXCEPT !.k = k]
           y == [s EXCEPT !.loctsk[m] = NULL, !.lastmtx[t] = Without(@, m)]
           z == DropPriority(y, t, m)
<1>1. /\ runtsk # NULL
      /\ IF t = NULL THEN MtxReturn(s) ELSE MtxReturn(z)
  BY DEF ini_mtx, TskCtxUnl
<1>2. /\ WaitInv /\ NULL \notin Task /\ NULL \notin Mtx /\ t \in Task \union {NULL}
      /\ loctsk \in [Mtx -> Task \union {NULL}] /\ wque \in [WObj -> Seq(Task)] /\ m \in WObj
      /\ K.wque = wque /\ K.tcb = tcb
  BY MtxTypes, MtxFields, MutexAssumption
<1>3. /\ runtsk \in Task /\ IsRunnable(tcb[runtsk].tstat)
  BY <1>1, RunningChain
<1>4. Releases(k) /\ k.wque = [wque EXCEPT ![m] = << >>] /\ SameRanks(K, k)
  <2>1. Releases(K)
    BY <1>2, QueueTypes
  <2> QED
    BY <1>2, <2>1, AllReleasedOK
<1> HIDE DEF k
<1>5. k.wque[m] = << >> /\ NoneAdded(k)
  BY <1>2, <1>4, MutexAssumption DEF NoneAdded
<1>6. /\ Chain(K, k, NULL) /\ Own(s, NULL, NULL)
      /\ s.k = k /\ s.loctsk = loctsk /\ s.lastmtx = lastmtx
  <2>1. s = SameOwners(k)
    BY DEF SameOwners
  <2> HIDE DEF s
  <2> QED
    BY <1>4, <1>5, <2>1, ReleasesChain
<1>7. IsRunnable(k.tcb[runtsk].tstat)
  BY <1>3, <1>4 DEF Releases
<1> HIDE DEF s
<1>8. CASE t = NULL
  <2>1. MtxReturn(s)
    BY <1>1, <1>8
  <2>2. MtxInv' /\ loctsk' = s.loctsk /\ tcb' = s.k.tcb
    BY <1>6, <1>7, <2>1, ReturnOwn
  <2> QED
    <3>1. K.tcb = tcb /\ s.k = k /\ s.loctsk = loctsk
      BY <1>2, <1>6
    <3>2. LeavesDormant(runtsk)
      <4>1. \A v \in Task : IsDormant(K.tcb[v].tstat) => IsDormant(k.tcb[v].tstat)
        BY ONLY <1>4 DEF SameRanks
      <4> QED
        BY ONLY <2>2, <3>1, <4>1 DEF LeavesDormant
    <3> QED
      BY <1>8, <2>2, <3>1, <3>2 DEF MtxMove
<1>9. CASE t # NULL
  <2>1. MtxReturn(z) /\ t \in Task
    BY <1>1, <1>2, <1>9
  <2>2. /\ Own(y, NULL, t) /\ y.k = s.k /\ y.loctsk = [s.loctsk EXCEPT ![m] = NULL]
        /\ Held(s, t, NULL) = Held(y, t, NULL) \union {m} /\ m \notin Held(y, t, NULL)
    <3>1. y = OwnerRemoved(s, t, m)
      BY DEF OwnerRemoved
    <3>2. s.loctsk[m] = t /\ s.k.wque[m] = << >>
      BY <1>5, <1>6
    <3> HIDE DEF y, t
    <3> QED
      BY <1>6, <2>1, <3>1, <3>2, RemoveOwn
  <2> HIDE DEF y
  <2>3. RankOK(s.k.tcb[t], Held(s, t, NULL)) /\ ~IsDormant(s.k.tcb[t].tstat)
    <3>1. m \in Held(s, t, NULL)
      BY <2>2
    <3> QED
      BY <1>2, <1>6, <2>1, <3>1 DEF Own
  <2>4. Chain(K, z.k, NULL) /\ Own(z, NULL, NULL) /\ HasDropped(y, z, t)
    <3>1. z = DropPriority(y, t, m)
      OBVIOUS
    <3>2. /\ Chain(K, y.k, NULL) /\ ~IsDormant(y.k.tcb[t].tstat)
          /\ RankOK(y.k.tcb[t], Held(y, t, NULL) \union {m})
      BY <1>6, <2>2, <2>3
    <3> HIDE DEF z, t
    <3> QED
      BY <2>1, <2>2, <3>1, <3>2, DropOwn
  <2> HIDE DEF z
  <2>5. IsRunnable(z.k.tcb[runtsk].tstat)
    BY <1>3, <1>6, <1>7, <2>2, <2>4 DEF HasDropped, OthersSame
  <2>6. MtxInv' /\ loctsk' = z.loctsk /\ tcb' = z.k.tcb
    BY <2>1, <2>4, <2>5, ReturnOwn
  <2>7. z.loctsk[m] = NULL /\ \A w \in Mtx \ {m} : z.loctsk[w] = loctsk[w]
    BY <1>2, <1>6, <2>2, <2>4 DEF HasDropped
  <2>8. LeavesDormant(runtsk)
    <3>1. \A v \in Task \ {t} : z.k.tcb[v] = k.tcb[v]
      BY <1>6, <2>2, <2>4 DEF HasDropped, OthersSame
    <3>2. z.k.tcb[t].tstat = k.tcb[t].tstat
      BY <1>6, <2>2, <2>4 DEF HasDropped
    <3> QED
      BY <1>2, <1>4, <2>6, <3>1, <3>2 DEF LeavesDormant, SameRanks
  <2> QED
    BY <2>6, <2>7, <2>8 DEF MtxMove
<1> QED
  BY <1>8, <1>9

\* Mutexes pass to the first waiter whenever the owners after the step are
\* those of a termination.
LEMMA HandedStep ==
  ASSUME NEW s, s.loctsk = loctsk, s.k.wque = wque, NEW z, HandedNext(s, z),
         MtxInv' /\ loctsk' = z.loctsk, NEW t, LeavesDormant(t)
  PROVE  MtxMove(t)
<1>1. KM.k.wque = wque
  BY MtxFields
<1> QED
  BY <1>1 DEF HandedNext, NextOwner, MtxMove

\* ter_tsk and ras_ter end another task.
LEMMA TerminateOwn ==
  ASSUME MtxInv, NEW t \in Task, t # runtsk, MtxReturn(MtxTerminate(KM, t))
  PROVE  MtxMove(t)
<1> DEFINE z == MtxTerminate(KM, t)
<1>1. /\ Own(KM, NULL, NULL) /\ Base(K) /\ KM.k = K /\ KM.loctsk = loctsk
      /\ K.tcb = tcb /\ K.wque = wque
  BY MtxTypes, MtxFields
<1>2. z = MtxTerminate(KM, t) /\ Base(KM.k)
  BY <1>1
<1>3. MtxReturn(z)
  OBVIOUS
<1> HIDE DEF z
<1>4. /\ Chain(KM.k, z.k, NULL) /\ Own(z, NULL, NULL) /\ HandedNext(KM, z)
      /\ \A v \in Task \ {t} : IsRunnable(KM.k.tcb[v].tstat) => IsRunnable(z.k.tcb[v].tstat)
      /\ \A v \in Task \ {t} : IsDormant(KM.k.tcb[v].tstat) => IsDormant(z.k.tcb[v].tstat)
  BY <1>1, <1>2, MtxTerminateOK
<1>5. runtsk # NULL => IsRunnable(z.k.tcb[runtsk].tstat)
  BY <1>1, <1>4, RunningChain
<1>6. MtxInv' /\ loctsk' = z.loctsk /\ tcb' = z.k.tcb
  BY <1>1, <1>3, <1>4, <1>5, ReturnOwn
<1>7. LeavesDormant(t)
  BY <1>1, <1>4, <1>6 DEF LeavesDormant
<1> QED
  BY <1>1, <1>4, <1>6, <1>7, HandedStep

\* The running task ends, from a state k in which dispatching is enabled.
LEMMA EndSelfOwn ==
  ASSUME MtxInv, runtsk # NULL, NEW k, Ending(k), MtxTerminateSelf(k),
         enadsp' = TRUE, ipm' = FALSE, lock' \in BOOLEAN, intnest' = FALSE
  PROVE  MtxMove(runtsk)
<1> DEFINE t == runtsk
           s == SameOwners(k)
           z == MtxTerminate(s, t)
           j == z.k
<1>1. /\ WaitInv /\ Own(KM, NULL, NULL) /\ Base(K) /\ KM.k = K /\ KM \in MState
      /\ loctsk \in [Mtx -> Task \union {NULL}] /\ lastmtx \in [Task -> Seq(Mtx)]
      /\ KM.loctsk = loctsk /\ KM.lastmtx = lastmtx /\ K.tcb = tcb /\ K.wque = wque
      /\ IInv /\ SInv /\ K.tmevt = tmevt /\ NULL \notin Task
  BY MtxTypes, MtxFields, QueueTypes DEF K
<1>2. t \in Task
  BY RunningChain
<1>3. /\ Agree(k, Place(k)) /\ k.tcb = tcb /\ k.tmevt = tmevt
  BY <1>1, SetDspflgExact DEF Ending
<1>4. k.wque = wque
  <2>1. HasWaits([K EXCEPT !.dspflg = TRUE]) /\ [K EXCEPT !.dspflg = TRUE].wque = wque
    BY DEF K, HasWaits
  <2> QED
    BY <1>1, <2>1, SchedulingFrame DEF Ending, SetDspflg, SameWaits
<1>5. Base(k)
  <2>1. TasksOK(k)
    BY <1>1, <1>3 DEF Base, TasksOK
  <2>2. KeepsWaits(K, k)
    BY <1>1, <1>3, <1>4 DEF KeepsWaits, SameWait
  <2>3. WaitsExact(k)
    BY <1>1, <2>2, KeepsWaitsExact DEF Base
  <2> QED
    BY <1>3, <2>1, <2>3 DEF Base
<1>6. s.k = k /\ s.loctsk = loctsk /\ s.lastmtx = lastmtx
  BY DEF SameOwners, KM
<1>7. s \in MState
  <2>1. k \in KState
    BY <1>3 DEF Agree, WellTyped
  <2>2. s = [k |-> k, loctsk |-> loctsk, lastmtx |-> lastmtx]
    BY DEF KM, SameOwners
  <2> QED
    BY <1>1, <2>1, <2>2 DEF MState
<1>8. Becomes(Dispatch(j)) /\ OwnersBecome(z)
  BY DEF MtxTerminateSelf, SameOwners
<1> HIDE DEF s
<1>9. Own(s, NULL, NULL)
  <2>1. \A v \in Task \ {NULL} : KeepsRank(KM.k.tcb[v], s.k.tcb[v])
    BY <1>1, <1>3, <1>6 DEF KeepsRank
  <2> QED
    BY <1>1, <1>3, <1>4, <1>6, <1>7, <2>1, OwnKept
<1>10. z = MtxTerminate(s, t) /\ Base(s.k)
  BY <1>5, <1>6
<1> HIDE DEF z
<1>11. /\ Chain(k, j, NULL) /\ Own(z, NULL, NULL) /\ HandedNext(s, z) /\ ~MustEnd(j.tcb[t])
       /\ \A v \in Task \ {t} : IsDormant(k.tcb[v].tstat) => IsDormant(j.tcb[v].tstat)
  BY <1>2, <1>6, <1>9, <1>10, MtxTerminateOK
<1>12. WaitInv' /\ tcb' = j.tcb /\ wque' = j.wque
  <2>1. \A v \in Task \ {runtsk} : MustEnd(j.tcb[v]) => MustEnd(tcb[v])
    BY <1>1, <1>3, <1>11 DEF Chain
  <2> HIDE DEF j
  <2> QED
    BY <1>1, <1>8, <1>11, <2>1, ChainDispatch
<1>13. MtxInv' /\ loctsk' = z.loctsk
  BY <1>8, <1>11, <1>12, OwnStep
<1>14. LeavesDormant(t)
  BY <1>3, <1>11, <1>12 DEF LeavesDormant
<1> QED
  BY <1>4, <1>6, <1>11, <1>13, <1>14, HandedStep

\* The calls that leave the owners alone.
LEMMA QuietOwn ==
  ASSUME MtxInv, [Next]_vars, NEW t, RankStep(t), UNCHANGED mtxvars
  PROVE  MtxMove(t)
<1>1. MtxInv' /\ loctsk' = loctsk
  BY CoreOwn
<1> QED
  BY <1>1 DEF MtxMove, LeavesDormant, RankStep

\* The calls on one task.
LEMMA TaskCallOwn ==
  ASSUME MtxInv, NEW t \in Task, MtxTaskCall(t)
  PROVE  MtxMove(t)
<1>1. ASSUME NEW p \in Pri, MtxChgPri(t, p) PROVE MtxMove(t)
  <2>1. MtxInv' /\ loctsk' = loctsk /\ LeavesDormant(t)
    BY <1>1, ChgPriOwn
  <2> QED
    BY <2>1 DEF MtxMove
<1>2. CASE MtxTerTsk(t)
  BY <1>2, TerminateOwn DEF MtxTerTsk, TerTskOK
<1>3. CASE MtxRasTer(t)
  <2>1. RasTerOK(t) /\ t # runtsk
    BY <1>3 DEF MtxRasTer, RasTerOK
  <2>2. CASE MtxReturn(MtxTerminate(KM, t))
    BY <2>1, <2>2, TerminateOwn
  <2>3. CASE RequestTermination(t) /\ UNCHANGED mtxvars
    <3>1. [Next]_vars
      BY <2>1, <2>3 DEF ras_ter, TaskCall, Next
    <3>2. RankStep(t)
      <4>1. CASE Return([K EXCEPT !.tcb[t].raster = TRUE])
        <5> DEFINE f == TRUE
        <5>1. Return([K EXCEPT !.tcb[t].raster = f])
          BY <4>1
        <5> HIDE DEF f
        <5> QED
          BY <5>1, FieldRank
      <4>2. CASE ~IsRunnable(tcb[t].tstat) /\ Return(RasTerWaiting(t))
        BY <2>3, <4>2, RasTerRank DEF RequestTermination
      <4> QED
        BY <2>3, <4>1, <4>2 DEF RequestTermination
    <3> QED
      BY <2>3, <3>1, <3>2, QuietOwn
  <2> QED
    BY <1>3, <2>2, <2>3 DEF MtxRasTer
<1>4. CASE (rel_wai(t) \/ TimerExpires(t)) /\ UNCHANGED mtxvars
  <2>1. [Next]_vars
    BY <1>4 DEF TaskCall, Next
  <2>2. IsWaiting(tcb[t].tstat)
    <3>1. CASE rel_wai(t)
      BY <3>1 DEF rel_wai
    <3>2. CASE TimerExpires(t)
      BY <3>2, MtxTypes, QueueTypes, TaskBefore DEF TimerExpires, TcbOK
    <3> QED
      BY <1>4, <3>1, <3>2
  <2>3. \/ Return(WaitTmout(K, t))
        \/ Return(MakeNonWait(WaitDequeueTmevtb(WaitDequeueWObj(K, t), t), t))
    BY <1>4 DEF rel_wai, TimerExpires
  <2>4. RankStep(t)
    BY <2>2, <2>3, ReleaseRank
  <2> QED
    BY <1>4, <2>1, <2>4, QuietOwn
<1> QED
  BY <1>1, <1>2, <1>3, <1>4 DEF MtxTaskCall

\* ext_tsk, ena_ter and ena_dsp.
LEMMA SelfCallOwn ==
  ASSUME MtxInv, MtxExtTsk \/ MtxEnaTer \/ MtxEnaDsp
  PROVE  MtxMove(runtsk)
<1>1. /\ IInv /\ TypeOK /\ DspflgExact
      /\ runtsk # NULL => runtsk \in Task
  BY MtxTypes, QueueTypes, RunningTask DEF IInv
<1>2. CASE MtxExtTsk
  <2>1. runtsk # NULL /\ lock' \in BOOLEAN /\ intnest' = FALSE
    BY <1>1, <1>2 DEF MtxExtTsk, TypeOK
  <2>2. CASE dspflg
    <3>1. MtxTerminateSelf(K) /\ enadsp' = TRUE /\ ipm' = FALSE /\ Ending(K)
      BY <1>1, <1>2, <2>2 DEF MtxExtTsk, TypeOK, DspflgExact, Ending
    <3> QED
      BY <2>1, <3>1, EndSelfOwn
  <2>3. CASE ~dspflg
    <3> DEFINE k == SetDspflg(K)
    <3>1. MtxTerminateSelf(k) /\ enadsp' = TRUE /\ ipm' = FALSE /\ Ending(k)
      BY <1>2, <2>3 DEF MtxExtTsk, Ending
    <3> HIDE DEF k
    <3> QED
      BY <2>1, <3>1, EndSelfOwn
  <2> QED
    BY <2>2, <2>3
<1>3. CASE MtxEnaTer
  <2>1. runtsk # NULL /\ ~intnest
    BY <1>3 DEF MtxEnaTer, TskCtxUnl
  <2>2. CASE tcb[runtsk].raster /\ dspflg
    <3>1. MtxTerminateSelf(K) /\ UNCHANGED cpuvars /\ Ending(K)
      BY <1>3, <2>1, <2>2 DEF MtxEnaTer, Ending
    <3>2. enadsp' = TRUE /\ ipm' = FALSE /\ lock' \in BOOLEAN /\ intnest' = FALSE
      BY <1>1, <2>1, <2>2, <3>1 DEF cpuvars, TypeOK, DspflgExact
    <3> QED
      BY <2>1, <3>1, <3>2, EndSelfOwn
  <2>3. CASE ~(tcb[runtsk].raster /\ dspflg)
    <3>1. Return([K EXCEPT !.tcb[runtsk].enater = TRUE]) /\ UNCHANGED mtxvars
      BY <1>3, <2>3 DEF MtxEnaTer
    <3>2. [Next]_vars
      BY <1>3, <2>3, <3>1 DEF MtxEnaTer, ena_ter, SystemCall, Next
    <3>3. RankStep(runtsk)
      <4> DEFINE f == TRUE
      <4>1. Return([K EXCEPT !.tcb[runtsk].enater = f])
        BY <3>1
      <4> HIDE DEF f
      <4> QED
        BY <1>1, <2>1, <4>1, FieldRank
    <3> QED
      BY <3>1, <3>2, <3>3, QuietOwn
  <2> QED
    BY <2>2, <2>3
<1>4. CASE MtxEnaDsp
  <2> DEFINE k == SetDspflg(K)
  <2>1. /\ runtsk # NULL /\ lock' \in BOOLEAN /\ intnest' = FALSE
        /\ enadsp' = TRUE /\ ipm' = FALSE /\ ~ipm
    BY <1>1, <1>4 DEF MtxEnaDsp, TskCtxUnl, TypeOK
  <2>2. Ending(k)
    BY DEF Ending
  <2>3. CASE MtxTerminateSelf(k)
    <3> HIDE DEF k
    <3> QED
      BY <2>1, <2>2, <2>3, EndSelfOwn
  <2>4. CASE ~(tcb[runtsk].raster /\ tcb[runtsk].enater)
    <3>1. Becomes(DispatchIfNeeded(k)) /\ UNCHANGED mtxvars
      BY <1>4, <2>4 DEF MtxEnaDsp
    <3>2. [Next]_vars
      <4>1. ena_dsp
        BY <1>4, <2>1, <2>4, <3>1 DEF MtxEnaDsp, ena_dsp, EnableDispatch
      <4> QED
        BY <4>1 DEF SystemCall, Next
    <3>3. RankStep(runtsk)
      <4>1. k.tcb = tcb
        BY <2>2, MtxTypes, QueueTypes, SetDspflgExact DEF Ending
      <4>2. HasWaits(k)
        <5>1. HasWaits([K EXCEPT !.dspflg = TRUE])
          BY DEF K, HasWaits
        <5> QED
          BY <5>1, SchedulingFrame DEF SetDspflg, SameWaits
      <4> HIDE DEF k
      <4> QED
        BY <3>1, <4>1, <4>2, ReturnWaits, SameRank
    <3> QED
      BY <3>1, <3>2, <3>3, QuietOwn
  <2> QED
    BY <1>4, <2>3, <2>4 DEF MtxEnaDsp
<1> QED
  BY <1>2, <1>3, <1>4

\* Every step preserves the invariant and hands a mutex over as it should.
LEMMA MtxNextOwn ==
  ASSUME MtxInv, [MtxNext]_mvars
  PROVE  MtxStep
<1>1. CASE UNCHANGED mvars
  <2>1. UNCHANGED vars /\ UNCHANGED mtxvars
    BY <1>1 DEF mvars
  <2>2. tcb' = tcb
    BY <2>1 DEF vars, kvars
  <2>3. RankStep(runtsk)
    BY <2>2, SameRank
  <2> QED
    BY <2>1, <2>3, QuietOwn, MoveIsStep
<1>2. CASE PlainCall /\ UNCHANGED mtxvars
  <2>1. [Next]_vars
    BY <1>2 DEF Next
  <2>2. PICK t : RankStep(t)
    BY <1>2, PlainRank
  <2> QED
    BY <1>2, <2>1, <2>2, QuietOwn, MoveIsStep
<1>3. CASE \E t \in Task : MtxTaskCall(t)
  BY <1>3, TaskCallOwn, MoveIsStep
<1>4. ASSUME NEW m \in Mtx, MtxCall(m) PROVE MtxStep
  BY <1>4, LockOwn, UnlockOwn, IniOwn, MoveIsStep DEF MtxCall
<1>5. CASE MtxExtTsk \/ MtxEnaTer \/ MtxEnaDsp
  BY <1>5, SelfCallOwn, MoveIsStep
<1> QED
  BY <1>1, <1>2, <1>3, <1>4, <1>5 DEF MtxNext

\* At the start no mutex is owned and every priority is the initial one.
LEMMA MtxInitOK == MtxInit => MtxInv
<1> SUFFICES ASSUME MtxInit PROVE MtxInv
  OBVIOUS
<1>1. /\ WaitInv /\ \A w \in WObj : wque[w] = << >>
  BY InitWaitInv DEF MtxInit
<1>2. /\ K \in KState /\ tcb \in [Task -> TCB] /\ IInv /\ SInv /\ K.tcb = tcb
      /\ NULL \notin Task /\ NULL \notin Mtx
  BY <1>1, QueueTypes, MutexAssumption, KernelAssumption DEF WellTyped
<1>3. /\ loctsk = [m \in Mtx |-> NULL] /\ lastmtx = [t \in Task |-> << >>] /\ Init
  BY DEF MtxInit
<1>4. \A t \in Task : tcb[t].pri = IniPri[t] /\ tcb[t].bpri = IniPri[t] /\ tcb[t].wobj = NULL
  <2> DEFINE s == [InitK EXCEPT !.tcb[Main].tstat = {"RUNNABLE"}]
  <2>1. HasWaits(s) /\ \A t \in Task : /\ s.tcb[t].pri = IniPri[t] /\ s.tcb[t].bpri = IniPri[t]
                                       /\ s.tcb[t].wobj = NULL
    BY DEF HasWaits, InitK, InitTCB
  <2> HIDE DEF s
  <2>2. MakeRunnable(s, Main).tcb = s.tcb /\ HasWaits(MakeRunnable(s, Main))
    BY <2>1, SchedulingFrame DEF SameWaits
  <2>3. StartK.tcb = s.tcb
    <3> DEFINE y == MakeRunnable(s, Main)
    <3>1. StartK = Dispatch(y)
      BY DEF StartK, MakeActive, s
    <3> HIDE DEF y
    <3>2. Dispatch(y).tcb = y.tcb
      BY <2>2 DEF y, Dispatch, HasWaits
    <3> QED
      BY <2>2, <3>1, <3>2 DEF y
  <2> QED
    BY <1>3, <2>1, <2>3 DEF Init
<1>5. KM \in MState
  <2>1. << >> \in Seq(Mtx)
    OBVIOUS
  <2> QED
    BY <1>2, <1>3, <2>1, MtxFields DEF MState
<1>6. \A t \in Task : Held(KM, t, NULL) = {}
  BY <1>2, <1>3, MtxFields DEF Held
<1>7. \A t \in Task : IsQueue(KM.lastmtx[t], Held(KM, t, NULL))
  BY <1>3, <1>6, MtxFields DEF IsQueue
<1>8. \A t \in Task : RankOK(tcb[t], {})
  <2> TAKE t \in Task
  <2>1. tcb[t].pri \in Int /\ tcb[t].pri <= tcb[t].pri
    BY <1>2 DEF TCB, Pri
  <2>2. Prios(tcb[t].bpri, {}) = {tcb[t].pri}
    BY <1>4 DEF Prios
  <2>3. {tcb[t].wobj} \intersect Mtx = {}
    BY <1>2, <1>4
  <2> QED
    BY <2>1, <2>2, <2>3 DEF RankOK, IsLeast, Bounds
<1>9. \A m \in Mtx : wque[m] = << >> /\ \A t \in Task : tcb[t].wobj # m
  BY <1>1, <1>2, <1>4, MutexAssumption
<1>10. Own(KM, NULL, NULL)
  <2>1. \A t \in Task \ {NULL} : /\ RankOK(KM.k.tcb[t], Held(KM, t, NULL))
                                 /\ IsDormant(KM.k.tcb[t].tstat) => Held(KM, t, NULL) = {}
    BY <1>6, <1>8, MtxFields
  <2>2. \A m \in Mtx \ {NULL} : /\ KM.loctsk[m] = NULL => KM.k.wque[m] = << >>
                                /\ \A t \in Task : KM.k.tcb[t].wobj = m => KM.loctsk[m] # t
    BY <1>9, MtxFields
  <2> QED
    BY <1>5, <1>7, <2>1, <2>2 DEF Own
<1> QED
  BY <1>1, <1>10 DEF MtxInv

\* The invariant of the mutexes holds in every reachable state.
LEMMA MtxInvariantHolds == MtxSpec => []MtxInv
<1>1. MtxInv /\ [MtxNext]_mvars => MtxInv'
  BY MtxNextOwn DEF MtxStep
<1> QED
  BY <1>1, MtxInitOK, PTL DEF MtxSpec

\* What the invariant says of the mutexes that a task holds.
LEMMA HeldFacts ==
  ASSUME MtxInv, NEW t \in Task
  PROVE  /\ lastmtx[t] \in Seq(Mtx) /\ IsQueue(lastmtx[t], Held(KM, t, NULL))
         /\ Range(lastmtx[t]) = Held(KM, t, NULL) /\ RankOK(tcb[t], Held(KM, t, NULL))
         /\ IsDormant(tcb[t].tstat) => Held(KM, t, NULL) = {}
         /\ \A m \in Mtx : loctsk[m] = t <=> m \in Range(lastmtx[t])
<1>1. /\ Own(KM, NULL, NULL) /\ NULL \notin Task /\ NULL \notin Mtx
      /\ KM.loctsk = loctsk /\ KM.lastmtx = lastmtx /\ KM.k = K /\ K.tcb = tcb
      /\ lastmtx \in [Task -> Seq(Mtx)]
  BY MtxTypes, MtxFields
<1>2. /\ IsQueue(lastmtx[t], Held(KM, t, NULL)) /\ RankOK(tcb[t], Held(KM, t, NULL))
      /\ IsDormant(tcb[t].tstat) => Held(KM, t, NULL) = {}
  BY <1>1 DEF Own
<1>3. Range(lastmtx[t]) = Held(KM, t, NULL)
  BY <1>2 DEF IsQueue, Range
<1>4. \A m \in Mtx : loctsk[m] = t <=> m \in Held(KM, t, NULL)
  BY <1>1 DEF Held
<1> QED
  BY <1>1, <1>2, <1>3, <1>4

\* The invariant says who owns which mutex.
LEMMA OwnershipOfInvariant == MtxInv => OwnershipExact
<1> SUFFICES ASSUME MtxInv PROVE OwnershipExact
  OBVIOUS
<1>1. ASSUME NEW t \in Task
      PROVE  /\ IsDormant(tcb[t].tstat) => lastmtx[t] = << >>
             /\ Len(lastmtx[t]) = Cardinality(Range(lastmtx[t]))
  <2> DEFINE q == lastmtx[t]
             H == Held(KM, t, NULL)
  <2>1. /\ q \in Seq(Mtx) /\ IsQueue(q, H) /\ Range(q) = H
        /\ IsDormant(tcb[t].tstat) => H = {}
    BY HeldFacts
  <2> HIDE DEF q, H
  <2>2. H = {} => q = << >>
    <3>1. q # << >> => Head(q) \in H
      BY <2>1, HeadInQueue
    <3> QED
      BY <3>1
  <2>3. Len(q) = Cardinality(H)
    BY <2>1, QueueLength
  <2> QED
    BY <2>1, <2>2, <2>3 DEF q
<1>2. ASSUME NEW m \in Mtx
      PROVE  /\ \A t \in Task : loctsk[m] = t <=> m \in Range(lastmtx[t])
             /\ loctsk[m] = NULL => wque[m] = << >>
  <2>1. loctsk[m] = NULL => wque[m] = << >>
    BY MtxTypes, MtxFields DEF Own
  <2> QED
    BY <2>1, HeldFacts
<1> QED
  BY <1>1, <1>2 DEF OwnershipExact

\* THEOREM: the list of a task's mutexes and the owner that each mutex records
\* agree, whatever ends a lock: unl_mtx, ini_mtx, the end of the owner; a task
\* that ended owns nothing, and nobody waits for a free mutex.
THEOREM OwnershipCorrect == MtxSpec => []OwnershipExact
BY OwnershipOfInvariant, MtxInvariantHolds, PTL

\* The invariant says which priority a task has.
LEMMA PriorityOfInvariant == MtxInv => PriorityIsCeiling
<1> SUFFICES ASSUME MtxInv, NEW t \in Task
             PROVE  /\ tcb[t].pri = CalcPriority(KM, t)
                    /\ \A m \in Range(lastmtx[t]) \union ({tcb[t].wobj} \intersect Mtx) :
                         MTX_CEILING(m) => tcb[t].bpri >= CeilPri[m]
  BY DEF PriorityIsCeiling
<1> DEFINE H == Held(KM, t, NULL)
           P == Prios(tcb[t].bpri, H)
<1>1. /\ IsQueue(lastmtx[t], H) /\ Range(lastmtx[t]) = H /\ RankOK(tcb[t], H)
      /\ KM.lastmtx = lastmtx /\ KM.k.tcb = tcb
  BY HeldFacts, MtxFields
<1>2. tcb[t].bpri \in Pri /\ H \in SUBSET Mtx
  BY MtxTypes DEF TCB, Held
<1> HIDE DEF H
<1>3. CalcPriority(KM, t) = Min(P)
  BY <1>1, CalcIsMin
<1>4. IsLeast(tcb[t].pri, P)
  BY <1>1 DEF RankOK
<1>5. P \subseteq Pri /\ P # {}
  BY <1>2, PriosFacts
<1> HIDE DEF P
<1>6. Min(P) = tcb[t].pri
  BY <1>4, <1>5, MinIsLeast
<1> QED
  BY <1>1, <1>3, <1>6 DEF RankOK, Bounds

\* THEOREM: the current priority that mutex.c maintains step by step is always
\* the highest of the base priority and the ceilings of the mutexes held, and no
\* base priority is above the ceiling of a mutex that the task holds or awaits.
THEOREM PriorityCorrect == MtxSpec => []PriorityIsCeiling
BY PriorityOfInvariant, MtxInvariantHolds, PTL

\* THEOREM: a mutex that leaves its owner goes to the head of its queue, or is
\* free if nobody waits; only ini_mtx frees a mutex that somebody awaits. That
\* holds for each mutex of a task that ends with several of them locked.
THEOREM HandedToFirstCorrect == MtxSpec => HandedToFirst
<1> DEFINE P == \A m \in Mtx : loctsk[m] # NULL /\ loctsk'[m] # loctsk[m] =>
                  IF wque[m] = << >> THEN loctsk'[m] = NULL
                  ELSE loctsk'[m] = Head(wque[m]) \/ ini_mtx(m)
<1>1. MtxInv /\ [MtxNext]_mvars => P
  <2> SUFFICES ASSUME MtxInv, [MtxNext]_mvars, NEW m \in Mtx, loctsk[m] # NULL,
                      loctsk'[m] # loctsk[m]
               PROVE  IF wque[m] = << >> THEN loctsk'[m] = NULL
                      ELSE loctsk'[m] = Head(wque[m]) \/ ini_mtx(m)
    OBVIOUS
  <2>1. MtxStep
    BY MtxNextOwn
  <2>2. KM.k.wque = wque
    BY MtxFields
  <2> QED
    BY <2>1, <2>2 DEF MtxStep, NextOwner
<1> QED
  BY <1>1, MtxInvariantHolds, PTL DEF MtxSpec, HandedToFirst

\* The invariant keeps what holds of the kernel.
LEMMA KernelOfInvariant ==
  MtxInv => /\ TypeOK /\ DspflgExact /\ RunsWhatIsScheduled
            /\ ReadyQueuesExact /\ SchedtskIsBest /\ WaitQueuesExact
            /\ TerminationRequestHeld /\ DormantIsClean /\ TimersMatchWaits
<1> SUFFICES ASSUME MtxInv
             PROVE  /\ TypeOK /\ DspflgExact /\ RunsWhatIsScheduled
                    /\ ReadyQueuesExact /\ SchedtskIsBest /\ WaitQueuesExact
                    /\ TerminationRequestHeld /\ DormantIsClean /\ TimersMatchWaits
  OBVIOUS
<1>1. WaitInv /\ IInv /\ SInv /\ SchedtskExact(K)
  BY QueueTypes DEF MtxInv
<1>2. TypeOK /\ DspflgExact /\ RunsWhatIsScheduled
  BY <1>1 DEF IInv
<1>3. ReadyQueuesExact
  BY <1>1, QueuesOfInvariant
<1>4. SchedtskIsBest
  BY <1>1, BestOfInvariant DEF IInv
<1>5. TerminationRequestHeld /\ DormantIsClean /\ TimersMatchWaits
  BY <1>1, TasksOfInvariant
<1>6. WaitQueuesExact
  BY <1>1, QueuesAreExact
<1> QED
  BY <1>2, <1>3, <1>4, <1>5, <1>6

\* THEOREM: what holds of the kernel without mutexes holds with them: a task that
\* hands over its mutexes while it ends leaves the ready queues, the wait queues,
\* the time events and the choice of the scheduler exact.
THEOREM MutexKernelCorrect ==
  MtxSpec => [](/\ TypeOK /\ DspflgExact /\ RunsWhatIsScheduled
                /\ ReadyQueuesExact /\ SchedtskIsBest /\ WaitQueuesExact
                /\ TerminationRequestHeld /\ DormantIsClean /\ TimersMatchWaits)
BY KernelOfInvariant, MtxInvariantHolds, PTL
===============================================================================
