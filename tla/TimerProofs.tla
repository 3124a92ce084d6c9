----------------------------- MODULE TimerProofs -----------------------------
(***************************************************************************)
(* Theorems about what runs beside the tasks, two timers and handlers.     *)
(* The overrun timer charges every task for exactly the time it runs, for  *)
(* any number of tasks and any amounts of time. The timer of time          *)
(* partitioning, for every set of tasks and every table of time windows:   *)
(* the invariants of TaskKernelProofs hold in every state, also in the     *)
(* middle of a switch; those of this module relate the window, its timer,  *)
(* what is pending and the progress of a switch to them. The interrupt     *)
(* service routines of a line, which tasks create and delete and a         *)
(* handler walks through, are called in their order.                       *)
(***************************************************************************)
EXTENDS Overrun, TimePartition, DcreInterrupt, TaskKernelProofs, SequenceTheorems, TLAPS

-----------------------------------------------------------------------------
(* The overrun timer. *)

OvrTimer == [enable : BOOLEAN, hw : Nat, req : BOOLEAN]
OvrState == [sta : [Task -> BOOLEAN], left : [Task -> Nat], tm : OvrTimer]

\* The task the timer counts for: none in handlers and in the idle loop.
Counting == IF intnest THEN NULL ELSE runtsk

TimerOff(tm) == tm.enable = FALSE /\ tm.req = FALSE

\* The timer of a task that has n units left counts them, or has used them up.
TimerAt(tm, n) ==
  /\ tm.hw = n
  /\ n = 0 => tm.enable = FALSE /\ tm.req = TRUE
  /\ n # 0 => tm.enable = TRUE /\ tm.req = FALSE

\* With the timer counting for r, what is stored for the tasks and what the timer
\* holds is what the tasks have got.
Charged(o, w, r) ==
  /\ \A t \in Task : o.sta[t] /\ t # r => o.left[t] = w[t]
  /\ r # NULL /\ o.sta[r] => TimerAt(o.tm, w[r])
  /\ ~(r # NULL /\ o.sta[r]) => TimerOff(o.tm)

OvrTyped == ovr \in OvrState /\ owed \in [Task -> Nat] /\ called \subseteq Task

\* The inductive invariant, together with that of the kernel.
OvrInv ==
  /\ OvrTyped
  /\ Charged(ovr, owed, Counting)
  /\ ovrint => intnest
  /\ \A t \in called : owed[t] = 0

-----------------------------------------------------------------------------
(* Starting and stopping the timer. *)

\* ovrtimer_stop puts what the timer holds where it is kept while the task does
\* not run.
LEMMA StopCharged ==
  ASSUME NEW o \in OvrState, NEW w \in [Task -> Nat], NEW r \in Task \union {NULL},
         Charged(o, w, r)
  PROVE  ovrtimer_stop(o, r) \in OvrState /\ Charged(ovrtimer_stop(o, r), w, NULL)
<1>1. CASE r # NULL /\ o.sta[r]
  <2> DEFINE z == ovrtimer_stop(o, r)
  <2>1. r \in Task /\ o.tm.hw = w[r] /\ w[r] \in Nat
    BY <1>1 DEF Charged, TimerAt
  <2>2. z = [sta |-> o.sta, left |-> [o.left EXCEPT ![r] = o.tm.hw],
             tm |-> [enable |-> FALSE, req |-> FALSE, hw |-> 0]]
    BY <1>1 DEF ovrtimer_stop, OvrtimerStop, OvrState
  <2> HIDE DEF z
  <2>3. z \in OvrState
    BY <2>1, <2>2 DEF OvrState, OvrTimer
  <2>4. \A t \in Task : o.sta[t] => z.left[t] = w[t]
    BY <2>1, <2>2 DEF OvrState, Charged
  <2>5. Charged(z, w, NULL)
    BY <2>2, <2>4 DEF Charged, TimerOff
  <2> QED
    BY <2>3, <2>5 DEF z
<1>2. CASE ~(r # NULL /\ o.sta[r])
  <2>1. ovrtimer_stop(o, r) = o
    BY <1>2 DEF ovrtimer_stop
  <2>2. Charged(o, w, NULL)
    BY <1>2 DEF Charged
  <2> QED
    BY <2>1, <2>2
<1> QED
  BY <1>1, <1>2

\* ovrtimer_start loads the timer with what the task has left.
LEMMA StartCharged ==
  ASSUME KernelAssumption, NEW o \in OvrState, NEW w \in [Task -> Nat],
         NEW r \in Task \union {NULL}, Charged(o, w, NULL)
  PROVE  ovrtimer_start(o, r) \in OvrState /\ Charged(ovrtimer_start(o, r), w, r)
<1>1. \A t \in Task : o.sta[t] => o.left[t] = w[t]
  BY DEF Charged, KernelAssumption
<1>2. CASE r # NULL /\ o.sta[r]
  <2> DEFINE z == ovrtimer_start(o, r)
             n == o.left[r]
  <2>1. r \in Task /\ n \in Nat /\ n = w[r]
    BY <1>1, <1>2 DEF OvrState
  <2>2. TimerOff(o.tm) /\ o.tm \in OvrTimer
    BY DEF Charged, OvrState
  <2>3. z = [o EXCEPT !.tm = OvrtimerStart(o.tm, n)]
    BY <1>2 DEF ovrtimer_start
  <2>4. OvrtimerStart(o.tm, n) \in OvrTimer /\ TimerAt(OvrtimerStart(o.tm, n), n)
    BY <2>1, <2>2 DEF OvrtimerStart, OvrTimer, TimerAt, TimerOff
  <2> HIDE DEF z, n
  <2>5. z \in OvrState /\ z.sta = o.sta /\ z.left = o.left /\ z.tm = OvrtimerStart(o.tm, n)
    BY <2>3, <2>4 DEF OvrState
  <2>6. Charged(z, w, r)
    BY <1>1, <1>2, <2>1, <2>4, <2>5 DEF Charged
  <2> QED
    BY <2>5, <2>6 DEF z
<1>3. CASE ~(r # NULL /\ o.sta[r])
  <2>1. ovrtimer_start(o, r) = o
    BY <1>3 DEF ovrtimer_start
  <2>2. Charged(o, w, r)
    BY <1>1, <1>3 DEF Charged
  <2> QED
    BY <2>1, <2>2
<1> QED
  BY <1>2, <1>3

-----------------------------------------------------------------------------
(* The steps. *)

\* What the invariant of the kernel says of the running task.
LEMMA RunsTask ==
  ASSUME IInv
  PROVE  runtsk \in Task \union {NULL} /\ Counting \in Task \union {NULL}
BY DEF IInv, WellTyped, K, KState, Counting

\* A switch of tasks outside handlers stops the timer for one task and starts it
\* for the other.
LEMMA SwitchedOK ==
  ASSUME KernelAssumption, OvrInv, IInv, IInv', Switched, intnest' = intnest,
         UNCHANGED <<ovrint, owed, called>>
  PROVE  OvrInv'
<1>1. runtsk \in Task \union {NULL} /\ runtsk' \in Task \union {NULL}
  BY RunsTask DEF IInv, WellTyped, K, KState
<1>2. CASE runtsk' = runtsk \/ intnest
  <2>1. ovr' = ovr /\ Counting' = Counting
    BY <1>2 DEF Switched, Counting
  <2> QED
    BY <2>1 DEF OvrInv, OvrTyped, Charged
<1>3. CASE ~(runtsk' = runtsk \/ intnest)
  <2> DEFINE o == ovrtimer_stop(ovr, runtsk)
  <2>1. ovr' = ovrtimer_start(o, runtsk') /\ Counting = runtsk /\ Counting' = runtsk'
    BY <1>3 DEF Switched, Counting
  <2>2. o \in OvrState /\ Charged(o, owed, NULL)
    BY <1>1, <2>1, StopCharged DEF OvrInv, OvrTyped
  <2> HIDE DEF o
  <2>3. ovr' \in OvrState /\ Charged(ovr', owed, runtsk')
    BY <1>1, <2>1, <2>2, StartCharged DEF OvrInv, OvrTyped
  <2> QED
    BY <2>1, <2>3 DEF OvrInv, OvrTyped, Charged
<1> QED
  BY <1>2, <1>3

\* The end of a task forgets its time; if the task was running its timer is
\* stopped, and that of the next one is started.
LEMMA TaskEndedOK ==
  ASSUME KernelAssumption, OvrInv, IInv, IInv', NEW t \in Task, TaskEnded(t),
         ~intnest, intnest' = FALSE
  PROVE  OvrInv'
<1> DEFINE stopped == IF t = runtsk /\ ovr.sta[t]
                      THEN [ovr EXCEPT !.tm = OvrtimerStop] ELSE ovr
           o == [stopped EXCEPT !.sta[t] = FALSE]
           r == IF t = runtsk THEN NULL ELSE runtsk
<1>1. runtsk \in Task \union {NULL} /\ runtsk' \in Task \union {NULL} /\ t # NULL
  BY RunsTask DEF IInv, WellTyped, K, KState, KernelAssumption
<1>2. Counting = runtsk /\ Counting' = runtsk'
  BY DEF Counting
<1>3. ovr \in OvrState /\ owed \in [Task -> Nat] /\ Charged(ovr, owed, runtsk)
  BY <1>2 DEF OvrInv, OvrTyped
<1>4. OvrtimerStop \in OvrTimer /\ TimerOff(OvrtimerStop)
  BY DEF OvrtimerStop, OvrTimer, TimerOff
<1>5. /\ o \in OvrState /\ o.sta = [ovr.sta EXCEPT ![t] = FALSE] /\ o.left = ovr.left
      /\ o.tm = IF t = runtsk /\ ovr.sta[t] THEN OvrtimerStop ELSE ovr.tm
  BY <1>3, <1>4 DEF OvrState
<1>6. /\ ovr' = IF t = runtsk THEN ovrtimer_start(o, runtsk')
                ELSE IF runtsk' = runtsk THEN o
                ELSE ovrtimer_start(ovrtimer_stop(o, runtsk), runtsk')
      /\ called' = called \ {t} /\ ovrint' = ovrint /\ owed' = owed
  BY DEF TaskEnded
<1> HIDE DEF o
<1>7. o.sta[t] = FALSE /\ \A u \in Task \ {t} : o.sta[u] = ovr.sta[u]
  BY <1>3, <1>5 DEF OvrState
<1>8. Charged(o, owed, r)
  <2>1. ASSUME NEW u \in Task, o.sta[u], u # r PROVE o.left[u] = owed[u]
    BY <1>3, <1>5, <1>7, <2>1 DEF Charged
  <2>2. r # NULL /\ o.sta[r] => TimerAt(o.tm, owed[r])
    BY <1>1, <1>3, <1>5, <1>7 DEF Charged
  <2>3. ~(r # NULL /\ o.sta[r]) => TimerOff(o.tm)
    BY <1>1, <1>3, <1>4, <1>5, <1>7 DEF Charged
  <2> QED
    BY <2>1, <2>2, <2>3 DEF Charged
<1>9. ovr' \in OvrState /\ Charged(ovr', owed, runtsk')
  <2>1. CASE t = runtsk
    BY <1>1, <1>3, <1>5, <1>6, <1>8, <2>1, StartCharged
  <2>2. CASE t # runtsk /\ runtsk' = runtsk
    BY <1>5, <1>6, <1>8, <2>2
  <2>3. CASE t # runtsk /\ runtsk' # runtsk
    <3>1. /\ ovrtimer_stop(o, runtsk) \in OvrState
          /\ Charged(ovrtimer_stop(o, runtsk), owed, NULL)
      BY <1>1, <1>3, <1>5, <1>8, <2>3, StopCharged
    <3> QED
      BY <1>1, <1>3, <1>6, <2>3, <3>1, StartCharged
  <2> QED
    BY <2>1, <2>2, <2>3
<1>10. \A u \in called' : owed'[u] = 0
  BY <1>6 DEF OvrInv
<1>11. OvrTyped' /\ Charged(ovr', owed', Counting') /\ (ovrint' => intnest')
  BY <1>2, <1>3, <1>6, <1>9 DEF OvrTyped, OvrInv
<1> QED
  BY <1>10, <1>11 DEF OvrInv, Charged

\* Time passes for the running task in the timer as in what is owed to it.
LEMMA AdvanceOK ==
  ASSUME KernelAssumption, OvrInv, IInv, Advance
  PROVE  OvrInv'
<1> DEFINE r == runtsk
           tm == ovr.tm
           tm2 == [enable |-> tm.enable /\ tm.hw > 1,
                   hw     |-> IF tm.hw > 0 THEN tm.hw - 1 ELSE 0,
                   req    |-> tm.req \/ (tm.enable /\ tm.hw = 1)]
           w2 == IF ovr.sta[r] /\ owed[r] > 0 THEN owed[r] - 1 ELSE owed[r]
<1>1. r \in Task /\ r # NULL /\ Counting = r /\ Counting' = r
      /\ intnest' = intnest /\ runtsk' = runtsk
  BY RunsTask DEF Advance, Counting, vars, kvars, cpuvars, KernelAssumption
<1>2. ovr' = [ovr EXCEPT !.tm = tm2] /\ owed' = [owed EXCEPT ![r] = w2]
      /\ called' = called /\ ovrint' = ovrint
  BY DEF Advance
<1>3. ovr \in OvrState /\ tm \in OvrTimer /\ owed \in [Task -> Nat] /\ Charged(ovr, owed, r)
      /\ owed[r] \in Nat
  BY <1>1 DEF OvrInv, OvrTyped, OvrState
<1>4. tm2 \in OvrTimer /\ w2 \in Nat
  BY <1>3 DEF OvrTimer
<1>5. ovr.sta[r] => TimerAt(tm2, w2)
  <2>1. SUFFICES ASSUME ovr.sta[r] PROVE TimerAt(tm2, w2)
    OBVIOUS
  <2>2. TimerAt(tm, owed[r])
    BY <1>1, <1>3, <2>1 DEF Charged
  <2>3. CASE owed[r] = 0
    <3>1. tm.hw = 0 /\ tm.enable = FALSE /\ tm.req = TRUE
      BY <2>2, <2>3 DEF TimerAt
    <3>2. w2 = 0 /\ tm2.hw = 0
      BY <2>3, <3>1
    <3>3. tm2.enable = FALSE /\ tm2.req = TRUE
      BY <3>1
    <3> QED
      BY <3>2, <3>3 DEF TimerAt
  <2>4. CASE owed[r] = 1
    <3>1. tm.hw = 1 /\ tm.enable = TRUE /\ ~(tm.hw > 1)
      BY <2>2, <2>4 DEF TimerAt
    <3>2. w2 = 0 /\ tm2.hw = 0
      BY <2>1, <2>4, <3>1
    <3>3. tm2.enable = FALSE /\ tm2.req = TRUE
      BY <3>1
    <3> QED
      BY <3>2, <3>3 DEF TimerAt
  <2>5. CASE owed[r] > 1
    <3>1. tm.hw > 1 /\ tm.hw # 1 /\ tm.enable = TRUE /\ tm.req = FALSE /\ tm.hw = owed[r]
      BY <1>3, <2>2, <2>5 DEF TimerAt
    <3>2. w2 = owed[r] - 1 /\ tm2.hw = owed[r] - 1 /\ owed[r] - 1 # 0
      BY <1>3, <2>1, <2>5, <3>1
    <3>3. tm2.enable = TRUE /\ tm2.req = FALSE
      BY <3>1
    <3> QED
      BY <3>2, <3>3 DEF TimerAt
  <2> QED
    BY <1>3, <2>3, <2>4, <2>5
<1>6. ~ovr.sta[r] => TimerOff(tm2)
  BY <1>1, <1>3 DEF Charged, TimerOff
<1> HIDE DEF tm2, w2
<1>7. ovr' \in OvrState /\ ovr'.sta = ovr.sta /\ ovr'.left = ovr.left /\ ovr'.tm = tm2
  BY <1>2, <1>3, <1>4 DEF OvrState
<1>8. owed' \in [Task -> Nat] /\ owed'[r] = w2 /\ \A t \in Task \ {r} : owed'[t] = owed[t]
  BY <1>1, <1>2, <1>3, <1>4
<1>9. Charged(ovr', owed', r)
  <2>1. \A t \in Task : ovr'.sta[t] /\ t # r => ovr'.left[t] = owed'[t]
    BY <1>3, <1>7, <1>8 DEF Charged
  <2>2. r # NULL /\ ovr'.sta[r] => TimerAt(ovr'.tm, owed'[r])
    BY <1>5, <1>7, <1>8
  <2>3. ~(r # NULL /\ ovr'.sta[r]) => TimerOff(ovr'.tm)
    BY <1>1, <1>6, <1>7
  <2> QED
    BY <2>1, <2>2, <2>3 DEF Charged
<1>10. ASSUME NEW t \in called' PROVE owed'[t] = 0
  <2>1. t \in Task /\ owed[t] = 0
    BY <1>2, <1>10 DEF OvrInv, OvrTyped
  <2>2. w2 = owed[r] \/ owed[r] > 0
    BY DEF w2
  <2> QED
    BY <1>3, <1>8, <2>1, <2>2
<1> QED
  BY <1>1, <1>2, <1>7, <1>8, <1>9, <1>10 DEF OvrInv, OvrTyped

\* sta_ovr and stp_ovr, also of the running task and in handlers.
LEMMA OvrCallOK ==
  ASSUME KernelAssumption, OvrAssumption, OvrInv, IInv, NEW t \in Task,
         (\E n \in OvrTim : sta_ovr(t, n)) \/ stp_ovr(t)
  PROVE  OvrInv'
<1>1. runtsk' = runtsk /\ intnest' = intnest /\ ovrint' = ovrint
  BY DEF sta_ovr, stp_ovr, vars, kvars, cpuvars
<1>2. /\ runtsk' = runtsk /\ intnest' = intnest /\ ovrint' = ovrint
      /\ Counting' = Counting /\ Counting \in Task \union {NULL} /\ t # NULL
  BY <1>1, RunsTask DEF Counting, KernelAssumption
<1>3. ovr \in OvrState /\ owed \in [Task -> Nat] /\ Charged(ovr, owed, Counting)
      /\ called \subseteq Task /\ ovr.tm \in OvrTimer
  BY DEF OvrInv, OvrTyped, OvrState
<1>4. intnest \/ t # runtsk <=> t # Counting
  BY <1>2 DEF Counting
<1>5. ASSUME NEW n \in OvrTim, sta_ovr(t, n) PROVE OvrInv'
  <2> DEFINE tm == IF ovr.sta[t] THEN OvrtimerStop ELSE ovr.tm
             tm2 == IF t # Counting THEN ovr.tm ELSE OvrtimerStart(tm, n)
  <2>1. n \in Nat \ {0}
    BY OvrAssumption DEF OvrAssumption
  <2>2. t = Counting => tm \in OvrTimer /\ TimerOff(tm)
    BY <1>2, <1>3 DEF Charged, OvrtimerStop, OvrTimer, TimerOff
  <2>3. t = Counting => tm2 \in OvrTimer /\ TimerAt(tm2, n)
    BY <2>1, <2>2 DEF OvrtimerStart, OvrTimer, TimerAt, TimerOff
  <2>4. ovr' = [ovr EXCEPT !.sta[t] = TRUE, !.left[t] = n, !.tm = tm2]
    BY <1>4, <1>5 DEF sta_ovr
  <2>5. owed' = [owed EXCEPT ![t] = n] /\ called' = called \ {t}
    BY <1>5 DEF sta_ovr
  <2>6. tm2 \in OvrTimer /\ (t # Counting => tm2 = ovr.tm)
    BY <1>3, <2>3
  <2> HIDE DEF tm, tm2
  <2>7. /\ ovr' \in OvrState /\ ovr'.tm = tm2
        /\ ovr'.sta[t] /\ ovr'.left[t] = n
        /\ \A u \in Task \ {t} : ovr'.sta[u] = ovr.sta[u] /\ ovr'.left[u] = ovr.left[u]
    BY <1>3, <2>1, <2>4, <2>6 DEF OvrState
  <2>8. owed' \in [Task -> Nat] /\ owed'[t] = n /\ \A u \in Task \ {t} : owed'[u] = owed[u]
    BY <1>3, <2>1, <2>5
  <2>9. Charged(ovr', owed', Counting)
    <3>1. ASSUME NEW u \in Task, ovr'.sta[u], u # Counting PROVE ovr'.left[u] = owed'[u]
      BY <1>3, <2>7, <2>8, <3>1 DEF Charged
    <3>2. CASE t = Counting
      BY <1>2, <2>3, <2>7, <2>8, <3>1, <3>2 DEF Charged
    <3>3. CASE t # Counting
      BY <1>2, <1>3, <2>6, <2>7, <2>8, <3>1, <3>3 DEF Charged
    <3> QED
      BY <3>2, <3>3
  <2>10. \A u \in called' : u \in Task /\ owed'[u] = 0
    BY <1>3, <2>5, <2>8 DEF OvrInv
  <2> QED
    BY <1>2, <2>7, <2>8, <2>9, <2>10 DEF OvrInv, OvrTyped
<1>6. CASE stp_ovr(t)
  <2> DEFINE tm2 == IF t # Counting \/ ~ovr.sta[t] THEN ovr.tm ELSE OvrtimerStop
  <2>1. ovr' = [ovr EXCEPT !.sta[t] = FALSE, !.tm = tm2]
    BY <1>4, <1>6 DEF stp_ovr
  <2>2. owed' = owed /\ called' = called \ {t}
    BY <1>6 DEF stp_ovr
  <2>3. tm2 \in OvrTimer /\ (t = Counting => TimerOff(tm2)) /\ (t # Counting => tm2 = ovr.tm)
    BY <1>2, <1>3 DEF OvrtimerStop, OvrTimer, TimerOff, Charged
  <2> HIDE DEF tm2
  <2>4. /\ ovr' \in OvrState /\ ovr'.tm = tm2 /\ ovr'.left = ovr.left
        /\ ~ovr'.sta[t] /\ \A u \in Task \ {t} : ovr'.sta[u] = ovr.sta[u]
    BY <1>3, <2>1, <2>3 DEF OvrState
  <2>5. Charged(ovr', owed', Counting)
    BY <1>2, <1>3, <2>2, <2>3, <2>4 DEF Charged
  <2> QED
    BY <1>2, <1>3, <2>2, <2>4, <2>5 DEF OvrInv, OvrTyped
<1> QED
  BY <1>5, <1>6

\* The entries of interrupts stop the timer, their return starts it for whom it
\* leaves running, and call_ovrhdr finds the time of the interrupted task used up
\* or leaves it alone.
LEMMA OvrInterruptOK ==
  ASSUME KernelAssumption, OvrInv, IInv, IInv',
         OvrInterrupt \/ OvrIntEnter \/ call_ovrhdr \/ OvrIntExit
  PROVE  OvrInv'
<1>1. runtsk \in Task \union {NULL} /\ runtsk' \in Task \union {NULL} /\ NULL \notin Task
  BY RunsTask DEF IInv, WellTyped, K, KState, KernelAssumption
<1>2. ovr \in OvrState /\ owed \in [Task -> Nat] /\ called \subseteq Task
      /\ Charged(ovr, owed, Counting)
  BY DEF OvrInv, OvrTyped
<1>3. CASE OvrInterrupt \/ OvrIntEnter
  <2> DEFINE o == IF OvrInterrupt THEN [ovr EXCEPT !.tm.req = FALSE] ELSE ovr
             z == ovrtimer_stop(ovr, runtsk)
  <2>1. Counting = runtsk /\ Counting' = NULL /\ intnest' = TRUE
    BY <1>3 DEF OvrInterrupt, OvrIntEnter, IntEnter, Counting
  <2>2. owed' = owed /\ called' = called
    BY <1>3 DEF OvrInterrupt, OvrIntEnter
  <2>3. z \in OvrState /\ Charged(z, owed, NULL)
    BY <1>1, <1>2, <2>1, StopCharged
  <2>4. CASE OvrIntEnter
    BY <2>1, <2>2, <2>3, <2>4 DEF OvrIntEnter, OvrInv, OvrTyped, Charged
  <2>5. CASE OvrInterrupt
    <3>1. ovr' = ovrtimer_stop([ovr EXCEPT !.tm.req = FALSE], runtsk) /\ ovr.tm.req
      BY <2>5 DEF OvrInterrupt
    <3>2. runtsk # NULL /\ ovr.sta[runtsk]
      BY <1>2, <2>1, <3>1 DEF Charged, TimerOff
    <3>3. ovr' = z
      BY <1>2, <3>1, <3>2 DEF ovrtimer_stop, OvrState, OvrTimer
    <3> QED
      BY <2>1, <2>2, <2>3, <3>3 DEF OvrInv, OvrTyped, Charged
  <2> QED
    BY <1>3, <2>4, <2>5
<1>4. CASE call_ovrhdr
  <2>1. intnest /\ intnest' = intnest /\ ovrint' = FALSE /\ owed' = owed
        /\ Counting = NULL /\ Counting' = NULL
    BY <1>4 DEF call_ovrhdr, Counting, vars, kvars, cpuvars
  <2>2. CASE runtsk # NULL /\ ovr.sta[runtsk] /\ ovr.left[runtsk] = 0
    <3>1. ovr' = [ovr EXCEPT !.sta[runtsk] = FALSE] /\ called' = called \union {runtsk}
      BY <1>4, <2>2 DEF call_ovrhdr
    <3>2. owed[runtsk] = 0
      BY <1>1, <1>2, <2>1, <2>2 DEF Charged
    <3>3. /\ ovr' \in OvrState /\ ovr'.tm = ovr.tm /\ ovr'.left = ovr.left
          /\ \A t \in Task : ovr'.sta[t] => ovr.sta[t]
      BY <1>1, <1>2, <2>2, <3>1 DEF OvrState
    <3>4. Charged(ovr', owed', NULL)
      BY <1>1, <1>2, <2>1, <3>3 DEF Charged
    <3> QED
      BY <1>1, <1>2, <2>1, <2>2, <3>1, <3>2, <3>3, <3>4 DEF OvrInv, OvrTyped
  <2>3. CASE ~(runtsk # NULL /\ ovr.sta[runtsk] /\ ovr.left[runtsk] = 0)
    <3>1. ovr' = ovr /\ called' = called
      BY <1>4, <2>3 DEF call_ovrhdr
    <3> QED
      BY <1>2, <2>1, <3>1 DEF OvrInv, OvrTyped
  <2> QED
    BY <2>2, <2>3
<1>5. CASE OvrIntExit
  <2>1. /\ Counting = NULL /\ Counting' = runtsk' /\ ovrint' = FALSE
        /\ ovr' = ovrtimer_start(ovr, runtsk') /\ owed' = owed /\ called' = called
    BY <1>5 DEF OvrIntExit, IntExit, Counting, OvrInv
  <2>2. ovr' \in OvrState /\ Charged(ovr', owed, runtsk')
    BY <1>1, <1>2, <2>1, StartCharged
  <2> QED
    BY <2>1, <2>2 DEF OvrInv, OvrTyped
<1> QED
  BY <1>3, <1>4, <1>5

\* Calls outside the extension leave intnest alone.
LEMMA CallsKeepIntnest ==
  ASSUME NEW t \in Task,
         \/ PlainTaskCall(t) \/ rel_wai(t) \/ TimerExpires(t)
         \/ \E p \in Pri : chg_pri(t, p)
         \/ dis_ter \/ dly_tsk \/ loc_cpu \/ unl_cpu \/ dis_dsp
         \/ \E timed \in BOOLEAN : slp_tsk(timed)
         \/ ena_ter \/ ena_dsp \/ (\E mask \in BOOLEAN : chg_ipm(mask))
         \/ ter_tsk(t) \/ ras_ter(t)
  PROVE  intnest' = intnest
<1>1. ASSUME NEW s, Return(s) PROVE intnest' = intnest
  BY <1>1 DEF Return, cpuvars
<1>2. CASE PlainTaskCall(t)
  BY <1>1, <1>2 DEF PlainTaskCall, act_tsk, can_act, wup_tsk, can_wup, sus_tsk, rsm_tsk
<1>3. CASE rel_wai(t) \/ TimerExpires(t) \/ \E p \in Pri : chg_pri(t, p)
  BY <1>1, <1>3 DEF rel_wai, TimerExpires, chg_pri
<1>4. CASE loc_cpu \/ unl_cpu \/ dis_dsp
  BY <1>4 DEF loc_cpu, unl_cpu, dis_dsp
<1>5. CASE dis_ter \/ dly_tsk \/ \E timed \in BOOLEAN : slp_tsk(timed)
  BY <1>1, <1>5 DEF dis_ter, dly_tsk, slp_tsk
<1>6. CASE ena_ter \/ ena_dsp \/ \E mask \in BOOLEAN : chg_ipm(mask)
  BY <1>1, <1>6 DEF ena_ter, ena_dsp, chg_ipm, cpuvars
<1>7. CASE ter_tsk(t) \/ ras_ter(t)
  BY <1>1, <1>7 DEF ter_tsk, ras_ter, RequestTermination
<1> QED
  BY <1>2, <1>3, <1>4, <1>5, <1>6, <1>7

\* A call that may end the running task ends it or switches.
LEMMA EndsIfOK ==
  ASSUME KernelAssumption, OvrInv, IInv, IInv', NEW ends, EndsIf(ends),
         runtsk # NULL, ~intnest, intnest' = FALSE
  PROVE  OvrInv'
<1>1. runtsk \in Task
  BY RunsTask
<1>2. intnest \in BOOLEAN
  BY DEF IInv, TypeOK
<1> QED
  BY <1>1, <1>2, SwitchedOK, TaskEndedOK DEF EndsIf

-----------------------------------------------------------------------------
(* The specification. *)

\* Initially no task has any time.
LEMMA OvrInitOK == IInv /\ OvrInit => OvrInv
<1> SUFFICES ASSUME IInv, OvrInit PROVE OvrInv
  OBVIOUS
<1>1. /\ ovr = [sta |-> [t \in Task |-> FALSE], left |-> [t \in Task |-> 0],
                tm |-> [enable |-> FALSE, hw |-> 0, req |-> FALSE]]
      /\ ovrint = FALSE /\ owed = [t \in Task |-> 0] /\ called = {}
  BY DEF OvrInit
<1>2. OvrTyped
  BY <1>1 DEF OvrTyped, OvrState, OvrTimer
<1>3. Charged(ovr, owed, Counting)
  <2>1. TimerOff(ovr.tm) /\ \A t \in Task : ~ovr.sta[t]
    BY <1>1 DEF TimerOff
  <2> QED
    BY <2>1, RunsTask DEF Charged
<1> QED
  BY <1>1, <1>2, <1>3 DEF OvrInv

\* A step of the extension is one of the kernel or leaves its data alone.
LEMMA OvrKernelStep ==
  ASSUME OvrStep(Task)
  PROVE  [Next]_vars
<1>1. CASE Advance \/ call_ovrhdr
  BY <1>1 DEF Advance, call_ovrhdr
<1>2. CASE \E t \in Task : stp_ovr(t) \/ \E n \in OvrTim : sta_ovr(t, n)
  BY <1>2 DEF stp_ovr, sta_ovr
<1>3. CASE OvrInterrupt \/ OvrIntEnter \/ OvrIntExit
  BY <1>3 DEF OvrInterrupt, OvrIntEnter, OvrIntExit, Next, PlainCall
<1>4. CASE OvrCall(Task)
  BY <1>4 DEF OvrCall, Next, PlainCall, TaskCall
<1>5. CASE OvrExtTsk \/ OvrEnaTer \/ OvrEnaDsp \/ \E mask \in BOOLEAN : OvrChgIpm(mask)
  BY <1>5 DEF OvrExtTsk, OvrEnaTer, OvrEnaDsp, OvrChgIpm, Next, SystemCall
<1>6. CASE \E t \in Task : OvrTerTsk(t) \/ OvrRasTer(t)
  BY <1>6 DEF OvrTerTsk, OvrRasTer, Next, TaskCall
<1> QED
  BY <1>1, <1>2, <1>3, <1>4, <1>5, <1>6 DEF OvrStep

\* Every step preserves the invariant.
LEMMA OvrNextOK == IInv /\ OvrInv /\ [OvrStep(Task)]_<<vars, ovrvars>> => IInv' /\ OvrInv'
<1> SUFFICES ASSUME IInv, OvrInv, [OvrStep(Task)]_<<vars, ovrvars>> PROVE IInv' /\ OvrInv'
  OBVIOUS
<1>1. CASE UNCHANGED <<vars, ovrvars>>
  <2>1. [Next]_vars /\ ovr' = ovr /\ ovrint' = ovrint /\ owed' = owed /\ called' = called
        /\ runtsk' = runtsk /\ intnest' = intnest
    BY <1>1 DEF vars, kvars, cpuvars, ovrvars
  <2> QED
    BY <2>1, NextOK DEF OvrInv, OvrTyped, Charged, Counting
<1> SUFFICES ASSUME OvrStep(Task) PROVE IInv' /\ OvrInv'
  BY <1>1
<1>2. IInv'
  BY OvrKernelStep, NextOK
<1> USE KernelAssumption, OvrAssumption
<1>3. CASE Advance
  BY <1>2, <1>3, AdvanceOK
<1>4. CASE OvrInterrupt \/ call_ovrhdr \/ OvrIntEnter \/ OvrIntExit
  BY <1>2, <1>4, OvrInterruptOK
<1>5. CASE \E t \in Task : stp_ovr(t) \/ \E n \in OvrTim : sta_ovr(t, n)
  BY <1>2, <1>5, OvrCallOK
<1>6. CASE OvrCall(Task)
  <2>1. intnest' = intnest
    <3>1. Main \in Task
      BY TaskAssumption DEF TaskAssumption
    <3> QED
      BY <1>6, <3>1, CallsKeepIntnest DEF OvrCall
  <2> QED
    BY <1>2, <1>6, <2>1, SwitchedOK DEF OvrCall
<1>7. CASE OvrExtTsk
  <2>1. ~intnest /\ runtsk # NULL /\ intnest' = intnest /\ TaskEnded(runtsk)
    BY <1>7 DEF OvrExtTsk, ext_tsk
  <2>2. runtsk \in Task /\ intnest' = FALSE
    BY <2>1, RunsTask DEF IInv, TypeOK
  <2> QED
    BY <1>2, <2>1, <2>2, TaskEndedOK
<1>8. CASE OvrEnaTer \/ OvrEnaDsp \/ \E mask \in BOOLEAN : OvrChgIpm(mask)
  <2>1. PICK ends : EndsIf(ends)
    BY <1>8 DEF OvrEnaTer, OvrEnaDsp, OvrChgIpm
  <2>2. TskCtxUnl
    BY <1>8 DEF OvrEnaTer, OvrEnaDsp, OvrChgIpm, ena_ter, ena_dsp, chg_ipm
  <2>3. intnest' = intnest
    BY <1>8, TaskAssumption, CallsKeepIntnest
       DEF OvrEnaTer, OvrEnaDsp, OvrChgIpm, TaskAssumption
  <2>4. runtsk # NULL /\ ~intnest /\ intnest' = FALSE
    BY <2>2, <2>3 DEF TskCtxUnl, IInv, TypeOK
  <2> QED
    BY <1>2, <2>1, <2>4, EndsIfOK
<1>9. ASSUME NEW t \in Task, OvrTerTsk(t) \/ OvrRasTer(t) PROVE OvrInv'
  <2>1. ter_tsk(t) \/ ras_ter(t)
    BY <1>9 DEF OvrTerTsk, OvrRasTer
  <2>2. intnest' = intnest
    BY <2>1, CallsKeepIntnest
  <2>3. ~intnest /\ intnest' = FALSE
    BY <2>1, <2>2 DEF ter_tsk, TerTskOK, ras_ter, RasTerOK, TskCtxUnl, IInv, TypeOK
  <2>4. TaskEnded(t) \/ (Switched /\ UNCHANGED <<ovrint, owed, called>>)
    BY <1>9 DEF OvrTerTsk, OvrRasTer
  <2> QED
    BY <1>2, <2>2, <2>3, <2>4, TaskEndedOK, SwitchedOK
<1> QED
  BY <1>2, <1>3, <1>4, <1>5, <1>6, <1>7, <1>8, <1>9 DEF OvrStep

\* Through preemption, handlers, the ends of tasks and new amounts of time every
\* task is charged for exactly the time it runs, the timer counts only for a
\* running task that was given time and always for such a task, and the handler
\* is called only for a task that has used up its time.
THEOREM OverrunCorrect == OvrSpec => []OverrunExact
<1>1. Init /\ OvrInit => IInv /\ OvrInv
  BY InitOK, OvrInitOK
<1>2. IInv /\ OvrInv => OverrunExact
  <2> SUFFICES ASSUME IInv, OvrInv PROVE OverrunExact
    OBVIOUS
  <2>1. runtsk \in Task \union {NULL} /\ Charged(ovr, owed, Counting)
        /\ \A t \in called : owed[t] = 0
    BY RunsTask DEF OvrInv
  <2>2. ASSUME ~intnest, runtsk # NULL, NEW t \in Task, ref_ovr(t).ovrstat = "STA"
        PROVE  ref_ovr(t).leftotm = owed[t]
    <3>1. ovr.sta[t]
      BY <2>2 DEF ref_ovr
    <3>2. ref_ovr(t).leftotm = IF t = runtsk THEN ovr.tm.hw ELSE ovr.left[t]
      BY <3>1 DEF ref_ovr
    <3> QED
      BY <2>1, <2>2, <3>1, <3>2 DEF Charged, Counting, TimerAt
  <2>3. IF ~intnest /\ runtsk # NULL /\ ovr.sta[runtsk]
        THEN IF owed[runtsk] = 0 THEN ovr.tm.req ELSE ovr.tm.enable /\ ~ovr.tm.req
        ELSE ~ovr.tm.enable /\ ~ovr.tm.req
    BY <2>1 DEF Charged, Counting, TimerAt, TimerOff
  <2> QED
    BY <2>1, <2>2, <2>3 DEF OverrunExact
<1> QED
  BY <1>1, <1>2, OvrNextOK, PTL DEF OvrSpec

-----------------------------------------------------------------------------
(* Time partitioning. *)

TimerState ==
  [enable: BOOLEAN, flag: BOOLEAN, left: Nat, hw: Nat, req: BOOLEAN]

\* The states of the part that a switch changes.
SwState ==
  [k: KState, cursom: Som \union {NULL}, nxtsom: Som \union {NULL}, runtwd: Nat,
   scycreg: BOOLEAN, pendscyc: BOOLEAN, pendtwd: BOOLEAN, timer: TimerState]

\* The stacks of handlers: the handler of a timer above nothing or above a
\* handler of lower priority, or one handler above a held switch.
TimerHandler == {"hrt", "twd", "done"}
Stack == {<< >>, <<"low">>, <<"high">>}
           \union {<<h>> : h \in TimerHandler} \union {<<h, "low">> : h \in TimerHandler}

\* A switch is in progress in a task, with dispatching held off, or in a timer
\* handler; it resumes what set_dspflg found pending.
Held      == phase # "none" /\ caller \in {"ena", "ext", "som"}
InHandler == phase # "none" /\ caller \in {"scyc", "twd"}
Resumed   == phase # "none" /\ caller \in {"ena", "ext"}

PhaseOK ==
  /\ hstack \in Stack /\ phase \in {"none", "nfy", "proc"}
  /\ phase = "none" \/ Held \/ InHandler
  /\ phase = "none" => hstack # <<"high">>
  /\ intnest <=> hstack # << >>
  /\ Held => /\ ~dspflg /\ ipm /\ enadsp /\ ~lock /\ runtsk # NULL
             /\ hstack \in {<< >>, <<"high">>}
             /\ phase = "proc" => hstack = << >>
  /\ InHandler => dspflg /\ hstack \notin {<< >>, <<"high">>}

\* The mode, the window, the scheduling units and what counts and ends the
\* window agree in w; ps and pt: the end of the cycle, of the window, is pending.
WindowOK(w, ps, pt) ==
  /\ w.runtwd # 0 => w.cursom # NULL /\ w.runtwd <= Len(Windows[w.cursom])
  /\ w.scycreg <=> w.cursom # NULL /\ ~ps
  /\ w.timer.enable <=> w.runtwd # 0 /\ ~pt
  /\ IF w.cursom = NULL
     THEN w.runtwd = 0 /\ w.k.twdsched = KERNEL /\ w.k.idlesched = KERNEL
     ELSE /\ w.k.idlesched = IDLE
          /\ w.k.twdsched = IF w.runtwd = 0 THEN IDLE ELSE Windows[w.cursom][w.runtwd].dom

\* What is pending is carried out by the switch that it has begun.
PendScyc == pendscyc /\ ~Resumed
PendTwd  == pendtwd /\ ~Resumed

PendingOK ==
  /\ Sw \in SwState /\ WindowOK(Sw, PendScyc, PendTwd)
  /\ PendTwd => runtwd # 0 /\ timer.left = 0 /\ ~timer.flag
  /\ dspflg \/ (Held /\ caller = "som") => ~pendscyc /\ ~pendtwd

\* In a handler the timer counts only for a window that has just begun.
TimerOK == intnest /\ timer.enable /\ timer.flag => timer.left > 0

\* Outside a switch p_schedtsk is right; chg_som starts the first cycle only
\* while no task is to end.
SelectOK ==
  /\ phase = "none" => SchedtskExact(K)
  /\ Held /\ caller = "som" => \A v \in Task : ~MustEnd(tcb[v])

\* The inductive invariant.
TpInv ==
  /\ IInv /\ SInv /\ PhaseOK /\ PendingOK /\ TimerOK /\ UserTimeIsCounted /\ SelectOK

-----------------------------------------------------------------------------
(* The window timer. *)

\* Starting and stopping the timer, and following a dispatch, do not change
\* whether it is wanted; it counts afterwards if it must.
LEMMA TimerFacts ==
  ASSUME NEW tm \in TimerState, NEW t
  PROVE  /\ TwdtimerStart(tm) \in TimerState /\ TwdtimerStop(tm) \in TimerState
         /\ TwdtimerStart(tm).enable = tm.enable /\ TwdtimerStart(tm).flag = TRUE
         /\ TwdtimerStart(tm).left = tm.left
         /\ TwdtimerStop(tm).enable = tm.enable /\ TwdtimerStop(tm).flag = FALSE
         /\ TimerFor(tm, t) \in TimerState
         /\ TimerFor(tm, t).enable = tm.enable
         /\ ~tm.enable => TimerFor(tm, t) = tm
         /\ tm.enable /\ (t = NULL \/ UnitOf[t] # KERNEL) => TimerFor(tm, t).flag = TRUE
<1>1. MaxNat(tm.left, 1) \in Nat
  BY DEF MaxNat, TimerState
<1>2. /\ TwdtimerStart(tm) \in TimerState /\ TwdtimerStart(tm).enable = tm.enable
      /\ TwdtimerStart(tm).flag = TRUE /\ TwdtimerStart(tm).left = tm.left
  BY <1>1 DEF TwdtimerStart, TimerState
<1>3. /\ TwdtimerStop(tm) \in TimerState /\ TwdtimerStop(tm).enable = tm.enable
      /\ TwdtimerStop(tm).flag = FALSE
  BY DEF TwdtimerStop, TimerState
<1> QED
  BY <1>2, <1>3 DEF TimerFor, IfEnabled

-----------------------------------------------------------------------------
(* twd_start and scyc_start. *)

\* z differs from the kernel state k in the scheduling units at most.
MovedUnits(k, z) ==
  /\ z \in KState /\ z.tcb = k.tcb /\ z.ready = k.ready /\ z.primap = k.primap
  /\ z.predtsk = k.predtsk /\ z.wque = k.wque /\ z.tmevt = k.tmevt
  /\ z.runtsk = k.runtsk /\ z.schedtsk = k.schedtsk /\ z.dspflg = k.dspflg

\* In z a window, the idle window or no mode at all has begun after w.
SwitchTo(w, z) ==
  /\ z \in SwState /\ MovedUnits(w.k, z.k)
  /\ z.pendscyc = w.pendscyc /\ (z.pendtwd => w.pendtwd)
  /\ WindowOK(z, FALSE, FALSE)
  /\ z.timer.enable => z.timer.flag /\ z.timer.left > 0

\* The parts of the state of a switch.
LEMMA SwParts ==
  ASSUME NEW w \in SwState
  PROVE  /\ w.k \in KState /\ w.cursom \in Som \union {NULL} /\ w.nxtsom \in Som \union {NULL}
         /\ w.runtwd \in Nat /\ w.scycreg \in BOOLEAN /\ w.timer \in TimerState
         /\ w.pendscyc \in BOOLEAN /\ w.pendtwd \in BOOLEAN
BY DEF SwState

\* A window is an element of the table of its mode.
LEMMA WindowFacts ==
  ASSUME NEW m \in Som, NEW i \in Nat, i # 0, i <= Len(Windows[m])
  PROVE  /\ Windows[m][i].dom \in Unit /\ Windows[m][i].dom # KERNEL
         /\ Windows[m][i].dom # IDLE
         /\ Windows[m][i].twdlen \in Nat /\ Windows[m][i].twdlen > 0
<1> DEFINE W == [dom: Unit \ {KERNEL, IDLE}, twdlen: Nat \ {0}, nfyhdr: BOOLEAN]
           q == Windows[m]
<1>1. q \in Seq(W)
  BY PartitionAssumption
<1>2. i \in 1..Len(q)
  <2>1. Len(q) \in Nat
    BY <1>1
  <2> HIDE DEF q
  <2> QED
    BY <2>1 DEF q
<1>3. q[i] \in W
  <2> HIDE DEF q, W
  <2> QED
    BY <1>1, <1>2
<1> QED
  BY <1>3

\* Moving the scheduling units of a kernel state.
WithUnits(k, u, v) == [[k EXCEPT !.twdsched = u] EXCEPT !.idlesched = v]

\* It changes nothing else.
LEMMA UnitsMove ==
  ASSUME NEW k \in KState, NEW u \in Unit, NEW v \in Unit
  PROVE  LET z == WithUnits(k, u, v)
         IN  z \in KState /\ MovedUnits(k, z) /\ z.twdsched = u /\ z.idlesched = v
BY DEF WithUnits, MovedUnits, KState

\* twd_start begins the window or, after the last one, the idle window.
LEMMA TwdStartSwitches ==
  ASSUME NEW w \in SwState, w.cursom \in Som, w.runtwd # 0, w.scycreg
  PROVE  /\ SwitchTo(w, TwdStart(w))
         /\ TwdStart(w).runtwd =
              IF w.runtwd <= Len(Windows[w.cursom]) THEN w.runtwd ELSE 0
<1> DEFINE z == TwdStart(w)
<1>1. /\ w.k \in KState /\ w.runtwd \in Nat /\ w.timer \in TimerState
      /\ w.cursom # NULL /\ KERNEL \in Unit /\ IDLE \in Unit
  BY SwParts, PartitionAssumption, KernelAssumption
<1>2. CASE w.runtwd <= Len(Windows[w.cursom])
  <2> DEFINE d  == Windows[w.cursom][w.runtwd].dom
             n  == Windows[w.cursom][w.runtwd].twdlen
             kz == WithUnits(w.k, d, IDLE)
             t1 == [[w.timer EXCEPT !.enable = TRUE] EXCEPT !.left = n]
             tz == TwdtimerStart(t1)
  <2>1. d \in Unit /\ n \in Nat /\ n > 0
    BY <1>1, <1>2, WindowFacts
  <2> HIDE DEF d, n
  <2>2. MovedUnits(w.k, kz) /\ kz.twdsched = d /\ kz.idlesched = IDLE /\ kz \in KState
    BY <1>1, <2>1, UnitsMove
  <2>3. t1 \in TimerState /\ t1.enable = TRUE /\ t1.left = n
    BY <1>1, <2>1 DEF TimerState
  <2> HIDE DEF t1
  <2>4. tz \in TimerState /\ tz.enable = TRUE /\ tz.flag = TRUE /\ tz.left = n
    BY <2>3, TimerFacts
  <2>5. z = [[w EXCEPT !.k = kz] EXCEPT !.timer = tz]
    BY <1>2 DEF TwdStart, Current, WithUnits, SwState, KState, TimerState, d, n, t1
  <2> HIDE DEF z, kz, tz
  <2>6. /\ z \in SwState /\ z.k = kz /\ z.timer = tz /\ z.cursom = w.cursom
        /\ z.runtwd = w.runtwd /\ z.scycreg = w.scycreg
        /\ z.pendscyc = w.pendscyc /\ z.pendtwd = w.pendtwd
    BY <2>2, <2>4, <2>5 DEF SwState
  <2>7. WindowOK(z, FALSE, FALSE)
    BY <1>1, <1>2, <2>2, <2>4, <2>6 DEF WindowOK, d
  <2> QED
    BY <1>2, <2>1, <2>2, <2>4, <2>6, <2>7 DEF SwitchTo, z
<1>3. CASE ~(w.runtwd <= Len(Windows[w.cursom]))
  <2> DEFINE kz == WithUnits(w.k, IDLE, IDLE)
             tz == [w.timer EXCEPT !.enable = FALSE]
  <2>1. MovedUnits(w.k, kz) /\ kz.twdsched = IDLE /\ kz.idlesched = IDLE /\ kz \in KState
    BY <1>1, UnitsMove
  <2>2. tz \in TimerState /\ tz.enable = FALSE
    BY <1>1 DEF TimerState
  <2>3. z = [[[w EXCEPT !.runtwd = 0] EXCEPT !.k = kz] EXCEPT !.timer = tz]
    BY <1>3 DEF TwdStart, WithUnits, SwState, KState, TimerState
  <2> HIDE DEF z, kz, tz
  <2>4. /\ z \in SwState /\ z.k = kz /\ z.timer = tz /\ z.cursom = w.cursom
        /\ z.runtwd = 0 /\ z.scycreg = w.scycreg
        /\ z.pendscyc = w.pendscyc /\ z.pendtwd = w.pendtwd
    BY <2>1, <2>2, <2>3 DEF SwState
  <2>5. WindowOK(z, FALSE, FALSE)
    BY <1>1, <2>1, <2>2, <2>4 DEF WindowOK
  <2> QED
    BY <1>3, <2>1, <2>2, <2>4, <2>5 DEF SwitchTo, z
<1> QED
  BY <1>2, <1>3

\* The next window is the next one of the table, or the idle window.
LEMMA NextTwdSwitches ==
  ASSUME NEW w \in SwState, w.cursom \in Som, w.scycreg
  PROVE  /\ SwitchTo(w, NextTwd(w))
         /\ NextTwd(w).runtwd =
              IF w.runtwd < Len(Windows[w.cursom]) THEN w.runtwd + 1 ELSE 0
<1> DEFINE n == w.runtwd + 1
           x == [w EXCEPT !.runtwd = n]
<1>1. w.runtwd \in Nat /\ n \in Nat /\ n # 0
  BY SwParts
<1>2. NextTwd(w) = TwdStart(x)
  BY DEF NextTwd
<1> HIDE DEF n
<1>3. /\ x \in SwState /\ x.cursom = w.cursom /\ x.scycreg = w.scycreg /\ x.k = w.k
      /\ x.runtwd = n /\ x.pendscyc = w.pendscyc /\ x.pendtwd = w.pendtwd
  BY <1>1 DEF SwState
<1> HIDE DEF x
<1>4. /\ SwitchTo(x, TwdStart(x))
      /\ TwdStart(x).runtwd = IF x.runtwd <= Len(Windows[x.cursom]) THEN x.runtwd ELSE 0
  BY <1>1, <1>3, TwdStartSwitches
<1>5. SwitchTo(w, TwdStart(x))
  BY <1>3, <1>4 DEF SwitchTo
<1>6. Len(Windows[w.cursom]) \in Nat
  BY PartitionAssumption
<1>7. n = w.runtwd + 1 /\ (n <= Len(Windows[w.cursom]) <=> w.runtwd < Len(Windows[w.cursom]))
  BY <1>1, <1>6 DEF n
<1> QED
  BY <1>3, <1>2, <1>4, <1>5, <1>7

\* A system cycle begins with the first window of its mode; after chg_som of
\* TSOM_STP there is no mode.
LEMMA ScycStartSwitches ==
  ASSUME NEW w \in SwState, ~w.scycreg
  PROVE  SwitchTo(w, ScycStart(w))
<1> DEFINE tm == IF w.runtwd # 0 THEN TwdtimerStop(w.timer) ELSE w.timer
           pt == IF w.runtwd # 0 THEN FALSE ELSE w.pendtwd
           w1 == [[[w EXCEPT !.timer = tm] EXCEPT !.pendtwd = pt] EXCEPT !.cursom = w.nxtsom]
           z  == ScycStart(w)
<1>1. /\ w.k \in KState /\ w.nxtsom \in Som \union {NULL} /\ w.timer \in TimerState
      /\ w.pendtwd \in BOOLEAN /\ KERNEL \in Unit
  BY SwParts, KernelAssumption
<1>2. tm \in TimerState /\ pt \in BOOLEAN /\ (pt => w.pendtwd)
  BY <1>1, TimerFacts
<1>3. z = IF w.nxtsom = NULL
          THEN [w1 EXCEPT !.k.twdsched = KERNEL, !.k.idlesched = KERNEL,
                          !.runtwd = 0, !.timer.enable = FALSE]
          ELSE TwdStart([w1 EXCEPT !.scycreg = TRUE, !.runtwd = 1])
  BY DEF ScycStart, SwState
<1> HIDE DEF tm, pt, z
<1>4. /\ w1 \in SwState /\ w1.k = w.k /\ w1.timer = tm /\ w1.cursom = w.nxtsom
      /\ w1.scycreg = w.scycreg /\ w1.pendscyc = w.pendscyc /\ w1.pendtwd = pt
  BY <1>1, <1>2 DEF SwState
<1> HIDE DEF w1
<1>5. CASE w.nxtsom = NULL
  <2> DEFINE kz == WithUnits(w1.k, KERNEL, KERNEL)
             tz == [w1.timer EXCEPT !.enable = FALSE]
  <2>1. MovedUnits(w.k, kz) /\ kz.twdsched = KERNEL /\ kz.idlesched = KERNEL /\ kz \in KState
    BY <1>1, <1>4, UnitsMove
  <2>2. tz \in TimerState /\ tz.enable = FALSE
    BY <1>2, <1>4 DEF TimerState
  <2>3. z = [[[w1 EXCEPT !.k = kz] EXCEPT !.runtwd = 0] EXCEPT !.timer = tz]
    BY <1>3, <1>4, <1>5 DEF WithUnits, SwState, KState, TimerState
  <2> HIDE DEF kz, tz
  <2>4. /\ z \in SwState /\ z.k = kz /\ z.timer = tz /\ z.cursom = NULL
        /\ z.runtwd = 0 /\ z.scycreg = w.scycreg
        /\ z.pendscyc = w.pendscyc /\ z.pendtwd = pt
    BY <1>4, <1>5, <2>1, <2>2, <2>3 DEF SwState
  <2>5. WindowOK(z, FALSE, FALSE)
    BY <2>1, <2>2, <2>4 DEF WindowOK
  <2> QED
    BY <1>2, <2>1, <2>2, <2>4, <2>5 DEF SwitchTo, z
<1>6. CASE w.nxtsom # NULL
  <2> DEFINE x == [[w1 EXCEPT !.scycreg = TRUE] EXCEPT !.runtwd = 1]
  <2>1. z = TwdStart(x)
    BY <1>3, <1>6
  <2>2. w1 \in SwState
    BY <1>4
  <2>3. /\ x \in SwState /\ x.k = w1.k /\ x.cursom = w1.cursom /\ x.runtwd = 1
        /\ x.scycreg = TRUE /\ x.pendscyc = w1.pendscyc /\ x.pendtwd = w1.pendtwd
    BY <2>2 DEF SwState
  <2> HIDE DEF x
  <2>4. /\ x \in SwState /\ x.k = w.k /\ x.cursom \in Som /\ x.runtwd # 0 /\ x.scycreg
        /\ x.pendscyc = w.pendscyc /\ x.pendtwd = pt
    BY <1>1, <1>4, <1>6, <2>3
  <2>5. SwitchTo(x, z)
    BY <2>1, <2>4, TwdStartSwitches
  <2> QED
    BY <1>2, <2>4, <2>5 DEF SwitchTo, z
<1> QED
  BY <1>5, <1>6

-----------------------------------------------------------------------------
(* The kernel state in a switch. *)

\* Moving the scheduling units leaves the tasks and the ready queues right.
LEMMA MovedExact ==
  ASSUME NEW k, NEW z, Agree(k, Place(k)), MovedUnits(k, z)
  PROVE  /\ Agree(z, Place(z)) /\ WellTyped(z)
         /\ TasksOK(k) => TasksOK(z)
         /\ RunningOK(k) => RunningOK(z)
<1>1. WellTyped(k)
  BY DEF Agree
<1>2. WellTyped(z)
  BY <1>1 DEF WellTyped, MovedUnits
<1> QED
  BY <1>2, CpuFrame DEF MovedUnits, TasksOK, RunningOK

\* A switch of set_dspflg or chg_som begins with dispatching held off.
LEMMA HeldStartOK ==
  ASSUME IInv, SInv, ~intnest, NEW z, MovedUnits([K EXCEPT !.dspflg = FALSE], z),
         Becomes(z), enadsp' = TRUE, ipm' = TRUE, lock' \in BOOLEAN, intnest' = intnest
  PROVE  IInv' /\ SInv' /\ runtsk' = runtsk /\ tcb' = tcb /\ dspflg' = FALSE
<1> DEFINE s == [K EXCEPT !.dspflg = FALSE]
<1>1. /\ WellTyped(K) /\ Agree(K, Place(K)) /\ TasksOK(K) /\ RunningOK(K)
      /\ K.tcb = tcb /\ K.runtsk = runtsk /\ K.schedtsk = schedtsk /\ runtsk = schedtsk
      /\ intnest \in BOOLEAN
  BY DEF IInv, SInv, K, RunsWhatIsScheduled, TypeOK
<1>2. /\ WellTyped(s) /\ s.dspflg = FALSE /\ s.runtsk = K.runtsk
      /\ s.tcb = K.tcb /\ s.ready = K.ready /\ s.primap = K.primap
      /\ s.predtsk = K.predtsk /\ s.tmevt = K.tmevt /\ s.schedtsk = K.schedtsk
  BY <1>1 DEF WellTyped, KState
<1> HIDE DEF s
<1>3. Agree(s, Place(s)) /\ TasksOK(s) /\ RunningOK(s)
  BY <1>1, <1>2, CpuFrame DEF TasksOK, RunningOK
<1>4. Agree(z, Place(z)) /\ WellTyped(z) /\ TasksOK(z) /\ RunningOK(z)
  BY <1>3, MovedExact DEF s
<1>5. /\ z.tcb = tcb /\ z.runtsk = runtsk /\ z.schedtsk = schedtsk /\ z.dspflg = FALSE
  BY <1>1, <1>2 DEF MovedUnits, s
<1>6. K' = z
  BY <1>4, BecomesK
<1>7. /\ tcb' = tcb /\ runtsk' = runtsk /\ schedtsk' = schedtsk /\ dspflg' = FALSE
  BY <1>5 DEF Becomes
<1>8. RequestsOK(z)
  <2> SUFFICES ASSUME NEW v \in Task, MustEnd(tcb[v]) PROVE v = runtsk
    BY <1>5 DEF RequestsOK
  <2> QED
    BY <1>1 DEF SInv, RequestsOK
<1>9. SchedtskExact(z)
  BY <1>5 DEF SchedtskExact
<1>10. SInv'
  BY <1>4, <1>6, <1>8, <1>9 DEF SInv
<1>11. IInv'
  BY <1>1, <1>4, <1>6, <1>7 DEF IInv, TypeOK, WellTyped, DspflgExact,
                                  RunsWhatIsScheduled, HeldRuns
<1> QED
  BY <1>7, <1>10, <1>11

\* A switch of a timer handler begins: p_schedtsk may be out of date until its end.
LEMMA HandlerStartOK ==
  ASSUME IInv, SInv, intnest, dspflg, NEW z, MovedUnits(K, z), Becomes(z), UNCHANGED cpuvars
  PROVE  IInv' /\ SInv' /\ runtsk' = runtsk /\ tcb' = tcb /\ dspflg' = dspflg
<1>1. /\ WellTyped(K) /\ Agree(K, Place(K)) /\ TasksOK(K) /\ RunningOK(K)
      /\ K.tcb = tcb /\ K.runtsk = runtsk /\ K.dspflg = dspflg
      /\ intnest' = intnest /\ enadsp' = enadsp /\ ipm' = ipm /\ lock' = lock
  BY DEF IInv, SInv, K, cpuvars
<1>2. Agree(z, Place(z)) /\ WellTyped(z) /\ TasksOK(z) /\ RunningOK(z)
  BY <1>1, MovedExact
<1>3. /\ z.tcb = tcb /\ z.runtsk = runtsk /\ z.dspflg = dspflg
  BY <1>1 DEF MovedUnits
<1>4. K' = z
  BY <1>2, BecomesK
<1>5. tcb' = tcb /\ runtsk' = runtsk /\ dspflg' = dspflg
  BY <1>3 DEF Becomes
<1>6. RequestsOK(z)
  BY <1>1, <1>3 DEF SInv, RequestsOK
<1>7. SInv'
  BY <1>1, <1>2, <1>4, <1>6 DEF SInv
<1>8. IInv'
  BY <1>1, <1>2, <1>4, <1>5 DEF IInv, TypeOK, WellTyped, DspflgExact,
                                  RunsWhatIsScheduled, HeldRuns
<1> QED
  BY <1>5, <1>7, <1>8

-----------------------------------------------------------------------------
(* The beginning of a switch. *)

\* The part of the state that a switch changes, by its fields.
LEMMA SwFields ==
  /\ Sw.k = K /\ Sw.cursom = cursom /\ Sw.nxtsom = nxtsom /\ Sw.runtwd = runtwd
  /\ Sw.scycreg = scycreg /\ Sw.pendscyc = pendscyc /\ Sw.pendtwd = pendtwd
  /\ Sw.timer = timer
BY DEF Sw

\* The variables become the fields of the new state.
LEMMA SwNow ==
  ASSUME NEW z \in SwState, WellTyped(z.k), SwBecomes(z)
  PROVE  /\ Sw' = z /\ K' = z.k
         /\ runtwd' = z.runtwd /\ cursom' = z.cursom /\ timer' = z.timer
         /\ scycreg' = z.scycreg /\ pendscyc' = z.pendscyc /\ pendtwd' = z.pendtwd
<1>1. K' = z.k
  BY BecomesK DEF SwBecomes
<1>2. /\ cursom' = z.cursom /\ nxtsom' = z.nxtsom /\ runtwd' = z.runtwd
      /\ scycreg' = z.scycreg /\ pendscyc' = z.pendscyc /\ pendtwd' = z.pendtwd
      /\ timer' = z.timer
  BY DEF SwBecomes
<1>3. Sw' = [k |-> z.k, cursom |-> z.cursom, nxtsom |-> z.nxtsom, runtwd |-> z.runtwd,
             scycreg |-> z.scycreg, pendscyc |-> z.pendscyc, pendtwd |-> z.pendtwd,
             timer |-> z.timer]
  BY <1>1, <1>2 DEF Sw
<1>4. z = [k |-> z.k, cursom |-> z.cursom, nxtsom |-> z.nxtsom, runtwd |-> z.runtwd,
           scycreg |-> z.scycreg, pendscyc |-> z.pendscyc, pendtwd |-> z.pendtwd,
           timer |-> z.timer]
  BY DEF SwState
<1> QED
  BY <1>1, <1>2, <1>3, <1>4

\* A switch in a task begins, on behalf of set_dspflg or of chg_som.
LEMMA HeldStartInv ==
  ASSUME TpInv, phase = "none", ~intnest, runtsk # NULL,
         NEW c \in {"ena", "ext", "som"}, NEW w \in SwState, NEW z,
         w.k = [K EXCEPT !.dspflg = FALSE],
         c = "som" => dspflg /\ ~w.pendscyc /\ ~w.pendtwd,
         SwitchTo(w, z), Start(z, c),
         enadsp' = TRUE, ipm' = TRUE, lock' = FALSE, intnest' = intnest, hstack' = hstack
  PROVE  TpInv'
<1>1. /\ IInv /\ SInv /\ PhaseOK /\ hstack = << >>
  BY DEF TpInv, PhaseOK
<1>2. /\ z \in SwState /\ MovedUnits([K EXCEPT !.dspflg = FALSE], z.k)
      /\ z.pendscyc = w.pendscyc /\ (z.pendtwd => w.pendtwd)
      /\ WindowOK(z, FALSE, FALSE)
      /\ z.timer.enable => z.timer.flag /\ z.timer.left > 0
  BY DEF SwitchTo
<1>3. /\ SwBecomes(z) /\ Becomes(z.k) /\ phase' \in {"nfy", "proc"} /\ caller' = c
  BY DEF Start, SwBecomes
<1>4. IInv' /\ SInv' /\ runtsk' = runtsk /\ tcb' = tcb /\ dspflg' = FALSE
  BY <1>1, <1>2, <1>3, HeldStartOK
<1>5. WellTyped(z.k)
  <2>1. Agree(K, Place(K)) /\ WellTyped(K)
    BY <1>1 DEF IInv, SInv
  <2>2. WellTyped([K EXCEPT !.dspflg = FALSE])
    BY <2>1 DEF WellTyped, KState
  <2> QED
    BY <1>2, <2>2 DEF WellTyped, MovedUnits
<1>6. /\ Sw' = z /\ runtwd' = z.runtwd /\ cursom' = z.cursom /\ timer' = z.timer
      /\ scycreg' = z.scycreg /\ pendscyc' = z.pendscyc /\ pendtwd' = z.pendtwd
  BY <1>2, <1>3, <1>5, SwNow
<1>7. PhaseOK'
  BY <1>1, <1>3, <1>4 DEF PhaseOK, Held, InHandler, Stack
<1>8. ~PendScyc' /\ ~PendTwd'
  BY <1>2, <1>3, <1>6 DEF PendScyc, PendTwd, Resumed
<1>9. PendingOK'
  BY <1>2, <1>3, <1>4, <1>6, <1>8 DEF PendingOK, WindowOK, Held
<1>10. TimerOK' /\ UserTimeIsCounted'
  BY <1>2, <1>6 DEF TimerOK, UserTimeIsCounted
<1>11. SelectOK'
  <2>1. c = "som" => \A v \in Task : ~MustEnd(tcb[v])
    BY <1>1 DEF SInv, RequestsOK, K
  <2> QED
    BY <1>3, <1>4, <2>1 DEF SelectOK, Held
<1> QED
  BY <1>4, <1>7, <1>9, <1>10, <1>11 DEF TpInv

\* A switch in a timer handler begins.
LEMMA HandlerStartInv ==
  ASSUME TpInv, phase = "none", dspflg, hstack \notin {<< >>, <<"high">>},
         hstack' \in Stack \ {<< >>, <<"high">>},
         NEW c \in {"scyc", "twd"}, NEW w \in SwState, NEW z,
         w.k = K, ~w.pendscyc, ~w.pendtwd,
         SwitchTo(w, z), Start(z, c), UNCHANGED cpuvars
  PROVE  TpInv'
<1>1. /\ IInv /\ SInv /\ PhaseOK /\ intnest
  BY DEF TpInv, PhaseOK
<1>2. /\ z \in SwState /\ MovedUnits(K, z.k) /\ ~z.pendscyc /\ ~z.pendtwd
      /\ WindowOK(z, FALSE, FALSE)
      /\ z.timer.enable => z.timer.flag /\ z.timer.left > 0
  BY DEF SwitchTo
<1>3. /\ SwBecomes(z) /\ Becomes(z.k) /\ phase' \in {"nfy", "proc"} /\ caller' = c
  BY DEF Start, SwBecomes
<1>4. /\ IInv' /\ SInv' /\ runtsk' = runtsk /\ tcb' = tcb /\ dspflg' = dspflg
  BY <1>1, <1>2, <1>3, HandlerStartOK
<1>5. WellTyped(z.k)
  BY <1>1, <1>2 DEF IInv, WellTyped, MovedUnits
<1>6. /\ Sw' = z /\ runtwd' = z.runtwd /\ cursom' = z.cursom /\ timer' = z.timer
      /\ scycreg' = z.scycreg /\ pendscyc' = z.pendscyc /\ pendtwd' = z.pendtwd
  BY <1>2, <1>3, <1>5, SwNow
<1>7. intnest' = intnest
  BY DEF cpuvars
<1>8. PhaseOK'
  BY <1>1, <1>3, <1>4, <1>7 DEF PhaseOK, Held, InHandler
<1>9. ~PendScyc' /\ ~PendTwd'
  BY <1>2, <1>6 DEF PendScyc, PendTwd
<1>10. PendingOK'
  BY <1>2, <1>3, <1>4, <1>6, <1>9 DEF PendingOK, WindowOK, Held
<1>11. TimerOK' /\ UserTimeIsCounted'
  BY <1>1, <1>2, <1>6, <1>7 DEF TimerOK, UserTimeIsCounted
<1>12. SelectOK'
  BY <1>3 DEF SelectOK, Held
<1> QED
  BY <1>4, <1>8, <1>10, <1>11, <1>12 DEF TpInv

\* What WindowsInOrder says of one step.
OrderStep ==
  runtwd # 0 /\ runtwd' # runtwd /\ ~pendscyc =>
    \/ scyc_switch
    \/ /\ timer.left = 0 /\ ~timer.flag
       /\ runtwd' = IF runtwd < Len(Windows[cursom]) THEN runtwd + 1 ELSE 0

\* The state in which a held switch begins.
LEMMA HeldSw ==
  ASSUME PendingOK
  PROVE  LET w == [Sw EXCEPT !.k.dspflg = FALSE]
         IN  /\ w \in SwState /\ w.k = [K EXCEPT !.dspflg = FALSE]
             /\ w.cursom = cursom /\ w.runtwd = runtwd /\ w.scycreg = scycreg
             /\ w.pendscyc = pendscyc /\ w.pendtwd = pendtwd
<1>1. Sw \in SwState /\ Sw.k = K /\ K \in KState
  BY SwFields DEF PendingOK, SwState
<1>2. [K EXCEPT !.dspflg = FALSE] \in KState
  BY <1>1 DEF KState
<1> DEFINE kz == [K EXCEPT !.dspflg = FALSE]
<1>3. [Sw EXCEPT !.k.dspflg = FALSE] = [Sw EXCEPT !.k = kz]
  BY <1>1
<1> HIDE DEF kz
<1>4. /\ [Sw EXCEPT !.k = kz] \in SwState /\ [Sw EXCEPT !.k = kz].k = kz
      /\ [Sw EXCEPT !.k = kz].cursom = Sw.cursom /\ [Sw EXCEPT !.k = kz].runtwd = Sw.runtwd
      /\ [Sw EXCEPT !.k = kz].scycreg = Sw.scycreg
      /\ [Sw EXCEPT !.k = kz].pendscyc = Sw.pendscyc
      /\ [Sw EXCEPT !.k = kz].pendtwd = Sw.pendtwd
  BY <1>1, <1>2 DEF SwState, kz
<1> QED
  BY <1>3, <1>4, SwFields DEF kz

\* What the invariant says outside a switch.
LEMMA OutsideSwitch ==
  ASSUME TpInv, phase = "none"
  PROVE  /\ PendScyc = pendscyc /\ PendTwd = pendtwd
         /\ scycreg <=> cursom # NULL /\ ~pendscyc
         /\ timer.enable <=> runtwd # 0 /\ ~pendtwd
         /\ pendtwd => runtwd # 0 /\ timer.left = 0 /\ ~timer.flag
         /\ dspflg => ~pendscyc /\ ~pendtwd
         /\ runtwd # 0 => cursom # NULL /\ runtwd <= Len(Windows[cursom])
         /\ cursom = NULL => runtwd = 0
         /\ cursom \in Som \union {NULL} /\ nxtsom \in Som \union {NULL} /\ runtwd \in Nat
         /\ pendscyc \in BOOLEAN /\ pendtwd \in BOOLEAN /\ scycreg \in BOOLEAN
         /\ timer \in TimerState
<1>1. PendingOK /\ Sw \in SwState /\ WindowOK(Sw, PendScyc, PendTwd)
  BY DEF TpInv, PendingOK
<1>2. /\ cursom \in Som \union {NULL} /\ nxtsom \in Som \union {NULL} /\ runtwd \in Nat
      /\ pendscyc \in BOOLEAN /\ pendtwd \in BOOLEAN /\ scycreg \in BOOLEAN
      /\ timer \in TimerState
  BY <1>1, SwParts, SwFields
<1>3. PendScyc = pendscyc /\ PendTwd = pendtwd
  BY <1>2 DEF PendScyc, PendTwd, Resumed
<1> QED
  BY <1>1, <1>2, <1>3, SwFields DEF PendingOK, WindowOK

\* set_dspflg begins to carry out what is pending.
LEMMA BeginInv ==
  ASSUME TpInv, phase = "none", ~intnest, runtsk # NULL, NEW c \in {"ena", "ext"},
         pendscyc \/ pendtwd, Start(HeldSwitch, c),
         enadsp' = TRUE, ipm' = TRUE, lock' = FALSE, intnest' = intnest, hstack' = hstack
  PROVE  TpInv' /\ OrderStep
<1> DEFINE w == [Sw EXCEPT !.k.dspflg = FALSE]
<1>1. /\ w \in SwState /\ w.k = [K EXCEPT !.dspflg = FALSE]
      /\ w.cursom = cursom /\ w.runtwd = runtwd /\ w.scycreg = scycreg
      /\ w.pendscyc = pendscyc /\ w.pendtwd = pendtwd
  BY HeldSw DEF TpInv
<1>2. HeldSwitch = IF pendscyc THEN ScycStart(w) ELSE NextTwd(w)
  BY DEF HeldSwitch
<1> HIDE DEF w
<1>3. /\ scycreg <=> cursom # NULL /\ ~pendscyc
      /\ pendtwd => runtwd # 0 /\ timer.left = 0 /\ ~timer.flag
      /\ runtwd # 0 => cursom # NULL
      /\ cursom \in Som \union {NULL}
  BY OutsideSwitch
<1>4. /\ SwitchTo(w, HeldSwitch)
      /\ ~pendscyc => HeldSwitch.runtwd =
                        IF runtwd < Len(Windows[cursom]) THEN runtwd + 1 ELSE 0
  <2>1. CASE pendscyc
    BY <1>1, <1>2, <1>3, <2>1, ScycStartSwitches
  <2>2. CASE ~pendscyc
    BY <1>1, <1>2, <1>3, <2>2, NextTwdSwitches
  <2> QED
    BY <2>1, <2>2
<1>5. TpInv'
  BY <1>1, <1>4, HeldStartInv
<1>6. OrderStep
  BY <1>3, <1>4 DEF OrderStep, Start, SwBecomes
<1> QED
  BY <1>5, <1>6

\* chg_som starts the first cycle of a mode.
LEMMA SomStartInv ==
  ASSUME TpInv, phase = "none", TskCtxUnl, NEW m \in Som, cursom = NULL, dspflg,
         Start(ScycStart([Sw EXCEPT !.nxtsom = m, !.k.dspflg = FALSE]), "som"),
         ipm' = TRUE, UNCHANGED <<enadsp, lock, intnest, hstack>>
  PROVE  TpInv' /\ OrderStep
<1> DEFINE x == [Sw EXCEPT !.k.dspflg = FALSE]
           w == [x EXCEPT !.nxtsom = m]
<1>1. /\ x \in SwState /\ x.k = [K EXCEPT !.dspflg = FALSE]
      /\ x.scycreg = scycreg /\ x.pendscyc = pendscyc /\ x.pendtwd = pendtwd
  BY HeldSw DEF TpInv
<1>2. [Sw EXCEPT !.nxtsom = m, !.k.dspflg = FALSE] = w
  BY DEF Sw
<1> HIDE DEF x
<1>3. /\ w \in SwState /\ w.k = x.k /\ w.scycreg = x.scycreg
      /\ w.pendscyc = x.pendscyc /\ w.pendtwd = x.pendtwd
  BY <1>1 DEF SwState
<1> HIDE DEF w
<1>4. ~scycreg /\ ~pendscyc /\ ~pendtwd /\ runtwd = 0
  BY OutsideSwitch
<1>5. SwitchTo(w, ScycStart(w))
  BY <1>1, <1>3, <1>4, ScycStartSwitches
<1>6. ~intnest /\ runtsk # NULL /\ lock' = FALSE /\ enadsp' = TRUE
  BY DEF TskCtxUnl, TpInv, IInv, TypeOK, DspflgExact
<1>7. TpInv'
  BY <1>1, <1>2, <1>3, <1>4, <1>5, <1>6, HeldStartInv
<1> QED
  BY <1>4, <1>7 DEF OrderStep

\* A sequence of two.
LEMMA TwoElements ==
  ASSUME NEW S, NEW h \in S, NEW g \in S
  PROVE  <<h>> \o <<g>> = <<h, g>>
<1> DEFINE x == <<h>> \o <<g>>
           y == <<h, g>>
<1>1. y \in Seq(S) /\ Len(y) = 2 /\ y[1] = h /\ y[2] = g
  OBVIOUS
<1>2. x \in Seq(S) /\ Len(x) = 2 /\ x[1] = h /\ x[2] = g
  OBVIOUS
<1> HIDE DEF x, y
<1>3. \A i \in 1..2 : i = 1 \/ i = 2
  OBVIOUS
<1>4. \A i \in 1..2 : x[i] = y[i]
  BY <1>1, <1>2, <1>3
<1>5. x = y
  BY <1>1, <1>2, <1>4
<1> QED
  BY <1>5 DEF x, y

\* A handler of a timer is on top of the stack.
LEMMA HandlerFacts ==
  ASSUME PhaseOK, NEW h \in TimerHandler, Handler = h
  PROVE  /\ hstack \notin {<< >>, <<"high">>} /\ intnest
         /\ <<"done">> \o Tail(hstack) \in Stack \ {<< >>, <<"high">>}
<1>1. hstack \in Stack /\ hstack # << >> /\ Head(hstack) = h
  BY DEF PhaseOK, Handler, TimerHandler
<1>2. hstack = <<h>> \/ hstack = <<h, "low">>
  <2>1. /\ Head(<<"low">>) = "low" /\ Head(<<"high">>) = "high"
        /\ \A g : Head(<<g>>) = g /\ Head(<<g, "low">>) = g
    OBVIOUS
  <2>2. "low" \notin TimerHandler /\ "high" \notin TimerHandler
    BY DEF TimerHandler
  <2> QED
    BY <1>1, <2>1, <2>2 DEF Stack
<1>3. /\ Tail(<<h>>) = << >> /\ Tail(<<h, "low">>) = <<"low">>
      /\ <<"done">> \o << >> = <<"done">> /\ <<"done">> \o <<"low">> = <<"done", "low">>
  <2>1. Tail(<<h>>) = << >> /\ Tail(<<h, "low">>) = <<"low">> /\ <<"done">> \o << >> = <<"done">>
    OBVIOUS
  <2>2. \A d, e \in {"done", "low"} : <<d>> \o <<e>> = <<d, e>>
    BY TwoElements
  <2>3. <<"done">> \o <<"low">> = <<"done", "low">>
    BY <2>2
  <2> QED
    BY <2>1, <2>3
<1>4. <<"done">> # <<"high">>
  <2>1. <<"done">>[1] # <<"high">>[1]
    OBVIOUS
  <2> QED
    BY <2>1
<1>5. <<"done">> # << >> /\ <<"done", "low">> # << >> /\ <<"done", "low">> # <<"high">>
  BY DEF TimerHandler
<1>6. <<h>> # <<"high">> /\ <<h, "low">> # <<"high">>
  BY DEF TimerHandler
<1> QED
  BY <1>1, <1>2, <1>3, <1>4, <1>5, <1>6 DEF PhaseOK, Stack, TimerHandler

\* A step that leaves the kernel alone.
LEMMA KernelSame ==
  ASSUME IInv, SInv, UNCHANGED vars
  PROVE  IInv' /\ SInv' /\ K' = K /\ tcb' = tcb /\ runtsk' = runtsk /\ dspflg' = dspflg
         /\ intnest' = intnest /\ enadsp' = enadsp /\ ipm' = ipm /\ lock' = lock
<1>1. IInv'
  BY NextOK
<1>2. SInv'
  BY UnchangedExact DEF SStep, vars, cpuvars
<1> QED
  BY <1>1, <1>2 DEF vars, kvars, cpuvars, K

\* The end of a system cycle in the handler of the high resolution timer.
LEMMA ScycSwitchInv ==
  ASSUME TpInv, scyc_switch
  PROVE  TpInv' /\ OrderStep
<1>1. /\ Handler = "hrt" /\ phase = "none" /\ scycreg /\ UNCHANGED <<cpuvars, hstack>>
  BY DEF scyc_switch
<1>2. /\ hstack \notin {<< >>, <<"high">>} /\ PhaseOK /\ hstack' = hstack /\ IInv /\ SInv
  BY <1>1, HandlerFacts DEF TpInv, TimerHandler
<1>3. CASE dspflg
  <2> DEFINE w == [Sw EXCEPT !.scycreg = FALSE]
  <2>1. Sw \in SwState
    BY DEF TpInv, PendingOK
  <2>2. /\ w \in SwState /\ w.k = K /\ ~w.scycreg
        /\ w.pendscyc = pendscyc /\ w.pendtwd = pendtwd
    BY <2>1, SwFields DEF SwState
  <2>3. Start(ScycStart(w), "scyc")
    BY <1>3 DEF scyc_switch
  <2> HIDE DEF w
  <2>4. SwitchTo(w, ScycStart(w))
    BY <2>2, ScycStartSwitches
  <2>5. ~pendscyc /\ ~pendtwd
    BY <1>1, <1>3, OutsideSwitch
  <2>6. hstack' \in Stack \ {<< >>, <<"high">>}
    BY <1>2 DEF PhaseOK
  <2>7. UNCHANGED cpuvars
    BY <1>1
  <2> QED
    BY <1>1, <1>2, <1>3, <2>2, <2>3, <2>4, <2>5, <2>6, <2>7, HandlerStartInv DEF OrderStep
<1>4. CASE ~dspflg
  <2>1. /\ pendscyc' = TRUE /\ scycreg' = FALSE
        /\ UNCHANGED <<kvars, cursom, nxtsom, runtwd, pendtwd, timer, phase, caller>>
    BY <1>4 DEF scyc_switch
  <2>2. IInv' /\ SInv' /\ K' = K /\ tcb' = tcb /\ runtsk' = runtsk /\ dspflg' = dspflg
        /\ intnest' = intnest
    BY <1>1, <1>2, <2>1, KernelSame DEF vars
  <2>3. PhaseOK'
    BY <1>1, <1>2, <2>1, <2>2 DEF PhaseOK, Held, InHandler
  <2>4. PendingOK'
    <3>1. /\ K \in KState /\ cursom \in Som \union {NULL} /\ nxtsom \in Som \union {NULL}
          /\ runtwd \in Nat /\ pendtwd \in BOOLEAN /\ timer \in TimerState
      BY SwFields, SwParts DEF TpInv, PendingOK
    <3>2. Sw' \in SwState
      BY <2>1, <2>2, <3>1 DEF Sw, SwState
    <3>3. PendScyc' /\ (PendTwd' <=> PendTwd)
      BY <1>1, <2>1 DEF PendScyc, PendTwd, Resumed
    <3>4. /\ Sw'.k = K /\ Sw'.cursom = cursom /\ Sw'.runtwd = runtwd
          /\ Sw'.scycreg = FALSE /\ Sw'.timer = timer
      BY <2>1, <2>2 DEF Sw
    <3>5. WindowOK(Sw', PendScyc', PendTwd')
      BY <3>3, <3>4, SwFields DEF TpInv, PendingOK, WindowOK
    <3> QED
      BY <1>1, <1>4, <2>1, <2>2, <3>2, <3>3, <3>5 DEF TpInv, PendingOK, Held
  <2>5. TimerOK' /\ UserTimeIsCounted' /\ SelectOK'
    BY <1>1, <2>1, <2>2 DEF TpInv, TimerOK, UserTimeIsCounted, SelectOK, Held
  <2> QED
    BY <2>1, <2>2, <2>3, <2>4, <2>5 DEF TpInv, OrderStep
<1> QED
  BY <1>3, <1>4

\* The fields of the part that a switch changes have their types.
LEMMA SwTypes ==
  ASSUME TpInv
  PROVE  /\ Sw \in SwState /\ K \in KState
         /\ cursom \in Som \union {NULL} /\ nxtsom \in Som \union {NULL}
         /\ runtwd \in Nat /\ scycreg \in BOOLEAN /\ pendscyc \in BOOLEAN
         /\ pendtwd \in BOOLEAN /\ timer \in TimerState
BY SwFields, SwParts DEF TpInv, PendingOK

\* The end of a window in the handler of its timer: after it the handler is done.
LEMMA TwdSwitchInv ==
  ASSUME TpInv, twd_switch
  PROVE  TpInv' /\ OrderStep
<1>1. /\ Handler = "twd" /\ phase = "none" /\ UNCHANGED cpuvars
      /\ hstack' = <<"done">> \o Tail(hstack)
  BY DEF twd_switch
<1>2. /\ hstack \notin {<< >>, <<"high">>} /\ intnest /\ PhaseOK /\ IInv /\ SInv
      /\ hstack' \in Stack \ {<< >>, <<"high">>}
  BY <1>1, HandlerFacts DEF TpInv, TimerHandler
<1>3. CASE timer.enable /\ timer.left = 0 /\ dspflg /\ Start(NextTwd(Sw), "twd")
  <2>1. /\ runtwd # 0 /\ cursom \in Som /\ scycreg /\ ~pendscyc /\ ~pendtwd
    BY <1>1, <1>3, OutsideSwitch
  <2>2. /\ SwitchTo(Sw, NextTwd(Sw))
        /\ NextTwd(Sw).runtwd = IF runtwd < Len(Windows[cursom]) THEN runtwd + 1 ELSE 0
    BY <2>1, SwTypes, SwFields, NextTwdSwitches
  <2>3. Sw \in SwState /\ Sw.k = K /\ ~Sw.pendscyc /\ ~Sw.pendtwd
    BY <2>1, SwTypes, SwFields
  <2>4. UNCHANGED cpuvars
    BY <1>1
  <2>5. Start(NextTwd(Sw), "twd") /\ dspflg
    BY <1>3
  <2>6. TpInv'
    BY <1>1, <1>2, <2>2, <2>3, <2>4, <2>5, HandlerStartInv
  <2>7. timer.left = 0 /\ ~timer.flag
    BY <1>2, <1>3 DEF TpInv, TimerOK
  <2>8. runtwd' = NextTwd(Sw).runtwd
    BY <2>5 DEF Start, SwBecomes
  <2> QED
    BY <2>2, <2>6, <2>7, <2>8 DEF OrderStep
<1>4. CASE /\ timer.enable /\ timer.left = 0 /\ ~dspflg
           /\ pendtwd' = TRUE /\ timer' = [timer EXCEPT !.enable = FALSE]
           /\ UNCHANGED <<kvars, cursom, nxtsom, runtwd, scycreg, pendscyc, phase, caller>>
  <2>1. /\ IInv' /\ SInv' /\ K' = K /\ tcb' = tcb /\ runtsk' = runtsk /\ dspflg' = dspflg
        /\ intnest' = intnest
    BY <1>1, <1>2, <1>4, KernelSame DEF vars
  <2>2. PhaseOK'
    BY <1>1, <1>2, <1>4, <2>1 DEF PhaseOK, Held, InHandler
  <2>3. /\ timer \in TimerState /\ timer.enable = TRUE /\ timer.left = 0 /\ ~timer.flag
    BY <1>2, <1>4, SwTypes DEF TpInv, TimerOK, TimerState
  <2>4. /\ timer' \in TimerState /\ timer'.enable = FALSE /\ timer'.left = 0 /\ ~timer'.flag
    BY <1>4, <2>3 DEF TimerState
  <2>5. PendingOK'
    <3>1. Sw' \in SwState
      BY <1>4, <2>1, <2>4, SwTypes DEF Sw, SwState
    <3>2. (PendScyc' <=> PendScyc) /\ PendTwd'
      BY <1>1, <1>4 DEF PendScyc, PendTwd, Resumed
    <3>3. /\ Sw'.k = K /\ Sw'.cursom = cursom /\ Sw'.runtwd = runtwd
          /\ Sw'.scycreg = scycreg /\ Sw'.timer.enable = FALSE
      BY <1>4, <2>1, <2>4 DEF Sw
    <3>4. runtwd # 0
      BY <1>1, <1>4, OutsideSwitch
    <3>5. WindowOK(Sw', PendScyc', PendTwd')
      BY <3>2, <3>3, <3>4, SwFields DEF TpInv, PendingOK, WindowOK
    <3> QED
      BY <1>1, <1>4, <2>1, <2>4, <3>1, <3>4, <3>5 DEF PendingOK, Held
  <2>6. TimerOK' /\ UserTimeIsCounted' /\ SelectOK'
    BY <1>1, <1>4, <2>1, <2>4 DEF TpInv, TimerOK, UserTimeIsCounted, SelectOK, Held
  <2> QED
    BY <1>4, <2>1, <2>2, <2>5, <2>6 DEF TpInv, OrderStep
<1>5. CASE UNCHANGED <<kvars, swvars, timer, phase, caller>>
  <2>1. /\ IInv' /\ SInv' /\ K' = K /\ tcb' = tcb /\ runtsk' = runtsk /\ dspflg' = dspflg
        /\ intnest' = intnest
    BY <1>1, <1>2, <1>5, KernelSame DEF vars
  <2>2. PhaseOK'
    BY <1>1, <1>2, <1>5, <2>1 DEF PhaseOK, Held, InHandler
  <2>3. Sw' = Sw
    BY <1>5, <2>1 DEF Sw, swvars
  <2>4. PendingOK'
    BY <1>1, <1>5, <2>1, <2>3 DEF TpInv, PendingOK, PendScyc, PendTwd, Resumed, Held, swvars
  <2>5. TimerOK' /\ UserTimeIsCounted' /\ SelectOK'
    BY <1>1, <1>5, <2>1 DEF TpInv, TimerOK, UserTimeIsCounted, SelectOK, Held
  <2> QED
    BY <1>5, <2>1, <2>2, <2>4, <2>5 DEF TpInv, OrderStep, swvars
<1> QED
  BY <1>3, <1>4, <1>5 DEF twd_switch

-----------------------------------------------------------------------------
(* The steps that neither begin nor end a switch. *)

\* What such a step must show of the handlers, the timer and the kernel.
LEMMA SteadyInv ==
  ASSUME TpInv, IInv', SInv', PhaseOK', TimerOK', UserTimeIsCounted', SelectOK',
         UNCHANGED <<swvars, caller, twdsched, idlesched>>,
         phase' = "none" <=> phase = "none",
         timer' \in TimerState, timer'.enable = timer.enable,
         PendTwd => timer'.left = 0 /\ ~timer'.flag,
         dspflg' => dspflg \/ (~pendscyc /\ ~pendtwd)
  PROVE  TpInv' /\ OrderStep
<1>1. /\ cursom' = cursom /\ nxtsom' = nxtsom /\ runtwd' = runtwd /\ scycreg' = scycreg
      /\ pendscyc' = pendscyc /\ pendtwd' = pendtwd /\ caller' = caller
      /\ twdsched' = twdsched /\ idlesched' = idlesched
  BY DEF swvars
<1>2. /\ Resumed' <=> Resumed
      /\ Held' <=> Held
  BY <1>1 DEF Resumed, Held
<1>3. (PendScyc' <=> PendScyc) /\ (PendTwd' <=> PendTwd)
  BY <1>1, <1>2 DEF PendScyc, PendTwd
<1>4. K' \in KState
  BY DEF IInv, WellTyped
<1>5. Sw' \in SwState
  BY <1>1, <1>4, SwTypes DEF Sw, SwState
<1>6. /\ Sw'.k = K' /\ Sw'.cursom = cursom /\ Sw'.runtwd = runtwd
      /\ Sw'.scycreg = scycreg /\ Sw'.timer = timer'
  BY <1>1 DEF Sw
<1>7. /\ K'.twdsched = K.twdsched /\ K'.idlesched = K.idlesched
  BY <1>1 DEF K
<1>8. WindowOK(Sw', PendScyc', PendTwd')
  BY <1>3, <1>6, <1>7, SwFields DEF TpInv, PendingOK, WindowOK
<1>9. PendingOK'
  BY <1>1, <1>2, <1>3, <1>5, <1>8 DEF TpInv, PendingOK
<1> QED
  BY <1>1, <1>9 DEF TpInv, OrderStep

\* Time passes for the timer.
LEMMA TickInv ==
  ASSUME TpInv, Tick
  PROVE  TpInv' /\ OrderStep
<1>1. /\ UNCHANGED <<vars, swvars, hstack, phase, caller>> /\ timer.flag /\ timer.hw > 0
      /\ timer' = [timer EXCEPT !.hw = @ - 1, !.req = (timer.hw = 1)]
  BY DEF Tick
<1>2. /\ IInv' /\ SInv' /\ K' = K /\ tcb' = tcb /\ runtsk' = runtsk /\ dspflg' = dspflg
      /\ intnest' = intnest /\ enadsp' = enadsp /\ ipm' = ipm /\ lock' = lock
  BY <1>1, KernelSame DEF TpInv
<1>3. timer \in TimerState
  BY SwTypes
<1>4. timer.hw - 1 \in Nat
  BY <1>1, <1>3 DEF TimerState
<1>5. /\ timer' \in TimerState /\ timer'.enable = timer.enable
      /\ timer'.flag = timer.flag /\ timer'.left = timer.left
  BY <1>1, <1>3, <1>4 DEF TimerState
<1>6. PhaseOK'
  BY <1>1, <1>2 DEF TpInv, PhaseOK, Held, InHandler
<1>7. TimerOK' /\ UserTimeIsCounted' /\ SelectOK'
  BY <1>1, <1>2, <1>5 DEF TpInv, TimerOK, UserTimeIsCounted, SelectOK, Held
<1>8. ~PendTwd
  BY <1>1 DEF TpInv, PendingOK
<1>9. UNCHANGED <<swvars, caller, twdsched, idlesched>> /\ phase' = phase
  BY <1>1 DEF vars, kvars
<1> QED
  BY <1>2, <1>5, <1>6, <1>7, <1>8, <1>9, SteadyInv

\* The notification handler returns.
LEMMA NotifyReturnsInv ==
  ASSUME TpInv, NotifyReturns
  PROVE  TpInv' /\ OrderStep
<1>1. /\ UNCHANGED <<vars, swvars, timer, hstack, caller>> /\ phase = "nfy" /\ phase' = "proc"
      /\ caller \in {"scyc", "twd"} \/ ~intnest
  BY DEF NotifyReturns
<1>2. /\ IInv' /\ SInv' /\ K' = K /\ tcb' = tcb /\ runtsk' = runtsk /\ dspflg' = dspflg
      /\ intnest' = intnest /\ enadsp' = enadsp /\ ipm' = ipm /\ lock' = lock
  BY <1>1, KernelSame DEF TpInv
<1>3. PhaseOK'
  BY <1>1, <1>2 DEF TpInv, PhaseOK, Held, InHandler
<1>4. TimerOK' /\ UserTimeIsCounted' /\ SelectOK'
  BY <1>1, <1>2 DEF TpInv, TimerOK, UserTimeIsCounted, SelectOK, Held
<1>5. timer' = timer /\ timer \in TimerState /\ (PendTwd => timer.left = 0 /\ ~timer.flag)
  BY <1>1, SwTypes DEF TpInv, PendingOK
<1>6. UNCHANGED <<swvars, caller, twdsched, idlesched>> /\ (phase' = "none" <=> phase = "none")
  BY <1>1 DEF vars, kvars
<1> QED
  BY <1>2, <1>3, <1>4, <1>5, <1>6, SteadyInv

\* A handler is entered: the outermost one stops the timer.
LEMMA EnterInv ==
  ASSUME TpInv, NEW tm, tm = timer \/ tm = [timer EXCEPT !.req = FALSE],
         hstack' \in Stack, hstack' # << >>,
         phase = "none" => hstack' # <<"high">>,
         phase # "none" => Held /\ phase = "nfy" /\ hstack' = <<"high">>,
         intnest' = TRUE,
         timer' = IF intnest THEN tm ELSE IfEnabled(tm, TwdtimerStop(tm)),
         UNCHANGED <<kvars, enadsp, ipm, lock, swvars, phase, caller>>
  PROVE  TpInv' /\ OrderStep
<1>1. /\ IInv /\ SInv /\ K' = K /\ tcb' = tcb /\ runtsk' = runtsk /\ dspflg' = dspflg
      /\ schedtsk' = schedtsk
      /\ enadsp' = enadsp /\ ipm' = ipm /\ lock' = lock /\ phase' = phase /\ caller' = caller
  BY DEF TpInv, kvars, K
<1>2. IInv'
  BY <1>1 DEF IInv, TypeOK, DspflgExact, RunsWhatIsScheduled, HeldRuns
<1>3. SInv'
  BY <1>1, UnchangedExact DEF SStep
<1>4. timer \in TimerState /\ tm \in TimerState /\ tm.enable = timer.enable
      /\ tm.left = timer.left /\ tm.flag = timer.flag
  BY SwTypes DEF TimerState
<1>5. /\ timer' \in TimerState /\ timer'.enable = timer.enable
      /\ ~timer.enable => timer'.left = timer.left /\ timer'.flag = timer.flag
      /\ intnest => timer'.left = timer.left /\ timer'.flag = timer.flag
      /\ ~intnest /\ timer.enable => ~timer'.flag
  BY <1>4, TimerFacts DEF IfEnabled
<1>6. PhaseOK'
  BY <1>1 DEF TpInv, PhaseOK, Held, InHandler
<1>7. TimerOK'
  BY <1>5 DEF TpInv, TimerOK
<1>8. UserTimeIsCounted' /\ SelectOK'
  BY <1>1 DEF TpInv, UserTimeIsCounted, SelectOK, Held
<1>9. PendTwd => timer'.left = 0 /\ ~timer'.flag
  <2>1. PendTwd => timer.left = 0 /\ ~timer.flag /\ ~timer.enable
    BY SwFields DEF TpInv, PendingOK, WindowOK
  <2> QED
    BY <1>5, <2>1
<1>10. UNCHANGED <<swvars, caller, twdsched, idlesched>>
  BY DEF kvars
<1> QED
  BY <1>1, <1>2, <1>3, <1>5, <1>6, <1>7, <1>8, <1>9, <1>10, SteadyInv

\* The stacks of handlers that an interrupt makes.
LEMMA StackGrows ==
  ASSUME NEW h \in TimerHandler
  PROVE  /\ <<"low">> \o << >> \in Stack /\ <<"low">> \o << >> # << >>
         /\ <<"low">> \o << >> # <<"high">> /\ <<"high">> \o << >> = <<"high">>
         /\ \A s \in {<< >>, <<"low">>} :
              <<h>> \o s \in Stack /\ <<h>> \o s # << >> /\ <<h>> \o s # <<"high">>
<1>1. /\ <<"low">> \o << >> = <<"low">> /\ <<"high">> \o << >> = <<"high">>
      /\ <<h>> \o << >> = <<h>>
  OBVIOUS
<1>2. <<h>> \o <<"low">> = <<h, "low">>
  <2>1. \A d, e \in TimerHandler \union {"low"} : <<d>> \o <<e>> = <<d, e>>
    BY TwoElements
  <2> QED
    BY <2>1
<1>3. /\ <<"low">> # << >> /\ <<"low">> # <<"high">> /\ <<h>> # << >> /\ <<h, "low">> # << >>
      /\ <<h>> # <<"high">> /\ <<h, "low">> # <<"high">>
  BY DEF TimerHandler
<1> QED
  BY <1>1, <1>2, <1>3 DEF Stack

\* Interrupts below and above the priority of the timers, and those of the timers.
LEMMA InterruptInv ==
  ASSUME TpInv, LowInterrupt \/ HighInterrupt \/ HrtInterrupt \/ TwdInterrupt
  PROVE  TpInv' /\ OrderStep
<1>1. CASE LowInterrupt
  <2>1. /\ hstack = << >> /\ phase = "none" /\ hstack' = <<"low">> \o hstack
        /\ intnest' = TRUE
        /\ timer' = IF intnest THEN timer ELSE IfEnabled(timer, TwdtimerStop(timer))
        /\ UNCHANGED <<kvars, enadsp, ipm, lock, swvars, phase, caller>>
    BY <1>1 DEF LowInterrupt, Enter
  <2>2. hstack' \in Stack /\ hstack' # << >> /\ hstack' # <<"high">>
    BY <2>1, StackGrows DEF TimerHandler
  <2> QED
    BY <2>1, <2>2, EnterInv
<1>2. CASE HighInterrupt
  <2>1. /\ hstack = << >> /\ phase = "nfy" /\ caller \in {"ena", "ext", "som"}
        /\ hstack' = <<"high">> \o hstack /\ intnest' = TRUE
        /\ timer' = IF intnest THEN timer ELSE IfEnabled(timer, TwdtimerStop(timer))
        /\ UNCHANGED <<kvars, enadsp, ipm, lock, swvars, phase, caller>>
    BY <1>2 DEF HighInterrupt, Enter
  <2>2. hstack' = <<"high">> /\ Held /\ phase # "none"
    BY <2>1 DEF Held
  <2>3. hstack' \in Stack /\ hstack' # << >>
    BY <2>2 DEF Stack
  <2> QED
    BY <2>1, <2>2, <2>3, EnterInv
<1>3. CASE HrtInterrupt
  <2>1. /\ hstack \in {<< >>, <<"low">>} /\ phase = "none" /\ hstack' = <<"hrt">> \o hstack
        /\ intnest' = TRUE
        /\ timer' = IF intnest THEN timer ELSE IfEnabled(timer, TwdtimerStop(timer))
        /\ UNCHANGED <<kvars, enadsp, ipm, lock, swvars, phase, caller>>
    BY <1>3 DEF HrtInterrupt, TimersOpen, Enter
  <2>2. hstack' \in Stack /\ hstack' # << >> /\ hstack' # <<"high">>
    BY <2>1, StackGrows DEF TimerHandler
  <2> QED
    BY <2>1, <2>2, EnterInv
<1>4. CASE TwdInterrupt
  <2> DEFINE tm == [timer EXCEPT !.req = FALSE]
  <2>1. /\ hstack \in {<< >>, <<"low">>} /\ phase = "none" /\ hstack' = <<"twd">> \o hstack
        /\ intnest' = TRUE
        /\ timer' = IF intnest THEN tm ELSE IfEnabled(tm, TwdtimerStop(tm))
        /\ UNCHANGED <<kvars, enadsp, ipm, lock, swvars, phase, caller>>
    BY <1>4 DEF TwdInterrupt, TimersOpen
  <2>2. hstack' \in Stack /\ hstack' # << >> /\ hstack' # <<"high">>
    BY <2>1, StackGrows DEF TimerHandler
  <2>3. tm = [timer EXCEPT !.req = FALSE]
    OBVIOUS
  <2> HIDE DEF tm
  <2> QED
    BY <2>1, <2>2, <2>3, EnterInv
<1> QED
  BY <1>1, <1>2, <1>3, <1>4

\* A handler returns: the outermost one through the dispatcher, and the timer
\* follows.
LEMMA InterruptExitInv ==
  ASSUME TpInv, InterruptExit
  PROVE  TpInv' /\ OrderStep
<1>1. /\ hstack # << >> /\ Handler # "twd" /\ (phase = "none" \/ Handler = "high")
      /\ hstack' = Tail(hstack) /\ intnest' = (Len(hstack) > 1)
      /\ UNCHANGED <<enadsp, ipm, lock, swvars, phase, caller>>
  BY DEF InterruptExit
<1>2. /\ IInv /\ SInv /\ PhaseOK /\ intnest /\ timer \in TimerState /\ intnest \in BOOLEAN
      /\ intnest = TRUE
  BY <1>1, SwTypes DEF TpInv, PhaseOK, IInv, TypeOK
<1>3. /\ hstack \in {<<"low">>, <<"high">>} \union {<<h>> : h \in TimerHandler} =>
           Tail(hstack) = << >> /\ Len(hstack) = 1
      /\ hstack \in {<<h, "low">> : h \in TimerHandler} =>
           Tail(hstack) = <<"low">> /\ Len(hstack) = 2
  <2>1. \A g : Tail(<<g>>) = << >> /\ Len(<<g>>) = 1
    OBVIOUS
  <2>2. \A g : Tail(<<g, "low">>) = <<"low">> /\ Len(<<g, "low">>) = 2
    OBVIOUS
  <2> QED
    BY <2>1, <2>2
<1>4. \/ Tail(hstack) = << >> /\ Len(hstack) = 1
      \/ Tail(hstack) = <<"low">> /\ Len(hstack) = 2 /\ phase = "none"
  <2>1. CASE hstack \in {<<"low">>, <<"high">>} \union {<<h>> : h \in TimerHandler}
    BY <1>3, <2>1
  <2>2. CASE hstack \in {<<h, "low">> : h \in TimerHandler}
    <3>1. Head(hstack) # "high"
      BY <2>2 DEF TimerHandler
    <3> QED
      BY <1>1, <1>3, <2>2, <3>1 DEF Handler
  <2> QED
    BY <1>1, <1>2, <2>1, <2>2 DEF PhaseOK, Stack
<1>5. phase # "none" => hstack = <<"high">> /\ Held /\ ~dspflg
  <2> SUFFICES ASSUME phase # "none" PROVE hstack = <<"high">> /\ Held /\ ~dspflg
    OBVIOUS
  <2>1. Handler = "high"
    BY <1>1
  <2>2. /\ Head(<<"low">>) = "low"
        /\ \A g : Head(<<g>>) = g /\ Head(<<g, "low">>) = g
    OBVIOUS
  <2>3. hstack = <<"high">>
    BY <1>1, <1>2, <2>1, <2>2 DEF PhaseOK, Stack, Handler, TimerHandler
  <2> QED
    BY <1>2, <2>3 DEF PhaseOK
<1>6. SchedtskExact(K)
  BY <1>5 DEF TpInv, SelectOK, SchedtskExact, K
<1>7. CASE Len(hstack) = 1
  <2> DEFINE s == IF runtsk # schedtsk THEN Dispatch(K) ELSE K
  <2>1. /\ Becomes(s) /\ timer' = TimerFor(timer, s.runtsk) /\ intnest' = FALSE
        /\ hstack' = << >>
    <3>1. Len(hstack) > 1 <=> FALSE
      BY <1>7
    <3>2. Tail(hstack) = << >>
      BY <1>4, <1>7
    <3>3. Becomes(s) /\ timer' = TimerFor(timer, s.runtsk)
      BY <3>1 DEF InterruptExit
    <3> HIDE DEF s
    <3>4. hstack' = << >>
      BY <1>1, <3>2
    <3>5. intnest' = (Len(hstack) > 1)
      BY <1>1
    <3>6. intnest' = FALSE
      <4>1. (Len(hstack) > 1) = FALSE
        BY <1>7
      <4> QED
        BY <3>5, <4>1, Zenon
    <3> QED
      BY <3>3, <3>4, <3>6
  <2>2. IntExit
    BY <1>1, <1>2, <2>1 DEF IntExit
  <2>3. IInv' /\ CoreStep
    BY <1>2, <2>2, InterruptOK
  <2>4. SStep
    BY <1>2, <1>6, <2>2, InterruptExact
  <2>5. /\ tcb' = tcb /\ runtsk' = s.runtsk /\ dspflg' = dspflg
        /\ twdsched' = twdsched /\ idlesched' = idlesched
    <3>1. s.tcb = tcb /\ s.dspflg = dspflg
      BY DEF Dispatch, K
    <3> QED
      BY <2>1, <2>3, <3>1 DEF Becomes, CoreStep
  <2>6. runtsk' # NULL \/ runtsk = NULL \/ dspflg
    <3>1. ~dspflg => s.runtsk = runtsk
      BY <1>2 DEF IInv, HeldRuns, K
    <3> QED
      BY <2>5, <3>1
  <2> HIDE DEF s
  <2>7. /\ timer' \in TimerState /\ timer'.enable = timer.enable
        /\ ~timer.enable => timer' = timer
        /\ timer.enable /\ (runtsk' = NULL \/ UnitOf[runtsk'] # KERNEL) => timer'.flag
    BY <1>2, <2>1, <2>5, TimerFacts
  <2>8. PhaseOK'
    <3>1. << >> \in Stack
      BY DEF Stack
    <3>2. phase' = phase /\ caller' = caller /\ enadsp' = enadsp /\ ipm' = ipm /\ lock' = lock
      BY <1>1
    <3>3. (Held' <=> Held) /\ (InHandler' <=> InHandler)
      BY <3>2 DEF Held, InHandler
    <3>4. ~InHandler
      BY <1>5 DEF Held, InHandler
    <3>5. << >> # <<"high">>
      OBVIOUS
    <3>6. Held => phase # "none"
      BY DEF Held
    <3> QED
      BY <1>2, <1>5, <2>1, <2>5, <2>6, <3>1, <3>2, <3>3, <3>4, <3>5, <3>6 DEF PhaseOK
  <2>9. TimerOK' /\ UserTimeIsCounted'
    BY <2>1, <2>7 DEF TimerOK, UserTimeIsCounted
  <2>10. SelectOK'
    BY <1>1, <1>6, <2>4, <2>5 DEF TpInv, SelectOK, SStep, Held
  <2>11. PendTwd => timer'.left = 0 /\ ~timer'.flag
    BY <2>7, SwFields DEF TpInv, PendingOK, WindowOK
  <2>12. UNCHANGED <<swvars, caller, twdsched, idlesched>> /\ phase' = phase
    BY <1>1, <2>5
  <2> QED
    BY <2>3, <2>4, <2>5, <2>7, <2>8, <2>9, <2>10, <2>11, <2>12, SteadyInv DEF SStep
<1>8. CASE Len(hstack) = 2
  <2>1. /\ UNCHANGED <<kvars, timer>> /\ intnest' = intnest /\ hstack' = <<"low">>
        /\ phase = "none"
    <3>1. Len(hstack) > 1 /\ Tail(hstack) = <<"low">> /\ phase = "none"
      BY <1>4, <1>8
    <3> QED
      BY <1>1, <1>2, <3>1 DEF InterruptExit
  <2>2. UNCHANGED vars
    BY <1>1, <2>1 DEF vars, cpuvars
  <2>3. /\ IInv' /\ SInv' /\ K' = K /\ tcb' = tcb /\ runtsk' = runtsk /\ dspflg' = dspflg
        /\ enadsp' = enadsp /\ ipm' = ipm /\ lock' = lock
    BY <1>2, <2>2, KernelSame
  <2>4. PhaseOK'
    <3>1. <<"low">> \in Stack /\ <<"low">> # << >> /\ <<"low">> # <<"high">>
      BY DEF Stack
    <3>2. phase' = "none" /\ ~Held' /\ ~InHandler' /\ intnest'
      BY <1>1, <1>2, <2>1 DEF Held, InHandler
    <3> QED
      BY <2>1, <3>1, <3>2 DEF PhaseOK
  <2>5. TimerOK' /\ UserTimeIsCounted' /\ SelectOK'
    BY <1>1, <1>2, <2>1, <2>3 DEF TpInv, TimerOK, UserTimeIsCounted, SelectOK, Held
  <2>6. PendTwd => timer.left = 0 /\ ~timer.flag
    BY DEF TpInv, PendingOK
  <2>7. UNCHANGED <<swvars, caller, twdsched, idlesched>> /\ phase' = phase
    BY <1>1, <2>1 DEF kvars
  <2> QED
    BY <1>2, <2>1, <2>3, <2>4, <2>5, <2>6, <2>7, SteadyInv
<1> QED
  BY <1>4, <1>7, <1>8

-----------------------------------------------------------------------------
(* The service calls outside a switch. *)

\* A step of TaskKernel outside a switch, after which the timer follows the
\* dispatch if there was one, preserves the invariant.
LEMMA CallInv ==
  ASSUME TpInv, phase = "none", [Next]_vars, intnest' = intnest,
         UNCHANGED <<swvars, hstack, phase, caller>>,
         \/ timer' = timer /\ (runtsk' = runtsk \/ intnest)
         \/ timer' = TimerFor(timer, runtsk') /\ ~intnest,
         dspflg' => dspflg \/ (~pendscyc /\ ~pendtwd)
  PROVE  TpInv' /\ OrderStep
<1>1. /\ IInv /\ SInv /\ PhaseOK /\ SchedtskExact(K) /\ timer \in TimerState
      /\ UserTimeIsCounted /\ TimerOK
  BY SwTypes DEF TpInv, SelectOK
<1>2. IInv' /\ CoreStep
  BY <1>1, NextOK
<1>3. SInv' /\ SchedtskExact(K')
  BY <1>1, NextExact DEF SStep
<1>4. /\ hstack' = hstack /\ phase' = "none" /\ caller' = caller
  OBVIOUS
<1>5. PhaseOK'
  BY <1>1, <1>4 DEF PhaseOK, Held, InHandler
<1>6. SelectOK'
  BY <1>3, <1>4 DEF SelectOK, Held
<1>7. intnest => runtsk' = runtsk
  BY <1>2 DEF CoreStep
<1>8. /\ timer' \in TimerState /\ timer'.enable = timer.enable
      /\ ~timer.enable => timer' = timer
      /\ timer' = timer \/ ~intnest
      /\ \/ timer' = timer /\ runtsk' = runtsk
         \/ timer.enable /\ (runtsk' = NULL \/ UnitOf[runtsk'] # KERNEL) => timer'.flag
  <2>1. CASE timer' = timer /\ (runtsk' = runtsk \/ intnest)
    BY <1>1, <1>7, <2>1
  <2>2. CASE timer' = TimerFor(timer, runtsk') /\ ~intnest
    <3>1. /\ timer' \in TimerState /\ timer'.enable = timer.enable
          /\ ~timer.enable => timer' = timer
          /\ timer.enable /\ (runtsk' = NULL \/ UnitOf[runtsk'] # KERNEL) => timer'.flag = TRUE
      BY <1>1, <2>2, TimerFacts
    <3> QED
      BY <2>2, <3>1
  <2> QED
    BY <2>1, <2>2
<1>9. TimerOK' /\ UserTimeIsCounted'
  BY <1>1, <1>8 DEF TimerOK, UserTimeIsCounted
<1>10. PendTwd => timer'.left = 0 /\ ~timer'.flag
  <2>1. PendTwd => timer.left = 0 /\ ~timer.flag /\ ~timer.enable
    BY SwFields DEF TpInv, PendingOK, WindowOK
  <2> QED
    BY <1>8, <2>1
<1>11. UNCHANGED <<swvars, caller, twdsched, idlesched>> /\ phase' = phase
  BY <1>2 DEF CoreStep
<1>12. phase' = "none" <=> phase = "none"
  BY <1>11
<1>13. IInv' /\ SInv' /\ TimerOK' /\ UserTimeIsCounted'
  BY <1>2, <1>3, <1>9
<1>14. dspflg' => dspflg \/ (~pendscyc /\ ~pendtwd)
  OBVIOUS
<1>15. timer' \in TimerState /\ timer'.enable = timer.enable
  BY <1>8
<1> QED
  BY <1>5, <1>6, <1>10, <1>11, <1>12, <1>13, <1>14, <1>15, SteadyInv

\* The calls of OtherCall neither enable dispatching nor leave a handler.
LEMMA OtherCallStep ==
  ASSUME OtherCall
  PROVE  [Next]_vars /\ intnest' = intnest /\ ipm' = ipm /\ (enadsp' => enadsp)
<1> DEFINE Goal == [Next]_vars /\ intnest' = intnest /\ ipm' = ipm /\ (enadsp' => enadsp)
<1>1. ASSUME NEW t \in Task, PlainTaskCall(t)
      PROVE  Goal
  <2>1. Next
    BY <1>1 DEF Next, PlainCall
  <2>2. UNCHANGED cpuvars
    BY <1>1 DEF PlainTaskCall, act_tsk, can_act, wup_tsk, can_wup, sus_tsk, rsm_tsk, Return
  <2> QED
    BY <2>1, <2>2 DEF cpuvars
<1>2. ASSUME NEW t \in Task, ras_ter(t) \/ ter_tsk(t) \/ rel_wai(t)
      PROVE  Goal
  <2>1. Next
    BY <1>2 DEF Next, TaskCall
  <2>2. UNCHANGED cpuvars
    BY <1>2 DEF ras_ter, RequestTermination, ter_tsk, rel_wai, Return
  <2> QED
    BY <2>1, <2>2 DEF cpuvars
<1>3. ASSUME NEW t \in Task, NEW p \in Pri, chg_pri(t, p)
      PROVE  Goal
  <2>1. Next
    BY <1>3 DEF Next, TaskCall
  <2>2. UNCHANGED cpuvars
    BY <1>3 DEF chg_pri, Return
  <2> QED
    BY <2>1, <2>2 DEF cpuvars
<1>4. CASE dis_ter \/ dly_tsk \/ loc_cpu \/ unl_cpu \/ dis_dsp
  <2>1. Next
    BY <1>4 DEF Next, PlainCall
  <2>2. CASE dis_ter \/ dly_tsk
    <3>1. UNCHANGED cpuvars
      BY <2>2 DEF dis_ter, dly_tsk, Return
    <3> QED
      BY <2>1, <3>1 DEF cpuvars
  <2>3. CASE loc_cpu \/ unl_cpu
    BY <2>1, <2>3 DEF loc_cpu, unl_cpu
  <2>4. CASE dis_dsp
    BY <2>1, <2>4 DEF dis_dsp
  <2> QED
    BY <1>4, <2>2, <2>3, <2>4
<1>5. ASSUME NEW timed \in BOOLEAN, slp_tsk(timed)
      PROVE  Goal
  <2>1. Next
    BY <1>5 DEF Next, PlainCall
  <2>2. UNCHANGED cpuvars
    BY <1>5 DEF slp_tsk, Return
  <2> QED
    BY <2>1, <2>2 DEF cpuvars
<1> HIDE DEF Goal
<1>6. Goal
  <2>1. CASE \E t \in Task : \/ PlainTaskCall(t) \/ ras_ter(t) \/ ter_tsk(t) \/ rel_wai(t)
                            \/ \E p \in Pri : chg_pri(t, p)
    BY <1>1, <1>2, <1>3, <2>1
  <2>2. CASE \E timed \in BOOLEAN : slp_tsk(timed)
    BY <1>5, <2>2
  <2>3. \/ \E t \in Task : \/ PlainTaskCall(t) \/ ras_ter(t) \/ ter_tsk(t) \/ rel_wai(t)
                         \/ \E p \in Pri : chg_pri(t, p)
        \/ dis_ter \/ dly_tsk \/ loc_cpu \/ unl_cpu \/ dis_dsp
        \/ \E timed \in BOOLEAN : slp_tsk(timed)
    BY DEF OtherCall
  <2> QED
    BY <1>4, <2>1, <2>2, <2>3 DEF Goal
<1> QED
  BY <1>6 DEF Goal

\* The calls that do not call set_dspflg.
LEMMA OtherCallInv ==
  ASSUME TpInv, OtherCall
  PROVE  TpInv' /\ OrderStep
<1>1. [Next]_vars /\ intnest' = intnest /\ ipm' = ipm /\ (enadsp' => enadsp)
  BY OtherCallStep
<1>2. /\ phase = "none" /\ UNCHANGED <<swvars, hstack, phase, caller>>
      /\ timer' = IF runtsk' # runtsk THEN TimerFor(timer, runtsk') ELSE timer
  BY DEF OtherCall
<1>3. IInv /\ IInv' /\ CoreStep
  BY <1>1, NextOK DEF TpInv
<1>4. dspflg' => dspflg
  BY <1>1, <1>3 DEF IInv, DspflgExact
<1>5. intnest => runtsk' = runtsk
  BY <1>1, <1>3 DEF CoreStep
<1> QED
  BY <1>1, <1>2, <1>4, <1>5, CallInv

\* The time-out of a task of the kernel domain.
LEMMA SignalTimeoutInv ==
  ASSUME TpInv, NEW t \in Task, SignalTimeout(t)
  PROVE  TpInv' /\ OrderStep
<1>1. /\ phase = "none" /\ TimerExpires(t) /\ UNCHANGED tpvars
      /\ UNCHANGED <<swvars, hstack, phase, caller>> /\ timer' = timer
  BY DEF SignalTimeout, tpvars
<1>2. Next
  BY <1>1 DEF Next, TaskCall
<1>3. intnest /\ intnest' = intnest /\ ipm' = ipm /\ enadsp' = enadsp
  BY <1>1 DEF TimerExpires, Return, cpuvars
<1>4. IInv /\ IInv' /\ CoreStep
  BY <1>2, NextOK DEF TpInv
<1>5. dspflg' => dspflg
  BY <1>3, <1>4 DEF IInv, DspflgExact
<1> QED
  BY <1>1, <1>2, <1>3, <1>5, CallInv

\* ena_ter
LEMMA EnaTerInv ==
  ASSUME TpInv, ena_ter_tp
  PROVE  TpInv' /\ OrderStep
<1>1. /\ phase = "none" /\ ena_ter /\ UNCHANGED <<swvars, hstack, phase, caller>>
      /\ timer' = IF tcb[runtsk].raster /\ dspflg THEN TimerFor(timer, runtsk') ELSE timer
  BY DEF ena_ter_tp
<1>2. Next
  BY <1>1 DEF Next, SystemCall
<1>3. ~intnest /\ UNCHANGED cpuvars
  BY <1>1 DEF ena_ter, TskCtxUnl, Return
<1>4. IInv /\ IInv' /\ CoreStep
  BY <1>2, NextOK DEF TpInv
<1>5. intnest' = intnest /\ (dspflg' => dspflg)
  BY <1>3, <1>4 DEF IInv, DspflgExact, cpuvars
<1>6. ~(tcb[runtsk].raster /\ dspflg) => runtsk' = runtsk
  <2> DEFINE s == [K EXCEPT !.tcb[runtsk].enater = TRUE]
  <2> SUFFICES ASSUME ~(tcb[runtsk].raster /\ dspflg)
               PROVE  runtsk' = runtsk
    OBVIOUS
  <2>1. Return(s)
    BY <1>1 DEF ena_ter
  <2>2. s.runtsk = runtsk /\ s.schedtsk = schedtsk
    BY DEF K
  <2> HIDE DEF s
  <2>3. runtsk = schedtsk
    BY <1>3, <1>4 DEF IInv, RunsWhatIsScheduled
  <2> QED
    BY <2>1, <2>2, <2>3 DEF Return, DispatchIfNeeded, Becomes
<1> QED
  BY <1>1, <1>2, <1>3, <1>5, <1>6, CallInv

\* The dispatch at the end of set_dspflg's callers, seen from the running task.
LEMMA DispatchedTimer ==
  ASSUME NEW s, NEW e, Dispatched(s, e)
  PROVE  /\ Becomes(s)
         /\ \/ timer' = timer /\ runtsk' = runtsk
            \/ timer' = TimerFor(timer, runtsk')
<1>1. Becomes(s) /\ runtsk' = s.runtsk
  BY DEF Dispatched, Becomes
<1> QED
  BY <1>1 DEF Dispatched

\* With nothing pending the end of ena_dsp and of chg_ipm is that of TaskKernel.
LEMMA AfterEnableIs ==
  ASSUME Dispatched(AfterEnable(SetDspflg(K)), Ended(K)), ipm' = FALSE
  PROVE  EnableDispatch
<1>1. SetDspflg(K).runtsk = runtsk
  BY DEF SetDspflg, UpdateSchedtsk, K
<1>2. Becomes(AfterEnable(SetDspflg(K)))
  BY DEF Dispatched
<1> QED
  BY <1>1, <1>2 DEF AfterEnable, EnableDispatch, TerminateSelf

\* ena_dsp, with or without something pending.
LEMMA EnaDspInv ==
  ASSUME TpInv, ena_dsp_tp
  PROVE  TpInv' /\ OrderStep
<1>1. /\ "dis_dsp" \in Api /\ TskCtxUnl /\ phase = "none" /\ enadsp' = TRUE
      /\ ~intnest /\ runtsk # NULL /\ lock = FALSE
  BY DEF ena_dsp_tp, TskCtxUnl, TpInv, IInv, TypeOK
<1>2. CASE BeginSetDspflg("ena")
  <2>1. /\ pendscyc \/ pendtwd
        /\ Start(HeldSwitch, "ena")
        /\ ipm' = TRUE /\ lock' = FALSE /\ intnest' = intnest /\ hstack' = hstack
    BY <1>1, <1>2 DEF BeginSetDspflg
  <2> QED
    BY <1>1, <2>1, BeginInv
<1>3. CASE /\ ~ipm /\ ~pendscyc /\ ~pendtwd
           /\ Dispatched(AfterEnable(SetDspflg(K)), Ended(K))
           /\ UNCHANGED <<ipm, lock, intnest, swvars, hstack, phase, caller>>
  <2>1. ipm' = FALSE
    BY <1>3 DEF TpInv, IInv, TypeOK
  <2>2. EnableDispatch
    BY <1>3, <2>1, AfterEnableIs
  <2>3. ena_dsp
    BY <1>1, <1>3, <2>2 DEF ena_dsp
  <2>4. Next
    BY <2>3 DEF Next, SystemCall
  <2>5. \/ timer' = timer /\ runtsk' = runtsk
        \/ timer' = TimerFor(timer, runtsk')
    BY <1>3, DispatchedTimer
  <2> QED
    BY <1>1, <1>3, <2>4, <2>5, CallInv
<1>4. CASE ipm /\ UNCHANGED <<kvars, ipm, lock, intnest, tpvars>>
  <2>1. ena_dsp
    BY <1>1, <1>4 DEF ena_dsp
  <2>2. Next
    BY <2>1 DEF Next, SystemCall
  <2>3. /\ intnest' = intnest /\ timer' = timer /\ runtsk' = runtsk /\ dspflg' = dspflg
        /\ UNCHANGED <<swvars, hstack, phase, caller>>
    BY <1>4 DEF kvars, tpvars
  <2> QED
    BY <1>1, <2>2, <2>3, CallInv
<1> QED
  BY <1>2, <1>3, <1>4 DEF ena_dsp_tp

\* chg_ipm, with or without something pending.
LEMMA ChgIpmInv ==
  ASSUME TpInv, NEW mask \in BOOLEAN, chg_ipm_tp(mask)
  PROVE  TpInv' /\ OrderStep
<1>1. /\ "chg_ipm" \in Api /\ TskCtxUnl /\ phase = "none" /\ enadsp' = enadsp
      /\ ~intnest /\ runtsk # NULL /\ lock = FALSE
  BY DEF chg_ipm_tp, TskCtxUnl, TpInv, IInv, TypeOK
<1>2. CASE ~mask /\ enadsp /\ BeginSetDspflg("ena")
  <2>1. /\ pendscyc \/ pendtwd
        /\ Start(HeldSwitch, "ena") /\ enadsp' = TRUE
        /\ ipm' = TRUE /\ lock' = FALSE /\ intnest' = intnest /\ hstack' = hstack
    BY <1>1, <1>2 DEF BeginSetDspflg, TpInv, IInv, TypeOK
  <2> QED
    BY <1>1, <2>1, BeginInv
<1>3. CASE /\ ~mask /\ enadsp /\ ~pendscyc /\ ~pendtwd
           /\ Dispatched(AfterEnable(SetDspflg(K)), Ended(K))
           /\ ipm' = FALSE
           /\ UNCHANGED <<lock, intnest, swvars, hstack, phase, caller>>
  <2>1. EnableDispatch
    BY <1>3, AfterEnableIs
  <2>2. chg_ipm(mask)
    BY <1>1, <1>3, <2>1 DEF chg_ipm
  <2>3. Next
    BY <2>2 DEF Next, SystemCall
  <2>4. \/ timer' = timer /\ runtsk' = runtsk
        \/ timer' = TimerFor(timer, runtsk')
    BY <1>3, DispatchedTimer
  <2> QED
    BY <1>1, <1>3, <2>3, <2>4, CallInv
<1>4. CASE /\ mask \/ ~enadsp
           /\ ipm' = mask /\ Becomes([K EXCEPT !.dspflg = FALSE])
           /\ UNCHANGED <<lock, intnest, tpvars>>
  <2>1. chg_ipm(mask)
    BY <1>1, <1>4 DEF chg_ipm
  <2>2. Next
    BY <2>1 DEF Next, SystemCall
  <2>3. runtsk' = runtsk /\ dspflg' = FALSE
    BY <1>4 DEF Becomes, K
  <2>4. /\ intnest' = intnest /\ timer' = timer
        /\ UNCHANGED <<swvars, hstack, phase, caller>>
    BY <1>4 DEF tpvars
  <2> QED
    BY <1>1, <2>2, <2>3, <2>4, CallInv
<1> QED
  BY <1>2, <1>3, <1>4 DEF chg_ipm_tp

\* ext_tsk, with or without something pending.
LEMMA ExtTskInv ==
  ASSUME TpInv, ext_tsk_tp
  PROVE  TpInv' /\ OrderStep
<1>1. /\ "ext_tsk" \in Api /\ ~intnest /\ runtsk # NULL /\ phase = "none"
      /\ enadsp' = TRUE /\ lock' = FALSE
  BY DEF ext_tsk_tp
<1>2. CASE /\ ~dspflg /\ (pendscyc \/ pendtwd)
           /\ Start(HeldSwitch, "ext")
           /\ ipm' = TRUE /\ UNCHANGED <<intnest, hstack>>
  <2>1. intnest' = intnest /\ hstack' = hstack
    BY <1>2
  <2> QED
    BY <1>1, <1>2, <2>1, BeginInv
<1>3. CASE /\ dspflg \/ (~pendscyc /\ ~pendtwd)
           /\ Dispatched(AfterExt(IF dspflg THEN K ELSE SetDspflg(K)), TRUE)
           /\ ipm' = FALSE /\ UNCHANGED <<intnest, swvars, hstack, phase, caller>>
  <2>1. TerminateSelf(IF dspflg THEN K ELSE SetDspflg(K))
    <3>1. SetDspflg(K).runtsk = runtsk /\ K.runtsk = runtsk
      BY DEF SetDspflg, UpdateSchedtsk, K
    <3>2. Becomes(AfterExt(IF dspflg THEN K ELSE SetDspflg(K)))
      BY <1>3 DEF Dispatched
    <3> QED
      BY <3>1, <3>2 DEF AfterExt, TerminateSelf
  <2>2. dspflg => enadsp = TRUE /\ ipm = FALSE
    BY DEF TpInv, IInv, DspflgExact, TypeOK
  <2>3. ext_tsk
    BY <1>1, <1>3, <2>1, <2>2 DEF ext_tsk
  <2>4. Next
    BY <2>3 DEF Next, SystemCall
  <2>5. \/ timer' = timer /\ runtsk' = runtsk
        \/ timer' = TimerFor(timer, runtsk')
    BY <1>3, DispatchedTimer
  <2>6. intnest' = intnest /\ UNCHANGED <<swvars, hstack, phase, caller>>
    BY <1>3
  <2>7. dspflg' => dspflg \/ (~pendscyc /\ ~pendtwd)
    BY <1>3
  <2> QED
    BY <1>1, <2>4, <2>5, <2>6, <2>7, CallInv
<1> QED
  BY <1>2, <1>3 DEF ext_tsk_tp

\* chg_som: the next mode is noted, or its first cycle begins or is pending.
LEMMA ChgSomInv ==
  ASSUME TpInv, NEW m \in Som \union {NULL}, chg_som(m)
  PROVE  TpInv' /\ OrderStep
<1>1. TskCtxUnl /\ phase = "none"
  BY DEF chg_som
<1>2. CASE /\ cursom = NULL /\ m # NULL /\ dspflg
           /\ Start(ScycStart([Sw EXCEPT !.nxtsom = m, !.k.dspflg = FALSE]), "som")
           /\ ipm' = TRUE /\ UNCHANGED <<enadsp, lock, intnest, hstack>>
  BY <1>1, <1>2, SomStartInv
<1>3. ASSUME nxtsom' = m, pendscyc' = pendscyc \/ (pendscyc' = TRUE /\ cursom = NULL /\ ~dspflg),
             UNCHANGED <<vars, cursom, runtwd, scycreg, pendtwd, timer, hstack, phase, caller>>
      PROVE  TpInv' /\ OrderStep
  <2>1. /\ IInv' /\ SInv' /\ K' = K /\ tcb' = tcb /\ runtsk' = runtsk /\ dspflg' = dspflg
        /\ intnest' = intnest /\ enadsp' = enadsp /\ ipm' = ipm /\ lock' = lock
    BY <1>3, KernelSame DEF TpInv
  <2>2. PhaseOK'
    BY <1>1, <1>3, <2>1 DEF TpInv, PhaseOK, Held, InHandler
  <2>3. PendingOK'
    <3>1. Sw' \in SwState
      BY <1>3, <2>1, SwTypes DEF Sw, SwState
    <3>2. (PendScyc' <=> pendscyc') /\ (PendTwd' <=> PendTwd) /\ (PendScyc <=> pendscyc)
      BY <1>1, <1>3 DEF PendScyc, PendTwd, Resumed
    <3>3. /\ Sw'.k = K /\ Sw'.cursom = cursom /\ Sw'.runtwd = runtwd
          /\ Sw'.scycreg = scycreg /\ Sw'.timer = timer
      BY <1>3, <2>1 DEF Sw
    <3>4. WindowOK(Sw, PendScyc, PendTwd)
      BY DEF TpInv, PendingOK
    <3>5. WindowOK(Sw', PendScyc', PendTwd')
      BY <1>3, <3>2, <3>3, <3>4, SwFields DEF WindowOK
    <3> QED
      BY <1>1, <1>3, <2>1, <3>1, <3>2, <3>5 DEF TpInv, PendingOK, Held
  <2>4. TimerOK' /\ UserTimeIsCounted' /\ SelectOK'
    BY <1>1, <1>3, <2>1 DEF TpInv, TimerOK, UserTimeIsCounted, SelectOK, Held
  <2> QED
    BY <1>3, <2>1, <2>2, <2>3, <2>4 DEF TpInv, OrderStep
<1> QED
  BY <1>2, <1>3 DEF chg_som

-----------------------------------------------------------------------------
(* The steps in a switch. *)

\* A kernel operation in a switch neither dispatches nor ends the switch.
LEMMA MidSwitchInv ==
  ASSUME TpInv, phase # "none", IInv', SInv', CoreStep, UNCHANGED cpuvars, UNCHANGED tpvars,
         \A v \in Task : MustEnd(tcb'[v]) => MustEnd(tcb[v])
  PROVE  TpInv' /\ OrderStep
<1>1. /\ PhaseOK /\ IInv /\ (Held \/ InHandler) /\ timer \in TimerState
  BY SwTypes DEF TpInv, PhaseOK
<1>2. /\ enadsp' = enadsp /\ ipm' = ipm /\ lock' = lock /\ intnest' = intnest
      /\ hstack' = hstack /\ phase' = phase /\ caller' = caller /\ timer' = timer
      /\ UNCHANGED swvars
  BY DEF cpuvars, tpvars
<1>3. dspflg' <=> dspflg
  BY <1>1, <1>2 DEF IInv, DspflgExact
<1>4. runtsk' = runtsk
  <2>1. CASE Held
    BY <1>1, <1>3, <2>1 DEF PhaseOK, CoreStep
  <2>2. CASE InHandler
    BY <1>1, <1>2, <2>2 DEF PhaseOK, CoreStep
  <2> QED
    BY <1>1, <2>1, <2>2
<1>5. PhaseOK'
  BY <1>1, <1>2, <1>3, <1>4 DEF PhaseOK, Held, InHandler
<1>6. TimerOK' /\ UserTimeIsCounted'
  BY <1>2, <1>4 DEF TpInv, TimerOK, UserTimeIsCounted
<1>7. SelectOK'
  BY <1>2 DEF TpInv, SelectOK, Held
<1>8. PendTwd => timer.left = 0 /\ ~timer.flag
  BY DEF TpInv, PendingOK
<1>9. UNCHANGED <<swvars, caller, twdsched, idlesched>> /\ phase' = phase
  BY <1>2 DEF CoreStep
<1> QED
  BY <1>1, <1>2, <1>3, <1>5, <1>6, <1>7, <1>8, <1>9, SteadyInv

\* An operation that requests no termination adds no request.
LEMMA OperationRequests ==
  ASSUME IInv, SInv, NEW t \in Task, NEW s, NEW b, NEW T, Operation(s, t, b, T),
         MustEnd(b) => MustEnd(tcb[t]), Return(s)
  PROVE  \A v \in Task : MustEnd(tcb'[v]) => MustEnd(tcb[v])
<1>1. /\ s.tcb[t] = b /\ \A v \in Task \ {t} : s.tcb[v] = tcb[v]
      /\ WellTyped(s)
  BY OperationFacts
<1>2. tcb' = s.tcb
  BY <1>1 DEF Return, Becomes, DispatchIfNeeded, Dispatch, WellTyped, KState
<1> QED
  BY <1>1, <1>2

\* The calls of the notification handler request no termination.
LEMMA NotifyRequests ==
  ASSUME IInv, SInv, NEW t \in Task, act_tsk(t) \/ wup_tsk(t)
  PROVE  \A v \in Task : MustEnd(tcb'[v]) => MustEnd(tcb[v])
<1> DEFINE b == tcb[t]
           Goal == \A v \in Task : MustEnd(tcb'[v]) => MustEnd(tcb[v])
<1>1. /\ Agree(K, Place(K)) /\ K.tcb = tcb /\ b \in TCB /\ TcbOK(t, b, t \in tmevt)
  BY TaskBefore
<1>2. ASSUME NEW c \in TCB, c.tstat = b.tstat, c.pri = b.pri, c.wobj = b.wobj,
             c.raster = b.raster, c.enater = b.enater, ~IsDormant(b.tstat),
             Return(TcbSet(K, t, c))
      PROVE  Goal
  <2>1. PlaceOf(c) = PlaceOf(b) /\ TcbOK(t, c, t \in tmevt) /\ (MustEnd(c) => MustEnd(b))
    BY <1>1, <1>2 DEF PlaceOf, TcbOK, MustEnd
  <2>2. Operation(TcbSet(K, t, c), t, c, tmevt)
    BY <1>2, <2>1, TcbOperation
  <2> QED
    BY <1>2, <2>1, <2>2, OperationRequests
<1>3. CASE act_tsk(t)
  <2>1. CASE IsDormant(b.tstat) /\ Return(MakeActive(K, t))
    <3> DEFINE c == [b EXCEPT !.tstat = {"RUNNABLE"}]
    <3>1. MakeActive(K, t) = MakeRunnable(TcbSet(K, t, c), t)
      BY <1>1 DEF MakeActive, TcbSet
    <3>2. /\ c \in TCB /\ c.tstat = {"RUNNABLE"} /\ c.wobj = b.wobj /\ c.raster = b.raster
      BY <1>1, StatesType DEF TCB
    <3>3. /\ b.wobj = NULL /\ b.raster = FALSE /\ ~IsWaiting(b.tstat) /\ ~IsRunnable(b.tstat)
      BY <1>1, <2>1, FlagFacts DEF TcbOK, InitTCB
    <3>4. t \notin tmevt
      BY <1>1, <3>3 DEF TcbOK
    <3> HIDE DEF c
    <3>5. ~MustEnd(c) /\ IsRunnable(c.tstat) /\ TcbOK(t, c, t \in tmevt)
      BY <3>2, <3>3, <3>4, FlagFacts DEF MustEnd, TcbOK
    <3>6. Operation(MakeActive(K, t), t, c, tmevt)
      BY <3>1, <3>2, <3>3, <3>5, EnterOperation
    <3> QED
      BY <2>1, <3>5, <3>6, OperationRequests
  <2>2. CASE ~IsDormant(b.tstat) /\ Return([K EXCEPT !.tcb[t].actque = TRUE])
    <3> DEFINE c == [b EXCEPT !.actque = TRUE]
    <3>1. /\ c \in TCB /\ c.tstat = b.tstat /\ c.pri = b.pri /\ c.wobj = b.wobj
          /\ c.raster = b.raster /\ c.enater = b.enater
      BY <1>1 DEF TCB
    <3>2. [K EXCEPT !.tcb[t].actque = TRUE] = TcbSet(K, t, c)
      BY <1>1 DEF TcbSet
    <3> HIDE DEF c
    <3> QED
      BY <1>2, <2>2, <3>1, <3>2
  <2> QED
    BY <1>3, <2>1, <2>2 DEF act_tsk
<1>4. CASE wup_tsk(t)
  <2>1. CASE "SLP" \in b.tstat /\ Return(WaitComplete(K, t))
    <3>1. IsWaiting(b.tstat)
      BY <2>1 DEF IsWaiting, WaitFlag
    <3> QED
      BY <2>1, <3>1, ReleaseOperation, OperationRequests
  <2>2. CASE Return([K EXCEPT !.tcb[t].wupque = TRUE])
    <3> DEFINE c == [b EXCEPT !.wupque = TRUE]
    <3>1. /\ c \in TCB /\ c.tstat = b.tstat /\ c.pri = b.pri /\ c.wobj = b.wobj
          /\ c.raster = b.raster /\ c.enater = b.enater
      BY <1>1 DEF TCB
    <3>2. [K EXCEPT !.tcb[t].wupque = TRUE] = TcbSet(K, t, c)
      BY <1>1 DEF TcbSet
    <3>3. ~IsDormant(b.tstat)
      BY <1>4 DEF wup_tsk
    <3> HIDE DEF c
    <3> QED
      BY <1>2, <2>2, <3>1, <3>2, <3>3
  <2> QED
    BY <1>4, <2>1, <2>2 DEF wup_tsk
<1> QED
  BY <1>3, <1>4

\* The notification handler activates or wakes up a task.
LEMMA NotifyCallInv ==
  ASSUME TpInv, NotifyCall
  PROVE  TpInv' /\ OrderStep
<1>1. PICK t \in Task : act_tsk(t) \/ wup_tsk(t)
  BY DEF NotifyCall
<1>2. phase = "nfy" /\ UNCHANGED tpvars
  BY DEF NotifyCall
<1>3. UNCHANGED cpuvars
  BY <1>1 DEF act_tsk, wup_tsk, Return
<1>4. IInv /\ SInv
  BY DEF TpInv
<1>5. Next
  BY <1>1 DEF Next, PlainCall, PlainTaskCall
<1>6. IInv' /\ CoreStep
  BY <1>4, <1>5, NextOK
<1>7. SInv'
  BY <1>1, <1>4, ManageExact, SyncExact DEF SStep
<1>8. \A v \in Task : MustEnd(tcb'[v]) => MustEnd(tcb[v])
  BY <1>1, <1>4, NotifyRequests
<1> QED
  BY <1>2, <1>3, <1>6, <1>7, <1>8, MidSwitchInv

\* A due time-out of the domain of the new window.
LEMMA ProcTopInv ==
  ASSUME TpInv, NEW t \in Task, ProcTop(t)
  PROVE  TpInv' /\ OrderStep
<1> DEFINE s == WaitTmout(K, t)
           b == Released(Unbound(tcb[t]))
           T == tmevt \ {t}
<1>1. /\ phase = "proc" /\ t \in tmevt /\ Becomes(s) /\ UNCHANGED cpuvars /\ UNCHANGED tpvars
  BY DEF ProcTop
<1>2. IInv /\ SInv /\ PhaseOK
  BY DEF TpInv
<1>3. IsWaiting(tcb[t].tstat)
  BY <1>1, <1>2, TaskBefore DEF TcbOK
<1>4. Operation(s, t, b, T) /\ ~MustEnd(b) /\ t # runtsk
  BY <1>2, <1>3, ReleaseOperation
<1> HIDE DEF s, b, T
<1>5. Sound(K, s) /\ s.runtsk = runtsk /\ (~dspflg => s.schedtsk = schedtsk)
  BY <1>2, <1>4, OperationFacts
<1>6. Return(s)
  <2>1. intnest \/ s.runtsk = s.schedtsk
    <3>1. intnest \/ ~dspflg
      BY <1>1, <1>2 DEF PhaseOK
    <3> QED
      BY <1>2, <1>5, <3>1 DEF IInv, HeldRuns
  <2>2. DispatchIfNeeded(s) = s
    BY <2>1 DEF DispatchIfNeeded
  <2> QED
    BY <1>1, <2>2 DEF Return
<1>7. IInv' /\ CoreStep
  BY <1>2, <1>5, <1>6, ReturnOK
<1>8. SInv'
  BY <1>2, <1>4, <1>6, ReturnExact DEF SStep
<1>9. \A v \in Task : MustEnd(tcb'[v]) => MustEnd(tcb[v])
  BY <1>2, <1>4, <1>6, OperationRequests
<1> QED
  BY <1>1, <1>7, <1>8, <1>9, MidSwitchInv

\* What the end of a switch must show of the kernel and the timer.
LEMMA SwitchEnds ==
  ASSUME TpInv, phase = "proc", IInv', SInv', SchedtskExact(K'),
         UNCHANGED <<twdsched, idlesched>>,
         phase' = "none", caller' = NULL, UNCHANGED <<cursom, nxtsom, runtwd, scycreg, hstack>>,
         intnest' = intnest, pendscyc' = FALSE, pendtwd' = FALSE, ~PendScyc, ~PendTwd,
         timer' \in TimerState, timer'.enable = timer.enable, TimerOK', UserTimeIsCounted'
  PROVE  TpInv' /\ OrderStep
<1>1. PhaseOK /\ (Held \/ InHandler)
  BY DEF TpInv, PhaseOK
<1>2. /\ cursom' = cursom /\ nxtsom' = nxtsom /\ runtwd' = runtwd /\ scycreg' = scycreg
      /\ hstack' = hstack /\ twdsched' = twdsched /\ idlesched' = idlesched
  OBVIOUS
<1>3. hstack # <<"high">>
  <2>1. << >> # <<"high">>
    OBVIOUS
  <2> QED
    BY <1>1, <2>1 DEF PhaseOK
<1>4. PhaseOK'
  BY <1>1, <1>2, <1>3 DEF PhaseOK, Held, InHandler
<1>5. K' \in KState
  BY DEF IInv, WellTyped
<1>6. Sw' \in SwState
  BY <1>2, <1>5, SwTypes DEF Sw, SwState
<1>7. /\ Sw'.k = K' /\ Sw'.cursom = cursom /\ Sw'.runtwd = runtwd
      /\ Sw'.scycreg = scycreg /\ Sw'.timer = timer'
      /\ K'.twdsched = K.twdsched /\ K'.idlesched = K.idlesched
  BY <1>2 DEF Sw, K
<1>8. ~PendScyc' /\ ~PendTwd'
  BY DEF PendScyc, PendTwd
<1>9. WindowOK(Sw', PendScyc', PendTwd')
  BY <1>7, <1>8, SwFields DEF TpInv, PendingOK, WindowOK
<1>10. PendingOK'
  BY <1>6, <1>8, <1>9 DEF PendingOK
<1>11. SelectOK'
  BY DEF SelectOK, Held
<1> QED
  BY <1>2, <1>4, <1>10, <1>11 DEF TpInv, OrderStep

\* set_dspflg and its caller, or chg_som, make dispatching possible again.
LEMMA FinishTaskInv ==
  ASSUME TpInv, Finish, FinishTask
  PROVE  TpInv' /\ OrderStep
<1> DEFINE s == SetDspflg(K)
<1>1. /\ phase = "proc" /\ phase' = "none" /\ caller' = NULL
      /\ UNCHANGED <<cursom, nxtsom, runtwd, scycreg, hstack>>
  BY DEF Finish
<1>2. /\ caller \in {"ena", "ext", "som"} /\ ipm' = FALSE
      /\ enadsp' = enadsp /\ lock' = lock /\ intnest' = intnest
      /\ CASE caller = "ena" -> Dispatched(AfterEnable(s), Ended(s))
           [] caller = "ext" -> Dispatched(AfterExt(s), TRUE)
           [] caller = "som" -> Dispatched(DispatchIfNeeded(s), FALSE)
      /\ IF caller = "som" THEN UNCHANGED <<pendscyc, pendtwd>>
         ELSE pendscyc' = FALSE /\ pendtwd' = FALSE
  BY DEF FinishTask
<1>3. /\ IInv /\ SInv /\ PhaseOK /\ Held /\ timer \in TimerState /\ UserTimeIsCounted
  BY <1>1, <1>2, SwTypes DEF TpInv, Held
<1>4. /\ ~dspflg /\ enadsp = TRUE /\ lock = FALSE /\ intnest = FALSE /\ runtsk # NULL
  BY <1>1, <1>3 DEF PhaseOK, IInv, TypeOK
<1>5. TskCtxUnl /\ SchedtskExact(K)
  BY <1>4 DEF TskCtxUnl, SchedtskExact, K
<1>6. /\ WellTyped(s) /\ s.dspflg = TRUE /\ s.runtsk = runtsk
      /\ s.twdsched = twdsched /\ s.idlesched = idlesched
      /\ Agree(s, Place(s)) /\ SchedtskExact(s) /\ s.tcb = tcb /\ s.tmevt = tmevt
  BY <1>3, SetDspflgOK, SetDspflgExact
<1>7. /\ caller = "ena" => EnableDispatch
      /\ caller = "ext" => TerminateSelf(s)
      /\ caller = "som" => EnableDispatch
  <2>1. caller = "ena" => EnableDispatch
    <3>1. Ended(s) = Ended(K)
      BY DEF Ended
    <3> QED
      BY <1>2, <3>1, AfterEnableIs
  <2>2. caller = "ext" => TerminateSelf(s)
    BY <1>2, <1>6 DEF Dispatched, AfterExt, TerminateSelf
  <2>3. caller = "som" => EnableDispatch
    <3>1. caller = "som" => ~MustEnd(tcb[runtsk])
      BY <1>3, <1>4, RunningTask DEF TpInv, SelectOK
    <3> QED
      BY <1>2, <3>1 DEF EnableDispatch, Dispatched, MustEnd
  <2> QED
    BY <2>1, <2>2, <2>3
<1> HIDE DEF s
<1>8. IInv' /\ CoreStep /\ SStep
  <2>1. CASE EnableDispatch
    BY <1>2, <1>3, <1>4, <1>5, <2>1, EnableDispatchOK, EnableDispatchExact
  <2>2. CASE TerminateSelf(s)
    <3>1. enadsp' = TRUE /\ lock' \in BOOLEAN /\ intnest' = FALSE
      BY <1>2, <1>4
    <3> QED
      BY <1>2, <1>3, <1>4, <1>6, <2>2, <3>1, TerminateSelfOK, TerminateSelfExact
  <2> QED
    BY <1>2, <1>7, <2>1, <2>2
<1>9. SInv' /\ SchedtskExact(K') /\ UNCHANGED <<twdsched, idlesched>>
  BY <1>5, <1>8 DEF SStep, CoreStep
<1>10. pendscyc' = FALSE /\ pendtwd' = FALSE /\ ~PendScyc /\ ~PendTwd
  <2>1. CASE caller = "som"
    <3>1. ~pendscyc /\ ~pendtwd
      BY <1>3, <2>1 DEF TpInv, PendingOK
    <3> QED
      BY <1>2, <2>1, <3>1, SwTypes DEF PendScyc, PendTwd
  <2>2. CASE caller # "som"
    BY <1>1, <1>2, <2>2 DEF PendScyc, PendTwd, Resumed
  <2> QED
    BY <2>1, <2>2
<1>11. \/ timer' = timer /\ runtsk' = runtsk
       \/ timer' = TimerFor(timer, runtsk')
  BY <1>2, DispatchedTimer
<1>12. /\ timer' \in TimerState /\ timer'.enable = timer.enable
       /\ UserTimeIsCounted'
  <2>1. CASE timer' = timer /\ runtsk' = runtsk
    BY <1>2, <1>3, <2>1 DEF UserTimeIsCounted
  <2>2. CASE timer' = TimerFor(timer, runtsk')
    <3>1. /\ timer' \in TimerState /\ timer'.enable = timer.enable
          /\ timer.enable /\ (runtsk' = NULL \/ UnitOf[runtsk'] # KERNEL) => timer'.flag = TRUE
      BY <1>3, <2>2, TimerFacts
    <3> QED
      BY <3>1 DEF UserTimeIsCounted
  <2> QED
    BY <1>11, <2>1, <2>2
<1>13. TimerOK'
  BY <1>2, <1>4 DEF TimerOK
<1> QED
  BY <1>1, <1>2, <1>8, <1>9, <1>10, <1>12, <1>13, SwitchEnds

\* A timer handler ends its switch with update_schedtsk.
LEMMA FinishHandlerInv ==
  ASSUME TpInv, Finish, FinishHandler
  PROVE  TpInv' /\ OrderStep
<1> DEFINE s == SetDspflg(K)
<1>1. /\ phase = "proc" /\ phase' = "none" /\ caller' = NULL
      /\ UNCHANGED <<cursom, nxtsom, runtwd, scycreg, hstack>>
  BY DEF Finish
<1>2. /\ caller \in {"scyc", "twd"} /\ Becomes(UpdateSchedtsk(K)) /\ UNCHANGED cpuvars
      /\ timer' = timer /\ pendscyc' = pendscyc /\ pendtwd' = pendtwd
  BY DEF FinishHandler
<1>3. /\ IInv /\ SInv /\ PhaseOK /\ InHandler /\ timer \in TimerState /\ TimerOK
  BY <1>1, <1>2, SwTypes DEF TpInv, InHandler
<1>4. dspflg = TRUE /\ intnest
  BY <1>3 DEF PhaseOK, IInv, TypeOK, K, KState
<1>5. UpdateSchedtsk(K) = s
  <2>1. K \in KState /\ K.dspflg = TRUE
    BY <1>3, <1>4 DEF IInv, WellTyped, K
  <2>2. [K EXCEPT !.dspflg = TRUE] = K
    BY <2>1 DEF KState
  <2> QED
    BY <2>2 DEF SetDspflg
<1>6. /\ WellTyped(s) /\ s.dspflg = TRUE /\ s.runtsk = runtsk
      /\ s.twdsched = twdsched /\ s.idlesched = idlesched
      /\ Agree(s, Place(s)) /\ SchedtskExact(s) /\ s.tcb = tcb /\ s.tmevt = tmevt
  BY <1>3, SetDspflgOK, SetDspflgExact
<1> HIDE DEF s
<1>7. K' = s
  BY <1>2, <1>5, <1>6, BecomesK
<1>8. /\ dspflg' = TRUE /\ runtsk' = runtsk /\ twdsched' = twdsched /\ idlesched' = idlesched
  BY <1>2, <1>5, <1>6 DEF Becomes
<1>9. enadsp' = enadsp /\ ipm' = ipm /\ lock' = lock /\ intnest' = intnest
  BY <1>2 DEF cpuvars
<1>10. TasksOK(s) /\ RequestsOK(s) /\ RunningOK(s)
  <2>1. /\ K.tcb = tcb /\ K.tmevt = tmevt /\ K.runtsk = runtsk /\ K.dspflg = TRUE
    BY <1>4 DEF K
  <2> QED
    BY <1>3, <1>6, <2>1 DEF SInv, TasksOK, RequestsOK, RunningOK
<1>11. SInv' /\ SchedtskExact(K')
  BY <1>6, <1>7, <1>10 DEF SInv
<1>12. IInv'
  BY <1>3, <1>4, <1>6, <1>7, <1>8, <1>9
     DEF IInv, TypeOK, WellTyped, DspflgExact, RunsWhatIsScheduled, HeldRuns
<1>13. pendscyc' = FALSE /\ pendtwd' = FALSE /\ ~PendScyc /\ ~PendTwd
  <2>1. ~pendscyc /\ ~pendtwd
    BY <1>4 DEF TpInv, PendingOK
  <2> QED
    BY <1>2, <2>1, SwTypes DEF PendScyc, PendTwd
<1>14. TimerOK' /\ UserTimeIsCounted'
  BY <1>2, <1>3, <1>4, <1>9 DEF TimerOK, UserTimeIsCounted
<1> QED
  BY <1>1, <1>2, <1>3, <1>8, <1>9, <1>11, <1>12, <1>13, <1>14, SwitchEnds

-----------------------------------------------------------------------------
(* The invariant is inductive. *)

\* The system starts without a mode: the kernel domain's unit is the only one.
LEMMA TpInitOK == TpInit => TpInv
<1> SUFFICES ASSUME TpInit PROVE TpInv
  OBVIOUS
<1> DEFINE k == [InitK EXCEPT !.twdsched = KERNEL, !.idlesched = KERNEL]
           s == MakeActive(k, Main)
           x == Dispatch(s)
<1>1. IsStart(k) /\ k.twdsched = KERNEL /\ k.idlesched = KERNEL
  <2>1. InitK \in KState /\ \A u \in Unit, p \in Pri : p \notin InitK.primap[u]
    BY InitTyped DEF WellTyped, InitK
  <2>2. k = WithUnits(InitK, KERNEL, KERNEL)
    BY DEF WithUnits, InitK
  <2>3. /\ k \in KState /\ MovedUnits(InitK, k) /\ k.twdsched = KERNEL
        /\ k.idlesched = KERNEL
    BY <2>1, <2>2, UnitsMove, KernelAssumption
  <2> HIDE DEF k
  <2>4. /\ k.tcb = [t \in Task |-> InitTCB(t)]
        /\ k.ready = [u \in Unit |-> [p \in Pri |-> << >>]]
        /\ k.primap = [u \in Unit |-> {}] /\ k.predtsk = [u \in Unit |-> NULL]
        /\ k.tmevt = {} /\ k.schedtsk = NULL /\ k.dspflg = TRUE
    BY <2>3 DEF MovedUnits, InitK
  <2> QED
    BY <2>3, <2>4 DEF IsStart, WellTyped
<1> HIDE DEF k
<1>2. Settled(x) /\ WellTyped(x) /\ s.dspflg = TRUE
  BY <1>1, StartExact
<1>3. Sound(k, s)
  BY <1>1, MakeActiveSound, TaskAssumption DEF IsStart
<1>4. s.twdsched = KERNEL /\ s.idlesched = KERNEL /\ WellTyped(s)
  BY <1>1, <1>3 DEF Sound, KeepsSched
<1> HIDE DEF s
<1>5. /\ x.dspflg = TRUE /\ x.runtsk = x.schedtsk
      /\ x.twdsched = KERNEL /\ x.idlesched = KERNEL
  BY <1>2, <1>4 DEF Dispatch, WellTyped, KState
<1> HIDE DEF x
<1>6. /\ tcb = x.tcb /\ ready = x.ready /\ primap = x.primap
      /\ predtsk = x.predtsk /\ wque = x.wque /\ tmevt = x.tmevt
      /\ runtsk = x.runtsk /\ schedtsk = x.schedtsk
      /\ twdsched = x.twdsched /\ idlesched = x.idlesched /\ dspflg = x.dspflg
  BY DEF TpInit, x, s, k
<1>7. K = x
  BY <1>2, <1>6 DEF K, WellTyped, KState
<1>8. /\ enadsp = TRUE /\ ipm = FALSE /\ lock = FALSE /\ intnest = FALSE
      /\ cursom = NULL /\ nxtsom = NULL /\ runtwd = 0 /\ scycreg = FALSE
      /\ pendscyc = FALSE /\ pendtwd = FALSE
      /\ timer = [enable |-> FALSE, flag |-> FALSE, left |-> 0, hw |-> 0, req |-> FALSE]
      /\ hstack = << >> /\ phase = "none" /\ caller = NULL
  BY DEF TpInit
<1>9. IInv
  BY <1>2, <1>5, <1>6, <1>7, <1>8
     DEF IInv, TypeOK, WellTyped, DspflgExact, RunsWhatIsScheduled, HeldRuns
<1>10. SInv /\ SchedtskExact(K)
  BY <1>2, <1>7 DEF SInv, Settled
<1>11. PhaseOK
  <2>1. << >> # <<"high">> /\ << >> \in Stack
    BY DEF Stack
  <2> QED
    BY <1>8, <2>1 DEF PhaseOK, Held, InHandler
<1>12. timer \in TimerState /\ timer.enable = FALSE
  BY <1>8 DEF TimerState
<1>13. PendingOK
  <2>1. K \in KState
    BY <1>9 DEF IInv, WellTyped
  <2>2. Sw \in SwState
    BY <1>8, <1>12, <2>1 DEF Sw, SwState
  <2>3. ~PendScyc /\ ~PendTwd
    BY <1>8 DEF PendScyc, PendTwd
  <2>4. K.twdsched = KERNEL /\ K.idlesched = KERNEL
    BY <1>5, <1>7
  <2>5. WindowOK(Sw, PendScyc, PendTwd)
    BY <1>8, <1>12, <2>3, <2>4, SwFields DEF WindowOK
  <2> QED
    BY <1>8, <2>2, <2>3, <2>5 DEF PendingOK
<1>14. TimerOK /\ UserTimeIsCounted
  BY <1>12 DEF TimerOK, UserTimeIsCounted
<1>15. SelectOK
  BY <1>8, <1>10 DEF SelectOK, Held
<1> QED
  BY <1>9, <1>10, <1>11, <1>13, <1>14, <1>15 DEF TpInv

\* A step that changes nothing.
LEMMA StutterInv ==
  ASSUME TpInv, UNCHANGED wvars
  PROVE  TpInv' /\ OrderStep
<1>1. UNCHANGED vars /\ UNCHANGED <<swvars, timer, hstack, phase, caller>>
  BY DEF wvars, tpvars
<1>2. /\ IInv' /\ SInv' /\ K' = K /\ tcb' = tcb /\ runtsk' = runtsk /\ dspflg' = dspflg
      /\ intnest' = intnest /\ enadsp' = enadsp /\ ipm' = ipm /\ lock' = lock
  BY <1>1, KernelSame DEF TpInv
<1>3. PhaseOK'
  BY <1>1, <1>2 DEF TpInv, PhaseOK, Held, InHandler
<1>4. TimerOK' /\ UserTimeIsCounted' /\ SelectOK'
  BY <1>1, <1>2 DEF TpInv, TimerOK, UserTimeIsCounted, SelectOK, Held
<1>5. timer' = timer /\ timer \in TimerState /\ (PendTwd => timer.left = 0 /\ ~timer.flag)
  BY <1>1, SwTypes DEF TpInv, PendingOK
<1>6. UNCHANGED <<swvars, caller, twdsched, idlesched>> /\ (phase' = "none" <=> phase = "none")
  BY <1>1 DEF vars, kvars
<1> QED
  BY <1>2, <1>3, <1>4, <1>5, <1>6, SteadyInv

\* Every step preserves the invariant and leaves a window only in order.
LEMMA TpNextOK ==
  ASSUME TpInv, [TpNext]_wvars
  PROVE  TpInv' /\ OrderStep
<1>1. CASE UNCHANGED wvars
  BY <1>1, StutterInv
<1>2. CASE Tick \/ NotifyCall \/ NotifyReturns
  BY <1>2, TickInv, NotifyCallInv, NotifyReturnsInv
<1>3. CASE Finish
  BY <1>3, FinishTaskInv, FinishHandlerInv DEF Finish
<1>4. CASE \E t \in Task : ProcTop(t) \/ SignalTimeout(t)
  BY <1>4, ProcTopInv, SignalTimeoutInv
<1>5. CASE ena_dsp_tp \/ ext_tsk_tp \/ ena_ter_tp
  BY <1>5, EnaDspInv, ExtTskInv, EnaTerInv
<1>6. CASE \E mask \in BOOLEAN : chg_ipm_tp(mask)
  BY <1>6, ChgIpmInv
<1>7. CASE \E m \in Som \union {NULL} : chg_som(m)
  BY <1>7, ChgSomInv
<1>8. CASE LowInterrupt \/ HighInterrupt \/ HrtInterrupt \/ TwdInterrupt
  BY <1>8, InterruptInv
<1>9. CASE scyc_switch \/ twd_switch \/ InterruptExit
  BY <1>9, ScycSwitchInv, TwdSwitchInv, InterruptExitInv
<1>10. CASE OtherCall
  BY <1>10, OtherCallInv
<1> QED
  BY <1>1, <1>2, <1>3, <1>4, <1>5, <1>6, <1>7, <1>8, <1>9, <1>10 DEF TpNext

\* The invariant holds in every reachable state.
LEMMA TpInvariantHolds == TpSpec => []TpInv
<1>1. TpInv /\ [TpNext]_wvars => TpInv'
  BY TpNextOK
<1> QED
  BY <1>1, TpInitOK, PTL DEF TpSpec

-----------------------------------------------------------------------------
(* The theorems. *)

\* The kernel data stay well typed with switches in the middle of which handlers
\* and time-outs run.
THEOREM TpTypeCorrect == TpSpec => []TypeOK
<1>1. TpInv => TypeOK
  BY DEF TpInv, IInv
<1> QED
  BY <1>1, TpInvariantHolds, PTL

\* The mode, the window, the units that may run, the timer, the event that ends
\* the cycle and what is pending agree outside a switch, however often switches
\* were held off.
THEOREM WindowConsistentCorrect == TpSpec => []WindowConsistent
<1>1. TpInv => WindowConsistent
  <2> SUFFICES ASSUME TpInv, phase = "none" PROVE WindowConsistent
    BY DEF WindowConsistent
  <2>1. /\ WindowOK(Sw, PendScyc, PendTwd) /\ PendScyc = pendscyc /\ PendTwd = pendtwd
        /\ dspflg => ~pendscyc /\ ~pendtwd
    BY OutsideSwitch DEF TpInv, PendingOK
  <2>2. Sw.k.twdsched = twdsched /\ Sw.k.idlesched = idlesched
    BY SwFields DEF K
  <2> QED
    BY <2>1, <2>2, SwFields DEF WindowOK, WindowConsistent
<1> QED
  BY <1>1, TpInvariantHolds, PTL

\* A user task or the idle loop never runs in a window whose timer stands.
THEOREM UserTimeCorrect == TpSpec => []UserTimeIsCounted
<1>1. TpInv => UserTimeIsCounted
  BY DEF TpInv
<1> QED
  BY <1>1, TpInvariantHolds, PTL

\* After every switch of window, cycle or mode the task of highest precedence of
\* the kernel domain and of the new window is scheduled and, outside handlers,
\* runs.
THEOREM WindowIsolationCorrect == TpSpec => []WindowIsolation
<1>1. TpInv => WindowIsolation
  <2> SUFFICES ASSUME TpInv, phase = "none" PROVE SchedtskIsBest /\ RunsWhatIsScheduled
    BY DEF WindowIsolation
  <2> QED
    BY BestOfInvariant DEF TpInv, IInv, SelectOK
<1> QED
  BY <1>1, TpInvariantHolds, PTL

\* Within a system cycle a window is left only for the next one, and only when
\* no time is left in it.
THEOREM WindowsInOrderCorrect == TpSpec => WindowsInOrder
<1>1. TpInv /\ [TpNext]_wvars => [OrderStep]_wvars
  BY TpNextOK
<1>2. [][OrderStep]_wvars => WindowsInOrder
  BY PTL DEF WindowsInOrder, OrderStep
<1> QED
  BY <1>1, <1>2, TpInvariantHolds, PTL DEF TpSpec
-----------------------------------------------------------------------------
(* Interrupt service routines. *)

\* In r the element e stands at position at, before what was there in q.
InsertedAt(q, at, e, r) ==
  /\ Len(r) = Len(q) + 1 /\ r[at] = e
  /\ \A k \in 1..(Len(q) + 1) : (k < at => r[k] = q[k]) /\ (k > at => r[k] = q[k - 1])

\* What InsertAt does to the elements and their order.
LEMMA InsertAtFacts ==
  ASSUME NEW S, NEW q \in Seq(S), NEW at \in 1..(Len(q) + 1), NEW e \in S,
         NEW r, r = InsertAt(q, at, e)
  PROVE  r \in Seq(S) /\ InsertedAt(q, at, e, r)
<1> DEFINE b == SubSeq(q, 1, at - 1)
           c == SubSeq(q, at, Len(q))
           d == b \o <<e>>
<1>1. /\ b \in Seq(S) /\ Len(b) = at - 1 /\ \A k \in 1..(at - 1) : b[k] = q[k]
      /\ c \in Seq(S) /\ Len(c) = Len(q) - at + 1
      /\ \A k \in 1..(Len(q) - at + 1) : c[k] = q[at + k - 1]
  OBVIOUS
<1>2. r = d \o c
  BY DEF InsertAt
<1> HIDE DEF b, c
<1>3. /\ d \in Seq(S) /\ Len(d) = at /\ d[at] = e /\ \A k \in 1..(at - 1) : d[k] = q[k]
  BY <1>1
<1> HIDE DEF d
<1>4. /\ r \in Seq(S) /\ Len(r) = Len(q) + 1
      /\ \A k \in 1..at : r[k] = d[k]
      /\ \A k \in 1..(Len(q) - at + 1) : r[at + k] = c[k]
  BY <1>1, <1>2, <1>3
<1>5. ASSUME NEW k \in 1..(Len(q) + 1)
      PROVE  (k < at => r[k] = q[k]) /\ (k > at => r[k] = q[k - 1])
  <2>1. CASE k < at
    BY <1>3, <1>4, <2>1
  <2>2. CASE k > at
    <3> DEFINE h == k - at
    <3>1. h \in 1..(Len(q) - at + 1) /\ at + h = k /\ at + h - 1 = k - 1
      BY <2>2
    <3> HIDE DEF h
    <3>2. r[at + h] = c[h] /\ c[h] = q[at + h - 1]
      BY <1>1, <1>4, <3>1
    <3> QED
      BY <2>2, <3>1, <3>2
  <2> QED
    BY <2>1, <2>2
<1> QED
  BY <1>3, <1>4, <1>5 DEF InsertedAt

InsertedOrder(q, at, e, r) ==
  \A x, y : Precedes(r, x, y) =>
    \/ Precedes(q, x, y)
    \/ y = e /\ \E k \in DOMAIN q : k < at /\ x = q[k]
    \/ x = e /\ \E k \in DOMAIN q : k >= at /\ y = q[k]

\* An element that is inserted is in the queue, at its place in the order.
LEMMA InsertAtQueue ==
  ASSUME NEW S, NEW q \in Seq(S), NEW at \in 1..(Len(q) + 1), NEW e \in S,
         NEW T, IsQueue(q, T), e \notin T, NEW r, r = InsertAt(q, at, e)
  PROVE  r \in Seq(S) /\ IsQueue(r, T \union {e}) /\ InsertedOrder(q, at, e, r)
<1>1. /\ r \in Seq(S) /\ Len(r) = Len(q) + 1 /\ r[at] = e
      /\ \A k \in 1..(Len(q) + 1) : (k < at => r[k] = q[k]) /\ (k > at => r[k] = q[k - 1])
  <2>1. r \in Seq(S) /\ InsertedAt(q, at, e, r)
    BY InsertAtFacts
  <2> QED
    BY <2>1 DEF InsertedAt
<1>2. /\ DOMAIN q = 1..Len(q) /\ DOMAIN r = 1..(Len(q) + 1) /\ Len(q) \in Nat /\ at \in Nat
  BY <1>1
<1>3. ASSUME NEW k \in DOMAIN r
      PROVE  \/ k < at /\ k \in DOMAIN q /\ r[k] = q[k] /\ r[k] \in T
             \/ k = at /\ r[k] = e
             \/ k > at /\ k - 1 \in DOMAIN q /\ r[k] = q[k - 1] /\ r[k] \in T
  <2>1. \A j \in DOMAIN q : q[j] \in T
    BY DEF IsQueue
  <2>2. k \in 1..(Len(q) + 1) /\ k \in Nat
    BY <1>2
  <2>3. CASE k < at
    BY <1>1, <1>2, <2>1, <2>2, <2>3
  <2>4. CASE k > at
    BY <1>1, <1>2, <2>1, <2>2, <2>4
  <2> QED
    BY <1>1, <1>2, <2>2, <2>3, <2>4
<1>4. \A i, j \in DOMAIN q : q[i] = q[j] => i = j
  BY DEF IsQueue
<1>5. ASSUME NEW i \in DOMAIN r, NEW j \in DOMAIN r, r[i] = r[j] PROVE i = j
  <2>1. i \in Nat /\ j \in Nat
    BY <1>2
  <2> QED
    BY <1>2, <1>3, <1>4, <1>5, <2>1
<1>6. {r[k] : k \in DOMAIN r} = T \union {e}
  <2>1. ASSUME NEW v \in T PROVE \E k \in DOMAIN r : r[k] = v
    <3>1. PICK k \in DOMAIN q : q[k] = v
      BY DEF IsQueue
    <3>2. k \in DOMAIN r /\ k + 1 \in DOMAIN r /\ k \in Nat /\ (k + 1) - 1 = k
      BY <1>2
    <3>3. k < at => r[k] = v
      BY <1>1, <1>2, <3>1, <3>2
    <3>4. k >= at => r[k + 1] = v
      BY <1>1, <1>2, <3>1, <3>2
    <3> QED
      BY <1>2, <3>2, <3>3, <3>4
  <2>2. at \in DOMAIN r
    BY <1>2
  <2> QED
    BY <1>1, <1>3, <2>1, <2>2
<1>7. ASSUME NEW x, NEW y, Precedes(r, x, y)
      PROVE  \/ Precedes(q, x, y)
             \/ y = e /\ \E k \in DOMAIN q : k < at /\ x = q[k]
             \/ x = e /\ \E k \in DOMAIN q : k >= at /\ y = q[k]
  <2>1. PICK i \in DOMAIN r, j \in DOMAIN r : i < j /\ r[i] = x /\ r[j] = y
    BY <1>7 DEF Precedes
  <2>2. i \in Nat /\ j \in Nat
    BY <1>2
  <2>3. CASE i < at /\ j < at
    <3>1. i \in DOMAIN q /\ j \in DOMAIN q /\ q[i] = x /\ q[j] = y
      BY <1>2, <1>3, <2>1, <2>2, <2>3
    <3> QED
      BY <2>1, <3>1 DEF Precedes
  <2>4. CASE i < at /\ j = at
    BY <1>2, <1>3, <2>1, <2>2, <2>4
  <2>5. CASE i < at /\ j > at
    <3>1. i \in DOMAIN q /\ j - 1 \in DOMAIN q /\ q[i] = x /\ q[j - 1] = y /\ i < j - 1
      BY <1>2, <1>3, <2>1, <2>2, <2>5
    <3> QED
      BY <3>1 DEF Precedes
  <2>6. CASE i = at /\ j > at
    <3>1. j - 1 \in DOMAIN q /\ q[j - 1] = y /\ j - 1 >= at /\ x = e
      BY <1>2, <1>3, <2>1, <2>2, <2>6
    <3> QED
      BY <3>1
  <2>7. CASE i > at /\ j > at
    <3>1. i - 1 \in DOMAIN q /\ j - 1 \in DOMAIN q /\ q[i - 1] = x /\ q[j - 1] = y /\ i - 1 < j - 1
      BY <1>2, <1>3, <2>1, <2>2, <2>7
    <3> QED
      BY <3>1 DEF Precedes
  <2> QED
    BY <1>2, <2>1, <2>2, <2>3, <2>4, <2>5, <2>6, <2>7
<1> QED
  BY <1>1, <1>5, <1>6, <1>7 DEF IsQueue, InsertedOrder

\* In z the element t stands behind all of T, which are in the same order as in s.
AppendedOrder(s, T, t, z) ==
  /\ \A x, y : Precedes(s, x, y) => Precedes(z, x, y)
  /\ \A x \in T : Precedes(z, x, t)

\* Appending keeps the order, and the new element is the last.
LEMMA AppendOrder ==
  ASSUME NEW S, NEW s \in Seq(S), NEW T, IsQueue(s, T), NEW t \in S, t \notin T,
         NEW r, r = Append(s, t)
  PROVE  r \in Seq(S) /\ IsQueue(r, T \union {t}) /\ AppendedOrder(s, T, t, r)
<1>1. /\ r \in Seq(S) /\ Len(s) \in Nat /\ DOMAIN s = 1..Len(s) /\ DOMAIN r = 1..(Len(s) + 1)
      /\ r[Len(s) + 1] = t /\ \A k \in 1..Len(s) : r[k] = s[k]
  OBVIOUS
<1>2. /\ \A i, j \in DOMAIN s : s[i] = s[j] => i = j
      /\ \A i \in DOMAIN s : s[i] \in T
      /\ \A x \in T : \E i \in DOMAIN s : s[i] = x
  BY DEF IsQueue
<1>3. \A k \in DOMAIN r : \/ k \in DOMAIN s /\ r[k] = s[k] /\ r[k] \in T
                          \/ k = Len(s) + 1 /\ r[k] = t
  BY <1>1, <1>2
<1>4. \A i, j \in DOMAIN r : r[i] = r[j] => i = j
  BY <1>2, <1>3
<1>5. {r[k] : k \in DOMAIN r} = T \union {t}
  <2>1. \A x \in T : \E k \in DOMAIN r : r[k] = x
    BY <1>1, <1>2
  <2>2. Len(s) + 1 \in DOMAIN r
    BY <1>1
  <2> QED
    BY <1>1, <1>3, <2>1, <2>2
<1>6. ASSUME NEW x, NEW y, Precedes(s, x, y) PROVE Precedes(r, x, y)
  <2>1. PICK i \in DOMAIN s, j \in DOMAIN s : i < j /\ s[i] = x /\ s[j] = y
    BY <1>6 DEF Precedes
  <2>2. i \in DOMAIN r /\ j \in DOMAIN r /\ r[i] = x /\ r[j] = y
    BY <1>1, <2>1
  <2> QED
    BY <2>1, <2>2 DEF Precedes
<1>7. ASSUME NEW x \in T PROVE Precedes(r, x, t)
  <2>1. PICK i \in DOMAIN s : s[i] = x
    BY <1>2
  <2>2. i \in DOMAIN r /\ Len(s) + 1 \in DOMAIN r /\ i < Len(s) + 1 /\ r[i] = x
    BY <1>1, <2>1
  <2> QED
    BY <1>1, <2>2 DEF Precedes
<1> QED
  BY <1>1, <1>4, <1>5, <1>6, <1>7 DEF IsQueue, AppendedOrder

\* In r the elements but t are in the same order as in q.
SameOrderBut(q, t, r) ==
  /\ \A x, y : Precedes(r, x, y) => Precedes(q, x, y) /\ x # t /\ y # t
  /\ \A x, y : Precedes(q, x, y) /\ x # t /\ y # t => Precedes(r, x, y)

\* Deleting an element keeps the others in their order.
LEMMA DeleteOrder ==
  ASSUME NEW S, NEW q \in Seq(S), NEW T, IsQueue(q, T), NEW t \in T,
         NEW r, r = queue_delete(q, t)
  PROVE  r \in Seq(S) /\ IsQueue(r, T \ {t}) /\ SameOrderBut(q, t, r)
<1>1. r = Without(q, t)
  BY DEF queue_delete, Without
<1>2. DOMAIN q = 1..Len(q) /\ Len(q) \in Nat
  OBVIOUS
<1>3. PICK k \in DOMAIN q : q[k] = t
  BY DEF IsQueue
<1>4. \A j \in DOMAIN q : q[j] = t => j = k
  BY <1>3 DEF IsQueue
<1>5. \A i \in 1..(Len(q) - 1) : (\A j \in 1..i : q[j] # t) <=> i < k
  BY <1>2, <1>3, <1>4
<1>6. DOMAIN r = 1..(Len(q) - 1)
  BY DEF queue_delete
<1>7. \A i \in DOMAIN r : (i < k /\ r[i] = q[i]) \/ (i >= k /\ r[i] = q[i + 1])
  BY <1>2, <1>3, <1>5, <1>6 DEF queue_delete
<1>8. r \in Seq(S) /\ IsQueue(r, T \ {t})
  BY <1>1, WithoutType, WithoutQueue
<1>9. ASSUME NEW x, NEW y, Precedes(r, x, y)
      PROVE  Precedes(q, x, y) /\ x # t /\ y # t
  <2>1. PICK i \in DOMAIN r, j \in DOMAIN r : i < j /\ r[i] = x /\ r[j] = y
    BY <1>9 DEF Precedes
  <2>2. /\ i \in Nat /\ j \in Nat /\ k \in Nat
        /\ i \in DOMAIN q /\ i + 1 \in DOMAIN q /\ j \in DOMAIN q /\ j + 1 \in DOMAIN q
    BY <1>2, <1>3, <1>6
  <2>3. x # t /\ y # t
    BY <1>8, <2>1 DEF IsQueue
  <2>4. CASE j < k
    BY <1>7, <2>1, <2>2, <2>3, <2>4 DEF Precedes
  <2>5. CASE i < k /\ j >= k
    <3>1. q[i] = x /\ q[j + 1] = y /\ i < j + 1
      BY <1>7, <2>1, <2>2, <2>5
    <3> QED
      BY <2>2, <2>3, <3>1 DEF Precedes
  <2>6. CASE i >= k
    <3>1. q[i + 1] = x /\ q[j + 1] = y /\ i + 1 < j + 1
      BY <1>7, <2>1, <2>2, <2>6
    <3> QED
      BY <2>2, <2>3, <3>1 DEF Precedes
  <2> QED
    BY <2>1, <2>2, <2>4, <2>5, <2>6
<1>10. ASSUME NEW x, NEW y, Precedes(q, x, y), x # t, y # t PROVE Precedes(r, x, y)
  <2>1. PICK i \in DOMAIN q, j \in DOMAIN q : i < j /\ q[i] = x /\ q[j] = y
    BY <1>10 DEF Precedes
  <2>2. i \in Nat /\ j \in Nat /\ k \in Nat /\ i # k /\ j # k
    BY <1>2, <1>3, <1>10, <2>1
  <2> DEFINE p(h) == IF h < k THEN h ELSE h - 1
  <2>3. \A h \in DOMAIN q : h # k => p(h) \in DOMAIN r /\ r[p(h)] = q[h]
    <3> TAKE h \in DOMAIN q
    <3> HAVE h # k
    <3>1. h \in Nat /\ k \in Nat
      BY <1>2, <1>3
    <3>2. CASE h < k
      <4>1. h \in DOMAIN r
        BY <1>2, <1>3, <1>6, <3>1, <3>2
      <4> QED
        BY <1>7, <3>1, <3>2, <4>1
    <3>3. CASE h > k
      <4>1. h - 1 \in DOMAIN r /\ h - 1 >= k /\ (h - 1) + 1 = h
        BY <1>2, <1>3, <1>6, <3>1, <3>3
      <4> QED
        BY <1>7, <3>1, <3>3, <4>1
    <3> QED
      BY <3>1, <3>2, <3>3
  <2>4. p(i) < p(j)
    BY <2>1, <2>2
  <2> HIDE DEF p
  <2> QED
    BY <2>1, <2>2, <2>3, <2>4 DEF Precedes
<1> QED
  BY <1>8, <1>9, <1>10 DEF SameOrderBut

\* The routines of q are in the order of their priorities.
ByPriority(q, init) ==
  \A x, y : Precedes(q, x, y) => init[x].isrpri <= init[y].isrpri

\* In r the routine i was added to those of q, T, behind those of its priority.
EnqueuedIn(q, T, i, init, r) ==
  \A x, y : Precedes(r, x, y) =>
    \/ Precedes(q, x, y)
    \/ y = i /\ x \in T /\ init[x].isrpri <= init[i].isrpri
    \/ x = i /\ y \in T /\ init[i].isrpri < init[y].isrpri

\* enqueue_isr puts a routine behind those of its priority.
LEMMA EnqueueFacts ==
  ASSUME NEW q \in Seq(Isr), NEW T, IsQueue(q, T), NEW i \in Isr, i \notin T, NEW init,
         \A x \in T \union {i} : init[x].isrpri \in Nat, ByPriority(q, init),
         NEW r, r = enqueue_isr(q, i, init)
  PROVE  r \in Seq(Isr) /\ IsQueue(r, T \union {i}) /\ EnqueuedIn(q, T, i, init, r)
<1> DEFINE later == {k \in 1..Len(q) : init[i].isrpri < init[q[k]].isrpri}
           at == IF later = {} THEN Len(q) + 1 ELSE CHOOSE k \in later : \A j \in later : k <= j
<1>1. r = InsertAt(q, at, i)
  BY DEF enqueue_isr
<1>2. /\ DOMAIN q = 1..Len(q) /\ Len(q) \in Nat /\ later \in SUBSET Nat
      /\ \A k \in DOMAIN q : q[k] \in T /\ init[q[k]].isrpri \in Nat
      /\ init[i].isrpri \in Nat
  BY DEF IsQueue
<1>3. later # {} => at \in later /\ \A j \in later : at <= j
  <2> SUFFICES ASSUME later # {}
               PROVE  at \in later /\ \A j \in later : at <= j
    OBVIOUS
  <2>1. \E k \in later : \A j \in later : k <= j
    <3> HIDE DEF later
    <3> QED
      BY <1>2, LeastNumber
  <2> HIDE DEF later
  <2> QED
    BY <2>1
<1>4. at \in 1..(Len(q) + 1) /\ at \in Nat
  <2>1. CASE later = {}
    BY <1>2, <2>1
  <2>2. CASE later # {}
    <3>1. at \in 1..Len(q)
      BY <1>3, <2>2
    <3> HIDE DEF at
    <3> QED
      BY <1>2, <3>1
  <2> QED
    BY <2>1, <2>2
<1>5. ASSUME NEW k \in DOMAIN q, k < at PROVE init[q[k]].isrpri <= init[i].isrpri
  <2>1. k \notin later
    <3>1. CASE later = {}
      BY <3>1
    <3>2. CASE later # {}
      <4>1. \A j \in later : at <= j
        BY <1>3, <3>2
      <4>2. k \in Nat
        BY <1>2
      <4> HIDE DEF at, later
      <4> QED
        BY <1>4, <1>5, <4>1, <4>2
    <3> QED
      BY <3>1, <3>2
  <2> HIDE DEF at
  <2> QED
    BY <1>2, <2>1
<1>6. ASSUME NEW k \in DOMAIN q, k >= at PROVE init[i].isrpri < init[q[k]].isrpri
  <2>1. k \in Nat /\ k <= Len(q)
    BY <1>2
  <2>2. later # {}
    <3> SUFFICES ASSUME later = {} PROVE FALSE
      OBVIOUS
    <3>1. at = Len(q) + 1
      OBVIOUS
    <3> HIDE DEF at
    <3> QED
      BY <1>2, <1>6, <2>1, <3>1
  <2>3. at \in DOMAIN q /\ init[i].isrpri < init[q[at]].isrpri
    <3>1. at \in later
      BY <1>3, <2>2
    <3> HIDE DEF at
    <3> QED
      BY <1>2, <3>1
  <2> HIDE DEF at
  <2>4. init[q[at]].isrpri <= init[q[k]].isrpri
    <3>1. CASE k = at
      BY <1>2, <3>1
    <3>2. CASE k > at
      BY <1>2, <2>3, <3>2 DEF Precedes, ByPriority
    <3> QED
      BY <1>4, <1>6, <2>1, <3>1, <3>2
  <2> QED
    BY <1>2, <2>3, <2>4
<1> HIDE DEF at, later
<1>7. r \in Seq(Isr) /\ IsQueue(r, T \union {i}) /\ InsertedOrder(q, at, i, r)
  BY <1>1, <1>4, InsertAtQueue
<1>8. ASSUME NEW x, NEW y, Precedes(r, x, y)
      PROVE  \/ Precedes(q, x, y)
             \/ y = i /\ x \in T /\ init[x].isrpri <= init[i].isrpri
             \/ x = i /\ y \in T /\ init[i].isrpri < init[y].isrpri
  <2>1. CASE y = i /\ \E k \in DOMAIN q : k < at /\ x = q[k]
    BY <1>2, <1>5, <2>1
  <2>2. CASE x = i /\ \E k \in DOMAIN q : k >= at /\ y = q[k]
    BY <1>2, <1>6, <2>2
  <2> QED
    BY <1>7, <1>8, <2>1, <2>2 DEF InsertedOrder
<1> QED
  BY <1>7, <1>8 DEF EnqueuedIn

\* The routines T of a line in the order in which they are called, for the given
\* priorities and order of creation.
RunsBefore(init, cr, x, y) ==
  \/ init[x].isrpri < init[y].isrpri
  \/ init[x].isrpri = init[y].isrpri /\ Precedes(cr, x, y)

LineOK(q, T, init, cr) ==
  /\ q \in Seq(Isr) /\ IsQueue(q, T) /\ \A x \in T : init[x].isrpri \in Nat
  /\ \A x, y : Precedes(q, x, y) => RunsBefore(init, cr, x, y)

\* Who precedes another in a queue is in it.
LEMMA PrecedesIn ==
  ASSUME NEW q, NEW T, IsQueue(q, T), NEW x, NEW y, Precedes(q, x, y)
  PROVE  x \in T /\ y \in T
BY DEF IsQueue, Precedes

\* A routine that is created is put into the queue of its line.
LEMMA LineEnqueued ==
  ASSUME NEW q, NEW T, NEW init, NEW cr \in Seq(Isr), LineOK(q, T, init, cr),
         NEW E, IsQueue(cr, E), T \subseteq E, NEW i \in Isr, i \notin E, NEW init2,
         init2[i].isrpri \in Nat, \A x \in T : init2[x] = init[x],
         NEW r, r = enqueue_isr(q, i, init2), NEW cr2, cr2 = Append(cr, i)
  PROVE  LineOK(r, T \union {i}, init2, cr2)
<1>1. /\ q \in Seq(Isr) /\ IsQueue(q, T) /\ i \notin T
      /\ \A x \in T \union {i} : init2[x].isrpri \in Nat
      /\ \A x, y : Precedes(q, x, y) => RunsBefore(init, cr, x, y)
  BY DEF LineOK
<1>2. /\ \A x, y : Precedes(cr, x, y) => Precedes(cr2, x, y)
      /\ \A x \in E : Precedes(cr2, x, i)
  <2>1. AppendedOrder(cr, E, i, cr2)
    BY AppendOrder
  <2> QED
    BY <2>1 DEF AppendedOrder
<1>3. ASSUME NEW x, NEW y, Precedes(q, x, y)
      PROVE  RunsBefore(init2, cr2, x, y) /\ init2[x].isrpri <= init2[y].isrpri
  <2>1. x \in T /\ y \in T /\ RunsBefore(init, cr, x, y)
    BY <1>1, <1>3, PrecedesIn
  <2> QED
    BY <1>1, <1>2, <2>1 DEF RunsBefore
<1>4. r \in Seq(Isr) /\ IsQueue(r, T \union {i}) /\ EnqueuedIn(q, T, i, init2, r)
  <2>1. ByPriority(q, init2)
    BY <1>3 DEF ByPriority
  <2> QED
    BY <1>1, <2>1, EnqueueFacts
<1>5. ASSUME NEW x, NEW y, Precedes(r, x, y) PROVE RunsBefore(init2, cr2, x, y)
  <2>1. CASE Precedes(q, x, y)
    BY <1>3, <2>1
  <2>2. CASE y = i /\ x \in T /\ init2[x].isrpri <= init2[i].isrpri
    BY <1>1, <1>2, <2>2 DEF RunsBefore
  <2>3. CASE x = i /\ y \in T /\ init2[i].isrpri < init2[y].isrpri
    BY <2>3 DEF RunsBefore
  <2> QED
    BY <1>4, <1>5, <2>1, <2>2, <2>3 DEF EnqueuedIn
<1> QED
  BY <1>1, <1>4, <1>5 DEF LineOK

\* The queues of the other lines stay as they are.
LEMMA LineKept ==
  ASSUME NEW q, NEW T, NEW init, NEW cr, LineOK(q, T, init, cr), NEW init2, NEW cr2,
         \A x \in T : init2[x] = init[x],
         \A x \in T, y \in T : Precedes(cr, x, y) => Precedes(cr2, x, y)
  PROVE  LineOK(q, T, init2, cr2)
<1>1. \A x, y : Precedes(q, x, y) => x \in T /\ y \in T /\ RunsBefore(init, cr, x, y)
  BY PrecedesIn DEF LineOK
<1>2. \A x, y : Precedes(q, x, y) => RunsBefore(init2, cr2, x, y)
  BY <1>1 DEF RunsBefore
<1> QED
  BY <1>2 DEF LineOK

\* A routine that is deleted leaves the queue of its line.
LEMMA LineDeleted ==
  ASSUME NEW q, NEW T, NEW init, NEW cr \in Seq(Isr), LineOK(q, T, init, cr),
         NEW E, IsQueue(cr, E), T \subseteq E, NEW i \in T, NEW init2,
         \A x \in T \ {i} : init2[x] = init[x],
         NEW r, r = queue_delete(q, i), NEW cr2, cr2 = queue_delete(cr, i)
  PROVE  LineOK(r, T \ {i}, init2, cr2)
<1>1. /\ q \in Seq(Isr) /\ IsQueue(q, T) /\ i \in E
      /\ \A x \in T : init[x].isrpri \in Nat
      /\ \A x, y : Precedes(q, x, y) => RunsBefore(init, cr, x, y)
  BY DEF LineOK
<1>2. \A x, y : Precedes(cr, x, y) /\ x # i /\ y # i => Precedes(cr2, x, y)
  <2>1. SameOrderBut(cr, i, cr2)
    BY <1>1, DeleteOrder
  <2> QED
    BY <2>1 DEF SameOrderBut
<1>3. /\ r \in Seq(Isr) /\ IsQueue(r, T \ {i})
      /\ \A x, y : Precedes(r, x, y) => Precedes(q, x, y) /\ x # i /\ y # i
  <2>1. r \in Seq(Isr) /\ IsQueue(r, T \ {i}) /\ SameOrderBut(q, i, r)
    BY <1>1, DeleteOrder
  <2> QED
    BY <2>1 DEF SameOrderBut
<1>4. LineOK(r, T \ {i}, init, cr2)
  <2>1. ASSUME NEW x, NEW y, Precedes(r, x, y) PROVE RunsBefore(init, cr2, x, y)
    <3>1. RunsBefore(init, cr, x, y) /\ x # i /\ y # i
      BY <1>1, <1>3, <2>1
    <3> QED
      BY <1>2, <3>1 DEF RunsBefore
  <2> QED
    BY <1>1, <1>3, <2>1 DEF LineOK
<1> QED
  BY <1>4, LineKept

\* The existing routines of line n.
Routines(n, init) == {i \in Isr : init[i] # NOEXS /\ init[i].intno = n}

\* The queue of line n after the first k static routines, for k up to m.
NextQueue(n, q, i) ==
  IF StaticIsr[i].intno = n THEN enqueue_isr(q, i, InitialIsr) ELSE q

QueueUpTo(n, r, m) ==
  r = [k \in 0..m |-> IF k = 0 THEN << >> ELSE NextQueue(n, r[k - 1], isrorder_table[k])]

\* They exist.
LEMMA QueueUpToExists ==
  ASSUME NEW n, NEW len \in Nat
  PROVE  \E r : QueueUpTo(n, r, len)
<1> DEFINE Bad == {m \in Nat : ~\E r : QueueUpTo(n, r, m)}
           Nxt(q, k) == NextQueue(n, q, isrorder_table[k])
<1> SUFFICES ASSUME Bad # {} PROVE FALSE
  OBVIOUS
<1> HIDE DEF Nxt
<1>1. PICK m \in Bad : \A k \in Bad : m <= k
  BY LeastNumber
<1>2. m # 0
  <2>1. QueueUpTo(n, [k \in 0..0 |-> << >>], 0)
    BY DEF QueueUpTo
  <2> QED
    BY <2>1
<1>3. m \in Nat /\ m - 1 \in Nat /\ m - 1 \notin Bad
  BY <1>1, <1>2
<1>4. PICK r : QueueUpTo(n, r, m - 1)
  BY <1>3
<1> DEFINE f == [k \in 0..m |-> IF k = m THEN Nxt(r[m - 1], m) ELSE r[k]]
<1>5. \A k \in 0..(m - 1) : r[k] = IF k = 0 THEN << >> ELSE Nxt(r[k - 1], k)
  BY <1>4 DEF QueueUpTo, Nxt
<1>6. \A k \in 0..m : f[k] = IF k = 0 THEN << >> ELSE Nxt(f[k - 1], k)
  <2> TAKE k \in 0..m
  <2>1. CASE k = 0
    BY <1>2, <1>3, <1>5, <2>1
  <2>2. CASE k = m
    <3>1. f[k - 1] = r[m - 1] /\ f[k] = Nxt(r[m - 1], m)
      BY <1>3, <2>2
    <3> QED
      BY <1>2, <2>2, <3>1
  <2>3. CASE k # 0 /\ k # m
    <3>1. k \in 0..(m - 1) /\ f[k] = r[k] /\ f[k - 1] = r[k - 1]
      BY <1>3, <2>3
    <3> QED
      BY <1>5, <2>3, <3>1
  <2> QED
    BY <2>1, <2>2, <2>3
<1>7. QueueUpTo(n, f, m)
  <2>1. f = [k \in 0..m |-> f[k]]
    OBVIOUS
  <2> HIDE DEF f
  <2> QED
    BY <1>6, <2>1 DEF QueueUpTo, Nxt
<1> QED
  BY <1>1, <1>7

\* What the assumption says of the static routines.
LEMMA StaticFacts ==
  /\ isrorder_table \in Seq(Isr) /\ IsQueue(isrorder_table, DOMAIN StaticIsr)
  /\ DynIsr \in Seq(Isr) /\ IsQueue(DynIsr, Isr \ DOMAIN StaticIsr)
  /\ InitialIsr \in [Isr -> [intno : IntNo, isrpri : IsrPri] \union {NOEXS}]
  /\ DOMAIN StaticIsr = {i \in Isr : InitialIsr[i] # NOEXS} /\ DOMAIN StaticIsr \subseteq Isr
  /\ \A i \in DOMAIN StaticIsr : /\ InitialIsr[i] = StaticIsr[i] /\ InitialIsr[i] # NOEXS
                                 /\ InitialIsr[i].isrpri \in Nat
<1>1. isrorder_table \in Seq(Isr) /\ IsQueue(isrorder_table, DOMAIN StaticIsr)
  BY InterruptAssumption DEF IsQueue, IsInjective, Range
<1>2. DynIsr \in Seq(Isr) /\ IsQueue(DynIsr, Isr \ DOMAIN StaticIsr)
  BY InterruptAssumption DEF IsQueue, IsInjective, Range
<1>3. DOMAIN StaticIsr \subseteq Isr
  BY <1>1 DEF IsQueue
<1>4. ASSUME NEW i \in DOMAIN StaticIsr
      PROVE  /\ InitialIsr[i] = StaticIsr[i] /\ InitialIsr[i] # NOEXS
             /\ InitialIsr[i] \in [intno : IntNo, isrpri : IsrPri]
             /\ InitialIsr[i].isrpri \in Nat
  <2>1. StaticIsr[i] \in [intno : IntNo, isrpri : IsrPri]
    BY InterruptAssumption
  <2>2. StaticIsr[i].isrpri \in Nat \ {0}
    BY <2>1, InterruptAssumption
  <2>3. StaticIsr[i] # NOEXS
    BY <2>2 DEF NOEXS
  <2> QED
    BY <1>3, <2>1, <2>2, <2>3 DEF InitialIsr
<1>5. \A i \in Isr \ DOMAIN StaticIsr : InitialIsr[i] = NOEXS
  BY DEF InitialIsr
<1>6. InitialIsr \in [Isr -> [intno : IntNo, isrpri : IsrPri] \union {NOEXS}]
  <2>1. InitialIsr = [i \in Isr |-> InitialIsr[i]]
    BY DEF InitialIsr
  <2>2. \A i \in Isr : InitialIsr[i] \in [intno : IntNo, isrpri : IsrPri] \union {NOEXS}
    BY <1>4, <1>5
  <2> QED
    BY <2>1, <2>2
<1> QED
  BY <1>1, <1>2, <1>3, <1>4, <1>5, <1>6

\* initialize_isr.
LEMMA InitialQueueOK ==
  ASSUME NEW n \in IntNo
  PROVE  LineOK(InitialQueue(n), Routines(n, InitialIsr), InitialIsr, isrorder_table)
<1> DEFINE o == isrorder_table
           len == Len(o)
           Pre(k) == [j \in 1..k |-> o[j]]
           First(k) == {o[j] : j \in 1..k}
           Of(k) == {i \in First(k) : StaticIsr[i].intno = n}
<1>1. /\ o \in Seq(Isr) /\ len \in Nat /\ DOMAIN o = 1..len
      /\ \A i, j \in 1..len : o[i] = o[j] => i = j
      /\ \A j \in 1..len : o[j] \in Isr /\ o[j] \in DOMAIN StaticIsr
      /\ \A i \in DOMAIN StaticIsr : \E j \in 1..len : o[j] = i
  <2>1. o \in Seq(Isr) /\ IsQueue(o, DOMAIN StaticIsr)
    BY StaticFacts
  <2> HIDE DEF o
  <2>2. DOMAIN o = 1..len /\ len \in Nat
    BY <2>1
  <2> QED
    BY <2>1, <2>2 DEF IsQueue
<1>2. PICK r : InitialQueue(n) = r[len] /\ QueueUpTo(n, r, len)
  <2> DEFINE r == CHOOSE f : f = [k \in 0..len |-> IF k = 0 THEN << >>
                        ELSE IF StaticIsr[o[k]].intno = n THEN enqueue_isr(f[k - 1], o[k], InitialIsr)
                             ELSE f[k - 1]]
  <2>1. InitialQueue(n) = r[len]
    BY DEF InitialQueue
  <2>2. \A f : QueueUpTo(n, f, len) <=>
                f = [k \in 0..len |-> IF k = 0 THEN << >>
                        ELSE IF StaticIsr[o[k]].intno = n THEN enqueue_isr(f[k - 1], o[k], InitialIsr)
                             ELSE f[k - 1]]
    BY DEF QueueUpTo, NextQueue
  <2>3. QueueUpTo(n, r, len)
    BY <1>1, <2>2, QueueUpToExists
  <2> QED
    BY <2>1, <2>3
<1>3. r[0] = << >> /\ \A k \in 1..len : r[k] = NextQueue(n, r[k - 1], o[k])
  <2>1. \A k \in 0..len : r[k] = IF k = 0 THEN << >> ELSE NextQueue(n, r[k - 1], o[k])
    BY <1>2 DEF QueueUpTo
  <2>2. 0 \in 0..len /\ \A k \in 1..len : k \in 0..len /\ k # 0
    BY <1>1
  <2> QED
    BY <2>1, <2>2
<1> HIDE DEF o, len
<1> DEFINE Done(k) == /\ Pre(k) \in Seq(Isr) /\ IsQueue(Pre(k), First(k))
                      /\ LineOK(r[k], Of(k), InitialIsr, Pre(k))
           Bad == {k \in 0..len : ~Done(k)}
<1>4. Done(0)
  <2>1. Pre(0) = << >> /\ First(0) = {} /\ Of(0) = {}
    OBVIOUS
  <2>2. << >> \in Seq(Isr) /\ IsQueue(<< >>, {}) /\ \A x, y : ~Precedes(<< >>, x, y)
    BY DEF IsQueue, Precedes
  <2> QED
    BY <1>3, <2>1, <2>2 DEF LineOK
<1>5. ASSUME NEW k \in 1..len, Done(k - 1) PROVE Done(k)
  <2> DEFINE i == o[k]
             cr == Pre(k - 1)
             E == First(k - 1)
             T == Of(k - 1)
             q == r[k - 1]
  <2>1. /\ k \in Nat /\ k - 1 \in Nat /\ k <= len /\ i \in Isr /\ i \in DOMAIN StaticIsr
        /\ \A j \in 1..(k - 1) : j \in 1..len /\ j # k
    BY <1>1
  <2>2. i \notin E /\ First(k) = E \union {i}
    <3>1. \A j \in 1..(k - 1) : o[j] # i
      BY <1>1, <2>1
    <3>2. \A j \in 1..k : j = k \/ j \in 1..(k - 1)
      BY <2>1
    <3>3. k \in 1..k /\ \A j \in 1..(k - 1) : j \in 1..k
      BY <2>1
    <3> QED
      BY <3>1, <3>2, <3>3
  <2>3. Pre(k) = Append(cr, i)
    <3>1. Len(cr) = k - 1 /\ \A j \in 1..(k - 1) : cr[j] = o[j]
      BY <2>1
    <3> HIDE DEF cr
    <3>2. cr \in Seq(Isr)
      BY <1>5 DEF cr
    <3>3. /\ DOMAIN Append(cr, i) = 1..k /\ Append(cr, i)[k] = i
          /\ \A j \in 1..(k - 1) : Append(cr, i)[j] = o[j]
      BY <2>1, <3>1, <3>2
    <3>4. \A j \in 1..k : Append(cr, i)[j] = o[j]
      BY <2>1, <3>3
    <3>5. Append(cr, i) \in Seq(Isr)
      BY <2>1, <3>2
    <3> QED
      BY <3>3, <3>4, <3>5
  <2>4. /\ cr \in Seq(Isr) /\ IsQueue(cr, E) /\ LineOK(q, T, InitialIsr, cr) /\ T \subseteq E
        /\ InitialIsr[i].isrpri \in Nat
    BY <1>5, <2>1, StaticFacts
  <2>5. Of(k) = IF StaticIsr[i].intno = n THEN T \union {i} ELSE T
    BY <2>2
  <2>6. r[k] = IF StaticIsr[i].intno = n THEN enqueue_isr(q, i, InitialIsr) ELSE q
    BY <1>3 DEF NextQueue
  <2> HIDE DEF i, cr, E, T, q, Pre, First, Of
  <2>7. Pre(k) \in Seq(Isr) /\ IsQueue(Pre(k), First(k)) /\ AppendedOrder(cr, E, i, Pre(k))
    <3> DEFINE z == Pre(k)
    <3>1. cr \in Seq(Isr) /\ IsQueue(cr, E) /\ i \in Isr /\ i \notin E /\ z = Append(cr, i)
      BY <2>1, <2>2, <2>3, <2>4
    <3> HIDE DEF z
    <3>2. z \in Seq(Isr) /\ IsQueue(z, E \union {i}) /\ AppendedOrder(cr, E, i, z)
      BY ONLY <3>1, AppendOrder
    <3> QED
      BY <2>2, <3>2 DEF z
  <2>8. LineOK(r[k], Of(k), InitialIsr, Pre(k))
    <3>1. CASE StaticIsr[i].intno = n
      <4>1. r[k] = enqueue_isr(q, i, InitialIsr) /\ Of(k) = T \union {i}
        BY <2>5, <2>6, <3>1
      <4>2. \A x \in T : InitialIsr[x] = InitialIsr[x]
        OBVIOUS
      <4>3. LineOK(r[k], T \union {i}, InitialIsr, Pre(k))
        BY <2>1, <2>2, <2>3, <2>4, <4>1, <4>2, LineEnqueued
      <4> QED
        BY <4>1, <4>3
    <3>2. CASE StaticIsr[i].intno # n
      <4>1. r[k] = q /\ Of(k) = T
        BY <2>5, <2>6, <3>2
      <4>2. \A x \in T, y \in T : Precedes(cr, x, y) => Precedes(Pre(k), x, y)
        BY <2>7 DEF AppendedOrder
      <4> QED
        BY <2>4, <4>1, <4>2, LineKept
    <3> QED
      BY <3>1, <3>2
  <2> QED
    BY <2>7, <2>8
<1>6. Bad = {}
  <2> SUFFICES ASSUME Bad # {} PROVE FALSE
    OBVIOUS
  <2> HIDE DEF Done
  <2>1. PICK k \in Bad : \A j \in Bad : k <= j
    <3>1. Bad \in SUBSET Nat
      BY <1>1
    <3> HIDE DEF Bad
    <3> QED
      BY <3>1, LeastNumber
  <2>2. k \in 1..len /\ k - 1 \in 0..len /\ k - 1 \notin Bad
    BY <1>1, <1>4, <2>1
  <2> QED
    BY <1>5, <2>1, <2>2
<1>7. Done(len)
  <2> HIDE DEF Done
  <2> QED
    BY <1>1, <1>6
<1>8. Pre(len) = o
  <2>1. o = [j \in 1..len |-> o[j]]
    BY <1>1 DEF len
  <2> QED
    BY <2>1
<1>9. Of(len) = Routines(n, InitialIsr)
  <2>1. First(len) = DOMAIN StaticIsr
    <3>1. \A i \in First(len) : i \in DOMAIN StaticIsr
      BY <1>1
    <3>2. \A i \in DOMAIN StaticIsr : i \in First(len)
      BY <1>1
    <3> HIDE DEF First
    <3> QED
      BY <3>1, <3>2
  <2>2. \A i : i \in DOMAIN StaticIsr <=> i \in Isr /\ InitialIsr[i] # NOEXS
    BY StaticFacts
  <2>3. \A i \in DOMAIN StaticIsr : InitialIsr[i] = StaticIsr[i]
    BY StaticFacts
  <2> HIDE DEF First
  <2> QED
    BY <2>1, <2>2, <2>3 DEF Routines
<1> HIDE DEF Pre, Of
<1> QED
  BY <1>2, <1>7, <1>8, <1>9 DEF o

\* A handler that runs has called the first routines of its line, one by one.
Frame == [intno : IntNo, at : Isr, done : Seq([isr : Isr, locked : BOOLEAN])]

FrameOK(f, q) ==
  /\ Len(f.done) \in 1..Len(q) /\ f.at = q[Len(f.done)]
  /\ \A j \in 1..Len(f.done) : f.done[j] = [isr |-> q[j], locked |-> FALSE]

IsrTypes ==
  /\ isrinib \in [Isr -> [intno : IntNo, isrpri : IsrPri] \union {NOEXS}]
  /\ isr_queue \in [IntNo -> Seq(Isr)]
  /\ free_isrcb \in Seq(Isr) /\ created \in Seq(Isr)
  /\ frames \in Seq(Frame)

\* Every control block is in one queue.
BlocksOK ==
  /\ IsQueue(created, {i \in Isr : isrinib[i] # NOEXS})
  /\ IsQueue(free_isrcb, {i \in Isr : isrinib[i] = NOEXS})
  /\ \A n \in IntNo : LineOK(isr_queue[n], Routines(n, isrinib), isrinib, created)

FramesOK == \A k \in 1..Len(frames) : FrameOK(frames[k], isr_queue[frames[k].intno])

IsrInv == IsrTypes /\ BlocksOK /\ FramesOK

\* At the start.
LEMMA IsrInitOK == InterruptInit => IsrInv
<1> SUFFICES ASSUME InterruptInit PROVE IsrInv
  OBVIOUS
<1>1. \A n \in IntNo : LineOK(isr_queue[n], Routines(n, isrinib), isrinib, created)
  BY InitialQueueOK DEF InterruptInit
<1>2. IsrTypes
  <2>1. \A n \in IntNo : isr_queue[n] \in Seq(Isr)
    BY <1>1 DEF LineOK
  <2>2. isr_queue \in [IntNo -> Seq(Isr)]
    BY <2>1 DEF InterruptInit
  <2>3. frames \in Seq(Frame)
    BY DEF InterruptInit
  <2> QED
    BY <2>2, <2>3, StaticFacts DEF InterruptInit, IsrTypes
<1>3. /\ {i \in Isr : isrinib[i] # NOEXS} = DOMAIN StaticIsr
      /\ {i \in Isr : isrinib[i] = NOEXS} = Isr \ DOMAIN StaticIsr
  <2>1. \A i \in Isr : i \in DOMAIN StaticIsr <=> isrinib[i] # NOEXS
    BY StaticFacts DEF InterruptInit
  <2>2. DOMAIN StaticIsr \subseteq Isr
    BY StaticFacts
  <2> QED
    BY <2>1, <2>2
<1>4. IsQueue(created, DOMAIN StaticIsr) /\ IsQueue(free_isrcb, Isr \ DOMAIN StaticIsr)
  BY StaticFacts DEF InterruptInit
<1>5. FramesOK
  BY DEF FramesOK, InterruptInit
<1> QED
  BY <1>1, <1>2, <1>3, <1>4, <1>5 DEF IsrInv, BlocksOK

\* The head leaves a queue.
LEMMA TailQueue ==
  ASSUME NEW S, NEW q \in Seq(S), NEW T, IsQueue(q, T), q # << >>
  PROVE  Tail(q) \in Seq(S) /\ IsQueue(Tail(q), T \ {Head(q)}) /\ Head(q) \in T \intersect S
<1> DEFINE r == Tail(q)
<1>1. /\ r \in Seq(S) /\ DOMAIN q = 1..Len(q) /\ Len(q) \in Nat /\ 1 \in DOMAIN q
      /\ DOMAIN r = 1..(Len(q) - 1) /\ \A k \in 1..(Len(q) - 1) : r[k] = q[k + 1]
      /\ Head(q) = q[1] /\ Head(q) \in S
  OBVIOUS
<1> HIDE DEF r
<1>2. /\ \A i, j \in DOMAIN q : q[i] = q[j] => i = j
      /\ \A i \in DOMAIN q : q[i] \in T
      /\ \A x \in T : \E i \in DOMAIN q : q[i] = x
  BY DEF IsQueue
<1>3. \A k \in DOMAIN r : k + 1 \in DOMAIN q /\ k \in Nat /\ r[k] = q[k + 1] /\ k + 1 # 1
  BY <1>1
<1>4. \A i, j \in DOMAIN r : r[i] = r[j] => i = j
  BY <1>2, <1>3
<1>5. \A k \in DOMAIN r : r[k] \in T \ {q[1]}
  BY <1>1, <1>2, <1>3
<1>6. ASSUME NEW x \in T, x # q[1] PROVE \E k \in DOMAIN r : r[k] = x
  <2>1. PICK i \in DOMAIN q : q[i] = x
    BY <1>2
  <2>2. i - 1 \in DOMAIN r /\ (i - 1) + 1 = i
    BY <1>1, <1>6, <2>1
  <2> QED
    BY <1>3, <2>1, <2>2
<1>7. {r[k] : k \in DOMAIN r} = T \ {q[1]}
  BY <1>5, <1>6
<1> QED
  BY <1>1, <1>2, <1>4, <1>7 DEF IsQueue, r

\* acre_isr.
LEMMA AcreIsrOK ==
  ASSUME IsrInv, NEW n \in IntNo, NEW pri \in IsrPri, acre_isr(n, pri)
  PROVE  IsrInv'
<1> DEFINE i == Head(free_isrcb)
           E == {x \in Isr : isrinib[x] # NOEXS}
           F == {x \in Isr : isrinib[x] = NOEXS}
           q == isr_queue[n]
<1>1. /\ isrinib \in [Isr -> [intno : IntNo, isrpri : IsrPri] \union {NOEXS}]
      /\ isr_queue \in [IntNo -> Seq(Isr)] /\ free_isrcb \in Seq(Isr) /\ created \in Seq(Isr)
      /\ IsQueue(created, E) /\ IsQueue(free_isrcb, F)
      /\ \A l \in IntNo : LineOK(isr_queue[l], Routines(l, isrinib), isrinib, created)
  BY DEF IsrInv, IsrTypes, BlocksOK
<1>2. /\ free_isrcb # << >> /\ free_isrcb' = Tail(free_isrcb)
      /\ isrinib' = [isrinib EXCEPT ![i] = [intno |-> n, isrpri |-> pri]]
      /\ isr_queue' = [isr_queue EXCEPT ![n] = enqueue_isr(q, i, isrinib')]
      /\ created' = Append(created, i) /\ frames' = << >>
  BY DEF acre_isr, InTask
<1>3. /\ free_isrcb' \in Seq(Isr) /\ IsQueue(free_isrcb', F \ {i}) /\ i \in Isr /\ i \in F
  BY <1>1, <1>2, TailQueue
<1> HIDE DEF i
<1>4. pri \in Nat /\ pri # 0
  BY InterruptAssumption
<1>5. /\ isrinib' \in [Isr -> [intno : IntNo, isrpri : IsrPri] \union {NOEXS}]
      /\ isrinib'[i] # NOEXS /\ isrinib'[i].intno = n /\ isrinib'[i].isrpri \in Nat
      /\ \A x \in Isr \ {i} : isrinib'[x] = isrinib[x]
  <2>1. isrinib'[i] = [intno |-> n, isrpri |-> pri]
    BY <1>1, <1>2, <1>3
  <2>2. isrinib'[i] # NOEXS
    BY <1>4, <2>1 DEF NOEXS
  <2>3. isrinib' \in [Isr -> [intno : IntNo, isrpri : IsrPri] \union {NOEXS}]
    BY <1>1, <1>2, <1>3
  <2> QED
    BY <1>1, <1>2, <1>3, <1>4, <2>1, <2>2, <2>3
<1>6. /\ {x \in Isr : isrinib'[x] # NOEXS} = E \union {i} /\ i \notin E
      /\ {x \in Isr : isrinib'[x] = NOEXS} = F \ {i}
      /\ \A l \in IntNo : /\ Routines(l, isrinib) \subseteq E
                          /\ Routines(l, isrinib') =
                               IF l = n THEN Routines(l, isrinib) \union {i}
                               ELSE Routines(l, isrinib)
  <2>1. i \notin E /\ isrinib[i] = NOEXS
    BY <1>3
  <2>2. \A l \in IntNo : Routines(l, isrinib) \subseteq E
    BY DEF Routines
  <2>3. ASSUME NEW l \in IntNo
        PROVE  Routines(l, isrinib') = IF l = n THEN Routines(l, isrinib) \union {i}
                                       ELSE Routines(l, isrinib)
    BY <1>3, <1>5, <2>1 DEF Routines
  <2> QED
    BY <1>3, <1>5, <2>1, <2>2, <2>3
<1> HIDE DEF E, F, q
<1>7. created' \in Seq(Isr) /\ IsQueue(created', E \union {i}) /\ AppendedOrder(created, E, i, created')
  BY <1>1, <1>2, <1>3, <1>6, AppendOrder
<1>8. ASSUME NEW l \in IntNo
      PROVE  LineOK(isr_queue'[l], Routines(l, isrinib'), isrinib', created')
  <2> DEFINE T == Routines(l, isrinib)
             ini == isrinib'
             cr == created'
             r == isr_queue'[l]
  <2>1. LineOK(isr_queue[l], T, isrinib, created) /\ T \subseteq E
    BY <1>1, <1>6
  <2>2. \A x \in T : ini[x] = isrinib[x]
    BY <1>5, <1>6, <2>1 DEF Routines
  <2>3. CASE l = n
    <3>1. r = enqueue_isr(isr_queue[l], i, ini) /\ cr = Append(created, i)
      BY <1>1, <1>2, <2>3 DEF q
    <3>2. ini[i].isrpri \in Nat /\ created \in Seq(Isr) /\ IsQueue(created, E) /\ i \in Isr /\ i \notin E
      BY <1>1, <1>3, <1>5, <1>6
    <3>3. Routines(l, isrinib') = T \union {i}
      BY <1>6, <2>3
    <3> HIDE DEF T, ini, cr, r
    <3>4. LineOK(r, T \union {i}, ini, cr)
      BY ONLY <2>1, <2>2, <3>1, <3>2, LineEnqueued
    <3> QED
      BY <3>3, <3>4 DEF r, ini, cr
  <2>4. CASE l # n
    <3>1. isr_queue'[l] = isr_queue[l] /\ Routines(l, isrinib') = T
      BY <1>1, <1>2, <1>6, <2>4
    <3>2. \A x \in T, y \in T : Precedes(created, x, y) => Precedes(cr, x, y)
      BY <1>7 DEF AppendedOrder
    <3> HIDE DEF T, ini, cr
    <3>3. LineOK(isr_queue[l], T, ini, cr)
      BY ONLY <2>1, <2>2, <3>2, LineKept
    <3> QED
      BY <3>1, <3>3 DEF ini, cr
  <2> QED
    BY <2>3, <2>4
<1>9. IsrTypes'
  <2>1. \A l \in IntNo : isr_queue'[l] \in Seq(Isr)
    BY <1>8 DEF LineOK
  <2>2. isr_queue' \in [IntNo -> Seq(Isr)]
    BY <1>1, <1>2, <2>1
  <2>3. frames' \in Seq(Frame)
    BY <1>2
  <2> QED
    BY <1>3, <1>5, <1>7, <2>2, <2>3 DEF IsrTypes
<1>10. FramesOK'
  BY <1>2 DEF FramesOK
<1> QED
  BY <1>3, <1>6, <1>7, <1>8, <1>9, <1>10 DEF IsrInv, BlocksOK

\* del_isr.
LEMMA DelIsrOK ==
  ASSUME IsrInv, NEW i \in Isr, del_isr(i)
  PROVE  IsrInv'
<1> DEFINE n == isrinib[i].intno
           E == {x \in Isr : isrinib[x] # NOEXS}
           F == {x \in Isr : isrinib[x] = NOEXS}
<1>1. /\ isrinib \in [Isr -> [intno : IntNo, isrpri : IsrPri] \union {NOEXS}]
      /\ isr_queue \in [IntNo -> Seq(Isr)] /\ free_isrcb \in Seq(Isr) /\ created \in Seq(Isr)
      /\ IsQueue(created, E) /\ IsQueue(free_isrcb, F)
      /\ \A l \in IntNo : LineOK(isr_queue[l], Routines(l, isrinib), isrinib, created)
  BY DEF IsrInv, IsrTypes, BlocksOK
<1>2. /\ isrinib[i] # NOEXS /\ free_isrcb' = Append(free_isrcb, i)
      /\ isrinib' = [isrinib EXCEPT ![i] = NOEXS]
      /\ isr_queue' = [isr_queue EXCEPT ![n] = queue_delete(isr_queue[n], i)]
      /\ created' = queue_delete(created, i) /\ frames' = << >>
  BY DEF del_isr, InTask
<1>3. /\ i \in E /\ i \notin F /\ n \in IntNo
      /\ isrinib' \in [Isr -> [intno : IntNo, isrpri : IsrPri] \union {NOEXS}]
      /\ isrinib'[i] = NOEXS /\ \A x \in Isr \ {i} : isrinib'[x] = isrinib[x]
  <2>1. isrinib[i] \in [intno : IntNo, isrpri : IsrPri]
    BY <1>1, <1>2
  <2>2. n \in IntNo
    BY <2>1
  <2> HIDE DEF n
  <2> QED
    BY <1>1, <1>2, <2>2
<1>4. /\ {x \in Isr : isrinib'[x] # NOEXS} = E \ {i}
      /\ {x \in Isr : isrinib'[x] = NOEXS} = F \union {i}
      /\ \A l \in IntNo : /\ Routines(l, isrinib) \subseteq E
                          /\ l = n => i \in Routines(l, isrinib)
                          /\ l # n => i \notin Routines(l, isrinib)
                          /\ Routines(l, isrinib') = Routines(l, isrinib) \ {i}
  <2>1. \A l \in IntNo : /\ Routines(l, isrinib) \subseteq E
                         /\ l = n => i \in Routines(l, isrinib)
                         /\ l # n => i \notin Routines(l, isrinib)
    BY <1>2 DEF Routines
  <2>2. ASSUME NEW l \in IntNo PROVE Routines(l, isrinib') = Routines(l, isrinib) \ {i}
    BY <1>3 DEF Routines
  <2> QED
    BY <1>3, <2>1, <2>2
<1> HIDE DEF E, F, n
<1>5. created' \in Seq(Isr) /\ IsQueue(created', E \ {i}) /\ SameOrderBut(created, i, created')
  BY <1>1, <1>2, <1>3, DeleteOrder
<1>6. free_isrcb' \in Seq(Isr) /\ IsQueue(free_isrcb', F \union {i})
  <2> DEFINE z == free_isrcb'
  <2>1. z = Append(free_isrcb, i) /\ free_isrcb \in Seq(Isr) /\ IsQueue(free_isrcb, F) /\ i \notin F
    BY <1>1, <1>2, <1>3
  <2> HIDE DEF z
  <2>2. z \in Seq(Isr) /\ IsQueue(z, F \union {i})
    BY <2>1, AppendOrder
  <2> QED
    BY <2>2 DEF z
<1>7. ASSUME NEW l \in IntNo
      PROVE  LineOK(isr_queue'[l], Routines(l, isrinib'), isrinib', created')
  <2> DEFINE T == Routines(l, isrinib)
             ini == isrinib'
             cr == created'
             r == isr_queue'[l]
  <2>1. LineOK(isr_queue[l], T, isrinib, created) /\ T \subseteq E
    BY <1>1, <1>4
  <2>2. \A x \in T \ {i} : ini[x] = isrinib[x]
    BY <1>3 DEF Routines
  <2>3. Routines(l, isrinib') = T \ {i}
    BY <1>4
  <2>4. CASE l = n
    <3>1. r = queue_delete(isr_queue[l], i) /\ cr = queue_delete(created, i)
      BY <1>1, <1>2, <2>4
    <3>2. created \in Seq(Isr) /\ IsQueue(created, E) /\ i \in T
      BY <1>1, <1>4, <2>4
    <3> HIDE DEF T, ini, cr, r
    <3>3. LineOK(r, T \ {i}, ini, cr)
      BY ONLY <2>1, <2>2, <3>1, <3>2, LineDeleted
    <3> QED
      BY <2>3, <3>3 DEF r, ini, cr
  <2>5. CASE l # n
    <3>1. isr_queue'[l] = isr_queue[l] /\ i \notin T
      BY <1>1, <1>2, <1>4, <2>5
    <3>2. T \ {i} = T
      BY <3>1
    <3>3. \A x \in T, y \in T : Precedes(created, x, y) => Precedes(cr, x, y)
      BY <1>5, <3>1 DEF SameOrderBut
    <3> HIDE DEF T, ini, cr
    <3>4. LineOK(isr_queue[l], T, ini, cr)
      BY ONLY <2>1, <2>2, <3>2, <3>3, LineKept
    <3> QED
      BY <2>3, <3>1, <3>2, <3>4 DEF ini, cr
  <2> QED
    BY <2>4, <2>5
<1>8. IsrTypes'
  <2>1. \A l \in IntNo : isr_queue'[l] \in Seq(Isr)
    BY <1>7 DEF LineOK
  <2>2. isr_queue' \in [IntNo -> Seq(Isr)]
    BY <1>1, <1>2, <2>1
  <2>3. frames' \in Seq(Frame)
    BY <1>2
  <2> QED
    BY <1>3, <1>5, <1>6, <2>2, <2>3 DEF IsrTypes
<1>9. FramesOK'
  BY <1>2 DEF FramesOK
<1> QED
  BY <1>4, <1>5, <1>6, <1>7, <1>8, <1>9 DEF IsrInv, BlocksOK
\* The handler whose first routines have run calls the next one of the queue.
LEMMA CalledFacts ==
  ASSUME NEW A, NEW f \in [intno : IntNo, at : A, done : Seq([isr : Isr, locked : BOOLEAN])],
         NEW q \in Seq(Isr), Len(f.done) < Len(q),
         \A j \in 1..Len(f.done) : f.done[j] = [isr |-> q[j], locked |-> FALSE],
         NEW g, g = Called(f, q[Len(f.done) + 1], FALSE)
  PROVE  g \in Frame /\ g.intno = f.intno /\ FrameOK(g, q)
<1> DEFINE d == f.done
           l == Len(d)
           x == q[l + 1]
           c == [isr |-> x, locked |-> FALSE]
           e == Append(d, c)
<1>1. /\ d \in Seq([isr : Isr, locked : BOOLEAN]) /\ l \in Nat /\ Len(q) \in Nat
      /\ f.intno \in IntNo
  OBVIOUS
<1>2. l + 1 \in 1..Len(q) /\ x \in Isr
  BY <1>1
<1>3. /\ g.intno = f.intno /\ g.at = x /\ g.done = e
      /\ g = [intno |-> f.intno, at |-> x, done |-> e]
  BY DEF Called
<1> HIDE DEF x
<1>4. c \in [isr : Isr, locked : BOOLEAN]
  BY <1>2
<1> HIDE DEF d, c
<1>5. /\ e \in Seq([isr : Isr, locked : BOOLEAN]) /\ Len(e) = l + 1 /\ e[l + 1] = c
      /\ \A j \in 1..l : e[j] = d[j]
  BY <1>1, <1>4
<1>6. \A j \in 1..(l + 1) : e[j] = [isr |-> q[j], locked |-> FALSE]
  <2>1. \A j \in 1..l : d[j] = [isr |-> q[j], locked |-> FALSE]
    BY DEF d
  <2>2. c = [isr |-> q[l + 1], locked |-> FALSE]
    BY DEF c, x
  <2>3. \A j \in 1..(l + 1) : j \in 1..l \/ j = l + 1
    BY <1>1
  <2> HIDE DEF e, l
  <2> QED
    BY <1>5, <2>1, <2>2, <2>3
<1>7. g \in Frame
  <2> HIDE DEF e
  <2> QED
    BY <1>1, <1>2, <1>3, <1>5 DEF Frame
<1> HIDE DEF e, l
<1> QED
  BY <1>2, <1>3, <1>5, <1>6, <1>7 DEF FrameOK, x

\* What the invariant says of one handler that runs.
LEMMA FrameFacts ==
  ASSUME IsrInv, NEW k \in 1..Len(frames)
  PROVE  /\ frames[k] \in Frame /\ frames[k].intno \in IntNo
         /\ isr_queue[frames[k].intno] \in Seq(Isr)
         /\ FrameOK(frames[k], isr_queue[frames[k].intno])
         /\ IsQueue(isr_queue[frames[k].intno], Routines(frames[k].intno, isrinib))
<1>1. frames \in Seq(Frame) /\ isr_queue \in [IntNo -> Seq(Isr)]
  BY DEF IsrInv, IsrTypes
<1>2. frames[k] \in Frame
  BY <1>1
<1>3. frames[k].intno \in IntNo
  BY <1>2 DEF Frame
<1>4. FrameOK(frames[k], isr_queue[frames[k].intno])
  BY DEF IsrInv, FramesOK
<1>5. LineOK(isr_queue[frames[k].intno], Routines(frames[k].intno, isrinib), isrinib, created)
  BY <1>3 DEF IsrInv, BlocksOK
<1> QED
  BY <1>1, <1>2, <1>3, <1>4, <1>5 DEF LineOK

\* The steps of the handlers leave the queues alone.
LEMMA HandlerStep ==
  ASSUME IsrInv, UNCHANGED <<isrinib, isr_queue, free_isrcb, created>>,
         frames' \in Seq(Frame),
         \A k \in 1..Len(frames') : FrameOK(frames'[k], isr_queue[frames'[k].intno])
  PROVE  IsrInv'
<1>1. IsrTypes' /\ FramesOK'
  BY DEF IsrInv, IsrTypes, FramesOK
<1>2. BlocksOK'
  BY DEF IsrInv, BlocksOK, Routines
<1> QED
  BY <1>1, <1>2 DEF IsrInv

\* An interrupt is accepted.
LEMMA AcceptInterruptOK ==
  ASSUME IsrInv, NEW n \in IntNo, AcceptInterrupt(n)
  PROVE  IsrInv'
<1> DEFINE f == [intno |-> n, at |-> "none", done |-> << >>]
           q == isr_queue[n]
           g == Called(f, Head(q), FALSE)
<1>1. /\ UNCHANGED <<isrinib, isr_queue, free_isrcb, created>>
      /\ frames' = IF q = << >> THEN frames ELSE <<g>> \o frames
  BY DEF AcceptInterrupt
<1>2. frames \in Seq(Frame) /\ q \in Seq(Isr)
  BY DEF IsrInv, IsrTypes
<1>3. CASE q = << >>
  <2>1. frames' = frames
    BY <1>1, <1>3
  <2> QED
    BY <1>1, <1>2, <2>1, HandlerStep DEF IsrInv, FramesOK
<1>4. CASE q # << >>
  <2>1. g \in Frame /\ g.intno = n /\ FrameOK(g, q)
    <3>1. /\ f \in [intno : IntNo, at : {"none"}, done : Seq([isr : Isr, locked : BOOLEAN])]
          /\ f.intno = n /\ Len(f.done) = 0 /\ Len(f.done) < Len(q)
          /\ \A j \in 1..Len(f.done) : f.done[j] = [isr |-> q[j], locked |-> FALSE]
      BY <1>2, <1>4
    <3>2. g = Called(f, q[Len(f.done) + 1], FALSE)
      BY <1>2, <1>4, <3>1
    <3> HIDE DEF f, g, q
    <3>3. g \in Frame /\ g.intno = f.intno /\ FrameOK(g, q)
      BY ONLY <1>2, <3>1, <3>2, CalledFacts
    <3> QED
      BY <3>1, <3>3
  <2> HIDE DEF g
  <2>2. /\ frames' = <<g>> \o frames /\ frames' \in Seq(Frame) /\ Len(frames) \in Nat
        /\ Len(frames') = Len(frames) + 1 /\ frames'[1] = g
        /\ \A k \in 1..Len(frames) : frames'[k + 1] = frames[k]
    BY <1>1, <1>2, <1>4, <2>1
  <2>3. ASSUME NEW k \in 1..Len(frames')
        PROVE  FrameOK(frames'[k], isr_queue[frames'[k].intno])
    <3>1. CASE k = 1
      BY <2>1, <2>2, <3>1
    <3>2. CASE k # 1
      <4>1. k - 1 \in 1..Len(frames) /\ (k - 1) + 1 = k
        BY <2>2, <3>2
      <4>2. frames'[k] = frames[k - 1]
        BY <2>2, <4>1
      <4> QED
        BY <4>1, <4>2 DEF IsrInv, FramesOK
    <3> QED
      BY <3>1, <3>2
  <2> QED
    BY <1>1, <2>2, <2>3, HandlerStep
<1> QED
  BY <1>3, <1>4

\* A routine returns.
LEMMA IsrReturnsOK ==
  ASSUME IsrInv, IsrReturns
  PROVE  IsrInv'
<1> DEFINE f == Head(frames)
           q == isr_queue[f.intno]
           l == Len(f.done)
           pos == CHOOSE j \in 1..Len(q) : q[j] = f.at
           g == Called(f, q[l + 1], FALSE)
<1>1. /\ frames # << >> /\ UNCHANGED <<isrinib, isr_queue, free_isrcb, created>>
      /\ frames' = IF pos < Len(q) THEN [frames EXCEPT ![1] = Called(f, q[pos + 1], FALSE)]
                   ELSE Tail(frames)
  BY DEF IsrReturns
<1>2. frames \in Seq(Frame) /\ Len(frames) \in Nat /\ 1 \in 1..Len(frames) /\ f = frames[1]
  <2>1. frames \in Seq(Frame)
    BY DEF IsrInv, IsrTypes
  <2> QED
    BY <1>1, <2>1
<1>3. /\ f \in Frame /\ f.intno \in IntNo /\ q \in Seq(Isr) /\ FrameOK(f, q)
      /\ IsQueue(q, Routines(f.intno, isrinib))
  BY <1>2, FrameFacts
<1> HIDE DEF f, q
<1>4. pos = l
  <2>1. l \in 1..Len(q) /\ q[l] = f.at /\ DOMAIN q = 1..Len(q)
    BY <1>3 DEF FrameOK
  <2>2. \A i, j \in DOMAIN q : q[i] = q[j] => i = j
    BY <1>3 DEF IsQueue
  <2>3. pos \in 1..Len(q) /\ q[pos] = f.at
    BY <2>1
  <2> HIDE DEF l, pos
  <2> QED
    BY <2>1, <2>2, <2>3
<1> HIDE DEF pos
<1>5. CASE l < Len(q)
  <2>1. g \in Frame /\ g.intno = f.intno /\ FrameOK(g, q)
    <3>1. f \in [intno : IntNo, at : Isr, done : Seq([isr : Isr, locked : BOOLEAN])]
      BY <1>3 DEF Frame
    <3>2. /\ Len(f.done) < Len(q) /\ g = Called(f, q[Len(f.done) + 1], FALSE)
          /\ \A j \in 1..Len(f.done) : f.done[j] = [isr |-> q[j], locked |-> FALSE]
      BY <1>3, <1>5 DEF FrameOK
    <3>3. q \in Seq(Isr)
      BY <1>3
    <3> HIDE DEF g
    <3> QED
      BY ONLY <3>1, <3>2, <3>3, CalledFacts
  <2>2. frames' = [frames EXCEPT ![1] = g]
    BY <1>1, <1>4, <1>5
  <2> HIDE DEF g
  <2>3. /\ frames' \in Seq(Frame) /\ Len(frames') = Len(frames) /\ frames'[1] = g
        /\ \A k \in 1..Len(frames) : k # 1 => frames'[k] = frames[k]
    BY <1>2, <2>1, <2>2
  <2>4. ASSUME NEW k \in 1..Len(frames')
        PROVE  FrameOK(frames'[k], isr_queue[frames'[k].intno])
    <3>1. CASE k = 1
      <4>1. frames'[k] = g
        BY <2>3, <3>1
      <4>2. FrameOK(g, isr_queue[g.intno])
        BY <2>1 DEF q
      <4> QED
        BY <4>1, <4>2
    <3>2. CASE k # 1
      <4>1. k \in 1..Len(frames) /\ frames'[k] = frames[k]
        BY <2>3, <3>2
      <4> QED
        BY <4>1 DEF IsrInv, FramesOK
    <3> QED
      BY <3>1, <3>2
  <2> QED
    BY <1>1, <2>3, <2>4, HandlerStep
<1>6. CASE ~(l < Len(q))
  <2>1. frames' = Tail(frames)
    BY <1>1, <1>4, <1>6
  <2>2. /\ frames' \in Seq(Frame) /\ Len(frames') = Len(frames) - 1
        /\ \A k \in 1..(Len(frames) - 1) : frames'[k] = frames[k + 1]
    BY ONLY <1>2, <2>1, HeadTailProperties
  <2>3. ASSUME NEW k \in 1..Len(frames')
        PROVE  FrameOK(frames'[k], isr_queue[frames'[k].intno])
    <3>1. k + 1 \in 1..Len(frames) /\ frames'[k] = frames[k + 1]
      BY <1>2, <2>2
    <3> QED
      BY <3>1 DEF IsrInv, FramesOK
  <2> QED
    BY <1>1, <2>2, <2>3, HandlerStep
<1> QED
  BY <1>5, <1>6

\* Every step.
LEMMA IsrNextOK == IsrInv /\ [InterruptNext]_ivars => IsrInv'
<1> SUFFICES ASSUME IsrInv, [InterruptNext]_ivars PROVE IsrInv'
  OBVIOUS
<1>1. ASSUME UNCHANGED <<isrinib, isr_queue, free_isrcb, frames, created>> PROVE IsrInv'
  <2>1. IsrTypes' /\ FramesOK'
    BY <1>1 DEF IsrInv, IsrTypes, FramesOK
  <2>2. BlocksOK'
    BY <1>1 DEF IsrInv, BlocksOK, Routines
  <2> QED
    BY <2>1, <2>2 DEF IsrInv
<1>2. ASSUME NEW n \in IntNo, LineCall(n) PROVE IsrInv'
  BY <1>1, <1>2 DEF LineCall
<1>3. ASSUME NEW n \in IntNo, AcceptInterrupt(n) PROVE IsrInv'
  BY <1>3, AcceptInterruptOK
<1>4. ASSUME NEW n \in IntNo, NEW pri \in IsrPri, acre_isr(n, pri) PROVE IsrInv'
  BY <1>4, AcreIsrOK
<1>5. ASSUME NEW i \in Isr, del_isr(i) PROVE IsrInv'
  BY <1>5, DelIsrOK
<1>6. ASSUME LockCall PROVE IsrInv'
  BY <1>1, <1>6 DEF LockCall
<1>7. ASSUME IsrReturns PROVE IsrInv'
  BY <1>7, IsrReturnsOK
<1>8. ASSUME UNCHANGED ivars PROVE IsrInv'
  BY <1>1, <1>8 DEF ivars
<1> QED
  BY <1>2, <1>3, <1>4, <1>5, <1>6, <1>7, <1>8 DEF InterruptNext

\* The property is a consequence of the invariant.
LEMMA IsrInvImplies == IsrInv => RoutinesExact
<1> SUFFICES ASSUME IsrInv PROVE RoutinesExact
  OBVIOUS
<1>1. ASSUME NEW n \in IntNo
      PROVE  LET q == isr_queue[n]
             IN  /\ Range(q) = {i \in Isr : Exists(i) /\ isrinib[i].intno = n}
                 /\ IsInjective(q)
                 /\ \A i, j \in Isr : Precedes(q, i, j) => CalledBefore(i, j)
  <2> DEFINE q == isr_queue[n]
  <2>1. LineOK(q, Routines(n, isrinib), isrinib, created)
    BY DEF IsrInv, BlocksOK
  <2> HIDE DEF q
  <2>2. Range(q) = Routines(n, isrinib) /\ IsInjective(q)
    BY <2>1 DEF LineOK, IsQueue, Range, IsInjective
  <2>3. Routines(n, isrinib) = {i \in Isr : Exists(i) /\ isrinib[i].intno = n}
    BY DEF Routines, Exists
  <2>4. \A i, j \in Isr : Precedes(q, i, j) => CalledBefore(i, j)
    BY <2>1 DEF LineOK, RunsBefore, CalledBefore
  <2> QED
    BY <2>2, <2>3, <2>4 DEF q
<1>2. Range(free_isrcb) = {i \in Isr : ~Exists(i)} /\ IsInjective(free_isrcb)
  <2>1. IsQueue(free_isrcb, {i \in Isr : isrinib[i] = NOEXS})
    BY DEF IsrInv, BlocksOK
  <2> QED
    BY <2>1 DEF IsQueue, Range, IsInjective, Exists
<1>3. ASSUME NEW k \in DOMAIN frames
      PROVE  LET done == frames[k].done
                 q    == isr_queue[frames[k].intno]
             IN  /\ Len(done) <= Len(q)
                 /\ \A j \in DOMAIN done : done[j] = [isr |-> q[j], locked |-> FALSE]
  <2> DEFINE done == frames[k].done
             q    == isr_queue[frames[k].intno]
  <2>1. k \in 1..Len(frames)
    BY DEF IsrInv, IsrTypes
  <2>2. frames[k] \in Frame /\ q \in Seq(Isr) /\ FrameOK(frames[k], q)
    BY <2>1, FrameFacts
  <2>3. DOMAIN done = 1..Len(done) /\ Len(q) \in Nat
    BY <2>2 DEF Frame
  <2> QED
    BY <2>2, <2>3 DEF FrameOK
<1> QED
  BY <1>1, <1>2, <1>3 DEF RoutinesExact

\* However tasks create and delete routines and however handlers preempt each
\* other, an interrupt calls the existing routines of its line, each once, in the
\* order of their priorities and creation, and with the CPU unlocked.
THEOREM RoutinesCorrect == InterruptSpec => []RoutinesExact
<1> QED
  BY IsrInitOK, IsrNextOK, IsrInvImplies, PTL DEF InterruptSpec
===============================================================================
