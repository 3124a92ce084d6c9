----------------------------- MODULE Notification -----------------------------
(***************************************************************************)
(* The users of time events: time-outs of waiting tasks (wait.c), cyclic   *)
(* and alarm notifications (cyclic.c, alarm.c), the event of the system    *)
(* cycle (domain.c), signal_time, and the system time (time_manage.c).     *)
(*                                                                         *)
(* The notification handlers run with the CPU unlocked inside signal_time; *)
(* while they do, time passes and they, or handlers that nest, call the    *)
(* kernel (phase "call").                                                  *)
(***************************************************************************)
EXTENDS TimeEvent

CONSTANTS
  KindOf,    \* the user of each block: "tmo", "cyc", "alm", "scyc"
  Cyctim,    \* p_cycinib->cyctim of the cyclic blocks, system_cyctim
  Reltim,    \* the relative times the application uses (bounds a run)
  MaxLate,   \* how late the timer handler may come (bounds a run)
  Api        \* the service calls the application makes (bounds a run)

ASSUME NotificationAssumption ==
  /\ Reltim \subseteq 0..TMAX_RELTIM
  /\ \A e \in Evt : /\ KindOf[e] \in {"tmo", "cyc", "alm", "scyc"}
                     /\ KindOf[e] \in {"cyc", "scyc"} => Cyctim[e] \in 1..TMAX_RELTIM
  /\ MaxLate \in 0..BOUNDARY_MARGIN /\ HRTCNT_BOUND + MaxLate < HRTMOD

VARIABLES
  m,         \* the state of TimeEvent
  sta,       \* cycsta, almsta, "the task waits", "a system cycle runs"
  held,      \* pending_scycswitch
  phase,     \* of signal_time: "out", "loop" (locked), "call" (unlocked)
  callflag,
  now, due   \* the event time without wrap-around, and that of each event

nvars == <<m, sta, held, phase, callflag, now, due>>

Of(kind) == {e \in Evt : KindOf[e] = kind}

-----------------------------------------------------------------------------
InitM ==
  [node |-> [i \in 1..Cardinality(Evt) |-> CHOOSE e \in Evt : TRUE],
   at |-> [e \in Evt |-> 0], last |-> 0, evttim |-> [e \in Evt |-> 0],
   current |-> 0, boundary |-> (0 - BOUNDARY_MARGIN) % EVTMOD,
   monotonic |-> 0, offset |-> 0, insignal |-> FALSE,
   hrtcnt |-> 0, count |-> 0, fire |-> HRTCNT_BOUND]

NtfInit ==
  /\ m = InitM /\ sta = [e \in Evt |-> FALSE] /\ held = FALSE
  /\ phase = "out" /\ callflag = FALSE
  /\ now = 0 /\ due = [e \in Evt |-> 0]

\* Time passes; the timer handler starts and goes on within MaxLate.
Tick ==
  /\ phase # "loop"
  /\ \A i \in 1..m.last : due[m.node[i]] > now - MaxLate
  /\ m.fire > 0 \/ (m.count - m.hrtcnt) % HRTMOD < HRTCNT_BOUND + MaxLate
  /\ now' = now + 1
  /\ m' = [m EXCEPT !.count = (@ + 1) % HRTMOD, !.fire = IF @ > 0 THEN @ - 1 ELSE 0]
  /\ UNCHANGED <<sta, held, phase, callflag, due>>

\* The application calls the kernel: tasks outside the timer handler, handlers
\* also during a notification.
Task    == phase = "out"
Unlocked == phase \in {"out", "call"}

Exact(time) == now + TSTEP_HRTCNT + time

-----------------------------------------------------------------------------
(* Starting and stopping. *)

Restart(e, time) ==
  /\ m' = tmevtb_enqueue_reltim(IF sta[e] THEN tmevtb_dequeue(m, e) ELSE m, e, time)
  /\ sta' = [sta EXCEPT ![e] = TRUE]
  /\ due' = [due EXCEPT ![e] = Exact(time)]
  /\ UNCHANGED <<held, phase, callflag, now>>

Stop(e) ==
  /\ m' = IF sta[e] THEN tmevtb_dequeue(m, e) ELSE m
  /\ sta' = [sta EXCEPT ![e] = FALSE]
  /\ UNCHANGED <<held, phase, callflag, now, due>>

sta_alm(a, almtim) == "sta_alm" \in Api /\ Unlocked /\ Restart(a, almtim)
stp_alm(a)         == "stp_alm" \in Api /\ Unlocked /\ Stop(a)
sta_cyc(c, cycphs) == "sta_cyc" \in Api /\ Task /\ Restart(c, cycphs)
stp_cyc(c)         == "stp_cyc" \in Api /\ Task /\ Stop(c)

\* The event of e is registered a cycle later: call_cyclic, and scyc_start.
NextCycle(m1, e) ==
  tmevtb_enqueue([m1 EXCEPT !.evttim[e] = (@ + Cyctim[e]) % EVTMOD], e)

\* make_wait_tmout, dly_tsk; wait_dequeue_tmevtb.
make_wait_tmout(e, tmout)  == "tmout" \in Api /\ Task /\ ~sta[e] /\ Restart(e, tmout)
wait_dequeue_tmevtb(e) == "tmout" \in Api /\ Unlocked /\ sta[e] /\ Stop(e)

\* chg_som starts the system cycles.
CycleBase(e) ==
  LET m1 == update_current_evttim(m)
  IN  [m1 EXCEPT !.evttim[e] = calc_current_evttim_ub(m1)]

chg_som(e) ==
  /\ "chg_som" \in Api /\ Task /\ ~sta[e] /\ ~held
  /\ m' = NextCycle(CycleBase(e), e)
  /\ sta' = [sta EXCEPT ![e] = TRUE] /\ due' = [due EXCEPT ![e] = Exact(Cyctim[e])]
  /\ UNCHANGED <<held, phase, callflag, now>>

-----------------------------------------------------------------------------
(* signal_time. *)

SignalBegin ==
  /\ phase = "out" /\ m.fire = 0
  /\ m' = [update_current_evttim(m) EXCEPT !.insignal = TRUE]
  /\ phase' = "loop" /\ callflag' = FALSE
  /\ UNCHANGED <<sta, held, now, due>>

DueTop == m.last > 0 /\ EVTTIM_LE(m, Time(m, 1), m.current)

Repeat(e) ==
  /\ m' = NextCycle(tmevtb_delete_top(m), e)
  /\ due' = [due EXCEPT ![e] = @ + Cyctim[e]]

Once(e) == m' = tmevtb_delete_top(m) /\ sta' = [sta EXCEPT ![e] = FALSE] /\ UNCHANGED due

\* wait_tmout, call_cyclic, call_alarm, scyc_switch.
Callback(e) ==
  \/ KindOf[e] = "tmo" /\ Once(e) /\ UNCHANGED phase
  \/ KindOf[e] \in {"cyc", "scyc"} /\ Repeat(e) /\ phase' = "call" /\ UNCHANGED sta
  \/ KindOf[e] = "alm" /\ Once(e) /\ phase' = "call"

SignalCall(e) ==
  /\ phase = "loop" /\ DueTop /\ e = Top(m)
  /\ Callback(e)
  /\ callflag' = TRUE /\ UNCHANGED <<held, now>>

NotificationReturns ==
  /\ phase = "call" /\ phase' = "loop"
  /\ UNCHANGED <<m, sta, held, callflag, now, due>>

SignalAgain ==
  /\ phase = "loop" /\ ~DueTop /\ callflag
  /\ m' = update_current_evttim(m) /\ callflag' = FALSE
  /\ UNCHANGED <<sta, held, phase, now, due>>

SignalEnd_NoUpdate ==
  /\ phase = "loop" /\ ~DueTop
  /\ m' = [set_hrt_event(m) EXCEPT !.insignal = FALSE] /\ phase' = "out"
  /\ UNCHANGED <<sta, held, callflag, now, due>>

SignalEnd ==
  /\ phase = "loop" /\ ~DueTop /\ ~callflag
  /\ m' = [set_hrt_event(m) EXCEPT !.insignal = FALSE] /\ phase' = "out"
  /\ UNCHANGED <<sta, held, callflag, now, due>>

-----------------------------------------------------------------------------
(* time_manage.c *)

CheckAdjtim(m1, adjtim) ==
  IF adjtim > 0
  THEN m1.last > 0 /\ EVTTIM_LE(m1, (Time(m1, 1) + TMAX_ADJTIM) % EVTMOD, m1.current)
  ELSE (m1.monotonic - m1.current) % EVTMOD >= TMAX_ADJTIM

\* The system time the event time stands for, which get_tim returns.
Systim(m1) == m1.offset + m1.monotonic
SystimNow == Systim(update_current_evttim(m))

\* get_tim, and ref_cyc, ref_alm, which ask for the time left.
get_tim ==
  /\ "get_tim" \in Api /\ Unlocked
  /\ m' = update_current_evttim(m)
  /\ UNCHANGED <<sta, held, phase, callflag, now, due>>

set_tim(systim) ==
  /\ "set_tim" \in Api /\ Task
  /\ LET m1 == update_current_evttim(m)
     IN  m' = [m1 EXCEPT !.offset = systim - m1.monotonic]
  /\ UNCHANGED <<sta, held, phase, callflag, now, due>>

adj_tim(adjtim) ==
  /\ "adj_tim" \in Api /\ Unlocked /\ now + adjtim >= 0
  /\ LET m1 == update_current_evttim(m)
         m2 == Advance(m1, adjtim)
         m3 == IF adjtim > 0 THEN Monotonic(m2, m1.current, adjtim) ELSE m2
     IN  /\ ~CheckAdjtim(m1, adjtim)
         /\ m' = IF m.insignal THEN m3 ELSE set_hrt_event(m3)
  /\ now' = now + adjtim
  /\ UNCHANGED <<sta, held, phase, callflag, due>>

-----------------------------------------------------------------------------
Alarms == \E a \in Of("alm") : stp_alm(a) \/ \E t \in Reltim : sta_alm(a, t)
Cycles == \E c \in Of("cyc") : stp_cyc(c) \/ \E t \in Reltim : sta_cyc(c, t)
TimedWaits  == \E e \in Of("tmo") : wait_dequeue_tmevtb(e) \/ \E t \in Reltim : make_wait_tmout(e, t)
Signal ==
  \/ SignalBegin \/ SignalAgain \/ SignalEnd \/ NotificationReturns
  \/ \E e \in Evt : SignalCall(e)
SystemTime == get_tim \/ set_tim(0) \/ \E a \in (-TMAX_ADJTIM..TMAX_ADJTIM) \ {0} : adj_tim(a)

NtfNext ==
  \/ Tick \/ Signal \/ SystemTime
  \/ Alarms \/ Cycles \/ TimedWaits \/ \E e \in Of("scyc") : chg_som(e)

NtfSpec == NtfInit /\ [][NtfNext]_nvars

-----------------------------------------------------------------------------
(* Dispatching is held off: chg_som and scyc_switch leave the switch to         *)
(* set_dspflg, which calls scyc_start.                                          *)

chg_som_Held(e) ==
  /\ "chg_som" \in Api /\ Task /\ ~sta[e] /\ ~held
  /\ m' = CycleBase(e) /\ held' = TRUE /\ due' = [due EXCEPT ![e] = Exact(0)]
  /\ UNCHANGED <<sta, phase, callflag, now>>

SignalCallHeld(e) ==
  /\ phase = "loop" /\ DueTop /\ e = Top(m)
  /\ Once(e) /\ held' = TRUE
  /\ callflag' = TRUE /\ UNCHANGED <<phase, now>>

set_dspflg(e) ==
  /\ Task /\ held /\ held' = FALSE
  /\ m' = NextCycle(m, e)
  /\ sta' = [sta EXCEPT ![e] = TRUE] /\ due' = [due EXCEPT ![e] = @ + Cyctim[e]]
  /\ UNCHANGED <<phase, callflag, now>>

HeldNext == NtfNext \/ \E e \in Of("scyc") : chg_som_Held(e) \/ SignalCallHeld(e) \/ set_dspflg(e)

HeldSpec == NtfInit /\ [][HeldNext]_nvars

-----------------------------------------------------------------------------
(* Properties. *)

\* The heap holds exactly the blocks of the running notifications and waits, each
\* once; every block knows its node; and a parent is never later than its
\* children in true time, although the times in the heap wrap around and the
\* boundary they are compared to moves.
HeapExact ==
  /\ \A e \in Evt : sta[e] <=> \E i \in 1..m.last : m.node[i] = e
  /\ \A i \in 1..m.last : m.at[m.node[i]] = i
  /\ \A i \in 2..m.last : due[m.node[i \div 2]] <= due[m.node[i]]

\* The timer never interrupts too late: outside signal_time, which suppresses the
\* programming while callbacks register and delete events, the timer fires by the
\* time the earliest event is due, and before its counter can wrap.
TimerInTime ==
  ~m.insignal =>
    /\ \A e \in Evt : sta[e] => m.fire = 0 \/ now + m.fire <= due[e]
    /\ m.fire <= HRTCNT_BOUND

\* "set_hrt_event is meant to be called after the current event time has been
\* obtained" (time_event.h:180), so that it does not set the timer too late.
SetFromCurrentTime ==
  [][\A e \in Evt : sta'[e] /\ ~m'.insignal /\ m'.fire # m.fire /\ now' = now =>
       m'.hrtcnt = m'.count \/ m'.fire = 0 \/ now + m'.fire <= due'[e]]_nvars

\* Callbacks run in the order of their times and never early, whatever was
\* started, stopped or adjusted meanwhile, also by the callbacks.
FiresInOrder ==
  [][\A e \in Evt : SignalCall(e) =>
       due[e] <= now /\ \A f \in Evt : sta[f] => due[e] <= due[f]]_nvars

\* The system time never runs backwards unless it is set: not when the event time
\* wraps around, and not when adj_tim sets it back.
SystimMonotonic == [][set_tim(0) \/ SystimNow' >= SystimNow]_nvars
=============================================================================
