------------------------------- MODULE TimeEvent -------------------------------
(***************************************************************************)
(* Time events (kernel/time_event.c): the heap of registered blocks, the   *)
(* event time that wraps around, and the programming of the high           *)
(* resolution timer.  As in KernelState, the internal functions are        *)
(* operators on a state `m', composed by the services of Notification.     *)
(*                                                                         *)
(* Bounds of a run: event times have EVTMOD values (2^32 in the code), the *)
(* counter of the timer HRTMOD (TCYC_HRTCNT).                              *)
(***************************************************************************)
EXTENDS Integers, Sequences, FiniteSets

CONSTANTS
  Evt,              \* the time event blocks
  EVTMOD, HRTMOD,
  BOUNDARY_MARGIN, HRTCNT_BOUND, TSTEP_HRTCNT,
  TMAX_RELTIM, TMAX_ADJTIM

ASSUME TimeEventAssumption ==
  /\ {EVTMOD, HRTMOD, BOUNDARY_MARGIN, HRTCNT_BOUND, TSTEP_HRTCNT,
      TMAX_RELTIM, TMAX_ADJTIM} \subseteq Nat
  /\ IsFiniteSet(Evt)
  /\ HRTCNT_BOUND < HRTMOD                              \* time_event.c:73
  /\ HRTMOD <= EVTMOD                                   \* both of 32 bits
  /\ TMAX_RELTIM + TSTEP_HRTCNT + BOUNDARY_MARGIN + 2 * TMAX_ADJTIM < EVTMOD
  /\ 2 * TMAX_ADJTIM <= BOUNDARY_MARGIN

-----------------------------------------------------------------------------
(* Event times: unsigned, compared relative to boundary_evttim. *)

ADVANCE(m, t) == (t - m.boundary) % EVTMOD

EVTTIM_LT(m, t1, t2) == ADVANCE(m, t1) < ADVANCE(m, t2)
EVTTIM_LE_Plain(m, t1, t2) == t1 <= t2
EVTTIM_LE(m, t1, t2) == ADVANCE(m, t1) <= ADVANCE(m, t2)

-----------------------------------------------------------------------------
(* The heap: m.node[1..m.last], and the place m.at[e] every block keeps. *)

Time(m, i) == m.evttim[m.node[i]]

Put(m, i, e) == [m EXCEPT !.node[i] = e, !.at[e] = i]

\* Rounds of a loop work on s = [m, i]: the heap, and its free node.

\* One round of tmevt_up: an earlier block goes to the parent.
UpRound(s, e) ==
  LET p == s.i \div 2
  IN  IF s.i > 1 /\ ~EVTTIM_LE(s.m, Time(s.m, p), s.m.evttim[e])
      THEN [m |-> Put(s.m, s.i, s.m.node[p]), i |-> p] ELSE s

\* tmevt_up: block e goes to the free node i or further up, in at most i rounds.
tmevt_up(m, i, e) ==
  LET up[k \in 0..i] == IF k = 0 THEN [m |-> m, i |-> i] ELSE UpRound(up[k - 1], e)
  IN  Put(up[i].m, up[i].i, e)

\* The child of node i that tmevt_down looks at.
Child(m, i) ==
  IF 2 * i + 1 <= m.last /\ EVTTIM_LT(m, Time(m, 2 * i + 1), Time(m, 2 * i))
  THEN 2 * i + 1 ELSE 2 * i

\* One round of tmevt_down: a later block goes to the child.
DownRound(s, e) ==
  LET c == Child(s.m, s.i)
  IN  IF 2 * s.i <= s.m.last /\ ~EVTTIM_LE(s.m, s.m.evttim[e], Time(s.m, c))
      THEN [m |-> Put(s.m, s.i, s.m.node[c]), i |-> c] ELSE s

\* tmevt_down: block e goes to the free node i or further down.
tmevt_down(m, i, e) ==
  LET n == m.last
      down[k \in 0..n] == IF k = 0 THEN [m |-> m, i |-> i] ELSE DownRound(down[k - 1], e)
  IN  Put(down[n].m, down[n].i, e)

tmevtb_insert(m, e) == tmevt_up([m EXCEPT !.last = @ + 1], m.last + 1, e)

tmevtb_delete_DownOnly(m, e) ==
  LET m1 == [m EXCEPT !.last = @ - 1]
  IN  IF m1.last = 0 THEN m1 ELSE tmevt_down(m1, m.at[e], m.node[m.last])

\* The last block takes the place of the deleted one, or one above or below it.
tmevtb_delete(m, e) ==
  LET i  == m.at[e]
      f  == m.node[m.last]
      m1 == [m EXCEPT !.last = @ - 1]
  IN  IF m1.last = 0 THEN m1
      ELSE IF i > 1 /\ EVTTIM_LT(m, m.evttim[f], Time(m, i \div 2))
           THEN tmevt_up(Put(m1, i, m.node[i \div 2]), i \div 2, f)
           ELSE tmevt_down(m1, i, f)

tmevtb_delete_top(m) ==
  LET m1 == [m EXCEPT !.last = @ - 1]
  IN  IF m1.last = 0 THEN m1 ELSE tmevt_down(m1, 1, m.node[m.last])

Top(m) == m.node[1]

-----------------------------------------------------------------------------
(* The current event time. *)

\* monotonic_evttim follows current_evttim unless that was set back by adj_tim;
\* systim_offset counts its overflows.
Monotonic_NoCarry(m, previous, advance) ==
  IF (m.monotonic - previous) % EVTMOD < advance
  THEN [m EXCEPT !.monotonic = m.current] ELSE m

Monotonic(m, previous, advance) ==
  IF (m.monotonic - previous) % EVTMOD < advance
  THEN [m EXCEPT !.monotonic = m.current,
                 !.offset = IF m.current < m.monotonic THEN @ + EVTMOD ELSE @]
  ELSE m

\* Moves current_evttim, and with it boundary_evttim, forward.
Advance(m, n) ==
  LET new == (m.current + n) % EVTMOD
  IN  [m EXCEPT !.current = new, !.boundary = (new - BOUNDARY_MARGIN) % EVTMOD]

\* update_current_evttim: m.count is what the timer counts, m.hrtcnt what it
\* showed at the last update (current_hrtcnt).
update_current_evttim(m) ==
  LET n == IF m.count < m.hrtcnt THEN m.count - m.hrtcnt + HRTMOD
           ELSE m.count - m.hrtcnt
  IN  Monotonic([Advance(m, n) EXCEPT !.hrtcnt = m.count], m.current, n)

calc_current_evttim_ub(m) == (m.current + TSTEP_HRTCNT) % EVTMOD

-----------------------------------------------------------------------------
(* The timer: m.fire is the time until it interrupts; 0 is a request. *)

MinNat(a, b) == IF a < b THEN a ELSE b

\* set_hrt_event is meant to follow an update of the current event time.
set_hrt_event(m) ==
  [m EXCEPT !.fire = IF m.last = 0 THEN HRTCNT_BOUND
                     ELSE IF EVTTIM_LE(m, Time(m, 1), m.current) THEN 0
                     ELSE MinNat((Time(m, 1) - m.current) % EVTMOD, HRTCNT_BOUND)]

tmevtb_enqueue(m, e) ==
  LET m1 == tmevtb_insert(m, e)
  IN  IF ~m.insignal /\ m1.at[e] = 1 THEN set_hrt_event(m1) ELSE m1

tmevtb_enqueue_reltim(m, e, time) ==
  LET m1 == update_current_evttim(m)
  IN  tmevtb_enqueue([m1 EXCEPT !.evttim[e] = (calc_current_evttim_ub(m1) + time)
                                                % EVTMOD], e)

tmevtb_dequeue(m, e) ==
  LET m1 == tmevtb_delete(m, e)
  IN  IF ~m.insignal /\ m.at[e] = 1 THEN set_hrt_event(update_current_evttim(m1))
      ELSE m1
=============================================================================
