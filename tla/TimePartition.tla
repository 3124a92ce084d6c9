----------------------------- MODULE TimePartition -----------------------------
(***************************************************************************)
(* Time partitioning (kernel/domain.c): system cycles, the time windows of *)
(* a system operating mode, and the window timer that core_support.S       *)
(* starts and stops, composed with the calls of TaskKernel.  set_dspflg    *)
(* may now run switches that were held off, so its callers are replaced.   *)
(*                                                                         *)
(* A switch runs with the CPU locked except for the notification handler   *)
(* of the new window; it is the steps Start, the handler (phase "nfy"),    *)
(* the due time events of the domain (phase "proc") and Finish.  A system  *)
(* cycle may end at any time after its start: its length is abstracted.    *)
(***************************************************************************)
EXTENDS TaskKernel

CONSTANTS
  Som,       \* the system operating modes
  Windows    \* p_twdinib: the windows of a mode, [dom: Unit, twdlen: Nat, nfyhdr: BOOLEAN]

ASSUME PartitionAssumption ==
  /\ NULL \notin Som
  /\ Windows \in [Som -> Seq([dom: Unit \ {KERNEL, IDLE}, twdlen: Nat \ {0},
                             nfyhdr: BOOLEAN])]
  /\ \A m \in Som : Windows[m] # << >>

VARIABLES
  cursom, nxtsom,    \* p_cursom, p_nxtsom
  runtwd,            \* p_runtwd: the index of the window in its mode, 0 for NULL
  scycreg,           \* scyc_tmevtb is in the time event heap
  pendscyc, pendtwd, \* pending_scycswitch, pending_twdswitch
  timer,             \* the window timer and its variables
  hstack,            \* the handlers that run, innermost first
  phase, caller      \* the switch in progress and who called it

swvars == <<cursom, nxtsom, runtwd, scycreg, pendscyc, pendtwd>>
tpvars == <<swvars, timer, hstack, phase, caller>>
wvars  == <<vars, tpvars>>

\* The part of the state that a switch changes.
Sw == [k |-> K, cursom |-> cursom, nxtsom |-> nxtsom, runtwd |-> runtwd,
       scycreg |-> scycreg, pendscyc |-> pendscyc, pendtwd |-> pendtwd, timer |-> timer]

SwBecomes(w) ==
  /\ Becomes(w.k) /\ timer' = w.timer
  /\ cursom' = w.cursom /\ nxtsom' = w.nxtsom /\ runtwd' = w.runtwd
  /\ scycreg' = w.scycreg /\ pendscyc' = w.pendscyc /\ pendtwd' = w.pendtwd

-----------------------------------------------------------------------------
(* The window timer.  `left' is left_twdtim; `hw' counts down to the compare *)
(* match, which raises the request `req'.                                    *)

MaxNat(a, b) == IF a > b THEN a ELSE b

\* target_twdtimer_start: with no time left the timer still counts once.
TwdtimerStart(tm) ==
  IF tm.flag THEN tm ELSE [tm EXCEPT !.flag = TRUE, !.hw = MaxNat(tm.left, 1)]

\* target_twdtimer_stop also clears the interrupt request.
TwdtimerStop(tm) ==
  IF tm.flag THEN [tm EXCEPT !.flag = FALSE, !.left = tm.hw, !.req = FALSE] ELSE tm

\* The calls of core_support.S are made only if twdtimer_enable.
IfEnabled(tm, tm2) == IF tm.enable THEN tm2 ELSE tm

\* The end of the dispatcher and of an interrupt, and start_stask_r,
\* start_utask_r and the idle loop: the timer counts unless a task of the
\* kernel domain runs.
TimerFor(tm, t) ==
  IfEnabled(tm, IF t = NULL \/ UnitOf[t] # KERNEL THEN TwdtimerStart(tm)
                ELSE TwdtimerStop(tm))

\* Time passes for the timer.
Tick ==
  /\ timer.flag /\ timer.hw > 0
  /\ timer' = [timer EXCEPT !.hw = @ - 1, !.req = (timer.hw = 1)]
  /\ UNCHANGED <<vars, swvars, hstack, phase, caller>>

-----------------------------------------------------------------------------
(* twd_start and scyc_start up to the notification handler. *)

Current(w) == Windows[w.cursom][w.runtwd]

TwdStart(w) ==
  IF w.runtwd <= Len(Windows[w.cursom])
  THEN [w EXCEPT !.k.twdsched = Current(w).dom, !.k.idlesched = IDLE,
                 !.timer = TwdtimerStart([@ EXCEPT !.enable = TRUE,
                                                   !.left = Current(w).twdlen])]
  ELSE [w EXCEPT !.runtwd = 0, !.k.twdsched = IDLE, !.k.idlesched = IDLE,
                 !.timer.enable = FALSE]

NextTwd(w) == TwdStart([w EXCEPT !.runtwd = @ + 1])

ScycStart(w) ==
  LET over == w.runtwd # 0     \* a system cycle overrun
      w1 == [w EXCEPT !.timer = IF over THEN TwdtimerStop(@) ELSE @,
                      !.pendtwd = IF over THEN FALSE ELSE @,
                      !.cursom = w.nxtsom]
  IN  IF w.nxtsom = NULL
      THEN [w1 EXCEPT !.k.twdsched = KERNEL, !.k.idlesched = KERNEL,
                      !.runtwd = 0, !.timer.enable = FALSE]
      ELSE TwdStart([w1 EXCEPT !.scycreg = TRUE, !.runtwd = 1])

\* A switch has begun on behalf of c.
Start(w, c) ==
  /\ SwBecomes(w)
  /\ phase' = IF w.runtwd # 0 /\ Current(w).nfyhdr THEN "nfy" ELSE "proc"
  /\ caller' = c

-----------------------------------------------------------------------------
(* The rest of twd_start. *)

\* The notification handler, or an interrupt handler above the timers, calls
\* the kernel.
NotifyCall ==
  /\ phase = "nfy"
  /\ \E t \in Task : act_tsk(t) \/ wup_tsk(t)
  /\ UNCHANGED tpvars

NotifyReturns ==
  /\ phase = "nfy" /\ (caller \in {"scyc", "twd"} \/ ~intnest)
  /\ phase' = "proc"
  /\ UNCHANGED <<vars, swvars, timer, hstack, caller>>

\* suspend_proc_tmevt is not TRUE (in the idle window it depends on the time).
MayProcess == timer.enable => ~(timer.flag /\ timer.hw = 0)

\* The domain whose time events are processed: that of the window, or in the
\* idle window the domains without windows.
InHeap(t) == cursom # NULL /\ UnitOf[t] = IF runtwd = 0 THEN IDLE ELSE twdsched

\* tmevt_proc_top: the time-out of a waiting task.
ProcTop(t) ==
  /\ phase = "proc" /\ MayProcess
  /\ t \in tmevt /\ InHeap(t)
  /\ Becomes(WaitTmout(K, t))
  /\ UNCHANGED <<cpuvars, tpvars>>

-----------------------------------------------------------------------------
(* set_dspflg and its callers. *)

\* set_dspflg begins: what is pending is carried out with the timer interrupts
\* masked and dispatching held off.
HeldSwitch ==
  LET w == [Sw EXCEPT !.k.dspflg = FALSE]
  IN  IF pendscyc THEN ScycStart(w) ELSE NextTwd(w)

BeginSetDspflg(c) ==
  /\ pendscyc \/ pendtwd
  /\ Start(HeldSwitch, c)
  /\ ipm' = TRUE /\ UNCHANGED <<lock, intnest, hstack>>

\* ena_dsp, or chg_ipm(TIPM_ENAALL), after set_dspflg.
AfterEnable(s) ==
  IF tcb[runtsk].raster /\ tcb[runtsk].enater
  THEN Dispatch(TaskTerminate(s, runtsk)) ELSE DispatchIfNeeded(s)

AfterExt(s) == Dispatch(TaskTerminate(s, runtsk))

\* s is the state after the caller's dispatch, if any; the timer follows.
Dispatched(s, ended) ==
  /\ Becomes(s)
  /\ timer' = IF ended \/ s.runtsk # runtsk THEN TimerFor(timer, s.runtsk) ELSE timer

Ended(s) == tcb[runtsk].raster /\ tcb[runtsk].enater

ena_dsp_tp ==
  /\ "dis_dsp" \in Api /\ TskCtxUnl /\ phase = "none"
  /\ enadsp' = TRUE
  /\ \/ ~ipm /\ BeginSetDspflg("ena")
     \/ /\ ~ipm /\ ~pendscyc /\ ~pendtwd
        /\ Dispatched(AfterEnable(SetDspflg(K)), Ended(K))
        /\ UNCHANGED <<ipm, lock, intnest, swvars, hstack, phase, caller>>
     \/ ipm /\ UNCHANGED <<kvars, ipm, lock, intnest, tpvars>>

chg_ipm_tp(mask) ==
  /\ "chg_ipm" \in Api /\ TskCtxUnl /\ phase = "none"
  /\ UNCHANGED enadsp
  /\ \/ ~mask /\ enadsp /\ BeginSetDspflg("ena")
     \/ /\ ~mask /\ enadsp /\ ~pendscyc /\ ~pendtwd
        /\ Dispatched(AfterEnable(SetDspflg(K)), Ended(K))
        /\ ipm' = FALSE
        /\ UNCHANGED <<lock, intnest, swvars, hstack, phase, caller>>
     \/ /\ mask \/ ~enadsp
        /\ ipm' = mask /\ Becomes([K EXCEPT !.dspflg = FALSE])
        /\ UNCHANGED <<lock, intnest, tpvars>>

ext_tsk_tp ==
  /\ "ext_tsk" \in Api /\ ~intnest /\ runtsk # NULL /\ phase = "none"
  /\ enadsp' = TRUE /\ lock' = FALSE
  /\ \/ /\ ~dspflg /\ (pendscyc \/ pendtwd)
        /\ Start(HeldSwitch, "ext")
        /\ ipm' = TRUE /\ UNCHANGED <<intnest, hstack>>
     \/ /\ dspflg \/ (~pendscyc /\ ~pendtwd)
        /\ Dispatched(AfterExt(IF dspflg THEN K ELSE SetDspflg(K)), TRUE)
        /\ ipm' = FALSE /\ UNCHANGED <<intnest, swvars, hstack, phase, caller>>

\* chg_som(m), m = NULL for TSOM_STP.
chg_som_RunningIgnored(m) ==
  /\ "chg_som" \in Api /\ TskCtxUnl /\ phase = "none" /\ m # NULL /\ ~dspflg
  /\ nxtsom' = m /\ pendscyc' = TRUE
  /\ UNCHANGED <<vars, cursom, runtwd, scycreg, pendtwd, timer, hstack, phase, caller>>

chg_som(m) ==
  /\ "chg_som" \in Api /\ TskCtxUnl /\ phase = "none"
  /\ \/ /\ cursom # NULL \/ m = NULL
        /\ nxtsom' = m
        /\ UNCHANGED <<vars, cursom, runtwd, scycreg, pendscyc, pendtwd, timer,
                       hstack, phase, caller>>
     \/ /\ cursom = NULL /\ m # NULL /\ dspflg
        /\ Start(ScycStart([Sw EXCEPT !.nxtsom = m, !.k.dspflg = FALSE]), "som")
        /\ ipm' = TRUE /\ UNCHANGED <<enadsp, lock, intnest, hstack>>
     \/ /\ cursom = NULL /\ m # NULL /\ ~dspflg
        /\ nxtsom' = m /\ pendscyc' = TRUE
        /\ UNCHANGED <<vars, cursom, runtwd, scycreg, pendtwd, timer, hstack, phase,
                       caller>>

-----------------------------------------------------------------------------
(* The end of a switch. *)

FinishTask_TwdStaysPending ==
  /\ caller \in {"ena", "ext", "som"}
  /\ LET s == SetDspflg(K)
     IN  CASE caller = "ena" -> Dispatched(AfterEnable(s), Ended(s))
           [] caller = "ext" -> Dispatched(AfterExt(s), TRUE)
           [] caller = "som" -> Dispatched(DispatchIfNeeded(s), FALSE)
  /\ ipm' = FALSE /\ pendscyc' = FALSE /\ UNCHANGED <<enadsp, lock, intnest, pendtwd>>

\* In a task, under set_dspflg or chg_som.
FinishTask ==
  /\ caller \in {"ena", "ext", "som"}
  /\ LET s == SetDspflg(K)
     IN  CASE caller = "ena" -> Dispatched(AfterEnable(s), Ended(s))
           [] caller = "ext" -> Dispatched(AfterExt(s), TRUE)
           [] caller = "som" -> Dispatched(DispatchIfNeeded(s), FALSE)
  /\ ipm' = FALSE /\ UNCHANGED <<enadsp, lock, intnest>>
  /\ IF caller = "som" THEN UNCHANGED <<pendscyc, pendtwd>>
     ELSE pendscyc' = FALSE /\ pendtwd' = FALSE

\* In the timer handlers.
FinishHandler ==
  /\ caller \in {"scyc", "twd"}
  /\ Becomes(UpdateSchedtsk(K)) /\ UNCHANGED <<cpuvars, timer, pendscyc, pendtwd>>

Finish ==
  /\ phase = "proc" /\ phase' = "none" /\ caller' = NULL
  /\ FinishTask \/ FinishHandler
  /\ UNCHANGED <<cursom, nxtsom, runtwd, scycreg, hstack>>

-----------------------------------------------------------------------------
(* Interrupts: "low" is below the timers' priority, "high" above it. *)

\* The entry of an interrupt: the outermost one stops the timer.
Enter(h) ==
  /\ hstack' = <<h>> \o hstack /\ intnest' = TRUE
  /\ timer' = IF intnest THEN timer ELSE IfEnabled(timer, TwdtimerStop(timer))
  /\ UNCHANGED <<kvars, enadsp, ipm, lock, swvars, phase, caller>>

LowInterrupt  == hstack = << >> /\ ~lock /\ ~ipm /\ phase = "none" /\ Enter("low")
HighInterrupt == /\ hstack = << >> /\ phase = "nfy" /\ caller \in {"ena", "ext", "som"}
                 /\ Enter("high")

TimersOpen == hstack \in {<< >>, <<"low">>} /\ ~lock /\ phase = "none"

HrtInterrupt == TimersOpen /\ (scycreg \/ tmevt # {}) /\ Enter("hrt")

\* The request is cleared when it is accepted.
TwdInterrupt ==
  /\ TimersOpen /\ timer.req
  /\ hstack' = <<"twd">> \o hstack /\ intnest' = TRUE
  /\ LET tm == [timer EXCEPT !.req = FALSE]
     IN  timer' = IF intnest THEN tm ELSE IfEnabled(tm, TwdtimerStop(tm))
  /\ UNCHANGED <<kvars, enadsp, ipm, lock, swvars, phase, caller>>

Handler == IF hstack = << >> THEN "none" ELSE Head(hstack)

\* signal_time calls scyc_switch.
scyc_switch ==
  /\ Handler = "hrt" /\ phase = "none" /\ scycreg
  /\ IF dspflg THEN Start(ScycStart([Sw EXCEPT !.scycreg = FALSE]), "scyc")
     ELSE /\ pendscyc' = TRUE /\ scycreg' = FALSE
          /\ UNCHANGED <<kvars, cursom, nxtsom, runtwd, pendtwd, timer, phase, caller>>
  /\ UNCHANGED <<cpuvars, hstack>>

\* signal_time calls wait_tmout; only the kernel domain's heap is its business.
SignalTimeout(t) ==
  /\ Handler = "hrt" /\ phase = "none" /\ UnitOf[t] = KERNEL
  /\ TimerExpires(t)
  /\ UNCHANGED tpvars

\* twd_switch, once per interrupt: the handler is "done" then.
twd_switch_NoUpdate ==
  /\ Handler = "twd" /\ phase = "none"
  /\ hstack' = <<"done">> \o Tail(hstack) /\ UNCHANGED cpuvars
  /\ IF timer.enable /\ timer.left = 0 /\ dspflg
     THEN SwBecomes(NextTwd(Sw)) /\ UNCHANGED <<phase, caller>>
     ELSE UNCHANGED <<kvars, swvars, timer, phase, caller>>

twd_switch ==
  /\ Handler = "twd" /\ phase = "none"
  /\ hstack' = <<"done">> \o Tail(hstack) /\ UNCHANGED cpuvars
  /\ \/ timer.enable /\ timer.left = 0 /\ dspflg /\ Start(NextTwd(Sw), "twd")
     \/ /\ timer.enable /\ timer.left = 0 /\ ~dspflg
        /\ pendtwd' = TRUE /\ timer' = [timer EXCEPT !.enable = FALSE]
        /\ UNCHANGED <<kvars, cursom, nxtsom, runtwd, scycreg, pendscyc, phase, caller>>
     \/ /\ ~(timer.enable /\ timer.left = 0)          \* spurious
        /\ UNCHANGED <<kvars, swvars, timer, phase, caller>>

\* The timer follows the return of the outermost handler.
InterruptExit_TimerForgotten ==
  /\ hstack # << >> /\ Handler # "twd" /\ (phase = "none" \/ Handler = "high")
  /\ hstack' = Tail(hstack) /\ intnest' = (Len(hstack) > 1)
  /\ IF Len(hstack) > 1 THEN UNCHANGED kvars
     ELSE Becomes(IF runtsk # schedtsk THEN Dispatch(K) ELSE K)
  /\ UNCHANGED <<enadsp, ipm, lock, swvars, timer, phase, caller>>

InterruptExit ==
  /\ hstack # << >> /\ Handler # "twd" /\ (phase = "none" \/ Handler = "high")
  /\ hstack' = Tail(hstack) /\ intnest' = (Len(hstack) > 1)
  /\ IF Len(hstack) > 1 THEN UNCHANGED <<kvars, timer>>
     ELSE LET s == IF runtsk # schedtsk THEN Dispatch(K) ELSE K
          IN  Becomes(s) /\ timer' = TimerFor(timer, s.runtsk)
  /\ UNCHANGED <<enadsp, ipm, lock, swvars, phase, caller>>

-----------------------------------------------------------------------------
\* The service calls that do not call set_dspflg; the timer handlers make none.
OtherCall ==
  /\ phase = "none" /\ Handler \in {"none", "low"}
  /\ \/ \E t \in Task : \/ PlainTaskCall(t) \/ ras_ter(t) \/ ter_tsk(t) \/ rel_wai(t)
                        \/ \E p \in Pri : chg_pri(t, p)
     \/ dis_ter \/ dly_tsk \/ loc_cpu \/ unl_cpu \/ dis_dsp
     \/ \E timed \in BOOLEAN : slp_tsk(timed)
  /\ timer' = IF runtsk' # runtsk THEN TimerFor(timer, runtsk') ELSE timer
  /\ UNCHANGED <<swvars, hstack, phase, caller>>

ena_ter_tp ==
  /\ phase = "none" /\ Handler = "none" /\ ena_ter
  /\ timer' = IF tcb[runtsk].raster /\ dspflg THEN TimerFor(timer, runtsk') ELSE timer
  /\ UNCHANGED <<swvars, hstack, phase, caller>>

TpInit ==
  /\ LET s == Dispatch(MakeActive([InitK EXCEPT !.twdsched = KERNEL,
                                                !.idlesched = KERNEL], Main))
     IN  /\ tcb = s.tcb /\ ready = s.ready /\ primap = s.primap
         /\ predtsk = s.predtsk /\ wque = s.wque /\ tmevt = s.tmevt
         /\ runtsk = s.runtsk /\ schedtsk = s.schedtsk
         /\ twdsched = s.twdsched /\ idlesched = s.idlesched /\ dspflg = s.dspflg
  /\ enadsp = TRUE /\ ipm = FALSE /\ lock = FALSE /\ intnest = FALSE
  /\ cursom = NULL /\ nxtsom = NULL /\ runtwd = 0 /\ scycreg = FALSE
  /\ pendscyc = FALSE /\ pendtwd = FALSE
  /\ timer = [enable |-> FALSE, flag |-> FALSE, left |-> 0, hw |-> 0, req |-> FALSE]
  /\ hstack = << >> /\ phase = "none" /\ caller = NULL

TpNext ==
  \/ Tick \/ NotifyCall \/ NotifyReturns \/ Finish
  \/ \E t \in Task : ProcTop(t) \/ SignalTimeout(t)
  \/ ena_dsp_tp \/ ext_tsk_tp \/ ena_ter_tp
  \/ \E mask \in BOOLEAN : chg_ipm_tp(mask)
  \/ \E m \in Som \union {NULL} : chg_som(m)
  \/ LowInterrupt \/ HighInterrupt \/ HrtInterrupt \/ TwdInterrupt
  \/ scyc_switch \/ twd_switch \/ InterruptExit
  \/ OtherCall

TpSpec == TpInit /\ [][TpNext]_wvars

-----------------------------------------------------------------------------
(* Properties. *)

\* Mode, window, p_twdsched, p_idlesched, timer, the event that ends the cycle
\* and what is pending agree, also after switches were held off: nothing stays
\* pending once dispatching is possible, the timer is wanted exactly in a window
\* that has not ended (what test/tBitKernel.c:478 checks, and the flags), and the
\* event is registered exactly in a cycle that has not ended: chg_som and a held
\* switch neither lose it nor register it again, which would corrupt the heap.
WindowConsistent ==
  phase = "none" =>
    /\ scycreg <=> cursom # NULL /\ ~pendscyc
    /\ dspflg => ~pendscyc /\ ~pendtwd
    /\ timer.enable <=> runtwd # 0 /\ ~pendtwd
    /\ IF cursom = NULL THEN runtwd = 0 /\ twdsched = KERNEL /\ idlesched = KERNEL
       ELSE /\ idlesched = IDLE
            /\ twdsched = IF runtwd = 0 THEN IDLE ELSE Windows[cursom][runtwd].dom

\* Isolation in time: with dispatching possible, every switch of window, cycle
\* or mode leaves the task of highest precedence of the kernel domain and of the
\* window scheduled and, outside handlers, running; a task of another domain
\* never runs on into a window that is not its own.
WindowIsolation ==
  phase = "none" => SchedtskIsBest /\ RunsWhatIsScheduled

\* The time of a window is never for free: whenever a user task or the idle loop
\* runs in a window, the window timer counts, through all paths of interrupts,
\* dispatches, held-off and resumed switches.
UserTimeIsCounted ==
  ~intnest /\ timer.enable /\ (runtsk = NULL \/ UnitOf[runtsk] # KERNEL) => timer.flag

\* Windows run in order and none is cut short: within a cycle a window is left
\* only for the next one (or the idle window), and only when it has no time left.
WindowsInOrder ==
  [][runtwd # 0 /\ runtwd' # runtwd /\ ~pendscyc =>
       \/ scyc_switch
       \/ /\ timer.left = 0 /\ ~timer.flag
          /\ runtwd' = IF runtwd < Len(Windows[cursom]) THEN runtwd + 1 ELSE 0]_wvars
=============================================================================
