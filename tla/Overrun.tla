------------------------------- MODULE Overrun --------------------------------
(***************************************************************************)
(* The overrun handler extension (extension/ovrhdr): a task may be given   *)
(* an amount of processor time, after which a handler is called.  The      *)
(* timer counts while the task runs: the service calls of the extension    *)
(* and the ends of tasks start and stop it, and so do the dispatcher and   *)
(* the entry and exit of interrupts, which are those of the porting guide  *)
(* (doc/porting.txt, 6.4 and 6.5; no dispatcher here supports the          *)
(* extension).  The timer is an ideal one: it requests the interrupt when  *)
(* the time set is over, and tells the time left when it is stopped.       *)
(***************************************************************************)
EXTENDS TaskKernel

CONSTANTS
  OvrTim     \* the amounts of time that sta_ovr may be given

ASSUME OvrAssumption == OvrTim \subseteq Nat \ {0}

VARIABLES
  ovr,     \* staovr and leftotm of the tasks, and the overrun timer
  ovrint,  \* the overrun interrupt was accepted and has not called call_ovrhdr
  owed,    \* for the properties: the time a task has still got,
  called   \* and the tasks for which the handler was called since sta_ovr

ovrvars == <<ovr, ovrint, owed, called>>

-----------------------------------------------------------------------------
(* The timer: `hw' counts down to the interrupt, which clears `enable'.      *)

\* target_ovrtimer_start: without any time left it raises the interrupt.
OvrtimerStart(tm, n) ==
  IF n = 0 THEN [enable |-> FALSE, req |-> TRUE, hw |-> 0]
  ELSE [tm EXCEPT !.enable = TRUE, !.hw = n]

\* target_ovrtimer_stop: a request that is not yet accepted is taken back.
OvrtimerStop == [enable |-> FALSE, req |-> FALSE, hw |-> 0]

\* Time passes for the running task.
Advance ==
  /\ ~intnest /\ runtsk # NULL
  /\ LET tm == ovr.tm
     IN  ovr' = [ovr EXCEPT !.tm = [enable |-> tm.enable /\ tm.hw > 1,
                                    hw     |-> IF tm.hw > 0 THEN tm.hw - 1 ELSE 0,
                                    req    |-> tm.req \/ (tm.enable /\ tm.hw = 1)]]
  /\ owed' = [owed EXCEPT ![runtsk] =
                IF ovr.sta[runtsk] /\ @ > 0 THEN @ - 1 ELSE @]
  /\ UNCHANGED <<vars, ovrint, called>>

-----------------------------------------------------------------------------
(* ovrtimer_start and ovrtimer_stop for the running task t, and who calls them. *)

ovrtimer_start(o, t) ==
  IF t # NULL /\ o.sta[t] THEN [o EXCEPT !.tm = OvrtimerStart(@, o.left[t])] ELSE o

ovrtimer_stop_KeepsLeft(o, t) ==
  IF t # NULL /\ o.sta[t] THEN [o EXCEPT !.tm = OvrtimerStop] ELSE o

ovrtimer_stop(o, t) ==
  IF t # NULL /\ o.sta[t]
  THEN [o EXCEPT !.left[t] = o.tm.hw, !.tm = OvrtimerStop] ELSE o

\* dispatch stops the timer for the task it leaves, and the task it goes to
\* starts it, wherever that task was interrupted.
Switched ==
  ovr' = IF runtsk' = runtsk \/ intnest THEN ovr
         ELSE ovrtimer_start(ovrtimer_stop(ovr, runtsk), runtsk')

\* t is terminated (make_dormant), perhaps restarted at once, and another task
\* may run.  If t itself was running, its timer is stopped for good.
TaskEnded(t) ==
  LET stopped == IF t = runtsk /\ ovr.sta[t]
                 THEN [ovr EXCEPT !.tm = OvrtimerStop] ELSE ovr
      o == [stopped EXCEPT !.sta[t] = FALSE]
  IN  /\ ovr' = IF t = runtsk THEN ovrtimer_start(o, runtsk')
                ELSE IF runtsk' = runtsk THEN o
                ELSE ovrtimer_start(ovrtimer_stop(o, runtsk), runtsk')
      /\ called' = called \ {t}
      /\ UNCHANGED <<ovrint, owed>>

-----------------------------------------------------------------------------
(* overrun.c *)

\* A task, or in a task also the calling one, gets n units of time.
sta_ovr(t, n) ==
  /\ Unl
  /\ ovr' = [ovr EXCEPT !.sta[t] = TRUE, !.left[t] = n,
                        !.tm = IF intnest \/ t # runtsk THEN @
                               ELSE OvrtimerStart(IF ovr.sta[t] THEN OvrtimerStop ELSE @, n)]
  /\ owed' = [owed EXCEPT ![t] = n] /\ called' = called \ {t}
  /\ UNCHANGED <<vars, ovrint>>

stp_ovr(t) ==
  /\ Unl
  /\ ovr' = [ovr EXCEPT !.sta[t] = FALSE,
                        !.tm = IF intnest \/ t # runtsk \/ ~ovr.sta[t] THEN @
                               ELSE OvrtimerStop]
  /\ called' = called \ {t}
  /\ UNCHANGED <<vars, ovrint, owed>>

\* ref_ovr, in a task: whether t has some time, and how much is left.
ref_ovr(t) ==
  IF ~ovr.sta[t] THEN [ovrstat |-> "STP"]
  ELSE [ovrstat |-> "STA", leftotm |-> IF t = runtsk THEN ovr.tm.hw ELSE ovr.left[t]]

\* The overrun interrupt.  Before its handler calls call_ovrhdr, handlers of a
\* higher priority may run.
OvrInterrupt ==
  /\ ovr.tm.req /\ IntEnter
  /\ ovr' = ovrtimer_stop([ovr EXCEPT !.tm.req = FALSE], runtsk)
  /\ ovrint' = TRUE
  /\ UNCHANGED <<owed, called>>

call_ovrhdr_NotChecked ==
  /\ intnest /\ ovrint
  /\ ovrint' = FALSE
  /\ LET over == runtsk # NULL /\ ovr.sta[runtsk]
     IN  IF over THEN ovr' = [ovr EXCEPT !.sta[runtsk] = FALSE] /\ called' = called \union {runtsk}
         ELSE UNCHANGED <<ovr, called>>
  /\ UNCHANGED <<vars, owed>>

\* The overrun may have been cancelled since the timer expired.
call_ovrhdr ==
  /\ intnest /\ ovrint
  /\ ovrint' = FALSE
  /\ LET over == runtsk # NULL /\ ovr.sta[runtsk] /\ ovr.left[runtsk] = 0
     IN  IF over THEN ovr' = [ovr EXCEPT !.sta[runtsk] = FALSE] /\ called' = called \union {runtsk}
         ELSE UNCHANGED <<ovr, called>>
  /\ UNCHANGED <<vars, owed>>

-----------------------------------------------------------------------------
(* The calls of TaskKernel. *)

MayEnd == tcb[runtsk].raster /\ tcb[runtsk].enater

\* ena_dsp and chg_ipm end the task if its termination was requested.
EndsIf(ends) == IF ends THEN TaskEnded(runtsk) ELSE Switched /\ UNCHANGED <<ovrint, owed, called>>

OvrExtTsk       == ext_tsk /\ TaskEnded(runtsk)
OvrEnaTer       == ena_ter /\ EndsIf(tcb[runtsk].raster /\ dspflg)
OvrEnaDsp       == ena_dsp /\ EndsIf(~ipm /\ MayEnd)
OvrChgIpm(mask) == chg_ipm(mask) /\ EndsIf(~mask /\ enadsp /\ MayEnd)
OvrTerTsk(t)    == ter_tsk(t) /\ TaskEnded(t)
OvrRasTer(t) ==
  ras_ter(t) /\ IF tcb[t].enater THEN TaskEnded(t) ELSE Switched /\ UNCHANGED <<ovrint, owed, called>>

OvrCall(T) ==
  /\ \/ \E t \in T : PlainTaskCall(t) \/ rel_wai(t) \/ TimerExpires(t)
                       \/ \E p \in Pri : chg_pri(t, p)
     \/ dis_ter \/ dly_tsk \/ loc_cpu \/ unl_cpu \/ dis_dsp
     \/ \E timed \in BOOLEAN : slp_tsk(timed)
  /\ Switched /\ UNCHANGED <<ovrint, owed, called>>

\* Any other interrupt.
OvrIntEnter ==
  /\ IntEnter
  /\ ovr' = ovrtimer_stop(ovr, runtsk)
  /\ UNCHANGED <<ovrint, owed, called>>

OvrIntExit ==
  /\ ~ovrint /\ IntExit
  /\ ovr' = ovrtimer_start(ovr, runtsk')
  /\ UNCHANGED <<ovrint, owed, called>>

OvrInit ==
  /\ ovr = [sta |-> [t \in Task |-> FALSE], left |-> [t \in Task |-> 0],
            tm |-> [enable |-> FALSE, hw |-> 0, req |-> FALSE]]
  /\ ovrint = FALSE /\ owed = [t \in Task |-> 0] /\ called = {}

\* The application's tasks are T.
OvrStep(T) ==
  \/ Advance \/ OvrInterrupt \/ call_ovrhdr \/ OvrIntEnter \/ OvrIntExit
  \/ OvrCall(T) \/ OvrExtTsk \/ OvrEnaTer \/ OvrEnaDsp
  \/ \E mask \in BOOLEAN : OvrChgIpm(mask)
  \/ \E t \in T : \/ OvrTerTsk(t) \/ OvrRasTer(t) \/ stp_ovr(t)
                  \/ \E n \in OvrTim : sta_ovr(t, n)

OvrSpec == Init /\ OvrInit /\ [][OvrStep(Task)]_<<vars, ovrvars>>

-----------------------------------------------------------------------------
(* Properties. *)

\* Through preemption, handlers, restarts and new amounts of time a task is
\* charged for exactly the time it runs: ref_ovr tells what is left; the timer
\* counts, or the interrupt is requested, only for a running task that was given
\* time and always for such a task; and the handler is called only for a task
\* that has used up its time (an overrun cancelled at the last moment by a
\* handler is no overrun).
OverrunExact ==
  /\ ~intnest /\ runtsk # NULL =>
       \A t \in Task : ref_ovr(t).ovrstat = "STA" => ref_ovr(t).leftotm = owed[t]
  /\ IF ~intnest /\ runtsk # NULL /\ ovr.sta[runtsk]
     THEN IF owed[runtsk] = 0 THEN ovr.tm.req ELSE ovr.tm.enable /\ ~ovr.tm.req
     ELSE ~ovr.tm.enable /\ ~ovr.tm.req
  /\ \A t \in called : owed[t] = 0
===============================================================================
