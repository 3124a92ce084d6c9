------------------------------ MODULE TaskKernel ------------------------------
(***************************************************************************)
(* The kernel core as the application drives it: task management           *)
(* (kernel/task_manage.c), termination (task_term.c), task synchronisation *)
(* (task_sync.c), dispatch control (sys_manage.c, interrupt.c), interrupt  *)
(* entry and exit (core_support.S), for a system without mutexes           *)
(* (mtxhook_* never called) and without time partitioning                  *)
(* (system_cyctim = 0, so p_twdsched = p_idlesched = &schedcb_idle).       *)
(*                                                                         *)
(* A service call that returns an error leaves the state unchanged and is  *)
(* a stuttering step, so only the calls that succeed are actions.          *)
(***************************************************************************)
EXTENDS KernelState

CONSTANTS
  Main,      \* the task created with TA_ACT
  NoActQue,  \* the tasks created with TA_NOACTQUE
  Api        \* the service calls the application makes (bounds a run)

ASSUME TaskAssumption == Main \in Task /\ NoActQue \subseteq Task

VARIABLES
  tcb, ready, primap, predtsk, wque, tmevt,
  runtsk, schedtsk, twdsched, idlesched, dspflg,
  enadsp,    \* dispatching is enabled
  ipm,       \* TRUE iff the interrupt priority mask is not TIPM_ENAALL
  lock,      \* the application holds the CPU lock
  intnest    \* a handler runs (intnest > 0; a nested return changes nothing)

cpuvars == <<enadsp, ipm, lock, intnest>>
kvars   == <<tcb, ready, primap, predtsk, wque, tmevt,
             runtsk, schedtsk, twdsched, idlesched, dspflg>>
vars    == <<kvars, cpuvars>>

K == [tcb |-> tcb, ready |-> ready, primap |-> primap, predtsk |-> predtsk,
      wque |-> wque, tmevt |-> tmevt, runtsk |-> runtsk, schedtsk |-> schedtsk,
      twdsched |-> twdsched, idlesched |-> idlesched, dspflg |-> dspflg]

Becomes(s) ==
  /\ tcb' = s.tcb /\ ready' = s.ready /\ primap' = s.primap
  /\ predtsk' = s.predtsk /\ wque' = s.wque /\ tmevt' = s.tmevt
  /\ runtsk' = s.runtsk /\ schedtsk' = s.schedtsk
  /\ twdsched' = s.twdsched /\ idlesched' = s.idlesched /\ dspflg' = s.dspflg

-----------------------------------------------------------------------------
(* Contexts: the CHECK_* macros of kernel/check.h. *)

TskCtxUnl     == ~intnest /\ runtsk # NULL /\ ~lock        \* CHECK_TSKCTX_UNL
Unl           == (intnest \/ runtsk # NULL) /\ ~lock       \* CHECK_UNL
CheckDispatch == TskCtxUnl /\ dspflg                       \* CHECK_DISPATCH

\* if (p_runtsk != p_schedtsk) dispatch(), or request_dispatch_retint() in a
\* handler, which on this processor does nothing: interrupt exit compares.
DispatchIfNeeded(s) ==
  IF ~intnest /\ s.runtsk # s.schedtsk THEN Dispatch(s) ELSE s

Return(s) == Becomes(DispatchIfNeeded(s)) /\ UNCHANGED cpuvars

-----------------------------------------------------------------------------
(* Initial state: initialize_domain, initialize_task, start_dispatch. *)

InitTCB(t) ==
  [tstat |-> {}, bpri |-> IniPri[t], pri |-> IniPri[t], actque |-> FALSE,
   wupque |-> FALSE, raster |-> FALSE, enater |-> TRUE, wobj |-> NULL]

InitK ==
  [tcb |-> [t \in Task |-> InitTCB(t)],
   ready |-> [u \in Unit |-> [p \in Pri |-> << >>]],
   primap |-> [u \in Unit |-> {}],
   predtsk |-> [u \in Unit |-> NULL],
   wque |-> [w \in WObj |-> << >>],
   tmevt |-> {}, runtsk |-> NULL, schedtsk |-> NULL,
   twdsched |-> IDLE, idlesched |-> IDLE, dspflg |-> TRUE]

StartK == Dispatch(MakeActive(InitK, Main))

Init ==
  /\ tcb = StartK.tcb /\ ready = StartK.ready /\ primap = StartK.primap
  /\ predtsk = StartK.predtsk /\ wque = StartK.wque /\ tmevt = StartK.tmevt
  /\ runtsk = StartK.runtsk /\ schedtsk = StartK.schedtsk
  /\ twdsched = StartK.twdsched /\ idlesched = StartK.idlesched
  /\ dspflg = StartK.dspflg
  /\ enadsp = TRUE /\ ipm = FALSE /\ lock = FALSE /\ intnest = FALSE

-----------------------------------------------------------------------------
(* task_manage.c *)

act_tsk(t) ==
  /\ "act_tsk" \in Api /\ Unl
  /\ \/ IsDormant(tcb[t].tstat) /\ Return(MakeActive(K, t))
     \/ /\ ~IsDormant(tcb[t].tstat)
        /\ t \notin NoActQue /\ ~tcb[t].actque
        /\ Return([K EXCEPT !.tcb[t].actque = TRUE])

can_act(t) ==
  /\ "can_act" \in Api /\ TskCtxUnl
  /\ Return([K EXCEPT !.tcb[t].actque = FALSE])

chg_pri_AtHead(t, newbpri) ==
  /\ "chg_pri" \in Api /\ TskCtxUnl
  /\ ~IsDormant(tcb[t].tstat)
  /\ Return(ChangePriority([K EXCEPT !.tcb[t].bpri = newbpri], t, newbpri, TRUE))

chg_pri(t, newbpri) ==
  /\ "chg_pri" \in Api /\ TskCtxUnl
  /\ ~IsDormant(tcb[t].tstat)
  /\ Return(ChangePriority([K EXCEPT !.tcb[t].bpri = newbpri], t, newbpri, FALSE))

-----------------------------------------------------------------------------
(* task_term.c *)

\* exit_and_dispatch: the context of the running task is thrown away.
TerminateSelf(s) == Becomes(Dispatch(TaskTerminate(s, s.runtsk)))

\* set_dspflg of a system without time partitioning (nothing is pending).
SetDspflg(s) == UpdateSchedtsk([s EXCEPT !.dspflg = TRUE])

ext_tsk ==
  /\ "ext_tsk" \in Api /\ ~intnest /\ runtsk # NULL
  /\ IF dspflg
     THEN TerminateSelf(K) /\ UNCHANGED <<enadsp, ipm>>
     ELSE TerminateSelf(SetDspflg(K)) /\ enadsp' = TRUE /\ ipm' = FALSE
  /\ lock' = FALSE
  /\ UNCHANGED intnest

RasTerWaiting(t) ==
  LET s == IF IsWaiting(tcb[t].tstat)
           THEN WaitDequeueTmevtb(WaitDequeueWObj(K, t), t) ELSE K
  IN  MakeRunnable([s EXCEPT !.tcb[t].raster = TRUE, !.tcb[t].tstat = {"RUNNABLE"}], t)

\* ras_ter of a task that has disabled its termination: it is only requested.
RequestTermination(t) ==
  /\ ~tcb[t].enater
  /\ IF IsRunnable(tcb[t].tstat)
     THEN Return([K EXCEPT !.tcb[t].raster = TRUE])
     ELSE Return(RasTerWaiting(t))

RasTerOK(t) ==
  /\ "ras_ter" \in Api /\ TskCtxUnl
  /\ t # runtsk /\ ~IsDormant(tcb[t].tstat)

ras_ter(t) ==
  /\ RasTerOK(t)
  /\ \/ tcb[t].enater /\ Return(TaskTerminate(K, t))
     \/ RequestTermination(t)

dis_ter ==
  /\ "dis_ter" \in Api /\ TskCtxUnl
  /\ Return([K EXCEPT !.tcb[runtsk].enater = FALSE])

ena_ter ==
  /\ "ena_ter" \in Api /\ TskCtxUnl
  /\ IF tcb[runtsk].raster /\ dspflg
     THEN TerminateSelf(K) /\ UNCHANGED cpuvars
     ELSE Return([K EXCEPT !.tcb[runtsk].enater = TRUE])

TerTskOK(t) ==
  /\ "ter_tsk" \in Api /\ TskCtxUnl
  /\ t # runtsk /\ ~IsDormant(tcb[t].tstat)

ter_tsk(t) == TerTskOK(t) /\ Return(TaskTerminate(K, t))

-----------------------------------------------------------------------------
(* task_sync.c *)

\* slp_tsk, and tslp_tsk with a positive timeout if `timed'.
slp_tsk(timed) ==
  /\ "slp_tsk" \in Api /\ CheckDispatch
  /\ timed => "tmout" \in Api
  /\ ~tcb[runtsk].raster
  /\ IF tcb[runtsk].wupque
     THEN Return([K EXCEPT !.tcb[runtsk].wupque = FALSE])
     ELSE Return(MakeWaitTmout(K, "SLP", timed))

wup_tsk(t) ==
  /\ "wup_tsk" \in Api /\ Unl
  /\ ~IsDormant(tcb[t].tstat)
  /\ \/ "SLP" \in tcb[t].tstat /\ Return(WaitComplete(K, t))
     \/ /\ "SLP" \notin tcb[t].tstat /\ ~tcb[t].wupque
        /\ Return([K EXCEPT !.tcb[t].wupque = TRUE])

can_wup(t) ==
  /\ "can_wup" \in Api /\ TskCtxUnl
  /\ ~IsDormant(tcb[t].tstat)
  /\ Return([K EXCEPT !.tcb[t].wupque = FALSE])

rel_wai(t) ==
  /\ "rel_wai" \in Api /\ Unl
  /\ IsWaiting(tcb[t].tstat)
  /\ Return(MakeNonWait(WaitDequeueTmevtb(WaitDequeueWObj(K, t), t), t))

sus_tsk(t) ==
  /\ "sus_tsk" \in Api /\ TskCtxUnl
  /\ t = runtsk => dspflg
  /\ ~IsDormant(tcb[t].tstat) /\ ~tcb[t].raster /\ ~IsSuspended(tcb[t].tstat)
  /\ IF IsRunnable(tcb[t].tstat)
     THEN Return(MakeNonRunnable([K EXCEPT !.tcb[t].tstat = {"SUSPENDED"}], t))
     ELSE Return([K EXCEPT !.tcb[t].tstat = @ \union {"SUSPENDED"}])

rsm_tsk(t) ==
  /\ "rsm_tsk" \in Api /\ TskCtxUnl
  /\ IsSuspended(tcb[t].tstat)
  /\ IF IsWaiting(tcb[t].tstat)
     THEN Return([K EXCEPT !.tcb[t].tstat = @ \ {"SUSPENDED"}])
     ELSE Return(MakeRunnable([K EXCEPT !.tcb[t].tstat = {"RUNNABLE"}], t))

dly_tsk ==
  /\ "dly_tsk" \in Api /\ CheckDispatch
  /\ ~tcb[runtsk].raster
  /\ Return(MakeWaitTmout(K, "DLY", TRUE))

-----------------------------------------------------------------------------
(* sys_manage.c and interrupt.c *)

\* rot_rdq (in a handler: the kernel domain's unit) and mrot_rdq (any unit).
rot_rdq(p, u) ==
  /\ "rot_rdq" \in Api /\ Unl
  /\ Return(RotateReadyQueue(K, p, u))

loc_cpu ==
  /\ "loc_cpu" \in Api /\ TskCtxUnl
  /\ lock' = TRUE
  /\ UNCHANGED <<kvars, enadsp, ipm, intnest>>

unl_cpu ==
  /\ ~intnest /\ lock
  /\ lock' = FALSE
  /\ UNCHANGED <<kvars, enadsp, ipm, intnest>>

dis_dsp ==
  /\ "dis_dsp" \in Api /\ TskCtxUnl
  /\ enadsp' = FALSE
  /\ Becomes([K EXCEPT !.dspflg = FALSE])
  /\ UNCHANGED <<ipm, lock, intnest>>

\* The common end of ena_dsp and of chg_ipm(TIPM_ENAALL).
EnableDispatch ==
  LET s == SetDspflg(K)
  IN  /\ IF tcb[runtsk].raster /\ tcb[runtsk].enater
         THEN TerminateSelf(s)
         ELSE Becomes(DispatchIfNeeded(s))
      /\ ipm' = FALSE

ena_dsp ==
  /\ "dis_dsp" \in Api /\ TskCtxUnl
  /\ enadsp' = TRUE
  /\ IF ~ipm THEN EnableDispatch ELSE UNCHANGED <<kvars, ipm>>
  /\ UNCHANGED <<lock, intnest>>

chg_ipm_EnadspIgnored(mask) ==
  /\ "chg_ipm" \in Api /\ TskCtxUnl
  /\ IF ~mask THEN EnableDispatch ELSE ipm' = mask /\ Becomes([K EXCEPT !.dspflg = FALSE])
  /\ UNCHANGED <<enadsp, lock, intnest>>

chg_ipm(mask) ==
  /\ "chg_ipm" \in Api /\ TskCtxUnl
  /\ IF ~mask /\ enadsp THEN EnableDispatch
     ELSE ipm' = mask /\ Becomes([K EXCEPT !.dspflg = FALSE])
  /\ UNCHANGED <<enadsp, lock, intnest>>

-----------------------------------------------------------------------------
(* Interrupts: _kernel_interrupt of core_support.S. *)

\* An interrupt arrives in a task or in the idle loop; one above the current
\* mask always exists, so ipm does not disable the action.
IntEnter ==
  /\ ~intnest /\ ~lock
  /\ intnest' = TRUE
  /\ UNCHANGED <<kvars, enadsp, ipm, lock>>

IntExit_IdleForgotten ==
  /\ intnest
  /\ intnest' = FALSE
  /\ Becomes(IF runtsk # NULL /\ runtsk # schedtsk THEN Dispatch(K) ELSE K)
  /\ UNCHANGED <<enadsp, ipm, lock>>

\* The outermost return: from the idle loop the dispatcher always runs, from a
\* task only if another one is to be executed.
IntExit ==
  /\ intnest
  /\ intnest' = FALSE
  /\ Becomes(IF runtsk # schedtsk THEN Dispatch(K) ELSE K)
  /\ UNCHANGED <<enadsp, ipm, lock>>

\* signal_time in the timer handler calls the callback of a due time event.
TimerExpires(t) ==
  /\ intnest /\ t \in tmevt
  /\ Return(WaitTmout(K, t))

-----------------------------------------------------------------------------
(* The calls that neither end a task nor take one out of a wait queue nor     *)
(* change a priority do not depend on the synchronisation objects.           *)
PlainTaskCall(t) ==
  \/ act_tsk(t) \/ can_act(t)
  \/ wup_tsk(t) \/ can_wup(t) \/ sus_tsk(t) \/ rsm_tsk(t)

PlainCall ==
  \/ \E t \in Task : PlainTaskCall(t)
  \/ dis_ter \/ dly_tsk \/ loc_cpu \/ unl_cpu \/ dis_dsp
  \/ \E timed \in BOOLEAN : slp_tsk(timed)
  \/ \E p \in Pri, u \in Unit : rot_rdq(p, u)
  \/ IntEnter \/ IntExit

TaskCall(t) ==
  \/ \E p \in Pri : chg_pri(t, p)
  \/ ras_ter(t) \/ ter_tsk(t) \/ rel_wai(t) \/ TimerExpires(t)

SystemCall ==
  \/ ext_tsk \/ ena_ter \/ ena_dsp
  \/ \E mask \in BOOLEAN : chg_ipm(mask)

Next == PlainCall \/ (\E t \in Task : TaskCall(t)) \/ SystemCall

Spec == Init /\ [][Next]_vars

-----------------------------------------------------------------------------
(* Properties. *)

\* The kernel data have their types; TStat admits only the states of the state
\* diagram (a task is never runnable and suspended or waiting at once).
TypeOK ==
  /\ K \in KState
  /\ enadsp \in BOOLEAN /\ ipm \in BOOLEAN
  /\ lock \in BOOLEAN /\ intnest \in BOOLEAN

\* Every ready queue of a unit holds exactly the runnable tasks of that unit
\* with that current priority, each once, the bitmap marks the queues that are
\* not empty, and p_predtsk is the head of the first of them: the bookkeeping of
\* make_runnable, make_non_runnable, change_priority and rotate_ready_queue,
\* which update all three incrementally, agrees.  The running task is always
\* among them, also while a handler runs or dispatching is held off.
ReadyQueuesExact ==
  /\ runtsk # NULL => IsRunnable(tcb[runtsk].tstat)
  /\ \A u \in Unit :
       /\ \A p \in Pri :
            LET q == ready[u][p]
            IN  /\ p \in primap[u] <=> q # << >>
                /\ \A i, j \in DOMAIN q : q[i] = q[j] => i = j
                /\ {q[i] : i \in DOMAIN q} =
                     {t \in Task : UnitOf[t] = u /\ IsRunnable(tcb[t].tstat) /\ tcb[t].pri = p}
       /\ predtsk[u] = IF primap[u] = {} THEN NULL
                       ELSE Head(ready[u][CHOOSE p \in primap[u] : \A h \in primap[u] : p <= h])

\* While dispatching is possible, p_schedtsk is the task of highest precedence
\* although update_schedtsk runs only when some p_predtsk changed: no runnable
\* task of the kernel domain or of the current unit has a higher priority, a
\* user task wins only if strictly higher, and the idle unit comes last.
SchedtskIsBest ==
  dspflg =>
    LET cand == {t \in Task : /\ IsRunnable(tcb[t].tstat)
                              /\ UnitOf[t] \in {KERNEL, twdsched}}
        idle == {t \in Task : IsRunnable(tcb[t].tstat) /\ UnitOf[t] = idlesched}
    IN  IF schedtsk = NULL THEN cand = {} /\ idle = {}
        ELSE /\ schedtsk = predtsk[UnitOf[schedtsk]]
             /\ IF cand = {} THEN schedtsk \in idle
                ELSE /\ schedtsk \in cand
                     /\ \A t \in cand :
                          \/ tcb[schedtsk].pri < tcb[t].pri
                          \/ /\ tcb[schedtsk].pri = tcb[t].pri
                             /\ UnitOf[t] = KERNEL => UnitOf[schedtsk] = KERNEL

\* Outside handlers the running task is the one to be executed (task.h:275 "p_runtsk
\* normally agrees with p_schedtsk"): no service call forgets a dispatch.
RunsWhatIsScheduled == ~intnest => runtsk = schedtsk

\* dspflg caches "ipm is TIPM_ENAALL and dispatching is enabled" (task.h:247).
DspflgExact == dspflg <=> (enadsp /\ ~ipm)

\* A pending termination request never leaves its task blocked, and a task that
\* may be terminated keeps one pending only while it runs with dispatching held
\* off: every path that makes dispatching possible again ends the task.
TerminationRequestHeld ==
  \A t \in Task : tcb[t].raster =>
    /\ IsRunnable(tcb[t].tstat)
    /\ tcb[t].enater => t = runtsk /\ ~dspflg

\* A dormant task keeps nothing of its last run, except for its queued
\* activation, of which it has none (task_terminate uses it up).
DormantIsClean ==
  \A t \in Task : IsDormant(tcb[t].tstat) => tcb[t] = InitTCB(t)

\* A time event is registered only for a task that waits, and always for one
\* in dly_tsk: a time event left behind would release a later wait.
TimersMatchWaits ==
  \A t \in Task : /\ t \in tmevt => tcb[t].tstat \intersect WaitFlag # {}
                  /\ "DLY" \in tcb[t].tstat => t \in tmevt

\* A wait queue holds exactly the tasks that wait for its object, each once,
\* in priority order if the object asks for it, also after chg_pri and after a
\* waiter that owns ceiling mutexes loses one.
WaitQueuesExact ==
  \A w \in WObj :
    LET q == wque[w]
    IN  /\ Len(q) = Cardinality(Range(q))
        /\ Range(q) = {t \in Task : "OBJ" \in tcb[t].tstat /\ tcb[t].wobj = w}
        /\ w \in TPriObj =>
             \A i, j \in DOMAIN q : i < j => tcb[q[i]].pri <= tcb[q[j]].pri

\* While dispatching stays impossible no operation moves p_schedtsk or takes
\* the processor from the running task.
HeldDispatch ==
  [][~dspflg /\ ~dspflg' => UNCHANGED <<runtsk, schedtsk>>]_vars

Before(rq, t, v) ==
  \E u \in Unit, p \in Pri : \E i, j \in DOMAIN rq[u][p] :
    i < j /\ rq[u][p][i] = t /\ rq[u][p][j] = v

\* Among tasks of one priority, precedence is first come first served: a task
\* falls behind another one only if its queue is rotated, if its priority is
\* set again, or if it is terminated and restarted.
FirstComeFirstServed ==
  [][\A t, v \in Task :
       Before(ready, t, v) /\ Before(ready', v, t) =>
         \/ \E p \in Pri, u \in Unit : rot_rdq(p, u)
         \/ \E p \in Pri : chg_pri(t, p)
         \/ tcb[t].actque /\ ~tcb'[t].actque]_vars
=============================================================================
