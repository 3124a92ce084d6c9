--------------------------- MODULE TaskKernelProofs ---------------------------
(***************************************************************************)
(* Theorems about TaskKernel, for every set of tasks, every number of      *)
(* priorities and every scheduling unit.                                   *)
(***************************************************************************)
EXTENDS TaskKernel, KernelStateProofs

\* While dispatching is held off p_schedtsk stays the running task: without
\* this the return of an interrupt could dispatch, and HeldDispatch would fail.
HeldRuns == ~dspflg => runtsk = schedtsk

\* The inductive invariant.
IInv == WellTyped(K) /\ TypeOK /\ DspflgExact /\ RunsWhatIsScheduled /\ HeldRuns

\* What is proved of every step: what HeldDispatch says of it, that a handler
\* does not dispatch before it returns, and that only time partitioning changes
\* the units that p_schedtsk is taken from.
CoreStep ==
  /\ ~dspflg /\ ~dspflg' => UNCHANGED <<runtsk, schedtsk>>
  /\ intnest /\ intnest' => runtsk' = runtsk
  /\ UNCHANGED <<twdsched, idlesched>>

-----------------------------------------------------------------------------
\* The kernel variables become the fields of the new kernel state.
LEMMA BecomesK ==
  ASSUME NEW s, WellTyped(s), Becomes(s)
  PROVE  K' = s
BY DEF Becomes, K, WellTyped, KState

\* A handler that changes the kernel state by sound operations and then
\* dispatches if it is necessary preserves the invariant.
LEMMA ReturnOK ==
  ASSUME IInv, NEW s, Sound(K, s), Return(s)
  PROVE  IInv' /\ CoreStep
<1> DEFINE s2 == DispatchIfNeeded(s)
<1>1. /\ s \in KState /\ s.runtsk = runtsk /\ s.dspflg = dspflg
      /\ ~dspflg => s.schedtsk = schedtsk
      /\ s.twdsched = twdsched /\ s.idlesched = idlesched
  BY DEF Sound, WellTyped, KeepsSched, K
<1>2. WellTyped(s2) /\ s2.dspflg = dspflg /\ s2.schedtsk = s.schedtsk
      /\ s2.twdsched = s.twdsched /\ s2.idlesched = s.idlesched
      /\ s2.runtsk = IF intnest THEN runtsk ELSE s.schedtsk
  BY <1>1 DEF DispatchIfNeeded, Dispatch, Sound, WellTyped, KState
<1> HIDE DEF s2
<1>3. Becomes(s2) /\ UNCHANGED cpuvars
  BY DEF Return, s2
<1>4. WellTyped(K') /\ K' \in KState
  BY <1>2, <1>3, BecomesK DEF WellTyped
<1>5. dspflg' = dspflg /\ runtsk' = s2.runtsk /\ schedtsk' = s.schedtsk
      /\ twdsched' = twdsched /\ idlesched' = idlesched
  BY <1>1, <1>2, <1>3 DEF Becomes
<1>6. /\ enadsp' = enadsp /\ ipm' = ipm /\ lock' = lock /\ intnest' = intnest
  BY <1>3 DEF cpuvars
<1> QED
  BY <1>1, <1>2, <1>4, <1>5, <1>6
     DEF IInv, CoreStep, TypeOK, DspflgExact, RunsWhatIsScheduled, HeldRuns

\* So does a handler outside interrupts that ends in the dispatcher with
\* dispatching possible again.
LEMMA DispatchOK ==
  ASSUME IInv, NEW s, WellTyped(s), s.dspflg,
         s.twdsched = twdsched, s.idlesched = idlesched, Becomes(Dispatch(s)),
         enadsp' = TRUE, ipm' = FALSE, lock' \in BOOLEAN, intnest' = FALSE
  PROVE  IInv' /\ CoreStep
<1> DEFINE s2 == Dispatch(s)
<1>1. /\ WellTyped(s2) /\ s2.dspflg /\ s2.runtsk = s2.schedtsk
      /\ s2.twdsched = twdsched /\ s2.idlesched = idlesched
  BY DEF Dispatch, WellTyped, KState
<1> HIDE DEF s2
<1>2. Becomes(s2)
  BY DEF s2
<1>3. WellTyped(K') /\ K' \in KState
  BY <1>1, <1>2, BecomesK DEF WellTyped
<1>4. /\ dspflg' = s2.dspflg /\ runtsk' = s2.runtsk /\ schedtsk' = s2.schedtsk
      /\ twdsched' = twdsched /\ idlesched' = idlesched
  BY <1>1, <1>2 DEF Becomes
<1>5. s2.dspflg = TRUE
  BY <1>1, <1>3 , <1>2, BecomesK DEF WellTyped, KState
<1> QED
  BY <1>1, <1>3, <1>4, <1>5
     DEF IInv, CoreStep, TypeOK, DspflgExact, RunsWhatIsScheduled, HeldRuns

-----------------------------------------------------------------------------
\* The running task is a task.
LEMMA RunningTask ==
  ASSUME IInv, runtsk # NULL
  PROVE  runtsk \in Task /\ K.runtsk \in Task /\ K.runtsk = runtsk
BY DEF IInv, WellTyped, K, KState

\* Setting components of a task control block other than tstat is sound.
LEMMA TcbFlagSound ==
  ASSUME NEW s, WellTyped(s), NEW t \in Task, NEW b \in BOOLEAN
  PROVE  /\ Sound(s, [s EXCEPT !.tcb[t].actque = b])
         /\ Sound(s, [s EXCEPT !.tcb[t].wupque = b])
         /\ Sound(s, [s EXCEPT !.tcb[t].raster = b])
         /\ Sound(s, [s EXCEPT !.tcb[t].enater = b])
<1>1. /\ [s.tcb[t] EXCEPT !.actque = b] \in TCB
      /\ [s.tcb[t] EXCEPT !.wupque = b] \in TCB
      /\ [s.tcb[t] EXCEPT !.raster = b] \in TCB
      /\ [s.tcb[t] EXCEPT !.enater = b] \in TCB
  BY TaskFacts DEF TCB
<1>2. Sound(s, [s EXCEPT !.tcb[t].actque = b])
  BY <1>1, TcbSound
<1>3. Sound(s, [s EXCEPT !.tcb[t].wupque = b])
  BY <1>1, TcbSound
<1>4. Sound(s, [s EXCEPT !.tcb[t].raster = b])
  BY <1>1, TcbSound
<1>5. Sound(s, [s EXCEPT !.tcb[t].enater = b])
  BY <1>1, TcbSound
<1> QED
  BY <1>2, <1>3, <1>4, <1>5

\* set_dspflg makes dispatching possible and selects the task to execute.
LEMMA SetDspflgOK ==
  ASSUME IInv
  PROVE  /\ WellTyped(SetDspflg(K)) /\ SetDspflg(K).dspflg = TRUE
         /\ SetDspflg(K).runtsk = runtsk
         /\ SetDspflg(K).twdsched = twdsched /\ SetDspflg(K).idlesched = idlesched
<1> DEFINE s == [K EXCEPT !.dspflg = TRUE]
<1>1. WellTyped(s) /\ s.dspflg = TRUE /\ s.runtsk = runtsk
      /\ s.twdsched = twdsched /\ s.idlesched = idlesched
  BY DEF IInv, WellTyped, K, KState
<1>2. Selected(s) \in Task \union {NULL}
  BY <1>1, SelectedType DEF WellTyped
<1> HIDE DEF s
<1>3. WellTyped([s EXCEPT !.schedtsk = Selected(s)])
      /\ [s EXCEPT !.schedtsk = Selected(s)].dspflg = TRUE
      /\ [s EXCEPT !.schedtsk = Selected(s)].runtsk = runtsk
      /\ [s EXCEPT !.schedtsk = Selected(s)].twdsched = twdsched
      /\ [s EXCEPT !.schedtsk = Selected(s)].idlesched = idlesched
  BY <1>1, <1>2 DEF WellTyped, KState
<1> QED
  BY <1>3 DEF SetDspflg, UpdateSchedtsk, s

\* task_terminate of the running task, followed by the dispatcher.
LEMMA TerminateSelfOK ==
  ASSUME IInv, NEW s, WellTyped(s), s.dspflg = TRUE, s.runtsk = runtsk, runtsk # NULL,
         s.twdsched = twdsched, s.idlesched = idlesched, TerminateSelf(s),
         enadsp' = TRUE, ipm' = FALSE, lock' \in BOOLEAN, intnest' = FALSE
  PROVE  IInv' /\ CoreStep
<1> DEFINE s1 == TaskTerminate(s, s.runtsk)
<1>1. Sound(s, s1)
  BY RunningTask, TaskTerminateSound
<1>2. Becomes(Dispatch(s1))
  BY DEF TerminateSelf
<1> HIDE DEF s1
<1>3. WellTyped(s1) /\ s1.dspflg /\ s1.twdsched = twdsched /\ s1.idlesched = idlesched
  BY <1>1 DEF Sound, KeepsSched
<1> QED
  BY <1>2, <1>3, DispatchOK

-----------------------------------------------------------------------------
(* One lemma per group of service calls: each preserves the invariant. *)

\* Task management.
LEMMA ManageOK ==
  ASSUME IInv, NEW t \in Task
  PROVE  /\ act_tsk(t) => IInv' /\ CoreStep
         /\ can_act(t) => IInv' /\ CoreStep
         /\ \A p \in Pri : chg_pri(t, p) => IInv' /\ CoreStep
<1>1. WellTyped(K)
  BY DEF IInv
<1>2. ASSUME act_tsk(t) PROVE IInv' /\ CoreStep
  <2>1. Sound(K, MakeActive(K, t)) /\ Sound(K, [K EXCEPT !.tcb[t].actque = TRUE])
    BY <1>1, MakeActiveSound, TcbFlagSound
  <2>2. Return(MakeActive(K, t)) \/ Return([K EXCEPT !.tcb[t].actque = TRUE])
    BY <1>2 DEF act_tsk
  <2> QED
    BY <2>1, <2>2, ReturnOK
<1>3. ASSUME can_act(t) PROVE IInv' /\ CoreStep
  <2>1. Sound(K, [K EXCEPT !.tcb[t].actque = FALSE])
    BY <1>1, TcbFlagSound
  <2>2. Return([K EXCEPT !.tcb[t].actque = FALSE])
    BY <1>3 DEF can_act
  <2> QED
    BY <2>1, <2>2, ReturnOK
<1>4. ASSUME NEW p \in Pri, chg_pri(t, p) PROVE IInv' /\ CoreStep
  <2> DEFINE s1 == [K EXCEPT !.tcb[t].bpri = p]
  <2>1. [K.tcb[t] EXCEPT !.bpri = p] \in TCB
    BY <1>1, TaskFacts DEF TCB
  <2>2. Sound(K, s1)
    BY <1>1, <2>1, TcbSound
  <2>3. Return(ChangePriority(s1, t, p, FALSE))
    BY <1>4 DEF chg_pri
  <2> HIDE DEF s1
  <2>4. Sound(K, ChangePriority(s1, t, p, FALSE))
    BY <2>2, ChangePrioritySound, SoundTrans DEF Sound
  <2> QED
    BY <2>3, <2>4, ReturnOK
<1> QED
  BY <1>2, <1>3, <1>4

\* Termination.
LEMMA TerminationOK ==
  ASSUME IInv, NEW t \in Task
  PROVE  /\ ext_tsk => IInv' /\ CoreStep
         /\ ras_ter(t) => IInv' /\ CoreStep
         /\ dis_ter => IInv' /\ CoreStep
         /\ ena_ter => IInv' /\ CoreStep
         /\ ter_tsk(t) => IInv' /\ CoreStep
<1>1. WellTyped(K) /\ K.dspflg = dspflg /\ K.runtsk = runtsk
      /\ K.twdsched = twdsched /\ K.idlesched = idlesched
  BY DEF IInv, K
<1>2. Sound(K, TaskTerminate(K, t))
  BY <1>1, TaskTerminateSound
<1>3. ASSUME ext_tsk PROVE IInv' /\ CoreStep
  <2>1. runtsk # NULL /\ lock' = FALSE /\ intnest' = FALSE
    BY <1>3 DEF ext_tsk, IInv, TypeOK
  <2>2. CASE dspflg
    <3>1. TerminateSelf(K) /\ enadsp' = TRUE /\ ipm' = FALSE
      BY <1>3, <2>2 DEF ext_tsk, IInv, DspflgExact, TypeOK
    <3>2. K.dspflg = TRUE
      BY <1>1, <2>2
    <3> QED
      BY <1>1, <2>1, <3>1, <3>2, TerminateSelfOK
  <2>3. CASE ~dspflg
    <3>1. TerminateSelf(SetDspflg(K)) /\ enadsp' = TRUE /\ ipm' = FALSE
      BY <1>3, <2>3 DEF ext_tsk
    <3> QED
      BY <2>1, <3>1, SetDspflgOK, TerminateSelfOK
  <2> QED
    BY <2>2, <2>3
<1>4. ASSUME ras_ter(t) PROVE IInv' /\ CoreStep
  <2>1. CASE Return(TaskTerminate(K, t))
    BY <1>2, <2>1, ReturnOK
  <2>2. CASE Return([K EXCEPT !.tcb[t].raster = TRUE])
    <3>1. Sound(K, [K EXCEPT !.tcb[t].raster = TRUE])
      BY <1>1, TcbFlagSound
    <3> QED
      BY <2>2, <3>1, ReturnOK
  <2>3. CASE Return(RasTerWaiting(t))
    <3> DEFINE s1 == IF IsWaiting(tcb[t].tstat)
                     THEN WaitDequeueTmevtb(WaitDequeueWObj(K, t), t) ELSE K
               s2 == [s1 EXCEPT !.tcb[t].raster = TRUE]
    <3>1. Sound(K, s1)
      BY <1>1, DequeueSound DEF Sound, KeepsSched
    <3>2. RasTerWaiting(t) = MakeRunnable([s2 EXCEPT !.tcb[t].tstat = {"RUNNABLE"}], t)
      BY DEF RasTerWaiting
    <3> HIDE DEF s1
    <3>3. Sound(K, s2)
      BY <3>1, TcbFlagSound, SoundTrans DEF Sound
    <3> HIDE DEF s2
    <3>4. Sound(K, RasTerWaiting(t))
      BY <3>2, <3>3, TstatRunnableSound, SoundTrans DEF Sound
    <3> QED
      BY <2>3, <3>4, ReturnOK
  <2> QED
    BY <1>4, <2>1, <2>2, <2>3 DEF ras_ter, RequestTermination
<1>5. ASSUME dis_ter PROVE IInv' /\ CoreStep
  <2>1. Return([K EXCEPT !.tcb[runtsk].enater = FALSE]) /\ runtsk \in Task
    BY <1>5, RunningTask DEF dis_ter, TskCtxUnl
  <2>2. Sound(K, [K EXCEPT !.tcb[runtsk].enater = FALSE])
    BY <1>1, <2>1, TcbFlagSound
  <2> QED
    BY <2>1, <2>2, ReturnOK
<1>6. ASSUME ena_ter PROVE IInv' /\ CoreStep
  <2>1. runtsk \in Task /\ runtsk # NULL /\ ~intnest
    BY <1>6, RunningTask DEF ena_ter, TskCtxUnl
  <2>2. CASE tcb[runtsk].raster /\ dspflg
    <3>1. TerminateSelf(K) /\ UNCHANGED cpuvars
      BY <1>6, <2>2 DEF ena_ter
    <3>2. enadsp' = TRUE /\ ipm' = FALSE /\ lock' \in BOOLEAN /\ intnest' = FALSE
      BY <2>1, <2>2, <3>1 DEF cpuvars, IInv, TypeOK, DspflgExact
    <3>3. K.dspflg = TRUE
      BY <1>1, <2>2
    <3> QED
      BY <1>1, <2>1, <3>1, <3>2, <3>3, TerminateSelfOK
  <2>3. CASE ~(tcb[runtsk].raster /\ dspflg)
    <3>1. Return([K EXCEPT !.tcb[runtsk].enater = TRUE])
      BY <1>6, <2>3 DEF ena_ter
    <3>2. Sound(K, [K EXCEPT !.tcb[runtsk].enater = TRUE])
      BY <1>1, <2>1, TcbFlagSound
    <3> QED
      BY <3>1, <3>2, ReturnOK
  <2> QED
    BY <2>2, <2>3
<1>7. ASSUME ter_tsk(t) PROVE IInv' /\ CoreStep
  BY <1>2, <1>7, ReturnOK DEF ter_tsk
<1> QED
  BY <1>3, <1>4, <1>5, <1>6, <1>7

\* Task synchronisation.
LEMMA SyncOK ==
  ASSUME IInv, NEW t \in Task
  PROVE  /\ \A timed \in BOOLEAN : slp_tsk(timed) => IInv' /\ CoreStep
         /\ wup_tsk(t) => IInv' /\ CoreStep
         /\ can_wup(t) => IInv' /\ CoreStep
         /\ rel_wai(t) => IInv' /\ CoreStep
         /\ sus_tsk(t) => IInv' /\ CoreStep
         /\ rsm_tsk(t) => IInv' /\ CoreStep
         /\ dly_tsk => IInv' /\ CoreStep
         /\ TimerExpires(t) => IInv' /\ CoreStep
<1>1. WellTyped(K) /\ K.tcb = tcb /\ tcb[t].tstat \in TStat
  BY TaskFacts DEF IInv, K, TCB
<1>2. ASSUME NEW timed \in BOOLEAN, slp_tsk(timed) PROVE IInv' /\ CoreStep
  <2>1. K.runtsk \in Task /\ runtsk \in Task
    BY <1>2, RunningTask DEF slp_tsk, CheckDispatch, TskCtxUnl
  <2>2. Sound(K, [K EXCEPT !.tcb[runtsk].wupque = FALSE])
        /\ Sound(K, MakeWaitTmout(K, "SLP", timed))
    BY <1>1, <2>1, TcbFlagSound, MakeWaitTmoutSound DEF WaitFlag
  <2>3. \/ Return([K EXCEPT !.tcb[runtsk].wupque = FALSE])
        \/ Return(MakeWaitTmout(K, "SLP", timed))
    BY <1>2 DEF slp_tsk
  <2> QED
    BY <2>2, <2>3, ReturnOK
<1>3. ASSUME wup_tsk(t) PROVE IInv' /\ CoreStep
  <2>1. Sound(K, WaitComplete(K, t)) /\ Sound(K, [K EXCEPT !.tcb[t].wupque = TRUE])
    BY <1>1, WaitReleaseSound, TcbFlagSound
  <2>2. Return(WaitComplete(K, t)) \/ Return([K EXCEPT !.tcb[t].wupque = TRUE])
    BY <1>3 DEF wup_tsk
  <2> QED
    BY <2>1, <2>2, ReturnOK
<1>4. ASSUME can_wup(t) PROVE IInv' /\ CoreStep
  <2>1. Sound(K, [K EXCEPT !.tcb[t].wupque = FALSE])
    BY <1>1, TcbFlagSound
  <2>2. Return([K EXCEPT !.tcb[t].wupque = FALSE])
    BY <1>4 DEF can_wup
  <2> QED
    BY <2>1, <2>2, ReturnOK
<1>5. ASSUME rel_wai(t) PROVE IInv' /\ CoreStep
  <2>1. Return(MakeNonWait(WaitDequeueTmevtb(WaitDequeueWObj(K, t), t), t))
    BY <1>5 DEF rel_wai
  <2>2. Sound(K, MakeNonWait(WaitDequeueTmevtb(WaitDequeueWObj(K, t), t), t))
    BY <1>1, WaitReleaseSound
  <2> QED
    BY <2>1, <2>2, ReturnOK
<1>6. ASSUME sus_tsk(t) PROVE IInv' /\ CoreStep
  <2>1. CASE IsRunnable(tcb[t].tstat)
    <3>1. Return(MakeNonRunnable([K EXCEPT !.tcb[t].tstat = {"SUSPENDED"}], t))
      BY <1>6, <2>1 DEF sus_tsk
    <3>2. Sound(K, MakeNonRunnable([K EXCEPT !.tcb[t].tstat = {"SUSPENDED"}], t))
      BY <1>1, StatesType, TstatNonRunnableSound
    <3> QED
      BY <3>1, <3>2, ReturnOK
  <2>2. CASE ~IsRunnable(tcb[t].tstat)
    <3> DEFINE ts == tcb[t].tstat \union {"SUSPENDED"}
    <3>1. tcb[t].tstat # {} /\ "SUSPENDED" \notin tcb[t].tstat /\ "RUNNABLE" \notin tcb[t].tstat
      BY <1>6, <2>2 DEF sus_tsk, IsDormant, IsSuspended, IsRunnable
    <3>2. PICK f \in WaitFlag : tcb[t].tstat = {f}
      BY <1>1, <3>1 DEF TStat
    <3>3. ts = {f, "SUSPENDED"}
      BY <3>2
    <3>4. ts \in TStat
      BY <3>3, StatesType
    <3>5. Return([K EXCEPT !.tcb[t].tstat = ts])
      BY <1>1, <1>6, <2>2 DEF sus_tsk
    <3> HIDE DEF ts
    <3> QED
      BY <1>1, <3>4, <3>5, TstatSound, ReturnOK
  <2> QED
    BY <2>1, <2>2
<1>7. ASSUME rsm_tsk(t) PROVE IInv' /\ CoreStep
  <2>1. CASE IsWaiting(tcb[t].tstat)
    <3> DEFINE ts == tcb[t].tstat \ {"SUSPENDED"}
    <3>1. tcb[t].tstat \intersect WaitFlag # {} /\ "SUSPENDED" \in tcb[t].tstat
      BY <1>7, <2>1 DEF rsm_tsk, IsSuspended, IsWaiting
    <3>2. PICK f \in WaitFlag : tcb[t].tstat = {f, "SUSPENDED"}
      BY <1>1, <3>1 DEF TStat, WaitFlag
    <3>3. f # "SUSPENDED"
      BY DEF WaitFlag
    <3>4. ts = {f}
      BY <3>2, <3>3
    <3>5. ts \in TStat
      BY <3>4, StatesType
    <3>6. Return([K EXCEPT !.tcb[t].tstat = ts])
      BY <1>1, <1>7, <2>1 DEF rsm_tsk
    <3> HIDE DEF ts
    <3> QED
      BY <1>1, <3>5, <3>6, TstatSound, ReturnOK
  <2>2. CASE ~IsWaiting(tcb[t].tstat)
    <3>1. Return(MakeRunnable([K EXCEPT !.tcb[t].tstat = {"RUNNABLE"}], t))
      BY <1>7, <2>2 DEF rsm_tsk
    <3> QED
      BY <1>1, <3>1, TstatRunnableSound, ReturnOK
  <2> QED
    BY <2>1, <2>2
<1>8. ASSUME dly_tsk PROVE IInv' /\ CoreStep
  <2>1. K.runtsk \in Task
    BY <1>8, RunningTask DEF dly_tsk, CheckDispatch, TskCtxUnl
  <2>2. Sound(K, MakeWaitTmout(K, "DLY", TRUE))
    BY <1>1, <2>1, MakeWaitTmoutSound DEF WaitFlag
  <2>3. Return(MakeWaitTmout(K, "DLY", TRUE))
    BY <1>8 DEF dly_tsk
  <2> QED
    BY <2>2, <2>3, ReturnOK
<1>9. ASSUME TimerExpires(t) PROVE IInv' /\ CoreStep
  <2>1. Return(WaitTmout(K, t)) /\ Sound(K, WaitTmout(K, t))
    BY <1>1, <1>9, WaitReleaseSound DEF TimerExpires
  <2> QED
    BY <2>1, ReturnOK
<1> QED
  BY <1>2, <1>3, <1>4, <1>5, <1>6, <1>7, <1>8, <1>9

\* Holding dispatching off: the end of dis_dsp and of chg_ipm.
LEMMA HoldOK ==
  ASSUME IInv, TskCtxUnl, Becomes([K EXCEPT !.dspflg = FALSE]),
         enadsp' \in BOOLEAN, ipm' \in BOOLEAN, ~(enadsp' /\ ~ipm'),
         lock' = lock, intnest' = intnest
  PROVE  IInv' /\ CoreStep
<1> DEFINE s == [K EXCEPT !.dspflg = FALSE]
<1>1. /\ WellTyped(s) /\ s.dspflg = FALSE /\ s.runtsk = runtsk /\ s.schedtsk = schedtsk
      /\ s.twdsched = twdsched /\ s.idlesched = idlesched
  BY DEF IInv, WellTyped, K, KState
<1> HIDE DEF s
<1>2. Becomes(s)
  BY DEF s
<1>3. WellTyped(K') /\ K' \in KState
  BY <1>1, <1>2, BecomesK DEF WellTyped
<1>4. /\ dspflg' = FALSE /\ runtsk' = runtsk /\ schedtsk' = schedtsk
      /\ twdsched' = twdsched /\ idlesched' = idlesched
  BY <1>1, <1>2 DEF Becomes
<1>5. runtsk = schedtsk /\ lock \in BOOLEAN /\ intnest \in BOOLEAN
  BY DEF IInv, RunsWhatIsScheduled, TskCtxUnl, TypeOK
<1> QED
  BY <1>3, <1>4, <1>5 DEF IInv, CoreStep, TypeOK, DspflgExact, RunsWhatIsScheduled, HeldRuns

\* Making dispatching possible again: the end of ena_dsp and of chg_ipm.
LEMMA EnableDispatchOK ==
  ASSUME IInv, TskCtxUnl, EnableDispatch, enadsp' = TRUE, lock' = lock, intnest' = intnest
  PROVE  IInv' /\ CoreStep
<1> DEFINE s == SetDspflg(K)
<1>1. /\ WellTyped(s) /\ s.dspflg = TRUE /\ s.runtsk = runtsk /\ runtsk # NULL
      /\ s.twdsched = twdsched /\ s.idlesched = idlesched
  BY SetDspflgOK DEF TskCtxUnl
<1>2. ipm' = FALSE /\ lock' \in BOOLEAN /\ intnest' = FALSE /\ ~intnest
  BY DEF EnableDispatch, IInv, TypeOK, TskCtxUnl
<1>3. TerminateSelf(s) \/ Becomes(DispatchIfNeeded(s))
  BY DEF EnableDispatch
<1> HIDE DEF s
<1>4. CASE TerminateSelf(s)
  BY <1>1, <1>2, <1>4, TerminateSelfOK
<1>5. CASE Becomes(DispatchIfNeeded(s))
  <2>1. DispatchIfNeeded(s) = Dispatch(s)
    BY <1>1, <1>2 DEF DispatchIfNeeded, Dispatch, WellTyped, KState
  <2> QED
    BY <1>1, <1>2, <1>5, <2>1, DispatchOK
<1> QED
  BY <1>3, <1>4, <1>5

\* System state management.
LEMMA SystemOK ==
  ASSUME IInv
  PROVE  /\ \A p \in Pri, u \in Unit : rot_rdq(p, u) => IInv' /\ CoreStep
         /\ loc_cpu => IInv' /\ CoreStep
         /\ unl_cpu => IInv' /\ CoreStep
         /\ dis_dsp => IInv' /\ CoreStep
         /\ ena_dsp => IInv' /\ CoreStep
         /\ \A mask \in BOOLEAN : chg_ipm(mask) => IInv' /\ CoreStep
<1>1. WellTyped(K)
  BY DEF IInv
<1>2. ASSUME NEW p \in Pri, NEW u \in Unit, rot_rdq(p, u) PROVE IInv' /\ CoreStep
  <2>1. Return(RotateReadyQueue(K, p, u)) /\ Sound(K, RotateReadyQueue(K, p, u))
    BY <1>1, <1>2, RotateReadyQueueSound DEF rot_rdq
  <2> QED
    BY <2>1, ReturnOK
<1>3. ASSUME loc_cpu \/ unl_cpu PROVE IInv' /\ CoreStep
  <2>1. UNCHANGED <<kvars, enadsp, ipm, intnest>> /\ lock' \in BOOLEAN
    BY <1>3 DEF loc_cpu, unl_cpu
  <2>2. /\ K' = K /\ runtsk' = runtsk /\ schedtsk' = schedtsk /\ dspflg' = dspflg
        /\ twdsched' = twdsched /\ idlesched' = idlesched
    BY <2>1 DEF kvars, K
  <2>3. WellTyped(K')
    BY <2>2 DEF IInv
  <2> QED
    BY <2>1, <2>2, <2>3 DEF IInv, CoreStep, TypeOK, DspflgExact, RunsWhatIsScheduled, HeldRuns
<1>4. ASSUME dis_dsp PROVE IInv' /\ CoreStep
  BY <1>4, HoldOK DEF dis_dsp, IInv, TypeOK
<1>5. ASSUME ena_dsp PROVE IInv' /\ CoreStep
  <2>1. CASE ~ipm
    BY <1>5, <2>1, EnableDispatchOK DEF ena_dsp
  <2>2. CASE ipm
    BY <1>5, <2>2 DEF ena_dsp, kvars, K, IInv, CoreStep, TypeOK, DspflgExact,
                      RunsWhatIsScheduled, HeldRuns
  <2> QED
    BY <2>1, <2>2
<1>6. ASSUME NEW mask \in BOOLEAN, chg_ipm(mask) PROVE IInv' /\ CoreStep
  <2>1. CASE ~mask /\ enadsp
    <3>1. enadsp = TRUE
      BY <2>1 DEF IInv, TypeOK
    <3> QED
      BY <1>6, <2>1, <3>1, EnableDispatchOK DEF chg_ipm
  <2>2. CASE ~(~mask /\ enadsp)
    <3>1. /\ TskCtxUnl /\ Becomes([K EXCEPT !.dspflg = FALSE])
          /\ ipm' = mask /\ enadsp' = enadsp /\ lock' = lock /\ intnest' = intnest
      BY <1>6, <2>2 DEF chg_ipm
    <3>2. enadsp \in BOOLEAN
      BY DEF IInv, TypeOK
    <3> QED
      BY <2>2, <3>1, <3>2, HoldOK
  <2> QED
    BY <2>1, <2>2
<1> QED
  BY <1>2, <1>3, <1>4, <1>5, <1>6

\* Interrupt entry and exit.
LEMMA InterruptOK ==
  ASSUME IInv
  PROVE  /\ IntEnter => IInv' /\ CoreStep
         /\ IntExit => IInv' /\ CoreStep
<1>1. ASSUME IntEnter PROVE IInv' /\ CoreStep
  BY <1>1 DEF IntEnter, kvars, K, IInv, CoreStep, TypeOK, DspflgExact,
              RunsWhatIsScheduled, HeldRuns
<1>2. ASSUME IntExit PROVE IInv' /\ CoreStep
  <2> DEFINE s == IF runtsk # schedtsk THEN Dispatch(K) ELSE K
  <2>1. /\ WellTyped(s) /\ s.dspflg = dspflg /\ s.runtsk = schedtsk /\ s.schedtsk = schedtsk
        /\ s.twdsched = twdsched /\ s.idlesched = idlesched
    BY DEF IInv, WellTyped, Dispatch, K, KState
  <2> HIDE DEF s
  <2>2. Becomes(s) /\ intnest' = FALSE /\ UNCHANGED <<enadsp, ipm, lock>>
    BY <1>2 DEF IntExit, s
  <2>3. WellTyped(K') /\ K' \in KState
    BY <2>1, <2>2, BecomesK DEF WellTyped
  <2>4. /\ dspflg' = dspflg /\ runtsk' = schedtsk /\ schedtsk' = schedtsk
        /\ twdsched' = twdsched /\ idlesched' = idlesched
    BY <2>1, <2>2 DEF Becomes
  <2> QED
    BY <2>2, <2>3, <2>4 DEF IInv, CoreStep, TypeOK, DspflgExact, RunsWhatIsScheduled, HeldRuns
<1> QED
  BY <1>1, <1>2

-----------------------------------------------------------------------------
\* The kernel data are well typed before the first task is activated.
LEMMA InitTyped == WellTyped(InitK)
<1>1. \A t \in Task : InitTCB(t) \in TCB
  BY KernelAssumption, StatesType DEF InitTCB, TCB
<1>2. << >> \in Seq(Task)
  OBVIOUS
<1> QED
  BY <1>1, <1>2, KernelAssumption DEF InitK, WellTyped, KState

\* The initial state, after the first dispatch, satisfies the invariant.
LEMMA InitOK == Init => IInv
<1> SUFFICES ASSUME Init PROVE IInv
  OBVIOUS
<1>1. WellTyped(InitK)
  BY InitTyped
<1> DEFINE s == MakeActive(InitK, Main)
<1>2. Sound(InitK, s)
  BY <1>1, MakeActiveSound, TaskAssumption
<1>3. WellTyped(s) /\ s.dspflg = TRUE
  BY <1>2 DEF Sound, KeepsSched, InitK
<1> HIDE DEF s
<1>4. WellTyped(Dispatch(s)) /\ Dispatch(s).dspflg = TRUE
      /\ Dispatch(s).runtsk = Dispatch(s).schedtsk
  BY <1>3 DEF WellTyped, Dispatch, KState
<1>5. StartK = Dispatch(s)
  BY DEF StartK, s
<1>6. K = StartK
  <2>1. StartK \in KState
    BY <1>4, <1>5 DEF WellTyped
  <2> HIDE DEF StartK
  <2> QED
    BY <2>1 DEF Init, K, KState
<1>7. runtsk = StartK.runtsk /\ schedtsk = StartK.schedtsk /\ dspflg = StartK.dspflg
      /\ enadsp = TRUE /\ ipm = FALSE /\ lock = FALSE /\ intnest = FALSE
  BY DEF Init
<1>8. K \in KState
  BY <1>4, <1>5, <1>6 DEF WellTyped
<1> QED
  BY <1>4, <1>5, <1>6, <1>7, <1>8
     DEF IInv, TypeOK, DspflgExact, RunsWhatIsScheduled, HeldRuns

\* Every step preserves the invariant and leaves a held-off task running.
LEMMA NextOK == IInv /\ [Next]_vars => IInv' /\ CoreStep
<1> SUFFICES ASSUME IInv, [Next]_vars PROVE IInv' /\ CoreStep
  OBVIOUS
<1>1. CASE UNCHANGED vars
  BY <1>1 DEF vars, kvars, cpuvars, K, IInv, CoreStep, TypeOK, DspflgExact,
              RunsWhatIsScheduled, HeldRuns
<1>2. ASSUME NEW t \in Task, PlainTaskCall(t) PROVE IInv' /\ CoreStep
  BY <1>2, ManageOK, SyncOK DEF PlainTaskCall
<1>3. CASE PlainCall
  <2>1. CASE \E t \in Task : PlainTaskCall(t)
    BY <1>2, <2>1
  <2>2. CASE dis_ter
    BY <2>2, TerminationOK, TaskAssumption
  <2>3. CASE dly_tsk \/ \E timed \in BOOLEAN : slp_tsk(timed)
    BY <2>3, SyncOK, TaskAssumption
  <2>4. CASE \/ loc_cpu \/ unl_cpu \/ dis_dsp
             \/ \E p \in Pri, u \in Unit : rot_rdq(p, u)
    BY <2>4, SystemOK
  <2>5. CASE IntEnter \/ IntExit
    BY <2>5, InterruptOK
  <2> QED
    BY <1>3, <2>1, <2>2, <2>3, <2>4, <2>5 DEF PlainCall
<1>4. ASSUME NEW t \in Task, TaskCall(t) PROVE IInv' /\ CoreStep
  BY <1>4, ManageOK, TerminationOK, SyncOK DEF TaskCall
<1>5. CASE SystemCall
  BY <1>5, TerminationOK, SystemOK, TaskAssumption DEF SystemCall
<1> QED
  BY <1>1, <1>3, <1>4, <1>5 DEF Next

\* The kernel data are well typed in every reachable state, whatever service
\* calls, interrupts and time-outs happen: among others, search_predtsk is
\* never called with an empty bitmap and no task is in two states at once.
THEOREM TypeCorrect == Spec => []TypeOK
<1>1. IInv => TypeOK
  BY DEF IInv
<1> QED
  BY <1>1, InitOK, NextOK, PTL DEF Spec

\* dspflg always caches the two conditions it stands for (task.h:297).
THEOREM DspflgCorrect == Spec => []DspflgExact
<1>1. IInv => DspflgExact
  BY DEF IInv
<1> QED
  BY <1>1, InitOK, NextOK, PTL DEF Spec

\* Outside handlers the running task is always the task to be executed: no
\* service call and no interrupt return forgets a dispatch.
THEOREM DispatchCorrect == Spec => []RunsWhatIsScheduled
<1>1. IInv => RunsWhatIsScheduled
  BY DEF IInv
<1> QED
  BY <1>1, InitOK, NextOK, PTL DEF Spec

\* While dispatching is held off, no operation, not even one of a handler,
\* changes the task to be executed or takes the processor from the running one.
THEOREM HeldDispatchCorrect == Spec => HeldDispatch
<1>1. IInv /\ [Next]_vars => [~dspflg /\ ~dspflg' => UNCHANGED <<runtsk, schedtsk>>]_vars
  BY NextOK DEF CoreStep
<1> QED
  BY <1>1, InitOK, NextOK, PTL DEF Spec, HeldDispatch

-----------------------------------------------------------------------------
(***************************************************************************)
(* The second invariant: the scheduling data agree with the task control   *)
(* blocks, and the control blocks with each other's flags.  It is relative *)
(* to IInv, and weak enough for time partitioning: in a handler that       *)
(* switches the window p_schedtsk may be out of date.                      *)
(***************************************************************************)

\* The control block b of task t, of which `timed' says whether its time event
\* is registered.
TcbOK(t, b, timed) ==
  /\ IsDormant(b.tstat) => b = InitTCB(t)
  /\ "OBJ" \notin b.tstat => b.wobj = NULL
  /\ timed => IsWaiting(b.tstat)
  /\ "DLY" \in b.tstat => timed
  /\ b.raster => IsRunnable(b.tstat)

TasksOK(s) == \A t \in Task : TcbOK(t, s.tcb[t], t \in s.tmevt)

\* The task is asked to end and may be ended.
MustEnd(b) == b.raster /\ b.enater

RequestsOK(s) == \A t \in Task : MustEnd(s.tcb[t]) => t = s.runtsk /\ ~s.dspflg

RunningOK(s) == s.runtsk # NULL => IsRunnable(s.tcb[s.runtsk].tstat)

SInv ==
  /\ Agree(K, Place(K)) /\ TasksOK(K) /\ RequestsOK(K) /\ RunningOK(K)
  /\ SchedtskExact(K) \/ intnest

\* What is proved of every step: the invariant, and p_schedtsk stays right.
SStep == SInv' /\ (SchedtskExact(K) => SchedtskExact(K'))

\* An operation on the task t turns its control block into b and the registered
\* time events into T.
Operation(s, t, b, T) ==
  /\ \E W : Effect(K, s, t, b, T, W)
  /\ \A v \in Task \ {t} : v \in T <=> v \in tmevt
  /\ TcbOK(t, b, t \in T)

\* The tasks and time events after an operation.
LEMMA OperationFacts ==
  ASSUME IInv, SInv, NEW t \in Task, NEW s, NEW b, NEW T, Operation(s, t, b, T)
  PROVE  /\ Sound(K, s) /\ WellTyped(s) /\ Agree(s, Place(s))
         /\ s.runtsk = runtsk /\ s.dspflg = dspflg
         /\ ~dspflg => s.schedtsk = schedtsk
         /\ s.tcb[t] = b /\ \A v \in Task \ {t} : s.tcb[v] = tcb[v]
         /\ SchedtskExact(K) => SchedtskExact(s)
         /\ TasksOK(s)
<1>1. PICK W : Effect(K, s, t, b, T, W)
  BY DEF Operation
<1>2. /\ Sound(K, s) /\ AgreeAfter(K, s, Place(s))
      /\ s.tcb = [K.tcb EXCEPT ![t] = b] /\ s.tmevt = T
  BY <1>1 DEF Effect
<1>3. /\ K.tcb = tcb /\ K.runtsk = runtsk /\ K.dspflg = dspflg /\ K.schedtsk = schedtsk
      /\ K.tmevt = tmevt
  BY DEF K
<1>4. tcb \in [Task -> TCB]
  BY <1>3 DEF IInv, WellTyped, KState
<1>5. s.tcb[t] = b /\ \A v \in Task \ {t} : s.tcb[v] = tcb[v]
  BY <1>2, <1>3, <1>4
<1>6. TasksOK(s)
  <2> SUFFICES ASSUME NEW v \in Task PROVE TcbOK(v, s.tcb[v], v \in s.tmevt)
    BY DEF TasksOK
  <2>1. CASE v = t
    BY <1>2, <1>5, <2>1 DEF Operation
  <2>2. CASE v # t
    <3>1. TcbOK(v, tcb[v], v \in tmevt)
      BY <1>3 DEF SInv, TasksOK
    <3> QED
      BY <1>2, <1>5, <2>2, <3>1 DEF Operation, TcbOK
  <2> QED
    BY <2>1, <2>2
<1> QED
  BY <1>2, <1>3, <1>5, <1>6 DEF AgreeAfter, Agree, Sound, KeepsSched

\* The running task after a dispatch is runnable.
LEMMA DispatchedRuns ==
  ASSUME NEW s, Agree(s, Place(s)), SchedtskExact(s), s.dspflg = TRUE
  PROVE  s.schedtsk # NULL => s.schedtsk \in Task /\ IsRunnable(s.tcb[s.schedtsk].tstat)
BY SelectedIsBest DEF SchedtskExact, Best

\* A handler that changes tasks and then dispatches if it is necessary preserves
\* the second invariant.
LEMMA ReturnTasksExact ==
  ASSUME IInv, SInv, NEW s, WellTyped(s), Agree(s, Place(s)), TasksOK(s),
         s.runtsk = runtsk, s.dspflg = dspflg, ~dspflg => s.schedtsk = schedtsk,
         SchedtskExact(K) => SchedtskExact(s),
         \A v \in Task : MustEnd(s.tcb[v]) => v = runtsk /\ ~dspflg,
         runtsk # NULL /\ (intnest \/ ~dspflg) => IsRunnable(s.tcb[runtsk].tstat),
         Return(s)
  PROVE  SStep
<1> DEFINE x == DispatchIfNeeded(s)
<1>1. /\ K.tcb = tcb /\ K.runtsk = runtsk /\ K.dspflg = dspflg
  BY DEF K
<1>2. /\ WellTyped(x) /\ x.tcb = s.tcb /\ x.ready = s.ready /\ x.primap = s.primap
      /\ x.predtsk = s.predtsk /\ x.tmevt = s.tmevt /\ x.dspflg = s.dspflg
      /\ x.schedtsk = s.schedtsk /\ x.twdsched = s.twdsched /\ x.idlesched = s.idlesched
      /\ x.runtsk = IF intnest THEN s.runtsk ELSE s.schedtsk
  BY DEF DispatchIfNeeded, Dispatch, WellTyped, KState
<1> HIDE DEF x
<1>3. K' = x
  BY <1>2, BecomesK DEF Return, x
<1>4. Agree(x, Place(x))
  BY <1>2, CpuFrame
<1>5. TasksOK(x)
  BY <1>2 DEF TasksOK
<1>6. SchedtskExact(K) => SchedtskExact(x)
  <2>1. Selected(x) = Selected(s)
    BY <1>2 DEF Selected
  <2> QED
    BY <1>2, <2>1 DEF SchedtskExact
<1>7. ~dspflg => x.runtsk = runtsk
  BY <1>2 DEF IInv, HeldRuns
<1>8. RequestsOK(x)
  <2> SUFFICES ASSUME NEW v \in Task, MustEnd(x.tcb[v])
               PROVE  v = x.runtsk /\ ~x.dspflg
    BY DEF RequestsOK
  <2>1. v = runtsk /\ ~dspflg
    BY <1>1, <1>2 DEF SInv, RequestsOK
  <2> QED
    BY <1>2, <1>7, <2>1
<1>9. RunningOK(x)
  <2>1. CASE intnest \/ ~dspflg
    <3>1. x.runtsk = runtsk /\ (runtsk # NULL => runtsk \in Task)
      BY <1>2, <1>7, <2>1, RunningTask
    <3>2. runtsk # NULL => IsRunnable(s.tcb[runtsk].tstat)
      BY <2>1
    <3> QED
      BY <1>2, <3>1, <3>2 DEF RunningOK
  <2>2. CASE ~intnest /\ dspflg
    <3>1. SchedtskExact(s) /\ s.dspflg = TRUE
      <4>1. s.dspflg \in BOOLEAN
        BY DEF WellTyped, KState
      <4> QED
        BY <2>2, <4>1 DEF SInv
    <3>2. x.runtsk = s.schedtsk
      BY <1>2, <2>2
    <3> QED
      BY <1>2, <3>1, <3>2, DispatchedRuns DEF RunningOK
  <2> QED
    BY <2>1, <2>2
<1>10. SchedtskExact(x) \/ intnest'
  BY <1>6 DEF SInv, Return, cpuvars
<1> QED
  BY <1>3, <1>4, <1>5, <1>6, <1>8, <1>9, <1>10 DEF SInv, SStep

\* So does a handler that changes one task.
LEMMA ReturnExact ==
  ASSUME IInv, SInv, NEW t \in Task, NEW s, NEW b, NEW T, Operation(s, t, b, T),
         MustEnd(b) => t = runtsk /\ ~dspflg,
         t = runtsk => IsRunnable(b.tstat) \/ (dspflg /\ ~intnest),
         Return(s)
  PROVE  SStep
<1>1. /\ WellTyped(s) /\ Agree(s, Place(s))
      /\ s.runtsk = runtsk /\ s.dspflg = dspflg
      /\ ~dspflg => s.schedtsk = schedtsk
      /\ s.tcb[t] = b /\ \A v \in Task \ {t} : s.tcb[v] = tcb[v]
      /\ SchedtskExact(K) => SchedtskExact(s)
      /\ TasksOK(s)
  BY OperationFacts
<1>2. K.tcb = tcb /\ K.runtsk = runtsk /\ K.dspflg = dspflg
  BY DEF K
<1>3. \A v \in Task : MustEnd(s.tcb[v]) => v = runtsk /\ ~dspflg
  BY <1>1, <1>2 DEF SInv, RequestsOK
<1>4. runtsk # NULL /\ (intnest \/ ~dspflg) => IsRunnable(s.tcb[runtsk].tstat)
  <2>1. runtsk # NULL => runtsk \in Task /\ IsRunnable(tcb[runtsk].tstat)
    BY <1>2, RunningTask DEF SInv, RunningOK
  <2> QED
    BY <1>1, <2>1
<1> QED
  BY <1>1, <1>3, <1>4, ReturnTasksExact

\* After the dispatcher, with dispatching possible, everything is right.
Settled(x) ==
  /\ Agree(x, Place(x)) /\ TasksOK(x) /\ RequestsOK(x) /\ RunningOK(x)
  /\ SchedtskExact(x)

\* The dispatcher settles a state in which dispatching is possible and no task
\* is to end.
LEMMA DispatchSettled ==
  ASSUME NEW s, Agree(s, Place(s)), SchedtskExact(s), s.dspflg = TRUE, TasksOK(s),
         \A v \in Task : ~MustEnd(s.tcb[v])
  PROVE  Settled(Dispatch(s)) /\ WellTyped(Dispatch(s))
<1> DEFINE x == Dispatch(s)
<1>1. WellTyped(s)
  BY DEF Agree
<1>2. /\ WellTyped(x) /\ x.tcb = s.tcb /\ x.ready = s.ready /\ x.primap = s.primap
      /\ x.predtsk = s.predtsk /\ x.tmevt = s.tmevt /\ x.dspflg = s.dspflg
      /\ x.schedtsk = s.schedtsk /\ x.twdsched = s.twdsched /\ x.idlesched = s.idlesched
      /\ x.runtsk = s.schedtsk
  BY <1>1 DEF Dispatch, WellTyped, KState
<1> HIDE DEF x
<1>3. Agree(x, Place(x))
  BY <1>2, CpuFrame
<1>4. TasksOK(x) /\ RequestsOK(x)
  BY <1>2 DEF TasksOK, RequestsOK
<1>5. SchedtskExact(x)
  BY <1>2 DEF SchedtskExact, Selected
<1>6. RunningOK(x)
  BY <1>2, DispatchedRuns DEF RunningOK
<1> QED
  BY <1>2, <1>3, <1>4, <1>5, <1>6 DEF Settled, x

\* So a handler that ends there preserves the second invariant.
LEMMA DispatchExact ==
  ASSUME NEW s, Agree(s, Place(s)), SchedtskExact(s), s.dspflg = TRUE, TasksOK(s),
         \A v \in Task : ~MustEnd(s.tcb[v]), Becomes(Dispatch(s))
  PROVE  SStep
<1> DEFINE x == Dispatch(s)
<1>1. Settled(x) /\ WellTyped(x)
  BY DispatchSettled
<1> HIDE DEF x
<1>2. K' = x
  BY <1>1, BecomesK DEF x
<1> QED
  BY <1>1, <1>2 DEF Settled, SInv, SStep

\* A task control block before an operation.
LEMMA TaskBefore ==
  ASSUME IInv, SInv, NEW t \in Task
  PROVE  /\ Agree(K, Place(K)) /\ WellTyped(K)
         /\ K.tcb = tcb /\ K.tmevt = tmevt /\ K.runtsk = runtsk /\ K.dspflg = dspflg
         /\ tcb[t] \in TCB /\ TcbOK(t, tcb[t], t \in tmevt)
         /\ MustEnd(tcb[t]) => t = runtsk /\ ~dspflg
         /\ t = runtsk => IsRunnable(tcb[t].tstat)
<1>1. K.tcb = tcb /\ K.tmevt = tmevt /\ K.runtsk = runtsk /\ K.dspflg = dspflg
  BY DEF K
<1>2. tcb[t] \in TCB
  BY <1>1 DEF IInv, WellTyped, KState
<1>3. t # NULL
  BY KernelAssumption
<1> QED
  BY <1>1, <1>2, <1>3 DEF IInv, SInv, TasksOK, RequestsOK, RunningOK

\* The states of a task exclude each other as the state diagram says.
LEMMA StateFacts ==
  ASSUME NEW b \in TCB
  PROVE  /\ IsRunnable(b.tstat) => b.tstat = {"RUNNABLE"}
         /\ IsWaiting(b.tstat) => ~IsRunnable(b.tstat) /\ ~IsDormant(b.tstat)
         /\ IsSuspended(b.tstat) => ~IsRunnable(b.tstat) /\ ~IsDormant(b.tstat)
         /\ IsDormant(b.tstat) => ~IsRunnable(b.tstat)
BY DEF TCB, TStat, WaitFlag, IsRunnable, IsWaiting, IsSuspended, IsDormant

\* What the flags of a state of one flag say.
LEMMA FlagFacts ==
  /\ IsRunnable({"RUNNABLE"}) /\ ~IsWaiting({"RUNNABLE"}) /\ ~IsDormant({"RUNNABLE"})
  /\ "OBJ" \notin {"RUNNABLE"} /\ "DLY" \notin {"RUNNABLE"}
  /\ ~IsRunnable({"SUSPENDED"}) /\ ~IsWaiting({"SUSPENDED"}) /\ ~IsDormant({"SUSPENDED"})
  /\ "OBJ" \notin {"SUSPENDED"} /\ "DLY" \notin {"SUSPENDED"}
  /\ ~IsRunnable({}) /\ ~IsWaiting({}) /\ IsDormant({})
  /\ \A f \in WaitFlag : IsWaiting({f}) /\ ~IsRunnable({f}) /\ ~IsDormant({f})
BY DEF WaitFlag, IsRunnable, IsWaiting, IsDormant

\* Operations that leave the ready queues alone.
LEMMA TcbOperation ==
  ASSUME IInv, SInv, NEW t \in Task, NEW b \in TCB,
         PlaceOf(b) = PlaceOf(tcb[t]), TcbOK(t, b, t \in tmevt)
  PROVE  Operation(TcbSet(K, t, b), t, b, tmevt)
<1>1. Agree(K, Place(K)) /\ K.tcb = tcb /\ K.tmevt = tmevt
  BY TaskBefore
<1>2. Effect(K, TcbSet(K, t, b), t, b, tmevt, K.wque)
  BY <1>1, TcbEffect
<1> QED
  BY <1>2 DEF Operation

\* Operations that make a task runnable.
LEMMA EnterOperation ==
  ASSUME IInv, SInv, NEW t \in Task, NEW b \in TCB,
         ~IsRunnable(tcb[t].tstat), IsRunnable(b.tstat), TcbOK(t, b, t \in tmevt)
  PROVE  Operation(MakeRunnable(TcbSet(K, t, b), t), t, b, tmevt)
<1>1. Agree(K, Place(K)) /\ K.tcb = tcb /\ K.tmevt = tmevt
  BY TaskBefore
<1>2. Effect(K, MakeRunnable(TcbSet(K, t, b), t), t, b, tmevt, K.wque)
  BY <1>1, EnterEffect
<1> QED
  BY <1>2 DEF Operation

\* Operations that end the runnable state of a task.
LEMMA LeaveOperation ==
  ASSUME IInv, SInv, NEW t \in Task, NEW b \in TCB, IsRunnable(tcb[t].tstat),
         ~IsRunnable(b.tstat), b.pri = tcb[t].pri, TcbOK(t, b, t \in tmevt)
  PROVE  Operation(MakeNonRunnable(TcbSet(K, t, b), t), t, b, tmevt)
<1>1. Agree(K, Place(K)) /\ K.tcb = tcb /\ K.tmevt = tmevt
  BY TaskBefore
<1>2. Effect(K, MakeNonRunnable(TcbSet(K, t, b), t), t, b, tmevt, K.wque)
  BY <1>1, LeaveEffect
<1> QED
  BY <1>2 DEF Operation

\* A terminated task is as clean as one that was never active.
LEMMA TerminatedOK ==
  ASSUME NEW t \in Task, NEW b \in TCB
  PROVE  LET c == Terminated(Unbound(b), t)
         IN  TcbOK(t, c, FALSE) /\ ~MustEnd(c)
<1> DEFINE d == Dormant(Unbound(b), t)
           c == Terminated(Unbound(b), t)
<1>1. b.actque \in BOOLEAN
  BY DEF TCB
<1>2. Unbound(b).actque = b.actque
  BY DEF TCB, Unbound
<1>3. CASE b.actque
  <2>1. c = Restarted(d)
    BY <1>2, <1>3 DEF Terminated
  <2>2. c.tstat = {"RUNNABLE"} /\ c.raster = FALSE /\ c.wobj = NULL
    BY <2>1 DEF TCB, Restarted, Dormant, Unbound
  <2> QED
    BY <2>2, FlagFacts DEF TcbOK, MustEnd
<1>4. CASE ~b.actque
  <2>1. c = d
    BY <1>2, <1>4 DEF Terminated
  <2>2. c = InitTCB(t)
    BY <1>1, <1>4, <2>1 DEF TCB, Dormant, Unbound, InitTCB
  <2>3. c.tstat = {} /\ c.raster = FALSE /\ c.wobj = NULL
    BY <2>2 DEF InitTCB
  <2> QED
    BY <2>2, <2>3, FlagFacts DEF TcbOK, MustEnd
<1> QED
  BY <1>3, <1>4

\* task_terminate.
LEMMA TerminateOperation ==
  ASSUME IInv, SInv, NEW t \in Task
  PROVE  /\ Operation(TaskTerminate(K, t), t, Terminated(Unbound(tcb[t]), t), tmevt \ {t})
         /\ ~MustEnd(Terminated(Unbound(tcb[t]), t))
<1> DEFINE c == Terminated(Unbound(tcb[t]), t)
           T == tmevt \ {t}
<1>1. /\ Agree(K, Place(K)) /\ K.tcb = tcb /\ K.tmevt = tmevt
      /\ tcb[t] \in TCB /\ TcbOK(t, tcb[t], t \in tmevt)
  BY TaskBefore
<1>2. \E W : Effect(K, TaskTerminate(K, t), t, c, T, W)
  BY <1>1, TerminateEffect DEF TcbOK
<1>3. TcbOK(t, c, FALSE) /\ ~MustEnd(c)
  BY <1>1, TerminatedOK
<1>4. t \notin T /\ \A v \in Task \ {t} : v \in T <=> v \in tmevt
  OBVIOUS
<1> HIDE DEF c, T
<1>5. TcbOK(t, c, t \in T)
  BY <1>3, <1>4 DEF TcbOK
<1>6. Operation(TaskTerminate(K, t), t, c, T)
  BY <1>2, <1>4, <1>5 DEF Operation
<1> QED
  BY <1>3, <1>6 DEF c, T

\* The release of a waiting task.
LEMMA ReleaseOperation ==
  ASSUME IInv, SInv, NEW t \in Task, IsWaiting(tcb[t].tstat)
  PROVE  LET b == Released(Unbound(tcb[t]))
             T == tmevt \ {t}
         IN  /\ Operation(WaitComplete(K, t), t, b, T)
             /\ Operation(WaitTmout(K, t), t, b, T)
             /\ Operation(MakeNonWait(WaitDequeueTmevtb(WaitDequeueWObj(K, t), t), t), t, b, T)
             /\ ~MustEnd(b) /\ t # runtsk
<1> DEFINE b == Released(Unbound(tcb[t]))
           T == tmevt \ {t}
<1>1. /\ Agree(K, Place(K)) /\ K.tcb = tcb /\ K.tmevt = tmevt
      /\ tcb[t] \in TCB /\ TcbOK(t, tcb[t], t \in tmevt)
      /\ t = runtsk => IsRunnable(tcb[t].tstat)
  BY TaskBefore
<1>2. ~IsRunnable(tcb[t].tstat) /\ tcb[t].raster = FALSE
  BY <1>1, StateFacts DEF TcbOK, TCB
<1>3. b.raster = FALSE /\ b.wobj = NULL /\ b.tstat \in {{"SUSPENDED"}, {"RUNNABLE"}}
  BY <1>1, <1>2 DEF TCB, Released, Unbound
<1>4. t \notin T /\ \A v \in Task \ {t} : v \in T <=> v \in tmevt
  OBVIOUS
<1>5. Effect(K, WaitComplete(K, t), t, b, T, K.wque)
  BY <1>1, <1>2, WaitCompleteEffect
<1>6. /\ \E W : Effect(K, WaitTmout(K, t), t, b, T, W)
      /\ \E W : Effect(K, MakeNonWait(WaitDequeueTmevtb(WaitDequeueWObj(K, t), t), t), t,
                       b, T, W)
  BY <1>1, <1>2, ReleaseEffect DEF TcbOK
<1> HIDE DEF b, T
<1>7. TcbOK(t, b, t \in T) /\ ~MustEnd(b)
  BY <1>3, <1>4, FlagFacts DEF TcbOK, MustEnd
<1>8. \A z, W : Effect(K, z, t, b, T, W) => Operation(z, t, b, T)
  BY <1>4, <1>7 DEF Operation
<1> QED
  BY <1>1, <1>2, <1>5, <1>6, <1>7, <1>8 DEF b, T

\* The running task starts to wait.
LEMMA WaitOperation ==
  ASSUME IInv, SInv, runtsk # NULL, ~tcb[runtsk].raster, NEW flag \in {"SLP", "DLY"},
         NEW timed \in BOOLEAN, flag = "DLY" => timed
  PROVE  LET b == Waiting(tcb[runtsk], flag)
         IN  /\ Operation(MakeWaitTmout(K, flag, timed), runtsk, b,
                          IF timed THEN tmevt \union {runtsk} ELSE tmevt)
             /\ ~MustEnd(b)
<1> DEFINE t == runtsk
           b == Waiting(tcb[t], flag)
           T == IF timed THEN tmevt \union {t} ELSE tmevt
<1>1. t \in Task /\ flag \in WaitFlag
  BY RunningTask DEF WaitFlag
<1>2. /\ Agree(K, Place(K)) /\ K.tcb = tcb /\ K.tmevt = tmevt /\ K.runtsk = runtsk
      /\ tcb[t] \in TCB /\ TcbOK(t, tcb[t], t \in tmevt)
      /\ IsRunnable(tcb[t].tstat)
  BY <1>1, TaskBefore
<1>3. tcb[t].wobj = NULL
  BY <1>2, StateFacts DEF TcbOK
<1>4. b.tstat = {flag} /\ b.raster = FALSE /\ b.wobj = NULL
  BY <1>2, <1>3 DEF TCB, Waiting
<1>5. Effect(K, MakeWaitTmout(K, flag, timed), t, b, T, K.wque)
  BY <1>1, <1>2, MakeWaitTmoutEffect
<1>6. (flag = "DLY" => t \in T) /\ \A v \in Task \ {t} : v \in T <=> v \in tmevt
  OBVIOUS
<1> HIDE DEF b, T
<1>7. TcbOK(t, b, t \in T) /\ ~MustEnd(b)
  BY <1>1, <1>4, <1>6, FlagFacts DEF TcbOK, MustEnd
<1>8. Operation(MakeWaitTmout(K, flag, timed), t, b, T)
  BY <1>5, <1>6, <1>7 DEF Operation
<1> QED
  BY <1>7, <1>8 DEF b, T, t

-----------------------------------------------------------------------------
(* One lemma per group of service calls: each preserves the second invariant. *)

\* Setting a flag of a task that it keeps if it is dormant.
LEMMA FlagExact ==
  ASSUME IInv, SInv, NEW t \in Task, NEW b \in TCB,
         b.tstat = tcb[t].tstat, b.pri = tcb[t].pri, b.wobj = tcb[t].wobj,
         b.raster => IsRunnable(b.tstat),
         IsDormant(tcb[t].tstat) => b = tcb[t],
         MustEnd(b) => t = runtsk /\ ~dspflg,
         Return(TcbSet(K, t, b))
  PROVE  SStep
<1>1. TcbOK(t, tcb[t], t \in tmevt) /\ (t = runtsk => IsRunnable(tcb[t].tstat))
  BY TaskBefore
<1>2. TcbOK(t, b, t \in tmevt)
  BY <1>1 DEF TcbOK
<1>3. PlaceOf(b) = PlaceOf(tcb[t])
  BY DEF PlaceOf
<1>4. Operation(TcbSet(K, t, b), t, b, tmevt)
  BY <1>2, <1>3, TcbOperation
<1>5. t = runtsk => IsRunnable(b.tstat) \/ (dspflg /\ ~intnest)
  BY <1>1
<1> QED
  BY <1>4, <1>5, ReturnExact

\* A task becomes runnable without a request to end that may be granted.
LEMMA EnterExact ==
  ASSUME IInv, SInv, NEW t \in Task, NEW b \in TCB, ~IsRunnable(tcb[t].tstat),
         b.tstat = {"RUNNABLE"}, b.wobj = NULL, t \notin tmevt, ~MustEnd(b),
         Return(MakeRunnable(TcbSet(K, t, b), t))
  PROVE  SStep
<1>1. IsRunnable(b.tstat) /\ TcbOK(t, b, t \in tmevt)
  BY FlagFacts DEF TcbOK
<1>2. Operation(MakeRunnable(TcbSet(K, t, b), t), t, b, tmevt)
  BY <1>1, EnterOperation
<1> QED
  BY <1>1, <1>2, ReturnExact

\* Task management.
LEMMA ManageExact ==
  ASSUME IInv, SInv, NEW t \in Task
  PROVE  /\ act_tsk(t) => SStep
         /\ can_act(t) => SStep
         /\ \A p \in Pri : chg_pri(t, p) => SStep
<1> DEFINE b == tcb[t]
<1>1. /\ Agree(K, Place(K)) /\ K.tcb = tcb /\ K.tmevt = tmevt
      /\ b \in TCB /\ TcbOK(t, b, t \in tmevt)
      /\ MustEnd(b) => t = runtsk /\ ~dspflg
      /\ t = runtsk => IsRunnable(b.tstat)
  BY TaskBefore
<1>2. ASSUME NEW f \in BOOLEAN, ~IsDormant(b.tstat) \/ ~f,
             Return([K EXCEPT !.tcb[t].actque = f])
      PROVE  SStep
  <2> DEFINE c == [b EXCEPT !.actque = f]
  <2>1. /\ c \in TCB /\ c.tstat = b.tstat /\ c.pri = b.pri /\ c.wobj = b.wobj
        /\ c.raster = b.raster /\ c.enater = b.enater
    BY <1>1 DEF TCB
  <2>2. ASSUME IsDormant(b.tstat) PROVE c = b
    <3>1. b.actque = FALSE /\ f = FALSE
      BY <1>1, <1>2, <2>2 DEF TcbOK, InitTCB
    <3> HIDE DEF b
    <3> QED
      BY <1>1, <3>1 DEF TCB
  <2>3. [K EXCEPT !.tcb[t].actque = f] = TcbSet(K, t, c)
    BY <1>1 DEF TcbSet
  <2> HIDE DEF c
  <2> QED
    BY <1>1, <1>2, <2>1, <2>2, <2>3, FlagExact DEF MustEnd, TcbOK
<1>3. ASSUME act_tsk(t) PROVE SStep
  <2>1. CASE IsDormant(b.tstat) /\ Return(MakeActive(K, t))
    <3> DEFINE c == [b EXCEPT !.tstat = {"RUNNABLE"}]
    <3>1. MakeActive(K, t) = MakeRunnable(TcbSet(K, t, c), t)
      BY <1>1 DEF MakeActive, TcbSet
    <3>2. c \in TCB /\ c.tstat = {"RUNNABLE"} /\ c.wobj = b.wobj /\ c.raster = b.raster
      BY <1>1, StatesType DEF TCB
    <3>3. b.wobj = NULL /\ b.raster = FALSE /\ ~IsWaiting(b.tstat) /\ ~IsRunnable(b.tstat)
      BY <1>1, <2>1, FlagFacts DEF TcbOK, InitTCB
    <3>4. t \notin tmevt
      BY <1>1, <3>3 DEF TcbOK
    <3> HIDE DEF c
    <3> QED
      BY <2>1, <3>1, <3>2, <3>3, <3>4, EnterExact DEF MustEnd
  <2>2. CASE ~IsDormant(b.tstat) /\ Return([K EXCEPT !.tcb[t].actque = TRUE])
    BY <1>2, <2>2
  <2> QED
    BY <1>3, <2>1, <2>2 DEF act_tsk
<1>4. ASSUME can_act(t) PROVE SStep
  BY <1>2, <1>4 DEF can_act
<1>5. ASSUME NEW p \in Pri, chg_pri(t, p) PROVE SStep
  <2> DEFINE c == [b EXCEPT !.bpri = p]
             d == AtPri(c, p)
             s1 == TcbSet(K, t, c)
             s == ChangePriority(s1, t, p, FALSE)
  <2>1. ~IsDormant(b.tstat) /\ Return(s)
    BY <1>1, <1>5 DEF chg_pri, TcbSet
  <2>2. /\ c \in TCB /\ c.tstat = b.tstat /\ c.pri = b.pri /\ c.wobj = b.wobj
        /\ c.raster = b.raster /\ c.enater = b.enater
    BY <1>1 DEF TCB
  <2>3. /\ d.tstat = b.tstat /\ d.wobj = b.wobj
        /\ d.raster = b.raster /\ d.enater = b.enater
    BY <2>2 DEF TCB, AtPri
  <2> HIDE DEF c
  <2>4. Effect(K, s1, t, c, K.tmevt, K.wque)
    BY <1>1, <2>2, TcbEffect DEF PlaceOf
  <2> HIDE DEF s1
  <2>5. Agree(s1, Place(s1)) /\ s1.tcb[t] = c /\ s1.tmevt = tmevt
    BY <1>1, <2>4 DEF Effect, AgreeAfter, IInv, WellTyped, KState
  <2>6. PICK W : Effect(s1, s, t, d, tmevt, W)
    BY <2>5, ChangePriorityEffect
  <2> HIDE DEF d, s
  <2>7. Effect(K, s, t, d, tmevt, W)
    BY <2>4, <2>6, EffectTrans
  <2>8. TcbOK(t, d, t \in tmevt) /\ (MustEnd(d) => MustEnd(b))
    BY <1>1, <2>1, <2>3 DEF TcbOK, MustEnd
  <2>9. Operation(s, t, d, tmevt)
    BY <2>7, <2>8 DEF Operation
  <2> QED
    BY <1>1, <2>1, <2>3, <2>8, <2>9, ReturnExact
<1> QED
  BY <1>3, <1>4, <1>5

\* task_terminate of the running task, followed by the dispatcher.
LEMMA TerminateSelfExact ==
  ASSUME IInv, SInv, runtsk # NULL, NEW s, Agree(s, Place(s)), SchedtskExact(s),
         s.dspflg = TRUE, s.runtsk = runtsk, s.tcb = tcb, s.tmevt = tmevt,
         TerminateSelf(s)
  PROVE  SStep
<1> DEFINE t == runtsk
           b == tcb[t]
           c == Terminated(Unbound(b), t)
           x == TaskTerminate(s, t)
<1>1. t \in Task
  BY RunningTask
<1>2. \A v \in Task : /\ tcb[v] \in TCB /\ TcbOK(v, tcb[v], v \in tmevt)
                      /\ MustEnd(tcb[v]) => v = runtsk
  BY TaskBefore
<1>3. PICK W : Effect(s, x, t, c, tmevt \ {t}, W)
  BY <1>1, <1>2, TerminateEffect DEF TcbOK
<1>4. TcbOK(t, c, FALSE) /\ ~MustEnd(c)
  BY <1>1, <1>2, TerminatedOK
<1>5. Becomes(Dispatch(x))
  BY DEF TerminateSelf
<1> HIDE DEF c, x
<1>6. /\ Agree(x, Place(x)) /\ SchedtskExact(x) /\ x.dspflg = TRUE
      /\ x.tcb = [tcb EXCEPT ![t] = c] /\ x.tmevt = tmevt \ {t}
  BY <1>3 DEF Effect, AgreeAfter, Sound, KeepsSched
<1>7. tcb \in [Task -> TCB]
  BY DEF IInv, WellTyped, K, KState
<1>8. x.tcb[t] = c /\ \A v \in Task \ {t} : x.tcb[v] = tcb[v]
  BY <1>1, <1>6, <1>7
<1>9. \A v \in Task : ~MustEnd(x.tcb[v])
  BY <1>2, <1>4, <1>8
<1>10. TasksOK(x)
  <2> SUFFICES ASSUME NEW v \in Task PROVE TcbOK(v, x.tcb[v], v \in x.tmevt)
    BY DEF TasksOK
  <2>1. CASE v = t
    BY <1>4, <1>6, <1>8, <2>1 DEF TcbOK
  <2>2. CASE v # t
    BY <1>2, <1>6, <1>8, <2>2 DEF TcbOK
  <2> QED
    BY <2>1, <2>2
<1> QED
  BY <1>5, <1>6, <1>9, <1>10, DispatchExact

\* The state with dispatching possible, from K or after set_dspflg.
LEMMA SetDspflgExact ==
  ASSUME IInv, SInv, NEW s,
         \/ s = SetDspflg(K)
         \/ s = K /\ dspflg /\ ~intnest
  PROVE  /\ Agree(s, Place(s)) /\ SchedtskExact(s) /\ s.dspflg = TRUE
         /\ s.runtsk = runtsk /\ s.tcb = tcb /\ s.tmevt = tmevt
<1>1. /\ Agree(K, Place(K)) /\ K.tcb = tcb /\ K.tmevt = tmevt /\ K.runtsk = runtsk
      /\ K.dspflg = dspflg /\ dspflg \in BOOLEAN /\ (SchedtskExact(K) \/ intnest)
  BY DEF SInv, IInv, TypeOK, K, KState
<1>2. CASE s = SetDspflg(K)
  <2>1. s = UpdateSchedtsk([K EXCEPT !.dspflg = TRUE])
    BY <1>2 DEF SetDspflg
  <2> QED
    BY <1>1, <2>1, SelectExact
<1>3. CASE s = K /\ dspflg /\ ~intnest
  BY <1>1, <1>3
<1> QED
  BY <1>2, <1>3

\* task_terminate of another task.
LEMMA TerminateOtherExact ==
  ASSUME IInv, SInv, NEW t \in Task, t # runtsk, Return(TaskTerminate(K, t))
  PROVE  SStep
BY TerminateOperation, ReturnExact

\* ras_ter of a blocked task that has disabled its termination.
LEMMA RasTerOperation ==
  ASSUME IInv, SInv, NEW t \in Task, ~tcb[t].enater, ~IsRunnable(tcb[t].tstat)
  PROVE  LET c == [Unbound(tcb[t]) EXCEPT !.raster = TRUE, !.tstat = {"RUNNABLE"}]
         IN  /\ Operation(RasTerWaiting(t), t, c, tmevt \ {t})
             /\ ~MustEnd(c) /\ c.wobj = NULL
             /\ c.pri = tcb[t].pri /\ c.bpri = tcb[t].bpri /\ ~IsDormant(c.tstat)
<1> DEFINE b  == tcb[t]
           s1 == IF IsWaiting(b.tstat) THEN WaitDequeueTmevtb(WaitDequeueWObj(K, t), t) ELSE K
           c  == [Unbound(b) EXCEPT !.raster = TRUE, !.tstat = {"RUNNABLE"}]
           x  == MakeRunnable(TcbSet(s1, t, c), t)
           T  == tmevt \ {t}
<1>1. /\ Agree(K, Place(K)) /\ WellTyped(K) /\ K.tcb = tcb /\ K.tmevt = tmevt
      /\ b \in TCB /\ TcbOK(t, b, t \in tmevt)
  BY TaskBefore
<1>2. /\ Unbound(b) \in TCB /\ Unbound(b).tstat = b.tstat
      /\ Unbound(b).enater = b.enater /\ Unbound(b).wobj = NULL
  BY <1>1 DEF TCB, Unbound
<1>3. /\ c \in TCB /\ c.tstat = {"RUNNABLE"} /\ c.wobj = NULL /\ c.enater = b.enater
      /\ c.pri = b.pri /\ c.bpri = b.bpri
  BY <1>1, <1>2, StatesType DEF TCB, Unbound
<1>4. \E W : Effect(K, s1, t, Unbound(b), T, W)
  <2>1. CASE IsWaiting(b.tstat)
    BY <1>1, <2>1, DequeueEffect DEF TcbOK
  <2>2. CASE ~IsWaiting(b.tstat)
    <3>1. t \notin tmevt /\ b.wobj = NULL
      BY <1>1, <2>2 DEF TcbOK, IsWaiting, WaitFlag
    <3>2. Unbound(b) = b /\ T = tmevt
      BY <1>1, <3>1 DEF TCB, Unbound
    <3>3. Sound(K, K)
      BY <1>1 DEF Sound, KeepsSched
    <3>4. Effect(K, K, t, b, tmevt, K.wque)
      BY <1>1, <3>3, OtherEffect
    <3> QED
      BY <2>2, <3>2, <3>4
  <2> QED
    BY <2>1, <2>2
<1>5. PICK W : Effect(K, s1, t, Unbound(b), T, W)
  BY <1>4
<1>6. /\ Agree(s1, Place(s1)) /\ s1.tcb = [tcb EXCEPT ![t] = Unbound(b)]
      /\ s1.tmevt = T /\ s1.wque = W /\ s1 \in KState
  BY <1>1, <1>5 DEF Effect, AgreeAfter, Agree, WellTyped
<1>7. s1.tcb[t] = Unbound(b)
  BY <1>1, <1>6 DEF WellTyped, KState
<1>8. RasTerWaiting(t) = x
  <2>1. RasTerWaiting(t) =
          MakeRunnable([s1 EXCEPT !.tcb[t].raster = TRUE, !.tcb[t].tstat = {"RUNNABLE"}], t)
    BY DEF RasTerWaiting
  <2> HIDE DEF s1
  <2>2. [s1 EXCEPT !.tcb[t].raster = TRUE, !.tcb[t].tstat = {"RUNNABLE"}] = TcbSet(s1, t, c)
    <3> DEFINE d == [Unbound(b) EXCEPT !.raster = TRUE]
               m == [s1.tcb EXCEPT ![t] = d]
    <3>1. c = [d EXCEPT !.tstat = {"RUNNABLE"}]
      OBVIOUS
    <3>2. s1.tcb \in [Task -> TCB]
      BY <1>6 DEF KState
    <3>3. [s1 EXCEPT !.tcb[t].raster = TRUE] = [s1 EXCEPT !.tcb = m]
      BY <1>7
    <3>4. m[t] = d /\ [m EXCEPT ![t] = c] = [s1.tcb EXCEPT ![t] = c]
      BY <3>2
    <3> HIDE DEF d, c, m
    <3>5. [[s1 EXCEPT !.tcb[t].raster = TRUE] EXCEPT !.tcb[t].tstat = {"RUNNABLE"}]
            = [s1 EXCEPT !.tcb = [m EXCEPT ![t] = c]]
      BY <1>6, <3>1, <3>3, <3>4 DEF KState
    <3>6. [s1 EXCEPT !.tcb[t].raster = TRUE, !.tcb[t].tstat = {"RUNNABLE"}]
            = [[s1 EXCEPT !.tcb[t].raster = TRUE] EXCEPT !.tcb[t].tstat = {"RUNNABLE"}]
      OBVIOUS
    <3> QED
      BY <3>4, <3>5, <3>6 DEF TcbSet
  <2> QED
    BY <2>1, <2>2
<1> HIDE DEF s1, c, T
<1>9. Effect(s1, x, t, c, T, W)
  <2>1. ~IsRunnable(s1.tcb[t].tstat) /\ IsRunnable(c.tstat)
    BY <1>2, <1>3, <1>7, FlagFacts
  <2> QED
    BY <1>3, <1>6, <2>1, EnterEffect
<1> HIDE DEF x
<1>10. Effect(K, x, t, c, T, W)
  BY <1>5, <1>9, EffectTrans
<1>11. t \notin T /\ \A v \in Task \ {t} : v \in T <=> v \in tmevt
  BY DEF T
<1>12. TcbOK(t, c, t \in T) /\ ~MustEnd(c)
  BY <1>3, <1>11, FlagFacts DEF TcbOK, MustEnd
<1>13. Operation(x, t, c, T)
  BY <1>10, <1>11, <1>12 DEF Operation
<1>14. ~IsDormant(c.tstat)
  BY <1>3, FlagFacts
<1> QED
  BY <1>3, <1>8, <1>12, <1>13, <1>14 DEF c, T

\* ras_ter of a task that waits and has disabled its termination.
LEMMA RasTerWaitingExact ==
  ASSUME IInv, SInv, NEW t \in Task, ~tcb[t].enater, ~IsRunnable(tcb[t].tstat),
         t # runtsk, Return(RasTerWaiting(t))
  PROVE  SStep
<1> DEFINE c == [Unbound(tcb[t]) EXCEPT !.raster = TRUE, !.tstat = {"RUNNABLE"}]
           T == tmevt \ {t}
<1>1. Operation(RasTerWaiting(t), t, c, T) /\ ~MustEnd(c)
  BY RasTerOperation
<1> HIDE DEF c, T
<1> QED
  BY <1>1, ReturnExact

\* Termination.
LEMMA TerminationExact ==
  ASSUME IInv, SInv, NEW t \in Task
  PROVE  /\ ext_tsk => SStep
         /\ ras_ter(t) => SStep
         /\ dis_ter => SStep
         /\ ena_ter => SStep
         /\ ter_tsk(t) => SStep
<1>1. ASSUME ext_tsk PROVE SStep
  <2>1. runtsk # NULL /\ ~intnest
    BY <1>1 DEF ext_tsk
  <2>2. CASE dspflg
    BY <1>1, <2>1, <2>2, SetDspflgExact, TerminateSelfExact DEF ext_tsk
  <2>3. CASE ~dspflg
    <3>1. TerminateSelf(SetDspflg(K))
      BY <1>1, <2>3 DEF ext_tsk
    <3> QED
      BY <2>1, <3>1, SetDspflgExact, TerminateSelfExact
  <2> QED
    BY <2>2, <2>3
<1>2. ASSUME NEW v \in Task, NEW f \in BOOLEAN, IsRunnable(tcb[v].tstat),
             MustEnd([tcb[v] EXCEPT !.raster = f]) => v = runtsk /\ ~dspflg,
             Return([K EXCEPT !.tcb[v].raster = f])
      PROVE  SStep
  <2> DEFINE c == [tcb[v] EXCEPT !.raster = f]
  <2>1. tcb[v] \in TCB /\ K.tcb = tcb
    BY TaskBefore
  <2>2. c \in TCB /\ c.tstat = tcb[v].tstat /\ c.pri = tcb[v].pri /\ c.wobj = tcb[v].wobj
    BY <2>1 DEF TCB
  <2>3. [K EXCEPT !.tcb[v].raster = f] = TcbSet(K, v, c) /\ ~IsDormant(tcb[v].tstat)
    BY <1>2, <2>1, StateFacts DEF TcbSet
  <2> HIDE DEF c
  <2> QED
    BY <1>2, <2>2, <2>3, FlagExact DEF c
<1>3. ASSUME NEW f \in BOOLEAN, runtsk # NULL,
             f /\ tcb[runtsk].raster => ~dspflg,
             Return([K EXCEPT !.tcb[runtsk].enater = f])
      PROVE  SStep
  <2> DEFINE b == tcb[runtsk]
             c == [b EXCEPT !.enater = f]
  <2>1. runtsk \in Task
    BY <1>3, RunningTask
  <2>2. /\ b \in TCB /\ K.tcb = tcb /\ TcbOK(runtsk, b, runtsk \in tmevt)
        /\ IsRunnable(b.tstat)
    BY <2>1, TaskBefore
  <2>3. /\ c \in TCB /\ c.tstat = b.tstat /\ c.pri = b.pri /\ c.wobj = b.wobj
        /\ c.raster = b.raster /\ c.enater = f
    BY <2>2 DEF TCB
  <2>4. [K EXCEPT !.tcb[runtsk].enater = f] = TcbSet(K, runtsk, c) /\ ~IsDormant(b.tstat)
    BY <2>2, StateFacts DEF TcbSet
  <2> HIDE DEF c
  <2> QED
    BY <1>3, <2>1, <2>2, <2>3, <2>4, FlagExact DEF MustEnd
<1>4. ASSUME ras_ter(t) PROVE SStep
  <2>1. t # runtsk
    BY <1>4 DEF ras_ter, RasTerOK
  <2>2. CASE Return(TaskTerminate(K, t))
    BY <2>1, <2>2, TerminateOtherExact
  <2>3. CASE RequestTermination(t)
    <3>1. ~tcb[t].enater /\ tcb[t] \in TCB
      BY <2>3, TaskBefore DEF RequestTermination
    <3>2. ~MustEnd([tcb[t] EXCEPT !.raster = TRUE])
      BY <3>1 DEF TCB, MustEnd
    <3>3. CASE IsRunnable(tcb[t].tstat)
      BY <1>2, <2>3, <3>2, <3>3 DEF RequestTermination
    <3>4. CASE ~IsRunnable(tcb[t].tstat)
      BY <2>1, <2>3, <3>1, <3>4, RasTerWaitingExact DEF RequestTermination
    <3> QED
      BY <3>3, <3>4
  <2> QED
    BY <1>4, <2>2, <2>3 DEF ras_ter
<1>5. ASSUME dis_ter PROVE SStep
  BY <1>3, <1>5 DEF dis_ter, TskCtxUnl
<1>6. ASSUME ena_ter PROVE SStep
  <2>1. runtsk # NULL /\ ~intnest
    BY <1>6 DEF ena_ter, TskCtxUnl
  <2>2. CASE tcb[runtsk].raster /\ dspflg
    <3>1. TerminateSelf(K)
      BY <1>6, <2>2 DEF ena_ter
    <3> QED
      BY <2>1, <2>2, <3>1, SetDspflgExact, TerminateSelfExact
  <2>3. CASE ~(tcb[runtsk].raster /\ dspflg)
    <3>1. Return([K EXCEPT !.tcb[runtsk].enater = TRUE])
      BY <1>6, <2>3 DEF ena_ter
    <3> QED
      BY <1>3, <2>1, <2>3, <3>1
  <2> QED
    BY <2>2, <2>3
<1>7. ASSUME ter_tsk(t) PROVE SStep
  BY <1>7, TerminateOtherExact DEF ter_tsk, TerTskOK
<1> QED
  BY <1>1, <1>4, <1>5, <1>6, <1>7

\* Task synchronisation.
LEMMA SyncExact ==
  ASSUME IInv, SInv, NEW t \in Task
  PROVE  /\ \A timed \in BOOLEAN : slp_tsk(timed) => SStep
         /\ wup_tsk(t) => SStep
         /\ can_wup(t) => SStep
         /\ rel_wai(t) => SStep
         /\ sus_tsk(t) => SStep
         /\ rsm_tsk(t) => SStep
         /\ dly_tsk => SStep
         /\ TimerExpires(t) => SStep
<1>1. ASSUME NEW v \in Task, NEW f \in BOOLEAN, ~IsDormant(tcb[v].tstat),
             Return([K EXCEPT !.tcb[v].wupque = f])
      PROVE  SStep
  <2> DEFINE c == [tcb[v] EXCEPT !.wupque = f]
  <2>1. /\ tcb[v] \in TCB /\ K.tcb = tcb /\ TcbOK(v, tcb[v], v \in tmevt)
        /\ MustEnd(tcb[v]) => v = runtsk /\ ~dspflg
    BY TaskBefore
  <2>2. /\ c \in TCB /\ c.tstat = tcb[v].tstat /\ c.pri = tcb[v].pri
        /\ c.wobj = tcb[v].wobj /\ c.raster = tcb[v].raster /\ c.enater = tcb[v].enater
    BY <2>1 DEF TCB
  <2>3. [K EXCEPT !.tcb[v].wupque = f] = TcbSet(K, v, c)
    BY <2>1 DEF TcbSet
  <2> HIDE DEF c
  <2> QED
    BY <1>1, <2>1, <2>2, <2>3, FlagExact DEF TcbOK, MustEnd
<1>2. ASSUME CheckDispatch, ~tcb[runtsk].raster, NEW flag \in {"SLP", "DLY"},
             NEW timed \in BOOLEAN, flag = "DLY" => timed,
             Return(MakeWaitTmout(K, flag, timed))
      PROVE  SStep
  <2> DEFINE b == Waiting(tcb[runtsk], flag)
             T == IF timed THEN tmevt \union {runtsk} ELSE tmevt
  <2>1. runtsk \in Task /\ runtsk # NULL /\ dspflg /\ ~intnest
    BY <1>2, RunningTask DEF CheckDispatch, TskCtxUnl
  <2>2. Operation(MakeWaitTmout(K, flag, timed), runtsk, b, T) /\ ~MustEnd(b)
    BY <1>2, <2>1, WaitOperation
  <2> HIDE DEF b, T
  <2> QED
    BY <1>2, <2>1, <2>2, ReturnExact
<1>3. ASSUME NEW timed \in BOOLEAN, slp_tsk(timed) PROVE SStep
  <2>1. runtsk \in Task /\ ~IsDormant(tcb[runtsk].tstat)
    <3>1. runtsk \in Task
      BY <1>3, RunningTask DEF slp_tsk, CheckDispatch, TskCtxUnl
    <3> QED
      BY <3>1, TaskBefore, StateFacts
  <2>2. CASE Return([K EXCEPT !.tcb[runtsk].wupque = FALSE])
    BY <1>1, <2>1, <2>2
  <2>3. CASE Return(MakeWaitTmout(K, "SLP", timed))
    BY <1>2, <1>3, <2>3 DEF slp_tsk
  <2> QED
    BY <1>3, <2>2, <2>3 DEF slp_tsk
<1>4. ASSUME wup_tsk(t) PROVE SStep
  <2>1. CASE "SLP" \in tcb[t].tstat /\ Return(WaitComplete(K, t))
    <3>1. IsWaiting(tcb[t].tstat)
      BY <2>1 DEF IsWaiting, WaitFlag
    <3> QED
      BY <2>1, <3>1, ReleaseOperation, ReturnExact
  <2>2. CASE Return([K EXCEPT !.tcb[t].wupque = TRUE])
    BY <1>1, <1>4, <2>2 DEF wup_tsk
  <2> QED
    BY <1>4, <2>1, <2>2 DEF wup_tsk
<1>5. ASSUME can_wup(t) PROVE SStep
  BY <1>1, <1>5 DEF can_wup
<1>6. ASSUME rel_wai(t) PROVE SStep
  <2>1. IsWaiting(tcb[t].tstat)
        /\ Return(MakeNonWait(WaitDequeueTmevtb(WaitDequeueWObj(K, t), t), t))
    BY <1>6 DEF rel_wai
  <2> QED
    BY <2>1, ReleaseOperation, ReturnExact
<1>7. ASSUME TimerExpires(t) PROVE SStep
  <2>1. IsWaiting(tcb[t].tstat) /\ Return(WaitTmout(K, t))
    BY <1>7, TaskBefore DEF TimerExpires, TcbOK
  <2> QED
    BY <2>1, ReleaseOperation, ReturnExact
<1>8. ASSUME dly_tsk PROVE SStep
  BY <1>2, <1>8 DEF dly_tsk
<1> DEFINE b == tcb[t]
<1>9. /\ b \in TCB /\ b.tstat \in TStat /\ K.tcb = tcb /\ TcbOK(t, b, t \in tmevt)
      /\ MustEnd(b) => t = runtsk /\ ~dspflg
      /\ t = runtsk => IsRunnable(b.tstat)
  BY TaskBefore DEF TCB
\* A waiting task is suspended or resumed.
<1>10. ASSUME NEW ts \in TStat, IsWaiting(b.tstat), IsWaiting(ts),
              ~IsDormant(ts), ~IsRunnable(ts), ~IsRunnable(b.tstat),
              "OBJ" \in ts <=> "OBJ" \in b.tstat, "DLY" \in ts <=> "DLY" \in b.tstat,
              Return([K EXCEPT !.tcb[t].tstat = ts])
       PROVE  SStep
  <2> DEFINE c == [b EXCEPT !.tstat = ts]
  <2>1. /\ c \in TCB /\ c.tstat = ts /\ c.wobj = b.wobj /\ c.raster = b.raster
        /\ c.enater = b.enater
    BY <1>9 DEF TCB
  <2>2. [K EXCEPT !.tcb[t].tstat = ts] = TcbSet(K, t, c)
    BY <1>9 DEF TcbSet
  <2> HIDE DEF c
  <2>3. PlaceOf(c) = PlaceOf(b) /\ TcbOK(t, c, t \in tmevt)
    BY <1>9, <1>10, <2>1 DEF PlaceOf, TcbOK
  <2>4. Operation(TcbSet(K, t, c), t, c, tmevt)
    BY <2>1, <2>3, TcbOperation
  <2> QED
    BY <1>9, <1>10, <2>1, <2>2, <2>4, ReturnExact DEF MustEnd
<1>11. ASSUME sus_tsk(t) PROVE SStep
  <2>1. /\ t = runtsk => dspflg /\ ~intnest
        /\ ~IsDormant(b.tstat) /\ ~b.raster /\ ~IsSuspended(b.tstat)
    BY <1>11 DEF sus_tsk, TskCtxUnl
  <2>2. CASE IsRunnable(b.tstat)
    <3> DEFINE c == [b EXCEPT !.tstat = {"SUSPENDED"}]
    <3>1. Return(MakeNonRunnable(TcbSet(K, t, c), t))
      BY <1>9, <1>11, <2>2 DEF sus_tsk, TcbSet
    <3>2. /\ c \in TCB /\ c.tstat = {"SUSPENDED"} /\ c.wobj = b.wobj /\ c.pri = b.pri
          /\ c.raster = b.raster
      BY <1>9, StatesType DEF TCB
    <3>3. b.wobj = NULL /\ t \notin tmevt
      BY <1>9, <2>2, StateFacts DEF TcbOK
    <3> HIDE DEF c
    <3>4. TcbOK(t, c, t \in tmevt) /\ ~MustEnd(c) /\ ~IsRunnable(c.tstat)
      BY <2>1, <3>2, <3>3, FlagFacts DEF TcbOK, MustEnd
    <3>5. Operation(MakeNonRunnable(TcbSet(K, t, c), t), t, c, tmevt)
      BY <2>2, <3>2, <3>4, LeaveOperation
    <3> QED
      BY <2>1, <3>1, <3>4, <3>5, ReturnExact
  <2>3. CASE ~IsRunnable(b.tstat)
    <3> DEFINE ts == b.tstat \union {"SUSPENDED"}
    <3>1. b.tstat # {} /\ "SUSPENDED" \notin b.tstat /\ "RUNNABLE" \notin b.tstat
      BY <2>1, <2>3 DEF IsDormant, IsSuspended, IsRunnable
    <3>2. PICK f \in WaitFlag : b.tstat = {f}
      BY <1>9, <3>1 DEF TStat
    <3>3. ts = {f, "SUSPENDED"} /\ ts \in TStat
      BY <3>2, StatesType
    <3>4. IsWaiting(b.tstat) /\ IsWaiting(ts) /\ ~IsDormant(ts) /\ ~IsRunnable(ts)
          /\ ("OBJ" \in ts <=> "OBJ" \in b.tstat) /\ ("DLY" \in ts <=> "DLY" \in b.tstat)
      BY <3>2, <3>3 DEF WaitFlag, IsWaiting, IsDormant, IsRunnable
    <3>5. Return([K EXCEPT !.tcb[t].tstat = ts])
      BY <1>9, <1>11, <2>3 DEF sus_tsk
    <3> HIDE DEF ts
    <3> QED
      BY <1>10, <2>3, <3>3, <3>4, <3>5
  <2> QED
    BY <2>2, <2>3
<1>12. ASSUME rsm_tsk(t) PROVE SStep
  <2>1. IsSuspended(b.tstat)
    BY <1>12 DEF rsm_tsk
  <2>2. CASE IsWaiting(b.tstat)
    <3> DEFINE ts == b.tstat \ {"SUSPENDED"}
    <3>1. b.tstat \intersect WaitFlag # {} /\ "SUSPENDED" \in b.tstat
      BY <2>1, <2>2 DEF IsSuspended, IsWaiting
    <3>2. PICK f \in WaitFlag : b.tstat = {f, "SUSPENDED"}
      BY <1>9, <3>1 DEF TStat, WaitFlag
    <3>3. f # "SUSPENDED"
      BY DEF WaitFlag
    <3>4. ts = {f} /\ ts \in TStat
      <4>1. ts = {f}
        BY <3>2, <3>3
      <4> QED
        BY <4>1, StatesType
    <3>5. IsWaiting(ts) /\ ~IsDormant(ts) /\ ~IsRunnable(ts) /\ ~IsRunnable(b.tstat)
          /\ ("OBJ" \in ts <=> "OBJ" \in b.tstat) /\ ("DLY" \in ts <=> "DLY" \in b.tstat)
      BY <3>2, <3>4 DEF WaitFlag, IsWaiting, IsDormant, IsRunnable
    <3>6. Return([K EXCEPT !.tcb[t].tstat = ts])
      BY <1>9, <1>12, <2>2 DEF rsm_tsk
    <3> HIDE DEF ts
    <3> QED
      BY <1>10, <2>2, <3>4, <3>5, <3>6
  <2>3. CASE ~IsWaiting(b.tstat)
    <3> DEFINE c == [b EXCEPT !.tstat = {"RUNNABLE"}]
    <3>1. Return(MakeRunnable(TcbSet(K, t, c), t))
      BY <1>9, <1>12, <2>3 DEF rsm_tsk, TcbSet
    <3>2. c \in TCB /\ c.tstat = {"RUNNABLE"} /\ c.wobj = b.wobj /\ c.raster = b.raster
      BY <1>9, StatesType DEF TCB
    <3>3. b.wobj = NULL /\ t \notin tmevt /\ ~b.raster /\ ~IsRunnable(b.tstat)
      BY <1>9, <2>1, <2>3, StateFacts DEF TcbOK, IsWaiting, WaitFlag
    <3> HIDE DEF c
    <3> QED
      BY <3>1, <3>2, <3>3, EnterExact DEF MustEnd
  <2> QED
    BY <2>2, <2>3
<1> QED
  BY <1>3, <1>4, <1>5, <1>6, <1>7, <1>8, <1>11, <1>12

\* Time, locks and interrupts leave everything as it is.
LEMMA UnchangedExact ==
  ASSUME SInv, UNCHANGED kvars, intnest' = intnest \/ intnest' = TRUE
  PROVE  SStep
<1>1. K' = K
  BY DEF kvars, K
<1> QED
  BY <1>1 DEF SInv, SStep

\* Holding dispatching off: the end of dis_dsp and of chg_ipm.
LEMMA HoldExact ==
  ASSUME IInv, SInv, Becomes([K EXCEPT !.dspflg = FALSE])
  PROVE  SStep
<1> DEFINE s == [K EXCEPT !.dspflg = FALSE]
<1>1. WellTyped(K) /\ Agree(K, Place(K))
  BY DEF IInv, SInv
<1>2. /\ WellTyped(s) /\ s.dspflg = FALSE /\ s.runtsk = K.runtsk
      /\ s.tcb = K.tcb /\ s.ready = K.ready /\ s.primap = K.primap /\ s.predtsk = K.predtsk
      /\ s.tmevt = K.tmevt
  BY <1>1 DEF WellTyped, KState
<1> HIDE DEF s
<1>3. K' = s
  BY <1>2, BecomesK DEF s
<1>4. Agree(s, Place(s))
  BY <1>1, <1>2, CpuFrame
<1>5. TasksOK(s) /\ RequestsOK(s) /\ RunningOK(s)
  BY <1>2 DEF SInv, TasksOK, RequestsOK, RunningOK
<1>6. SchedtskExact(s)
  BY <1>2 DEF SchedtskExact
<1> QED
  BY <1>3, <1>4, <1>5, <1>6 DEF SInv, SStep

\* set_dspflg followed by a dispatch if it is necessary.
LEMMA SetDspflgSettled ==
  ASSUME IInv, SInv, ~intnest, ~MustEnd(tcb[runtsk]) \/ runtsk = NULL
  PROVE  /\ DispatchIfNeeded(SetDspflg(K)) = Dispatch(SetDspflg(K))
         /\ \A v \in Task : ~MustEnd(SetDspflg(K).tcb[v])
         /\ TasksOK(SetDspflg(K))
<1> DEFINE s == SetDspflg(K)
<1>1. /\ Agree(s, Place(s)) /\ s.dspflg = TRUE
      /\ s.runtsk = runtsk /\ s.tcb = tcb /\ s.tmevt = tmevt
  BY SetDspflgExact
<1>2. K.tcb = tcb /\ K.runtsk = runtsk /\ K.tmevt = tmevt
  BY DEF K
<1> HIDE DEF s
<1>3. DispatchIfNeeded(s) = Dispatch(s)
  BY <1>1 DEF DispatchIfNeeded, Dispatch, Agree, WellTyped, KState
<1>4. \A v \in Task : ~MustEnd(tcb[v])
  BY <1>2, KernelAssumption DEF SInv, RequestsOK
<1>5. TasksOK(s)
  BY <1>1, <1>2 DEF SInv, TasksOK
<1> QED
  BY <1>1, <1>3, <1>4, <1>5 DEF s

\* Making dispatching possible again: the end of ena_dsp and of chg_ipm.
LEMMA EnableDispatchExact ==
  ASSUME IInv, SInv, TskCtxUnl, EnableDispatch
  PROVE  SStep
<1> DEFINE s == SetDspflg(K)
<1>1. ~intnest /\ runtsk # NULL
  BY DEF TskCtxUnl
<1>2. /\ Agree(s, Place(s)) /\ SchedtskExact(s) /\ s.dspflg = TRUE
      /\ s.runtsk = runtsk /\ s.tcb = tcb /\ s.tmevt = tmevt
  BY SetDspflgExact
<1>3. CASE MustEnd(tcb[runtsk])
  <2>1. TerminateSelf(s)
    BY <1>3 DEF EnableDispatch, MustEnd
  <2> QED
    BY <1>1, <1>2, <2>1, TerminateSelfExact
<1>4. CASE ~MustEnd(tcb[runtsk])
  <2>1. Becomes(DispatchIfNeeded(s))
    BY <1>4 DEF EnableDispatch, MustEnd
  <2>2. /\ DispatchIfNeeded(s) = Dispatch(s) /\ TasksOK(s)
        /\ \A v \in Task : ~MustEnd(s.tcb[v])
    BY <1>1, <1>4, SetDspflgSettled
  <2> HIDE DEF s
  <2> QED
    BY <1>2, <2>1, <2>2, DispatchExact
<1> QED
  BY <1>3, <1>4

\* System state management.
LEMMA SystemExact ==
  ASSUME IInv, SInv
  PROVE  /\ \A p \in Pri, u \in Unit : rot_rdq(p, u) => SStep
         /\ loc_cpu => SStep
         /\ unl_cpu => SStep
         /\ dis_dsp => SStep
         /\ ena_dsp => SStep
         /\ \A mask \in BOOLEAN : chg_ipm(mask) => SStep
<1>1. ASSUME NEW p \in Pri, NEW u \in Unit, rot_rdq(p, u) PROVE SStep
  <2> DEFINE s == RotateReadyQueue(K, p, u)
  <2>1. /\ Main \in Task /\ Agree(K, Place(K)) /\ K.tcb = tcb /\ K.tmevt = tmevt
        /\ TcbOK(Main, tcb[Main], Main \in tmevt)
        /\ MustEnd(tcb[Main]) => Main = runtsk /\ ~dspflg
        /\ Main = runtsk => IsRunnable(tcb[Main].tstat)
    BY TaskBefore, TaskAssumption
  <2>2. Return(s)
    BY <1>1 DEF rot_rdq
  <2>3. Effect(K, s, Main, tcb[Main], tmevt, K.wque)
    BY <2>1, RotateEffect
  <2> HIDE DEF s
  <2>4. Operation(s, Main, tcb[Main], tmevt)
    BY <2>1, <2>3 DEF Operation
  <2> QED
    BY <2>1, <2>2, <2>4, ReturnExact
<1>2. ASSUME loc_cpu \/ unl_cpu PROVE SStep
  BY <1>2, UnchangedExact DEF loc_cpu, unl_cpu
<1>3. ASSUME dis_dsp PROVE SStep
  BY <1>3, HoldExact DEF dis_dsp
<1>4. ASSUME ena_dsp PROVE SStep
  BY <1>4, EnableDispatchExact, UnchangedExact DEF ena_dsp
<1>5. ASSUME NEW mask \in BOOLEAN, chg_ipm(mask) PROVE SStep
  BY <1>5, EnableDispatchExact, HoldExact DEF chg_ipm
<1> QED
  BY <1>1, <1>2, <1>3, <1>4, <1>5

\* The return of the outermost handler: the dispatcher, unless the interrupted
\* task is the one to be executed.
LEMMA ExitExact ==
  ASSUME IInv, SInv, SchedtskExact(K),
         Becomes(IF runtsk # schedtsk THEN Dispatch(K) ELSE K)
  PROVE  SStep
<1> DEFINE x == IF runtsk # schedtsk THEN Dispatch(K) ELSE K
<1>1. WellTyped(K) /\ Agree(K, Place(K)) /\ K.runtsk = runtsk /\ K.schedtsk = schedtsk
      /\ K.dspflg = dspflg /\ dspflg \in BOOLEAN
  BY DEF IInv, SInv, TypeOK, K, KState
<1>2. CASE dspflg
  <2>1. x = Dispatch(K)
    BY <1>1 DEF Dispatch, WellTyped, KState
  <2>2. TasksOK(K) /\ \A v \in Task : ~MustEnd(K.tcb[v])
    BY <1>1, <1>2 DEF SInv, RequestsOK
  <2> HIDE DEF x
  <2> QED
    BY <1>1, <1>2, <2>1, <2>2, DispatchExact DEF x
<1>3. CASE ~dspflg
  <2>1. x = K
    BY <1>3 DEF IInv, HeldRuns
  <2>2. K' = K
    BY <1>1, <2>1, BecomesK
  <2> QED
    BY <2>2 DEF SInv, SStep
<1> QED
  BY <1>2, <1>3

\* Interrupt entry and exit.
LEMMA InterruptExact ==
  ASSUME IInv, SInv
  PROVE  /\ IntEnter => SStep
         /\ SchedtskExact(K) /\ IntExit => SStep
BY UnchangedExact, ExitExact DEF IntEnter, IntExit

-----------------------------------------------------------------------------
\* The kernel data before the first task is activated; time partitioning starts
\* with other units.
IsStart(k) ==
  /\ WellTyped(k)
  /\ k.tcb = [t \in Task |-> InitTCB(t)]
  /\ k.ready = [u \in Unit |-> [p \in Pri |-> << >>]]
  /\ k.primap = [u \in Unit |-> {}] /\ k.predtsk = [u \in Unit |-> NULL]
  /\ k.tmevt = {} /\ k.schedtsk = NULL /\ k.dspflg = TRUE

\* Nothing is scheduled then.
LEMMA StartAgrees ==
  ASSUME NEW k, IsStart(k)
  PROVE  Agree(k, Place(k)) /\ SchedtskExact(k)
<1>1. \A t \in Task : Place(k)[t] = 0
  BY FlagFacts DEF IsStart, Place, PlaceOf, InitTCB
<1>2. IsPlacement(Place(k)) /\ AtPriority(k, Place(k))
  BY <1>1 DEF AtPriority, IsPlacement, Place
<1>3. \A u \in Unit, p \in Pri : PlacedIn(Place(k), u, p) = {}
  BY <1>1 DEF PlacedIn, Pri
<1>4. IsQueue(<< >>, {})
  BY DEF IsQueue
<1>5. \A u \in Unit, p \in Pri : k.ready[u][p] = << >> /\ k.primap[u] = {}
  BY DEF IsStart
<1>6. QueuesExact(k, Place(k))
  BY <1>3, <1>4, <1>5 DEF QueuesExact
<1>7. PredtskExact(k)
  BY DEF IsStart, PredtskExact, IsTop, IsTopPri
<1>8. k.twdsched \in Unit /\ k.idlesched \in Unit /\ KERNEL \in Unit
  BY KernelAssumption DEF IsStart, WellTyped, KState
<1>9. Selected(k) = NULL
  BY <1>8 DEF IsStart, Selected
<1> QED
  BY <1>2, <1>6, <1>7, <1>9 DEF IsStart, Agree, SchedtskExact

\* The first dispatch leads to a state that satisfies the second invariant.
LEMMA StartExact ==
  ASSUME NEW k, IsStart(k)
  PROVE  LET s == MakeActive(k, Main)
         IN  Settled(Dispatch(s)) /\ WellTyped(Dispatch(s)) /\ s.dspflg = TRUE
<1> DEFINE b == InitTCB(Main)
           c == [b EXCEPT !.tstat = {"RUNNABLE"}]
           s == MakeActive(k, Main)
<1>1. k.tcb = [t \in Task |-> InitTCB(t)] /\ k.tmevt = {} /\ k.dspflg = TRUE
  BY DEF IsStart
<1>2. Agree(k, Place(k)) /\ SchedtskExact(k)
  BY StartAgrees
<1>3. Main \in Task /\ k.tcb[Main] = b
  BY <1>1, TaskAssumption
<1>4. s = MakeRunnable(TcbSet(k, Main, c), Main)
  BY <1>3 DEF MakeActive, TcbSet
<1>5. /\ c \in TCB /\ c.tstat = {"RUNNABLE"} /\ c.wobj = NULL /\ c.raster = FALSE
  BY KernelAssumption, TaskAssumption, StatesType DEF TCB, InitTCB
<1>6. ~IsRunnable(b.tstat) /\ IsRunnable(c.tstat)
  BY <1>5, FlagFacts DEF InitTCB
<1> HIDE DEF b, c
<1>7. Effect(k, s, Main, c, k.tmevt, k.wque)
  BY <1>2, <1>3, <1>4, <1>5, <1>6, EnterEffect
<1> HIDE DEF s
<1>8. /\ Agree(s, Place(s)) /\ SchedtskExact(s) /\ s.dspflg = TRUE
      /\ s.tcb = [k.tcb EXCEPT ![Main] = c] /\ s.tmevt = {}
  BY <1>1, <1>2, <1>7 DEF Effect, AgreeAfter, Sound, KeepsSched
<1>9. \A t \in Task : s.tcb[t] = IF t = Main THEN c ELSE InitTCB(t)
  BY <1>1, <1>8
<1>10. TcbOK(Main, c, FALSE) /\ ~MustEnd(c)
  BY <1>5, FlagFacts DEF TcbOK, MustEnd
<1>11. \A t \in Task : TcbOK(t, InitTCB(t), FALSE) /\ ~MustEnd(InitTCB(t))
  BY FlagFacts DEF TcbOK, MustEnd, InitTCB
<1>12. \A v \in Task : ~MustEnd(s.tcb[v])
  BY <1>9, <1>10, <1>11
<1>13. TasksOK(s)
  <2> SUFFICES ASSUME NEW t \in Task PROVE TcbOK(t, s.tcb[t], t \in s.tmevt)
    BY DEF TasksOK
  <2> QED
    BY <1>8, <1>9, <1>10, <1>11 DEF TcbOK
<1>14. Settled(Dispatch(s)) /\ WellTyped(Dispatch(s))
  BY <1>8, <1>12, <1>13, DispatchSettled
<1> QED
  BY <1>8, <1>14 DEF s

\* The initial states satisfy the second invariant.
LEMMA InitExact == Init => SInv /\ SchedtskExact(K)
<1> SUFFICES ASSUME Init PROVE SInv /\ SchedtskExact(K)
  OBVIOUS
<1>1. IsStart(InitK)
  BY InitTyped DEF IsStart, InitK
<1>2. Settled(StartK) /\ WellTyped(StartK)
  BY <1>1, StartExact DEF StartK
<1>3. K = StartK
  <2> HIDE DEF StartK
  <2> QED
    BY <1>2 DEF Init, K, WellTyped, KState
<1> QED
  BY <1>2, <1>3 DEF SInv, Settled

\* Every step preserves the second invariant.
LEMMA NextExact ==
  ASSUME IInv, SInv, SchedtskExact(K), [Next]_vars
  PROVE  SStep
<1>1. CASE UNCHANGED vars
  BY <1>1, UnchangedExact DEF vars, cpuvars
<1>2. ASSUME NEW t \in Task, PlainTaskCall(t) PROVE SStep
  BY <1>2, ManageExact, SyncExact DEF PlainTaskCall
<1>3. CASE PlainCall
  <2>1. CASE \E t \in Task : PlainTaskCall(t)
    BY <1>2, <2>1
  <2>2. CASE dis_ter
    BY <2>2, TerminationExact, TaskAssumption
  <2>3. CASE dly_tsk \/ \E timed \in BOOLEAN : slp_tsk(timed)
    BY <2>3, SyncExact, TaskAssumption
  <2>4. CASE \/ loc_cpu \/ unl_cpu \/ dis_dsp
             \/ \E p \in Pri, u \in Unit : rot_rdq(p, u)
    BY <2>4, SystemExact
  <2>5. CASE IntEnter \/ IntExit
    BY <2>5, InterruptExact
  <2> QED
    BY <1>3, <2>1, <2>2, <2>3, <2>4, <2>5 DEF PlainCall
<1>4. ASSUME NEW t \in Task, TaskCall(t) PROVE SStep
  BY <1>4, ManageExact, TerminationExact, SyncExact DEF TaskCall
<1>5. CASE SystemCall
  BY <1>5, TerminationExact, SystemExact, TaskAssumption DEF SystemCall
<1> QED
  BY <1>1, <1>3, <1>4, <1>5 DEF Next

\* The two invariants together are inductive.
FullInv == IInv /\ SInv /\ SchedtskExact(K)

\* The invariants hold in every reachable state.
LEMMA InvariantHolds == Spec => []FullInv
<1>1. Init => FullInv
  BY InitOK, InitExact DEF FullInv
<1>2. FullInv /\ [Next]_vars => FullInv'
  BY NextOK, NextExact DEF FullInv, SStep
<1> QED
  BY <1>1, <1>2, PTL DEF Spec

-----------------------------------------------------------------------------
(* What the invariant says of the properties of the runs. *)

\* The ready queues are exact in every state the second invariant allows.
LEMMA QueuesOfInvariant == SInv => ReadyQueuesExact
<1> SUFFICES ASSUME SInv PROVE ReadyQueuesExact
  OBVIOUS
<1>1. runtsk # NULL => IsRunnable(tcb[runtsk].tstat)
  BY DEF SInv, RunningOK, K
<1>2. ASSUME NEW u \in Unit
      PROVE  /\ \A p \in Pri :
                  /\ p \in K.primap[u] <=> K.ready[u][p] # << >>
                  /\ IsQueue(K.ready[u][p],
                             {t \in Task : /\ UnitOf[t] = u /\ IsRunnable(K.tcb[t].tstat)
                                           /\ K.tcb[t].pri = p})
             /\ K.predtsk[u] = IF K.primap[u] = {} THEN NULL ELSE SearchPredtsk(K, u)
  BY AgreeIsExact DEF SInv
<1>3. /\ K.tcb = tcb /\ K.ready = ready /\ K.primap = primap /\ K.predtsk = predtsk
  BY DEF K
<1>4. ASSUME NEW u \in Unit, NEW p \in Pri
      PROVE  LET q == ready[u][p]
             IN  /\ p \in primap[u] <=> q # << >>
                 /\ \A i, j \in DOMAIN q : q[i] = q[j] => i = j
                 /\ {q[i] : i \in DOMAIN q} =
                      {t \in Task : UnitOf[t] = u /\ IsRunnable(tcb[t].tstat) /\ tcb[t].pri = p}
  BY <1>2, <1>3 DEF IsQueue
<1>5. ASSUME NEW u \in Unit
      PROVE  predtsk[u] = IF primap[u] = {} THEN NULL
                          ELSE Head(ready[u][CHOOSE p \in primap[u] :
                                               \A h \in primap[u] : p <= h])
  BY <1>2, <1>3 DEF SearchPredtsk
<1> QED
  BY <1>1, <1>4, <1>5 DEF ReadyQueuesExact

\* A right p_schedtsk is the task of highest precedence.
LEMMA BestOfInvariant == SInv /\ SchedtskExact(K) => SchedtskIsBest
<1> SUFFICES ASSUME SInv, SchedtskExact(K), dspflg PROVE SchedtskIsBest
  BY DEF SchedtskIsBest
<1>1. Best(K, schedtsk)
  BY SelectedIsBest DEF SInv, SchedtskExact, K
<1>2. /\ K.tcb = tcb /\ K.predtsk = predtsk
      /\ K.twdsched = twdsched /\ K.idlesched = idlesched
  BY DEF K
<1> DEFINE cand == {t \in Task : /\ IsRunnable(tcb[t].tstat)
                                 /\ UnitOf[t] \in {KERNEL, twdsched}}
           idle == {t \in Task : IsRunnable(tcb[t].tstat) /\ UnitOf[t] = idlesched}
<1>3. cand = RunnableIn(K, KERNEL) \union RunnableIn(K, K.twdsched)
  BY <1>2 DEF RunnableIn
<1>4. idle = RunnableIn(K, K.idlesched)
  BY <1>2 DEF RunnableIn
<1> HIDE DEF cand, idle
<1>5. IF schedtsk = NULL THEN cand = {} /\ idle = {}
      ELSE /\ schedtsk = predtsk[UnitOf[schedtsk]]
           /\ IF cand = {} THEN schedtsk \in idle
              ELSE /\ schedtsk \in cand
                   /\ \A t \in cand :
                        \/ tcb[schedtsk].pri < tcb[t].pri
                        \/ /\ tcb[schedtsk].pri = tcb[t].pri
                           /\ UnitOf[t] = KERNEL => UnitOf[schedtsk] = KERNEL
  BY <1>1, <1>2, <1>3, <1>4 DEF Best
<1> QED
  BY <1>5 DEF SchedtskIsBest, cand, idle

\* Requests, dormant tasks and timers are right in every state the second
\* invariant allows.
LEMMA TasksOfInvariant ==
  SInv => TerminationRequestHeld /\ DormantIsClean /\ TimersMatchWaits
<1> SUFFICES ASSUME SInv
             PROVE  TerminationRequestHeld /\ DormantIsClean /\ TimersMatchWaits
  OBVIOUS
<1>1. /\ K.tcb = tcb /\ K.tmevt = tmevt /\ K.runtsk = runtsk /\ K.dspflg = dspflg
  BY DEF K
<1>2. \A t \in Task : TcbOK(t, tcb[t], t \in tmevt)
  BY <1>1 DEF SInv, TasksOK
<1>3. \A t \in Task : MustEnd(tcb[t]) => t = runtsk /\ ~dspflg
  BY <1>1 DEF SInv, RequestsOK
<1>4. TerminationRequestHeld
  BY <1>2, <1>3 DEF TcbOK, MustEnd, TerminationRequestHeld
<1>5. DormantIsClean
  BY <1>2 DEF TcbOK, DormantIsClean
<1>6. TimersMatchWaits
  BY <1>2 DEF TcbOK, IsWaiting, TimersMatchWaits
<1> QED
  BY <1>4, <1>5, <1>6

\* Every ready queue holds exactly the runnable tasks of its unit and priority,
\* each once, the bitmap marks the queues that are not empty and p_predtsk heads
\* the first of them: the incremental updates of make_runnable,
\* make_non_runnable, change_priority and rotate_ready_queue always agree.
THEOREM ReadyQueuesCorrect == Spec => []ReadyQueuesExact
<1>1. FullInv => ReadyQueuesExact
  BY QueuesOfInvariant DEF FullInv
<1> QED
  BY <1>1, InvariantHolds, PTL

\* While dispatching is possible p_schedtsk is the task of highest precedence,
\* although update_schedtsk runs only where some p_predtsk changes.
THEOREM SchedtskCorrect == Spec => []SchedtskIsBest
<1>1. FullInv => SchedtskIsBest
  BY BestOfInvariant DEF FullInv
<1> QED
  BY <1>1, InvariantHolds, PTL

\* A task asked to terminate is never blocked, and keeps a request that could
\* be met only while it runs with dispatching held off.
THEOREM TerminationRequestCorrect == Spec => []TerminationRequestHeld
<1>1. FullInv => TerminationRequestHeld
  BY TasksOfInvariant DEF FullInv
<1> QED
  BY <1>1, InvariantHolds, PTL

\* A dormant task is as a task that never ran.
THEOREM DormantCorrect == Spec => []DormantIsClean
<1>1. FullInv => DormantIsClean
  BY TasksOfInvariant DEF FullInv
<1> QED
  BY <1>1, InvariantHolds, PTL

\* Time events of tasks are registered only for waiting tasks, and always for
\* a task in dly_tsk.
THEOREM TimersCorrect == Spec => []TimersMatchWaits
<1>1. FullInv => TimersMatchWaits
  BY TasksOfInvariant DEF FullInv
<1> QED
  BY <1>1, InvariantHolds, PTL

-----------------------------------------------------------------------------
(* The wait queues.  A call of the core takes at most one task out of one     *)
(* queue, or moves it there; only the synchronisation objects put tasks in.   *)

WaitStep ==
  \/ KeepsWaits(K, K')
  \/ \E t \in Task : LeavesQueue(K, K', t) \/ MovesInQueue(K, K', t)

\* The fields of K that the wait queues concern.
LEMMA WaitFields ==
  /\ HasWaits(K) /\ K.tcb = tcb /\ K.wque = wque /\ K.tmevt = tmevt
  /\ K'.tcb = tcb' /\ K'.wque = wque'
BY DEF K, HasWaits

\* A return, with or without a dispatch, concerns neither.
LEMMA ReturnWaits ==
  ASSUME NEW s, HasWaits(s),
         Return(s) \/ Becomes(s) \/ Becomes(Dispatch(s)) \/ Becomes(DispatchIfNeeded(s))
  PROVE  tcb' = s.tcb /\ wque' = s.wque
<1>1. Dispatch(s).tcb = s.tcb /\ Dispatch(s).wque = s.wque
  BY DEF HasWaits, Dispatch
<1> QED
  BY <1>1 DEF Return, Becomes, DispatchIfNeeded

\* The waits stay if one task changes, and neither its wait nor its priority.
LEMMA OneKeeps ==
  ASSUME NEW t \in Task, \A v \in Task \ {t} : tcb'[v] = tcb[v], wque' = wque,
         SameWait(tcb[t], tcb'[t])
  PROVE  WaitStep
<1>1. \A v \in Task : SameWait(tcb[v], tcb'[v])
  BY DEF SameWait
<1> QED
  BY <1>1, WaitFields DEF WaitStep, KeepsWaits

\* One task is taken out of its queue if it is in one.
LEMMA OneLeaves ==
  ASSUME NEW t \in Task, \A v \in Task \ {t} : tcb'[v] = tcb[v], wque' = Dequeued(K, t),
         ~InQueue(tcb'[t])
  PROVE  WaitStep
<1>1. CASE InQueue(tcb[t])
  <2>1. LeavesQueue(K, K', t)
    BY <1>1, WaitFields DEF Dequeued, LeavesQueue, OthersWait, SameWait
  <2> QED
    BY <2>1 DEF WaitStep
<1>2. CASE ~InQueue(tcb[t])
  <2>1. wque' = wque /\ SameWait(tcb[t], tcb'[t])
    BY <1>2, WaitFields DEF Dequeued, SameWait
  <2> QED
    BY <2>1, OneKeeps
<1> QED
  BY <1>1, <1>2

\* Calls that change the control block of one task, and the ready queues.
LEMMA FlagWaits ==
  ASSUME IInv, NEW t \in Task, NEW b, NEW s, HasWaits(s), Return(s), s.wque = wque,
         s.tcb = [tcb EXCEPT ![t] = b], SameWait(tcb[t], b)
  PROVE  WaitStep
<1>1. tcb' = [tcb EXCEPT ![t] = b] /\ wque' = wque
  BY ReturnWaits
<1>2. tcb \in [Task -> TCB]
  BY WaitFields DEF IInv, WellTyped, KState
<1>3. tcb'[t] = b /\ \A v \in Task \ {t} : tcb'[v] = tcb[v]
  BY <1>1, <1>2
<1> QED
  BY <1>1, <1>3, OneKeeps

\* The state in which one control block changes, also in a ready queue.
LEMMA TcbSetWaits ==
  ASSUME NEW t, NEW b
  PROVE  LET z == TcbSet(K, t, b)
         IN  \A s \in {z, MakeRunnable(z, t), MakeNonRunnable(z, t)} :
               HasWaits(s) /\ s.wque = wque /\ s.tcb = [tcb EXCEPT ![t] = b]
<1> DEFINE z == TcbSet(K, t, b)
<1>1. HasWaits(z) /\ z.wque = wque /\ z.tcb = [tcb EXCEPT ![t] = b]
  BY DEF TcbSet, HasWaits, K
<1> HIDE DEF z
<1> QED
  BY <1>1, SchedulingFrame DEF SameWaits, z

\* A call that does no more than that, in which the wait of the task stays.
LEMMA CallWaits ==
  ASSUME IInv, NEW t \in Task, NEW b, SameWait(tcb[t], b),
         LET z == TcbSet(K, t, b)
         IN  \E s \in {z, MakeRunnable(z, t), MakeNonRunnable(z, t)} : Return(s)
  PROVE  WaitStep
<1> DEFINE z == TcbSet(K, t, b)
<1>1. \A s \in {z, MakeRunnable(z, t), MakeNonRunnable(z, t)} :
        HasWaits(s) /\ s.wque = wque /\ s.tcb = [tcb EXCEPT ![t] = b]
  BY TcbSetWaits
<1>2. PICK s \in {z, MakeRunnable(z, t), MakeNonRunnable(z, t)} : Return(s)
  OBVIOUS
<1> HIDE DEF z
<1> QED
  BY <1>1, <1>2, FlagWaits

\* Only "OBJ" puts a task into a queue.
LEMMA StateWaits ==
  ASSUME NEW b \in TCB
  PROVE  /\ InQueue(b) => IsWaiting(b.tstat) /\ ~IsRunnable(b.tstat) /\ ~IsDormant(b.tstat)
         /\ ~InQueue([b EXCEPT !.tstat = {"RUNNABLE"}])
         /\ ~InQueue([b EXCEPT !.tstat = {"SUSPENDED"}])
         /\ SameWait(b, b)
         /\ \A f : /\ SameWait(b, [b EXCEPT !.actque = f])
                   /\ SameWait(b, [b EXCEPT !.wupque = f])
                   /\ SameWait(b, [b EXCEPT !.raster = f])
                   /\ SameWait(b, [b EXCEPT !.enater = f])
                   /\ SameWait(b, [b EXCEPT !.bpri = f])
         /\ SameWait(b, [b EXCEPT !.tstat = @ \union {"SUSPENDED"}])
         /\ SameWait(b, [b EXCEPT !.tstat = @ \ {"SUSPENDED"}])
<1>1. InQueue(b) => IsWaiting(b.tstat)
  BY DEF InQueue, IsWaiting, WaitFlag
<1> QED
  BY <1>1, StateFacts DEF InQueue, SameWait, TCB

\* Calls that set one field of the control block of a task.
LEMMA FieldWaits ==
  ASSUME IInv, NEW t \in Task, NEW f,
         \/ Return([K EXCEPT !.tcb[t].actque = f])
         \/ Return([K EXCEPT !.tcb[t].wupque = f])
         \/ Return([K EXCEPT !.tcb[t].raster = f])
         \/ Return([K EXCEPT !.tcb[t].enater = f])
  PROVE  WaitStep
<1>1. tcb[t] \in TCB
  BY WaitFields DEF IInv, WellTyped, KState
<1>2. \A c : TcbSet(K, t, c) = [K EXCEPT !.tcb[t] = c]
  BY DEF TcbSet
<1>3. PICK c : SameWait(tcb[t], c) /\ Return(TcbSet(K, t, c))
  <2>1. CASE Return([K EXCEPT !.tcb[t].actque = f])
    <3>1. Return(TcbSet(K, t, [tcb[t] EXCEPT !.actque = f]))
      BY <2>1, WaitFields DEF TcbSet
    <3> QED
      BY <1>1, <3>1, StateWaits
  <2>2. CASE Return([K EXCEPT !.tcb[t].wupque = f])
    <3>1. Return(TcbSet(K, t, [tcb[t] EXCEPT !.wupque = f]))
      BY <2>2, WaitFields DEF TcbSet
    <3> QED
      BY <1>1, <3>1, StateWaits
  <2>3. CASE Return([K EXCEPT !.tcb[t].raster = f])
    <3>1. Return(TcbSet(K, t, [tcb[t] EXCEPT !.raster = f]))
      BY <2>3, WaitFields DEF TcbSet
    <3> QED
      BY <1>1, <3>1, StateWaits
  <2>4. CASE Return([K EXCEPT !.tcb[t].enater = f])
    <3>1. Return(TcbSet(K, t, [tcb[t] EXCEPT !.enater = f]))
      BY <2>4, WaitFields DEF TcbSet
    <3> QED
      BY <1>1, <3>1, StateWaits
  <2> QED
    BY <2>1, <2>2, <2>3, <2>4
<1> QED
  BY <1>3, CallWaits

\* Calls that make a task runnable that does not wait.
LEMMA ActivateWaits ==
  ASSUME IInv, NEW t \in Task, ~InQueue(tcb[t]),
         \/ Return(MakeActive(K, t))
         \/ Return(MakeRunnable([K EXCEPT !.tcb[t].tstat = {"RUNNABLE"}], t))
         \/ Return(MakeNonRunnable([K EXCEPT !.tcb[t].tstat = {"SUSPENDED"}], t))
  PROVE  WaitStep
<1>1. tcb[t] \in TCB /\ K.tcb = tcb
  BY WaitFields DEF IInv, WellTyped, KState
<1> DEFINE b == [tcb[t] EXCEPT !.tstat = {"RUNNABLE"}]
           c == [tcb[t] EXCEPT !.tstat = {"SUSPENDED"}]
<1>2. /\ [K EXCEPT !.tcb[t].tstat = {"RUNNABLE"}] = TcbSet(K, t, b)
      /\ [K EXCEPT !.tcb[t].tstat = {"SUSPENDED"}] = TcbSet(K, t, c)
  BY <1>1 DEF TcbSet
<1>3. SameWait(tcb[t], b) /\ SameWait(tcb[t], c)
  BY <1>1, StateWaits DEF SameWait
<1> HIDE DEF b, c
<1>4. \/ Return(MakeRunnable(TcbSet(K, t, b), t))
      \/ Return(MakeNonRunnable(TcbSet(K, t, c), t))
  BY <1>2 DEF MakeActive
<1> QED
  BY <1>3, <1>4, CallWaits

\* The running task starts to wait for no object.
LEMMA WaitWaits ==
  ASSUME IInv, SInv, runtsk # NULL, NEW flag \in {"SLP", "DLY"}, NEW timed \in BOOLEAN,
         Return(MakeWaitTmout(K, flag, timed))
  PROVE  WaitStep
<1> DEFINE t == runtsk
           s == MakeWaitTmout(K, flag, timed)
           b == Waiting(tcb[t], flag)
<1>1. t \in Task /\ flag \in WaitFlag
  BY RunningTask DEF WaitFlag
<1>2. /\ Agree(K, Place(K)) /\ K.tcb = tcb /\ K.runtsk = t
      /\ tcb[t] \in TCB /\ IsRunnable(tcb[t].tstat)
  BY <1>1, TaskBefore
<1>3. \E T : Effect(K, s, t, b, T, K.wque)
  BY <1>1, <1>2, MakeWaitTmoutEffect
<1>4. s.tcb = [tcb EXCEPT ![t] = b]
  BY <1>2, <1>3 DEF Effect
<1>5. HasWaits(s) /\ s.wque = wque
  BY WaitFields, StateFrame DEF KeepsWque
<1>6. SameWait(tcb[t], b)
  <2>1. ~InQueue(tcb[t])
    BY <1>2, StateWaits
  <2>2. ~InQueue(b)
    BY <1>2 DEF Waiting, InQueue, TCB
  <2> QED
    BY <2>1, <2>2 DEF SameWait
<1> HIDE DEF s, b
<1> QED
  BY <1>1, <1>4, <1>5, <1>6, FlagWaits DEF s

\* One task is taken out of its queue by an operation that ends its wait.
LEMMA LeaveWaits ==
  ASSUME IInv, NEW t \in Task, NEW b, NEW s, HasWaits(s), s.wque = Dequeued(K, t),
         s.tcb = [tcb EXCEPT ![t] = b], ~InQueue(b),
         Return(s) \/ Becomes(Dispatch(s))
  PROVE  WaitStep
<1>1. tcb' = [tcb EXCEPT ![t] = b] /\ wque' = Dequeued(K, t)
  BY ReturnWaits
<1>2. tcb \in [Task -> TCB]
  BY WaitFields DEF IInv, WellTyped, KState
<1>3. tcb'[t] = b /\ \A v \in Task \ {t} : tcb'[v] = tcb[v]
  BY <1>1, <1>2
<1> QED
  BY <1>1, <1>3, OneLeaves

\* Waits end in these states.
LEMMA EndedWaits ==
  ASSUME NEW b \in TCB, NEW t \in Task
  PROVE  ~InQueue(Released(Unbound(b))) /\ ~InQueue(Terminated(Unbound(b), t))
<1>1. ~InQueue(Released(Unbound(b)))
  BY DEF InQueue, Released, Unbound, TCB
<1>2. ~InQueue(Terminated(Unbound(b), t))
  BY DEF InQueue, Terminated, Restarted, Dormant, Unbound, TCB
<1> QED
  BY <1>1, <1>2

\* A wait is released, by rel_wai or by its time event, or the task ends.
LEMMA ReleaseWaits ==
  ASSUME IInv, SInv, NEW t \in Task
  PROVE  /\ Return(TaskTerminate(K, t)) => WaitStep
         /\ IsWaiting(tcb[t].tstat) /\ Return(WaitTmout(K, t)) => WaitStep
         /\ /\ IsWaiting(tcb[t].tstat)
            /\ Return(MakeNonWait(WaitDequeueTmevtb(WaitDequeueWObj(K, t), t), t))
            => WaitStep
<1> DEFINE d == MakeNonWait(WaitDequeueTmevtb(WaitDequeueWObj(K, t), t), t)
           e == WaitTmout(K, t)
           x == TaskTerminate(K, t)
           b == Released(Unbound(tcb[t]))
           c == Terminated(Unbound(tcb[t]), t)
<1>1. tcb[t] \in TCB /\ K.tcb = tcb
  BY WaitFields DEF IInv, WellTyped, KState
<1>2. InQueue(tcb[t]) => ~IsRunnable(tcb[t].tstat)
  BY <1>1, StateWaits
<1>3. /\ HasWaits(K)
      /\ d.wque = Dequeued(K, t) /\ e.wque = Dequeued(K, t) /\ x.wque = Dequeued(K, t)
  BY <1>1, <1>2, WaitFields, DequeueFrame
<1>4. \E T, W : Effect(K, x, t, c, T, W)
  BY TerminateOperation DEF Operation
<1>5. IsWaiting(tcb[t].tstat) => /\ \E T, W : Effect(K, e, t, b, T, W)
                                 /\ \E T, W : Effect(K, d, t, b, T, W)
  BY ReleaseOperation DEF Operation
<1>6. ~InQueue(b) /\ ~InQueue(c)
  BY <1>1, EndedWaits
<1> HIDE DEF b, c, d, e, x
<1>7. \A s, o, T, W : Effect(K, s, t, o, T, W) => HasWaits(s) /\ s.tcb = [tcb EXCEPT ![t] = o]
  <2> SUFFICES ASSUME NEW s, NEW o, NEW T, NEW W, Effect(K, s, t, o, T, W)
               PROVE  HasWaits(s) /\ s.tcb = [tcb EXCEPT ![t] = o]
    OBVIOUS
  <2>1. s \in KState
    BY DEF Effect, Sound, WellTyped
  <2> QED
    BY <1>1, <2>1 DEF Effect, KState, HasWaits
<1>8. ASSUME Return(x) PROVE WaitStep
  BY <1>3, <1>4, <1>6, <1>7, <1>8, LeaveWaits
<1>9. ASSUME IsWaiting(tcb[t].tstat), Return(e) PROVE WaitStep
  BY <1>3, <1>5, <1>6, <1>7, <1>9, LeaveWaits
<1>10. ASSUME IsWaiting(tcb[t].tstat), Return(d) PROVE WaitStep
  BY <1>3, <1>5, <1>6, <1>7, <1>10, LeaveWaits
<1> QED
  BY <1>8, <1>9, <1>10 DEF d, e, x

\* The running task ends; it is in no wait queue.
LEMMA TerminateSelfWaits ==
  ASSUME IInv, SInv, runtsk # NULL, NEW s, Agree(s, Place(s)), s.runtsk = runtsk,
         s.tcb = tcb, s.tmevt = tmevt, s.wque = wque, TerminateSelf(s)
  PROVE  WaitStep
<1> DEFINE t == runtsk
           x == TaskTerminate(s, t)
           c == Terminated(Unbound(tcb[t]), t)
<1>1. t \in Task
  BY RunningTask
<1>2. /\ tcb[t] \in TCB /\ TcbOK(t, tcb[t], t \in tmevt) /\ IsRunnable(tcb[t].tstat)
  BY <1>1, TaskBefore
<1>3. ~InQueue(tcb[t])
  BY <1>2, StateWaits
<1>4. s \in KState
  BY DEF Agree, WellTyped
<1>5. HasWaits(s)
  BY <1>4 DEF KState, HasWaits
<1>6. \E W : Effect(s, x, t, c, s.tmevt \ {t}, W)
  BY <1>1, <1>2, TerminateEffect DEF TcbOK
<1>7. x \in KState /\ x.tcb = [tcb EXCEPT ![t] = c]
  BY <1>6 DEF Effect, Sound, WellTyped
<1>8. HasWaits(x)
  BY <1>7 DEF KState, HasWaits
<1>9. x.wque = Dequeued(K, t)
  <2>1. x.wque = Dequeued(s, t)
    BY <1>2, <1>3, <1>5, DequeueFrame
  <2> QED
    BY <2>1, WaitFields DEF Dequeued
<1>10. ~InQueue(c)
  BY <1>1, <1>2, EndedWaits
<1>11. Becomes(Dispatch(x))
  BY DEF TerminateSelf
<1> HIDE DEF x, c
<1> QED
  BY <1>1, <1>7, <1>8, <1>9, <1>10, <1>11, LeaveWaits

\* A blocked task that is requested to end leaves its queue.
LEMMA RasTerWaits ==
  ASSUME IInv, NEW t \in Task, ~IsRunnable(tcb[t].tstat), Return(RasTerWaiting(t))
  PROVE  WaitStep
<1> DEFINE d == WaitDequeueTmevtb(WaitDequeueWObj(K, t), t)
           s == IF IsWaiting(tcb[t].tstat) THEN d ELSE K
           m == [s.tcb EXCEPT ![t].raster = TRUE, ![t].tstat = {"RUNNABLE"}]
           z == [s EXCEPT !.tcb[t].raster = TRUE, !.tcb[t].tstat = {"RUNNABLE"}]
<1>1. tcb[t] \in TCB /\ tcb \in [Task -> TCB] /\ WellTyped(K) /\ HasWaits(K) /\ K.tcb = tcb
  BY WaitFields DEF IInv, WellTyped, KState
<1>2. HasWaits(d) /\ d.wque = Dequeued(K, t)
  BY <1>1, DequeueFrame
<1>3. WaitDequeueWObj(K, t).tcb \in [Task -> TCB]
      /\ \A v \in Task \ {t} : WaitDequeueWObj(K, t).tcb[v] = tcb[v]
  BY <1>1, KernelAssumption DEF WaitDequeueWObj, HasWaits, TCB
<1>4. d.tcb = WaitDequeueWObj(K, t).tcb
  BY <1>1 DEF WaitDequeueTmevtb, WaitDequeueWObj, HasWaits
<1>5. /\ HasWaits(s) /\ s.wque = Dequeued(K, t) /\ s.tcb \in [Task -> TCB]
      /\ \A v \in Task \ {t} : s.tcb[v] = tcb[v]
  <2>1. CASE IsWaiting(tcb[t].tstat)
    BY <1>2, <1>3, <1>4, <2>1
  <2>2. CASE ~IsWaiting(tcb[t].tstat)
    BY <1>1, <2>2, WaitFields, StateWaits DEF Dequeued
  <2> QED
    BY <2>1, <2>2
<1>6. Return(MakeRunnable(z, t))
  BY DEF RasTerWaiting
<1> HIDE DEF d, s
<1>7. HasWaits(z) /\ z.wque = s.wque /\ z.tcb = m
  BY <1>5 DEF HasWaits
<1>8. ~InQueue(m[t]) /\ \A v \in Task \ {t} : m[v] = tcb[v]
  BY <1>5 DEF InQueue, TCB
<1> HIDE DEF z, m
<1>9. HasWaits(MakeRunnable(z, t)) /\ MakeRunnable(z, t).tcb = m
      /\ MakeRunnable(z, t).wque = Dequeued(K, t)
  BY <1>5, <1>7, SchedulingFrame DEF SameWaits
<1>10. tcb' = m /\ wque' = Dequeued(K, t)
  BY <1>6, <1>9, ReturnWaits
<1> QED
  BY <1>8, <1>10, OneLeaves

\* A change of priority moves a waiting task inside its queue.
LEMMA PriorityWaits ==
  ASSUME IInv, SInv, NEW t \in Task, NEW p \in Pri, chg_pri(t, p)
  PROVE  WaitStep
<1> DEFINE b  == tcb[t]
           c  == [b EXCEPT !.bpri = p]
           d  == AtPri(c, p)
           s1 == TcbSet(K, t, c)
           s  == ChangePriority(s1, t, p, FALSE)
           w  == b.wobj
<1>1. Agree(K, Place(K)) /\ K.tcb = tcb /\ b \in TCB /\ tcb \in [Task -> TCB]
  BY TaskBefore, WaitFields DEF IInv, WellTyped, KState
<1>2. Return(s)
  BY <1>1 DEF chg_pri, TcbSet
<1>3. /\ c \in TCB /\ c.tstat = b.tstat /\ c.pri = b.pri /\ c.wobj = b.wobj
  BY <1>1 DEF TCB
<1>4. d.tstat = b.tstat /\ d.wobj = b.wobj
  BY <1>3 DEF TCB, AtPri
<1> HIDE DEF c
<1>5. Effect(K, s1, t, c, K.tmevt, K.wque)
  BY <1>1, <1>3, TcbEffect DEF PlaceOf
<1>6. HasWaits(s1) /\ s1.wque = wque
  BY TcbSetWaits
<1> HIDE DEF s1
<1>7. Agree(s1, Place(s1)) /\ s1.tcb[t] = c /\ s1.tcb = [tcb EXCEPT ![t] = c]
  BY <1>1, <1>5 DEF Effect, AgreeAfter
<1>8. PICK W : Effect(s1, s, t, d, s1.tmevt, W)
  BY <1>7, ChangePriorityEffect
<1>9. s \in KState /\ s.tcb = [tcb EXCEPT ![t] = d]
  BY <1>7, <1>8 DEF Effect, Sound, WellTyped
<1>10. HasWaits(s)
  BY <1>9 DEF KState, HasWaits
<1>11. s.wque = IF InQueue(b) /\ w \in TPriObj
                THEN [wque EXCEPT ![w] = InsertTPri(Without(@, t), t, s.tcb)]
                ELSE wque
  <2>1. InQueue(c) <=> InQueue(b)
    BY <1>3 DEF InQueue
  <2>2. InQueue(c) => ~IsRunnable(c.tstat)
    BY <1>3, StateWaits
  <2>3. s.wque = Reordered(s1, t, s.tcb)
    BY <1>6, <1>7, <2>2, PriorityFrame
  <2> HIDE DEF s
  <2> QED
    BY <1>3, <1>6, <1>7, <2>1, <2>3 DEF Reordered
<1> HIDE DEF s, d
<1>12. CASE InQueue(b) /\ w \in TPriObj
  <2>1. tcb' = s.tcb /\ wque' = s.wque
    BY <1>2, <1>10, ReturnWaits
  <2>2. tcb'[t] = d /\ \A v \in Task \ {t} : tcb'[v] = tcb[v]
    BY <1>1, <1>9, <2>1
  <2>3. OthersWait(K, K', t)
    BY <2>2, WaitFields DEF OthersWait, SameWait
  <2>4. MovesInQueue(K, K', t)
    BY <1>4, <1>11, <1>12, <2>1, <2>2, <2>3, WaitFields DEF MovesInQueue, InQueue
  <2> QED
    BY <2>4 DEF WaitStep
<1>13. CASE ~(InQueue(b) /\ w \in TPriObj)
  <2>1. SameWait(b, d)
    BY <1>4, <1>13 DEF SameWait, InQueue
  <2> QED
    BY <1>2, <1>9, <1>10, <1>11, <1>13, <2>1, FlagWaits
<1> QED
  BY <1>12, <1>13

\* Every call of the core takes at most one task out of a wait queue, or moves
\* it there.
LEMMA NextWaits ==
  ASSUME IInv, SInv, [Next]_vars
  PROVE  WaitStep
<1>1. \A t \in Task : tcb[t] \in TCB /\ K.tcb = tcb
  BY WaitFields DEF IInv, WellTyped, KState
<1>2. ASSUME tcb' = tcb, wque' = wque PROVE WaitStep
  <2>1. Main \in Task /\ SameWait(tcb[Main], tcb'[Main])
    BY <1>1, <1>2, TaskAssumption, StateWaits
  <2> QED
    BY <1>2, <2>1, OneKeeps
<1>3. CASE UNCHANGED kvars
  BY <1>2, <1>3 DEF kvars
<1>4. runtsk # NULL => runtsk \in Task
  BY RunningTask
<1>5. ASSUME NEW s, (s = K /\ dspflg /\ ~intnest) \/ s = SetDspflg(K),
             TerminateSelf(s), runtsk # NULL
      PROVE  WaitStep
  <2>1. Agree(s, Place(s)) /\ s.runtsk = runtsk /\ s.tcb = tcb /\ s.tmevt = tmevt
    BY <1>5, SetDspflgExact
  <2>2. HasWaits([K EXCEPT !.dspflg = TRUE]) /\ [K EXCEPT !.dspflg = TRUE].wque = wque
    BY DEF K, HasWaits
  <2>3. s.wque = wque
    BY <1>5, <2>2, WaitFields, SchedulingFrame DEF SetDspflg, SameWaits
  <2> QED
    BY <1>5, <2>1, <2>3, TerminateSelfWaits
<1>6. ASSUME NEW t \in Task, PlainTaskCall(t) PROVE WaitStep
  <2>1. CASE act_tsk(t) \/ can_act(t) \/ can_wup(t)
    <3>1. IsDormant(tcb[t].tstat) => ~InQueue(tcb[t])
      BY <1>1, StateWaits
    <3> QED
      BY <2>1, <3>1, FieldWaits, ActivateWaits DEF act_tsk, can_act, can_wup
  <2>2. CASE wup_tsk(t)
    <3>1. CASE Return([K EXCEPT !.tcb[t].wupque = TRUE])
      BY <3>1, FieldWaits
    <3>2. CASE "SLP" \in tcb[t].tstat /\ Return(WaitComplete(K, t))
      <4> DEFINE s == WaitComplete(K, t)
                 b == Released(Unbound(tcb[t]))
      <4>1. IsWaiting(tcb[t].tstat) /\ ~InQueue(tcb[t])
        BY <1>1, <3>2 DEF IsWaiting, WaitFlag, InQueue, TCB, TStat
      <4>2. \E T, W : Effect(K, s, t, b, T, W)
        BY <4>1, ReleaseOperation DEF Operation
      <4>3. HasWaits(s) /\ s.wque = wque
        BY WaitFields, StateFrame DEF KeepsWque
      <4>4. s.tcb = [tcb EXCEPT ![t] = b]
        BY <1>1, <4>2 DEF Effect
      <4>5. ~InQueue(b)
        BY <1>1, EndedWaits
      <4> HIDE DEF b, s
      <4>6. SameWait(tcb[t], b)
        BY <4>1, <4>5 DEF SameWait
      <4> QED
        BY <3>2, <4>3, <4>4, <4>6, FlagWaits DEF s
    <3> QED
      BY <2>2, <3>1, <3>2 DEF wup_tsk
  <2>3. ASSUME NEW f, SameWait(tcb[t], [tcb[t] EXCEPT !.tstat = f]),
               Return([K EXCEPT !.tcb[t].tstat = f])
        PROVE  WaitStep
    <3>1. Return(TcbSet(K, t, [tcb[t] EXCEPT !.tstat = f]))
      BY <1>1, <2>3 DEF TcbSet
    <3> QED
      BY <2>3, <3>1, CallWaits
  <2>4. CASE sus_tsk(t)
    <3>1. CASE IsRunnable(tcb[t].tstat)
      <4>1. ~InQueue(tcb[t])
        BY <1>1, <3>1, StateWaits
      <4> QED
        BY <2>4, <3>1, <4>1, ActivateWaits DEF sus_tsk
    <3>2. CASE ~IsRunnable(tcb[t].tstat)
      <4>1. Return([K EXCEPT !.tcb[t].tstat = tcb[t].tstat \union {"SUSPENDED"}])
        BY <1>1, <2>4, <3>2 DEF sus_tsk
      <4> QED
        BY <1>1, <2>3, <4>1, StateWaits
    <3> QED
      BY <3>1, <3>2
  <2>5. CASE rsm_tsk(t)
    <3>1. CASE ~IsWaiting(tcb[t].tstat)
      <4>1. ~InQueue(tcb[t])
        BY <1>1, <3>1, StateWaits
      <4> QED
        BY <2>5, <3>1, <4>1, ActivateWaits DEF rsm_tsk
    <3>2. CASE IsWaiting(tcb[t].tstat)
      <4>1. Return([K EXCEPT !.tcb[t].tstat = tcb[t].tstat \ {"SUSPENDED"}])
        BY <1>1, <2>5, <3>2 DEF rsm_tsk
      <4> QED
        BY <1>1, <2>3, <4>1, StateWaits
    <3> QED
      BY <3>1, <3>2
  <2> QED
    BY <1>6, <2>1, <2>2, <2>4, <2>5 DEF PlainTaskCall
<1>7. CASE PlainCall
  <2>1. CASE \E t \in Task : PlainTaskCall(t)
    BY <1>6, <2>1
  <2>2. CASE dis_ter
    BY <1>4, <2>2, FieldWaits DEF dis_ter, TskCtxUnl
  <2>3. CASE dly_tsk \/ \E timed \in BOOLEAN : slp_tsk(timed)
    BY <1>4, <2>3, FieldWaits, WaitWaits DEF dly_tsk, slp_tsk, CheckDispatch, TskCtxUnl
  <2>4. CASE \E p \in Pri, u \in Unit : rot_rdq(p, u)
    <3>1. PICK p \in Pri, u \in Unit : Return(RotateReadyQueue(K, p, u))
      BY <2>4 DEF rot_rdq
    <3>2. SameWaits(K, RotateReadyQueue(K, p, u))
      BY WaitFields, SchedulingFrame
    <3> QED
      BY <1>2, <3>1, <3>2, WaitFields, ReturnWaits DEF SameWaits
  <2>5. CASE loc_cpu \/ unl_cpu \/ IntEnter
    BY <1>3, <2>5 DEF loc_cpu, unl_cpu, IntEnter
  <2>6. CASE dis_dsp
    BY <1>2, <2>6 DEF dis_dsp, Becomes, K
  <2>7. CASE IntExit
    BY <1>2, <2>7, WaitFields, ReturnWaits DEF IntExit
  <2> QED
    BY <1>7, <2>1, <2>2, <2>3, <2>4, <2>5, <2>6, <2>7 DEF PlainCall
<1>8. ASSUME NEW t \in Task, TaskCall(t) PROVE WaitStep
  <2>1. CASE \E p \in Pri : chg_pri(t, p)
    BY <2>1, PriorityWaits
  <2>2. CASE ter_tsk(t) \/ rel_wai(t)
    BY <2>2, ReleaseWaits DEF ter_tsk, rel_wai
  <2>3. CASE TimerExpires(t)
    <3>1. IsWaiting(tcb[t].tstat)
      BY <2>3, TaskBefore DEF TimerExpires, TcbOK
    <3> QED
      BY <2>3, <3>1, ReleaseWaits DEF TimerExpires
  <2>4. CASE ras_ter(t)
    <3>1. CASE Return(TaskTerminate(K, t))
      BY <3>1, ReleaseWaits
    <3>2. CASE Return([K EXCEPT !.tcb[t].raster = TRUE])
      BY <3>2, FieldWaits
    <3>3. CASE ~IsRunnable(tcb[t].tstat) /\ Return(RasTerWaiting(t))
      BY <3>3, RasTerWaits
    <3> QED
      BY <2>4, <3>1, <3>2, <3>3 DEF ras_ter, RequestTermination
  <2> QED
    BY <1>8, <2>1, <2>2, <2>3, <2>4 DEF TaskCall
<1>9. ASSUME EnableDispatch, TskCtxUnl PROVE WaitStep
  <2>1. CASE TerminateSelf(SetDspflg(K))
    BY <1>5, <1>9, <2>1 DEF TskCtxUnl
  <2>2. CASE Becomes(DispatchIfNeeded(SetDspflg(K)))
    <3>1. HasWaits([K EXCEPT !.dspflg = TRUE]) /\ [K EXCEPT !.dspflg = TRUE].wque = wque
          /\ [K EXCEPT !.dspflg = TRUE].tcb = tcb
      BY DEF K, HasWaits
    <3>2. LET s == SetDspflg(K) IN HasWaits(s) /\ s.wque = wque /\ s.tcb = tcb
      BY <3>1, SchedulingFrame DEF SetDspflg, SameWaits
    <3> QED
      BY <1>2, <2>2, <3>2, ReturnWaits
  <2> QED
    BY <1>9, <2>1, <2>2 DEF EnableDispatch
<1>10. CASE SystemCall
  <2>1. CASE ext_tsk
    <3>1. CASE dspflg
      BY <1>5, <2>1, <3>1 DEF ext_tsk
    <3>2. CASE ~dspflg
      <4>1. TerminateSelf(SetDspflg(K)) /\ runtsk # NULL /\ ~intnest
        BY <2>1, <3>2 DEF ext_tsk
      <4> QED
        BY <1>5, <4>1
    <3> QED
      BY <3>1, <3>2
  <2>2. CASE ena_ter
    <3>1. CASE TerminateSelf(K) /\ dspflg
      BY <1>5, <2>2, <3>1 DEF ena_ter, TskCtxUnl
    <3>2. CASE Return([K EXCEPT !.tcb[runtsk].enater = TRUE])
      BY <1>4, <2>2, <3>2, FieldWaits DEF ena_ter, TskCtxUnl
    <3> QED
      BY <2>2, <3>1, <3>2 DEF ena_ter
  <2>3. CASE ena_dsp
    BY <1>3, <1>9, <2>3 DEF ena_dsp
  <2>4. CASE \E mask \in BOOLEAN : chg_ipm(mask)
    <3>1. CASE Becomes([K EXCEPT !.dspflg = FALSE])
      BY <1>2, <3>1 DEF Becomes, K
    <3> QED
      BY <1>9, <2>4, <3>1 DEF chg_ipm
  <2> QED
    BY <1>10, <2>1, <2>2, <2>3, <2>4 DEF SystemCall
<1> QED
  BY <1>3, <1>7, <1>8, <1>10 DEF Next, vars

-----------------------------------------------------------------------------
(* The operations of the synchronisation objects on the wait queues, which    *)
(* compose: a call may release several tasks before it returns.              *)

\* The state s, which follows K by releases of waiting tasks.
Releases(s) ==
  /\ Sound(K, s) /\ Agree(s, Place(s)) /\ TasksOK(s) /\ WaitsExact(s)
  /\ SchedtskExact(K) => SchedtskExact(s)
  /\ \A v \in Task : /\ MustEnd(s.tcb[v]) => MustEnd(tcb[v])
                     /\ IsRunnable(tcb[v].tstat) => IsRunnable(s.tcb[v].tstat)

\* Nothing has been released yet.
LEMMA NoReleases ==
  ASSUME IInv, SInv, WaitsExact(K)
  PROVE  Releases(K)
BY DEF IInv, SInv, Releases, Sound, KeepsSched, K

\* A call that has released tasks returns.
LEMMA ReleasesReturn ==
  ASSUME IInv, SInv, NEW s, Releases(s), Return(s)
  PROVE  IInv' /\ SStep /\ WaitsExact(K') /\ wque' = s.wque
<1>1. Sound(K, s) /\ Agree(s, Place(s)) /\ TasksOK(s) /\ WaitsExact(s)
  BY DEF Releases
<1>2. IInv'
  BY <1>1, ReturnOK
<1>3. /\ WellTyped(s) /\ s.runtsk = runtsk /\ s.dspflg = dspflg
      /\ ~dspflg => s.schedtsk = schedtsk
  BY <1>1 DEF Sound, KeepsSched, K
<1>4. \A v \in Task : MustEnd(s.tcb[v]) => v = runtsk /\ ~dspflg
  BY WaitFields DEF Releases, SInv, RequestsOK, K
<1>5. runtsk # NULL => IsRunnable(s.tcb[runtsk].tstat)
  BY RunningTask DEF Releases, SInv, RunningOK, K
<1>6. SStep
  BY <1>1, <1>3, <1>4, <1>5, ReturnTasksExact DEF Releases
<1>7. tcb' = s.tcb /\ wque' = s.wque
  BY <1>3, ReturnWaits DEF WellTyped, KState, HasWaits
<1>8. KeepsWaits(s, K')
  BY <1>7, WaitFields DEF KeepsWaits, SameWait
<1> QED
  BY <1>1, <1>2, <1>6, <1>7, <1>8, KeepsWaitsExact

\* Taking off the first task of a queue.
LEMMA WithoutFirst ==
  ASSUME NEW S, NEW q \in Seq(S), NEW T, IsQueue(q, T), q # << >>
  PROVE  Without(q, Head(q)) = Tail(q)
<1>1. /\ DOMAIN q = 1..Len(q) /\ Len(q) \in Nat /\ Len(q) >= 1 /\ Head(q) = q[1]
      /\ Len(q) - 1 \in Nat
  OBVIOUS
<1> DEFINE n == Len(q) - 1
           r == Without(q, Head(q))
<1>2. Tail(q) \in Seq(S) /\ Len(Tail(q)) = n /\ \A i \in 1..n : Tail(q)[i] = q[i + 1]
  BY <1>1
<1>3. \A i \in 1..n : ~\A j \in 1..i : q[j] # Head(q)
  BY <1>1
<1>4. r \in [1..n -> S] /\ \A i \in 1..n : r[i] = q[i + 1]
  BY <1>1, <1>3 DEF Without
<1>5. Tail(q) \in [1..n -> S]
  <2>1. \A x \in Seq(S) : x \in [1..Len(x) -> S]
    OBVIOUS
  <2>2. Tail(q) \in [1..Len(Tail(q)) -> S]
    BY <1>2, <2>1
  <2> QED
    BY <1>2, <2>2
<1> HIDE DEF r
<1> QED
  BY <1>2, <1>4, <1>5 DEF r

\* A release changes no priority and makes no task dormant.
KeepsRank(b, c) ==
  /\ c.pri = b.pri /\ c.bpri = b.bpri /\ (c.wobj = b.wobj \/ c.wobj = NULL)
  /\ IsDormant(c.tstat) => IsDormant(b.tstat)

SameRanks(s, z) ==
  \A v \in Task : /\ KeepsRank(s.tcb[v], z.tcb[v])
                  /\ IsDormant(s.tcb[v].tstat) => IsDormant(z.tcb[v].tstat)

\* One release after another.
LEMMA SameRanksTrans ==
  ASSUME NEW s, NEW x, NEW z, SameRanks(s, x), SameRanks(x, z)
  PROVE  SameRanks(s, z)
<1> SUFFICES ASSUME NEW v \in Task
             PROVE  /\ KeepsRank(s.tcb[v], z.tcb[v])
                    /\ IsDormant(s.tcb[v].tstat) => IsDormant(z.tcb[v].tstat)
  BY DEF SameRanks
<1>1. /\ KeepsRank(s.tcb[v], x.tcb[v]) /\ KeepsRank(x.tcb[v], z.tcb[v])
      /\ IsDormant(s.tcb[v].tstat) => IsDormant(x.tcb[v].tstat)
      /\ IsDormant(x.tcb[v].tstat) => IsDormant(z.tcb[v].tstat)
  BY DEF SameRanks
<1> QED
  BY ONLY <1>1 DEF KeepsRank

\* The waiter t of w is released.
WaiterReleased(s, w, t) == WaitComplete([s EXCEPT !.wque[w] = Without(@, t)], t)

\* Whoever waits for w may be taken out of its queue and released.
LEMMA WaiterReleasedOK ==
  ASSUME NEW s, Releases(s), NEW w \in WObj, NEW t \in WaitersOf(s, w),
         NEW z, z = WaiterReleased(s, w, t)
  PROVE  /\ Releases(z) /\ LeavesQueue(s, z, t)
         /\ \A v \in Task \ {t} : z.tcb[v] = s.tcb[v]
         /\ ~IsWaiting(z.tcb[t].tstat) /\ SameRanks(s, z)
<1> DEFINE q == s.wque[w]
           b == s.tcb[t]
           c == Released(Unbound(b))
           y == [s EXCEPT !.wque[w] = Without(q, t)]
           m == [s.wque EXCEPT ![w] = Without(q, t)]
<1>1. /\ Agree(s, Place(s)) /\ TasksOK(s) /\ WaitsExact(s) /\ WellTyped(s) /\ Sound(K, s)
  BY DEF Releases, Agree
<1>2. q \in Seq(Task) /\ IsQueue(q, WaitersOf(s, w)) /\ s \in KState
  BY <1>1 DEF WellTyped, KState, WaitsExact
<1>3. t \in Task /\ t \in WaitersOf(s, w) /\ InQueue(b) /\ b.wobj = w /\ b \in TCB
  <2>1. t \in WaitersOf(s, w) /\ t \in Task
    BY DEF WaitersOf
  <2> QED
    BY <1>2, <2>1 DEF WaitersOf, KState
<1>4. ~IsRunnable(b.tstat) /\ IsWaiting(b.tstat)
  BY <1>3, StateWaits
<1>5. y.wque = m /\ y.tcb = s.tcb /\ y.tmevt = s.tmevt
  BY <1>2 DEF KState
<1>6. Effect(s, y, t, b, s.tmevt, m)
  <2>1. Sound(s, y)
    <3>1. Without(q, t) \in Seq(Task)
      BY <1>2, WithoutType
    <3> HIDE DEF q
    <3> QED
      BY <1>1, <3>1, WqueSound
  <2>2. y.ready = s.ready /\ y.primap = s.primap /\ y.predtsk = s.predtsk
        /\ y.schedtsk = s.schedtsk
    BY <1>2 DEF KState
  <2> HIDE DEF y, b
  <2>3. Effect(s, y, t, s.tcb[t], y.tmevt, y.wque)
    BY <1>1, <1>3, <1>5, <2>1, <2>2, OtherEffect
  <2> QED
    BY <1>5, <2>3 DEF b
<1> HIDE DEF y, m
<1>7. Effect(y, z, t, c, s.tmevt \ {t}, m)
  <2>1. Agree(y, Place(y))
    BY <1>6 DEF Effect, AgreeAfter
  <2>2. z = WaitComplete(y, t)
    BY DEF WaiterReleased, y
  <2> QED
    BY <1>3, <1>4, <1>5, <2>1, <2>2, WaitCompleteEffect
<1> HIDE DEF c
<1>8. Effect(s, z, t, c, s.tmevt \ {t}, m)
  BY <1>3, <1>6, <1>7, EffectTrans
<1>9. /\ z.tcb = [s.tcb EXCEPT ![t] = c] /\ z.tmevt = s.tmevt \ {t} /\ z.wque = m
      /\ Sound(s, z) /\ Agree(z, Place(z))
      /\ SchedtskExact(s) => SchedtskExact(z)
  BY <1>8 DEF Effect, AgreeAfter
<1>10. z.tcb[t] = c /\ \A v \in Task \ {t} : z.tcb[v] = s.tcb[v]
  BY <1>2, <1>3, <1>9 DEF KState
<1>11. TcbOK(t, b, t \in s.tmevt)
  BY <1>1, <1>3 DEF TasksOK
<1>12. c.raster = FALSE /\ c.wobj = NULL /\ c.tstat \in {{"SUSPENDED"}, {"RUNNABLE"}}
  BY <1>3, <1>4, <1>11 DEF c, TcbOK, TCB, Released, Unbound
<1>13. TcbOK(t, c, FALSE) /\ ~MustEnd(c) /\ ~InQueue(c)
  BY <1>12, FlagFacts DEF TcbOK, MustEnd, InQueue
<1>14. TasksOK(z)
  <2> SUFFICES ASSUME NEW v \in Task PROVE TcbOK(v, z.tcb[v], v \in z.tmevt)
    BY DEF TasksOK
  <2>1. CASE v = t
    BY <1>9, <1>10, <1>13, <2>1 DEF TcbOK
  <2>2. CASE v # t
    <3>1. TcbOK(v, s.tcb[v], v \in s.tmevt)
      BY <1>1 DEF TasksOK
    <3> QED
      BY <1>9, <1>10, <2>2, <3>1 DEF TcbOK
  <2> QED
    BY <2>1, <2>2
<1>15. LeavesQueue(s, z, t)
  <2>1. m = [s.wque EXCEPT ![w] = Without(@, t)]
    BY DEF m
  <2>2. OthersWait(s, z, t)
    BY <1>10 DEF OthersWait, SameWait
  <2> QED
    BY <1>3, <1>9, <1>10, <1>13, <2>1, <2>2 DEF LeavesQueue
<1>16. WaitsExact(z)
  BY <1>1, <1>3, <1>15, LeavesQueueExact
<1>17. Sound(K, z)
  BY <1>1, <1>9, SoundTrans
<1>18. ~IsRunnable(tcb[t].tstat)
  BY <1>3, <1>4 DEF Releases
<1>19. Releases(z)
  BY <1>9, <1>10, <1>13, <1>14, <1>16, <1>17, <1>18 DEF Releases
<1>20. ~IsWaiting(c.tstat) /\ ~IsDormant(c.tstat)
  BY <1>12, FlagFacts
<1>21. c.pri = b.pri /\ c.bpri = b.bpri
  BY <1>3 DEF c, TCB, Released, Unbound
<1>22. SameRanks(s, z)
  <2> SUFFICES ASSUME NEW v \in Task
               PROVE  /\ KeepsRank(s.tcb[v], z.tcb[v])
                      /\ IsDormant(s.tcb[v].tstat) => IsDormant(z.tcb[v].tstat)
    BY DEF SameRanks
  <2>1. KeepsRank(s.tcb[v], z.tcb[v])
    BY <1>10, <1>12, <1>20, <1>21 DEF KeepsRank
  <2>2. ~IsDormant(b.tstat)
    BY <1>3 DEF InQueue, IsDormant
  <2> QED
    BY <1>10, <2>1, <2>2
<1> QED
  BY <1>9, <1>10, <1>15, <1>19, <1>20, <1>22 DEF m

\* The first waiter of w is released.
FirstReleased(s, w, t) == WaitComplete([s EXCEPT !.wque[w] = Tail(@)], t)

\* The head of a queue is released.
LEMMA FirstReleasedOK ==
  ASSUME NEW s, Releases(s), NEW w \in WObj, s.wque[w] # << >>
  PROVE  LET t == Head(s.wque[w])
             z == FirstReleased(s, w, t)
         IN  /\ Releases(z) /\ t \in WaitersOf(s, w) /\ LeavesQueue(s, z, t)
             /\ z.wque = [s.wque EXCEPT ![w] = Tail(@)] /\ SameRanks(s, z)
<1> DEFINE q == s.wque[w]
           t == Head(q)
<1>1. q \in Seq(Task) /\ IsQueue(q, WaitersOf(s, w)) /\ s \in KState
  BY DEF Releases, Agree, WellTyped, KState, WaitsExact
<1>2. t \in WaitersOf(s, w) /\ Without(q, t) = Tail(q)
  BY <1>1, HeadInQueue, WithoutFirst
<1>3. FirstReleased(s, w, t) = WaiterReleased(s, w, t)
  BY <1>1, <1>2 DEF FirstReleased, WaiterReleased, KState
<1>4. [s.wque EXCEPT ![w] = Without(@, t)] = [s.wque EXCEPT ![w] = Tail(@)]
  BY <1>1, <1>2 DEF KState
<1> HIDE DEF t
<1>5. ASSUME NEW z, z = WaiterReleased(s, w, t)
      PROVE  Releases(z) /\ LeavesQueue(s, z, t) /\ SameRanks(s, z)
  BY <1>2, <1>5, WaiterReleasedOK
<1>6. s.tcb[t].wobj = w
  BY <1>2 DEF WaitersOf
<1>7. ASSUME NEW z, z = WaiterReleased(s, w, t)
      PROVE  z.wque = [s.wque EXCEPT ![w] = Tail(@)]
  BY <1>4, <1>5, <1>6, <1>7 DEF LeavesQueue
<1> QED
  BY <1>2, <1>3, <1>5, <1>7 DEF t

\* The states that init_wait_queue passes through, q being the queue before.
ReleasedUpTo(s, w, q, r, m) ==
  r = [n \in 0..m |-> IF n = 0 THEN s ELSE FirstReleased(r[n - 1], w, q[n])]

\* They exist.
LEMMA ReleasedExists ==
  ASSUME NEW s, NEW w, NEW q, NEW k \in Nat
  PROVE  \E r : ReleasedUpTo(s, w, q, r, k)
<1> DEFINE Bad == {m \in Nat : ~\E r : ReleasedUpTo(s, w, q, r, m)}
<1> SUFFICES ASSUME Bad # {} PROVE FALSE
  OBVIOUS
<1>1. PICK m \in Bad : \A n \in Bad : m <= n
  BY LeastNumber
<1>2. m # 0
  <2>1. ReleasedUpTo(s, w, q, [n \in 0..0 |-> s], 0)
    BY DEF ReleasedUpTo
  <2> QED
    BY <2>1
<1>3. m \in Nat /\ m - 1 \in Nat /\ m - 1 \notin Bad
  BY <1>1, <1>2
<1>4. PICK r : ReleasedUpTo(s, w, q, r, m - 1)
  BY <1>3
<1> DEFINE f == [n \in 0..m |-> IF n = m THEN FirstReleased(r[m - 1], w, q[m]) ELSE r[n]]
<1>5. \A n \in 0..(m - 1) : r[n] = IF n = 0 THEN s ELSE FirstReleased(r[n - 1], w, q[n])
  BY <1>4 DEF ReleasedUpTo
<1>6. \A n \in 0..m : f[n] = IF n = 0 THEN s ELSE FirstReleased(f[n - 1], w, q[n])
  <2> TAKE n \in 0..m
  <2>1. CASE n = 0
    BY <1>2, <1>3, <1>5, <2>1
  <2>2. CASE n = m
    <3>1. f[n - 1] = r[m - 1] /\ f[n] = FirstReleased(r[m - 1], w, q[m])
      BY <1>3, <2>2
    <3> QED
      BY <1>2, <2>2, <3>1
  <2>3. CASE n # 0 /\ n # m
    <3>1. n \in 0..(m - 1) /\ f[n] = r[n] /\ f[n - 1] = r[n - 1]
      BY <1>3, <2>3
    <3> QED
      BY <1>5, <2>3, <3>1
  <2> QED
    BY <2>1, <2>2, <2>3
<1>7. ReleasedUpTo(s, w, q, f, m)
  <2>1. f = [n \in 0..m |-> f[n]]
    OBVIOUS
  <2> HIDE DEF f
  <2> QED
    BY <1>6, <2>1 DEF ReleasedUpTo
<1> QED
  BY <1>1, <1>7

\* init_wait_queue releases all the waiters of w.
LEMMA AllReleasedOK ==
  ASSUME NEW s, Releases(s), NEW w \in WObj
  PROVE  LET z == InitWaitQueue(s, w)
         IN  Releases(z) /\ z.wque = [s.wque EXCEPT ![w] = << >>] /\ SameRanks(s, z)
<1> DEFINE q == s.wque[w]
           k == Len(q)
<1>1. PICK r : /\ InitWaitQueue(s, w) = r[k]
               /\ ReleasedUpTo(s, w, q, r, k)
  <2>1. q \in Seq(Task) /\ k \in Nat
    BY DEF Releases, Agree, WellTyped, KState
  <2> DEFINE r == CHOOSE f : f = [n \in 0..k |-> IF n = 0 THEN s
                        ELSE WaitComplete([f[n - 1] EXCEPT !.wque[w] = Tail(@)], q[n])]
  <2>2. InitWaitQueue(s, w) = r[k]
    BY DEF InitWaitQueue
  <2>3. \A f : ReleasedUpTo(s, w, q, f, k) <=>
                f = [n \in 0..k |-> IF n = 0 THEN s
                        ELSE WaitComplete([f[n - 1] EXCEPT !.wque[w] = Tail(@)], q[n])]
    BY DEF ReleasedUpTo, FirstReleased
  <2>4. ReleasedUpTo(s, w, q, r, k)
    BY <2>1, <2>3, ReleasedExists
  <2> QED
    BY <2>2, <2>4
<1>2. /\ s.wque \in [WObj -> Seq(Task)] /\ q \in Seq(Task) /\ k \in Nat
  BY DEF Releases, Agree, WellTyped, KState
<1>3. r[0] = s /\ \A n \in 1..k : r[n] = FirstReleased(r[n - 1], w, q[n])
  <2>1. \A n \in 0..k : r[n] = IF n = 0 THEN s ELSE FirstReleased(r[n - 1], w, q[n])
    BY <1>1 DEF ReleasedUpTo
  <2>2. 0 \in 0..k /\ \A n \in 1..k : n \in 0..k /\ n # 0
    BY <1>2
  <2> QED
    BY <2>1, <2>2
\* After n releases the queue has lost its first n tasks.
<1> DEFINE Left(n) ==
             LET y == r[n].wque
             IN  /\ Releases(r[n]) /\ y \in [WObj -> Seq(Task)] /\ SameRanks(s, r[n])
                 /\ \A x \in WObj \ {w} : y[x] = s.wque[x]
                 /\ Len(y[w]) = k - n /\ \A i \in 1..(k - n) : y[w][i] = q[n + i]
           Bad == {n \in 0..k : ~Left(n)}
<1>4. Left(0)
  BY <1>2, <1>3 DEF SameRanks, KeepsRank
<1>5. ASSUME NEW n \in 1..k, Left(n - 1) PROVE Left(n)
  <2> DEFINE x == r[n - 1]
             z == r[n]
             y == x.wque[w]
  <2>1. /\ n \in Nat /\ n - 1 \in Nat /\ n <= k /\ k - (n - 1) >= 1 /\ k - (n - 1) \in Nat
        /\ k - n \in Nat /\ k - n = k - (n - 1) - 1
    BY <1>2
  <2>2. /\ Releases(x) /\ x.wque \in [WObj -> Seq(Task)] /\ y \in Seq(Task) /\ SameRanks(s, x)
        /\ \A v \in WObj \ {w} : x.wque[v] = s.wque[v]
        /\ Len(y) = k - (n - 1) /\ \A i \in 1..(k - (n - 1)) : y[i] = q[(n - 1) + i]
    BY <1>5
  <2>3. y # << >> /\ Head(y) = q[n]
    <3>1. y # << >> /\ Head(y) = y[1] /\ 1 \in 1..(k - (n - 1))
      BY <2>1, <2>2
    <3>2. y[1] = q[(n - 1) + 1] /\ (n - 1) + 1 = n
      BY <2>1, <2>2, <3>1
    <3> QED
      BY <3>1, <3>2
  <2>4. z = FirstReleased(x, w, Head(y))
    BY <1>3, <2>3
  <2> HIDE DEF x, z, Left
  <2>5. Releases(z) /\ z.wque = [x.wque EXCEPT ![w] = Tail(y)] /\ SameRanks(x, z)
    BY <2>2, <2>3, <2>4, FirstReleasedOK
  <2>6. SameRanks(s, z)
    BY <2>2, <2>5, SameRanksTrans
  <2>7. /\ Tail(y) \in Seq(Task) /\ Len(Tail(y)) = k - n
        /\ \A i \in 1..(k - n) : Tail(y)[i] = y[i + 1]
    <3> HIDE DEF y
    <3> QED
      BY <2>1, <2>2, <2>3
  <2>8. \A i \in 1..(k - n) : y[i + 1] = q[n + i]
    <3> TAKE i \in 1..(k - n)
    <3>1. i + 1 \in 1..(k - (n - 1)) /\ (n - 1) + (i + 1) = n + i
      BY <2>1
    <3>2. y[i + 1] = q[(n - 1) + (i + 1)]
      BY <2>2, <3>1
    <3> QED
      BY <3>1, <3>2
  <2>9. z.wque[w] = Tail(y) /\ \A v \in WObj \ {w} : z.wque[v] = s.wque[v]
    BY <2>2, <2>5
  <2>10. z.wque \in [WObj -> Seq(Task)]
    BY <2>2, <2>5, <2>7
  <2>11. /\ Len(z.wque[w]) = k - n
         /\ \A i \in 1..(k - n) : z.wque[w][i] = q[n + i]
    BY <2>7, <2>8, <2>9
  <2> HIDE DEF y
  <2> QED
    BY <2>5, <2>9, <2>10, <2>11, <2>6 DEF Left, z
<1>6. Bad = {}
  <2> SUFFICES ASSUME Bad # {} PROVE FALSE
    OBVIOUS
  <2> HIDE DEF Left
  <2>1. PICK n \in Bad : \A m \in Bad : n <= m
    <3>1. Bad \in SUBSET Nat
      BY <1>2
    <3> HIDE DEF Bad
    <3> QED
      BY <3>1, LeastNumber
  <2>2. n \in 1..k /\ n - 1 \in 0..k /\ n - 1 \notin Bad
    BY <1>2, <1>4, <2>1
  <2> QED
    BY <1>5, <2>1, <2>2
<1>7. Left(k)
  <2> HIDE DEF Left
  <2> QED
    BY <1>2, <1>6
<1> DEFINE z == r[k]
<1>8. /\ Releases(z) /\ z.wque \in [WObj -> Seq(Task)] /\ z.wque[w] = << >> /\ SameRanks(s, z)
      /\ \A x \in WObj \ {w} : z.wque[x] = s.wque[x]
  BY <1>2, <1>7
<1> HIDE DEF z
<1>9. z.wque = [s.wque EXCEPT ![w] = << >>]
  BY <1>2, <1>8
<1> QED
  BY <1>1, <1>8, <1>9 DEF z

\* The TCB of a task that waits for w.
JoinedTcb(b, w) == [Waiting(b, "OBJ") EXCEPT !.wobj = w]

\* The running task starts to wait for the object of the queue w.
LEMMA JoinOK ==
  ASSUME IInv, SInv, WaitsExact(K), runtsk # NULL, ~intnest, dspflg, ~tcb[runtsk].raster,
         NEW w \in WObj, NEW timed \in BOOLEAN, Return(WObjMakeWait(K, w, timed))
  PROVE  /\ IInv' /\ SStep /\ WaitsExact(K') /\ JoinsQueue(K, K', runtsk, w)
         /\ tcb' = [tcb EXCEPT ![runtsk] = JoinedTcb(tcb[runtsk], w)]
<1> DEFINE t == runtsk
           b == Waiting(tcb[t], "OBJ")
           c == [b EXCEPT !.wobj = w]
           T == IF timed THEN tmevt \union {t} ELSE tmevt
           q == WObjInsert(wque[w], w, t, tcb)
           m == [wque EXCEPT ![w] = q]
           y == MakeWaitTmout(K, "OBJ", timed)
           x == [y EXCEPT !.wque[w] = q]
           z == TcbSet(x, t, c)
<1>1. t \in Task /\ "OBJ" \in WaitFlag
  BY RunningTask DEF WaitFlag
<1>2. /\ Agree(K, Place(K)) /\ WellTyped(K) /\ K.tcb = tcb /\ K.tmevt = tmevt
      /\ K.runtsk = t /\ tcb[t] \in TCB /\ TcbOK(t, tcb[t], t \in tmevt)
      /\ IsRunnable(tcb[t].tstat) /\ K.wque = wque
  BY <1>1, TaskBefore, WaitFields
<1>3. /\ b.tstat = {"OBJ"} /\ b.raster = FALSE /\ b.pri = tcb[t].pri
      /\ b \in TCB
  <2>1. {"OBJ"} \in TStat
    BY <1>1, StatesType
  <2>2. tcb[t].raster = FALSE
    BY <1>2 DEF TCB
  <2> QED
    BY <1>2, <2>1, <2>2 DEF TCB, Waiting
<1>4. /\ c.tstat = {"OBJ"} /\ c.raster = FALSE /\ c.wobj = w /\ c.pri = tcb[t].pri
      /\ c \in TCB
  BY <1>3 DEF TCB
<1>5. Effect(K, y, t, b, T, wque)
  <2>1. \A flag \in WaitFlag :
          Effect(K, MakeWaitTmout(K, flag, timed), t, Waiting(tcb[t], flag), T, wque)
    BY <1>1, <1>2, MakeWaitTmoutEffect
  <2> QED
    BY <1>1, <2>1
<1>6. Sound(K, y) /\ Agree(y, Place(y)) /\ y.tcb[t] = b /\ y.wque = wque /\ y.tmevt = T
      /\ y \in KState /\ WellTyped(y)
  <2> HIDE DEF y, b, T
  <2>1. Sound(K, y)
    BY <1>5 DEF Effect
  <2>2. Agree(y, Place(y)) /\ y.tcb[t] = b /\ y.wque = wque /\ y.tmevt = T
    BY <1>1, <1>2, <1>5, EffectFacts
  <2> QED
    BY <2>1, <2>2 DEF Agree, WellTyped
<1>7. wque \in [WObj -> Seq(Task)] /\ q \in Seq(Task)
  <2>1. wque \in [WObj -> Seq(Task)] /\ wque[w] \in Seq(Task)
    BY <1>2 DEF WellTyped, KState
  <2>2. InsertTPri(wque[w], t, tcb) \in Seq(Task) /\ Append(wque[w], t) \in Seq(Task)
    BY <1>1, <2>1, InsertTPriType
  <2> QED
    BY <2>1, <2>2 DEF WObjInsert
<1>8. WObjMakeWait(K, w, timed) = z
  <2>1. WObjMakeWait(K, w, timed) =
          [y EXCEPT !.wque[w] = WObjInsert(@, w, t, tcb), !.tcb[t].wobj = w]
    BY <1>2 DEF WObjMakeWait
  <2> HIDE DEF y
  <2>2. [y EXCEPT !.wque[w] = WObjInsert(@, w, t, tcb), !.tcb[t].wobj = w]
          = [x EXCEPT !.tcb[t].wobj = w]
    BY <1>6
  <2>3. x.tcb[t] = b
    BY <1>6 DEF KState
  <2> HIDE DEF x, b
  <2>4. [x EXCEPT !.tcb[t].wobj = w] = z
    BY <2>3 DEF TcbSet
  <2> QED
    BY <2>1, <2>2, <2>4
<1> HIDE DEF q, y, b
<1>9. Effect(y, x, t, b, T, m)
  <2>1. Sound(y, x)
    BY <1>6, <1>7, WqueSound
  <2>2. /\ x.tcb = y.tcb /\ x.ready = y.ready /\ x.primap = y.primap
        /\ x.predtsk = y.predtsk /\ x.schedtsk = y.schedtsk /\ x.tmevt = T /\ x.wque = m
    BY <1>6 DEF KState
  <2> HIDE DEF x, m, T
  <2>3. Effect(y, x, t, y.tcb[t], x.tmevt, x.wque)
    BY <1>1, <1>6, <2>1, <2>2, OtherEffect
  <2> QED
    BY <1>6, <2>2, <2>3
<1> HIDE DEF x, c, m
<1>10. Agree(x, Place(x)) /\ x.tcb[t] = b /\ x.tmevt = T /\ x.wque = m
  <2> HIDE DEF T
  <2>1. y.tcb \in [Task -> TCB]
    BY <1>6 DEF KState
  <2> QED
    BY <1>1, <1>9, <2>1 DEF Effect, AgreeAfter
<1>11. Effect(x, z, t, c, T, m)
  BY <1>1, <1>3, <1>4, <1>10, TcbEffect DEF PlaceOf
<1> HIDE DEF z
<1>12. Effect(K, z, t, c, T, m)
  <2>1. Effect(K, x, t, b, T, m)
    BY <1>1, <1>5, <1>9, EffectTrans
  <2> QED
    BY <1>1, <1>11, <2>1, EffectTrans
<1>13. TcbOK(t, c, t \in T) /\ ~MustEnd(c)
  BY <1>4 DEF TcbOK, MustEnd, IsDormant, IsWaiting, WaitFlag
<1>14. Operation(z, t, c, T)
  BY <1>12, <1>13 DEF Operation
<1>15. Return(z)
  BY <1>8
<1>16. SStep
  BY <1>1, <1>13, <1>14, <1>15, ReturnExact
<1>17. /\ Sound(K, z) /\ z.tcb = [tcb EXCEPT ![t] = c] /\ z.wque = m
  BY <1>2, <1>12 DEF Effect
<1>18. IInv'
  BY <1>15, <1>17, ReturnOK
<1>19. tcb' = z.tcb /\ wque' = z.wque
  BY <1>15, <1>17, ReturnWaits DEF Sound, WellTyped, KState, HasWaits
<1>20. tcb'[t] = c /\ \A v \in Task \ {t} : tcb'[v] = tcb[v]
  BY <1>1, <1>2, <1>17, <1>19 DEF WellTyped, KState
<1>21. JoinsQueue(K, K', t, w)
  <2>1. OthersWait(K, K', t)
    BY <1>20, WaitFields DEF OthersWait, SameWait
  <2>2. ~InQueue(tcb[t]) /\ InQueue(c)
    BY <1>2, <1>4, StateWaits DEF InQueue
  <2>3. wque' = [wque EXCEPT ![w] = WObjInsert(@, w, t, tcb)]
    BY <1>17, <1>19 DEF m, q
  <2> QED
    BY <1>4, <1>20, <2>1, <2>2, <2>3, WaitFields DEF JoinsQueue
<1>22. WaitsExact(K')
  BY <1>1, <1>2, <1>21, JoinsQueueExact
<1>23. tcb' = [tcb EXCEPT ![t] = JoinedTcb(tcb[t], w)]
  BY <1>17, <1>19 DEF JoinedTcb, c, b
<1> QED
  BY <1>16, <1>18, <1>21, <1>22, <1>23

-----------------------------------------------------------------------------
(* The precedence of tasks in the ready queues.  An internal operation moves  *)
(* at most one task behind others, the one it is called for.                  *)

\* Nobody comes in front of another task who was not, except in front of t.
OnlyBehind(r, r2, t) ==
  /\ r2 \in [Unit -> [Pri -> Seq(Task)]]
  /\ \A v, x \in Task : Before(r2, v, x) => Before(r, v, x) \/ x = t

\* Nobody comes in front of another task who was not.
NobodyBehind(r, r2) ==
  /\ r2 \in [Unit -> [Pri -> Seq(Task)]]
  /\ \A v, x \in Task : Before(r2, v, x) => Before(r, v, x)

PutLast(r, u, p, t) == [r EXCEPT ![u][p] = Append(@, t)]
TakeOut(r, u, p, t) == [r EXCEPT ![u][p] = Without(@, t)]

\* The queues of which one is replaced.
SetQueue(r, u, p, q) == [r EXCEPT ![u][p] = q]

\* Queues of which one is replaced differ in that one only.
LEMMA OneQueue ==
  ASSUME NEW r \in [Unit -> [Pri -> Seq(Task)]], NEW u, NEW p, NEW q, NEW r2,
         r2 = SetQueue(r, u, p, q), u \in Unit /\ p \in Pri => q \in Seq(Task)
  PROVE  /\ r2 \in [Unit -> [Pri -> Seq(Task)]]
         /\ \A a \in Unit, b \in Pri : r2[a][b] = IF a = u /\ b = p THEN q ELSE r[a][b]
<1>1. r2 = [a \in Unit |-> IF a = u THEN [r[a] EXCEPT ![p] = q] ELSE r[a]]
  BY DEF SetQueue
<1>2. \A a \in Unit : [r[a] EXCEPT ![p] = q] = [b \in Pri |-> IF b = p THEN q ELSE r[a][b]]
  OBVIOUS
<1>3. \A a \in Unit, b \in Pri : r2[a][b] = IF a = u /\ b = p THEN q ELSE r[a][b]
  BY <1>1, <1>2
<1>4. \A a \in Unit, b \in Pri : r2[a][b] \in Seq(Task)
  BY <1>3
<1>5. \A a \in Unit : r2[a] \in [Pri -> Seq(Task)]
  BY <1>1, <1>2, <1>4
<1> QED
  BY <1>1, <1>3, <1>5

\* Who is put last in a queue falls behind, and nobody else.
LEMMA LastIsBehind ==
  ASSUME NEW r \in [Unit -> [Pri -> Seq(Task)]], NEW u, NEW p, NEW t \in Task
  PROVE  OnlyBehind(r, PutLast(r, u, p, t), t)
<1> DEFINE y == Append(r[u][p], t)
           r2 == PutLast(r, u, p, t)
<1>1. r2 = SetQueue(r, u, p, y)
  BY DEF PutLast, SetQueue
<1>2. u \in Unit /\ p \in Pri => y \in Seq(Task)
  OBVIOUS
<1>3. /\ r2 \in [Unit -> [Pri -> Seq(Task)]]
      /\ \A a \in Unit, b \in Pri :
           r2[a][b] = IF a = u /\ b = p THEN Append(r[a][b], t) ELSE r[a][b]
  <2> HIDE DEF y, r2
  <2>1. /\ r2 \in [Unit -> [Pri -> Seq(Task)]]
        /\ \A a \in Unit, b \in Pri : r2[a][b] = IF a = u /\ b = p THEN y ELSE r[a][b]
    BY ONLY r \in [Unit -> [Pri -> Seq(Task)]], <1>1, <1>2, OneQueue
  <2> QED
    BY <2>1 DEF y
<1> HIDE DEF r2
<1>4. ASSUME NEW v \in Task, NEW x \in Task, Before(r2, v, x)
      PROVE  Before(r, v, x) \/ x = t
  <2>1. PICK a \in Unit, b \in Pri : \E i, j \in DOMAIN r2[a][b] :
               i < j /\ r2[a][b][i] = v /\ r2[a][b][j] = x
    BY <1>4 DEF Before
  <2>2. PICK i \in DOMAIN r2[a][b], j \in DOMAIN r2[a][b] :
               i < j /\ r2[a][b][i] = v /\ r2[a][b][j] = x
    BY <2>1
  <2>3. CASE a = u /\ b = p
    <3> DEFINE q == r[a][b]
    <3>1. q \in Seq(Task) /\ r2[a][b] = Append(q, t)
      BY <1>3, <2>3
    <3> HIDE DEF q
    <3>2. DOMAIN Append(q, t) = 1..(Len(q) + 1) /\ Len(q) \in Nat /\ DOMAIN q = 1..Len(q)
          /\ Append(q, t)[Len(q) + 1] = t /\ \A k \in 1..Len(q) : Append(q, t)[k] = q[k]
      BY <3>1
    <3>3. CASE j = Len(q) + 1
      BY <2>2, <3>1, <3>2, <3>3
    <3>4. CASE j # Len(q) + 1
      <4>1. i \in DOMAIN q /\ j \in DOMAIN q /\ q[i] = v /\ q[j] = x /\ i < j
        BY <2>2, <3>1, <3>2, <3>4
      <4> QED
        BY <4>1 DEF Before, q
    <3> QED
      BY <3>3, <3>4
  <2>4. CASE ~(a = u /\ b = p)
    <3>1. r2[a][b] = r[a][b]
      BY <1>3, <2>4
    <3> QED
      BY <2>2, <3>1 DEF Before
  <2> QED
    BY <2>3, <2>4
<1> QED
  BY <1>3, <1>4 DEF OnlyBehind, r2

\* The elements of a queue without one of them are in the same order.
LEMMA WithoutPlaces ==
  ASSUME NEW q \in Seq(Task), NEW t, NEW i \in DOMAIN Without(q, t),
         NEW j \in DOMAIN Without(q, t), i < j
  PROVE  \E k, l \in DOMAIN q : k < l /\ q[k] = Without(q, t)[i] /\ q[l] = Without(q, t)[j]
<1> DEFINE w == Without(q, t)
           late(n) == ~(\A m \in 1..n : q[m] # t)
           k == IF late(i) THEN i + 1 ELSE i
           l == IF late(j) THEN j + 1 ELSE j
<1>1. Len(q) \in Nat /\ DOMAIN q = 1..Len(q)
  OBVIOUS
<1>2. DOMAIN w = 1..(Len(q) - 1) /\ \A n \in 1..(Len(q) - 1) : w[n] = IF late(n) THEN q[n + 1] ELSE q[n]
  BY DEF Without
<1> HIDE DEF w
<1>3. i \in 1..(Len(q) - 1) /\ j \in 1..(Len(q) - 1) /\ i < j
  BY <1>2 DEF w
<1>4. late(i) => late(j)
  BY <1>1, <1>3
<1>5. w[i] = q[k] /\ w[j] = q[l]
  BY <1>2, <1>3
<1> HIDE DEF late
<1>6. k \in 1..Len(q) /\ l \in 1..Len(q) /\ k < l
  BY <1>1, <1>3, <1>4
<1> HIDE DEF k, l
<1> QED
  BY <1>1, <1>5, <1>6 DEF w

\* Nobody falls behind when a task is taken out of a queue.
LEMMA OutKeepsOrder ==
  ASSUME NEW r \in [Unit -> [Pri -> Seq(Task)]], NEW u, NEW p, NEW t
  PROVE  NobodyBehind(r, TakeOut(r, u, p, t))
<1> DEFINE y == Without(r[u][p], t)
           r2 == TakeOut(r, u, p, t)
<1>1. r2 = SetQueue(r, u, p, y)
  BY DEF TakeOut, SetQueue
<1>2. u \in Unit /\ p \in Pri => y \in Seq(Task)
  BY WithoutType
<1>3. /\ r2 \in [Unit -> [Pri -> Seq(Task)]]
      /\ \A a \in Unit, b \in Pri :
           r2[a][b] = IF a = u /\ b = p THEN Without(r[a][b], t) ELSE r[a][b]
  <2> HIDE DEF y, r2
  <2>1. /\ r2 \in [Unit -> [Pri -> Seq(Task)]]
        /\ \A a \in Unit, b \in Pri : r2[a][b] = IF a = u /\ b = p THEN y ELSE r[a][b]
    BY ONLY r \in [Unit -> [Pri -> Seq(Task)]], <1>1, <1>2, OneQueue
  <2> QED
    BY <2>1 DEF y
<1> HIDE DEF r2
<1>4. ASSUME NEW v \in Task, NEW x \in Task, Before(r2, v, x)
      PROVE  Before(r, v, x)
  <2>1. PICK a \in Unit, b \in Pri : \E i, j \in DOMAIN r2[a][b] :
               i < j /\ r2[a][b][i] = v /\ r2[a][b][j] = x
    BY <1>4 DEF Before
  <2>2. PICK i \in DOMAIN r2[a][b], j \in DOMAIN r2[a][b] :
               i < j /\ r2[a][b][i] = v /\ r2[a][b][j] = x
    BY <2>1
  <2>3. CASE a = u /\ b = p
    <3> DEFINE q == r[a][b]
    <3>1. q \in Seq(Task) /\ r2[a][b] = Without(q, t)
      BY <1>3, <2>3
    <3> HIDE DEF q
    <3>2. \E k, l \in DOMAIN q : k < l /\ q[k] = v /\ q[l] = x
      BY <2>2, <3>1, WithoutPlaces
    <3> QED
      BY <3>2 DEF Before, q
  <2>4. CASE ~(a = u /\ b = p)
    <3>1. r2[a][b] = r[a][b]
      BY <1>3, <2>4
    <3> QED
      BY <2>2, <3>1 DEF Before
  <2> QED
    BY <2>3, <2>4
<1> QED
  BY <1>3, <1>4 DEF NobodyBehind, r2

\* One operation after another.
LEMMA OrderTrans ==
  ASSUME NEW r, NEW r2, NEW r3, NEW t
  PROVE  /\ NobodyBehind(r, r2) /\ NobodyBehind(r2, r3) => NobodyBehind(r, r3)
         /\ NobodyBehind(r, r2) /\ OnlyBehind(r2, r3, t) => OnlyBehind(r, r3, t)
         /\ OnlyBehind(r, r2, t) /\ OnlyBehind(r2, r3, t) => OnlyBehind(r, r3, t)
BY DEF NobodyBehind, OnlyBehind

\* Nobody falls behind when nothing changes.
LEMMA SameOrderStays ==
  ASSUME NEW r \in [Unit -> [Pri -> Seq(Task)]], NEW t
  PROVE  NobodyBehind(r, r) /\ OnlyBehind(r, r, t)
BY DEF NobodyBehind, OnlyBehind

\* The fields of a kernel state that this concerns.
HasReady(s) == {"tcb", "ready"} \subseteq DOMAIN s

ReadyIs(s, z, r) == HasReady(z) /\ z.tcb = s.tcb /\ z.ready = r

\* What the internal operations do to the ready queues.
LEMMA ReadyFrame ==
  ASSUME NEW s, HasReady(s)
  PROVE  /\ \A u, t : ReadyIs(s, SetPredtsk(s, u, t), s.ready)
         /\ ReadyIs(s, UpdateSchedtsk(s), s.ready)
         /\ \A t : ReadyIs(s, MakeRunnable(s, t),
                          PutLast(s.ready, UnitOf[t], s.tcb[t].pri, t))
         /\ \A t : ReadyIs(s, MakeNonRunnable(s, t),
                          TakeOut(s.ready, UnitOf[t], s.tcb[t].pri, t))
<1>1. \A z : HasReady(z) => ReadyIs(z, UpdateSchedtsk(z), z.ready)
  BY DEF HasReady, ReadyIs, UpdateSchedtsk
<1>2. \A z, u, t : HasReady(z) => ReadyIs(z, SetPredtsk(z, u, t), z.ready)
  <2> SUFFICES ASSUME NEW z, NEW u, NEW t, HasReady(z)
               PROVE  ReadyIs(z, SetPredtsk(z, u, t), z.ready)
    OBVIOUS
  <2> DEFINE y == [z EXCEPT !.predtsk[u] = t]
  <2>1. ReadyIs(z, y, z.ready)
    BY DEF HasReady, ReadyIs
  <2> HIDE DEF y
  <2>2. ReadyIs(z, UpdateIfDsp(y), z.ready)
    BY <1>1, <2>1 DEF ReadyIs, UpdateIfDsp
  <2> QED
    BY <2>2 DEF SetPredtsk, y
<1>3. ASSUME NEW t
      PROVE  ReadyIs(s, MakeRunnable(s, t), PutLast(s.ready, UnitOf[t], s.tcb[t].pri, t))
  <2> DEFINE u == UnitOf[t]
             p == s.tcb[t].pri
             y == [s EXCEPT !.ready[u][p] = Append(@, t), !.primap[u] = @ \union {p}]
  <2>1. ReadyIs(s, y, PutLast(s.ready, u, p, t))
    BY DEF HasReady, ReadyIs, PutLast
  <2>2. MakeRunnable(s, t) \in {y, SetPredtsk(y, u, t)}
    BY DEF MakeRunnable
  <2> HIDE DEF y, u
  <2>3. ReadyIs(y, SetPredtsk(y, u, t), y.ready)
    BY <1>2, <2>1 DEF ReadyIs
  <2>4. ReadyIs(s, MakeRunnable(s, t), PutLast(s.ready, u, p, t))
    BY <2>1, <2>2, <2>3 DEF ReadyIs
  <2> QED
    BY <2>4 DEF u
<1>4. ASSUME NEW t
      PROVE  ReadyIs(s, MakeNonRunnable(s, t), TakeOut(s.ready, UnitOf[t], s.tcb[t].pri, t))
  <2> DEFINE u == UnitOf[t]
             p == s.tcb[t].pri
             q == Without(s.ready[u][p], t)
             y == [s EXCEPT !.ready[u][p] = q,
                            !.primap[u] = IF q = << >> THEN @ \ {p} ELSE @]
  <2>1. ReadyIs(s, y, TakeOut(s.ready, u, p, t))
    BY DEF HasReady, ReadyIs, TakeOut
  <2>2. MakeNonRunnable(s, t) \in {y, SetPredtsk(y, u, Head(q)), SetPredtsk(y, u, NULL),
                                  SetPredtsk(y, u, SearchPredtsk(y, u))}
    BY DEF MakeNonRunnable
  <2> HIDE DEF y, u, q
  <2>3. \A v : ReadyIs(y, SetPredtsk(y, u, v), y.ready)
    BY <1>2, <2>1 DEF ReadyIs
  <2>4. ReadyIs(s, MakeNonRunnable(s, t), TakeOut(s.ready, u, p, t))
    BY <2>1, <2>2, <2>3 DEF ReadyIs
  <2> QED
    BY <2>4 DEF u
<1> QED
  BY <1>1, <1>2, <1>3, <1>4

\* The same of kernel states: only t, or nobody, falls behind from s to z.
OrderedState(s) == HasReady(s) /\ s.ready \in [Unit -> [Pri -> Seq(Task)]]

FallsBehind(s, z, t) == OrderedState(z) /\ OnlyBehind(s.ready, z.ready, t)
NobodyFalls(s, z)    == OrderedState(z) /\ NobodyBehind(s.ready, z.ready)

\* One operation after another.
LEMMA FallsTrans ==
  ASSUME NEW s, NEW z, NEW x, NEW t
  PROVE  /\ NobodyFalls(s, z) /\ NobodyFalls(z, x) => NobodyFalls(s, x)
         /\ NobodyFalls(s, z) /\ FallsBehind(z, x, t) => FallsBehind(s, x, t)
         /\ FallsBehind(s, z, t) /\ FallsBehind(z, x, t) => FallsBehind(s, x, t)
         /\ NobodyFalls(s, z) => FallsBehind(s, z, t)
BY OrderTrans DEF NobodyFalls, FallsBehind, NobodyBehind, OnlyBehind

\* Nobody falls behind in an operation that keeps the ready queues.
LEMMA ReadyKept ==
  ASSUME NEW s, NEW z, OrderedState(s), HasReady(z), z.ready = s.ready
  PROVE  NobodyFalls(s, z)
BY SameOrderStays DEF OrderedState, NobodyFalls

\* The internal operations.
LEMMA RunnableFalls ==
  ASSUME NEW s, OrderedState(s), NEW t \in Task
  PROVE  FallsBehind(s, MakeRunnable(s, t), t)
<1>1. ReadyIs(s, MakeRunnable(s, t), PutLast(s.ready, UnitOf[t], s.tcb[t].pri, t))
  BY ReadyFrame DEF OrderedState
<1>2. OnlyBehind(s.ready, PutLast(s.ready, UnitOf[t], s.tcb[t].pri, t), t)
  BY LastIsBehind DEF OrderedState
<1> QED
  BY <1>1, <1>2 DEF FallsBehind, OrderedState, ReadyIs, OnlyBehind

\* Nobody falls behind when a task stops being runnable.
LEMMA NonRunnableFalls ==
  ASSUME NEW s, OrderedState(s), NEW t
  PROVE  NobodyFalls(s, MakeNonRunnable(s, t))
<1>1. ReadyIs(s, MakeNonRunnable(s, t), TakeOut(s.ready, UnitOf[t], s.tcb[t].pri, t))
  BY ReadyFrame DEF OrderedState
<1>2. NobodyBehind(s.ready, TakeOut(s.ready, UnitOf[t], s.tcb[t].pri, t))
  BY OutKeepsOrder DEF OrderedState
<1> QED
  BY <1>1, <1>2 DEF NobodyFalls, OrderedState, ReadyIs, NobodyBehind

\* A task that becomes runnable, also at the end of a wait.
LEMMA ActiveFalls ==
  ASSUME NEW s, OrderedState(s), NEW t \in Task, NEW ts
  PROVE  FallsBehind(s, MakeRunnable([s EXCEPT !.tcb[t].tstat = ts], t), t)
<1> DEFINE z == [s EXCEPT !.tcb[t].tstat = ts]
<1>1. HasReady(z) /\ z.ready = s.ready
  BY DEF OrderedState, HasReady
<1> HIDE DEF z
<1>2. NobodyFalls(s, z) /\ OrderedState(z)
  BY <1>1, ReadyKept DEF NobodyFalls
<1>3. FallsBehind(z, MakeRunnable(z, t), t)
  BY <1>2, RunnableFalls
<1> QED
  BY <1>2, <1>3, FallsTrans DEF z

\* Only the task whose wait ends may fall behind.
LEMMA NonWaitFalls ==
  ASSUME NEW s, OrderedState(s), NEW t \in Task
  PROVE  FallsBehind(s, MakeNonWait(s, t), t)
<1>1. CASE IsSuspended(s.tcb[t].tstat)
  <2> DEFINE z == [s EXCEPT !.tcb[t].tstat = {"SUSPENDED"}]
  <2>1. HasReady(z) /\ z.ready = s.ready
    BY DEF OrderedState, HasReady
  <2>2. MakeNonWait(s, t) = z
    BY <1>1 DEF MakeNonWait
  <2> HIDE DEF z
  <2> QED
    BY <2>1, <2>2, ReadyKept, FallsTrans
<1>2. CASE ~IsSuspended(s.tcb[t].tstat)
  BY <1>2, ActiveFalls DEF MakeNonWait
<1> QED
  BY <1>1, <1>2

\* Leaving a wait queue or the time event queue does not concern precedence.
LEMMA DequeueFalls ==
  ASSUME NEW s, OrderedState(s), NEW t
  PROVE  /\ NobodyFalls(s, WaitDequeueWObj(s, t))
         /\ NobodyFalls(s, WaitDequeueTmevtb(s, t))
         /\ NobodyFalls(s, [s EXCEPT !.tcb[t].wobj = NULL])
<1>1. \A z \in {WaitDequeueWObj(s, t), WaitDequeueTmevtb(s, t), [s EXCEPT !.tcb[t].wobj = NULL]} :
        HasReady(z) /\ z.ready = s.ready
  BY DEF OrderedState, HasReady, WaitDequeueWObj, WaitDequeueTmevtb
<1> QED
  BY <1>1, ReadyKept

\* Every way a wait ends.
LEMMA WaitEndFalls ==
  ASSUME NEW s, OrderedState(s), NEW t \in Task
  PROVE  /\ NobodyFalls(s, WaitDequeueTmevtb(WaitDequeueWObj(s, t), t))
         /\ FallsBehind(s, MakeNonWait(WaitDequeueTmevtb(WaitDequeueWObj(s, t), t), t), t)
         /\ FallsBehind(s, WaitComplete(s, t), t)
         /\ FallsBehind(s, WaitTmout(s, t), t)
<1>1. ASSUME NEW z, NobodyFalls(s, z) PROVE FallsBehind(s, MakeNonWait(z, t), t)
  BY <1>1, NonWaitFalls, FallsTrans DEF NobodyFalls
<1>2. ASSUME NEW z, NobodyFalls(s, z)
      PROVE  /\ NobodyFalls(s, WaitDequeueWObj(z, t)) /\ NobodyFalls(s, WaitDequeueTmevtb(z, t))
  BY <1>2, DequeueFalls, FallsTrans DEF NobodyFalls
<1>3. NobodyFalls(s, WaitDequeueTmevtb(WaitDequeueWObj(s, t), t))
  BY <1>2, DequeueFalls
<1>4. NobodyFalls(s, WaitDequeueWObj(WaitDequeueTmevtb(s, t), t))
  BY <1>2, DequeueFalls
<1>5. NobodyFalls(s, WaitDequeueTmevtb([s EXCEPT !.tcb[t].wobj = NULL], t))
  BY <1>2, DequeueFalls
<1> QED
  BY <1>1, <1>3, <1>4, <1>5 DEF WaitComplete, WaitTmout

\* A task that is terminated leaves its queues.
LEMMA LeaveFalls ==
  ASSUME NEW s, OrderedState(s), NEW t \in Task
  PROVE  NobodyFalls(s, LeaveQueues(s, t))
<1>1. NobodyFalls(s, s)
  BY ReadyKept DEF OrderedState
<1> QED
  BY <1>1, NonRunnableFalls, WaitEndFalls DEF LeaveQueues

\* A task that is terminated falls behind only if it is activated again, which
\* uses its queued activation up.
LEMMA TerminateFalls ==
  ASSUME NEW s, OrderedState(s), NEW t \in Task,
         LeaveQueues(s, t).tcb \in [Task -> TCB],
         LeaveQueues(s, t).tcb[t].actque = s.tcb[t].actque
  PROVE  LET z == TaskTerminate(s, t)
         IN  \/ NobodyFalls(s, z)
             \/ FallsBehind(s, z, t) /\ s.tcb[t].actque /\ ~z.tcb[t].actque
<1> DEFINE l == LeaveQueues(s, t)
           m == MakeDormant(l, t)
           n == [m EXCEPT !.tcb[t].actque = FALSE]
           o == [n EXCEPT !.tcb[t].tstat = {"RUNNABLE"}]
<1>1. NobodyFalls(s, l) /\ l.tcb \in [Task -> TCB] /\ l.tcb[t].actque = s.tcb[t].actque
  BY LeaveFalls
<1> HIDE DEF l
<1>2. HasReady(m) /\ m.ready = l.ready /\ m.tcb \in [Task -> TCB]
  <2>1. HasReady(m) /\ m.ready = l.ready
    BY <1>1 DEF NobodyFalls, OrderedState, HasReady, MakeDormant
  <2>2. /\ {} \in TStat /\ IniPri[t] \in Pri
    BY StatesType, KernelAssumption
  <2>3. m.tcb = [l.tcb EXCEPT ![t] = [@ EXCEPT !.tstat = {}, !.bpri = IniPri[t],
                                 !.pri = IniPri[t], !.wupque = FALSE,
                                 !.raster = FALSE, !.enater = TRUE]]
    BY <1>1 DEF NobodyFalls, OrderedState, HasReady, MakeDormant
  <2>4. ASSUME NEW b \in TCB
        PROVE  [b EXCEPT !.tstat = {}, !.bpri = IniPri[t],
                         !.pri = IniPri[t], !.wupque = FALSE,
                         !.raster = FALSE, !.enater = TRUE] \in TCB
    BY <2>2 DEF TCB
  <2>5. l.tcb[t] \in TCB
    BY <1>1
  <2> QED
    BY <1>1, <2>1, <2>3, <2>4, <2>5
<1> HIDE DEF m
<1>3. HasReady(n) /\ n.ready = m.ready /\ n.tcb[t].actque = FALSE /\ n.tcb \in [Task -> TCB]
  <2>1. HasReady(n) /\ n.ready = m.ready /\ n.tcb = [m.tcb EXCEPT ![t] = [@ EXCEPT !.actque = FALSE]]
    BY <1>2 DEF HasReady
  <2>2. ASSUME NEW b \in TCB
        PROVE  [b EXCEPT !.actque = FALSE] \in TCB /\ [b EXCEPT !.actque = FALSE].actque = FALSE
    BY DEF TCB
  <2> HIDE DEF n
  <2>3. m.tcb[t] \in TCB
    BY <1>2
  <2> QED
    BY <1>2, <2>1, <2>2, <2>3
<1> HIDE DEF n
<1>4. HasReady(o) /\ o.ready = n.ready /\ o.tcb[t].actque = FALSE
  BY <1>3 DEF HasReady, TCB
<1> HIDE DEF o
<1>5. NobodyFalls(s, m) /\ OrderedState(n) /\ NobodyFalls(s, n) /\ NobodyFalls(s, o)
  BY <1>1, <1>2, <1>3, <1>4, ReadyKept, FallsTrans DEF NobodyFalls, OrderedState
<1>6. CASE l.tcb[t].actque
  <2>1. TaskTerminate(s, t) = MakeRunnable(o, t)
    BY <1>6 DEF TaskTerminate, BecomeDormant, MakeActive, l, m, n, o
  <2>2. ReadyIs(o, MakeRunnable(o, t), PutLast(o.ready, UnitOf[t], o.tcb[t].pri, t))
    BY <1>4, ReadyFrame
  <2>3. ~MakeRunnable(o, t).tcb[t].actque
    BY <1>4, <2>2 DEF ReadyIs
  <2>4. FallsBehind(s, MakeRunnable(o, t), t)
    BY <1>5, RunnableFalls, FallsTrans DEF NobodyFalls
  <2> QED
    BY <1>1, <1>6, <2>1, <2>3, <2>4
<1>7. CASE ~l.tcb[t].actque
  <2>1. TaskTerminate(s, t) = m
    BY <1>7 DEF TaskTerminate, BecomeDormant, l, m
  <2> QED
    BY <1>5, <2>1
<1> QED
  BY <1>6, <1>7

\* A change of priority puts the task behind the others of its new one.
LEMMA PriorityFalls ==
  ASSUME NEW s, OrderedState(s), NEW t \in Task, NEW new
  PROVE  FallsBehind(s, ChangePriority(s, t, new, FALSE), t)
<1> DEFINE u   == UnitOf[t]
           old == s.tcb[t].pri
           s1  == [s EXCEPT !.tcb[t].pri = new]
           s2  == Requeue(s1, t, old, new, FALSE)
<1>1. HasReady(s1) /\ s1.ready = s.ready
  BY DEF OrderedState, HasReady
<1>2. OrderedState(s1) /\ NobodyFalls(s, s1)
  BY <1>1, ReadyKept DEF OrderedState
<1> HIDE DEF s1
<1>3. FallsBehind(s1, s2, t)
  <2> DEFINE q == Without(s1.ready[u][old], t)
             y == [s1 EXCEPT !.ready[u][old] = q,
                             !.primap[u] = IF q = << >> THEN @ \ {old} ELSE @]
  <2>1. HasReady(y) /\ y.ready = TakeOut(s1.ready, u, old, t)
    BY <1>2 DEF OrderedState, HasReady, TakeOut
  <2>2. s2 = [y EXCEPT !.ready[u][new] = Append(@, t), !.primap[u] = @ \union {new}]
    BY DEF Requeue
  <2> HIDE DEF y, u, old
  <2>3. HasReady(s2) /\ s2.ready = PutLast(y.ready, u, new, t)
    BY <2>1, <2>2 DEF HasReady, PutLast
  <2> HIDE DEF s2
  <2>4. NobodyBehind(s1.ready, y.ready)
    BY <1>2, <2>1, OutKeepsOrder DEF OrderedState
  <2>5. OnlyBehind(y.ready, s2.ready, t)
    BY <2>3, <2>4, LastIsBehind DEF NobodyBehind
  <2>6. OnlyBehind(s1.ready, s2.ready, t)
    BY ONLY <2>4, <2>5, OrderTrans
  <2> QED
    BY <2>3, <2>6 DEF FallsBehind, OrderedState, OnlyBehind
<1>4. FallsBehind(s, s2, t)
  BY <1>2, <1>3, FallsTrans
<1>5. \A v : FallsBehind(s, SetPredtsk(s2, u, v), t)
  <2> HIDE DEF s2
  <2>1. \A v : ReadyIs(s2, SetPredtsk(s2, u, v), s2.ready)
    BY <1>4, ReadyFrame DEF FallsBehind, OrderedState
  <2> QED
    BY <1>4, <2>1 DEF FallsBehind, OrderedState, ReadyIs
<1>6. FallsBehind(s, s1, t) /\ FallsBehind(s, WObjChangePriority(s1, t), t)
  <2>1. LET z == WObjChangePriority(s1, t) IN HasReady(z) /\ z.ready = s1.ready
    BY <1>2 DEF OrderedState, HasReady, WObjChangePriority
  <2> QED
    BY <1>2, <2>1, ReadyKept, FallsTrans
<1>7. \E v : ChangePriority(s, t, new, FALSE) \in
               {s1, WObjChangePriority(s1, t), s2, SetPredtsk(s2, u, v)}
  BY DEF ChangePriority, s1
<1> HIDE DEF s2, u
<1> QED
  BY <1>4, <1>5, <1>6, <1>7

\* Leaving the queues keeps the control blocks' types and the queued activation.
LEMMA LeaveTyped ==
  ASSUME NEW s, WellTyped(s), NEW t \in Task
  PROVE  LET l == LeaveQueues(s, t)
         IN  l.tcb \in [Task -> TCB] /\ l.tcb[t].actque = s.tcb[t].actque
<1>1. s \in KState /\ s.tcb \in [Task -> TCB]
  BY DEF WellTyped, KState
<1>2. HasReady(s)
  BY <1>1 DEF KState, HasReady
<1>3. MakeNonRunnable(s, t).tcb = s.tcb
  BY <1>2, ReadyFrame DEF ReadyIs
<1> DEFINE d == WaitDequeueWObj(s, t)
           e == WaitDequeueTmevtb(d, t)
<1>4. e.tcb \in [Task -> TCB]
  BY DequeueSound DEF Sound, WellTyped, KState
<1>5. e.tcb[t].actque = s.tcb[t].actque
  <2>1. HasReady(d) /\ d.tcb[t].actque = s.tcb[t].actque
    BY <1>1, <1>2 DEF HasReady, WaitDequeueWObj, TCB
  <2> HIDE DEF d
  <2>2. e.tcb = d.tcb
    BY <2>1 DEF HasReady, WaitDequeueTmevtb
  <2> QED
    BY <2>1, <2>2
<1> QED
  BY <1>1, <1>3, <1>4, <1>5 DEF LeaveQueues

-----------------------------------------------------------------------------
(* The steps of the kernel core. *)

\* Why a task may fall behind: it was not runnable, its priority is set again,
\* or its queued activation restarts it.
MayFall(t) ==
  \/ ~IsRunnable(tcb[t].tstat)
  \/ \E p \in Pri : chg_pri(t, p)
  \/ tcb[t].actque /\ ~tcb'[t].actque

PrecedenceStep ==
  \/ NobodyBehind(ready, ready')
  \/ \E t \in Task : OnlyBehind(ready, ready', t) /\ MayFall(t)

Reaches(s) ==
  Return(s) \/ Becomes(s) \/ Becomes(Dispatch(s)) \/ Becomes(DispatchIfNeeded(s))

\* What a return to the caller makes of the ready queues.
LEMMA ReachesReady ==
  ASSUME NEW s, OrderedState(s), Reaches(s)
  PROVE  ready' = s.ready /\ tcb' = s.tcb /\ K.ready = ready /\ K.tcb = tcb
<1>1. Dispatch(s).ready = s.ready /\ Dispatch(s).tcb = s.tcb
  BY DEF OrderedState, HasReady, Dispatch
<1>2. K.ready = ready /\ K.tcb = tcb
  BY DEF K
<1> QED
  BY <1>1, <1>2 DEF Reaches, Return, Becomes, DispatchIfNeeded

\* What the first invariant says of the ready queues.
LEMMA CoreOrdered ==
  ASSUME IInv
  PROVE  OrderedState(K) /\ WellTyped(K) /\ K.tcb = tcb /\ K.ready = ready
<1>1. WellTyped(K) /\ K \in KState
  BY DEF IInv, WellTyped
<1>2. K.tcb = tcb /\ K.ready = ready
  BY DEF K
<1> QED
  BY <1>1, <1>2 DEF KState, OrderedState, HasReady

\* A step in which nobody, or only one task, falls behind.
LEMMA NobodyOrder ==
  ASSUME IInv, NEW s, NobodyFalls(K, s), Reaches(s)
  PROVE  PrecedenceStep
BY CoreOrdered, ReachesReady DEF NobodyFalls, PrecedenceStep

\* A step in which only a task falls behind that may.
LEMMA FallOrder ==
  ASSUME IInv, NEW s, NEW t \in Task, FallsBehind(K, s, t), Reaches(s), MayFall(t)
  PROVE  PrecedenceStep
BY CoreOrdered, ReachesReady DEF FallsBehind, PrecedenceStep

\* A flag in a control block changes.
LEMMA FieldOrder ==
  ASSUME IInv, NEW s, HasReady(s), s.ready = ready, Reaches(s)
  PROVE  PrecedenceStep
BY CoreOrdered, ReadyKept, NobodyOrder

\* A task is terminated, from a state with the tasks and queues of K.
LEMMA TerminateOrder ==
  ASSUME IInv, NEW s, WellTyped(s), s.tcb = tcb, s.ready = ready, NEW t \in Task,
         Reaches(TaskTerminate(s, t))
  PROVE  PrecedenceStep
<1> DEFINE z == TaskTerminate(s, t)
<1>1. OrderedState(s) /\ NobodyFalls(K, s)
  <2>1. s \in KState
    BY DEF WellTyped
  <2>2. HasReady(s)
    BY <2>1 DEF KState, HasReady
  <2> QED
    BY <2>2, CoreOrdered, ReadyKept DEF NobodyFalls
<1>2. \/ NobodyFalls(s, z)
      \/ FallsBehind(s, z, t) /\ tcb[t].actque /\ ~z.tcb[t].actque
  BY <1>1, LeaveTyped, TerminateFalls
<1> HIDE DEF z
<1>3. CASE NobodyFalls(s, z)
  BY <1>1, <1>3, FallsTrans, NobodyOrder DEF z
<1>4. CASE FallsBehind(s, z, t) /\ tcb[t].actque /\ ~z.tcb[t].actque
  <2>1. FallsBehind(K, z, t)
    BY <1>1, <1>4, FallsTrans
  <2>2. tcb' = z.tcb
    BY <2>1, ReachesReady DEF z, FallsBehind
  <2> QED
    BY <1>4, <2>1, <2>2, FallOrder DEF z, MayFall
<1> QED
  BY <1>2, <1>3, <1>4

\* The running task is terminated, with dispatching enabled again if need be.
LEMMA SelfOrder ==
  ASSUME IInv, runtsk # NULL, NEW s, s = K \/ s = SetDspflg(K), TerminateSelf(s)
  PROVE  PrecedenceStep
<1>1. WellTyped(s) /\ s.runtsk = runtsk
  BY SetDspflgOK, CoreOrdered DEF K
<1>2. s.tcb = tcb /\ s.ready = ready
  <2> DEFINE z == [K EXCEPT !.dspflg = TRUE]
  <2>1. HasReady(z) /\ z.tcb = tcb /\ z.ready = ready
    BY DEF K, HasReady
  <2> HIDE DEF z
  <2>2. ReadyIs(z, UpdateSchedtsk(z), z.ready)
    BY <2>1, ReadyFrame
  <2> QED
    BY <2>1, <2>2, CoreOrdered DEF SetDspflg, ReadyIs, z
<1>3. runtsk \in Task /\ Reaches(TaskTerminate(s, runtsk))
  BY <1>1, RunningTask DEF TerminateSelf, Reaches
<1> QED
  BY <1>1, <1>2, <1>3, TerminateOrder

\* The running task waits, a task is suspended.
LEMMA WaitOrder ==
  ASSUME IInv, NEW flag, NEW timed, Reaches(MakeWaitTmout(K, flag, timed))
  PROVE  PrecedenceStep
<1> DEFINE y == [K EXCEPT !.tcb[runtsk].tstat = {flag}]
           m == MakeNonRunnable(y, runtsk)
<1>1. HasReady(y) /\ y.ready = K.ready
  BY DEF K, HasReady
<1>2. MakeWait(K, flag) = m
  BY DEF MakeWait, K
<1> HIDE DEF y
<1>3. OrderedState(y) /\ NobodyFalls(K, y)
  BY <1>1, CoreOrdered, ReadyKept DEF NobodyFalls
<1>4. NobodyFalls(K, m)
  BY <1>3, NonRunnableFalls, FallsTrans
<1> HIDE DEF m
<1>5. HasReady([m EXCEPT !.tmevt = @ \union {runtsk}])
      /\ [m EXCEPT !.tmevt = @ \union {runtsk}].ready = m.ready
  BY <1>4 DEF NobodyFalls, OrderedState, HasReady
<1>6. NobodyFalls(K, [m EXCEPT !.tmevt = @ \union {runtsk}])
  BY <1>4, <1>5, ReadyKept, FallsTrans DEF NobodyFalls
<1>7. MakeWaitTmout(K, flag, timed) \in {m, [m EXCEPT !.tmevt = @ \union {runtsk}]}
  BY <1>2 DEF MakeWaitTmout, K
<1> QED
  BY <1>4, <1>6, <1>7, NobodyOrder

\* A task is suspended.
LEMMA SuspendOrder ==
  ASSUME IInv, NEW t \in Task,
         Reaches(MakeNonRunnable([K EXCEPT !.tcb[t].tstat = {"SUSPENDED"}], t))
  PROVE  PrecedenceStep
<1> DEFINE y == [K EXCEPT !.tcb[t].tstat = {"SUSPENDED"}]
<1>1. HasReady(y) /\ y.ready = K.ready
  BY DEF K, HasReady
<1> HIDE DEF y
<1>2. OrderedState(y) /\ NobodyFalls(K, y)
  BY <1>1, CoreOrdered, ReadyKept DEF NobodyFalls
<1>3. NobodyFalls(K, MakeNonRunnable(y, t))
  BY <1>2, NonRunnableFalls, FallsTrans
<1> QED
  BY <1>3, NobodyOrder DEF y

\* A task that is not runnable becomes so: it is activated, resumed, or its wait
\* ends.
LEMMA WakeOrder ==
  ASSUME IInv, NEW t \in Task, ~IsRunnable(tcb[t].tstat),
         \/ Reaches(MakeActive(K, t))
         \/ Reaches(MakeRunnable([K EXCEPT !.tcb[t].tstat = {"RUNNABLE"}], t))
         \/ Reaches(WaitComplete(K, t))
         \/ Reaches(WaitTmout(K, t))
         \/ Reaches(MakeNonWait(WaitDequeueTmevtb(WaitDequeueWObj(K, t), t), t))
  PROVE  PrecedenceStep
<1>1. MayFall(t)
  BY DEF MayFall
<1> QED
  BY <1>1, CoreOrdered, ActiveFalls, WaitEndFalls, FallOrder DEF MakeActive

\* A task that cannot be terminated now is woken to meet the request.
LEMMA RasTerOrder ==
  ASSUME IInv, NEW t \in Task, ~IsRunnable(tcb[t].tstat), Reaches(RasTerWaiting(t))
  PROVE  PrecedenceStep
<1> DEFINE s == IF IsWaiting(tcb[t].tstat)
                THEN WaitDequeueTmevtb(WaitDequeueWObj(K, t), t) ELSE K
           y == [s EXCEPT !.tcb[t].raster = TRUE, !.tcb[t].tstat = {"RUNNABLE"}]
<1>1. NobodyFalls(K, s)
  BY CoreOrdered, WaitEndFalls, ReadyKept DEF OrderedState
<1> HIDE DEF s
<1>2. HasReady(y) /\ y.ready = s.ready
  BY <1>1 DEF NobodyFalls, OrderedState, HasReady
<1>3. RasTerWaiting(t) = MakeRunnable(y, t)
  BY DEF RasTerWaiting, s
<1> HIDE DEF y
<1>4. NobodyFalls(K, y) /\ OrderedState(y)
  BY <1>1, <1>2, ReadyKept, FallsTrans DEF NobodyFalls
<1>5. FallsBehind(K, RasTerWaiting(t), t)
  BY <1>3, <1>4, RunnableFalls, FallsTrans
<1> QED
  BY <1>5, FallOrder DEF MayFall

\* A change of priority.
LEMMA PriorityOrder ==
  ASSUME IInv, NEW t \in Task, NEW p \in Pri, chg_pri(t, p)
  PROVE  PrecedenceStep
<1> DEFINE y == [K EXCEPT !.tcb[t].bpri = p]
<1>1. HasReady(y) /\ y.ready = K.ready
  BY DEF K, HasReady
<1>2. Return(ChangePriority(y, t, p, FALSE))
  BY DEF chg_pri
<1> HIDE DEF y
<1>3. OrderedState(y) /\ NobodyFalls(K, y)
  BY <1>1, CoreOrdered, ReadyKept DEF NobodyFalls
<1>4. FallsBehind(K, ChangePriority(y, t, p, FALSE), t)
  BY <1>3, PriorityFalls, FallsTrans
<1> QED
  BY <1>2, <1>4, FallOrder DEF MayFall, Reaches

\* Dispatching is enabled again.
LEMMA EnableOrder ==
  ASSUME IInv, TskCtxUnl, EnableDispatch
  PROVE  PrecedenceStep
<1> DEFINE s == SetDspflg(K)
           z == [K EXCEPT !.dspflg = TRUE]
<1>1. CASE TerminateSelf(s)
  BY <1>1, SelfOrder DEF TskCtxUnl
<1>2. CASE Becomes(DispatchIfNeeded(s))
  <2>1. HasReady(z) /\ z.ready = ready
    BY DEF K, HasReady
  <2> HIDE DEF z
  <2>2. HasReady(s) /\ s.ready = ready
    BY <2>1, ReadyFrame DEF SetDspflg, ReadyIs, z
  <2> QED
    BY <1>2, <2>2, FieldOrder DEF Reaches
<1> QED
  BY <1>1, <1>2 DEF EnableDispatch

\* Every step except a rotation of a ready queue.
LEMMA NextOrder ==
  ASSUME IInv, SInv, [Next]_vars
  PROVE  PrecedenceStep \/ \E p \in Pri, u \in Unit : rot_rdq(p, u)
<1>1. \A t \in Task : tcb[t] \in TCB
  BY CoreOrdered DEF WellTyped, KState
<1>2. ASSUME ready' = ready PROVE PrecedenceStep
  BY <1>2, CoreOrdered, SameOrderStays DEF PrecedenceStep, OrderedState
<1>3. ASSUME NEW s, s.ready = ready, HasReady(s), Return(s) \/ Becomes(s) PROVE PrecedenceStep
  BY <1>3, FieldOrder DEF Reaches
<1>4. \A t \in Task : \A f :
        /\ \A s \in {[K EXCEPT !.tcb[t].actque = f], [K EXCEPT !.tcb[t].wupque = f],
                     [K EXCEPT !.tcb[t].raster = f], [K EXCEPT !.tcb[t].enater = f]} :
             s.ready = ready /\ HasReady(s)
        /\ [K EXCEPT !.tcb[t].tstat = @ \union {"SUSPENDED"}].ready = ready
        /\ HasReady([K EXCEPT !.tcb[t].tstat = @ \union {"SUSPENDED"}])
        /\ [K EXCEPT !.tcb[t].tstat = @ \ {"SUSPENDED"}].ready = ready
        /\ HasReady([K EXCEPT !.tcb[t].tstat = @ \ {"SUSPENDED"}])
        /\ [K EXCEPT !.dspflg = FALSE].ready = ready
        /\ HasReady([K EXCEPT !.dspflg = FALSE])
  BY DEF K, HasReady
<1>5. runtsk # NULL => runtsk \in Task
  BY RunningTask
<1>6. \A s : Return(s) => Reaches(s)
  BY DEF Reaches
<1>7. ASSUME NEW t \in Task, PlainTaskCall(t) PROVE PrecedenceStep
  <2>1. CASE act_tsk(t)
    <3>1. IsDormant(tcb[t].tstat) => ~IsRunnable(tcb[t].tstat)
      BY <1>1, StateFacts
    <3>2. CASE IsDormant(tcb[t].tstat) /\ Return(MakeActive(K, t))
      BY <1>6, <3>1, <3>2, WakeOrder
    <3>3. CASE Return([K EXCEPT !.tcb[t].actque = TRUE])
      BY <1>3, <1>4, <3>3
    <3> QED
      BY <2>1, <3>2, <3>3 DEF act_tsk
  <2>2. CASE can_act(t)
    BY <1>3, <1>4, <2>2 DEF can_act
  <2>3. CASE wup_tsk(t)
    <3>1. CASE "SLP" \in tcb[t].tstat /\ Return(WaitComplete(K, t))
      <4>1. IsWaiting(tcb[t].tstat)
        BY <1>1, <3>1 DEF IsWaiting, WaitFlag
      <4>2. ~IsRunnable(tcb[t].tstat)
        BY <1>1, <4>1, StateFacts
      <4> QED
        BY <1>6, <3>1, <4>2, WakeOrder
    <3>2. CASE Return([K EXCEPT !.tcb[t].wupque = TRUE])
      BY <1>3, <1>4, <3>2
    <3> QED
      BY <2>3, <3>1, <3>2 DEF wup_tsk
  <2>4. CASE can_wup(t)
    BY <1>3, <1>4, <2>4 DEF can_wup
  <2>5. CASE sus_tsk(t)
    <3>1. CASE Return(MakeNonRunnable([K EXCEPT !.tcb[t].tstat = {"SUSPENDED"}], t))
      BY <1>6, <3>1, SuspendOrder
    <3>2. CASE Return([K EXCEPT !.tcb[t].tstat = @ \union {"SUSPENDED"}])
      BY <1>3, <1>4, <3>2
    <3> QED
      BY <2>5, <3>1, <3>2 DEF sus_tsk
  <2>6. CASE rsm_tsk(t)
    <3>1. ~IsRunnable(tcb[t].tstat)
      BY <1>1, <2>6, StateFacts DEF rsm_tsk
    <3>2. CASE Return([K EXCEPT !.tcb[t].tstat = @ \ {"SUSPENDED"}])
      BY <1>3, <1>4, <3>2
    <3>3. CASE Return(MakeRunnable([K EXCEPT !.tcb[t].tstat = {"RUNNABLE"}], t))
      BY <1>6, <3>1, <3>3, WakeOrder
    <3> QED
      BY <2>6, <3>2, <3>3 DEF rsm_tsk
  <2> QED
    BY <1>7, <2>1, <2>2, <2>3, <2>4, <2>5, <2>6 DEF PlainTaskCall
<1>8. ASSUME PlainCall PROVE PrecedenceStep \/ \E p \in Pri, u \in Unit : rot_rdq(p, u)
  <2>1. CASE \E t \in Task : PlainTaskCall(t)
    BY <1>7, <2>1
  <2>2. CASE dis_ter
    BY <1>3, <1>4, <1>5, <2>2 DEF dis_ter, TskCtxUnl
  <2>3. CASE dly_tsk
    BY <1>6, <2>3, WaitOrder DEF dly_tsk
  <2>4. CASE \E timed \in BOOLEAN : slp_tsk(timed)
    <3>1. PICK timed \in BOOLEAN : slp_tsk(timed)
      BY <2>4
    <3>2. CASE Return([K EXCEPT !.tcb[runtsk].wupque = FALSE])
      BY <1>3, <1>4, <1>5, <3>1, <3>2 DEF slp_tsk, CheckDispatch, TskCtxUnl
    <3>3. CASE Return(MakeWaitTmout(K, "SLP", timed))
      BY <1>6, <3>3, WaitOrder
    <3> QED
      BY <3>1, <3>2, <3>3 DEF slp_tsk
  <2>5. CASE loc_cpu \/ unl_cpu \/ IntEnter
    BY <1>2, <2>5 DEF loc_cpu, unl_cpu, IntEnter, kvars
  <2>6. CASE dis_dsp
    BY <1>3, <1>4, <1>5, <2>6 DEF dis_dsp, TskCtxUnl
  <2>7. CASE IntExit
    <3>1. Reaches(K)
      BY <2>7 DEF IntExit, Reaches
    <3> QED
      BY <3>1, CoreOrdered, FieldOrder DEF OrderedState
  <2> QED
    BY <1>8, <2>1, <2>2, <2>3, <2>4, <2>5, <2>6, <2>7 DEF PlainCall
<1>9. ASSUME NEW t \in Task, TaskCall(t) PROVE PrecedenceStep
  <2>1. ASSUME Return(TaskTerminate(K, t)) PROVE PrecedenceStep
    BY <1>6, <2>1, CoreOrdered, TerminateOrder
  <2>2. CASE \E p \in Pri : chg_pri(t, p)
    BY <2>2, PriorityOrder
  <2>3. CASE ras_ter(t)
    <3>1. CASE Return([K EXCEPT !.tcb[t].raster = TRUE])
      BY <1>3, <1>4, <3>1
    <3>2. CASE ~IsRunnable(tcb[t].tstat) /\ Return(RasTerWaiting(t))
      BY <1>6, <3>2, RasTerOrder
    <3> QED
      BY <2>1, <2>3, <3>1, <3>2 DEF ras_ter, RequestTermination
  <2>4. CASE ter_tsk(t)
    BY <2>1, <2>4 DEF ter_tsk
  <2>5. CASE rel_wai(t)
    <3>1. ~IsRunnable(tcb[t].tstat)
      BY <1>1, <2>5, StateFacts DEF rel_wai
    <3> QED
      BY <1>6, <2>5, <3>1, WakeOrder DEF rel_wai
  <2>6. CASE TimerExpires(t)
    <3>1. ~IsRunnable(tcb[t].tstat)
      BY <1>1, <2>6, StateFacts, TaskBefore DEF TimerExpires, TcbOK
    <3> QED
      BY <1>6, <2>6, <3>1, WakeOrder DEF TimerExpires
  <2> QED
    BY <1>9, <2>2, <2>3, <2>4, <2>5, <2>6 DEF TaskCall
<1>10. ASSUME SystemCall PROVE PrecedenceStep
  <2>1. CASE ext_tsk
    BY <2>1, SelfOrder DEF ext_tsk
  <2>2. CASE ena_ter
    <3>1. CASE TerminateSelf(K)
      BY <2>2, <3>1, SelfOrder DEF ena_ter, TskCtxUnl
    <3>2. CASE Return([K EXCEPT !.tcb[runtsk].enater = TRUE])
      BY <1>3, <1>4, <1>5, <2>2, <3>2 DEF ena_ter, TskCtxUnl
    <3> QED
      BY <2>2, <3>1, <3>2 DEF ena_ter
  <2>3. CASE ena_dsp
    <3>1. CASE EnableDispatch
      BY <2>3, <3>1, EnableOrder DEF ena_dsp
    <3>2. CASE UNCHANGED kvars
      BY <1>2, <3>2 DEF kvars
    <3> QED
      BY <2>3, <3>1, <3>2 DEF ena_dsp
  <2>4. CASE \E mask \in BOOLEAN : chg_ipm(mask)
    <3>1. PICK mask \in BOOLEAN : chg_ipm(mask)
      BY <2>4
    <3>2. CASE EnableDispatch
      BY <3>1, <3>2, EnableOrder DEF chg_ipm
    <3>3. CASE Becomes([K EXCEPT !.dspflg = FALSE])
      BY <1>3, <1>4, <1>5, <3>1, <3>3 DEF chg_ipm, TskCtxUnl
    <3> QED
      BY <3>1, <3>2, <3>3 DEF chg_ipm
  <2> QED
    BY <1>10, <2>1, <2>2, <2>3, <2>4 DEF SystemCall
<1> QED
  BY <1>2, <1>8, <1>9, <1>10 DEF Next, vars, kvars

\* Precedence in the ready queues is a strict order of runnable tasks.
LEMMA PrecedenceStrict ==
  ASSUME SInv, ReadyQueuesExact, ready \in [Unit -> [Pri -> Seq(Task)]],
         NEW t \in Task, NEW v \in Task, Before(ready, t, v)
  PROVE  IsRunnable(tcb[t].tstat) /\ ~Before(ready, v, t)
<1>1. \A u \in Unit, p \in Pri : \A i \in DOMAIN ready[u][p] :
        /\ IsRunnable(tcb[ready[u][p][i]].tstat)
        /\ UnitOf[ready[u][p][i]] = u /\ tcb[ready[u][p][i]].pri = p
  BY DEF ReadyQueuesExact
<1>2. \A u \in Unit, p \in Pri : \A i, j \in DOMAIN ready[u][p] :
        ready[u][p][i] = ready[u][p][j] => i = j
  BY DEF ReadyQueuesExact
<1>3. PICK u \in Unit, p \in Pri : \E i, j \in DOMAIN ready[u][p] :
        i < j /\ ready[u][p][i] = t /\ ready[u][p][j] = v
  BY DEF Before
<1>4. PICK i \in DOMAIN ready[u][p], j \in DOMAIN ready[u][p] :
        i < j /\ ready[u][p][i] = t /\ ready[u][p][j] = v
  BY <1>3
<1>5. IsRunnable(tcb[t].tstat)
  BY <1>1, <1>4
<1>6. ASSUME Before(ready, v, t) PROVE FALSE
  <2>1. PICK a \in Unit, b \in Pri : \E k, l \in DOMAIN ready[a][b] :
          k < l /\ ready[a][b][k] = v /\ ready[a][b][l] = t
    BY <1>6 DEF Before
  <2>2. PICK k \in DOMAIN ready[a][b], l \in DOMAIN ready[a][b] :
          k < l /\ ready[a][b][k] = v /\ ready[a][b][l] = t
    BY <2>1
  <2>3. a = u /\ b = p
    BY <1>1, <1>4, <2>2
  <2>4. k = j /\ l = i
    BY <1>2, <1>4, <2>2, <2>3
  <2>5. i \in Nat /\ j \in Nat
    <3>1. ready[u][p] \in Seq(Task)
      OBVIOUS
    <3> QED
      BY <3>1
  <2> QED
    BY <1>4, <2>2, <2>4, <2>5
<1> QED
  BY <1>5, <1>6

\* Among tasks of one priority precedence is first come first served: a task
\* falls behind another only if its queue is rotated, if its priority is set
\* again, or if it is terminated and restarted.
THEOREM PrecedenceKept == Spec => FirstComeFirstServed
<1>1. FullInv /\ [Next]_vars =>
        [\A t, v \in Task :
           Before(ready, t, v) /\ Before(ready', v, t) =>
             \/ \E p \in Pri, u \in Unit : rot_rdq(p, u)
             \/ \E p \in Pri : chg_pri(t, p)
             \/ tcb[t].actque /\ ~tcb'[t].actque]_vars
  <2> SUFFICES ASSUME FullInv, [Next]_vars, NEW t \in Task, NEW v \in Task,
                      Before(ready, t, v), Before(ready', v, t),
                      ~ \E p \in Pri, u \in Unit : rot_rdq(p, u)
               PROVE  \/ \E p \in Pri : chg_pri(t, p)
                      \/ tcb[t].actque /\ ~tcb'[t].actque
    OBVIOUS
  <2>1. IInv /\ SInv /\ PrecedenceStep
    BY NextOrder DEF FullInv
  <2>2. IsRunnable(tcb[t].tstat) /\ ~Before(ready, v, t)
    BY <2>1, CoreOrdered, QueuesOfInvariant, PrecedenceStrict DEF OrderedState
  <2>3. MayFall(t)
    BY <2>1, <2>2 DEF PrecedenceStep, NobodyBehind, OnlyBehind
  <2> QED
    BY <2>2, <2>3 DEF MayFall
<1> QED
  BY <1>1, InvariantHolds, PTL DEF Spec, FirstComeFirstServed
===============================================================================
