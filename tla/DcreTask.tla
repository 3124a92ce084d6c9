------------------------------- MODULE DcreTask -------------------------------
(***************************************************************************)
(* Tasks and mutexes with dynamic creation (extension/dcre/kernel:         *)
(* task_manage.c, task_term.c, task_sync.c, mutex.c).  A task that does    *)
(* not exist has a control block like a dormant one; no call reaches it.   *)
(***************************************************************************)
EXTENDS Mutex, DynamicObjects

\* The IDs of tasks are no IDs of mutexes, and the task that the start of the
\* kernel activates is a static one.
ASSUME DcreTaskAssumption ==
  /\ {"tsk", "mtx"} \subseteq DOMAIN Dyn
  /\ Range(Dyn["tsk"]) \subseteq Task /\ Range(Dyn["mtx"]) \subseteq Mtx
  /\ Task \intersect Mtx = {} /\ Main \notin DynId

dtvars == <<mvars, dynvars>>

DtInit == MtxInit /\ InitDyn

\* A dormant task, which TA_ACT makes active; the caller supplies the stack, of
\* one word, if `own'.
acre_tsk(act, own) ==
  /\ "acre" \in Api /\ TskCtxUnl
  /\ Create("tsk", IF own THEN 0 ELSE 1)
  /\ LET t == NewId("tsk")
         k == MakeDormant([K EXCEPT !.tcb[t].actque = FALSE], t)
     IN  /\ Return(IF act THEN MakeActive(k, t) ELSE k)
         /\ loctsk' = loctsk /\ lastmtx' = [lastmtx EXCEPT ![t] = << >>]

del_tsk_AnyState(t) ==
  /\ "del" \in Api /\ TskCtxUnl
  /\ Unregister("tsk", t) /\ FreeArea(t)
  /\ UNCHANGED mvars

del_tsk(t) ==
  /\ "del" \in Api /\ TskCtxUnl
  /\ IsDormant(tcb[t].tstat)
  /\ Unregister("tsk", t) /\ FreeArea(t)
  /\ UNCHANGED mvars

\* The calls with a task ID fail with E_NOEXS for a task that does not exist.
dcre_act_tsk(t)    == Exists(t) /\ act_tsk(t)
dcre_can_act(t)    == Exists(t) /\ can_act(t)
dcre_chg_pri(t, p) == Exists(t) /\ MtxChgPri(t, p)
dcre_ras_ter(t)    == Exists(t) /\ MtxRasTer(t)
dcre_ter_tsk(t)    == Exists(t) /\ MtxTerTsk(t)
dcre_wup_tsk(t)    == Exists(t) /\ wup_tsk(t)
dcre_can_wup(t)    == Exists(t) /\ can_wup(t)
dcre_rel_wai(t)    == Exists(t) /\ rel_wai(t)
dcre_sus_tsk(t)    == Exists(t) /\ sus_tsk(t)
dcre_rsm_tsk(t)    == Exists(t) /\ rsm_tsk(t)

acre_mtx ==
  /\ "acre" \in Api /\ TskCtxUnl
  /\ Create("mtx", 0)
  /\ loctsk' = [loctsk EXCEPT ![NewId("mtx")] = NULL]
  /\ UNCHANGED <<vars, lastmtx>>

\* Nothing is done about a task that holds the mutex, so it is only allowed with
\* "del_locked".
del_mtx(m) ==
  /\ "del" \in Api /\ TskCtxUnl
  /\ loctsk[m] # NULL => "del_locked" \in Api
  /\ Unregister("mtx", m) /\ UNCHANGED <<mpk, area>>
  /\ Return(InitWaitQueue(K, m)) /\ UNCHANGED mtxvars

dcre_loc_mtx(m, timed) == Exists(m) /\ loc_mtx(m, timed)
dcre_ploc_mtx(m)       == Exists(m) /\ ploc_mtx(m)
dcre_unl_mtx(m)        == Exists(m) /\ unl_mtx(m)
dcre_ini_mtx(m)        == Exists(m) /\ ini_mtx(m)

DcrePlainCall(t) ==
  \/ dcre_act_tsk(t) \/ dcre_can_act(t) \/ dcre_wup_tsk(t) \/ dcre_can_wup(t)
  \/ dcre_rel_wai(t) \/ dcre_sus_tsk(t) \/ dcre_rsm_tsk(t) \/ TimerExpires(t)

\* Those of the calls that change neither the objects nor the owners of mutexes.
DcreTaskCall(t) ==
  /\ \/ DcrePlainCall(t) /\ UNCHANGED mtxvars
     \/ \E p \in Pri : dcre_chg_pri(t, p)
     \/ dcre_ras_ter(t) \/ dcre_ter_tsk(t)
  /\ UNCHANGED dynvars

DcreMtxCall(m) ==
  /\ \/ \E timed \in BOOLEAN : dcre_loc_mtx(m, timed)
     \/ dcre_ploc_mtx(m) \/ dcre_unl_mtx(m) \/ dcre_ini_mtx(m)
  /\ UNCHANGED dynvars

DcreCreate ==
  \/ \E act, own \in BOOLEAN : acre_tsk(act, own)
  \/ \E t \in Task : del_tsk(t)
  \/ acre_mtx
  \/ \E m \in Mtx : del_mtx(m)

DtNext ==
  \/ \E t \in Task : DcreTaskCall(t)
  \/ \E m \in Mtx : DcreMtxCall(m)
  \/ (MtxExtTsk \/ MtxEnaTer) /\ UNCHANGED dynvars
  \/ (dis_ter \/ IntEnter \/ IntExit) /\ UNCHANGED <<mtxvars, dynvars>>
  \/ DcreCreate

DtSpec == DtInit /\ [][DtNext]_dtvars

-----------------------------------------------------------------------------
(* Properties. *)

\* Nothing refers to a task or a mutex that does not exist: such a task is in no
\* queue and holds no mutex, and nobody holds or awaits such a mutex.
\* task.h:266 "p_lastmtx: the mutex locked last", mutex.h:74 "p_loctsk: the task that
\* locks the mutex".
NothingDangles ==
  \A x \in DynId \ exist :
    /\ x \in Task => IsDormant(tcb[x].tstat) /\ lastmtx[x] = << >>
    /\ x \in Mtx  => wque[x] = << >> /\ \A t \in Task : x \notin Range(lastmtx[t])
================================================================================
