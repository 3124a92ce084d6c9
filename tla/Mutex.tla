------------------------------- MODULE Mutex -------------------------------
(***************************************************************************)
(* Mutexes (kernel/mutex.c), TA_TFIFO, TA_TPRI and TA_CEILING, composed    *)
(* with the task management calls whose handlers call into mutex.c through *)
(* mtxhook_check_ceilpri, mtxhook_scan_ceilmtx and mtxhook_release_all.    *)
(*                                                                         *)
(* The operators work on a record of the kernel state, k, and two fields:  *)
(* loctsk[m] (p_loctsk) and lastmtx[t], the list that starts at p_lastmtx  *)
(* and is linked by p_prevmtx, with the mutex locked last at its head.     *)
(***************************************************************************)
EXTENDS TaskKernel

CONSTANTS
  Mtx,       \* the mutexes, whose wait queues are in WObj
  CeilPri    \* the ceiling of each TA_CEILING mutex, NULL for the others

ASSUME MutexAssumption ==
  /\ Mtx \subseteq WObj
  /\ CeilPri \in [Mtx -> Pri \union {NULL}] /\ NULL \notin Pri
  /\ \A m \in Mtx : CeilPri[m] # NULL => m \in TPriObj

VARIABLES loctsk, lastmtx

mtxvars == <<loctsk, lastmtx>>
mvars   == <<vars, mtxvars>>

KM == [k |-> K, loctsk |-> loctsk, lastmtx |-> lastmtx]

OwnersBecome(s) == loctsk' = s.loctsk /\ lastmtx' = s.lastmtx
MtxBecomes(s)   == Becomes(s.k) /\ OwnersBecome(s)
MtxReturn(s)    == Return(s.k) /\ OwnersBecome(s)

MTX_CEILING(m) == CeilPri[m] # NULL

-----------------------------------------------------------------------------
(* Internal functions. *)

\* mutex_calc_priority
CalcPriority(s, t) ==
  LET ceilings == {CeilPri[m] : m \in {m \in Range(s.lastmtx[t]) : MTX_CEILING(m)}}
  IN  Min({s.k.tcb[t].bpri} \union ceilings)

\* mutex_check_ceilpri: no ceiling held or waited for is below bpri.
CheckCeilPri(t, bpri) ==
  LET awaited == {tcb[t].wobj} \intersect Mtx
  IN  \A m \in Range(lastmtx[t]) \union awaited :
        MTX_CEILING(m) => bpri >= CeilPri[m]

\* mutex_scan_ceilmtx
ScanCeilMtx(t) == \E m \in Range(lastmtx[t]) : MTX_CEILING(m)

\* mutex_drop_priority
DropPriority(s, t, m) ==
  IF MTX_CEILING(m) /\ CeilPri[m] = s.k.tcb[t].pri /\ CalcPriority(s, t) # s.k.tcb[t].pri
  THEN [s EXCEPT !.k = ChangePriority(s.k, t, CalcPriority(s, t), TRUE)]
  ELSE s

TakeOver(s, t, m) ==
  [s EXCEPT !.loctsk[m] = t, !.lastmtx[t] = <<m>> \o @]

\* mutex_acquire
Acquire(s, t, m) ==
  IF MTX_CEILING(m) /\ CeilPri[m] < s.k.tcb[t].pri
  THEN [TakeOver(s, t, m) EXCEPT !.k = ChangePriority(s.k, t, CeilPri[m], TRUE)]
  ELSE TakeOver(s, t, m)

\* The waiter t leaves the queue of m; the ceiling may raise it at once.
LeaveAsOwner(k, t, m) ==
  LET pri == IF MTX_CEILING(m) /\ CeilPri[m] < k.tcb[t].pri
             THEN CeilPri[m] ELSE k.tcb[t].pri
      k1  == [k EXCEPT !.wque[m] = Tail(@), !.tcb[t].wobj = NULL, !.tcb[t].pri = pri]
  IN  MakeNonWait(WaitDequeueTmevtb(k1, t), t)

Release_Free(s, m) ==
  LET t  == Head(s.k.wque[m])
      s1 == [s EXCEPT !.loctsk[m] = NULL]
  IN  IF s.k.wque[m] = << >> THEN s1
      ELSE [s1 EXCEPT !.k = WaitComplete([s.k EXCEPT !.wque[m] = Tail(@)], t)]

\* mutex_release: the head of the wait queue, if any, gets the mutex.
Release(s, m) ==
  LET t == Head(s.k.wque[m])
  IN  IF s.k.wque[m] = << >> THEN [s EXCEPT !.loctsk[m] = NULL]
      ELSE [TakeOver(s, t, m) EXCEPT !.k = LeaveAsOwner(s.k, t, m)]

\* mutex_release_all, from the mutex locked last to the first
ReleaseAll(s, t) ==
  LET list == s.lastmtx[t]
      released[n \in 0..Len(list)] ==
        IF n = 0 THEN s
        ELSE Release([released[n - 1] EXCEPT !.lastmtx[t] = Tail(@)], list[n])
  IN  released[Len(list)]

MtxTerminate_KeepsMutexes(s, t) ==
  [s EXCEPT !.k = BecomeDormant(LeaveQueues(s.k, t), t)]

\* task_terminate
MtxTerminate(s, t) ==
  LET s1 == ReleaseAll([s EXCEPT !.k = LeaveQueues(s.k, t)], t)
  IN  [s1 EXCEPT !.k = BecomeDormant(s1.k, t)]

-----------------------------------------------------------------------------
(* Service calls of mutex.c. *)

LockOK(m) ==
  /\ runtsk # loctsk[m]
  /\ MTX_CEILING(m) => tcb[runtsk].bpri >= CeilPri[m]

\* loc_mtx, and tloc_mtx with a positive timeout if `timed'. Taking a free
\* mutex does not dispatch: mutex.c:357 asserts that there is no need to.
loc_mtx(m, timed) ==
  /\ "loc_mtx" \in Api /\ CheckDispatch
  /\ timed => "tmout" \in Api
  /\ ~tcb[runtsk].raster /\ LockOK(m)
  /\ IF loctsk[m] = NULL
     THEN MtxBecomes(Acquire(KM, runtsk, m)) /\ UNCHANGED cpuvars
     ELSE MtxReturn([KM EXCEPT !.k = WObjMakeWait(K, m, timed)])

\* ploc_mtx may be called while dispatching is disabled.
ploc_mtx(m) ==
  /\ "ploc_mtx" \in Api /\ TskCtxUnl
  /\ LockOK(m) /\ loctsk[m] = NULL
  /\ MtxBecomes(Acquire(KM, runtsk, m))
  /\ UNCHANGED cpuvars

unl_mtx(m) ==
  /\ TskCtxUnl
  /\ lastmtx[runtsk] # << >> /\ m = Head(lastmtx[runtsk])
  /\ LET s == [KM EXCEPT !.lastmtx[runtsk] = Tail(@)]
     IN  MtxReturn(Release(DropPriority(s, runtsk, m), m))

ini_mtx(m) ==
  /\ "ini_mtx" \in Api /\ TskCtxUnl
  /\ LET t == loctsk[m]
         s == [KM EXCEPT !.k = InitWaitQueue(K, m)]
     IN  IF t = NULL THEN MtxReturn(s)
         ELSE MtxReturn(DropPriority([s EXCEPT !.loctsk[m] = NULL,
                                               !.lastmtx[t] = Without(@, m)], t, m))

-----------------------------------------------------------------------------
(* The task management calls that reach mutex.c. *)

MtxChgPri_CeilingIgnored(t, newbpri) ==
  /\ "chg_pri" \in Api /\ TskCtxUnl
  /\ ~IsDormant(tcb[t].tstat) /\ CheckCeilPri(t, newbpri)
  /\ Return(ChangePriority([K EXCEPT !.tcb[t].bpri = newbpri], t, newbpri, FALSE))
  /\ UNCHANGED mtxvars

MtxChgPri(t, newbpri) ==
  /\ "chg_pri" \in Api /\ TskCtxUnl
  /\ ~IsDormant(tcb[t].tstat)
  /\ CheckCeilPri(t, newbpri)
  /\ LET k == [K EXCEPT !.tcb[t].bpri = newbpri]
     IN  IF ScanCeilMtx(t) THEN Becomes(k) /\ UNCHANGED cpuvars
         ELSE Return(ChangePriority(k, t, newbpri, FALSE))
  /\ UNCHANGED mtxvars

MtxTerTsk(t) == TerTskOK(t) /\ MtxReturn(MtxTerminate(KM, t))

MtxRasTer(t) ==
  /\ RasTerOK(t)
  /\ \/ tcb[t].enater /\ MtxReturn(MtxTerminate(KM, t))
     \/ RequestTermination(t) /\ UNCHANGED mtxvars

\* k is the kernel state before the termination of the running task.
MtxTerminateSelf(k) ==
  LET s == MtxTerminate([KM EXCEPT !.k = k], runtsk)
  IN  Becomes(Dispatch(s.k)) /\ OwnersBecome(s)

MtxExtTsk ==
  /\ "ext_tsk" \in Api /\ ~intnest /\ runtsk # NULL
  /\ IF dspflg
     THEN MtxTerminateSelf(K) /\ UNCHANGED <<enadsp, ipm>>
     ELSE MtxTerminateSelf(SetDspflg(K)) /\ enadsp' = TRUE /\ ipm' = FALSE
  /\ lock' = FALSE
  /\ UNCHANGED intnest

MtxEnaTer ==
  /\ "ena_ter" \in Api /\ TskCtxUnl
  /\ IF tcb[runtsk].raster /\ dspflg
     THEN MtxTerminateSelf(K) /\ UNCHANGED cpuvars
     ELSE Return([K EXCEPT !.tcb[runtsk].enater = TRUE]) /\ UNCHANGED mtxvars

MtxEnaDsp_RasterIgnored ==
  /\ "dis_dsp" \in Api /\ TskCtxUnl /\ ~ipm
  /\ enadsp' = TRUE
  /\ Becomes(DispatchIfNeeded(SetDspflg(K))) /\ UNCHANGED mtxvars
  /\ UNCHANGED <<ipm, lock, intnest>>

\* ena_dsp while the interrupt priority mask is TIPM_ENAALL
MtxEnaDsp ==
  /\ "dis_dsp" \in Api /\ TskCtxUnl /\ ~ipm
  /\ enadsp' = TRUE
  /\ LET k == SetDspflg(K)
     IN  IF tcb[runtsk].raster /\ tcb[runtsk].enater
         THEN MtxTerminateSelf(k)
         ELSE Becomes(DispatchIfNeeded(k)) /\ UNCHANGED mtxvars
  /\ UNCHANGED <<ipm, lock, intnest>>

-----------------------------------------------------------------------------
MtxInit == Init /\ loctsk = [m \in Mtx |-> NULL] /\ lastmtx = [t \in Task |-> << >>]

MtxTaskCall(t) ==
  \/ \E p \in Pri : MtxChgPri(t, p)
  \/ MtxTerTsk(t) \/ MtxRasTer(t)
  \/ (rel_wai(t) \/ TimerExpires(t)) /\ UNCHANGED mtxvars

MtxCall(m) ==
  \/ \E timed \in BOOLEAN : loc_mtx(m, timed)
  \/ ploc_mtx(m) \/ unl_mtx(m) \/ ini_mtx(m)

MtxNext ==
  \/ PlainCall /\ UNCHANGED mtxvars
  \/ \E t \in Task : MtxTaskCall(t)
  \/ \E m \in Mtx : MtxCall(m)
  \/ MtxExtTsk \/ MtxEnaTer \/ MtxEnaDsp

MtxSpec == MtxInit /\ [][MtxNext]_mvars

-----------------------------------------------------------------------------
(* Properties. *)

\* No mutex is twice in the list of a task, p_loctsk and the lists agree whatever
\* ends a lock (unl_mtx, ini_mtx, the end of its owner), a task that ended owns
\* nothing, and a free mutex leaves nobody waiting.
OwnershipExact ==
  /\ \A t \in Task : /\ IsDormant(tcb[t].tstat) => lastmtx[t] = << >>
                     /\ Len(lastmtx[t]) = Cardinality(Range(lastmtx[t]))
  /\ \A m \in Mtx : /\ \A t \in Task : loctsk[m] = t <=> m \in Range(lastmtx[t])
                    /\ loctsk[m] = NULL => wque[m] = << >>

\* The current priority, which mutex.c updates step by step, is the highest of
\* the base priority and the ceilings of the mutexes held; and the base priority
\* is above the ceiling of no mutex that the task holds or waits for: chg_pri
\* during the wait cannot bypass the check of loc_mtx.
PriorityIsCeiling ==
  /\ \A t \in Task : tcb[t].pri = CalcPriority(KM, t)
  /\ \A t \in Task : \A m \in Range(lastmtx[t]) \union ({tcb[t].wobj} \intersect Mtx) :
       MTX_CEILING(m) => tcb[t].bpri >= CeilPri[m]

\* Mutexes are handed over in queue order: a mutex that leaves its owner goes
\* to the first waiter, or is free if there is none or all were dismissed.
HandedToFirst ==
  [][\A m \in Mtx : loctsk[m] # NULL /\ loctsk'[m] # loctsk[m] =>
       IF wque[m] = << >> THEN loctsk'[m] = NULL
       ELSE loctsk'[m] = Head(wque[m]) \/ ini_mtx(m)]_mvars
=============================================================================
