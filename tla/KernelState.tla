------------------------------ MODULE KernelState ------------------------------
(***************************************************************************)
(* The data of the kernel core and the internal operations on it:          *)
(* kernel/task.[ch] (ready queues, scheduling units, task states) and      *)
(* kernel/wait.[ch] (wait queues and wait release).                        *)
(*                                                                         *)
(* The internal C functions are called one after another inside one        *)
(* CPU-locked critical section, so each is an operator that takes a kernel *)
(* state `s' and returns the next one; the modules of the service calls    *)
(* compose them and make one step of the result.                           *)
(*                                                                         *)
(* A definition X_Why is a plausible mistake in X, which a run must detect. *)
(***************************************************************************)
EXTENDS Integers, Sequences, FiniteSets, SequencesExt

CONSTANTS
  Task,      \* the task control blocks
  NULL,      \* the null pointer
  NPri,      \* TNUM_TPRI; priority 1 is the highest
  Unit,      \* the scheduling units (SCHEDCB)
  KERNEL,    \* &schedcb_kernel
  IDLE,      \* &schedcb_idle
  UnitOf,    \* p_tcb->p_schedcb
  IniPri,    \* p_tcb->p_tinib->ipriority
  WObj,      \* the wait queues of the synchronisation objects
  TPriObj    \* the wait queues that are kept in task priority order

Pri == 1..NPri

ASSUME KernelAssumption ==
  /\ NULL \notin Task
  /\ NPri \in Nat \ {0}
  /\ KERNEL \in Unit /\ IDLE \in Unit /\ KERNEL # IDLE
  /\ UnitOf \in [Task -> Unit]
  /\ IniPri \in [Task -> Pri]
  /\ TPriObj \subseteq WObj /\ NULL \notin WObj

(***************************************************************************)
(* tstat is a set of flags, as the byte of the TCB is: {} is TS_DORMANT.   *)
(* "SLP" and "DLY" wait for no object; "OBJ" waits in the queue tcb.wobj.  *)
(***************************************************************************)
WaitFlag == {"SLP", "DLY", "OBJ"}
TStat    == {{}, {"RUNNABLE"}, {"SUSPENDED"}}
              \union {{f} : f \in WaitFlag} \union {{f, "SUSPENDED"} : f \in WaitFlag}

TCB == [tstat: TStat, bpri: Pri, pri: Pri, actque: BOOLEAN, wupque: BOOLEAN,
        raster: BOOLEAN, enater: BOOLEAN, wobj: WObj \union {NULL}]

KState ==
  [tcb:      [Task -> TCB],
   ready:    [Unit -> [Pri -> Seq(Task)]],        \* ready_queue
   primap:   [Unit -> SUBSET Pri],                \* ready_primap
   predtsk:  [Unit -> Task \union {NULL}],        \* p_predtsk
   wque:     [WObj -> Seq(Task)],                 \* wait_queue
   tmevt:    SUBSET Task,                         \* tasks with a registered TMEVTB
   runtsk:   Task \union {NULL},                  \* p_runtsk
   schedtsk: Task \union {NULL},                  \* p_schedtsk
   twdsched: Unit,                                \* p_twdsched
   idlesched: Unit,                               \* p_idlesched
   dspflg:   BOOLEAN]

IsDormant(tstat)   == tstat = {}
IsRunnable(tstat)  == "RUNNABLE" \in tstat
IsSuspended(tstat) == "SUSPENDED" \in tstat
IsWaiting(tstat)   == tstat \intersect WaitFlag # {}

-----------------------------------------------------------------------------
(* Queues. *)

\* queue_delete of t, which is in q.
Without(q, t) ==
  [i \in 1..(Len(q) - 1) |-> IF \A j \in 1..i : q[j] # t THEN q[i] ELSE q[i + 1]]

\* queue_insert_tpri: behind every task whose priority is not lower.
InsertTPri(q, t, tcb) ==
  LET ahead(n) == \A j \in 1..n : tcb[q[j]].pri <= tcb[t].pri
  IN  [i \in 1..(Len(q) + 1) |->
         IF i <= Len(q) /\ ahead(i) THEN q[i]
         ELSE IF ahead(i - 1) THEN t ELSE q[i - 1]]

WObjInsert_ByPriority(q, w, t, tcb) == InsertTPri(q, t, tcb)

WObjInsert(q, w, t, tcb) ==
  IF w \in TPriObj THEN InsertTPri(q, t, tcb) ELSE Append(q, t)

-----------------------------------------------------------------------------
(* Scheduling. *)

Selected_UserWinsTie(s) ==
  LET kernel == s.predtsk[KERNEL]
      twd    == s.predtsk[s.twdsched]
  IN  IF twd # NULL /\ (kernel = NULL \/ s.tcb[twd].pri <= s.tcb[kernel].pri) THEN twd
      ELSE IF kernel # NULL THEN kernel ELSE s.predtsk[s.idlesched]

\* The task update_schedtsk selects: the kernel domain wins a tie.
Selected(s) ==
  LET kernel == s.predtsk[KERNEL]
      twd    == s.predtsk[s.twdsched]
  IN  IF kernel # NULL
      THEN IF twd # NULL /\ s.tcb[twd].pri < s.tcb[kernel].pri
           THEN twd ELSE kernel
      ELSE IF twd # NULL THEN twd ELSE s.predtsk[s.idlesched]

UpdateSchedtsk(s) == [s EXCEPT !.schedtsk = Selected(s)]

UpdateIfDsp_Always(s) == UpdateSchedtsk(s)

\* if (dspflg) update_schedtsk();
UpdateIfDsp(s) == IF s.dspflg THEN UpdateSchedtsk(s) ELSE s

\* search_predtsk: the head of the queue of the lowest bit of the bitmap.
SearchPredtsk(s, u) ==
  Head(s.ready[u][CHOOSE p \in s.primap[u] : \A p2 \in s.primap[u] : p <= p2])

SetPredtsk(s, u, t) == UpdateIfDsp([s EXCEPT !.predtsk[u] = t])

MakeRunnable(s, t) ==
  LET u  == UnitOf[t]
      p  == s.tcb[t].pri
      s1 == [s EXCEPT !.ready[u][p] = Append(@, t),
                      !.primap[u] = @ \union {p}]
  IN  IF s.predtsk[u] = NULL THEN SetPredtsk(s1, u, t)
      ELSE IF p < s.tcb[s.predtsk[u]].pri THEN SetPredtsk(s1, u, t)
      ELSE s1

MakeNonRunnable(s, t) ==
  LET u  == UnitOf[t]
      p  == s.tcb[t].pri
      q  == Without(s.ready[u][p], t)
      s1 == [s EXCEPT !.ready[u][p] = q,
                      !.primap[u] = IF q = << >> THEN @ \ {p} ELSE @]
  IN  IF s.predtsk[u] # t THEN s1
      ELSE IF q # << >> THEN SetPredtsk(s1, u, Head(q))
      ELSE IF s1.primap[u] = {} THEN SetPredtsk(s1, u, NULL)
      ELSE SetPredtsk(s1, u, SearchPredtsk(s1, u))

MakeDormant_KeepsWupque(s, t) ==
  [s EXCEPT !.tcb[t] = [@ EXCEPT !.tstat = {}, !.bpri = IniPri[t], !.pri = IniPri[t],
                                 !.raster = FALSE, !.enater = TRUE]]

MakeDormant(s, t) ==
  [s EXCEPT !.tcb[t] = [@ EXCEPT !.tstat = {}, !.bpri = IniPri[t],
                                 !.pri = IniPri[t], !.wupque = FALSE,
                                 !.raster = FALSE, !.enater = TRUE]]

MakeActive(s, t) == MakeRunnable([s EXCEPT !.tcb[t].tstat = {"RUNNABLE"}], t)

WObjChangePriority_None(s, t) == s

\* wobj_change_priority
WObjChangePriority(s, t) ==
  LET w == s.tcb[t].wobj
  IN  IF w \in TPriObj
      THEN [s EXCEPT !.wque[w] = InsertTPri(Without(@, t), t, s.tcb)]
      ELSE s

\* The part of change_priority that moves a runnable task in its ready queue.
Requeue(s, t, oldpri, newpri, mtxmode) ==
  LET u   == UnitOf[t]
      old == Without(s.ready[u][oldpri], t)
      s1  == [s EXCEPT !.ready[u][oldpri] = old,
                       !.primap[u] = IF old = << >> THEN @ \ {oldpri} ELSE @]
  IN  [s1 EXCEPT !.ready[u][newpri] = IF mtxmode THEN <<t>> \o @ ELSE Append(@, t),
                 !.primap[u] = @ \union {newpri}]

ChangePriority_NoSearch(s, t, newpri, mtxmode) ==
  LET s1 == Requeue([s EXCEPT !.tcb[t].pri = newpri], t, s.tcb[t].pri, newpri, mtxmode)
  IN  IF IsRunnable(s.tcb[t].tstat) THEN UpdateIfDsp(s1) ELSE s

ChangePriority(s, t, newpri, mtxmode) ==
  LET u      == UnitOf[t]
      oldpri == s.tcb[t].pri
      s1     == [s EXCEPT !.tcb[t].pri = newpri]
      s2     == Requeue(s1, t, oldpri, newpri, mtxmode)
      top    == s.predtsk[u]
  IN  IF ~IsRunnable(s.tcb[t].tstat)
      THEN IF "OBJ" \in s.tcb[t].tstat THEN WObjChangePriority(s1, t) ELSE s1
      ELSE IF top = t
           THEN SetPredtsk(s2, u, IF newpri >= oldpri THEN SearchPredtsk(s2, u) ELSE t)
           ELSE IF newpri < s.tcb[top].pri \/ (mtxmode /\ newpri = s.tcb[top].pri)
                THEN SetPredtsk(s2, u, t)
                ELSE s2

RotateReadyQueue(s, p, u) ==
  LET q  == s.ready[u][p]
      r  == Append(Tail(q), Head(q))
      s1 == [s EXCEPT !.ready[u][p] = r]
  IN  IF Len(q) < 2 THEN s
      ELSE IF s.predtsk[u] = Head(q) THEN SetPredtsk(s1, u, Head(r))
      ELSE s1

-----------------------------------------------------------------------------
(* Waiting. *)

MakeWait_AddsFlag(s, flag) ==
  MakeNonRunnable([s EXCEPT !.tcb[s.runtsk].tstat = @ \union {flag}], s.runtsk)

\* make_wait: the running task leaves the ready queue; it waits for `flag'.
MakeWait(s, flag) ==
  MakeNonRunnable([s EXCEPT !.tcb[s.runtsk].tstat = {flag}], s.runtsk)

\* make_wait_tmout: `timed' is FALSE for TMO_FEVR.
MakeWaitTmout(s, flag, timed) ==
  LET s1 == MakeWait(s, flag)
  IN  IF timed THEN [s1 EXCEPT !.tmevt = @ \union {s.runtsk}] ELSE s1

\* wobj_make_wait, wobj_make_wait_tmout
WObjMakeWait(s, w, timed) ==
  LET t == s.runtsk
  IN  [MakeWaitTmout(s, "OBJ", timed) EXCEPT
         !.wque[w] = WObjInsert(@, w, t, s.tcb),
         !.tcb[t].wobj = w]

MakeNonWait(s, t) ==
  IF IsSuspended(s.tcb[t].tstat)
  THEN [s EXCEPT !.tcb[t].tstat = {"SUSPENDED"}]
  ELSE MakeRunnable([s EXCEPT !.tcb[t].tstat = {"RUNNABLE"}], t)

WaitDequeueWObj(s, t) ==
  LET w == s.tcb[t].wobj
  IN  IF "OBJ" \in s.tcb[t].tstat
      THEN [s EXCEPT !.wque[w] = Without(@, t), !.tcb[t].wobj = NULL]
      ELSE s

WaitDequeueTmevtb(s, t) == [s EXCEPT !.tmevt = @ \ {t}]

WaitComplete_KeepsTimer(s, t) == MakeNonWait([s EXCEPT !.tcb[t].wobj = NULL], t)

\* wait_complete: the caller has taken the task off its wait queue.
WaitComplete(s, t) ==
  MakeNonWait(WaitDequeueTmevtb([s EXCEPT !.tcb[t].wobj = NULL], t), t)

\* init_wait_queue: every waiter leaves its queue and is released (E_DLT).
InitWaitQueue(s, w) ==
  LET q == s.wque[w]
      released[n \in 0..Len(q)] ==
        IF n = 0 THEN s
        ELSE WaitComplete([released[n - 1] EXCEPT !.wque[w] = Tail(@)], q[n])
  IN  released[Len(q)]

\* wait_tmout and wait_tmout_ok: the callback of the time event of task t.
WaitTmout(s, t) ==
  MakeNonWait(WaitDequeueWObj(WaitDequeueTmevtb(s, t), t), t)

-----------------------------------------------------------------------------
(* Termination: task_terminate up to, and from, the release of the mutexes. *)

LeaveQueues(s, t) ==
  IF IsRunnable(s.tcb[t].tstat) THEN MakeNonRunnable(s, t)
  ELSE IF IsWaiting(s.tcb[t].tstat) THEN WaitDequeueTmevtb(WaitDequeueWObj(s, t), t)
  ELSE s

BecomeDormant(s, t) ==
  LET s1 == MakeDormant(s, t)
  IN  IF s.tcb[t].actque
      THEN MakeActive([s1 EXCEPT !.tcb[t].actque = FALSE], t)
      ELSE s1

\* task_terminate of a task that holds no mutex.
TaskTerminate(s, t) == BecomeDormant(LeaveQueues(s, t), t)

\* dispatcher_0
Dispatch(s) == [s EXCEPT !.runtsk = s.schedtsk]
=============================================================================
