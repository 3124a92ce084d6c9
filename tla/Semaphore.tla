------------------------------- MODULE Semaphore -------------------------------
(***************************************************************************)
(* Semaphores (kernel/semaphore.c), TA_TFIFO and TA_TPRI, composed with    *)
(* all the calls of TaskKernel, which may take a waiting task away at any  *)
(* time (time-out, rel_wai, termination, suspension, change of priority).  *)
(***************************************************************************)
EXTENDS TaskKernel

CONSTANTS
  Sem,       \* the semaphores, whose wait queues are in WObj
  ISemCnt,   \* p_seminib->isemcnt
  MaxSem     \* p_seminib->maxsem

ASSUME SemaphoreAssumption ==
  /\ Sem \subseteq WObj
  /\ MaxSem \in [Sem -> Nat \ {0}]
  /\ ISemCnt \in [Sem -> Nat]
  /\ \A x \in Sem : ISemCnt[x] <= MaxSem[x]

VARIABLE semcnt

svars == <<vars, semcnt>>

-----------------------------------------------------------------------------
sig_sem_CountsAlways(x) ==
  /\ "sig_sem" \in Api /\ Unl /\ semcnt[x] < MaxSem[x]
  /\ semcnt' = [semcnt EXCEPT ![x] = @ + 1]
  /\ IF wque[x] = << >> THEN UNCHANGED vars
     ELSE Return(WaitComplete([K EXCEPT !.wque[x] = Tail(@)], Head(wque[x])))

sig_sem(x) ==
  /\ "sig_sem" \in Api /\ Unl
  /\ \/ /\ wque[x] # << >>
        /\ Return(WaitComplete([K EXCEPT !.wque[x] = Tail(@)], Head(wque[x])))
        /\ UNCHANGED semcnt
     \/ /\ wque[x] = << >> /\ semcnt[x] < MaxSem[x]
        /\ semcnt' = [semcnt EXCEPT ![x] = @ + 1]
        /\ UNCHANGED vars

\* wai_sem, and twai_sem with a positive timeout if `timed'.
wai_sem(x, timed) ==
  /\ "wai_sem" \in Api /\ CheckDispatch
  /\ timed => "tmout" \in Api
  /\ ~tcb[runtsk].raster
  /\ \/ /\ semcnt[x] >= 1
        /\ semcnt' = [semcnt EXCEPT ![x] = @ - 1]
        /\ UNCHANGED vars
     \/ /\ semcnt[x] = 0
        /\ Return(WObjMakeWait(K, x, timed))
        /\ UNCHANGED semcnt

pol_sem(x) ==
  /\ "pol_sem" \in Api /\ TskCtxUnl
  /\ semcnt[x] >= 1
  /\ semcnt' = [semcnt EXCEPT ![x] = @ - 1]
  /\ UNCHANGED vars

ini_sem(x) ==
  /\ "ini_sem" \in Api /\ TskCtxUnl
  /\ Return(InitWaitQueue(K, x))
  /\ semcnt' = [semcnt EXCEPT ![x] = ISemCnt[x]]

-----------------------------------------------------------------------------
SemInit == Init /\ semcnt = ISemCnt

SemCall(x) ==
  \/ sig_sem(x) \/ pol_sem(x) \/ ini_sem(x)
  \/ \E timed \in BOOLEAN : wai_sem(x, timed)

SemNext == (Next /\ UNCHANGED semcnt) \/ \E x \in Sem : SemCall(x)

SemSpec == SemInit /\ [][SemNext]_svars

\* Interrupts keep coming and their handlers end; the application goes on
\* signalling semaphores (from tasks or handlers).
SemFairness ==
  /\ WF_svars(IntEnter /\ UNCHANGED semcnt) /\ WF_svars(IntExit /\ UNCHANGED semcnt)
  /\ \A x \in Sem : SF_svars(sig_sem(x))

SemFairSpec == SemSpec /\ SemFairness

-----------------------------------------------------------------------------
(* Properties. *)

\* No task waits for a unit that is free, whatever took tasks off the queue or
\* units back: a signal is never lost while a task waits.
NobodyWaitsForFreeUnit == \A x \in Sem : semcnt[x] > 0 => wque[x] = << >>

\* The free units, less the tasks that wait, are the abstract counters:
\* semaphores implement CountingSemaphore.
Abstract == INSTANCE CountingSemaphore
              WITH free <- [x \in Sem |-> semcnt[x] - Len(wque[x])]

UnitsConserved == Abstract!Spec

Awaits(t, x) == tcb[t].wobj = x

\* A task that waits for a TA_TFIFO semaphore is not overtaken for ever: as long
\* as units are released, its wait ends.
FifoNeverStarves ==
  \A t \in Task, x \in Sem \ TPriObj : Awaits(t, x) ~> ~Awaits(t, x)
=============================================================================
