---------------------------- MODULE DcreSemaphore -----------------------------
(* Semaphores with dynamic creation (extension/dcre/kernel/semaphore.c). *)
EXTENDS Semaphore, DynamicObjects

\* A semaphore has one queue, with its name.
ASSUME DcreSemAssumption ==
  /\ "sem" \in DOMAIN Dyn /\ Range(Dyn["sem"]) \subseteq Sem
  /\ \A x \in Sem, y \in DynId : x \notin {<<"S", y>>, <<"R", y>>}
  /\ \A x \in Range(Dyn["sem"]) : {<<"S", x>>, <<"R", x>>} \intersect WObj = {}

DcreSemInit == SemInit /\ InitDyn

acre_sem ==
  /\ "acre" \in Api /\ TskCtxUnl
  /\ Create("sem", 0)
  /\ semcnt' = [semcnt EXCEPT ![NewId("sem")] = ISemCnt[NewId("sem")]]
  /\ UNCHANGED vars

del_sem_WaitersKept(x) ==
  /\ "del" \in Api /\ TskCtxUnl
  /\ Unregister("sem", x)
  /\ UNCHANGED <<vars, semcnt, mpk, area>>

del_sem(x) ==
  /\ "del" \in Api /\ TskCtxUnl
  /\ Unregister("sem", x)
  /\ Return(InitWaitQueue(K, x))
  /\ UNCHANGED <<semcnt, mpk, area>>

\* The other calls fail with E_NOEXS for a semaphore that does not exist.
dcre_sig_sem(x)        == Exists(x) /\ sig_sem(x)
dcre_wai_sem(x, timed) == Exists(x) /\ wai_sem(x, timed)
dcre_pol_sem(x)        == Exists(x) /\ pol_sem(x)
dcre_ini_sem(x)        == Exists(x) /\ ini_sem(x)

DcreSemCall(x) ==
  \/ /\ \/ dcre_sig_sem(x) \/ dcre_pol_sem(x) \/ dcre_ini_sem(x)
        \/ \E timed \in BOOLEAN : dcre_wai_sem(x, timed)
     /\ UNCHANGED dynvars
  \/ del_sem(x)

\* Of all the other calls.
SemKept == UNCHANGED <<semcnt, dynvars>>

DcreSemNext ==
  \/ Next /\ SemKept
  \/ acre_sem
  \/ \E x \in Sem : DcreSemCall(x)

DcreSemSpec == DcreSemInit /\ [][DcreSemNext]_<<svars, dynvars>>
================================================================================
