----------------------------- MODULE DcrePriDataq -----------------------------
(* Priority data queues with dynamic creation (extension/dcre/kernel/pridataq.c). *)
EXTENDS PriDataq, DynamicObjects

\* A priority data queue has two queues, whose names are not those of objects.
ASSUME DcrePdqAssumption ==
  /\ "pdq" \in DOMAIN Dyn /\ Range(Dyn["pdq"]) \subseteq Pdq
  /\ \A d \in Pdq : {SQ(d), RQ(d)} \intersect DynId = {}
  /\ Range(Dyn["pdq"]) \intersect WObj = {}

DcrePdqInit == PdqInit /\ InitDyn

\* The caller supplies the cells if `own'.
acre_pdq(own) ==
  /\ "acre" \in Api /\ TskCtxUnl
  /\ own \/ "malloc_pdq" \in Api
  /\ free["pdq"] # << >>
  /\ LET d == NewId("pdq")
     IN  /\ Create("pdq", IF own THEN 0 ELSE PdqCnt[d])
         /\ pdqcb' = [pdqcb EXCEPT ![d] = EmptyPdq(d)]
  /\ UNCHANGED <<vars, srvars>>

\* Unlike the other calls of its kind it does not return the memory.
del_pdq(d) ==
  /\ "del" \in Api /\ TskCtxUnl
  /\ Unregister("pdq", d) /\ UNCHANGED <<mpk, area>>
  /\ Return(InitWaitQueue(InitWaitQueue(K, SQ(d)), RQ(d)))
  /\ PdqKept

dcre_snd_pdq(d, v, timed) == Exists(d) /\ snd_pdq(d, v, timed)
dcre_psnd_pdq(d, v)       == Exists(d) /\ psnd_pdq(d, v)
dcre_rcv_pdq(d, timed)    == Exists(d) /\ rcv_pdq(d, timed)
dcre_prcv_pdq(d)          == Exists(d) /\ prcv_pdq(d)
dcre_ini_pdq(d)           == Exists(d) /\ ini_pdq(d)

DcrePdqCall(d) ==
  /\ \/ \E v \in Datum : \/ dcre_psnd_pdq(d, v)
                          \/ \E timed \in BOOLEAN : dcre_snd_pdq(d, v, timed)
     \/ \E timed \in BOOLEAN : dcre_rcv_pdq(d, timed)
     \/ dcre_prcv_pdq(d) \/ dcre_ini_pdq(d)
  /\ UNCHANGED dynvars

DcrePdqNext ==
  \/ Next /\ PdqKept /\ UNCHANGED dynvars
  \/ \E own \in BOOLEAN : acre_pdq(own)
  \/ \E d \in Pdq : del_pdq(d) \/ DcrePdqCall(d)

DcrePdqSpec == DcrePdqInit /\ [][DcrePdqNext]_<<qvars, dynvars>>
================================================================================
