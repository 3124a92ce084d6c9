---------------------------- MODULE DcreDataQueue -----------------------------
(* Data queues with dynamic creation (extension/dcre/kernel/dataqueue.c). *)
EXTENDS DataQueue, DynamicObjects

\* A data queue has two queues, whose names are not those of objects.
ASSUME DcreDtqAssumption ==
  /\ "dtq" \in DOMAIN Dyn /\ Range(Dyn["dtq"]) \subseteq Dtq
  /\ \A d \in Dtq : {SQ(d), RQ(d)} \intersect DynId = {}
  /\ Range(Dyn["dtq"]) \intersect WObj = {}

DcreDtqInit == DtqInit /\ InitDyn

\* The caller supplies the buffer if `own'.
acre_dtq(own) ==
  /\ "acre" \in Api /\ TskCtxUnl
  /\ free["dtq"] # << >>
  /\ LET d == NewId("dtq")
     IN  /\ Create("dtq", IF own THEN 0 ELSE DtqCnt[d])
         /\ dtqcb' = [dtqcb EXCEPT ![d] = EmptyDtq(d)]
  /\ UNCHANGED <<vars, srvars>>

del_dtq(d) ==
  /\ "del" \in Api /\ TskCtxUnl
  /\ Unregister("dtq", d) /\ FreeArea(d)
  /\ Return(InitWaitQueue(InitWaitQueue(K, SQ(d)), RQ(d)))
  /\ DtqKept

dcre_snd_dtq(d, v, timed) == Exists(d) /\ snd_dtq(d, v, timed)
dcre_psnd_dtq(d, v)       == Exists(d) /\ psnd_dtq(d, v)
dcre_fsnd_dtq(d, v)       == Exists(d) /\ fsnd_dtq(d, v)
dcre_rcv_dtq(d, timed)    == Exists(d) /\ rcv_dtq(d, timed)
dcre_prcv_dtq(d)          == Exists(d) /\ prcv_dtq(d)
dcre_ini_dtq(d)           == Exists(d) /\ ini_dtq(d)

DcreDtqCall(d) ==
  /\ \/ \E v \in DtqData : \/ dcre_psnd_dtq(d, v) \/ dcre_fsnd_dtq(d, v)
                            \/ \E timed \in BOOLEAN : dcre_snd_dtq(d, v, timed)
     \/ \E timed \in BOOLEAN : dcre_rcv_dtq(d, timed)
     \/ dcre_prcv_dtq(d) \/ dcre_ini_dtq(d)
  /\ UNCHANGED dynvars

DcreDtqNext ==
  \/ Next /\ DtqKept /\ UNCHANGED dynvars
  \/ \E own \in BOOLEAN : acre_dtq(own)
  \/ \E d \in Dtq : del_dtq(d) \/ DcreDtqCall(d)

DcreDtqSpec == DcreDtqInit /\ [][DcreDtqNext]_<<dvars, dynvars>>
================================================================================
