---------------------------- MODULE DcreMessageBuf ----------------------------
(* Message buffers with dynamic creation (extension/dcre/kernel/messagebuf.c). *)
EXTENDS MessageBuf, DynamicObjects

ASSUME DcreMbfAssumption == "mbf" \in DOMAIN Dyn /\ Range(Dyn["mbf"]) \subseteq Mbf

DcreMbfInit == MbfInit /\ InitDyn

\* The caller supplies the ring if `own'.
acre_mbf(own) ==
  /\ "acre" \in Api /\ TskCtxUnl
  /\ free["mbf"] # << >>
  /\ LET b == NewId("mbf")
     IN  /\ Create("mbf", IF own THEN 0 ELSE MbfSz[b])
         /\ mbfcb' = [mbfcb EXCEPT ![b] = EmptyMbf(b)]
  /\ UNCHANGED <<vars, srvars>>

del_mbf(b) ==
  /\ "del" \in Api /\ TskCtxUnl
  /\ Unregister("mbf", b) /\ FreeArea(b)
  /\ MbfReturn(InitWaitQueue(InitWaitQueue(KB, SQ(b)), RQ(b)))
  /\ NoDelivery

dcre_snd_mbf(b, m, timed) == Exists(b) /\ snd_mbf(b, m, timed)
dcre_psnd_mbf(b, m)       == Exists(b) /\ psnd_mbf(b, m)
dcre_rcv_mbf(b, timed)    == Exists(b) /\ rcv_mbf(b, timed)
dcre_prcv_mbf(b)          == Exists(b) /\ prcv_mbf(b)
dcre_ini_mbf(b)           == Exists(b) /\ ini_mbf(b)

DcreMbfCall(b) ==
  /\ \/ \E m \in Msg : \/ dcre_psnd_mbf(b, m)
                        \/ \E timed \in BOOLEAN : dcre_snd_mbf(b, m, timed)
     \/ \E timed \in BOOLEAN : dcre_rcv_mbf(b, timed)
     \/ dcre_prcv_mbf(b) \/ dcre_ini_mbf(b)
  /\ UNCHANGED dynvars

DcreMbfNext ==
  \/ (PlainCall \/ SystemCall) /\ MbfKept /\ UNCHANGED dynvars
  \/ (\E t \in Task : MbfTaskCall(t)) /\ UNCHANGED dynvars
  \/ \E own \in BOOLEAN : acre_mbf(own)
  \/ \E b \in Mbf : del_mbf(b) \/ DcreMbfCall(b)

DcreMbfSpec == DcreMbfInit /\ [][DcreMbfNext]_<<bvars, dynvars>>
================================================================================
