----------------------------- MODULE DcreMempfix ------------------------------
(* Fixed-size memory pools with dynamic creation (extension/dcre/kernel/mempfix.c). *)
EXTENDS Mempfix, DynamicObjects

\* A memory pool has one queue, with its name.
ASSUME DcreMpfAssumption ==
  /\ "mpf" \in DOMAIN Dyn /\ Range(Dyn["mpf"]) \subseteq Mpf
  /\ \A p \in Mpf, y \in DynId : p \notin {<<"S", y>>, <<"R", y>>}
  /\ \A p \in Range(Dyn["mpf"]) : {<<"S", p>>, <<"R", p>>} \intersect WObj = {}

DcreMpfInit == MpfInit /\ InitDyn

\* The caller supplies p_mpfmb if `own', and always the blocks.
acre_mpf(own) ==
  /\ "acre" \in Api /\ TskCtxUnl
  /\ free["mpf"] # << >>
  /\ LET p == NewId("mpf")
     IN  /\ Create("mpf", IF own THEN 0 ELSE BlkCnt[p])
         /\ mpfcb' = [mpfcb EXCEPT ![p] = EmptyPool(p, @.next)]
  /\ UNCHANGED <<vars, held, relblk>>

\* The application gives up all the blocks of the pool.
del_mpf(p) ==
  /\ "del" \in Api /\ TskCtxUnl
  /\ Unregister("mpf", p) /\ FreeArea(p)
  /\ Return(InitWaitQueue(K, p))
  /\ held' = [t \in Task |-> [held[t] EXCEPT ![p] = {}]]
  /\ UNCHANGED <<mpfcb, relblk>>

dcre_get_mpf(p, timed) == Exists(p) /\ get_mpf(p, timed)
dcre_pget_mpf(p)       == Exists(p) /\ pget_mpf(p)
dcre_ini_mpf(p)        == Exists(p) /\ ini_mpf(p)

\* Here the checks of rel_mpf are made with the CPU lock.
dcre_rel_mpf(p, b) ==
  /\ "rel_mpf" \in Api /\ TskCtxUnl
  /\ Exists(p)
  /\ b \in held[runtsk][p] \/ "twice" \in Api
  /\ b < mpfcb[p].unused /\ mpfcb[p].next[b] = INDEX_ALLOC
  /\ \/ wque[p] # << >> /\ HandOverBlock(p, b)
     \/ wque[p] = << >> /\ ReturnBlock(p, b)
  /\ UNCHANGED relblk

DcreMpfCall(p) ==
  /\ \/ \E timed \in BOOLEAN : dcre_get_mpf(p, timed)
     \/ \E b \in Blk(p) : dcre_rel_mpf(p, b)
     \/ dcre_pget_mpf(p) \/ dcre_ini_mpf(p)
  /\ UNCHANGED dynvars

DcreMpfNext ==
  \/ OtherCall /\ UNCHANGED dynvars
  \/ \E own \in BOOLEAN : acre_mpf(own)
  \/ \E p \in Mpf : del_mpf(p) \/ DcreMpfCall(p)

DcreMpfSpec == DcreMpfInit /\ [][DcreMpfNext]_<<pvars, dynvars>>
================================================================================
