---------------------------- MODULE DcreEventFlag -----------------------------
(* Event flags with dynamic creation (extension/dcre/kernel/eventflag.c). *)
EXTENDS EventFlag, DynamicObjects

\* An event flag has one queue, with its name.
ASSUME DcreFlgAssumption ==
  /\ "flg" \in DOMAIN Dyn /\ Range(Dyn["flg"]) \subseteq Flg
  /\ \A f \in Flg, y \in DynId : f \notin {<<"S", y>>, <<"R", y>>}
  /\ \A f \in Range(Dyn["flg"]) : {<<"S", f>>, <<"R", f>>} \intersect WObj = {}

DcreFlgInit == FlgInit /\ InitDyn

acre_flg ==
  /\ "acre" \in Api /\ TskCtxUnl
  /\ Create("flg", 0)
  /\ flgptn' = [flgptn EXCEPT ![NewId("flg")] = IFlgPtn[NewId("flg")]]
  /\ UNCHANGED vars /\ WinfoKept

del_flg(f) ==
  /\ "del" \in Api /\ TskCtxUnl
  /\ Unregister("flg", f)
  /\ Return(InitWaitQueue(K, f))
  /\ FlgKept /\ UNCHANGED <<mpk, area>>

dcre_set_flg(f, ptn) == Exists(f) /\ set_flg(f, ptn)
dcre_clr_flg(f, ptn) == Exists(f) /\ clr_flg(f, ptn)
dcre_wai_flg(f, ptn, mode, timed) == Exists(f) /\ wai_flg(f, ptn, mode, timed)
dcre_pol_flg(f, ptn, mode) == Exists(f) /\ pol_flg(f, ptn, mode)
dcre_ini_flg(f) == Exists(f) /\ ini_flg(f)

DcreFlgCall(f) ==
  \/ /\ \/ \E ptn \in FLGPTN : dcre_set_flg(f, ptn) \/ dcre_clr_flg(f, ptn)
        \/ \E ptn \in WaiPtn, mode \in WFMode :
             \/ dcre_pol_flg(f, ptn, mode)
             \/ \E timed \in BOOLEAN : dcre_wai_flg(f, ptn, mode, timed)
        \/ dcre_ini_flg(f)
     /\ UNCHANGED dynvars
  \/ del_flg(f)

DcreFlgNext ==
  \/ Next /\ FlgKept /\ UNCHANGED dynvars
  \/ acre_flg
  \/ \E f \in Flg : DcreFlgCall(f)

DcreFlgSpec == DcreFlgInit /\ [][DcreFlgNext]_<<evars, dynvars>>
================================================================================
