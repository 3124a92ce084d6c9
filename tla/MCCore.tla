-------------------------------- MODULE MCCore --------------------------------
(***************************************************************************)
(* Instances for TLC of the task management, mutexes and their dynamic     *)
(* creation.  Each behaviour is about some of the tasks and mutexes and    *)
(* some of the calls, its `focus'.                                         *)
(***************************************************************************)
EXTENDS DcreTask

CONSTANTS t1, t2, t3, u1, m1, m2, m3   \* tasks, u1 of a user domain, and mutexes

VARIABLE focus

mcvars == <<dtvars, focus>>

MCTask   == {t1, t2, t3, u1}
MCUnitOf == [t \in MCTask |-> IF t = u1 THEN IDLE ELSE KERNEL]
MCIniPri == t1 :> 2 @@ t2 :> 2 @@ t3 :> 3 @@ u1 :> 1

\* TA_CEILING with a low and a high ceiling, and TA_TPRI.
MCCeilPri == m1 :> 2 @@ m2 :> NULL @@ m3 :> 1

MCDyn == "tsk" :> <<t2>> @@ "mtx" :> <<m1, m2>>

\* All objects exist, but in the focus "dcre".
MCInit ==
  /\ MtxInit
  /\ \/ focus = "dcre" /\ InitDyn
     \/ /\ focus \in {"sched", "term", "life", "mterm"}
        /\ exist = DynId /\ free = [k \in Kind |-> << >>]
        /\ mpk = [brk |-> 0, count |-> 0]
        /\ area = [x \in DynId |-> {}]

Interrupt == IntEnter \/ IntExit

\* Scheduling: activation, priorities, rotation, termination, dispatch control.
Sched ==
  /\ focus = "sched" /\ UNCHANGED <<mtxvars, dynvars>>
  /\ \/ \E t \in {t1, t2, u1} :
          \/ act_tsk(t) \/ can_act(t) \/ ter_tsk(t) \/ wup_tsk(t)
          \/ \E p \in 1..2 : chg_pri(t, p)
     \/ \E p \in 1..2, u \in Unit : rot_rdq(p, u)
     \/ \E mask \in BOOLEAN : chg_ipm(mask)
     \/ slp_tsk(FALSE) \/ ext_tsk \/ dis_dsp \/ ena_dsp \/ Interrupt

\* Everything else two tasks may do to each other.
Term ==
  /\ focus = "term" /\ UNCHANGED <<mtxvars, dynvars>>
  /\ \/ \E t \in {t1, t2} :
          \/ PlainTaskCall(t) \/ ras_ter(t) \/ rel_wai(t) \/ TimerExpires(t)
          \/ \E p \in 1..2 : chg_pri(t, p)
     \/ \E timed \in BOOLEAN : slp_tsk(timed)
     \/ \E mask \in BOOLEAN : chg_ipm(mask)
     \/ dis_ter \/ dly_tsk \/ loc_cpu \/ unl_cpu \/ dis_dsp
     \/ ext_tsk \/ ena_ter \/ ena_dsp \/ Interrupt

\* Mutexes: locking, time-outs, forced release, priorities, the death of owners
\* (suspension is in "mterm").
Life ==
  /\ focus = "life" /\ UNCHANGED dynvars
  /\ \/ /\ UNCHANGED mtxvars
        /\ \/ Interrupt
           \/ \E t \in {t1, t2, t3} :
                \/ act_tsk(t) \/ rel_wai(t) \/ TimerExpires(t)
     \/ \E t \in {t1, t2, t3} : MtxTerTsk(t) \/ \E p \in Pri : MtxChgPri(t, p)
     \/ \E m \in {m1, m2} :
          \/ \E timed \in BOOLEAN : loc_mtx(m, timed)
          \/ unl_mtx(m) \/ ini_mtx(m)
     \/ MtxExtTsk

\* Mutexes with termination requests and dispatching held off.
MTerm ==
  /\ focus = "mterm" /\ UNCHANGED dynvars
  /\ \/ /\ UNCHANGED mtxvars
        /\ \/ Interrupt \/ dis_ter \/ dis_dsp
           \/ \E t \in {t1, t2} : act_tsk(t) \/ sus_tsk(t) \/ rsm_tsk(t)
     \/ \E t \in {t1, t2} :
          MtxTerTsk(t) \/ MtxRasTer(t) \/ \E p \in 1..2 : MtxChgPri(t, p)
     \/ \E m \in {m2, m3} : loc_mtx(m, FALSE) \/ ploc_mtx(m) \/ unl_mtx(m)
     \/ MtxExtTsk \/ MtxEnaTer \/ MtxEnaDsp

\* Tasks and mutexes that come and go.
Dcre ==
  /\ focus = "dcre"
  /\ \/ DcreCreate
     \/ \E t \in {t1, t2} : DcreTaskCall(t)
     \/ DcreMtxCall(m1)
     \/ (MtxExtTsk \/ MtxEnaTer) /\ UNCHANGED dynvars
     \/ (Interrupt \/ dis_ter) /\ UNCHANGED <<mtxvars, dynvars>>

MCNext == (Sched \/ Term \/ Life \/ MTerm \/ Dcre) /\ UNCHANGED focus

MCSpec == MCInit /\ [][MCNext]_mcvars

\* Only tasks and mutexes that come and go.
MCDcreSpec == MCInit /\ focus = "dcre" /\ [][Dcre /\ UNCHANGED focus]_mcvars
================================================================================
