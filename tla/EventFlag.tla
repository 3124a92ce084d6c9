------------------------------- MODULE EventFlag -------------------------------
(***************************************************************************)
(* Event flags (kernel/eventflag.c) with and without TA_CLR and TA_WMUL,   *)
(* composed with all the calls of TaskKernel.  A bit pattern is the set of *)
(* its bits.                                                               *)
(***************************************************************************)
EXTENDS TaskKernel

CONSTANTS
  Flg,       \* the event flags, whose wait queues are in WObj
  Bit,       \* the bits of a pattern that matter
  TA_CLR,    \* the flags cleared when a wait is released
  TA_WMUL,   \* the flags for which several tasks may wait
  IFlgPtn    \* p_flginib->iflgptn

ASSUME EventFlagAssumption ==
  /\ Flg \subseteq WObj /\ TA_CLR \subseteq Flg /\ TA_WMUL \subseteq Flg
  /\ IFlgPtn \in [Flg -> SUBSET Bit]

VARIABLES
  flgptn,    \* p_flgcb->flgptn
  winfo      \* WINFO_FLG of a task: awaited pattern and mode; when it is
             \* released, waiptn becomes the pattern returned to the task

fvars  == <<flgptn, winfo>>
evars  == <<vars, fvars>>

FLGPTN   == SUBSET Bit
WaiPtn   == FLGPTN \ {{}}
WFMode   == {"TWF_ORW", "TWF_ANDW"}
NoWinfo  == [waiptn |-> {}, wfmode |-> "TWF_ORW"]

\* WINFO_FLG is on the stack of the call that waits and ends with the wait.
WinfoOf(t) == IF IsWaiting(tcb'[t].tstat) THEN winfo[t] ELSE NoWinfo
WinfoKept  == winfo' = [t \in Task |-> WinfoOf(t)]

-----------------------------------------------------------------------------
\* The condition of check_flg_cond.
Satisfied(ptn, waiptn, wfmode) ==
  IF wfmode = "TWF_ORW" THEN ptn \intersect waiptn # {} ELSE waiptn \subseteq ptn

\* What check_flg_cond leaves in flgptn when the condition holds.
Cleared(f, ptn) == IF f \in TA_CLR THEN {} ELSE ptn

\* The waiters set_flg releases: all whose condition holds, with TA_CLR the
\* first of them only.
Served_AllCleared(f, ptn) ==
  {t \in Range(wque[f]) : Satisfied(ptn, winfo[t].waiptn, winfo[t].wfmode)}

Served(f, ptn) ==
  LET q   == wque[f]
      sat == {i \in DOMAIN q : Satisfied(ptn, winfo[q[i]].waiptn, winfo[q[i]].wfmode)}
  IN  {q[i] : i \in {j \in sat : f \in TA_CLR => \A k \in sat : j <= k}}

\* The walk along the queue of f, which releases the waiters T.
ReleaseWaiters(s, f, T) ==
  LET q == s.wque[f]
      passed[n \in 0..Len(q)] ==
        IF n = 0 THEN s
        ELSE IF q[n] \in T
             THEN WaitComplete([passed[n - 1] EXCEPT !.wque[f] = Without(@, q[n])], q[n])
             ELSE passed[n - 1]
  IN  passed[Len(q)]

\* The waiters T leave the queue of f with the pattern `given'.
Serve(f, ptn, T, given) ==
  /\ flgptn' = [flgptn EXCEPT ![f] = IF T = {} THEN ptn ELSE Cleared(f, ptn)]
  /\ Return(ReleaseWaiters(K, f, T))
  /\ winfo' = [t \in Task |-> IF t \in T THEN [winfo[t] EXCEPT !.waiptn = given]
                             ELSE WinfoOf(t)]

set_flg_ClearedFirst(f, setptn) ==
  /\ "set_flg" \in Api /\ Unl
  /\ LET ptn == flgptn[f] \union setptn
     IN  Serve(f, ptn, Served(f, ptn), Cleared(f, ptn))

set_flg(f, setptn) ==
  /\ "set_flg" \in Api /\ Unl
  /\ LET ptn == flgptn[f] \union setptn
     IN  Serve(f, ptn, Served(f, ptn), ptn)

clr_flg(f, clrptn) ==
  /\ "clr_flg" \in Api /\ TskCtxUnl
  /\ flgptn' = [flgptn EXCEPT ![f] = @ \intersect clrptn]
  /\ UNCHANGED vars /\ WinfoKept

\* Neither E_RASTER nor E_ILUSE: a flag without TA_WMUL has one waiter.
MayWait(f) == f \in TA_WMUL \/ wque[f] = << >>

Poll(f, waiptn, wfmode) ==
  /\ Satisfied(flgptn[f], waiptn, wfmode)
  /\ flgptn' = [flgptn EXCEPT ![f] = Cleared(f, @)]
  /\ UNCHANGED vars /\ WinfoKept

\* wai_flg, and twai_flg with a positive timeout if `timed'.
wai_flg(f, waiptn, wfmode, timed) ==
  /\ "wai_flg" \in Api /\ CheckDispatch
  /\ timed => "tmout" \in Api
  /\ ~tcb[runtsk].raster /\ MayWait(f)
  /\ \/ Poll(f, waiptn, wfmode)
     \/ /\ ~Satisfied(flgptn[f], waiptn, wfmode)
        /\ Return(WObjMakeWait(K, f, timed))
        /\ winfo' = [t \in Task |-> IF t = runtsk THEN [waiptn |-> waiptn, wfmode |-> wfmode]
                                   ELSE WinfoOf(t)]
        /\ UNCHANGED flgptn

pol_flg(f, waiptn, wfmode) ==
  /\ "pol_flg" \in Api /\ TskCtxUnl
  /\ MayWait(f) /\ Poll(f, waiptn, wfmode)

ini_flg(f) ==
  /\ "ini_flg" \in Api /\ TskCtxUnl
  /\ Return(InitWaitQueue(K, f))
  /\ flgptn' = [flgptn EXCEPT ![f] = IFlgPtn[f]]
  /\ WinfoKept

-----------------------------------------------------------------------------
FlgInit ==
  /\ Init
  /\ flgptn = IFlgPtn
  /\ winfo = [t \in Task |-> NoWinfo]

FlgCall(f) ==
  \/ \E ptn \in FLGPTN : set_flg(f, ptn) \/ clr_flg(f, ptn)
  \/ \E ptn \in WaiPtn, mode \in WFMode :
       pol_flg(f, ptn, mode) \/ \E timed \in BOOLEAN : wai_flg(f, ptn, mode, timed)
  \/ ini_flg(f)

\* Of all the other calls.
FlgKept == WinfoKept /\ UNCHANGED flgptn

FlgNext == (Next /\ FlgKept) \/ \E f \in Flg : FlgCall(f)

FlgSpec == FlgInit /\ [][FlgNext]_evars

-----------------------------------------------------------------------------
(* Properties. *)

\* No task waits for a pattern that the flag has: set_flg, which walks the
\* queue once while it releases and clears, leaves no satisfied waiter behind,
\* and neither does ini_flg.
NoSatisfiedWaiter ==
  \A f \in Flg : \A t \in Range(wque[f]) :
    ~Satisfied(flgptn[f], winfo[t].waiptn, winfo[t].wfmode)

\* A task that set_flg releases is handed a pattern that satisfies what it
\* waited for, although WINFO_FLG holds both in one field and TA_CLR clears the
\* flag in the same call.
ReleasedWithPattern ==
  [][\A f \in Flg : \A t \in Range(wque[f]) \ Range(wque'[f]) :
       (\E ptn \in FLGPTN : set_flg(f, ptn)) =>
         Satisfied(winfo'[t].waiptn, winfo[t].waiptn, winfo[t].wfmode)]_evars

\* One event on a TA_CLR flag is consumed by one task: set_flg releases at most
\* one, and when it does, the flag is left clear.
EventConsumedOnce ==
  [][\A f \in TA_CLR :
       LET gone == Range(wque[f]) \ Range(wque'[f])
       IN  gone # {} /\ (\E ptn \in FLGPTN : set_flg(f, ptn)) =>
             Cardinality(gone) = 1 /\ flgptn'[f] = {}]_evars
=============================================================================
