--------------------------- MODULE DcreNotification ---------------------------
(***************************************************************************)
(* Cyclic and alarm notifications that are created and deleted at run time *)
(* (extension/dcre/kernel/cyclic.c, alarm.c).  The time event block of an  *)
(* unused control block holds the links of the queue of unused ones, so it *)
(* must not be in the heap as well.                                        *)
(***************************************************************************)
EXTENDS Notification

VARIABLE exist   \* the notifications whose attribute is not TA_NOEXS

dnvars == <<nvars, exist>>

Dynamic == Of("cyc") \union Of("alm")
Unused  == Dynamic \ exist

DcreNtfInit == NtfInit /\ exist = {}

-----------------------------------------------------------------------------
(* Creation and deletion, by tasks only. *)

\* acre_cyc, with TA_STA if `start'.
acre_cyc(c, start, cycphs) ==
  /\ "acre" \in Api /\ Task /\ c \in Unused
  /\ exist' = exist \union {c}
  /\ IF start
     THEN /\ m' = tmevtb_enqueue_reltim(m, c, cycphs)
          /\ sta' = [sta EXCEPT ![c] = TRUE] /\ due' = [due EXCEPT ![c] = Exact(cycphs)]
     ELSE sta' = [sta EXCEPT ![c] = FALSE] /\ UNCHANGED <<m, due>>
  /\ UNCHANGED <<held, phase, callflag, now>>

acre_alm(a) ==
  /\ "acre" \in Api /\ Task /\ a \in Unused
  /\ exist' = exist \union {a}
  /\ sta' = [sta EXCEPT ![a] = FALSE]
  /\ UNCHANGED <<m, held, phase, callflag, now, due>>

Delete(e) ==
  /\ "acre" \in Api /\ Task /\ e \in exist
  /\ exist' = exist \ {e}
  /\ Stop(e)

del_cyc(c) == Delete(c)
del_alm(a) == Delete(a)

-----------------------------------------------------------------------------
(* Starting and stopping. *)

\* As written: the registration stands behind the IF, not in its last branch, so
\* that it takes place for an unused ID, too (and sta_cyc returns E_OK).
dcre_sta_cyc(c, cycphs) ==
  /\ UNCHANGED exist
  /\ \/ c \in exist /\ sta_cyc(c, cycphs)
     \/ /\ c \in Unused /\ "sta_noexs" \in Api /\ Task
        /\ m' = tmevtb_enqueue_reltim(m, c, cycphs)
        /\ UNCHANGED <<sta, held, phase, callflag, now, due>>

dcre_stp_cyc(c)         == c \in exist /\ stp_cyc(c) /\ UNCHANGED exist
dcre_sta_alm(a, almtim) == a \in exist /\ sta_alm(a, almtim) /\ UNCHANGED exist
dcre_stp_alm(a)         == a \in exist /\ stp_alm(a) /\ UNCHANGED exist

-----------------------------------------------------------------------------
DcreAlarms ==
  \E a \in Of("alm") :
    \/ acre_alm(a) \/ del_alm(a) \/ dcre_stp_alm(a)
    \/ \E t \in Reltim : dcre_sta_alm(a, t)
DcreCycles ==
  \E c \in Of("cyc") :
    \/ del_cyc(c) \/ dcre_stp_cyc(c)
    \/ \E t \in Reltim : dcre_sta_cyc(c, t) \/ \E start \in BOOLEAN : acre_cyc(c, start, t)

TimeNext ==
  \/ Tick \/ Signal \/ SystemTime \/ TimedWaits \/ \E e \in Of("scyc") : chg_som(e)

DcreNtfNext == DcreCycles \/ DcreAlarms \/ (TimeNext /\ UNCHANGED exist)

DcreNtfSpec == DcreNtfInit /\ [][DcreNtfNext]_dnvars

-----------------------------------------------------------------------------
(* Properties. *)

\* The time event block of an unused control block is never in the heap (cyclic.c:127:
\* its area holds the links of the queue of unused blocks).
UnusedNotRegistered == \A e \in Unused : \A i \in 1..m.last : m.node[i] # e

\* The heap is exact, and nothing unused is in it: deletion, creation under the same
\* ID and the handler that runs meanwhile leave no block behind.
BlocksExact == HeapExact /\ UnusedNotRegistered
=============================================================================
