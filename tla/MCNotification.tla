---------------------------- MODULE MCNotification ----------------------------
(* Instances of DcreNotification for TLC: one alarm notification with a cyclic    *)
(* one, or with the system cycle, and a heap of more tasks that start to wait, or *)
(* are released, at one instant and then time out.                                *)
EXTENDS DcreNotification, TLC

CONSTANTS
  cyc, alm, scyc,                \* a cyclic and an alarm notification, the cycle
  w1, w2, w3, w4, w5, w6, w7     \* waits of the heap instance

VARIABLE inst                    \* "cyclic", "cycle" or "heap": the instance

HeapTime == w1 :> 0 @@ w2 :> 1 @@ w3 :> 1 @@ w4 :> 2 @@ w5 :> 2 @@ w6 :> 3 @@ w7 :> 3
MCKindOf == cyc :> "cyc" @@ alm :> "alm" @@ scyc :> "scyc" @@ [e \in DOMAIN HeapTime |-> "tmo"]
MCCyctim == cyc :> 2 @@ scyc :> 3

MCInit == DcreNtfInit /\ inst \in {"cyclic", "cycle", "heap"}

TimingNext ==
  \/ (Tick \/ Signal \/ SystemTime) /\ UNCHANGED exist
  \/ inst = "cycle" /\ (\E e \in Of("scyc") : chg_som(e)) /\ UNCHANGED exist
  \/ inst = "cyclic" /\ DcreCycles
  \/ DcreAlarms

HeapNext ==
  /\ \/ now = 0 /\ \E e \in Of("tmo") : make_wait_tmout(e, HeapTime[e]) \/ wait_dequeue_tmevtb(e)
     \/ Tick \/ Signal
  /\ UNCHANGED exist

MCNext ==
  /\ \/ inst = "heap" /\ HeapNext
     \/ inst # "heap" /\ TimingNext
  /\ UNCHANGED inst

MCSpec == MCInit /\ [][MCNext]_<<dnvars, inst>>

\* The system cycle, whose switch may be held off, and a statically created alarm.
MCHeldSpec ==
  NtfInit /\ exist = Dynamic /\ inst = "cycle"
  /\ [][HeldNext /\ UNCHANGED <<exist, inst>>]_<<dnvars, inst>>

\* The view: what is left of registered blocks only, times relative to the
\* present, and no offset (steps change the system time by the same amounts
\* whatever it is), so that every wrapping of the counters is reached although
\* time is unbounded.
Live(e) == sta[e] \/ (KindOf[e] = "scyc" /\ held)
MCView ==
  <<[i \in 1..m.last |-> m.node[i]],
    [e \in Evt |-> IF Live(e) THEN <<m.evttim[e], due[e] - now>> ELSE <<>>],
    [e \in Evt |-> IF sta[e] THEN m.at[e] ELSE 0],
    m.current, m.boundary, m.monotonic, m.insignal, m.hrtcnt, m.count, m.fire,
    sta, held, phase, callflag, exist, inst, inst = "heap" /\ now = 0>>
=============================================================================
