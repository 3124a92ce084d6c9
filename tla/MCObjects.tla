------------------------------- MODULE MCObjects -------------------------------
(***************************************************************************)
(* Instances for TLC of the modules of all the objects but mutexes.  Each  *)
(* behaviour is about the objects of one kind, its `focus'; those of the   *)
(* other kinds are there but nobody uses them.  In the focus "pool" several *)
(* kinds of dynamic objects share the kernel memory pool; in the others    *)
(* the caller supplies their memory.                                       *)
(***************************************************************************)
EXTENDS DcreSemaphore, DcreEventFlag, DcreDataQueue, DcrePriDataq, DcreMessageBuf,
        DcreMempfix

CONSTANTS
  t1, t2, t3,            \* tasks
  x1, x2,                \* semaphores
  f1, f2, p1, p2, p3,    \* event flags, memory pools
  d0, d1, e0, e1,        \* data queues, priority data queues
  b1                     \* message buffer

VARIABLE focus

MCTask   == {t1, t2, t3}
MCUnitOf == [t \in MCTask |-> KERNEL]
MCIniPri == [t \in MCTask |-> IF t = t3 THEN 1 ELSE 2]
MCQueues == {d0, d1, e0, e1, b1}
MCWObj   == {x1, x2, f1, f2, p1, p2, p3} \union {SQ(d) : d \in MCQueues} \union {RQ(d) : d \in MCQueues}
MCTPri   == {f2, SQ(e1)}

\* Dynamic: all but the queues without buffers and the objects f1 and p1.
MCDyn == "sem" :> <<x1, x2>> @@ "flg" :> <<f2>> @@ "dtq" :> <<d1>> @@
         "pdq" :> <<e1>> @@ "mbf" :> <<b1>> @@ "mpf" :> <<p2, p3>>

MCSemCnt == x1 :> 1 @@ x2 :> 0
MCMaxSem == x1 :> 2 @@ x2 :> 1
MCIni    == f1 :> {} @@ f2 :> {"b1"}
MCDtqCnt == d0 :> 0 @@ d1 :> 2
MCPdqCnt == e0 :> 0 @@ e1 :> 3
MCBlkCnt == p1 :> 2 @@ p2 :> 2 @@ p3 :> 1

\* A ring of four words, for messages that take two, three and six of them: the
\* last ones never get into the ring and go straight to a receiver.
MCMbfSz == b1 :> 4
MCMsgSz == "a" :> 1 @@ "b" :> 2 @@ "c" :> 5

Objects == <<semcnt, fvars, dtqcb, pdqcb, mbfcb, mpvars>>

mcvars == <<vars, srvars, Objects, dynvars, focus>>

MCInit ==
  /\ SemInit /\ FlgInit /\ DtqInit /\ PdqInit /\ MbfInit /\ MpfInit /\ InitDyn
  /\ focus \in DOMAIN MCDyn \union {"flg1", "dtq0", "pdq0", "mpf2", "pool", "mbfras"}

Interrupt  == IntEnter \/ IntExit
Activation == \E t \in Task : act_tsk(t)
EndOfWait  == \E t \in Task : rel_wai(t) \/ ter_tsk(t) \/ TimerExpires(t)

SemFocus ==
  /\ focus = "sem" /\ UNCHANGED <<fvars, dtqcb, pdqcb, mbfcb, mpvars, srvars>>
  /\ \/ (Interrupt \/ Activation \/ EndOfWait) /\ SemKept
     \/ acre_sem
     \/ \E x \in Sem : DcreSemCall(x)

FlgFocus ==
  /\ UNCHANGED <<semcnt, dtqcb, pdqcb, mbfcb, mpvars, srvars>>
  /\ \/ /\ focus = "flg" \/ focus = "flg1"
        /\ Interrupt \/ Activation \/ EndOfWait
        /\ FlgKept /\ UNCHANGED dynvars
     \/ focus = "flg1" /\ DcreFlgCall(f1)
     \/ focus = "flg" /\ (acre_flg \/ DcreFlgCall(f2))

DtqFocus ==
  /\ UNCHANGED <<semcnt, fvars, pdqcb, mbfcb, mpvars>>
  /\ \/ /\ focus = "dtq" \/ focus = "dtq0"
        /\ Interrupt \/ Activation \/ EndOfWait
        /\ DtqKept /\ UNCHANGED dynvars
     \/ focus = "dtq0" /\ DcreDtqCall(d0)
     \/ focus = "dtq" /\ (acre_dtq(TRUE) \/ del_dtq(d1) \/ DcreDtqCall(d1))

PdqFocus ==
  /\ UNCHANGED <<semcnt, fvars, dtqcb, mbfcb, mpvars, rdata>>
  /\ \/ /\ focus = "pdq" \/ focus = "pdq0"
        /\ Interrupt \/ Activation \/ EndOfWait
        /\ PdqKept /\ UNCHANGED dynvars
     \/ focus = "pdq0" /\ DcrePdqCall(e0)
     \/ focus = "pdq" /\ (acre_pdq(TRUE) \/ del_pdq(e1) \/ DcrePdqCall(e1))

MbfFocus ==
  /\ focus = "mbf" /\ UNCHANGED <<semcnt, fvars, dtqcb, pdqcb, mpvars>>
  /\ \/ (Interrupt \/ Activation) /\ MbfKept /\ UNCHANGED dynvars
     \/ (\E t \in Task : MbfTaskCall(t)) /\ UNCHANGED dynvars
     \/ acre_mbf(TRUE) \/ \E b \in Mbf : del_mbf(b) \/ DcreMbfCall(b)

\* Termination requests: only one task disables its termination.
MbfRasFocus ==
  /\ focus = "mbfras" /\ UNCHANGED <<semcnt, fvars, dtqcb, pdqcb, mpvars>>
  /\ \/ (Interrupt \/ Activation \/ (dis_ter /\ runtsk = t1)) /\ MbfKept /\ UNCHANGED dynvars
     \/ \E t \in {t1, t2} : MbfRasTer(t) /\ NoDelivery /\ UNCHANGED dynvars
     \/ \E m \in {"a", "b"} : dcre_snd_mbf(b1, m, FALSE) /\ UNCHANGED dynvars
     \/ dcre_rcv_mbf(b1, FALSE) /\ UNCHANGED dynvars
     \/ acre_mbf(TRUE)

\* The kernel without the extension, whose rel_mpf is two steps.
MpfFocus ==
  /\ focus = "mpf2" /\ UNCHANGED <<semcnt, fvars, dtqcb, pdqcb, mbfcb, srvars, dynvars>>
  /\ OtherCall \/ MpfCall(p1)

DcreMpfFocus ==
  /\ focus = "mpf" /\ UNCHANGED <<semcnt, fvars, dtqcb, pdqcb, mbfcb, srvars>>
  /\ \/ (Interrupt \/ Activation \/ EndOfWait) /\ UNCHANGED <<mpvars, dynvars>>
     \/ acre_mpf(TRUE) \/ del_mpf(p2) \/ del_mpf(p3) \/ DcreMpfCall(p2)

PoolFocus ==
  /\ focus = "pool"
  /\ \/ /\ UNCHANGED <<semcnt, fvars, pdqcb, mbfcb, mpvars>>
        /\ del_dtq(d1) \/ \E own \in BOOLEAN : acre_dtq(own)
     \/ /\ UNCHANGED <<semcnt, fvars, dtqcb, mbfcb, mpvars, rdata>>
        /\ del_pdq(e1) \/ \E own \in BOOLEAN : acre_pdq(own)
     \/ /\ UNCHANGED <<semcnt, fvars, dtqcb, pdqcb, mpvars>>
        /\ del_mbf(b1) \/ \E own \in BOOLEAN : acre_mbf(own)
     \/ /\ UNCHANGED <<semcnt, fvars, dtqcb, pdqcb, mbfcb, srvars>>
        /\ (\E p \in {p2, p3} : del_mpf(p)) \/ \E own \in BOOLEAN : acre_mpf(own)

MCNext ==
  /\ \/ SemFocus \/ FlgFocus \/ DtqFocus \/ PdqFocus \/ MbfFocus \/ MbfRasFocus
     \/ MpfFocus \/ DcreMpfFocus \/ PoolFocus
  /\ UNCHANGED focus

MCSpec == MCInit /\ [][MCNext]_mcvars

-----------------------------------------------------------------------------
(* The properties of the kinds together. *)

\* No task of any kind of wait is left waiting for what is there.
WaitsAreJustified ==
  /\ NobodyWaitsForFreeUnit /\ NoSatisfiedWaiter /\ NobodyWaitsForFreeBlock
  /\ DtqWaitsAreJustified /\ PdqWaitsAreJustified /\ MbfWaitsAreJustified

\* Cells, blocks and ring words are where exactly one of their users expects them,
\* and what rel_mpf checked of a block without the CPU lock still holds when it
\* takes the lock, provided that the application returns each block once.
StorageExact ==
  /\ CellsPartitioned /\ RingIntact /\ CheckStillHolds
  /\ \A p \in Mpf : Exists(p) => BlocksPartitioned(p)

\* TA_TFIFO data queues and message buffers implement first-in first-out
\* channels: buffer, direct hand-over and waiting senders together never lose,
\* repeat or reorder data, and a deleted channel is empty.
InChannel(d) == IF d \in Dtq THEN DtqContents(d) ELSE MbfContents(d)
Transmitted(d) == IF d \in Dtq THEN dtqcb[d].count ELSE mbfcb[d].smbfcnt

Channel == INSTANCE DataChannel
             WITH Chan <- Dtq \union Mbf, Data <- DtqData \union Msg,
                  chan <- [d \in Dtq \union Mbf |-> IF Exists(d) THEN InChannel(d) ELSE << >>],
                  sent <- [d \in Dtq \union Mbf |-> IF Exists(d) THEN Transmitted(d) ELSE 0],
                  got <- rdata

FirstInFirstOut == Channel!Spec
=============================================================================
