------------------------------- MODULE DataQueue -------------------------------
(***************************************************************************)
(* Data queues (kernel/dataqueue.c): a ring buffer with a queue of senders *)
(* (TA_TFIFO or TA_TPRI) and a queue of receivers (always in FIFO order),  *)
(* composed with all the calls of TaskKernel.                              *)
(***************************************************************************)
EXTENDS SendReceive

CONSTANTS
  Dtq,       \* the data queues
  DtqCnt,    \* p_dtqinib->dtqcnt, the size of the ring buffer, maybe 0
  DtqData    \* the data sent

ASSUME DataQueueAssumption ==
  /\ \A d \in Dtq : SQ(d) \in WObj /\ RQ(d) \in WObj \ TPriObj
  /\ DtqCnt \in [Dtq -> Nat]

VARIABLE dtqcb   \* count, head, tail, and the ring buffer p_dtqmb

dvars == <<vars, srvars, dtqcb>>

-----------------------------------------------------------------------------
(* The ring buffer. *)

\* if (++i >= dtqcnt) i = 0
NextPlace(d, i) == IF i + 1 >= DtqCnt[d] THEN 0 ELSE i + 1

EnqueueData(c, d, v) ==
  [c EXCEPT !.mb[c.tail] = v, !.count = @ + 1, !.tail = NextPlace(d, @)]

ForceEnqueueData_KeepsHead(c, d, v) ==
  [c EXCEPT !.mb[c.tail] = v, !.tail = NextPlace(d, @),
            !.count = IF c.count < DtqCnt[d] THEN @ + 1 ELSE @]

ForceEnqueueData(c, d, v) ==
  LET c1 == [c EXCEPT !.mb[c.tail] = v, !.tail = NextPlace(d, @)]
  IN  IF c.count < DtqCnt[d] THEN [c1 EXCEPT !.count = @ + 1]
      ELSE [c1 EXCEPT !.head = c1.tail]

\* The contents of a place that holds no datum do not matter.
DequeueData(c, d) ==
  [c EXCEPT !.count = @ - 1, !.head = NextPlace(d, @), !.mb[c.head] = NoData]

Oldest(c) == c.mb[c.head]

-----------------------------------------------------------------------------
(* send_data, force_send_data, receive_data, up to the caller's dispatch. *)

DtqHasRoom(d) == dtqcb[d].count < DtqCnt[d]

HandToReceiver(d, v) ==
  /\ ReceiverWaits(d)
  /\ Deliver(Head(wque[RQ(d)]), v)
  /\ Return(ReleaseFirst(RQ(d)))
  /\ UNCHANGED dtqcb

SendData(d, v) ==
  \/ HandToReceiver(d, v)
  \/ /\ ~ReceiverWaits(d) /\ DtqHasRoom(d)
     /\ dtqcb' = [dtqcb EXCEPT ![d] = EnqueueData(@, d, v)]
     /\ NoDelivery /\ UNCHANGED vars

ForceSendData(d, v) ==
  \/ HandToReceiver(d, v)
  \/ /\ ~ReceiverWaits(d)
     /\ dtqcb' = [dtqcb EXCEPT ![d] = ForceEnqueueData(@, d, v)]
     /\ NoDelivery /\ UNCHANGED vars

\* The oldest datum of the buffer, whose place the first waiting sender takes,
\* or that sender's datum when there is no buffer.
ReceiveData(d) ==
  \/ /\ dtqcb[d].count > 0
     /\ Deliver(runtsk, Oldest(dtqcb[d]))
     /\ LET c == DequeueData(dtqcb[d], d)
        IN  IF SenderWaits(d)
            THEN /\ dtqcb' = [dtqcb EXCEPT ![d] =
                                EnqueueData(c, d, sdata[Head(wque[SQ(d)])])]
                 /\ Return(ReleaseFirst(SQ(d)))
            ELSE dtqcb' = [dtqcb EXCEPT ![d] = c] /\ UNCHANGED vars
  \/ /\ dtqcb[d].count = 0 /\ SenderWaits(d)
     /\ Deliver(runtsk, sdata[Head(wque[SQ(d)])])
     /\ Return(ReleaseFirst(SQ(d)))
     /\ UNCHANGED dtqcb

-----------------------------------------------------------------------------
(* Service calls. *)

\* snd_dtq, and tsnd_dtq with a positive timeout if `timed'.
snd_dtq(d, v, timed) ==
  /\ "snd_dtq" \in Api /\ CheckDispatch
  /\ timed => "tmout" \in Api
  /\ ~tcb[runtsk].raster
  /\ \/ SendData(d, v) /\ SendersKept
     \/ /\ ~ReceiverWaits(d) /\ ~DtqHasRoom(d)
        /\ sdata' = [sdata EXCEPT ![runtsk] = v]
        /\ Return(WObjMakeWait(K, SQ(d), timed))
        /\ NoDelivery /\ UNCHANGED dtqcb

\* psnd_dtq may be called by a handler.
psnd_dtq(d, v) == "psnd_dtq" \in Api /\ Unl /\ SendData(d, v) /\ SendersKept

fsnd_dtq(d, v) ==
  /\ "fsnd_dtq" \in Api /\ Unl
  /\ DtqCnt[d] > 0
  /\ ForceSendData(d, v) /\ SendersKept

\* rcv_dtq, and trcv_dtq with a positive timeout if `timed'.
rcv_dtq(d, timed) ==
  /\ "rcv_dtq" \in Api /\ CheckDispatch
  /\ timed => "tmout" \in Api
  /\ ~tcb[runtsk].raster
  /\ \/ ReceiveData(d)
     \/ /\ dtqcb[d].count = 0 /\ ~SenderWaits(d)
        /\ Return(WObjMakeWait(K, RQ(d), timed))
        /\ NoDelivery /\ UNCHANGED dtqcb
  /\ SendersKept

prcv_dtq(d) == "prcv_dtq" \in Api /\ TskCtxUnl /\ ReceiveData(d) /\ SendersKept

EmptyDtq(d) ==
  [count |-> 0, head |-> 0, tail |-> 0, mb |-> [i \in 0..(DtqCnt[d] - 1) |-> NoData]]

ini_dtq(d) ==
  /\ "ini_dtq" \in Api /\ TskCtxUnl
  /\ Return(InitWaitQueue(InitWaitQueue(K, SQ(d)), RQ(d)))
  /\ dtqcb' = [dtqcb EXCEPT ![d] = EmptyDtq(d)]
  /\ NoDelivery /\ SendersKept

-----------------------------------------------------------------------------
DtqInit ==
  /\ Init /\ SRInit
  /\ dtqcb = [d \in Dtq |-> EmptyDtq(d)]

DtqCall(d) ==
  \/ \E v \in DtqData : \/ psnd_dtq(d, v) \/ fsnd_dtq(d, v)
                     \/ \E timed \in BOOLEAN : snd_dtq(d, v, timed)
  \/ \E timed \in BOOLEAN : rcv_dtq(d, timed)
  \/ prcv_dtq(d) \/ ini_dtq(d)

\* Of all the other calls.
DtqKept == NoDelivery /\ SendersKept /\ UNCHANGED dtqcb

DtqNext ==
  \/ Next /\ DtqKept
  \/ \E d \in Dtq : DtqCall(d)

DtqSpec == DtqInit /\ [][DtqNext]_dvars

-----------------------------------------------------------------------------
(* Properties. *)

\* Receivers wait only while there is nothing to receive, and senders only while
\* the buffer is full: no time-out, forced send, termination or ini_dtq leaves
\* a task waiting for what is there.
DtqWaitsAreJustified ==
  \A d \in Dtq : /\ ReceiverWaits(d) => dtqcb[d].count = 0 /\ ~SenderWaits(d)
                 /\ SenderWaits(d) => ~DtqHasRoom(d)

\* The data of the buffer, oldest first, and then those of the waiting senders.
DtqContents(d) ==
  LET c == dtqcb[d]
  IN  [i \in 1..c.count |-> c.mb[(c.head + i - 1) % DtqCnt[d]]]
        \o [i \in DOMAIN wque[SQ(d)] |-> sdata[wque[SQ(d)][i]]]
================================================================================
