------------------------------ MODULE MessageBuf ------------------------------
(***************************************************************************)
(* Message buffers (kernel/messagebuf.c): a ring of words that holds       *)
(* messages of different sizes, each behind a word with its size, and the  *)
(* queues of the tasks that wait to send and to receive.  Whatever takes a *)
(* waiting sender away may let the next one in (mbfhook_dequeue_wobj), so  *)
(* the calls that end waits are defined anew here.                         *)
(*                                                                         *)
(* Sizes and indices count words (sizeof(uint_t)); the code rounds the     *)
(* size of a message up to whole words.                                    *)
(***************************************************************************)
EXTENDS SendReceive

CONSTANTS
  Mbf,       \* the message buffers
  MbfSz,     \* p_mbfinib->mbfsz in words
  Msg,       \* the messages sent
  MsgSz      \* their sizes in words

ASSUME MessageBufAssumption ==
  /\ \A b \in Mbf : SQ(b) \in WObj /\ RQ(b) \in WObj \ TPriObj
  /\ MbfSz \in [Mbf -> Nat \ {0}] /\ MsgSz \in [Msg -> Nat \ {0}] /\ NoData \notin Msg

VARIABLE mbfcb   \* fmbfsz, head, tail, smbfcnt, and the ring mbfmb

bvars == <<vars, srvars, mbfcb>>

\* The operators work on the kernel state record with two more fields.
KB == [tcb |-> tcb, ready |-> ready, primap |-> primap, predtsk |-> predtsk,
       wque |-> wque, tmevt |-> tmevt, runtsk |-> runtsk, schedtsk |-> schedtsk,
       twdsched |-> twdsched, idlesched |-> idlesched, dspflg |-> dspflg,
       mbfcb |-> mbfcb, sdata |-> sdata]

MbfBecomes(s) ==
  /\ Becomes(s)
  /\ mbfcb' = s.mbfcb
  /\ sdata' = [t \in Task |-> IF \E b \in Mbf : s.tcb[t].wobj = SQ(b)
                             THEN s.sdata[t] ELSE NoData]

MbfReturn(s) == MbfBecomes(DispatchIfNeeded(s)) /\ UNCHANGED cpuvars

-----------------------------------------------------------------------------
(* The ring of words. *)

Fits(c, m) == 1 + MsgSz[m] <= c.fmbfsz

\* enqueue_message of a message that fits: its size, then its words.
EnqueueMessage(c, b, m) ==
  LET size    == MbfSz[b]
      place   == [k \in 0..MsgSz[m] |-> (c.tail + k) % size]
      word(k) == IF k = 0 THEN <<"size", MsgSz[m]>> ELSE <<m, k>>
  IN  [c EXCEPT !.mb = [i \in 0..(size - 1) |->
                          IF \E k \in DOMAIN place : place[k] = i
                          THEN word(CHOOSE k \in DOMAIN place : place[k] = i) ELSE @[i]],
                !.tail = (@ + 1 + MsgSz[m]) % size,
                !.fmbfsz = @ - 1 - MsgSz[m], !.smbfcnt = @ + 1]

\* The message whose size is stored at h, if all its words are there.
MessageAt(c, b, h) ==
  LET n == c.mb[h][2]
      stored(m) == /\ c.mb[h][1] = "size" /\ n = MsgSz[m]
                   /\ \A k \in 1..n : c.mb[(h + k) % MbfSz[b]] = <<m, k>>
  IN  IF \E m \in Msg : stored(m) THEN CHOOSE m \in Msg : stored(m) ELSE NoData

\* The contents of a word that no message occupies do not matter.
FreeWord == <<"none", 0>>

FreeWords(c, b, n) ==
  [i \in DOMAIN c.mb |-> IF (i - c.head) % MbfSz[b] <= n THEN FreeWord ELSE c.mb[i]]

DequeueMessage(c, b) ==
  LET n == c.mb[c.head][2]
  IN  [c EXCEPT !.head = (@ + 1 + n) % MbfSz[b], !.fmbfsz = @ + 1 + n, !.smbfcnt = @ - 1,
                !.mb = FreeWords(c, b, n)]

-----------------------------------------------------------------------------
(* Internal functions. *)

\* messagebuf_signal: waiting senders put their messages into the buffer, in
\* queue order, until one does not fit.
Signal(s, b) ==
  FoldLeft(LAMBDA s1, t :
             IF Head(s1.wque[SQ(b)]) = t /\ Fits(s1.mbfcb[b], s.sdata[t])
             THEN WaitComplete([s1 EXCEPT !.wque[SQ(b)] = Tail(@),
                                          !.mbfcb[b] = EnqueueMessage(@, b, s.sdata[t])], t)
             ELSE s1,
           s, s.wque[SQ(b)])

SendsTo(s, t) == {b \in Mbf : "OBJ" \in s.tcb[t].tstat /\ s.tcb[t].wobj = SQ(b)}

DequeueWObj_NoSignal(s, t) == WaitDequeueWObj(s, t)

\* wait_dequeue_wobj with mbfhook_dequeue_wobj
DequeueWObj(s, t) ==
  LET s1 == WaitDequeueWObj(s, t)
  IN  IF SendsTo(s, t) = {} THEN s1
      ELSE Signal(s1, CHOOSE b \in Mbf : b \in SendsTo(s, t))

\* Leaving any wait: its queue and its time event.
EndWait(s, t) ==
  IF IsWaiting(s.tcb[t].tstat) THEN WaitDequeueTmevtb(DequeueWObj(s, t), t) ELSE s

\* task_terminate
MbfTerminate(s, t) ==
  BecomeDormant(IF IsRunnable(s.tcb[t].tstat) THEN MakeNonRunnable(s, t) ELSE EndWait(s, t), t)

\* send_message, up to the caller's dispatch
SendMessage(b, m) ==
  \/ /\ ReceiverWaits(b)
     /\ Deliver(Head(wque[RQ(b)]), m)
     /\ MbfReturn(WaitComplete([KB EXCEPT !.wque[RQ(b)] = Tail(@)], Head(wque[RQ(b)])))
  \/ /\ ~ReceiverWaits(b) /\ ~SenderWaits(b) /\ Fits(mbfcb[b], m)
     /\ mbfcb' = [mbfcb EXCEPT ![b] = EnqueueMessage(@, b, m)]
     /\ NoDelivery /\ UNCHANGED <<vars, sdata>>

\* receive_message, up to the caller's dispatch
ReceiveMessage(b) ==
  \/ /\ mbfcb[b].smbfcnt > 0
     /\ Deliver(runtsk, MessageAt(mbfcb[b], b, mbfcb[b].head))
     /\ MbfReturn(Signal([KB EXCEPT !.mbfcb[b] = DequeueMessage(@, b)], b))
  \/ /\ mbfcb[b].smbfcnt = 0 /\ SenderWaits(b)
     /\ Deliver(runtsk, sdata[Head(wque[SQ(b)])])
     /\ MbfReturn(WaitComplete([KB EXCEPT !.wque[SQ(b)] = Tail(@)], Head(wque[SQ(b)])))

-----------------------------------------------------------------------------
(* Service calls. *)

\* snd_mbf, and tsnd_mbf with a positive timeout if `timed'.
snd_mbf(b, m, timed) ==
  /\ "snd_mbf" \in Api /\ CheckDispatch
  /\ timed => "tsnd_mbf" \in Api
  /\ ~tcb[runtsk].raster
  /\ \/ SendMessage(b, m)
     \/ /\ ~ReceiverWaits(b) /\ (SenderWaits(b) \/ ~Fits(mbfcb[b], m))
        /\ MbfReturn(WObjMakeWait([KB EXCEPT !.sdata[runtsk] = m], SQ(b), timed))
        /\ NoDelivery

psnd_mbf(b, m) ==
  "psnd_mbf" \in Api /\ TskCtxUnl /\ SendMessage(b, m)

\* rcv_mbf, and trcv_mbf with a positive timeout if `timed'.
rcv_mbf(b, timed) ==
  /\ "rcv_mbf" \in Api /\ CheckDispatch
  /\ timed => "trcv_mbf" \in Api
  /\ ~tcb[runtsk].raster
  /\ \/ ReceiveMessage(b)
     \/ /\ mbfcb[b].smbfcnt = 0 /\ ~SenderWaits(b)
        /\ MbfReturn(WObjMakeWait(KB, RQ(b), timed))
        /\ NoDelivery

prcv_mbf(b) == "prcv_mbf" \in Api /\ TskCtxUnl /\ ReceiveMessage(b)

EmptyMbf(b) ==
  [fmbfsz |-> MbfSz[b], head |-> 0, tail |-> 0, smbfcnt |-> 0,
   mb |-> [i \in 0..(MbfSz[b] - 1) |-> FreeWord]]

ini_mbf(b) ==
  /\ "ini_mbf" \in Api /\ TskCtxUnl
  /\ LET s == InitWaitQueue(InitWaitQueue(KB, SQ(b)), RQ(b))
     IN  MbfReturn([s EXCEPT !.mbfcb[b] = EmptyMbf(b)])
  /\ NoDelivery

-----------------------------------------------------------------------------
(* The task management calls that end waits. *)

MbfRelWai(t) ==
  /\ "rel_wai" \in Api /\ Unl
  /\ IsWaiting(tcb[t].tstat)
  /\ MbfReturn(MakeNonWait(EndWait(KB, t), t))

MbfTimerExpires(t) ==
  /\ intnest /\ t \in tmevt
  /\ MbfReturn(MakeNonWait(DequeueWObj(WaitDequeueTmevtb(KB, t), t), t))

MbfTerTsk(t) == TerTskOK(t) /\ MbfReturn(MbfTerminate(KB, t))

MbfRasTer(t) ==
  /\ RasTerOK(t)
  /\ \/ tcb[t].enater /\ MbfReturn(MbfTerminate(KB, t))
     \/ /\ ~tcb[t].enater /\ IsRunnable(tcb[t].tstat)
        /\ MbfReturn([KB EXCEPT !.tcb[t].raster = TRUE])
     \/ /\ ~tcb[t].enater /\ ~IsRunnable(tcb[t].tstat)
        /\ LET s == [EndWait(KB, t) EXCEPT !.tcb[t].raster = TRUE,
                                           !.tcb[t].tstat = {"RUNNABLE"}]
           IN  MbfReturn(MakeRunnable(s, t))

-----------------------------------------------------------------------------
MbfInit ==
  /\ Init /\ SRInit
  /\ mbfcb = [b \in Mbf |-> EmptyMbf(b)]

MbfCall(b) ==
  \/ \E m \in Msg : psnd_mbf(b, m) \/ \E timed \in BOOLEAN : snd_mbf(b, m, timed)
  \/ \E timed \in BOOLEAN : rcv_mbf(b, timed)
  \/ prcv_mbf(b) \/ ini_mbf(b)

MbfTaskCall(t) ==
  /\ \/ MbfRelWai(t) \/ MbfTimerExpires(t) \/ MbfTerTsk(t) \/ MbfRasTer(t)
     \/ (\E p \in Pri : chg_pri(t, p)) /\ UNCHANGED <<mbfcb, sdata>>
  /\ NoDelivery

\* Of the calls that end no wait.
MbfKept == NoDelivery /\ UNCHANGED <<mbfcb, sdata>>

MbfNext ==
  \/ (PlainCall \/ SystemCall) /\ MbfKept
  \/ \E t \in Task : MbfTaskCall(t)
  \/ \E b \in Mbf : MbfCall(b)

MbfSpec == MbfInit /\ [][MbfNext]_bvars

-----------------------------------------------------------------------------
(* Properties. *)

\* Where the i-th message of the ring starts.
Offset(c, b) ==
  LET at[i \in 1..(c.smbfcnt + 1)] ==
        IF i = 1 THEN c.head ELSE (at[i - 1] + 1 + c.mb[at[i - 1]][2]) % MbfSz[b]
  IN  at

Buffered(b) ==
  [i \in 1..mbfcb[b].smbfcnt |-> MessageAt(mbfcb[b], b, Offset(mbfcb[b], b)[i])]

\* The messages of the ring, oldest first, and then those of the waiting senders.
MbfContents(b) == Buffered(b) \o [i \in DOMAIN wque[SQ(b)] |-> sdata[wque[SQ(b)][i]]]

WordsUsed(b) == FoldLeft(LAMBDA n, m : n + 1 + MsgSz[m], 0, Buffered(b))

\* Messages are intact in the ring, wherever it wraps, the last one ends at tail,
\* and fmbfsz is exactly the space they leave.
RingIntact ==
  \A b \in Mbf : LET c == mbfcb[b] IN
    /\ NoData \notin Range(Buffered(b))
    /\ c.tail = Offset(c, b)[c.smbfcnt + 1]
    /\ c.fmbfsz = MbfSz[b] - WordsUsed(b)

FirstFits(b) == SenderWaits(b) /\ Fits(mbfcb[b], sdata[Head(wque[SQ(b)])])

\* A receiver waits only while there is no message at all, and the first sender
\* of a TA_TFIFO queue only while its message does not fit, as long as there are
\* messages in the ring: whatever takes another task out of the queue (receiving,
\* time-out, rel_wai, termination) lets it in.
MbfWaitsAreJustified ==
  \A b \in Mbf :
    /\ ReceiverWaits(b) => mbfcb[b].smbfcnt = 0 /\ ~SenderWaits(b)
    /\ FirstFits(b) => SQ(b) \in TPriObj \/ mbfcb[b].smbfcnt = 0

\* messagebuf.c:275 "if the message of the first task of the queue can be stored
\* it is stored and the task released, until one cannot be stored": between calls
\* no first sender of a TA_TFIFO queue waits although its message fits.
FirstSenderDoesNotFit == \A b \in Mbf : SQ(b) \in TPriObj \/ ~FirstFits(b)
================================================================================
