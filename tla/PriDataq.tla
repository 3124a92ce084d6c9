------------------------------- MODULE PriDataq -------------------------------
(***************************************************************************)
(* Priority data queues (kernel/pridataq.c).  The data are in the cells of *)
(* p_pdqmb: the list that starts at p_head is sorted by data priority, the *)
(* one that starts at p_freelist holds the cells given back, and the cells *)
(* from unused on have never been used.  A list is the sequence of its     *)
(* cell numbers.                                                           *)
(***************************************************************************)
EXTENDS SendReceive

CONSTANTS
  Pdq,       \* the priority data queues
  PdqCnt,    \* p_pdqinib->pdqcnt, maybe 0
  MaxDPri,   \* maxdpri
  PdqData    \* the data sent

ASSUME PriDataqAssumption ==
  /\ \A d \in Pdq : SQ(d) \in WObj /\ RQ(d) \in WObj \ TPriObj
  /\ PdqCnt \in [Pdq -> Nat] /\ MaxDPri \in Nat \ {0}

VARIABLE pdqcb   \* the two lists, unused, and the contents of the cells

qvars == <<vars, srvars, pdqcb>>

Datum    == [data: PdqData, datapri: 1..MaxDPri]
Cells(d) == 0..(PdqCnt[d] - 1)

-----------------------------------------------------------------------------
(* The cells. *)

Count(c) == Len(c.used)

Insert_BeforeEquals(c, i, pri) ==
  LET n == Cardinality({j \in DOMAIN c.used : c.mb[c.used[j]].datapri < pri})
  IN  InsertAt(c.used, n + 1, i)

\* Behind every datum whose priority is not lower.
Insert(c, i, pri) ==
  LET n == Cardinality({j \in DOMAIN c.used : c.mb[c.used[j]].datapri <= pri})
  IN  InsertAt(c.used, n + 1, i)

EnqueuePridata(c, v) ==
  LET i == IF c.free # << >> THEN Head(c.free) ELSE c.unused
  IN  [c EXCEPT !.free = IF c.free # << >> THEN Tail(@) ELSE @,
                !.unused = IF c.free # << >> THEN @ ELSE @ + 1,
                !.used = Insert(c, i, v.datapri), !.mb[i] = v]

\* The contents of a cell that holds no datum do not matter.
DequeuePridata(c) ==
  [c EXCEPT !.used = Tail(@), !.free = <<Head(c.used)>> \o @,
            !.mb[Head(c.used)] = NoData]

-----------------------------------------------------------------------------
(* send_pridata and receive_pridata, up to the caller's dispatch.  The datum *)
(* handed to the receiver is not kept.                                       *)

PdqHasRoom(d) == Count(pdqcb[d]) < PdqCnt[d]

SendPridata(d, v) ==
  \/ ReceiverWaits(d) /\ Return(ReleaseFirst(RQ(d))) /\ UNCHANGED pdqcb
  \/ /\ ~ReceiverWaits(d) /\ PdqHasRoom(d)
     /\ pdqcb' = [pdqcb EXCEPT ![d] = EnqueuePridata(@, v)]
     /\ UNCHANGED vars

ReceivePridata(d) ==
  \/ /\ Count(pdqcb[d]) > 0
     /\ LET c == DequeuePridata(pdqcb[d])
        IN  IF SenderWaits(d)
            THEN /\ pdqcb' = [pdqcb EXCEPT ![d] =
                                EnqueuePridata(c, sdata[Head(wque[SQ(d)])])]
                 /\ Return(ReleaseFirst(SQ(d)))
            ELSE pdqcb' = [pdqcb EXCEPT ![d] = c] /\ UNCHANGED vars
  \/ /\ Count(pdqcb[d]) = 0 /\ SenderWaits(d)
     /\ Return(ReleaseFirst(SQ(d)))
     /\ UNCHANGED pdqcb

-----------------------------------------------------------------------------
(* Service calls. *)

\* snd_pdq, and tsnd_pdq with a positive timeout if `timed'.
snd_pdq(d, v, timed) ==
  /\ "snd_pdq" \in Api /\ CheckDispatch
  /\ timed => "tmout" \in Api
  /\ ~tcb[runtsk].raster
  /\ \/ SendPridata(d, v) /\ SendersKept
     \/ /\ ~ReceiverWaits(d) /\ ~PdqHasRoom(d)
        /\ sdata' = [sdata EXCEPT ![runtsk] = v]
        /\ Return(WObjMakeWait(K, SQ(d), timed))
        /\ UNCHANGED pdqcb

\* psnd_pdq may be called by a handler.
psnd_pdq(d, v) == "psnd_pdq" \in Api /\ Unl /\ SendPridata(d, v) /\ SendersKept

\* rcv_pdq, and trcv_pdq with a positive timeout if `timed'.
rcv_pdq(d, timed) ==
  /\ "rcv_pdq" \in Api /\ CheckDispatch
  /\ timed => "tmout" \in Api
  /\ ~tcb[runtsk].raster
  /\ \/ ReceivePridata(d)
     \/ /\ Count(pdqcb[d]) = 0 /\ ~SenderWaits(d)
        /\ Return(WObjMakeWait(K, RQ(d), timed))
        /\ UNCHANGED pdqcb
  /\ SendersKept

prcv_pdq(d) == "prcv_pdq" \in Api /\ TskCtxUnl /\ ReceivePridata(d) /\ SendersKept

EmptyPdq(d) ==
  [used |-> << >>, free |-> << >>, unused |-> 0, mb |-> [i \in Cells(d) |-> NoData]]

ini_pdq(d) ==
  /\ "ini_pdq" \in Api /\ TskCtxUnl
  /\ Return(InitWaitQueue(InitWaitQueue(K, SQ(d)), RQ(d)))
  /\ pdqcb' = [pdqcb EXCEPT ![d] = EmptyPdq(d)]
  /\ SendersKept

-----------------------------------------------------------------------------
PdqInit ==
  /\ Init /\ SRInit
  /\ pdqcb = [d \in Pdq |-> EmptyPdq(d)]

PdqCall(d) ==
  \/ \E v \in Datum : \/ psnd_pdq(d, v)
                      \/ \E timed \in BOOLEAN : snd_pdq(d, v, timed)
  \/ \E timed \in BOOLEAN : rcv_pdq(d, timed)
  \/ prcv_pdq(d) \/ ini_pdq(d)

\* Of all the other calls.
PdqKept == SendersKept /\ UNCHANGED pdqcb

PdqNext ==
  \/ Next /\ PdqKept
  \/ \E d \in Pdq : PdqCall(d)

PdqSpec == PdqInit /\ [][PdqNext]_qvars

-----------------------------------------------------------------------------
(* Properties. *)

\* The cells below unused are in exactly one of the two lists, once: none is
\* lost and none is used for two data, however often cells are given back.
CellsPartitioned ==
  \A d \in Pdq : LET all == pdqcb[d].used \o pdqcb[d].free IN
    /\ pdqcb[d].unused \in 0..PdqCnt[d]
    /\ Len(all) = pdqcb[d].unused
    /\ Range(all) = 0..(pdqcb[d].unused - 1)

\* Receivers wait only while there is nothing to receive, and senders only while
\* every cell is taken.
PdqWaitsAreJustified ==
  \A d \in Pdq : /\ ReceiverWaits(d) => Count(pdqcb[d]) = 0 /\ ~SenderWaits(d)
                 /\ SenderWaits(d) => ~PdqHasRoom(d)

\* Data leave by priority, and among equals in the order in which they came in:
\* a step takes at most the first datum, keeps the order of the others, and puts
\* at most one datum, behind those of its priority and before the lower ones.
\* This holds also when the cell just given back is taken again in the same step
\* for the datum of a waiting sender.
DataInOrder ==
  [][\A d \in Pdq :
       LET q == pdqcb[d].used
           r == pdqcb'[d].used
           pri(i) == pdqcb'[d].mb[r[i]].datapri
           sameData(i) == pdqcb'[d].mb[i] = pdqcb[d].mb[i]
       IN  r = << >> \/
           \E gone \in {0, 1} :
             LET kept == SubSeq(q, gone + 1, Len(q))
             IN  /\ gone <= Len(q)
                 /\ \A i \in Range(kept) : sameData(i)
                 /\ \/ r = kept
                    \/ \E k \in DOMAIN r :
                         /\ RemoveAt(r, k) = kept
                         /\ \A i \in 1..(k - 1) : pri(i) <= pri(k)
                         /\ \A i \in (k + 1)..Len(r) : pri(k) < pri(i)]_qvars
=============================================================================
