------------------------------ MODULE SendReceive ------------------------------
(***************************************************************************)
(* What data queues, priority data queues and message buffers have in      *)
(* common: an object with a queue of tasks that wait to send, in FIFO or   *)
(* priority order, and a queue of tasks that wait to receive, always in    *)
(* FIFO order.                                                             *)
(***************************************************************************)
EXTENDS TaskKernel

CONSTANT NoData   \* the contents of memory that nobody wrote

SQ(d) == <<"S", d>>   \* swait_queue
RQ(d) == <<"R", d>>   \* rwait_queue

VARIABLES
  sdata,     \* what a task waits to send (WINFO_SDTQ, WINFO_SPDQ, WINFO_SMBF)
  rdata      \* what a task receives in this step (*p_data, WINFO_RDTQ.data, ...)

srvars == <<sdata, rdata>>

NothingData == [t \in Task |-> NoData]

SRInit == sdata = NothingData /\ rdata = NothingData

Deliver(t, v) == rdata' = [NothingData EXCEPT ![t] = v]
NoDelivery    == rdata' = NothingData

\* The WINFO is on the stack of the call that waits and ends with the wait.
SendersKept ==
  sdata' = [t \in Task |-> IF IsWaiting(tcb'[t].tstat) THEN sdata[t] ELSE NoData]

ReceiverWaits(d) == wque[RQ(d)] # << >>
SenderWaits(d)   == wque[SQ(d)] # << >>

\* The first waiter of w leaves its queue and is released.
ReleaseFirst(w) == WaitComplete([K EXCEPT !.wque[w] = Tail(@)], Head(wque[w]))
=============================================================================
