------------------------------- MODULE MCStorage -------------------------------
(* Instances of Mempfix and of MessageBuf for TLC: in a behaviour of either the    *)
(* objects of the other kind are there and nobody uses them.                       *)
EXTENDS Mempfix, MessageBuf

CONSTANTS t1, t2, t3, p1, b1   \* tasks, one pool, one message buffer

MCTask   == {t1, t2, t3}
MCUnitOf == [t \in MCTask |-> KERNEL]
MCWObj   == {p1, SQ(b1), RQ(b1)}
MCTwo    == p1 :> 2

\* The pool: the task that runs first is the least urgent.
MCMpfPri == [t \in MCTask |-> IF t = t1 THEN 2 ELSE 1]

\* The message buffer: the task that receives is the most urgent.
MCMbfPri == [t \in MCTask |-> IF t = t3 THEN 1 ELSE 2]

\* A ring of four words, for messages that take two, three and six of them: the
\* last ones never get into the ring and go straight to a receiver.
MCMbfSz == b1 :> 4
MCMsgSz == "a" :> 1 @@ "b" :> 2 @@ "c" :> 5

StorageInit == MpfInit /\ MbfInit
storage == <<pvars, srvars, mbfcb>>

PoolSpec   == StorageInit /\ [][MpfNext /\ UNCHANGED <<srvars, mbfcb>>]_storage
BufferSpec == StorageInit /\ [][MbfNext /\ UNCHANGED mpvars]_storage
=============================================================================
