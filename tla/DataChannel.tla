------------------------------ MODULE DataChannel ------------------------------
(***************************************************************************)
(* What data queues and message buffers promise: an unbounded first-in     *)
(* first-out channel each.  The first `sent' data belong to send calls     *)
(* that have succeeded: they can only be received, or dropped oldest first *)
(* by a forced send.  The data behind them belong to senders that wait,    *)
(* and these may still withdraw.                                           *)
(***************************************************************************)
EXTENDS Integers, Sequences, SequencesExt

CONSTANTS Task, Chan, Data, NoData

VARIABLES
  chan,   \* the data sent and not yet received
  sent,   \* how many of them are committed
  got     \* the datum each task receives in this step, if any

Nothing == [t \in Task |-> NoData]

Init == /\ chan = [d \in Chan |-> << >>] /\ sent = [d \in Chan |-> 0]
        /\ got = Nothing

\* The ways a channel that holds q, n of it committed, may change; its new state
\* is a pair like <<q, n>>.
Becomes(q, n) == {q} \X (n..Len(q))

Send(q, n) == UNION {Becomes(Append(q, v), n) : v \in Data}

\* A forced send drops the oldest datum and goes before those of waiting senders.
ForceSend(q, n) ==
  IF n > 0 THEN UNION {Becomes(Tail(InsertAt(q, n + 1, v)), n) : v \in Data} ELSE {}

Withdraw(q, n) == UNION {Becomes(RemoveAt(q, i), n) : i \in (n + 1)..Len(q)}

Reset == {<< << >>, 0>>}

Receive(q, n) == Becomes(Tail(q), IF n = 0 THEN 0 ELSE n - 1)

\* Nothing changes but d, which becomes one of `new'.
Moves(d, new) == /\ <<chan'[d], sent'[d]>> \in new
                 /\ \A c \in Chan \ {d} : chan'[c] = chan[c] /\ sent'[c] = sent[c]

Changes(d) == chan'[d] # chan[d] \/ sent'[d] # sent[d]

Undelivered ==
  /\ got' = Nothing
  /\ \/ UNCHANGED <<chan, sent>>
     \/ \E d \in Chan :
          /\ Changes(d)
          /\ LET q == chan[d]
                 n == sent[d]
             IN Moves(d, Send(q, n) \union ForceSend(q, n) \union Withdraw(q, n) \union Reset)

\* A datum is received, or goes straight to a task that waits for one.
Delivered(t) ==
  /\ got'[t] \in Data
  /\ got' = [Nothing EXCEPT ![t] = got'[t]]
  /\ \E d \in Chan :
       \/ chan[d] # << >> /\ Head(chan[d]) = got'[t] /\ Moves(d, Receive(chan[d], sent[d]))
       \/ chan[d] = << >> /\ UNCHANGED <<chan, sent>>

Next == Undelivered \/ \E t \in Task : Delivered(t)

Spec == Init /\ [][Next]_<<chan, sent, got>>
=============================================================================
