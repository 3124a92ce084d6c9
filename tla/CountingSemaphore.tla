--------------------------- MODULE CountingSemaphore ---------------------------
(***************************************************************************)
(* What semaphores promise: a counter each of the units that are free or,  *)
(* when negative, owed to tasks that wait.  A release adds one unit        *)
(* whether or not somebody waits, and a request takes one; a task that     *)
(* gives up waiting (time-out, rel_wai, termination) returns its claim.    *)
(***************************************************************************)
EXTENDS Integers

CONSTANTS Sem, ISemCnt, MaxSem   \* initial and maximum number of units

VARIABLE free

Init == free = ISemCnt

Signal(x) == free[x] < MaxSem[x] /\ free' = [free EXCEPT ![x] = @ + 1]
Take(x)   == free' = [free EXCEPT ![x] = @ - 1]
GiveUp(x) == free[x] < 0 /\ free' = [free EXCEPT ![x] = @ + 1]
Reset(x)  == free' = [free EXCEPT ![x] = ISemCnt[x]]

Next == \E x \in Sem : Signal(x) \/ Take(x) \/ GiveUp(x) \/ Reset(x)

Spec == Init /\ [][Next]_free
=============================================================================
