----------------------------- MODULE MCSemaphore -----------------------------
(* Instances of Semaphore for TLC. *)
EXTENDS Semaphore

CONSTANTS t1, t2, t3, x1   \* tasks, one semaphore

MCTask   == {t1, t2, t3}
MCUnitOf == [t \in MCTask |-> KERNEL]
MCIniPri == [t \in MCTask |-> IF t = t3 THEN 1 ELSE 2]
MCOne    == x1 :> 1
MCTwo    == x1 :> 2
=============================================================================
