--------------------------- MODULE MCTimePartition ---------------------------
(* Instances of TimePartition, Overrun, DcreInterrupt and MemoryAccess for    *)
(* TLC: the windows of three tasks, the processor time of two, interrupt      *)
(* service routines, or checks of memory access (`focus').                    *)
EXTENDS TimePartition, Overrun, DcreInterrupt, MCMemory

CONSTANTS n1, n2, i1, i2, i3, i4
CONSTANTS k, a, b, U   \* a kernel task, a task of unit U, a task of the idle unit; U

VARIABLE focus

mcvars == <<wvars, ovrvars, ivars, memvars, focus>>

MCIntPri    == n1 :> 1 @@ n2 :> 2
MCStaticIsr == i1 :> [intno |-> n1, isrpri |-> 2] @@ i2 :> [intno |-> n1, isrpri |-> 1]
MCIsrOrder  == <<i1, i2>>
MCDynIsr    == <<i3, i4>>

MCTask   == {k, a, b}
MCUnitOf == k :> KERNEL @@ a :> U @@ b :> IDLE
MCIniPri == [t \in MCTask |-> 1]

Win(n, nfy) == [dom |-> U, twdlen |-> n, nfyhdr |-> nfy]
\* One mode with two windows of the same domain, the first with a handler, and
\* one with a single window.
MCWindows == "som1" :> <<Win(2, TRUE), Win(1, FALSE)>> @@ "som2" :> <<Win(1, FALSE)>>

MCTpInit == TpInit /\ OvrInit /\ focus = "windows"

\* In the idle window of a cycle that does not end.
MCOvrInit ==
  /\ Init /\ cursom = "som1" /\ nxtsom = "som1" /\ runtwd = 0 /\ scycreg = TRUE
  /\ pendscyc = FALSE /\ pendtwd = FALSE
  /\ timer = [enable |-> FALSE, flag |-> FALSE, left |-> 0, hw |-> 0, req |-> FALSE]
  /\ hstack = << >> /\ phase = "none" /\ caller = NULL
  /\ OvrInit /\ focus = "overrun"

\* The part of the state that the other instances leave alone.
MemIdle == MemInit /\ prun = p0 /\ memmap = CHOOSE m \in MemMap : TRUE

MCInterruptInit == TpInit /\ OvrInit /\ focus = "interrupts"
MCMemoryInit    == TpInit /\ OvrInit /\ focus = "memory"

MCInit ==
  /\ InterruptInit
  /\ \/ (MCTpInit \/ MCOvrInit \/ MCInterruptInit) /\ MemIdle
     \/ MCMemoryInit /\ MemInit

MCNext ==
  /\ \/ focus = "windows" /\ TpNext /\ UNCHANGED <<ovrvars, ivars, memvars>>
     \/ focus = "overrun" /\ OvrStep({k, b}) /\ UNCHANGED <<tpvars, ivars, memvars>>
     \/ focus = "interrupts" /\ InterruptNext /\ UNCHANGED <<wvars, ovrvars, memvars>>
     \/ focus = "memory" /\ MemNext /\ UNCHANGED <<wvars, ovrvars, ivars>>
  /\ UNCHANGED focus

MCSpec == MCInit /\ [][MCNext]_mcvars
=============================================================================
