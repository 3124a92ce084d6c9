---------------------------- MODULE DcreInterrupt ----------------------------
(***************************************************************************)
(* Interrupt lines and interrupt service routines, created and deleted     *)
(* while the system runs (extension/dcre/kernel/interrupt.c).  All         *)
(* routines of a line are called by one interrupt handler, one after the   *)
(* other; handlers of higher interrupt priorities may run between any two  *)
(* steps of the walk, except while the CPU is locked.                      *)
(***************************************************************************)
EXTENDS Integers, Sequences, SequencesExt

CONSTANTS
  IntNo,      \* the interrupt lines that have a queue of routines
  IntPri,     \* their interrupt priorities; the larger preempts
  Isr,        \* the IDs of routines
  StaticIsr,  \* those created by the configurator: a function to [intno, isrpri]
  isrorder_table, \* the same in the order of their definitions
  DynIsr,     \* the other IDs, in their order
  IsrPri      \* the priorities of routines; TMIN_ISRPRI is 1

ASSUME InterruptAssumption ==
  /\ IntPri \in [IntNo -> Nat] /\ IsrPri \subseteq Nat \ {0}
  /\ StaticIsr \in [DOMAIN StaticIsr -> [intno : IntNo, isrpri : IsrPri]]
  /\ isrorder_table \in Seq(Isr) /\ IsInjective(isrorder_table)
  /\ DynIsr \in Seq(Isr) /\ IsInjective(DynIsr)
  /\ Range(isrorder_table) = DOMAIN StaticIsr
  /\ Range(DynIsr) = Isr \ DOMAIN StaticIsr

VARIABLES
  isrinib,    \* line and priority of the existing routines
  isr_queue,  \* per line: the queue of its routines
  free_isrcb, \* the queue of unused control blocks
  line,       \* per line: request flag and enable flag
  ilock,      \* the CPU is locked
  frames,     \* the handlers that run, the innermost first: line, routine and,
              \* for the properties, the routines called, with the lock at their start
  created     \* for the properties: the existing routines in order of creation

ivars == <<isrinib, isr_queue, free_isrcb, line, ilock, frames, created>>

NOEXS == [intno |-> "none", isrpri |-> 0]

InTask == frames = << >>

-----------------------------------------------------------------------------
(* The queues. *)

enqueue_isr_BeforeEquals(q, i, init) ==
  LET later == {k \in 1..Len(q) : init[i].isrpri <= init[q[k]].isrpri}
      at    == IF later = {} THEN Len(q) + 1 ELSE CHOOSE k \in later : \A j \in later : k <= j
  IN  InsertAt(q, at, i)

\* Before the first routine of a larger priority.
enqueue_isr(q, i, init) ==
  LET later == {k \in 1..Len(q) : init[i].isrpri < init[q[k]].isrpri}
      at    == IF later = {} THEN Len(q) + 1 ELSE CHOOSE k \in later : \A j \in later : k <= j
  IN  InsertAt(q, at, i)

queue_delete(q, i) ==
  [k \in 1..(Len(q) - 1) |-> IF \A j \in 1..k : q[j] # i THEN q[k] ELSE q[k + 1]]

InitialIsr == [i \in Isr |-> IF i \in DOMAIN StaticIsr THEN StaticIsr[i] ELSE NOEXS]

\* initialize_isr: the static routines of line n, as isrorder_table lists them.
InitialQueue(n) ==
  LET q[k \in 0..Len(isrorder_table)] ==
        IF k = 0 THEN << >>
        ELSE LET i == isrorder_table[k]
             IN  IF StaticIsr[i].intno = n THEN enqueue_isr(q[k - 1], i, InitialIsr)
                 ELSE q[k - 1]
  IN  q[Len(isrorder_table)]

InterruptInit ==
  /\ isrinib = InitialIsr
  /\ isr_queue = [n \in IntNo |-> InitialQueue(n)]
  /\ free_isrcb = DynIsr
  /\ line = [n \in IntNo |-> [req |-> FALSE, ena |-> TRUE]]
  /\ ilock = FALSE /\ frames = << >> /\ created = isrorder_table

\* acre_isr, in tasks: the first unused control block.
acre_isr(n, pri) ==
  /\ InTask /\ ~ilock /\ free_isrcb # << >>
  /\ LET i == Head(free_isrcb)
     IN  /\ free_isrcb' = Tail(free_isrcb)
         /\ isrinib' = [isrinib EXCEPT ![i] = [intno |-> n, isrpri |-> pri]]
         /\ isr_queue' = [isr_queue EXCEPT ![n] = enqueue_isr(@, i, isrinib')]
         /\ created' = Append(created, i)
  /\ UNCHANGED <<line, ilock, frames>>

\* del_isr, in tasks: E_NOEXS for one that does not exist, E_OBJ for a static one.
del_isr(i) ==
  /\ InTask /\ ~ilock /\ isrinib[i] # NOEXS /\ i \notin DOMAIN StaticIsr
  /\ isr_queue' = [isr_queue EXCEPT ![isrinib[i].intno] = queue_delete(@, i)]
  /\ isrinib' = [isrinib EXCEPT ![i] = NOEXS]
  /\ free_isrcb' = Append(free_isrcb, i)
  /\ created' = queue_delete(created, i)
  /\ UNCHANGED <<line, ilock, frames>>

-----------------------------------------------------------------------------
(* Calls of tasks and routines on the lines, with the CPU locked or not. *)

dis_int(n) == line' = [line EXCEPT ![n].ena = FALSE]
ena_int(n) == line' = [line EXCEPT ![n].ena = TRUE]
clr_int(n) == line' = [line EXCEPT ![n].req = FALSE]
ras_int(n) == line' = [line EXCEPT ![n].req = TRUE]    \* and requests of the device

LineCall(n) ==
  /\ dis_int(n) \/ ena_int(n) \/ clr_int(n) \/ ras_int(n)
  /\ UNCHANGED <<isrinib, isr_queue, free_isrcb, ilock, frames, created>>

\* loc_cpu and unl_cpu.
LockCall ==
  /\ ilock' = ~ilock
  /\ UNCHANGED <<isrinib, isr_queue, free_isrcb, line, frames, created>>

-----------------------------------------------------------------------------
(* The handler of a line. *)

\* The handler calls routine i.
Called(f, i, lk) == [f EXCEPT !.at = i, !.done = Append(@, [isr |-> i, locked |-> lk])]

\* The line is accepted; the hardware clears the request.
AcceptInterrupt(n) ==
  /\ line[n].req /\ line[n].ena /\ ~ilock
  /\ ~InTask => IntPri[Head(frames).intno] < IntPri[n]
  /\ line' = [line EXCEPT ![n].req = FALSE]
  /\ frames' = IF isr_queue[n] = << >> THEN frames
               ELSE <<Called([intno |-> n, at |-> "none", done |-> << >>],
                             Head(isr_queue[n]), FALSE)>> \o frames
  /\ UNCHANGED <<isrinib, isr_queue, free_isrcb, ilock, created>>

\* A routine returns.  Before the next one the CPU is unlocked if the routine left
\* it locked; after the last one the return of the handler unlocks it.
IsrReturns ==
  /\ frames # << >>
  /\ LET f == Head(frames)
         q == isr_queue[f.intno]
         pos == CHOOSE j \in 1..Len(q) : q[j] = f.at
     IN  frames' = IF pos < Len(q) THEN [frames EXCEPT ![1] = Called(f, q[pos + 1], FALSE)]
                   ELSE Tail(frames)
  /\ ilock' = FALSE
  /\ UNCHANGED <<isrinib, isr_queue, free_isrcb, line, created>>

InterruptNext ==
  \/ \E n \in IntNo : \/ LineCall(n) \/ AcceptInterrupt(n)
                      \/ \E pri \in IsrPri : acre_isr(n, pri)
  \/ \E i \in Isr : del_isr(i)
  \/ LockCall \/ IsrReturns

InterruptSpec == InterruptInit /\ [][InterruptNext]_ivars

-----------------------------------------------------------------------------
(* Properties. *)

Exists(i) == isrinib[i] # NOEXS

Precedes(q, i, j) == \E a, b \in DOMAIN q : a < b /\ q[a] = i /\ q[b] = j

\* The order in which the manual has the routines of a line called: by priority,
\* and in order of creation among equals.
CalledBefore(i, j) ==
  \/ isrinib[i].isrpri < isrinib[j].isrpri
  \/ isrinib[i].isrpri = isrinib[j].isrpri /\ Precedes(created, i, j)

\* However routines are created, deleted and created again under the same ID, an
\* interrupt calls exactly the existing routines of its line, each once, in the
\* order of their priorities and creation, each with the CPU unlocked whatever
\* the one before has left; and every control block is in one queue only.
RoutinesExact ==
  /\ \A n \in IntNo :
       LET q == isr_queue[n]
       IN  /\ Range(q) = {i \in Isr : Exists(i) /\ isrinib[i].intno = n} /\ IsInjective(q)
           /\ \A i, j \in Isr : Precedes(q, i, j) => CalledBefore(i, j)
  /\ Range(free_isrcb) = {i \in Isr : ~Exists(i)} /\ IsInjective(free_isrcb)
  /\ \A k \in DOMAIN frames :
       LET done == frames[k].done
           q    == isr_queue[frames[k].intno]
       IN  /\ Len(done) <= Len(q)
           /\ \A j \in DOMAIN done : done[j] = [isr |-> q[j], locked |-> FALSE]
===============================================================================
