# TOPPERS/HRP3 kernel: TLA+ models, checks and proofs

HRP3 is a real-time kernel with memory protection and temporal partitioning
(µITRON family), here in its port to the Renesas RX65N (GR-ROSE). This
directory models the kernel proper (`src/kernel`), the parts of the RX port
(`src/arch/rx_gcc`) that decide which task runs, the extensions for dynamic
creation and overrun handlers (`src/extension/dcre`, `src/extension/ovrhdr`), and
the two system services with state that tasks and interrupts share, the serial
driver and the system log (`src/syssvc`).

## 1. The system

### How the kernel runs

One processor. Every service call checks its context and its arguments, takes
the *CPU lock* (`lock_cpu`, which masks the kernel's interrupts), changes the
kernel data, dispatches if `p_runtsk != p_schedtsk`, and unlocks. So the body of
a service call is atomic with respect to all other kernel code, except where it
dispatches: there the task may be suspended for any time inside the call.
Interrupt handlers run between the critical sections of tasks, may nest, and
call a subset of the service calls; a change of the task to be executed made in
a handler takes effect when the outermost handler returns
(`core_support.S`, `_kernel_interrupt`). The timer interrupt calls
`signal_time`, which runs the callbacks of due time events (time-outs, cyclic
and alarm notifications, the system cycle); the timer of the time window
requests a switch of the window (`twd_switch`). Callbacks that call application
code unlock the CPU meanwhile.

### Components

| Component | Source | State | Operations | What is hard |
|---|---|---|---|---|
| Scheduler | `task.[ch]`, `domain.h` | per scheduling unit: ready queues, bitmap, `p_predtsk`; `p_schedtsk`, `p_twdsched`, `p_idlesched` | make_runnable, make_non_runnable, change_priority, rotate_ready_queue, update_schedtsk, task_terminate | four redundant data structures updated incrementally; `p_schedtsk` must not be updated while dispatching is held off and must be right once it is not |
| Dispatcher | `core_support.S`, `core_kernel_impl.h` | `p_runtsk`, `intnest`, PSW | dispatch, exit_and_dispatch, start_dispatch, interrupt entry/exit, idle loop | nesting, return into the idle loop |
| Task management, termination, synchronisation | `task_manage.c`, `task_term.c`, `task_sync.c` | `tstat`, `actque`, `wupque`, `raster`, `enater`, priorities | act_tsk ... dly_tsk | termination requests that must wait for `ena_ter`, `ena_dsp` or `chg_ipm`; suspended waiting tasks; restart by a queued activation |
| System state | `sys_manage.c`, `interrupt.c`, `check.h` | CPU lock, `enadsp`, `ipm`, `dspflg` | loc_cpu, dis_dsp, chg_ipm, rot_rdq ... | `dspflg` caches two conditions |
| Waiting | `wait.[ch]` | wait queues, WINFO, TMEVTB | wobj_make_wait, wait_complete, wait_tmout, init_wait_queue | a time-out, a forced release and a regular release race for one task |
| Mutexes | `mutex.c` | `p_loctsk`, lock lists, ceilings | loc/ploc/tloc/unl/ini_mtx | current priority, ownership and termination of owners |
| Semaphores, event flags | `semaphore.c`, `eventflag.c` | count / pattern, wait queue | sig/wai, set/clr/wai | several waiters released by one call |
| Data queues, priority data queues | `dataqueue.c`, `pridataq.c` | ring buffer / sorted free-list buffer, two wait queues | snd, fsnd, rcv, ini | order of data across buffer and blocked senders |
| Message buffers | `messagebuf.c` | byte ring buffer, two wait queues | snd, rcv, ini; hook on waiter removal | a sender may stay blocked although its message fits |
| Fixed-size memory pools | `mempfix.c` | free list, `unused`, `fblkcnt` | get, rel, ini | checks made before the lock |
| Time events | `time_event.[ch]`, `time_manage.c` | binary heaps, 32-bit event time, boundary time, monotonic time, timer | register, enqueue, dequeue, signal_time, adj/set/get_tim | wrap-around; the timer is reprogrammed inside and outside of `signal_time` |
| Cyclic and alarm notifications | `cyclic.c`, `alarm.c` | `cycsta`/`almsta`, time event | sta, stp, callback | the callback unlocks the CPU |
| Time partitioning | `domain.c` | system cycle, time windows, pending switches, left time | scyc_switch, twd_switch, set_dspflg, chg_som | switches that come while dispatching is held off; cancelled windows |
| Memory objects, access control | `memory.c`, `mem_manage.c`, generated tables | constant tables | prb_mem, ref_mem, access checks | boundaries of regions and of the address space |
| Dynamic creation | `extension/dcre` | per kind a free list; kernel memory pool | acre_, del_ | objects that vanish while tasks wait for or own them; memory returned only all together |
| Interrupt service routines (dcre) | `extension/dcre/kernel/interrupt.c` | queue per line, free list | acre_isr, del_isr, call_isr, dis/ena/clr/ras_int | a walk over a list with application code in between |
| Overrun handler | `extension/ovrhdr` | `staovr`, `leftotm`, timer | sta_ovr, stp_ovr, call_ovrhdr | the timer expires as its task is preempted, ended, or given new time |
| Serial driver | `syssvc/serial.c`, `prc_serial.c` | ring buffers, semaphores, flow control, UART | opn/cls/ctl_por, wri_dat, rea_dat, callbacks | units handed on through a full or empty buffer; a send interrupt forgotten |
| System log | `syssvc/syslog.c` | ring of records, lost count | wri_log, rea_log, msk_log, fls_log | overwriting from any context |
| Exceptions, start-up, configuration, other services | `exception.c`, `startup.c`, `cfg/`, `kernel/*.trb`, `logtask.c` ... | | | not modelled (section 6) |

## 2. How the models are built

**Atomicity.** A service call's body between `lock_cpu` and `unlock_cpu` is one
action: nothing else in the kernel runs there, except where the code dispatches,
and then the call has no more kernel data to change. What a call reads before
`lock_cpu` matters in one place, `rel_mpf`, which is two actions (module
`Mempfix`). Elsewhere the reads before the lock are of constant tables, of
`p_runtsk` (which cannot change under a running task), or of `bpriority` in
`rot_rdq(TPRI_SELF)`, whose stale values the model covers because the priority to
rotate is any priority. Code that unlocks the CPU in its middle (`call_cyclic`,
`call_alarm`, `twd_start`, `call_isr`) is several actions with a phase between
them; the serial driver's calls, which are made of many critical sections and
semaphore calls, have a program counter per task.

**State.** `KernelState` describes the kernel data as one record and gives every
internal C function (`make_runnable`, `wait_complete`, `task_terminate`, ...) as an
operator from a record to a record, named as the function is. `TaskKernel` holds
the fields of the record as variables; a service call is an action that composes
such operators in the order of the code and makes one step of the result.
`Return(s)` is the common end of the calls: dispatch if `p_runtsk != p_schedtsk`
and no handler runs, else leave it to the interrupt return. `TimeEvent` does the
same for the heap and the times (record `m`).

**Errors.** A call that fails leaves the state unchanged and so is a stuttering
step; only its condition appears, in the guard of the action.

**Tasks and handlers.** The application is any sequence of service calls by the
running task, and of the calls allowed in handlers while one runs. Interrupts may
come between any two calls unless the application holds the CPU lock; one with a
priority above the mask always exists. Nested handlers are one handler in
`TaskKernel`, because only the outermost return does anything there; where nesting
matters (`TimePartition`, `DcreInterrupt`) there is a stack of them.

**Time.** In the modules built on `TaskKernel` a registered time event may fall due at
any time in a handler; how long a time-out takes is the matter of `Notification`,
which has a clock, a late interrupt of bounded lateness (`MaxLate`) and all counters
modulo a small number. `TimePartition` counts window time in ticks that pass while user
tasks run; `Overrun` counts processor time.

**What the constants bound.** `Task`, `NPri`, `Unit`, the objects, and `Api`, the
set of service calls the application of a run makes (the calls with a time-out
have a name of their own in it, such as `"tmout"`; calls that applications should
not make, such as `"twice"`, the return of a block by two tasks, appear only in the
runs about them). Data counters are bounded by
the code itself (`maxsem`, `dtqcnt`, ...), `actque` and `wupque` are single bits
there too.

**Abstractions.** Protection domains appear as scheduling units, and in `MemoryAccess`
as sets of rights; other access checks (access vectors), the stack switches and the MPU
do not appear. Bit patterns are sets of
bits, messages a name and a size in words, log records and characters a number or a
class. `WINFO` structures on the stack of a
blocked call are cleared when the wait ends, and a received datum is visible only
in the step that delivers it.

**Names.** Definitions have the names of the C functions, in capitals and without
underscores for internal ones. A definition `X_Why` is a plausible mistake in `X`
(a dropped guard, a missing update); each one is used in place of `X` to see that
the property it is meant for is violated.

## 3. Modules

| Module | Models | Builds on |
|---|---|---|
| `KernelState` | `task.[ch]`, `wait.[ch]`: ready queues, scheduling units, waits, termination, as operators on a record | - |
| `TaskKernel` | `task_manage.c`, `task_term.c`, `task_sync.c`, `sys_manage.c`, `chg_ipm`, interrupt entry and exit; no mutexes, no time partitioning | `KernelState` |
| `Mutex` | `mutex.c` and the calls that reach it by `mtxhook_*`; a record of the kernel's record, the owners and the lists of mutexes | `TaskKernel` |
| `Semaphore`, `EventFlag` | `semaphore.c`, `eventflag.c` | `TaskKernel` |
| `SendReceive` | what the three kinds of queues share: two wait queues per object, delivery to receivers | `TaskKernel` |
| `DataQueue`, `PriDataq`, `MessageBuf` | `dataqueue.c`, `pridataq.c`, `messagebuf.c` with the hook in `wait_dequeue_wobj`, for which it redefines the calls that end waits | `SendReceive` |
| `Mempfix` | `mempfix.c`, with `rel_mpf` in two parts, and the blocks each task has | `TaskKernel` |
| `CountingSemaphore` | abstract: counters, implemented by `Semaphore` | - |
| `DataChannel` | abstract: first-in first-out channels with committed and uncommitted data, implemented by data queues and message buffers | - |
| `TimeEvent` | `time_event.c`, `time_manage.c`: heap, event times, timer, as operators on a record; the loops of `tmevt_up` and `tmevt_down` as functions of the round | - |
| `Notification` | `cyclic.c`, `alarm.c`, time-outs and the system cycle as users of the heap, `signal_time` with its callbacks, the calls on the system time, a clock | `TimeEvent` |
| `TimePartition` | `domain.c`, the window timer, the dispatcher's and the interrupt entry's work for them | `TaskKernel` |
| `Overrun` | `extension/ovrhdr`: `overrun.c` and the calls that end tasks | `TaskKernel` |
| `DynamicObjects` | dcre: free lists of all kinds, the kernel memory pool | `TaskKernel` |
| `DcreTask`, `DcreSemaphore`, `DcreEventFlag`, `DcreDataQueue`, `DcrePriDataq`, `DcreMessageBuf`, `DcreMempfix`, `DcreNotification` | dcre: `acre_` and `del_` of each kind (tasks and mutexes in `DcreTask`), and its other calls for IDs that may not exist | the module of the kind, `DynamicObjects` |
| `DcreInterrupt` | dcre: interrupt service routines and interrupt lines | - |
| `MemoryAccess` | dcre `memory.c`, `mem_manage.c`, `kernel/memory.h`: the checks of memory access | - |
| `SerialPort` | `syssvc/serial.c` on `prc_serial.c` | - |
| `SystemLog` | `syssvc/syslog.c` | - |
| `KernelStateProofs`, `TaskKernelProofs` | lemmas about `KernelState`, theorems about `TaskKernel` | both |
| `ObjectProofs` | theorems about `Semaphore`, `EventFlag` and `Mutex` | `TaskKernelProofs` |
| `TimerProofs` | theorems about `Overrun`, `TimePartition` and `DcreInterrupt` | `TaskKernelProofs` |
| `DataQueueProofs` | theorems about `DataQueue`, its refinement of `DataChannel`, and `PriDataq` | `ObjectProofs` |
| `DynamicProofs` | theorems about `Mempfix`, and about `DynamicObjects`, tasks, mutexes and the objects of five more kinds in the `Dcre` modules | `DataQueueProofs` |
| `MemoryAccessProofs` | theorem about `MemoryAccess` | |
| `ServiceProofs` | theorems about `SystemLog` and `SerialPort`, and about `TimeEvent` with `Notification` and `DcreNotification` | |
| `MC*` | constants for TLC, and which actions go together in one run | |

An object module takes all of `TaskKernel!Next` and adds its own calls, so a task
that waits for an object may at any time be suspended, given another priority,
released by `rel_wai` or its time-out, or terminated and restarted. `Mutex` and
`MessageBuf` replace those calls, where the code reaches `mutex.c` or
`messagebuf.c` through a hook.

### Correspondence

| Model | Code |
|---|---|
| `ready`, `primap`, `predtsk` | `SCHEDCB.ready_queue`, `ready_primap`, `p_predtsk` |
| `runtsk`, `schedtsk`, `dspflg`, `enadsp` | `p_runtsk`, `p_schedtsk`, `dspflg`, `enadsp` |
| `tcb[t]` | `TCB`: `tstat` as a set of flags, `wobj` for `p_winfo->p_wobjcb` |
| `wque[w]` | the `wait_queue` of an object (two of them for queues: `SQ(d)`, `RQ(d)`) |
| `tmevt` | the tasks whose `tmevtb` is registered |
| `lock`, `ipm`, `intnest` | CPU lock taken by the application, mask not `TIPM_ENAALL`, `intnest > 0` |
| `loctsk`, `lastmtx` | `p_loctsk`; the list `p_lastmtx`, `p_prevmtx`, as a sequence |
| `dtqcb`, `pdqcb`, `mbfcb`, `mpfcb` | the control block with its buffer; linked lists of `pridataq.c` as sequences of cell numbers |
| `relblk[t]` | the program counter and argument of a task inside `rel_mpf` |
| `m` | the heap (`node`, `last`, `at` for `p_tmevtn` indices), `current`, `boundary`, `monotonic`, `insignal`, and the timer (`hrtcnt`, `count`, `fire`) |
| `sta`, `held`, `phase` | a block is registered (`cycsta`, `almsta`); the system cycle's switch is held off; where `signal_time` is |
| `cursom`, `nxtsom`, `runtwd`, `pendscyc`, `pendtwd` | `p_cursom`, `p_nxtsom`, `p_runtwd`, `pending_scycswitch`, `pending_twdswitch` |
| `exist`, `free`, `mpk`, `area` | `xxxatr != TA_NOEXS`, the free lists, the kernel memory pool, the areas objects got from it |
| `ovr` | `staovr`, `leftotm` per task, and the timer |
| `isr_queue`, `free_isrcb`, `frames` | the queues; the handlers on the stack, each with the routine it has called |
| `memmap` | `memtop_table` with `meminib_table` |
| `port`, `usr` | `SPCB` with its semaphores and the UART; the program counters of the tasks inside the driver |
| `syslog` | the ring, `syslog_count`, `_head`, `_tail`, `_lost`, the mask |

Variables marked "for the properties" in the modules record what happened (what
is due, what was called, what is owed) and influence no action.

## 4. What is checked

Deadlock is checked in every run: with interrupts or time possible, some step always is.
A run covers several small instances, which share a state space only in that they are
disjoint parts of it: the variable `focus` (`inst` in the time runs) says which one a
behaviour belongs to and never changes.

| Run | Instances | Properties |
|---|---|---|
| `core` | four tasks (`u1` of the idle unit, the others of the kernel domain), 3 priorities, a `TA_CEILING` mutex of ceiling 2, one of ceiling 1, a `TA_TPRI` mutex. `sched`: scheduling and dispatch control; `term`: everything two tasks may do to each other; `life`: mutexes of three tasks with time-outs and the death of owners; `mterm`: mutexes with termination requests and suspension; `dcre`: tasks and mutexes that come and go | `TypeOK`, `ReadyQueuesExact`, `SchedtskIsBest`, `RunsWhatIsScheduled`, `DspflgExact`, `TerminationRequestHeld`, `DormantIsClean`, `TimersMatchWaits`, `OwnershipExact`, `PriorityIsCeiling`, `WaitQueuesExact`, `NothingDangles`, `HeldDispatch`, `FirstComeFirstServed`, `HandedToFirst` |
| `semaphore` | 3 tasks, one `TA_TFIFO` semaphore of at most 2 units | `UnitsConserved` (implements `CountingSemaphore`), `FifoNeverStarves` |
| `objects` | 3 tasks of 2 priorities with semaphores, event flags (one `TA_CLR`, one `TA_TPRI`), data queues of 0 and 2 places, priority data queues of 0 and 3 cells, a message buffer of 4 words, memory pools of 1 and 2 blocks, most of them dynamic; `pool`: four kinds share a kernel memory pool of 6 words | `WaitsAreJustified`, `StorageExact`, `DynamicExact`, `NobodyAwaitsDeleted`, `FirstInFirstOut` (implements `DataChannel`), `DataInOrder`, `ReleasedWithPattern`, `EventConsumedOnce` |
| `time_partition` | `windows`: a kernel task, a task of a user unit, one of the idle unit; an operating mode with two windows (the first with a handler) and one with a single window. `overrun`: two tasks with limits of 1 and 2. `interrupts`: two lines of different priorities, two static and two dynamic routines. `memory`: two layouts of an address space of 12 bytes | `WindowConsistent`, `WindowIsolation`, `UserTimeIsCounted`, `WindowsInOrder`; `OverrunExact`; `RoutinesExact`; `MemoryChecksExact` |
| `time_and_services` | `cyclic`, `cycle`: an alarm with a cyclic notification or with the system cycle, time-outs, adjustments of the time; `heap`: seven waits started and cancelled at once. Two tasks at one serial port (writers, readers that echo, a writer with a reader; CR before LF in both, releases, flow control). A log of three records | `BlocksExact`, `TimerInTime`, `FiresInOrder`, `SystimMonotonic`; `TokensExact`, `SendingGoesOn`, `SentInOrder`; `LogGapsReported` |
| `messagebuf_large`, `mempfix_twice`, `hrt_late`, `dcre_mtx`, `dcre_cyc`, `serial_flow`, `nfy_incvar` | one question each | violated, see Findings |

What the less obvious ones say. `SchedtskIsBest`: `p_schedtsk` is the first task of
highest priority of the unit whose turn it is, unless dispatching is held off.
`DormantIsClean`: a dormant task keeps nothing of its last run.
`WaitsAreJustified`: no task waits for what is there (a unit, a pattern, a block, a
datum, room). `StorageExact`: each cell, block and ring word has exactly one owner, and
what `rel_mpf` checked before the lock still holds under it, provided that the
application returns each block once. `WindowIsolation`: after every switch the task of highest
precedence of the kernel domain and of the domain of the window runs. `UserTimeIsCounted`: whenever a user task or the idle loop runs in a window,
the window timer counts, through all paths of interrupts, dispatches and held-off
switches. `OverrunExact`: a task is charged for exactly the time it runs, and the
overrun handler is called only for a task that has used up its time. `TimerInTime`: the timer fires by the time the earliest event is due, and before its
counter can wrap. `FiresInOrder`: callbacks run in the order of their times and never early.
`TokensExact`: the unit of each buffer of a port is in one place; it is lost only with a reader that
is released while it waits to echo (serial.c:594; for LF also :440, between CR and LF), and then nobody reads
until the port is closed, which `rcv_lost`, not in the code, records.
`SendingGoesOn`: while characters wait and the peer has not stopped the port, or
a START or STOP has been put off, a send interrupt will come.
`RoutinesExact`: a handler calls the routines of its line in the order of their
priorities, each once, with the CPU unlocked, also when routines are created and
deleted. `MemoryChecksExact`: each probe of memory answers what a check byte by byte would.

### Why these bounds

- *Tasks.* Three tasks give a running task and two others: two in one wait queue
  (order, hand-over to the first, the next one in line) or one in each of two queues.
  `ReadyQueuesExact` and `FirstComeFirstServed` speak of pairs.
- *Priorities.* Two give a higher, an equal and a lower one; mutexes have three
  because a ceiling has to lie strictly between two base priorities.
- *Rings and pools.* Two places wrap in every position; three cells give a sorted
  list with an inside. Four words hold two small messages, or one and a rest in
  which the next does not fit, and the messages of two and three words with their
  headers wrap at each word. The message of five words never fits and goes
  straight to a receiver. In the run of the serial port both buffers fill up and
  cross the marks of flow control.
- *Kernel memory pool.* Six words serve any one kind and no two of the larger ones, so
  `acre_` calls fail for want of memory and memory comes back only when the last
  object goes.
- *Time.* `EVTMOD = 9` and `HRTMOD = 5` with relative times of 0 and 3, a margin of 2
  and interrupts late by at most 1 satisfy the inequalities that the code's constants
  satisfy with 2^32 (`TimeEventAssumption`, `NotificationAssumption`; the first one is
  tight, 8 < 9), so that all counters wrap many times.
  A `VIEW` takes times relative to the present and makes real time
  unbounded: no step depends on absolute time.
- *Heap.* Seven waits make three levels, in which the block that replaces a deleted
  one may have to move up as well as down.
- *Windows.* Two windows of one domain and a mode of one window are enough for a
  window after a window, the last window, a change of mode and the idle window; a
  window of length 2 can be left and resumed.
- *Log.* Three records and eight writings overwrite everything twice.
- *Address spaces.* Twelve bytes hold memory objects of each kind next to each other,
  up to both ends or with unused memory there; all areas are tried.
- *Api.* Each instance leaves out the calls that have nothing to do with its question.

### Fairness

Only `semaphore` checks a liveness property and its specification, `SemFairSpec`,
assumes: an interrupt comes again and again and its handler ends (the periodic
high-resolution timer interrupt; handlers may not block), and the application
releases units of a semaphore again and again whenever it may repeatedly do so.
Nothing is assumed of the scheduler or of the waiting task. Under `TA_TPRI` the
property is false by design, so it speaks of `TA_TFIFO` only. What must "eventually"
happen elsewhere in this system depends on the application; the models state the
safety property behind it (`TimerInTime`, `SendingGoesOn`, `WaitsAreJustified`):
whoever waits is in the list of the one who will serve him, and that one is armed.

### Findings

Each is a violation of what a comment of the code says; the traces show states
that applications can reach.

- `messagebuf_large`, `FirstSenderDoesNotFit` (`kernel/messagebuf.c:324`). When the ring is empty and a sender
  waits (its message is larger than the ring), `receive_message` takes the message
  from that sender and, unlike its other branch and the hook for waiters that
  leave, does not call `messagebuf_signal`. The next sender is then first and stays
  blocked although its message fits (comment at 275-282), until another call.
  `WaitsAreJustified` has the part that does hold: no first sender is
  left waiting while there are messages in the ring.
- `mempfix_twice`, `NextFieldAsDocumented` (`kernel/mempfix.c:325`). `rel_mpf` tests that the block is allocated
  before it locks the CPU, so two tasks that return the same block may both pass,
  and the block becomes its own successor in the free list, against
  `mempfix.h:55-59`. An application that does so is wrong, but E_PAR is there to tell
  it. The version of dcre tests under the lock.
- `hrt_late`, `SetFromCurrentTime` (`kernel/time_event.c:502`). `set_hrt_event` expects an up-to-date event time
  (`time_event.h:177-182`); `set_dspflg` starts a system cycle that was held off
  without bringing it up to date, and the timer is set too late by the time since.
- `dcre_mtx`, `NothingDangles` (`extension/dcre/kernel/mutex.c:536`). `del_mtx` does nothing about the task
  that has locked the mutex, which goes on holding a mutex that does not exist, or is
  another one by then.
- `dcre_cyc`, `UnusedNotRegistered` (`extension/dcre/kernel/cyclic.c:418`). In `sta_cyc` the registration stands
  behind the tests for errors, not in their last branch, so that the time event block
  of an unused control block is put into the heap and E_OK is returned.
- `serial_flow`, `StopIsRemembered` (`syssvc/serial.c:539`). A reader that makes room sends START at once,
  while a STOP put off before is still to be sent and follows it; `rcv_stopped` is
  false and nobody sends another START.
- `nfy_incvar`, `RwOfGivenDomain` (`extension/dcre/kernel/memory.c:262`). `probe_mem_rw_domptn` never uses the
  domain it is given, so that the kernel domain cannot create a `TNFY_INCVAR`
  notification for a variable of a user domain.

Two observations that no run is about. `del_pdq` of dcre does not give the buffer
of a priority data queue back to the pool, so the pool is used up after a number of
creations; the model does the same, and `DynamicExact`, which asks that areas are disjoint
and not that they come back, holds with this leak.
`doc/hrp3_design_log.txt:4029` says that the window timer is stopped whenever
`twd_switch` is called, since the entry of its interrupt stops it; `core_support.S:606`
does so only when `intnest` becomes 1. `TimePartition` models the code, and its
properties hold.

## 5. What is proved

| Module | Theorem | Statement |
|---|---|---|
| `TaskKernelProofs` | `TypeCorrect` | `Spec => []TypeOK` |
| | `DspflgCorrect` | `Spec => []DspflgExact` |
| | `DispatchCorrect` | `Spec => []RunsWhatIsScheduled` |
| | `HeldDispatchCorrect` | `Spec => HeldDispatch` |
| | `ReadyQueuesCorrect` | `Spec => []ReadyQueuesExact` |
| | `SchedtskCorrect` | `Spec => []SchedtskIsBest` |
| | `TerminationRequestCorrect` | `Spec => []TerminationRequestHeld` |
| | `DormantCorrect` | `Spec => []DormantIsClean` |
| | `TimersCorrect` | `Spec => []TimersMatchWaits` |
| | `PrecedenceKept` | `Spec => FirstComeFirstServed` |
| `ObjectProofs` | `WaitQueuesCorrect` | `SemSpec => []WaitQueuesExact` |
| | `NobodyWaitsCorrect` | `SemSpec => []NobodyWaitsForFreeUnit` (a part of `WaitsAreJustified`) |
| | `UnitsConservedCorrect` | `SemSpec => UnitsConserved`: `Semaphore` implements `CountingSemaphore` |
| | `NoSatisfiedWaiterCorrect` | `FlgSpec => []NoSatisfiedWaiter` (a part of `WaitsAreJustified`) |
| | `ReleasedWithPatternCorrect` | `FlgSpec => ReleasedWithPattern` |
| | `EventConsumedOnceCorrect` | `FlgSpec => EventConsumedOnce` |
| | `OwnershipCorrect` | `MtxSpec => []OwnershipExact` |
| | `PriorityCorrect` | `MtxSpec => []PriorityIsCeiling` |
| | `HandedToFirstCorrect` | `MtxSpec => HandedToFirst` |
| | `MutexKernelCorrect` | `MtxSpec =>` each of the kernel's invariants: `TypeOK`, `DspflgExact`, `RunsWhatIsScheduled`, `ReadyQueuesExact`, `SchedtskIsBest`, `WaitQueuesExact`, `TerminationRequestHeld`, `DormantIsClean`, `TimersMatchWaits` |
| `TimerProofs` | `TpTypeCorrect` | `TpSpec => []TypeOK` |
| | `WindowConsistentCorrect` | `TpSpec => []WindowConsistent` |
| | `UserTimeCorrect` | `TpSpec => []UserTimeIsCounted` |
| | `WindowIsolationCorrect` | `TpSpec => []WindowIsolation` |
| | `WindowsInOrderCorrect` | `TpSpec => WindowsInOrder` |
| | `OverrunCorrect` | `OvrSpec => []OverrunExact` |
| | `RoutinesCorrect` | `InterruptSpec => []RoutinesExact` |
| `MemoryAccessProofs` | `MemoryChecksCorrect` | `MemSpec => []MemoryChecksExact` |
| `DataQueueProofs` | `DtqWaitsJustified` | `DtqSpec => []DtqWaitsAreJustified` (a part of `WaitsAreJustified`) |
| | `DataQueueIsChannel` | `DtqSpec => DtqChannel!Spec`, `DataQueue` implements `DataChannel` (a part of `FirstInFirstOut`), if `FifoSenders` |
| | `PdqWaitsJustified` | `PdqSpec => []PdqWaitsAreJustified` (a part of `WaitsAreJustified`) |
| | `CellsArePartitioned` | `PdqSpec => []CellsPartitioned` (a part of `StorageExact`) |
| | `DataKeepTheirOrder` | `PdqSpec => DataInOrder` |
| `DynamicProofs` | `DynamicCorrect` | each of `DtSpec`, `DcreSemSpec`, `DcreFlgSpec`, `DcreDtqSpec`, `DcrePdqSpec`, `DcreMbfSpec`, `DcreMpfSpec` `=> []DynamicExact` |
| | `PoolsCorrect` | `MpfSpec => [](\A p : BlocksPartitioned(p) /\ NobodyWaitsForFreeBlock /\ CheckStillHolds)` (parts of `StorageExact` and `WaitsAreJustified`), if `"twice" \notin Api` |
| | `DeletedNotAwaited` | each of `DcreSemSpec`, `DcreFlgSpec`, `DcreDtqSpec`, `DcrePdqSpec`, `DcreMpfSpec` `=> []NobodyAwaitsDeleted` |
| | `DynamicWaitsJustified` | the same specifications `=>` the parts of `WaitsAreJustified` and `StorageExact` above; for pools `BlocksPartitioned` of those that exist, if `"twice" \notin Api` |
| | `NothingDanglesCorrect` | `DtSpec => []NothingDangles`, if `"del_locked" \notin Api` |
| | `DynamicMutexesCorrect` | `DtSpec =>` `OwnershipExact`, `PriorityIsCeiling` and the invariants of `MutexKernelCorrect`, if `"del_locked" \notin Api` |
| `ServiceProofs` | `LogCorrect` | `LogSpec => []LogGapsReported` |
| | `TokensCorrect` | `SerialSpec => []TokensExact`, if `"cls_busy" \notin PortApi` |
| | `SendingCorrect` | `SerialSpec => []SendingGoesOn`, if `"cls_busy" \notin PortApi` |
| | `BlocksCorrect` | `DcreNtfSpec => []BlocksExact`, if `"sta_noexs" \notin Api` |
| | `TimerCorrect` | `DcreNtfSpec => []TimerInTime`, under the same condition |
| | `FiresCorrect` | `DcreNtfSpec => FiresInOrder`, under the same condition |
| | `SystimCorrect` | `DcreNtfSpec => SystimMonotonic`, under the same condition |
| | `StaticTimeCorrect` | `NtfSpec => [](HeapExact /\ TimerInTime) /\ FiresInOrder /\ SystimMonotonic` |

Those about tasks hold for any number of tasks, priorities, scheduling units, wait
queues, semaphores and units, event flags and patterns, mutexes, data queues with any number of
places and data, priority data queues with any number of cells and priorities, memory pools of any
size, operating modes and windows of any length; those about
dynamic objects for any number of them and any size of the kernel memory pool; the one about
memory for any layout of an address space of any size; those about time for any number of
notifications and waits, any relative times the kernel accepts and any widths of the counters that
satisfy the assumptions; those about the log and the port for any size of the buffers and any tasks; the characters of a port are LF and one for all
others of each writer, which is all that its code tells apart.

**Assumptions.** They are the named `ASSUME`s of the modules; TLC evaluates each of them
in a run.

- `KernelAssumption`, `TaskAssumption`: constants have their types, `NULL` is no task and
  the kernel's unit is not the idle one.
- `SemaphoreAssumption`: `maxsem` is positive and the initial count at most `maxsem`
  (`kernel/semaphore.trb` and `acre_sem` refuse others). Without it `ini_sem` could hand
  the kernel a counter that `sig_sem` takes for a full one.
- `MutexAssumption`: a ceiling is a task priority, and a mutex with one orders its waiters by
  priority (`mutex.trb:68`; `TA_CEILING` includes the bit of `TA_TPRI`).
- `PartitionAssumption`: a system operating mode has at least one time window, windows
  have a length and belong to user domains.
- `InterruptAssumption`: the static interrupt service routines are listed once each in
  `isrorder_table` (`extension/dcre/kernel/interrupt.trb:368`), the other control blocks are the
  initial free list, and priorities start at 1 (`TMIN_ISRPRI`).
- `MapAssumption`: the table of memory regions begins at address 0, is sorted, and gives
  nobody access to unused or write access to read-only regions (`memory.trb`,
  `kernel_lib.trb:340`, `memory.h:53`). `StackAssumption`: the stack of a user task is in
  one memory object or in unused memory (`task.trb:246`, `valid_ustack` in `acre_tsk`).
- `DynAssumption`: each kind of object has a list of reserved IDs, without repetitions
  and disjoint from those of other kinds (the configurator numbers control blocks).
  `DcreSemAssumption`, ..., `DcreTaskAssumption`: the reserved IDs of a kind are IDs of
  that kind, and the names of the wait queues of different objects differ. In the code each control
  block has queues of its own; the model names them, a queue of a semaphore by the
  semaphore, the two of a data queue by pairs. `DcreTaskAssumption` says, too, that no name is that of a task
  and of a mutex (IDs of tasks and of mutexes are numbers of two tables), and that the task
  which is active at the start is a static one (no other exists before a call of `acre_tsk`).
- `DataQueueAssumption`, `PriDataqAssumption`: each data queue has its two wait queues,
  the receivers in FIFO order (`dtqcb` has no attribute for them, only `TA_TPRI` for senders),
  and priorities start at 1.
- `FifoSenders`, the hypothesis of `DataQueueIsChannel`: no data queue has `TA_TPRI`. With it a sender may
  overtake another that waits, which is what the attribute is for; the other theorems do not need it.
- `TimeEventAssumption`: there are finitely many time event blocks; `HRTCNT_BOUND` is below the
  modulus of the timer's counter (`time_event.c:73`), which is not wider than an event time (both are
  `uint32_t`); relative times, the margin and twice the largest adjustment fit into the
  range of event times, and the adjustments into the margin (`TMAX_RELTIM` 4 000 000 000,
  `BOUNDARY_MARGIN` 200 000 000, `TMAX_ADJTIM` 1 000 000 in 2^32).
- `NotificationAssumption`: relative times and cycles are at most `TMAX_RELTIM` (the calls and the
  configurator check it) and cycles positive; the timer's handler is late by at most
  the margin, and not so late that the counter comes round.
- `"sta_noexs" \notin Api`, a hypothesis of the theorems about dynamic notifications: nobody calls
  `sta_cyc` for a notification that does not exist, which puts a block of an unused control block into
  the heap (the finding `dcre_cyc`).
- `SystemLogAssumption`, `SerialPortAssumption`: there is room for one record (character).

**`TaskKernel`, types and dispatching.** `TypeOK` says more than types: `TStat` has only
the combinations of the state diagram, and `predtsk` in `Task \union {NULL}` needs that
`search_predtsk` is never called on an empty bitmap. `IInv` is the conjunction of `TypeOK`,
`DspflgExact`, `RunsWhatIsScheduled`, `WellTyped` and `HeldRuns`. `WellTyped` adds that the
bitmap marks no empty ready queue, without which `SearchPredtsk` might choose from
nothing. `HeldRuns` (while dispatching is held off, `p_schedtsk` is the
running task) is needed because an interrupt return dispatches on
`p_runtsk != p_schedtsk` without a look at `dspflg`: the proof that it may not
must know that a handler cannot have moved `p_schedtsk`. `KernelStateProofs` defines
`Sound(s, s2)`: `s2` is well typed and, if dispatching is held off in `s`, has the same
`p_schedtsk`, and `p_runtsk` and `dspflg` do not
change. Soundness is transitive, each operation of `KernelState` is sound, so each
body of a service call is; `ReturnOK` then shows once that a sound change followed
by `Return` preserves `IInv`. The calls that change `dspflg` and the ends of tasks
have lemmas of their own. `NextOK` collects them, one step per action.

**`TaskKernel`, exact queues.** In the middle of a call the ready queues need not agree with
the task control blocks: `change_priority` takes a task out before it puts it back, and
`task_terminate` goes on with a task that is in no queue any more. So the lemmas speak
of a *placement* `pl`, which gives each task the priority of the queue it is in, or 0,
and `Agree(s, pl)` says that the queues hold what the placement says, each task once, that
the bitmaps mark exactly the queues that are not empty, and that `p_predtsk` of each
unit is the first of its first queue. Each operation is shown to move `Agree` from one
placement to the next, with `p_schedtsk` right after it if it was before
(`AgreeAfter`); only the end of a call has to reach the placement that the control blocks
ask for, `Place(s)`. `update_schedtsk` after incremental changes is the core: a change that
leaves `p_predtsk` alone must leave the best task alone. `SInv` has `Agree(K, Place(K))`
and what the calls need to know of the tasks: `TasksOK` (each `TCB` with its time event:
what a dormant task may have, which waits have an object or a time-out, that only a
runnable task is asked to end) and `RequestsOK` (a task that is asked to
end and may be ended is the running one, with dispatching held off). `FullInv`, with
`IInv` and the exactness of `p_schedtsk`, is inductive, and the five theorems are its parts.

**`TaskKernel`, precedence.** `FirstComeFirstServed` is about two tasks of one ready queue in
two successive states, while a step is a chain of operations, each of which takes tasks out of queues
and puts them back. It is enough to know of each operation who may get behind others: nobody
(`search_schedtsk`), or one task, the one it is about. The lemmas about operations of `KernelState`
say so, and compose as long as that one task is the same. A task that leaves its queue and comes back in one
step is behind those it was before, so for each action either nobody falls behind or the one task that may
is one the property names (`MayFall`): its queue is rotated, its priority is set again, or it ends and starts again for an activation
that was queued.

**`Semaphore`.** `WaitsExact` says that each wait queue holds the tasks whose `TCB` names
it, each once, and by priority under `TA_TPRI`. `NextWaits` proves it for all steps of
`TaskKernel`, in a form that object modules can use: a step of the kernel adds nobody to a
queue and takes at most the tasks away that stop waiting. `SemInv` adds to it `Counted`: a
count is at most `maxsem`, and while it is positive nobody waits. For the
implementation of `CountingSemaphore`, whose number of free units is `semcnt` minus the
length of the queue, each step is classified by what it does to one semaphore's count
and queue (`UnitFreed`, `UnitTaken`, `WaitBegun`, `OneLess` for a waiter that gives up,
`Initialised`), and each class is an action of the abstract specification or a stutter.
`ini_sem` releases all waiters in a loop; `InitWaitQueue` is a recursive function over the
length of the queue, and its lemmas need induction. An induction theorem takes an operator
as a parameter, which the provers cannot instantiate; instead the set of the lengths
for which the claim fails, if not empty, has a least element (`LeastNumber`), and that
one is refuted.

**`EventFlag`.** `FlgInv` adds to the invariant of the kernel that wait queues are exact and
that a task in the queue of a flag waits for a pattern that is not empty (`Awaited`) and that
the flag does not satisfy. Not empty matters: a task released with `TA_CLR` clears the flag,
and the others in the queue are still unsatisfied only because an empty flag satisfies no
pattern with bits. `set_flg` walks along the queue and releases while it walks, a recursive
function of the position (`ReleaseWaiters`); `WalkOK` says of every position that the waiters
up to it who are satisfied, and only they, have left, and that the kernel's invariant holds
there, by a `LeastNumber` argument in the place of an induction. `SetFlgOK` gives the invariant and
what was handed to whom (`Handed`), from which the two action properties follow.

**`Mutex`.** `MtxInv` is the kernel's invariant with exact wait queues (`WaitInv`) and `Own`:
a task's list has exactly the mutexes whose owner it is, each once (`IsQueue`); its current priority is
the least of its base priority and the ceilings of these mutexes, and its base priority is
not above the ceiling of one that it holds or awaits (`RankOK`); a dormant task owns nothing; nobody
waits for a free mutex, nor for one of its own. The last of these is why an owner that
waits elsewhere is never the head of the queue it leaves something to.
Inside `task_terminate` and `ext_tsk` none of this holds at once, since a task that has left
all queues still has a control block that says it runs or waits. `View(s, x)` is the state in
which the ending task `x` counts as dormant; `Chain(s, z, x)` says that the kernel's invariants are
kept in the view, and each step of `mutex_release_all` (`ReleasesChain`, a `LeastNumber` argument
over the list) extends such a chain. `Own(s, d, x)` has two exceptions in the same way: a mutex `d` that is
just leaving its owner and a task `x` whose priority is not yet corrected.
`mutex_acquire` may raise the running task without a dispatch: raising the task
that is scheduled keeps it selected (`RaiseRunning`). `mutex_drop_priority` searches the list only
if the mutex that goes had the current priority as its ceiling, which suffices since otherwise
the least is among what is left. `HandedToFirstCorrect` classifies each step by what it does
to the owner of one mutex (`NextOwner`).

**`TimePartition`.** `TpInv` has `IInv` and `SInv` from the kernel, but `p_schedtsk` is
right only outside a switch of windows (`SelectOK`). The rest says where the code is in
such a switch and who began it (`PhaseOK`: a call that ends the holding-off of
dispatching, or a handler, possibly with another one on top), that
pending switches are consistent with the window that runs (`PendingOK`), that they exist only
while dispatching is held off, and that in a handler the window timer counts only for
a window that has just begun (`TimerOK`). The actions of
`TaskKernel` keep `p_twdsched` (`CoreStep`), those of `domain.c` change it and then
update `p_schedtsk`: for them the lemmas of `KernelStateProofs` are stated without the
assumption that `p_schedtsk` was right before.

**`Overrun`.** `OverrunExact` compares what a task has got with a variable that counts its
time. `OvrInv` says for which task the timer counts (`Counting`: the running one,
outside handlers), that the timer holds what that task has left (`TimerAt`), that
`leftotm` holds it for the others (`Charged`), and that the overrun handler has been called
only for tasks that have nothing left. Only the steps that change `Counting` or start and
stop the handler need a proof, and for them a few lemmas about `ovrtimer_start` and
`ovrtimer_stop` suffice.

**`DcreInterrupt`.** `IsrInv` has two parts. `BlocksOK`: the list of creations, the free list and the queue of each line
hold exactly the routines they should, each once, and whoever precedes another in a queue has a smaller priority, or the same and
was created before (`LineOK`). Lemmas about insertion at a place, appending and deletion say what each does to
the relation "precedes"; an insertion before the first larger priority needs that the queue was sorted.
`InitialQueue` is a recursive function over `isrorder_table`, and `LineOK` of each of its steps is shown by
the least step where it would fail (`LeastNumber`). `FramesOK`: each handler on the stack has called the first routines of the
queue as it is now, with the CPU unlocked. That the queue of a walk does not change is why
`acre_isr` and `del_isr` refuse calls in handlers: with a call there, or without the `sense_lock` in
`call_isr`, `FramesOK` is not inductive.

**`DynamicObjects`.** `DynInv` says more of the pool than `DynamicExact`. The mark `brk`
goes back to 0 when the count of areas reaches 0, so the count must never be less than
the number of areas still on record (`CountOK`). It may be greater: `del_pdq` does not
return its area, which costs memory and nothing else. Areas that are on record lie
below the mark and are disjoint also for objects that no longer exist (`AreasOK`), since
the record of a priority data queue outlives it, and free lists have no
repetitions (`ListsOK`), or `acre_xxx` would give one control block to two objects.
`DynStepOK` proves that a creation or a deletion of any kind preserves `DynInv`, and
one lemma per module that its steps are such or change nothing of this.

**`Mempfix`.** The code links free blocks through the memory of the control blocks, so
`PoolWith(p, c, T, q)` says that control block `c` has the free list `q` (each block's
next field names the block behind it in `q`), that the blocks used so far are those of `q`
and those of `T`, which have `INDEX_ALLOC` in that field, and that `fblkcnt` counts the others.
`PoolOK` has this for the blocks `T` of all tasks together, that no two tasks have the same
block, and that nobody waits while `fblkcnt` is not zero. `GetBlockOK` and `ReturnBlockOK` move
`PoolExact` from one set `T` to the next; `LinkIsChain` shows that the property, which
follows the next fields, finds `q`. The call of `rel_mpf` between its checks and `lock_cpu` needs
`RelOK`: the task still has the block it gives back. That is so only if the application returns no
block twice (`"twice" \notin Api`), and if a task that is terminated in between is
seen to be dormant afterwards (`NoActQue = Task` in `MempfixAssumption`: without a
queued activation, with which it would restart in the same step).

**`DataQueue`.** `IsRing(c, n, s)` says that the ring buffer `c` with `n` places holds the data `s`, from `head`
around to `tail`; storing and fetching are `Append` and `Tail` on `s` at any place of the wrap-around.
`DtqInv` has, besides the kernel's invariant, that each buffer is a ring, that nobody waits to send while there is
room or to receive while there is a datum or a sender, and that those who wait to send have a datum. `DtqWaitsJustified` is
a part of it. For the implementation of `DataChannel` the contents of the channel are the data in the
ring followed by those of the waiting senders in the order of their queue, of which the first
`count` are committed. A step is of one of few classes: a datum is stored, fetched, handed to a
receiver; a sender begins to wait, is served as a place gets free, or gives up; the queue is initialised.
Each is an action of `DataChannel` on one channel and leaves the others as they are. The data
of waiting senders are in `sdata`, their `winfo` block, so the proof also shows that no step
overwrites it while a task still waits. The kernel's own steps may
take one waiter out of a queue anywhere (a time-out, a termination, `rel_wai`), which removes its datum
from the part that is not committed.

**`PriDataq`.** A priority data queue has cells that are linked in order of priority, and free cells linked to a
list. `CellsWith(c, n, U, F)` says that the cells `U` are in use and their list is sorted, that the cells `F` were given back, and
that these are all the cells ever used, each once. `PdqInv` adds to the kernel's invariant that the cells of each
queue are so and their data in order, and the justification of waits as above. `DataInOrder` compares the lists of
two successive states; `Puts` says what inserting a datum does to the order and `KeepsOrder` what a
call may do. The hard case is receiving from a full queue with a sender that waits: the cell that is given back is taken
for the sender's datum at once, so the same cell leaves at the front and comes back elsewhere.

**Objects that are created and deleted.** Nobody waits for an object that does not exist: `JoinsOnly(W)` says of a
step that tasks begin to wait only in the queues of `W`, and a lemma for each kind names the
queues for its calls, which all ask for an object that exists (`Exists`). A new object is one from the free
list, which by `DynInv` is no existing one, so nobody is in its queue and the new control block may start
with whatever count, pattern or buffer; a deleted one has its queues emptied (`InitWaitQueue`, twice for data
queues, which releases waiters of both kinds). With that the invariants of
semaphores, event flags, data queues and priority data queues (`SemInv`, `FlgInv`, `DtqInv`, `PdqInv`) remain
inductive when objects come and go. For a memory pool the invariant has two
forms (`DcrePoolOK`): that of `Mempfix` for one that exists, and no task has a block of one that does not.

**Tasks and mutexes that are created and deleted.** `NothingDangles` says of a task that does not exist that it
is dormant and has no mutex in its list, and of a mutex that does not exist that nobody waits for it and no
task has it in its list. With the invariant of mutexes it follows from less (`Absent`): the task is dormant and the
mutex free, since a dormant task has given back what it held and nobody waits for a free mutex (`FreeFacts`).
`Absent` needs to know what a step may do to objects that it is not about. A call may wake, terminate or change the priority of
many tasks and pass on many mutexes, along chains of waiters, but it activates at most one task, which
exists, and locks no mutex that was free except the one it names (`MtxMove`, proved with the invariant for each
operation of `Mutex`). `DormantAgain` shows that `acre_tsk` finds the control block as it leaves it: a task that was deleted
leaves no queued activation, wake-up request or priority to the next one of its ID. `del_mtx` of a
locked mutex breaks this (the finding of `dcre_mtx`), so both theorems assume that the application does
not do it; that is the only call to exclude.

**`MemoryAccess`.** The invariant is that regions do not change; the work is in what a
state says. `search_meminib` is a search by bisection, a recursive
function, and its lemma (`LeastNumber` again, over the length of the interval left)
says that it finds the last region that begins at or below the address. Each check of an
area by its region, or by its two ends, is then equivalent to the check of each of its
addresses, at both ends of the address space, too, where `base + size` is 2^32 or more.

**`SystemLog`.** The ring keeps `head`, `tail`, `count` and `lost`; the property is about
numbers of records. `LogInv` says that the `count` records in the ring are the last ones
written, in order, the newest before `tail`, and that
`lost` is what lies between the last one read and the oldest one kept. The
arithmetic modulo the size of the ring is in lemmas of its own.

**`SerialPort`.** `TokensExact` counts, for each of the two buffers, the places where the
unit of its semaphore may be: in the semaphore, with a task, or in the full (empty)
buffer. A prover handles cases better than cardinalities, so `SerialInv` says for an open
port which of the three it is and that at most one task has it, and for a closed one that
the semaphores have their initial counts and no task is in a call; that and types are
inductive. `UserStep` shows once that a step of one task that keeps the sum of
these places keeps the unit; each operation needs only that. `SendingCorrect` adds
`WillSend` (what waits has a send interrupt to come) to the invariant. The echo is a call of `serial_wri_chr` by a
reader that holds the receive unit: an LF is echoed as CR and LF, and if the CR fills the
buffer the reader waits for the send unit again in between. A reader released in such a wait
(E_RLWAI, which `gen_ercd_wait` expects) leaves with the receive unit; a fourth place, `rcv_lost`,
stands for that (`ReleaseKeeps`). `"cls_busy" \notin PortApi` leaves out one operation, after which the
property is false in the code too: a port closed by one task while another is in a call on
it and does not wait, which goes on with a unit that `ini_sem` has given back.

**Time events.** Event times wrap around and are compared relative to `boundary_evttim`, the
heap compares them while the boundary moves, and the timer is set from the first of
them. What the proof needs is what none of these variables has: the true time `due[e]` of each registered
block, and the true time `now`. `TimeInv` says that the heap is one for the true
times (`Heap`: the nodes hold the registered blocks, each once, each knows its node, no parent is
later than its children), that the clock is `now` reduced modulo (`ClockOK`), that all true times
lie in a window around `now` that is shorter than the range of event times: from the margin behind it to
`TMAX_RELTIM` and the adjustments ahead (`EventsOK`), that the timer comes before its
counter can wrap (`FireOK`) and by the first true time (`TimerOK`), unless `signal_time` is at work
(`SignalOK`). From the window follows `Agree`: comparing event times is comparing true
times, at every boundary the clock reaches. With it `tmevt_up` and `tmevt_down` are about
integers: `Free` is a heap with a free node, `UpState` (`DownState`) adds that the block to be placed fits
there as far as the children (the parent) go, one round keeps it, and the last round ends with a place
that fits on both sides. The loops are functions of the round; induction over it goes by the least
counterexample (`LeastNumber`), for which the library's theorem about well-founded relations
needs no operator. `tmevtb_delete` starts one of the two loops, whichever the last block of the heap
needs. The rest is one lemma per call, `StepOK`, which carries `Shown(m') >= Shown(m)`, too: the system time that an
update would show does not go back by any step but `set_tim`, although `adj_tim` may set the
event time back, because it then stands still until the event time has caught up.
`FiresInOrder` needs no more than the heap: the callback that is called belongs to the first node, and
its time has come.

*Only model-checked.* Liveness under fairness (`FifoNeverStarves`) is beyond the
prover. Not proved: message buffers (their parts of `FirstInFirstOut`, `StorageExact`,
`WaitsAreJustified` and `NobodyAwaitsDeleted`), which release as many senders as
have room by a fold over the queue, with messages of several lengths in a ring of bytes; it would
first have to be a recursive function of the position, as `InitWaitQueue` and `ReleaseWaiters` of
`EventFlag` are. The order of characters at the serial port (`SentInOrder`) has no proof yet either.

## 6. Not modelled

- *CPU exceptions, task hook, start-up and exit.* Run once, or only inspect. Their
  initial values are the `Init` of the modules.
- *The configurator* (`cfg/`, `*.trb`): a build-time program; what it accepts
  bounds the constants. Its output tables appear as constants (`MemMap`).
- *Calls that only read*: `ref_`, `get_`, `sns_` and `fch_hrt`, where no property needs them.
- *Access vectors* (`sac_` and the checks against them), checks of attributes, and
  the MPU: no property here tells them apart. `valid_memobj_dom` is not called by anyone.
- *Copies of modelled code*: the TECS components of the system services (`tSysLog.c`,
  `tSerialPortMain.c`, `tLogTaskMain.c`) and `extension/non_tecs/syssvc`, whose
  `serial.c` is identical to `syssvc/serial.c`; `extension/fch_mnt` adds one read.
- *Serial driver*: receive errors, `serial_get_chr` and low-level output. *Log*: the log task
  is a reader at any time; what it prints, `logtask_flush` and low-level output are not modelled.
- *Several time event heaps.* A domain's heap is processed in its windows only;
  `Notification` has the one heap of the kernel. `TimePartition` has the windows, with
  the notifications that depend on them, but neither the times in the heaps nor the
  length of the system cycle, which ends at any time.
- *Time of the kernel domain* is not counted by windows; that is so in the code, too.
- *The overrun extension's dispatcher.* No dispatcher in this repository calls
  `ovrtimer_start` or `ovrtimer_stop`. The ones of `Overrun` are those that `doc/porting.txt`
  6.4 and 6.5 ask of a port, and the timer is an ideal one (a definition marked
  external), not the one of a simulator.
- *Target and chip code* other than dispatching, interrupt entry and the window timer;
  libraries, tests, samples and utilities.
- *`TA_TPRI` message buffers* whose senders change priority: `wobj_change_priority` may
  put a sender first whose message fits, and nothing looks at it. The code does not
  claim otherwise.

The lines of `src` include many that no model here stands for: the copies just named, the
variants of each kernel file in the extensions, tables, drivers and libraries.

## 7. Plan

Order of work: the scheduler first, because every object rests on it, then the
objects by how much of their state several tasks share, then time, then the extensions
and system services. All models of this plan are there. What is left:

1. *Message buffers*, with `WaitsExact` and `NextWaits` as for the other objects, and with the
   release of senders as a recursive function; then `DcreMessageBuf` as in `DynamicProofs`.
2. *Serial port*: `SentInOrder`.
3. *Models*: a heap per domain in `Notification`, with the length of the system cycle.
