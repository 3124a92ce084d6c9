------------------------------- MODULE SystemLog -------------------------------
(***************************************************************************)
(* The system log (syssvc/syslog.c): a ring of the last records, written   *)
(* by anybody in any context, with interrupts disabled, and read by the    *)
(* log task.  A record is its number among those that were recorded.       *)
(***************************************************************************)
EXTENDS Integers

CONSTANTS
  LogBufSz,   \* TCNT_SYSLOG_BUFFER
  Prio,       \* the severities
  MaxLog      \* bound: how many records are written in a run

ASSUME SystemLogAssumption == LogBufSz \in Nat \ {0} /\ MaxLog \in Nat

VARIABLES
  syslog,     \* the ring and its counters, as in the source
  lastread    \* the last record that was read

logvars == <<syslog, lastread>>

IncLog(i) == (i + 1) % LogBufSz

InitialLog ==
  [buffer |-> [i \in 0..LogBufSz - 1 |-> 0], count |-> 0, head |-> 0, tail |-> 0,
   lost |-> 0, logmask |-> {}, written |-> 0]

StoreLog_HeadKept(s) ==
  LET r == [s EXCEPT !.buffer[s.tail] = s.written + 1, !.written = @ + 1, !.tail = IncLog(@)]
  IN IF s.count < LogBufSz THEN [r EXCEPT !.count = @ + 1] ELSE [r EXCEPT !.lost = @ + 1]

\* A record takes the place of the oldest one when the ring is full.
StoreLog(s) ==
  LET r == [s EXCEPT !.buffer[s.tail] = s.written + 1, !.written = @ + 1, !.tail = IncLog(@)]
  IN IF s.count < LogBufSz THEN [r EXCEPT !.count = @ + 1]
     ELSE [r EXCEPT !.head = r.tail, !.lost = @ + 1]

_syslog_wri_log(prio) ==
  /\ prio \in syslog.logmask => syslog.written < MaxLog
  /\ syslog' = IF prio \in syslog.logmask THEN StoreLog(syslog) ELSE syslog
  /\ UNCHANGED lastread

\* The caller is told how many records were lost before the one it gets.
read_log ==
  /\ syslog.count > 0
  /\ lastread' = syslog.buffer[syslog.head]
  /\ syslog' = [syslog EXCEPT !.count = @ - 1, !.head = IncLog(@), !.lost = 0]

_syslog_msk_log(mask) ==
  /\ syslog' = [syslog EXCEPT !.logmask = mask]
  /\ UNCHANGED lastread

\* Every record is read, with interrupts disabled.
_syslog_fls_log ==
  /\ syslog.count > 0
  /\ syslog' = [syslog EXCEPT !.count = 0, !.head = (@ + syslog.count) % LogBufSz, !.lost = 0]
  /\ lastread' = syslog.buffer[(syslog.head + syslog.count - 1) % LogBufSz]

LogInit == syslog = InitialLog /\ lastread = 0

LogNext ==
  \/ \E prio \in Prio : _syslog_wri_log(prio)
  \/ read_log \/ _syslog_fls_log
  \/ \E mask \in SUBSET Prio : _syslog_msk_log(mask)

LogSpec == LogInit /\ [][LogNext]_logvars

-----------------------------------------------------------------------------
(* Properties. *)

\* The records to be read follow on the last one that was read, but for exactly
\* the number of lost ones that the next read will report: no record is lost
\* without being counted, read twice or read out of order.
LogGapsReported ==
  /\ syslog.written = lastread + syslog.lost + syslog.count
  /\ \A i \in 0..syslog.count - 1 :
       syslog.buffer[(syslog.head + i) % LogBufSz] = lastread + syslog.lost + i + 1
=============================================================================
