----------------------------- MODULE ServiceProofs -----------------------------
(***************************************************************************)
(* Theorems about the system services.  No record of the system log is     *)
(* lost without being counted, read twice or read out of order, for every  *)
(* size of the ring; the serial port keeps the units of its buffers and    *)
(* goes on sending, for any number of tasks and any size of the buffers.   *)
(* And about the time events of notifications, waits and the system cycle: *)
(* for any number of them and any widths of the counters, the heap and the *)
(* timer stay right and callbacks run in order and never early.            *)
(***************************************************************************)
EXTENDS SystemLog, SerialPort, DcreNotification, WellFoundedInduction, FiniteSetTheorems, TLAPS

-----------------------------------------------------------------------------
(* The system log. *)

\* The ring and its counters.
LogState ==
  [buffer: [0..LogBufSz - 1 -> Nat], count: 0..LogBufSz, head: 0..LogBufSz - 1,
   tail: 0..LogBufSz - 1, lost: Nat, logmask: SUBSET Prio, written: Nat]

\* The records to be read follow on `last', but for those the next read reports.
Follows(s, last) ==
  /\ s.written = last + s.lost + s.count
  /\ \A i \in 0..s.count - 1 : s.buffer[(s.head + i) % LogBufSz] = last + s.lost + i + 1

\* LogGapsReported, with the place the next record goes to.
LogOK(s, last) ==
  /\ s \in LogState /\ last \in Nat
  /\ s.tail = (s.head + s.count) % LogBufSz
  /\ Follows(s, last)

LogInv == LogOK(syslog, lastread)

-----------------------------------------------------------------------------
(* Going round the ring. *)

\* Places less than a whole turn apart are different.
LEMMA RingDistinct ==
  ASSUME NEW h \in 0..LogBufSz - 1, NEW i \in 0..LogBufSz, NEW j \in 0..LogBufSz,
         i < j, j - i < LogBufSz
  PROVE  (h + i) % LogBufSz # (h + j) % LogBufSz
<1>1. h + i \in 0..2 * LogBufSz - 1 /\ h + j \in 0..2 * LogBufSz - 1
  BY SystemLogAssumption
<1>2. /\ (h + i) % LogBufSz = IF h + i < LogBufSz THEN h + i ELSE h + i - LogBufSz
      /\ (h + j) % LogBufSz = IF h + j < LogBufSz THEN h + j ELSE h + j - LogBufSz
  BY <1>1, SystemLogAssumption, SMTT(30)
<1>. QED BY <1>2, SystemLogAssumption

\* Two moves along the ring are one.
LEMMA RingAdd ==
  ASSUME NEW h \in 0..LogBufSz - 1, NEW k \in 0..LogBufSz, NEW n \in 0..LogBufSz,
         k + n \in 0..LogBufSz
  PROVE  /\ (((h + k) % LogBufSz) + n) % LogBufSz = (h + (k + n)) % LogBufSz
         /\ (h + k) % LogBufSz \in 0..LogBufSz - 1
<1> DEFINE a == (h + k) % LogBufSz
<1>1. h + k \in 0..2 * LogBufSz - 1 /\ h + (k + n) \in 0..2 * LogBufSz - 1
  BY SystemLogAssumption
<1>2. a = IF h + k < LogBufSz THEN h + k ELSE h + k - LogBufSz
  BY <1>1, SystemLogAssumption, SMTT(30)
<1>3. (h + (k + n)) % LogBufSz
        = IF h + (k + n) < LogBufSz THEN h + (k + n) ELSE h + (k + n) - LogBufSz
  BY <1>1, SystemLogAssumption, SMTT(30)
<1> HIDE DEF a
<1>4. a \in 0..LogBufSz - 1 /\ a + n \in 0..2 * LogBufSz - 1
  BY <1>1, <1>2, SystemLogAssumption
<1>5. (a + n) % LogBufSz = IF a + n < LogBufSz THEN a + n ELSE a + n - LogBufSz
  BY <1>4, SystemLogAssumption, SMTT(30)
<1>6. (a + n) % LogBufSz = (h + (k + n)) % LogBufSz
  BY <1>2, <1>3, <1>4, <1>5, SystemLogAssumption
<1>. QED BY <1>4, <1>6 DEF a

\* A whole turn leads back.
LEMMA RingTurn ==
  ASSUME NEW h \in 0..LogBufSz - 1
  PROVE  (h + LogBufSz) % LogBufSz = h /\ (h + 0) % LogBufSz = h
<1>1. h + LogBufSz \in 0..2 * LogBufSz - 1 /\ h + 0 \in 0..2 * LogBufSz - 1
  BY SystemLogAssumption
<1>. QED BY <1>1, SystemLogAssumption, SMTT(30)

-----------------------------------------------------------------------------
(* The operations. *)

\* A record that is stored follows on those to be read, whether or not it takes
\* the place of the oldest.
LEMMA StoreKeeps ==
  ASSUME NEW s, NEW last, LogOK(s, last)
  PROVE  LogOK(StoreLog(s), last)
<1> DEFINE b == [s.buffer EXCEPT ![s.tail] = s.written + 1]
           Place(i) == (s.head + i) % LogBufSz
<1>1. /\ s \in LogState /\ last \in Nat /\ s.tail = Place(s.count)
      /\ s.written = last + s.lost + s.count
      /\ \A i \in 0..s.count - 1 : s.buffer[Place(i)] = last + s.lost + i + 1
  BY DEF LogOK, Follows
<1>2. /\ s.buffer \in [0..LogBufSz - 1 -> Nat] /\ s.count \in 0..LogBufSz
      /\ s.head \in 0..LogBufSz - 1 /\ s.tail \in 0..LogBufSz - 1
      /\ s.lost \in Nat /\ s.written \in Nat
  BY <1>1 DEF LogState
<1>3. \A i \in 0..LogBufSz : Place(i) \in 0..LogBufSz - 1
  <2> TAKE i \in 0..LogBufSz
  <2>1. 0 \in 0..LogBufSz /\ i + 0 \in 0..LogBufSz
    BY SystemLogAssumption
  <2>. QED BY <1>2, <2>1, RingAdd
<1>4. b \in [0..LogBufSz - 1 -> Nat] /\ b[s.tail] = s.written + 1
  BY <1>2, SystemLogAssumption
<1>5. \A i \in 0..LogBufSz : 
        i < s.count /\ s.count - i < LogBufSz => b[Place(i)] = last + s.lost + i + 1
  <2> SUFFICES ASSUME NEW i \in 0..LogBufSz, i < s.count, s.count - i < LogBufSz
               PROVE  b[Place(i)] = last + s.lost + i + 1
    OBVIOUS
  <2>1. Place(i) # s.tail
    BY <1>1, <1>2, RingDistinct
  <2>2. Place(i) \in 0..LogBufSz - 1 /\ i \in 0..s.count - 1
    BY <1>2, <1>3
  <2> HIDE DEF Place
  <2>. QED BY <1>1, <1>2, <2>1, <2>2
<1>6. IncLog(s.tail) \in 0..LogBufSz - 1
  <2>1. 0 \in 0..LogBufSz /\ 1 \in 0..LogBufSz /\ 1 + 0 \in 0..LogBufSz
    BY SystemLogAssumption
  <2>. QED BY <1>2, <2>1, RingAdd DEF IncLog
<1>7. CASE s.count < LogBufSz
  <2> DEFINE t == StoreLog(s)
  <2>1. t = [s EXCEPT !.buffer = b, !.written = s.written + 1, !.tail = IncLog(s.tail),
                      !.count = s.count + 1]
    BY <1>1, <1>7 DEF StoreLog, LogState
  <2>2. /\ t \in LogState /\ t.buffer = b /\ t.count = s.count + 1 /\ t.head = s.head
        /\ t.lost = s.lost /\ t.tail = IncLog(s.tail) /\ t.written = s.written + 1
    <3>1. s.count + 1 \in 0..LogBufSz /\ s.written + 1 \in Nat
      BY <1>2, <1>7, SystemLogAssumption
    <3> HIDE DEF b, t
    <3>. QED BY <1>1, <1>4, <1>6, <2>1, <3>1 DEF LogState
  <2>3. t.tail = (t.head + t.count) % LogBufSz
    <3>1. 1 \in 0..LogBufSz /\ s.count + 1 \in 0..LogBufSz
      BY <1>2, <1>7, SystemLogAssumption
    <3>2. (Place(s.count) + 1) % LogBufSz = (s.head + (s.count + 1)) % LogBufSz
      BY <1>2, <3>1, RingAdd
    <3>. QED BY <1>1, <2>2, <3>2 DEF IncLog
  <2>4. \A i \in 0..t.count - 1 : b[Place(i)] = last + s.lost + i + 1
    <3> SUFFICES ASSUME NEW i \in 0..s.count PROVE b[Place(i)] = last + s.lost + i + 1
      BY <1>2, <2>2
    <3>1. CASE i = s.count
      BY <1>1, <1>2, <1>4, <3>1
    <3>2. CASE i # s.count
      <4>1. i \in 0..LogBufSz /\ i < s.count /\ s.count - i < LogBufSz
        BY <1>2, <1>7, <3>2, SystemLogAssumption
      <4> HIDE DEF b, Place
      <4>. QED BY <1>5, <4>1
    <3>. QED BY <3>1, <3>2
  <2>5. t.written = last + t.lost + t.count
    BY <1>1, <1>2, <2>2
  <2> HIDE DEF t, b
  <2>6. Follows(t, last)
    BY <2>2, <2>4, <2>5 DEF Follows
  <2>. QED BY <1>1, <2>2, <2>3, <2>6 DEF LogOK, t
<1>8. CASE s.count = LogBufSz
  <2> DEFINE t == StoreLog(s)
  <2>1. t = [s EXCEPT !.buffer = b, !.written = s.written + 1, !.tail = IncLog(s.tail),
                      !.head = IncLog(s.tail), !.lost = s.lost + 1]
    BY <1>1, <1>2, <1>8 DEF StoreLog, LogState
  <2>2. /\ t \in LogState /\ t.buffer = b /\ t.count = s.count /\ t.head = IncLog(s.tail)
        /\ t.lost = s.lost + 1 /\ t.tail = IncLog(s.tail) /\ t.written = s.written + 1
    <3>1. s.lost + 1 \in Nat /\ s.written + 1 \in Nat
      BY <1>2, SystemLogAssumption
    <3> HIDE DEF b, t
    <3>. QED BY <1>1, <1>4, <1>6, <2>1, <3>1 DEF LogState
  <2>3. t.tail = (t.head + t.count) % LogBufSz
    BY <1>6, <1>8, <2>2, RingTurn
  <2>4. s.tail = s.head
    BY <1>1, <1>2, <1>8, RingTurn
  <2>5. \A i \in 0..t.count - 1 : b[(t.head + i) % LogBufSz] = last + t.lost + i + 1
    <3> SUFFICES ASSUME NEW i \in 0..LogBufSz - 1
                 PROVE  b[(t.head + i) % LogBufSz] = last + t.lost + i + 1
      BY <1>8, <2>2
    <3>1. 1 \in 0..LogBufSz /\ i \in 0..LogBufSz /\ i + 1 \in 0..LogBufSz /\ 1 + i = i + 1
      BY SystemLogAssumption
    <3>2. (t.head + i) % LogBufSz = Place(i + 1)
      <4>1. (((s.head + 1) % LogBufSz) + i) % LogBufSz = (s.head + (1 + i)) % LogBufSz
        BY <1>2, <3>1, RingAdd
      <4> HIDE DEF t
      <4>. QED BY <2>2, <2>4, <3>1, <4>1 DEF IncLog
    <3>3. CASE i + 1 = LogBufSz
      <4>1. Place(i + 1) = s.tail
        BY <1>1, <1>8, <3>3
      <4>2. last + t.lost + i + 1 = s.written + 1
        <5> HIDE DEF t
        <5>. QED BY <1>1, <1>2, <1>8, <2>2, <3>3
      <4> HIDE DEF b, Place, t
      <4>. QED BY <1>4, <3>2, <4>1, <4>2
    <3>4. CASE i + 1 < LogBufSz
      <4>1. b[Place(i + 1)] = last + s.lost + (i + 1) + 1
        <5>1. i + 1 < s.count /\ s.count - (i + 1) < LogBufSz
          BY <1>8, <3>1, <3>4, SystemLogAssumption
        <5> HIDE DEF b, Place
        <5>. QED BY <1>5, <3>1, <5>1
      <4>2. last + t.lost + i + 1 = last + s.lost + (i + 1) + 1
        <5>1. last \in Nat /\ s.lost \in Nat /\ i \in Nat
          BY <1>1, <1>2, SystemLogAssumption
        <5>2. t.lost = s.lost + 1
          BY <2>2
        <5> HIDE DEF t
        <5>. QED BY <5>1, <5>2
      <4> HIDE DEF b, Place, t
      <4>. QED BY <3>2, <4>1, <4>2
    <3>. QED BY <3>3, <3>4, SystemLogAssumption
  <2>6. t.written = last + t.lost + t.count
    BY <1>1, <1>2, <2>2
  <2> HIDE DEF t, b
  <2>7. Follows(t, last)
    BY <2>2, <2>5, <2>6 DEF Follows
  <2>. QED BY <1>1, <2>2, <2>3, <2>7 DEF LogOK, t
<1>. QED BY <1>2, <1>7, <1>8, SystemLogAssumption

\* A read takes the record that is due.
LEMMA ReadKeeps ==
  ASSUME LogInv, read_log
  PROVE  LogInv'
<1> DEFINE s == syslog
           Place(i) == (s.head + i) % LogBufSz
<1>1. /\ s \in LogState /\ lastread \in Nat /\ s.tail = Place(s.count)
      /\ s.written = lastread + s.lost + s.count
      /\ \A i \in 0..s.count - 1 : s.buffer[Place(i)] = lastread + s.lost + i + 1
  BY DEF LogInv, LogOK, Follows
<1>2. /\ s.buffer \in [0..LogBufSz - 1 -> Nat] /\ s.count \in 1..LogBufSz
      /\ s.head \in 0..LogBufSz - 1 /\ s.tail \in 0..LogBufSz - 1
      /\ s.lost \in Nat /\ s.written \in Nat
  BY <1>1 DEF LogState, read_log
<1>3. 1 \in 0..LogBufSz /\ 0 \in 0..LogBufSz /\ 0 \in 0..s.count - 1 /\ 1 + 0 \in 0..LogBufSz
  BY <1>2, SystemLogAssumption
<1>4. lastread' = lastread + s.lost + 1
  <2>1. Place(0) = s.head
    BY <1>2, RingTurn
  <2>2. s.buffer[Place(0)] = lastread + s.lost + 0 + 1
    BY <1>1, <1>3
  <2>. QED BY <1>1, <1>2, <2>1, <2>2 DEF read_log
<1>5. IncLog(s.head) \in 0..LogBufSz - 1
  BY <1>2, <1>3, RingAdd DEF IncLog
<1>6. /\ syslog' \in LogState /\ syslog'.buffer = s.buffer /\ syslog'.count = s.count - 1
      /\ syslog'.head = IncLog(s.head) /\ syslog'.tail = s.tail /\ syslog'.lost = 0
      /\ syslog'.written = s.written
  <2>1. syslog' = [s EXCEPT !.count = s.count - 1, !.head = IncLog(s.head), !.lost = 0]
    BY DEF read_log
  <2>2. s.count - 1 \in 0..LogBufSz
    BY <1>2, SystemLogAssumption
  <2> HIDE DEF s
  <2>. QED BY <1>1, <1>5, <2>1, <2>2 DEF LogState
<1>7. \A i \in 0..s.count - 1 : (IncLog(s.head) + i) % LogBufSz = Place(i + 1)
  <2> TAKE i \in 0..s.count - 1
  <2>1. i \in 0..LogBufSz /\ 1 + i \in 0..LogBufSz /\ 1 + i = i + 1
    BY <1>2, SystemLogAssumption
  <2>2. (((s.head + 1) % LogBufSz) + i) % LogBufSz = (s.head + (1 + i)) % LogBufSz
    BY <1>2, <1>3, <2>1, RingAdd
  <2>. QED BY <2>1, <2>2 DEF IncLog
<1>8. syslog'.tail = (syslog'.head + syslog'.count) % LogBufSz
  <2>1. s.count - 1 \in 0..s.count - 1 /\ (s.count - 1) + 1 = s.count
    BY <1>2
  <2>. QED BY <1>1, <1>6, <1>7, <2>1
<1>9. Follows(syslog', lastread')
  <2>1. syslog'.written = lastread' + syslog'.lost + syslog'.count
    BY <1>1, <1>2, <1>4, <1>6
  <2>2. ASSUME NEW i \in 0..s.count - 2
        PROVE  s.buffer[(IncLog(s.head) + i) % LogBufSz] = lastread' + 0 + i + 1
    <3>1. i \in 0..s.count - 1 /\ i + 1 \in 0..s.count - 1
      BY <1>2
    <3>2. s.buffer[Place(i + 1)] = lastread + s.lost + (i + 1) + 1
      BY <1>1, <3>1
    <3>3. (IncLog(s.head) + i) % LogBufSz = Place(i + 1)
      BY <1>7, <3>1
    <3>4. lastread + s.lost + (i + 1) + 1 = lastread' + 0 + i + 1
      <4>1. i \in Nat
        BY <1>2, SystemLogAssumption
      <4>2. lastread \in Nat /\ s.lost \in Nat
        BY <1>1, <1>2
      <4> HIDE DEF s, Place
      <4>. QED BY <1>4, <4>1, <4>2
    <3> HIDE DEF Place, s
    <3>. QED BY <3>2, <3>3, <3>4
  <2>3. syslog'.count - 1 = s.count - 2
    BY <1>2, <1>6
  <2>. QED BY <1>6, <2>1, <2>2, <2>3 DEF Follows
<1>. QED BY <1>1, <1>2, <1>4, <1>6, <1>8, <1>9 DEF LogInv, LogOK

\* Flushing reads every record: the last one read is the last one written.
LEMMA FlushKeeps ==
  ASSUME LogInv, _syslog_fls_log
  PROVE  LogInv'
<1> DEFINE s == syslog
           Place(i) == (s.head + i) % LogBufSz
<1>1. /\ s \in LogState /\ lastread \in Nat /\ s.tail = Place(s.count)
      /\ s.written = lastread + s.lost + s.count
      /\ \A i \in 0..s.count - 1 : s.buffer[Place(i)] = lastread + s.lost + i + 1
  BY DEF LogInv, LogOK, Follows
<1>2. /\ s.count \in 1..LogBufSz /\ s.head \in 0..LogBufSz - 1 
      /\ s.tail \in 0..LogBufSz - 1 /\ s.lost \in Nat /\ s.written \in Nat
  BY <1>1 DEF LogState, _syslog_fls_log
<1>3. lastread' = s.written
  <2>1. s.count - 1 \in 0..s.count - 1 /\ s.head + s.count - 1 = s.head + (s.count - 1)
    BY <1>2
  <2>2. s.buffer[Place(s.count - 1)] = lastread + s.lost + (s.count - 1) + 1
    BY <1>1, <2>1
  <2>3. lastread' = s.buffer[Place(s.count - 1)]
    BY <2>1 DEF _syslog_fls_log
  <2> HIDE DEF Place
  <2>. QED BY <1>1, <1>2, <2>2, <2>3
<1>4. /\ syslog' \in LogState /\ syslog'.count = 0 /\ syslog'.head = s.tail
      /\ syslog'.tail = s.tail /\ syslog'.lost = 0 /\ syslog'.written = s.written
  <2>1. syslog' = [s EXCEPT !.count = 0, !.head = s.tail, !.lost = 0]
    BY <1>1 DEF _syslog_fls_log
  <2>2. 0 \in 0..LogBufSz
    BY SystemLogAssumption
  <2> HIDE DEF s
  <2>. QED BY <1>1, <1>2, <2>1, <2>2 DEF LogState
<1>5. syslog'.tail = (syslog'.head + syslog'.count) % LogBufSz
  BY <1>2, <1>4, RingTurn
<1>6. Follows(syslog', lastread')
  BY <1>2, <1>3, <1>4 DEF Follows
<1>. QED BY <1>2, <1>3, <1>4, <1>5, <1>6 DEF LogInv, LogOK

-----------------------------------------------------------------------------
\* The invariant of the log holds at the start.
LEMMA LogInvInit == LogInit => LogInv
<1> SUFFICES ASSUME LogInit PROVE LogInv
  OBVIOUS
<1>1. syslog \in LogState /\ lastread \in Nat
  BY SystemLogAssumption DEF LogInit, InitialLog, LogState
<1>2. /\ syslog.head = 0 /\ syslog.tail = 0 /\ syslog.count = 0 /\ syslog.lost = 0
      /\ syslog.written = 0 /\ lastread = 0
  BY DEF LogInit, InitialLog
<1>3. syslog.tail = (syslog.head + syslog.count) % LogBufSz
  BY <1>2, RingTurn, SystemLogAssumption
<1>. QED BY <1>1, <1>2, <1>3 DEF LogInv, LogOK, Follows

\* Every step preserves the invariant of the log.
LEMMA LogInvNext == LogInv /\ [LogNext]_logvars => LogInv'
<1> SUFFICES ASSUME LogInv, [LogNext]_logvars PROVE LogInv'
  OBVIOUS
<1>1. ASSUME NEW prio \in Prio, _syslog_wri_log(prio) PROVE LogInv'
  BY <1>1, StoreKeeps DEF LogInv, _syslog_wri_log
<1>2. CASE read_log
  BY <1>2, ReadKeeps
<1>3. CASE _syslog_fls_log
  BY <1>3, FlushKeeps
<1>4. ASSUME NEW mask \in SUBSET Prio, _syslog_msk_log(mask) PROVE LogInv'
  <2>1. /\ syslog' \in LogState /\ lastread' = lastread
        /\ syslog'.buffer = syslog.buffer /\ syslog'.count = syslog.count
        /\ syslog'.head = syslog.head /\ syslog'.tail = syslog.tail
        /\ syslog'.lost = syslog.lost /\ syslog'.written = syslog.written
    BY <1>4 DEF _syslog_msk_log, LogInv, LogOK, LogState
  <2>. QED BY <2>1 DEF LogInv, LogOK, Follows
<1>5. CASE UNCHANGED logvars
  BY <1>5 DEF LogInv, logvars
<1>. QED BY <1>1, <1>2, <1>3, <1>4, <1>5 DEF LogNext

\* Between the last record that was read and those still to be read there are
\* exactly the records that the next read will report as lost.
THEOREM LogCorrect == LogSpec => []LogGapsReported
<1>1. LogInv => LogGapsReported
  BY DEF LogInv, LogOK, Follows, LogGapsReported
<1>. QED BY <1>1, LogInvInit, LogInvNext, PTL DEF LogSpec

-----------------------------------------------------------------------------
(* The serial port. *)

Char == User \union {"LF", "CR", "echo"}

Setting == {"ECHO", "CRLF", "FCSND", "FCRCV", "FCANY"}

PortState ==
  [openflag: BOOLEAN, errorflag: BOOLEAN, ioctl: SUBSET Setting,
   rcv_count: Nat, rcv_fc_chr: Flow \union {NONE}, rcv_stopped: BOOLEAN,
   snd: Seq(Char), snd_stopped: BOOLEAN, snd_sem: {0, 1}, rcv_sem: {0, 1},
   tdr: Char \union Flow \union {NONE}, txen: BOOLEAN, txreq: BOOLEAN, lastfc: Flow,
   rcv_lost: BOOLEAN]

UserState ==
  [at: {"idle", "wai_snd", "wai_rcv", "put", "get", "sig_snd", "sig_rcv"},
   call: {"none", "wri", "rea"}, left: Int, empty: BOOLEAN, cr: BOOLEAN]

\* Only a reader goes through the steps of _serial_rea_dat.
UserOK(u) == u \in UserState /\ (u.at \in {"wai_rcv", "get", "sig_rcv"} => u.call = "rea")

SerialTypeOK == port \in PortState /\ \A t \in User : UserOK(usr[t])
UsrIsFunction == usr \in [User -> UserState]

\* HoldsSnd and HoldsRcv, of what a task is doing.
SndHolder(u) == u.at \in {"put", "sig_snd"}
RcvHolder(u) ==
  \/ u.at \in {"get", "sig_rcv"}
  \/ u.call = "rea" /\ u.at \in {"wai_snd", "put", "sig_snd"} /\ ~u.empty

RcvEmpty(p) == p.rcv_count = 0

One(b) == IF b THEN 1 ELSE 0

\* The unit is in the semaphore, with a task (or lost by one), or stands for the
\* buffer.
UnitOK(sem, has, buf) == (sem = 1 /\ ~has /\ ~buf) \/ (sem = 0 /\ (has <=> ~buf))

SndUnit ==
  /\ UnitOK(port.snd_sem, \E t \in User : SndHolder(usr[t]), SndFull(port))
  /\ \A t, u \in User : SndHolder(usr[t]) /\ SndHolder(usr[u]) => t = u
RcvUnit ==
  /\ UnitOK(port.rcv_sem, port.rcv_lost \/ \E t \in User : RcvHolder(usr[t]), RcvEmpty(port))
  /\ port.rcv_lost => \A t \in User : ~RcvHolder(usr[t])
  /\ \A t, u \in User : RcvHolder(usr[t]) /\ RcvHolder(usr[u]) => t = u

OpenOK == ~port.errorflag /\ Len(port.snd) <= SndBufSz /\ SndUnit /\ RcvUnit
ClosedOK ==
  /\ port.snd_sem = 1 /\ port.rcv_sem = 0 /\ ~port.txen /\ ~port.rcv_lost
  /\ \A t \in User : usr[t] = Idle

\* TokensExact for a prover: what the units are with the port open and closed.
SerialInv ==
  /\ SerialTypeOK /\ UsrIsFunction
  /\ IF port.openflag THEN OpenOK ELSE ClosedOK

-----------------------------------------------------------------------------
(* A step that keeps the sum of a unit's places keeps the unit. *)

\* What a port and one task have of the two units.
SndSum(p, u) == p.snd_sem + One(SndHolder(u)) + One(SndFull(p))
RcvSum(p, u) == p.rcv_sem + One(RcvHolder(u)) + One(RcvEmpty(p)) + One(p.rcv_lost)

\* The ports a step of the open port may lead to.
GoodPort(p) ==
  /\ p \in PortState /\ p.openflag /\ ~p.errorflag /\ Len(p.snd) <= SndBufSz

\* A step of one task.
LEMMA UserStep ==
  ASSUME SerialInv, port.openflag, NEW t \in User, NEW v, UserOK(v),
         usr' = [usr EXCEPT ![t] = v], GoodPort(port'),
         SndSum(port', v) = SndSum(port, usr[t]), RcvSum(port', v) = RcvSum(port, usr[t])
  PROVE  SerialInv'
<1>1. /\ port \in PortState /\ usr \in [User -> UserState] /\ OpenOK
      /\ \A u \in User : UserOK(usr[u])
  BY DEF SerialInv, SerialTypeOK, UsrIsFunction
<1>2. v \in UserState /\ usr'[t] = v /\ \A u \in User \ {t} : usr'[u] = usr[u]
  BY <1>1 DEF UserOK
<1>3. SerialTypeOK' /\ UsrIsFunction'
  BY <1>1, <1>2 DEF SerialTypeOK, UsrIsFunction, GoodPort
<1>4. /\ port.snd_sem \in {0, 1} /\ port.rcv_sem \in {0, 1}
      /\ port'.snd_sem \in {0, 1} /\ port'.rcv_sem \in {0, 1}
  BY <1>1 DEF PortState, GoodPort
<1>5. SndUnit'
  <2> DEFINE others == \E u \in User \ {t} : SndHolder(usr[u])
  <2>1. (\E u \in User : SndHolder(usr[u])) <=> others \/ SndHolder(usr[t])
    OBVIOUS
  <2>2. ~(others /\ SndHolder(usr[t]))
    BY <1>1 DEF OpenOK, SndUnit
  <2>3. (\E u \in User : SndHolder(usr'[u])) <=> others \/ SndHolder(v)
    BY <1>2
  <2>4. UnitOK(port.snd_sem, others \/ SndHolder(usr[t]), SndFull(port))
    BY <1>1, <2>1 DEF OpenOK, SndUnit, UnitOK
  <2>5. /\ UnitOK(port'.snd_sem, others \/ SndHolder(v), SndFull(port'))
        /\ ~(others /\ SndHolder(v))
    <3> HIDE DEF others
    <3>. QED BY <1>4, <2>2, <2>4 DEF SndSum, One, UnitOK
  <2>6. \A u, w \in User : SndHolder(usr'[u]) /\ SndHolder(usr'[w]) => u = w
    BY <1>1, <1>2, <2>5 DEF OpenOK, SndUnit
  <2>. QED BY <2>3, <2>5, <2>6 DEF SndUnit, UnitOK
<1>6. RcvUnit'
  <2> DEFINE others == \E u \in User \ {t} : RcvHolder(usr[u])
  <2>1. (\E u \in User : RcvHolder(usr[u])) <=> others \/ RcvHolder(usr[t])
    OBVIOUS
  <2>2. ~(others /\ RcvHolder(usr[t]))
    BY <1>1 DEF OpenOK, RcvUnit
  <2>3. (\E u \in User : RcvHolder(usr'[u])) <=> others \/ RcvHolder(v)
    BY <1>2
  <2>4. /\ UnitOK(port.rcv_sem, port.rcv_lost \/ others \/ RcvHolder(usr[t]), RcvEmpty(port))
        /\ ~(port.rcv_lost /\ (others \/ RcvHolder(usr[t])))
        /\ port.rcv_lost \in BOOLEAN /\ port'.rcv_lost \in BOOLEAN
    BY <1>1, <2>1 DEF OpenOK, RcvUnit, UnitOK, GoodPort, PortState
  <2>5. /\ UnitOK(port'.rcv_sem, port'.rcv_lost \/ others \/ RcvHolder(v), RcvEmpty(port'))
        /\ ~(others /\ RcvHolder(v)) /\ ~(port'.rcv_lost /\ (others \/ RcvHolder(v)))
    <3> HIDE DEF others
    <3>. QED BY <1>4, <2>2, <2>4 DEF RcvSum, One, UnitOK
  <2>6. \A u, w \in User : RcvHolder(usr'[u]) /\ RcvHolder(usr'[w]) => u = w
    BY <1>1, <1>2, <2>5 DEF OpenOK, RcvUnit
  <2>. QED BY <2>3, <2>5, <2>6 DEF RcvUnit, UnitOK
<1>. QED BY <1>3, <1>5, <1>6 DEF SerialInv, OpenOK, GoodPort

\* A step of no task.
LEMMA PortStep ==
  ASSUME SerialInv, port.openflag, UNCHANGED usr, GoodPort(port'),
         port'.snd_sem + One(SndFull(port')) = port.snd_sem + One(SndFull(port)),
         port'.rcv_sem + One(RcvEmpty(port')) = port.rcv_sem + One(RcvEmpty(port)),
         port'.rcv_lost = port.rcv_lost
  PROVE  SerialInv'
<1>1. /\ port \in PortState /\ OpenOK /\ SerialTypeOK /\ UsrIsFunction
  BY DEF SerialInv, SerialTypeOK
<1>2. SerialTypeOK' /\ UsrIsFunction'
  BY <1>1 DEF SerialTypeOK, UsrIsFunction, GoodPort
<1>3. /\ port.snd_sem \in {0, 1} /\ port.rcv_sem \in {0, 1}
      /\ port'.snd_sem \in {0, 1} /\ port'.rcv_sem \in {0, 1}
  BY <1>1 DEF PortState, GoodPort
<1>4. SndUnit' /\ RcvUnit'
  BY <1>1, <1>3 DEF OpenOK, SndUnit, RcvUnit, UnitOK, One
<1>. QED BY <1>2, <1>4 DEF SerialInv, OpenOK, GoodPort

-----------------------------------------------------------------------------
(* What the driver's helpers do to the port. *)

\* What nothing but the buffers' own operations touches.
SameBuffers(p, q) ==
  /\ q.openflag = p.openflag /\ q.errorflag = p.errorflag /\ q.snd = p.snd
  /\ q.snd_sem = p.snd_sem /\ q.rcv_sem = p.rcv_sem /\ q.rcv_count = p.rcv_count
  /\ q.rcv_lost = p.rcv_lost

\* Switching the callbacks keeps the types and the buffers.
LEMMA CallbackType ==
  ASSUME NEW p \in PortState
  PROVE  /\ sio_ena_cbr(p) \in PortState /\ SameBuffers(p, sio_ena_cbr(p))
         /\ sio_dis_cbr(p) \in PortState /\ SameBuffers(p, sio_dis_cbr(p))
  BY DEF sio_ena_cbr, sio_dis_cbr, PortState, SameBuffers

\* Sending a character keeps the types and the buffers.
LEMMA SndChrType ==
  ASSUME NEW p \in PortState, NEW c \in Char \union Flow
  PROVE  /\ sio_snd_chr(p, c) \in PortState /\ SameBuffers(p, sio_snd_chr(p, c))
         /\ serial_snd_chr(p, c) \in PortState /\ SameBuffers(p, serial_snd_chr(p, c))
<1>1. sio_snd_chr(p, c) \in PortState /\ SameBuffers(p, sio_snd_chr(p, c))
  BY DEF sio_snd_chr, PortState, SameBuffers
<1>. QED BY <1>1, CallbackType DEF serial_snd_chr

\* Sending a flow character keeps the types and the buffers.
LEMMA SendFlowType ==
  ASSUME NEW p \in PortState, NEW c \in Flow
  PROVE  SendFlow(p, c) \in PortState /\ SameBuffers(p, SendFlow(p, c))
<1> DEFINE q == serial_snd_chr(p, c)
<1>1. q \in PortState /\ SameBuffers(p, q)
  BY SndChrType
<1>2. /\ [q EXCEPT !.rcv_fc_chr = c] \in PortState
      /\ SameBuffers(p, [q EXCEPT !.rcv_fc_chr = c])
  <2> HIDE DEF q
  <2>. QED BY <1>1 DEF PortState, SameBuffers
<1>. QED BY <1>1, <1>2 DEF SendFlow

\* sig_sem of a semaphore that has no unit.
LEMMA SignalType ==
  ASSUME NEW p \in PortState
  PROVE  /\ p.snd_sem = 0 =>
              /\ SigSnd(p) \in PortState /\ SigSnd(p) = [p EXCEPT !.snd_sem = 1]
         /\ p.rcv_sem = 0 =>
              /\ SigRcv(p) \in PortState /\ SigRcv(p) = [p EXCEPT !.rcv_sem = 1]
  BY DEF SigSnd, SigRcv, PortState

\* A character is sent or put into the buffer, which was not full.
LEMMA PutChrType ==
  ASSUME NEW p, GoodPort(p), ~SndFull(p), NEW c \in Char
  PROVE  /\ GoodPort(PutChr(p, c)) /\ PutChr(p, c).snd_sem = p.snd_sem
         /\ PutChr(p, c).rcv_sem = p.rcv_sem /\ PutChr(p, c).rcv_count = p.rcv_count
         /\ PutChr(p, c).rcv_lost = p.rcv_lost
<1> DEFINE tries == p.snd = << >> /\ ~p.snd_stopped
           q == IF tries THEN serial_snd_chr(p, c) ELSE p
           r == [q EXCEPT !.snd = Append(@, c)]
<1>1. q \in PortState /\ SameBuffers(p, q)
  BY SndChrType DEF GoodPort, SameBuffers
<1>2. p.snd \in Seq(Char) /\ Len(p.snd) < SndBufSz /\ Len(p.snd) \in Nat
  BY SerialPortAssumption DEF GoodPort, PortState, SndFull
<1>3. /\ r \in PortState /\ r.snd = Append(p.snd, c) /\ r.openflag = p.openflag
      /\ r.errorflag = p.errorflag /\ r.snd_sem = p.snd_sem /\ r.rcv_sem = p.rcv_sem
      /\ r.rcv_count = p.rcv_count /\ r.rcv_lost = p.rcv_lost
  <2> HIDE DEF q
  <2>1. Append(q.snd, c) \in Seq(Char) /\ q.snd = p.snd
    BY <1>1, <1>2 DEF SameBuffers
  <2>. QED BY <1>1, <2>1 DEF PortState, SameBuffers
<1>4. GoodPort(q) /\ GoodPort(r)
  <2> HIDE DEF q, r
  <2>1. Len(r.snd) <= SndBufSz
    BY <1>2, <1>3, SerialPortAssumption
  <2>. QED BY <1>1, <1>3, <2>1 DEF GoodPort, SameBuffers
<1>5. PutChr(p, c) = IF tries /\ TDRE(p) THEN q ELSE r
  BY DEF PutChr
<1> HIDE DEF q, r, tries
<1>. QED BY <1>1, <1>3, <1>4, <1>5 DEF SameBuffers

\* A buffer that is not empty, cut short by n characters: what was full is not.
LEMMA CutShort ==
  ASSUME NEW p, GoodPort(p), NEW n \in 0..Len(p.snd),
         SndFull(p) => p.snd_sem = 0, NEW q \in PortState,
         q.openflag = p.openflag, q.snd = SubSeq(p.snd, n + 1, Len(p.snd)),
         n > 0 /\ SndFull(p) => q.snd_sem = 1, ~(n > 0 /\ SndFull(p)) => q.snd_sem = p.snd_sem,
         q.errorflag = p.errorflag
  PROVE  GoodPort(q) /\ q.snd_sem + One(SndFull(q)) = p.snd_sem + One(SndFull(p))
<1>1. p.snd \in Seq(Char) /\ Len(p.snd) <= SndBufSz /\ Len(p.snd) \in Nat
  BY DEF GoodPort, PortState
<1>2. Len(q.snd) = Len(p.snd) - n
  BY <1>1
<1>3. p.snd_sem \in {0, 1}
  BY DEF GoodPort, PortState
<1>. QED BY <1>1, <1>2, <1>3, SerialPortAssumption DEF GoodPort, SndFull, One

\* The send callback.
LEMMA DrainChrType ==
  ASSUME NEW p, GoodPort(p), p.snd # << >>, SndFull(p) => p.snd_sem = 0
  PROVE  /\ GoodPort(DrainChr(p))
         /\ DrainChr(p).snd_sem + One(SndFull(DrainChr(p))) = p.snd_sem + One(SndFull(p))
         /\ DrainChr(p).rcv_sem = p.rcv_sem /\ DrainChr(p).rcv_count = p.rcv_count
         /\ DrainChr(p).rcv_lost = p.rcv_lost
<1> DEFINE q == sio_snd_chr(p, Head(p.snd))
           r == IF SndFull(p) THEN SigSnd(q) ELSE q
           d == [r EXCEPT !.snd = Tail(@)]
<1>1. p \in PortState /\ p.snd \in Seq(Char) /\ Head(p.snd) \in Char /\ Len(p.snd) \in Nat \ {0}
  BY DEF GoodPort, PortState
<1>2. q \in PortState /\ SameBuffers(p, q)
  BY <1>1, SndChrType
<1>3. /\ r \in PortState /\ r.openflag = p.openflag /\ r.errorflag = p.errorflag
      /\ r.snd = p.snd /\ r.rcv_sem = p.rcv_sem /\ r.rcv_count = p.rcv_count
      /\ r.rcv_lost = p.rcv_lost
      /\ SndFull(p) => r.snd_sem = 1
      /\ ~SndFull(p) => r.snd_sem = p.snd_sem
  <2> HIDE DEF q
  <2>1. CASE SndFull(p)
    BY <1>2, <2>1, SignalType DEF SameBuffers, PortState
  <2>2. CASE ~SndFull(p)
    BY <1>2, <2>2 DEF SameBuffers
  <2>. QED BY <2>1, <2>2
<1>4. /\ d \in PortState /\ d.openflag = p.openflag /\ d.errorflag = p.errorflag
      /\ d.snd = Tail(p.snd) /\ d.rcv_sem = p.rcv_sem /\ d.rcv_count = p.rcv_count
      /\ d.snd_sem = r.snd_sem /\ d.rcv_lost = p.rcv_lost
  <2> HIDE DEF r
  <2>1. Tail(r.snd) \in Seq(Char)
    BY <1>1, <1>3
  <2>. QED BY <1>3, <2>1 DEF PortState
<1>5. Tail(p.snd) = SubSeq(p.snd, 1 + 1, Len(p.snd)) /\ 1 \in 0..Len(p.snd)
  BY <1>1
<1> HIDE DEF q, r, d
<1>6. GoodPort(d) /\ d.snd_sem + One(SndFull(d)) = p.snd_sem + One(SndFull(p))
  <2>1. /\ d.snd = SubSeq(p.snd, 1 + 1, Len(p.snd))
        /\ 1 > 0 /\ SndFull(p) => d.snd_sem = 1
        /\ ~(1 > 0 /\ SndFull(p)) => d.snd_sem = p.snd_sem
    BY <1>3, <1>4, <1>5
  <2>. QED BY <1>4, <1>5, <2>1, CutShort
<1>7. DrainChr(p) = d
  BY DEF DrainChr, d, r, q
<1>. QED BY <1>4, <1>6, <1>7

\* Sending goes on after START.
LEMMA ResumedType ==
  ASSUME NEW p, GoodPort(p), SndFull(p) => p.snd_sem = 0, NEW q \in ResumeSending(p)
  PROVE  /\ GoodPort(q) /\ q.snd_sem + One(SndFull(q)) = p.snd_sem + One(SndFull(p))
         /\ q.rcv_sem = p.rcv_sem /\ q.rcv_count = p.rcv_count /\ q.rcv_lost = p.rcv_lost
<1>1. p \in PortState /\ p.snd \in Seq(Char) /\ Len(p.snd) \in Nat
  BY DEF GoodPort, PortState
<1>2. PICK n \in 0..Len(p.snd) : q = Resumed(p, n)
  BY <1>1 DEF ResumeSending
<1> DEFINE r == IF n > 0 /\ SndFull(p) THEN SigSnd(p) ELSE p
           rest == SubSeq(r.snd, n + 1, Len(r.snd))
           last == IF n > 0 THEN p.snd[n] ELSE r.tdr
           req == IF n > 1 THEN TRUE ELSE r.txreq
           d == [r EXCEPT !.snd = rest, !.snd_stopped = FALSE, !.tdr = last, !.txreq = req]
<1>3. /\ r \in PortState /\ r.openflag = p.openflag /\ r.errorflag = p.errorflag
      /\ r.snd = p.snd /\ r.rcv_sem = p.rcv_sem /\ r.rcv_count = p.rcv_count
      /\ r.rcv_lost = p.rcv_lost
      /\ n > 0 /\ SndFull(p) => r.snd_sem = 1
      /\ ~(n > 0 /\ SndFull(p)) => r.snd_sem = p.snd_sem
  <2>1. CASE n > 0 /\ SndFull(p)
    BY <1>1, <2>1, SignalType DEF PortState
  <2>2. CASE ~(n > 0 /\ SndFull(p))
    BY <1>1, <2>2
  <2>. QED BY <2>1, <2>2
<1>4. /\ d \in PortState /\ d.openflag = p.openflag /\ d.errorflag = p.errorflag
      /\ d.snd = SubSeq(p.snd, n + 1, Len(p.snd))
      /\ d.rcv_sem = p.rcv_sem /\ d.rcv_count = p.rcv_count /\ d.snd_sem = r.snd_sem
      /\ d.rcv_lost = p.rcv_lost
  <2>1. rest \in Seq(Char) /\ rest = SubSeq(p.snd, n + 1, Len(p.snd))
    <3> HIDE DEF r
    <3>. QED BY <1>1, <1>3
  <2>2. last \in Char \union Flow \union {NONE} /\ req \in BOOLEAN
    <3> HIDE DEF r
    <3>1. n > 0 => p.snd[n] \in Char
      BY <1>1
    <3>2. r.tdr \in Char \union Flow \union {NONE} /\ r.txreq \in BOOLEAN
      BY <1>3 DEF PortState
    <3>. QED BY <3>1, <3>2
  <2> HIDE DEF r, rest, last, req
  <2>. QED BY <1>3, <2>1, <2>2 DEF PortState
<1>5. q = IF d.snd = << >> THEN d ELSE sio_ena_cbr(d)
  BY <1>2 DEF Resumed
<1> HIDE DEF r, d
<1>6. q \in PortState /\ SameBuffers(d, q)
  BY <1>4, <1>5, CallbackType DEF SameBuffers
<1>7. GoodPort(d) /\ d.snd_sem + One(SndFull(d)) = p.snd_sem + One(SndFull(p))
  BY <1>3, <1>4, CutShort
<1>. QED BY <1>4, <1>6, <1>7 DEF SameBuffers, GoodPort, SndFull

\* A character is received.
LEMMA StoreChrType ==
  ASSUME NEW p, GoodPort(p), RcvEmpty(p) => p.rcv_sem = 0
  PROVE  /\ GoodPort(StoreChr(p)) /\ StoreChr(p).snd_sem = p.snd_sem
         /\ StoreChr(p).snd = p.snd /\ StoreChr(p).rcv_count = p.rcv_count + 1
         /\ StoreChr(p).rcv_lost = p.rcv_lost
         /\ StoreChr(p).rcv_sem + One(RcvEmpty(StoreChr(p))) = p.rcv_sem + One(RcvEmpty(p))
<1> DEFINE r == IF p.rcv_count = 0 THEN SigRcv(p) ELSE p
           q == [r EXCEPT !.rcv_count = @ + 1]
<1>1. p \in PortState /\ p.rcv_count \in Nat /\ p.rcv_sem \in {0, 1}
  BY DEF GoodPort, PortState
<1>2. /\ r \in PortState /\ r.openflag = p.openflag /\ r.errorflag = p.errorflag
      /\ r.snd = p.snd /\ r.snd_sem = p.snd_sem /\ r.rcv_count = p.rcv_count
      /\ r.rcv_sem = IF RcvEmpty(p) THEN 1 ELSE p.rcv_sem
      /\ r.rcv_lost = p.rcv_lost
  BY <1>1, SignalType DEF PortState, RcvEmpty
<1>3. /\ q \in PortState /\ q.openflag = p.openflag /\ q.errorflag = p.errorflag
      /\ q.snd = p.snd /\ q.snd_sem = p.snd_sem /\ q.rcv_count = p.rcv_count + 1
      /\ q.rcv_sem = r.rcv_sem /\ q.rcv_lost = p.rcv_lost
  <2> HIDE DEF r
  <2>1. r.rcv_count + 1 \in Nat
    BY <1>1, <1>2
  <2>. QED BY <1>2, <2>1 DEF PortState
<1>4. /\ StoreChr(p) \in PortState /\ SameBuffers(q, StoreChr(p))
  <2> DEFINE f == SendFlow(q, STOP)
  <2>1. f \in PortState /\ SameBuffers(q, f)
    BY <1>3, SendFlowType DEF Flow
  <2>2. /\ [f EXCEPT !.rcv_stopped = TRUE] \in PortState
        /\ SameBuffers(q, [f EXCEPT !.rcv_stopped = TRUE])
    <3> HIDE DEF f, q
    <3>. QED BY <2>1 DEF PortState, SameBuffers
  <2>3. \/ StoreChr(p) = [f EXCEPT !.rcv_stopped = TRUE]
        \/ StoreChr(p) = q
    BY DEF StoreChr
  <2> HIDE DEF f, q
  <2>. QED BY <1>3, <2>2, <2>3 DEF SameBuffers
<1>5. q.rcv_sem + One(RcvEmpty(q)) = p.rcv_sem + One(RcvEmpty(p))
  <2> HIDE DEF q, r
  <2>. QED BY <1>1, <1>2, <1>3 DEF One, RcvEmpty
<1> HIDE DEF q, r
<1>. QED BY <1>3, <1>4, <1>5 DEF SameBuffers, GoodPort, RcvEmpty

-----------------------------------------------------------------------------
(* The steps. *)

\* What a task finds in an open port; a closed port has only idle tasks.
LEMMA OpenState ==
  ASSUME SerialInv
  PROVE  /\ port \in PortState
         /\ \A t \in User : UserOK(usr[t]) /\ (usr[t].at # "idle" => port.openflag)
         /\ port.openflag =>
              /\ GoodPort(port)
              /\ SndFull(port) => port.snd_sem = 0
              /\ RcvEmpty(port) => port.rcv_sem = 0
              /\ \A t \in User : SndHolder(usr[t]) => port.snd_sem = 0 /\ ~SndFull(port)
              /\ \A t \in User : RcvHolder(usr[t]) =>
                   port.rcv_sem = 0 /\ ~RcvEmpty(port) /\ ~port.rcv_lost
<1>1. port \in PortState /\ \A t \in User : UserOK(usr[t])
  BY DEF SerialInv, SerialTypeOK
<1>2. \A t \in User : usr[t].at # "idle" => port.openflag
  BY DEF SerialInv, ClosedOK, Idle
<1>3. CASE port.openflag
  BY <1>1, <1>2, <1>3 DEF SerialInv, OpenOK, SndUnit, RcvUnit, UnitOK, GoodPort
<1>4. CASE ~port.openflag
  BY <1>1, <1>2, <1>4
<1>. QED BY <1>3, <1>4

\* Where a reader goes on keeps its unit.
LEMMA ReadOnType ==
  ASSUME NEW u \in UserState, u.call = "rea"
  PROVE  UserOK(ReadOn(u)) /\ ~SndHolder(ReadOn(u)) /\ (RcvHolder(ReadOn(u)) <=> ~u.empty)
<1>1. CASE u.left > 0
  <2> DEFINE v == [u EXCEPT !.at = IF u.empty THEN "wai_rcv" ELSE "get"]
  <2>1. ReadOn(u) = v
    BY <1>1 DEF ReadOn
  <2>2. v \in UserState /\ v.call = "rea" /\ v.at = IF u.empty THEN "wai_rcv" ELSE "get"
    BY DEF UserState
  <2> HIDE DEF v
  <2>. QED BY <2>1, <2>2 DEF UserOK, SndHolder, RcvHolder, UserState
<1>2. CASE ~(u.left > 0) /\ u.empty
  <2>1. ReadOn(u) = Idle
    BY <1>2 DEF ReadOn
  <2>. QED BY <1>2, <2>1 DEF UserOK, SndHolder, RcvHolder, UserState, Idle
<1>3. CASE ~(u.left > 0) /\ ~u.empty
  <2> DEFINE v == [u EXCEPT !.at = "sig_rcv"]
  <2>1. ReadOn(u) = v
    BY <1>3 DEF ReadOn
  <2>2. v \in UserState /\ v.call = "rea" /\ v.at = "sig_rcv"
    BY DEF UserState
  <2> HIDE DEF v
  <2>. QED BY <1>3, <2>1, <2>2 DEF UserOK, SndHolder, RcvHolder
<1>. QED BY <1>1, <1>2, <1>3

\* The sums of an unchanged port do not change if the task holds what it held.
LEMMA SameSums ==
  ASSUME NEW p \in PortState, NEW u, NEW v,
         SndHolder(u) <=> SndHolder(v), RcvHolder(u) <=> RcvHolder(v)
  PROVE  SndSum(p, u) = SndSum(p, v) /\ RcvSum(p, u) = RcvSum(p, v)
  BY DEF SndSum, RcvSum, One

\* The start of a read or a write of a user preserves the invariant.
LEMMA StartKeeps ==
  ASSUME SerialInv, NEW t \in User, NEW n \in Nat,
         _serial_wri_dat(t, n) \/ _serial_rea_dat(t, n)
  PROVE  SerialInv'
<1>1. PICK v \in {[Idle EXCEPT !.at = "wai_snd", !.call = "wri", !.left = n],
                  [Idle EXCEPT !.at = "wai_rcv", !.call = "rea", !.left = n]} :
        usr' = [usr EXCEPT ![t] = v]
  BY DEF _serial_wri_dat, _serial_rea_dat
<1>2. usr[t] = Idle /\ port.openflag /\ port' = port
  BY DEF _serial_wri_dat, _serial_rea_dat, CanStart
<1>3. UserOK(v) /\ ~SndHolder(v) /\ ~RcvHolder(v)
  <2>1. v \in {[at |-> "wai_snd", call |-> "wri", left |-> n, empty |-> TRUE, cr |-> FALSE],
               [at |-> "wai_rcv", call |-> "rea", left |-> n, empty |-> TRUE, cr |-> FALSE]}
    BY DEF Idle
  <2>2. CASE v = [at |-> "wai_snd", call |-> "wri", left |-> n, empty |-> TRUE, cr |-> FALSE]
    BY <2>2 DEF UserOK, UserState, SndHolder, RcvHolder
  <2>3. CASE v = [at |-> "wai_rcv", call |-> "rea", left |-> n, empty |-> TRUE, cr |-> FALSE]
    BY <2>3 DEF UserOK, UserState, SndHolder, RcvHolder
  <2>. QED BY <2>1, <2>2, <2>3
<1>4. ~SndHolder(usr[t]) /\ ~RcvHolder(usr[t])
  BY <1>2 DEF Idle, SndHolder, RcvHolder
<1>5. GoodPort(port') /\ port \in PortState
  BY <1>2, OpenState
<1>6. SndSum(port', v) = SndSum(port, usr[t]) /\ RcvSum(port', v) = RcvSum(port, usr[t])
  BY <1>2, <1>3, <1>4, <1>5, SameSums
<1>. QED BY <1>1, <1>2, <1>3, <1>5, <1>6, UserStep

\* A task takes a unit from a semaphore.
LEMMA TakeKeeps ==
  ASSUME SerialInv, NEW t \in User, wai_snd(t) \/ wai_rcv(t)
  PROVE  SerialInv'
<1>1. /\ port \in PortState /\ GoodPort(port) /\ port.openflag /\ usr[t] \in UserState
      /\ usr[t].at = "wai_rcv" => usr[t].call = "rea"
  BY OpenState DEF wai_snd, wai_rcv, UserOK
<1>2. CASE wai_snd(t)
  <2> DEFINE v == [usr[t] EXCEPT !.at = "put"]
  <2>1. port' = [port EXCEPT !.snd_sem = 0] /\ usr' = [usr EXCEPT ![t] = v] /\ port.snd_sem = 1
    BY <1>2 DEF wai_snd
  <2>2. /\ port' \in PortState /\ GoodPort(port') /\ port'.snd_sem = 0
        /\ port'.rcv_sem = port.rcv_sem /\ SndFull(port') = SndFull(port)
        /\ RcvEmpty(port') = RcvEmpty(port) /\ port'.rcv_lost = port.rcv_lost
    BY <1>1, <2>1 DEF PortState, GoodPort, SndFull, RcvEmpty
  <2>3. /\ v \in UserState /\ v.at = "put" /\ v.call = usr[t].call /\ v.empty = usr[t].empty
    BY <1>1 DEF UserState
  <2>4. usr[t].at = "wai_snd"
    BY <1>2 DEF wai_snd
  <2> HIDE DEF v
  <2>5. /\ UserOK(v) /\ SndHolder(v) /\ ~SndHolder(usr[t])
        /\ RcvHolder(v) <=> RcvHolder(usr[t])
    BY <2>3, <2>4 DEF UserOK, SndHolder, RcvHolder
  <2>6. SndSum(port', v) = SndSum(port, usr[t]) /\ RcvSum(port', v) = RcvSum(port, usr[t])
    BY <1>1, <2>1, <2>2, <2>5 DEF SndSum, RcvSum, One
  <2>. QED BY <1>1, <2>1, <2>2, <2>5, <2>6, UserStep
<1>3. CASE wai_rcv(t)
  <2> DEFINE v == [usr[t] EXCEPT !.at = "get"]
  <2>1. port' = [port EXCEPT !.rcv_sem = 0] /\ usr' = [usr EXCEPT ![t] = v] /\ port.rcv_sem = 1
    BY <1>3 DEF wai_rcv
  <2>2. /\ port' \in PortState /\ GoodPort(port') /\ port'.rcv_sem = 0
        /\ port'.snd_sem = port.snd_sem /\ SndFull(port') = SndFull(port)
        /\ RcvEmpty(port') = RcvEmpty(port) /\ port'.rcv_lost = port.rcv_lost
    BY <1>1, <2>1 DEF PortState, GoodPort, SndFull, RcvEmpty
  <2>3. v \in UserState /\ v.at = "get" /\ v.call = "rea"
    BY <1>1, <1>3 DEF UserState, wai_rcv
  <2>4. usr[t].at = "wai_rcv"
    BY <1>3 DEF wai_rcv
  <2> HIDE DEF v
  <2>5. /\ UserOK(v) /\ RcvHolder(v) /\ ~RcvHolder(usr[t])
        /\ ~SndHolder(v) /\ ~SndHolder(usr[t])
    BY <2>3, <2>4 DEF UserOK, SndHolder, RcvHolder
  <2>6. SndSum(port', v) = SndSum(port, usr[t]) /\ RcvSum(port', v) = RcvSum(port, usr[t])
    BY <1>1, <2>1, <2>2, <2>5 DEF SndSum, RcvSum, One
  <2>. QED BY <1>1, <2>1, <2>2, <2>5, <2>6, UserStep
<1>. QED BY <1>2, <1>3

\* A task puts a character, or its CR, and goes on with the unit or without it.
LEMMA WriteKeeps ==
  ASSUME SerialInv, NEW t \in User, serial_wri_chr(t)
  PROVE  SerialInv'
<1> DEFINE u == usr[t]
<1>1. u.at = "put" /\ u \in UserState /\ GoodPort(port) /\ port.openflag /\ port \in PortState
  BY OpenState DEF serial_wri_chr, UserOK
<1>2. port.snd_sem = 0 /\ ~SndFull(port) /\ SndHolder(u)
  BY <1>1, OpenState DEF SndHolder
<1>3. PICK c \in Char,
             v \in {[u EXCEPT !.cr = TRUE, !.at = IF SndFull(port') THEN "wai_snd" ELSE "put"],
                    WriteOn([u EXCEPT !.cr = FALSE], SndFull(port'))} :
        port' = PutChr(port, c) /\ usr' = [usr EXCEPT ![t] = v]
  <2>1. PICK c \in IF u.cr THEN {"LF"} ELSE IF u.call = "rea" THEN EchoChars ELSE Chars(t) :
          LET first == c = "LF" /\ "CRLF" \in port.ioctl /\ ~u.cr
          IN /\ port' = PutChr(port, IF first THEN "CR" ELSE c)
             /\ usr' = [usr EXCEPT ![t] =
                  IF first
                  THEN [u EXCEPT !.cr = TRUE, !.at = IF SndFull(port') THEN "wai_snd" ELSE "put"]
                  ELSE WriteOn([u EXCEPT !.cr = FALSE], SndFull(port'))]
    BY DEF serial_wri_chr
  <2>2. c \in Char /\ "CR" \in Char
    BY DEF Char, Chars, EchoChars
  <2>. QED BY <2>1, <2>2
<1>4. /\ GoodPort(port') /\ port'.snd_sem = 0 /\ port'.rcv_sem = port.rcv_sem
      /\ RcvEmpty(port') = RcvEmpty(port) /\ port'.rcv_lost = port.rcv_lost
  BY <1>1, <1>2, <1>3, PutChrType DEF RcvEmpty
<1>5. UserOK(v) /\ (SndHolder(v) <=> ~SndFull(port')) /\ (RcvHolder(v) <=> RcvHolder(u))
  <2> DEFINE full == SndFull(port')
             w == [u EXCEPT !.cr = FALSE]
  <2>1. w \in UserState /\ w.call = u.call /\ w.empty = u.empty /\ w.at = "put"
    BY <1>1 DEF UserState
  <2>2. RcvHolder(u) <=> u.call = "rea" /\ ~u.empty
    BY <1>1 DEF RcvHolder
  <2>3. CASE v = [u EXCEPT !.cr = TRUE, !.at = IF full THEN "wai_snd" ELSE "put"]
    <3>1. /\ v \in UserState /\ v.at = (IF full THEN "wai_snd" ELSE "put")
          /\ v.call = u.call /\ v.empty = u.empty
      BY <1>1, <2>3 DEF UserState
    <3>. QED BY <2>2, <3>1 DEF UserOK, SndHolder, RcvHolder
  <2>4. CASE v = WriteOn(w, full)
    <3>1. CASE u.call = "rea" /\ full
      <4>1. v = ReadOn(w)
        BY <2>1, <2>4, <3>1 DEF WriteOn
      <4> HIDE DEF w
      <4>. QED BY <2>1, <2>2, <3>1, <4>1, ReadOnType
    <3>2. CASE u.call = "rea" /\ ~full
      <4>1. v = [w EXCEPT !.at = "sig_snd"]
        BY <2>1, <2>4, <3>2 DEF WriteOn
      <4>2. /\ v \in UserState /\ v.at = "sig_snd" /\ v.call = "rea" /\ v.empty = u.empty
        <5> HIDE DEF w
        <5>. QED BY <2>1, <3>2, <4>1 DEF UserState
      <4>. QED BY <2>2, <3>2, <4>2 DEF UserOK, SndHolder, RcvHolder
    <3>3. CASE u.call # "rea" /\ w.left > 1
      <4>1. v = [w EXCEPT !.at = IF full THEN "wai_snd" ELSE "put", !.left = @ - 1]
        BY <2>1, <2>4, <3>3 DEF WriteOn
      <4>2. /\ v \in UserState /\ v.at = (IF full THEN "wai_snd" ELSE "put")
            /\ v.call = u.call
        <5> HIDE DEF w
        <5>1. w.left - 1 \in Int
          BY <2>1 DEF UserState
        <5> DEFINE at == IF full THEN "wai_snd" ELSE "put"
        <5>2. at \in {"wai_snd", "put"} /\ v = [w EXCEPT !.at = at, !.left = w.left - 1]
          BY <4>1
        <5> HIDE DEF at, full
        <5>3. v \in UserState /\ v.at = at /\ v.call = w.call
          BY <2>1, <5>1, <5>2 DEF UserState
        <5>. QED BY <2>1, <5>3 DEF at
      <4>. QED BY <2>2, <3>3, <4>2 DEF UserOK, SndHolder, RcvHolder
    <3>4. CASE u.call # "rea" /\ ~(w.left > 1) /\ full
      <4>1. v = Idle
        BY <2>1, <2>4, <3>4 DEF WriteOn
      <4>. QED BY <2>2, <3>4, <4>1 DEF UserOK, UserState, Idle, SndHolder, RcvHolder
    <3>5. CASE u.call # "rea" /\ ~(w.left > 1) /\ ~full
      <4>1. v = [w EXCEPT !.at = "sig_snd", !.left = 0]
        BY <2>1, <2>4, <3>5 DEF WriteOn
      <4>2. v \in UserState /\ v.at = "sig_snd" /\ v.call = u.call
        <5> HIDE DEF w, full
        <5> DEFINE none == 0
        <5>1. none \in Int /\ v = [w EXCEPT !.at = "sig_snd", !.left = none]
          BY <4>1
        <5> HIDE DEF none
        <5>. QED BY <2>1, <5>1 DEF UserState
      <4>. QED BY <2>2, <3>5, <4>2 DEF UserOK, SndHolder, RcvHolder
    <3>. QED BY <3>1, <3>2, <3>3, <3>4, <3>5
  <2>. QED BY <1>3, <2>3, <2>4
<1>6. port'.rcv_sem \in {0, 1}
  BY <1>4 DEF GoodPort, PortState
<1>7. SndSum(port', v) = SndSum(port, u) /\ RcvSum(port', v) = RcvSum(port, u)
  BY <1>2, <1>4, <1>5, <1>6 DEF SndSum, RcvSum, One
<1>. QED BY <1>1, <1>3, <1>4, <1>5, <1>7, UserStep

\* A task gives a unit back.
LEMMA GiveKeeps ==
  ASSUME SerialInv, NEW t \in User, sig_snd(t) \/ sig_rcv(t)
  PROVE  SerialInv'
<1> DEFINE u == usr[t]
<1>1. /\ port \in PortState /\ GoodPort(port) /\ port.openflag /\ u \in UserState
      /\ u.at = "sig_rcv" => u.call = "rea"
  BY OpenState DEF sig_snd, sig_rcv, UserOK
<1>2. CASE sig_snd(t)
  <2> DEFINE v == IF u.call = "rea" THEN ReadOn(u) ELSE Idle
  <2>1. u.at = "sig_snd" /\ SndHolder(u) /\ (RcvHolder(u) <=> u.call = "rea" /\ ~u.empty)
    BY <1>2 DEF sig_snd, SndHolder, RcvHolder
  <2>2. port.snd_sem = 0 /\ ~SndFull(port)
    BY <1>1, <2>1, OpenState
  <2>3. port' = [port EXCEPT !.snd_sem = 1] /\ usr' = [usr EXCEPT ![t] = v]
    BY <1>1, <1>2, <2>2, SignalType DEF sig_snd
  <2>4. /\ port' \in PortState /\ GoodPort(port') /\ port'.snd_sem = 1
        /\ port'.rcv_sem = port.rcv_sem /\ SndFull(port') = SndFull(port)
        /\ RcvEmpty(port') = RcvEmpty(port) /\ port'.rcv_lost = port.rcv_lost
    BY <1>1, <2>3 DEF PortState, GoodPort, SndFull, RcvEmpty
  <2>5. UserOK(v) /\ ~SndHolder(v) /\ (RcvHolder(v) <=> RcvHolder(u))
    <3>1. CASE u.call = "rea"
      BY <1>1, <2>1, <3>1, ReadOnType
    <3>2. CASE u.call # "rea"
      BY <2>1, <3>2 DEF UserOK, UserState, Idle, SndHolder, RcvHolder
    <3>. QED BY <3>1, <3>2
  <2> HIDE DEF v
  <2>6. SndSum(port', v) = SndSum(port, u) /\ RcvSum(port', v) = RcvSum(port, u)
    BY <1>1, <2>1, <2>2, <2>4, <2>5 DEF SndSum, RcvSum, One
  <2>. QED BY <1>1, <2>3, <2>4, <2>5, <2>6, UserStep
<1>3. CASE sig_rcv(t)
  <2>1. RcvHolder(u) /\ ~SndHolder(u)
    BY <1>3 DEF sig_rcv, SndHolder, RcvHolder
  <2>2. port.rcv_sem = 0 /\ ~RcvEmpty(port)
    BY <1>1, <2>1, OpenState
  <2>3. port' = [port EXCEPT !.rcv_sem = 1] /\ usr' = [usr EXCEPT ![t] = Idle]
    BY <1>1, <1>3, <2>2, SignalType DEF sig_rcv
  <2>4. /\ port' \in PortState /\ GoodPort(port') /\ port'.rcv_sem = 1
        /\ port'.snd_sem = port.snd_sem /\ SndFull(port') = SndFull(port)
        /\ RcvEmpty(port') = RcvEmpty(port) /\ port'.rcv_lost = port.rcv_lost
    BY <1>1, <2>3 DEF PortState, GoodPort, SndFull, RcvEmpty
  <2>5. UserOK(Idle) /\ ~SndHolder(Idle) /\ ~RcvHolder(Idle)
    BY DEF UserOK, UserState, Idle, SndHolder, RcvHolder
  <2>6. SndSum(port', Idle) = SndSum(port, u) /\ RcvSum(port', Idle) = RcvSum(port, u)
    BY <1>1, <2>1, <2>2, <2>4, <2>5 DEF SndSum, RcvSum, One
  <2>. QED BY <1>1, <2>3, <2>4, <2>5, <2>6, UserStep
<1>. QED BY <1>2, <1>3

\* A reader takes a character; the unit goes with the last one.
LEMMA ReadCharKeeps ==
  ASSUME SerialInv, NEW t \in User, serial_rea_chr(t)
  PROVE  SerialInv'
<1> DEFINE u == usr[t]
           p == [port EXCEPT !.rcv_count = @ - 1]
           w == [u EXCEPT !.left = @ - 1, !.empty = p.rcv_count = 0]
           v == IF "ECHO" \in port.ioctl THEN [w EXCEPT !.at = "wai_snd"] ELSE ReadOn(w)
           f == SendFlow(p, START)
<1>1. /\ u.at = "get" /\ u \in UserState /\ u.call = "rea" /\ GoodPort(port)
      /\ port.openflag /\ port \in PortState
  BY OpenState DEF serial_rea_chr, UserOK
<1>2. /\ port.rcv_sem = 0 /\ ~RcvEmpty(port) /\ RcvHolder(u) /\ ~SndHolder(u)
  BY <1>1, OpenState DEF RcvHolder, SndHolder
<1>3. /\ usr' = [usr EXCEPT ![t] = v]
      /\ port' \in {p, [f EXCEPT !.rcv_stopped = FALSE]}
  BY DEF serial_rea_chr
<1>4. p \in PortState /\ SameBuffers([port EXCEPT !.rcv_count = p.rcv_count], p)
  <2>1. port.rcv_count - 1 \in Nat
    BY <1>1, <1>2 DEF PortState, RcvEmpty
  <2>. QED BY <1>1, <2>1 DEF PortState, SameBuffers
<1>5. /\ p.openflag = port.openflag /\ p.errorflag = port.errorflag /\ p.snd = port.snd
      /\ p.snd_sem = port.snd_sem /\ p.rcv_sem = port.rcv_sem /\ p.rcv_lost = port.rcv_lost
  BY <1>1 DEF PortState
<1>6. w \in UserState /\ w.call = "rea" /\ w.at = "get" /\ (w.empty <=> p.rcv_count = 0)
  <2> DEFINE left == u.left - 1
             empty == p.rcv_count = 0
  <2>1. left \in Int /\ empty \in BOOLEAN
    BY <1>1 DEF UserState
  <2>2. w = [u EXCEPT !.left = left, !.empty = empty]
    OBVIOUS
  <2> HIDE DEF left, empty, w
  <2>3. w \in UserState /\ w.call = u.call /\ w.at = u.at /\ w.empty = empty
    BY <1>1, <2>1, <2>2 DEF UserState
  <2>. QED BY <1>1, <2>3 DEF empty
<1> HIDE DEF p, w
<1>7. /\ port' \in PortState /\ SameBuffers(p, port')
  <2>1. f \in PortState /\ SameBuffers(p, f)
    BY <1>4, SendFlowType DEF Flow
  <2> HIDE DEF f
  <2>2. /\ [f EXCEPT !.rcv_stopped = FALSE] \in PortState
        /\ SameBuffers(p, [f EXCEPT !.rcv_stopped = FALSE])
    BY <2>1 DEF PortState, SameBuffers
  <2>. QED BY <1>3, <1>4, <2>2 DEF SameBuffers
<1>8. /\ GoodPort(port') /\ port'.snd_sem = port.snd_sem /\ port'.rcv_sem = 0
      /\ SndFull(port') = SndFull(port) /\ (RcvEmpty(port') <=> w.empty)
      /\ port'.rcv_lost = port.rcv_lost
  BY <1>1, <1>2, <1>5, <1>6, <1>7 DEF GoodPort, SameBuffers, SndFull, RcvEmpty
<1>9. UserOK(v) /\ ~SndHolder(v) /\ (RcvHolder(v) <=> ~w.empty)
  <2>1. CASE v = [w EXCEPT !.at = "wai_snd"]
    <3>1. v \in UserState /\ v.at = "wai_snd" /\ v.call = "rea" /\ v.empty = w.empty
      BY <1>6, <2>1 DEF UserState
    <3> HIDE DEF v
    <3>. QED BY <3>1 DEF UserOK, SndHolder, RcvHolder
  <2>2. CASE v = ReadOn(w)
    BY <1>6, <2>2, ReadOnType
  <2>. QED BY <2>1, <2>2
<1> HIDE DEF v
<1>10. SndSum(port', v) = SndSum(port, u) /\ RcvSum(port', v) = RcvSum(port, u)
  BY <1>1, <1>2, <1>8, <1>9 DEF SndSum, RcvSum, One, PortState
<1>. QED BY <1>1, <1>3, <1>8, <1>9, <1>10, UserStep

\* A released task held no unit, or loses the receive unit.
LEMMA ReleaseKeeps ==
  ASSUME SerialInv, NEW t \in User, rel_wai(t)
  PROVE  SerialInv'
<1> DEFINE u == usr[t]
           loses == u.at = "wai_snd" /\ u.call = "rea" /\ ~u.empty
<1>1. /\ u.at \in {"wai_snd", "wai_rcv"} /\ usr' = [usr EXCEPT ![t] = Idle]
      /\ port' = IF loses THEN [port EXCEPT !.rcv_lost = TRUE] ELSE port
  BY DEF rel_wai, Waits
<1>2. port \in PortState /\ port.openflag /\ GoodPort(port)
  BY <1>1, OpenState
<1>3. /\ UserOK(Idle) /\ ~SndHolder(Idle) /\ ~RcvHolder(Idle) /\ ~SndHolder(u)
      /\ RcvHolder(u) <=> loses
  BY <1>1 DEF UserOK, UserState, Idle, SndHolder, RcvHolder
<1>4. CASE ~loses
  <2>1. SndSum(port', Idle) = SndSum(port, u) /\ RcvSum(port', Idle) = RcvSum(port, u)
    BY <1>1, <1>2, <1>3, <1>4, SameSums
  <2>. QED BY <1>1, <1>2, <1>3, <1>4, <2>1, UserStep
<1>5. CASE loses
  <2> HIDE DEF loses
  <2>1. ~port.rcv_lost
    BY <1>2, <1>3, <1>5, OpenState
  <2>2. port' = [port EXCEPT !.rcv_lost = TRUE]
    BY <1>1, <1>5
  <2>3. /\ port' \in PortState /\ GoodPort(port') /\ port'.rcv_lost
        /\ port'.snd_sem = port.snd_sem /\ port'.rcv_sem = port.rcv_sem
        /\ SndFull(port') = SndFull(port) /\ RcvEmpty(port') = RcvEmpty(port)
    BY <1>2, <2>2 DEF PortState, GoodPort, SndFull, RcvEmpty
  <2>4. SndSum(port', Idle) = SndSum(port, u) /\ RcvSum(port', Idle) = RcvSum(port, u)
    BY <1>2, <1>3, <1>5, <2>1, <2>3 DEF SndSum, RcvSum, One, PortState
  <2>. QED BY <1>1, <1>2, <1>3, <2>3, <2>4, UserStep
<1>. QED BY <1>4, <1>5

\* serial_opn_por preserves the invariant.
LEMMA OpenKeeps ==
  ASSUME SerialInv, _serial_opn_por
  PROVE  SerialInv'
<1>1. /\ port \in PortState /\ port.snd_sem = 1 /\ port.rcv_sem = 0 /\ ~port.rcv_lost
      /\ \A t \in User : usr[t] = Idle
  BY DEF SerialInv, SerialTypeOK, ClosedOK, _serial_opn_por
<1>2. /\ port' \in PortState /\ port'.openflag /\ ~port'.errorflag /\ port'.snd = << >>
      /\ port'.snd_sem = 1 /\ port'.rcv_sem = 0 /\ port'.rcv_count = 0 /\ ~port'.rcv_lost
      /\ usr' = usr
  <2> DEFINE none == 0
             empty == << >>
             all == {"ECHO", "CRLF", "FCSND", "FCRCV"}
  <2>1. none \in Nat /\ empty \in Seq(Char) /\ all \in SUBSET Setting
    BY DEF Setting
  <2>2. port' = [port EXCEPT !.openflag = TRUE, !.errorflag = FALSE, !.ioctl = all,
                  !.rcv_count = none, !.rcv_fc_chr = NONE, !.rcv_stopped = FALSE,
                  !.snd = empty, !.snd_stopped = FALSE, !.lastfc = START]
    BY DEF _serial_opn_por
  <2>3. START \in Flow
    BY DEF Flow
  <2> HIDE DEF none, empty, all
  <2>4. /\ port' \in PortState /\ port'.openflag /\ ~port'.errorflag /\ port'.snd = empty
        /\ port'.snd_sem = port.snd_sem /\ port'.rcv_sem = port.rcv_sem
        /\ port'.rcv_count = none /\ port'.rcv_lost = port.rcv_lost
    BY <1>1, <2>1, <2>2, <2>3 DEF PortState
  <2>. QED BY <1>1, <2>4 DEF _serial_opn_por, none, empty
<1>3. ~SndFull(port') /\ RcvEmpty(port') /\ Len(port'.snd) <= SndBufSz
  BY <1>2, SerialPortAssumption DEF SndFull, RcvEmpty
<1>4. SndUnit' /\ RcvUnit'
  BY <1>1, <1>2, <1>3 DEF SndUnit, RcvUnit, UnitOK, SndHolder, RcvHolder, Idle
<1>. QED BY <1>2, <1>3, <1>4 DEF SerialInv, SerialTypeOK, UsrIsFunction, OpenOK

\* Nobody is inside a call when the port is closed: cls_busy is left out.
LEMMA CloseKeeps ==
  ASSUME SerialInv, "cls_busy" \notin PortApi, _serial_cls_por
  PROVE  SerialInv'
<1>1. port \in PortState /\ \A t \in User : usr[t] = Idle \/ Waits(t)
  BY DEF SerialInv, SerialTypeOK, _serial_cls_por
<1>2. usr' = [t \in User |-> Idle]
  BY <1>1 DEF _serial_cls_por
<1>3. /\ port' \in PortState /\ ~port'.openflag /\ port'.snd_sem = 1 /\ port'.rcv_sem = 0
      /\ ~port'.txen /\ ~port'.rcv_lost
  BY <1>1 DEF _serial_cls_por, PortState
<1>4. UserOK(Idle)
  BY DEF UserOK, UserState, Idle
<1>. QED BY <1>2, <1>3, <1>4 DEF SerialInv, SerialTypeOK, UsrIsFunction, ClosedOK, UserOK

\* The line, the settings and the interrupt handlers.
LEMMA TransmitKeeps ==
  ASSUME SerialInv, Transmit \/ _serial_ctl_por
  PROVE  SerialInv'
<1>1. /\ port' \in PortState /\ SameBuffers(port, port') /\ usr' = usr /\ port'.txen = port.txen
  <2>1. port \in PortState
    BY OpenState
  <2>2. CASE Transmit
    BY <2>1, <2>2 DEF Transmit, PortState, SameBuffers
  <2>3. CASE _serial_ctl_por
    <3>1. PICK f \in IoctlSet : port' = [port EXCEPT !.ioctl = f] /\ usr' = usr
      BY <2>3 DEF _serial_ctl_por
    <3>2. f \in SUBSET Setting
      BY SerialPortAssumption DEF Setting
    <3>. QED BY <2>1, <3>1, <3>2 DEF PortState, SameBuffers
  <2>. QED BY <2>2, <2>3
<1>. QED BY <1>1 DEF SerialInv, SerialTypeOK, UsrIsFunction, OpenOK, ClosedOK, SndUnit,
                     RcvUnit, UnitOK, SameBuffers, SndFull, RcvEmpty

\* The invariant of an open port whose units neither move nor change.
LEMMA InterruptKeeps ==
  ASSUME SerialInv, sio_isr_txi \/ \E c \in Flow \union {"data"} : sio_isr_rxi(c)
  PROVE  SerialInv'
<1>1. port \in PortState
  BY OpenState
<1>2. CASE sio_isr_txi
  <2> DEFINE p == [port EXCEPT !.txreq = FALSE]
  <2>1. p \in PortState /\ SameBuffers(port, p)
    BY <1>1 DEF PortState, SameBuffers
  <2>2. port.openflag
    BY <1>2 DEF sio_isr_txi, SerialInv, ClosedOK
  <2>3. usr' = usr /\ (port' = sio_irdy_snd(p) \/ port' = p)
    BY <1>2 DEF sio_isr_txi
  <2> HIDE DEF p
  <2>4. CASE port' \in PortState /\ SameBuffers(port, port')
    BY <2>3, <2>4, <2>2, OpenState, PortStep DEF GoodPort, SameBuffers, SndFull, RcvEmpty
  <2>5. CASE port' = p
    BY <2>1, <2>4, <2>5
  <2>6. CASE port' = [sio_snd_chr(p, p.rcv_fc_chr) EXCEPT !.rcv_fc_chr = NONE] /\ p.rcv_fc_chr # NONE
    <3> DEFINE q == sio_snd_chr(p, p.rcv_fc_chr)
    <3>1. q \in PortState /\ SameBuffers(p, q)
      <4>1. p.rcv_fc_chr \in Flow
        BY <2>1, <2>6 DEF PortState
      <4>. QED BY <2>1, <4>1, SndChrType
    <3> HIDE DEF q
    <3>2. [q EXCEPT !.rcv_fc_chr = NONE] \in PortState /\ SameBuffers(q, [q EXCEPT !.rcv_fc_chr = NONE])
      BY <3>1 DEF PortState, SameBuffers
    <3>3. port' = [q EXCEPT !.rcv_fc_chr = NONE]
      BY <2>6 DEF q
    <3>. QED BY <2>1, <2>4, <3>1, <3>2, <3>3 DEF SameBuffers
  <2>7. CASE port' = sio_dis_cbr(p)
    BY <2>1, <2>4, <2>7, CallbackType DEF SameBuffers
  <2>8. CASE port' = DrainChr(p) /\ p.snd # << >>
    <3>1. GoodPort(p) /\ (SndFull(p) => p.snd_sem = 0) /\ SndFull(p) = SndFull(port)
      BY <2>1, <2>2, OpenState DEF GoodPort, SameBuffers, SndFull
    <3>2. /\ GoodPort(port')
          /\ port'.snd_sem + One(SndFull(port')) = p.snd_sem + One(SndFull(p))
          /\ port'.rcv_sem = p.rcv_sem /\ port'.rcv_count = p.rcv_count
          /\ port'.rcv_lost = p.rcv_lost
      BY <2>8, <3>1, DrainChrType
    <3>. QED BY <2>1, <2>3, <2>2, <3>1, <3>2, PortStep DEF SameBuffers, RcvEmpty
  <2>. QED BY <2>3, <2>5, <2>6, <2>7, <2>8 DEF sio_irdy_snd
<1>3. ASSUME NEW c \in Flow \union {"data"}, sio_isr_rxi(c) PROVE SerialInv'
  <2>1. port.openflag /\ usr' = usr /\ port' \in sio_irdy_rcv(port, c)
    BY <1>3 DEF sio_isr_rxi
  <2>2. /\ GoodPort(port) /\ (SndFull(port) => port.snd_sem = 0)
        /\ RcvEmpty(port) => port.rcv_sem = 0
    BY <2>1, OpenState
  <2>3. CASE port' = [port EXCEPT !.snd_stopped = TRUE]
    <3>1. port' \in PortState /\ SameBuffers(port, port')
      BY <1>1, <2>3 DEF PortState, SameBuffers
    <3>. QED BY <2>1, <2>2, <3>1, PortStep DEF GoodPort, SameBuffers, SndFull, RcvEmpty
  <2>4. CASE port' \in ResumeSending(port)
    BY <2>1, <2>2, <2>4, ResumedType, PortStep DEF RcvEmpty
  <2>5. CASE port' = port
    BY <2>1, <2>2, <2>5, PortStep
  <2>6. CASE port' = StoreChr(port)
    BY <2>1, <2>2, <2>6, StoreChrType, PortStep DEF SndFull
  <2>. QED BY <2>1, <2>3, <2>4, <2>5, <2>6 DEF sio_irdy_rcv
<1>. QED BY <1>2, <1>3

-----------------------------------------------------------------------------
\* The invariant of the driver holds at the start.
LEMMA SerialInvInit == SerialInit => SerialInv
<1> SUFFICES ASSUME SerialInit PROVE SerialInv
  OBVIOUS
<1>1. port = ClosedPort /\ usr = [t \in User |-> Idle]
  BY DEF SerialInit
<1>2. port \in PortState
  <2> DEFINE none == 0
             empty == << >>
             noset == {}
  <2>1. none \in Nat /\ empty \in Seq(Char) /\ noset \in SUBSET Setting
    OBVIOUS
  <2>2. port = [openflag |-> FALSE, errorflag |-> FALSE, ioctl |-> noset,
          rcv_count |-> none, rcv_fc_chr |-> NONE, rcv_stopped |-> FALSE,
          snd |-> empty, snd_stopped |-> FALSE, snd_sem |-> 1, rcv_sem |-> 0,
          tdr |-> NONE, txen |-> FALSE, txreq |-> TRUE, lastfc |-> START,
          rcv_lost |-> FALSE]
    BY <1>1 DEF ClosedPort
  <2> HIDE DEF none, empty, noset
  <2>. QED BY <2>1, <2>2 DEF PortState, Flow
<1>3. UserOK(Idle)
  BY DEF UserOK, UserState, Idle
<1>. QED BY <1>1, <1>2, <1>3 DEF SerialInv, SerialTypeOK, UsrIsFunction, ClosedOK, ClosedPort, UserOK

\* Every step preserves the invariant of the driver.
LEMMA SerialInvNext ==
  ASSUME "cls_busy" \notin PortApi, SerialInv, [SerialNext]_serialvars
  PROVE  SerialInv'
<1>1. CASE PortNext
  BY <1>1, OpenKeeps, CloseKeeps, TransmitKeeps, InterruptKeeps DEF PortNext
<1>2. ASSUME NEW c \in Flow \union {"data"}, sio_isr_rxi(c) PROVE SerialInv'
  BY <1>2, InterruptKeeps
<1>3. ASSUME NEW t \in User, GoOn(t) PROVE SerialInv'
  BY <1>3, TakeKeeps, WriteKeeps, GiveKeeps, ReadCharKeeps, ReleaseKeeps DEF GoOn
<1>4. ASSUME NEW t \in User, NEW n \in 1..MaxLen,
             _serial_wri_dat(t, n) \/ _serial_rea_dat(t, n)
      PROVE  SerialInv'
  BY <1>4, StartKeeps
<1>5. CASE UNCHANGED serialvars
  BY <1>5 DEF serialvars, SerialInv, SerialTypeOK, UsrIsFunction, OpenOK, ClosedOK, SndUnit,
              RcvUnit, SndFull, RcvEmpty
<1>. QED BY <1>1, <1>2, <1>3, <1>4, <1>5 DEF SerialNext

\* The invariant implies that the semaphores count the buffers.
LEMMA InvGivesTokens == SerialInv => TokensExact
<1> SUFFICES ASSUME SerialInv, port.openflag PROVE TokensExact
  BY DEF TokensExact
<1>1. OpenOK /\ port \in PortState
  BY DEF SerialInv, SerialTypeOK
<1>2. port.snd_sem + Cardinality({t \in User : HoldsSnd(t)})
        + (IF SndFull(port) THEN 1 ELSE 0) = 1
  <2> DEFINE S == {t \in User : HoldsSnd(t)}
  <2>1. CASE S = {}
    <3>1. Cardinality(S) = 0
      BY <2>1, FS_EmptySet
    <3>2. ~\E t \in User : SndHolder(usr[t])
      BY <2>1 DEF HoldsSnd, SndHolder
    <3>. QED BY <1>1, <3>1, <3>2 DEF OpenOK, SndUnit, UnitOK
  <2>2. CASE S # {}
    <3>1. PICK t \in User : HoldsSnd(t)
      BY <2>2
    <3>2. S = {t}
      BY <1>1, <3>1 DEF OpenOK, SndUnit, HoldsSnd, SndHolder
    <3>3. Cardinality(S) = 1
      BY <3>2, FS_Singleton
    <3>4. port.snd_sem = 0 /\ ~SndFull(port)
      BY <1>1, <3>1 DEF OpenOK, SndUnit, UnitOK, HoldsSnd, SndHolder
    <3>. QED BY <3>3, <3>4
  <2>. QED BY <2>1, <2>2
<1>3. port.rcv_sem + Cardinality({t \in User : HoldsRcv(t)})
        + (IF port.rcv_count = 0 THEN 1 ELSE 0) + (IF port.rcv_lost THEN 1 ELSE 0) = 1
  <2> DEFINE S == {t \in User : HoldsRcv(t)}
  <2>1. CASE S = {}
    <3>1. Cardinality(S) = 0
      BY <2>1, FS_EmptySet
    <3>2. ~\E t \in User : RcvHolder(usr[t])
      BY <2>1 DEF HoldsRcv, RcvHolder
    <3>. QED BY <1>1, <3>1, <3>2 DEF OpenOK, RcvUnit, UnitOK, RcvEmpty
  <2>2. CASE S # {}
    <3>1. PICK t \in User : HoldsRcv(t)
      BY <2>2
    <3>2. S = {t}
      BY <1>1, <3>1 DEF OpenOK, RcvUnit, HoldsRcv, RcvHolder
    <3>3. Cardinality(S) = 1
      BY <3>2, FS_Singleton
    <3>4. port.rcv_sem = 0 /\ ~(port.rcv_count = 0) /\ ~port.rcv_lost
      BY <1>1, <3>1 DEF OpenOK, RcvUnit, UnitOK, HoldsRcv, RcvHolder, RcvEmpty
    <3>. QED BY <3>3, <3>4
  <2>. QED BY <2>1, <2>2
<1>. QED BY <1>1, <1>2, <1>3 DEF TokensExact, OpenOK

\* Each buffer's unit is in one place, for any number of tasks, as long as the port
\* is not closed under a running call; the one way to lose it is the release of a
\* reader that waits to echo, which takes the receive unit until the port is closed.
THEOREM TokensCorrect ==
  ASSUME "cls_busy" \notin PortApi
  PROVE  SerialSpec => []TokensExact
<1>1. SerialInv /\ [SerialNext]_serialvars => SerialInv'
  BY SerialInvNext
<1>. QED BY <1>1, SerialInvInit, InvGivesTokens, PTL DEF SerialSpec

-----------------------------------------------------------------------------
(* Whatever waits to be sent has a send interrupt to come. *)

WillSend(p) ==
  (p.openflag /\ (p.rcv_fc_chr # NONE \/ (p.snd # << >> /\ ~p.snd_stopped)))
    => p.txen /\ (p.txreq \/ ~TDRE(p))

\* No character is the mark of its absence.
LEMMA CharIsNotNone == \A c \in Char \union Flow : c # NONE
  BY SerialPortAssumption DEF Char, Flow, STOP, START, NONE

\* A character that goes to the transmitter leaves it busy.
LEMMA SndChrWillSend ==
  ASSUME NEW p \in PortState, WillSend(p), NEW c \in Char \union Flow
  PROVE  /\ WillSend(sio_snd_chr(p, c)) /\ WillSend(serial_snd_chr(p, c))
         /\ ~TDRE(serial_snd_chr(p, c)) /\ ~TDRE(sio_snd_chr(p, c))
         /\ ~TDRE(p) => serial_snd_chr(p, c).txen
<1>1. /\ sio_snd_chr(p, c).tdr = c /\ sio_snd_chr(p, c).txen = p.txen
      /\ sio_snd_chr(p, c).openflag = p.openflag /\ sio_snd_chr(p, c).snd = p.snd
      /\ sio_snd_chr(p, c).rcv_fc_chr = p.rcv_fc_chr
      /\ sio_snd_chr(p, c).snd_stopped = p.snd_stopped
  BY DEF sio_snd_chr, PortState
<1>2. sio_ena_cbr(p).txen /\ sio_ena_cbr(p).tdr = p.tdr
  BY DEF sio_ena_cbr, PortState
<1>3. ~TDRE(sio_snd_chr(p, c)) /\ WillSend(sio_snd_chr(p, c))
  BY <1>1, CharIsNotNone DEF TDRE, WillSend
<1>. QED BY <1>2, <1>3 DEF TDRE, WillSend, serial_snd_chr

\* Sending a flow character keeps WillSend.
LEMMA SendFlowWillSend ==
  ASSUME NEW p \in PortState, WillSend(p), NEW c \in Flow
  PROVE  WillSend(SendFlow(p, c))
<1> DEFINE q == serial_snd_chr(p, c)
<1>1. q \in PortState /\ WillSend(q) /\ ~TDRE(q) /\ (~TDRE(p) => q.txen)
  BY SndChrType, SndChrWillSend
<1> HIDE DEF q
<1>2. CASE ~TDRE(p)
  <2>1. SendFlow(p, c) = [q EXCEPT !.rcv_fc_chr = c]
    BY <1>2 DEF SendFlow, q
  <2>2. SendFlow(p, c).txen = q.txen /\ SendFlow(p, c).tdr = q.tdr
    BY <1>1, <2>1 DEF PortState
  <2>. QED BY <1>1, <1>2, <2>2 DEF WillSend, TDRE
<1>3. CASE TDRE(p)
  BY <1>1, <1>3 DEF SendFlow, q
<1>. QED BY <1>2, <1>3

\* Putting a character into the send buffer keeps WillSend.
LEMMA PutChrWillSend ==
  ASSUME NEW p \in PortState, WillSend(p), NEW c \in Char
  PROVE  WillSend(PutChr(p, c))
<1> DEFINE tries == p.snd = << >> /\ ~p.snd_stopped
           q == IF tries THEN serial_snd_chr(p, c) ELSE p
           r == [q EXCEPT !.snd = Append(@, c)]
<1>1. q \in PortState /\ WillSend(q) /\ (tries => ~TDRE(q) /\ (~TDRE(p) => q.txen))
  BY SndChrType, SndChrWillSend
<1>2. PutChr(p, c) = IF tries /\ TDRE(p) THEN q ELSE r
  BY DEF PutChr
<1>3. ~tries => q = p
  OBVIOUS
<1> HIDE DEF q
<1>4. /\ r.txen = q.txen /\ r.tdr = q.tdr /\ r.txreq = q.txreq /\ r.openflag = q.openflag
      /\ r.rcv_fc_chr = q.rcv_fc_chr /\ r.snd_stopped = q.snd_stopped
  BY <1>1 DEF PortState
<1> HIDE DEF r
<1>. QED BY <1>1, <1>2, <1>3, <1>4 DEF WillSend, TDRE

\* sig_sem leaves the transmitter and the buffer alone.
LEMMA SignalFields ==
  ASSUME NEW p \in PortState, NEW q \in {SigSnd(p), SigRcv(p)}
  PROVE  /\ q \in PortState /\ q.openflag = p.openflag /\ q.rcv_fc_chr = p.rcv_fc_chr
         /\ q.txen = p.txen /\ q.txreq = p.txreq /\ q.tdr = p.tdr /\ q.snd = p.snd
         /\ q.snd_stopped = p.snd_stopped
<1>1. \/ q = [p EXCEPT !.snd_sem = 1] \/ q = [p EXCEPT !.rcv_sem = 1]
      \/ q = [p EXCEPT !.errorflag = TRUE]
  BY DEF SigSnd, SigRcv
<1>2. CASE q = [p EXCEPT !.snd_sem = 1]
  BY <1>2 DEF PortState
<1>3. CASE q = [p EXCEPT !.rcv_sem = 1]
  BY <1>3 DEF PortState
<1>4. CASE q = [p EXCEPT !.errorflag = TRUE]
  BY <1>4 DEF PortState
<1>. QED BY <1>1, <1>2, <1>3, <1>4

\* Resuming to send keeps WillSend.
LEMMA ResumedWillSend ==
  ASSUME NEW p \in PortState, WillSend(p), NEW q \in ResumeSending(p)
  PROVE  WillSend(q)
<1>1. p.snd \in Seq(Char) /\ Len(p.snd) \in Nat
  BY DEF PortState
<1>2. PICK n \in 0..Len(p.snd) :
        q = Resumed(p, n) /\ (n = 0 => ~TDRE(p) \/ p.snd = << >>)
  BY <1>1 DEF ResumeSending
<1> DEFINE r == IF n > 0 /\ SndFull(p) THEN SigSnd(p) ELSE p
           d == [r EXCEPT !.snd = SubSeq(@, n + 1, Len(@)), !.snd_stopped = FALSE,
                  !.tdr = IF n > 0 THEN p.snd[n] ELSE @, !.txreq = IF n > 1 THEN TRUE ELSE @]
<1>3. /\ r \in PortState /\ r.openflag = p.openflag /\ r.rcv_fc_chr = p.rcv_fc_chr
      /\ r.txen = p.txen /\ r.txreq = p.txreq /\ r.tdr = p.tdr /\ r.snd = p.snd
  BY SignalFields
<1>4. q = IF d.snd = << >> THEN d ELSE sio_ena_cbr(d)
  BY <1>2 DEF Resumed
<1> HIDE DEF r
<1>5. /\ d.openflag = p.openflag /\ d.rcv_fc_chr = p.rcv_fc_chr /\ d.txen = p.txen
      /\ d.tdr = (IF n > 0 THEN p.snd[n] ELSE p.tdr)
      /\ d.snd = SubSeq(p.snd, n + 1, Len(p.snd))
      /\ p.txreq => d.txreq
      /\ sio_ena_cbr(d).txen /\ sio_ena_cbr(d).tdr = d.tdr
      /\ sio_ena_cbr(d).txreq = d.txreq
  BY <1>3 DEF PortState, sio_ena_cbr
<1> HIDE DEF d
<1>6. CASE n > 0
  <2>1. d.tdr \in Char
    BY <1>1, <1>5, <1>6
  <2>2. ~TDRE(d) /\ ~TDRE(sio_ena_cbr(d))
    BY <1>5, <2>1, CharIsNotNone DEF TDRE
  <2>. QED BY <1>4, <1>5, <2>2 DEF WillSend
<1>7. CASE n = 0
  <2>1. d.tdr = p.tdr /\ d.snd = p.snd
    BY <1>1, <1>5, <1>7
  <2>. QED BY <1>2, <1>4, <1>5, <1>7, <2>1 DEF WillSend, TDRE
<1>. QED BY <1>6, <1>7

\* Storing a received character keeps WillSend.
LEMMA StoreChrWillSend ==
  ASSUME NEW p \in PortState, WillSend(p)
  PROVE  WillSend(StoreChr(p))
<1> DEFINE r == IF p.rcv_count = 0 THEN SigRcv(p) ELSE p
           q == [r EXCEPT !.rcv_count = @ + 1]
           f == SendFlow(q, STOP)
<1>1. /\ r \in PortState /\ r.openflag = p.openflag /\ r.rcv_fc_chr = p.rcv_fc_chr
      /\ r.txen = p.txen /\ r.txreq = p.txreq /\ r.tdr = p.tdr /\ r.snd = p.snd
      /\ r.snd_stopped = p.snd_stopped
  BY SignalFields
<1>2. /\ q \in PortState /\ q.openflag = p.openflag /\ q.rcv_fc_chr = p.rcv_fc_chr
      /\ q.txen = p.txen /\ q.txreq = p.txreq /\ q.tdr = p.tdr /\ q.snd = p.snd
      /\ q.snd_stopped = p.snd_stopped
  <2> HIDE DEF r
  <2>1. r.rcv_count + 1 \in Nat
    BY <1>1 DEF PortState
  <2>. QED BY <1>1, <2>1 DEF PortState
<1>3. StoreChr(p) = [f EXCEPT !.rcv_stopped = TRUE] \/ StoreChr(p) = q
  BY DEF StoreChr
<1> HIDE DEF q
<1>4. WillSend(q)
  BY <1>2 DEF WillSend, TDRE
<1>5. f \in PortState /\ WillSend(f)
  BY <1>2, <1>4, SendFlowType, SendFlowWillSend DEF Flow
<1> HIDE DEF f
<1>6. WillSend([f EXCEPT !.rcv_stopped = TRUE])
  BY <1>5 DEF WillSend, TDRE, PortState
<1>. QED BY <1>3, <1>4, <1>6

\* The send callback answers the request it was called for.
LEMMA SendCallbackWillSend ==
  ASSUME NEW p \in PortState, p.txen, TDRE(p)
  PROVE  WillSend(sio_irdy_snd([p EXCEPT !.txreq = FALSE]))
<1> DEFINE q == [p EXCEPT !.txreq = FALSE]
<1>1. q \in PortState /\ q.txen
  BY DEF PortState
<1> HIDE DEF q
<1>2. CASE q.rcv_fc_chr # NONE
  <2> DEFINE f == sio_snd_chr(q, q.rcv_fc_chr)
  <2>1. q.rcv_fc_chr \in Flow
    BY <1>1, <1>2 DEF PortState
  <2>2. f \in PortState /\ f.tdr # NONE /\ f.txen
    BY <1>1, <2>1, CharIsNotNone DEF sio_snd_chr, PortState
  <2>3. sio_irdy_snd(q) = [f EXCEPT !.rcv_fc_chr = NONE]
    BY <1>2 DEF sio_irdy_snd
  <2> HIDE DEF f
  <2>4. sio_irdy_snd(q).tdr # NONE /\ sio_irdy_snd(q).txen
    BY <2>2, <2>3 DEF PortState
  <2>. QED BY <2>4 DEF WillSend, TDRE, q
<1>3. CASE q.rcv_fc_chr = NONE /\ ~q.snd_stopped /\ q.snd # << >>
  <2> DEFINE f == sio_snd_chr(q, Head(q.snd))
             r == IF SndFull(q) THEN SigSnd(f) ELSE f
  <2>1. Head(q.snd) \in Char
    BY <1>1, <1>3 DEF PortState
  <2>2. f \in PortState /\ f.tdr # NONE /\ f.txen
    BY <1>1, <2>1, CharIsNotNone DEF sio_snd_chr, PortState
  <2> HIDE DEF f
  <2>3. r \in PortState /\ r.tdr # NONE /\ r.txen
    BY <2>2 DEF SigSnd, PortState
  <2>4. sio_irdy_snd(q) = [r EXCEPT !.snd = Tail(@)]
    BY <1>3 DEF sio_irdy_snd, DrainChr, f
  <2> HIDE DEF r
  <2>5. sio_irdy_snd(q).tdr # NONE /\ sio_irdy_snd(q).txen
    BY <2>3, <2>4 DEF PortState
  <2>. QED BY <2>5 DEF WillSend, TDRE, q
<1>4. CASE q.rcv_fc_chr = NONE /\ ~(~q.snd_stopped /\ q.snd # << >>)
  <2>1. sio_irdy_snd(q) = sio_dis_cbr(q)
    BY <1>4 DEF sio_irdy_snd
  <2>2. /\ sio_irdy_snd(q).rcv_fc_chr = NONE /\ sio_irdy_snd(q).snd = q.snd
        /\ sio_irdy_snd(q).snd_stopped = q.snd_stopped
    BY <1>1, <1>4, <2>1 DEF sio_dis_cbr, PortState
  <2>. QED BY <1>4, <2>2 DEF WillSend, q
<1>. QED BY <1>2, <1>3, <1>4

\* Every step keeps a send interrupt to come.
LEMMA WillSendNext ==
  ASSUME SerialInv, port \in PortState, WillSend(port), [SerialNext]_serialvars
  PROVE  WillSend(port')
<1>1. CASE port' = port
  BY <1>1
<1>2. CASE _serial_opn_por
  <2>1. port'.rcv_fc_chr = NONE /\ port'.snd = << >>
    BY <1>2 DEF _serial_opn_por, PortState
  <2>. QED BY <2>1 DEF WillSend
<1>3. CASE _serial_cls_por
  <2>1. ~port'.openflag
    BY <1>3 DEF _serial_cls_por, PortState
  <2>. QED BY <2>1 DEF WillSend
<1>4. CASE _serial_ctl_por
  <2>1. PICK f \in IoctlSet : port' = [port EXCEPT !.ioctl = f]
    BY <1>4 DEF _serial_ctl_por
  <2>. QED BY <2>1 DEF WillSend, TDRE, PortState
<1>5. CASE Transmit
  <2>1. /\ port'.txreq /\ port'.txen = port.txen /\ port'.rcv_fc_chr = port.rcv_fc_chr
        /\ port'.snd = port.snd /\ port'.snd_stopped = port.snd_stopped
        /\ port'.openflag = port.openflag
    BY <1>5 DEF Transmit, PortState
  <2>. QED BY <2>1 DEF WillSend
<1>6. CASE sio_isr_txi
  <2> DEFINE p == [port EXCEPT !.txreq = FALSE]
  <2>1. port.txen /\ p \in PortState /\ p.tdr = port.tdr /\ p.txen
    BY <1>6 DEF sio_isr_txi, PortState
  <2>2. port' = IF TDRE(p) THEN sio_irdy_snd(p) ELSE p
    BY <1>6 DEF sio_isr_txi
  <2>3. CASE TDRE(p)
    BY <2>1, <2>2, <2>3, SendCallbackWillSend DEF TDRE
  <2>4. CASE ~TDRE(p)
    BY <2>1, <2>2, <2>4 DEF WillSend
  <2>. QED BY <2>3, <2>4
<1>7. ASSUME NEW c \in Flow \union {"data"}, sio_isr_rxi(c) PROVE WillSend(port')
  <2>1. port' \in sio_irdy_rcv(port, c)
    BY <1>7 DEF sio_isr_rxi
  <2>2. CASE port' = [port EXCEPT !.snd_stopped = TRUE]
    BY <2>2 DEF WillSend, TDRE, PortState
  <2>. QED BY <2>1, <2>2, ResumedWillSend, StoreChrWillSend DEF sio_irdy_rcv
<1>8. ASSUME NEW t \in User, GoOn(t) PROVE WillSend(port')
  <2>1. CASE wai_snd(t) \/ sig_snd(t)
    <3>1. /\ port'.txreq = port.txreq /\ port'.txen = port.txen /\ port'.tdr = port.tdr
          /\ port'.rcv_fc_chr = port.rcv_fc_chr /\ port'.snd = port.snd
          /\ port'.snd_stopped = port.snd_stopped /\ port'.openflag = port.openflag
      BY <2>1 DEF wai_snd, sig_snd, SigSnd, PortState
    <3>. QED BY <3>1 DEF WillSend, TDRE
  <2>2. CASE wai_rcv(t) \/ sig_rcv(t)
    <3>1. /\ port'.txreq = port.txreq /\ port'.txen = port.txen /\ port'.tdr = port.tdr
          /\ port'.rcv_fc_chr = port.rcv_fc_chr /\ port'.snd = port.snd
          /\ port'.snd_stopped = port.snd_stopped /\ port'.openflag = port.openflag
      BY <2>2 DEF wai_rcv, sig_rcv, SigRcv, PortState
    <3>. QED BY <3>1 DEF WillSend, TDRE
  <2>3. CASE serial_wri_chr(t)
    <3>1. PICK c \in Char : port' = PutChr(port, c)
      BY <2>3 DEF serial_wri_chr, Char, Chars, EchoChars
    <3>. QED BY <3>1, PutChrWillSend
  <2>4. CASE serial_rea_chr(t)
    <3> DEFINE p == [port EXCEPT !.rcv_count = @ - 1]
    <3>1. /\ p.txreq = port.txreq /\ p.txen = port.txen /\ p.tdr = port.tdr
          /\ p.rcv_fc_chr = port.rcv_fc_chr /\ p.snd = port.snd
          /\ p.snd_stopped = port.snd_stopped /\ p.openflag = port.openflag
      BY DEF PortState
    <3>2. port.rcv_count - 1 \in Nat
      BY <2>4, OpenState DEF serial_rea_chr, RcvHolder, RcvEmpty, PortState
    <3>3. p \in PortState
      BY <3>2 DEF PortState
    <3> HIDE DEF p
    <3>4. WillSend(p)
      BY <3>1 DEF WillSend, TDRE
    <3>5. SendFlow(p, START) \in PortState /\ WillSend(SendFlow(p, START))
      BY <3>3, <3>4, SendFlowType, SendFlowWillSend DEF Flow
    <3>6. WillSend([SendFlow(p, START) EXCEPT !.rcv_stopped = FALSE])
      BY <3>5 DEF WillSend, TDRE, PortState
    <3>7. port' = p \/ port' = [SendFlow(p, START) EXCEPT !.rcv_stopped = FALSE]
      BY <2>4 DEF serial_rea_chr, p
    <3>. QED BY <3>4, <3>6, <3>7
  <2>5. CASE rel_wai(t)
    <3>1. /\ port'.txreq = port.txreq /\ port'.txen = port.txen /\ port'.tdr = port.tdr
          /\ port'.rcv_fc_chr = port.rcv_fc_chr /\ port'.snd = port.snd
          /\ port'.snd_stopped = port.snd_stopped /\ port'.openflag = port.openflag
      BY <2>5 DEF rel_wai, PortState
    <3>. QED BY <3>1 DEF WillSend, TDRE
  <2>. QED BY <1>8, <2>1, <2>2, <2>3, <2>4, <2>5 DEF GoOn
<1>9. ASSUME NEW t \in User, NEW n \in 1..MaxLen,
             _serial_wri_dat(t, n) \/ _serial_rea_dat(t, n)
      PROVE  WillSend(port')
  BY <1>9 DEF _serial_wri_dat, _serial_rea_dat
<1>. QED BY <1>1, <1>2, <1>3, <1>4, <1>5, <1>6, <1>7, <1>8, <1>9
         DEF SerialNext, PortNext, serialvars

\* Whatever waits in an open port has a send interrupt to come, under the same
\* condition.
THEOREM SendingCorrect ==
  ASSUME "cls_busy" \notin PortApi
  PROVE  SerialSpec => []SendingGoesOn
<1> DEFINE Inv == SerialInv /\ WillSend(port)
<1>1. SerialInit => Inv
  <2>1. SerialInit => WillSend(port)
    BY DEF SerialInit, ClosedPort, WillSend
  <2>. QED BY <2>1, SerialInvInit
<1>2. Inv /\ [SerialNext]_serialvars => Inv'
  <2> SUFFICES ASSUME Inv, [SerialNext]_serialvars PROVE Inv'
    OBVIOUS
  <2>1. SerialInv' /\ WillSend(port')
    BY SerialInvNext, WillSendNext, OpenState
  <2>. QED BY <2>1
<1>3. Inv => SendingGoesOn
  BY DEF WillSend, SendingGoesOn
<1> HIDE DEF Inv
<1>. QED BY <1>1, <1>2, <1>3, PTL DEF SerialSpec

-----------------------------------------------------------------------------
(* The time events. *)

\* Division with remainder.
LEMMA ModFacts ==
  ASSUME NEW M \in Nat \ {0}, NEW a \in Int
  PROVE  a % M \in 0..(M - 1) /\ \E q \in Int : a = M * q + (a % M)
<1>1. a % M \in 0..(M - 1)
  OBVIOUS
<1>2. a = M * (a \div M) + (a % M) /\ a \div M \in Int
  OBVIOUS
<1> QED
  BY <1>1, <1>2

\* A multiple of M between -M and M is 0.
LEMMA SmallMultiple ==
  ASSUME NEW M \in Nat \ {0}, NEW q \in Int, -M < M * q, M * q < M
  PROVE  q = 0
<1>1. q > 0 => q >= 1 /\ M * q >= M
  OBVIOUS
<1>2. q < 0 => q <= -1 /\ M * q <= -M
  OBVIOUS
<1> QED
  BY <1>1, <1>2

\* The remainder is unique.
LEMMA ModUnique ==
  ASSUME NEW M \in Nat \ {0}, NEW a \in Int, NEW q \in Int, NEW r \in 0..(M - 1),
         a = M * q + r
  PROVE  a % M = r
<1> DEFINE s == a % M
<1>1. PICK p \in Int : a = M * p + s
  BY ModFacts
<1>2. s \in 0..(M - 1)
  BY ModFacts
<1> HIDE DEF s
<1>3. M * (q - p) = M * q - M * p
  OBVIOUS
<1>4. M * (q - p) = s - r
  BY <1>1, <1>2, <1>3
<1>5. -M < s - r /\ s - r < M /\ q - p \in Int
  BY <1>2
<1>6. q - p = 0
  BY <1>4, <1>5, SmallMultiple
<1>7. M * (q - p) = 0
  BY <1>6
<1> QED
  BY <1>2, <1>4, <1>7 DEF s

\* Whole turns do not matter.
LEMMA ModTurn ==
  ASSUME NEW M \in Nat \ {0}, NEW a \in Int, NEW b \in Int, NEW q \in Int, a = b + M * q
  PROVE  a % M = b % M
<1> DEFINE r == b % M
<1>1. PICK p \in Int : b = M * p + r
  BY ModFacts
<1>2. r \in 0..(M - 1)
  BY ModFacts
<1> HIDE DEF r
<1>3. M * (p + q) = M * p + M * q
  OBVIOUS
<1>4. a = M * (p + q) + r /\ p + q \in Int
  BY <1>1, <1>2, <1>3
<1> QED
  BY <1>2, <1>4, ModUnique DEF r

\* Sums and differences of remainders.
LEMMA ModSum ==
  ASSUME NEW M \in Nat \ {0}, NEW a \in Int, NEW b \in Int
  PROVE  /\ ((a % M) + b) % M = (a + b) % M
         /\ ((a % M) - (b % M)) % M = (a - b) % M
         /\ ((a % M) - b) % M = (a - b) % M
         /\ (a - (b % M)) % M = (a - b) % M
<1> DEFINE r == a % M
           s == b % M
<1>1. PICK p \in Int : a = M * p + r
  BY ModFacts
<1>2. PICK q \in Int : b = M * q + s
  BY ModFacts
<1>3. r \in Int /\ s \in Int
  BY ModFacts
<1> HIDE DEF r, s
<1>4. M * (p - q) = M * p - M * q /\ M * (-q) = -(M * q)
  OBVIOUS
<1>5. a + b = (r + b) + M * p
  BY <1>1, <1>3
<1>6. a - b = (r - s) + M * (p - q)
  BY <1>1, <1>2, <1>3, <1>4
<1>7. a - b = (r - b) + M * p
  BY <1>1, <1>3
<1>8. a - b = (a - s) + M * (-q)
  BY <1>2, <1>3, <1>4
<1>9. ASSUME NEW x \in Int, NEW y \in Int, NEW z \in Int, x = y + M * z
      PROVE  x % M = y % M
  BY <1>9, ModTurn
<1>10. a + b \in Int /\ r + b \in Int /\ a - b \in Int /\ r - s \in Int /\ r - b \in Int
       /\ a - s \in Int /\ p - q \in Int /\ -q \in Int
  BY <1>3
<1>11. (a + b) % M = (r + b) % M /\ (a - b) % M = (r - s) % M
       /\ (a - b) % M = (r - b) % M /\ (a - b) % M = (a - s) % M
  BY ONLY <1>5, <1>6, <1>7, <1>8, <1>9, <1>10, M \in Nat \ {0}
<1> QED
  BY <1>11 DEF r, s

\* A number smaller than M is its own remainder.
LEMMA ModSmall ==
  ASSUME NEW M \in Nat \ {0}, NEW a \in 0..(M - 1)
  PROVE  a % M = a
<1>1. a = M * 0 + a /\ a \in Int
  OBVIOUS
<1> QED
  BY <1>1, ModUnique
-----------------------------------------------------------------------------
(* The heap of time events. *)

\* The number of time event blocks, for as many of which the heap has nodes.
Blocks == Cardinality(Evt)

\* The type of the heap and of the counters beside it.
HeapRec ==
  [node : [1..Blocks -> Evt], at : [Evt -> Nat], last : Nat, evttim : [Evt -> Nat],
   current : Nat, boundary : Nat, monotonic : Nat, offset : Int, insignal : BOOLEAN,
   hrtcnt : Nat, count : Nat, fire : Nat]

\* What the heap operations leave alone.
SameTimes(g, h) ==
  /\ g.evttim = h.evttim /\ g.current = h.current /\ g.boundary = h.boundary
  /\ g.monotonic = h.monotonic /\ g.offset = h.offset /\ g.insignal = h.insignal
  /\ g.hrtcnt = h.hrtcnt /\ g.count = h.count /\ g.fire = h.fire

\* The nodes except x hold the blocks R, each once, and the blocks know them.
Filled(h, R, x) ==
  /\ \A i \in 1..h.last : i # x => h.node[i] \in R /\ h.at[h.node[i]] = i
  /\ \A b \in R : h.at[b] \in 1..h.last /\ h.at[b] # x /\ h.node[h.at[b]] = b

\* No parent is later than its children; nothing is said of node x.
Ordered(h, d, x) ==
  \A i \in 2..h.last : i # x /\ i \div 2 # x => d[h.node[i \div 2]] <= d[h.node[i]]

\* The parent of node x is not later than the children of x.
Bridged(h, d, x) ==
  \A c \in 2..h.last : c \div 2 = x /\ x > 1 => d[h.node[x \div 2]] <= d[h.node[c]]

\* A heap of the blocks R for the times d.
Heap(h, R, d) == h \in HeapRec /\ h.last <= Blocks /\ Filled(h, R, 0) /\ Ordered(h, d, 0)

\* One with the free node x: it would be a heap without x, or with a block there that
\* is neither earlier than the parent of x nor later than its children.
Free(h, R, d, x) ==
  /\ h \in HeapRec /\ h.last <= Blocks /\ x \in 1..h.last
  /\ Filled(h, R, x) /\ Ordered(h, d, x) /\ Bridged(h, d, x)

\* The block e is not earlier than the parent of node x, not later than the children.
NotAbove(h, d, x, e) == x > 1 => d[h.node[x \div 2]] <= d[e]
NotBelow(h, d, x, e) == \A c \in 2..h.last : c \div 2 = x => d[e] <= d[h.node[c]]

\* Comparing the event times of two of the blocks S in h compares their times in d.
Agree(h, d, S) ==
  \A a, b \in S : /\ EVTTIM_LE(h, h.evttim[a], h.evttim[b]) <=> d[a] <= d[b]
                  /\ EVTTIM_LT(h, h.evttim[a], h.evttim[b]) <=> d[a] < d[b]

\* The number of blocks.
LEMMA BlocksNat == Blocks \in Nat /\ IsFiniteSet(Evt)
BY TimeEventAssumption, FS_CardinalityType DEF Blocks

\* The nodes hold blocks.
LEMMA NodeType ==
  ASSUME NEW h \in HeapRec, h.last <= Blocks
  PROVE  \A j \in 1..h.last : h.node[j] \in Evt
<1>1. h.node \in [1..Blocks -> Evt] /\ h.last \in Nat
  BY DEF HeapRec
<1>2. \A j \in 1..h.last : j \in 1..Blocks
  BY <1>1, BlocksNat
<1> QED
  BY <1>1, <1>2

\* A block is put into a node.
LEMMA PutFacts ==
  ASSUME NEW h \in HeapRec, NEW i \in 1..Blocks, NEW e \in Evt, NEW g, g = Put(h, i, e)
  PROVE  /\ g \in HeapRec /\ SameTimes(g, h) /\ g.last = h.last
         /\ g.node[i] = e /\ \A j \in 1..Blocks : j # i => g.node[j] = h.node[j]
         /\ g.at[e] = i /\ \A b \in Evt : b # e => g.at[b] = h.at[b]
<1>1. g = [h EXCEPT !.node = [h.node EXCEPT ![i] = e], !.at = [h.at EXCEPT ![e] = i]]
  BY DEF Put, HeapRec
<1>2. /\ h.node \in [1..Blocks -> Evt] /\ h.at \in [Evt -> Nat] /\ i \in Nat
  BY BlocksNat DEF HeapRec
<1>3. /\ [h.node EXCEPT ![i] = e] \in [1..Blocks -> Evt]
      /\ [h.at EXCEPT ![e] = i] \in [Evt -> Nat]
  BY <1>2
<1>4. g \in HeapRec /\ SameTimes(g, h) /\ g.last = h.last
  BY <1>1, <1>3 DEF HeapRec, SameTimes
<1>5. g.node = [h.node EXCEPT ![i] = e] /\ g.at = [h.at EXCEPT ![e] = i]
  BY <1>1 DEF HeapRec
<1> QED
  BY <1>2, <1>4, <1>5

\* The parent and the children of a node.
LEMMA HalfFacts ==
  ASSUME NEW i \in Nat
  PROVE  /\ i \div 2 \in Nat /\ 2 * (i \div 2) <= i /\ i <= 2 * (i \div 2) + 1
         /\ i >= 2 => i \div 2 >= 1 /\ i \div 2 < i
         /\ (2 * i) \div 2 = i /\ (2 * i + 1) \div 2 = i
OBVIOUS

\* Comparisons do not depend on the heap.
LEMMA AgreeSame ==
  ASSUME NEW g, NEW h, NEW d, NEW S, SameTimes(g, h), Agree(h, d, S)
  PROVE  Agree(g, d, S)
BY DEF SameTimes, Agree, EVTTIM_LE, EVTTIM_LT, ADVANCE

\* Changes that leave the times alone.
LEMMA SameTimesTrans ==
  ASSUME NEW f, NEW g, NEW h, SameTimes(f, g), SameTimes(g, h)
  PROVE  SameTimes(f, h)
BY DEF SameTimes

\* The free node x is filled with e.
LEMMA FillFree ==
  ASSUME NEW h, NEW R \in SUBSET Evt, NEW d \in [Evt -> Int], NEW x, NEW e \in Evt, e \notin R,
         Free(h, R, d, x), NotAbove(h, d, x, e), NotBelow(h, d, x, e), NEW g, g = Put(h, x, e)
  PROVE  Heap(g, R \union {e}, d) /\ SameTimes(g, h) /\ g.last = h.last /\ g.at[e] = x
<1>1. /\ h \in HeapRec /\ h.last <= Blocks /\ x \in 1..h.last /\ h.last \in Nat
      /\ Filled(h, R, x) /\ Ordered(h, d, x)
  BY DEF Free, HeapRec
<1>2. x \in 1..Blocks
  BY <1>1, BlocksNat
<1>3. /\ g \in HeapRec /\ SameTimes(g, h) /\ g.last = h.last
      /\ g.node[x] = e /\ \A j \in 1..Blocks : j # x => g.node[j] = h.node[j]
      /\ g.at[e] = x /\ \A b \in Evt : b # e => g.at[b] = h.at[b]
  BY <1>1, <1>2, PutFacts
<1>4. \A j \in 1..h.last : j \in 1..Blocks
  BY <1>1, BlocksNat
<1>5. Filled(g, R \union {e}, 0)
  <2>1. \A i \in 1..h.last : g.node[i] \in R \union {e} /\ g.at[g.node[i]] = i
    BY <1>1, <1>3, <1>4 DEF Filled
  <2>2. \A b \in R \union {e} : g.at[b] \in 1..h.last /\ g.node[g.at[b]] = b
    BY <1>1, <1>3, <1>4 DEF Filled
  <2>3. \A i \in 1..h.last : i # 0
    OBVIOUS
  <2> QED
    BY <1>3, <2>1, <2>2, <2>3 DEF Filled
<1>6. ASSUME NEW i \in 2..h.last PROVE d[g.node[i \div 2]] <= d[g.node[i]]
  <2>1. i \in 1..Blocks /\ i \div 2 \in 1..Blocks /\ i \div 2 # i /\ i \div 2 >= 1
    BY <1>1, BlocksNat, HalfFacts
  <2>2. CASE i = x
    BY <1>3, <2>1, <2>2 DEF NotAbove
  <2>3. CASE i \div 2 = x
    BY <1>3, <2>1, <2>3 DEF NotBelow
  <2>4. CASE i # x /\ i \div 2 # x
    BY <1>1, <1>3, <2>1, <2>4 DEF Ordered
  <2> QED
    BY <2>2, <2>3, <2>4
<1>7. Ordered(g, d, 0)
  <2> SUFFICES ASSUME NEW i \in 2..g.last PROVE d[g.node[i \div 2]] <= d[g.node[i]]
    BY DEF Ordered
  <2>1. i \in 2..h.last
    BY <1>3
  <2> QED
    BY <1>6, <2>1
<1> QED
  BY <1>1, <1>3, <1>5, <1>7 DEF Heap

\* The block of node y goes to the free node x, its child or parent.
LEMMA MoveFilled ==
  ASSUME NEW h \in HeapRec, NEW R \in SUBSET Evt, NEW x, NEW y, h.last <= Blocks,
         x \in 1..h.last, y \in 1..h.last, x # y, Filled(h, R, x),
         NEW g, g = Put(h, x, h.node[y])
  PROVE  /\ g \in HeapRec /\ SameTimes(g, h) /\ g.last = h.last /\ Filled(g, R, y)
         /\ g.node[x] = h.node[y] /\ \A j \in 1..h.last : j # x => g.node[j] = h.node[j]
<1>1. h.last \in Nat /\ h.node[y] \in R /\ h.at[h.node[y]] = y
  BY DEF HeapRec, Filled
<1>2. \A j \in 1..h.last : j \in 1..Blocks
  BY <1>1, BlocksNat
<1>3. /\ g \in HeapRec /\ SameTimes(g, h) /\ g.last = h.last
      /\ g.node[x] = h.node[y] /\ \A j \in 1..Blocks : j # x => g.node[j] = h.node[j]
      /\ g.at[h.node[y]] = x /\ \A b \in Evt : b # h.node[y] => g.at[b] = h.at[b]
  <2> DEFINE e == h.node[y]
  <2>1. x \in 1..Blocks /\ e \in Evt /\ g = Put(h, x, e)
    BY <1>1, <1>2
  <2> HIDE DEF e
  <2>2. /\ g \in HeapRec /\ SameTimes(g, h) /\ g.last = h.last
        /\ g.node[x] = e /\ \A j \in 1..Blocks : j # x => g.node[j] = h.node[j]
        /\ g.at[e] = x /\ \A b \in Evt : b # e => g.at[b] = h.at[b]
    BY <2>1, PutFacts
  <2> QED
    BY <2>2 DEF e
<1>4. ASSUME NEW i \in 1..h.last, i # y PROVE g.node[i] \in R /\ g.at[g.node[i]] = i
  <2>1. CASE i = x
    BY <1>1, <1>3, <2>1
  <2>2. CASE i # x
    <3>1. g.node[i] = h.node[i] /\ h.node[i] \in R /\ h.at[h.node[i]] = i
      BY <1>2, <1>3, <2>2 DEF Filled
    <3> QED
      BY <1>1, <1>3, <1>4, <3>1
  <2> QED
    BY <2>1, <2>2
<1>5. ASSUME NEW b \in R PROVE g.at[b] \in 1..h.last /\ g.at[b] # y /\ g.node[g.at[b]] = b
  <2>1. h.at[b] \in 1..h.last /\ h.at[b] # x /\ h.node[h.at[b]] = b
    BY DEF Filled
  <2> QED
    BY <1>1, <1>2, <1>3, <2>1
<1> QED
  BY <1>2, <1>3, <1>4, <1>5 DEF Filled
-----------------------------------------------------------------------------
(* The rounds of tmevt_up and tmevt_down. *)

\* The heap h0 without e, after some rounds: s.i is free, and e fits there as far as
\* the children (parent) are concerned.
UpState(s, h0, R, d, e) ==
  /\ Free(s.m, R, d, s.i) /\ NotBelow(s.m, d, s.i, e)
  /\ SameTimes(s.m, h0) /\ s.m.last = h0.last

DownState(s, h0, R, d, e) ==
  /\ Free(s.m, R, d, s.i) /\ NotAbove(s.m, d, s.i, e)
  /\ SameTimes(s.m, h0) /\ s.m.last = h0.last

\* The parent of the free node moves down.
LEMMA UpMove ==
  ASSUME NEW h, NEW R \in SUBSET Evt, NEW d \in [Evt -> Int], NEW x, NEW e \in Evt,
         Free(h, R, d, x), x > 1, d[e] <= d[h.node[x \div 2]],
         NEW g, g = Put(h, x, h.node[x \div 2])
  PROVE  /\ Free(g, R, d, x \div 2) /\ NotBelow(g, d, x \div 2, e)
         /\ SameTimes(g, h) /\ g.last = h.last
<1> DEFINE p == x \div 2
<1>1. /\ h \in HeapRec /\ h.last <= Blocks /\ x \in 1..h.last /\ h.last \in Nat
      /\ Filled(h, R, x) /\ Ordered(h, d, x) /\ Bridged(h, d, x)
  BY DEF Free, HeapRec
<1>2. p \in 1..h.last /\ p # x /\ x \in 2..h.last /\ p >= 1 /\ p \in Nat
  BY <1>1, HalfFacts
<1> HIDE DEF p
<1>3. /\ g \in HeapRec /\ SameTimes(g, h) /\ g.last = h.last /\ Filled(g, R, p)
      /\ g.node[x] = h.node[p] /\ \A j \in 1..h.last : j # x => g.node[j] = h.node[j]
  <2>1. g = Put(h, x, h.node[p]) /\ x # p
    BY <1>2 DEF p
  <2> QED
    BY <1>1, <1>2, <2>1, MoveFilled
<1>4. \A c \in 2..h.last : c \div 2 \in 1..h.last /\ c \in 1..h.last /\ c \div 2 # c
  BY <1>1, HalfFacts
<1>5. \A j \in 1..h.last : d[h.node[j]] \in Int
  <2>1. \A j \in 1..h.last : h.node[j] \in Evt
    BY <1>1, NodeType
  <2> QED
    BY <2>1
<1>6. ASSUME NEW i \in 2..h.last, i # p, i \div 2 # p
      PROVE  d[g.node[i \div 2]] <= d[g.node[i]]
  <2>1. i # x
    BY <1>6 DEF p
  <2>2. CASE i \div 2 = x
    BY <1>1, <1>2, <1>3, <1>4, <2>1, <2>2 DEF Bridged, p
  <2>3. CASE i \div 2 # x
    BY <1>1, <1>3, <1>4, <2>1, <2>3 DEF Ordered
  <2> QED
    BY <2>2, <2>3
<1>7. ASSUME NEW c \in 2..h.last, c \div 2 = p, p > 1
      PROVE  d[g.node[p \div 2]] <= d[g.node[c]]
  <2>1. p \in 2..h.last /\ p \div 2 # x /\ p \div 2 \in 1..h.last
    BY <1>1, <1>2, <1>7, HalfFacts DEF p
  <2>2. d[h.node[p \div 2]] <= d[h.node[p]]
    BY <1>1, <1>2, <2>1 DEF Ordered
  <2>3. g.node[p \div 2] = h.node[p \div 2]
    BY <1>3, <2>1
  <2>4. CASE c = x
    BY <1>3, <2>2, <2>3, <2>4
  <2>5. CASE c # x
    <3>1. g.node[c] = h.node[c] /\ d[h.node[p]] <= d[h.node[c]]
      BY <1>1, <1>2, <1>3, <1>4, <1>7, <2>5 DEF Ordered
    <3> QED
      BY <1>4, <1>5, <2>1, <2>2, <2>3, <3>1
  <2> QED
    BY <2>4, <2>5
<1>8. ASSUME NEW c \in 2..h.last, c \div 2 = p PROVE d[e] <= d[g.node[c]]
  <2>1. d[e] <= d[h.node[p]] /\ d[e] \in Int
    BY DEF p
  <2>2. CASE c = x
    BY <1>3, <2>1, <2>2
  <2>3. CASE c # x
    <3>1. g.node[c] = h.node[c] /\ d[h.node[p]] <= d[h.node[c]]
      BY <1>1, <1>2, <1>3, <1>4, <1>8, <2>3 DEF Ordered
    <3> QED
      BY <1>2, <1>4, <1>5, <2>1, <3>1
  <2> QED
    BY <2>2, <2>3
<1>9. Ordered(g, d, p)
  <2> SUFFICES ASSUME NEW i \in 2..g.last, i # p, i \div 2 # p
               PROVE  d[g.node[i \div 2]] <= d[g.node[i]]
    BY DEF Ordered
  <2>1. i \in 2..h.last
    BY <1>3
  <2> QED
    BY <1>6, <2>1
<1>10. Bridged(g, d, p) /\ NotBelow(g, d, p, e)
  <2> SUFFICES ASSUME NEW c \in 2..g.last, c \div 2 = p
               PROVE  (p > 1 => d[g.node[p \div 2]] <= d[g.node[c]]) /\ d[e] <= d[g.node[c]]
    BY DEF Bridged, NotBelow
  <2>1. c \in 2..h.last
    BY <1>3
  <2> QED
    BY <1>7, <1>8, <2>1
<1>11. Free(g, R, d, p) /\ NotBelow(g, d, p, e)
  BY <1>1, <1>2, <1>3, <1>9, <1>10 DEF Free
<1> QED
  BY <1>3, <1>11 DEF p

\* The earlier child of the free node moves up.
LEMMA DownMove ==
  ASSUME NEW h, NEW R \in SUBSET Evt, NEW d \in [Evt -> Int], NEW x, NEW e \in Evt,
         Free(h, R, d, x), NEW c \in 2..h.last, c \div 2 = x, d[h.node[c]] <= d[e],
         \A b \in 2..h.last : b \div 2 = x => d[h.node[c]] <= d[h.node[b]],
         NEW g, g = Put(h, x, h.node[c])
  PROVE  /\ Free(g, R, d, c) /\ NotAbove(g, d, c, e)
         /\ SameTimes(g, h) /\ g.last = h.last
<1>1. /\ h \in HeapRec /\ h.last <= Blocks /\ x \in 1..h.last /\ h.last \in Nat
      /\ Filled(h, R, x) /\ Ordered(h, d, x) /\ Bridged(h, d, x)
  BY DEF Free, HeapRec
<1>2. c \in 1..h.last /\ c # x /\ c \in Nat /\ c > 1
  BY <1>1, HalfFacts
<1>3. /\ g \in HeapRec /\ SameTimes(g, h) /\ g.last = h.last /\ Filled(g, R, c)
      /\ g.node[x] = h.node[c] /\ \A j \in 1..h.last : j # x => g.node[j] = h.node[j]
  <2>1. x # c /\ g = Put(h, x, h.node[c]) /\ R \in SUBSET Evt
    BY <1>2
  <2> QED
    BY ONLY <1>1, <1>2, <2>1, MoveFilled
<1>4. \A b \in 2..h.last : b \div 2 \in 1..h.last /\ b \in 1..h.last /\ b \div 2 # b
  BY <1>1, HalfFacts
<1>5. ASSUME NEW i \in 2..h.last, i # c, i \div 2 # c
      PROVE  d[g.node[i \div 2]] <= d[g.node[i]]
  <2>1. CASE i = x
    <3>1. x > 1 /\ i \div 2 # x
      BY <1>4, <2>1
    <3>2. d[h.node[x \div 2]] <= d[h.node[c]]
      BY <1>1, <3>1 DEF Bridged
    <3> QED
      BY <1>3, <1>4, <2>1, <3>1, <3>2
  <2>2. CASE i \div 2 = x
    BY <1>3, <1>4, <2>2
  <2>3. CASE i # x /\ i \div 2 # x
    BY <1>1, <1>3, <1>4, <2>3 DEF Ordered
  <2> QED
    BY <2>1, <2>2, <2>3
<1>6. ASSUME NEW b \in 2..h.last, b \div 2 = c PROVE d[g.node[c \div 2]] <= d[g.node[b]]
  <2>1. b # x
    BY <1>2, <1>4, <1>6, HalfFacts
  <2>2. g.node[b] = h.node[b] /\ d[h.node[c]] <= d[h.node[b]]
    BY <1>1, <1>2, <1>3, <1>4, <1>6, <2>1 DEF Ordered
  <2> QED
    BY <1>3, <2>2
<1>7. Ordered(g, d, c)
  <2> SUFFICES ASSUME NEW i \in 2..g.last, i # c, i \div 2 # c
               PROVE  d[g.node[i \div 2]] <= d[g.node[i]]
    BY DEF Ordered
  <2>1. i \in 2..h.last
    BY <1>3
  <2> QED
    BY <1>5, <2>1
<1>8. Bridged(g, d, c)
  <2> SUFFICES ASSUME NEW b \in 2..g.last, b \div 2 = c
               PROVE  d[g.node[c \div 2]] <= d[g.node[b]]
    BY DEF Bridged
  <2>1. b \in 2..h.last
    BY <1>3
  <2> QED
    BY <1>6, <2>1
<1>9. NotAbove(g, d, c, e)
  BY <1>3 DEF NotAbove
<1> QED
  BY <1>1, <1>2, <1>3, <1>7, <1>8, <1>9 DEF Free

\* The condition on which a round of tmevt_up, or tmevt_down, leaves the loop.
UpStopped(s, e) ==
  ~(s.i > 1 /\ ~EVTTIM_LE(s.m, Time(s.m, s.i \div 2), s.m.evttim[e]))

DownStopped(s, e) ==
  ~(2 * s.i <= s.m.last /\ ~EVTTIM_LE(s.m, s.m.evttim[e], Time(s.m, Child(s.m, s.i))))

\* A round of tmevt_up: it goes up or is the last.
LEMMA UpRoundOK ==
  ASSUME NEW h, NEW R \in SUBSET Evt, NEW d \in [Evt -> Int], NEW e \in Evt,
         Agree(h, d, R \union {e}), NEW s, UpState(s, h, R, d, e), NEW r, r = UpRound(s, e)
  PROVE  /\ UpState(r, h, R, d, e)
         /\ (UpStopped(s, e) /\ r = s) \/ r.i < s.i
<1>1. CASE UpStopped(s, e)
  <2>1. r = s
    BY <1>1 DEF UpStopped, UpRound
  <2> QED
    BY <1>1, <2>1
<1>2. CASE ~UpStopped(s, e)
  <2> DEFINE g == s.m
             x == s.i
             p == x \div 2
             k == Put(g, x, g.node[p])
  <2>1. /\ Free(g, R, d, x) /\ SameTimes(g, h) /\ g.last = h.last
        /\ g \in HeapRec /\ x \in 1..g.last /\ Filled(g, R, x) /\ g.last \in Nat
    BY DEF UpState, Free, HeapRec
  <2>2. x > 1 /\ ~EVTTIM_LE(g, g.evttim[g.node[p]], g.evttim[e]) /\ r = [m |-> k, i |-> p]
    BY <1>2 DEF UpStopped, UpRound, Time
  <2>3. r.m = k /\ r.i = p
    BY <2>2
  <2> HIDE DEF g, x
  <2>4. p \in 1..g.last /\ p # x /\ p < x
    BY <2>1, <2>2, HalfFacts
  <2>5. g.node[p] \in R /\ d[g.node[p]] \in Int /\ d[e] \in Int
    BY <2>1, <2>4 DEF Filled
  <2>6. Agree(g, d, R \union {e})
    BY <2>1, AgreeSame
  <2>7. d[e] <= d[g.node[p]]
    <3>1. ~(d[g.node[p]] <= d[e])
      BY <2>2, <2>5, <2>6 DEF Agree
    <3> HIDE DEF p
    <3> QED
      BY <2>5, <3>1
  <2>8. Free(k, R, d, p) /\ NotBelow(k, d, p, e) /\ SameTimes(k, g) /\ k.last = g.last
    BY <2>1, <2>2, <2>7, UpMove
  <2>9. SameTimes(k, h)
    BY <2>1, <2>8, SameTimesTrans
  <2> HIDE DEF k, p
  <2> QED
    BY <2>1, <2>3, <2>4, <2>8, <2>9 DEF UpState, x
<1> QED
  BY <1>1, <1>2

\* The child that tmevt_down looks at is the earlier one.
LEMMA ChildFacts ==
  ASSUME NEW h \in HeapRec, NEW R \in SUBSET Evt, NEW d \in [Evt -> Int], NEW x \in 1..h.last,
         Filled(h, R, x), Agree(h, d, R), 2 * x <= h.last, NEW c, c = Child(h, x)
  PROVE  /\ c \in 2..h.last /\ c \div 2 = x
         /\ \A b \in 2..h.last : b \div 2 = x => d[h.node[c]] <= d[h.node[b]]
<1>1. h.last \in Nat /\ x \in Nat /\ x >= 1
  BY DEF HeapRec
<1>2. c \in {2 * x, 2 * x + 1} /\ c \in 2..h.last
  BY <1>1 DEF Child
<1>3. \A b \in 2..h.last : /\ b \div 2 = x => b \in {2 * x, 2 * x + 1}
                           /\ b \in {2 * x, 2 * x + 1} => b \div 2 = x /\ b # x
  BY <1>1, HalfFacts
<1>4. \A b \in 2..h.last : b # x => h.node[b] \in R /\ d[h.node[b]] \in Int
  BY <1>1 DEF Filled
<1>5. ASSUME 2 * x + 1 \in 2..h.last
      PROVE  /\ EVTTIM_LT(h, Time(h, 2 * x + 1), Time(h, 2 * x))
                  <=> d[h.node[2 * x + 1]] < d[h.node[2 * x]]
             /\ d[h.node[2 * x + 1]] \in Int /\ d[h.node[2 * x]] \in Int
  <2> DEFINE l == 2 * x
             r == 2 * x + 1
  <2>1. l \in 2..h.last /\ r \in 2..h.last /\ l # x /\ r # x
    BY <1>1, <1>5
  <2> HIDE DEF l, r
  <2>2. h.node[l] \in R /\ h.node[r] \in R /\ d[h.node[l]] \in Int /\ d[h.node[r]] \in Int
    BY <1>4, <2>1
  <2>3. EVTTIM_LT(h, Time(h, r), Time(h, l)) <=> d[h.node[r]] < d[h.node[l]]
    BY <2>2 DEF Agree, Time
  <2> QED
    BY <2>2, <2>3 DEF l, r
<1>6. ASSUME NEW b \in 2..h.last, b \div 2 = x PROVE d[h.node[c]] <= d[h.node[b]]
  <2>1. b \in {2 * x, 2 * x + 1} /\ b # x /\ d[h.node[b]] \in Int
    BY <1>3, <1>4, <1>6
  <2>2. CASE 2 * x + 1 \in 2..h.last /\ EVTTIM_LT(h, Time(h, 2 * x + 1), Time(h, 2 * x))
    <3>1. c = 2 * x + 1
      BY <1>1, <2>2 DEF Child
    <3> QED
      BY <1>5, <2>1, <2>2, <3>1
  <2>3. CASE ~(2 * x + 1 \in 2..h.last /\ EVTTIM_LT(h, Time(h, 2 * x + 1), Time(h, 2 * x)))
    <3>1. c = 2 * x
      BY <1>1, <2>3 DEF Child
    <3>2. CASE b = 2 * x
      BY <2>1, <3>1, <3>2
    <3>3. CASE b = 2 * x + 1
      BY <1>5, <2>1, <2>3, <3>1, <3>3
    <3> QED
      BY <2>1, <3>2, <3>3
  <2> QED
    BY <2>2, <2>3
<1> QED
  BY <1>2, <1>3, <1>6

\* A round of tmevt_down: it goes down or is the last.
LEMMA DownRoundOK ==
  ASSUME NEW h, NEW R \in SUBSET Evt, NEW d \in [Evt -> Int], NEW e \in Evt,
         Agree(h, d, R \union {e}), NEW s, DownState(s, h, R, d, e), NEW r, r = DownRound(s, e)
  PROVE  /\ DownState(r, h, R, d, e)
         /\ (DownStopped(s, e) /\ r = s) \/ r.i > s.i
<1>1. CASE DownStopped(s, e)
  <2>1. r = s
    BY <1>1 DEF DownStopped, DownRound
  <2> QED
    BY <1>1, <2>1
<1>2. CASE ~DownStopped(s, e)
  <2> DEFINE g == s.m
             x == s.i
             c == Child(g, x)
             k == Put(g, x, g.node[c])
  <2>1. /\ Free(g, R, d, x) /\ SameTimes(g, h) /\ g.last = h.last
        /\ g \in HeapRec /\ x \in 1..g.last /\ Filled(g, R, x) /\ g.last \in Nat
    BY DEF DownState, Free, HeapRec
  <2>2. /\ 2 * x <= g.last /\ ~EVTTIM_LE(g, g.evttim[e], g.evttim[g.node[c]])
        /\ r = [m |-> k, i |-> c]
    BY <1>2 DEF DownStopped, DownRound, Time
  <2>3. r.m = k /\ r.i = c
    BY <2>2
  <2> HIDE DEF g, x
  <2>4. Agree(g, d, R \union {e}) /\ Agree(g, d, R)
    <3> HIDE DEF c, k
    <3>1. Agree(g, d, R \union {e})
      BY <2>1, AgreeSame
    <3> QED
      BY <3>1 DEF Agree
  <2>5. /\ c \in 2..g.last /\ c \div 2 = x
        /\ \A b \in 2..g.last : b \div 2 = x => d[g.node[c]] <= d[g.node[b]]
    BY <2>1, <2>2, <2>4, ChildFacts
  <2> HIDE DEF c
  <2>6. c \in 1..g.last /\ c > x /\ c # x
    BY <2>1, <2>5, HalfFacts
  <2>7. g.node[c] \in R /\ d[g.node[c]] \in Int /\ d[e] \in Int
    BY <2>1, <2>6 DEF Filled
  <2>8. d[g.node[c]] <= d[e]
    <3>1. ~(d[e] <= d[g.node[c]])
      BY <2>2, <2>4, <2>7 DEF Agree
    <3> QED
      BY <2>7, <3>1
  <2>9. Free(k, R, d, c) /\ NotAbove(k, d, c, e) /\ SameTimes(k, g) /\ k.last = g.last
    BY <2>1, <2>5, <2>8, DownMove
  <2>10. SameTimes(k, h)
    BY <2>1, <2>9, SameTimesTrans
  <2> HIDE DEF k
  <2> QED
    BY <2>1, <2>3, <2>6, <2>9, <2>10 DEF DownState, x
<1> QED
  BY <1>1, <1>2
-----------------------------------------------------------------------------
(* The loops of tmevt_up and tmevt_down: induction by the least number.     *)

\* The order of the natural numbers, for WFMin.
Less == {w \in Nat \X Nat : w[1] < w[2]}

\* A non-empty set of natural numbers has a least element.
LEMMA LeastNumber ==
  ASSUME NEW T \in SUBSET Nat, T # {}
  PROVE  \E n \in T : \A k \in T : n <= k
<1>1. IsWellFoundedOn(Less, Nat)
  BY NatLessThanWellFounded DEF OpToRel, Less
<1>2. PICK n \in T : \A k \in T : ~ (<<k, n>> \in Less)
  BY <1>1, WFMin
<1>3. ASSUME NEW k \in T PROVE n <= k
  <2>1. <<k, n>> \notin Less
    BY <1>2
  <2>2. ~(k < n)
    BY <2>1 DEF Less
  <2> QED
    BY <2>2
<1> QED
  BY <1>3

\* A round of either loop.
Round(up, s, e) == IF up THEN UpRound(s, e) ELSE DownRound(s, e)

\* The states of a loop that starts in heap h at node x, up to round len.
RoundsTo(up, h, x, e, r, len) ==
  r = [k \in 0..len |-> IF k = 0 THEN [m |-> h, i |-> x] ELSE Round(up, r[k - 1], e)]

\* They exist.
LEMMA RoundsToExist ==
  ASSUME NEW up, NEW h, NEW x, NEW e, NEW len \in Nat
  PROVE  \E r : RoundsTo(up, h, x, e, r, len)
<1> DEFINE Bad == {n \in Nat : ~\E r : RoundsTo(up, h, x, e, r, n)}
           Nxt(s) == Round(up, s, e)
           start == [m |-> h, i |-> x]
<1> SUFFICES ASSUME Bad # {} PROVE FALSE
  OBVIOUS
<1> HIDE DEF Nxt, start
<1>1. PICK n \in Bad : \A k \in Bad : n <= k
  BY LeastNumber
<1>2. n # 0
  <2>1. RoundsTo(up, h, x, e, [k \in 0..0 |-> start], 0)
    BY DEF RoundsTo, start
  <2> QED
    BY <2>1
<1>3. n \in Nat /\ n - 1 \in Nat /\ n - 1 \notin Bad
  BY <1>1, <1>2
<1>4. PICK r : RoundsTo(up, h, x, e, r, n - 1)
  BY <1>3
<1> DEFINE f == [k \in 0..n |-> IF k = n THEN Nxt(r[n - 1]) ELSE r[k]]
<1>5. \A k \in 0..(n - 1) : r[k] = IF k = 0 THEN start ELSE Nxt(r[k - 1])
  BY <1>4 DEF RoundsTo, Nxt, start
<1>6. \A k \in 0..n : f[k] = IF k = 0 THEN start ELSE Nxt(f[k - 1])
  <2> TAKE k \in 0..n
  <2>1. CASE k = 0
    BY <1>2, <1>3, <1>5, <2>1
  <2>2. CASE k = n
    <3>1. f[k - 1] = r[n - 1] /\ f[k] = Nxt(r[n - 1])
      BY <1>3, <2>2
    <3> QED
      BY <1>2, <2>2, <3>1
  <2>3. CASE k # 0 /\ k # n
    <3>1. k \in 0..(n - 1) /\ f[k] = r[k] /\ f[k - 1] = r[k - 1]
      BY <1>3, <2>3
    <3> QED
      BY <1>5, <2>3, <3>1
  <2> QED
    BY <2>1, <2>2, <2>3
<1>7. RoundsTo(up, h, x, e, f, n)
  <2>1. f = [k \in 0..n |-> f[k]]
    OBVIOUS
  <2> HIDE DEF f
  <2> QED
    BY <1>6, <2>1 DEF RoundsTo, Nxt, start
<1> QED
  BY <1>1, <1>7

\* tmevt_up puts e into a node where the heap is in order.
LEMMA TmevtUpOK ==
  ASSUME NEW h, NEW R \in SUBSET Evt, NEW d \in [Evt -> Int], NEW x, NEW e \in Evt, e \notin R,
         Agree(h, d, R \union {e}), Free(h, R, d, x), NotBelow(h, d, x, e),
         NEW g, g = tmevt_up(h, x, e)
  PROVE  Heap(g, R \union {e}, d) /\ SameTimes(g, h) /\ g.last = h.last
<1>1. x \in Nat /\ x >= 1
  BY DEF Free
<1>2. PICK r : g = Put(r[x].m, r[x].i, e) /\ RoundsTo(TRUE, h, x, e, r, x)
  <2> DEFINE r == CHOOSE f : f = [k \in 0..x |-> IF k = 0 THEN [m |-> h, i |-> x]
                                                   ELSE UpRound(f[k - 1], e)]
  <2>1. g = Put(r[x].m, r[x].i, e)
    BY DEF tmevt_up
  <2>2. \A f : RoundsTo(TRUE, h, x, e, f, x) <=>
                 f = [k \in 0..x |-> IF k = 0 THEN [m |-> h, i |-> x] ELSE UpRound(f[k - 1], e)]
    BY DEF RoundsTo, Round
  <2>3. RoundsTo(TRUE, h, x, e, r, x)
    BY <1>1, <2>2, RoundsToExist
  <2> QED
    BY <2>1, <2>3
<1>3. r[0] = [m |-> h, i |-> x] /\ \A k \in 1..x : r[k] = UpRound(r[k - 1], e)
  <2>1. r = [k \in 0..x |-> IF k = 0 THEN [m |-> h, i |-> x] ELSE UpRound(r[k - 1], e)]
    BY <1>2 DEF RoundsTo, Round
  <2>2. \A k \in 0..x : r[k] = IF k = 0 THEN [m |-> h, i |-> x] ELSE UpRound(r[k - 1], e)
    BY <2>1
  <2>3. 0 \in 0..x /\ \A k \in 1..x : k \in 0..x /\ k # 0
    BY <1>1
  <2> QED
    BY <2>2, <2>3
<1> DEFINE Done(k) == /\ UpState(r[k], h, R, d, e)
                      /\ UpStopped(r[k], e) \/ r[k].i <= x - k
           Bad == {k \in 0..x : ~Done(k)}
<1>4. Done(0)
  <2>1. r[0].m = h /\ r[0].i = x /\ x <= x - 0
    BY <1>1, <1>3
  <2>2. SameTimes(h, h) /\ h.last = h.last
    BY DEF SameTimes
  <2> QED
    BY <2>1, <2>2 DEF UpState
<1>5. ASSUME NEW k \in 1..x, Done(k - 1) PROVE Done(k)
  <2> DEFINE s == r[k - 1]
             t == r[k]
  <2>1. UpState(s, h, R, d, e) /\ t = UpRound(s, e)
    BY <1>3, <1>5
  <2>2. s.i \in Nat /\ k \in Nat
    BY <1>5 DEF UpState, Free
  <2>3. UpStopped(s, e) \/ s.i <= x - (k - 1)
    BY <1>5
  <2> HIDE DEF s, t
  <2>4. /\ UpState(t, h, R, d, e)
        /\ (UpStopped(s, e) /\ t = s) \/ t.i < s.i
    BY <2>1, UpRoundOK
  <2>5. t.i \in Nat
    BY <2>4 DEF UpState, Free
  <2>6. CASE UpStopped(s, e) /\ t = s
    BY <2>4, <2>6 DEF t
  <2>7. CASE t.i < s.i
    <3>1. ~UpStopped(s, e)
      <4>1. UpStopped(s, e) => t = s
        BY <2>1 DEF UpRound, UpStopped
      <4> QED
        BY <2>2, <2>5, <2>7, <4>1
    <3>2. t.i <= x - k
      BY <1>1, <2>2, <2>3, <2>5, <2>7, <3>1
    <3> QED
      BY <2>4, <3>2 DEF t
  <2> QED
    BY <2>4, <2>6, <2>7
<1> HIDE DEF Done
<1>6. Bad = {}
  <2> SUFFICES ASSUME Bad # {} PROVE FALSE
    OBVIOUS
  <2>1. PICK k \in Bad : \A j \in Bad : k <= j
    <3>1. Bad \in SUBSET Nat
      BY <1>1
    <3> HIDE DEF Bad
    <3> QED
      BY <3>1, LeastNumber
  <2>2. k # 0
    BY <1>4, <2>1
  <2>3. k \in 1..x /\ k - 1 \in 0..x /\ k - 1 \notin Bad
    BY <1>1, <2>1, <2>2
  <2> QED
    BY <1>5, <2>1, <2>3
<1> DEFINE f == r[x].m
           y == r[x].i
<1>7. /\ Free(f, R, d, y) /\ NotBelow(f, d, y, e) /\ SameTimes(f, h) /\ f.last = h.last
      /\ UpStopped(r[x], e) \/ y <= 0
  <2>1. x \in 0..x /\ x - x = 0
    BY <1>1
  <2>2. Done(x)
    BY <1>6, <2>1
  <2> QED
    BY <2>1, <2>2 DEF Done, UpState
<1>8. y \in Nat /\ y >= 1 /\ y \in 1..f.last /\ Filled(f, R, y)
  BY <1>7 DEF Free
<1>9. ~(y > 1 /\ ~EVTTIM_LE(f, f.evttim[f.node[y \div 2]], f.evttim[e]))
  BY <1>7, <1>8 DEF UpStopped, Time
<1> HIDE DEF f, y
<1>10. NotAbove(f, d, y, e)
  <2> DEFINE p == y \div 2
  <2> SUFFICES ASSUME y > 1 PROVE d[f.node[p]] <= d[e]
    BY DEF NotAbove
  <2>1. p \in 1..f.last /\ p # y
    <3>1. f.last \in Nat
      BY <1>7 DEF Free, HeapRec
    <3> QED
      BY <1>8, <3>1, HalfFacts
  <2>2. EVTTIM_LE(f, f.evttim[f.node[p]], f.evttim[e])
    BY <1>9
  <2> HIDE DEF p
  <2>3. f.node[p] \in R
    BY <1>8, <2>1 DEF Filled
  <2>4. Agree(f, d, R \union {e})
    BY <1>7, AgreeSame
  <2> QED
    BY <2>2, <2>3, <2>4 DEF Agree
<1>11. g = Put(f, y, e)
  BY <1>2 DEF f, y
<1>12. Heap(g, R \union {e}, d) /\ SameTimes(g, f) /\ g.last = f.last
  BY <1>7, <1>10, <1>11, FillFree
<1> QED
  BY <1>7, <1>12, SameTimesTrans

\* tmevt_down puts e into a node where the heap is in order.
LEMMA TmevtDownOK ==
  ASSUME NEW h, NEW R \in SUBSET Evt, NEW d \in [Evt -> Int], NEW x, NEW e \in Evt, e \notin R,
         Agree(h, d, R \union {e}), Free(h, R, d, x), NotAbove(h, d, x, e),
         NEW g, g = tmevt_down(h, x, e)
  PROVE  Heap(g, R \union {e}, d) /\ SameTimes(g, h) /\ g.last = h.last
<1> DEFINE n == h.last
<1>1. x \in Nat /\ x >= 1 /\ n \in Nat
  BY DEF Free, HeapRec
<1> HIDE DEF n
<1>2. PICK r : g = Put(r[n].m, r[n].i, e) /\ RoundsTo(FALSE, h, x, e, r, n)
  <2> DEFINE r == CHOOSE f : f = [k \in 0..n |-> IF k = 0 THEN [m |-> h, i |-> x]
                                                   ELSE DownRound(f[k - 1], e)]
  <2>1. g = Put(r[n].m, r[n].i, e)
    BY DEF tmevt_down, n
  <2>2. \A f : RoundsTo(FALSE, h, x, e, f, n) <=>
                 f = [k \in 0..n |-> IF k = 0 THEN [m |-> h, i |-> x] ELSE DownRound(f[k - 1], e)]
    BY DEF RoundsTo, Round
  <2>3. RoundsTo(FALSE, h, x, e, r, n)
    BY <1>1, <2>2, RoundsToExist
  <2> QED
    BY <2>1, <2>3
<1>3. r[0] = [m |-> h, i |-> x] /\ \A k \in 1..n : r[k] = DownRound(r[k - 1], e)
  <2>1. r = [k \in 0..n |-> IF k = 0 THEN [m |-> h, i |-> x] ELSE DownRound(r[k - 1], e)]
    BY <1>2 DEF RoundsTo, Round
  <2>2. \A k \in 0..n : r[k] = IF k = 0 THEN [m |-> h, i |-> x] ELSE DownRound(r[k - 1], e)
    BY <2>1
  <2>3. 0 \in 0..n /\ \A k \in 1..n : k \in 0..n /\ k # 0
    BY <1>1
  <2> QED
    BY <2>2, <2>3
<1> DEFINE Done(k) == /\ DownState(r[k], h, R, d, e)
                      /\ DownStopped(r[k], e) \/ r[k].i >= x + k
           Bad == {k \in 0..n : ~Done(k)}
<1>4. Done(0)
  <2>1. r[0].m = h /\ r[0].i = x /\ x >= x + 0
    BY <1>1, <1>3
  <2>2. SameTimes(h, h) /\ h.last = h.last
    BY DEF SameTimes
  <2> QED
    BY <2>1, <2>2 DEF DownState
<1>5. ASSUME NEW k \in 1..n, Done(k - 1) PROVE Done(k)
  <2> DEFINE s == r[k - 1]
             t == r[k]
  <2>1. DownState(s, h, R, d, e) /\ t = DownRound(s, e)
    BY <1>3, <1>5
  <2>2. s.i \in Nat /\ k \in Nat
    BY <1>5 DEF DownState, Free
  <2>3. DownStopped(s, e) \/ s.i >= x + (k - 1)
    BY <1>5
  <2> HIDE DEF s, t
  <2>4. /\ DownState(t, h, R, d, e)
        /\ (DownStopped(s, e) /\ t = s) \/ t.i > s.i
    BY <2>1, DownRoundOK
  <2>5. t.i \in Nat
    BY <2>4 DEF DownState, Free
  <2>6. CASE DownStopped(s, e) /\ t = s
    BY <2>4, <2>6 DEF t
  <2>7. CASE t.i > s.i
    <3>1. ~DownStopped(s, e)
      <4>1. DownStopped(s, e) => t = s
        BY <2>1 DEF DownRound, DownStopped
      <4> QED
        BY <2>2, <2>5, <2>7, <4>1
    <3>2. t.i >= x + k
      BY <1>1, <2>2, <2>3, <2>5, <2>7, <3>1
    <3> QED
      BY <2>4, <3>2 DEF t
  <2> QED
    BY <2>4, <2>6, <2>7
<1> HIDE DEF Done
<1>6. Bad = {}
  <2> SUFFICES ASSUME Bad # {} PROVE FALSE
    OBVIOUS
  <2>1. PICK k \in Bad : \A j \in Bad : k <= j
    <3>1. Bad \in SUBSET Nat
      BY <1>1
    <3> HIDE DEF Bad
    <3> QED
      BY <3>1, LeastNumber
  <2>2. k # 0
    BY <1>4, <2>1
  <2>3. k \in 1..n /\ k - 1 \in 0..n /\ k - 1 \notin Bad
    BY <1>1, <2>1, <2>2
  <2> QED
    BY <1>5, <2>1, <2>3
<1> DEFINE f == r[n].m
           y == r[n].i
<1>7. /\ Free(f, R, d, y) /\ NotAbove(f, d, y, e) /\ SameTimes(f, h) /\ f.last = h.last
      /\ DownStopped(r[n], e) \/ y >= x + n
  <2>1. n \in 0..n
    BY <1>1
  <2>2. Done(n)
    BY <1>6, <2>1
  <2> QED
    BY <2>1, <2>2 DEF Done, DownState
<1>8. y \in Nat /\ y >= 1 /\ y \in 1..f.last /\ Filled(f, R, y) /\ f \in HeapRec /\ f.last \in Nat
  <2> HIDE DEF f, y
  <2>1. f \in HeapRec /\ y \in 1..f.last /\ Filled(f, R, y)
    BY <1>7 DEF Free
  <2>2. f.last \in Nat
    BY <2>1 DEF HeapRec
  <2> QED
    BY <2>1, <2>2
<1>9. ~(2 * y <= f.last /\ ~EVTTIM_LE(f, f.evttim[e], f.evttim[f.node[Child(f, y)]]))
  <2>1. ~(y >= x + n)
    <3>1. f.last = n
      BY <1>7 DEF n
    <3> HIDE DEF f, y
    <3> QED
      BY <1>1, <1>8, <3>1
  <2>2. DownStopped(r[n], e)
    BY <1>7, <2>1
  <2> QED
    BY <2>2 DEF DownStopped, Time
<1> HIDE DEF f, y
<1>10. NotBelow(f, d, y, e)
  <2> DEFINE c == Child(f, y)
  <2> SUFFICES ASSUME NEW b \in 2..f.last, b \div 2 = y PROVE d[e] <= d[f.node[b]]
    BY DEF NotBelow
  <2>1. 2 * y <= f.last
    BY <1>8, HalfFacts
  <2>2. EVTTIM_LE(f, f.evttim[e], f.evttim[f.node[c]])
    BY <1>9, <2>1
  <2>3. Agree(f, d, R \union {e}) /\ Agree(f, d, R)
    <3>1. Agree(f, d, R \union {e})
      BY <1>7, AgreeSame
    <3> QED
      BY <3>1 DEF Agree
  <2>4. c \in 2..f.last /\ c \div 2 = y /\ d[f.node[c]] <= d[f.node[b]]
    <3>1. c = Child(f, y) /\ R \in SUBSET Evt /\ d \in [Evt -> Int]
      OBVIOUS
    <3> HIDE DEF c
    <3>2. /\ c \in 2..f.last /\ c \div 2 = y
          /\ \A j \in 2..f.last : j \div 2 = y => d[f.node[c]] <= d[f.node[j]]
      BY ONLY <1>8, <2>1, <2>3, <3>1, ChildFacts
    <3> QED
      BY <3>2
  <2> HIDE DEF c
  <2>5. c \in 1..f.last /\ c # y /\ b \in 1..f.last /\ b # y
    BY <1>8, <2>4, HalfFacts
  <2>6. /\ f.node[c] \in R /\ d[e] \in Int /\ d[f.node[c]] \in Int /\ d[f.node[b]] \in Int
    BY <1>8, <2>5 DEF Filled
  <2>7. d[e] <= d[f.node[c]]
    BY <2>2, <2>3, <2>6 DEF Agree
  <2> QED
    BY <2>4, <2>6, <2>7
<1>11. g = Put(f, y, e)
  BY <1>2 DEF f, y
<1>12. Heap(g, R \union {e}, d) /\ SameTimes(g, f) /\ g.last = f.last
  BY <1>7, <1>10, <1>11, FillFree
<1> QED
  BY <1>7, <1>12, SameTimesTrans

\* A node without children is not left.
LEMMA TmevtDownLeaf ==
  ASSUME NEW h \in HeapRec, NEW x \in Nat, 2 * x > h.last, NEW e
  PROVE  tmevt_down(h, x, e) = Put(h, x, e)
<1> DEFINE n == h.last
           g == tmevt_down(h, x, e)
<1>1. n \in Nat
  BY DEF HeapRec
<1>2. PICK r : g = Put(r[n].m, r[n].i, e) /\ RoundsTo(FALSE, h, x, e, r, n)
  <2> HIDE DEF n
  <2> DEFINE r == CHOOSE f : f = [k \in 0..n |-> IF k = 0 THEN [m |-> h, i |-> x]
                                                   ELSE DownRound(f[k - 1], e)]
  <2>1. g = Put(r[n].m, r[n].i, e)
    BY DEF tmevt_down, n
  <2>2. \A f : RoundsTo(FALSE, h, x, e, f, n) <=>
                 f = [k \in 0..n |-> IF k = 0 THEN [m |-> h, i |-> x] ELSE DownRound(f[k - 1], e)]
    BY DEF RoundsTo, Round
  <2>3. RoundsTo(FALSE, h, x, e, r, n)
    BY <1>1, <2>2, RoundsToExist
  <2> QED
    BY <2>1, <2>3
<1> HIDE DEF g
<1> DEFINE s == [m |-> h, i |-> x]
<1>3. r[0] = s /\ \A k \in 1..n : r[k] = DownRound(r[k - 1], e)
  <2>1. r = [k \in 0..n |-> IF k = 0 THEN s ELSE DownRound(r[k - 1], e)]
    BY <1>2 DEF RoundsTo, Round
  <2> HIDE DEF n, s
  <2>2. \A k \in 0..n : r[k] = IF k = 0 THEN s ELSE DownRound(r[k - 1], e)
    BY <2>1
  <2>3. 0 \in 0..n /\ \A k \in 1..n : k \in 0..n /\ k # 0
    BY <1>1
  <2> QED
    BY <2>2, <2>3
<1>4. DownRound(s, e) = s
  <2>1. s.m = h /\ s.i = x /\ ~(2 * s.i <= s.m.last)
    BY <1>1
  <2> HIDE DEF s
  <2> QED
    BY <2>1 DEF DownRound
<1> DEFINE Bad == {k \in 0..n : r[k] # s}
<1>5. Bad = {}
  <2> SUFFICES ASSUME Bad # {} PROVE FALSE
    OBVIOUS
  <2> HIDE DEF n, s
  <2>1. PICK k \in Bad : \A j \in Bad : k <= j
    <3>1. Bad \in SUBSET Nat
      BY <1>1
    <3> HIDE DEF Bad
    <3> QED
      BY <3>1, LeastNumber
  <2>2. k # 0
    BY <1>3, <2>1
  <2>3. k \in 1..n /\ k - 1 \in 0..n /\ ~(k <= k - 1)
    BY <1>1, <2>1, <2>2
  <2>4. r[k - 1] = s
    BY <2>1, <2>3
  <2> QED
    BY <1>3, <1>4, <2>1, <2>3, <2>4
<1>6. r[n] = s
  <2>1. n \in 0..n
    BY <1>1
  <2> QED
    BY <1>5, <2>1
<1> QED
  BY <1>2, <1>6 DEF g
-----------------------------------------------------------------------------
(* Registration and deletion of an event. *)

\* There is a node left for a block that is not in the heap.
LEMMA HeapRoom ==
  ASSUME NEW h, NEW R \in SUBSET Evt, NEW d, Heap(h, R, d), NEW e \in Evt, e \notin R
  PROVE  h.last \in Nat /\ h.last + 1 <= Blocks
<1>1. h.last \in Nat /\ Filled(h, R, 0)
  BY DEF Heap, HeapRec
<1> DEFINE f == [i \in 1..h.last |-> h.node[i]]
<1>2. \A i \in 1..h.last : f[i] \in R /\ h.at[f[i]] = i
  <2>1. \A i \in 1..h.last : i # 0
    BY <1>1
  <2> QED
    BY <1>1, <2>1 DEF Filled
<1>3. f \in [1..h.last -> R]
  BY <1>2
<1> HIDE DEF f
<1>4. f \in Injection(1..h.last, R)
  BY <1>2, <1>3 DEF Injection, IsInjective
<1>5. IsFiniteSet(R) /\ IsFiniteSet(Evt \ {e}) /\ Cardinality(Evt \ {e}) = Blocks - 1
      /\ Cardinality(R) <= Blocks - 1
  <2>1. IsFiniteSet(Evt \ {e}) /\ Cardinality(Evt \ {e}) = Blocks - 1
    BY BlocksNat, FS_RemoveElement DEF Blocks
  <2>2. R \in SUBSET (Evt \ {e})
    OBVIOUS
  <2> QED
    BY <2>1, <2>2, FS_Subset
<1>6. Cardinality(1..h.last) <= Cardinality(R)
  BY <1>4, <1>5, FS_Injection
<1>7. Cardinality(1..h.last) = h.last
  <2> DEFINE n == h.last
  <2>1. n \in Int /\ 1 \in Int /\ n \in Nat
    BY <1>1
  <2> HIDE DEF n
  <2>2. Cardinality(1..n) = IF 1 > n THEN 0 ELSE n - 1 + 1
    BY <2>1, FS_Interval
  <2> QED
    BY <2>1, <2>2 DEF n
<1>8. Cardinality(R) \in Nat
  BY <1>5, FS_CardinalityType
<1> QED
  BY <1>1, <1>5, <1>6, <1>7, <1>8, BlocksNat

\* tmevtb_insert keeps the heap.
LEMMA InsertOK ==
  ASSUME NEW h, NEW R \in SUBSET Evt, NEW d \in [Evt -> Int], NEW e \in Evt, e \notin R,
         Heap(h, R, d), Agree(h, d, R \union {e}), NEW g, g = tmevtb_insert(h, e)
  PROVE  Heap(g, R \union {e}, d) /\ SameTimes(g, h) /\ g.last = h.last + 1
<1> DEFINE x == h.last + 1
           k == [h EXCEPT !.last = x]
<1>1. h \in HeapRec /\ h.last \in Nat /\ x <= Blocks /\ x \in Nat /\ x >= 1
      /\ Filled(h, R, 0) /\ Ordered(h, d, 0)
  <2>1. h.last \in Nat /\ h.last + 1 <= Blocks
    BY HeapRoom
  <2> QED
    BY <2>1 DEF Heap
<1>2. k \in HeapRec /\ SameTimes(k, h) /\ k.last = x /\ k.node = h.node /\ k.at = h.at
  <2>1. k.last = x /\ k.node = h.node /\ k.at = h.at /\ SameTimes(k, h)
    BY <1>1 DEF HeapRec, SameTimes
  <2>2. k \in HeapRec
    BY <1>1 DEF HeapRec
  <2> QED
    BY <2>1, <2>2
<1>3. g = tmevt_up(k, x, e)
  BY DEF tmevtb_insert
<1>4. \A i \in 1..x : i # x => i \in 1..h.last /\ i # 0 /\ (i >= 2 => i \in 2..h.last)
  BY <1>1
<1>5. \A i \in 1..h.last : i # x /\ i \in 1..x
  BY <1>1
<1> HIDE DEF x, k
<1>6. Filled(k, R, x)
  BY <1>1, <1>2, <1>4, <1>5 DEF Filled
<1>7. Ordered(k, d, x)
  <2> SUFFICES ASSUME NEW i \in 2..k.last, i # x, i \div 2 # x
               PROVE  d[k.node[i \div 2]] <= d[k.node[i]]
    BY DEF Ordered
  <2>1. i \in 2..h.last /\ i # 0 /\ i \div 2 # 0
    BY <1>1, <1>2, HalfFacts DEF x
  <2> QED
    BY <1>1, <1>2, <2>1 DEF Ordered
<1>8. \A c \in 2..k.last : c \div 2 # x
  BY <1>1, <1>2, HalfFacts
<1>9. Free(k, R, d, x) /\ NotBelow(k, d, x, e)
  <2>1. x \in 1..x
    BY <1>1
  <2> QED
    BY <1>1, <1>2, <1>6, <1>7, <1>8, <2>1 DEF Free, Bridged, NotBelow
<1>10. Agree(k, d, R \union {e})
  BY <1>2, AgreeSame
<1>11. Heap(g, R \union {e}, d) /\ SameTimes(g, k) /\ g.last = k.last
  BY <1>3, <1>9, <1>10, TmevtUpOK
<1> QED
  BY <1>2, <1>11, SameTimesTrans DEF x

\* Deletion of the last block: the heap becomes shorter.
LEMMA ShorterHeap ==
  ASSUME NEW h, NEW R \in SUBSET Evt, NEW d \in [Evt -> Int], NEW e \in R,
         Heap(h, R, d), h.at[e] = h.last,
         NEW g \in HeapRec, SameTimes(g, h), g.last = h.last - 1,
         g.node = h.node, g.at = h.at
  PROVE  Heap(g, R \ {e}, d)
<1>1. h \in HeapRec /\ h.last \in Nat /\ h.last <= Blocks /\ Blocks \in Nat
      /\ Filled(h, R, 0) /\ Ordered(h, d, 0)
  BY BlocksNat DEF Heap, HeapRec
<1>2. h.last \in 1..h.last /\ h.node[h.last] = e
  BY <1>1 DEF Filled
<1>3. \A i \in 1..g.last : i \in 1..h.last /\ i # h.last /\ i # 0
  BY <1>1
<1>4. Filled(g, R \ {e}, 0)
  <2>1. ASSUME NEW i \in 1..g.last PROVE g.node[i] \in R \ {e} /\ g.at[g.node[i]] = i
    BY <1>1, <1>3 DEF Filled
  <2>2. ASSUME NEW b \in R \ {e} PROVE g.at[b] \in 1..g.last /\ g.at[b] # 0 /\ g.node[g.at[b]] = b
    <3>1. h.at[b] \in 1..h.last /\ h.node[h.at[b]] = b
      BY <1>1 DEF Filled
    <3>2. h.at[b] # h.last
      BY <1>2, <3>1
    <3> QED
      BY <1>1, <3>1, <3>2
  <2> QED
    BY <2>1, <2>2 DEF Filled
<1>5. Ordered(g, d, 0)
  <2> SUFFICES ASSUME NEW i \in 2..g.last, i # 0, i \div 2 # 0
               PROVE  d[g.node[i \div 2]] <= d[g.node[i]]
    BY DEF Ordered
  <2>1. i \in 2..h.last
    BY <1>1
  <2> QED
    BY <1>1, <2>1 DEF Ordered
<1> QED
  BY <1>1, <1>4, <1>5 DEF Heap

\* Deletion of another block leaves its node free, and the last block without one.
LEMMA HoleHeap ==
  ASSUME NEW h, NEW R \in SUBSET Evt, NEW d \in [Evt -> Int], NEW e \in R,
         Heap(h, R, d), NEW x, x = h.at[e], x # h.last,
         NEW g \in HeapRec, SameTimes(g, h), g.last = h.last - 1,
         g.node = h.node, g.at = h.at, NEW f, f = h.node[h.last]
  PROVE  /\ f \in R /\ f # e /\ Free(g, R \ {e, f}, d, x)
         /\ \A c \in 1..h.last : h.node[c] \in R
<1>1. h \in HeapRec /\ h.last \in Nat /\ h.last <= Blocks /\ Blocks \in Nat
      /\ Filled(h, R, 0) /\ Ordered(h, d, 0)
  BY BlocksNat DEF Heap, HeapRec
<1>2. x \in 1..h.last /\ h.node[x] = e /\ x \in 1..g.last /\ x # 0
  BY <1>1 DEF Filled
<1>3. \A c \in 1..h.last : h.node[c] \in R /\ h.at[h.node[c]] = c /\ d[h.node[c]] \in Int
  <2>1. \A c \in 1..h.last : c # 0
    OBVIOUS
  <2> QED
    BY <1>1, <2>1 DEF Filled
<1>4. h.last \in 1..h.last /\ f \in R /\ f # e /\ h.at[f] = h.last
  BY <1>1, <1>2, <1>3
<1>5. \A i \in 1..g.last : i \in 1..h.last /\ i # h.last /\ i # 0
  BY <1>1
<1>6. Filled(g, R \ {e, f}, x)
  <2>1. ASSUME NEW i \in 1..g.last, i # x
        PROVE  g.node[i] \in R \ {e, f} /\ g.at[g.node[i]] = i
    BY <1>2, <1>3, <1>4, <1>5, <2>1
  <2>2. ASSUME NEW b \in R \ {e, f}
        PROVE  g.at[b] \in 1..g.last /\ g.at[b] # x /\ g.node[g.at[b]] = b
    <3>1. h.at[b] \in 1..h.last /\ h.node[h.at[b]] = b
      BY <1>1 DEF Filled
    <3>2. h.at[b] # h.last /\ h.at[b] # x
      BY <1>2, <3>1
    <3> QED
      BY <1>1, <3>1, <3>2
  <2> QED
    BY <2>1, <2>2 DEF Filled
<1>7. \A i \in 2..h.last : /\ d[h.node[i \div 2]] <= d[h.node[i]] /\ d[h.node[i]] \in Int
                           /\ d[h.node[i \div 2]] \in Int
  <2> SUFFICES ASSUME NEW i \in 2..h.last
               PROVE  /\ d[h.node[i \div 2]] <= d[h.node[i]] /\ d[h.node[i]] \in Int
                      /\ d[h.node[i \div 2]] \in Int
    OBVIOUS
  <2>1. i \in 1..h.last /\ i \div 2 \in 1..h.last /\ i # 0 /\ i \div 2 # 0
    BY <1>1, HalfFacts
  <2> QED
    BY <1>1, <1>3, <2>1 DEF Ordered
<1>8. \A i \in 2..g.last : i \in 2..h.last
  BY <1>1
<1>9. Ordered(g, d, x)
  BY <1>7, <1>8 DEF Ordered
<1>10. Bridged(g, d, x)
  <2> SUFFICES ASSUME NEW c \in 2..g.last, c \div 2 = x, x > 1
               PROVE  d[g.node[x \div 2]] <= d[g.node[c]]
    BY DEF Bridged
  <2>1. d[h.node[x]] <= d[h.node[c]] /\ d[h.node[x]] \in Int /\ d[h.node[c]] \in Int
    BY <1>7, <1>8
  <2>2. x \in 2..h.last
    BY <1>1, <1>2
  <2>3. d[h.node[x \div 2]] <= d[h.node[x]] /\ d[h.node[x \div 2]] \in Int
    BY <1>7, <2>2
  <2> QED
    BY <2>1, <2>3
<1> QED
  BY <1>1, <1>2, <1>3, <1>4, <1>6, <1>9, <1>10 DEF Free

\* tmevtb_delete keeps the heap of the other blocks.
LEMMA DeleteOK ==
  ASSUME NEW h, NEW R \in SUBSET Evt, NEW d \in [Evt -> Int], NEW e \in R,
         Heap(h, R, d), Agree(h, d, R), NEW g, g = tmevtb_delete(h, e)
  PROVE  Heap(g, R \ {e}, d) /\ SameTimes(g, h) /\ g.last = h.last - 1
<1> DEFINE x == h.at[e]
           f == h.node[h.last]
           k == [h EXCEPT !.last = h.last - 1]
<1>1. h \in HeapRec /\ h.last \in Nat /\ h.last <= Blocks /\ Blocks \in Nat
      /\ Filled(h, R, 0) /\ Ordered(h, d, 0)
  BY BlocksNat DEF Heap, HeapRec
<1>2. x \in 1..h.last /\ h.node[x] = e /\ x \in Nat /\ h.last >= 1
  BY <1>1 DEF Filled
<1>3. k \in HeapRec /\ SameTimes(k, h) /\ k.last = h.last - 1 /\ k.node = h.node /\ k.at = h.at
  <2>1. k.last = h.last - 1 /\ k.node = h.node /\ k.at = h.at /\ SameTimes(k, h)
    BY <1>1 DEF HeapRec, SameTimes
  <2>2. k \in HeapRec
    <3> DEFINE n == h.last - 1
    <3>1. n \in Nat /\ k = [h EXCEPT !.last = n]
      BY <1>1, <1>2
    <3> HIDE DEF n, k
    <3> QED
      BY <1>1, <3>1 DEF HeapRec
  <2> QED
    BY <2>1, <2>2
<1>4. g = IF k.last = 0 THEN k
          ELSE IF x > 1 /\ EVTTIM_LT(h, h.evttim[f], Time(h, x \div 2))
               THEN tmevt_up(Put(k, x, h.node[x \div 2]), x \div 2, f)
               ELSE tmevt_down(k, x, f)
  BY DEF tmevtb_delete
<1> HIDE DEF k, x, f
<1>5. CASE x = h.last
  <2>1. f = e
    BY <1>2, <1>5 DEF f
  <2>2. Heap(k, R \ {e}, d)
    <3>1. h.at[e] = h.last
      BY <1>5 DEF x
    <3> QED
      BY <1>3, <3>1, ShorterHeap
  <2>3. CASE k.last = 0
    BY <1>3, <1>4, <2>2, <2>3
  <2>4. CASE k.last # 0
    <3>1. x \in 2..h.last /\ x # 0 /\ x \div 2 # 0 /\ x \div 2 \in 1..h.last
      BY <1>1, <1>2, <1>3, <1>5, <2>4, HalfFacts
    <3>2. d[h.node[x \div 2]] <= d[e] /\ h.node[x \div 2] \in R
      <4>1. d[h.node[x \div 2]] <= d[h.node[x]]
        BY <1>1, <3>1 DEF Ordered
      <4>2. h.node[x \div 2] \in R
        BY <1>1, <3>1 DEF Filled
      <4> QED
        BY <1>2, <4>1, <4>2
    <3>3. ~EVTTIM_LT(h, h.evttim[f], Time(h, x \div 2))
      <4>1. e \in R /\ d[e] \in Int /\ d[h.node[x \div 2]] \in Int
        BY <3>2
      <4>2. ~(d[e] < d[h.node[x \div 2]])
        BY <3>2, <4>1
      <4> QED
        BY <2>1, <3>2, <4>2 DEF Agree, Time
    <3>4. g = tmevt_down(k, x, e)
      BY <1>4, <2>1, <2>4, <3>3
    <3>5. g = Put(k, x, e)
      <4>1. 2 * x > k.last /\ x \in Nat
        BY <1>1, <1>2, <1>3, <1>5
      <4> QED
        BY <1>3, <3>4, <4>1, TmevtDownLeaf
    <3>6. /\ g \in HeapRec /\ SameTimes(g, k) /\ g.last = k.last
          /\ \A j \in 1..Blocks : j # x => g.node[j] = k.node[j]
          /\ \A b \in Evt : b # e => g.at[b] = k.at[b]
      <4>1. x \in 1..Blocks /\ e \in Evt
        BY <1>1, <1>2
      <4> QED
        BY <1>3, <3>5, <4>1, PutFacts
    <3>7. \A j \in 1..k.last : j \in 1..Blocks /\ j # x
      BY <1>1, <1>3, <1>5
    <3>8. /\ \A j \in 1..k.last : g.node[j] = k.node[j]
          /\ \A b \in R \ {e} : g.at[b] = k.at[b]
      BY <3>6, <3>7
    <3>9. Filled(g, R \ {e}, 0) /\ Ordered(g, d, 0)
      <4>1. /\ \A i \in 1..k.last : i # 0 => k.node[i] \in R \ {e} /\ k.at[k.node[i]] = i
            /\ \A b \in R \ {e} : k.at[b] \in 1..k.last /\ k.at[b] # 0 /\ k.node[k.at[b]] = b
            /\ \A i \in 2..k.last : i # 0 /\ i \div 2 # 0 => d[k.node[i \div 2]] <= d[k.node[i]]
        BY <2>2 DEF Heap, Filled, Ordered
      <4>2. Filled(g, R \ {e}, 0)
        BY <3>6, <3>8, <4>1 DEF Filled
      <4>3. Ordered(g, d, 0)
        <5> SUFFICES ASSUME NEW i \in 2..g.last, i # 0, i \div 2 # 0
                     PROVE  d[g.node[i \div 2]] <= d[g.node[i]]
          BY DEF Ordered
        <5>1. i \in 2..k.last /\ i \in 1..k.last /\ i \div 2 \in 1..k.last
          BY <1>1, <1>3, <3>6, HalfFacts
        <5> QED
          BY <3>8, <4>1, <5>1
      <4> QED
        BY <4>2, <4>3
    <3>10. Heap(g, R \ {e}, d) /\ SameTimes(g, h) /\ g.last = h.last - 1
      <4>1. SameTimes(g, h)
        BY <1>3, <3>6, SameTimesTrans
      <4> QED
        BY <1>1, <1>3, <3>6, <3>9, <4>1 DEF Heap
    <3> QED
      BY <3>10
  <2> QED
    BY <2>3, <2>4
<1>6. CASE x # h.last
  <2> DEFINE S == R \ {e, f}
  <2>1. /\ f \in R /\ f # e /\ Free(k, S, d, x)
        /\ \A c \in 1..h.last : h.node[c] \in R
    BY <1>3, <1>6, HoleHeap DEF x, f
  <2>2. S \in SUBSET Evt /\ f \in Evt /\ f \notin S /\ S \union {f} = R \ {e}
        /\ S \union {f} \in SUBSET R
    BY <2>1
  <2> HIDE DEF S
  <2>3. k.last # 0 /\ k.last \in Nat
    BY <1>1, <1>2, <1>3, <1>6
  <2>4. Agree(k, d, S \union {f})
    <3>1. Agree(h, d, S \union {f})
      BY <2>2 DEF Agree
    <3> QED
      BY <1>3, <3>1, AgreeSame
  <2>5. x > 1 => /\ h.node[x \div 2] \in R /\ d[h.node[x \div 2]] \in Int /\ d[f] \in Int
                 /\ EVTTIM_LT(h, h.evttim[f], Time(h, x \div 2)) <=> d[f] < d[h.node[x \div 2]]
    <3>1. SUFFICES ASSUME x > 1
                   PROVE  /\ h.node[x \div 2] \in R /\ d[h.node[x \div 2]] \in Int /\ d[f] \in Int
                          /\ EVTTIM_LT(h, h.evttim[f], Time(h, x \div 2)) <=> d[f] < d[h.node[x \div 2]]
      OBVIOUS
    <3>2. x \div 2 \in 1..h.last
      BY <1>1, <1>2, <3>1, HalfFacts
    <3> DEFINE q == h.node[x \div 2]
    <3>3. q \in R /\ f \in R /\ d[q] \in Int /\ d[f] \in Int
      BY <2>1, <3>2
    <3> HIDE DEF q
    <3>4. EVTTIM_LT(h, h.evttim[f], h.evttim[q]) <=> d[f] < d[q]
      BY <3>3 DEF Agree
    <3> QED
      BY <3>3, <3>4 DEF q, Time
  <2>6. CASE x > 1 /\ EVTTIM_LT(h, h.evttim[f], Time(h, x \div 2))
    <3> DEFINE j == Put(k, x, k.node[x \div 2])
               p == x \div 2
    <3>1. g = tmevt_up(j, p, f)
      BY <1>3, <1>4, <2>3, <2>6
    <3>2. x > 1 /\ d[f] <= d[k.node[x \div 2]]
      BY <1>3, <2>5, <2>6
    <3>3. Free(j, S, d, p) /\ NotBelow(j, d, p, f) /\ SameTimes(j, k) /\ j.last = k.last
      BY <2>1, <2>2, <3>2, UpMove
    <3> HIDE DEF j, p
    <3>4. Agree(j, d, S \union {f})
      BY <2>4, <3>3, AgreeSame
    <3>5. Heap(g, S \union {f}, d) /\ SameTimes(g, j) /\ g.last = j.last
      BY <2>2, <3>1, <3>3, <3>4, TmevtUpOK
    <3>6. SameTimes(g, k) /\ SameTimes(g, h)
      BY <1>3, <3>3, <3>5, SameTimesTrans
    <3> QED
      BY <1>3, <2>2, <3>3, <3>5, <3>6
  <2>7. CASE ~(x > 1 /\ EVTTIM_LT(h, h.evttim[f], Time(h, x \div 2)))
    <3>1. g = tmevt_down(k, x, f)
      BY <1>4, <2>3, <2>7
    <3>2. NotAbove(k, d, x, f)
      BY <1>3, <2>5, <2>7 DEF NotAbove
    <3>3. Heap(g, S \union {f}, d) /\ SameTimes(g, k) /\ g.last = k.last
      BY <2>1, <2>2, <2>4, <3>1, <3>2, TmevtDownOK
    <3>4. SameTimes(g, h)
      BY <1>3, <3>3, SameTimesTrans
    <3> QED
      BY <1>3, <2>2, <3>3, <3>4
  <2> QED
    BY <2>6, <2>7
<1> QED
  BY <1>5, <1>6

\* tmevtb_delete_top deletes the block of the first node.
LEMMA DeleteTopOK ==
  ASSUME NEW h, NEW R \in SUBSET Evt, NEW d \in [Evt -> Int], h.last > 0,
         Heap(h, R, d), Agree(h, d, R), NEW g, g = tmevtb_delete_top(h)
  PROVE  /\ Top(h) \in R /\ h.at[Top(h)] = 1
         /\ Heap(g, R \ {Top(h)}, d) /\ SameTimes(g, h) /\ g.last = h.last - 1
<1> DEFINE e == Top(h)
<1>1. h.last \in Nat /\ Filled(h, R, 0)
  BY DEF Heap, HeapRec
<1>2. e \in R /\ h.at[e] = 1
  <2>1. 1 \in 1..h.last /\ 1 # 0
    BY <1>1
  <2> QED
    BY <1>1, <2>1 DEF Filled, Top
<1>3. g = tmevtb_delete(h, e)
  <2> HIDE DEF e
  <2>1. ~(1 > 1)
    OBVIOUS
  <2> QED
    BY <1>2, <2>1 DEF tmevtb_delete, tmevtb_delete_top
<1> HIDE DEF e
<1>4. Heap(g, R \ {e}, d) /\ SameTimes(g, h) /\ g.last = h.last - 1
  BY <1>2, <1>3, DeleteOK
<1> QED
  BY <1>2, <1>4 DEF e

\* The block of the first node is the earliest.
LEMMA TopIsFirst ==
  ASSUME NEW h, NEW R \in SUBSET Evt, NEW d \in [Evt -> Int], Heap(h, R, d)
  PROVE  \A b \in R : h.last > 0 /\ d[Top(h)] <= d[b] /\ Top(h) \in R
<1>1. h.last \in Nat /\ Filled(h, R, 0) /\ Ordered(h, d, 0)
  BY DEF Heap, HeapRec
<1>2. \A i \in 1..h.last : h.node[i] \in R /\ d[h.node[i]] \in Int
  <2>1. \A i \in 1..h.last : i # 0
    OBVIOUS
  <2> QED
    BY <1>1, <2>1 DEF Filled
<1> DEFINE Bad == {i \in 1..h.last : ~(d[h.node[1]] <= d[h.node[i]])}
<1>3. Bad = {}
  <2> SUFFICES ASSUME Bad # {} PROVE FALSE
    OBVIOUS
  <2>1. PICK i \in Bad : \A j \in Bad : i <= j
    <3>1. Bad \in SUBSET Nat
      OBVIOUS
    <3> HIDE DEF Bad
    <3> QED
      BY <3>1, LeastNumber
  <2>2. i \in 1..h.last /\ i # 1
    BY <1>2, <2>1
  <2>3. i \in 2..h.last /\ i \div 2 \in 1..h.last /\ i \div 2 < i /\ i # 0 /\ i \div 2 # 0
    BY <1>1, <2>2, HalfFacts
  <2>4. i \div 2 \notin Bad
    <3>1. i \in Nat /\ i \div 2 \in Nat /\ ~(i <= i \div 2)
      BY <2>3
    <3> QED
      BY <2>1, <3>1
  <2>5. d[h.node[1]] <= d[h.node[i \div 2]]
    BY <2>3, <2>4
  <2>6. d[h.node[i \div 2]] <= d[h.node[i]]
    BY <1>1, <2>3 DEF Ordered
  <2>7. 1 \in 1..h.last
    BY <1>1, <2>2
  <2>8. d[h.node[1]] <= d[h.node[i]]
    BY <1>2, <2>2, <2>3, <2>5, <2>6, <2>7
  <2> QED
    BY <2>1, <2>8
<1>4. ASSUME NEW b \in R PROVE h.last > 0 /\ d[Top(h)] <= d[b] /\ Top(h) \in R
  <2>1. h.at[b] \in 1..h.last /\ h.node[h.at[b]] = b
    BY <1>1 DEF Filled
  <2>2. h.last > 0 /\ 1 \in 1..h.last
    BY <1>1, <2>1
  <2>3. h.at[b] \notin Bad
    BY <1>3
  <2> QED
    BY <1>2, <2>1, <2>2, <2>3 DEF Top
<1> QED
  BY <1>4
-----------------------------------------------------------------------------
(* The clock.                                                               *)

\* The time since the last update of the current event time; how far the system
\* time is ahead of the event time that was set back.
ElapsedOf(h) == (h.count - h.hrtcnt) % HRTMOD
LeadOf(h)    == (h.monotonic - h.current) % EVTMOD

\* The system time an update would lead to.
Shown(h) == h.offset + h.monotonic
            + (IF ElapsedOf(h) > LeadOf(h) THEN ElapsedOf(h) - LeadOf(h) ELSE 0)

\* The moduli, and the numbers that are smaller.
LEMMA Moduli ==
  /\ EVTMOD \in Nat \ {0} /\ HRTMOD \in Nat \ {0} /\ HRTMOD <= EVTMOD
  /\ BOUNDARY_MARGIN \in Nat /\ HRTCNT_BOUND \in Nat /\ TSTEP_HRTCNT \in Nat
  /\ TMAX_RELTIM \in Nat /\ TMAX_ADJTIM \in Nat /\ HRTCNT_BOUND < HRTMOD
  /\ TMAX_RELTIM + TSTEP_HRTCNT + BOUNDARY_MARGIN + 2 * TMAX_ADJTIM < EVTMOD
  /\ 2 * TMAX_ADJTIM <= BOUNDARY_MARGIN
<1>1. /\ EVTMOD \in Nat /\ HRTMOD \in Nat /\ HRTMOD <= EVTMOD
      /\ BOUNDARY_MARGIN \in Nat /\ HRTCNT_BOUND \in Nat /\ TSTEP_HRTCNT \in Nat
      /\ TMAX_RELTIM \in Nat /\ TMAX_ADJTIM \in Nat /\ HRTCNT_BOUND < HRTMOD
      /\ TMAX_RELTIM + TSTEP_HRTCNT + BOUNDARY_MARGIN + 2 * TMAX_ADJTIM < EVTMOD
      /\ 2 * TMAX_ADJTIM <= BOUNDARY_MARGIN
  BY TimeEventAssumption
<1> QED
  BY <1>1

\* What is in a state of the time events.
LEMMA RecFacts ==
  ASSUME NEW h \in HeapRec
  PROVE  /\ h.last \in Nat /\ h.evttim \in [Evt -> Nat] /\ h.current \in Nat /\ h.boundary \in Nat
         /\ h.monotonic \in Nat /\ h.offset \in Int /\ h.insignal \in BOOLEAN
         /\ h.hrtcnt \in Nat /\ h.count \in Nat /\ h.fire \in Nat
BY DEF HeapRec

\* What the heap is made of stays the same.
SameHeap(g, h) == g.node = h.node /\ g.at = h.at /\ g.last = h.last

\* monotonic_evttim follows current_evttim, which has gone forward by n.
LEMMA MonotonicOK ==
  ASSUME NEW h \in HeapRec, h.monotonic \in 0..(EVTMOD - 1), NEW cur \in Int,
         NEW n \in 0..(EVTMOD - 1), h.current = (cur + n) % EVTMOD,
         NEW L, L = (h.monotonic - (cur % EVTMOD)) % EVTMOD,
         NEW g, g = Monotonic(h, cur % EVTMOD, n)
  PROVE  /\ g \in HeapRec /\ SameHeap(g, h) /\ g.evttim = h.evttim
         /\ g.current = h.current /\ g.boundary = h.boundary /\ g.insignal = h.insignal
         /\ g.hrtcnt = h.hrtcnt /\ g.count = h.count /\ g.fire = h.fire
         /\ g.monotonic \in 0..(EVTMOD - 1)
         /\ LeadOf(g) = (IF L < n THEN 0 ELSE L - n)
         /\ Systim(g) = Systim(h) + (IF L < n THEN n - L ELSE 0)
<1> DEFINE E == EVTMOD
           mono == h.monotonic
           prev == cur % E
<1>1. E \in Nat \ {0}
  BY Moduli
<1>2. /\ prev \in 0..(E - 1) /\ mono \in 0..(E - 1) /\ mono - prev \in Int
      /\ h.current \in 0..(E - 1) /\ h.offset \in Int /\ cur + n \in Int /\ n \in 0..(E - 1)
  <2>1. prev \in 0..(E - 1) /\ cur + n \in Int
    BY <1>1
  <2> DEFINE y == cur + n
  <2>2. y % E \in 0..(E - 1)
    <3> HIDE DEF y
    <3>1. y \in Int
      BY <2>1 DEF y
    <3> QED
      BY <1>1, <3>1, ModFacts
  <2> HIDE DEF prev
  <2> QED
    BY <1>1, <2>1, <2>2, RecFacts
<1>3. L = (mono - prev) % E
  OBVIOUS
<1>4. PICK p \in Int : cur = E * p + prev
  BY <1>1, ModFacts
<1> HIDE DEF prev
<1>5. PICK q \in Int : mono - prev = E * q + L
  <2> DEFINE y == mono - prev
  <2>1. y \in Int /\ L = y % E
    BY <1>2, <1>3
  <2> HIDE DEF y
  <2>2. \E q \in Int : y = E * q + L
    BY <1>1, <2>1, ModFacts
  <2> QED
    BY <2>2 DEF y
<1>6. L \in 0..(E - 1)
  <2> DEFINE y == mono - prev
  <2>1. y \in Int /\ L = y % E
    BY <1>2, <1>3
  <2> HIDE DEF y
  <2> QED
    BY <1>1, <2>1, ModFacts
<1>7. E * (p - q) = E * p - E * q /\ E * (q - p) = E * q - E * p
      /\ p - q \in Int /\ q - p \in Int
  BY <1>1
<1>8. h.current = (cur + n) % E
  OBVIOUS
<1> HIDE DEF E, mono
<1>9. CASE L < n
  <2> DEFINE off == IF h.current < mono THEN h.offset + E ELSE h.offset
  <2>1. g = [h EXCEPT !.monotonic = h.current, !.offset = off]
    BY <1>3, <1>9 DEF Monotonic, E, mono, prev
  <2>2. off \in Int
    BY <1>1, <1>2
  <2>3. off + h.current = h.offset + mono + (n - L)
    <3> DEFINE a == cur + n
               b == mono + (n - L)
    <3>1. a = b + E * (p - q) /\ a \in Int /\ b \in Int
      BY <1>1, <1>2, <1>4, <1>5, <1>6, <1>7
    <3>2. h.current = a % E
      BY <1>8
    <3>3. b \in 1..(2 * E - 1) /\ b > mono /\ b - E < mono
      BY <1>1, <1>2, <1>6, <1>9
    <3>4. b - E \in Int /\ b - E = b + E * (-1) /\ b = (b - E) + E * 1
      BY <1>1, <3>1
    <3> HIDE DEF a, b
    <3>5. h.current = b % E
      <4> DEFINE z == p - q
      <4>1. a = b + E * z /\ z \in Int
        BY <3>1, <1>7
      <4> HIDE DEF z
      <4> QED
        BY <1>1, <3>1, <3>2, <4>1, ModTurn
    <3>6. CASE b < E
      <4>1. b \in 0..(E - 1)
        BY <1>1, <3>3, <3>6
      <4>2. h.current = b
        BY <1>1, <3>5, <4>1, ModSmall
      <4>3. ~(h.current < mono)
        BY <1>2, <3>3, <4>2
      <4> QED
        BY <1>2, <1>6, <4>2, <4>3 DEF b
    <3>7. CASE b >= E
      <4> DEFINE y == b - E
      <4>1. y \in 0..(E - 1) /\ b = y + E * 1 /\ y \in Int
        BY <1>1, <3>1, <3>3, <3>7
      <4> HIDE DEF y
      <4>2. b % E = y % E
        <5>1. 1 \in Int /\ E \in Nat \ {0} /\ b \in Int
          BY <1>1, <3>1
        <5> QED
          BY ONLY <4>1, <5>1, ModTurn
      <4>3. h.current = y
        BY <1>1, <3>5, <4>1, <4>2, ModSmall
      <4>4. h.current < mono
        BY <3>3, <4>3 DEF y
      <4> QED
        BY <1>1, <1>2, <1>6, <4>3, <4>4 DEF b, y
    <3> QED
      BY <1>1, <3>1, <3>6, <3>7
  <2> HIDE DEF off
  <2>4. /\ g \in HeapRec /\ SameHeap(g, h) /\ g.evttim = h.evttim
        /\ g.current = h.current /\ g.boundary = h.boundary /\ g.insignal = h.insignal
        /\ g.hrtcnt = h.hrtcnt /\ g.count = h.count /\ g.fire = h.fire
        /\ g.monotonic = h.current /\ g.offset = off
    BY <2>1, <2>2 DEF HeapRec, SameHeap
  <2>5. LeadOf(g) = 0
    <3>1. h.current - h.current = 0 /\ 0 \in 0..(E - 1)
      BY <1>1, <1>2
    <3>2. 0 % E = 0
      BY <1>1, <3>1, ModSmall
    <3> QED
      BY <2>4, <3>1, <3>2 DEF LeadOf, E
  <2> QED
    BY <1>2, <1>9, <2>3, <2>4, <2>5 DEF Systim, E, mono
<1>10. CASE ~(L < n)
  <2>1. g = h
    BY <1>3, <1>10 DEF Monotonic, E, mono, prev
  <2>2. LeadOf(h) = L - n
    <3> DEFINE a == cur + n
               y == mono - a
               z == L - n
               w == q - p
    <3>1. y = E * w + z /\ z \in 0..(E - 1) /\ w \in Int /\ y \in Int /\ a \in Int
      BY <1>1, <1>2, <1>4, <1>5, <1>6, <1>7, <1>10
    <3>2. LeadOf(h) = (mono - (a % E)) % E
      BY <1>8 DEF LeadOf, E, mono
    <3>3. (mono - (a % E)) % E = (mono - a) % E
      <4>1. mono \in Int
        BY <1>2
      <4> HIDE DEF a
      <4> QED
        BY <1>1, <3>1, <4>1, ModSum
    <3>4. y % E = z
      <4> HIDE DEF y, z, w
      <4> QED
        BY <1>1, <3>1, ModUnique
    <3> QED
      BY <3>2, <3>3, <3>4
  <2>3. Systim(h) \in Int
    BY RecFacts DEF Systim
  <2> QED
    BY <1>2, <1>10, <2>1, <2>2, <2>3 DEF SameHeap, E, mono
<1> QED
  BY <1>9, <1>10

\* The current event time, at time t, is what the time was at the last update.
ClockOK(h, t) ==
  /\ h.current = (t - ElapsedOf(h)) % EVTMOD
  /\ h.boundary = (t - ElapsedOf(h) - BOUNDARY_MARGIN) % EVTMOD
  /\ LeadOf(h) <= 2 * TMAX_ADJTIM
  /\ h.count \in 0..(HRTMOD - 1) /\ h.hrtcnt \in 0..(HRTMOD - 1)
  /\ h.monotonic \in 0..(EVTMOD - 1)

\* The time x is near enough to be compared.
Near(h, t, x) ==
  /\ x \in Int /\ t - BOUNDARY_MARGIN <= x
  /\ x <= t - ElapsedOf(h) + LeadOf(h) + TSTEP_HRTCNT + TMAX_RELTIM

\* The registered blocks have the event times of their true times, all of them near.
EventsOK(h, R, d, t) ==
  \A e \in R : h.evttim[e] = d[e] % EVTMOD /\ Near(h, t, d[e])

\* A timer that was programmed comes before its counter wraps around.
FireOK(h) ==
  IF h.fire > 0 THEN ElapsedOf(h) + h.fire <= HRTCNT_BOUND
  ELSE ElapsedOf(h) <= HRTCNT_BOUND + MaxLate

\* The time events at time t: R are registered, for the times d.
BaseOK(h, R, d, t) ==
  /\ Heap(h, R, d) /\ ClockOK(h, t) /\ EventsOK(h, R, d, t) /\ FireOK(h)

\* TimerInTime.
InTime(h, R, d, t) ==
  (\A e \in R : h.fire = 0 \/ t + h.fire <= d[e]) /\ h.fire <= HRTCNT_BOUND

\* While signal_time works the timer is left alone.
TimerOK(h, R, d, t) == ~h.insignal => InTime(h, R, d, t)

\* What the kernel's functions keep, whoever calls them.
Kept(g, h) ==
  /\ g.insignal = h.insignal /\ Shown(g) = Shown(h)
  /\ h.insignal => g.fire = h.fire

\* The time since the last update and the lead are numbers.
LEMMA ElapsedNat ==
  ASSUME NEW h \in HeapRec
  PROVE  ElapsedOf(h) \in 0..(HRTMOD - 1) /\ LeadOf(h) \in 0..(EVTMOD - 1)
<1> DEFINE a == h.count - h.hrtcnt
           b == h.monotonic - h.current
<1>1. a \in Int /\ b \in Int
  BY RecFacts
<1> HIDE DEF a, b
<1>2. a % HRTMOD \in 0..(HRTMOD - 1) /\ b % EVTMOD \in 0..(EVTMOD - 1)
  BY <1>1, Moduli, ModFacts
<1> QED
  BY <1>2 DEF ElapsedOf, LeadOf, a, b

\* A time in the window keeps its place relative to the boundary.
LEMMA WindowPlace ==
  ASSUME NEW h \in HeapRec, NEW t \in Int, ClockOK(h, t), NEW x \in Int,
         NEW z, z = x - (t - ElapsedOf(h)) + BOUNDARY_MARGIN
  PROVE  /\ ADVANCE(h, x % EVTMOD) = z % EVTMOD
         /\ z \in 0..(EVTMOD - 1) => ADVANCE(h, x % EVTMOD) = z
<1> DEFINE b == t - ElapsedOf(h) - BOUNDARY_MARGIN
<1>1. b \in Int /\ z = x - b /\ z \in Int /\ h.boundary = b % EVTMOD
  BY ElapsedNat, Moduli DEF ClockOK
<1> HIDE DEF b
<1>2. ((x % EVTMOD) - (b % EVTMOD)) % EVTMOD = (x - b) % EVTMOD
  BY <1>1, Moduli, ModSum
<1>3. ADVANCE(h, x % EVTMOD) = z % EVTMOD
  BY <1>1, <1>2 DEF ADVANCE
<1>4. z \in 0..(EVTMOD - 1) => z % EVTMOD = z
  BY Moduli, ModSmall
<1> QED
  BY <1>3, <1>4

\* Times that are near are compared as they are.
LEMMA NearPlace ==
  ASSUME NEW h \in HeapRec, NEW t \in Int, ClockOK(h, t), NEW x, Near(h, t, x)
  PROVE  /\ ADVANCE(h, x % EVTMOD) = x - (t - ElapsedOf(h)) + BOUNDARY_MARGIN
         /\ ADVANCE(h, h.current) = BOUNDARY_MARGIN
         /\ x - (t - ElapsedOf(h)) + BOUNDARY_MARGIN \in 0..(EVTMOD - 1)
<1> DEFINE el == ElapsedOf(h)
           c == t - el
           z == x - c + BOUNDARY_MARGIN
<1>1. el \in Nat /\ LeadOf(h) \in Nat /\ LeadOf(h) <= 2 * TMAX_ADJTIM /\ x \in Int
  BY ElapsedNat, Moduli DEF ClockOK, Near
<1> HIDE DEF el
<1>2. z \in 0..(EVTMOD - 1)
  BY <1>1, Moduli DEF Near, el
<1>3. ADVANCE(h, x % EVTMOD) = z
  <2>1. z = x - (t - ElapsedOf(h)) + BOUNDARY_MARGIN
    BY DEF el
  <2> HIDE DEF z
  <2> QED
    BY <1>1, <1>2, <2>1, WindowPlace
<1>4. ADVANCE(h, h.current) = BOUNDARY_MARGIN
  <2>1. c \in Int /\ BOUNDARY_MARGIN = c - (t - ElapsedOf(h)) + BOUNDARY_MARGIN
        /\ BOUNDARY_MARGIN \in 0..(EVTMOD - 1) /\ h.current = c % EVTMOD
    BY <1>1, Moduli DEF ClockOK, el
  <2> HIDE DEF c
  <2>2. ADVANCE(h, c % EVTMOD) = BOUNDARY_MARGIN
    BY <2>1, WindowPlace
  <2> QED
    BY <2>1, <2>2
<1> QED
  BY <1>2, <1>3, <1>4 DEF el

\* Event times are compared as the times they stand for.
LEMMA BaseAgree ==
  ASSUME NEW h \in HeapRec, NEW R \in SUBSET Evt, NEW d \in [Evt -> Int], NEW t \in Int,
         ClockOK(h, t), EventsOK(h, R, d, t)
  PROVE  /\ Agree(h, d, R)
         /\ \A e \in R : EVTTIM_LE(h, h.evttim[e], h.current) <=> d[e] <= t - ElapsedOf(h)
<1>1. \A e \in R : /\ ADVANCE(h, h.evttim[e]) = d[e] - (t - ElapsedOf(h)) + BOUNDARY_MARGIN
                   /\ ADVANCE(h, h.current) = BOUNDARY_MARGIN /\ d[e] \in Int
  <2> SUFFICES ASSUME NEW e \in R
               PROVE  /\ ADVANCE(h, h.evttim[e]) = d[e] - (t - ElapsedOf(h)) + BOUNDARY_MARGIN
                      /\ ADVANCE(h, h.current) = BOUNDARY_MARGIN /\ d[e] \in Int
    OBVIOUS
  <2> DEFINE x == d[e]
  <2>1. h.evttim[e] = x % EVTMOD /\ Near(h, t, x) /\ x \in Int
    BY DEF EventsOK
  <2> HIDE DEF x
  <2>2. ADVANCE(h, x % EVTMOD) = x - (t - ElapsedOf(h)) + BOUNDARY_MARGIN
        /\ ADVANCE(h, h.current) = BOUNDARY_MARGIN
    BY <2>1, NearPlace
  <2> QED
    BY <2>1, <2>2 DEF x
<1>2. ElapsedOf(h) \in Int /\ BOUNDARY_MARGIN \in Int
  BY ElapsedNat, Moduli
<1>3. Agree(h, d, R)
  <2> SUFFICES ASSUME NEW a \in R, NEW b \in R
               PROVE  /\ EVTTIM_LE(h, h.evttim[a], h.evttim[b]) <=> d[a] <= d[b]
                      /\ EVTTIM_LT(h, h.evttim[a], h.evttim[b]) <=> d[a] < d[b]
    BY DEF Agree
  <2> QED
    BY <1>1, <1>2 DEF EVTTIM_LE, EVTTIM_LT
<1>4. ASSUME NEW e \in R
      PROVE  EVTTIM_LE(h, h.evttim[e], h.current) <=> d[e] <= t - ElapsedOf(h)
  BY <1>1, <1>2 DEF EVTTIM_LE
<1> QED
  BY <1>3, <1>4

\* The current event time goes forward, or back.
LEMMA AdvanceOK ==
  ASSUME NEW h \in HeapRec, NEW n \in Int, NEW g, g = Advance(h, n)
  PROVE  /\ g \in HeapRec /\ SameHeap(g, h) /\ g.evttim = h.evttim
         /\ g.current = (h.current + n) % EVTMOD
         /\ g.boundary = (g.current - BOUNDARY_MARGIN) % EVTMOD
         /\ g.monotonic = h.monotonic /\ g.offset = h.offset /\ g.insignal = h.insignal
         /\ g.hrtcnt = h.hrtcnt /\ g.count = h.count /\ g.fire = h.fire
<1> DEFINE s == h.current + n
           new == s % EVTMOD
           u == new - BOUNDARY_MARGIN
           bou == u % EVTMOD
<1>1. s \in Int
  BY RecFacts
<1>2. new \in Nat
  <2> HIDE DEF s
  <2> QED
    BY <1>1, Moduli, ModFacts
<1>3. bou \in Nat
  <2>1. u \in Int
    <3> HIDE DEF new
    <3> QED
      BY <1>2, Moduli
  <2> HIDE DEF u
  <2> QED
    BY <2>1, Moduli, ModFacts
<1>4. g = [h EXCEPT !.current = new, !.boundary = bou]
  BY Zenon DEF Advance
<1>5. /\ g \in HeapRec /\ SameHeap(g, h) /\ g.evttim = h.evttim
      /\ g.current = new /\ g.boundary = bou
      /\ g.monotonic = h.monotonic /\ g.offset = h.offset /\ g.insignal = h.insignal
      /\ g.hrtcnt = h.hrtcnt /\ g.count = h.count /\ g.fire = h.fire
  <2> HIDE DEF new, bou
  <2> QED
    BY <1>2, <1>3, <1>4 DEF HeapRec, SameHeap
<1>6. new = (h.current + n) % EVTMOD /\ bou = (new - BOUNDARY_MARGIN) % EVTMOD
  BY Zenon
<1> HIDE DEF new, bou
<1> QED
  BY <1>5, <1>6

\* What the current event time and its boundary become.
LEMMA AdvanceTime ==
  ASSUME NEW h \in HeapRec, NEW c \in Int, h.current = c % EVTMOD, NEW n \in Int,
         NEW t, t = c + n
  PROVE  /\ (h.current + n) % EVTMOD = t % EVTMOD
         /\ ((t % EVTMOD) - BOUNDARY_MARGIN) % EVTMOD = (t - BOUNDARY_MARGIN) % EVTMOD
<1>1. EVTMOD \in Nat \ {0} /\ BOUNDARY_MARGIN \in Int /\ t \in Int
  BY Moduli
<1>2. ((c % EVTMOD) + n) % EVTMOD = (c + n) % EVTMOD
  BY <1>1, ModSum
<1>3. ((t % EVTMOD) - BOUNDARY_MARGIN) % EVTMOD = (t - BOUNDARY_MARGIN) % EVTMOD
  BY ONLY <1>1, ModSum
<1> QED
  BY <1>2, <1>3

\* The heap does not depend on the clock.
LEMMA HeapSame ==
  ASSUME NEW h, NEW R, NEW d, Heap(h, R, d), NEW g \in HeapRec, SameHeap(g, h)
  PROVE  Heap(g, R, d)
BY DEF Heap, SameHeap, Filled, Ordered

\* What was counted since the last update, whether or not the counter wrapped around.
LEMMA CountedTime ==
  ASSUME NEW h \in HeapRec, h.count \in 0..(HRTMOD - 1), h.hrtcnt \in 0..(HRTMOD - 1)
  PROVE  (IF h.count < h.hrtcnt THEN h.count - h.hrtcnt + HRTMOD ELSE h.count - h.hrtcnt)
         = ElapsedOf(h)
<1> DEFINE a == h.count - h.hrtcnt
           b == a + HRTMOD
<1>1. /\ HRTMOD \in Nat \ {0} /\ a \in Int /\ b \in Int /\ 0 \in Int /\ -1 \in Int
      /\ a = HRTMOD * 0 + a /\ a = HRTMOD * (-1) + b
      /\ h.count < h.hrtcnt => b \in 0..(HRTMOD - 1)
      /\ ~(h.count < h.hrtcnt) => a \in 0..(HRTMOD - 1)
  BY Moduli
<1>2. ElapsedOf(h) = a % HRTMOD
  BY DEF ElapsedOf
<1> HIDE DEF a, b
<1>3. CASE h.count < h.hrtcnt
  <2>1. b \in 0..(HRTMOD - 1)
    BY <1>1, <1>3
  <2>2. a % HRTMOD = b
    BY ONLY <1>1, <2>1, ModUnique
  <2> QED
    BY <1>2, <1>3, <2>2 DEF a, b
<1>4. CASE ~(h.count < h.hrtcnt)
  <2>1. a \in 0..(HRTMOD - 1)
    BY <1>1, <1>4
  <2>2. a % HRTMOD = a
    BY ONLY <1>1, <2>1, ModSmall
  <2> QED
    BY <1>2, <1>4, <2>2 DEF a
<1> QED
  BY <1>3, <1>4

\* update_current_evttim.
LEMMA UpdateClock ==
  ASSUME NEW h \in HeapRec, NEW t \in Int, ClockOK(h, t),
         NEW g, g = update_current_evttim(h)
  PROVE  /\ g \in HeapRec /\ SameHeap(g, h) /\ g.evttim = h.evttim
         /\ g.insignal = h.insignal /\ g.fire = h.fire
         /\ ClockOK(g, t) /\ ElapsedOf(g) = 0
         /\ LeadOf(g) = (IF LeadOf(h) < ElapsedOf(h) THEN 0 ELSE LeadOf(h) - ElapsedOf(h))
         /\ Systim(g) = Shown(h) /\ Shown(g) = Shown(h)
<1> DEFINE n == ElapsedOf(h)
           c == t - n
           a == Advance(h, n)
           b == [a EXCEPT !.hrtcnt = h.count]
<1>1. /\ n \in 0..(HRTMOD - 1) /\ n \in 0..(EVTMOD - 1) /\ n \in Int /\ c \in Int
      /\ LeadOf(h) \in 0..(EVTMOD - 1)
  <2>1. n \in 0..(HRTMOD - 1) /\ LeadOf(h) \in 0..(EVTMOD - 1)
    BY ElapsedNat
  <2> HIDE DEF n
  <2> QED
    BY <2>1, Moduli
<1>2. h.current = c % EVTMOD /\ h.count \in 0..(HRTMOD - 1) /\ h.hrtcnt \in 0..(HRTMOD - 1)
      /\ h.monotonic \in 0..(EVTMOD - 1) /\ LeadOf(h) <= 2 * TMAX_ADJTIM
  BY DEF ClockOK
<1>3. g = Monotonic(b, c % EVTMOD, n)
  <2>1. n = IF h.count < h.hrtcnt THEN h.count - h.hrtcnt + HRTMOD ELSE h.count - h.hrtcnt
    BY <1>2, CountedTime
  <2> HIDE DEF c, n
  <2> QED
    BY <1>2, <2>1 DEF update_current_evttim
<1>4. c + n = t
  <2> HIDE DEF n
  <2> QED
    BY <1>1
<1> HIDE DEF n, c
<1>5. /\ a \in HeapRec /\ SameHeap(a, h) /\ a.evttim = h.evttim
      /\ a.current = t % EVTMOD /\ a.boundary = (t - BOUNDARY_MARGIN) % EVTMOD
      /\ a.monotonic = h.monotonic /\ a.offset = h.offset /\ a.insignal = h.insignal
      /\ a.hrtcnt = h.hrtcnt /\ a.count = h.count /\ a.fire = h.fire
  <2> DEFINE u == (h.current + n) % EVTMOD
             v == (u - BOUNDARY_MARGIN) % EVTMOD
  <2>1. a = Advance(h, n) /\ n \in Int
    BY <1>1
  <2> HIDE DEF a
  <2>2. /\ a \in HeapRec /\ SameHeap(a, h) /\ a.evttim = h.evttim
        /\ a.current = u /\ a.boundary = v
        /\ a.monotonic = h.monotonic /\ a.offset = h.offset /\ a.insignal = h.insignal
        /\ a.hrtcnt = h.hrtcnt /\ a.count = h.count /\ a.fire = h.fire
    BY <2>1, AdvanceOK
  <2>3. u = t % EVTMOD
    BY <1>1, <1>2, <1>4, AdvanceTime
  <2>4. ((t % EVTMOD) - BOUNDARY_MARGIN) % EVTMOD = (t - BOUNDARY_MARGIN) % EVTMOD
    BY <1>1, <1>2, <1>4, AdvanceTime
  <2> HIDE DEF u
  <2>5. v = (t - BOUNDARY_MARGIN) % EVTMOD
    BY <2>3, <2>4
  <2> HIDE DEF v
  <2> QED
    BY <2>2, <2>3, <2>5
<1> HIDE DEF a
<1>6. /\ b \in HeapRec /\ SameHeap(b, h) /\ b.evttim = h.evttim
      /\ b.current = t % EVTMOD /\ b.boundary = (t - BOUNDARY_MARGIN) % EVTMOD
      /\ b.monotonic = h.monotonic /\ b.offset = h.offset /\ b.insignal = h.insignal
      /\ b.hrtcnt = h.count /\ b.count = h.count /\ b.fire = h.fire
  <2>1. b \in HeapRec /\ SameHeap(b, a)
    BY <1>5, RecFacts DEF HeapRec, SameHeap
  <2>2. /\ b.evttim = a.evttim /\ b.current = a.current /\ b.boundary = a.boundary
        /\ b.monotonic = a.monotonic /\ b.offset = a.offset /\ b.insignal = a.insignal
        /\ b.hrtcnt = h.count /\ b.count = a.count /\ b.fire = a.fire
    BY <1>5 DEF HeapRec
  <2> HIDE DEF b
  <2> QED
    BY <1>5, <2>1, <2>2 DEF SameHeap
<1> HIDE DEF b
<1> DEFINE L == LeadOf(h)
<1>7. L = (b.monotonic - (c % EVTMOD)) % EVTMOD /\ b.current = (c + n) % EVTMOD
      /\ b.monotonic \in 0..(EVTMOD - 1)
  BY <1>2, <1>4, <1>6 DEF LeadOf
<1> HIDE DEF L
<1>8. /\ g \in HeapRec /\ SameHeap(g, b) /\ g.evttim = b.evttim
      /\ g.current = b.current /\ g.boundary = b.boundary /\ g.insignal = b.insignal
      /\ g.hrtcnt = b.hrtcnt /\ g.count = b.count /\ g.fire = b.fire
      /\ g.monotonic \in 0..(EVTMOD - 1)
      /\ LeadOf(g) = (IF L < n THEN 0 ELSE L - n)
      /\ Systim(g) = Systim(b) + (IF L < n THEN n - L ELSE 0)
  BY ONLY <1>1, <1>3, <1>6, <1>7, MonotonicOK
<1>9. ElapsedOf(g) = 0
  <2>1. h.count - h.count = 0 /\ 0 \in 0..(HRTMOD - 1)
    BY <1>2, Moduli
  <2>2. 0 % HRTMOD = 0
    BY <2>1, Moduli, ModSmall
  <2> QED
    BY <1>6, <1>8, <2>1, <2>2 DEF ElapsedOf
<1>10. Systim(b) = Systim(h) /\ Systim(h) \in Int
  BY <1>6, RecFacts DEF Systim
<1>11. Systim(g) = Shown(h)
  BY <1>1, <1>8, <1>10 DEF Shown, Systim, L, n
<1>12. Shown(g) = Systim(g)
  <2>1. LeadOf(g) \in 0..(EVTMOD - 1)
    BY <1>8, ElapsedNat
  <2>2. ~(0 > LeadOf(g)) /\ Systim(g) \in Int
    BY <1>8, <2>1, RecFacts DEF Systim
  <2> QED
    BY <1>9, <2>2 DEF Shown, Systim
<1>13. ClockOK(g, t)
  <2>1. t - 0 = t /\ LeadOf(g) <= 2 * TMAX_ADJTIM
    BY <1>1, <1>2, <1>8, Moduli DEF L
  <2> QED
    BY <1>2, <1>6, <1>8, <1>9, <2>1 DEF ClockOK
<1> QED
  BY <1>6, <1>8, <1>9, <1>11, <1>12, <1>13 DEF SameHeap, L, n

\* An update keeps the time events, and the system time.
LEMMA UpdateOK ==
  ASSUME NEW h, NEW R \in SUBSET Evt, NEW d \in [Evt -> Int], NEW t \in Int,
         BaseOK(h, R, d, t), NEW g, g = update_current_evttim(h)
  PROVE  /\ BaseOK(g, R, d, t) /\ ElapsedOf(g) = 0 /\ Kept(g, h)
         /\ SameHeap(g, h) /\ g.evttim = h.evttim /\ g.fire = h.fire
         /\ Systim(g) = Shown(h)
         /\ TimerOK(h, R, d, t) => TimerOK(g, R, d, t)
<1>1. h \in HeapRec /\ ClockOK(h, t) /\ Heap(h, R, d)
  BY DEF BaseOK, Heap
<1>2. /\ g \in HeapRec /\ SameHeap(g, h) /\ g.evttim = h.evttim
      /\ g.insignal = h.insignal /\ g.fire = h.fire
      /\ ClockOK(g, t) /\ ElapsedOf(g) = 0
      /\ LeadOf(g) = (IF LeadOf(h) < ElapsedOf(h) THEN 0 ELSE LeadOf(h) - ElapsedOf(h))
      /\ Systim(g) = Shown(h) /\ Shown(g) = Shown(h)
  BY <1>1, UpdateClock
<1>3. ElapsedOf(h) \in Nat /\ LeadOf(h) \in Nat
  BY <1>1, ElapsedNat
<1>4. EventsOK(g, R, d, t)
  <2> SUFFICES ASSUME NEW e \in R PROVE g.evttim[e] = d[e] % EVTMOD /\ Near(g, t, d[e])
    BY DEF EventsOK
  <2> DEFINE x == d[e]
  <2>1. h.evttim[e] = x % EVTMOD /\ Near(h, t, x)
    BY DEF BaseOK, EventsOK
  <2> HIDE DEF x
  <2>2. Near(g, t, x)
    BY <1>2, <1>3, <2>1, Moduli DEF Near
  <2> QED
    BY <1>2, <2>1, <2>2 DEF x
<1>5. FireOK(g)
  <2>1. FireOK(h) /\ h.fire \in Nat
    BY <1>1, RecFacts DEF BaseOK
  <2>2. MaxLate \in Nat /\ HRTCNT_BOUND \in Nat
    BY NotificationAssumption, Moduli
  <2> QED
    BY <1>2, <1>3, <2>1, <2>2 DEF FireOK
<1>6. Heap(g, R, d)
  BY <1>1, <1>2, HeapSame
<1> QED
  BY <1>2, <1>4, <1>5, <1>6 DEF BaseOK, Kept, TimerOK, InTime
-----------------------------------------------------------------------------
(* Registration and deletion, and the timer.                                *)

\* What leaves the times alone leaves the clock alone.
LEMMA SameTimesClock ==
  ASSUME NEW g, NEW h, SameTimes(g, h), NEW t
  PROVE  /\ ElapsedOf(g) = ElapsedOf(h) /\ LeadOf(g) = LeadOf(h) /\ Shown(g) = Shown(h)
         /\ ClockOK(h, t) => ClockOK(g, t)
         /\ FireOK(h) => FireOK(g)
         /\ \A x : Near(h, t, x) => Near(g, t, x)
         /\ g.insignal = h.insignal /\ g.fire = h.fire /\ g.evttim = h.evttim
<1>1. ElapsedOf(g) = ElapsedOf(h) /\ LeadOf(g) = LeadOf(h)
  BY DEF SameTimes, ElapsedOf, LeadOf
<1>2. Shown(g) = Shown(h) /\ (FireOK(h) => FireOK(g)) /\ (ClockOK(h, t) => ClockOK(g, t))
  BY <1>1 DEF SameTimes, Shown, FireOK, ClockOK
<1>3. \A x : Near(h, t, x) => Near(g, t, x)
  BY <1>1 DEF Near
<1> QED
  BY <1>1, <1>2, <1>3 DEF SameTimes

\* What is ahead of the present by less than a turn.
LEMMA AheadTime ==
  ASSUME NEW x \in Int, NEW t \in Int, NEW z, z = x - t, z \in 0..(EVTMOD - 1)
  PROVE  ((x % EVTMOD) - (t % EVTMOD)) % EVTMOD = z
<1>1. ((x % EVTMOD) - (t % EVTMOD)) % EVTMOD = (x - t) % EVTMOD
  BY Moduli, ModSum
<1>2. z % EVTMOD = z
  BY Moduli, ModSmall
<1> QED
  BY <1>1, <1>2

\* set_hrt_event: in time for the earliest event, if it follows an update.
LEMMA SetHrtOK ==
  ASSUME NEW h, NEW R \in SUBSET Evt, NEW d \in [Evt -> Int], NEW t \in Int,
         BaseOK(h, R, d, t), ElapsedOf(h) = 0, NEW g, g = set_hrt_event(h)
  PROVE  /\ BaseOK(g, R, d, t) /\ TimerOK(g, R, d, t) /\ ElapsedOf(g) = 0
         /\ g.insignal = h.insignal /\ Shown(g) = Shown(h) /\ g.evttim = h.evttim
         /\ InTime(g, R, d, t)
<1> DEFINE F == IF h.last = 0 THEN HRTCNT_BOUND
                ELSE IF EVTTIM_LE(h, Time(h, 1), h.current) THEN 0
                ELSE MinNat((Time(h, 1) - h.current) % EVTMOD, HRTCNT_BOUND)
           b == Top(h)
           x == d[b]
           z == x - t
<1>1. /\ h \in HeapRec /\ ClockOK(h, t) /\ Heap(h, R, d) /\ EventsOK(h, R, d, t) /\ FireOK(h)
      /\ h.last \in Nat
  BY RecFacts DEF BaseOK, Heap
<1>2. h.last # 0 => b \in R
  <2>1. h.last # 0 => 1 \in 1..h.last /\ 1 # 0
    BY <1>1
  <2> QED
    BY <1>1, <2>1 DEF Heap, Filled, Top
<1>3. t - ElapsedOf(h) = t /\ h.current = t % EVTMOD
  <2>1. t - 0 = t
    OBVIOUS
  <2> QED
    BY <1>1, <2>1 DEF ClockOK
<1>4. h.last # 0 => /\ x \in Int /\ Time(h, 1) = x % EVTMOD
                    /\ EVTTIM_LE(h, Time(h, 1), h.current) <=> x <= t
                    /\ x > t => z \in 0..(EVTMOD - 1)
  <2> SUFFICES ASSUME h.last # 0
               PROVE  /\ x \in Int /\ Time(h, 1) = x % EVTMOD
                      /\ EVTTIM_LE(h, Time(h, 1), h.current) <=> x <= t
                      /\ x > t => z \in 0..(EVTMOD - 1)
    OBVIOUS
  <2>1. Time(h, 1) = h.evttim[b] /\ b \in R
    BY <1>2 DEF Time, Top
  <2>2. h.evttim[b] = x % EVTMOD /\ Near(h, t, x) /\ x \in Int
    BY <1>1, <2>1 DEF EventsOK
  <2>3. EVTTIM_LE(h, h.evttim[b], h.current) <=> x <= t
    <3>1. \A e \in R : EVTTIM_LE(h, h.evttim[e], h.current) <=> d[e] <= t - ElapsedOf(h)
      BY <1>1, BaseAgree
    <3> QED
      BY <1>3, <2>1, <3>1
  <2> HIDE DEF x
  <2>4. x > t => z \in 0..(EVTMOD - 1)
    <3>1. LeadOf(h) \in Nat /\ LeadOf(h) <= 2 * TMAX_ADJTIM
      BY <1>1, ElapsedNat DEF ClockOK
    <3>2. x <= t - 0 + LeadOf(h) + TSTEP_HRTCNT + TMAX_RELTIM
      BY <2>2 DEF Near
    <3> QED
      BY <2>2, <3>1, <3>2, Moduli
  <2> QED
    BY <2>1, <2>2, <2>3, <2>4
<1> HIDE DEF x
<1>5. /\ F \in Nat /\ F <= HRTCNT_BOUND
      /\ h.last # 0 => F = 0 \/ t + F <= x
  <2>1. CASE h.last = 0
    BY <2>1, Moduli
  <2>2. CASE h.last # 0 /\ x <= t
    BY <1>4, <2>2, Moduli
  <2>3. CASE h.last # 0 /\ ~(x <= t)
    <3>1. x > t /\ z \in 0..(EVTMOD - 1) /\ x \in Int
      BY <1>4, <2>3
    <3>2. (Time(h, 1) - h.current) % EVTMOD = z
      <4>1. ((x % EVTMOD) - (t % EVTMOD)) % EVTMOD = z
        BY <3>1, AheadTime
      <4> HIDE DEF z
      <4> QED
        BY <1>3, <1>4, <2>3, <4>1
    <3>3. F = MinNat(z, HRTCNT_BOUND)
      <4> HIDE DEF z
      <4> QED
        BY <1>4, <2>3, <3>2
    <3> HIDE DEF F
    <3> QED
      BY <3>1, <3>3, Moduli DEF MinNat
  <2> QED
    BY <2>1, <2>2, <2>3
<1>6. g = [h EXCEPT !.fire = F]
  BY DEF set_hrt_event
<1> HIDE DEF F
<1>7. /\ g \in HeapRec /\ SameHeap(g, h) /\ g.fire = F
      /\ g.evttim = h.evttim /\ g.current = h.current /\ g.boundary = h.boundary
      /\ g.monotonic = h.monotonic /\ g.offset = h.offset /\ g.insignal = h.insignal
      /\ g.hrtcnt = h.hrtcnt /\ g.count = h.count
  BY <1>1, <1>5, <1>6 DEF HeapRec, SameHeap
<1>8. ElapsedOf(g) = ElapsedOf(h) /\ LeadOf(g) = LeadOf(h)
  BY <1>7 DEF ElapsedOf, LeadOf
<1>9. Shown(g) = Shown(h) /\ ClockOK(g, t)
  BY <1>1, <1>7, <1>8 DEF Shown, ClockOK
<1>10. EventsOK(g, R, d, t)
  BY <1>1, <1>7, <1>8 DEF EventsOK, Near
<1>11. FireOK(g)
  <2>1. MaxLate \in Nat
    BY NotificationAssumption
  <2> QED
    BY <1>5, <1>7, <1>8, <2>1, Moduli DEF FireOK
<1>12. Heap(g, R, d)
  BY <1>1, <1>7, HeapSame
<1>13. InTime(g, R, d, t)
  <2> SUFFICES ASSUME NEW e \in R PROVE g.fire = 0 \/ t + g.fire <= d[e]
    BY <1>5, <1>7 DEF InTime
  <2>1. h.last > 0 /\ x <= d[e] /\ b \in R
    BY <1>1, TopIsFirst DEF x
  <2>2. x \in Int /\ d[e] \in Int
    BY <2>1 DEF x
  <2> HIDE DEF b
  <2> QED
    BY <1>5, <1>7, <2>1, <2>2
<1> QED
  BY <1>7, <1>8, <1>9, <1>10, <1>11, <1>12, <1>13 DEF BaseOK, TimerOK

\* A block, and what it stands for, are given a time.
AtTime(h, e, y) == [h EXCEPT !.evttim[e] = y]
DueAt(d, e, x)  == [d EXCEPT ![e] = x]
TimeGiven(g, D, h, d, e, y, x) == g = AtTime(h, e, y) /\ D = DueAt(d, e, x)

\* A block that is not registered is given another time.
LEMMA SetTimeOK ==
  ASSUME NEW h, NEW R \in SUBSET Evt, NEW d \in [Evt -> Int], NEW t \in Int,
         BaseOK(h, R, d, t), TimerOK(h, R, d, t), NEW e \in Evt, e \notin R,
         NEW y \in Nat, NEW x \in Int, NEW g, NEW D, TimeGiven(g, D, h, d, e, y, x)
  PROVE  /\ BaseOK(g, R, D, t) /\ TimerOK(g, R, D, t) /\ ElapsedOf(g) = ElapsedOf(h)
         /\ LeadOf(g) = LeadOf(h) /\ Kept(g, h) /\ g.evttim[e] = y /\ D[e] = x
         /\ D \in [Evt -> Int]
<1>1. h \in HeapRec /\ Heap(h, R, d) /\ ClockOK(h, t) /\ EventsOK(h, R, d, t) /\ FireOK(h)
      /\ h.evttim \in [Evt -> Nat]
  BY RecFacts DEF BaseOK, Heap
<1> DEFINE ev == [h.evttim EXCEPT ![e] = y]
<1>2. ev \in [Evt -> Nat] /\ ev[e] = y /\ \A b \in R : ev[b] = h.evttim[b]
  BY <1>1
<1>3. g = [h EXCEPT !.evttim = ev]
  BY <1>1 DEF HeapRec, AtTime, TimeGiven
<1>4. D \in [Evt -> Int] /\ D[e] = x /\ \A b \in R : D[b] = d[b]
  BY DEF DueAt, TimeGiven
<1> HIDE DEF ev
<1>5. /\ g \in HeapRec /\ SameHeap(g, h) /\ g.evttim = ev /\ g.fire = h.fire
      /\ g.current = h.current /\ g.boundary = h.boundary
      /\ g.monotonic = h.monotonic /\ g.offset = h.offset /\ g.insignal = h.insignal
      /\ g.hrtcnt = h.hrtcnt /\ g.count = h.count
  BY <1>1, <1>2, <1>3 DEF HeapRec, SameHeap
<1>6. ElapsedOf(g) = ElapsedOf(h) /\ LeadOf(g) = LeadOf(h)
  BY <1>5 DEF ElapsedOf, LeadOf
<1>7. Shown(g) = Shown(h) /\ ClockOK(g, t) /\ FireOK(g)
  BY <1>1, <1>5, <1>6 DEF Shown, ClockOK, FireOK
<1>8. EventsOK(g, R, D, t)
  BY <1>1, <1>2, <1>4, <1>5, <1>6 DEF EventsOK, Near
<1>9. Heap(g, R, D)
  <2>1. Heap(g, R, d)
    BY <1>1, <1>5, HeapSame
  <2>2. g.last \in Nat /\ \A i \in 1..g.last : g.node[i] \in R
    <3>1. g.last \in Nat
      BY <1>5, RecFacts
    <3>2. \A i \in 1..g.last : i # 0
      BY <3>1
    <3> QED
      BY <2>1, <3>1, <3>2 DEF Heap, Filled
  <2>3. Ordered(g, D, 0)
    <3> SUFFICES ASSUME NEW i \in 2..g.last, i # 0, i \div 2 # 0
                 PROVE  D[g.node[i \div 2]] <= D[g.node[i]]
      BY DEF Ordered
    <3>1. i \in 1..g.last /\ i \div 2 \in 1..g.last
      BY <2>2, HalfFacts
    <3>2. D[g.node[i]] = d[g.node[i]] /\ D[g.node[i \div 2]] = d[g.node[i \div 2]]
      BY <1>4, <2>2, <3>1
    <3> QED
      BY <2>1, <3>2 DEF Heap, Ordered
  <2> QED
    BY <2>1, <2>3 DEF Heap
<1>10. TimerOK(g, R, D, t)
  BY <1>4, <1>5 DEF TimerOK, InTime
<1> QED
  BY <1>2, <1>4, <1>5, <1>6, <1>7, <1>8, <1>9, <1>10 DEF BaseOK, Kept

\* tmevtb_enqueue, after an update.
LEMMA EnqueueOK ==
  ASSUME NEW h, NEW R \in SUBSET Evt, NEW d \in [Evt -> Int], NEW t \in Int,
         BaseOK(h, R, d, t), TimerOK(h, R, d, t), NEW e \in Evt, e \notin R,
         ~h.insignal => ElapsedOf(h) = 0,
         h.evttim[e] = d[e] % EVTMOD, Near(h, t, d[e]), NEW g, g = tmevtb_enqueue(h, e)
  PROVE  /\ BaseOK(g, R \union {e}, d, t) /\ TimerOK(g, R \union {e}, d, t) /\ Kept(g, h)
         /\ ElapsedOf(h) = 0 => ElapsedOf(g) = 0
<1> DEFINE Q == R \union {e}
           k == tmevtb_insert(h, e)
<1>1. /\ h \in HeapRec /\ ClockOK(h, t) /\ Heap(h, R, d) /\ EventsOK(h, R, d, t) /\ FireOK(h)
      /\ Q \in SUBSET Evt
  BY DEF BaseOK, Heap
<1>2. EventsOK(h, Q, d, t)
  BY <1>1 DEF EventsOK
<1>3. Agree(h, d, Q)
  <2> HIDE DEF Q
  <2> QED
    BY <1>1, <1>2, BaseAgree
<1>4. Heap(k, Q, d) /\ SameTimes(k, h) /\ k.last = h.last + 1
  <2> HIDE DEF k
  <2>1. k = tmevtb_insert(h, e)
    BY DEF k
  <2> QED
    BY <1>1, <1>3, <2>1, InsertOK
<1>5. g = IF ~h.insignal /\ k.at[e] = 1 THEN set_hrt_event(k) ELSE k
  BY DEF tmevtb_enqueue
<1> HIDE DEF k, Q
<1>6. /\ ElapsedOf(k) = ElapsedOf(h) /\ Shown(k) = Shown(h) /\ ClockOK(k, t) /\ FireOK(k)
      /\ \A x : Near(h, t, x) => Near(k, t, x)
      /\ k.insignal = h.insignal /\ k.fire = h.fire /\ k.evttim = h.evttim
  BY <1>1, <1>4, SameTimesClock
<1>7. BaseOK(k, Q, d, t)
  BY <1>2, <1>4, <1>6 DEF BaseOK, EventsOK
<1>8. CASE ~h.insignal /\ k.at[e] = 1
  <2>1. g = set_hrt_event(k) /\ ElapsedOf(k) = 0
    BY <1>5, <1>6, <1>8
  <2>2. /\ BaseOK(g, Q, d, t) /\ TimerOK(g, Q, d, t) /\ ElapsedOf(g) = 0
        /\ g.insignal = k.insignal /\ Shown(g) = Shown(k)
    BY <1>1, <1>7, <2>1, SetHrtOK
  <2> QED
    BY <1>6, <1>8, <2>2 DEF Kept, Q
<1>9. CASE ~(~h.insignal /\ k.at[e] = 1)
  <2>1. g = k
    BY <1>5, <1>9
  <2>2. TimerOK(k, Q, d, t)
    <3> SUFFICES ASSUME ~h.insignal
                 PROVE  (\A b \in Q : k.fire = 0 \/ t + k.fire <= d[b]) /\ k.fire <= HRTCNT_BOUND
      BY <1>6 DEF TimerOK, InTime
    <3>1. k.at[e] # 1
      BY <1>9
    <3>2. k.last > 0 /\ d[Top(k)] <= d[e] /\ Top(k) \in Q
      <4>1. e \in Q
        BY DEF Q
      <4> QED
        BY <1>1, <1>4, <4>1, TopIsFirst
    <3>3. k.at[Top(k)] = 1
      <4>1. k.last \in Nat /\ Filled(k, Q, 0)
        BY <1>4, RecFacts DEF Heap
      <4>2. 1 \in 1..k.last /\ 1 # 0
        BY <3>2, <4>1
      <4> QED
        BY <4>1, <4>2 DEF Filled, Top
    <3>4. Top(k) \in R
      BY <3>1, <3>2, <3>3 DEF Q
    <3>5. (\A b \in R : h.fire = 0 \/ t + h.fire <= d[b]) /\ h.fire <= HRTCNT_BOUND
          /\ h.fire \in Nat
      BY <1>1, RecFacts DEF TimerOK, InTime
    <3>6. h.fire = 0 \/ t + h.fire <= d[e]
      <4>1. h.fire = 0 \/ t + h.fire <= d[Top(k)]
        BY <3>4, <3>5
      <4>2. d[Top(k)] \in Int /\ d[e] \in Int
        BY <3>4
      <4> QED
        BY <3>2, <3>5, <4>1, <4>2
    <3> QED
      BY <1>6, <3>5, <3>6 DEF Q
  <2> QED
    BY <1>6, <1>7, <2>1, <2>2 DEF Kept, Q
<1> QED
  BY <1>8, <1>9

\* tmevtb_dequeue.
LEMMA DequeueOK ==
  ASSUME NEW h, NEW R \in SUBSET Evt, NEW d \in [Evt -> Int], NEW t \in Int,
         BaseOK(h, R, d, t), TimerOK(h, R, d, t), NEW e \in R, NEW g, g = tmevtb_dequeue(h, e)
  PROVE  /\ BaseOK(g, R \ {e}, d, t) /\ TimerOK(g, R \ {e}, d, t) /\ Kept(g, h)
         /\ ElapsedOf(h) = 0 => ElapsedOf(g) = 0
<1> DEFINE Q == R \ {e}
           k == tmevtb_delete(h, e)
           u == update_current_evttim(k)
<1>1. /\ h \in HeapRec /\ ClockOK(h, t) /\ Heap(h, R, d) /\ EventsOK(h, R, d, t) /\ FireOK(h)
      /\ Q \in SUBSET Evt
  BY DEF BaseOK, Heap
<1>2. Agree(h, d, R)
  BY <1>1, BaseAgree
<1>3. Heap(k, Q, d) /\ SameTimes(k, h)
  <2> HIDE DEF k
  <2>1. k = tmevtb_delete(h, e)
    BY DEF k
  <2> QED
    BY <1>1, <1>2, <2>1, DeleteOK
<1>4. g = IF ~h.insignal /\ h.at[e] = 1 THEN set_hrt_event(u) ELSE k
  BY DEF tmevtb_dequeue
<1> HIDE DEF k, Q
<1>5. /\ ElapsedOf(k) = ElapsedOf(h) /\ Shown(k) = Shown(h) /\ ClockOK(k, t) /\ FireOK(k)
      /\ \A x : Near(h, t, x) => Near(k, t, x)
      /\ k.insignal = h.insignal /\ k.fire = h.fire /\ k.evttim = h.evttim
  BY <1>1, <1>3, SameTimesClock
<1>6. BaseOK(k, Q, d, t) /\ TimerOK(k, Q, d, t)
  BY <1>1, <1>3, <1>5 DEF BaseOK, EventsOK, TimerOK, InTime, Q
<1>7. CASE ~h.insignal /\ h.at[e] = 1
  <2>1. u = update_current_evttim(k) /\ g = set_hrt_event(u)
    BY <1>4, <1>7
  <2> HIDE DEF u
  <2>2. BaseOK(u, Q, d, t) /\ ElapsedOf(u) = 0 /\ Kept(u, k)
    BY <1>1, <1>6, <2>1, UpdateOK
  <2>3. /\ BaseOK(g, Q, d, t) /\ TimerOK(g, Q, d, t) /\ ElapsedOf(g) = 0
        /\ g.insignal = u.insignal /\ Shown(g) = Shown(u)
    BY <1>1, <2>1, <2>2, SetHrtOK
  <2> QED
    BY <1>5, <1>7, <2>2, <2>3 DEF Kept, Q
<1>8. CASE ~(~h.insignal /\ h.at[e] = 1)
  <2>1. g = k
    BY <1>4, <1>8
  <2> QED
    BY <1>5, <1>6, <2>1 DEF Kept, Q
<1> QED
  BY <1>7, <1>8

\* tmevtb_enqueue_reltim registers e for the time the service call asks for.
LEMMA EnqueueReltimOK ==
  ASSUME NEW h, NEW R \in SUBSET Evt, NEW d \in [Evt -> Int], NEW t \in Int,
         BaseOK(h, R, d, t), TimerOK(h, R, d, t), NEW e \in Evt, e \notin R,
         NEW time \in 0..TMAX_RELTIM, NEW g, g = tmevtb_enqueue_reltim(h, e, time),
         NEW D, D = DueAt(d, e, t + TSTEP_HRTCNT + time)
  PROVE  /\ BaseOK(g, R \union {e}, D, t) /\ TimerOK(g, R \union {e}, D, t) /\ Kept(g, h)
         /\ ElapsedOf(g) = 0 /\ D \in [Evt -> Int]
<1> DEFINE u == update_current_evttim(h)
           x == t + TSTEP_HRTCNT + time
           y == (calc_current_evttim_ub(u) + time) % EVTMOD
           k == AtTime(u, e, y)
<1>1. g = tmevtb_enqueue(k, e)
  BY DEF tmevtb_enqueue_reltim, AtTime
<1>2. BaseOK(u, R, d, t) /\ ElapsedOf(u) = 0 /\ Kept(u, h) /\ TimerOK(u, R, d, t)
  <2>1. u = update_current_evttim(h)
    OBVIOUS
  <2> HIDE DEF u
  <2> QED
    BY <2>1, UpdateOK
<1> HIDE DEF u
<1>3. u \in HeapRec /\ ClockOK(u, t)
  BY <1>2 DEF BaseOK, Heap
<1>4. x \in Int /\ y = x % EVTMOD /\ y \in Nat
  <2> DEFINE a == t + TSTEP_HRTCNT
  <2>1. u.current = t % EVTMOD
    <3>1. t - 0 = t
      OBVIOUS
    <3> QED
      BY <1>2, <1>3, <3>1 DEF ClockOK
  <2>2. a \in Int /\ time \in Int /\ x = a + time /\ x \in Int
    BY Moduli
  <2>3. calc_current_evttim_ub(u) = a % EVTMOD
    <3>1. TSTEP_HRTCNT \in Int /\ EVTMOD \in Nat \ {0}
      BY Moduli
    <3>2. ((t % EVTMOD) + TSTEP_HRTCNT) % EVTMOD = (t + TSTEP_HRTCNT) % EVTMOD
      BY <3>1, ModSum
    <3> QED
      BY <2>1, <3>2 DEF calc_current_evttim_ub
  <2> HIDE DEF a
  <2>4. ((a % EVTMOD) + time) % EVTMOD = (a + time) % EVTMOD
    BY <2>2, Moduli, ModSum
  <2>5. y = x % EVTMOD
    BY <2>2, <2>3, <2>4
  <2>6. y \in Nat
    <3> HIDE DEF x
    <3>1. x % EVTMOD \in 0..(EVTMOD - 1)
      BY <2>2, Moduli, ModFacts
    <3> HIDE DEF y
    <3> QED
      BY <2>5, <3>1, Moduli
  <2> HIDE DEF x, y
  <2> QED
    BY <2>2, <2>5, <2>6
<1>5. D = DueAt(d, e, x)
  OBVIOUS
<1> DEFINE near == Near(u, t, x)
<1>6. near
  <2>1. LeadOf(u) \in Nat
    BY <1>3, ElapsedNat
  <2> QED
    BY <1>2, <2>1, Moduli DEF Near
<1>7. k = AtTime(u, e, y)
  OBVIOUS
<1> HIDE DEF k, x, y
<1>8. /\ BaseOK(k, R, D, t) /\ TimerOK(k, R, D, t) /\ ElapsedOf(k) = 0 /\ LeadOf(k) = LeadOf(u)
      /\ Kept(k, u) /\ k.evttim[e] = y /\ D[e] = x /\ D \in [Evt -> Int]
  <2>1. R \in SUBSET Evt /\ d \in [Evt -> Int] /\ t \in Int /\ e \in Evt /\ e \notin R
    OBVIOUS
  <2>2. BaseOK(u, R, d, t) /\ TimerOK(u, R, d, t) /\ x \in Int /\ y \in Nat
    BY <1>2, <1>4
  <2>3. /\ BaseOK(k, R, D, t) /\ TimerOK(k, R, D, t) /\ ElapsedOf(k) = ElapsedOf(u)
        /\ LeadOf(k) = LeadOf(u) /\ Kept(k, u) /\ k.evttim[e] = y /\ D[e] = x
        /\ D \in [Evt -> Int]
    <3>1. TimeGiven(k, D, u, d, e, y, x)
      BY <1>5, <1>7 DEF TimeGiven
    <3> QED
      BY ONLY <2>1, <2>2, <3>1, SetTimeOK
  <2> QED
    BY <1>2, <2>3
<1>9. Near(k, t, D[e]) /\ k.evttim[e] = D[e] % EVTMOD
  BY <1>2, <1>4, <1>6, <1>8 DEF Near
<1>10. /\ BaseOK(g, R \union {e}, D, t) /\ TimerOK(g, R \union {e}, D, t) /\ Kept(g, k)
       /\ ElapsedOf(g) = 0
  <2>1. R \in SUBSET Evt /\ t \in Int /\ e \in Evt /\ e \notin R
    OBVIOUS
  <2> QED
    BY ONLY <1>1, <1>8, <1>9, <2>1, EnqueueOK
<1> QED
  BY <1>2, <1>8, <1>10 DEF Kept
-----------------------------------------------------------------------------
(* The inductive invariant.                                                 *)

\* The blocks of the running notifications and waits.
Registered == {e \in Evt : sta[e]}

\* The timer is left alone in signal_time, which begins and ends with an update.
SignalOK(h, ph, cf) ==
  /\ ph \in {"out", "loop", "call"} /\ cf \in BOOLEAN
  /\ h.insignal <=> ph # "out"
  /\ ph # "out" => h.fire = 0
  /\ ph = "loop" /\ ~cf => ElapsedOf(h) = 0
  /\ ph = "call" => cf

\* The invariant: due[e] is the true time for which block e is registered.
TimeInv ==
  /\ sta \in [Evt -> BOOLEAN] /\ due \in [Evt -> Int] /\ now \in Int
  /\ BaseOK(m, Registered, due, now) /\ TimerOK(m, Registered, due, now)
  /\ SignalOK(m, phase, callflag)

\* What the invariant says of the present state.
LEMMA InvFacts ==
  ASSUME TimeInv
  PROVE  /\ sta \in [Evt -> BOOLEAN] /\ due \in [Evt -> Int] /\ now \in Int
         /\ Registered \in SUBSET Evt /\ m \in HeapRec
         /\ BaseOK(m, Registered, due, now) /\ TimerOK(m, Registered, due, now)
         /\ Heap(m, Registered, due) /\ ClockOK(m, now) /\ EventsOK(m, Registered, due, now)
         /\ FireOK(m) /\ SignalOK(m, phase, callflag)
BY DEF TimeInv, Registered, BaseOK, Heap

\* It holds in the beginning.
LEMMA TimeInitOK ==
  ASSUME NtfInit
  PROVE  TimeInv
<1> DEFINE b == (0 - BOUNDARY_MARGIN) % EVTMOD
<1>1. b \in 0..(EVTMOD - 1) /\ b \in Nat
  <2> DEFINE y == 0 - BOUNDARY_MARGIN
  <2>1. y \in Int
    BY Moduli
  <2> HIDE DEF y
  <2>2. y % EVTMOD \in 0..(EVTMOD - 1)
    BY <2>1, Moduli, ModFacts
  <2> QED
    BY <2>2, Moduli DEF y
<1> HIDE DEF b
<1>2. m = [node |-> [i \in 1..Blocks |-> CHOOSE e \in Evt : TRUE],
           at |-> [e \in Evt |-> 0], last |-> 0, evttim |-> [e \in Evt |-> 0],
           current |-> 0, boundary |-> b, monotonic |-> 0, offset |-> 0, insignal |-> FALSE,
           hrtcnt |-> 0, count |-> 0, fire |-> HRTCNT_BOUND]
  BY DEF NtfInit, InitM, Blocks, b
<1>3. m \in HeapRec
  <2>1. [i \in 1..Blocks |-> CHOOSE e \in Evt : TRUE] \in [1..Blocks -> Evt]
    <3>1. CASE Evt # {}
      BY <3>1
    <3>2. CASE Evt = {}
      <4>1. Blocks = 0
        BY <3>2, FS_EmptySet DEF Blocks
      <4>2. \A i \in 1..Blocks : FALSE
        BY <4>1
      <4> QED
        BY <4>2
    <3> QED
      BY <3>1, <3>2
  <2> QED
    BY <1>1, <1>2, <2>1, Moduli DEF HeapRec
<1>4. /\ m.last = 0 /\ m.current = 0 /\ m.boundary = b /\ m.monotonic = 0 /\ m.offset = 0
      /\ m.insignal = FALSE /\ m.hrtcnt = 0 /\ m.count = 0 /\ m.fire = HRTCNT_BOUND
  BY <1>2
<1>5. Registered = {}
  BY DEF NtfInit, Registered
<1>6. ElapsedOf(m) = 0 /\ LeadOf(m) = 0
  <2>1. 0 - 0 = 0 /\ 0 % HRTMOD = 0 /\ 0 % EVTMOD = 0
    <3>1. 0 \in 0..(HRTMOD - 1) /\ 0 \in 0..(EVTMOD - 1)
      BY Moduli
    <3> QED
      BY <3>1, Moduli, ModSmall
  <2> QED
    BY <1>4, <2>1 DEF ElapsedOf, LeadOf
<1>7. Heap(m, {}, due)
  BY <1>3, <1>4, BlocksNat DEF Heap, Filled, Ordered
<1>8. ClockOK(m, 0)
  <2>1. 0 - 0 = 0 /\ 0 % EVTMOD = 0 /\ 0 \in 0..(EVTMOD - 1) /\ 0 \in 0..(HRTMOD - 1)
    <3>1. 0 \in 0..(HRTMOD - 1) /\ 0 \in 0..(EVTMOD - 1)
      BY Moduli
    <3> QED
      BY <3>1, Moduli, ModSmall
  <2>2. m.boundary = (0 - 0 - BOUNDARY_MARGIN) % EVTMOD
    BY <1>4, <2>1 DEF b
  <2> QED
    BY <1>4, <1>6, <2>1, <2>2, Moduli DEF ClockOK
<1>9. FireOK(m) /\ EventsOK(m, {}, due, 0) /\ TimerOK(m, {}, due, 0)
  <2>1. MaxLate \in Nat
    BY NotificationAssumption
  <2> QED
    BY <1>4, <1>6, <2>1, Moduli DEF FireOK, EventsOK, TimerOK, InTime
<1>10. SignalOK(m, phase, callflag)
  BY <1>4 DEF SignalOK, NtfInit
<1>11. sta \in [Evt -> BOOLEAN] /\ due \in [Evt -> Int] /\ now = 0
  BY DEF NtfInit
<1> QED
  BY <1>5, <1>7, <1>8, <1>9, <1>10, <1>11 DEF TimeInv, BaseOK

\* A service call that leaves signal_time where it is.
LEMMA CallKeeps ==
  ASSUME TimeInv, NEW R, R = Registered', sta' \in [Evt -> BOOLEAN], due' \in [Evt -> Int],
         now' \in Int, BaseOK(m', R, due', now'), TimerOK(m', R, due', now'),
         Kept(m', m), ElapsedOf(m) = 0 => ElapsedOf(m') = 0, UNCHANGED <<phase, callflag>>
  PROVE  TimeInv' /\ Shown(m') = Shown(m)
<1>1. SignalOK(m, phase, callflag)
  BY InvFacts
<1>2. SignalOK(m', phase', callflag')
  BY <1>1 DEF SignalOK, Kept
<1> QED
  BY <1>2 DEF TimeInv, Kept

\* An update alone: get_tim, and in signal_time.
LEMMA GetTimOK ==
  ASSUME TimeInv, get_tim
  PROVE  TimeInv' /\ Shown(m') = Shown(m)
<1> DEFINE R == Registered
<1>1. /\ m' = update_current_evttim(m) /\ sta' = sta /\ due' = due /\ now' = now
      /\ UNCHANGED <<phase, callflag>>
  BY DEF get_tim
<1>2. R = Registered' /\ R \in SUBSET Evt
  BY <1>1 DEF Registered
<1> HIDE DEF R
<1>3. /\ due \in [Evt -> Int] /\ now \in Int /\ sta \in [Evt -> BOOLEAN]
      /\ BaseOK(m, R, due, now) /\ TimerOK(m, R, due, now)
  BY InvFacts DEF R
<1>4. /\ BaseOK(m', R, due, now) /\ ElapsedOf(m') = 0 /\ Kept(m', m) /\ TimerOK(m', R, due, now)
  BY <1>1, <1>2, <1>3, UpdateOK
<1>5. sta' \in [Evt -> BOOLEAN] /\ due' \in [Evt -> Int] /\ now' \in Int
      /\ BaseOK(m', R, due', now') /\ TimerOK(m', R, due', now')
  BY <1>1, <1>3, <1>4
<1> QED
  BY <1>1, <1>2, <1>4, <1>5, CallKeeps

\* A block is taken out of the heap, if it is there.
LEMMA OutOK ==
  ASSUME TimeInv, NEW e \in Evt, NEW g, g = (IF sta[e] THEN tmevtb_dequeue(m, e) ELSE m)
  PROVE  /\ BaseOK(g, Registered \ {e}, due, now) /\ TimerOK(g, Registered \ {e}, due, now)
         /\ Kept(g, m) /\ (ElapsedOf(m) = 0 => ElapsedOf(g) = 0)
<1> DEFINE R == Registered
<1>1. /\ due \in [Evt -> Int] /\ now \in Int /\ sta \in [Evt -> BOOLEAN] /\ R \in SUBSET Evt
      /\ BaseOK(m, R, due, now) /\ TimerOK(m, R, due, now) /\ (e \in R <=> sta[e])
  BY InvFacts DEF Registered
<1> HIDE DEF R
<1>2. CASE sta[e]
  <2>1. g = tmevtb_dequeue(m, e) /\ e \in R
    BY <1>1, <1>2
  <2>2. /\ BaseOK(g, R \ {e}, due, now) /\ TimerOK(g, R \ {e}, due, now) /\ Kept(g, m)
        /\ ElapsedOf(m) = 0 => ElapsedOf(g) = 0
    BY ONLY <1>1, <2>1, DequeueOK
  <2> QED
    BY <2>2 DEF R
<1>3. CASE ~sta[e]
  <2>1. g = m /\ R \ {e} = R
    BY <1>1, <1>3
  <2> QED
    BY <1>1, <2>1 DEF Kept, R
<1> QED
  BY <1>2, <1>3

\* Stop(e).
LEMMA StopOK ==
  ASSUME TimeInv, NEW e \in Evt, Stop(e)
  PROVE  TimeInv' /\ Shown(m') = Shown(m)
<1> DEFINE Q == Registered \ {e}
<1>1. /\ m' = (IF sta[e] THEN tmevtb_dequeue(m, e) ELSE m) /\ sta' = [sta EXCEPT ![e] = FALSE]
      /\ due' = due /\ now' = now /\ UNCHANGED <<phase, callflag>>
  BY DEF Stop
<1>2. due \in [Evt -> Int] /\ now \in Int /\ sta \in [Evt -> BOOLEAN]
  BY InvFacts
<1>3. Q = Registered' /\ sta' \in [Evt -> BOOLEAN]
  <2>1. sta' \in [Evt -> BOOLEAN] /\ \A b \in Evt : sta'[b] <=> b # e /\ sta[b]
    BY <1>1, <1>2
  <2> QED
    BY <2>1 DEF Registered
<1>4. /\ BaseOK(m', Q, due, now) /\ TimerOK(m', Q, due, now)
      /\ Kept(m', m) /\ (ElapsedOf(m) = 0 => ElapsedOf(m') = 0)
  BY <1>1, OutOK
<1> HIDE DEF Q
<1>5. due' \in [Evt -> Int] /\ now' \in Int /\ BaseOK(m', Q, due', now') /\ TimerOK(m', Q, due', now')
  BY <1>1, <1>2, <1>4
<1> QED
  BY <1>1, <1>3, <1>4, <1>5, CallKeeps

\* The block e is registered: what becomes of sta.
LEMMA RegisteredAfter ==
  ASSUME sta \in [Evt -> BOOLEAN], NEW e \in Evt, sta' = [sta EXCEPT ![e] = TRUE],
         NEW Q, Q = Registered \ {e}
  PROVE  Q \union {e} = Registered' /\ sta' \in [Evt -> BOOLEAN]
<1>1. sta' \in [Evt -> BOOLEAN] /\ \A b \in Evt : sta'[b] <=> b = e \/ sta[b]
  OBVIOUS
<1> QED
  BY <1>1 DEF Registered

\* Restart(e, time).
LEMMA RestartOK ==
  ASSUME TimeInv, NEW e \in Evt, NEW time \in 0..TMAX_RELTIM, Restart(e, time)
  PROVE  TimeInv' /\ Shown(m') = Shown(m)
<1> DEFINE Q == Registered \ {e}
           h == IF sta[e] THEN tmevtb_dequeue(m, e) ELSE m
           P == Q \union {e}
<1>1. /\ m' = tmevtb_enqueue_reltim(h, e, time) /\ sta' = [sta EXCEPT ![e] = TRUE]
      /\ due' = DueAt(due, e, now + TSTEP_HRTCNT + time)
      /\ now' = now /\ UNCHANGED <<phase, callflag>>
  BY DEF Restart, Exact, DueAt
<1>2. due \in [Evt -> Int] /\ now \in Int /\ sta \in [Evt -> BOOLEAN]
  BY InvFacts
<1>3. P = Registered' /\ sta' \in [Evt -> BOOLEAN] /\ Q \in SUBSET Evt /\ e \notin Q
  <2>1. Q = Registered \ {e} /\ Q \in SUBSET Evt /\ e \notin Q
    BY DEF Registered
  <2> HIDE DEF Q
  <2> QED
    BY <1>1, <1>2, <2>1, RegisteredAfter
<1>4. BaseOK(h, Q, due, now) /\ TimerOK(h, Q, due, now) /\ Kept(h, m)
  <2>1. h = IF sta[e] THEN tmevtb_dequeue(m, e) ELSE m
    OBVIOUS
  <2> HIDE DEF h
  <2> QED
    BY <2>1, OutOK
<1> HIDE DEF Q, h
<1>5. /\ BaseOK(m', P, due', now) /\ TimerOK(m', P, due', now) /\ Kept(m', h)
      /\ ElapsedOf(m') = 0 /\ due' \in [Evt -> Int]
  <2>1. time \in 0..TMAX_RELTIM /\ e \in Evt
    OBVIOUS
  <2> QED
    BY ONLY <1>1, <1>2, <1>3, <1>4, <2>1, EnqueueReltimOK
<1>6. Kept(m', m)
  BY <1>4, <1>5 DEF Kept
<1> HIDE DEF P
<1>7. now' \in Int /\ BaseOK(m', P, due', now') /\ TimerOK(m', P, due', now')
  BY <1>1, <1>2, <1>5
<1> QED
  BY <1>1, <1>3, <1>5, <1>6, <1>7, CallKeeps

\* NextCycle: e, whose event time stood for x, is registered a cycle later.
LEMMA NextCycleOK ==
  ASSUME NEW h, NEW R \in SUBSET Evt, NEW d \in [Evt -> Int], NEW t \in Int,
         BaseOK(h, R, d, t), TimerOK(h, R, d, t), NEW e \in Evt, e \notin R,
         ~h.insignal => ElapsedOf(h) = 0, NEW x \in Int, h.evttim[e] = x % EVTMOD,
         NEW c \in Nat, c = Cyctim[e], NEW y \in Int, y = x + c, Near(h, t, y),
         NEW g, g = NextCycle(h, e), NEW D, D = DueAt(d, e, y)
  PROVE  /\ BaseOK(g, R \union {e}, D, t) /\ TimerOK(g, R \union {e}, D, t) /\ Kept(g, h)
         /\ ElapsedOf(h) = 0 => ElapsedOf(g) = 0
         /\ D \in [Evt -> Int]
<1> DEFINE w == y % EVTMOD
           k == AtTime(h, e, w)
<1>1. w \in Nat
  <2>1. y % EVTMOD \in 0..(EVTMOD - 1)
    BY Moduli, ModFacts
  <2> QED
    BY <2>1, Moduli
<1>2. (h.evttim[e] + Cyctim[e]) % EVTMOD = w
  <2>1. ((x % EVTMOD) + c) % EVTMOD = (x + c) % EVTMOD
    <3>1. EVTMOD \in Nat \ {0} /\ x \in Int /\ c \in Int
      BY Moduli
    <3> QED
      BY ONLY <3>1, ModSum
  <2> QED
    BY <2>1
<1> HIDE DEF w
<1>3. g = tmevtb_enqueue(k, e)
  <2>1. h.evttim \in [Evt -> Nat]
    BY RecFacts DEF BaseOK, Heap
  <2>2. k = [h EXCEPT !.evttim[e] = (@ + Cyctim[e]) % EVTMOD]
    BY <1>2, <2>1 DEF AtTime
  <2> QED
    BY <2>2 DEF NextCycle
<1>4. k = AtTime(h, e, w)
  OBVIOUS
<1> HIDE DEF k
<1>5. /\ BaseOK(k, R, D, t) /\ TimerOK(k, R, D, t) /\ ElapsedOf(k) = ElapsedOf(h)
      /\ LeadOf(k) = LeadOf(h) /\ Kept(k, h) /\ k.evttim[e] = w /\ D[e] = y
      /\ D \in [Evt -> Int]
  <2>1. R \in SUBSET Evt /\ d \in [Evt -> Int] /\ t \in Int /\ e \in Evt /\ e \notin R
    OBVIOUS
  <2>2. BaseOK(h, R, d, t) /\ TimerOK(h, R, d, t) /\ y \in Int /\ w \in Nat
    BY <1>1
  <2>3. TimeGiven(k, D, h, d, e, w, y)
    BY <1>4 DEF TimeGiven
  <2> QED
    BY ONLY <2>1, <2>2, <2>3, SetTimeOK
<1>6. Near(k, t, D[e]) /\ k.evttim[e] = D[e] % EVTMOD
  BY <1>5 DEF Near, w
<1>7. ~k.insignal => ElapsedOf(k) = 0
  BY <1>5 DEF Kept
<1>8. /\ BaseOK(g, R \union {e}, D, t) /\ TimerOK(g, R \union {e}, D, t) /\ Kept(g, k)
      /\ ElapsedOf(k) = 0 => ElapsedOf(g) = 0
  <2>1. R \in SUBSET Evt /\ t \in Int /\ e \in Evt /\ e \notin R
    OBVIOUS
  <2> QED
    BY ONLY <1>3, <1>5, <1>6, <1>7, <2>1, EnqueueOK
<1> QED
  BY <1>5, <1>8 DEF Kept

\* The cycles of the cyclic notifications and of the system.
LEMMA CyctimType ==
  ASSUME NEW e \in Evt, KindOf[e] \in {"cyc", "scyc"}
  PROVE  Cyctim[e] \in Nat /\ Cyctim[e] <= TMAX_RELTIM /\ Cyctim[e] >= 1
BY NotificationAssumption, Moduli

\* chg_som.
LEMMA ChgSomOK ==
  ASSUME TimeInv, NEW e \in Of("scyc"), chg_som(e)
  PROVE  TimeInv' /\ Shown(m') = Shown(m)
<1> DEFINE R == Registered
           u == update_current_evttim(m)
           x == now + TSTEP_HRTCNT
           w == x % EVTMOD
           h == AtTime(u, e, w)
           d == DueAt(due, e, x)
           c == Cyctim[e]
           y == x + c
           P == R \union {e}
<1>1. e \in Evt /\ c \in Nat /\ c <= TMAX_RELTIM
  BY CyctimType DEF Of
<1>2. /\ ~sta[e] /\ sta' = [sta EXCEPT ![e] = TRUE] /\ now' = now /\ UNCHANGED <<phase, callflag>>
      /\ m' = NextCycle(CycleBase(e), e) /\ due' = DueAt(due, e, y)
  BY DEF chg_som, DueAt, Exact
<1>3. /\ due \in [Evt -> Int] /\ now \in Int /\ sta \in [Evt -> BOOLEAN]
      /\ BaseOK(m, R, due, now) /\ TimerOK(m, R, due, now) /\ R \in SUBSET Evt
  BY InvFacts
<1>4. e \notin R /\ P = Registered' /\ sta' \in [Evt -> BOOLEAN]
  <2>1. e \notin R /\ R = R \ {e}
    BY <1>2 DEF Registered
  <2> QED
    BY <1>1, <1>2, <1>3, <2>1, RegisteredAfter
<1>5. x \in Int /\ w \in Nat /\ y \in Int
  <2>1. x \in Int /\ y \in Int
    BY <1>1, <1>3, Moduli
  <2> HIDE DEF x
  <2>2. x % EVTMOD \in 0..(EVTMOD - 1)
    BY <2>1, Moduli, ModFacts
  <2> QED
    BY <2>1, <2>2
<1>6. BaseOK(u, R, due, now) /\ ElapsedOf(u) = 0 /\ Kept(u, m) /\ TimerOK(u, R, due, now)
  <2>1. u = update_current_evttim(m)
    OBVIOUS
  <2> HIDE DEF u, R
  <2> QED
    BY ONLY <1>3, <2>1, UpdateOK
<1>7. CycleBase(e) = h
  <2>1. u.current = now % EVTMOD
    <3>1. now - 0 = now
      BY <1>3
    <3> HIDE DEF u
    <3> QED
      BY <1>6, <3>1 DEF BaseOK, ClockOK
  <2>2. calc_current_evttim_ub(u) = w
    <3>1. TSTEP_HRTCNT \in Int /\ EVTMOD \in Nat \ {0}
      BY Moduli
    <3>2. ((now % EVTMOD) + TSTEP_HRTCNT) % EVTMOD = (now + TSTEP_HRTCNT) % EVTMOD
      BY <1>3, <3>1, ModSum
    <3> HIDE DEF u
    <3> QED
      BY <2>1, <3>2 DEF calc_current_evttim_ub
  <2>3. CycleBase(e) = AtTime(u, e, calc_current_evttim_ub(u))
    BY Zenon DEF CycleBase, AtTime
  <2> HIDE DEF u, w
  <2> QED
    BY <2>2, <2>3
<1>8. h = AtTime(u, e, w) /\ d = DueAt(due, e, x) /\ w = x % EVTMOD
  OBVIOUS
<1>9. y = x + c /\ c = Cyctim[e]
  OBVIOUS
<1> HIDE DEF R, u, w, h, d, c
<1>10. Near(u, now, y)
  <2>1. LeadOf(u) \in Nat
    <3>1. u \in HeapRec
      BY <1>6 DEF BaseOK, Heap
    <3> QED
      BY <3>1, ElapsedNat
  <2> QED
    BY <1>1, <1>3, <1>5, <1>6, <2>1, Moduli DEF Near
<1> HIDE DEF x, y
<1>11. /\ BaseOK(h, R, d, now) /\ TimerOK(h, R, d, now) /\ ElapsedOf(h) = 0
       /\ LeadOf(h) = LeadOf(u) /\ Kept(h, u) /\ h.evttim[e] = w /\ d[e] = x
       /\ d \in [Evt -> Int]
  <2>1. /\ BaseOK(h, R, d, now) /\ TimerOK(h, R, d, now) /\ ElapsedOf(h) = ElapsedOf(u)
        /\ LeadOf(h) = LeadOf(u) /\ Kept(h, u) /\ h.evttim[e] = w /\ d[e] = x
        /\ d \in [Evt -> Int]
    <3>1. R \in SUBSET Evt /\ due \in [Evt -> Int] /\ now \in Int /\ e \in Evt /\ e \notin R
      BY <1>1, <1>3, <1>4
    <3>2. BaseOK(u, R, due, now) /\ TimerOK(u, R, due, now) /\ x \in Int /\ w \in Nat
      BY <1>5, <1>6
    <3>3. TimeGiven(h, d, u, due, e, w, x)
      BY <1>8 DEF TimeGiven
    <3> QED
      BY ONLY <3>1, <3>2, <3>3, SetTimeOK
  <2> QED
    BY <1>6, <2>1
<1>12. Near(h, now, y)
  BY <1>6, <1>10, <1>11 DEF Near
<1>13. due' = DueAt(d, e, y)
  <2>1. DueAt(due, e, y) = DueAt(d, e, y)
    BY <1>1, <1>3, <1>8 DEF DueAt
  <2> QED
    BY <1>2, <2>1
<1>14. m' = NextCycle(h, e)
  BY <1>2, <1>7
<1>15. /\ BaseOK(m', P, due', now) /\ TimerOK(m', P, due', now) /\ Kept(m', h)
       /\ ElapsedOf(h) = 0 => ElapsedOf(m') = 0
       /\ due' \in [Evt -> Int]
  <2>1. h.evttim[e] = x % EVTMOD
    BY <1>8, <1>11
  <2> QED
    BY ONLY <1>1, <1>3, <1>4, <1>5, <1>9, <1>11, <1>12, <1>13, <1>14, <2>1, NextCycleOK
<1>16. Kept(m', m) /\ ElapsedOf(m') = 0
  BY <1>6, <1>11, <1>15 DEF Kept
<1> HIDE DEF P
<1>17. now' \in Int /\ BaseOK(m', P, due', now') /\ TimerOK(m', P, due', now')
  BY <1>2, <1>3, <1>15
<1> QED
  BY <1>2, <1>4, <1>15, <1>16, <1>17, CallKeeps
-----------------------------------------------------------------------------
(* signal_time.                                                             *)

\* The event whose callback is called is due, and the earliest.
LEMMA CalledIsDue ==
  ASSUME TimeInv, NEW e \in Evt, DueTop, e = Top(m)
  PROVE  /\ e \in Registered /\ m.last > 0 /\ due[e] <= now - ElapsedOf(m) /\ due[e] <= now
         /\ \A b \in Registered : due[e] <= due[b]
<1> DEFINE R == Registered
<1>1. /\ m \in HeapRec /\ R \in SUBSET Evt /\ due \in [Evt -> Int] /\ now \in Int
      /\ Heap(m, R, due) /\ ClockOK(m, now) /\ EventsOK(m, R, due, now)
  BY InvFacts
<1> HIDE DEF R
<1>2. m.last \in Nat /\ m.last > 0 /\ EVTTIM_LE(m, m.evttim[e], m.current)
  BY <1>1, RecFacts DEF DueTop, Time, Top
<1>3. e \in R
  <2>1. 1 \in 1..m.last /\ 1 # 0
    BY <1>2
  <2> QED
    BY <1>1, <2>1 DEF Heap, Filled, Top
<1>4. due[e] <= now - ElapsedOf(m)
  <2>1. \A b \in R : EVTTIM_LE(m, m.evttim[b], m.current) <=> due[b] <= now - ElapsedOf(m)
    BY <1>1, BaseAgree
  <2> QED
    BY <1>2, <1>3, <2>1
<1>5. due[e] <= now
  <2>1. ElapsedOf(m) \in Nat /\ due[e] \in Int
    BY <1>1, ElapsedNat
  <2> QED
    BY <1>1, <1>4, <2>1
<1>6. \A b \in R : due[e] <= due[b]
  BY <1>1, TopIsFirst
<1> QED
  BY <1>2, <1>3, <1>4, <1>5, <1>6 DEF R

\* The event is taken out of the heap.
LEMMA TopTakenOK ==
  ASSUME TimeInv, NEW e \in Evt, DueTop, e = Top(m), m.insignal,
         NEW g, g = tmevtb_delete_top(m)
  PROVE  /\ BaseOK(g, Registered \ {e}, due, now) /\ TimerOK(g, Registered \ {e}, due, now)
         /\ Kept(g, m) /\ ElapsedOf(g) = ElapsedOf(m) /\ LeadOf(g) = LeadOf(m)
         /\ g.evttim = m.evttim /\ g.fire = m.fire
<1> DEFINE R == Registered
           Q == R \ {e}
<1>1. /\ m \in HeapRec /\ R \in SUBSET Evt /\ due \in [Evt -> Int] /\ now \in Int /\ m.last > 0
      /\ Heap(m, R, due) /\ ClockOK(m, now) /\ EventsOK(m, R, due, now) /\ FireOK(m)
  BY InvFacts, CalledIsDue
<1>2. R \ {e} = Q
  OBVIOUS
<1> HIDE DEF R, Q
<1>3. Agree(m, due, R)
  BY <1>1, BaseAgree
<1>4. Heap(g, Q, due) /\ SameTimes(g, m)
  BY <1>1, <1>2, <1>3, DeleteTopOK
<1>5. /\ ElapsedOf(g) = ElapsedOf(m) /\ LeadOf(g) = LeadOf(m) /\ Shown(g) = Shown(m)
      /\ ClockOK(g, now) /\ FireOK(g)
      /\ \A x : Near(m, now, x) => Near(g, now, x)
      /\ g.insignal = m.insignal /\ g.fire = m.fire /\ g.evttim = m.evttim
  BY <1>1, <1>4, SameTimesClock
<1>6. EventsOK(g, Q, due, now)
  BY <1>1, <1>2, <1>5 DEF EventsOK
<1>7. TimerOK(g, Q, due, now)
  BY <1>5 DEF TimerOK
<1>8. BaseOK(g, Q, due, now)
  BY <1>4, <1>5, <1>6 DEF BaseOK
<1> QED
  BY <1>2, <1>5, <1>7, <1>8 DEF Kept, R

\* SignalCall(e): a callback, which may register the event again.
LEMMA SignalCallOK ==
  ASSUME TimeInv, NEW e \in Evt, SignalCall(e)
  PROVE  TimeInv' /\ Shown(m') = Shown(m)
<1> DEFINE Q == Registered \ {e}
           g == tmevtb_delete_top(m)
           P == Q \union {e}
           c == Cyctim[e]
           x == due[e]
           y == x + c
<1>1. /\ phase = "loop" /\ DueTop /\ e = Top(m) /\ Callback(e) /\ callflag' = TRUE /\ now' = now
  BY DEF SignalCall
<1>2. /\ due \in [Evt -> Int] /\ now \in Int /\ sta \in [Evt -> BOOLEAN] /\ m \in HeapRec
      /\ SignalOK(m, phase, callflag) /\ EventsOK(m, Registered, due, now) /\ ClockOK(m, now)
  BY InvFacts
<1>3. m.insignal /\ m.fire = 0
  BY <1>1, <1>2 DEF SignalOK
<1>4. /\ BaseOK(g, Q, due, now) /\ TimerOK(g, Q, due, now)
      /\ Kept(g, m) /\ ElapsedOf(g) = ElapsedOf(m) /\ LeadOf(g) = LeadOf(m)
      /\ g.evttim = m.evttim /\ g.fire = m.fire
  <2>1. g = tmevtb_delete_top(m)
    OBVIOUS
  <2> HIDE DEF g
  <2> QED
    BY <1>1, <1>3, <2>1, TopTakenOK
<1>5. e \in Registered /\ x <= now - ElapsedOf(m) /\ x \in Int
  BY <1>1, <1>2, CalledIsDue
<1>6. phase' \in {"loop", "call"}
  BY <1>1 DEF Callback, Repeat, Once
<1>7. CASE Once(e)
  <2>1. m' = g /\ sta' = [sta EXCEPT ![e] = FALSE] /\ due' = due
    BY <1>7 DEF Once
  <2>2. Q = Registered' /\ sta' \in [Evt -> BOOLEAN]
    <3>1. sta' \in [Evt -> BOOLEAN] /\ \A b \in Evt : sta'[b] <=> b # e /\ sta[b]
      BY <1>2, <2>1
    <3> QED
      BY <3>1 DEF Registered
  <2> HIDE DEF Q, g
  <2>3. SignalOK(m', phase', callflag')
    BY <1>1, <1>3, <1>4, <1>6, <2>1 DEF SignalOK, Kept
  <2> QED
    BY <1>1, <1>2, <1>4, <2>1, <2>2, <2>3 DEF TimeInv, Kept
<1>8. CASE KindOf[e] \in {"cyc", "scyc"} /\ Repeat(e) /\ UNCHANGED sta
  <2>1. m' = NextCycle(g, e) /\ sta' = sta
    BY <1>8 DEF Repeat
  <2>2. due' = DueAt(due, e, y)
    BY <1>2, <1>8 DEF Repeat, DueAt
  <2>3. c \in Nat /\ c <= TMAX_RELTIM /\ y \in Int
    BY <1>5, <1>8, CyctimType
  <2>4. P = Registered' /\ Q \in SUBSET Evt /\ e \notin Q
    BY <1>5, <2>1 DEF Registered
  <2>5. m.evttim[e] = x % EVTMOD /\ Near(m, now, x)
    BY <1>2, <1>5 DEF EventsOK
  <2>6. y = x + c /\ c = Cyctim[e]
    OBVIOUS
  <2> HIDE DEF Q, g, c, x, y
  <2>7. Near(g, now, y)
    <3>1. LeadOf(m) \in Nat /\ ElapsedOf(m) \in Nat
      BY <1>2, ElapsedNat
    <3> QED
      BY <1>2, <1>4, <1>5, <2>3, <2>5, <2>6, <3>1, Moduli DEF Near
  <2>8. /\ BaseOK(m', P, due', now) /\ TimerOK(m', P, due', now) /\ Kept(m', g)
        /\ ElapsedOf(g) = 0 => ElapsedOf(m') = 0
        /\ due' \in [Evt -> Int]
    <3>1. ~g.insignal => ElapsedOf(g) = 0
      BY <1>3, <1>4 DEF Kept
    <3>2. g.evttim[e] = x % EVTMOD /\ e \in Evt
      BY <1>4, <2>5
    <3>3. Q \in SUBSET Evt /\ e \notin Q /\ due \in [Evt -> Int] /\ now \in Int /\ x \in Int
          /\ c \in Nat /\ y \in Int
      BY <1>2, <1>5, <2>3, <2>4
    <3>4. BaseOK(g, Q, due, now) /\ TimerOK(g, Q, due, now)
      BY <1>4
    <3>5. m' = NextCycle(g, e)
      BY <2>1
    <3> QED
      BY ONLY <2>2, <2>6, <2>7, <3>1, <3>2, <3>3, <3>4, <3>5, NextCycleOK
  <2>9. Kept(m', m)
    BY <1>4, <2>8 DEF Kept
  <2> HIDE DEF P
  <2>10. SignalOK(m', phase', callflag')
    BY <1>1, <1>3, <1>6, <2>9 DEF SignalOK, Kept
  <2> QED
    BY <1>1, <1>2, <2>1, <2>4, <2>8, <2>9, <2>10 DEF TimeInv, Kept
<1> QED
  BY <1>1, <1>7, <1>8 DEF Callback

\* SignalBegin and SignalAgain: the current event time is updated.
LEMMA SignalUpdateOK ==
  ASSUME TimeInv, SignalBegin \/ SignalAgain
  PROVE  TimeInv' /\ Shown(m') = Shown(m)
<1> DEFINE R == Registered
           u == update_current_evttim(m)
<1>1. /\ sta' = sta /\ due' = due /\ now' = now /\ phase' = "loop" /\ callflag' = FALSE
      /\ m' = [u EXCEPT !.insignal = TRUE] \/ (m' = u /\ phase = "loop")
      /\ phase = "loop" \/ m.fire = 0
  BY DEF SignalBegin, SignalAgain
<1>2. /\ due \in [Evt -> Int] /\ now \in Int /\ sta \in [Evt -> BOOLEAN] /\ R \in SUBSET Evt
      /\ BaseOK(m, R, due, now) /\ TimerOK(m, R, due, now) /\ SignalOK(m, phase, callflag)
  BY InvFacts
<1>3. /\ BaseOK(u, R, due, now) /\ ElapsedOf(u) = 0 /\ Kept(u, m) /\ u.fire = m.fire
      /\ u \in HeapRec
  <2>1. u = update_current_evttim(m)
    OBVIOUS
  <2> HIDE DEF u, R
  <2>2. BaseOK(u, R, due, now) /\ ElapsedOf(u) = 0 /\ Kept(u, m) /\ u.fire = m.fire
    BY ONLY <1>2, <2>1, UpdateOK
  <2> QED
    BY <2>2 DEF BaseOK, Heap
<1>4. R = Registered'
  BY <1>1 DEF Registered
<1> HIDE DEF R, u
<1>5. m.fire = 0
  BY <1>1, <1>2 DEF SignalOK
<1>6. m'.insignal = TRUE /\ m' \in HeapRec /\ SameTimes(m', [u EXCEPT !.insignal = TRUE])
      /\ SameHeap(m', u)
  <2>1. [u EXCEPT !.insignal = TRUE] \in HeapRec
    BY <1>3 DEF HeapRec
  <2>2. CASE m' = [u EXCEPT !.insignal = TRUE]
    BY <1>3, <2>1, <2>2 DEF HeapRec, SameTimes, SameHeap
  <2>3. CASE m' = u /\ phase = "loop"
    <3>1. u.insignal = TRUE
      BY <1>2, <1>3, <2>3, RecFacts DEF SignalOK, Kept
    <3> QED
      BY <1>3, <2>3, <3>1 DEF HeapRec, SameTimes, SameHeap
  <2> QED
    BY <1>1, <2>2, <2>3
<1>7. /\ m'.evttim = u.evttim /\ m'.current = u.current /\ m'.boundary = u.boundary
      /\ m'.monotonic = u.monotonic /\ m'.offset = u.offset
      /\ m'.hrtcnt = u.hrtcnt /\ m'.count = u.count /\ m'.fire = u.fire
  BY <1>3, <1>6 DEF SameTimes, HeapRec
<1>8. ElapsedOf(m') = ElapsedOf(u) /\ LeadOf(m') = LeadOf(u)
  BY <1>7 DEF ElapsedOf, LeadOf
<1>9. Shown(m') = Shown(u) /\ ClockOK(m', now) /\ FireOK(m') /\ EventsOK(m', R, due, now)
  BY <1>3, <1>7, <1>8 DEF Shown, ClockOK, FireOK, EventsOK, Near, BaseOK
<1>10. Heap(m', R, due)
  BY <1>3, <1>6, HeapSame DEF BaseOK
<1>11. BaseOK(m', R, due, now) /\ TimerOK(m', R, due, now)
  BY <1>6, <1>9, <1>10 DEF BaseOK, TimerOK
<1>12. SignalOK(m', phase', callflag')
  BY <1>1, <1>3, <1>5, <1>6, <1>7, <1>8 DEF SignalOK
<1> QED
  BY <1>1, <1>2, <1>3, <1>4, <1>9, <1>11, <1>12 DEF TimeInv, Kept

\* SignalEnd programs the timer.
LEMMA SignalEndOK ==
  ASSUME TimeInv, SignalEnd
  PROVE  TimeInv' /\ Shown(m') = Shown(m)
<1> DEFINE R == Registered
           u == set_hrt_event(m)
<1>1. /\ sta' = sta /\ due' = due /\ now' = now /\ phase' = "out" /\ callflag' = callflag
      /\ m' = [u EXCEPT !.insignal = FALSE] /\ phase = "loop" /\ ~callflag
  BY DEF SignalEnd
<1>2. /\ due \in [Evt -> Int] /\ now \in Int /\ sta \in [Evt -> BOOLEAN] /\ R \in SUBSET Evt
      /\ BaseOK(m, R, due, now) /\ SignalOK(m, phase, callflag)
  BY InvFacts
<1>3. ElapsedOf(m) = 0
  BY <1>1, <1>2 DEF SignalOK
<1>4. R = Registered'
  BY <1>1 DEF Registered
<1>5. u = set_hrt_event(m)
  OBVIOUS
<1> HIDE DEF R, u
<1>6. m \in HeapRec
  BY InvFacts
<1>7. /\ BaseOK(u, R, due, now) /\ InTime(u, R, due, now)
      /\ ElapsedOf(u) = 0 /\ Shown(u) = Shown(m) /\ u \in HeapRec
  <2>1. BaseOK(u, R, due, now) /\ InTime(u, R, due, now) /\ ElapsedOf(u) = 0 /\ Shown(u) = Shown(m)
    BY ONLY <1>2, <1>3, <1>5, SetHrtOK
  <2> QED
    BY <2>1 DEF BaseOK, Heap
<1>8. m' \in HeapRec /\ m'.insignal = FALSE /\ SameHeap(m', u)
      /\ m'.evttim = u.evttim /\ m'.current = u.current /\ m'.boundary = u.boundary
      /\ m'.monotonic = u.monotonic /\ m'.offset = u.offset
      /\ m'.hrtcnt = u.hrtcnt /\ m'.count = u.count /\ m'.fire = u.fire
  BY <1>1, <1>7 DEF HeapRec, SameHeap
<1>9. ElapsedOf(m') = ElapsedOf(u) /\ LeadOf(m') = LeadOf(u)
  BY <1>8 DEF ElapsedOf, LeadOf
<1>10. Shown(m') = Shown(u) /\ ClockOK(m', now) /\ FireOK(m') /\ EventsOK(m', R, due, now)
  BY <1>7, <1>8, <1>9 DEF Shown, ClockOK, FireOK, EventsOK, Near, BaseOK
<1>11. Heap(m', R, due)
  BY <1>7, <1>8, HeapSame DEF BaseOK
<1>12. BaseOK(m', R, due, now) /\ TimerOK(m', R, due, now)
  BY <1>7, <1>8, <1>10, <1>11 DEF BaseOK, TimerOK, InTime
<1>13. SignalOK(m', phase', callflag')
  BY <1>1, <1>2, <1>8 DEF SignalOK
<1> QED
  BY <1>1, <1>2, <1>4, <1>7, <1>10, <1>12, <1>13 DEF TimeInv

\* NotificationReturns: the callback was called, so signal_time goes round again.
LEMMA NotificationReturnsOK ==
  ASSUME TimeInv, NotificationReturns
  PROVE  TimeInv' /\ Shown(m') = Shown(m)
<1>1. /\ sta' = sta /\ due' = due /\ now' = now /\ callflag' = callflag /\ m' = m
      /\ phase = "call" /\ phase' = "loop"
  BY DEF NotificationReturns
<1>2. SignalOK(m', phase', callflag')
  BY <1>1, InvFacts DEF SignalOK
<1>3. Registered' = Registered
  BY <1>1 DEF Registered
<1> QED
  BY <1>1, <1>2, <1>3, InvFacts DEF TimeInv
-----------------------------------------------------------------------------
(* Time passes.                                                             *)

\* Every registered block is in a node.
LEMMA NodeOf ==
  ASSUME NEW h, NEW R, NEW d, Heap(h, R, d), NEW b \in R
  PROVE  \E i \in 1..h.last : h.node[i] = b
BY DEF Heap, Filled

\* Real time goes on by one count of the timer, which may interrupt.
LEMMA TickOK ==
  ASSUME TimeInv, Tick
  PROVE  TimeInv' /\ Shown(m') >= Shown(m)
<1> DEFINE R == Registered
           c == (m.count + 1) % HRTMOD
           f == IF m.fire > 0 THEN m.fire - 1 ELSE 0
           el == ElapsedOf(m)
           t == now + 1
<1>1. /\ phase # "loop" /\ \A i \in 1..m.last : due[m.node[i]] > now - MaxLate
      /\ m.fire > 0 \/ el < HRTCNT_BOUND + MaxLate
      /\ now' = t /\ m' = [m EXCEPT !.count = c, !.fire = f]
      /\ sta' = sta /\ phase' = phase /\ callflag' = callflag /\ due' = due
  BY DEF Tick, ElapsedOf
<1>2. /\ due \in [Evt -> Int] /\ now \in Int /\ sta \in [Evt -> BOOLEAN] /\ R \in SUBSET Evt
      /\ m \in HeapRec /\ Heap(m, R, due) /\ ClockOK(m, now) /\ EventsOK(m, R, due, now)
      /\ FireOK(m) /\ TimerOK(m, R, due, now) /\ SignalOK(m, phase, callflag)
  BY InvFacts
<1>3. R = Registered'
  BY <1>1 DEF Registered
<1> HIDE DEF R
<1>4. el \in Nat /\ MaxLate \in Nat /\ MaxLate <= BOUNDARY_MARGIN
      /\ HRTCNT_BOUND + MaxLate < HRTMOD /\ m.fire \in Nat /\ m.count \in Nat /\ m.hrtcnt \in Nat
      /\ LeadOf(m) \in Nat
  BY <1>2, RecFacts, ElapsedNat, NotificationAssumption, Moduli
<1>5. el + 1 <= HRTCNT_BOUND + MaxLate /\ (m.fire > 0 => el + 1 <= HRTCNT_BOUND)
  BY <1>1, <1>2, <1>4, Moduli DEF FireOK
<1>6. c \in 0..(HRTMOD - 1)
  <2>1. m.count + 1 \in Int /\ HRTMOD \in Nat \ {0}
    BY <1>4, Moduli
  <2> QED
    BY ONLY <2>1, ModFacts
<1>7. f \in Nat
  BY <1>4
<1>8. (c - m.hrtcnt) % HRTMOD = el + 1
  <2> DEFINE y == m.count + 1
             z == m.count - m.hrtcnt
             w == z + 1
  <2>1. y \in Int /\ z \in Int /\ w \in Int /\ m.hrtcnt \in Int /\ 1 \in Int /\ HRTMOD \in Nat \ {0}
    BY <1>4, Moduli
  <2>2. w = y - m.hrtcnt
    BY <1>4
  <2>3. el = z % HRTMOD /\ c = y % HRTMOD
    BY DEF ElapsedOf
  <2>4. el + 1 \in 0..(HRTMOD - 1)
    BY <1>4, <1>5, Moduli
  <2> HIDE DEF y, z, c, el
  <2>5. (c - m.hrtcnt) % HRTMOD = (y - m.hrtcnt) % HRTMOD
    BY ONLY <2>1, <2>3, ModSum
  <2>6. (el + 1) % HRTMOD = (z + 1) % HRTMOD
    BY ONLY <2>1, <2>3, ModSum
  <2>7. (el + 1) % HRTMOD = el + 1
    BY ONLY <2>1, <2>4, ModSmall
  <2> QED
    BY <2>2, <2>5, <2>6, <2>7
<1> HIDE DEF c, f
<1>9. m' \in HeapRec /\ SameHeap(m', m)
      /\ m'.evttim = m.evttim /\ m'.current = m.current /\ m'.boundary = m.boundary
      /\ m'.monotonic = m.monotonic /\ m'.offset = m.offset /\ m'.insignal = m.insignal
      /\ m'.hrtcnt = m.hrtcnt /\ m'.count = c /\ m'.fire = f
  <2>1. c \in Nat
    BY <1>6, Moduli
  <2> QED
    BY <1>1, <1>2, <1>7, <2>1 DEF HeapRec, SameHeap
<1>10. ElapsedOf(m') = el + 1 /\ LeadOf(m') = LeadOf(m)
  BY <1>8, <1>9 DEF ElapsedOf, LeadOf
<1> HIDE DEF el
<1>11. t - (el + 1) = now - el /\ t \in Int
  BY <1>2, <1>4
<1>12. ClockOK(m', t)
  <2>1. /\ m.current = (now - el) % EVTMOD /\ m.boundary = (now - el - BOUNDARY_MARGIN) % EVTMOD
        /\ LeadOf(m) <= 2 * TMAX_ADJTIM /\ m.hrtcnt \in 0..(HRTMOD - 1)
        /\ m.monotonic \in 0..(EVTMOD - 1)
    BY <1>2 DEF ClockOK, el
  <2> QED
    BY <1>6, <1>9, <1>10, <1>11, <2>1 DEF ClockOK
<1>13. EventsOK(m', R, due, t)
  <2> SUFFICES ASSUME NEW e \in R
               PROVE  m'.evttim[e] = due[e] % EVTMOD /\ Near(m', t, due[e])
    BY DEF EventsOK
  <2>1. m.evttim[e] = due[e] % EVTMOD /\ Near(m, now, due[e])
    BY <1>2 DEF EventsOK
  <2>2. due[e] > now - MaxLate
    BY <1>1, <1>2, NodeOf
  <2>3. due[e] \in Int /\ due[e] <= now - el + LeadOf(m) + TSTEP_HRTCNT + TMAX_RELTIM
    BY <2>1 DEF Near, el
  <2>4. t - BOUNDARY_MARGIN <= due[e]
    BY <1>2, <1>4, <2>2, <2>3, Moduli
  <2> QED
    BY <1>9, <1>10, <1>11, <2>1, <2>3, <2>4 DEF Near
<1>14. FireOK(m')
  <2>1. f > 0 => m.fire > 0 /\ f = m.fire - 1
    BY <1>4 DEF f
  <2>2. m.fire > 0 => el + m.fire <= HRTCNT_BOUND
    BY <1>2 DEF FireOK, el
  <2>3. f > 0 => el + 1 + f <= HRTCNT_BOUND
    BY <1>4, <2>1, <2>2, Moduli
  <2> QED
    BY <1>5, <1>9, <1>10, <2>3 DEF FireOK
<1>15. TimerOK(m', R, due, t)
  <2> SUFFICES ASSUME ~m.insignal PROVE InTime(m', R, due, t)
    BY <1>9 DEF TimerOK
  <2>1. InTime(m, R, due, now)
    BY <1>2 DEF TimerOK
  <2>2. ASSUME NEW e \in R PROVE f = 0 \/ t + f <= due[e]
    <3>1. m.fire = 0 \/ now + m.fire <= due[e]
      BY <2>1 DEF InTime
    <3>2. due[e] \in Int
      BY <1>2
    <3> QED
      BY <1>2, <1>4, <3>1, <3>2 DEF f
  <2>3. f <= HRTCNT_BOUND
    BY <1>4, <2>1, Moduli DEF InTime, f
  <2> QED
    BY <1>9, <2>2, <2>3 DEF InTime
<1>16. Heap(m', R, due)
  BY <1>2, <1>9, HeapSame
<1>17. SignalOK(m', phase', callflag')
  <2>1. m.fire = 0 => f = 0
    BY DEF f
  <2> QED
    BY <1>1, <1>2, <1>9, <2>1 DEF SignalOK
<1>18. Shown(m') >= Shown(m)
  <2>1. m.offset \in Int /\ m.monotonic \in Int
    BY <1>2, RecFacts
  <2> QED
    BY <1>4, <1>9, <1>10, <2>1 DEF Shown, el
<1> QED
  BY <1>1, <1>2, <1>3, <1>11, <1>12, <1>13, <1>14, <1>15, <1>16, <1>17, <1>18 DEF TimeInv, BaseOK
-----------------------------------------------------------------------------
(* The system time.                                                         *)

\* set_tim.
LEMMA SetTimOK ==
  ASSUME TimeInv, NEW s \in Int, set_tim(s)
  PROVE  TimeInv'
<1> DEFINE R == Registered
           u == update_current_evttim(m)
           o == s - u.monotonic
<1>1. /\ sta' = sta /\ due' = due /\ now' = now /\ callflag' = callflag /\ phase' = phase
      /\ m' = [u EXCEPT !.offset = o]
  BY DEF set_tim
<1>2. /\ due \in [Evt -> Int] /\ now \in Int /\ sta \in [Evt -> BOOLEAN] /\ R \in SUBSET Evt
      /\ BaseOK(m, R, due, now) /\ TimerOK(m, R, due, now) /\ SignalOK(m, phase, callflag)
  BY InvFacts
<1>3. u = update_current_evttim(m) /\ R = Registered'
  BY <1>1 DEF Registered
<1> HIDE DEF R, u
<1>4. /\ BaseOK(u, R, due, now) /\ ElapsedOf(u) = 0 /\ TimerOK(u, R, due, now)
      /\ Kept(u, m) /\ u.fire = m.fire
  BY ONLY <1>2, <1>3, UpdateOK
<1>5. u \in HeapRec /\ o \in Int
  <2>1. u \in HeapRec
    BY <1>4 DEF BaseOK, Heap
  <2> QED
    BY <2>1, RecFacts
<1> HIDE DEF o
<1>6. m' \in HeapRec /\ m'.insignal = u.insignal /\ SameHeap(m', u)
      /\ m'.evttim = u.evttim /\ m'.current = u.current /\ m'.boundary = u.boundary
      /\ m'.monotonic = u.monotonic
      /\ m'.hrtcnt = u.hrtcnt /\ m'.count = u.count /\ m'.fire = u.fire
  BY <1>1, <1>5 DEF HeapRec, SameHeap
<1>7. ElapsedOf(m') = ElapsedOf(u) /\ LeadOf(m') = LeadOf(u)
  BY <1>6 DEF ElapsedOf, LeadOf
<1>8. ClockOK(m', now) /\ FireOK(m') /\ EventsOK(m', R, due, now)
  BY <1>4, <1>6, <1>7 DEF ClockOK, FireOK, EventsOK, Near, BaseOK
<1>9. Heap(m', R, due)
  BY <1>4, <1>6, HeapSame DEF BaseOK
<1>10. BaseOK(m', R, due, now) /\ TimerOK(m', R, due, now)
  BY <1>4, <1>6, <1>8, <1>9 DEF BaseOK, TimerOK, InTime
<1>11. SignalOK(m', phase', callflag')
  BY <1>1, <1>2, <1>4, <1>6, <1>7 DEF SignalOK, Kept
<1> QED
  BY <1>1, <1>2, <1>3, <1>10, <1>11 DEF TimeInv

\* What adj_tim checks: no event is late by TMAX_ADJTIM.
LEMMA CheckedTime ==
  ASSUME NEW h, NEW R \in SUBSET Evt, NEW d \in [Evt -> Int], NEW t \in Int,
         BaseOK(h, R, d, t), ElapsedOf(h) = 0,
         ~(h.last > 0 /\ EVTTIM_LE(h, (Time(h, 1) + TMAX_ADJTIM) % EVTMOD, h.current)),
         NEW e \in R
  PROVE  t < d[e] + TMAX_ADJTIM
<1> DEFINE b == Top(h)
           x == d[b]
           y == x + TMAX_ADJTIM
           z == y - t + BOUNDARY_MARGIN
<1>1. /\ h \in HeapRec /\ ClockOK(h, t) /\ Heap(h, R, d) /\ EventsOK(h, R, d, t)
  BY DEF BaseOK, Heap
<1>2. h.last > 0 /\ x <= d[e] /\ b \in R
  BY <1>1, TopIsFirst
<1>3. x \in Int /\ d[e] \in Int /\ h.evttim[b] = x % EVTMOD /\ Near(h, t, x)
      /\ Time(h, 1) = h.evttim[b]
  BY <1>1, <1>2 DEF EventsOK, Time, Top
<1> HIDE DEF b, x
<1>4. ADVANCE(h, h.current) = BOUNDARY_MARGIN
  BY <1>1, <1>3, NearPlace
<1>5. (Time(h, 1) + TMAX_ADJTIM) % EVTMOD = y % EVTMOD
  <2>1. EVTMOD \in Nat \ {0} /\ x \in Int /\ TMAX_ADJTIM \in Int
    BY <1>3, Moduli
  <2>2. ((x % EVTMOD) + TMAX_ADJTIM) % EVTMOD = (x + TMAX_ADJTIM) % EVTMOD
    BY ONLY <2>1, ModSum
  <2> QED
    BY <1>3, <2>2
<1>6. y \in Int /\ z = y - (t - ElapsedOf(h)) + BOUNDARY_MARGIN
  BY <1>3, Moduli
<1>7. SUFFICES ASSUME y <= t PROVE FALSE
  BY <1>2, <1>3, Moduli
<1>8. z \in 0..(EVTMOD - 1) /\ z <= BOUNDARY_MARGIN
  <2>1. t - BOUNDARY_MARGIN <= x
    BY <1>3 DEF Near
  <2> QED
    BY <1>3, <1>7, <2>1, Moduli
<1> HIDE DEF y, z
<1>9. ADVANCE(h, y % EVTMOD) = z
  BY ONLY <1>1, <1>6, <1>8, t \in Int, WindowPlace
<1> QED
  BY <1>2, <1>4, <1>5, <1>8, <1>9 DEF EVTTIM_LE

\* The event time is adjusted by n, to the time t.
LEMMA AdjustOK ==
  ASSUME NEW h, NEW R \in SUBSET Evt, NEW d \in [Evt -> Int], NEW s \in Int,
         BaseOK(h, R, d, s), ElapsedOf(h) = 0,
         NEW n \in (-TMAX_ADJTIM)..TMAX_ADJTIM, n # 0, ~CheckAdjtim(h, n),
         NEW t, t = s + n, NEW a, a = Advance(h, n),
         NEW g, g = (IF n > 0 THEN Monotonic(a, h.current, n) ELSE a)
  PROVE  /\ BaseOK(g, R, d, t) /\ ElapsedOf(g) = 0 /\ Shown(g) >= Systim(h)
         /\ g.insignal = h.insignal /\ g.fire = h.fire /\ t \in Int
<1>1. /\ h \in HeapRec /\ ClockOK(h, s) /\ Heap(h, R, d) /\ EventsOK(h, R, d, s) /\ FireOK(h)
  BY DEF BaseOK, Heap
<1>2. n \in Int /\ n <= TMAX_ADJTIM /\ -TMAX_ADJTIM <= n /\ t \in Int
      /\ -n \in Int /\ TMAX_ADJTIM \in Nat
  BY Moduli
<1>3. h.current = s % EVTMOD /\ LeadOf(h) <= 2 * TMAX_ADJTIM /\ h.monotonic \in 0..(EVTMOD - 1)
      /\ LeadOf(h) \in Nat
  <2>1. s - 0 = s
    OBVIOUS
  <2> QED
    BY <1>1, <2>1, ElapsedNat DEF ClockOK
<1>4. /\ a \in HeapRec /\ SameHeap(a, h) /\ a.evttim = h.evttim
      /\ a.current = (h.current + n) % EVTMOD
      /\ a.boundary = (a.current - BOUNDARY_MARGIN) % EVTMOD
      /\ a.monotonic = h.monotonic /\ a.offset = h.offset /\ a.insignal = h.insignal
      /\ a.hrtcnt = h.hrtcnt /\ a.count = h.count /\ a.fire = h.fire
  BY ONLY <1>1, <1>2, a = Advance(h, n), AdvanceOK
<1>5. a.current = t % EVTMOD /\ a.boundary = (t - BOUNDARY_MARGIN) % EVTMOD
  <2>1. /\ (h.current + n) % EVTMOD = t % EVTMOD
        /\ ((t % EVTMOD) - BOUNDARY_MARGIN) % EVTMOD = (t - BOUNDARY_MARGIN) % EVTMOD
    BY <1>1, <1>2, <1>3, AdvanceTime
  <2> QED
    BY <1>4, <2>1
<1>6. ElapsedOf(a) = 0 /\ Systim(a) = Systim(h)
  BY <1>4 DEF ElapsedOf, Systim
<1>7. n < 0 => LeadOf(a) = LeadOf(h) - n /\ LeadOf(a) <= 2 * TMAX_ADJTIM
  <2> SUFFICES ASSUME n < 0 PROVE LeadOf(a) = LeadOf(h) - n /\ LeadOf(a) <= 2 * TMAX_ADJTIM
    OBVIOUS
  <2> DEFINE y == h.monotonic
             l == LeadOf(h)
             b == s % EVTMOD
  <2>1. l < TMAX_ADJTIM
    <3>1. ~((h.monotonic - h.current) % EVTMOD >= TMAX_ADJTIM)
      BY <1>2 DEF CheckAdjtim
    <3>2. ~(l >= TMAX_ADJTIM)
      BY <3>1 DEF LeadOf
    <3> QED
      BY <1>2, <1>3, <3>2
  <2>2. y \in Int /\ s \in Int /\ EVTMOD \in Nat \ {0} /\ y - s \in Int /\ t \in Int
        /\ n \in Int /\ l \in Int
    BY <1>2, <1>3, Moduli
  <2>3. l = (y - b) % EVTMOD /\ LeadOf(a) = (y - (t % EVTMOD)) % EVTMOD
    BY <1>3, <1>4, <1>5 DEF LeadOf
  <2>4. l - n \in 0..(EVTMOD - 1) /\ l - n <= 2 * TMAX_ADJTIM /\ l - n \in Int
    BY <1>2, <1>3, <2>1, Moduli
  <2> HIDE DEF l, y, b
  <2>5. (y - (t % EVTMOD)) % EVTMOD = (y - t) % EVTMOD
    BY ONLY <2>2, ModSum
  <2>6. l = (y - s) % EVTMOD
    <3>1. (y - (s % EVTMOD)) % EVTMOD = (y - s) % EVTMOD
      BY ONLY <2>2, ModSum
    <3> QED
      BY <2>3, <3>1 DEF b
  <2>7. (l - n) % EVTMOD = (y - s - n) % EVTMOD
    <3> DEFINE v == y - s
    <3>1. v \in Int /\ l = v % EVTMOD
      BY <2>2, <2>6
    <3> HIDE DEF v
    <3>2. ((v % EVTMOD) - n) % EVTMOD = (v - n) % EVTMOD
      BY ONLY <2>2, <3>1, ModSum
    <3> QED
      BY <3>1, <3>2 DEF v
  <2>8. y - s - n = y - t
    BY <2>2
  <2>9. (l - n) % EVTMOD = l - n
    <3> DEFINE v == l - n
    <3>1. v \in 0..(EVTMOD - 1)
      BY <2>4
    <3> HIDE DEF v
    <3>2. v % EVTMOD = v
      BY ONLY <2>2, <3>1, ModSmall
    <3> QED
      BY <3>2 DEF v
  <2> QED
    BY <2>3, <2>4, <2>5, <2>7, <2>8, <2>9 DEF l
<1>8. /\ g \in HeapRec /\ SameHeap(g, a) /\ g.evttim = a.evttim
      /\ g.current = a.current /\ g.boundary = a.boundary /\ g.insignal = a.insignal
      /\ g.hrtcnt = a.hrtcnt /\ g.count = a.count /\ g.fire = a.fire
      /\ g.monotonic \in 0..(EVTMOD - 1)
      /\ Systim(g) >= Systim(h) /\ LeadOf(g) <= 2 * TMAX_ADJTIM
      /\ s + LeadOf(h) <= t + LeadOf(g)
  <2>0. Systim(h) \in Int
    BY <1>1, RecFacts DEF Systim
  <2>1. CASE n < 0
    <3>1. g = a /\ SameHeap(a, a)
      BY <1>2, <2>1 DEF SameHeap
    <3> QED
      BY <1>2, <1>3, <1>4, <1>6, <1>7, <2>0, <2>1, <3>1
  <2>2. CASE n > 0
    <3> DEFINE L == LeadOf(h)
    <3>1. g = Monotonic(a, s % EVTMOD, n)
      BY <1>3, <2>2
    <3>2. n \in 0..(EVTMOD - 1) /\ s \in Int /\ a.monotonic \in 0..(EVTMOD - 1)
      BY <1>2, <1>3, <1>4, <2>2, Moduli
    <3>3. L = (a.monotonic - (s % EVTMOD)) % EVTMOD
      BY <1>3, <1>4 DEF LeadOf
    <3>4. a.current = (s + n) % EVTMOD /\ a \in HeapRec
      BY <1>4, <1>5
    <3> HIDE DEF L
    <3>5. /\ g \in HeapRec /\ SameHeap(g, a) /\ g.evttim = a.evttim
          /\ g.current = a.current /\ g.boundary = a.boundary /\ g.insignal = a.insignal
          /\ g.hrtcnt = a.hrtcnt /\ g.count = a.count /\ g.fire = a.fire
          /\ g.monotonic \in 0..(EVTMOD - 1)
          /\ LeadOf(g) = (IF L < n THEN 0 ELSE L - n)
          /\ Systim(g) = Systim(a) + (IF L < n THEN n - L ELSE 0)
      BY ONLY <3>1, <3>2, <3>3, <3>4, MonotonicOK
    <3>6. L \in Nat /\ L <= 2 * TMAX_ADJTIM /\ L = LeadOf(h)
      BY <1>3 DEF L
    <3>7. Systim(g) >= Systim(h) /\ LeadOf(g) <= 2 * TMAX_ADJTIM /\ s + L <= t + LeadOf(g)
      BY <1>2, <1>6, <2>0, <2>2, <3>5, <3>6
    <3> QED
      BY <3>5, <3>6, <3>7
  <2> QED
    BY <1>2, <2>1, <2>2
<1>9. ElapsedOf(g) = 0 /\ g.fire = h.fire /\ g.insignal = h.insignal /\ g.evttim = h.evttim
      /\ SameHeap(g, h)
  BY <1>4, <1>6, <1>8 DEF ElapsedOf, SameHeap
<1>10. ClockOK(g, t)
  <2>1. t - 0 = t /\ h.hrtcnt \in 0..(HRTMOD - 1) /\ h.count \in 0..(HRTMOD - 1)
    BY <1>1, <1>2 DEF ClockOK
  <2> QED
    BY <1>4, <1>5, <1>8, <1>9, <2>1 DEF ClockOK
<1>11. EventsOK(g, R, d, t)
  <2> SUFFICES ASSUME NEW e \in R
               PROVE  g.evttim[e] = d[e] % EVTMOD /\ Near(g, t, d[e])
    BY DEF EventsOK
  <2>1. h.evttim[e] = d[e] % EVTMOD /\ Near(h, s, d[e]) /\ d[e] \in Int
    BY <1>1 DEF EventsOK
  <2>2. s - BOUNDARY_MARGIN <= d[e] /\ d[e] <= s - 0 + LeadOf(h) + TSTEP_HRTCNT + TMAX_RELTIM
    BY <2>1 DEF Near
  <2>3. t - BOUNDARY_MARGIN <= d[e]
    <3>1. CASE n < 0
      BY <1>2, <2>1, <2>2, <3>1, Moduli
    <3>2. CASE n > 0
      <4>1. ~(h.last > 0 /\ EVTTIM_LE(h, (Time(h, 1) + TMAX_ADJTIM) % EVTMOD, h.current))
        BY <3>2 DEF CheckAdjtim
      <4>2. s < d[e] + TMAX_ADJTIM
        BY ONLY <1>2, <4>1, BaseOK(h, R, d, s), ElapsedOf(h) = 0, R \in SUBSET Evt,
           d \in [Evt -> Int], s \in Int, e \in R, CheckedTime
      <4> QED
        BY <1>2, <2>1, <4>2, Moduli
    <3> QED
      BY <1>2, <3>1, <3>2
  <2>4. d[e] <= t - 0 + LeadOf(g) + TSTEP_HRTCNT + TMAX_RELTIM
    <3>1. LeadOf(g) \in Nat
      BY <1>8, ElapsedNat, Moduli
    <3> QED
      BY <1>2, <1>3, <1>8, <2>1, <2>2, <3>1, Moduli
  <2> QED
    BY <1>9, <2>1, <2>3, <2>4 DEF Near
<1>12. FireOK(g)
  BY <1>1, <1>9 DEF FireOK
<1>13. Heap(g, R, d)
  BY <1>1, <1>8, <1>9, HeapSame
<1>14. Shown(g) = Systim(g)
  <2>1. LeadOf(g) \in Nat /\ g.offset \in Int /\ g.monotonic \in Int
    BY <1>8, RecFacts, ElapsedNat, Moduli
  <2> QED
    BY <1>9, <2>1 DEF Shown, Systim
<1> QED
  BY <1>2, <1>8, <1>9, <1>10, <1>11, <1>12, <1>13, <1>14 DEF BaseOK

\* adj_tim.
LEMMA AdjTimOK ==
  ASSUME TimeInv, NEW n \in (-TMAX_ADJTIM)..TMAX_ADJTIM, n # 0, adj_tim(n)
  PROVE  TimeInv' /\ Shown(m') >= Shown(m)
<1> DEFINE R == Registered
           u == update_current_evttim(m)
           a == Advance(u, n)
           g == IF n > 0 THEN Monotonic(a, u.current, n) ELSE a
           t == now + n
<1>1. /\ sta' = sta /\ due' = due /\ now' = t /\ callflag' = callflag /\ phase' = phase
      /\ ~CheckAdjtim(u, n) /\ m' = IF m.insignal THEN g ELSE set_hrt_event(g)
  BY DEF adj_tim
<1>2. /\ due \in [Evt -> Int] /\ now \in Int /\ sta \in [Evt -> BOOLEAN] /\ R \in SUBSET Evt
      /\ BaseOK(m, R, due, now) /\ TimerOK(m, R, due, now) /\ SignalOK(m, phase, callflag)
  BY InvFacts
<1>3. /\ u = update_current_evttim(m) /\ R = Registered' /\ a = Advance(u, n) /\ t = now + n
      /\ g = IF n > 0 THEN Monotonic(a, u.current, n) ELSE a
  BY <1>1 DEF Registered
<1> HIDE DEF R, u, a, g, t
<1>4. /\ BaseOK(u, R, due, now) /\ ElapsedOf(u) = 0 /\ Kept(u, m) /\ u.fire = m.fire
      /\ Systim(u) = Shown(m)
  BY ONLY <1>2, <1>3, UpdateOK
<1>5. /\ BaseOK(g, R, due, t) /\ ElapsedOf(g) = 0 /\ Shown(g) >= Systim(u)
      /\ g.insignal = u.insignal /\ g.fire = u.fire /\ t \in Int
  BY ONLY <1>1, <1>2, <1>3, <1>4, n \in (-TMAX_ADJTIM)..TMAX_ADJTIM, n # 0, AdjustOK
<1>6. g.insignal = m.insignal /\ g.fire = m.fire
  BY <1>4, <1>5 DEF Kept
<1>7. /\ BaseOK(m', R, due, t) /\ TimerOK(m', R, due, t) /\ ElapsedOf(m') = 0
      /\ m'.insignal = g.insignal /\ Shown(m') = Shown(g)
      /\ m.insignal => m'.fire = m.fire
  <2>1. CASE m.insignal
    BY <1>1, <1>5, <1>6, <2>1 DEF TimerOK
  <2>2. CASE ~m.insignal
    <3>1. m' = set_hrt_event(g)
      BY <1>1, <2>2
    <3> QED
      BY ONLY <1>2, <1>5, <2>2, <3>1, SetHrtOK
  <2> QED
    BY <2>1, <2>2
<1>8. SignalOK(m', phase', callflag')
  BY <1>1, <1>2, <1>6, <1>7 DEF SignalOK
<1> QED
  BY <1>1, <1>2, <1>3, <1>4, <1>5, <1>7, <1>8 DEF TimeInv
-----------------------------------------------------------------------------
(* The theorems.                                                            *)

\* The invariant says that the heap is exact.
LEMMA InvHeapExact ==
  ASSUME TimeInv
  PROVE  HeapExact
<1>1. Heap(m, Registered, due) /\ m.last \in Nat
  BY InvFacts, RecFacts
<1>2. Filled(m, Registered, 0) /\ Ordered(m, due, 0)
  BY <1>1 DEF Heap
<1>3. ASSUME NEW i \in 1..m.last
      PROVE  m.node[i] \in Registered /\ m.at[m.node[i]] = i
  <2>1. i # 0
    BY <1>1
  <2> QED
    BY <1>2, <2>1 DEF Filled
<1>4. ASSUME NEW b \in Registered
      PROVE  \E i \in 1..m.last : m.node[i] = b
  BY <1>2 DEF Filled
<1>5. ASSUME NEW i \in 2..m.last
      PROVE  due[m.node[i \div 2]] <= due[m.node[i]]
  <2>1. i # 0 /\ i \div 2 # 0
    BY <1>1
  <2> QED
    BY <1>2, <2>1 DEF Ordered
<1>6. ASSUME NEW e \in Evt
      PROVE  sta[e] <=> \E i \in 1..m.last : m.node[i] = e
  BY <1>3, <1>4 DEF Registered
<1> QED
  BY <1>3, <1>5, <1>6 DEF HeapExact

\* The invariant says that the timer is in time.
LEMMA InvTimerInTime ==
  ASSUME TimeInv
  PROVE  TimerInTime
BY InvFacts DEF TimerOK, InTime, TimerInTime, Registered

\* What get_tim returns.
LEMMA SystimShown ==
  ASSUME NEW h \in HeapRec, NEW t \in Int, ClockOK(h, t)
  PROVE  Systim(update_current_evttim(h)) = Shown(h)
BY UpdateClock

\* It is a number.
LEMMA ShownInt ==
  ASSUME TimeInv
  PROVE  Shown(m) \in Int
<1>1. m.offset \in Int /\ m.monotonic \in Int /\ ElapsedOf(m) \in Int /\ LeadOf(m) \in Int
  BY InvFacts, RecFacts, ElapsedNat, Moduli
<1> QED
  BY <1>1 DEF Shown

\* The times the application asks for.
LEMMA ReltimType ==
  ASSUME NEW t \in Reltim
  PROVE  t \in 0..TMAX_RELTIM
BY NotificationAssumption

\* A step keeps the invariant, and the system time does not go back.
StepOK == TimeInv' /\ (set_tim(0) \/ Shown(m') >= Shown(m))

\* A step that leaves the system time where it is.
LEMMA SameTimeOK ==
  ASSUME TimeInv, TimeInv', Shown(m') = Shown(m)
  PROVE  StepOK
BY ShownInt DEF StepOK

\* The steps of the kernel, of the clock, of waits and of the system cycle.
LEMMA TimeNextOK ==
  ASSUME TimeInv, TimeNext
  PROVE  StepOK
<1>1. CASE Tick
  BY <1>1, TickOK DEF StepOK
<1>2. CASE SignalBegin \/ SignalAgain
  BY <1>2, SignalUpdateOK, SameTimeOK
<1>3. CASE SignalEnd
  BY <1>3, SignalEndOK, SameTimeOK
<1>4. CASE NotificationReturns
  BY <1>4, NotificationReturnsOK, SameTimeOK
<1>5. ASSUME NEW e \in Evt, SignalCall(e) PROVE StepOK
  BY <1>5, SignalCallOK, SameTimeOK
<1>6. CASE get_tim
  BY <1>6, GetTimOK, SameTimeOK
<1>7. CASE set_tim(0)
  BY <1>7, SetTimOK DEF StepOK
<1>8. ASSUME NEW n \in (-TMAX_ADJTIM..TMAX_ADJTIM) \ {0}, adj_tim(n) PROVE StepOK
  BY <1>8, AdjTimOK DEF StepOK
<1>9. ASSUME NEW e \in Of("tmo"), wait_dequeue_tmevtb(e) PROVE StepOK
  BY <1>9, StopOK, SameTimeOK DEF wait_dequeue_tmevtb, Of
<1>10. ASSUME NEW e \in Of("tmo"), NEW t \in Reltim, make_wait_tmout(e, t) PROVE StepOK
  BY <1>10, RestartOK, ReltimType, SameTimeOK DEF make_wait_tmout, Of
<1>11. ASSUME NEW e \in Of("scyc"), chg_som(e) PROVE StepOK
  BY <1>11, ChgSomOK, SameTimeOK
<1> QED
  BY <1>1, <1>2, <1>3, <1>4, <1>5, <1>6, <1>7, <1>8, <1>9, <1>10, <1>11
     DEF TimeNext, Signal, SystemTime, TimedWaits

\* Starting and stopping.
LEMMA StartStopOK ==
  ASSUME TimeInv, NEW e \in Evt, Stop(e) \/ \E t \in Reltim : Restart(e, t)
  PROVE  StepOK
<1>1. CASE Stop(e)
  BY <1>1, StopOK, SameTimeOK
<1>2. ASSUME NEW t \in Reltim, Restart(e, t) PROVE StepOK
  BY <1>2, RestartOK, ReltimType, SameTimeOK
<1> QED
  BY <1>1, <1>2

\* A step of static notifications.
LEMMA NtfNextOK ==
  ASSUME TimeInv, NtfNext
  PROVE  StepOK
<1>1. CASE TimeNext
  BY <1>1, TimeNextOK
<1>2. CASE Alarms
  BY <1>2, StartStopOK DEF Alarms, sta_alm, stp_alm, Of
<1>3. CASE Cycles
  BY <1>3, StartStopOK DEF Cycles, sta_cyc, stp_cyc, Of
<1> QED
  BY <1>1, <1>2, <1>3 DEF NtfNext, TimeNext

\* No notification runs that does not exist.
DcreTimeInv == TimeInv /\ \A e \in Unused : ~sta[e]

\* What becomes of sta when a block is taken out or registered.
LEMMA StaAfter ==
  ASSUME TimeInv, NEW e \in Evt, NEW b \in BOOLEAN, sta' = [sta EXCEPT ![e] = b]
  PROVE  sta'[e] = b /\ \A f \in Evt : f # e => sta'[f] = sta[f]
BY InvFacts

\* The steps that neither create nor delete only register what exists.
LEMMA TimeNextUnused ==
  ASSUME TimeInv, TimeNext, NEW e \in Dynamic, ~sta[e]
  PROVE  ~sta'[e]
<1>1. e \in Evt /\ KindOf[e] \in {"cyc", "alm"}
  BY DEF Dynamic, Of
<1>2. CASE UNCHANGED sta
  BY <1>2
<1>3. ASSUME NEW b \in Evt, sta' = [sta EXCEPT ![b] = FALSE] PROVE ~sta'[e]
  BY <1>1, <1>3, StaAfter
<1>4. ASSUME NEW b \in Evt, KindOf[b] \in {"tmo", "scyc"}, sta' = [sta EXCEPT ![b] = TRUE]
      PROVE  ~sta'[e]
  BY <1>1, <1>4, StaAfter
<1>5. CASE Tick \/ SystemTime
  BY <1>2, <1>5 DEF Tick, SystemTime, get_tim, set_tim, adj_tim
<1>6. CASE SignalBegin \/ SignalAgain \/ SignalEnd \/ NotificationReturns
  BY <1>2, <1>6 DEF SignalBegin, SignalAgain, SignalEnd, NotificationReturns
<1>7. ASSUME NEW b \in Evt, SignalCall(b) PROVE ~sta'[e]
  BY <1>2, <1>3, <1>7 DEF SignalCall, Callback, Once
<1>8. CASE TimedWaits
  BY <1>3, <1>4, <1>8 DEF TimedWaits, wait_dequeue_tmevtb, make_wait_tmout, Stop, Restart, Of
<1>9. ASSUME NEW b \in Of("scyc"), chg_som(b) PROVE ~sta'[e]
  BY <1>4, <1>9 DEF chg_som, Of
<1> QED
  BY <1>5, <1>6, <1>7, <1>8, <1>9 DEF TimeNext, Signal

\* A step of notifications that are created and deleted.
LEMMA DcreNtfNextOK ==
  ASSUME DcreTimeInv, "sta_noexs" \notin Api, DcreNtfNext
  PROVE  StepOK /\ DcreTimeInv'
<1>1. TimeInv /\ \A e \in Unused : ~sta[e]
  BY DEF DcreTimeInv
<1>2. CASE TimeNext /\ UNCHANGED exist
  <2>1. StepOK
    BY <1>1, <1>2, TimeNextOK
  <2>2. ASSUME NEW e \in Unused' PROVE ~sta'[e]
    <3>1. e \in Dynamic /\ e \in Unused
      BY <1>2 DEF Unused
    <3> QED
      BY <1>1, <1>2, <3>1, TimeNextUnused
  <2> QED
    BY <2>1, <2>2 DEF StepOK, DcreTimeInv
<1>3. ASSUME NEW c \in Evt, Stop(c), exist \ {c} \subseteq exist', exist' \subseteq exist \union {c}
      PROVE  StepOK /\ DcreTimeInv'
  <2>1. StepOK
    BY <1>1, <1>3, StartStopOK
  <2>2. ASSUME NEW e \in Unused' PROVE ~sta'[e]
    <3>1. sta'[c] = FALSE /\ \A f \in Evt : f # c => sta'[f] = sta[f]
      BY <1>1, <1>3, StaAfter DEF Stop
    <3>2. e # c => e \in Unused /\ e \in Evt
      BY <1>3 DEF Unused, Dynamic, Of
    <3> QED
      BY <1>1, <3>1, <3>2
  <2> QED
    BY <2>1, <2>2 DEF StepOK, DcreTimeInv
<1>4. ASSUME NEW c \in Evt, NEW t \in Reltim, Restart(c, t), c \in exist', exist \subseteq exist'
      PROVE  StepOK /\ DcreTimeInv'
  <2>1. StepOK
    BY <1>1, <1>4, StartStopOK
  <2>2. ASSUME NEW e \in Unused' PROVE ~sta'[e]
    <3>1. \A f \in Evt : f # c => sta'[f] = sta[f]
      BY <1>1, <1>4, StaAfter DEF Restart
    <3>2. e # c /\ e \in Unused /\ e \in Evt
      BY <1>4 DEF Unused, Dynamic, Of
    <3> QED
      BY <1>1, <3>1, <3>2
  <2> QED
    BY <2>1, <2>2 DEF StepOK, DcreTimeInv
<1>5. ASSUME NEW c \in Of("cyc"), NEW start \in BOOLEAN, NEW t \in Reltim, acre_cyc(c, start, t)
      PROVE  StepOK /\ DcreTimeInv'
  <2>1. c \in Evt /\ c \in Unused /\ ~sta[c] /\ exist' = exist \union {c}
    BY <1>1, <1>5 DEF acre_cyc, Of
  <2>2. CASE start
    <3>1. Restart(c, t)
      BY <1>5, <2>1, <2>2 DEF acre_cyc, Restart
    <3> QED
      BY <1>4, <2>1, <3>1
  <2>3. CASE ~start
    <3>1. Stop(c)
      BY <1>5, <2>1, <2>3 DEF acre_cyc, Stop
    <3> QED
      BY <1>3, <2>1, <3>1
  <2> QED
    BY <2>2, <2>3
<1>6. ASSUME NEW a \in Of("alm"), acre_alm(a) PROVE StepOK /\ DcreTimeInv'
  <2>1. a \in Evt /\ a \in Unused /\ ~sta[a] /\ exist' = exist \union {a}
    BY <1>1, <1>6 DEF acre_alm, Of
  <2>2. Stop(a)
    BY <1>6, <2>1 DEF acre_alm, Stop
  <2> QED
    BY <1>3, <2>1, <2>2
<1>7. ASSUME NEW e \in Evt, Delete(e) PROVE StepOK /\ DcreTimeInv'
  BY <1>3, <1>7 DEF Delete
<1>8. ASSUME NEW c \in Of("cyc"), dcre_stp_cyc(c) PROVE StepOK /\ DcreTimeInv'
  BY <1>3, <1>8 DEF dcre_stp_cyc, stp_cyc, Of
<1>9. ASSUME NEW a \in Of("alm"), dcre_stp_alm(a) PROVE StepOK /\ DcreTimeInv'
  BY <1>3, <1>9 DEF dcre_stp_alm, stp_alm, Of
<1>10. ASSUME NEW a \in Of("alm"), NEW t \in Reltim, dcre_sta_alm(a, t)
       PROVE  StepOK /\ DcreTimeInv'
  BY <1>4, <1>10 DEF dcre_sta_alm, sta_alm, Of
<1>11. ASSUME NEW c \in Of("cyc"), NEW t \in Reltim, dcre_sta_cyc(c, t)
       PROVE  StepOK /\ DcreTimeInv'
  BY <1>4, <1>11 DEF dcre_sta_cyc, sta_cyc, Of
<1>12. CASE DcreCycles
  BY <1>5, <1>7, <1>8, <1>11, <1>12 DEF DcreCycles, del_cyc, Of
<1>13. CASE DcreAlarms
  BY <1>6, <1>7, <1>9, <1>10, <1>13 DEF DcreAlarms, del_alm, Of
<1> QED
  BY <1>2, <1>12, <1>13 DEF DcreNtfNext

\* The invariant of the static notifications.
LEMMA StaticInv == NtfSpec => []TimeInv
<1>1. NtfInit => TimeInv
  BY TimeInitOK
<1>2. TimeInv /\ [NtfNext]_nvars => TimeInv'
  <2> SUFFICES ASSUME TimeInv, [NtfNext]_nvars PROVE TimeInv'
    OBVIOUS
  <2>1. CASE NtfNext
    BY <2>1, NtfNextOK DEF StepOK
  <2>2. CASE UNCHANGED nvars
    BY <2>2 DEF nvars, TimeInv, Registered
  <2> QED
    BY <2>1, <2>2
<1> QED
  BY <1>1, <1>2, PTL DEF NtfSpec

\* The invariant of the dynamic ones.
LEMMA DynamicInv ==
  ASSUME "sta_noexs" \notin Api
  PROVE  DcreNtfSpec => []DcreTimeInv
<1>1. DcreNtfInit => DcreTimeInv
  BY TimeInitOK DEF DcreNtfInit, DcreTimeInv, NtfInit, Unused, Dynamic, Of
<1>2. DcreTimeInv /\ [DcreNtfNext]_dnvars => DcreTimeInv'
  <2> SUFFICES ASSUME DcreTimeInv, [DcreNtfNext]_dnvars PROVE DcreTimeInv'
    OBVIOUS
  <2>1. CASE DcreNtfNext
    BY <2>1, DcreNtfNextOK
  <2>2. CASE UNCHANGED dnvars
    BY <2>2 DEF dnvars, nvars, DcreTimeInv, TimeInv, Registered, Unused
  <2> QED
    BY <2>1, <2>2
<1> QED
  BY <1>1, <1>2, PTL DEF DcreNtfSpec

\* The heap holds the blocks of what runs, in the order of true times, and none of
\* what does not exist (tmevtb_insert and tmevtb_delete, acre_cyc to del_alm).
THEOREM BlocksCorrect ==
  ASSUME "sta_noexs" \notin Api
  PROVE  DcreNtfSpec => []BlocksExact
<1>1. DcreTimeInv => BlocksExact
  <2> SUFFICES ASSUME DcreTimeInv PROVE HeapExact /\ UnusedNotRegistered
    BY DEF BlocksExact
  <2>1. HeapExact /\ \A e \in Unused : ~sta[e]
    BY InvHeapExact DEF DcreTimeInv
  <2> QED
    BY <2>1 DEF HeapExact, UnusedNotRegistered, Unused, Dynamic, Of
<1> QED
  BY <1>1, DynamicInv, PTL

\* The timer interrupts by the time the first event is due (set_hrt_event).
THEOREM TimerCorrect ==
  ASSUME "sta_noexs" \notin Api
  PROVE  DcreNtfSpec => []TimerInTime
<1>1. DcreTimeInv => TimerInTime
  BY InvTimerInTime DEF DcreTimeInv
<1> QED
  BY <1>1, DynamicInv, PTL

\* Callbacks run in the order of their times and never early (signal_time).
THEOREM FiresCorrect ==
  ASSUME "sta_noexs" \notin Api
  PROVE  DcreNtfSpec => FiresInOrder
<1>1. DcreTimeInv =>
        [\A e \in Evt : SignalCall(e) =>
           due[e] <= now /\ \A f \in Evt : sta[f] => due[e] <= due[f]]_nvars
  BY CalledIsDue DEF DcreTimeInv, SignalCall, Registered
<1> QED
  BY <1>1, DynamicInv, PTL DEF FiresInOrder

\* The system time never goes back unless it is set (update_current_evttim, adj_tim).
THEOREM SystimCorrect ==
  ASSUME "sta_noexs" \notin Api
  PROVE  DcreNtfSpec => SystimMonotonic
<1>1. DcreTimeInv /\ DcreTimeInv' /\ [DcreNtfNext]_dnvars =>
        [set_tim(0) \/ SystimNow' >= SystimNow]_nvars
  <2> SUFFICES ASSUME DcreTimeInv, DcreTimeInv', [DcreNtfNext]_dnvars, ~UNCHANGED nvars
               PROVE  set_tim(0) \/ SystimNow' >= SystimNow
    OBVIOUS
  <2>1. DcreNtfNext
    BY DEF dnvars
  <2>2. set_tim(0) \/ Shown(m') >= Shown(m)
    BY <2>1, DcreNtfNextOK DEF StepOK
  <2>3. TimeInv /\ TimeInv'
    BY DEF DcreTimeInv
  <2>4. SystimNow = Shown(m)
    BY <2>3, InvFacts, SystimShown DEF SystimNow
  <2>5. SystimNow' = Shown(m')
    <3>1. m' \in HeapRec /\ now' \in Int /\ ClockOK(m', now')
      BY <2>3 DEF TimeInv, BaseOK, Heap
    <3> QED
      BY <3>1, SystimShown DEF SystimNow
  <2> QED
    BY <2>2, <2>4, <2>5
<1> QED
  BY <1>1, DynamicInv, PTL DEF DcreNtfSpec, SystimMonotonic

\* The same of the notifications that the configurator creates: the heap is exact and
\* the timer in time, callbacks run in order and the system time does not go back.
THEOREM StaticTimeCorrect ==
  NtfSpec => [](HeapExact /\ TimerInTime) /\ FiresInOrder /\ SystimMonotonic
<1>1. TimeInv => HeapExact /\ TimerInTime
  BY InvHeapExact, InvTimerInTime
<1>2. TimeInv =>
        [\A e \in Evt : SignalCall(e) =>
           due[e] <= now /\ \A f \in Evt : sta[f] => due[e] <= due[f]]_nvars
  BY CalledIsDue DEF SignalCall, Registered
<1>3. TimeInv /\ TimeInv' /\ [NtfNext]_nvars => [set_tim(0) \/ SystimNow' >= SystimNow]_nvars
  <2> SUFFICES ASSUME TimeInv, TimeInv', NtfNext
               PROVE  set_tim(0) \/ SystimNow' >= SystimNow
    OBVIOUS
  <2>1. set_tim(0) \/ Shown(m') >= Shown(m)
    BY NtfNextOK DEF StepOK
  <2>2. SystimNow = Shown(m)
    BY InvFacts, SystimShown DEF SystimNow
  <2>3. SystimNow' = Shown(m')
    <3>1. m' \in HeapRec /\ now' \in Int /\ ClockOK(m', now')
      BY DEF TimeInv, BaseOK, Heap
    <3> QED
      BY <3>1, SystimShown DEF SystimNow
  <2> QED
    BY <2>1, <2>2, <2>3
<1> QED
  BY <1>1, <1>2, <1>3, StaticInv, PTL DEF NtfSpec, FiresInOrder, SystimMonotonic
=============================================================================
