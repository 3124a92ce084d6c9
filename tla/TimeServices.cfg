\* An alarm with a cyclic notification or the system cycle over unbounded time;
\* seven waits.  Two tasks that write and read strings of up to two characters,
\* buffers of two and of four characters; a system log of three records.
SPECIFICATION TSSpec
VIEW TSView
CONSTANTS
  cyc = cyc
  alm = alm
  scyc = scyc
  w1 = w1
  w2 = w2
  w3 = w3
  w4 = w4
  w5 = w5
  w6 = w6
  w7 = w7
  Evt = {cyc, alm, scyc, w1, w2, w3, w4, w5, w6, w7}
  KindOf <- MCKindOf
  Cyctim <- MCCyctim
  EVTMOD = 9
  HRTMOD = 5
  BOUNDARY_MARGIN = 2
  HRTCNT_BOUND = 3
  TSTEP_HRTCNT = 1
  TMAX_RELTIM = 3
  TMAX_ADJTIM = 1
  Reltim = {0, 3}
  MaxLate = 1
  Api = {"sta_alm", "stp_alm", "sta_cyc", "stp_cyc", "tmout", "chg_som", "get_tim", "set_tim", "adj_tim", "acre"}
  t1 = t1
  t2 = t2
  User = {t1, t2}
  SndBufSz = 2
  RcvBufSz = 3
  MaxLen = 2
  IoctlSet <- MCIoctls
  PortApi = {}
  LogBufSz = 3
  Prio = {"notice", "debug"}
  MaxLog = 8
INVARIANTS
  BlocksExact
  TimerInTime
  TokensExact
  SendingGoesOn
  LogGapsReported
PROPERTIES
  FiresInOrder
  SystimMonotonic
  SentInOrder
