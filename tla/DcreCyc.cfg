\* sta_cyc of an unused ID.
SPECIFICATION MCSpec
CONSTANTS
  cyc = cyc
  alm = alm
  scyc = scyc
  w1 = w1
  w2 = w2
  w3 = w3
  w4 = w4
  w5 = w5
  w6 = w6
  w7 = w7
  Evt = {cyc, alm, scyc, w1, w2, w3, w4, w5, w6, w7}
  KindOf <- MCKindOf
  Cyctim <- MCCyctim
  EVTMOD = 9
  HRTMOD = 5
  BOUNDARY_MARGIN = 2
  HRTCNT_BOUND = 3
  TSTEP_HRTCNT = 1
  TMAX_RELTIM = 3
  TMAX_ADJTIM = 1
  Reltim = {0, 3}
  MaxLate = 1
  Api = {"sta_alm", "stp_alm", "sta_cyc", "stp_cyc", "tmout", "chg_som", "get_tim", "set_tim", "adj_tim", "acre", "sta_noexs"}
VIEW MCView
INVARIANTS
  UnusedNotRegistered
