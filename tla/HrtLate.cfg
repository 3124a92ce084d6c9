\* The system cycle, whose switch may be held off.
SPECIFICATION MCHeldSpec
CONSTANTS
  cyc = cyc
  alm = alm
  scyc = scyc
  w1 = w1
  w2 = w2
  w3 = w3
  w4 = w4
  w5 = w5
  w6 = w6
  w7 = w7
  Evt = {scyc, alm}
  KindOf <- MCKindOf
  Cyctim <- MCCyctim
  EVTMOD = 16
  HRTMOD = 6
  BOUNDARY_MARGIN = 2
  HRTCNT_BOUND = 4
  TSTEP_HRTCNT = 1
  TMAX_RELTIM = 4
  TMAX_ADJTIM = 1
  Reltim = {0, 4}
  MaxLate = 1
  Api = {"chg_som", "sta_alm"}
VIEW MCView
PROPERTIES
  SetFromCurrentTime
