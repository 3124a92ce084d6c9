\* One task reads while the peer sends; no echo, flow control of reception only.
SPECIFICATION SvcSpec
CONSTANTS
  t1 = t1
  t2 = t2
  User = {t1, t2}
  SndBufSz = 2
  RcvBufSz = 4
  MaxLen = 2
  IoctlSet <- MCPlain
  PortApi = {}
  LogBufSz = 3
  Prio = {"notice"}
  MaxLog = 1
INVARIANTS
  StopIsRemembered
