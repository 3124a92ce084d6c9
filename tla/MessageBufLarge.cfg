\* A message larger than the ring is received from its waiting sender.
SPECIFICATION BufferSpec
CONSTANTS
  t1 = t1
  t2 = t2
  t3 = t3
  p1 = p1
  b1 = b1
  NULL = NULL
  NoData = NoData
  Task <- MCTask
  NPri = 2
  KERNEL = KERNEL
  IDLE = IDLE
  Unit = {KERNEL, IDLE}
  UnitOf <- MCUnitOf
  IniPri <- MCMbfPri
  WObj <- MCWObj
  TPriObj = {}
  Mpf = {p1}
  BlkCnt <- MCTwo
  Mbf = {b1}
  MbfSz <- MCMbfSz
  Msg = {"a", "b", "c"}
  MsgSz <- MCMsgSz
  Main = t1
  NoActQue = {t1, t2, t3}
  Api = {"act_tsk", "snd_mbf", "rcv_mbf"}
INVARIANTS
  FirstSenderDoesNotFit
