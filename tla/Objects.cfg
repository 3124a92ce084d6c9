\* Every kind of object but mutexes, static and dynamic, three tasks.
SPECIFICATION MCSpec
CONSTANTS
  t1 = t1
  t2 = t2
  t3 = t3
  x1 = x1
  x2 = x2
  f1 = f1
  f2 = f2
  p1 = p1
  p2 = p2
  p3 = p3
  d0 = d0
  d1 = d1
  e0 = e0
  e1 = e1
  b1 = b1
  NULL = NULL
  NoData = NoData
  Task <- MCTask
  NPri = 2
  KERNEL = KERNEL
  IDLE = IDLE
  Unit = {KERNEL, IDLE}
  UnitOf <- MCUnitOf
  IniPri <- MCIniPri
  WObj <- MCWObj
  TPriObj <- MCTPri
  Dyn <- MCDyn
  MpkSize = 6
  Sem = {x1, x2}
  ISemCnt <- MCSemCnt
  MaxSem <- MCMaxSem
  Flg = {f1, f2}
  Bit = {"b1", "b2"}
  TA_CLR = {f1}
  TA_WMUL = {f1, f2}
  IFlgPtn <- MCIni
  Dtq = {d0, d1}
  DtqCnt <- MCDtqCnt
  DtqData = {"a", "b"}
  Pdq = {e0, e1}
  PdqCnt <- MCPdqCnt
  MaxDPri = 2
  PdqData = {1}
  Mbf = {b1}
  MbfSz <- MCMbfSz
  Msg = {"a", "b", "c"}
  MsgSz <- MCMsgSz
  Mpf = {p1, p2, p3}
  BlkCnt <- MCBlkCnt
  Main = t1
  NoActQue = {t1, t2, t3}
  Api = {"act_tsk", "rel_wai", "ter_tsk", "dis_ter", "ras_ter", "tmout", "acre", "del", "sig_sem", "wai_sem", "pol_sem", "ini_sem", "set_flg", "clr_flg", "wai_flg", "pol_flg", "ini_flg", "snd_dtq", "psnd_dtq", "fsnd_dtq", "rcv_dtq", "prcv_dtq", "ini_dtq", "snd_pdq", "psnd_pdq", "rcv_pdq", "prcv_pdq", "ini_pdq", "snd_mbf", "tsnd_mbf", "psnd_mbf", "rcv_mbf", "prcv_mbf", "ini_mbf", "get_mpf", "pget_mpf", "rel_mpf", "ini_mpf"}
INVARIANTS
  WaitsAreJustified
  StorageExact
  DynamicExact
  NobodyAwaitsDeleted
PROPERTIES
  FirstInFirstOut
  DataInOrder
  ReleasedWithPattern
  EventConsumedOnce
