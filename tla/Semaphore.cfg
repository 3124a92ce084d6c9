\* Three tasks, one TA_TFIFO semaphore of at most two units.
SPECIFICATION SemFairSpec
CONSTANTS
  t1 = t1
  t2 = t2
  t3 = t3
  x1 = x1
  NULL = NULL
  Task <- MCTask
  NPri = 2
  KERNEL = KERNEL
  IDLE = IDLE
  Unit = {KERNEL, IDLE}
  UnitOf <- MCUnitOf
  IniPri <- MCIniPri
  WObj = {x1}
  TPriObj = {}
  Sem = {x1}
  ISemCnt <- MCOne
  MaxSem <- MCTwo
  Main = t1
  NoActQue = {t1}
  Api = {"act_tsk", "ter_tsk", "ext_tsk", "sig_sem", "wai_sem", "pol_sem", "ini_sem", "tmout", "rel_wai", "sus_tsk", "rsm_tsk"}
PROPERTIES
  UnitsConserved
  FifoNeverStarves
