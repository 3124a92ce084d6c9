\* Mutexes that are deleted while a task holds them.
SPECIFICATION MCDcreSpec
CONSTANTS
  t1 = t1
  t2 = t2
  t3 = t3
  u1 = u1
  m1 = m1
  m2 = m2
  m3 = m3
  NULL = NULL
  Task <- MCTask
  NPri = 3
  KERNEL = KERNEL
  IDLE = IDLE
  Unit = {KERNEL, IDLE}
  UnitOf <- MCUnitOf
  IniPri <- MCIniPri
  WObj = {m1, m2, m3}
  TPriObj = {m1, m2, m3}
  Mtx = {m1, m2, m3}
  CeilPri <- MCCeilPri
  Dyn <- MCDyn
  MpkSize = 1
  Main = t1
  NoActQue = {t2, t3}
  Api = {"act_tsk", "can_act", "chg_pri", "ext_tsk", "ras_ter", "dis_ter", "ena_ter", "ter_tsk", "slp_tsk", "tmout", "wup_tsk", "can_wup", "rel_wai", "sus_tsk", "rsm_tsk", "dly_tsk", "rot_rdq", "loc_cpu", "dis_dsp", "chg_ipm", "loc_mtx", "ploc_mtx", "ini_mtx", "acre", "del", "del_locked"}
INVARIANTS
  NothingDangles
