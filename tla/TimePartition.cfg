\* A mode of two windows, a task of each kind of domain; the processor time of two tasks.
\* Two interrupt lines of different priorities, two static routines and two created
\* ones.  All areas of two address spaces of 12 bytes.
SPECIFICATION MCSpec
CONSTANTS
  k = k
  a = a
  b = b
  U = U
  NULL = NULL
  Task <- MCTask
  NPri = 1
  KERNEL = KERNEL
  IDLE = IDLE
  Unit = {KERNEL, U, IDLE}
  UnitOf <- MCUnitOf
  IniPri <- MCIniPri
  WObj = {}
  TPriObj = {}
  Som = {"som1", "som2"}
  Windows <- MCWindows
  OvrTim = {1, 2}
  Main = k
  NoActQue = {k, a}
  Api = {"act_tsk", "ext_tsk", "dis_dsp", "chg_ipm", "chg_som", "dly_tsk", "dis_ter", "ena_ter", "ras_ter", "ter_tsk"}
  n1 = n1
  n2 = n2
  i1 = i1
  i2 = i2
  i3 = i3
  i4 = i4
  IntNo = {n1, n2}
  IntPri <- MCIntPri
  Isr = {i1, i2, i3, i4}
  StaticIsr <- MCStaticIsr
  isrorder_table <- MCIsrOrder
  DynIsr <- MCDynIsr
  IsrPri = {1, 2}
  d1 = d1
  d2 = d2
  p0 = p0
  p1 = p1
  p2 = p2
  ADDRMOD = 12
  Domain = {d1, d2}
  MemMap <- MCMemMap
  MemTask = {p0, p1, p2}
  TaskInfo <- MCTaskInfo
INVARIANTS
  WindowConsistent
  WindowIsolation
  UserTimeIsCounted
  OverrunExact
  RoutinesExact
  MemoryChecksExact
PROPERTIES
  WindowsInOrder
