\* All areas of two address spaces of 12 bytes.
SPECIFICATION MemSpec
CONSTANTS
  d1 = d1
  d2 = d2
  p0 = p0
  p1 = p1
  p2 = p2
  ADDRMOD = 12
  Domain = {d1, d2}
  MemMap <- MCMemMap
  MemTask = {p0, p1, p2}
  TaskInfo <- MCTaskInfo
INVARIANTS
  RwOfGivenDomain
