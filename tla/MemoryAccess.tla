---------------------------- MODULE MemoryAccess ------------------------------
(***************************************************************************)
(* Memory objects and the checks of memory access (kernel/memory.c with    *)
(* the additions of extension/dcre, mem_manage.c).  The configurator cuts  *)
(* the address space into regions, in the order of their addresses; the    *)
(* checks search the region of the first byte and compare sizes, modulo    *)
(* the size of the address space.                                          *)
(***************************************************************************)
EXTENDS Integers, Sequences, SequencesExt, FiniteSets

CONSTANTS
  ADDRMOD,  \* the size of the address space
  Domain,   \* the user domains
  MemMap,   \* the tables of regions to check: each a sequence of [top, accatr, acptn*]
  MemTask,  \* the tasks
  TaskInfo  \* per task: its domains (none for the kernel domain) and its user stack

Accatr == {"NOEXS", "NOWRITE", "NOREAD", "EXEC", "USTACK"}

Region == [top : 0..(ADDRMOD - 1), accatr : SUBSET Accatr,
           acptn1 : SUBSET Domain, acptn2 : SUBSET Domain, acptn4 : SUBSET Domain]

\* What the configurator makes (memory.trb, kernel_lib.trb:340, and memory.h:53): two
\* regions at least, from address 0, no access to unused regions and no right to
\* write read-only ones.
ASSUME MapAssumption ==
  /\ ADDRMOD \in Nat \ {0, 1}
  /\ \A m \in MemMap :
       /\ m \in Seq(Region)
       /\ Len(m) >= 2 /\ m[1].top = 0
       /\ \A i \in DOMAIN m :
            /\ i > 1 => m[i - 1].top < m[i].top
            /\ "NOWRITE" \in m[i].accatr => m[i].acptn1 = {}
            /\ "NOEXS" \in m[i].accatr =>
                 /\ m[i].accatr = {"NOEXS"}
                 /\ m[i].acptn1 \union m[i].acptn2 \union m[i].acptn4 = {}

\* A user task has its stack in a memory object of its domain (task.trb:246) or, created
\* while the system runs, in unused memory (acre_tsk checks with valid_ustack).
ASSUME StackAssumption ==
  \A t \in MemTask :
    /\ TaskInfo[t] \in [domptn : {{}} \union {{d} : d \in Domain},
                        ustk : 0..(ADDRMOD - 1), ustksz : 0..(ADDRMOD - 1)]
    /\ TaskInfo[t].ustk + TaskInfo[t].ustksz <= ADDRMOD
    /\ TaskInfo[t].ustksz > 0 =>
         /\ TaskInfo[t].domptn # {}
         /\ \A m \in MemMap : \E i \in DOMAIN m :
              /\ m[i].top <= TaskInfo[t].ustk
              /\ i < Len(m) => TaskInfo[t].ustk + TaskInfo[t].ustksz <= m[i + 1].top
              /\ \/ "NOEXS" \in m[i].accatr
                 \/ "USTACK" \in m[i].accatr /\ m[i].acptn1 = TaskInfo[t].domptn

VARIABLES
  memmap,  \* the regions
  prun,    \* the running task
  area     \* the area that a call names: base and size (none before the first call)

memvars == <<memmap, prun, area>>

TACP_KERNEL == {}
rundom == TaskInfo[prun].domptn

-----------------------------------------------------------------------------
(* The search. *)

\* What is left to search: the regions w[1] to w[2].
Interval == (1..Len(memmap)) \X (1..Len(memmap))
Middle(w) == (w[1] + w[2] + 1) \div 2

search_meminib_Behind(addr) ==
  LET bisect[w \in Interval] ==
        IF w[1] >= w[2] THEN w[1]
        ELSE IF addr <= memmap[Middle(w)].top THEN bisect[<<w[1], Middle(w) - 1>>]
        ELSE bisect[<<Middle(w), w[2]>>]
  IN  bisect[<<1, Len(memmap)>>]

\* search_meminib, with indices from 1.
search_meminib(addr) ==
  LET bisect[w \in Interval] ==
        IF w[1] >= w[2] THEN w[1]
        ELSE IF addr < memmap[Middle(w)].top THEN bisect[<<w[1], Middle(w) - 1>>]
        ELSE bisect[<<Middle(w), w[2]>>]
  IN  bisect[<<1, Len(memmap)>>]

MemIni(base) == memmap[search_meminib(base)]

\* What is left of the region from base on, where the address space wraps around.
MemSize(base) ==
  LET i   == search_meminib(base)
      end == IF i < Len(memmap) THEN memmap[i + 1].top ELSE 0
  IN  (end - base) % ADDRMOD

\* Existing memory, and all of it in one memory object.
valid_memobj(base, size) == "NOEXS" \notin MemIni(base).accatr /\ size <= MemSize(base)

within_memobj(base, size, mobase, mosize) ==
  mobase <= base /\ size <= mosize /\ base - mobase <= mosize - size

within_ustack(base, size, t) ==
  within_memobj(base, size, TaskInfo[t].ustk, TaskInfo[t].ustksz)

-----------------------------------------------------------------------------
(* The checks. *)

\* For the running task: its own stack, and the memory that its domain is `permitted'.
Probe(base, size, permitted) ==
  IF "NOEXS" \in MemIni(base).accatr THEN within_ustack(base, size, prun)
  ELSE /\ size <= MemSize(base)
       /\ IF "USTACK" \in MemIni(base).accatr THEN within_ustack(base, size, prun)
          ELSE permitted

probe_mem_write(base, size) ==
  Probe(base, size, rundom \intersect MemIni(base).acptn1 # {})

probe_mem_read(base, size) ==
  Probe(base, size, /\ "NOREAD" \notin MemIni(base).accatr
                    /\ rundom \intersect MemIni(base).acptn2 # {})

\* For a domain; its tasks' stacks do not count.
probe_mem_write_domptn(base, size, domptn) ==
  /\ valid_memobj(base, size) /\ "USTACK" \notin MemIni(base).accatr
  /\ domptn \intersect MemIni(base).acptn1 # {}

\* The permissions are those of the running domain, whatever domptn is.
probe_mem_rw_domptn(base, size, domptn) ==
  /\ valid_memobj(base, size) /\ "USTACK" \notin MemIni(base).accatr
  /\ "NOREAD" \notin MemIni(base).accatr
  /\ rundom \intersect MemIni(base).acptn1 # {}
  /\ rundom \intersect MemIni(base).acptn2 # {}

\* check_nfyinfo for the variable of a notification that the domain domptn is to
\* have set or incremented.
check_nfyinfo(nfymode, base, size, domptn) ==
  domptn = TACP_KERNEL \/ IF nfymode = "SETVAR" THEN probe_mem_write_domptn(base, size, domptn)
                          ELSE probe_mem_rw_domptn(base, size, domptn)

\* The areas that the acre_ calls are given for the kernel's own use, and for stacks.
valid_memobj_kernel(base, size) ==
  LET mo == MemIni(base)
  IN  /\ valid_memobj(base, size)
      /\ {"NOWRITE", "NOREAD"} \intersect mo.accatr = {}
      /\ mo.acptn1 = TACP_KERNEL /\ mo.acptn2 = TACP_KERNEL /\ mo.acptn4 = TACP_KERNEL

valid_ustack(base, size) == "NOEXS" \in MemIni(base).accatr /\ size <= MemSize(base)

\* probe_memory, the body of prb_mem, for task t; stacks outside memory objects are
\* not executable (TARGET_MEMATR_USTACK).
probe_memory(base, size, t, pmmode) ==
  LET mo == MemIni(base)
      domptn == TaskInfo[t].domptn
      OnStack == within_ustack(base, size, t) /\ ("EXEC" \in pmmode => "EXEC" \in mo.accatr)
      Granted ==
        /\ "WRITE" \in pmmode => domptn \intersect mo.acptn1 # {}
        /\ "READ" \in pmmode => "NOREAD" \notin mo.accatr /\ domptn \intersect mo.acptn2 # {}
        /\ "EXEC" \in pmmode => "EXEC" \in mo.accatr /\ domptn \intersect mo.acptn2 # {}
      Allowed == \/ domptn = TACP_KERNEL
                 \/ IF "USTACK" \in mo.accatr THEN OnStack ELSE Granted
  IN  IF "NOEXS" \in mo.accatr
      THEN IF ~within_ustack(base, size, t) THEN "E_NOEXS"
           ELSE IF "EXEC" \in pmmode THEN "E_MACV" ELSE "E_OK"
      ELSE IF size > MemSize(base) THEN "E_OBJ"
      ELSE IF rundom # TACP_KERNEL /\ rundom \intersect mo.acptn4 = {} THEN "E_OACV"
      ELSE IF Allowed THEN "E_OK" ELSE "E_MACV"

ref_mem(addr) ==
  LET i == search_meminib(addr)
      Error(ercd) == [ercd |-> ercd, base |-> 0, size |-> 0]
  IN  IF "NOEXS" \in memmap[i].accatr THEN Error("E_NOEXS")
      ELSE IF rundom # TACP_KERNEL /\ rundom \intersect memmap[i].acptn4 = {} THEN Error("E_OACV")
      ELSE [ercd |-> "E_OK", base |-> memmap[i].top, size |-> MemSize(memmap[i].top)]

-----------------------------------------------------------------------------
(* Tasks that run in turn and name areas in their calls. *)

Area == [base : 0..(ADDRMOD - 1), size : 1..(ADDRMOD - 1)]

MemInit == memmap \in MemMap /\ prun \in MemTask /\ area = [base |-> 0, size |-> 0]

MemCall == area' \in Area /\ UNCHANGED <<memmap, prun>>
MemDispatch == prun' \in MemTask \ {prun} /\ UNCHANGED <<memmap, area>>

MemNext == MemCall \/ MemDispatch
MemSpec == MemInit /\ [][MemNext]_memvars

-----------------------------------------------------------------------------
(* Properties: what the checks should say, byte by byte. *)

Bytes(base, size) == base..(base + size - 1)
Addresses == 0..(ADDRMOD - 1)

\* The region of byte x.
RegionAt(x) ==
  CHOOSE i \in DOMAIN memmap :
    memmap[i].top <= x /\ \A j \in DOMAIN memmap : memmap[j].top <= x => j <= i

\* The regions that the area touches.
Touched(base, size) == {RegionAt(x) : x \in Bytes(base, size) \intersect Addresses}

\* The area is in existing memory, and in one memory object.
InOneObject(base, size) ==
  /\ Bytes(base, size) \subseteq Addresses
  /\ \E i \in DOMAIN memmap : Touched(base, size) = {i} /\ "NOEXS" \notin memmap[i].accatr

\* The domain domptn has the right at byte x, stacks apart.
Grants(x, right, domptn) ==
  LET mo == memmap[RegionAt(x)]
  IN  CASE right = "WRITE" -> domptn \intersect mo.acptn1 # {}
        [] right = "READ"  -> "NOREAD" \notin mo.accatr /\ domptn \intersect mo.acptn2 # {}
        [] right = "EXEC"  -> "EXEC" \in mo.accatr /\ domptn \intersect mo.acptn2 # {}

StackByte(x) == {"NOEXS", "USTACK"} \intersect memmap[RegionAt(x)].accatr # {}

DomainMay(domptn, rights, base, size) ==
  /\ InOneObject(base, size)
  /\ \A x \in Bytes(base, size), r \in rights : ~StackByte(x) /\ Grants(x, r, domptn)

\* Task t: in its own stack, and with the rights of its domain in one memory object.
TaskMay(t, rights, base, size) ==
  \/ /\ Bytes(base, size) \subseteq Bytes(TaskInfo[t].ustk, TaskInfo[t].ustksz)
     /\ \A x \in Bytes(base, size) :
          StackByte(x) /\ ("EXEC" \in rights => "EXEC" \in memmap[RegionAt(x)].accatr)
  \/ DomainMay(TaskInfo[t].domptn, rights, base, size)
  \/ TaskInfo[t].domptn = TACP_KERNEL /\ InOneObject(base, size)

\* The search of regions by bisection and the comparison of sizes modulo the address
\* space decide as a check of every byte would, at the boundaries of regions and at
\* the end of the address space: for the running task, for a domain whose
\* notification sets a variable, for areas that the kernel or a new task is to use;
\* and what prb_mem tells one task about another is what that other's calls find.
MemoryChecksExact ==
  LET base == area.base
      size == area.size
  IN  size > 0 =>
      /\ rundom # TACP_KERNEL =>
           /\ probe_mem_write(base, size) <=> TaskMay(prun, {"WRITE"}, base, size)
           /\ probe_mem_read(base, size) <=> TaskMay(prun, {"READ"}, base, size)
      /\ \A d \in Domain :
           /\ check_nfyinfo("SETVAR", base, size, {d}) <=> DomainMay({d}, {"WRITE"}, base, size)
           /\ valid_memobj_kernel(base, size) => \A t \in MemTask, r \in {"READ", "WRITE"} :
                TaskMay(t, {r}, base, size) => TaskInfo[t].domptn = TACP_KERNEL
      /\ valid_ustack(base, size) <=>
           /\ Bytes(base, size) \subseteq Addresses
           /\ Cardinality(Touched(base, size)) = 1
           /\ \A i \in Touched(base, size) : "NOEXS" \in memmap[i].accatr
      /\ \A t \in MemTask, pmmode \in (SUBSET {"READ", "WRITE", "EXEC"}) \ {{}} :
           LET ercd == probe_memory(base, size, t, pmmode)
           IN  ercd # "E_OACV" => (ercd = "E_OK" <=> TaskMay(t, pmmode, base, size))
      /\ LET mo == ref_mem(base)
         IN  mo.ercd = "E_OK" =>
               Bytes(mo.base, mo.size) = {x \in Addresses : RegionAt(x) = RegionAt(base)}

\* memory.c:233 (extension/dcre) says that the check concerns the given domain, not the running one.
RwOfGivenDomain ==
  area.size > 0 => \A d \in Domain :
    check_nfyinfo("INCVAR", area.base, area.size, {d})
      <=> DomainMay({d}, {"READ", "WRITE"}, area.base, area.size)
===============================================================================
