------------------------------- MODULE MCMemory -------------------------------
(* Two layouts of an address space of 12 bytes for TLC: with unused memory at the  *)
(* start and at the end, and with memory objects up to both ends.                  *)
EXTENDS MemoryAccess, TLC

CONSTANTS d1, d2, p0, p1, p2   \* user domains; a task of the kernel domain, of d1, of d2

LOCAL Mo(top, accatr, write, read, refer) ==
  [top |-> top, accatr |-> accatr, acptn1 |-> write, acptn2 |-> read, acptn4 |-> refer]

MCMemMap ==
  {<<Mo(0, {"NOEXS"}, {}, {}, {}), Mo(3, {}, {d1}, {d1, d2}, {d1}),
     Mo(4, {"USTACK"}, {d1}, {d1}, {d1}), Mo(6, {"NOWRITE", "EXEC"}, {}, {d1, d2}, {d1, d2}),
     Mo(8, {}, {}, {}, {}), Mo(10, {"NOEXS"}, {}, {}, {})>>,
   <<Mo(0, {"NOWRITE"}, {}, {d1}, {d2}), Mo(1, {"NOEXS"}, {}, {}, {}),
     Mo(4, {"USTACK", "EXEC"}, {d1}, {d1}, {d1, d2}), Mo(6, {"NOREAD"}, {d2}, {d2}, {d2}),
     Mo(9, {}, {d1, d2}, {d1, d2}, {d1, d2})>>}

\* A static task with a stack of its own object, a dynamic one in unused memory.
MCTaskInfo ==
     p0 :> [domptn |-> {}, ustk |-> 0, ustksz |-> 0]
  @@ p1 :> [domptn |-> {d1}, ustk |-> 4, ustksz |-> 2]
  @@ p2 :> [domptn |-> {d2}, ustk |-> 1, ustksz |-> 2]
=============================================================================
