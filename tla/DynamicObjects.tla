---------------------------- MODULE DynamicObjects ----------------------------
(***************************************************************************)
(* What the files of the dynamic creation extension (extension/dcre/kernel)*)
(* have in common.  The control blocks reserved by AID_XXX are in a list   *)
(* free_xxxcb while they are not used; acre_xxx takes the first one, and   *)
(* del_xxx appends one.  A control block exists unless its attribute is    *)
(* TA_NOEXS.  The memory an object needs comes from the caller or from the *)
(* kernel memory pool (startup.c), which gives out its words in ascending  *)
(* order and takes them back all at once, when the last area is returned.  *)
(*                                                                         *)
(* One protection domain owns the free lists and the pool.  The attributes *)
(* of a dynamic object are those the other modules take as constants: the  *)
(* application creates all the objects of a kind alike.                    *)
(***************************************************************************)
EXTENDS TaskKernel

CONSTANTS
  Dyn,        \* Dyn[k]: the IDs of kind k for dynamic creation, in their order
  MpkSize     \* mpksz, in words

\* The configurator numbers the control blocks of each kind.
ASSUME DynAssumption ==
  /\ MpkSize \in Nat
  /\ Dyn = [k \in DOMAIN Dyn |-> Dyn[k]]
  /\ \A k \in DOMAIN Dyn : Dyn[k] \in Seq(Range(Dyn[k])) /\ IsInjective(Dyn[k])
  /\ \A k, l \in DOMAIN Dyn : k # l => Range(Dyn[k]) \intersect Range(Dyn[l]) = {}

VARIABLES
  exist,      \* the dynamic objects that exist
  free,       \* free[k]: free_semcb, free_flgcb, ... of the domain
  mpk,        \* brk and count of MEMPOOLCB
  area        \* the words of the pool an object was given (TA_MBALLOC, TA_MEMALLOC)

dynvars == <<exist, free, mpk, area>>

Kind  == DOMAIN Dyn
DynId == UNION {Range(Dyn[k]) : k \in Kind}

\* Not E_NOEXS.
Exists(x) == x \in DynId => x \in exist

InitDyn ==
  /\ exist = {} /\ free = Dyn
  /\ mpk = [brk |-> 0, count |-> 0]
  /\ area = [x \in DynId |-> {}]

NewId(k) == Head(free[k])

\* malloc_mempool: not E_NOMEM.
CanMalloc(n) == MpkSize - mpk.brk >= n

Malloc(n) == [brk |-> mpk.brk + n, count |-> mpk.count + 1]

\* A control block for a new object (else E_NOID) that needs n words of the pool.
Create(k, n) ==
  /\ free[k] # << >>
  /\ n > 0 => CanMalloc(n)
  /\ exist' = exist \union {NewId(k)}
  /\ free' = [free EXCEPT ![k] = Tail(@)]
  /\ mpk' = IF n > 0 THEN Malloc(n) ELSE mpk
  /\ area' = [area EXCEPT ![NewId(k)] = mpk.brk..(mpk.brk + n - 1)]

FreeMempool_AtOnce(m) == [brk |-> 0, count |-> m.count - 1]

\* free_mempool
FreeMempool(m) ==
  [brk |-> IF m.count = 1 THEN 0 ELSE m.brk, count |-> m.count - 1]

\* The memory of x, if the kernel allocated it.
FreeArea(x) ==
  /\ mpk' = IF area[x] # {} THEN FreeMempool(mpk) ELSE mpk
  /\ area' = [area EXCEPT ![x] = {}]

\* The control block of x, which is not a static object (E_OBJ).
Unregister(k, x) ==
  /\ x \in Range(Dyn[k]) /\ x \in exist
  /\ exist' = exist \ {x}
  /\ free' = [free EXCEPT ![k] = Append(@, x)]

-----------------------------------------------------------------------------
(* Properties. *)

\* Every reserved ID is in one place, the free list or in use, once; areas of
\* objects that exist lie below the mark of the pool and never overlap, however
\* creations and deletions alternate and whoever supplied the memory.  It does not
\* ask that all memory comes back: del_pdq gives none back, here as in the code.
DynamicExact ==
  /\ \A k \in Kind :
       /\ Len(free[k]) = Cardinality(Range(free[k]))
       /\ Range(free[k]) = Range(Dyn[k]) \ exist
  /\ \A x \in exist :
       /\ area[x] \subseteq 0..(mpk.brk - 1)
       /\ \A y \in exist \ {x} : area[x] \intersect area[y] = {}

\* Nobody waits in a queue of an object that does not exist.
Waits(w) == w \in WObj /\ wque[w] # << >>

NobodyAwaitsDeleted ==
  \A x \in DynId \ exist : ~Waits(x) /\ ~Waits(<<"S", x>>) /\ ~Waits(<<"R", x>>)
=============================================================================
