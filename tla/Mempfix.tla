-------------------------------- MODULE Mempfix --------------------------------
(***************************************************************************)
(* Fixed-size memory pools (kernel/mempfix.c).  rel_mpf checks its         *)
(* argument against `unused' and the next field BEFORE it takes the CPU    *)
(* lock, so it is two steps here, between which interrupts and other tasks *)
(* run; everything else is one critical section.                           *)
(*                                                                         *)
(* The application is modelled as far as the pool depends on it: a task    *)
(* returns a block it has, once, and nobody initialises a pool while a     *)
(* block of it is being returned.  With "twice" in Api several tasks may   *)
(* return one block.  A task that ends keeps its blocks and may return     *)
(* them after a restart.                                                   *)
(***************************************************************************)
EXTENDS TaskKernel

CONSTANTS
  Mpf,       \* the pools, whose wait queues are in WObj
  BlkCnt     \* p_mpfinib->blkcnt

\* NoActQue: a task that ends is seen to be dormant, which frees relblk.
ASSUME MempfixAssumption ==
  /\ Mpf \subseteq WObj /\ BlkCnt \in [Mpf -> Nat \ {0}]
  /\ NoActQue = Task

VARIABLES
  mpfcb,     \* fblkcnt, unused, freelist, and the next fields of p_mpfmb
  held,      \* held[t][p]: the blocks of pool p that task t has
  relblk     \* the call of rel_mpf of a task between its checks and lock_cpu

mpvars == <<mpfcb, held, relblk>>
pvars == <<vars, mpvars>>

INDEX_NULL  == -1
INDEX_ALLOC == -2
NoRel       == << >>
Blk(p)      == 0..(BlkCnt[p] - 1)

-----------------------------------------------------------------------------
FirstFree(c) == IF c.freelist # INDEX_NULL THEN c.freelist ELSE c.unused

\* get_mpf_block
GetMpfBlock(c) ==
  [c EXCEPT !.freelist = IF @ # INDEX_NULL THEN c.next[@] ELSE @,
            !.unused = IF c.freelist # INDEX_NULL THEN @ ELSE @ + 1,
            !.fblkcnt = @ - 1,
            !.next[FirstFree(c)] = INDEX_ALLOC]

\* A block goes to the running task.
TakeBlock(p) ==
  /\ mpfcb[p].fblkcnt > 0
  /\ mpfcb' = [mpfcb EXCEPT ![p] = GetMpfBlock(@)]
  /\ held' = [held EXCEPT ![runtsk][p] = @ \union {FirstFree(mpfcb[p])}]
  /\ UNCHANGED <<vars, relblk>>

\* The running task is not inside rel_mpf.
NotInRelMpf == runtsk # NULL => relblk[runtsk] = NoRel

\* get_mpf, and tget_mpf with a positive timeout if `timed'.
get_mpf(p, timed) ==
  /\ "get_mpf" \in Api /\ CheckDispatch /\ NotInRelMpf
  /\ timed => "tmout" \in Api
  /\ ~tcb[runtsk].raster
  /\ \/ TakeBlock(p)
     \/ /\ mpfcb[p].fblkcnt = 0
        /\ Return(WObjMakeWait(K, p, timed))
        /\ UNCHANGED mpvars

pget_mpf(p) == "pget_mpf" \in Api /\ TskCtxUnl /\ NotInRelMpf /\ TakeBlock(p)

\* The CHECK_PAR's of rel_mpf, which read the pool without the CPU lock.
RelMpfCheck(p, b) ==
  /\ "rel_mpf" \in Api /\ TskCtxUnl /\ NotInRelMpf
  /\ b \in held[runtsk][p] \/ "twice" \in Api
  /\ b < mpfcb[p].unused /\ mpfcb[p].next[b] = INDEX_ALLOC
  /\ relblk' = [relblk EXCEPT ![runtsk] = <<p, b>>]
  /\ UNCHANGED <<vars, mpfcb, held>>

Returned(p, b) == [t \in Task |-> [held[t] EXCEPT ![p] = @ \ {b}]]

\* The block goes to the first waiter, without a word in the pool.
HandOverBlock(p, b) ==
  LET t == Head(wque[p])
  IN  /\ held' = [Returned(p, b) EXCEPT ![t][p] = @ \union {b}]
      /\ Return(WaitComplete([K EXCEPT !.wque[p] = Tail(@)], t))
      /\ UNCHANGED mpfcb

ReturnBlock(p, b) ==
  /\ mpfcb' = [mpfcb EXCEPT ![p] = [mpfcb[p] EXCEPT !.fblkcnt = @ + 1, !.next[b] = mpfcb[p].freelist,
                                             !.freelist = b]]
  /\ held' = Returned(p, b)
  /\ UNCHANGED vars

\* rel_mpf from lock_cpu on.
rel_mpf(p, b) ==
  /\ TskCtxUnl /\ relblk[runtsk] = <<p, b>>
  /\ \/ wque[p] # << >> /\ HandOverBlock(p, b)
     \/ wque[p] = << >> /\ ReturnBlock(p, b)
  /\ relblk' = [relblk EXCEPT ![runtsk] = NoRel]

EmptyPool(p, next) ==
  [fblkcnt |-> BlkCnt[p], unused |-> 0, freelist |-> INDEX_NULL, next |-> next]

ini_mpf_FreelistKept(p) ==
  /\ "ini_mpf" \in Api /\ TskCtxUnl /\ NotInRelMpf
  /\ \A t \in Task : relblk[t] = NoRel
  /\ Return(InitWaitQueue(K, p))
  /\ mpfcb' = [mpfcb EXCEPT ![p] = [@ EXCEPT !.fblkcnt = BlkCnt[p], !.unused = 0]]
  /\ held' = [t \in Task |-> [held[t] EXCEPT ![p] = {}]]
  /\ UNCHANGED relblk

\* The application gives up all the blocks of the pool.
ini_mpf(p) ==
  /\ "ini_mpf" \in Api /\ TskCtxUnl /\ NotInRelMpf
  /\ \A t \in Task : relblk[t] # NoRel => relblk[t][1] # p
  /\ Return(InitWaitQueue(K, p))
  /\ mpfcb' = [mpfcb EXCEPT ![p] = EmptyPool(p, @.next)]
  /\ held' = [t \in Task |-> [held[t] EXCEPT ![p] = {}]]
  /\ UNCHANGED relblk

-----------------------------------------------------------------------------
MpfInit ==
  /\ Init
  /\ mpfcb = [p \in Mpf |-> EmptyPool(p, [b \in Blk(p) |-> INDEX_NULL])]
  /\ held = [t \in Task |-> [p \in Mpf |-> {}]]
  /\ relblk = [t \in Task |-> NoRel]

\* A task inside rel_mpf makes no other call, but it may be interrupted,
\* preempted, suspended, terminated (which ends the call).
OtherCall ==
  /\ Next
  /\ (~intnest /\ ~NotInRelMpf) => IntEnter
  /\ relblk' = [t \in Task |-> IF IsDormant(tcb'[t].tstat) THEN NoRel ELSE relblk[t]]
  /\ UNCHANGED <<mpfcb, held>>

MpfCall(p) ==
  \/ \E timed \in BOOLEAN : get_mpf(p, timed)
  \/ \E b \in Blk(p) : RelMpfCheck(p, b) \/ rel_mpf(p, b)
  \/ pget_mpf(p) \/ ini_mpf(p)

MpfNext == OtherCall \/ \E p \in Mpf : MpfCall(p)

MpfSpec == MpfInit /\ [][MpfNext]_pvars

-----------------------------------------------------------------------------
(* Properties. *)

\* The first n+1 links of the free list of pool p.
Link(p) ==
  LET f[n \in 0..BlkCnt[p]] ==
        IF n = 0 THEN mpfcb[p].freelist
        ELSE IF f[n - 1] \in Blk(p) THEN mpfcb[p].next[f[n - 1]] ELSE f[n - 1]
  IN  f

FreeBlocks(p) == {Link(p)[n] : n \in DOMAIN Link(p)} \ {INDEX_NULL}

\* Each block has one place: with one task, in the free list (which ends), or
\* not used so far. fblkcnt is the number of the blocks nobody has.
BlocksPartitioned(p) ==
  LET taken == UNION {held[t][p] : t \in Task}
      used  == 0..(mpfcb[p].unused - 1)
  IN  /\ mpfcb[p].unused \in 0..BlkCnt[p]
      /\ Link(p)[BlkCnt[p]] = INDEX_NULL
      /\ taken \intersect FreeBlocks(p) = {} /\ taken \union FreeBlocks(p) = used
      /\ \A t, v \in Task : t # v => held[t][p] \intersect held[v][p] = {}
      /\ mpfcb[p].fblkcnt = BlkCnt[p] - Cardinality(taken)

\* No task waits while a block is free, whatever interleaving of returns,
\* time-outs, terminations and the two halves of rel_mpf led there.
NobodyWaitsForFreeBlock == \A p \in Mpf : wque[p] # << >> => mpfcb[p].fblkcnt = 0

\* What rel_mpf checked without the CPU lock still holds when it takes the lock,
\* provided that the application returns each block once.
CheckStillHolds ==
  \A t \in Task : relblk[t] # NoRel =>
    LET p == relblk[t][1]
        b == relblk[t][2]
    IN  b < mpfcb[p].unused /\ mpfcb[p].next[b] = INDEX_ALLOC /\ b \in held[t][p]

\* mempfix.h:55 says of the next field: INDEX_ALLOC for a block that is allocated,
\* else the index of the next block that is not, and INDEX_NULL for the last one.
NextFieldAsDocumented ==
  \A p \in Mpf :
    /\ \A b \in 0..(mpfcb[p].unused - 1) :
         mpfcb[p].next[b] = INDEX_ALLOC <=> \E t \in Task : b \in held[t][p]
    /\ Link(p)[BlkCnt[p]] = INDEX_NULL
=============================================================================
