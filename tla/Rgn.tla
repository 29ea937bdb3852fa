-------------------------------- MODULE Rgn --------------------------------
(***************************************************************************)
(* The page allocator of the kernel (src/gluKe/rgn.c).                      *)
(*                                                                         *)
(* Two tables of MaxNofAls entries describe the whole RAM: "free" and      *)
(* "reserved".  An entry is a block of consecutive pages, in use exactly   *)
(* when its page count is not 0; an unused entry keeps the base it had.    *)
(* Addresses are page numbers: every base the code handles is a multiple   *)
(* of PAGE_SIZE and every request is rounded up by NOF_PAGES.              *)
(*                                                                         *)
(* Every function of rgn.c runs between one() and all(), so each is one    *)
(* step; only rgn_free_task_memory, a loop over the table, is one step per *)
(* slot, during which interrupts stay off and no other call runs.  A call  *)
(* that fails (no block, no slot, unknown base) changes nothing and is a   *)
(* stuttering step.                                                        *)
(***************************************************************************)
EXTENDS Integers, Sequences, FiniteSets

CONSTANTS MaxNofAls,    \* MAX_NOF_ALS, the entries of each table
          RamPages,     \* RAM_SIZE / PAGE_SIZE
          BootRegions,  \* the rgn_alloc_base calls of the boot, in order
          PagingPages,  \* pages init_paging allocates: catalog and tables
          MaxRequest,   \* bound on the pages one rgn_alloc asks for
          TaskIds,      \* the ids tasks may have
          Kernel,       \* task_id 0, of blocks reserved by rgn_alloc_base
          NoTask        \* task_cur_id() before task_init, -1

Slots == 0 .. MaxNofAls - 1
Pages == 0 .. RamPages - 1
Owners == TaskIds \cup {Kernel, NoTask}
Region == [base : Pages, n : Nat \ {0}, must : BOOLEAN]

ASSUME SizesAssumption == /\ MaxNofAls \in Nat \ {0}
                          /\ RamPages \in Nat \ {0}
                          /\ PagingPages \in Nat
                          /\ MaxRequest \in Nat \ {0}
ASSUME BootAssumption == BootRegions \in Seq(Region)
ASSUME OwnersAssumption == Kernel \notin TaskIds /\ NoTask \notin TaskIds

VARIABLES free,      \* free_als
          reserved,  \* reserved_als
          phase,     \* "boot", "run", "sweep" or "dead" (die() was called)
          booted,    \* allocations of the boot already made
          victim,    \* the task whose memory is being released
          cursor,    \* the loop index of rgn_free_task_memory
          failed     \* its ret is -1

vars == <<free, reserved, phase, booted, victim, cursor, failed>>

FreeEntry == [base : Nat, n : Nat]
ReservedEntry == [base : Nat, n : Nat, task : Owners]

Last(e) == e.base + e.n       \* the first page after a block
Live(e) == e.n # 0
Covers(e, p) == e.base <= p /\ p < Last(e)

(***************************************************************************)
(* The scans of the tables: each takes the first entry that fits.          *)
(***************************************************************************)
IsFirst(i, S) == i \in S /\ \A j \in S : i <= j

EmptyFree == {i \in Slots : ~Live(free[i])}
EmptyReserved == {i \in Slots : ~Live(reserved[i])}
Fitting(n) == {i \in Slots : free[i].n >= n}
Holding(p) == {i \in Slots : Covers(free[i], p)}
ReservedWithBase(b) == {i \in Slots : reserved[i].base = b}
FreeBefore(b) == {i \in Slots : Live(free[i]) /\ Last(free[i]) = b}
FreeAfter(e) == {i \in Slots : Live(free[i]) /\ free[i].base = e}

(***************************************************************************)
(* st_rgn_alloc_basic: cut n pages from the front of the first free block  *)
(* that has them.                                                          *)
(***************************************************************************)
CanAlloc(n) == Fitting(n) # {} /\ EmptyReserved # {}

\* Faulty variant: the free block shrinks but keeps its base.
TakeFrontKeepBase(t, n) ==
  \E i \in Slots, j \in Slots :
    /\ IsFirst(i, Fitting(n))
    /\ IsFirst(j, EmptyReserved)
    /\ free' = [free EXCEPT ![i].n = @ - n]
    /\ reserved' = [reserved EXCEPT ![j] =
                      [base |-> free[i].base, n |-> n, task |-> t]]

\* Faulty variant: any unused slot of the reserved table will do.
TakeFrontAnySlot(t, n) ==
  \E i \in Slots, j \in EmptyReserved :
    /\ IsFirst(i, Fitting(n))
    /\ free' = [free EXCEPT ![i] = [base |-> @.base + n, n |-> @.n - n]]
    /\ reserved' = [reserved EXCEPT ![j] =
                      [base |-> free[i].base, n |-> n, task |-> t]]

TakeFront(t, n) ==
  \E i \in Slots, j \in Slots :
    /\ IsFirst(i, Fitting(n))
    /\ IsFirst(j, EmptyReserved)
    /\ free' = [free EXCEPT ![i] = [base |-> @.base + n, n |-> @.n - n]]
    /\ reserved' = [reserved EXCEPT ![j] =
                      [base |-> free[i].base, n |-> n, task |-> t]]

(***************************************************************************)
(* st_rgn_alloc_base_basic: reserve the n pages from page b on, inside one *)
(* free block, whose rest before b stays in its slot and whose rest after  *)
(* takes an empty one.  The task_id of the reserved slot is not written.   *)
(***************************************************************************)
CanAllocBase(b, n) ==
  \E i \in Slots : /\ IsFirst(i, Holding(b))
                   /\ b + n <= Last(free[i])
                   /\ b + n < Last(free[i]) => EmptyFree # {}
                   /\ EmptyReserved # {}

TakeAt(b, n) ==
  \E i \in Slots, j \in Slots :
    /\ IsFirst(i, Holding(b))
    /\ IsFirst(j, EmptyReserved)
    /\ reserved' = [reserved EXCEPT ![j].base = b, ![j].n = n]
    /\ \/ /\ b + n = Last(free[i])
          /\ free' = [free EXCEPT ![i].n = b - free[i].base]
       \/ /\ b + n < Last(free[i])
          /\ \E k \in Slots :
               /\ IsFirst(k, EmptyFree)
               /\ free' = [free EXCEPT
                    ![i].n = b - free[i].base,
                    ![k] = [base |-> b + n, n |-> Last(free[i]) - (b + n)]]

(***************************************************************************)
(* st_free_index: move the pages of a reserved slot to the free block that *)
(* ends where they begin, or to an empty slot, and join the free block     *)
(* that begins where they end.  The slot may be an unused one whose old    *)
(* base was asked for: its 0 pages are "moved" all the same.               *)
(***************************************************************************)
\* Faulty variant: no empty slot is taken when no free block ends at the base.
LandingBefore(b) == FreeBefore(b)

Landing(b) == IF FreeBefore(b) # {} THEN FreeBefore(b) ELSE EmptyFree

LandOn(f, b, n) ==
  [base |-> IF Live(free[f]) THEN free[f].base ELSE b, n |-> free[f].n + n]

\* Faulty variant: the free block after is not joined.
FreeIndexNoJoin(r) ==
  \E f \in Slots :
    /\ IsFirst(f, Landing(reserved[r].base))
    /\ reserved' = [reserved EXCEPT ![r].n = 0]
    /\ free' = [free EXCEPT ![f] = LandOn(f, reserved[r].base, reserved[r].n)]

\* Faulty variant: the free block after is cleared but its pages are not added.
FreeIndexDropsAfter(r) ==
  \E f \in Slots :
    /\ IsFirst(f, Landing(reserved[r].base))
    /\ reserved' = [reserved EXCEPT ![r].n = 0]
    /\ free' = [g \in Slots |->
          IF g = f THEN LandOn(f, reserved[r].base, reserved[r].n)
          ELSE IF IsFirst(g, FreeAfter(Last(reserved[r])))
                 THEN [free[g] EXCEPT !.n = 0] ELSE free[g]]

FreeIndex(r) ==
  LET b == reserved[r].base
      n == reserved[r].n
  IN  \E f \in Slots :
        /\ IsFirst(f, Landing(b))
        /\ reserved' = [reserved EXCEPT ![r].n = 0]
        /\ \/ /\ FreeAfter(b + n) = {}
              /\ free' = [free EXCEPT ![f] = LandOn(f, b, n)]
           \/ \E g \in Slots :
                /\ IsFirst(g, FreeAfter(b + n))
                /\ free' = [free EXCEPT ![f] = LandOn(f, b, n + free[g].n),
                                        ![g].n = 0]
-----------------------------------------------------------------------------
(***************************************************************************)
(* rgn_init clears the tables and makes all the RAM one free block.        *)
(***************************************************************************)
Init == /\ free = [i \in Slots |-> [base |-> 0,
                                    n |-> IF i = 0 THEN RamPages ELSE 0]]
        /\ reserved = [i \in Slots |-> [base |-> 0, n |-> 0, task |-> Kernel]]
        /\ phase = "boot"
        /\ booted = 0
        /\ victim = Kernel
        /\ cursor = 0
        /\ failed = FALSE

(***************************************************************************)
(* rgn_init and alloc_memory_not_in_use reserve the fixed regions in turn; *)
(* the kernel dies when one that must succeed fails.                       *)
(***************************************************************************)
BootReserve ==
  /\ phase = "boot"
  /\ booted < Len(BootRegions)
  /\ LET R == BootRegions[booted + 1]
     IN  /\ IF CanAllocBase(R.base, R.n)
              THEN TakeAt(R.base, R.n)
              ELSE UNCHANGED <<free, reserved>>
         /\ phase' = IF CanAllocBase(R.base, R.n) \/ ~R.must
                       THEN "boot" ELSE "dead"
  /\ booted' = booted + 1
  /\ UNCHANGED <<victim, cursor, failed>>

(***************************************************************************)
(* init_paging then allocates a page for the catalog and for each table;   *)
(* task_cur_id() is still NoTask.                                          *)
(***************************************************************************)
BootPaging ==
  /\ phase = "boot"
  /\ booted >= Len(BootRegions)
  /\ booted < Len(BootRegions) + PagingPages
  /\ IF CanAlloc(1) THEN TakeFront(NoTask, 1) ELSE UNCHANGED <<free, reserved>>
  /\ phase' = IF CanAlloc(1) THEN "boot" ELSE "dead"
  /\ booted' = booted + 1
  /\ UNCHANGED <<victim, cursor, failed>>

BootDone ==
  /\ phase = "boot"
  /\ booted = Len(BootRegions) + PagingPages
  /\ phase' = "run"
  /\ UNCHANGED <<free, reserved, booted, victim, cursor, failed>>

(***************************************************************************)
(* rgn_alloc and rgn_alloc_t, once tasks run.                              *)
(***************************************************************************)
Alloc(t, n) ==
  /\ phase = "run"
  /\ TakeFront(t, n)
  /\ UNCHANGED <<phase, booted, victim, cursor, failed>>

(***************************************************************************)
(* rgn_free.  No owner is checked: any task may pass any base, also one it *)
(* has freed before or one a kill has released meanwhile.  Callers hold    *)
(* pointers that rgn_alloc returned to a task, never a page of the kernel. *)
(***************************************************************************)
BootBlocks == {i \in Slots : Live(reserved[i])
                             /\ reserved[i].task \in {Kernel, NoTask}}
TaskPages == {p \in Pages : \A i \in BootBlocks : ~Covers(reserved[i], p)}

Free(b) ==
  /\ phase = "run"
  /\ b \in TaskPages
  /\ \E r \in Slots : IsFirst(r, ReservedWithBase(b)) /\ FreeIndex(r)
  /\ UNCHANGED <<phase, booted, victim, cursor, failed>>

(***************************************************************************)
(* rgn_free_task_memory, called by task_kill: Kill enters the loop,        *)
(* SweepSlot is one round of it, SweepEnd leaves it; a round that failed   *)
(* makes task_kill die.                                                    *)
(***************************************************************************)
Kill(t) ==
  /\ phase = "run"
  /\ phase' = "sweep"
  /\ victim' = t
  /\ cursor' = 0
  /\ failed' = FALSE
  /\ UNCHANGED <<free, reserved, booted>>

\* Faulty variant: the owner is not compared.
OwnedByAny(i, t) == Live(reserved[i])

Owned(i, t) == Live(reserved[i]) /\ reserved[i].task = t

SweepSlot ==
  /\ phase = "sweep"
  /\ cursor < MaxNofAls
  /\ IF Owned(cursor, victim)
       THEN IF Landing(reserved[cursor].base) # {}
              THEN FreeIndex(cursor) /\ UNCHANGED failed
              ELSE failed' = TRUE /\ UNCHANGED <<free, reserved>>
       ELSE UNCHANGED <<free, reserved, failed>>
  /\ cursor' = cursor + 1
  /\ UNCHANGED <<phase, booted, victim>>

\* Faulty variant: ends one slot early.
SweepEndEarly ==
  /\ phase = "sweep"
  /\ cursor = MaxNofAls - 1
  /\ phase' = IF failed THEN "dead" ELSE "run"
  /\ UNCHANGED <<free, reserved, booted, victim, cursor, failed>>

SweepEnd ==
  /\ phase = "sweep"
  /\ cursor = MaxNofAls
  /\ phase' = IF failed THEN "dead" ELSE "run"
  /\ UNCHANGED <<free, reserved, booted, victim, cursor, failed>>

Next == \/ BootReserve
        \/ BootPaging
        \/ BootDone
        \/ \E t \in TaskIds, n \in 1 .. MaxRequest : Alloc(t, n)
        \/ \E b \in Pages : Free(b)
        \/ \E t \in TaskIds : Kill(t)
        \/ SweepSlot
        \/ SweepEnd

Spec == Init /\ [][Next]_vars
-----------------------------------------------------------------------------
(***************************************************************************)
(* Properties.                                                             *)
(***************************************************************************)

\* Every variable has the type its C declaration and its use give it.
TypeOK == /\ free \in [Slots -> FreeEntry]
          /\ reserved \in [Slots -> ReservedEntry]
          /\ phase \in {"boot", "run", "sweep", "dead"}
          /\ booted \in 0 .. Len(BootRegions) + PagingPages
          /\ victim \in Owners
          /\ cursor \in 0 .. MaxNofAls
          /\ failed \in BOOLEAN

Apart(d, e) == Live(d) /\ Live(e) => Last(d) <= e.base \/ Last(e) <= d.base

\* No page is in two blocks: the allocator never hands out a page that is
\* still reserved, whatever sequence of allocations, kills and frees - double
\* frees and frees of stale addresses included - came before.
NoOverlap ==
  /\ \A i, j \in Slots : i # j => Apart(free[i], free[j])
  /\ \A i, j \in Slots : i # j => Apart(reserved[i], reserved[j])
  /\ \A i, j \in Slots : Apart(free[i], reserved[j])

\* No page is lost: split, merge and the sweep of a killed task's blocks leave
\* every page of the RAM in a block, and no block reaches beyond the RAM.
NoLeak ==
  /\ \A p \in Pages : \/ \E i \in Slots : Covers(free[i], p)
                      \/ \E i \in Slots : Covers(reserved[i], p)
  /\ \A i \in Slots : Live(free[i]) => Last(free[i]) <= RamPages
  /\ \A i \in Slots : Live(reserved[i]) => Last(reserved[i]) <= RamPages

\* The blocks of the two tables partition the RAM: every page is in exactly one.
Partition == NoOverlap /\ NoLeak

\* Two free blocks are never adjacent: st_free_index joins a released block
\* with both neighbours, so a request fails only when no gap is large enough.
Coalesced == \A i, j \in Slots :
               Live(free[i]) /\ Live(free[j]) => Last(free[i]) # free[j].base

\* st_reserved_with_base compares bases without looking at nof_pages, so an
\* unused slot with an old base could hide the block a caller means to free.
\* It never does: the first slot with the base of a live block is that block.
LookupFindsLive ==
  \A i, j \in Slots : Live(reserved[i]) /\ j < i => reserved[j].base # reserved[i].base

\* The slots the sweep of a killed task has passed hold no block of that task:
\* releasing one block never moves another one to a slot already visited.
SweptClean ==
  phase = "sweep" /\ ~failed => \A i \in Slots : i < cursor => ~Owned(i, victim)

\* When the sweep ends the dead task owns no page.
SweepReleasesAll ==
  [][phase = "sweep" /\ phase' = "run" => \A i \in Slots : ~Owned(i, victim)]_vars

NullPageReserved ==
  \E i \in Slots : reserved[i].base = 0 /\ Live(reserved[i])

\* Once address 0 is reserved ("alloc 0 address for checks"), st_free_index can
\* always release a live block other than that one, however fragmented the RAM
\* is: when the free table is full a free block lies before every reserved one.
\* So task_kill never dies in rgn_free_task_memory.
FreeNeverFails ==
  NullPageReserved =>
    \A i \in Slots : Live(reserved[i]) /\ reserved[i].base # 0
                       => Landing(reserved[i].base) # {}

\* A block reserved by the boot (kernel code, stack, tables, page 0, paging) is
\* never released, shrunk or given to a task.
BootBlocksKept == [][\A i \in BootBlocks : reserved'[i] = reserved[i]]_vars

(***************************************************************************)
(* The live slots are the blocks of the abstract store.                    *)
(***************************************************************************)
LiveBlocks == {reserved[i] : i \in {j \in Slots : Live(reserved[j])}}
Store == INSTANCE PageStore WITH blocks <- LiveBlocks, BootIds <- {Kernel, NoTask}

\* The two tables implement the store of disjoint blocks: first fit, split,
\* merge, lookups that meet stale slots and the sweep slot by slot change the
\* blocks in use only by adding one that overlaps none, or removing one whole.
ImplementsStore == Store!StoreSpec
=============================================================================
