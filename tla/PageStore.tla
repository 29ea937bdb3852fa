----------------------------- MODULE PageStore -----------------------------
(***************************************************************************)
(* What the kernel's page allocator promises, without its tables: a set of *)
(* disjoint blocks of pages, each with the task it was given to.  A block  *)
(* comes from pages nobody holds, stays as it is until it is released, and *)
(* is released whole; blocks of the boot are never released.               *)
(***************************************************************************)
EXTENDS Integers

CONSTANTS RamPages,  \* pages of the RAM
          TaskIds,   \* the tasks whose blocks may be released
          BootIds    \* the owners of the blocks reserved by the boot

VARIABLE blocks

Disjoint(a, c) == a.base + a.n <= c.base \/ c.base + c.n <= a.base

\* rgn_alloc, rgn_alloc_t, rgn_alloc_base: hand out pages nobody holds.
Take == \E base \in 0 .. RamPages - 1, n \in 1 .. RamPages, t \in TaskIds \cup BootIds :
          LET block == [base |-> base, n |-> n, task |-> t]
          IN  /\ base + n <= RamPages
              /\ \A c \in blocks : Disjoint(block, c)
              /\ blocks' = blocks \cup {block}

\* rgn_free and each round of rgn_free_task_memory: take one block back.
Release == \E block \in blocks : /\ block.task \in TaskIds
                                 /\ blocks' = blocks \ {block}

StoreInit == blocks = {}
StoreNext == Take \/ Release
StoreSpec == StoreInit /\ [][StoreNext]_blocks
=============================================================================
