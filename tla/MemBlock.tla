------------------------------ MODULE MemBlock ------------------------------
(***************************************************************************)
(* The memory pool under the lists of tasks and handles                    *)
(* (src/mylib/mem_block.c): a chain of blocks of items of one size.  Each  *)
(* item has a flag, each block counts its items in use.  When all blocks   *)
(* are full mb_alloc chains a further one, taken with rgn_alloc, and       *)
(* mb_free gives a further block back with its last item.                  *)
(*                                                                         *)
(* Both run between one() and all().  The chain is in the order in which   *)
(* the blocks were taken: before says which of two that is.  A pointer     *)
(* stands for the item it points to; mb_free refuses any other.            *)
(*                                                                         *)
(* A further block belongs, for the page allocator, to the task that was   *)
(* running, and goes with it when that is killed.  Then the chain leads    *)
(* into memory of others; swept remembers it, and the model ends there.    *)
(***************************************************************************)
EXTENDS Integers, FiniteSets

CONSTANTS Blocks,   \* regions the page allocator may return
          First,    \* the one mb_init got
          MaxItems, \* items in a block
          Tasks,
          Kernel    \* the first task, which runs mb_init

Slots == 1 .. MaxItems

ASSUME MemBlockAssumption ==
  /\ First \in Blocks
  /\ MaxItems \in Nat \ {0}
  /\ Kernel \notin Tasks

VARIABLES chain,      \* the blocks in the chain
          before,     \* pairs of blocks of the chain, the one in front first
          flags,      \* the items of each block whose flag is set
          used_items,
          owner,      \* the task rgn_alloc noted for each block
          swept,      \* history: was a block of the chain released by a kill?
          given       \* history: the holders of each item

vars == <<chain, before, flags, used_items, owner, swept, given>>

\* mb_init
Init == /\ chain = {First}
        /\ before = {}
        /\ flags = [b \in Blocks |-> {}]
        /\ used_items = [b \in Blocks |-> 0]
        /\ owner = [b \in Blocks |-> Kernel]
        /\ swept = FALSE
        /\ given = [b \in Blocks |-> [s \in Slots |-> 0]]

(***************************************************************************)
(* mb_alloc.  A block that counts fewer than its items has one with a      *)
(* clear flag (CountsRight): the return of 0 for an "invalid struct" is    *)
(* never reached.  When rgn_alloc fails mb_alloc returns 0, no change.     *)
(***************************************************************************)
WithRoom == {b \in chain : used_items[b] < MaxItems}

InFront(b, S) == \A c \in S : c = b \/ <<b, c>> \in before

\* Faulty variant: the flag is not set.
AllocHereUnmarked(b, s) ==
  /\ b \in WithRoom /\ InFront(b, WithRoom)
  /\ s \notin flags[b] /\ \A r \in Slots \ flags[b] : s <= r
  /\ used_items' = [used_items EXCEPT ![b] = @ + 1]
  /\ given' = [given EXCEPT ![b][s] = @ + 1]
  /\ UNCHANGED <<chain, before, flags, owner, swept>>

\* The first item not in use, of the first block with one.
AllocHere(b, s) ==
  /\ b \in WithRoom /\ InFront(b, WithRoom)
  /\ s \notin flags[b] /\ \A r \in Slots \ flags[b] : s <= r
  /\ flags' = [flags EXCEPT ![b] = @ \cup {s}]
  /\ used_items' = [used_items EXCEPT ![b] = @ + 1]
  /\ given' = [given EXCEPT ![b][s] = @ + 1]
  /\ UNCHANGED <<chain, before, owner, swept>>

\* Faulty variant: the item taken from the new block is not counted.
AllocFurtherUncounted(t, b) ==
  /\ WithRoom = {}
  /\ b \notin chain
  /\ chain' = chain \cup {b}
  /\ before' = before \cup (chain \X {b})
  /\ flags' = [flags EXCEPT ![b] = {1}]
  /\ used_items' = [used_items EXCEPT ![b] = 0]
  /\ owner' = [owner EXCEPT ![b] = t]
  /\ given' = [given EXCEPT ![b][1] = @ + 1]
  /\ UNCHANGED swept

\* All blocks are full: a further one, cleared, its first item in use.
AllocFurther(t, b) ==
  /\ WithRoom = {}
  /\ b \notin chain
  /\ chain' = chain \cup {b}
  /\ before' = before \cup (chain \X {b})
  /\ flags' = [flags EXCEPT ![b] = {1}]
  /\ used_items' = [used_items EXCEPT ![b] = 1]
  /\ owner' = [owner EXCEPT ![b] = t]
  /\ given' = [given EXCEPT ![b][1] = @ + 1]
  /\ UNCHANGED swept

(***************************************************************************)
(* mb_free, of an item that its holder gives back.                         *)
(***************************************************************************)
\* Faulty variant: the count is looked at before it is decremented.
EmptiesEarly(b) == used_items[b] <= 2 /\ b # First

Empties(b) == used_items[b] = 1 /\ b # First

FreeItem(b, s) ==
  /\ b \in chain
  /\ given[b][s] > 0
  /\ flags' = [flags EXCEPT ![b] = @ \ {s}]
  /\ used_items' = [used_items EXCEPT ![b] = @ - 1]
  /\ chain' = IF Empties(b) THEN chain \ {b} ELSE chain
  /\ before' = {p \in before : p[1] \in chain' /\ p[2] \in chain'}
  /\ given' = [given EXCEPT ![b][s] = @ - 1]
  /\ UNCHANGED <<owner, swept>>

\* rgn_free_task_memory, when a task is killed.
Kill(t) ==
  /\ swept' = \E b \in chain : owner[b] = t
  /\ UNCHANGED <<chain, before, flags, used_items, owner, given>>

Ended == swept /\ UNCHANGED vars

Next == \/ /\ ~swept
           /\ \/ \E b \in Blocks, s \in Slots : AllocHere(b, s) \/ FreeItem(b, s)
              \/ \E t \in Tasks \cup {Kernel}, b \in Blocks : AllocFurther(t, b)
              \/ \E t \in Tasks : Kill(t)
        \/ Ended

Spec == Init /\ [][Next]_vars
-----------------------------------------------------------------------------
\* The types of the variables.
TypeOK == /\ chain \in SUBSET Blocks
          /\ before \in SUBSET (Blocks \X Blocks)
          /\ flags \in [Blocks -> SUBSET Slots]
          /\ used_items \in [Blocks -> Int]
          /\ owner \in [Blocks -> Tasks \cup {Kernel}]
          /\ swept \in BOOLEAN
          /\ given \in [Blocks -> [Slots -> Nat]]

\* The items handed out are those marked in the blocks of the chain: no block is
\* given back to the page allocator under an item in use, and no item is handed
\* out a second time before it is freed.
HeldIsLive ==
  \A b \in Blocks, s \in Slots :
    given[b][s] = IF b \in chain /\ s \in flags[b] THEN 1 ELSE 0

\* Every block counts its items right, however often it was filled, emptied and
\* taken again, and only the first one is ever empty.
CountsRight ==
  \A b \in chain : /\ used_items[b] = Cardinality(flags[b])
                   /\ b # First => used_items[b] > 0

\* The chain of blocks implements the pool.
Abstract == INSTANCE Pool
ImplementsPool == Abstract!PoolSpec
=============================================================================
