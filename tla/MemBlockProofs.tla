--------------------------- MODULE MemBlockProofs ---------------------------
(***************************************************************************)
(* Proofs about MemBlock, for any regions, any number of items in a block  *)
(* and any tasks.  Neither HeldIsLive nor CountsRight is inductive alone:  *)
(* mb_free drops a block by its count, so only the two together show that  *)
(* no other item of the block was in use.                                  *)
(***************************************************************************)
EXTENDS MemBlock, FiniteSetTheorems, TLAPS

PoolInv == TypeOK /\ HeldIsLive /\ CountsRight

USE MemBlockAssumption

-----------------------------------------------------------------------------
(***************************************************************************)
(* Counting the items in use of a block.                                   *)
(***************************************************************************)

\* A set of items of a block is finite, and its size is a natural number.
LEMMA ItemsFinite ==
  ASSUME NEW F \in SUBSET Slots
  PROVE  IsFiniteSet(F) /\ Cardinality(F) \in Nat
<1>1. IsFiniteSet(Slots)
  BY FS_Interval DEF Slots
<1>2. QED
  BY <1>1, FS_Subset, FS_CardinalityType

\* An item put into use is one more.
LEMMA OneMore ==
  ASSUME NEW F \in SUBSET Slots, NEW s \in Slots, s \notin F
  PROVE  Cardinality(F \cup {s}) = Cardinality(F) + 1
BY ItemsFinite, FS_AddElement

\* An item given back is one less.
LEMMA OneLess ==
  ASSUME NEW F \in SUBSET Slots, NEW s \in F
  PROVE  Cardinality(F \ {s}) = Cardinality(F) - 1
BY ItemsFinite, FS_RemoveElement

\* Where one item is in use, it is the one in hand.
LEMMA LastOne ==
  ASSUME NEW F \in SUBSET Slots, NEW s \in F, Cardinality(F) = 1
  PROVE  F \ {s} = {}
<1>1. Cardinality(F \ {s}) = 0
  BY OneLess
<1>2. IsFiniteSet(F \ {s})
  BY ItemsFinite, FS_Subset
<1>3. QED
  BY <1>1, <1>2, FS_EmptySet

-----------------------------------------------------------------------------
(***************************************************************************)
(* The operations.                                                         *)
(***************************************************************************)

\* The invariant holds at start.
LEMMA PoolStart == Init => PoolInv
<1> SUFFICES ASSUME Init PROVE PoolInv
  OBVIOUS
<1>1. TypeOK
  <2>1. First \in Blocks
    BY DEF Init
  <2>2. flags \in [Blocks -> SUBSET Slots] /\ used_items \in [Blocks -> Int]
    BY DEF Init
  <2>3. given \in [Blocks -> [Slots -> Nat]]
    BY DEF Init
  <2>4. QED
    BY <2>1, <2>2, <2>3 DEF Init, TypeOK
<1>2. HeldIsLive
  BY DEF Init, HeldIsLive
<1>3. CountsRight
  BY FS_EmptySet DEF Init, CountsRight
<1>4. QED
  BY <1>1, <1>2, <1>3 DEF PoolInv

\* An item of a block with room is handed out.
LEMMA HereStep ==
  ASSUME PoolInv, NEW b \in Blocks, NEW s \in Slots, AllocHere(b, s)
  PROVE  PoolInv' /\ Abstract!Take
<1> USE DEF PoolInv
<1>1. b \in chain /\ s \notin flags[b] /\ flags[b] \in SUBSET Slots
  BY DEF AllocHere, WithRoom, TypeOK
<1>2. given[b][s] = 0
  BY <1>1 DEF HeldIsLive
<1>3. given' = [given EXCEPT ![b][s] = 1]
  BY <1>2 DEF AllocHere
<1>4. TypeOK'
  <2>1. flags' \in [Blocks -> SUBSET Slots] /\ used_items' \in [Blocks -> Int]
    BY DEF AllocHere, TypeOK
  <2>2. given' \in [Blocks -> [Slots -> Nat]]
    BY <1>3 DEF TypeOK
  <2>3. QED
    BY <2>1, <2>2 DEF AllocHere, TypeOK
<1>5. HeldIsLive'
  BY <1>1, <1>3 DEF AllocHere, HeldIsLive, TypeOK
<1>6. CountsRight'
  <2> SUFFICES ASSUME NEW c \in chain
               PROVE  /\ used_items'[c] = Cardinality(flags'[c])
                      /\ c # First => used_items'[c] > 0
    BY DEF AllocHere, CountsRight
  <2>1. CASE c = b
    <3>1. used_items'[c] = used_items[b] + 1 /\ flags'[c] = flags[b] \cup {s}
      BY <2>1 DEF AllocHere, TypeOK
    <3>2. Cardinality(flags[b] \cup {s}) = Cardinality(flags[b]) + 1
      BY <1>1, OneMore
    <3>3. used_items[b] = Cardinality(flags[b]) /\ Cardinality(flags[b]) \in Nat
      BY <1>1, ItemsFinite DEF CountsRight
    <3>4. QED
      BY <3>1, <3>2, <3>3
  <2>2. CASE c # b
    BY <2>2 DEF AllocHere, TypeOK, CountsRight
  <2>3. QED
    BY <2>1, <2>2
<1>7. Abstract!Take
  BY <1>2, <1>3 DEF Abstract!Take
<1>8. QED
  BY <1>4, <1>5, <1>6, <1>7

\* A further block is chained.
LEMMA FurtherStep ==
  ASSUME PoolInv, NEW b \in Blocks, NEW t \in Tasks \cup {Kernel},
         AllocFurther(t, b)
  PROVE  PoolInv' /\ Abstract!Take
<1> USE DEF PoolInv
<1>1. b \notin chain /\ 1 \in Slots
  BY DEF AllocFurther, Slots
<1>2. given[b][1] = 0 /\ \A s \in Slots : given[b][s] = 0
  BY <1>1 DEF HeldIsLive
<1>3. given' = [given EXCEPT ![b][1] = 1]
  BY <1>2 DEF AllocFurther
<1>4. TypeOK'
  <2>1. /\ chain' \in SUBSET Blocks
        /\ before' \in SUBSET (Blocks \X Blocks)
        /\ owner' \in [Blocks -> Tasks \cup {Kernel}]
        /\ swept' \in BOOLEAN
    BY DEF AllocFurther, TypeOK
  <2>2. flags' \in [Blocks -> SUBSET Slots] /\ used_items' \in [Blocks -> Int]
    BY <1>1 DEF AllocFurther, TypeOK
  <2>3. given' \in [Blocks -> [Slots -> Nat]]
    BY <1>1, <1>3 DEF TypeOK
  <2>4. QED
    BY <2>1, <2>2, <2>3 DEF TypeOK
<1>5. HeldIsLive'
  BY <1>1, <1>2, <1>3 DEF AllocFurther, HeldIsLive, TypeOK
<1>6. CountsRight'
  <2>1. Cardinality({1}) = 1
    BY FS_Singleton
  <2>2. QED
    BY <1>1, <2>1 DEF AllocFurther, CountsRight, TypeOK
<1>7. Abstract!Take
  BY <1>1, <1>2, <1>3 DEF Abstract!Take
<1>8. QED
  BY <1>4, <1>5, <1>6, <1>7

\* An item comes back, and its block is dropped when it was the last one in use.
LEMMA FreeStep ==
  ASSUME PoolInv, NEW b \in Blocks, NEW s \in Slots, FreeItem(b, s)
  PROVE  PoolInv' /\ Abstract!GiveBack
<1> USE DEF PoolInv
<1>1. b \in chain /\ s \in flags[b] /\ given[b][s] = 1
  BY DEF FreeItem, HeldIsLive
<1>2. flags[b] \in SUBSET Slots /\ used_items[b] = Cardinality(flags[b])
  BY <1>1 DEF TypeOK, CountsRight
<1>3. given' = [given EXCEPT ![b][s] = 0]
  BY <1>1 DEF FreeItem
<1>4. TypeOK'
  <2>1. chain' \in SUBSET Blocks
    BY DEF FreeItem, TypeOK
  <2>2. before' \in SUBSET (Blocks \X Blocks)
    BY DEF FreeItem, TypeOK
  <2>3. flags' \in [Blocks -> SUBSET Slots] /\ used_items' \in [Blocks -> Int]
    BY DEF FreeItem, TypeOK
  <2>4. given' \in [Blocks -> [Slots -> Nat]]
    BY <1>3 DEF TypeOK
  <2>5. QED
    BY <2>1, <2>2, <2>3, <2>4 DEF FreeItem, TypeOK
<1>5. b \notin chain' => flags'[b] = {}
  <2> SUFFICES ASSUME b \notin chain' PROVE flags'[b] = {}
    OBVIOUS
  <2>1. used_items[b] = 1
    BY <1>1 DEF FreeItem, Empties
  <2>2. flags[b] \ {s} = {}
    BY <1>1, <1>2, <2>1, LastOne
  <2>3. QED
    BY <2>2 DEF FreeItem, TypeOK
<1>6. HeldIsLive'
  <2> SUFFICES ASSUME NEW c \in Blocks, NEW r \in Slots
               PROVE  given'[c][r] =
                        IF c \in chain' /\ r \in flags'[c] THEN 1 ELSE 0
    BY DEF HeldIsLive
  <2>1. CASE c # b
    <3>1. given'[c] = given[c] /\ flags'[c] = flags[c]
      BY <2>1, <1>3 DEF FreeItem, TypeOK
    <3>2. c \in chain' <=> c \in chain
      BY <2>1 DEF FreeItem
    <3>3. QED
      BY <3>1, <3>2 DEF HeldIsLive
  <2>2. CASE c = b /\ r = s
    <3>1. given'[c][r] = 0
      BY <2>2, <1>3 DEF TypeOK
    <3>2. flags'[c] = flags[c] \ {s}
      BY <2>2 DEF FreeItem, TypeOK
    <3>3. QED
      BY <2>2, <3>1, <3>2
  <2>3. CASE c = b /\ r # s
    <3>1. given'[c][r] = given[c][r] /\ (r \in flags'[c] <=> r \in flags[c])
      BY <2>3, <1>3 DEF FreeItem, TypeOK
    <3>2. given[c][r] = IF r \in flags[c] THEN 1 ELSE 0
      BY <2>3, <1>1 DEF HeldIsLive
    <3>3. QED
      BY <2>3, <3>1, <3>2, <1>5
  <2>4. QED
    BY <2>1, <2>2, <2>3
<1>7. CountsRight'
  <2> SUFFICES ASSUME NEW c \in chain'
               PROVE  /\ used_items'[c] = Cardinality(flags'[c])
                      /\ c # First => used_items'[c] > 0
    BY DEF CountsRight
  <2>1. c \in chain
    BY DEF FreeItem
  <2>2. CASE c = b
    <3>1. used_items'[c] = used_items[b] - 1 /\ flags'[c] = flags[b] \ {s}
      BY <2>2 DEF FreeItem, TypeOK
    <3>2. Cardinality(flags[b] \ {s}) = Cardinality(flags[b]) - 1
      BY <1>1, <1>2, OneLess
    <3>3. c # First => used_items[b] > 1
      <4>1. c # First => used_items[b] # 1
        BY <2>2 DEF FreeItem, Empties
      <4>2. c # First => used_items[b] > 0
        BY <2>1, <2>2 DEF CountsRight
      <4>3. QED
        BY <4>1, <4>2 DEF TypeOK
    <3>4. QED
      BY <3>1, <3>2, <3>3, <1>2 DEF TypeOK
  <2>3. CASE c # b
    BY <2>1, <2>3 DEF FreeItem, TypeOK, CountsRight
  <2>4. QED
    BY <2>2, <2>3
<1>8. Abstract!GiveBack
  BY <1>1, <1>3 DEF Abstract!GiveBack
<1>9. QED
  BY <1>4, <1>6, <1>7, <1>8

\* Every step keeps the invariant and is one of the pool's, or leaves the items
\* with their holders.
LEMMA PoolStep ==
  ASSUME PoolInv, [Next]_vars
  PROVE  PoolInv' /\ [Abstract!Take \/ Abstract!GiveBack]_given
<1>1. CASE \E b \in Blocks, s \in Slots : AllocHere(b, s)
  BY <1>1, HereStep
<1>2. CASE \E b \in Blocks, s \in Slots : FreeItem(b, s)
  BY <1>2, FreeStep
<1>3. CASE \E t \in Tasks \cup {Kernel}, b \in Blocks : AllocFurther(t, b)
  BY <1>3, FurtherStep
<1>4. CASE \E t \in Tasks : Kill(t)
  BY <1>4 DEF Kill, PoolInv, TypeOK, HeldIsLive, CountsRight
<1>5. CASE UNCHANGED vars
  BY <1>5 DEF vars, PoolInv, TypeOK, HeldIsLive, CountsRight
<1>6. QED
  BY <1>1, <1>2, <1>3, <1>4, <1>5 DEF Next, Ended

\* The invariant holds in every reachable state.
LEMMA PoolAlways == Spec => []PoolInv
<1>1. PoolInv /\ [Next]_vars => PoolInv'
  BY PoolStep
<1>2. QED
  BY <1>1, PoolStart, PTL DEF Spec

-----------------------------------------------------------------------------
(***************************************************************************)
(* The results.                                                            *)
(***************************************************************************)

\* The variables keep their types: mb_alloc and mb_free stay inside the items of
\* the blocks.
THEOREM TypeCorrect == Spec => []TypeOK
BY PoolAlways, PTL DEF PoolInv

\* mb_alloc hands out no item in use, and mb_free gives no block back under one.
THEOREM Held == Spec => []HeldIsLive
BY PoolAlways, PTL DEF PoolInv

\* used_items is the number of marked items, and only the first block is ever
\* empty.
THEOREM Counts == Spec => []CountsRight
BY PoolAlways, PTL DEF PoolInv

\* Each operation of mem_block.c is one of the abstract pool's.
THEOREM Implements == Spec => ImplementsPool
<1>1. Init => Abstract!PoolInit
  BY DEF Init, Abstract!PoolInit
<1>2. PoolInv /\ [Next]_vars => [Abstract!Take \/ Abstract!GiveBack]_given
  BY PoolStep
<1>3. QED
  BY <1>1, <1>2, PoolAlways, PTL DEF Spec, ImplementsPool, Abstract!PoolSpec
=============================================================================
