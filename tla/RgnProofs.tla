----------------------------- MODULE RgnProofs -----------------------------
(***************************************************************************)
(* Proofs about the page allocator, for tables and a RAM of any size.      *)
(*                                                                         *)
(* The inductive invariant speaks of the two tables alone: TablesInv is    *)
(* preserved by each of the three ways the code changes them (TakeFront,   *)
(* TakeAt, FreeIndex), and every action of the module either does one of   *)
(* the three or leaves both tables as they are.                            *)
(***************************************************************************)
EXTENDS Rgn, FiniteSetTheorems, TLAPS

TablesTyped == /\ free \in [Slots -> FreeEntry]
               /\ reserved \in [Slots -> ReservedEntry]

TablesInv == /\ TablesTyped
             /\ NoOverlap
             /\ NoLeak
             /\ Coalesced
             /\ LookupFindsLive

-----------------------------------------------------------------------------
\* Cutting pages from the front of a free block keeps the tables well formed.
LEMMA TakeFrontTyped ==
  ASSUME TablesTyped, NEW t \in Owners, NEW n \in Nat, TakeFront(t, n)
  PROVE  TablesTyped'
<1>1. PICK i \in Slots, j \in Slots :
        /\ IsFirst(i, Fitting(n))
        /\ free' = [free EXCEPT ![i] = [base |-> free[i].base + n, n |-> free[i].n - n]]
        /\ reserved' = [reserved EXCEPT ![j] = [base |-> free[i].base, n |-> n, task |-> t]]
  BY DEF TakeFront
<1>2. free[i] \in FreeEntry /\ free[i].n >= n
  BY <1>1 DEF TablesTyped, IsFirst, Fitting
<1>3. [base |-> free[i].base + n, n |-> free[i].n - n] \in FreeEntry
  BY <1>2 DEF FreeEntry
<1>4. [base |-> free[i].base, n |-> n, task |-> t] \in ReservedEntry
  BY <1>2 DEF FreeEntry, ReservedEntry
<1> QED
  BY <1>1, <1>3, <1>4 DEF TablesTyped

\* Cutting pages from the front of a free block keeps the invariant of the tables.
LEMMA TakeFrontInv ==
  ASSUME TablesInv, SizesAssumption, NEW t \in Owners, NEW n \in Nat \ {0}, TakeFront(t, n)
  PROVE  TablesInv'
<1>1. PICK i \in Slots, j \in Slots :
        /\ IsFirst(i, Fitting(n))
        /\ IsFirst(j, EmptyReserved)
        /\ free' = [free EXCEPT ![i] = [base |-> free[i].base + n, n |-> free[i].n - n]]
        /\ reserved' = [reserved EXCEPT ![j] = [base |-> free[i].base, n |-> n, task |-> t]]
  BY DEF TakeFront
<1>2. /\ \A k \in Slots : free[k].base \in Nat /\ free[k].n \in Nat
      /\ \A k \in Slots : reserved[k].base \in Nat /\ reserved[k].n \in Nat
  BY DEF TablesInv, TablesTyped, FreeEntry, ReservedEntry
<1>3. /\ free'[i].base = free[i].base + n
      /\ free'[i].n = free[i].n - n
      /\ free[i].n >= n
      /\ \A k \in Slots \ {i} : free'[k] = free[k]
  BY <1>1 DEF TablesInv, TablesTyped, IsFirst, Fitting
<1>4. /\ reserved'[j].base = free[i].base
      /\ reserved'[j].n = n
      /\ reserved[j].n = 0
      /\ \A k \in Slots \ {j} : reserved'[k] = reserved[k]
      /\ \A k \in Slots : k < j => reserved[k].n # 0
  BY <1>1, <1>2 DEF TablesInv, TablesTyped, IsFirst, EmptyReserved, Live, Slots
<1>5. TablesTyped'
  BY TakeFrontTyped DEF TablesInv
<1>6. NoOverlap'
  BY <1>2, <1>3, <1>4 DEF TablesInv, NoOverlap, Apart, Live, Last
<1>7. NoLeak'
  <2>1. ASSUME NEW p \in Pages
        PROVE  \/ \E k \in Slots : Covers(free'[k], p)
               \/ \E k \in Slots : Covers(reserved'[k], p)
    <3>1. p \in Nat
      BY SizesAssumption DEF Pages
    <3>2. CASE \E k \in Slots : Covers(free[k], p)
      BY <1>2, <1>3, <1>4, <3>1, <3>2 DEF Covers, Last
    <3>3. CASE \E k \in Slots : Covers(reserved[k], p)
      BY <1>2, <1>4, <3>1, <3>3 DEF Covers, Last
    <3> QED
      BY <3>2, <3>3 DEF TablesInv, NoLeak
  <2>2. \A k \in Slots : Live(free'[k]) => Last(free'[k]) <= RamPages
    BY <1>2, <1>3, SizesAssumption DEF TablesInv, NoLeak, Live, Last
  <2>3. \A k \in Slots : Live(reserved'[k]) => Last(reserved'[k]) <= RamPages
    BY <1>2, <1>3, <1>4, SizesAssumption DEF TablesInv, NoLeak, Live, Last
  <2> QED
    BY <2>1, <2>2, <2>3 DEF NoLeak
<1>8. Coalesced'
  BY <1>2, <1>3, <1>4 DEF TablesInv, NoOverlap, Coalesced, Apart, Live, Last
<1>9. LookupFindsLive'
  BY <1>2, <1>3, <1>4 DEF TablesInv, NoOverlap, LookupFindsLive, Apart, Live, Last, Slots
<1> QED
  BY <1>5, <1>6, <1>7, <1>8, <1>9 DEF TablesInv

-----------------------------------------------------------------------------
\* Reserving a region in the middle of a free block.
LEMMA TakeAtTyped ==
  ASSUME TablesTyped, NEW b \in Nat, NEW n \in Nat, TakeAt(b, n)
  PROVE  TablesTyped'
<1>1. PICK i \in Slots, j \in Slots :
        /\ IsFirst(i, Holding(b))
        /\ reserved' = [reserved EXCEPT ![j].base = b, ![j].n = n]
        /\ \/ /\ b + n = Last(free[i])
              /\ free' = [free EXCEPT ![i].n = b - free[i].base]
           \/ /\ b + n < Last(free[i])
              /\ \E k \in Slots :
                   /\ IsFirst(k, EmptyFree)
                   /\ free' = [free EXCEPT ![i].n = b - free[i].base,
                        ![k] = [base |-> b + n, n |-> Last(free[i]) - (b + n)]]
  BY DEF TakeAt
<1>2. free[i] \in FreeEntry /\ free[i].base <= b
  BY <1>1 DEF TablesTyped, IsFirst, Holding, Covers
<1>3. b - free[i].base \in Nat
  BY <1>2 DEF FreeEntry
<1>4. reserved' \in [Slots -> ReservedEntry]
  BY <1>1 DEF TablesTyped, ReservedEntry
<1>5. CASE b + n = Last(free[i])
  BY <1>1, <1>3, <1>4, <1>5 DEF TablesTyped, FreeEntry
<1>6. CASE b + n < Last(free[i])
  <2>1. [base |-> b + n, n |-> Last(free[i]) - (b + n)] \in FreeEntry
    BY <1>2, <1>6 DEF FreeEntry, Last
  <2> QED
    BY <1>1, <1>3, <1>4, <1>6, <2>1 DEF TablesTyped, FreeEntry
<1> QED
  BY <1>1, <1>5, <1>6

\* So does reserving a region in the middle of one.
LEMMA TakeAtInv ==
  ASSUME TablesInv, SizesAssumption, NEW b \in Nat, NEW n \in Nat \ {0}, TakeAt(b, n)
  PROVE  TablesInv'
<1>1. PICK i \in Slots, j \in Slots :
        /\ IsFirst(i, Holding(b))
        /\ IsFirst(j, EmptyReserved)
        /\ reserved' = [reserved EXCEPT ![j].base = b, ![j].n = n]
        /\ \/ /\ b + n = Last(free[i])
              /\ free' = [free EXCEPT ![i].n = b - free[i].base]
           \/ /\ b + n < Last(free[i])
              /\ \E k \in Slots :
                   /\ IsFirst(k, EmptyFree)
                   /\ free' = [free EXCEPT ![i].n = b - free[i].base,
                        ![k] = [base |-> b + n, n |-> Last(free[i]) - (b + n)]]
  BY DEF TakeAt
<1>2. /\ \A k \in Slots : free[k].base \in Nat /\ free[k].n \in Nat
      /\ \A k \in Slots : reserved[k].base \in Nat /\ reserved[k].n \in Nat
  BY DEF TablesInv, TablesTyped, FreeEntry, ReservedEntry
<1>3. /\ free[i].base <= b
      /\ b < free[i].base + free[i].n
  BY <1>1 DEF IsFirst, Holding, Covers, Last
<1>4. /\ reserved'[j].base = b
      /\ reserved'[j].n = n
      /\ reserved[j].n = 0
      /\ \A k \in Slots \ {j} : reserved'[k] = reserved[k]
      /\ \A k \in Slots : k < j => reserved[k].n # 0
  BY <1>1, <1>2 DEF TablesInv, TablesTyped, ReservedEntry, IsFirst, EmptyReserved, Live, Slots
<1>5. TablesTyped'
  BY TakeAtTyped DEF TablesInv
\* What the free table looks like after the call: slot i keeps what lies
\* before b, and what lies after b + n, if anything, is in an empty slot k.
<1>6. PICK k \in Slots :
        /\ free'[i].base = free[i].base
        /\ free'[i].n = b - free[i].base
        /\ \/ /\ b + n = free[i].base + free[i].n
              /\ k = i
           \/ /\ b + n < free[i].base + free[i].n
              /\ free[k].n = 0
              /\ k # i
              /\ free'[k].base = b + n
              /\ free'[k].n = free[i].base + free[i].n - (b + n)
        /\ \A m \in Slots \ {i, k} : free'[m] = free[m]
  <2>1. CASE b + n = Last(free[i])
    BY <1>1, <1>2, <2>1 DEF TablesInv, TablesTyped, FreeEntry, Last
  <2>2. CASE b + n < Last(free[i])
    <3>1. PICK k \in Slots :
            /\ IsFirst(k, EmptyFree)
            /\ free' = [free EXCEPT ![i].n = b - free[i].base,
                  ![k] = [base |-> b + n, n |-> Last(free[i]) - (b + n)]]
      BY <1>1, <1>2, <2>2 DEF Last
    <3>2. free[k].n = 0 /\ k # i
      BY <1>2, <1>3, <3>1 DEF IsFirst, EmptyFree, Live
    <3> QED
      BY <1>2, <2>2, <3>1, <3>2 DEF TablesInv, TablesTyped, FreeEntry, Last
  <2> QED
    BY <1>1, <2>1, <2>2
<1>7. NoOverlap'
  <2>1. \A p, q \in Slots : p # q => Apart(free'[p], free'[q])
    BY <1>2, <1>3, <1>6 DEF TablesInv, NoOverlap, Apart, Live, Last
  <2>2. \A p, q \in Slots : p # q => Apart(reserved'[p], reserved'[q])
    BY <1>2, <1>3, <1>4, <1>6 DEF TablesInv, NoOverlap, Apart, Live, Last
  <2>3. ASSUME NEW p \in Slots, NEW q \in Slots
        PROVE  Apart(free'[p], reserved'[q])
    <3>1. /\ Apart(free[p], free[i]) \/ p = i
          /\ Apart(free[i], reserved[q])
          /\ Apart(free[p], reserved[q])
      BY DEF TablesInv, NoOverlap
    <3>2. CASE q = j /\ p \notin {i, k}
      BY <1>2, <1>3, <1>4, <1>6, <3>1, <3>2 DEF Apart, Live, Last
    <3>3. CASE q = j /\ p \in {i, k}
      BY <1>2, <1>3, <1>4, <1>6, <3>3 DEF Apart, Live, Last
    <3>4. CASE q # j /\ p \notin {i, k}
      BY <1>4, <1>6, <3>1, <3>4
    <3>5. CASE q # j /\ p \in {i, k}
      <4>1. reserved'[q] = reserved[q]
        BY <1>4, <3>5
      <4> QED
        BY <1>2, <1>3, <1>6, <3>1, <3>5, <4>1 DEF Apart, Live, Last
    <3> QED
      BY <3>2, <3>3, <3>4, <3>5
  <2> QED
    BY <2>1, <2>2, <2>3 DEF NoOverlap
<1>8. NoLeak'
  <2>1. ASSUME NEW p \in Pages
        PROVE  \/ \E m \in Slots : Covers(free'[m], p)
               \/ \E m \in Slots : Covers(reserved'[m], p)
    <3>1. p \in Nat
      BY SizesAssumption DEF Pages
    <3>2. CASE Covers(free[i], p)
      BY <1>2, <1>3, <1>4, <1>6, <3>1, <3>2 DEF Covers, Last
    <3>3. CASE \E m \in Slots \ {i} : Covers(free[m], p)
      BY <1>2, <1>6, <3>1, <3>3 DEF Covers, Last
    <3>4. CASE \E m \in Slots : Covers(reserved[m], p)
      BY <1>2, <1>4, <3>1, <3>4 DEF Covers, Last
    <3> QED
      BY <3>2, <3>3, <3>4 DEF TablesInv, NoLeak
  <2>2. \A m \in Slots : Live(free'[m]) => Last(free'[m]) <= RamPages
    BY <1>2, <1>3, <1>6, SizesAssumption DEF TablesInv, NoLeak, Live, Last
  <2>3. \A m \in Slots : Live(reserved'[m]) => Last(reserved'[m]) <= RamPages
    BY <1>2, <1>3, <1>4, <1>6, SizesAssumption DEF TablesInv, NoLeak, Live, Last
  <2> QED
    BY <2>1, <2>2, <2>3 DEF NoLeak
<1>9. Coalesced'
  <2>1. ASSUME NEW p \in Slots, NEW q \in Slots, Live(free'[p]), Live(free'[q])
        PROVE  Last(free'[p]) # free'[q].base
    <3>1. CASE p # i /\ q # i /\ p # k /\ q # k
      BY <1>6, <2>1, <3>1 DEF TablesInv, Coalesced
    <3>2. CASE k # i /\ p = k
      <4>1. Last(free'[k]) = Last(free[i]) /\ Live(free[i])
        BY <1>2, <1>3, <1>6, <3>2 DEF Live, Last
      <4>2. CASE q # i /\ q # k
        BY <1>6, <2>1, <3>2, <4>1, <4>2 DEF TablesInv, Coalesced
      <4>3. CASE q = i \/ q = k
        BY <1>2, <1>3, <1>6, <2>1, <3>2, <4>3 DEF Live, Last
      <4> QED
        BY <4>2, <4>3
    <3>3. CASE k # i /\ q = k /\ p # k
      <4>1. CASE p = i
        BY <1>2, <1>3, <1>6, <3>3, <4>1 DEF Last
      <4>2. CASE p # i
        <5>1. free'[p] = free[p] /\ free[p].n # 0
          BY <1>6, <2>1, <3>3, <4>2 DEF Live
        <5>2. Last(free[p]) <= free[i].base \/ Last(free[i]) <= free[p].base
          BY <1>2, <1>3, <4>2, <5>1 DEF TablesInv, NoOverlap, Apart, Live
        <5> QED
          BY <1>2, <1>3, <1>6, <3>3, <5>1, <5>2 DEF Last
      <4> QED
        BY <4>1, <4>2
    <3>4. CASE p = i /\ q # k
      <4>1. Last(free'[p]) = b
        BY <1>2, <1>3, <1>6, <3>4 DEF Last
      <4>2. CASE q = i
        BY <1>2, <1>3, <1>6, <2>1, <3>4, <4>1, <4>2 DEF Live
      <4>3. CASE q # i
        <5>1. free'[q] = free[q] /\ free[q].n # 0
          BY <1>6, <2>1, <3>4, <4>3 DEF Live
        <5>2. Last(free[q]) <= free[i].base \/ Last(free[i]) <= free[q].base
          BY <1>2, <1>3, <4>3, <5>1 DEF TablesInv, NoOverlap, Apart, Live
        <5> QED
          BY <1>2, <1>3, <4>1, <5>1, <5>2 DEF Last
      <4> QED
        BY <4>2, <4>3
    <3>5. CASE q = i /\ p # i /\ p # k
      BY <1>2, <1>3, <1>6, <2>1, <3>5 DEF TablesInv, Coalesced, Live, Last
    <3>6. CASE k = i /\ p = i /\ q = i
      BY <1>2, <1>3, <1>6, <2>1, <3>6 DEF Live, Last
    <3> QED
      BY <3>1, <3>2, <3>3, <3>4, <3>5, <3>6
  <2> QED
    BY <2>1 DEF Coalesced
<1>10. LookupFindsLive'
  BY <1>2, <1>3, <1>4 DEF TablesInv, NoOverlap, LookupFindsLive, Apart, Live, Last, Slots
<1> QED
  BY <1>5, <1>7, <1>8, <1>9, <1>10 DEF TablesInv

-----------------------------------------------------------------------------
\* Releasing a slot, unused or not: what st_free_index does to both tables.
LEMMA FreeIndexStep ==
  ASSUME TablesTyped, NEW r \in Slots, FreeIndex(r)
  PROVE  \E f, g \in Slots :
           /\ f \in Landing(reserved[r].base)
           /\ \/ /\ g = f
                 /\ FreeAfter(reserved[r].base + reserved[r].n) = {}
                 /\ free'[f] = LandOn(f, reserved[r].base, reserved[r].n)
              \/ /\ g # f
                 /\ g \in FreeAfter(reserved[r].base + reserved[r].n)
                 /\ free'[f] = LandOn(f, reserved[r].base, reserved[r].n + free[g].n)
                 /\ free'[g].n = 0
                 /\ free'[g].base = free[g].base
           /\ \A k \in Slots \ {f, g} : free'[k] = free[k]
           /\ reserved'[r].n = 0
           /\ reserved'[r].base = reserved[r].base
           /\ reserved'[r].task = reserved[r].task
           /\ \A k \in Slots \ {r} : reserved'[k] = reserved[k]
           /\ TablesTyped'
<1> DEFINE b == reserved[r].base
           n == reserved[r].n
<1>0. b \in Nat /\ n \in Nat
  BY DEF TablesTyped, ReservedEntry
<1>1. PICK f \in Slots :
        /\ IsFirst(f, Landing(b))
        /\ reserved' = [reserved EXCEPT ![r].n = 0]
        /\ \/ /\ FreeAfter(b + n) = {}
              /\ free' = [free EXCEPT ![f] = LandOn(f, b, n)]
           \/ \E g \in Slots :
                /\ IsFirst(g, FreeAfter(b + n))
                /\ free' = [free EXCEPT ![f] = LandOn(f, b, n + free[g].n), ![g].n = 0]
  BY DEF FreeIndex
<1>2. f \in Landing(b)
  BY <1>1 DEF IsFirst
<1>3. reserved' \in [Slots -> ReservedEntry]
  BY <1>1 DEF TablesTyped, ReservedEntry
<1>4. /\ reserved'[r].n = 0
      /\ reserved'[r].base = b
      /\ reserved'[r].task = reserved[r].task
      /\ \A k \in Slots \ {r} : reserved'[k] = reserved[k]
  BY <1>1 DEF TablesTyped, ReservedEntry
<1>5. ASSUME NEW m \in Nat
      PROVE  LandOn(f, b, m) \in FreeEntry
  BY <1>0, <1>5 DEF LandOn, TablesTyped, FreeEntry
<1>6. CASE /\ FreeAfter(b + n) = {}
           /\ free' = [free EXCEPT ![f] = LandOn(f, b, n)]
  <2>1. free' \in [Slots -> FreeEntry]
    BY <1>0, <1>5, <1>6 DEF TablesTyped
  <2>2. free'[f] = LandOn(f, b, n) /\ \A k \in Slots \ {f, f} : free'[k] = free[k]
    BY <1>6 DEF TablesTyped
  <2> QED
    BY <1>2, <1>3, <1>4, <1>6, <2>1, <2>2 DEF TablesTyped
<1>7. CASE \E g \in Slots :
             /\ IsFirst(g, FreeAfter(b + n))
             /\ free' = [free EXCEPT ![f] = LandOn(f, b, n + free[g].n), ![g].n = 0]
  <2>1. PICK g \in Slots :
             /\ IsFirst(g, FreeAfter(b + n))
             /\ free' = [free EXCEPT ![f] = LandOn(f, b, n + free[g].n), ![g].n = 0]
    BY <1>7
  <2>2. g \in FreeAfter(b + n)
    BY <2>1 DEF IsFirst
  <2>3. free[g].base = b + n /\ free[g].n # 0 /\ free[g].n \in Nat
    BY <2>2 DEF FreeAfter, Live, TablesTyped, FreeEntry
  <2>4. f # g
    BY <1>0, <1>2, <2>3 DEF Landing, FreeBefore, EmptyFree, Live, Last, TablesTyped, FreeEntry
  <2>5. LandOn(f, b, n + free[g].n) \in FreeEntry
    BY <1>0, <1>5, <2>3
  <2>6. free' \in [Slots -> FreeEntry]
    BY <2>1, <2>4, <2>5 DEF TablesTyped, FreeEntry
  <2>7. /\ free'[f] = LandOn(f, b, n + free[g].n)
        /\ free'[g].n = 0
        /\ free'[g].base = free[g].base
        /\ \A k \in Slots \ {f, g} : free'[k] = free[k]
    BY <2>1, <2>4 DEF TablesTyped, FreeEntry
  <2> QED
    BY <1>2, <1>3, <1>4, <2>2, <2>4, <2>6, <2>7 DEF TablesTyped
<1> QED
  BY <1>1, <1>6, <1>7

\* A block apart from three adjoining blocks is apart from their union.
LEMMA UnionApart ==
  ASSUME NEW eb \in Nat, NEW en \in Nat \ {0},
         NEW b \in Nat, NEW n \in Nat, n # 0 => eb + en <= b \/ b + n <= eb,
         NEW lo \in Nat, lo <= b, lo < b => eb + en <= lo \/ b <= eb,
         NEW hi \in Nat, b + n <= hi, b + n < hi => eb + en <= b + n \/ hi <= eb,
         lo < hi
  PROVE  eb + en <= lo \/ hi <= eb
  OBVIOUS

\* The same step in terms of block bounds: the merged block reaches from "lo",
\* where slot f or the released block begins, to "hi", where the released block
\* or slot g ends.
LEMMA FreeIndexInv ==
  ASSUME TablesInv, SizesAssumption, NEW r \in Slots, FreeIndex(r)
  PROVE  TablesInv'
<1> DEFINE b == reserved[r].base
           n == reserved[r].n
<1>1. PICK f, g \in Slots :
           /\ f \in Landing(b)
           /\ \/ /\ g = f
                 /\ FreeAfter(b + n) = {}
                 /\ free'[f] = LandOn(f, b, n)
              \/ /\ g # f
                 /\ g \in FreeAfter(b + n)
                 /\ free'[f] = LandOn(f, b, n + free[g].n)
                 /\ free'[g].n = 0
                 /\ free'[g].base = free[g].base
           /\ \A k \in Slots \ {f, g} : free'[k] = free[k]
           /\ reserved'[r].n = 0
           /\ reserved'[r].base = b
           /\ reserved'[r].task = reserved[r].task
           /\ \A k \in Slots \ {r} : reserved'[k] = reserved[k]
           /\ TablesTyped'
  BY FreeIndexStep DEF TablesInv
<1>2. /\ \A k \in Slots : free[k].base \in Nat /\ free[k].n \in Nat
      /\ \A k \in Slots : reserved[k].base \in Nat /\ reserved[k].n \in Nat
      /\ b \in Nat /\ n \in Nat
  BY DEF TablesInv, TablesTyped, FreeEntry, ReservedEntry
<1>3. \/ free[f].n # 0 /\ free[f].base + free[f].n = b /\ free'[f].base = free[f].base
      \/ /\ free[f].n = 0 /\ free'[f].base = b
         /\ \A k \in Slots : free[k].n # 0 => free[k].base + free[k].n # b
  BY <1>1, <1>2 DEF Landing, LandOn, FreeBefore, EmptyFree, Live, Last
<1>4. \/ /\ g = f
         /\ free'[f].n = free[f].n + n
         /\ \A k \in Slots : free[k].n # 0 => free[k].base # b + n
      \/ /\ g # f
         /\ free[g].base = b + n
         /\ free[g].n # 0
         /\ free'[g].n = 0
         /\ free'[f].n = free[f].n + n + free[g].n
  BY <1>1, <1>2 DEF FreeAfter, LandOn, Live
<1>5. \A k \in Slots \ {f, g} : free'[k] = free[k]
  BY <1>1
<1>6. reserved'[r].n = 0 /\ reserved'[r].base = b /\ \A k \in Slots \ {r} : reserved'[k] = reserved[k]
  BY <1>1
<1> HIDE DEF b, n
<1>b. b = reserved[r].base /\ n = reserved[r].n
  BY DEF b, n
\* What is apart from the released block and from the free ones it joins is
\* apart from the merged block.
<1>c. ASSUME NEW eb \in Nat, NEW en \in Nat \ {0}, free'[f].n # 0,
             n # 0 => eb + en <= b \/ b + n <= eb,
             free[f].n # 0 => eb + en <= free[f].base \/ free[f].base + free[f].n <= eb,
             g # f => eb + en <= free[g].base \/ free[g].base + free[g].n <= eb
      PROVE  eb + en <= free'[f].base \/ free'[f].base + free'[f].n <= eb
  <2> DEFINE lo == free'[f].base
             hi == free'[f].base + free'[f].n
  <2>1. /\ lo \in Nat /\ hi \in Nat /\ lo <= b /\ b + n <= hi /\ lo < hi
        /\ lo < b => free[f].n # 0 /\ lo = free[f].base /\ b = lo + free[f].n
        /\ b + n < hi => g # f /\ free[g].base = b + n /\ hi = b + n + free[g].n
    <3>1. /\ free'[f].n \in Nat /\ free'[f].base \in Nat
          /\ lo <= b
          /\ lo < b => free[f].n # 0 /\ lo = free[f].base /\ b = lo + free[f].n
          /\ free[f].n + lo = b
      BY <1>2, <1>3, <1>4
    <3>2. CASE g = f
      <4>1. hi = b + n
        BY <1>2, <1>4, <3>1, <3>2
      <4> QED
        BY <1>2, <1>c, <3>1, <4>1
    <3>3. CASE g # f
      <4>1. hi = b + n + free[g].n
        BY <1>2, <1>4, <3>1, <3>3
      <4> QED
        BY <1>2, <1>4, <1>c, <3>1, <3>3, <4>1
    <3> QED
      BY <3>2, <3>3
  <2>2. /\ lo < b => eb + en <= lo \/ b <= eb
        /\ b + n < hi => eb + en <= b + n \/ hi <= eb
    BY <1>c, <2>1
  <2> HIDE DEF lo, hi
  <2>3. eb + en <= lo \/ hi <= eb
    BY <1>2, <1>c, <2>1, <2>2, UnionApart
  <2> QED
    BY <2>3 DEF lo, hi
<1>d. ASSUME NEW k \in Slots \ {f, g}, free[k].n # 0, free'[f].n # 0
      PROVE  \/ free[k].base + free[k].n <= free'[f].base
             \/ free'[f].base + free'[f].n <= free[k].base
  <2>1. /\ Apart(free[k], free[f]) /\ Apart(free[k], free[g])
        /\ Apart(free[k], reserved[r])
    BY DEF TablesInv, NoOverlap
  <2>2. /\ n # 0 => free[k].base + free[k].n <= b \/ b + n <= free[k].base
        /\ free[f].n # 0 => free[k].base + free[k].n <= free[f].base \/ free[f].base + free[f].n <= free[k].base
        /\ g # f => free[k].base + free[k].n <= free[g].base \/ free[g].base + free[g].n <= free[k].base
    BY <1>b, <1>4, <1>d, <2>1 DEF Apart, Live, Last
  <2> QED
    BY <1>2, <1>c, <1>d, <2>2
<1>7. NoOverlap'
  <2>1. ASSUME NEW p \in Slots, NEW q \in Slots, p # q
        PROVE  Apart(free'[p], free'[q])
    <3>1. CASE p \in Slots \ {f, g} /\ q \in Slots \ {f, g}
      BY <1>5, <2>1, <3>1 DEF TablesInv, NoOverlap
    <3>2. CASE p = f /\ q \in Slots \ {f, g}
      BY <1>5, <1>d, <3>2 DEF Apart, Live, Last
    <3>3. CASE q = f /\ p \in Slots \ {f, g}
      BY <1>5, <1>d, <3>3 DEF Apart, Live, Last
    <3>4. CASE g # f /\ (p = g \/ q = g)
      BY <1>4, <3>4 DEF Apart, Live
    <3> QED
      BY <2>1, <3>1, <3>2, <3>3, <3>4
  <2>2. \A p, q \in Slots : p # q => Apart(reserved'[p], reserved'[q])
    BY <1>2, <1>6 DEF TablesInv, NoOverlap, Apart, Live, Last
  <2>3. ASSUME NEW p \in Slots, NEW q \in Slots
        PROVE  Apart(free'[p], reserved'[q])
    <3>1. CASE q = r
      BY <1>6, <3>1 DEF Apart, Live
    <3>2. CASE q # r /\ p = f
      <4>1. reserved'[q] = reserved[q] /\ Apart(reserved[r], reserved[q])
        BY <1>6, <3>2 DEF TablesInv, NoOverlap
      <4>2. Apart(free[f], reserved[q]) /\ Apart(free[g], reserved[q])
        BY DEF TablesInv, NoOverlap
      <4>3. ASSUME reserved[q].n # 0, free'[f].n # 0
            PROVE  \/ reserved[q].base + reserved[q].n <= free'[f].base
                   \/ free'[f].base + free'[f].n <= reserved[q].base
        <5>1. /\ n # 0 => reserved[q].base + reserved[q].n <= b \/ b + n <= reserved[q].base
              /\ free[f].n # 0 => reserved[q].base + reserved[q].n <= free[f].base \/ free[f].base + free[f].n <= reserved[q].base
              /\ g # f => reserved[q].base + reserved[q].n <= free[g].base \/ free[g].base + free[g].n <= reserved[q].base
          BY <1>b, <1>2, <1>4, <4>1, <4>2, <4>3 DEF Apart, Live, Last
        <5> QED
          BY <1>2, <1>c, <4>3, <5>1
      <4> QED
        BY <1>2, <3>2, <4>1, <4>3 DEF Apart, Live, Last
    <3>3. CASE p = g /\ g # f
      BY <1>4, <3>3 DEF Apart, Live
    <3>4. CASE q # r /\ p \in Slots \ {f, g}
      BY <1>5, <1>6, <3>4 DEF TablesInv, NoOverlap
    <3> QED
      BY <3>1, <3>2, <3>3, <3>4
  <2> QED
    BY <2>1, <2>2, <2>3 DEF NoOverlap
<1>8. NoLeak'
  <2>1. ASSUME NEW p \in Pages
        PROVE  \/ \E k \in Slots : Covers(free'[k], p)
               \/ \E k \in Slots : Covers(reserved'[k], p)
    <3>1. p \in Nat
      BY SizesAssumption DEF Pages
    <3>2. CASE Covers(free[f], p) \/ Covers(free[g], p)
      BY <1>2, <1>3, <1>4, <3>1, <3>2 DEF Covers, Last
    <3>3. CASE \E k \in Slots \ {f, g} : Covers(free[k], p)
      BY <1>5, <3>3
    <3>4. CASE Covers(reserved[r], p)
      BY <1>b, <1>2, <1>3, <1>4, <3>1, <3>4 DEF Covers, Last
    <3>5. CASE \E k \in Slots \ {r} : Covers(reserved[k], p)
      BY <1>6, <3>5
    <3> QED
      BY <3>2, <3>3, <3>4, <3>5 DEF TablesInv, NoLeak
  <2>2. ASSUME NEW k \in Slots, Live(free'[k])
        PROVE  Last(free'[k]) <= RamPages
    <3>1. CASE k = f /\ g = f
      <4>1. n # 0 => b + n <= RamPages
        BY <1>b DEF TablesInv, NoLeak, Live, Last
      <4>2. free[f].n # 0 => free[f].base + free[f].n <= RamPages
        BY DEF TablesInv, NoLeak, Live, Last
      <4> QED
        BY <1>2, <1>3, <1>4, <2>2, <3>1, <4>1, <4>2 DEF Live, Last
    <3>2. CASE k = f /\ g # f
      <4>1. Last(free'[f]) = Last(free[g]) /\ Live(free[g])
        BY <1>2, <1>3, <1>4, <3>2 DEF Live, Last
      <4> QED
        BY <3>2, <4>1 DEF TablesInv, NoLeak
    <3>3. CASE k = g /\ g # f
      BY <1>4, <2>2, <3>3 DEF Live
    <3>4. CASE k \in Slots \ {f, g}
      BY <1>5, <2>2, <3>4 DEF TablesInv, NoLeak
    <3> QED
      BY <3>1, <3>2, <3>3, <3>4
  <2>3. \A k \in Slots : Live(reserved'[k]) => Last(reserved'[k]) <= RamPages
    BY <1>2, <1>6 DEF TablesInv, NoLeak, Live, Last
  <2> QED
    BY <2>1, <2>2, <2>3 DEF NoLeak
<1>9. Coalesced'
  <2>1. ASSUME NEW p \in Slots, NEW q \in Slots, Live(free'[p]), Live(free'[q])
        PROVE  Last(free'[p]) # free'[q].base
    <3>1. CASE p \in Slots \ {f, g} /\ q \in Slots \ {f, g}
      BY <1>5, <2>1, <3>1 DEF TablesInv, Coalesced
    <3>2. CASE p = f /\ q \in Slots \ {f, g}
      <4>1. Live(free[q]) /\ free'[q] = free[q]
        BY <1>5, <2>1, <3>2
      <4>2. CASE g = f
        <5>1. Last(free'[f]) = b + n
          BY <1>2, <1>3, <1>4, <4>2 DEF Last
        <5> QED
          BY <1>4, <3>2, <4>1, <4>2, <5>1 DEF Live
      <4>3. CASE g # f
        <5>1. Last(free'[f]) = Last(free[g])
          BY <1>2, <1>3, <1>4, <4>3 DEF Last
        <5> QED
          BY <1>4, <3>2, <4>1, <4>3, <5>1 DEF TablesInv, Coalesced, Live
      <4> QED
        BY <4>2, <4>3
    <3>3. CASE q = f /\ p \in Slots \ {f, g}
      <4>1. Live(free[p]) /\ free'[p] = free[p]
        BY <1>5, <2>1, <3>3
      <4> QED
        BY <1>3, <3>3, <4>1 DEF TablesInv, Coalesced, Live, Last
    <3>4. CASE p = f /\ q = f
      <4>1. free'[f].base \in Nat /\ free'[f].n \in Nat
        BY <1>1 DEF TablesTyped, FreeEntry
      <4> QED
        BY <2>1, <3>4, <4>1 DEF Live, Last
    <3>5. CASE g # f /\ (p = g \/ q = g)
      BY <1>4, <2>1, <3>5 DEF Live
    <3> QED
      BY <3>1, <3>2, <3>3, <3>4, <3>5
  <2> QED
    BY <2>1 DEF Coalesced
<1>10. LookupFindsLive'
  BY <1>b, <1>2, <1>6 DEF TablesInv, LookupFindsLive, Live
<1> QED
  BY <1>1, <1>7, <1>8, <1>9, <1>10 DEF TablesInv

-----------------------------------------------------------------------------
\* The tables as rgn_init leaves them.
LEMMA InitTables == SizesAssumption /\ Init => TablesInv
<1> SUFFICES ASSUME SizesAssumption, Init PROVE TablesInv
  OBVIOUS
<1>2. RamPages \in Nat /\ 0 \in Slots
  BY DEF SizesAssumption, Slots
<1>1. /\ \A k \in Slots : free[k].base = 0
      /\ \A k \in Slots : k # 0 => free[k].n = 0
      /\ free[0].n = RamPages
      /\ \A k \in Slots : reserved[k].base = 0 /\ reserved[k].n = 0
  BY <1>2 DEF Init
<1>3. TablesTyped
  BY <1>2 DEF Init, TablesTyped, FreeEntry, ReservedEntry, Owners
<1>4. NoOverlap
  BY <1>1, <1>2 DEF NoOverlap, Apart, Live
<1>5. NoLeak
  <2>1. \A p \in Pages : Covers(free[0], p)
    BY <1>1, <1>2 DEF Pages, Covers, Last
  <2> QED
    BY <1>1, <1>2, <2>1 DEF NoLeak, Live, Last
<1>6. Coalesced
  BY <1>1, <1>2 DEF Coalesced, Live, Last
<1>7. LookupFindsLive
  BY <1>1 DEF LookupFindsLive, Live
<1> QED
  BY <1>3, <1>4, <1>5, <1>6, <1>7 DEF TablesInv

\* Every step either leaves both tables alone or changes them by one of the
\* three operations, with arguments of the types they expect.
LEMMA NextTables ==
  ASSUME TypeOK, SizesAssumption, BootAssumption, [Next]_vars
  PROVE  \/ UNCHANGED <<free, reserved>>
         \/ \E t \in Owners, n \in Nat \ {0} : TakeFront(t, n)
         \/ \E b \in Nat, n \in Nat \ {0} : TakeAt(b, n)
         \/ \E r \in Slots : FreeIndex(r)
<1>1. CASE BootReserve
  <2> DEFINE R == BootRegions[booted + 1]
  <2>1. R \in Region
    BY <1>1 DEF BootReserve, BootAssumption, TypeOK
  <2>2. R.base \in Nat /\ R.n \in Nat \ {0}
    BY <2>1, SizesAssumption DEF Region, Pages, SizesAssumption
  <2>3. UNCHANGED <<free, reserved>> \/ TakeAt(R.base, R.n)
    BY <1>1 DEF BootReserve
  <2> QED
    BY <2>2, <2>3
<1>2. CASE BootPaging
  BY <1>2 DEF BootPaging, Owners
<1>3. CASE \E t \in TaskIds, n \in 1 .. MaxRequest : Alloc(t, n)
  BY <1>3 DEF Alloc, Owners, SizesAssumption
<1>4. CASE \E b \in Pages : Free(b)
  BY <1>4 DEF Free
<1>5. CASE SweepSlot
  <2>1. cursor \in Slots
    BY <1>5 DEF SweepSlot, TypeOK, Slots, SizesAssumption
  <2> QED
    BY <1>5, <2>1 DEF SweepSlot
<1>6. CASE BootDone \/ (\E t \in TaskIds : Kill(t)) \/ SweepEnd \/ UNCHANGED vars
  BY <1>6 DEF BootDone, Kill, SweepEnd, vars
<1> QED
  BY <1>1, <1>2, <1>3, <1>4, <1>5, <1>6 DEF Next

\* The types of the variables that are not tables.
LEMMA NextTyped ==
  ASSUME TypeOK, TablesTyped', SizesAssumption, BootAssumption, [Next]_vars
  PROVE  TypeOK'
<1> DEFINE N == Len(BootRegions)
<1>0. N \in Nat /\ PagingPages \in Nat /\ MaxNofAls \in Nat
  BY DEF SizesAssumption, BootAssumption
<1> HIDE DEF N
<1>1. CASE BootReserve
  BY <1>0, <1>1 DEF BootReserve, TypeOK, TablesTyped, N
<1>2. CASE BootPaging
  BY <1>0, <1>2 DEF BootPaging, TypeOK, TablesTyped, N
<1>3. CASE BootDone
  BY <1>3 DEF BootDone, TypeOK, TablesTyped
<1>4. CASE \E t \in TaskIds, n \in 1 .. MaxRequest : Alloc(t, n)
  BY <1>4 DEF Alloc, TypeOK, TablesTyped
<1>5. CASE \E b \in Pages : Free(b)
  BY <1>5 DEF Free, TypeOK, TablesTyped
<1>6. CASE \E t \in TaskIds : Kill(t)
  <2>1. PICK t \in TaskIds : Kill(t)
    BY <1>6
  <2>2. victim' \in Owners /\ cursor' \in 0 .. MaxNofAls
    BY <1>0, <2>1 DEF Kill, Owners
  <2>3. phase' = "sweep" /\ failed' = FALSE /\ UNCHANGED booted
    BY <2>1 DEF Kill
  <2> QED
    BY <2>2, <2>3 DEF TypeOK, TablesTyped
<1>7. CASE SweepSlot
  <2>1. failed' \in BOOLEAN
    BY <1>7 DEF SweepSlot, TypeOK
  <2>2. cursor' \in 0 .. MaxNofAls
    BY <1>0, <1>7 DEF SweepSlot, TypeOK
  <2>3. UNCHANGED <<phase, booted, victim>>
    BY <1>7 DEF SweepSlot
  <2> QED
    BY <2>1, <2>2, <2>3 DEF TypeOK, TablesTyped
<1>8. CASE SweepEnd
  <2>1. phase' \in {"run", "dead"} /\ UNCHANGED <<booted, victim, cursor, failed>>
    BY <1>8 DEF SweepEnd
  <2> QED
    BY <2>1 DEF TypeOK, TablesTyped
<1>9. CASE UNCHANGED vars
  BY <1>9 DEF vars, TypeOK, TablesTyped
<1> QED
  BY <1>1, <1>2, <1>3, <1>4, <1>5, <1>6, <1>7, <1>8, <1>9 DEF Next

TablesIInv == TypeOK /\ TablesInv

\* The invariant of the tables is inductive.
LEMMA TablesInduction ==
  ASSUME SizesAssumption, BootAssumption
  PROVE  /\ Init => TablesIInv
         /\ TablesIInv /\ [Next]_vars => TablesIInv'
<1>1. Init => TablesIInv
  <2> SUFFICES ASSUME Init PROVE TypeOK
    BY InitTables DEF TablesIInv
  <2>1. 0 \in 0 .. Len(BootRegions) + PagingPages /\ 0 \in 0 .. MaxNofAls
    BY DEF BootAssumption, SizesAssumption
  <2>2. TablesTyped
    BY InitTables DEF TablesInv
  <2> QED
    BY <2>1, <2>2 DEF Init, TypeOK, TablesTyped, Owners
<1>2. ASSUME TablesIInv, [Next]_vars PROVE TablesIInv'
  <2>1. TablesInv'
    <3>1. CASE UNCHANGED <<free, reserved>>
      BY <1>2, <3>1 DEF TablesIInv, TablesInv, TablesTyped, NoOverlap, NoLeak, Coalesced, LookupFindsLive
    <3>2. CASE \E t \in Owners, n \in Nat \ {0} : TakeFront(t, n)
      BY <1>2, <3>2, TakeFrontInv DEF TablesIInv
    <3>3. CASE \E b \in Nat, n \in Nat \ {0} : TakeAt(b, n)
      BY <1>2, <3>3, TakeAtInv DEF TablesIInv
    <3>4. CASE \E r \in Slots : FreeIndex(r)
      BY <1>2, <3>4, FreeIndexInv DEF TablesIInv
    <3> QED
      BY <1>2, <3>1, <3>2, <3>3, <3>4, NextTables DEF TablesIInv
  <2> QED
    BY <1>2, <2>1, NextTyped DEF TablesIInv, TablesInv
<1> QED
  BY <1>1, <1>2

\* Every variable keeps its type, whatever the sizes of RAM and tables.
THEOREM TypeCorrect == Spec => []TypeOK
<1>1. Init => TablesIInv
  BY TablesInduction, SizesAssumption, BootAssumption
<1>2. TablesIInv /\ [Next]_vars => TablesIInv'
  BY TablesInduction, SizesAssumption, BootAssumption
<1> QED
  BY <1>1, <1>2, PTL DEF Spec, TablesIInv

\* Whatever the requests, no page is ever in two blocks, none is lost, free
\* neighbours are joined, and the lookup by base finds the live block.
THEOREM TablesCorrect == Spec => [](NoOverlap /\ NoLeak /\ Coalesced /\ LookupFindsLive)
<1>1. Init => TablesIInv
  BY TablesInduction, SizesAssumption, BootAssumption
<1>2. TablesIInv /\ [Next]_vars => TablesIInv'
  BY TablesInduction, SizesAssumption, BootAssumption
<1>3. TablesIInv => NoOverlap /\ NoLeak /\ Coalesced /\ LookupFindsLive
  BY DEF TablesIInv, TablesInv
<1> QED
  BY <1>1, <1>2, <1>3, PTL DEF Spec

\* The blocks of the two tables partition the RAM, whatever the requests were.
THEOREM PagesPartitioned == Spec => []Partition
<1>1. NoOverlap /\ NoLeak => Partition
  BY DEF Partition
<1> QED
  BY <1>1, TablesCorrect, PTL

\* st_free_index never leaves two free blocks side by side.
THEOREM FreeJoined == Spec => []Coalesced
BY TablesCorrect, PTL

\* st_reserved_with_base finds the live block of a base, not a stale slot.
THEOREM LiveFound == Spec => []LookupFindsLive
BY TablesCorrect, PTL

-----------------------------------------------------------------------------
(***************************************************************************)
(* The sweep of a killed task.                                             *)
(***************************************************************************)
SweepIInv == /\ TablesIInv
             /\ SweptClean
             /\ phase = "sweep" => victim \in TaskIds

\* A release touches no other reserved slot.
LEMMA FreeIndexReserved ==
  ASSUME TablesTyped, NEW r \in Slots, FreeIndex(r)
  PROVE  /\ reserved'[r].n = 0
         /\ \A k \in Slots \ {r} : reserved'[k] = reserved[k]
  BY FreeIndexStep

\* The invariant of the sweep is inductive.
LEMMA SweepInduction ==
  ASSUME SizesAssumption, BootAssumption
  PROVE  /\ Init => SweepIInv
         /\ SweepIInv /\ [Next]_vars => SweepIInv'
<1>1. Init => SweepIInv
  BY TablesInduction DEF Init, SweepIInv, SweptClean
<1>2. ASSUME SweepIInv, [Next]_vars PROVE SweepIInv'
  <2>1. TablesIInv'
    BY <1>2, TablesInduction DEF SweepIInv
  <2>2. CASE SweepSlot
    <3>1. phase = "sweep" /\ phase' = "sweep" /\ victim' = victim /\ cursor' = cursor + 1
      BY <2>2 DEF SweepSlot
    <3>2. cursor \in Slots /\ cursor \in Nat
      <4>1. cursor \in 0 .. MaxNofAls /\ cursor < MaxNofAls /\ MaxNofAls \in Nat
        BY <1>2, <2>2 DEF SweepSlot, SweepIInv, TablesIInv, TypeOK, SizesAssumption
      <4> QED
        BY <4>1 DEF Slots
    <3>3. ASSUME failed' = FALSE
          PROVE  \A i \in Slots :
                   i < cursor' => ~(Live(reserved'[i]) /\ reserved'[i].task = victim)
      <4>1. failed = FALSE
        BY <1>2, <2>2, <3>3 DEF SweepSlot, SweepIInv, TablesIInv, TypeOK
      <4>2. \A i \in Slots : i < cursor => ~Owned(i, victim)
        BY <1>2, <3>1, <4>1 DEF SweepIInv, SweptClean
      <4>3. /\ ~(Live(reserved'[cursor]) /\ reserved'[cursor].task = victim)
            /\ \A k \in Slots \ {cursor} : reserved'[k] = reserved[k]
        <5>1. CASE Owned(cursor, victim)
          <6>1. FreeIndex(cursor)
            BY <2>2, <3>3, <5>1 DEF SweepSlot
          <6> QED
            BY <1>2, <3>1, <3>2, <6>1, FreeIndexReserved DEF SweepIInv, TablesIInv, TablesInv, Owned, Live
        <5>2. CASE ~Owned(cursor, victim)
          BY <2>2, <3>1, <5>2 DEF SweepSlot, Owned, Live
        <5> QED
          BY <5>1, <5>2
      <4> QED
        BY <3>1, <3>2, <4>2, <4>3 DEF Owned, Live, Slots
    <3> QED
      <4>1. failed' \in BOOLEAN
        BY <2>1 DEF TablesIInv, TypeOK
      <4>2. SweptClean'
        BY <3>1, <3>3, <4>1 DEF SweptClean, Owned
      <4> QED
        BY <1>2, <2>1, <3>1, <4>2 DEF SweepIInv
  <2>3. CASE \E t \in TaskIds : Kill(t)
    BY <2>1, <2>3 DEF Kill, SweepIInv, SweptClean, Slots
  <2>4. CASE phase' # "sweep"
    BY <2>1, <2>4 DEF SweepIInv, SweptClean
  <2>5. CASE UNCHANGED vars
    BY <1>2, <2>1, <2>5 DEF SweepIInv, SweptClean, vars, Owned, Live
  <2> QED
    BY <1>2, <2>2, <2>3, <2>4, <2>5
      DEF Next, BootReserve, BootPaging, BootDone, Alloc, Free, SweepEnd
<1> QED
  BY <1>1, <1>2

\* Slots the sweep has passed stay clean, for tables of any size.
THEOREM SweepClean == Spec => []SweptClean
<1>1. Init => SweepIInv
  BY SweepInduction, SizesAssumption, BootAssumption
<1>2. SweepIInv /\ [Next]_vars => SweepIInv'
  BY SweepInduction, SizesAssumption, BootAssumption
<1> QED
  BY <1>1, <1>2, PTL DEF Spec, SweepIInv

\* After the sweep the killed task owns nothing.
THEOREM KillReleasesAll == Spec => SweepReleasesAll
<1>1. Init => SweepIInv
  BY SweepInduction, SizesAssumption, BootAssumption
<1>2. SweepIInv /\ [Next]_vars => SweepIInv'
  BY SweepInduction, SizesAssumption, BootAssumption
<1>3. SweepIInv /\ [Next]_vars
        => [phase = "sweep" /\ phase' = "run" => \A i \in Slots : ~Owned(i, victim)]_vars
  <2> SUFFICES ASSUME SweepIInv, [Next]_vars, phase = "sweep", phase' = "run"
               PROVE  \A i \in Slots : ~Owned(i, victim)
    OBVIOUS
  <2>1. SweepEnd
    BY DEF Next, BootReserve, BootPaging, BootDone, Alloc, Free, Kill, SweepSlot, vars
  <2>2. failed = FALSE /\ cursor = MaxNofAls
    BY <2>1 DEF SweepEnd, SweepIInv, TablesIInv, TypeOK
  <2>3. \A i \in Slots : i < MaxNofAls
    BY SizesAssumption DEF Slots
  <2> QED
    BY <2>2, <2>3 DEF SweepIInv, SweptClean
<1> QED
  BY <1>1, <1>2, <1>3, PTL DEF Spec, SweepReleasesAll

\* What a step does to the tables, once the sweep is known to have a task for
\* its victim: a released slot is never one of the boot's.
LEMMA NextChanges ==
  ASSUME SweepIInv, SizesAssumption, BootAssumption, OwnersAssumption, [Next]_vars
  PROVE  \/ UNCHANGED <<free, reserved>>
         \/ \E t \in Owners, n \in Nat \ {0} : TakeFront(t, n)
         \/ \E b \in Nat, n \in Nat \ {0} : TakeAt(b, n)
         \/ \E r \in Slots \ BootBlocks : FreeIndex(r)
<1>0. TypeOK /\ TablesTyped
  BY DEF SweepIInv, TablesIInv, TablesInv
<1>1. CASE BootReserve
  <2> DEFINE R == BootRegions[booted + 1]
  <2>1. R \in Region
    BY <1>0, <1>1 DEF BootReserve, BootAssumption, TypeOK
  <2>2. R.base \in Nat /\ R.n \in Nat \ {0}
    BY <2>1 DEF Region, Pages, SizesAssumption
  <2>3. UNCHANGED <<free, reserved>> \/ TakeAt(R.base, R.n)
    BY <1>1 DEF BootReserve
  <2> QED
    BY <2>2, <2>3
<1>2. CASE BootPaging
  BY <1>2 DEF BootPaging, Owners
<1>3. CASE \E t \in TaskIds, n \in 1 .. MaxRequest : Alloc(t, n)
  BY <1>3 DEF Alloc, Owners, SizesAssumption
<1>4. CASE \E b \in Pages : Free(b)
  <2>1. PICK b \in Pages, r \in Slots : b \in TaskPages /\ reserved[r].base = b /\ FreeIndex(r)
    BY <1>4 DEF Free, IsFirst, ReservedWithBase
  <2>2. r \notin BootBlocks
    <3>1. b \in Nat /\ reserved[r].n \in Nat
      BY <1>0 DEF SizesAssumption, Pages, TablesTyped, ReservedEntry
    <3>2. Live(reserved[r]) => Covers(reserved[r], b)
      BY <2>1, <3>1 DEF Covers, Last, Live
    <3> QED
      BY <2>1, <3>2 DEF TaskPages, BootBlocks
  <2> QED
    BY <2>1, <2>2
<1>5. CASE SweepSlot
  <2>1. cursor \in Slots
    <3>1. cursor \in 0 .. MaxNofAls /\ cursor < MaxNofAls /\ MaxNofAls \in Nat
      BY <1>0, <1>5 DEF SweepSlot, TypeOK, SizesAssumption
    <3> QED
      BY <3>1 DEF Slots
  <2>2. CASE FreeIndex(cursor) /\ Owned(cursor, victim)
    <3>1. reserved[cursor].task \in TaskIds
      BY <1>5, <2>2 DEF SweepSlot, SweepIInv, Owned
    <3>2. cursor \notin BootBlocks
      BY <3>1 DEF BootBlocks, OwnersAssumption
    <3> QED
      BY <2>1, <2>2, <3>2
  <2> QED
    BY <1>5, <2>2 DEF SweepSlot
<1>6. CASE BootDone \/ (\E t \in TaskIds : Kill(t)) \/ SweepEnd \/ UNCHANGED vars
  BY <1>6 DEF BootDone, Kill, SweepEnd, vars
<1> QED
  BY <1>1, <1>2, <1>3, <1>4, <1>5, <1>6 DEF Next

\* The blocks of the boot survive every step.
THEOREM BootKept == Spec => BootBlocksKept
<1>1. Init => SweepIInv
  BY SweepInduction, SizesAssumption, BootAssumption
<1>2. SweepIInv /\ [Next]_vars => SweepIInv'
  BY SweepInduction, SizesAssumption, BootAssumption
<1>3. SweepIInv /\ [Next]_vars => [\A i \in BootBlocks : reserved'[i] = reserved[i]]_vars
  <2> SUFFICES ASSUME SweepIInv, [Next]_vars, NEW i \in BootBlocks
               PROVE  reserved'[i] = reserved[i]
    OBVIOUS
  <2>0. i \in Slots /\ Live(reserved[i]) /\ TablesTyped
    BY DEF BootBlocks, SweepIInv, TablesIInv, TablesInv
  <2>1. CASE UNCHANGED <<free, reserved>>
    BY <2>1
  <2>2. CASE \E t \in Owners, n \in Nat \ {0} : TakeFront(t, n)
    BY <2>0, <2>2 DEF TakeFront, IsFirst, EmptyReserved, TablesTyped
  <2>3. CASE \E b \in Nat, n \in Nat \ {0} : TakeAt(b, n)
    BY <2>0, <2>3 DEF TakeAt, IsFirst, EmptyReserved, TablesTyped
  <2>4. CASE \E r \in Slots \ BootBlocks : FreeIndex(r)
    BY <2>0, <2>4, FreeIndexReserved
  <2> QED
    BY <2>1, <2>2, <2>3, <2>4, NextChanges, SizesAssumption, BootAssumption, OwnersAssumption
<1> QED
  BY <1>1, <1>2, <1>3, PTL DEF Spec, BootBlocksKept

-----------------------------------------------------------------------------
(***************************************************************************)
(* The tables implement the store.                                         *)
(***************************************************************************)

\* A block cut from free pages is disjoint from every block in use, and the
\* unused slot that takes it is the only one that changes.
LEMMA TakeRefines ==
  ASSUME TablesInv, SizesAssumption, NEW i \in Slots, NEW j \in Slots,
         NEW b \in Nat, NEW n \in Nat \ {0}, NEW t \in Owners,
         free[i].base <= b, b + n <= Last(free[i]),
         ~Live(reserved[j]),
         reserved'[j] = [base |-> b, n |-> n, task |-> t],
         \A k \in Slots \ {j} : reserved'[k] = reserved[k]
  PROVE  Store!Take
<1> DEFINE block == [base |-> b, n |-> n, task |-> t]
<1>1. /\ \A k \in Slots : free[k].base \in Nat /\ free[k].n \in Nat
      /\ \A k \in Slots : reserved[k].base \in Nat /\ reserved[k].n \in Nat
      /\ RamPages \in Nat
  BY DEF TablesInv, TablesTyped, FreeEntry, ReservedEntry, SizesAssumption
<1>2. Live(free[i]) /\ Last(free[i]) <= RamPages
  BY <1>1 DEF TablesInv, NoLeak, Live, Last
<1>3. b \in 0 .. RamPages - 1 /\ n \in 1 .. RamPages /\ b + n <= RamPages
  BY <1>1, <1>2 DEF Last
<1>4. ASSUME NEW k \in Slots, Live(reserved[k])
      PROVE  b + n <= reserved[k].base \/ reserved[k].base + reserved[k].n <= b
  <2>1. Last(free[i]) <= reserved[k].base \/ Last(reserved[k]) <= free[i].base
    BY <1>2, <1>4 DEF TablesInv, NoOverlap, Apart
  <2> QED
    BY <1>1, <2>1 DEF Last
<1>5. \A c \in LiveBlocks : Store!Disjoint(block, c)
  BY <1>4 DEF LiveBlocks, Store!Disjoint
<1>6. LiveBlocks' = LiveBlocks \cup {block}
  <2>1. Live(reserved'[j]) /\ reserved'[j] = block
    BY DEF Live
  <2>2. ASSUME NEW c \in LiveBlocks' PROVE c \in LiveBlocks \cup {block}
    BY <2>1 DEF LiveBlocks
  <2>3. ASSUME NEW c \in LiveBlocks \cup {block} PROVE c \in LiveBlocks'
    BY <2>1 DEF LiveBlocks
  <2> QED
    BY <2>2, <2>3
<1>7. t \in TaskIds \cup {Kernel, NoTask}
  BY DEF Owners
<1> QED
  BY <1>3, <1>5, <1>6, <1>7 DEF Store!Take

\* Releasing a live slot removes its block and no other one.
LEMMA FreeRefines ==
  ASSUME TablesInv, NEW r \in Slots \ BootBlocks, FreeIndex(r)
  PROVE  Store!Release \/ UNCHANGED LiveBlocks
<1>1. /\ reserved'[r].n = 0
      /\ \A k \in Slots \ {r} : reserved'[k] = reserved[k]
  BY FreeIndexReserved DEF TablesInv
<1>2. CASE ~Live(reserved[r])
  BY <1>1, <1>2 DEF LiveBlocks, Live
<1>3. CASE Live(reserved[r])
  <2>1. \A k \in Slots \ {r} : Live(reserved[k]) => reserved[k] # reserved[r]
    <3>1. /\ \A k \in Slots : reserved[k].base \in Nat /\ reserved[k].n \in Nat
      BY DEF TablesInv, TablesTyped, ReservedEntry
    <3> QED
      BY <1>3, <3>1 DEF TablesInv, NoOverlap, Apart, Live, Last
  <2>2. reserved[r] \in LiveBlocks
    BY <1>3 DEF LiveBlocks
  <2>3. LiveBlocks' = LiveBlocks \ {reserved[r]}
    <3>1. ASSUME NEW c \in LiveBlocks' PROVE c \in LiveBlocks \ {reserved[r]}
      BY <1>1, <2>1 DEF LiveBlocks, Live
    <3>2. ASSUME NEW c \in LiveBlocks \ {reserved[r]} PROVE c \in LiveBlocks'
      BY <1>1 DEF LiveBlocks, Live
    <3> QED
      BY <3>1, <3>2
  <2>4. reserved[r].task \in TaskIds
    BY <1>3 DEF BootBlocks, TablesInv, TablesTyped, ReservedEntry, Owners
  <2> QED
    BY <2>2, <2>3, <2>4 DEF Store!Release
<1> QED
  BY <1>2, <1>3

\* The page allocator implements the abstract store of disjoint blocks.
THEOREM RgnImplementsStore == Spec => ImplementsStore
<1>1. Init => SweepIInv
  BY SweepInduction, SizesAssumption, BootAssumption
<1>2. SweepIInv /\ [Next]_vars => SweepIInv'
  BY SweepInduction, SizesAssumption, BootAssumption
<1>3. Init => Store!StoreInit
  <2> SUFFICES ASSUME Init PROVE LiveBlocks = {}
    BY DEF Store!StoreInit
  <2>1. \A i \in Slots : ~Live(reserved[i])
    BY DEF Init, Live
  <2> QED
    BY <2>1 DEF LiveBlocks
<1>4. SweepIInv /\ [Next]_vars => [Store!StoreNext]_LiveBlocks
  <2> SUFFICES ASSUME SweepIInv, [Next]_vars
               PROVE  Store!StoreNext \/ UNCHANGED LiveBlocks
    OBVIOUS
  <2>0. TablesInv /\ TablesTyped
    BY DEF SweepIInv, TablesIInv, TablesInv
  <2>1. CASE UNCHANGED <<free, reserved>>
    BY <2>1 DEF LiveBlocks, Live
  <2>2. CASE \E t \in Owners, n \in Nat \ {0} : TakeFront(t, n)
    <3>1. PICK t \in Owners, n \in Nat \ {0}, i \in Slots, j \in Slots :
            /\ free[i].n >= n
            /\ ~Live(reserved[j])
            /\ reserved' = [reserved EXCEPT ![j] = [base |-> free[i].base, n |-> n, task |-> t]]
      BY <2>2 DEF TakeFront, IsFirst, Fitting, EmptyReserved
    <3>2. free[i].base \in Nat /\ free[i].n \in Nat
      BY <2>0 DEF TablesTyped, FreeEntry
    <3>3. free[i].base <= free[i].base /\ free[i].base + n <= Last(free[i])
      BY <3>1, <3>2 DEF Last
    <3>4. /\ reserved'[j] = [base |-> free[i].base, n |-> n, task |-> t]
          /\ \A k \in Slots \ {j} : reserved'[k] = reserved[k]
      BY <2>0, <3>1 DEF TablesTyped
    <3>5. Store!Take
      BY <2>0, <3>1, <3>2, <3>3, <3>4, TakeRefines, SizesAssumption
    <3> QED
      BY <3>5 DEF Store!StoreNext
  <2>3. CASE \E b \in Nat, n \in Nat \ {0} : TakeAt(b, n)
    <3>0. PICK b \in Nat, n \in Nat \ {0} : TakeAt(b, n)
      BY <2>3
    <3>1. PICK i \in Slots, j \in Slots :
            /\ free[i].base <= b
            /\ b + n = Last(free[i]) \/ b + n < Last(free[i])
            /\ ~Live(reserved[j])
            /\ reserved' = [reserved EXCEPT ![j].base = b, ![j].n = n]
      BY <3>0 DEF TakeAt, IsFirst, Holding, Covers, EmptyReserved
    <3>2. free[i].base \in Nat /\ free[i].n \in Nat /\ reserved[j].task \in Owners
      BY <2>0 DEF TablesTyped, FreeEntry, ReservedEntry
    <3>3. b + n <= Last(free[i])
      BY <3>1, <3>2 DEF Last
    <3>4. /\ reserved'[j] = [base |-> b, n |-> n, task |-> reserved[j].task]
          /\ \A k \in Slots \ {j} : reserved'[k] = reserved[k]
      BY <2>0, <3>1 DEF TablesTyped, ReservedEntry
    <3>5. Store!Take
      BY <2>0, <3>1, <3>2, <3>3, <3>4, TakeRefines, SizesAssumption
    <3> QED
      BY <3>5 DEF Store!StoreNext
  <2>4. CASE \E r \in Slots \ BootBlocks : FreeIndex(r)
    BY <2>0, <2>4, FreeRefines DEF Store!StoreNext
  <2> QED
    BY <2>1, <2>2, <2>3, <2>4, NextChanges, SizesAssumption, BootAssumption, OwnersAssumption
<1> QED
  BY <1>1, <1>2, <1>3, <1>4, PTL DEF Spec, ImplementsStore, Store!StoreSpec

-----------------------------------------------------------------------------
(***************************************************************************)
(* A release always finds a free slot.  Were the free table full, with no  *)
(* free block before the released one, the block before it would be a      *)
(* reserved slot q.  Map every free slot to the reserved slot that ends    *)
(* where it begins (there is one, since page 0 is reserved and two free    *)
(* blocks are never adjacent).  The map misses q, so two of the MaxNofAls  *)
(* free blocks share one of the MaxNofAls - 1 others and begin at the same *)
(* page.                                                                   *)
(***************************************************************************)
\* When the free table is full, a reserved block ends where a free block begins.
LEMMA ReservedBefore ==
  ASSUME TablesInv, NullPageReserved, SizesAssumption, NEW f \in Slots, Live(free[f])
  PROVE  \E k \in Slots : Live(reserved[k]) /\ Last(reserved[k]) = free[f].base
<1>1. /\ \A k \in Slots : free[k].base \in Nat /\ free[k].n \in Nat
      /\ \A k \in Slots : reserved[k].base \in Nat /\ reserved[k].n \in Nat
      /\ RamPages \in Nat
  BY DEF TablesInv, TablesTyped, FreeEntry, ReservedEntry, SizesAssumption
<1> DEFINE p == free[f].base - 1
<1>2. free[f].base # 0
  <2>1. PICK z \in Slots : reserved[z].base = 0 /\ Live(reserved[z])
    BY DEF NullPageReserved
  <2>2. Last(free[f]) <= reserved[z].base \/ Last(reserved[z]) <= free[f].base
    BY <2>1 DEF TablesInv, NoOverlap, Apart
  <2> QED
    BY <1>1, <2>1, <2>2 DEF Live, Last
<1>3. p \in Pages
  <2>1. Last(free[f]) <= RamPages
    BY DEF TablesInv, NoLeak
  <2> QED
    BY <1>1, <1>2, <2>1 DEF Pages, Last, Live
<1>4. ASSUME NEW i \in Slots, Covers(free[i], p)
      PROVE  FALSE
  <2>1. Live(free[i]) /\ Last(free[i]) >= free[f].base /\ free[i].base < free[f].base
    BY <1>1, <1>2, <1>4 DEF Covers, Live, Last
  <2>2. Last(free[i]) # free[f].base
    BY <2>1 DEF TablesInv, Coalesced
  <2>3. i # f
    BY <1>1, <2>1
  <2>4. Last(free[i]) <= free[f].base \/ Last(free[f]) <= free[i].base
    BY <2>1, <2>3 DEF TablesInv, NoOverlap, Apart
  <2> QED
    BY <1>1, <2>1, <2>2, <2>4 DEF Last, Live
<1>5. PICK k \in Slots : Covers(reserved[k], p)
  BY <1>3, <1>4 DEF TablesInv, NoLeak
<1>6. Live(reserved[k]) /\ Last(reserved[k]) >= free[f].base /\ reserved[k].base < free[f].base
  BY <1>1, <1>2, <1>5 DEF Covers, Live, Last
<1>7. Last(free[f]) <= reserved[k].base \/ Last(reserved[k]) <= free[f].base
  BY <1>6 DEF TablesInv, NoOverlap, Apart
<1>8. Last(reserved[k]) = free[f].base
  BY <1>1, <1>6, <1>7 DEF Last, Live
<1> QED
  BY <1>6, <1>8

\* rgn_free finds a slot in the free table for what it releases.
LEMMA ReleaseHasSlot == SizesAssumption /\ TablesInv => FreeNeverFails
<1> SUFFICES ASSUME SizesAssumption, TablesInv, NullPageReserved, NEW r \in Slots,
                    Live(reserved[r]), reserved[r].base # 0, Landing(reserved[r].base) = {}
             PROVE  FALSE
  BY DEF FreeNeverFails
<1> DEFINE b == reserved[r].base
<1>1. /\ \A k \in Slots : free[k].base \in Nat /\ free[k].n \in Nat
      /\ \A k \in Slots : reserved[k].base \in Nat /\ reserved[k].n \in Nat
      /\ RamPages \in Nat
  BY DEF TablesInv, TablesTyped, FreeEntry, ReservedEntry, SizesAssumption
<1>2. /\ \A k \in Slots : Live(free[k])
      /\ \A k \in Slots : Last(free[k]) # b
  BY DEF Landing, FreeBefore, EmptyFree
<1>3. PICK q \in Slots : Live(reserved[q]) /\ Last(reserved[q]) = b
  <2>1. Last(reserved[r]) <= RamPages
    BY DEF TablesInv, NoLeak
  <2>2. b - 1 \in Pages
    BY <1>1, <2>1 DEF Pages, Last, Live
  <2>3. ASSUME NEW i \in Slots, Covers(free[i], b - 1) PROVE FALSE
    <3>1. Last(free[i]) <= b \/ Last(reserved[r]) <= free[i].base
      BY <1>2 DEF TablesInv, NoOverlap, Apart
    <3>2. Last(free[i]) # b
      BY <1>2
    <3> QED
      BY <1>1, <2>3, <3>1, <3>2 DEF Covers, Last, Live
  <2>4. PICK q \in Slots : Covers(reserved[q], b - 1)
    BY <2>2, <2>3 DEF TablesInv, NoLeak
  <2>5. Live(reserved[q]) /\ q # r
    BY <1>1, <2>4 DEF Covers, Last, Live
  <2>6. Last(reserved[q]) <= b \/ Last(reserved[r]) <= reserved[q].base
    BY <2>5 DEF TablesInv, NoOverlap, Apart
  <2>7. Last(reserved[q]) = b
    BY <1>1, <2>4, <2>6 DEF Covers, Last, Live
  <2> QED
    BY <2>5, <2>7
<1>4. \A f \in Slots : free[f].base # b
  <2>1. \A f \in Slots : Last(free[f]) <= b \/ Last(reserved[r]) <= free[f].base
    BY <1>2 DEF TablesInv, NoOverlap, Apart
  <2> QED
    BY <1>1, <1>2, <2>1 DEF Last, Live
<1> DEFINE Ends(f) == {k \in Slots : Live(reserved[k]) /\ Last(reserved[k]) = free[f].base}
           before == [f \in Slots |-> CHOOSE k \in Slots : k \in Ends(f)]
<1>5. \A f \in Slots : before[f] \in Ends(f)
  BY <1>2, ReservedBefore
<1>6. before \in [Slots -> Slots \ {q}]
  BY <1>3, <1>4, <1>5
<1>7. /\ IsFiniteSet(Slots) /\ IsFiniteSet(Slots \ {q})
      /\ Cardinality(Slots \ {q}) < Cardinality(Slots)
  <2>1. IsFiniteSet(Slots)
    BY FS_Interval DEF Slots, SizesAssumption
  <2>2. Cardinality(Slots) \in Nat
    BY <2>1, FS_CardinalityType
  <2>3. /\ IsFiniteSet(Slots \ {q})
        /\ Cardinality(Slots \ {q}) = Cardinality(Slots) - 1
    BY <2>1, FS_RemoveElement, Zenon
  <2> QED
    BY <2>1, <2>2, <2>3
<1>8. PICK x \in Slots, y \in Slots : x # y /\ before[x] = before[y]
  <2> HIDE DEF before
  <2> QED
    BY <1>6, <1>7, FS_PigeonHole
<1>9. free[x].base = free[y].base
  BY <1>5, <1>8
<1>10. Last(free[x]) <= free[y].base \/ Last(free[y]) <= free[x].base
  BY <1>2, <1>8 DEF TablesInv, NoOverlap, Apart
<1> QED
  BY <1>1, <1>2, <1>9, <1>10 DEF Last, Live

\* Killing a task never panics for want of a slot in the free table.
THEOREM ReleaseNeverFails == Spec => []FreeNeverFails
<1>1. Init => TablesIInv
  BY TablesInduction, SizesAssumption, BootAssumption
<1>2. TablesIInv /\ [Next]_vars => TablesIInv'
  BY TablesInduction, SizesAssumption, BootAssumption
<1>3. TablesIInv => FreeNeverFails
  BY ReleaseHasSlot, SizesAssumption DEF TablesIInv
<1> QED
  BY <1>1, <1>2, <1>3, PTL DEF Spec
=============================================================================
