--------------------------- MODULE HandlesProofs ---------------------------
(***************************************************************************)
(* Proofs about Handles, for any number of nodes, terminals and tasks.     *)
(*                                                                         *)
(* That next and prev are inverse to each other does not say that the list *)
(* is one: a ring beside it would do as well, and when the first node is   *)
(* also the last one nothing would tell that the list gets empty.  What    *)
(* closes the induction is the order of the ids: a new one is larger than  *)
(* all in the list and goes to its end, so the list is sorted (Sorted).    *)
(***************************************************************************)
EXTENDS Handles, TLAPS

USE HandlesAssumption DEF Null

-----------------------------------------------------------------------------
\* The ids increase along the list, and none is left out of it.
Sorted ==
  /\ head # Null => head \in used /\ \A m \in used : id[head] <= id[m]
  /\ tail # Null => tail \in used /\ \A m \in used : id[m] <= id[tail]
  /\ \A n \in used : next[n] # Null =>
       /\ id[n] < id[next[n]]
       /\ \A m \in used : id[m] <= id[n] \/ id[next[n]] <= id[m]

ListTyped == /\ used \in SUBSET Nodes
             /\ head \in Nodes \cup {Null} /\ tail \in Nodes \cup {Null}
             /\ next \in [Nodes -> Nodes \cup {Null}]
             /\ prev \in [Nodes -> Nodes \cup {Null}]
             /\ id \in [Nodes -> 0 .. MaxId]

ListInv == ListTyped /\ Linked /\ IdsDiffer /\ Sorted

\* NULL is the address of no node.
LEMMA NullIsNoNode == /\ 0 \notin Nodes
                      /\ \A i \in 0 .. MaxId : i \in Int
                      /\ \A n \in Nodes : n \in Int
BY DEF Nodes

\* ll_push_back with an id larger than all others.
LEMMA PushBackInv ==
  ASSUME ListInv, NEW n \in Nodes, NEW i \in 1 .. MaxId,
         PushBack(n), \A m \in used : id[m] < i, id' = [id EXCEPT ![n] = i]
  PROVE  ListInv'
<1> USE NullIsNoNode
<1>1. n \notin used /\ used' = used \cup {n} /\ tail' = n
  BY DEF PushBack, IsFirst
<1>2. ListTyped'
  <2>1. id' \in [Nodes -> 0 .. MaxId]
    BY DEF ListInv, ListTyped
  <2>2. CASE tail # Null
    BY <2>1, <2>2 DEF PushBack, IsFirst, ListInv, ListTyped
  <2>3. CASE tail = Null
    BY <2>1, <2>3 DEF PushBack, IsFirst, ListInv, ListTyped
  <2>4. QED
    BY <2>2, <2>3
<1>3. /\ id'[n] = i
      /\ \A m \in used : id'[m] = id[m] /\ id[m] < i
  BY <1>1 DEF ListInv, ListTyped
<1>4. IdsDiffer'
  BY <1>1, <1>3 DEF ListInv, ListTyped, IdsDiffer
<1>5. CASE tail # Null
  <2>1. /\ tail \in used /\ head' = head /\ head \in used
        /\ next' = [next EXCEPT ![tail] = n, ![n] = Null]
        /\ prev' = [prev EXCEPT ![n] = tail]
    BY <1>5 DEF PushBack, ListInv, Linked, Sorted
  <2>2. /\ next'[n] = Null /\ next'[tail] = n /\ prev'[n] = tail
        /\ \A m \in used : m # tail => next'[m] = next[m]
        /\ \A m \in used : prev'[m] = prev[m]
    BY <1>1, <2>1 DEF ListInv, ListTyped
  <2>3. next[tail] = Null
    BY <2>1 DEF ListInv, Linked
  <2>4. Linked'
    <3>1. head' # Null /\ tail' # Null /\ used' # {}
      BY <1>1, <2>1 DEF ListInv, ListTyped
    <3>2. ASSUME NEW m \in used'
          PROVE  /\ (m = head') = (prev'[m] = Null)
                 /\ (m = tail') = (next'[m] = Null)
                 /\ next'[m] # Null => next'[m] \in used' /\ prev'[next'[m]] = m
                 /\ prev'[m] # Null => prev'[m] \in used' /\ next'[prev'[m]] = m
      <4>1. CASE m = n
        <5>1. head' # n /\ n # Null
          BY <1>1, <2>1
        <5>2. next'[tail] = n /\ tail \in used'
          BY <1>1, <2>1, <2>2
        <5>3. tail' = n /\ next'[n] = Null /\ prev'[n] = tail /\ tail # Null
          BY <1>1, <1>5, <2>2
        <5>4. QED
          BY <4>1, <5>1, <5>2, <5>3
      <4>2. CASE m = tail
        <5>1. /\ (tail = head) = (prev[tail] = Null)
              /\ prev[tail] # Null => prev[tail] \in used /\ next[prev[tail]] = tail
          BY <2>1 DEF ListInv, Linked
        <5>2. prev'[tail] = prev[tail] /\ next'[tail] = n /\ prev'[n] = tail
          BY <2>1, <2>2
        <5>3. prev[tail] # Null => prev[tail] # tail /\ next'[prev[tail]] = tail
          BY <2>2, <2>3, <5>1, <1>5
        <5>4. tail # n /\ n # Null /\ n \in used' /\ used \subseteq used'
          BY <1>1, <2>1
        <5>5. (tail = head') = (prev'[tail] = Null)
          BY <2>1, <5>1, <5>2
        <5>6. (tail = tail') = (next'[tail] = Null)
          BY <1>1, <5>2, <5>4
        <5>7. QED
          BY <4>2, <5>1, <5>2, <5>3, <5>4, <5>5, <5>6
      <4>3. CASE m # n /\ m # tail
        <5>1. m \in used /\ next'[m] = next[m] /\ prev'[m] = prev[m]
          BY <1>1, <2>2, <4>3
        <5>2. next[m] # n /\ prev[m] # n /\ prev[m] # tail
          <6>1. /\ next[m] # Null => next[m] \in used
                /\ prev[m] # Null => prev[m] \in used /\ next[prev[m]] = m
            BY <5>1 DEF ListInv, Linked
          <6>2. m # Null /\ n # Null /\ n \notin used
            BY <1>1, <5>1 DEF ListInv, ListTyped
          <6>3. QED
            BY <1>5, <2>3, <6>1, <6>2
        <5>3. /\ (m = head) = (prev[m] = Null)
              /\ (m = tail) = (next[m] = Null)
              /\ next[m] # Null => next[m] \in used /\ prev[next[m]] = m
              /\ prev[m] # Null => prev[m] \in used /\ next[prev[m]] = m
          BY <5>1 DEF ListInv, Linked
        <5>4. /\ next[m] # Null => next[m] \in used' /\ prev'[next[m]] = m
              /\ prev[m] # Null => prev[m] \in used' /\ next'[prev[m]] = m
          BY <1>1, <2>2, <5>2, <5>3
        <5>5. (m = head') = (prev'[m] = Null)
          BY <2>1, <5>1, <5>3
        <5>6. (m = tail') = (next'[m] = Null)
          BY <1>1, <4>3, <5>1, <5>3
        <5>7. QED
          BY <5>1, <5>4, <5>5, <5>6
      <4>4. QED
        BY <4>1, <4>2, <4>3
    <3>3. QED
      BY <3>1, <3>2 DEF Linked
  <2>5. Sorted'
    <3>1. \A m \in used : id'[head] <= id'[m] /\ id'[head] <= id'[n]
      BY <1>3, <2>1 DEF ListInv, ListTyped, Sorted
    <3>2. \A m \in used' : id'[m] <= id'[n]
      BY <1>1, <1>3 DEF ListInv, ListTyped
    <3>3. ASSUME NEW m \in used', next'[m] # Null
          PROVE  /\ id'[m] < id'[next'[m]]
                 /\ \A k \in used' : id'[k] <= id'[m] \/ id'[next'[m]] <= id'[k]
      <4>1. m # n
        BY <2>2, <3>3
      <4>2. CASE m = tail
        BY <1>1, <1>3, <2>1, <2>2, <4>2 DEF ListInv, ListTyped, Sorted
      <4>3. CASE m # tail
        <5>1. m \in used /\ next'[m] = next[m] /\ next[m] \in used
          BY <1>1, <2>2, <3>3, <4>1, <4>3 DEF ListInv, Linked
        <5>2. id[m] < id[next[m]]
          BY <3>3, <5>1 DEF ListInv, Sorted
        <5>3. \A k \in used : id[k] <= id[m] \/ id[next[m]] <= id[k]
          BY <3>3, <5>1 DEF ListInv, Sorted
        <5>4. id[next[m]] <= i
          BY <1>3, <5>1 DEF ListInv, ListTyped
        <5>5. QED
          BY <1>1, <1>3, <5>1, <5>2, <5>3, <5>4
      <4>4. QED
        BY <4>2, <4>3
    <3>4. QED
      BY <1>1, <2>1, <3>1, <3>2, <3>3 DEF Sorted
  <2>6. QED
    BY <1>2, <1>4, <2>4, <2>5 DEF ListInv
<1>6. CASE tail = Null
  <2>1. used = {}
    BY <1>6 DEF ListInv, Linked
  <2>2. head' = n /\ next'[n] = Null /\ prev'[n] = Null
    BY <1>6 DEF PushBack, ListInv, ListTyped
  <2>3. used' = {n}
    BY <1>1, <2>1
  <2>4. Linked'
    BY <1>1, <2>2, <2>3 DEF Linked
  <2>5. Sorted'
    <3>1. id'[n] \in Int
      BY <1>3
    <3>2. QED
      BY <1>1, <2>2, <2>3, <3>1 DEF Sorted
  <2>6. QED
    BY <1>2, <1>4, <2>4, <2>5 DEF ListInv
<1>7. QED
  BY <1>5, <1>6

\* ll_delete_node.
LEMMA UnlinkInv ==
  ASSUME ListInv, NEW n \in used, Unlink(n), UNCHANGED id
  PROVE  ListInv'
<1> USE NullIsNoNode
<1> DEFINE p == prev[n]
           q == next[n]
<1>1. /\ n \in Nodes /\ used \in SUBSET Nodes
      /\ used' = used \ {n}
      /\ head' = IF n = head THEN q ELSE head
      /\ tail' = IF n = tail THEN p ELSE tail
  BY DEF Unlink, ListInv, ListTyped
<1>2. /\ (n = head) = (p = Null) /\ (n = tail) = (q = Null)
      /\ q # Null => q \in used /\ prev[q] = n
      /\ p # Null => p \in used /\ next[p] = n
  BY DEF ListInv, Linked
<1>3. /\ q # Null => id[n] < id[q]
      /\ p # Null => id[p] < id[n]
  BY <1>1, <1>2 DEF ListInv, Sorted
<1>4. p # n /\ q # n /\ (p # Null => p \in used') /\ (q # Null => q \in used')
  BY <1>1, <1>2, <1>3 DEF ListInv, ListTyped
<1>5. \A m \in Nodes : /\ next'[m] = IF m = p THEN q ELSE next[m]
                       /\ prev'[m] = IF m = q THEN p ELSE prev[m]
  BY DEF Unlink
<1>6. ListTyped'
  <2>1. p \in Nodes \cup {Null} /\ q \in Nodes \cup {Null}
    BY <1>1 DEF ListInv, ListTyped
  <2>2. next' \in [Nodes -> Nodes \cup {Null}]
    BY <2>1 DEF Unlink, ListInv, ListTyped
  <2>3. prev' \in [Nodes -> Nodes \cup {Null}]
    BY <2>1 DEF Unlink, ListInv, ListTyped
  <2>4. QED
    BY <1>1, <2>1, <2>2, <2>3 DEF ListInv, ListTyped
<1>7. IdsDiffer'
  BY <1>1 DEF ListInv, IdsDiffer
\* Of the others none has an id between those of the neighbours.
<1>8. ASSUME NEW m \in used'
      PROVE  /\ p = Null => id[n] < id[m]
             /\ q = Null => id[m] < id[n]
             /\ p # Null => id[m] <= id[p] \/ id[n] < id[m]
             /\ q # Null => id[m] < id[n] \/ id[q] <= id[m]
  <2>1. m \in used /\ m # n /\ id[m] # id[n]
    BY <1>1 DEF ListInv, IdsDiffer
  <2>2. id[m] \in Int /\ id[n] \in Int
    BY <1>1, <2>1 DEF ListInv, ListTyped
  <2>3. p = Null => id[n] <= id[m]
    BY <1>1, <1>2, <2>1 DEF ListInv, Sorted
  <2>4. q = Null => id[m] <= id[n]
    BY <1>1, <1>2, <2>1 DEF ListInv, Sorted
  <2>5. p # Null => id[m] <= id[p] \/ id[n] <= id[m]
    BY <1>1, <1>2, <2>1 DEF ListInv, Sorted
  <2>6. q # Null => id[m] <= id[n] \/ id[q] <= id[m]
    BY <1>1, <1>2, <2>1 DEF ListInv, Sorted
  <2>7. QED
    BY <2>1, <2>2, <2>3, <2>4, <2>5, <2>6
<1>9. Linked'
  <2>1. p = Null /\ q = Null => used' = {}
    <3> SUFFICES ASSUME p = Null, q = Null, NEW m \in used' PROVE FALSE
      OBVIOUS
    <3>1. id[n] < id[m] /\ id[m] < id[n]
      BY <1>8
    <3>2. id[m] \in Int /\ id[n] \in Int
      BY <1>1 DEF ListInv, ListTyped
    <3>3. QED
      BY <3>1, <3>2
  <2>2. (head' = Null) = (used' = {}) /\ (tail' = Null) = (used' = {})
    <3>1. CASE p = Null /\ q = Null
      BY <1>1, <1>2, <2>1, <3>1
    <3>2. CASE p # Null \/ q # Null
      <4>1. used' # {}
        BY <1>4, <3>2
      <4>2. head # Null /\ tail # Null
        BY <1>1 DEF ListInv, Linked
      <4>3. head' # Null /\ tail' # Null
        BY <1>1, <1>2, <3>2, <4>2
      <4>4. QED
        BY <4>1, <4>3
    <3>3. QED
      BY <3>1, <3>2
  <2>3. ASSUME NEW m \in used'
        PROVE  /\ (m = head') = (prev'[m] = Null)
               /\ (m = tail') = (next'[m] = Null)
               /\ next'[m] # Null => next'[m] \in used' /\ prev'[next'[m]] = m
               /\ prev'[m] # Null => prev'[m] \in used' /\ next'[prev'[m]] = m
    <3>1. /\ m \in used /\ m # n /\ m \in Nodes
          /\ (m = head) = (prev[m] = Null)
          /\ (m = tail) = (next[m] = Null)
          /\ next[m] # Null => next[m] \in used /\ prev[next[m]] = m
          /\ prev[m] # Null => prev[m] \in used /\ next[prev[m]] = m
      BY <1>1 DEF ListInv, Linked
    <3>2. /\ next'[m] = IF m = p THEN q ELSE next[m]
          /\ prev'[m] = IF m = q THEN p ELSE prev[m]
      BY <1>5, <3>1
    <3>3. (m = head') = (prev'[m] = Null)
      BY <1>1, <1>2, <3>1, <3>2
    <3>4. (m = tail') = (next'[m] = Null)
      BY <1>1, <1>2, <3>1, <3>2
    <3>5. next'[m] # Null => next'[m] \in used' /\ prev'[next'[m]] = m
      <4>1. CASE m = p
        BY <1>1, <1>2, <1>4, <1>5, <3>2, <4>1
      <4>2. CASE m # p
        BY <1>1, <1>2, <1>5, <3>1, <3>2, <4>2
      <4>3. QED
        BY <4>1, <4>2
    <3>6. prev'[m] # Null => prev'[m] \in used' /\ next'[prev'[m]] = m
      <4>1. CASE m = q
        BY <1>1, <1>2, <1>4, <1>5, <3>2, <4>1
      <4>2. CASE m # q
        BY <1>1, <1>2, <1>5, <3>1, <3>2, <4>2
      <4>3. QED
        BY <4>1, <4>2
    <3>7. QED
      BY <3>3, <3>4, <3>5, <3>6
  <2>4. QED
    BY <2>2, <2>3 DEF Linked
<1>10. Sorted'
  <2>1. head' # Null => head' \in used' /\ \A m \in used' : id[head'] <= id[m]
    <3>1. CASE n = head
      <4> SUFFICES ASSUME q # Null
                   PROVE  q \in used' /\ \A m \in used' : id[q] <= id[m]
        BY <1>1, <3>1
      <4>1. \A m \in used' : id[n] < id[m] /\ (id[m] < id[n] \/ id[q] <= id[m])
        BY <1>2, <1>8, <3>1
      <4>2. QED
        BY <1>1, <1>4, <4>1 DEF ListInv, ListTyped
    <3>2. CASE n # head
      BY <1>1, <3>2 DEF ListInv, Sorted
    <3>3. QED
      BY <3>1, <3>2
  <2>2. tail' # Null => tail' \in used' /\ \A m \in used' : id[m] <= id[tail']
    <3>1. CASE n = tail
      <4> SUFFICES ASSUME p # Null
                   PROVE  p \in used' /\ \A m \in used' : id[m] <= id[p]
        BY <1>1, <3>1
      <4>1. \A m \in used' : id[m] < id[n] /\ (id[m] <= id[p] \/ id[n] < id[m])
        BY <1>2, <1>8, <3>1
      <4>2. QED
        BY <1>1, <1>4, <4>1 DEF ListInv, ListTyped
    <3>2. CASE n # tail
      BY <1>1, <3>2 DEF ListInv, Sorted
    <3>3. QED
      BY <3>1, <3>2
  <2>3. ASSUME NEW m \in used', next'[m] # Null
        PROVE  /\ id[m] < id[next'[m]]
               /\ \A k \in used' : id[k] <= id[m] \/ id[next'[m]] <= id[k]
    <3>1. CASE m = p
      <4>1. next'[m] = q /\ q # Null /\ p # Null /\ q \in used'
        BY <1>1, <1>4, <1>5, <2>3, <3>1
      <4>2. \A k \in used' : /\ id[k] <= id[p] \/ id[n] < id[k]
                             /\ id[k] < id[n] \/ id[q] <= id[k]
        BY <1>8, <4>1
      <4>3. id[p] < id[n] /\ id[n] < id[q]
        BY <1>3, <4>1
      <4>4. \A k \in used' : id[k] \in Int
        BY <1>1 DEF ListInv, ListTyped
      <4>5. id[n] \in Int
        BY <1>1 DEF ListInv, ListTyped
      <4>6. QED
        BY <3>1, <4>1, <4>2, <4>3, <4>4, <4>5
    <3>2. CASE m # p
      BY <1>1, <1>5, <2>3, <3>2 DEF ListInv, Sorted
    <3>3. QED
      BY <3>1, <3>2
  <2>4. QED
    BY <2>1, <2>2, <2>3 DEF Sorted
<1>11. QED
  BY <1>6, <1>7, <1>9, <1>10 DEF ListInv

-----------------------------------------------------------------------------
(***************************************************************************)
(* A walk follows links of nodes that were freed, or used again, under it. *)
(* Sure is a set of nodes it does not leave: on them an id that is the one *)
(* wanted is that of an open handle.                                       *)
(***************************************************************************)
Sure(t, S) == /\ at[t] \in S
              /\ used \subseteq S
              /\ \A n \in S : /\ next[n] # Null => next[n] \in S
                              /\ id[n] = want[t] => n \in used

Wanted(t) == \E n \in used : id[n] = want[t] /\ task[n] \in {t, Kernel}

Walking(t) ==
  pc[t] # "idle" =>
    /\ Wanted(t)
    /\ pc[t] = "walk" => \E S \in SUBSET Nodes : Sure(t, S)
    /\ pc[t] = "found" => at[t] \in used /\ id[at[t]] = want[t]

\* While the handles of a killed task are released its lookups are over, and none
\* of its handles is before the cursor.
Sweeping ==
  cursor # Null =>
    /\ victim \in Tasks /\ pc[victim] = "idle"
    /\ cursor \in used
    /\ \A m \in used : task[m] = victim => id[cursor] <= id[m]

HandlesInv == /\ TypeOK
              /\ ListInv
              /\ TermsHeldOnce
              /\ Sweeping
              /\ \A t \in Tasks : Walking(t)

\* A walk is not led astray by a handle that is opened, or whose open fails.
LEMMA WalkPastOpen ==
  ASSUME HandlesInv, NEW t \in Tasks, NEW n \in Nodes, NEW i \in 1 .. MaxId,
         n \notin used, \A m \in used : id[m] < i,
         used' \in {used, used \cup {n}},
         id' = [id EXCEPT ![n] = i],
         \A m \in used : task'[m] = task[m],
         next'[n] = Null,
         \A m \in Nodes \ {n} : next'[m] \in {next[m], n},
         UNCHANGED lookup
  PROVE  Walking(t)'
<1> USE NullIsNoNode DEF HandlesInv, ListInv, ListTyped
<1> SUFFICES ASSUME pc[t] # "idle"
             PROVE  /\ Wanted(t)'
                    /\ pc[t] = "walk" => \E S \in SUBSET Nodes : Sure(t, S)'
                    /\ pc[t] = "found" => at[t] \in used' /\ id'[at[t]] = want[t]
  BY DEF Walking, lookup
<1>1. PICK w \in used : id[w] = want[t] /\ task[w] \in {t, Kernel}
  BY DEF Walking, Wanted
<1>2. \A m \in used : id'[m] = id[m] /\ m \in used'
  OBVIOUS
<1>3. Wanted(t)'
  BY <1>1, <1>2 DEF Wanted, lookup
<1>4. id'[n] = i /\ want[t] < i
  BY <1>1
<1>5. ASSUME pc[t] = "walk" PROVE \E S \in SUBSET Nodes : Sure(t, S)'
  <2>1. PICK S \in SUBSET Nodes : Sure(t, S)
    BY <1>5 DEF Walking
  <2>2. at'[t] \in S \cup {n} /\ used' \subseteq S \cup {n}
    BY <2>1 DEF Sure, lookup
  <2>3. ASSUME NEW m \in S \cup {n}
        PROVE  /\ next'[m] # Null => next'[m] \in S \cup {n}
               /\ id'[m] = want'[t] => m \in used'
    <3>1. CASE m = n
      BY <1>4, <3>1 DEF lookup, TypeOK
    <3>2. CASE m # n
      BY <2>1, <3>2 DEF Sure, lookup
    <3>3. QED
      BY <3>1, <3>2
  <2>4. S \cup {n} \in SUBSET Nodes /\ Sure(t, S \cup {n})'
    BY <2>2, <2>3 DEF Sure
  <2>5. QED
    BY <2>4
<1>6. pc[t] = "found" => at[t] \in used' /\ id'[at[t]] = want[t]
  BY <1>2 DEF Walking
<1>7. QED
  BY <1>3, <1>5, <1>6

\* Nor by one that is deleted, for it is not the one wanted.
LEMMA WalkPastDrop ==
  ASSUME HandlesInv, NEW t \in Tasks, NEW n \in used,
         task[n] \in Tasks, pc[task[n]] = "idle",
         Unlink(n), UNCHANGED <<contents, lookup>>
  PROVE  Walking(t)'
<1> USE NullIsNoNode DEF HandlesInv, ListInv, ListTyped
<1> SUFFICES ASSUME pc[t] # "idle"
             PROVE  /\ Wanted(t)'
                    /\ pc[t] = "walk" => \E S \in SUBSET Nodes : Sure(t, S)'
                    /\ pc[t] = "found" => at[t] \in used' /\ id'[at[t]] = want[t]
  BY DEF Walking, lookup
<1>1. PICK w \in used : id[w] = want[t] /\ task[w] \in {t, Kernel}
  BY DEF Walking, Wanted
<1>2. w # n /\ id[n] # want[t]
  <2>1. w # n
    BY <1>1
  <2>2. QED
    BY <1>1, <2>1 DEF IdsDiffer
<1>3. used' = used \ {n} /\ id' = id /\ task' = task /\ want' = want
  BY DEF Unlink, contents, lookup
<1>4. Wanted(t)'
  BY <1>1, <1>2, <1>3 DEF Wanted
<1>5. ASSUME pc[t] = "walk" PROVE \E S \in SUBSET Nodes : Sure(t, S)'
  <2>1. PICK S \in SUBSET Nodes : Sure(t, S)
    BY <1>5 DEF Walking
  <2>2. ASSUME NEW m \in S
        PROVE  /\ next'[m] # Null => next'[m] \in S
               /\ id'[m] = want'[t] => m \in used'
    <3>1. n \in S /\ next'[m] \in {next[m], next[n]}
      BY <2>1 DEF Sure, Unlink
    <3>2. QED
      BY <1>2, <1>3, <2>1, <3>1 DEF Sure
  <2>3. at'[t] \in S /\ used' \subseteq S
    BY <1>3, <2>1 DEF Sure, lookup
  <2>4. QED
    BY <2>2, <2>3 DEF Sure
<1>6. pc[t] = "found" => at[t] \in used' /\ id'[at[t]] = want[t]
  BY <1>2, <1>3 DEF Walking
<1>7. QED
  BY <1>4, <1>5, <1>6

\* The driver's close and handle_remove_id keep terminals and handles in step.
LEMMA DropInv ==
  ASSUME HandlesInv, NEW n \in used, Drop(n), UNCHANGED contents
  PROVE  ListInv' /\ TermsHeldOnce' /\ busy' \in SUBSET Terms
<1>1. ListInv'
  BY UnlinkInv DEF HandlesInv, Drop, contents
<1>2. used' = used \ {n} /\ busy' = busy \ {term[n]} /\ term' = term
  BY DEF Drop, Unlink, contents
<1>3. QED
  BY <1>1, <1>2 DEF HandlesInv, TermsHeldOnce, TypeOK

-----------------------------------------------------------------------------
(***************************************************************************)
(* The steps.                                                              *)
(***************************************************************************)
\* The invariant holds at start.
LEMMA HandlesStart == Init => HandlesInv
<1> SUFFICES ASSUME Init PROVE HandlesInv
  OBVIOUS
<1>1. 1 \in Nodes /\ 1 \in Terms /\ 0 \notin Nodes
  BY DEF Nodes, Terms
<1>2. TypeOK
  BY <1>1 DEF Init, TypeOK, Owners
<1>3. ListInv
  <2>1. ListTyped
    BY <1>2 DEF TypeOK, ListTyped
  <2>2. Linked
    BY <1>1 DEF Init, Linked
  <2>3. IdsDiffer
    BY DEF Init, IdsDiffer
  <2>4. Sorted
    BY <1>1 DEF Init, Sorted
  <2>5. QED
    BY <2>1, <2>2, <2>3, <2>4 DEF ListInv
<1>4. TermsHeldOnce
  BY <1>1 DEF Init, TermsHeldOnce
<1>5. Sweeping /\ \A t \in Tasks : Walking(t)
  BY DEF Init, Sweeping, Walking
<1>6. QED
  BY <1>2, <1>3, <1>4, <1>5 DEF HandlesInv

\* handle_open.
LEMMA OpenStep ==
  ASSUME HandlesInv, NEW t \in Tasks, Open(t)
  PROVE  HandlesInv'
<1> USE NullIsNoNode
<1>1. PICK n \in Nodes, i \in 1 .. MaxId, k \in Terms :
        /\ PushBack(n)
        /\ IsNewId(i, n)
        /\ IsFirst(k, FreeTerms)
        /\ id' = [id EXCEPT ![n] = i]
        /\ task' = [task EXCEPT ![n] = t]
        /\ term' = [term EXCEPT ![n] = k]
        /\ busy' = busy \cup {k}
  BY DEF Open
<1>2. /\ UNCHANGED <<victim, cursor, want, at, pc>>
      /\ cursor = Null
      /\ n \notin used /\ used' = used \cup {n}
      /\ \A m \in used : id[m] < i
  BY <1>1 DEF Open, Runs, Quiet, sweep, lookup, PushBack, IsFirst, IsNewId
<1>3. ListInv'
  BY <1>1, <1>2, PushBackInv DEF HandlesInv
<1>4. TypeOK'
  <2>1. /\ used' \in SUBSET Nodes
        /\ head' \in Nodes \cup {Null} /\ tail' \in Nodes \cup {Null}
        /\ next' \in [Nodes -> Nodes \cup {Null}]
        /\ prev' \in [Nodes -> Nodes \cup {Null}]
        /\ id' \in [Nodes -> 0 .. MaxId]
    BY <1>3 DEF ListInv, ListTyped
  <2>2. task' \in [Nodes -> Owners] /\ term' \in [Nodes -> Terms]
    BY <1>1 DEF HandlesInv, TypeOK, Owners
  <2>3. busy' \in SUBSET Terms
    BY <1>1 DEF HandlesInv, TypeOK
  <2>4. QED
    BY <1>2, <2>1, <2>2, <2>3 DEF HandlesInv, TypeOK
<1>5. TermsHeldOnce'
  <2>1. term'[n] = k /\ \A m \in used : term'[m] = term[m]
    BY <1>1, <1>2 DEF HandlesInv, TypeOK
  <2>2. \A m \in used : term[m] # k
    BY <1>1 DEF IsFirst, FreeTerms, HandlesInv, TermsHeldOnce
  <2>3. QED
    BY <1>1, <1>2, <2>1, <2>2 DEF HandlesInv, TermsHeldOnce
<1>6. ASSUME NEW u \in Tasks PROVE Walking(u)'
  <2>1. next'[n] = Null /\ \A m \in Nodes \ {n} : next'[m] \in {next[m], n}
    BY <1>1 DEF PushBack, HandlesInv, TypeOK
  <2>2. \A m \in used : task'[m] = task[m]
    BY <1>1, <1>2 DEF HandlesInv, TypeOK
  <2>3. UNCHANGED lookup
    BY DEF Open
  <2>4. QED
    BY <1>1, <1>2, <2>1, <2>2, <2>3, WalkPastOpen
<1>7. QED
  BY <1>2, <1>3, <1>4, <1>5, <1>6 DEF HandlesInv, Sweeping

\* handle_open, when the driver refuses.
LEMMA OpenFailsStep ==
  ASSUME HandlesInv, NEW t \in Tasks, OpenFails(t)
  PROVE  HandlesInv'
<1> USE NullIsNoNode
<1>1. PICK n \in Nodes, i \in 1 .. MaxId :
        /\ IsFirst(n, Nodes \ used)
        /\ IsNewId(i, n)
        /\ id' = [id EXCEPT ![n] = i]
        /\ task' = [task EXCEPT ![n] = t]
        /\ next' = [next EXCEPT ![n] = Null]
        /\ prev' = [prev EXCEPT ![n] = tail]
  BY DEF OpenFails
<1>2. /\ UNCHANGED <<used, head, tail, term, busy, victim, cursor, want, at, pc>>
      /\ cursor = Null
      /\ n \notin used
      /\ \A m \in used : id[m] < i
  BY <1>1 DEF OpenFails, Runs, Quiet, sweep, lookup, IsFirst, IsNewId
<1>3. TypeOK'
  <2>1. tail \in Nodes \cup {Null} /\ t \in Owners
    BY DEF HandlesInv, TypeOK, Owners
  <2>2. QED
    BY <1>1, <1>2, <2>1 DEF HandlesInv, TypeOK
<1>4. \A m \in used : /\ id'[m] = id[m] /\ next'[m] = next[m]
                      /\ prev'[m] = prev[m] /\ task'[m] = task[m]
  BY <1>1, <1>2 DEF HandlesInv, TypeOK
<1>5. ListInv'
  <2>1. ListTyped'
    BY <1>3 DEF TypeOK, ListTyped
  <2>2. Linked'
    <3>1. ASSUME NEW m \in used
          PROVE  /\ (m = head) = (prev'[m] = Null)
                 /\ (m = tail) = (next'[m] = Null)
                 /\ next'[m] # Null => next'[m] \in used /\ prev'[next'[m]] = m
                 /\ prev'[m] # Null => prev'[m] \in used /\ next'[prev'[m]] = m
      <4>1. /\ (m = head) = (prev[m] = Null)
            /\ (m = tail) = (next[m] = Null)
            /\ next[m] # Null => next[m] \in used /\ prev[next[m]] = m
            /\ prev[m] # Null => prev[m] \in used /\ next[prev[m]] = m
        BY DEF HandlesInv, ListInv, Linked
      <4>2. QED
        BY <1>4, <4>1
    <3>2. (head = Null) = (used = {}) /\ (tail = Null) = (used = {})
      BY DEF HandlesInv, ListInv, Linked
    <3>3. QED
      BY <1>2, <3>1, <3>2 DEF Linked
  <2>3. IdsDiffer'
    BY <1>2, <1>4 DEF HandlesInv, ListInv, IdsDiffer
  <2>4. Sorted'
    <3>1. \A m \in used : next[m] # Null => next[m] \in used
      BY DEF HandlesInv, ListInv, Linked
    <3>2. QED
      BY <1>2, <1>4, <3>1 DEF HandlesInv, ListInv, Sorted
  <2>5. QED
    BY <2>1, <2>2, <2>3, <2>4 DEF ListInv
<1>6. TermsHeldOnce'
  BY <1>2 DEF HandlesInv, TermsHeldOnce
<1>7. ASSUME NEW u \in Tasks PROVE Walking(u)'
  <2>1. next'[n] = Null /\ \A m \in Nodes \ {n} : next'[m] = next[m]
    BY <1>1 DEF HandlesInv, TypeOK
  <2>2. UNCHANGED lookup
    BY DEF OpenFails
  <2>3. QED
    BY <1>1, <1>2, <1>4, <2>1, <2>2, WalkPastOpen
<1>8. QED
  BY <1>2, <1>3, <1>5, <1>6, <1>7 DEF HandlesInv, Sweeping

\* handle_close.
LEMMA CloseStep ==
  ASSUME HandlesInv, NEW t \in Tasks, Close(t)
  PROVE  HandlesInv'
<1> USE NullIsNoNode
<1>1. PICK n \in used : task[n] = t /\ Drop(n)
  BY DEF Close
<1>2. UNCHANGED <<id, task, term, victim, cursor, want, at, pc>>
  BY DEF Close, contents, sweep, lookup
<1>3. cursor = Null /\ pc[t] = "idle"
  BY DEF Close, Runs, Quiet
<1>4. ListInv' /\ TermsHeldOnce' /\ busy' \in SUBSET Terms
  BY <1>1, DropInv DEF Close
<1>5. TypeOK'
  BY <1>2, <1>4 DEF HandlesInv, TypeOK, ListInv, ListTyped
<1>6. ASSUME NEW u \in Tasks PROVE Walking(u)'
  BY <1>1, <1>3, WalkPastDrop DEF Close, Drop
<1>7. QED
  BY <1>2, <1>3, <1>4, <1>5, <1>6 DEF HandlesInv, Sweeping

\* The end of a task, before the sweep.
LEMMA KillStep ==
  ASSUME HandlesInv, NEW t \in Tasks, Kill(t)
  PROVE  HandlesInv'
<1> USE NullIsNoNode
<1>1. /\ UNCHANGED <<used, head, tail, next, prev, id, task, term, busy, want, at>>
      /\ victim' = t /\ cursor' = head /\ pc' = [pc EXCEPT ![t] = "idle"]
  BY DEF Kill, list, contents
<1>2. TypeOK'
  BY <1>1 DEF HandlesInv, TypeOK, Owners
<1>3. ListInv' /\ TermsHeldOnce'
  BY <1>1 DEF HandlesInv, ListInv, ListTyped, Linked, IdsDiffer, Sorted,
              TermsHeldOnce
<1>4. Sweeping'
  <2>1. head # Null => head \in used /\ \A m \in used : id[head] <= id[m]
    BY DEF HandlesInv, ListInv, Sorted
  <2>2. pc'[t] = "idle"
    BY <1>1 DEF HandlesInv, TypeOK
  <2>3. QED
    BY <1>1, <2>1, <2>2 DEF Sweeping
<1>5. ASSUME NEW u \in Tasks PROVE Walking(u)'
  <2>1. pc'[u] = "idle" \/ pc'[u] = pc[u]
    BY <1>1 DEF HandlesInv, TypeOK
  <2>2. QED
    BY <1>1, <2>1 DEF HandlesInv, Walking, Wanted, Sure
<1>6. QED
  BY <1>2, <1>3, <1>4, <1>5 DEF HandlesInv

\* A step of the loop, and what it leaves behind when it was the last one.
LEMMA SweepStep ==
  ASSUME HandlesInv, SweepNode
  PROVE  /\ HandlesInv'
         /\ cursor' = Null => \A n \in used' : task[n] # victim
<1> USE NullIsNoNode
<1>1. /\ cursor \in used /\ cursor \in Nodes
      /\ victim \in Tasks /\ pc[victim] = "idle"
      /\ \A m \in used : task[m] = victim => id[cursor] <= id[m]
  BY DEF SweepNode, HandlesInv, Sweeping, TypeOK
<1>2. /\ UNCHANGED <<id, task, term, victim, want, at, pc>>
      /\ cursor' = next[cursor]
  BY DEF SweepNode, contents, lookup
<1>3. /\ next[cursor] # Null =>
           /\ next[cursor] \in used /\ next[cursor] # cursor
           /\ \A m \in used : id[m] <= id[cursor] \/ id[next[cursor]] <= id[m]
      /\ next[cursor] = Null => \A m \in used : id[m] <= id[cursor]
  BY <1>1 DEF HandlesInv, ListInv, Linked, Sorted, ListTyped
<1>4. \A m \in used : m # cursor => id[m] # id[cursor]
  BY <1>1 DEF HandlesInv, ListInv, IdsDiffer
\* The handles of the victim that are left are behind the node just passed.
<1>5. ASSUME NEW m \in used, task[m] = victim, m # cursor
      PROVE  next[cursor] # Null /\ id[next[cursor]] <= id[m]
  <2>1. id[m] \in Int /\ id[cursor] \in Int
    BY <1>1 DEF HandlesInv, ListInv, ListTyped
  <2>2. id[cursor] < id[m]
    BY <1>1, <1>4, <1>5, <2>1
  <2>3. QED
    BY <1>3, <2>1, <2>2
<1>6. CASE task[cursor] = victim
  <2>1. Drop(cursor)
    BY <1>6 DEF SweepNode
  <2>2. ListInv' /\ TermsHeldOnce' /\ busy' \in SUBSET Terms
    BY <1>1, <2>1, DropInv DEF SweepNode
  <2>3. used' = used \ {cursor}
    BY <2>1 DEF Drop, Unlink
  <2>4. TypeOK'
    BY <1>1, <1>2, <2>2 DEF HandlesInv, TypeOK, ListInv, ListTyped
  <2>5. Sweeping'
    BY <1>1, <1>2, <1>3, <1>5, <2>3 DEF Sweeping
  <2>6. ASSUME NEW u \in Tasks PROVE Walking(u)'
    BY <1>1, <1>6, <2>1, WalkPastDrop DEF SweepNode, Drop
  <2>7. cursor' = Null => \A n \in used' : task[n] # victim
    BY <1>2, <1>5, <2>3
  <2>8. QED
    BY <2>2, <2>4, <2>5, <2>6, <2>7 DEF HandlesInv
<1>7. CASE task[cursor] # victim
  <2>1. UNCHANGED <<used, head, tail, next, prev, busy>>
    BY <1>7 DEF SweepNode, list
  <2>2. TypeOK'
    BY <1>1, <1>2, <2>1 DEF HandlesInv, TypeOK
  <2>3. ListInv' /\ TermsHeldOnce'
    BY <1>2, <2>1 DEF HandlesInv, ListInv, ListTyped, Linked, IdsDiffer, Sorted,
                      TermsHeldOnce
  <2>4. Sweeping'
    BY <1>1, <1>2, <1>3, <1>5, <1>7, <2>1 DEF Sweeping
  <2>5. ASSUME NEW u \in Tasks PROVE Walking(u)'
    BY <1>2, <2>1 DEF HandlesInv, Walking, Wanted, Sure
  <2>6. cursor' = Null => \A n \in used' : task[n] # victim
    BY <1>2, <1>5, <1>7, <2>1
  <2>7. QED
    BY <2>2, <2>3, <2>4, <2>5, <2>6 DEF HandlesInv
<1>8. QED
  BY <1>6, <1>7

\* The steps of a lookup change nothing but the task's own place.
LEMMA LookupStep ==
  ASSUME HandlesInv, NEW t \in Tasks, Begin(t) \/ WalkNode(t) \/ Return(t)
  PROVE  HandlesInv'
<1> USE NullIsNoNode
<1>1. /\ UNCHANGED <<used, head, tail, next, prev, id, task, term, busy, victim, cursor>>
      /\ cursor = Null
  BY DEF Begin, WalkNode, Return, Runs, Quiet, list, contents, sweep
<1>2. ListInv' /\ TermsHeldOnce' /\ Sweeping'
  BY <1>1 DEF HandlesInv, ListInv, ListTyped, Linked, IdsDiffer, Sorted,
              TermsHeldOnce, Sweeping
<1>3. ASSUME NEW u \in Tasks \ {t},
             want'[u] = want[u], at'[u] = at[u], pc'[u] = pc[u]
      PROVE  Walking(u)'
  BY <1>1, <1>3 DEF HandlesInv, Walking, Wanted, Sure
<1>4. CASE Begin(t)
  <2>1. PICK n \in used : /\ task[n] \in {t, Kernel}
                          /\ want' = [want EXCEPT ![t] = id[n]]
    BY <1>4 DEF Begin
  <2>2. at' = [at EXCEPT ![t] = head] /\ pc' = [pc EXCEPT ![t] = "walk"]
    BY <1>4 DEF Begin
  <2>3. head \in used
    BY DEF HandlesInv, ListInv, Linked, Sorted
  <2>4. TypeOK'
    BY <1>1, <2>1, <2>2 DEF HandlesInv, TypeOK
  <2>5. want'[t] = id[n] /\ at'[t] = head /\ pc'[t] = "walk"
    BY <2>1, <2>2 DEF HandlesInv, TypeOK
  <2>6. Sure(t, used)'
    BY <1>1, <2>3, <2>5 DEF Sure, HandlesInv, ListInv, Linked
  <2>7. Walking(t)'
    <3>1. Wanted(t)'
      BY <1>1, <2>1, <2>5 DEF Wanted
    <3>2. used' \in SUBSET Nodes
      BY <2>4 DEF TypeOK
    <3>3. \E S \in SUBSET Nodes : Sure(t, S)'
      BY <1>1, <2>6, <3>2
    <3>4. QED
      BY <2>5, <3>1, <3>3 DEF Walking
  <2>8. ASSUME NEW u \in Tasks \ {t} PROVE Walking(u)'
    BY <1>3, <2>1, <2>2 DEF HandlesInv, TypeOK
  <2>9. QED
    BY <1>2, <2>4, <2>7, <2>8 DEF HandlesInv
<1>5. CASE WalkNode(t)
  <2>1. pc[t] = "walk" /\ want' = want
    BY <1>5 DEF WalkNode
  <2>2. Wanted(t)' /\ \E S \in SUBSET Nodes : Sure(t, S)
    BY <1>1, <2>1 DEF HandlesInv, Walking, Wanted
  <2>3. PICK S \in SUBSET Nodes : Sure(t, S)
    BY <2>2
  <2>4. at[t] \in Nodes
    BY <2>3 DEF Sure
  <2>5. TypeOK'
    BY <1>1, <1>5, <2>1, <2>4 DEF WalkNode, HandlesInv, TypeOK
  <2>6. CASE id[at[t]] = want[t]
    <3>1. at' = at /\ pc'[t] = "found"
      BY <1>5, <2>6 DEF WalkNode, HandlesInv, TypeOK
    <3>2. at[t] \in used
      BY <2>3, <2>6 DEF Sure
    <3>3. QED
      BY <1>1, <1>2, <1>3, <1>5, <2>1, <2>2, <2>5, <2>6, <3>1, <3>2
         DEF HandlesInv, Walking, WalkNode, TypeOK
  <2>7. CASE id[at[t]] # want[t] /\ next[at[t]] = Null
    <3>1. pc'[t] = "none"
      BY <1>5, <2>7 DEF WalkNode, HandlesInv, TypeOK
    <3>2. Walking(t)'
      BY <2>2, <3>1 DEF Walking
    <3>3. ASSUME NEW u \in Tasks \ {t} PROVE Walking(u)'
      BY <1>3, <1>5, <2>1 DEF WalkNode, HandlesInv, TypeOK
    <3>4. QED
      BY <1>2, <2>5, <3>2, <3>3 DEF HandlesInv
  <2>8. CASE id[at[t]] # want[t] /\ next[at[t]] # Null
    <3>1. pc'[t] = "walk" /\ at'[t] = next[at[t]]
      BY <1>5, <2>8 DEF WalkNode, HandlesInv, TypeOK
    <3>2. Sure(t, S)'
      BY <1>1, <2>1, <2>3, <2>8, <3>1 DEF Sure
    <3>3. Walking(t)'
      BY <2>2, <3>1, <3>2 DEF Walking
    <3>4. ASSUME NEW u \in Tasks \ {t} PROVE Walking(u)'
      BY <1>3, <1>5, <2>1 DEF WalkNode, HandlesInv, TypeOK
    <3>5. QED
      BY <1>2, <2>5, <3>3, <3>4 DEF HandlesInv
  <2>9. QED
    BY <2>6, <2>7, <2>8
<1>6. CASE Return(t)
  <2>1. pc' = [pc EXCEPT ![t] = "idle"] /\ want' = want /\ at' = at
    BY <1>6 DEF Return
  <2>2. TypeOK'
    BY <1>1, <2>1 DEF HandlesInv, TypeOK
  <2>3. Walking(t)'
    BY <2>1 DEF Walking, HandlesInv, TypeOK
  <2>4. ASSUME NEW u \in Tasks \ {t} PROVE Walking(u)'
    BY <1>3, <2>1 DEF HandlesInv, TypeOK
  <2>5. QED
    BY <1>2, <2>2, <2>3, <2>4 DEF HandlesInv
<1>7. QED
  BY <1>4, <1>5, <1>6

\* Every step keeps the invariant.
LEMMA HandlesStep == HandlesInv /\ [Next]_vars => HandlesInv'
<1> SUFFICES ASSUME HandlesInv, [Next]_vars PROVE HandlesInv'
  OBVIOUS
<1>1. ASSUME NEW t \in Tasks, Open(t) \/ OpenFails(t) \/ Close(t) \/ Kill(t)
      PROVE  HandlesInv'
  BY <1>1, OpenStep, OpenFailsStep, CloseStep, KillStep
<1>2. ASSUME NEW t \in Tasks, Begin(t) \/ WalkNode(t) \/ Return(t)
      PROVE  HandlesInv'
  BY <1>2, LookupStep
<1>3. CASE SweepNode
  BY <1>3, SweepStep
<1>4. CASE UNCHANGED vars
  BY <1>4 DEF vars, list, contents, sweep, lookup, HandlesInv, TypeOK, ListInv,
              ListTyped, Linked, IdsDiffer, Sorted, TermsHeldOnce, Sweeping,
              Walking, Wanted, Sure
<1>5. QED
  BY <1>1, <1>2, <1>3, <1>4 DEF Next

\* The invariant holds in every reachable state.
LEMMA HandlesAlways == Spec => []HandlesInv
BY HandlesStart, HandlesStep, PTL DEF Spec

-----------------------------------------------------------------------------
(***************************************************************************)
(* The results.                                                            *)
(***************************************************************************)

\* The variables keep their types: no link leads outside of the pool.
THEOREM TypeCorrect == Spec => []TypeOK
BY HandlesAlways, PTL DEF HandlesInv

\* ll_push_back and ll_delete_node keep the list whole.
THEOREM ListLinked == Spec => []Linked
BY HandlesAlways, PTL DEF HandlesInv, ListInv

\* new_handle_id never gives an id that an open handle has, though it counts the
\* id left in the node.
THEOREM OneId == Spec => []IdsDiffer
BY HandlesAlways, PTL DEF HandlesInv, ListInv

\* Every terminal in use belongs to one open handle, and every open handle has one.
THEOREM OneTerm == Spec => []TermsHeldOnce
BY HandlesAlways, PTL DEF HandlesInv

\* What a lookup of read, write or ioctl finds is the open handle it looked for,
\* whatever happened to the list under its walk.
THEOREM Found == Spec => []FoundIsOpen
<1>1. HandlesInv => FoundIsOpen
  <2> SUFFICES ASSUME HandlesInv, NEW t \in Tasks, pc[t] = "found"
               PROVE  /\ at[t] \in used
                      /\ id[at[t]] = want[t]
                      /\ task[at[t]] \in {t, Kernel}
    BY DEF FoundIsOpen
  <2>1. at[t] \in used /\ id[at[t]] = want[t] /\ Wanted(t)
    BY DEF HandlesInv, Walking
  <2>2. PICK n \in used : id[n] = want[t] /\ task[n] \in {t, Kernel}
    BY <2>1 DEF Wanted
  <2>3. n = at[t]
    BY <2>1, <2>2 DEF HandlesInv, ListInv, IdsDiffer
  <2>4. QED
    BY <2>1, <2>2, <2>3
<1>2. QED
  BY <1>1, HandlesAlways, PTL

\* handle_close_task_handles leaves no handle of a killed task, though it deletes
\* the nodes of the list it walks.
THEOREM AllClosed == Spec => KillClosesAll
<1>1. HandlesInv /\ [Next]_vars =>
        (cursor # Null /\ cursor' = Null => \A n \in used' : task[n] # victim)
  <2> SUFFICES ASSUME HandlesInv, [Next]_vars, cursor # Null, cursor' = Null
               PROVE  \A n \in used' : task[n] # victim
    OBVIOUS
  <2>1. CASE SweepNode
    BY <2>1, SweepStep
  <2>2. CASE ~SweepNode
    <3>1. ASSUME NEW t \in Tasks
          PROVE  ~(\/ Open(t) \/ OpenFails(t) \/ Close(t) \/ Kill(t)
                   \/ Begin(t) \/ WalkNode(t) \/ Return(t))
      BY DEF Open, OpenFails, Close, Kill, Begin, WalkNode, Return, Runs, Quiet
    <3>2. cursor' = cursor
      BY <2>2, <3>1 DEF Next, vars, sweep
    <3>3. QED
      BY <3>2
  <2>3. QED
    BY <2>1, <2>2
<1>2. QED
  BY <1>1, HandlesAlways, PTL DEF Spec, KillClosesAll
-----------------------------------------------------------------------------
\* The kernel's handle is the first in the list, for good, and the only one of the
\* kernel; a walk for its id is still at the first node.
KernelFirst ==
  /\ head = 1 /\ 1 \in used /\ id[1] = 1 /\ task[1] = Kernel
  /\ \A n \in used : task[n] = Kernel => n = 1
  /\ \A t \in Tasks : want[t] = 1 => /\ pc[t] # "none"
                                     /\ pc[t] = "walk" => at[t] = 1

\* What a step may do to the kernel's handle: put other nodes behind it, remove
\* others, or write to nodes that are not in the list.
LEMMA KernelStays ==
  ASSUME HandlesInv, KernelFirst, [Next]_vars
  PROVE  /\ head' = 1 /\ 1 \in used' /\ id'[1] = 1 /\ task'[1] = Kernel
         /\ \A n \in used' : task'[n] = Kernel => n = 1
<1> USE NullIsNoNode DEF KernelFirst
<1>0. 1 \in Nodes
  BY DEF HandlesInv, TypeOK
<1>1. ASSUME NEW t \in Tasks, Open(t) PROVE
         /\ head' = 1 /\ 1 \in used' /\ id'[1] = 1 /\ task'[1] = Kernel
         /\ \A n \in used' : task'[n] = Kernel => n = 1
  <2>1. PICK n \in Nodes, i \in 1 .. MaxId :
          /\ PushBack(n)
          /\ id' = [id EXCEPT ![n] = i]
          /\ task' = [task EXCEPT ![n] = t]
    BY <1>1 DEF Open
  <2>2. n \notin used /\ used' = used \cup {n} /\ tail # Null
    BY <2>1 DEF PushBack, IsFirst, HandlesInv, ListInv, Linked
  <2>3. head' = head
    BY <2>1, <2>2 DEF PushBack
  <2>4. \A m \in used : id'[m] = id[m] /\ task'[m] = task[m]
    BY <2>1, <2>2 DEF HandlesInv, TypeOK
  <2>5. task'[n] # Kernel
    BY <2>1 DEF HandlesInv, TypeOK
  <2>6. QED
    BY <2>2, <2>3, <2>4, <2>5
<1>2. ASSUME NEW t \in Tasks, OpenFails(t) PROVE
         /\ head' = 1 /\ 1 \in used' /\ id'[1] = 1 /\ task'[1] = Kernel
         /\ \A n \in used' : task'[n] = Kernel => n = 1
  <2>1. PICK n \in Nodes \ used, i \in 1 .. MaxId :
          /\ id' = [id EXCEPT ![n] = i]
          /\ task' = [task EXCEPT ![n] = t]
    BY <1>2 DEF OpenFails, IsFirst
  <2>2. used' = used /\ head' = head
    BY <1>2 DEF OpenFails
  <2>3. \A m \in used : id'[m] = id[m] /\ task'[m] = task[m]
    BY <2>1 DEF HandlesInv, TypeOK
  <2>4. QED
    BY <2>2, <2>3
\* Only nodes of programs are removed, and the first one is none.
<1>3. ASSUME NEW n \in used, task[n] \in Tasks, Unlink(n), UNCHANGED contents
      PROVE
         /\ head' = 1 /\ 1 \in used' /\ id'[1] = 1 /\ task'[1] = Kernel
         /\ \A m \in used' : task'[m] = Kernel => m = 1
  BY <1>3 DEF Unlink, contents
<1>4. ASSUME NEW t \in Tasks, Close(t) PROVE
         /\ head' = 1 /\ 1 \in used' /\ id'[1] = 1 /\ task'[1] = Kernel
         /\ \A n \in used' : task'[n] = Kernel => n = 1
  BY <1>3, <1>4 DEF Close, Drop
<1>5. CASE SweepNode
  <2>1. CASE task[cursor] = victim
    BY <1>3, <1>5, <2>1 DEF SweepNode, Drop, HandlesInv, Sweeping
  <2>2. CASE task[cursor] # victim
    BY <1>5, <2>2 DEF SweepNode, list, contents
  <2>3. QED
    BY <2>1, <2>2
<1>6. ASSUME NEW t \in Tasks, Kill(t) \/ Begin(t) \/ WalkNode(t) \/ Return(t)
      PROVE  UNCHANGED <<list, contents>>
  BY <1>6 DEF Kill, Begin, WalkNode, Return
<1>7. CASE UNCHANGED <<list, contents>>
  BY <1>7 DEF list, contents
<1>8. CASE UNCHANGED vars
  BY <1>7, <1>8 DEF vars
<1>9. QED
  BY <1>1, <1>2, <1>4, <1>5, <1>6, <1>7, <1>8 DEF Next

\* A walk for the kernel's file compares the first node first.
LEMMA KernelAlways == Spec => []KernelFirst
<1>1. Init => KernelFirst
  <2> SUFFICES ASSUME Init PROVE KernelFirst
    OBVIOUS
  <2>1. 1 \in Nodes
    BY DEF Nodes
  <2>2. \A t \in Tasks : want[t] # 1
    BY DEF Init
  <2>3. id[1] = 1 /\ task[1] = Kernel
    BY <2>1 DEF Init
  <2>4. QED
    BY <2>2, <2>3 DEF Init, KernelFirst
<1>2. HandlesInv /\ KernelFirst /\ [Next]_vars => KernelFirst'
  <2> SUFFICES ASSUME HandlesInv, KernelFirst, [Next]_vars,
                      NEW t \in Tasks, want'[t] = 1
               PROVE  pc'[t] # "none" /\ (pc'[t] = "walk" => at'[t] = 1)
    BY KernelStays DEF KernelFirst
  <2>0. /\ want \in [Tasks -> 0 .. MaxId] /\ at \in [Tasks -> Nodes \cup {Null}]
        /\ pc \in [Tasks -> {"idle", "walk", "found", "none"}]
    BY DEF HandlesInv, TypeOK
  <2>k. /\ head = 1 /\ id[1] = 1
        /\ want[t] = 1 => pc[t] # "none" /\ (pc[t] = "walk" => at[t] = 1)
    BY DEF KernelFirst
  <2>1. CASE want[t] = want'[t] /\ at[t] = at'[t] /\ pc'[t] \in {pc[t], "idle"}
    <3>1. "idle" # "none" /\ "idle" # "walk"
      OBVIOUS
    <3>2. QED
      BY <2>1, <2>k, <3>1
  <2> USE <2>0, <2>k
  <2>2. CASE UNCHANGED lookup
    BY <2>1, <2>2 DEF lookup
  <2>3. CASE \E u \in Tasks : Open(u) \/ OpenFails(u) \/ Close(u)
    BY <2>2, <2>3 DEF Open, OpenFails, Close
  <2>4. CASE \E u \in Tasks : Kill(u) \/ Return(u)
    BY <2>1, <2>4 DEF Kill, Return
  <2>5. CASE SweepNode
    BY <2>2, <2>5 DEF SweepNode
  <2>6. CASE \E u \in Tasks : Begin(u)
    BY <2>6 DEF Begin
  <2>7. CASE \E u \in Tasks : WalkNode(u)
    <3>1. PICK u \in Tasks : WalkNode(u)
      BY <2>7
    <3>2. CASE u = t
      <4>1. pc[t] = "walk" /\ want[t] = 1 /\ at[t] = 1
        BY <3>1, <3>2 DEF WalkNode
      <4>2. id[at[t]] = want[t]
        BY <4>1
      <4>3. pc'[t] = "found"
        BY <3>1, <3>2, <4>2 DEF WalkNode
      <4>4. QED
        BY <4>3
    <3>3. CASE u # t
      BY <2>1, <3>1, <3>3 DEF WalkNode
    <3>4. QED
      BY <3>2, <3>3
  <2>8. CASE UNCHANGED vars
    BY <2>2, <2>8 DEF vars
  <2>9. QED
    BY <2>3, <2>4, <2>5, <2>6, <2>7, <2>8 DEF Next
<1>3. QED
  BY <1>1, <1>2, HandlesAlways, PTL DEF Spec

\* KernelFileFound: kwr finds kfile whatever happens to the list behind it.
THEOREM KernelFound == Spec => []KernelFileFound
<1>1. KernelFirst => KernelFileFound
  <2> SUFFICES ASSUME KernelFirst, NEW t \in Tasks, pc[t] = "none",
                      NEW n \in used, task[n] = Kernel
               PROVE  id[n] # want[t]
    BY DEF KernelFileFound
  <2>1. n = 1 /\ id[1] = 1 /\ want[t] # 1
    BY DEF KernelFirst
  <2>2. QED
    BY <2>1
<1>2. QED
  BY <1>1, KernelAlways, PTL

\* LookupSound: a lookup finds open handles only, and always the kernel's.
THEOREM LookupsSound == Spec => []LookupSound
<1>1. FoundIsOpen /\ KernelFileFound => LookupSound
  BY DEF LookupSound
<1>2. QED
  BY <1>1, Found, KernelFound, PTL
-----------------------------------------------------------------------------
(***************************************************************************)
(* The refinement.                                                         *)
(***************************************************************************)
Kept == {m \in used : ~Condemned(m)}
Row(n) == [id |-> id[n], task |-> task[n], term |-> term[n]]
Ending == IF cursor = Null THEN Kernel ELSE victim

LEMMA FilesAreRows == OpenFiles = {Row(n) : n \in Kept}
BY DEF OpenFiles, Kept, Row

\* open adds the row of its node.
LEMMA OpenRefines ==
  ASSUME HandlesInv, NEW t \in Tasks, Open(t)
  PROVE  Table!OpenFile(t) /\ cursor = Null /\ cursor' = Null
<1> USE NullIsNoNode
<1>1. PICK n \in Nodes, i \in 1 .. MaxId, k \in Terms :
        /\ PushBack(n)
        /\ IsNewId(i, n)
        /\ IsFirst(k, FreeTerms)
        /\ id' = [id EXCEPT ![n] = i]
        /\ task' = [task EXCEPT ![n] = t]
        /\ term' = [term EXCEPT ![n] = k]
  BY DEF Open
<1>2. /\ cursor = Null /\ cursor' = Null
      /\ n \notin used /\ used' = used \cup {n}
      /\ \A m \in used : id[m] < i
  BY <1>1 DEF Open, Runs, Quiet, sweep, PushBack, IsFirst, IsNewId
<1>3. Kept = used /\ Kept' = used \cup {n}
  BY <1>2 DEF Kept, Condemned
<1>4. /\ Row(n)' = [id |-> i, task |-> t, term |-> k]
      /\ \A m \in used : Row(m)' = Row(m)
  BY <1>1, <1>2 DEF Row, HandlesInv, TypeOK
<1>5. OpenFiles' = OpenFiles \cup {[id |-> i, task |-> t, term |-> k]}
  <2>1. OpenFiles' = {Row(m)' : m \in used \cup {n}}
    BY <1>3, FilesAreRows DEF Kept, Row, OpenFiles
  <2>2. QED
    BY <1>3, <1>4, <2>1, FilesAreRows
<1>6. \A m \in used : id[m] # i /\ term[m] # k
  <2>1. \A m \in used : id[m] # i
    BY <1>2 DEF HandlesInv, TypeOK
  <2>2. \A m \in used : term[m] # k
    BY <1>1 DEF IsFirst, FreeTerms, HandlesInv, TermsHeldOnce
  <2>3. QED
    BY <2>1, <2>2
<1>7. \A f \in OpenFiles : f.id # i /\ f.term # k
  BY <1>3, <1>6, FilesAreRows DEF Row
<1>8. QED
  BY <1>2, <1>5, <1>7 DEF Table!OpenFile

\* Rows of different nodes differ.
LEMMA RowsDiffer ==
  ASSUME HandlesInv, NEW m \in used, NEW n \in used, Row(m) = Row(n)
  PROVE  m = n
<1>1. Row(m).id = id[m] /\ Row(n).id = id[n]
  BY DEF Row
<1>2. QED
  BY <1>1 DEF HandlesInv, ListInv, IdsDiffer

\* close removes the row of its node.
LEMMA CloseRefines ==
  ASSUME HandlesInv, NEW t \in Tasks, Close(t)
  PROVE  Table!CloseFile(t) /\ cursor = Null /\ cursor' = Null
<1>1. PICK n \in used : task[n] = t /\ Drop(n)
  BY DEF Close
<1>2. /\ cursor = Null /\ cursor' = Null /\ used' = used \ {n}
      /\ UNCHANGED <<id, task, term>>
  BY <1>1 DEF Close, Runs, Quiet, Drop, Unlink, contents, sweep
<1>3. Kept = used /\ Kept' = used \ {n} /\ \A m : Row(m)' = Row(m)
  BY <1>2 DEF Kept, Condemned, Row
<1>4. OpenFiles' = OpenFiles \ {Row(n)}
  <2>1. OpenFiles' = {Row(m) : m \in used \ {n}}
    BY <1>2, <1>3 DEF OpenFiles, Kept, Row
  <2>2. QED
    BY <1>3, <2>1, FilesAreRows, RowsDiffer
<1>5. Row(n) \in OpenFiles /\ Row(n).task = t
  BY <1>1, <1>3, FilesAreRows DEF Row
<1>6. QED
  BY <1>2, <1>4, <1>5 DEF Table!CloseFile

\* A kill removes all rows of the task at once.
LEMMA KillRefines ==
  ASSUME HandlesInv, KernelFirst, NEW t \in Tasks, Kill(t)
  PROVE  Table!End(t) /\ cursor = Null
<1>1. /\ cursor = Null /\ cursor' = head /\ head = 1 /\ victim' = t
      /\ UNCHANGED <<used, id, task, term>>
  BY DEF Kill, Quiet, list, contents, KernelFirst
<1>2. Kept = used /\ Kept' = {m \in used : task[m] # t} /\ \A m : Row(m)' = Row(m)
  BY <1>1 DEF Kept, Condemned, Row
<1>3. \A m : Row(m).task = task[m]
  BY DEF Row
<1>4. OpenFiles' = {Row(m) : m \in {n \in used : task[n] # t}}
  BY <1>1, <1>2 DEF OpenFiles, Kept, Row
<1>5. OpenFiles' = {f \in OpenFiles : f.task # t}
  BY <1>2, <1>3, <1>4, FilesAreRows
<1>6. Ending' = t
  BY <1>1 DEF Ending
<1>7. QED
  BY <1>1, <1>5, <1>6 DEF Table!End, Ending

\* The sweep removes nodes whose rows are gone, and leaves none.
LEMMA SweepRefines ==
  ASSUME HandlesInv, SweepNode
  PROVE  /\ UNCHANGED OpenFiles /\ cursor # Null /\ victim \in Tasks
         /\ cursor' # Null => UNCHANGED Ending
<1>1. cursor # Null /\ victim \in Tasks /\ UNCHANGED <<id, task, term, victim>>
  BY DEF SweepNode, contents, HandlesInv, Sweeping
<1>2. used' = IF task[cursor] = victim THEN used \ {cursor} ELSE used
  BY DEF SweepNode, Drop, Unlink, list
<1>3. cursor' = Null => \A n \in used' : task[n] # victim
  BY SweepStep
<1>4. Kept' = Kept
  BY <1>1, <1>2, <1>3 DEF Kept, Condemned
<1>5. QED
  BY <1>1, <1>4 DEF OpenFiles, Kept, Ending

\* ImplementsFileTable.
THEOREM TableImplemented == Spec => ImplementsFileTable
<1>1. Init => Table!TableInit
  <2> SUFFICES ASSUME Init PROVE Table!TableInit
    OBVIOUS
  <2>1. Kept = {1} /\ 1 \in Nodes /\ cursor = Null
    BY DEF Init, Kept, Condemned, Nodes
  <2>2. Row(1) = [id |-> 1, task |-> Kernel, term |-> 1]
    BY <2>1 DEF Init, Row
  <2>3. QED
    BY <2>1, <2>2, FilesAreRows DEF Table!TableInit
<1>2. HandlesInv /\ KernelFirst /\ [Next]_vars =>
        [Table!TableNext]_<<OpenFiles, Ending>>
  <2> SUFFICES ASSUME HandlesInv, KernelFirst, [Next]_vars
               PROVE  Table!TableNext \/ UNCHANGED <<OpenFiles, Ending>>
    OBVIOUS
  <2>1. ASSUME NEW t \in Tasks, Open(t) PROVE Table!TableNext
    BY <2>1, OpenRefines DEF Table!TableNext
  <2>2. ASSUME NEW t \in Tasks, Close(t) PROVE Table!TableNext
    BY <2>2, CloseRefines DEF Table!TableNext
  <2>3. ASSUME NEW t \in Tasks, Kill(t) PROVE Table!TableNext
    BY <2>3, KillRefines DEF Table!TableNext
  <2>4. CASE SweepNode
    BY <2>4, SweepRefines DEF Table!TableNext, Table!Ended, Ending
  <2>5. ASSUME NEW t \in Tasks, OpenFails(t) PROVE UNCHANGED <<OpenFiles, Ending>>
    <3>1. PICK n \in Nodes \ used, i \in 1 .. MaxId :
            id' = [id EXCEPT ![n] = i] /\ task' = [task EXCEPT ![n] = t]
      BY <2>5 DEF OpenFails, IsFirst
    <3>2. UNCHANGED <<used, term, cursor, victim>>
      BY <2>5 DEF OpenFails, sweep
    <3>3. \A m \in used : id'[m] = id[m] /\ task'[m] = task[m]
      BY <3>1 DEF HandlesInv, TypeOK
    <3>4. Kept' = Kept /\ \A m \in used : Row(m)' = Row(m)
      BY <3>2, <3>3 DEF Kept, Condemned, Row
    <3>5. QED
      BY <3>2, <3>4 DEF OpenFiles, Kept, Row, Ending
  <2>6. ASSUME NEW t \in Tasks, Begin(t) \/ WalkNode(t) \/ Return(t)
        PROVE  UNCHANGED <<list, contents, sweep>>
    BY <2>6 DEF Begin, WalkNode, Return
  <2>7. CASE UNCHANGED <<list, contents, sweep>>
    BY <2>7 DEF list, contents, sweep, OpenFiles, Condemned, Ending
  <2>8. CASE UNCHANGED vars
    BY <2>7, <2>8 DEF vars
  <2>9. QED
    BY <2>1, <2>2, <2>3, <2>4, <2>5, <2>6, <2>7, <2>8 DEF Next
<1>3. QED
  BY <1>1, <1>2, KernelAlways, HandlesAlways, PTL DEF Spec, ImplementsFileTable, Table!TableSpec, Ending
=============================================================================
