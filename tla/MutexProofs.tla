---------------------------- MODULE MutexProofs ----------------------------
(***************************************************************************)
(* Proofs about mutexes: as long as none of the windows is hit, a mutex is *)
(* held by one task and is kept while it is open, for any numbers of       *)
(* tasks, names and nodes, any depth of nested locks, and lookups that     *)
(* lose their way at any node.                                             *)
(*                                                                         *)
(* Sound is the inductive invariant.  Its parts need each other: a lock is *)
(* exclusive because names are unique (OneName), a name stays unique       *)
(* because a mutex in use is in the list (Tied), and it stays there        *)
(* because its users are counted (Counted).                                *)
(***************************************************************************)
EXTENDS Mutex, FiniteSetTheorems, TLAPS

Busy == Calls \cup {"open", "again", "try", "try_nb"}
Past == Busy \cup {"count"}

\* A task that found or made its mutex has one of the name it asked for.
Tied == \A t \in Tasks : pc[t] \in Past => h[t] \in Made /\ IsNamed(h[t], want[t])

\* A node that is being made is its maker's alone, and so is the name.
Filling ==
  \A t \in Tasks : pc[t] = "fill" =>
    /\ h[t] \in listed /\ creator[h[t]] = t
    /\ \A n \in Made : ~IsNamed(n, want[t])
    /\ \A u \in Tasks : pc[u] = "fill" /\ u # t => h[u] # h[t] /\ want[u] # want[t]

\* Two mutexes have different names.
OneName == \A m, n \in Made : m \in isMutex /\ n \in isMutex /\ name[m] = name[n] => m = n

\* usage_count is right, and a mutex without users is its maker's, about to be
\* counted.
Counted ==
  \A n \in Made \cap isMutex :
    /\ usage_count[n] = Cardinality(Users(n))
    /\ Users(n) # {} \/ \E t \in Tasks : pc[t] = "count" /\ h[t] = n /\ creator[n] = t

\* The last owner's count of locks is lock_count; other tasks hold nothing, and
\* neither does one that closes.
Owned ==
  \A t \in Tasks :
    /\ holds[t] > 0 => HasOpen(t) /\ owner[h[t]] = t
    /\ HasOpen(t) /\ owner[h[t]] = t => lock_count[h[t]] = holds[t]
    /\ pc[t] = "close" => holds[t] = 0

Sound == Tied /\ Filling /\ OneName /\ Counted /\ Owned

MutexInv == TypeOK /\ (faults = {} => Sound)
-----------------------------------------------------------------------------
\* The users of a node are finitely many.
LEMMA UsersFinite == ASSUME NEW n PROVE IsFiniteSet(Users(n)) /\ Cardinality(Users(n)) \in Nat
<1>1. Users(n) \subseteq Tasks /\ IsFiniteSet(Tasks)
  BY MutexAssumption DEF Users
<1>2. QED
  BY <1>1, FS_Subset, FS_CardinalityType

\* The state after the boot has these types.
LEMMA TypeInit == Init => TypeOK
BY MutexAssumption DEF Init, TypeOK, NoTask, NoName, Null, Calls

\* What a walk goes to is a node, or the end.
LEMMA FirstType == ASSUME NEW S \in SUBSET Nodes PROVE First(S) \in Nodes \cup {Null}
BY DEF First

LEMMA LinkType == ASSUME TypeOK, NEW n \in Nodes PROVE Link(n) \in Nodes \cup {Null}
<1>1. n \in listed => First(after[n]) \in Nodes \cup {Null}
  BY FirstType DEF TypeOK
<1>2. QED
  BY <1>1 DEF Link, TypeOK

ListType == /\ listed \in SUBSET Nodes
            /\ after \in [Nodes -> SUBSET Nodes]
            /\ stale \in [Nodes -> Nodes \cup {Null}]

\* The list stays one of nodes.
LEMMA PushType == ASSUME TypeOK, NEW n \in Nodes, PushBack(n) PROVE ListType'
BY DEF PushBack, ListType, TypeOK

LEMMA RemoveType == ASSUME TypeOK, NEW S, Remove(S) PROVE ListType'
<1>1. \A m \in Nodes : Link(m) \in Nodes \cup {Null}
  BY LinkType
<1>2. QED
  BY <1>1 DEF Remove, ListType, TypeOK

\* The steps of a call on an open mutex that change only where the task is.
Waits(t) == \/ \E c \in Calls : Call(t, c)
            \/ CallNext(t) \/ Lock(t) \/ LockFails(t) \/ ReleaseFails(t)

LEMMA WaitsOnly ==
  ASSUME TypeOK, NEW t \in Tasks, Waits(t)
  PROVE  /\ HasOpen(t)
         /\ \E place \in Busy : Goto(t, place)
         /\ \E n \in Nodes \cup {Null} : /\ at' = [at EXCEPT ![t] = n]
                                         /\ (n # Null) <=> (pc'[t] \in Calls)
         /\ pc'[t] = "close" => pc[t] = "close" \/ holds[t] = 0
         /\ UNCHANGED <<fields, lock_count, usage_count, owner, want, h, history>>
<1> USE DEF Goto, HasOpen, Busy, Calls
<1>0. Null \notin Nodes
  BY DEF Null, Nodes
<1>1. ASSUME NEW c \in Calls, Call(t, c)
      PROVE  First(listed) \in Nodes \cup {Null}
  BY FirstType DEF TypeOK
<1>2. ASSUME CallNext(t) PROVE Link(at[t]) \in Nodes \cup {Null}
  BY <1>2, LinkType DEF TypeOK, CallNext
<1>3. ASSUME NEW c \in Calls, Call(t, c)
      PROVE  /\ pc[t] = "open"
             /\ at' = [at EXCEPT ![t] = First(listed)]
             /\ pc' = [pc EXCEPT ![t] = IF First(listed) = Null THEN "open" ELSE c]
             /\ c = "close" => holds[t] = 0
             /\ UNCHANGED <<fields, lock_count, usage_count, owner, want, h, history>>
  BY <1>3 DEF Call, StandOn
<1>4. ASSUME CallNext(t)
      PROVE  /\ pc[t] \in Calls
             /\ at' = [at EXCEPT ![t] = Link(at[t])]
             /\ pc' = [pc EXCEPT ![t] = IF Link(at[t]) = Null THEN "open" ELSE pc[t]]
             /\ UNCHANGED <<fields, lock_count, usage_count, owner, want, h, history>>
  BY <1>4 DEF CallNext, StandOn
<1>5. CASE \E c \in Calls : Call(t, c)
  BY <1>0, <1>1, <1>3, <1>5 DEF TypeOK
<1>6. CASE CallNext(t)
  BY <1>0, <1>2, <1>4, <1>6 DEF TypeOK
<1>7. CASE Lock(t)
  BY <1>0, <1>7 DEF Lock, Finds, TypeOK
<1>8. CASE ReleaseFails(t)
  BY <1>0, <1>8 DEF ReleaseFails, Finds, TypeOK
<1>9. CASE LockFails(t)
  <2>1. at[t] = Null /\ at' = [at EXCEPT ![t] = Null]
    BY <1>9 DEF LockFails, TypeOK
  <2>2. QED
    BY <1>9, <2>1 DEF LockFails, TypeOK
<1>10. QED
  BY <1>5, <1>6, <1>7, <1>8, <1>9 DEF Waits

\* Every step keeps the types.
LEMMA TypeStep == TypeOK /\ [Next]_vars => TypeOK'
<1> SUFFICES ASSUME TypeOK, [Next]_vars PROVE TypeOK'
  OBVIOUS
<1>0. Null \notin Nodes
  BY DEF Null, Nodes
<1> USE <1>0, MutexAssumption DEF Goto, fields, list, history, Calls
<1>1. ASSUME NEW t \in Tasks, OpenFound(t) PROVE TypeOK'
  BY <1>1 DEF TypeOK, OpenFound
<1>2. ASSUME NEW t \in Tasks,
             (\E x \in Names : OpenBegin(t, x)) \/ OpenNext(t)
      PROVE  TypeOK'
  <2>1. First(listed) \in Nodes \cup {Null}
    BY FirstType DEF TypeOK
  <2>2. OpenNext(t) => Link(at[t]) \in Nodes \cup {Null}
    BY LinkType DEF TypeOK, OpenNext
  <2>3. CASE \E x \in Names : OpenBegin(t, x)
    BY <2>1, <2>3 DEF TypeOK, OpenBegin, StandOn
  <2>4. CASE OpenNext(t)
    BY <2>2, <2>4 DEF TypeOK, OpenNext, StandOn
  <2>5. QED
    BY <1>2, <2>3, <2>4
<1>3. ASSUME NEW t \in Tasks, NEW n \in Nodes, OpenCreate(t, n) PROVE TypeOK'
  <2>1. ListType'
    BY <1>3, PushType DEF OpenCreate
  <2>2. QED
    BY <1>3, <2>1 DEF TypeOK, ListType, OpenCreate
<1>4. ASSUME NEW t \in Tasks, OpenFill(t) PROVE TypeOK'
  BY <1>4 DEF TypeOK, OpenFill
<1>5. ASSUME NEW t \in Tasks, OpenCount(t) PROVE TypeOK'
  BY <1>5 DEF TypeOK, OpenCount
<1>6. ASSUME NEW t \in Tasks, Waits(t) PROVE TypeOK'
  <2>1. PICK place \in Busy : pc' = [pc EXCEPT ![t] = place]
    BY <1>6, WaitsOnly
  <2>2. PICK n \in Nodes \cup {Null} : at' = [at EXCEPT ![t] = n] /\ ((n # Null) <=> (pc'[t] \in Calls))
    BY <1>6, WaitsOnly
  <2>3. HasOpen(t) /\ UNCHANGED <<fields, lock_count, usage_count, owner, want, h, history>>
    BY <1>6, WaitsOnly
  <2>4. QED
    BY <2>1, <2>2, <2>3 DEF TypeOK, HasOpen, Busy
<1>7. ASSUME NEW t \in Tasks, LockAgain(t) PROVE TypeOK'
  BY <1>7 DEF TypeOK, LockAgain
<1>8. ASSUME NEW t \in Tasks, LockTake(t) PROVE TypeOK'
  BY <1>8 DEF TypeOK, LockTake
<1>9. ASSUME NEW t \in Tasks, FileOpen(t) \/ FileClose(t) PROVE TypeOK'
  <2>1. ListType'
    BY <1>9, PushType, RemoveType DEF FileOpen, FileClose
  <2>2. QED
    BY <1>9, <2>1 DEF TypeOK, ListType, FileOpen, FileClose
<1>10. ASSUME NEW t \in Tasks, Release(t) PROVE TypeOK'
  BY <1>10 DEF TypeOK, Release, Released, Finds
<1>11. ASSUME NEW t \in Tasks, Close(t) PROVE TypeOK'
  <2>1. ListType'
    BY <1>11, RemoveType DEF Close
  <2>2. UNCHANGED <<isMutex, name, creator, lock_count, owner, holds>>
    BY <1>11 DEF Close
  <2>3. /\ usage_count' \in [Nodes -> Int]
        /\ at' = [at EXCEPT ![t] = Null] /\ pc' = [pc EXCEPT ![t] = "idle"]
        /\ h' = [h EXCEPT ![t] = Null] /\ want' = [want EXCEPT ![t] = NoName]
    BY <1>11 DEF TypeOK, Close, Finds
  <2>4. QED
    BY <2>1, <2>2, <2>3 DEF TypeOK, ListType
<1>12. ASSUME NEW t \in Tasks, Kill(t) PROVE TypeOK'
  <2>1. ListType'
    BY <1>12, RemoveType DEF Kill
  <2>2. QED
    BY <1>12, <2>1 DEF TypeOK, ListType, Kill
<1>13. CASE UNCHANGED vars
  BY <1>13 DEF TypeOK, vars
<1>14. QED
  BY <1>1, <1>2, <1>3, <1>4, <1>5, <1>6, <1>7, <1>8, <1>9, <1>10, <1>11, <1>12, <1>13
     DEF Next, Step, Ended, Waits

\* TypeOK: every variable has its type in every state.
THEOREM TypeCorrect == Spec => []TypeOK
BY TypeInit, TypeStep, PTL DEF Spec
-----------------------------------------------------------------------------
\* While only the calls of lock and release go on, the table does not change.
LEMMA SteadyTable ==
  ASSUME TypeOK, Tied, Filling, OneName, Counted,
         NEW t \in Tasks, HasOpen(t), NEW place, Goto(t, place),
         place \in Busy,
         UNCHANGED <<fields, usage_count, want, h>>
  PROVE  /\ Tied' /\ Filling' /\ OneName' /\ Counted'
         /\ \A u \in Tasks : HasOpen(u)' <=> HasOpen(u)
<1> USE DEF fields, list, Goto, HasOpen, Busy, Calls
<1>1. Made' = Made
  BY DEF Made, TypeOK
<1>2. \A u \in Tasks : HasOpen(u)' <=> HasOpen(u)
  BY DEF TypeOK
<1>3. \A n : Users(n)' = Users(n)
  BY <1>2 DEF Users
<1>4. ASSUME NEW u \in Tasks
      PROVE  /\ (pc'[u] \in Past) <=> (pc[u] \in Past)
             /\ (pc'[u] = "fill") <=> (pc[u] = "fill")
             /\ (pc'[u] = "count") <=> (pc[u] = "count")
  <2>1. CASE u = t
    BY <2>1 DEF TypeOK, Past
  <2>2. CASE u # t
    BY <2>2 DEF TypeOK
  <2>3. QED
    BY <2>1, <2>2
<1>5. Tied'
  BY <1>1, <1>4 DEF Tied, IsNamed
<1>6. Filling'
  BY <1>1, <1>4 DEF Filling, IsNamed
<1>7. OneName'
  BY <1>1 DEF OneName
<1>8. Counted'
  BY <1>1, <1>3, <1>4 DEF Counted
<1>9. QED
  BY <1>2, <1>5, <1>6, <1>7, <1>8

\* lock, in all its steps, and release: the count is the holder's.
LEMMA LockSound ==
  ASSUME TypeOK, Sound, faults' = {}, NEW t \in Tasks,
         Waits(t) \/ LockAgain(t) \/ LockTake(t) \/ Release(t)
  PROVE  Sound'
<1>1. ASSUME Waits(t) PROVE Sound'
  <2>1. /\ Tied' /\ Filling' /\ OneName' /\ Counted'
        /\ \A u \in Tasks : HasOpen(u)' <=> HasOpen(u)
    <3>1. PICK place \in Busy : Goto(t, place)
      BY <1>1, WaitsOnly
    <3>2. HasOpen(t) /\ UNCHANGED <<fields, usage_count, want, h>>
      BY <1>1, WaitsOnly
    <3>3. QED
      BY <3>1, <3>2, SteadyTable DEF Sound
  <2>2. /\ UNCHANGED <<lock_count, owner, h, holds>>
        /\ pc'[t] = "close" => pc[t] = "close" \/ holds[t] = 0
        /\ \A u \in Tasks \ {t} : pc'[u] = pc[u]
    BY <1>1, WaitsOnly DEF history, Goto, TypeOK
  <2>3. Owned'
    BY <2>1, <2>2 DEF Owned, Sound
  <2>4. QED
    BY <2>1, <2>3 DEF Sound
<1>2. ASSUME LockAgain(t) PROVE Sound'
  <2>1. /\ Tied' /\ Filling' /\ OneName' /\ Counted'
        /\ \A u \in Tasks : HasOpen(u)' <=> HasOpen(u)
    BY <1>2, SteadyTable DEF LockAgain, Sound, HasOpen, Busy
  <2>2. owner[h[t]] = t /\ HasOpen(t) /\ h[t] \in Nodes
    BY <1>2 DEF LockAgain, Note, HasOpen, TypeOK
  <2>3. Owned'
    BY <1>2, <2>1, <2>2 DEF LockAgain, Owned, Sound, Goto, TypeOK
  <2>4. QED
    BY <2>1, <2>3 DEF Sound
<1>3. ASSUME LockTake(t) PROVE Sound'
  <2>1. /\ Tied' /\ Filling' /\ OneName' /\ Counted'
        /\ \A u \in Tasks : HasOpen(u)' <=> HasOpen(u)
    BY <1>3, SteadyTable DEF LockTake, Sound, HasOpen, Busy
  <2>2. HasOpen(t) /\ h[t] \in Nodes /\ lock_count[h[t]] = 0
    BY <1>3 DEF LockTake, HasOpen, TypeOK
  <2>3. \A u \in Tasks : h[u] = h[t] => holds[u] = 0
    BY <2>2 DEF Owned, Sound, TypeOK
  <2>4. Owned'
    BY <1>3, <2>1, <2>2, <2>3 DEF LockTake, Owned, Sound, Goto, TypeOK
  <2>5. QED
    BY <2>1, <2>4 DEF Sound
<1>4. ASSUME Release(t) PROVE Sound'
  <2>1. /\ Tied' /\ Filling' /\ OneName' /\ Counted'
        /\ \A u \in Tasks : HasOpen(u)' <=> HasOpen(u)
    <3>1. HasOpen(t) /\ Goto(t, "open")
      BY <1>4 DEF Release, Finds, HasOpen, Calls
    <3>2. QED
      BY <1>4, <3>1, SteadyTable DEF Release, Sound, Busy
  <2>2. owner[h[t]] = t /\ HasOpen(t) /\ h[t] \in Nodes
    <3>1. pc[t] = "release" /\ owner[h[t]] = t
      BY <1>4 DEF Release, Finds
    <3>2. QED
      BY <3>1 DEF HasOpen, Calls, TypeOK
  <2>3. lock_count[h[t]] = holds[t]
    BY <2>2 DEF Owned, Sound
  <2>4. lock_count'[h[t]] = holds'[t]
    BY <1>4, <2>2, <2>3 DEF Release, Released, TypeOK
  <2>5. Owned'
    BY <1>4, <2>1, <2>2, <2>4 DEF Release, Owned, Sound, Goto, TypeOK
  <2>6. QED
    BY <2>1, <2>5 DEF Sound
<1>5. QED
  BY <1>1, <1>2, <1>3, <1>4
-----------------------------------------------------------------------------
\* Only a task that has a mutex open holds locks.
LEMMA HoldsNothing == ASSUME TypeOK, Owned, NEW t \in Tasks, ~HasOpen(t)
                      PROVE  holds[t] = 0
<1>1. ~(holds[t] > 0) /\ holds[t] \in Nat
  BY DEF Owned, TypeOK
<1>2. QED
  BY <1>1

\* The steps of the lookup by name.
Looks(t) == (\E x \in Names : OpenBegin(t, x)) \/ OpenNext(t) \/ OpenFound(t)

\* They change only the task's own place; the node found is a mutex of the name, for
\* none of the windows of the lookup was hit.
LEMMA LooksOnly ==
  ASSUME TypeOK, Sound, faults' = {}, NEW t \in Tasks, Looks(t)
  PROVE  /\ pc[t] \in {"idle", "find"} /\ holds[t] = 0 /\ ~HasOpen(t)'
         /\ UNCHANGED <<fields, lock_count, usage_count, owner, holds>>
         /\ \A u \in Tasks \ {t} : pc'[u] = pc[u] /\ h'[u] = h[u] /\ want'[u] = want[u]
         /\ pc'[t] \in {"find", "create", "count"}
         /\ pc'[t] = "count" => h'[t] \in Made /\ IsNamed(h'[t], want'[t])
<1> USE DEF Goto, TypeOK
<1>1. ASSUME NEW x \in Names, OpenBegin(t, x)
      PROVE  /\ pc[t] = "idle" /\ pc'[t] \in {"find", "create"}
             /\ UNCHANGED <<fields, lock_count, usage_count, owner, holds>>
             /\ \A u \in Tasks \ {t} : pc'[u] = pc[u] /\ h'[u] = h[u] /\ want'[u] = want[u]
  BY <1>1 DEF OpenBegin, StandOn, history
<1>2. ASSUME OpenNext(t)
      PROVE  /\ pc[t] = "find" /\ pc'[t] \in {"find", "create"}
             /\ UNCHANGED <<fields, lock_count, usage_count, owner, holds>>
             /\ \A u \in Tasks \ {t} : pc'[u] = pc[u] /\ h'[u] = h[u] /\ want'[u] = want[u]
  BY <1>2 DEF OpenNext, StandOn, history
<1>3. ASSUME OpenFound(t)
      PROVE  /\ pc[t] = "find" /\ pc'[t] = "count"
             /\ UNCHANGED <<fields, lock_count, usage_count, owner, holds>>
             /\ \A u \in Tasks \ {t} : pc'[u] = pc[u] /\ h'[u] = h[u] /\ want'[u] = want[u]
             /\ h'[t] \in Made /\ IsNamed(h'[t], want'[t])
  <2>1. at[t] \in listed /\ at[t] \notin listed \ Made
    BY <1>3 DEF OpenFound
  <2>2. QED
    BY <1>3, <2>1 DEF OpenFound
<1>4. /\ pc[t] \in {"idle", "find"} /\ pc'[t] \in {"find", "create", "count"}
      /\ UNCHANGED <<fields, lock_count, usage_count, owner, holds>>
      /\ \A u \in Tasks \ {t} : pc'[u] = pc[u] /\ h'[u] = h[u] /\ want'[u] = want[u]
      /\ pc'[t] = "count" => h'[t] \in Made /\ IsNamed(h'[t], want'[t])
  BY <1>1, <1>2, <1>3 DEF Looks
<1>5. ~HasOpen(t) /\ ~HasOpen(t)'
  BY <1>4 DEF HasOpen, Calls
<1>6. holds[t] = 0
  BY <1>5, HoldsNothing DEF Sound
<1>7. QED
  BY <1>4, <1>5, <1>6

LEMMA LookupSound ==
  ASSUME TypeOK, Sound, faults' = {}, NEW t \in Tasks, Looks(t)
  PROVE  Sound'
<1>0. /\ pc[t] \in {"idle", "find"} /\ holds[t] = 0 /\ ~HasOpen(t)'
      /\ UNCHANGED <<fields, lock_count, usage_count, owner, holds>>
      /\ \A u \in Tasks \ {t} : pc'[u] = pc[u] /\ h'[u] = h[u] /\ want'[u] = want[u]
      /\ pc'[t] \in {"find", "create", "count"}
      /\ pc'[t] = "count" => h'[t] \in Made /\ IsNamed(h'[t], want'[t])
  BY LooksOnly
<1> USE DEF fields, list, HasOpen, Past, Busy, Calls
<1>1. Made' = Made
  BY <1>0 DEF Made
<1>2. \A n \in Nodes : Users(n)' = Users(n)
  BY <1>0 DEF Users
<1>3. Tied'
  BY <1>0, <1>1 DEF Sound, Tied, IsNamed
<1>4. Filling'
  <2>1. \A u \in Tasks : pc'[u] = "fill" => /\ u # t /\ pc[u] = "fill"
                                           /\ h'[u] = h[u] /\ want'[u] = want[u]
    BY <1>0
  <2>2. QED
    BY <1>0, <1>1, <2>1 DEF Sound, Filling, IsNamed
<1>5. OneName'
  BY <1>0, <1>1 DEF Sound, OneName
<1>6. Counted'
  <2>1. Made \subseteq Nodes
    BY DEF Made, TypeOK
  <2>2. \A u \in Tasks : pc[u] = "count" => pc'[u] = "count" /\ h'[u] = h[u]
    BY <1>0
  <2>3. QED
    BY <1>0, <1>1, <1>2, <2>1, <2>2 DEF Sound, Counted
<1>7. Owned'
  BY <1>0 DEF Sound, Owned
<1>8. QED
  BY <1>3, <1>4, <1>5, <1>6, <1>7 DEF Sound

\* The new node is nobody's yet, and neither is its name.
LEMMA CreateSound ==
  ASSUME TypeOK, Sound, faults' = {}, NEW t \in Tasks, NEW n \in Nodes, OpenCreate(t, n)
  PROVE  Sound'
<1> USE DEF Goto, HasOpen, Past, Busy, Calls, TypeOK, OpenCreate, PushBack
<1>0. /\ pc[t] = "create" /\ holds[t] = 0 /\ n \notin listed /\ n \notin Made
      /\ Named(want[t]) = {}
      /\ \A u \in Tasks : pc[u] = "fill" => want[u] # want[t]
  <2>1. pc[t] = "create" /\ n \notin listed /\ n \notin Made
    BY DEF Made
  <2>2. holds[t] = 0
    BY <2>1, HoldsNothing DEF Sound
  <2>3. QED
    BY <2>1, <2>2 DEF Note
<1>1. Made' = Made
  BY <1>0 DEF Made
<1>2. \A m \in Made : Users(m)' = Users(m)
  BY <1>0 DEF Users
<1>3. Tied'
  BY <1>0, <1>1 DEF Sound, Tied, IsNamed
<1>4. Filling'
  <2>1. \A m \in Made : ~IsNamed(m, want[t])
    BY <1>0 DEF Named, Made
  <2>2. \A u \in Tasks : pc[u] = "fill" => h[u] # n
    BY <1>0 DEF Sound, Filling
  <2>3. QED
    BY <1>0, <1>1, <2>1, <2>2 DEF Sound, Filling, IsNamed
<1>5. OneName'
  BY <1>1 DEF Sound, OneName
<1>6. Counted'
  <2>1. \A m \in Made : m # n /\ creator'[m] = creator[m]
    BY <1>0 DEF Made
  <2>2. \A u \in Tasks : pc[u] = "count" => pc'[u] = "count" /\ h'[u] = h[u]
    BY <1>0
  <2>3. QED
    BY <1>1, <1>2, <2>1, <2>2 DEF Sound, Counted
<1>7. Owned'
  BY <1>0 DEF Sound, Owned
<1>8. QED
  BY <1>3, <1>4, <1>5, <1>6, <1>7 DEF Sound

\* The node made joins the mutexes: it has no users, and its name is new.
LEMMA FillSound ==
  ASSUME TypeOK, Sound, faults' = {}, NEW t \in Tasks, OpenFill(t)
  PROVE  Sound'
<1> USE DEF Goto, HasOpen, Past, Busy, Calls, TypeOK, OpenFill, list, history
<1>0. /\ pc[t] = "fill" /\ holds[t] = 0 /\ h[t] \in listed /\ h[t] \in Nodes
      /\ h[t] \notin Made /\ creator[h[t]] = t
      /\ \A m \in Made : ~IsNamed(m, want[t])
      /\ \A u \in Tasks \ {t} : pc[u] = "fill" => h[u] # h[t] /\ want[u] # want[t]
  BY DEF Sound, Owned, Filling, Made
<1>1. Made' = Made \cup {h[t]}
  BY <1>0 DEF Made
<1>2. \A m \in Nodes : Users(m)' = Users(m)
  BY <1>0 DEF Users
<1>3. /\ \A m \in Made : m # h[t] /\ \A x : IsNamed(m, x)' <=> IsNamed(m, x)
      /\ IsNamed(h[t], want[t])'
  BY <1>0 DEF IsNamed, Made
<1>4. Tied'
  BY <1>0, <1>1, <1>3 DEF Sound, Tied
<1>5. Filling'
  <2>1. \A u \in Tasks : pc'[u] = "fill" => u # t /\ pc[u] = "fill"
    BY <1>0
  <2>2. \A u \in Tasks : pc'[u] = "fill" => ~IsNamed(h[t], want[u])'
    BY <1>0, <2>1 DEF IsNamed
  <2>3. QED
    BY <1>1, <1>3, <2>1, <2>2 DEF Sound, Filling
<1>6. OneName'
  BY <1>0, <1>1 DEF Sound, OneName, IsNamed, Made
<1>7. Counted'
  <2>1. Users(h[t]) = {}
    BY <1>0 DEF Sound, Tied, Users
  <2>2. /\ usage_count'[h[t]] = Cardinality(Users(h[t])')
        /\ pc'[t] = "count" /\ h'[t] = h[t] /\ creator'[h[t]] = t
    BY <1>0, <1>2, <2>1, FS_EmptySet
  <2>3. \A m \in Made : m \in Nodes /\ usage_count'[m] = usage_count[m] /\ creator'[m] = creator[m]
    BY <1>0 DEF Made
  <2>4. \A u \in Tasks : pc[u] = "count" => pc'[u] = "count" /\ h'[u] = h[u]
    BY <1>0
  <2>5. QED
    BY <1>1, <1>2, <2>2, <2>3, <2>4 DEF Sound, Counted
<1>8. Owned'
  BY <1>0 DEF Sound, Owned
<1>9. QED
  BY <1>4, <1>5, <1>6, <1>7, <1>8 DEF Sound

\* One more user, of a mutex nobody holds.
LEMMA CountSound ==
  ASSUME TypeOK, Sound, faults' = {}, NEW t \in Tasks, OpenCount(t)
  PROVE  Sound'
<1> USE DEF Goto, HasOpen, Past, Busy, Calls, TypeOK, OpenCount, fields, list
<1>0. /\ pc[t] = "count" /\ holds[t] = 0 /\ h[t] \in Made /\ h[t] \in Nodes
      /\ \A u \in Tasks : h[u] = h[t] => holds[u] = 0
  <2>1. pc[t] = "count" /\ h[t] \in Made /\ h[t] \in Nodes
    BY DEF Sound, Tied, Made
  <2>2. holds[t] = 0
    BY <2>1, HoldsNothing DEF Sound
  <2>3. Holders(h[t]) = {}
    BY DEF Note
  <2>4. QED
    BY <2>1, <2>2, <2>3 DEF Holders
<1>1. Made' = Made
  BY <1>0 DEF Made
<1>2. /\ \A m \in Nodes \ {h[t]} : Users(m)' = Users(m)
      /\ Users(h[t])' = Users(h[t]) \cup {t} /\ t \notin Users(h[t])
  BY <1>0 DEF Users
<1>3. Tied'
  BY <1>0, <1>1 DEF Sound, Tied, IsNamed
<1>4. Filling'
  BY <1>0, <1>1 DEF Sound, Filling, IsNamed
<1>5. OneName'
  BY <1>1 DEF Sound, OneName
<1>6. Counted'
  <2>1. usage_count'[h[t]] = Cardinality(Users(h[t])')
    <3>1. usage_count[h[t]] = Cardinality(Users(h[t]))
      BY <1>0 DEF Sound, Counted, Tied, IsNamed
    <3>2. Cardinality(Users(h[t]) \cup {t}) = Cardinality(Users(h[t])) + 1
      BY <1>2, UsersFinite, FS_AddElement
    <3>3. usage_count'[h[t]] = usage_count[h[t]] + 1 /\ h'[t] = h[t]
      BY <1>0
    <3>4. QED
      BY <1>2, <3>1, <3>2, <3>3
  <2>2. \A m \in Made : m \in Nodes /\ (m # h[t] => usage_count'[m] = usage_count[m])
    BY <1>0 DEF Made
  <2>3. \A u \in Tasks : pc[u] = "count" /\ h[u] # h[t] => pc'[u] = "count" /\ h'[u] = h[u]
    BY <1>0
  <2>4. Users(h[t])' # {}
    BY <1>2
  <2>5. ASSUME NEW m \in Made \cap isMutex, m # h[t]
        PROVE  /\ usage_count'[m] = Cardinality(Users(m)')
               /\ Users(m)' # {} \/ \E u \in Tasks : pc'[u] = "count" /\ h'[u] = m /\ creator'[m] = u
    <3>1. Users(m)' = Users(m) /\ creator'[m] = creator[m] /\ usage_count'[m] = usage_count[m]
      BY <1>2, <2>2, <2>5
    <3>2. QED
      BY <2>3, <2>5, <3>1 DEF Sound, Counted
  <2>6. ASSUME NEW m \in (Made \cap isMutex)'
        PROVE  /\ usage_count'[m] = Cardinality(Users(m)')
               /\ Users(m)' # {} \/ \E u \in Tasks : pc'[u] = "count" /\ h'[u] = m /\ creator'[m] = u
    <3>1. CASE m = h[t]
      <4>1. h' = h
        OBVIOUS
      <4>2. Users(m)' = Users(h[t])'
        BY <3>1, <4>1 DEF Users
      <4>3. QED
        BY <2>1, <2>4, <3>1, <4>1, <4>2
    <3>2. CASE m # h[t]
      BY <1>1, <2>5, <3>2
    <3>3. QED
      BY <3>1, <3>2
  <2>7. QED
    BY <2>6 DEF Counted
<1>7. Owned'
  BY <1>0 DEF Sound, Owned
<1>8. QED
  BY <1>3, <1>4, <1>5, <1>6, <1>7 DEF Sound

\* A task closes its mutex: the node goes with the last user, and only then.
LEMMA CloseSound ==
  ASSUME TypeOK, Sound, faults' = {}, NEW t \in Tasks, Close(t)
  PROVE  Sound'
<1>n. PICK n : n = h[t]
  OBVIOUS
<1>f. IsFiniteSet(Users(n)) /\ Cardinality(Users(n)) \in Nat
  BY UsersFinite
<1>r. t \in Users(n) => Cardinality(Users(n) \ {t}) = Cardinality(Users(n)) - 1
  BY <1>f, FS_RemoveElement
<1>s. Cardinality(Users(n)) = 1 <=> \E u : Users(n) = {u}
  BY <1>f, FS_Singleton
<1> USE <1>n DEF Goto, HasOpen, Past, Busy, Calls, TypeOK, Close, Finds, Remove
<1>0. /\ pc[t] = "close" /\ holds[t] = 0 /\ n \in Made /\ n \in Nodes /\ h'[t] # n
      /\ t \in Users(n) /\ usage_count[n] = Cardinality(Users(n))
  <2>1. pc[t] = "close" /\ holds[t] = 0 /\ n \in Nodes /\ n # Null
    BY DEF Null, Nodes, Sound, Owned
  <2>2. n \in Made
    BY <2>1 DEF Sound, Tied
  <2>3. usage_count[n] = Cardinality(Users(n)) /\ t \in Users(n)
    BY <2>1, <2>2 DEF Sound, Counted, Users, Tied, IsNamed
  <2>4. QED
    BY <2>1, <2>2, <2>3
<1>1. /\ \A m : m # n => Users(m)' = Users(m)
      /\ Users(n)' = Users(n) \ {t}
  <2>1. /\ h'[t] = Null /\ pc'[t] = "idle"
        /\ \A u \in Tasks \ {t} : h'[u] = h[u] /\ pc'[u] = pc[u]
    OBVIOUS
  <2>2. ASSUME NEW m, m # n PROVE Users(m)' = Users(m)
    BY <1>0, <2>1, <2>2 DEF Users
  <2>3. {u \in Tasks : HasOpen(u)' /\ h'[u] = n} = Users(n) \ {t}
    BY <1>0, <2>1 DEF Users
  <2>4. QED
    BY <2>2, <2>3 DEF Users
<1>2. CASE usage_count[n] = 1
  <2>1. Made' = Made \ {n}
    BY <1>0, <1>2 DEF Made
  <2>2. Users(n) = {t}
    BY <1>0, <1>2, <1>s
  <2>3. \A u \in Tasks \ {t} : pc[u] \in Past => h[u] # n
    BY <1>2, <2>2 DEF Note, Users
  <2>4. Tied'
    BY <1>0, <2>1, <2>3 DEF Sound, Tied, IsNamed
  <2>5. Filling'
    BY <1>0, <2>1 DEF Sound, Filling, IsNamed, Made
  <2>6. OneName'
    BY <2>1 DEF Sound, OneName
  <2>7. Counted'
    BY <1>0, <1>1, <2>1 DEF Sound, Counted, Made
  <2>8. Owned'
    BY <1>0 DEF Sound, Owned
  <2>9. QED
    BY <2>4, <2>5, <2>6, <2>7, <2>8 DEF Sound
<1>3. CASE usage_count[n] # 1
  <2>1. Made' = Made
    BY <1>0, <1>3 DEF Made
  <2>2. Tied'
    BY <1>0, <2>1 DEF Sound, Tied, IsNamed
  <2>3. Filling'
    BY <1>0, <1>3, <2>1 DEF Sound, Filling, IsNamed
  <2>4. OneName'
    BY <2>1 DEF Sound, OneName
  <2>5. Counted'
    <3>1. Cardinality(Users(n) \ {t}) = Cardinality(Users(n)) - 1
      BY <1>0, <1>r
    <3>2. Users(n) \ {t} # {}
      <4>1. Users(n) # {t}
        BY <1>0, <1>3, <1>s
      <4>2. QED
        BY <1>0, <4>1
    <3>3. usage_count'[n] = Cardinality(Users(n) \ {t})
      BY <1>0, <3>1
    <3>4. \A m \in Made : m \in Nodes /\ (m # n => usage_count'[m] = usage_count[m])
      BY DEF Made
    <3>5. \A u \in Tasks : pc[u] = "count" => pc'[u] = "count" /\ h'[u] = h[u]
      BY <1>0
    <3>6. ASSUME NEW m \in Made \cap isMutex
          PROVE  /\ usage_count'[m] = Cardinality(Users(m)')
                 /\ Users(m)' # {} \/ \E u \in Tasks : pc'[u] = "count" /\ h'[u] = m /\ creator'[m] = u
      <4>1. CASE m = n
        <5>1. Users(m)' = Users(n)'
          BY <4>1 DEF Users
        <5>2. QED
          BY <1>1, <3>2, <3>3, <4>1, <5>1
      <4>2. CASE m # n
        <5>1. Users(m)' = Users(m) /\ usage_count'[m] = usage_count[m] /\ creator'[m] = creator[m]
          BY <1>1, <3>4, <4>2
        <5>2. QED
          BY <3>5, <5>1 DEF Sound, Counted
      <4>3. QED
        BY <4>1, <4>2
    <3>7. QED
      BY <2>1, <3>6 DEF Counted
  <2>6. Owned'
    BY <1>0 DEF Sound, Owned
  <2>7. QED
    BY <2>2, <2>3, <2>4, <2>5, <2>6 DEF Sound
<1>4. QED
  BY <1>2, <1>3

\* A kill takes only mutexes that no other task uses.
LEMMA KillSound ==
  ASSUME TypeOK, Sound, faults' = {}, NEW t \in Tasks, Kill(t)
  PROVE  Sound'
<1> USE DEF Goto, HasOpen, Past, Busy, Calls, TypeOK, Kill, Remove
<1>0. /\ \A u \in Tasks \ {t} : h[u] \notin Created(t)
      /\ HasOpen(t) => h[t] \in Created(t)
      /\ pc[t] = "fill" => h[t] \in Created(t)
  BY DEF Note, Sound, Filling, Created
<1>1. Made' = Made \ Created(t)
  BY <1>0 DEF Made
<1>2. \A n \in Made' : Users(n)' = Users(n)
  BY <1>0, <1>1 DEF Users, Created, Made
<1>3. Tied'
  BY <1>0, <1>1 DEF Sound, Tied, IsNamed
<1>4. Filling'
  BY <1>0, <1>1 DEF Sound, Filling, IsNamed
<1>5. OneName'
  BY <1>1 DEF Sound, OneName
<1>6. Counted'
  <2>1. ASSUME NEW n \in Made', NEW u \in Tasks, pc[u] = "count", h[u] = n, creator[n] = u
        PROVE  pc'[u] = "count" /\ h'[u] = n
    <3>1. n \in listed /\ n \notin Created(t)
      BY <1>1, <2>1 DEF Made
    <3>2. u # t
      BY <2>1, <3>1 DEF Created
    <3>3. QED
      BY <2>1, <3>2
  <2>2. QED
    BY <1>1, <1>2, <2>1 DEF Sound, Counted
<1>7. Owned'
  BY <1>0 DEF Sound, Owned
<1>8. QED
  BY <1>3, <1>4, <1>5, <1>6, <1>7 DEF Sound
\* A file takes an unused node, which no task has, and gives back one that is no mutex.
LEMMA FileSound ==
  ASSUME TypeOK, Sound, NEW t \in Tasks, FileOpen(t) \/ FileClose(t)
  PROVE  Sound'
<1>1. PICK S \in SUBSET Nodes, T \in SUBSET Nodes :
        /\ listed' = (listed \cup S) \ T
        /\ isMutex' = isMutex \ S
        /\ \A n \in Nodes \ S : creator'[n] = creator[n]
        /\ S \cap listed = {} /\ T \subseteq Made \ isMutex
        /\ UNCHANGED <<name, lock_count, usage_count, owner, pc, want, h, holds>>
  <2>1. CASE FileOpen(t)
    <3>1. PICK n \in Nodes : PushBack(n) /\ creator' = [creator EXCEPT ![n] = t] /\ isMutex' = isMutex \ {n}
      BY <2>1 DEF FileOpen
    <3>2. /\ listed' = (listed \cup {n}) \ {} /\ n \notin listed
          /\ \A m \in Nodes \ {n} : creator'[m] = creator[m]
          /\ UNCHANGED <<name, lock_count, usage_count, owner, pc, want, h, holds>>
      BY <2>1, <3>1 DEF FileOpen, PushBack, history, TypeOK
    <3>3. {n} \in SUBSET Nodes /\ {} \in SUBSET Nodes /\ {n} \cap listed = {}
      BY <3>2
    <3>4. QED
      BY <3>1, <3>2, <3>3
  <2>2. CASE FileClose(t)
    <3>1. PICK n \in Files(t) : Remove({n})
      BY <2>2 DEF FileClose
    <3>2. /\ listed' = (listed \cup {}) \ {n} /\ isMutex' = isMutex \ {}
          /\ UNCHANGED <<name, creator, lock_count, usage_count, owner, pc, want, h, holds>>
      BY <2>2, <3>1 DEF FileClose, Remove, history
    <3>3. {n} \subseteq Made \ isMutex /\ {n} \in SUBSET Nodes /\ {} \in SUBSET Nodes
      BY DEF Files, Made, TypeOK
    <3>4. QED
      BY <3>2, <3>3
  <2>3. QED
    BY <2>1, <2>2
<1>2. Made' = (Made \cup S) \ T
  BY <1>1 DEF Made, Sound, Filling
<1>3. (Made \cap isMutex)' = Made \cap isMutex /\ (Made \cap isMutex) \cap S = {}
  BY <1>1, <1>2 DEF Made
<1>4. \A n : Users(n)' = Users(n)
  BY <1>1 DEF Users, HasOpen
<1>5. \A n \in Made' : \A x : IsNamed(n, x)' => n \in Made /\ IsNamed(n, x)
  BY <1>1, <1>2 DEF IsNamed
<1>6. Tied'
  <2>1. ASSUME NEW u \in Tasks, pc[u] \in Past
        PROVE  h[u] \in Made' /\ IsNamed(h[u], want[u])'
    <3>1. h[u] \in Made \cap isMutex /\ name[h[u]] = want[u]
      BY <2>1 DEF Sound, Tied, IsNamed
    <3>2. h[u] \in (Made \cap isMutex)'
      BY <1>3, <3>1
    <3>3. QED
      BY <1>1, <3>1, <3>2 DEF IsNamed
  <2>2. QED
    BY <1>1, <2>1 DEF Tied, IsNamed
<1>7. Filling'
  <2>1. ASSUME NEW u \in Tasks, pc[u] = "fill"
        PROVE  /\ h[u] \in listed' /\ creator'[h[u]] = u
               /\ \A n \in Made' : ~IsNamed(n, want[u])'
               /\ \A v \in Tasks : pc[v] = "fill" /\ v # u => h[v] # h[u] /\ want[v] # want[u]
    <3>1. /\ h[u] \in listed /\ creator[h[u]] = u /\ h[u] \notin Made
          /\ \A n \in Made : ~IsNamed(n, want[u])
          /\ \A v \in Tasks : pc[v] = "fill" /\ v # u => h[v] # h[u] /\ want[v] # want[u]
      BY <2>1 DEF Sound, Filling, Made
    <3>2. h[u] \in Nodes /\ h[u] \notin S /\ h[u] \notin T
      BY <1>1, <3>1 DEF TypeOK
    <3>3. \A n \in Made' : ~IsNamed(n, want[u])'
      BY <1>1, <1>5, <3>1 DEF IsNamed
    <3>4. QED
      BY <1>1, <3>1, <3>2, <3>3
  <2>2. QED
    BY <1>1, <2>1 DEF Filling, IsNamed
<1>8. OneName'
  BY <1>1, <1>3 DEF Sound, OneName
<1>9. Counted'
  <2>1. \A n \in Made \cap isMutex : creator'[n] = creator[n]
    BY <1>1, <1>3 DEF Made, TypeOK
  <2>2. QED
    BY <1>1, <1>3, <1>4, <2>1 DEF Sound, Counted
<1>10. Owned'
  BY <1>1 DEF Sound, Owned, HasOpen
<1>11. QED
  BY <1>6, <1>7, <1>8, <1>9, <1>10 DEF Sound
-----------------------------------------------------------------------------
\* The inductive invariant holds in every state.
LEMMA MutexInvCorrect == Spec => []MutexInv
<1>1. Init => MutexInv
  <2> SUFFICES ASSUME Init PROVE MutexInv
    OBVIOUS
  <2>1. Made = {} /\ \A t \in Tasks : pc[t] = "idle" /\ holds[t] = 0
    BY DEF Init, Made
  <2>2. QED
    BY <2>1, TypeInit
       DEF MutexInv, Sound, Tied, Filling, OneName, Counted, Owned, HasOpen, Past, Busy, Calls
<1>2. MutexInv /\ [Next]_vars => MutexInv'
  <2> SUFFICES ASSUME MutexInv, [Next]_vars, faults' = {} PROVE Sound'
    BY TypeStep DEF MutexInv
  <2>1. TypeOK
    BY DEF MutexInv
  <2>2. faults = {}
    BY DEF Next, vars, history, Ended
  <2>3. Sound
    BY <2>2 DEF MutexInv
  <2>4. CASE UNCHANGED vars
    BY <2>3, <2>4 DEF vars, fields, list, history, Sound, Tied, Filling, OneName, Counted, Owned,
                      Made, Users, HasOpen, IsNamed
  <2>5. CASE Next
    BY <2>1, <2>2, <2>3, <2>4, <2>5, LookupSound, CreateSound, FillSound, CountSound, LockSound,
       CloseSound, KillSound, FileSound DEF Next, Step, Ended, Waits, Looks
  <2>6. QED
    BY <2>4, <2>5
<1>3. QED
  BY <1>1, <1>2, PTL DEF Spec

\* HeldByOne: as long as no window is hit, the mutex of a name is held by one
\* task, which has as many locks to give back as lock_count says.
THEOREM Exclusive == Spec => []HeldByOne
<1>1. MutexInv => HeldByOne
  <2> SUFFICES ASSUME TypeOK, Sound, NEW t \in Tasks, NEW u \in Tasks, holds[t] > 0
               PROVE  /\ owner[h[t]] = t /\ lock_count[h[t]] = holds[t]
                      /\ holds[u] > 0 /\ name[h[t]] = name[h[u]] => t = u
    BY DEF MutexInv, HeldByOne
  <2>1. \A v \in Tasks : holds[v] > 0 => /\ owner[h[v]] = v /\ lock_count[h[v]] = holds[v]
                                         /\ h[v] \in Made /\ h[v] \in isMutex
    BY DEF Sound, Owned, Tied, HasOpen, Past, Busy, IsNamed
  <2>2. QED
    BY <2>1 DEF Sound, OneName
<1>2. QED
  BY <1>1, MutexInvCorrect, PTL

\* OpenIsKept: as long as no window is hit, no task's open mutex is closed by
\* another, and none is left over when its last user closed it.
THEOREM Kept == Spec => []OpenIsKept
<1>1. MutexInv => OpenIsKept
  BY DEF MutexInv, OpenIsKept, Sound, Tied, Counted, HasOpen, Past, Busy
<1>2. QED
  BY <1>1, MutexInvCorrect, PTL
-----------------------------------------------------------------------------
\* The lock_count of a mutex in use is that of one of its users.
Held == \A n \in Made : Users(n) # {} /\ lock_count[n] > 0 =>
          \E t \in Users(n) : owner[n] = t /\ holds[t] = lock_count[n]

\* Nothing changes of a mutex but who waits for it, or has it open and holds no lock.
LEMMA HeldSame ==
  ASSUME Held, Made' \subseteq Made, UNCHANGED <<lock_count, owner>>,
         \A n \in Made' : Users(n)' \subseteq Users(n),
         \A n \in Made' : \A u \in Users(n) :
           holds[u] > 0 => u \in Users(n)' /\ holds'[u] = holds[u]
  PROVE  Held'
<1> SUFFICES ASSUME NEW n \in Made', Users(n)' # {}, lock_count[n] > 0
             PROVE  \E t \in Users(n)' : owner[n] = t /\ holds'[t] = lock_count[n]
  BY DEF Held
<1>1. PICK t \in Users(n) : owner[n] = t /\ holds[t] = lock_count[n]
  BY DEF Held
<1>2. QED
  BY <1>1

\* Every step that hits no window keeps it.
LEMMA HeldStep ==
  ASSUME TypeOK, Sound, Held, Next, faults = {}, faults' = {}
  PROVE  Held'
<1> USE DEF Goto
<1>n. \A t \in Tasks : HasOpen(t) => h[t] \in Nodes /\ h[t] \in Made
  BY DEF Sound, Tied, HasOpen, Past, Busy, TypeOK, Made
<1>m. Made \subseteq Nodes
  BY DEF Made, TypeOK
\* The steps of open before the count is written.
<1>1. ASSUME NEW t \in Tasks, Looks(t) \/ \E n \in Nodes : OpenCreate(t, n)
      PROVE  Held'
  <2>1. /\ ~HasOpen(t) /\ ~HasOpen(t)' /\ UNCHANGED <<lock_count, owner, holds>>
        /\ \A u \in Tasks \ {t} : pc'[u] = pc[u] /\ h'[u] = h[u]
        /\ pc[t] # "fill"
    <3>1. CASE Looks(t)
      BY <3>1, LooksOnly DEF HasOpen, Calls
    <3>2. CASE \E n \in Nodes : OpenCreate(t, n)
      BY <3>2 DEF OpenCreate, HasOpen, Calls, TypeOK
    <3>3. QED
      BY <1>1, <3>1, <3>2
  <2>2. \A n : Users(n)' = Users(n)
    BY <2>1 DEF Users, HasOpen
  <2>3. Made' \subseteq Made
    <3>1. ASSUME NEW n \in Nodes, OpenCreate(t, n) PROVE Made' \subseteq Made
      <4>1. listed' = listed \cup {n} /\ pc'[t] = "fill" /\ h'[t] = n
        BY <3>1 DEF OpenCreate, PushBack, TypeOK
      <4>2. QED
        BY <2>1, <4>1 DEF Made
    <3>2. CASE listed' = listed
      BY <2>1, <3>2 DEF Made
    <3>3. QED
      BY <1>1, <3>1, <3>2, LooksOnly DEF fields, list
  <2>4. QED
    BY <2>1, <2>2, <2>3, HeldSame
<1>2. ASSUME NEW t \in Tasks, OpenFill(t) PROVE Held'
  <2>1. /\ ~HasOpen(t) /\ ~HasOpen(t)' /\ UNCHANGED <<lock_count, owner, holds, h>>
        /\ \A u \in Tasks \ {t} : pc'[u] = pc[u]
    BY <1>2 DEF OpenFill, HasOpen, Calls, history, TypeOK
  <2>2. \A n : Users(n)' = Users(n)
    BY <2>1 DEF Users, HasOpen
  <2>3. ASSUME NEW n \in Made', Users(n) # {} PROVE n \in Made
    BY <1>n, <2>3 DEF Users
  <2>4. QED
    BY <2>1, <2>2, <2>3 DEF Held
<1>3. ASSUME NEW t \in Tasks, OpenCount(t) PROVE Held'
  <2>1. /\ ~HasOpen(t) /\ h[t] \in Nodes /\ UNCHANGED <<owner, holds, h, listed>>
        /\ lock_count' = [lock_count EXCEPT ![h[t]] = 0]
        /\ \A u \in Tasks \ {t} : pc'[u] = pc[u]
    BY <1>3 DEF OpenCount, HasOpen, Calls, TypeOK, fields, list
  <2>2. \A n \in Nodes \ {h[t]} : Users(n)' = Users(n)
    BY <2>1 DEF Users, HasOpen
  <2>3. Made' = Made
    BY <1>3, <2>1 DEF OpenCount, Made, TypeOK
  <2>4. lock_count'[h[t]] = 0 /\ \A n \in Nodes \ {h[t]} : lock_count'[n] = lock_count[n]
    BY <2>1 DEF TypeOK
  <2>5. QED
    BY <1>m, <2>1, <2>2, <2>3, <2>4 DEF Held
\* lock and release change the count of the task that goes on.
<1>4. ASSUME NEW t \in Tasks, NEW place \in Busy, HasOpen(t),
             pc' = [pc EXCEPT ![t] = place], UNCHANGED <<fields, h>>
      PROVE  Made' = Made /\ \A n : Users(n)' = Users(n)
  <2>1. \A u \in Tasks : HasOpen(u)' <=> HasOpen(u)
    BY <1>4 DEF HasOpen, Busy, TypeOK
  <2>2. pc[t] # "fill" /\ pc'[t] # "fill" /\ \A u \in Tasks \ {t} : pc'[u] = pc[u]
    BY <1>4 DEF HasOpen, Busy, Calls, TypeOK
  <2>3. QED
    BY <1>4, <2>1, <2>2 DEF Users, Made, fields, list
<1>5. ASSUME NEW t \in Tasks, Waits(t) PROVE Held'
  <2>1. Made' = Made /\ \A n : Users(n)' = Users(n)
    BY <1>4, <1>5, WaitsOnly
  <2>2. UNCHANGED <<lock_count, owner, holds>>
    BY <1>5, WaitsOnly DEF history
  <2>3. QED
    BY <2>1, <2>2, HeldSame
<1>6. ASSUME NEW t \in Tasks, FileOpen(t) \/ FileClose(t) PROVE Held'
  <2>1. UNCHANGED <<lock_count, owner, holds, pc, h>>
    BY <1>6 DEF FileOpen, FileClose, history
  <2>2. \A n : Users(n)' = Users(n)
    BY <2>1 DEF Users, HasOpen
  <2>3. ASSUME NEW n \in Made', Users(n) # {} PROVE n \in Made
    BY <1>n, <2>3 DEF Users
  <2>4. QED
    BY <2>1, <2>2, <2>3 DEF Held
<1>7. ASSUME NEW t \in Tasks, HasOpen(t), Made' = Made, \A n : Users(n)' = Users(n),
             \A n \in Nodes \ {h[t]} : lock_count'[n] = lock_count[n] /\ owner'[n] = owner[n],
             \A u \in Tasks \ {t} : holds'[u] = holds[u],
             owner'[h[t]] = t, holds'[t] = lock_count'[h[t]],
             owner[h[t]] = t \/ lock_count[h[t]] = 0
      PROVE  Held'
  <2> SUFFICES ASSUME NEW n \in Made, Users(n) # {}, lock_count'[n] > 0
               PROVE  \E u \in Users(n) : owner'[n] = u /\ holds'[u] = lock_count'[n]
    BY <1>7 DEF Held
  <2>1. CASE n = h[t]
    BY <1>7, <2>1 DEF Users
  <2>2. CASE n # h[t]
    <3>1. lock_count'[n] = lock_count[n] /\ owner'[n] = owner[n]
      BY <1>7, <1>m, <2>2
    <3>2. PICK u \in Users(n) : owner[n] = u /\ holds[u] = lock_count[n]
      BY <3>1 DEF Held
    <3>3. u # t /\ u \in Tasks
      BY <2>2, <3>2 DEF Users
    <3>4. QED
      BY <1>7, <3>1, <3>2, <3>3
  <2>3. QED
    BY <2>1, <2>2
<1>8. ASSUME NEW t \in Tasks, LockAgain(t) PROVE Held'
  <2>1. HasOpen(t) /\ owner[h[t]] = t /\ h[t] \in Nodes /\ lock_count[h[t]] = holds[t]
    BY <1>8, <1>n DEF LockAgain, HasOpen, Note, Sound, Owned
  <2>2. Made' = Made /\ \A n : Users(n)' = Users(n)
    BY <1>4, <1>8, <2>1 DEF LockAgain, Busy
  <2>3. QED
    BY <1>7, <1>8, <2>1, <2>2 DEF LockAgain, TypeOK
<1>9. ASSUME NEW t \in Tasks, LockTake(t) PROVE Held'
  <2>1. HasOpen(t) /\ h[t] \in Nodes /\ lock_count[h[t]] = 0
    BY <1>9, <1>n DEF LockTake, HasOpen
  <2>2. Made' = Made /\ \A n : Users(n)' = Users(n)
    BY <1>4, <1>9, <2>1 DEF LockTake, Busy
  <2>3. holds[t] = 0
    <3>1. ~(holds[t] > 0)
      BY <2>1 DEF Sound, Owned, TypeOK
    <3>2. QED
      BY <3>1 DEF TypeOK
  <2>4. QED
    BY <1>7, <1>9, <2>1, <2>2, <2>3 DEF LockTake, TypeOK
<1>10. ASSUME NEW t \in Tasks, Release(t) PROVE Held'
  <2>1. HasOpen(t) /\ owner[h[t]] = t /\ h[t] \in Nodes /\ lock_count[h[t]] = holds[t]
    BY <1>10, <1>n DEF Release, Finds, HasOpen, Calls, Sound, Owned
  <2>2. pc' = [pc EXCEPT ![t] = "open"]
    BY <1>10 DEF Release, TypeOK
  <2>3. Made' = Made /\ \A n : Users(n)' = Users(n)
    BY <1>4, <1>10, <2>1, <2>2 DEF Release, Busy
  <2>4. QED
    BY <1>7, <1>10, <2>1, <2>3 DEF Release, Released, TypeOK
<1>11. ASSUME NEW t \in Tasks, Close(t) PROVE Held'
  <2>1. /\ holds[t] = 0 /\ UNCHANGED <<lock_count, owner, holds>> /\ ~HasOpen(t)'
        /\ \A u \in Tasks \ {t} : pc'[u] = pc[u] /\ h'[u] = h[u]
    BY <1>11 DEF Close, Finds, HasOpen, Calls, Sound, Owned, TypeOK
  <2>2. Made' \subseteq Made
    BY <1>11, <2>1 DEF Close, Finds, Remove, Made, TypeOK
  <2>3. \A n : Users(n)' = Users(n) \ {t}
    BY <2>1 DEF Users, HasOpen
  <2>4. QED
    BY <2>1, <2>2, <2>3, HeldSame
<1>12. ASSUME NEW t \in Tasks, Kill(t) PROVE Held'
  <2>1. /\ ~HasOpen(t)' /\ UNCHANGED <<lock_count, owner>>
        /\ HasOpen(t) => h[t] \in Created(t)
        /\ listed' = listed \ Created(t)
        /\ \A u \in Tasks \ {t} : pc'[u] = pc[u] /\ h'[u] = h[u] /\ holds'[u] = holds[u]
    BY <1>12 DEF Kill, Remove, HasOpen, Calls, TypeOK, Note
  <2>2. Made' \subseteq Made
    <3>1. pc[t] = "fill" => h[t] \in Created(t)
      BY DEF Sound, Filling, Created
    <3>2. QED
      BY <2>1, <3>1 DEF Made
  <2>3. \A n \in Made' : n \notin Created(t)
    BY <2>1 DEF Made
  <2>4. \A n \in Made' : Users(n)' = Users(n) /\ t \notin Users(n)
    BY <2>1, <2>3 DEF Users, HasOpen
  <2>5. \A n \in Made' : \A u \in Users(n) : u \in Tasks \ {t}
    BY <2>4 DEF Users
  <2>6. QED
    BY <2>1, <2>2, <2>4, <2>5, HeldSame
<1>13. QED
  BY <1>1, <1>2, <1>3, <1>5, <1>6, <1>8, <1>9, <1>10, <1>11, <1>12
     DEF Next, Step, Ended, Waits, Looks

LEMMA HeldAlways == Spec => [](faults = {} => Held)
<1>1. Init => Held
  BY DEF Init, Held, Made
<1>2. MutexInv /\ (faults = {} => Held) /\ [Next]_vars => (faults = {} => Held)'
  <2> SUFFICES ASSUME MutexInv, faults = {} => Held, [Next]_vars, faults' = {}
               PROVE  Held'
    OBVIOUS
  <2>1. faults = {} /\ TypeOK /\ Sound
    BY DEF MutexInv, Next, vars, history, Ended
  <2>2. CASE UNCHANGED vars
    BY <2>1, <2>2 DEF vars, fields, list, history, Held, Made, Users, HasOpen
  <2>3. QED
    BY <2>1, <2>2, HeldStep
<1>3. QED
  BY <1>1, <1>2, MutexInvCorrect, PTL DEF Spec

\* LockHasHolder: as long as no window is hit, a mutex in use is never left locked
\* by nobody.
THEOREM NoLockLeftOver == Spec => []LockHasHolder
<1>1. (faults = {} => Held) => LockHasHolder
  BY DEF Held, LockHasHolder
<1>2. QED
  BY <1>1, HeldAlways, PTL

\* LocksHeld: locks and holders match until a window is hit.
THEOREM LocksMatch == Spec => []LocksHeld
<1>1. HeldByOne /\ LockHasHolder => LocksHeld
  BY DEF LocksHeld
<1>2. QED
  BY <1>1, Exclusive, NoLockLeftOver, PTL
-----------------------------------------------------------------------------
(***************************************************************************)
(* The refinement: every step but those that hit a window is one of the    *)
(* abstract locks, or none.                                                *)
(***************************************************************************)
Rows == {LockOf(n) : n \in {m \in Nodes : Locked(m)}}

\* A mutex has a name, and so does one that is being made.
NamesReal == /\ \A n \in isMutex : name[n] \in Names
             /\ \A t \in Tasks : pc[t] \in {"find", "create", "fill"} => want[t] \in Names

NoWindow == TypeOK /\ Sound /\ Held /\ NamesReal

LEMMA NamesStep == TypeOK /\ NamesReal /\ [Next]_vars => NamesReal'
<1> SUFFICES ASSUME TypeOK, NamesReal, [Next]_vars PROVE NamesReal'
  OBVIOUS
<1> USE DEF NamesReal, Goto, TypeOK
<1>1. ASSUME NEW t \in Tasks, Looks(t) PROVE NamesReal'
  BY <1>1 DEF Looks, OpenBegin, OpenNext, OpenFound, StandOn, fields
<1>2. ASSUME NEW t \in Tasks, FileOpen(t) \/ FileClose(t) PROVE NamesReal'
  BY <1>2 DEF FileOpen, FileClose
<1>3. ASSUME NEW t \in Tasks, NEW n \in Nodes, OpenCreate(t, n) PROVE NamesReal'
  BY <1>3 DEF OpenCreate
<1>4. ASSUME NEW t \in Tasks, OpenFill(t) PROVE NamesReal'
  BY <1>4 DEF OpenFill
<1>5. ASSUME NEW t \in Tasks, OpenCount(t) PROVE NamesReal'
  BY <1>5 DEF OpenCount, fields
<1>6. ASSUME NEW t \in Tasks, Waits(t) PROVE NamesReal'
  BY <1>6, WaitsOnly DEF fields, Busy, Calls
<1>7. ASSUME NEW t \in Tasks, LockAgain(t) \/ LockTake(t) PROVE NamesReal'
  BY <1>7 DEF LockAgain, LockTake, fields
<1>8. ASSUME NEW t \in Tasks, Release(t) PROVE NamesReal'
  BY <1>8 DEF Release, fields
<1>9. ASSUME NEW t \in Tasks, Close(t) \/ Kill(t) PROVE NamesReal'
  BY <1>9 DEF Close, Kill
<1>10. CASE UNCHANGED vars
  BY <1>10 DEF vars, fields
<1>11. QED
  BY <1>1, <1>2, <1>3, <1>4, <1>5, <1>6, <1>7, <1>8, <1>9, <1>10
     DEF Next, Step, Ended, Waits, Looks

\* A locked mutex is made, its owner has it open, and no other has its name.
LEMMA LockedIs ==
  ASSUME NoWindow, NEW n \in Nodes, Locked(n)
  PROVE  /\ n \in Made
         /\ \E u \in Users(n) : owner[n] = u /\ holds[u] = lock_count[n]
         /\ \A m \in Made : m \in isMutex /\ name[m] = name[n] => m = n
<1>1. n \in Made
  BY DEF Locked, Users, NoWindow, Sound, Tied, HasOpen, Past, Busy
<1>2. QED
  BY <1>1 DEF Locked, NoWindow, Held, Sound, OneName

\* What a task works on when it has a mutex open.
LEMMA OpenIs ==
  ASSUME NoWindow, NEW t \in Tasks, HasOpen(t)
  PROVE  /\ h[t] \in Nodes /\ h[t] \in Made /\ h[t] \in listed /\ h[t] \in isMutex
         /\ t \in Users(h[t]) /\ name[h[t]] \in Names
         /\ Locked(h[t]) <=> lock_count[h[t]] > 0
<1>1. h[t] \in Made /\ h[t] \in isMutex
  BY DEF NoWindow, Sound, Tied, HasOpen, Past, Busy, IsNamed
<1>2. h[t] \in listed /\ h[t] \in Nodes /\ t \in Users(h[t])
  BY <1>1 DEF NoWindow, TypeOK, Made, Users
<1>3. QED
  BY <1>1, <1>2 DEF NoWindow, NamesReal, Locked

\* How the set of locks changes when only node n does.
LEMMA OneChanged ==
  ASSUME NoWindow, NEW n \in Nodes,
         \A m \in Nodes \ {n} : (Locked(m)' <=> Locked(m)) /\ LockOf(m)' = LockOf(m)
  PROVE  /\ ~Locked(n) /\ ~Locked(n)' => Rows' = Rows
         /\ ~Locked(n) /\ Locked(n)' => Rows' = Rows \cup {LockOf(n)'}
         /\ Locked(n) /\ ~Locked(n)' => Rows' = Rows \ {LockOf(n)}
         /\ Locked(n) /\ Locked(n)' => Rows' = (Rows \ {LockOf(n)}) \cup {LockOf(n)'}
<1> DEFINE L == {m \in Nodes : Locked(m)}
           K == {m \in Nodes : Locked(m)'}
<1>1. Rows = {LockOf(m) : m \in L} /\ Rows' = {LockOf(m)' : m \in K}
  BY DEF Rows
<1>2. Locked(n) => \A m \in L \ {n} : LockOf(m) # LockOf(n)
  <2> SUFFICES ASSUME Locked(n), NEW m \in L \ {n}, LockOf(m) = LockOf(n) PROVE FALSE
    OBVIOUS
  <2>1. LockOf(m).name = name[m] /\ LockOf(n).name = name[n]
    BY DEF LockOf
  <2>2. m \in Made /\ m \in isMutex
    BY LockedIs DEF Locked
  <2>3. QED
    BY <2>1, <2>2, LockedIs
<1>3. K \ {n} = L \ {n} /\ \A m \in L \ {n} : LockOf(m)' = LockOf(m)
  OBVIOUS
<1>4. (n \in L <=> Locked(n)) /\ (n \in K <=> Locked(n)')
  OBVIOUS
<1> HIDE DEF L, K
<1>5. QED
  BY <1>1, <1>2, <1>3, <1>4

\* Nothing changes when neither the fields nor the users do.
LEMMA RowsSame ==
  ASSUME \A m \in Nodes : (Locked(m)' <=> Locked(m)) /\ (Locked(m) => LockOf(m)' = LockOf(m))
  PROVE  Rows' = Rows
BY DEF Rows

\* open changes no lock: the node it makes or finds has no user yet, and the count
\* it resets is 0 where there are users.
LEMMA OpenRefines ==
  ASSUME NoWindow, faults = {}, faults' = {}, NEW t \in Tasks,
         Looks(t) \/ (\E n \in Nodes : OpenCreate(t, n)) \/ OpenFill(t) \/ OpenCount(t)
  PROVE  Rows' = Rows
<1> USE DEF Goto
<1>n. \A u \in Tasks : HasOpen(u) => h[u] \in Made /\ h[u] \in listed
  BY DEF NoWindow, Sound, Tied, HasOpen, Past, Busy, Made
<1>1. ASSUME Looks(t) \/ \E n \in Nodes : OpenCreate(t, n)
      PROVE  Rows' = Rows
  <2>1. /\ ~HasOpen(t) /\ ~HasOpen(t)' /\ UNCHANGED <<lock_count, owner, isMutex, name>>
        /\ \A u \in Tasks \ {t} : pc'[u] = pc[u] /\ h'[u] = h[u]
        /\ listed \subseteq listed'
    <3>1. CASE Looks(t)
      BY <3>1, LooksOnly DEF HasOpen, Calls, fields, list, NoWindow
    <3>2. CASE \E n \in Nodes : OpenCreate(t, n)
      BY <3>2 DEF OpenCreate, PushBack, HasOpen, Calls, NoWindow, TypeOK
    <3>3. QED
      BY <1>1, <3>1, <3>2
  <2>2. \A n : Users(n)' = Users(n)
    BY <2>1 DEF Users, HasOpen
  <2>3. \A n \in Nodes : Users(n) # {} => n \in listed
    BY <1>n DEF Users
  <2>5. ASSUME NEW m \in Nodes
        PROVE  (Locked(m)' <=> Locked(m)) /\ LockOf(m)' = LockOf(m)
    BY <2>1, <2>2, <2>3 DEF Locked, LockOf
  <2>6. QED
    BY <2>5, RowsSame
<1>2. CASE OpenFill(t)
  <2>1. /\ ~HasOpen(t) /\ ~HasOpen(t)' /\ UNCHANGED <<lock_count, owner, listed, h>>
        /\ h[t] \in Nodes /\ h[t] \notin Made
        /\ \A u \in Tasks \ {t} : pc'[u] = pc[u]
        /\ \A m \in Nodes \ {h[t]} : name'[m] = name[m]
        /\ isMutex' = isMutex \cup {h[t]}
    BY <1>2 DEF OpenFill, HasOpen, Calls, list, NoWindow, TypeOK, Made
  <2>2. \A n : Users(n)' = Users(n)
    BY <2>1 DEF Users, HasOpen
  <2>3. Users(h[t]) = {}
    BY <1>n, <2>1 DEF Users
  <2>4. ASSUME NEW m \in Nodes
        PROVE  (Locked(m)' <=> Locked(m)) /\ (Locked(m) => LockOf(m)' = LockOf(m))
    BY <2>1, <2>2, <2>3 DEF Locked, LockOf
  <2>5. QED
    BY <2>4, RowsSame
<1>3. CASE OpenCount(t)
  <2>1. /\ ~HasOpen(t) /\ h[t] \in Nodes /\ UNCHANGED <<owner, h, listed, isMutex, name>>
        /\ lock_count' = [lock_count EXCEPT ![h[t]] = 0]
        /\ \A u \in Tasks \ {t} : pc'[u] = pc[u]
        /\ Holders(h[t]) = {}
    BY <1>3 DEF OpenCount, HasOpen, Calls, NoWindow, TypeOK, fields, list, Note
  <2>2. \A n \in Nodes \ {h[t]} : Users(n)' = Users(n) /\ lock_count'[n] = lock_count[n]
    BY <2>1 DEF Users, HasOpen, NoWindow, TypeOK
  <2>3. lock_count'[h[t]] = 0
    BY <2>1 DEF NoWindow, TypeOK
  <2>4. ~Locked(h[t])
    <3>1. ASSUME Locked(h[t]) PROVE FALSE
      <4>1. PICK u \in Users(h[t]) : holds[u] = lock_count[h[t]]
        BY <2>1, <3>1, LockedIs
      <4>2. u \in Holders(h[t])
        BY <3>1, <4>1 DEF Locked, Users, Holders
      <4>3. QED
        BY <2>1, <4>2
    <3>2. QED
      BY <3>1
  <2>5. ASSUME NEW m \in Nodes
        PROVE  (Locked(m)' <=> Locked(m)) /\ (Locked(m) => LockOf(m)' = LockOf(m))
    <3>1. CASE m = h[t]
      <4>1. ~(lock_count'[m] > 0)
        BY <2>3, <3>1
      <4>2. QED
        BY <2>4, <3>1, <4>1 DEF Locked
    <3>2. CASE m # h[t]
      BY <2>1, <2>2, <3>2 DEF Locked, LockOf
    <3>3. QED
      BY <3>1, <3>2
  <2>6. QED
    BY <2>5, RowsSame
<1>4. QED
  BY <1>1, <1>2, <1>3

\* Steps of lock and release: only the count and owner of the task's mutex change.
LEMMA UsersStay ==
  ASSUME NoWindow, NEW t \in Tasks, HasOpen(t), HasOpen(t)',
         \A u \in Tasks \ {t} : pc'[u] = pc[u], UNCHANGED <<fields, h>>,
         NEW n \in Nodes, n = h[t],
         \A m \in Nodes \ {n} : lock_count'[m] = lock_count[m] /\ owner'[m] = owner[m]
  PROVE  /\ \A m \in Nodes \ {n} : (Locked(m)' <=> Locked(m)) /\ LockOf(m)' = LockOf(m)
         /\ Locked(n) <=> lock_count[n] > 0
         /\ Locked(n)' <=> lock_count'[n] > 0
         /\ LockOf(n)' = [name |-> name[n], owner |-> owner'[n], depth |-> lock_count'[n]]
<1>1. \A m : Users(m)' = Users(m)
  BY DEF Users, HasOpen
<1>2. t \in Users(n) /\ n \in listed /\ n \in isMutex /\ (Locked(n) <=> lock_count[n] > 0)
  BY OpenIs
<1>3. QED
  BY <1>1, <1>2 DEF Locked, LockOf, fields, list

\* One more: the mutex was free, or the task's own.
LEMMA AcquireRefines ==
  ASSUME NoWindow, NEW t \in Tasks, HasOpen(t), HasOpen(t)',
         \A u \in Tasks \ {t} : pc'[u] = pc[u], UNCHANGED <<fields, h>>,
         NEW n \in Nodes, n = h[t],
         \A m \in Nodes \ {n} : lock_count'[m] = lock_count[m] /\ owner'[m] = owner[m],
         owner'[n] = t, lock_count'[n] = lock_count[n] + 1,
         lock_count[n] = 0 \/ owner[n] = t
  PROVE  Promise!Acquire(t)
<1>1. /\ \A m \in Nodes \ {n} : (Locked(m)' <=> Locked(m)) /\ LockOf(m)' = LockOf(m)
      /\ Locked(n) <=> lock_count[n] > 0
      /\ Locked(n)' <=> lock_count'[n] > 0
      /\ LockOf(n)' = [name |-> name[n], owner |-> t, depth |-> lock_count[n] + 1]
  BY UsersStay
<1>2. /\ name[n] \in Names /\ n \in Made /\ n \in isMutex /\ lock_count[n] \in Nat
  BY OpenIs DEF NoWindow, TypeOK
<1>3. Locked(n)'
  BY <1>1, <1>2
<1>4. CASE lock_count[n] = 0
  <2>1. Rows' = Rows \cup {[name |-> name[n], owner |-> t, depth |-> 1]}
    BY <1>1, <1>3, <1>4, OneChanged
  <2>2. ASSUME NEW m \in Nodes, Locked(m), LockOf(m).name = name[n] PROVE FALSE
    <3>1. name[m] = name[n]
      BY <2>2 DEF LockOf
    <3>2. m = n
      BY <1>2, <2>2, <3>1, LockedIs
    <3>3. QED
      BY <1>1, <1>4, <2>2, <3>2
  <2>3. ~Promise!Taken(name[n])
    BY <2>2 DEF Promise!Taken
  <2>4. QED
    BY <1>2, <2>1, <2>3 DEF Promise!Acquire, Rows
<1>5. CASE lock_count[n] > 0 /\ owner[n] = t
  <2>1. Rows' = (Rows \ {LockOf(n)}) \cup
                {[name |-> name[n], owner |-> t, depth |-> lock_count[n] + 1]}
    BY <1>1, <1>3, <1>5, OneChanged
  <2>2. /\ LockOf(n) \in Rows /\ LockOf(n).owner = t
        /\ LockOf(n).name = name[n] /\ LockOf(n).depth = lock_count[n]
    BY <1>1, <1>5 DEF Rows, LockOf
  <2>3. QED
    BY <2>1, <2>2 DEF Promise!Acquire, Rows
<1>6. QED
  BY <1>2, <1>4, <1>5

\* One less.
LEMMA GiveBackRefines ==
  ASSUME NoWindow, NEW t \in Tasks, HasOpen(t), HasOpen(t)',
         \A u \in Tasks \ {t} : pc'[u] = pc[u], UNCHANGED <<fields, h>>,
         NEW n \in Nodes, n = h[t],
         \A m \in Nodes \ {n} : lock_count'[m] = lock_count[m] /\ owner'[m] = owner[m],
         owner[n] = t, owner'[n] = t, lock_count[n] > 0, lock_count'[n] = lock_count[n] - 1
  PROVE  Promise!GiveBack(t)
<1>1. /\ \A m \in Nodes \ {n} : (Locked(m)' <=> Locked(m)) /\ LockOf(m)' = LockOf(m)
      /\ Locked(n)
      /\ Locked(n)' <=> lock_count'[n] > 0
      /\ LockOf(n)' = [name |-> name[n], owner |-> t, depth |-> lock_count[n] - 1]
  BY UsersStay
<1>2. /\ LockOf(n) \in Rows /\ LockOf(n).owner = t
      /\ LockOf(n).name = name[n] /\ LockOf(n).depth = lock_count[n]
  BY <1>1 DEF Rows, LockOf
<1>3. lock_count[n] \in Nat
  BY DEF NoWindow, TypeOK
<1>4. CASE lock_count[n] = 1
  <2>1. Rows' = Rows \ {LockOf(n)}
    BY <1>1, <1>4, OneChanged
  <2>2. QED
    BY <1>2, <1>4, <2>1 DEF Promise!GiveBack, Rows
<1>5. CASE lock_count[n] # 1
  <2>1. lock_count'[n] > 0
    BY <1>3, <1>5
  <2>2. Rows' = (Rows \ {LockOf(n)}) \cup
                {[name |-> name[n], owner |-> t, depth |-> lock_count[n] - 1]}
    BY <1>1, <2>1, OneChanged
  <2>3. QED
    BY <1>2, <1>5, <2>2 DEF Promise!GiveBack, Rows
<1>6. QED
  BY <1>4, <1>5

\* The steps of lock.
LEMMA LockRefines ==
  ASSUME NoWindow, faults' = {}, NEW t \in Tasks,
         Waits(t) \/ LockAgain(t) \/ LockTake(t) \/ Release(t)
  PROVE  Rows' = Rows \/ Promise!Acquire(t) \/ Promise!GiveBack(t)
<1> USE DEF Goto
<1>1. /\ HasOpen(t) /\ HasOpen(t)' /\ UNCHANGED <<fields, h>>
      /\ \A u \in Tasks \ {t} : pc'[u] = pc[u]
  <2>1. CASE Waits(t)
    BY <2>1, WaitsOnly DEF HasOpen, Busy, NoWindow, TypeOK
  <2>2. CASE LockAgain(t) \/ LockTake(t) \/ Release(t)
    BY <2>2 DEF LockAgain, LockTake, Release, Finds, HasOpen, Calls, NoWindow, TypeOK
  <2>3. QED
    BY <2>1, <2>2
<1>2. PICK n \in Nodes : n = h[t]
  BY <1>1, OpenIs
<1>3. lock_count[n] \in Nat
  BY DEF NoWindow, TypeOK
<1>4. CASE UNCHANGED <<lock_count, owner>>
  <2>1. /\ \A m \in Nodes \ {n} : (Locked(m)' <=> Locked(m)) /\ LockOf(m)' = LockOf(m)
        /\ Locked(n)' <=> Locked(n)
    BY <1>1, <1>2, <1>4, UsersStay
  <2>2. LockOf(n)' = LockOf(n)
    BY <1>1, <1>4 DEF LockOf, fields
  <2>3. QED
    BY <2>1, <2>2, RowsSame
<1>5. CASE LockAgain(t)
  <2>1. /\ owner[n] = t /\ owner'[n] = t /\ lock_count'[n] = lock_count[n] + 1
        /\ \A m \in Nodes \ {n} : lock_count'[m] = lock_count[m] /\ owner'[m] = owner[m]
    BY <1>2, <1>5 DEF LockAgain, Note, NoWindow, TypeOK
  <2>2. QED
    BY <1>1, <1>2, <2>1, AcquireRefines
<1>6. CASE LockTake(t)
  <2>1. /\ owner'[n] = t /\ lock_count[n] = 0 /\ lock_count'[n] = lock_count[n] + 1
        /\ \A m \in Nodes \ {n} : lock_count'[m] = lock_count[m] /\ owner'[m] = owner[m]
    BY <1>2, <1>6 DEF LockTake, NoWindow, TypeOK
  <2>2. QED
    BY <1>1, <1>2, <2>1, AcquireRefines
<1>7. CASE Release(t)
  <2>1. /\ owner[n] = t /\ owner'[n] = t /\ lock_count'[n] = Released(lock_count[n])
        /\ \A m \in Nodes \ {n} : lock_count'[m] = lock_count[m] /\ owner'[m] = owner[m]
    BY <1>2, <1>7 DEF Release, NoWindow, TypeOK
  <2>2. CASE lock_count[n] > 0
    <3>1. lock_count'[n] = lock_count[n] - 1
      BY <2>1, <2>2 DEF Released
    <3>2. QED
      BY <1>1, <1>2, <2>1, <2>2, <3>1, GiveBackRefines
  <2>3. CASE lock_count[n] = 0
    <3>1. lock_count' = lock_count /\ owner' = owner
      BY <1>2, <1>7, <2>1, <2>3 DEF Release, Released, NoWindow, TypeOK
    <3>2. QED
      BY <1>4, <3>1
  <2>4. QED
    BY <1>3, <2>2, <2>3
<1>8. QED
  BY <1>4, <1>5, <1>6, <1>7, WaitsOnly DEF NoWindow

\* The close of a mutex does not touch a lock: the task that closes holds none, and
\* as long as another does the node is not removed.
LEMMA CloseRefines ==
  ASSUME NoWindow, NEW t \in Tasks, Close(t)
  PROVE  Rows' = Rows
<1>1. PICK n \in Nodes : n = h[t] /\ HasOpen(t)
  BY OpenIs DEF Close, Finds, HasOpen, Calls
<1>2. /\ holds[t] = 0 /\ ~HasOpen(t)' /\ UNCHANGED <<lock_count, owner, isMutex, name>>
      /\ \A u \in Tasks \ {t} : pc'[u] = pc[u] /\ h'[u] = h[u]
      /\ listed' = IF usage_count[n] = 1 THEN listed \ {n} ELSE listed
  BY <1>1 DEF Close, Finds, Remove, Goto, HasOpen, Calls, NoWindow, Sound, Owned, TypeOK
<1>3. \A m : Users(m)' = Users(m) \ {t}
  BY <1>2 DEF Users, HasOpen
<1>4. \A m \in Nodes \ {n} : t \notin Users(m)
  BY <1>1 DEF Users
<1>5. ASSUME Locked(n) PROVE Locked(n)'
  <2>1. PICK u \in Users(n) : holds[u] = lock_count[n]
    BY <1>5, LockedIs
  <2>2. u # t /\ t \in Users(n)
    BY <1>1, <1>2, <1>5, <2>1, OpenIs DEF Locked
  <2>3. usage_count[n] = Cardinality(Users(n)) /\ IsFiniteSet(Users(n))
    BY <1>1, OpenIs, UsersFinite DEF NoWindow, Sound, Counted
  <2>4. usage_count[n] # 1
    <3>1. ASSUME Cardinality(Users(n)) = 1 PROVE FALSE
      <4>1. \E v : Users(n) = {v}
        BY <2>3, <3>1, FS_Singleton
      <4>2. QED
        BY <2>1, <2>2, <4>1
    <3>2. QED
      BY <2>3, <3>1
  <2>5. n \in listed'
    BY <1>2, <1>5, <2>4 DEF Locked
  <2>6. QED
    BY <1>2, <1>3, <1>5, <2>1, <2>2, <2>5 DEF Locked
<1>6. ASSUME Locked(n)' PROVE Locked(n)
  BY <1>2, <1>3, <1>6 DEF Locked
<1>7. ASSUME NEW m \in Nodes
      PROVE  (Locked(m)' <=> Locked(m)) /\ LockOf(m)' = LockOf(m)
  <2>1. LockOf(m)' = LockOf(m)
    BY <1>2 DEF LockOf
  <2>2. CASE m = n
    BY <1>5, <1>6, <2>1, <2>2 DEF Locked, Users
  <2>3. CASE m # n
    <3>1. Users(m)' = Users(m) /\ (m \in listed' <=> m \in listed)
      BY <1>2, <1>3, <1>4, <2>3
    <3>2. QED
      BY <1>2, <2>1, <3>1 DEF Locked
  <2>4. QED
    BY <2>2, <2>3
<1>8. QED
  BY <1>7, RowsSame

\* A kill that hits no window takes the locks of the task killed, and no other.
LEMMA KillRefines ==
  ASSUME NoWindow, faults' = {}, NEW t \in Tasks, Kill(t)
  PROVE  Promise!End(t)
<1>1. /\ ~HasOpen(t)' /\ UNCHANGED <<lock_count, owner, isMutex, name>>
      /\ listed' = listed \ Created(t)
      /\ \A u \in Tasks \ {t} : pc'[u] = pc[u] /\ h'[u] = h[u]
      /\ \A u \in Tasks \ {t} : h[u] \notin Created(t)
      /\ HasOpen(t) => h[t] \in Created(t)
  BY DEF Kill, Remove, Goto, HasOpen, Calls, Note, NoWindow, TypeOK
<1>2. \A m : Users(m)' = Users(m) \ {t}
  BY <1>1 DEF Users, HasOpen
<1>3. ASSUME NEW m \in Nodes
      PROVE  Locked(m)' <=> Locked(m) /\ owner[m] # t
  <2>1. ASSUME Locked(m), owner[m] # t PROVE Locked(m)'
    <3>1. owner[m] \in Users(m) \ {t}
      BY <2>1, LockedIs
    <3>2. owner[m] \in Tasks \ {t} /\ h[owner[m]] = m
      BY <3>1 DEF Users
    <3>3. m \notin Created(t)
      BY <1>1, <3>2
    <3>4. QED
      BY <1>1, <1>2, <2>1, <3>1, <3>3 DEF Locked
  <2>2. ASSUME Locked(m)' PROVE Locked(m) /\ owner[m] # t
    <3>1. Locked(m)
      BY <1>1, <1>2, <2>2 DEF Locked
    <3>2. m \notin Created(t) /\ m \in listed
      BY <1>1, <2>2 DEF Locked
    <3>3. ASSUME owner[m] = t PROVE FALSE
      <4>1. t \in Users(m)
        BY <3>1, <3>3, LockedIs
      <4>2. HasOpen(t) /\ h[t] = m
        BY <4>1 DEF Users
      <4>3. QED
        BY <1>1, <3>2, <4>2
    <3>4. QED
      BY <3>1, <3>3
  <2>3. QED
    BY <2>1, <2>2
<1>4. \A m \in Nodes : LockOf(m)' = LockOf(m) /\ LockOf(m).owner = owner[m]
  BY <1>1 DEF LockOf
<1>5. Rows' = {l \in Rows : l.owner # t}
  BY <1>3, <1>4 DEF Rows
<1>6. QED
  BY <1>5 DEF Promise!End, Rows

\* Files are no mutexes, and their nodes are no task's.
LEMMA FileRefines ==
  ASSUME NoWindow, NEW t \in Tasks, FileOpen(t) \/ FileClose(t)
  PROVE  Rows' = Rows
<1>1. UNCHANGED <<lock_count, owner, name, pc, h>>
  BY DEF FileOpen, FileClose
<1>2. \A m : Users(m)' = Users(m)
  BY <1>1 DEF Users, HasOpen
<1>3. \A m \in Nodes : Users(m) # {} => m \in listed \cap isMutex
  BY OpenIs DEF Users
<1>4. \A m \in listed \cap isMutex : m \in listed' /\ m \in isMutex'
  BY DEF FileOpen, FileClose, PushBack, Remove, Files
<1>5. ASSUME NEW m \in Nodes
      PROVE  (Locked(m)' <=> Locked(m)) /\ LockOf(m)' = LockOf(m)
  BY <1>1, <1>2, <1>3, <1>4 DEF Locked, LockOf
<1>6. QED
  BY <1>5, RowsSame

\* ImplementsLocks: as long as no window is hit, mutexes are the abstract locks.
THEOREM LocksImplemented == Spec => ImplementsLocks
<1>1. Init => Promise!LocksInit /\ NamesReal
  BY DEF Init, Promise!LocksInit, Locked, NamesReal
<1>2. /\ MutexInv /\ (faults = {} => Held) /\ NamesReal /\ [Next]_vars
      => [Promise!LocksNext]_<<Rows, faults # {}>>
  <2> SUFFICES ASSUME MutexInv, faults = {} => Held, NamesReal, [Next]_vars
               PROVE  Promise!LocksNext \/ UNCHANGED <<Rows, faults # {}>>
    OBVIOUS
  <2>1. CASE faults' # {}
    BY <2>1 DEF Promise!LocksNext, Promise!Break
  <2>2. CASE faults' = {}
    <3>1. faults = {}
      BY <2>2 DEF Next, vars, history, Ended
    <3>2. NoWindow
      BY <3>1 DEF NoWindow, MutexInv
    <3>3. ASSUME NEW t \in Tasks, Promise!Acquire(t) \/ Promise!GiveBack(t) \/ Promise!End(t)
          PROVE  Promise!LocksNext
      BY <2>2, <3>1, <3>3 DEF Promise!LocksNext
    <3>4. CASE Rows' = Rows
      BY <2>2, <3>1, <3>4
    <3>5. ASSUME NEW t \in Tasks,
                 Looks(t) \/ (\E n \in Nodes : OpenCreate(t, n)) \/ OpenFill(t) \/ OpenCount(t)
          PROVE  Rows' = Rows
      BY <2>2, <3>1, <3>2, <3>5, OpenRefines
    <3>6. ASSUME NEW t \in Tasks, Waits(t) \/ LockAgain(t) \/ LockTake(t) \/ Release(t)
          PROVE  Rows' = Rows \/ Promise!Acquire(t) \/ Promise!GiveBack(t)
      BY <2>2, <3>2, <3>6, LockRefines
    <3>7. ASSUME NEW t \in Tasks, Close(t) \/ FileOpen(t) \/ FileClose(t)
          PROVE  Rows' = Rows
      BY <3>2, <3>7, CloseRefines, FileRefines
    <3>8. ASSUME NEW t \in Tasks, Kill(t) PROVE Promise!End(t)
      BY <2>2, <3>2, <3>8, KillRefines
    <3>9. CASE UNCHANGED vars
      <4>1. Rows' = Rows
        BY <3>9 DEF vars, fields, list, Rows, Locked, LockOf, Users, HasOpen
      <4>2. QED
        BY <3>4, <4>1
    <3>10. CASE Next
      BY <3>1, <3>3, <3>4, <3>5, <3>6, <3>7, <3>8, <3>10 DEF Next, Step, Ended, Waits, Looks
    <3>11. QED
      BY <3>9, <3>10
  <2>3. QED
    BY <2>1, <2>2
<1>3. TypeOK /\ NamesReal /\ [Next]_vars => NamesReal'
  BY NamesStep
<1>4. QED
  BY <1>1, <1>2, <1>3, TypeCorrect, MutexInvCorrect, HeldAlways, PTL
     DEF Spec, ImplementsLocks, Promise!LocksSpec, Rows
=============================================================================
