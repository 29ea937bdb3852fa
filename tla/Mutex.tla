------------------------------- MODULE Mutex -------------------------------
(***************************************************************************)
(* Mutexes (src/gluKe/mutex.c): handles that tasks find by name.           *)
(*                                                                         *)
(* Only the try of lock, release and close run between one() and all().    *)
(* Lookups, by name in open and by id in all other calls, walk the list of *)
(* handles with interrupts on, a step per node, while other tasks append   *)
(* nodes and remove them: a walk that stands on a node when that is        *)
(* removed goes on from the link it had, and ends early when it is         *)
(* appended again.  open is split further where what it is about to write  *)
(* may be another task's by then: after handle_open and before lock_count  *)
(* and usage_count are set; lock is split after the test for the owner.    *)
(*                                                                         *)
(* A node keeps its contents when it is removed, and mutex_open does not   *)
(* write owner_task_id.  Files are in the list too; of them only that they *)
(* come and go is modelled, not an open that fails.  The kernel's file,    *)
(* always the first, is left out: the first step of a walk leaves it.      *)
(*                                                                         *)
(* The code leaves six windows open.  The history variable faults         *)
(* remembers the ones that were hit; the properties say that as long as    *)
(* none is, the mutex is one.                                              *)
(***************************************************************************)
EXTENDS Integers, FiniteSets

CONSTANTS NofNodes,  \* bound on the open handles
          Tasks,
          Names,     \* names of mutexes
          MaxNest    \* bound on the locks a task holds of one mutex

Nodes == 1 .. NofNodes
Null == 0
NoTask == 0
NoName == 0

ASSUME MutexAssumption ==
  /\ NofNodes \in Nat \ {0}
  /\ MaxNest \in Nat \ {0}
  /\ IsFiniteSet(Tasks) /\ NoTask \notin Tasks
  /\ NoName \notin Names

VARIABLES listed,  \* the nodes in the list of handles
          after,   \* for each of them those that come after it
          stale,   \* the link that a node had when it was removed
          isMutex, \* the nodes whose type is HANDLE_TYPE_MUTEX
          name,
          creator, \* h->task_id
          lock_count, usage_count, owner, \* the fields of struct mutex
          pc,      \* where each task is
          want,    \* the name it opens
          h,       \* the node of its mutex
          at,      \* the node its lookup stands on
          holds,   \* history: the locks it got and has not released
          faults   \* history: the windows that were hit

list == <<listed, after, stale>>
fields == <<list, isMutex, name, creator>>
history == <<holds, faults>>
vars == <<fields, lock_count, usage_count, owner, pc, want, h, at, history>>

\* The calls that look a mutex up by id.
Calls == {"lock", "lock_nb", "release", "close"}
HasOpen(t) == pc[t] \in Calls \cup {"open", "again", "try", "try_nb"}
Users(n) == {t \in Tasks : HasOpen(t) /\ h[t] = n}

\* The nodes in the list that nobody is making a new mutex of.
Made == {n \in listed : \A t \in Tasks : ~(pc[t] = "fill" /\ h[t] = n)}
Holders(n) == {t \in Tasks : h[t] = n /\ holds[t] > 0}

Init == /\ listed = {}
        /\ after = [n \in Nodes |-> {}]
        /\ stale = [n \in Nodes |-> Null]
        /\ isMutex = {}
        /\ name = [n \in Nodes |-> NoName]
        /\ creator = [n \in Nodes |-> NoTask]
        /\ lock_count = [n \in Nodes |-> 0]
        /\ usage_count = [n \in Nodes |-> 0]
        /\ owner = [n \in Nodes |-> NoTask]
        /\ pc = [t \in Tasks |-> "idle"]
        /\ want = [t \in Tasks |-> NoName]
        /\ h = [t \in Tasks |-> Null]
        /\ at = [t \in Tasks |-> Null]
        /\ holds = [t \in Tasks |-> 0]
        /\ faults = {}

Goto(t, place) == pc' = [pc EXCEPT ![t] = place]

\* Window f was hit if this step did.
Note(f, hit) == faults' = IF hit THEN faults \cup {f} ELSE faults

(***************************************************************************)
(* The list of handles.  Module Handles shows that the links are such a    *)
(* list.                                                                   *)
(***************************************************************************)
\* The node of S that comes before the others.
First(S) == LET firsts == {n \in S : S \ {n} \subseteq after[n]}
            IN  IF firsts = {} THEN Null ELSE CHOOSE n \in firsts : TRUE

Link(n) == IF n \in listed THEN First(after[n]) ELSE stale[n]

\* ll_push_back of the first unused node.
PushBack(n) ==
  /\ n \notin listed
  /\ \A m \in Nodes \ listed : n <= m
  /\ listed' = listed \cup {n}
  /\ after' = [m \in Nodes |-> IF m \in listed THEN after[m] \cup {n} ELSE {}]
  /\ stale' = [stale EXCEPT ![n] = Null]

\* ll_delete of one node, or of several by ll_delete_p, which goes forward.
Remove(S) ==
  /\ listed' = listed \ S
  /\ after' = [m \in Nodes |-> IF m \in listed \ S THEN after[m] \ S ELSE {}]
  /\ stale' = [m \in Nodes |-> IF m \in S THEN Link(m) ELSE stale[m]]

(***************************************************************************)
(* open and close of files, each in one section.                           *)
(***************************************************************************)
Files(t) == {n \in Made \ isMutex : creator[n] = t}

FileOpen(t) ==
  /\ pc[t] \in {"idle", "open"}
  /\ \E n \in Nodes : /\ PushBack(n)
                      /\ creator' = [creator EXCEPT ![n] = t]
                      /\ isMutex' = isMutex \ {n}
  /\ UNCHANGED <<name, lock_count, usage_count, owner, pc, want, h, at, history>>

FileClose(t) ==
  /\ pc[t] \in {"idle", "open"}
  /\ \E n \in Files(t) : Remove({n})
  /\ UNCHANGED <<isMutex, name, creator, lock_count, usage_count, owner, pc, want, h, at, history>>

(***************************************************************************)
(* mutex_open.                                                             *)
(***************************************************************************)
IsNamed(n, x) == n \in isMutex /\ name[n] = x
Named(x) == {n \in listed : IsNamed(n, x)}

\* The walk goes to node n, or ends there.
StandOn(t, n, walk, end) ==
  /\ at' = [at EXCEPT ![t] = n]
  /\ Goto(t, IF n = Null THEN end ELSE walk)

\* Behind the last node, or what the walk takes for it, the name is new.
OpenBegin(t, x) ==
  /\ pc[t] = "idle"
  /\ want' = [want EXCEPT ![t] = x]
  /\ StandOn(t, First(listed), "find", "create")
  /\ UNCHANGED <<fields, lock_count, usage_count, owner, h, history>>

\* Window "gone": the node was removed while the walk stood on it.  Window "found
\* early": it was then, or before, taken for a new mutex, but still has the type
\* and the name of its last use.
OpenFound(t) ==
  /\ pc[t] = "find"
  /\ IsNamed(at[t], want[t])
  /\ h' = [h EXCEPT ![t] = at[t]]
  /\ at' = [at EXCEPT ![t] = Null]
  /\ faults' = faults \cup {f \in {"gone"} : at[t] \notin listed}
                      \cup {f \in {"found early"} : at[t] \in listed \ Made}
  /\ Goto(t, "count")
  /\ UNCHANGED <<fields, lock_count, usage_count, owner, want, holds>>

OpenNext(t) ==
  /\ pc[t] = "find"
  /\ ~IsNamed(at[t], want[t])
  /\ StandOn(t, Link(at[t]), "find", "create")
  /\ UNCHANGED <<fields, lock_count, usage_count, owner, want, h, history>>

\* handle_open.  Window "twins": a mutex of this name is there, or is being made:
\* another task opened it since the lookup, or the lookup passed it by.
OpenCreate(t, n) ==
  /\ pc[t] = "create"
  /\ PushBack(n)
  /\ creator' = [creator EXCEPT ![n] = t]
  /\ h' = [h EXCEPT ![t] = n]
  /\ Note("twins", \/ Named(want[t]) # {}
                   \/ \E u \in Tasks : pc[u] = "fill" /\ want[u] = want[t])
  /\ Goto(t, "fill")
  /\ UNCHANGED <<isMutex, name, lock_count, usage_count, owner, want, at, holds>>

\* The node becomes a mutex of this name.
OpenFill(t) ==
  /\ pc[t] = "fill"
  /\ usage_count' = [usage_count EXCEPT ![h[t]] = 0]
  /\ name' = [name EXCEPT ![h[t]] = want[t]]
  /\ isMutex' = isMutex \cup {h[t]}
  /\ Goto(t, "count")
  /\ UNCHANGED <<list, creator, lock_count, owner, want, h, at, history>>

\* Faulty variant: only a new mutex is counted.
OpenCountNew(t) ==
  /\ pc[t] = "count"
  /\ lock_count' = [lock_count EXCEPT ![h[t]] = 0]
  /\ usage_count' = [usage_count EXCEPT ![h[t]] = IF @ = 0 THEN 1 ELSE @]
  /\ Note("reset", Holders(h[t]) # {})
  /\ Goto(t, "open")
  /\ UNCHANGED <<fields, owner, want, h, at, holds>>

\* Window "reset": the mutex is held, and becomes free.
OpenCount(t) ==
  /\ pc[t] = "count"
  /\ lock_count' = [lock_count EXCEPT ![h[t]] = 0]
  /\ usage_count' = [usage_count EXCEPT ![h[t]] = @ + 1]
  /\ Note("reset", Holders(h[t]) # {})
  /\ Goto(t, "open")
  /\ UNCHANGED <<fields, owner, want, h, at, holds>>

(***************************************************************************)
(* st_mutex_by_hid, called first by lock, release and close with           *)
(* interrupts on.  No other node has the id: ids in the list differ, and   *)
(* a node that left it during the walk has the id of then.  A call that    *)
(* does not come by the node returns -1 and has changed nothing.           *)
(***************************************************************************)
\* A task closes what it does not hold.
Call(t, c) ==
  /\ pc[t] = "open"
  /\ c \in {"lock", "lock_nb"} => holds[t] < MaxNest
  /\ c = "close" => holds[t] = 0
  /\ StandOn(t, First(listed), c, "open")
  /\ UNCHANGED <<fields, lock_count, usage_count, owner, want, h, history>>

CallNext(t) ==
  /\ pc[t] \in Calls
  /\ at[t] # h[t]
  /\ StandOn(t, Link(at[t]), pc[t], "open")
  /\ UNCHANGED <<fields, lock_count, usage_count, owner, want, h, history>>

\* The lookup of call c has come to the mutex; what follows is the call's.
Finds(t, c) == pc[t] = c /\ at[t] = h[t] /\ at' = [at EXCEPT ![t] = Null]

(***************************************************************************)
(* mutex_lock and mutex_lock_nb.                                           *)
(***************************************************************************)
\* The test whether the mutex is the task's own.
Lock(t) ==
  /\ \/ Finds(t, "lock") /\ Goto(t, IF owner[h[t]] = t THEN "again" ELSE "try")
     \/ Finds(t, "lock_nb") /\ Goto(t, IF owner[h[t]] = t THEN "again" ELSE "try_nb")
  /\ UNCHANGED <<fields, lock_count, usage_count, owner, want, h, history>>

\* Window "overtaken": the mutex was free, and another task took it after the
\* test.
LockAgain(t) ==
  /\ pc[t] = "again"
  /\ lock_count' = [lock_count EXCEPT ![h[t]] = @ + 1]
  /\ holds' = [holds EXCEPT ![t] = @ + 1]
  /\ Note("overtaken", owner[h[t]] # t)
  /\ Goto(t, "open")
  /\ UNCHANGED <<fields, usage_count, owner, want, h, at>>

\* Faulty variant: the owner of before stays.
LockTakeKeepsOwner(t) ==
  /\ pc[t] \in {"try", "try_nb"}
  /\ lock_count[h[t]] = 0
  /\ lock_count' = [lock_count EXCEPT ![h[t]] = 1]
  /\ holds' = [holds EXCEPT ![t] = @ + 1]
  /\ Goto(t, "open")
  /\ UNCHANGED <<fields, usage_count, owner, want, h, at, faults>>

\* Faulty variant: lock_count is not looked at.
LockTakeOver(t) ==
  /\ pc[t] \in {"try", "try_nb"}
  /\ lock_count' = [lock_count EXCEPT ![h[t]] = 1]
  /\ owner' = [owner EXCEPT ![h[t]] = t]
  /\ holds' = [holds EXCEPT ![t] = @ + 1]
  /\ Goto(t, "open")
  /\ UNCHANGED <<fields, usage_count, want, h, at, faults>>

LockTake(t) ==
  /\ pc[t] \in {"try", "try_nb"}
  /\ lock_count[h[t]] = 0
  /\ lock_count' = [lock_count EXCEPT ![h[t]] = 1]
  /\ owner' = [owner EXCEPT ![h[t]] = t]
  /\ holds' = [holds EXCEPT ![t] = @ + 1]
  /\ Goto(t, "open")
  /\ UNCHANGED <<fields, usage_count, want, h, at, faults>>

\* mutex_lock_nb returns -1; mutex_lock sleeps and tries again: no change.
LockFails(t) ==
  /\ pc[t] = "try_nb"
  /\ lock_count[h[t]] # 0
  /\ Goto(t, "open")
  /\ UNCHANGED <<fields, lock_count, usage_count, owner, want, h, at, history>>

(***************************************************************************)
(* mutex_release and mutex_close, from one() on.                           *)
(***************************************************************************)
\* Faulty variant: the last lock is not given back.
OneLess(c) == IF c > 1 THEN c - 1 ELSE c

Released(c) == IF c > 0 THEN c - 1 ELSE c

Release(t) ==
  /\ Finds(t, "release")
  /\ owner[h[t]] = t
  /\ lock_count' = [lock_count EXCEPT ![h[t]] = Released(@)]
  /\ holds' = [holds EXCEPT ![t] = IF @ > 0 THEN @ - 1 ELSE 0]
  /\ Goto(t, "open")
  /\ UNCHANGED <<fields, usage_count, owner, want, h, faults>>

ReleaseFails(t) ==
  /\ Finds(t, "release")
  /\ owner[h[t]] # t
  /\ Goto(t, "open")
  /\ UNCHANGED <<fields, lock_count, usage_count, owner, want, h, history>>

\* Window "gone": the last user closes it, another task has just found it.
Close(t) ==
  /\ Finds(t, "close")
  /\ usage_count' = [usage_count EXCEPT ![h[t]] = @ - 1]
  /\ Remove({n \in {h[t]} : usage_count[n] = 1})
  /\ Note("gone", /\ usage_count[h[t]] = 1
                  /\ \E u \in Tasks : pc[u] = "count" /\ h[u] = h[t])
  /\ Goto(t, "idle")
  /\ h' = [h EXCEPT ![t] = Null]
  /\ want' = [want EXCEPT ![t] = NoName]
  /\ UNCHANGED <<isMutex, name, creator, lock_count, owner, holds>>

(***************************************************************************)
(* task_kill at any point of a task's code, by way of                      *)
(* handle_close_task_handles: the handles it created go.  Window "killed": *)
(* others were using one of them, or the task was using another's, whose   *)
(* counts it leaves as they are.  Its id is given to the next task.        *)
(***************************************************************************)
Created(t) == {n \in listed : creator[n] = t}

Kill(t) ==
  /\ pc[t] # "idle" \/ Created(t) # {}
  /\ Remove(Created(t))
  /\ Note("killed", \/ \E u \in Tasks \ {t} : h[u] \in Created(t)
                    \/ HasOpen(t) /\ h[t] \notin Created(t))
  /\ Goto(t, "idle")
  /\ h' = [h EXCEPT ![t] = Null]
  /\ at' = [at EXCEPT ![t] = Null]
  /\ holds' = [holds EXCEPT ![t] = 0]
  /\ want' = [want EXCEPT ![t] = NoName]
  /\ UNCHANGED <<isMutex, name, creator, lock_count, usage_count, owner>>

Step(t) == \/ OpenFound(t) \/ OpenNext(t)
           \/ \E n \in Nodes : OpenCreate(t, n)
           \/ OpenFill(t) \/ OpenCount(t)
           \/ CallNext(t)
           \/ Lock(t) \/ LockAgain(t) \/ LockTake(t) \/ LockFails(t)
           \/ Release(t) \/ ReleaseFails(t) \/ Close(t)

\* Nothing is claimed of what comes after a window was hit: the model ends there.
Ended == faults # {} /\ UNCHANGED vars

Next == \/ /\ faults = {}
           /\ \/ \E t \in Tasks, x \in Names : OpenBegin(t, x)
              \/ \E t \in Tasks, c \in Calls : Call(t, c)
              \/ \E t \in Tasks : Step(t) \/ FileOpen(t) \/ FileClose(t) \/ Kill(t)
        \/ Ended

Spec == Init /\ [][Next]_vars

(***************************************************************************)
(* A task that waits in mutex_lock tries again, for the scheduler runs     *)
(* every ready task (ReadyRuns of module Sched) and a sleeping one wakes   *)
(* (SleeperWakes); so a mutex that stays free is taken.  That one which is *)
(* free and taken in turns is ever free when a waiting task wakes is not   *)
(* assumed, nor that any other call goes on.                               *)
(***************************************************************************)
FairSpec == Spec /\ \A t \in Tasks : WF_vars(faults = {} /\ LockTake(t))
-----------------------------------------------------------------------------
\* The types of the variables; a task has a node from handle_open or the lookup
\* until it closes.
TypeOK == /\ listed \in SUBSET Nodes
          /\ after \in [Nodes -> SUBSET Nodes]
          /\ stale \in [Nodes -> Nodes \cup {Null}]
          /\ isMutex \in SUBSET Nodes
          /\ name \in [Nodes -> Names \cup {NoName}]
          /\ creator \in [Nodes -> Tasks \cup {NoTask}]
          /\ lock_count \in [Nodes -> Nat]
          /\ usage_count \in [Nodes -> Int]
          /\ owner \in [Nodes -> Tasks \cup {NoTask}]
          /\ pc \in [Tasks -> Calls \cup {"idle", "find", "create", "fill", "count",
                                         "open", "again", "try", "try_nb"}]
          /\ want \in [Tasks -> Names \cup {NoName}]
          /\ h \in [Tasks -> Nodes \cup {Null}]
          /\ \A t \in Tasks : (h[t] = Null) <=> (pc[t] \in {"idle", "find", "create"})
          /\ at \in [Tasks -> Nodes \cup {Null}]
          /\ \A t \in Tasks : (at[t] # Null) <=> (pc[t] \in Calls \cup {"find"})
          /\ holds \in [Tasks -> Nat]

\* Unless a window was hit, one task at most holds the mutex of a name, and
\* lock_count is exactly the locks it has to give back: nested locks, failed
\* tries, and closing and opening again in between change nothing of that.
HeldByOne ==
  faults = {} =>
    \A t, u \in Tasks :
      /\ holds[t] > 0 => owner[h[t]] = t /\ lock_count[h[t]] = holds[t]
      /\ holds[t] > 0 /\ holds[u] > 0 /\ name[h[t]] = name[h[u]] => t = u

\* Unless a window was hit, the mutex that a task has open is in the list, under
\* the name it asked for; usage_count is the number of tasks that have it open, so
\* that no close removes the node under another; and none is left over.  (A lookup
\* may pass it by all the same: the call fails, and may be made again.)
OpenIsKept ==
  faults = {} =>
    /\ \A t \in Tasks : HasOpen(t) => h[t] \in Made /\ IsNamed(h[t], want[t])
    /\ \A n \in Made \cap isMutex :
         /\ usage_count[n] = Cardinality(Users(n))
         /\ Users(n) # {} \/ \E t \in Tasks : pc[t] = "count" /\ h[t] = n

\* Unless a window was hit, a mutex that is in use and locked was locked by a task
\* that has it open and has not released it: no lock outlives its holder's release,
\* close or end, nor is one made up by what the node held before.
LockHasHolder ==
  faults = {} =>
    \A n \in Made : Users(n) # {} /\ lock_count[n] > 0 =>
      \E t \in Users(n) : owner[n] = t /\ holds[t] = lock_count[n]

\* Locks and holders match, both ways: what a task was granted and has not given
\* back is what the mutex says, and the mutex says nothing else.
LocksHeld == HeldByOne /\ LockHasHolder

\* Unless a window was hit, a task that waits for a mutex which nobody holds
\* gets it, or somebody else does: no lock is lost by release, close or a kill.
FreeIsTaken ==
  \A t \in Tasks : pc[t] = "try" ~>
    (pc[t] # "try" \/ faults # {} \/ Holders(h[t]) # {})

(***************************************************************************)
(* The locks, by the fields of the nodes alone: the mutexes that are open, *)
(* and locked.  A node just made into a mutex still has the lock_count of  *)
(* its last use.                                                           *)
(***************************************************************************)
Locked(n) == n \in listed \cap isMutex /\ Users(n) # {} /\ lock_count[n] > 0
LockOf(n) == [name |-> name[n], owner |-> owner[n], depth |-> lock_count[n]]
Promise == INSTANCE Locks
             WITH locks <- {LockOf(n) : n \in {m \in Nodes : Locked(m)}},
                  broken <- faults # {}, Programs <- Tasks, LockNames <- Names

\* Until a window is hit, mutexes implement locks that are exclusive by name: no
\* open, close, lock, release or kill of one task, nor the next use of a node, takes,
\* gives back or deepens the lock of another.
ImplementsLocks == Promise!LocksSpec
=============================================================================
