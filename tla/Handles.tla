------------------------------ MODULE Handles ------------------------------
(***************************************************************************)
(* Handles and files (src/gluKe/handle.c, file.c), the linked list they    *)
(* are kept in (src/mylib/linked_list.c), the pool its nodes come from     *)
(* (src/mylib/mem_block.c) and the table of terminals behind the files.    *)
(*                                                                         *)
(* open, close and the release of a killed task's handles run between      *)
(* one() and all(); the last, a loop over the list, is one step per node.  *)
(* read, write and ioctl look the handle up with interrupts on: a walk of   *)
(* one step per node, during which other tasks open, close and are killed. *)
(*                                                                         *)
(* A node keeps its contents, links included, when it is freed.  The pool  *)
(* is one block: no more than NofNodes handles are open at once.           *)
(***************************************************************************)
EXTENDS Integers, FiniteSets

CONSTANTS NofNodes,  \* items of the memory block
          NofTerms,  \* MAX_NOF_TERMS
          Tasks,     \* programs
          Kernel,    \* the first task, which opens kfile at boot
          MaxId      \* bound on handle ids

Nodes == 1 .. NofNodes
Terms == 1 .. NofTerms
Owners == Tasks \cup {Kernel}
Null == 0

ASSUME HandlesAssumption ==
  /\ NofNodes \in Nat \ {0} /\ NofTerms \in Nat \ {0} /\ MaxId \in Nat \ {0}
  /\ Kernel \notin Tasks

VARIABLES used,    \* the nodes whose used flag is set
          head, tail, next, prev,
          id, task, term,  \* h->id, h->task_id, h->fl.idata of each node
          busy,    \* the terminals whose used flag is set
          victim,  \* the killed task whose handles are being released
          cursor,  \* where that loop is
          want,    \* the id each task looks up
          at,      \* the node its walk has reached
          pc       \* "idle", "walk", "found" or "none"

list == <<used, head, tail, next, prev>>
contents == <<id, task, term>>
sweep == <<victim, cursor>>
lookup == <<want, at, pc>>
vars == <<list, contents, busy, sweep, lookup>>

(***************************************************************************)
(* mb_alloc takes the first unused item, ll_push_back appends it.          *)
(***************************************************************************)
IsFirst(n, S) == n \in S /\ \A m \in S : n <= m

PushBack(n) ==
  /\ IsFirst(n, Nodes \ used)
  /\ used' = used \cup {n}
  /\ tail' = n
  /\ prev' = [prev EXCEPT ![n] = tail]
  /\ \/ /\ tail # Null
        /\ next' = [next EXCEPT ![tail] = n, ![n] = Null]
        /\ UNCHANGED head
     \/ /\ tail = Null
        /\ next' = [next EXCEPT ![n] = Null]
        /\ head' = n

\* Faulty variant: the last node is deleted without moving tail.
UnlinkKeepsTail(n) ==
  /\ used' = used \ {n}
  /\ next' = [m \in Nodes |-> IF m = prev[n] THEN next[n] ELSE next[m]]
  /\ prev' = [m \in Nodes |-> IF m = next[n] THEN prev[n] ELSE prev[m]]
  /\ head' = IF n = head THEN next[n] ELSE head
  /\ UNCHANGED tail

\* ll_delete_node.
Unlink(n) ==
  /\ used' = used \ {n}
  /\ next' = [m \in Nodes |-> IF m = prev[n] THEN next[n] ELSE next[m]]
  /\ prev' = [m \in Nodes |-> IF m = next[n] THEN prev[n] ELSE prev[m]]
  /\ head' = IF n = head THEN next[n] ELSE head
  /\ tail' = IF n = tail THEN prev[n] ELSE tail

\* The kernel's terminal is open.
Init == /\ used = {1}
        /\ head = 1 /\ tail = 1
        /\ next = [n \in Nodes |-> Null]
        /\ prev = [n \in Nodes |-> Null]
        /\ id = [n \in Nodes |-> IF n = 1 THEN 1 ELSE 0]
        /\ task = [n \in Nodes |-> Kernel]
        /\ term = [n \in Nodes |-> 1]
        /\ busy = {1}
        /\ victim = Kernel
        /\ cursor = Null
        /\ want = [t \in Tasks |-> 0]
        /\ at = [t \in Tasks |-> Null]
        /\ pc = [t \in Tasks |-> "idle"]

\* Nobody is in the loop that releases handles: interrupts may be on.
Quiet == cursor = Null
Runs(t) == Quiet /\ pc[t] = "idle"

(***************************************************************************)
(* new_handle_id runs when the new node is already in the list, with the   *)
(* id of the handle that was in it before, and counts that one too.        *)
(***************************************************************************)
IsNewId(i, n) == /\ i - 1 \in {id[m] : m \in used \cup {n}}
                 /\ \A m \in used \cup {n} : id[m] < i

FreeTerms == Terms \ busy

\* open("terminal").
Open(t) ==
  /\ Runs(t)
  /\ \E n \in Nodes, i \in 1 .. MaxId, k \in Terms :
       /\ PushBack(n)
       /\ IsNewId(i, n)
       /\ IsFirst(k, FreeTerms)
       /\ id' = [id EXCEPT ![n] = i]
       /\ task' = [task EXCEPT ![n] = t]
       /\ term' = [term EXCEPT ![n] = k]
       /\ busy' = busy \cup {k}
  /\ UNCHANGED <<sweep, lookup>>

\* All terminals are in use: the handle is removed again.  The node goes back
\* to where it was, but for the id and the task written to it.
OpenFails(t) ==
  /\ Runs(t)
  /\ FreeTerms = {}
  /\ \E n \in Nodes, i \in 1 .. MaxId :
       /\ IsFirst(n, Nodes \ used)
       /\ IsNewId(i, n)
       /\ id' = [id EXCEPT ![n] = i]
       /\ task' = [task EXCEPT ![n] = t]
       /\ next' = [next EXCEPT ![n] = Null]
       /\ prev' = [prev EXCEPT ![n] = tail]
  /\ UNCHANGED <<used, head, tail, term, busy, sweep, lookup>>

\* Faulty variant: the handle goes, the terminal stays in use.
DropHandleOnly(n) == Unlink(n) /\ UNCHANGED busy

\* The driver's close, then handle_remove_id.
Drop(n) == /\ Unlink(n)
           /\ busy' = busy \ {term[n]}

\* close, of a file the task opened.
Close(t) ==
  /\ Runs(t)
  /\ \E n \in used : task[n] = t /\ Drop(n)
  /\ UNCHANGED <<contents, sweep, lookup>>

(***************************************************************************)
(* handle_close_task_handles, called when a task is killed at any point of *)
(* its code: ll_delete_p saves the next node, then deletes this one.       *)
(***************************************************************************)
Kill(t) ==
  /\ Quiet
  /\ victim' = t
  /\ cursor' = head
  /\ pc' = [pc EXCEPT ![t] = "idle"]
  /\ UNCHANGED <<list, contents, busy, want, at>>

\* Faulty variant: the node after a deleted one is skipped.
SweepNodeSkips ==
  /\ cursor # Null
  /\ IF task[cursor] = victim
       THEN /\ Drop(cursor)
            /\ cursor' = IF next[cursor] = Null THEN Null ELSE next[next[cursor]]
       ELSE /\ cursor' = next[cursor]
            /\ UNCHANGED <<list, busy>>
  /\ UNCHANGED <<contents, victim, lookup>>

SweepNode ==
  /\ cursor # Null
  /\ IF task[cursor] = victim THEN Drop(cursor) ELSE UNCHANGED <<list, busy>>
  /\ cursor' = next[cursor]
  /\ UNCHANGED <<contents, victim, lookup>>

(***************************************************************************)
(* handle_by_id in read, write and ioctl: a walk through the list with     *)
(* interrupts on, for a file of the task's own or for kfile (kwr).         *)
(***************************************************************************)
Begin(t) ==
  /\ Runs(t)
  /\ \E n \in used : /\ task[n] \in {t, Kernel}
                     /\ want' = [want EXCEPT ![t] = id[n]]
  /\ at' = [at EXCEPT ![t] = head]
  /\ pc' = [pc EXCEPT ![t] = "walk"]
  /\ UNCHANGED <<list, contents, busy, sweep>>

\* Faulty variant: the node is left before it is compared.
WalkNodeAfter(t) ==
  /\ Quiet
  /\ pc[t] = "walk"
  /\ IF next[at[t]] # Null /\ id[next[at[t]]] = want[t]
       THEN /\ at' = [at EXCEPT ![t] = next[at[t]]]
            /\ pc' = [pc EXCEPT ![t] = "found"]
       ELSE /\ at' = [at EXCEPT ![t] = next[at[t]]]
            /\ pc' = [pc EXCEPT ![t] = IF next[at[t]] = Null THEN "none" ELSE "walk"]
  /\ UNCHANGED <<list, contents, busy, sweep, want>>

WalkNode(t) ==
  /\ Quiet
  /\ pc[t] = "walk"
  /\ IF id[at[t]] = want[t]
       THEN pc' = [pc EXCEPT ![t] = "found"] /\ UNCHANGED at
       ELSE /\ at' = [at EXCEPT ![t] = next[at[t]]]
            /\ pc' = [pc EXCEPT ![t] = IF next[at[t]] = Null THEN "none" ELSE "walk"]
  /\ UNCHANGED <<list, contents, busy, sweep, want>>

\* The driver is called with the file found, or the call returns -1.
Return(t) ==
  /\ Quiet
  /\ pc[t] \in {"found", "none"}
  /\ pc' = [pc EXCEPT ![t] = "idle"]
  /\ UNCHANGED <<list, contents, busy, sweep, want, at>>

Next == \/ \E t \in Tasks : Open(t) \/ OpenFails(t) \/ Close(t)
        \/ \E t \in Tasks : Kill(t)
        \/ SweepNode
        \/ \E t \in Tasks : Begin(t) \/ WalkNode(t) \/ Return(t)

Spec == Init /\ [][Next]_vars
-----------------------------------------------------------------------------
\* The types of the variables.
TypeOK == /\ used \in SUBSET Nodes
          /\ head \in Nodes \cup {Null} /\ tail \in Nodes \cup {Null}
          /\ next \in [Nodes -> Nodes \cup {Null}]
          /\ prev \in [Nodes -> Nodes \cup {Null}]
          /\ id \in [Nodes -> 0 .. MaxId]
          /\ task \in [Nodes -> Owners]
          /\ term \in [Nodes -> Terms]
          /\ busy \in SUBSET Terms
          /\ victim \in Owners
          /\ cursor \in Nodes \cup {Null}
          /\ want \in [Tasks -> 0 .. MaxId]
          /\ at \in [Tasks -> Nodes \cup {Null}]
          /\ pc \in [Tasks -> {"idle", "walk", "found", "none"}]

\* The list is well formed: the nodes in use have one first and one last, and
\* next and prev are inverse to each other on them.
Linked ==
  /\ (head = Null) = (used = {}) /\ (tail = Null) = (used = {})
  /\ \A n \in used : /\ (n = head) = (prev[n] = Null)
                     /\ (n = tail) = (next[n] = Null)
                     /\ next[n] # Null => next[n] \in used /\ prev[next[n]] = n
                     /\ prev[n] # Null => prev[n] \in used /\ next[prev[n]] = n

\* Two open handles have different ids, however ids of closed handles are used
\* again and whatever ids the nodes held before.
IdsDiffer == \A m, n \in used : m # n => id[m] # id[n]

\* A terminal is in use exactly when one handle has it open: none is left taken
\* when its task is killed or its open fails, and none is given to two files.
TermsHeldOnce ==
  /\ \A m, n \in used : m # n => term[m] # term[n]
  /\ busy = {term[n] : n \in used}

\* When the loop over the list ends the killed task has no handle: deleting a
\* node does not make the loop lose its way.
KillClosesAll ==
  [][cursor # Null /\ cursor' = Null => \A n \in used' : task[n] # victim]_vars

\* A walk that finds a node has found the open handle it looked for, though it
\* may have passed nodes that were freed, or used again, under it.
FoundIsOpen ==
  \A t \in Tasks : pc[t] = "found" => /\ at[t] \in used
                                      /\ id[at[t]] = want[t]
                                      /\ task[at[t]] \in {t, Kernel}

\* The kernel's file, which every task prints to (kwr), is found by every walk for
\* it, whatever is opened, closed and killed meanwhile: the walk stands on its
\* node from the start, for the node is the first and is never released.
KernelFileFound ==
  \A t \in Tasks : pc[t] = "none" => \A n \in used : task[n] = Kernel => id[n] # want[t]

\* A walk finds the handle it looks for when that is open.
OpenIsFound ==
  \A t \in Tasks : pc[t] = "none" => \A n \in used : id[n] # want[t]

\* What lookups with interrupts on do get right, of files that are open and of the
\* file that is open for ever.
LookupSound == FoundIsOpen /\ KernelFileFound

(***************************************************************************)
(* The open files: from the moment a task is killed its handles do not     *)
(* count, though the loop has yet to release them.                         *)
(***************************************************************************)
Condemned(n) == cursor # Null /\ task[n] = victim
OpenFiles == {[id |-> id[n], task |-> task[n], term |-> term[n]] :
                n \in {m \in used : ~Condemned(m)}}
Table == INSTANCE FileTable
           WITH files <- OpenFiles, ending <- IF cursor = Null THEN Kernel ELSE victim,
                Programs <- Tasks, Boot <- Kernel,
                FileIds <- 1 .. MaxId, Terminals <- Terms

\* The list of handles implements the table of open files: open adds one file that
\* shares its id and terminal with no other, close removes one, and the sweep after
\* a kill, node by node and with ids and nodes used again, removes all of the killed
\* task as if at once, and none of another.
ImplementsFileTable == Table!TableSpec
=============================================================================
