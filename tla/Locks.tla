-------------------------------- MODULE Locks --------------------------------
(***************************************************************************)
(* What programs rely on in mutexes, without nodes, counts of users and    *)
(* windows: a set of locks that are held, one at most of a name, each with *)
(* the task that took it and how often.  Only that task takes it again or  *)
(* gives it back, and it loses all it has when it ends, and no other does. *)
(* Once the promise is broken nothing is said of the locks any more.       *)
(***************************************************************************)
EXTENDS Integers

CONSTANTS Programs, LockNames

VARIABLES locks, broken

Taken(x) == \E l \in locks : l.name = x

\* mutex_lock, mutex_lock_nb
Acquire(t) ==
  \/ \E x \in LockNames :
       /\ ~Taken(x)
       /\ locks' = locks \cup {[name |-> x, owner |-> t, depth |-> 1]}
  \/ \E l \in locks :
       /\ l.owner = t
       /\ locks' = (locks \ {l}) \cup {[name |-> l.name, owner |-> t, depth |-> l.depth + 1]}

\* mutex_release
GiveBack(t) ==
  \E l \in locks :
    /\ l.owner = t
    /\ locks' = IF l.depth = 1 THEN locks \ {l}
                ELSE (locks \ {l}) \cup {[name |-> l.name, owner |-> t, depth |-> l.depth - 1]}

\* task_kill
End(t) == locks' = {l \in locks : l.owner # t}

Break == broken' = TRUE

LocksInit == locks = {} /\ broken = FALSE
LocksNext ==
  \/ ~broken /\ broken' = FALSE /\ \E t \in Programs : Acquire(t) \/ GiveBack(t) \/ End(t)
  \/ Break
LocksSpec == LocksInit /\ [][LocksNext]_<<locks, broken>>
=============================================================================
