-------------------------------- MODULE Pool --------------------------------
(***************************************************************************)
(* What the lists of handles and tasks rely on in their memory: an item is *)
(* handed out to one holder at a time, and only what was handed out comes  *)
(* back.                                                                   *)
(***************************************************************************)
EXTENDS Integers

CONSTANTS Blocks,  \* regions of memory
          Slots    \* items of a region

VARIABLE given     \* the holders of each item

PoolInit == given = [b \in Blocks |-> [s \in Slots |-> 0]]

\* mb_alloc
Take == \E b \in Blocks, s \in Slots : /\ given[b][s] = 0
                                       /\ given' = [given EXCEPT ![b][s] = 1]

\* mb_free
GiveBack == \E b \in Blocks, s \in Slots : /\ given[b][s] = 1
                                           /\ given' = [given EXCEPT ![b][s] = 0]

PoolSpec == PoolInit /\ [][Take \/ GiveBack]_given
=============================================================================
