------------------------------ MODULE FileTable ------------------------------
(***************************************************************************)
(* What programs rely on in the kernel's open files, without lists, nodes  *)
(* and lookups: a set of files, each with an id and a terminal no other    *)
(* one has.  A program opens and closes files of its own.  Its end closes  *)
(* all it has left at once; until the kernel is done with that no file     *)
(* changes.                                                                *)
(***************************************************************************)
EXTENDS Integers

CONSTANTS Programs,
          Boot,      \* the opener of the first file, which never ends
          FileIds, Terminals

VARIABLES files,
          ending     \* the program the kernel is ending; Boot: none

\* entry32 opens the kernel's own terminal.
TableInit == files = {[id |-> 1, task |-> Boot, term |-> 1]} /\ ending = Boot

\* open
OpenFile(t) == \E i \in FileIds, k \in Terminals :
                 /\ \A f \in files : f.id # i /\ f.term # k
                 /\ files' = files \cup {[id |-> i, task |-> t, term |-> k]}

\* close
CloseFile(t) == \E f \in files : f.task = t /\ files' = files \ {f}

\* task_kill
End(t) == /\ files' = {f \in files : f.task # t}
          /\ ending' = t

Ended == ending' = Boot /\ UNCHANGED files

TableNext == \/ /\ ending = Boot
                /\ \E t \in Programs : \/ UNCHANGED ending /\ (OpenFile(t) \/ CloseFile(t))
                                       \/ End(t)
             \/ ending # Boot /\ Ended
TableSpec == TableInit /\ [][TableNext]_<<files, ending>>
=============================================================================
