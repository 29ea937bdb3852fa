------------------------------- MODULE MCRgn -------------------------------
(***************************************************************************)
(* Small instances of the page allocator.  The boot regions keep the shape *)
(* of the real ones: the tables first, a region in the middle of the RAM,  *)
(* and page 0 last, whose failure is ignored.                              *)
(***************************************************************************)
EXTENDS Rgn, TLC

TaskSymmetry == Permutations(TaskIds)

BootSmall == << [base |-> 3, n |-> 1, must |-> FALSE],
                [base |-> 0, n |-> 1, must |-> FALSE] >>

=============================================================================
