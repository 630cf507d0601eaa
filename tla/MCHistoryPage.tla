--------------------------- MODULE MCHistoryPage ---------------------------
(* A small instance of HistoryPage: jobs and requests are interchangeable. *)
EXTENDS HistoryPage, TLC

Symmetry == Permutations(Job) \cup Permutations(Slot)
=============================================================================
