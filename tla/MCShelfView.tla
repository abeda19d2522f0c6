----------------------------- MODULE MCShelfView -----------------------------
(* The instance of ShelfView for TLC.                                      *)
EXTENDS ShelfView, TLC

\* Refresh threads are interchangeable in safety properties.
RefresherSymmetry == Permutations(Refresher)
=============================================================================
