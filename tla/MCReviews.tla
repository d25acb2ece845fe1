------------------------------ MODULE MCReviews -----------------------------
(***************************************************************************)
(* Small instances of Reviews: the two parties of a booking send requests  *)
(* at once, against the sweep.                                             *)
(***************************************************************************)
EXTENDS Reviews, TLC

Symmetry == Permutations(Calls) \cup Permutations(Texts)
=============================================================================
