------------------------------ MODULE MCLogin ------------------------------
(***************************************************************************)
(* TLC instance of Login.                                                  *)
(***************************************************************************)
EXTENDS Login, TLC
Symmetry == Permutations(Requests)
=============================================================================
