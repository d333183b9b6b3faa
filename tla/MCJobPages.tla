------------------------------ MODULE MCJobPages ------------------------------
(***************************************************************************)
(* JobPages on small instances: two pages, a candidate the validator       *)
(* accepts and one it vetoes.                                              *)
(***************************************************************************)
EXTENDS JobPages, TLC

Interchangeable == Permutations(Reviewer)
==============================================================================
