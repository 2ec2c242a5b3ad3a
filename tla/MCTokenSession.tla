--------------------------- MODULE MCTokenSession ---------------------------
(***************************************************************************)
(* TokenSession for TLC: requests are interchangeable.                     *)
(***************************************************************************)
EXTENDS TokenSession, TLC

Symmetry == Permutations(Requests)
=============================================================================
