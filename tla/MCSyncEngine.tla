---------------------------- MODULE MCSyncEngine ----------------------------
(***************************************************************************)
(* SyncEngine for TLC: folders are interchangeable, no operator of the     *)
(* specification tells one from another.                                   *)
(***************************************************************************)
EXTENDS SyncEngine, TLC

Symmetry == Permutations(Folders)
=============================================================================
