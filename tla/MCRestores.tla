------------------------------ MODULE MCRestores ------------------------------
(***************************************************************************)
(* Restores for TLC: two backups, so that a base can be too new, and three *)
(* seconds, so that a backup can be completed, observed and asked for at   *)
(* different times.                                                        *)
(***************************************************************************)
EXTENDS Restores, TLC

Symmetry == Permutations(Backups)
=============================================================================
