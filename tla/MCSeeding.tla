------------------------------ MODULE MCSeeding ------------------------------
(***************************************************************************)
(* Seeding for TLC: every Instance that validation lets pass.              *)
(***************************************************************************)
EXTENDS Seeding
=============================================================================
