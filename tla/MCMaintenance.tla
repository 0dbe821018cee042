---------------------------- MODULE MCMaintenance ----------------------------
(***************************************************************************)
(* Maintenance for model checking: three releases.  The operator of the    *)
(* second is inside the skew window of the first; that of the third is     *)
(* inside the window of the second and just outside that of the first.     *)
(***************************************************************************)
EXTENDS Maintenance

V(x, y, z) == [major |-> x, minor |-> y, patch |-> z]

MCBundle == [r \in {"r1", "r2", "r3"} |->
    CASE r = "r1" -> V(1, 20, 0)
      [] r = "r2" -> V(1, 22, 1)
      [] r = "r3" -> V(1, 23, 0)]

MCReleases == DOMAIN MCBundle

MCVersions == { MCBundle[r] : r \in MCReleases }

=============================================================================
