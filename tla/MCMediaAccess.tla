---------------------------- MODULE MCMediaAccess ----------------------------
(* Instances of MediaAccess for TLC. *)
EXTENDS MediaAccess, TLC

\* Used only where no liveness is checked.
Symmetry == Permutations(Ids) \cup Permutations(Leases)
=============================================================================
