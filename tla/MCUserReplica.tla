--------------------------- MODULE MCUserReplica ---------------------------
(* Small instances of UserReplica for TLC. *)
EXTENDS UserReplica, TLC

Symmetry == Permutations(User)
=============================================================================
