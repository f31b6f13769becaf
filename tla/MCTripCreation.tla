--------------------------- MODULE MCTripCreation ---------------------------
(* Small instances of TripCreation for TLC. *)
EXTENDS TripCreation, TLC

Symmetry == Permutations(Request) \cup Permutations(Header)
=============================================================================
