--------------------------- MODULE MCPostCreation ---------------------------
(* Small instances of PostCreation for TLC. *)
EXTENDS PostCreation, TLC

CONSTANTS u1, u2, t1, png, jpg, gif

\* Two users, and one trip, of the first of them.
OwnerOfTrip == t1 :> u1

\* Two of the names differ only in the extension.
IdOfFile == (png :> 1) @@ (jpg :> 1) @@ (gif :> 2)

Symmetry == Permutations(Request)
=============================================================================
