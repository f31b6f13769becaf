----------------------------- MODULE MCReading -----------------------------
(* A small instance of Reading for TLC. *)
EXTENDS Reading, TLC

CONSTANTS u1, u2, w1, w2, w3

\* Two rows of one user, one of another.
OwnerOfRow == (w1 :> u1) @@ (w2 :> u1) @@ (w3 :> u2)

Args == {Absent, NaN} \cup (-1..2)
=============================================================================
