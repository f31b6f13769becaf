--------------------------- MODULE MCReadingById ---------------------------
(* A small instance of ReadingById for TLC: each of two users has a trip, *)
(* one of them two posts about it, and a third user is not admitted.      *)
EXTENDS ReadingById, TLC

CONSTANTS u1, u2, u3, t1, t2, p1, p2, p3

OwnerOfTrip == (t1 :> u1) @@ (t2 :> u2)

TripOfPost == (p1 :> t1) @@ (p2 :> t1) @@ (p3 :> t2)
=============================================================================
