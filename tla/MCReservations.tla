--------------------------- MODULE MCReservations ---------------------------
(* Instances of Reservations for TLC.                                       *)
EXTENDS Reservations, TLC

CONSTANTS h1, h2, a, b, r1, r2

\* Each candidate fits alone, both together do not.
OneResource == (a :> (r1 :> 2)) @@ (b :> (r1 :> 1))
TwoResources == (a :> (r1 :> 2)) @@ (b :> ((r1 :> 1) @@ (r2 :> 1)))
Three == [r \in Resources |-> 3]
One == [r \in Resources |-> 1]

Symmetry == Permutations(Hosts)
=============================================================================
