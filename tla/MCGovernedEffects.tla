------------------------- MODULE MCGovernedEffects -------------------------
(* Instances of GovernedEffects for TLC.                                    *)
EXTENDS GovernedRefinement, TLC

CONSTANTS h1, h2, l1, l2, x1, x2

Symmetry == Permutations(Hosts) \cup Permutations(Leases) \cup Permutations(Execs)
=============================================================================
