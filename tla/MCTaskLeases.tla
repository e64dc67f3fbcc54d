---------------------------- MODULE MCTaskLeases ----------------------------
(* Instances of the task leases for TLC.                                    *)
EXTENDS LeaseRefinement, TLC

CONSTANTS t1, t2, w1, w2

Symmetry ==
    Permutations(Hosts) \cup Permutations(Workers) \cup Permutations(Tasks)
=============================================================================
