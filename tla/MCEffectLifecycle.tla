------------------------- MODULE MCEffectLifecycle -------------------------
(* Instances of the effect lifecycle and of its refinement for TLC.         *)
EXTENDS EffectRefinement, EffectInvariant, TLC

CONSTANTS e1, e2, k1, k2

\* Every effect is proposed under the same idempotency key.
OneKey == [e \in Effects |-> k1]

\* Every effect has a key of its own.
OwnKeys == e1 :> k1 @@ e2 :> k2

Symmetry == Permutations(Execs)
=============================================================================
