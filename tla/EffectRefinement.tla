-------------------------- MODULE EffectRefinement --------------------------
(***************************************************************************)
(* The effect lifecycle implements the external boundary.  The boundary of *)
(* a key is read off its records and the calls made for it.                *)
(***************************************************************************)
EXTENDS EffectLifecycle

CallsFor(k) ==
    {x \in Execs : \E e \in Effects : owner[x] = e /\ KeyOf[e] = k}

Settled(k) ==
    \E e \in Effects : KeyOf[e] = k /\ effects[e].status = "SUCCEEDED"

Crossing(k) == \E x \in CallsFor(k) : calls[x] = "inflight"

BoundaryState ==
    [k \in Keys |-> IF Settled(k) THEN "sealed"
                    ELSE IF Crossing(k) THEN "crossing" ELSE "open"]

SpentTokens ==
    [k \in Keys |-> {x \in CallsFor(k) : calls[x] \in {"inflight", "ok", "error"}}]

Boundary == INSTANCE ExternalBoundary
                WITH Tokens <- Execs, boundary <- BoundaryState,
                     spent <- SpentTokens

\* Every step of the hosts and of the outside world is, seen from a key, a
\* crossing with a fresh token, a return, the sealing of the boundary, or
\* nothing.
ImplementsBoundary == Boundary!Spec

=============================================================================
