------------------------- MODULE GovernedRefinement -------------------------
(***************************************************************************)
(* Governed effects cross the same external boundary as the durable        *)
(* effects of v0.8 (ExternalBoundary), with one effect for the only key.   *)
(***************************************************************************)
EXTENDS GovernedEffects

Effect == "effect"

BoundaryState ==
    IF record.status = "SUCCEEDED" THEN "sealed"
    ELSE IF \E x \in Execs : calls[x] = "inflight" THEN "crossing" ELSE "open"

Boundary == INSTANCE ExternalBoundary
                WITH Keys <- {Effect}, Tokens <- Execs,
                     boundary <- [k \in {Effect} |-> BoundaryState],
                     spent <- [k \in {Effect} |-> Invoked]

\* The loads, saves, bindings and verdicts that v0.53 and v0.54 put around an
\* effect leave what happens at the boundary as it was: until a handler goes on
\* with a record that has moved, every step is a crossing under a fresh
\* execution, a return, the sealing by a success, or invisible from outside.
GovernedBoundary ==
    /\ Boundary!Init
    /\ [][~raced' /\ ~RetryOnUnknown =>
              Boundary!Next \/ UNCHANGED Boundary!bvars]_vars

=============================================================================
