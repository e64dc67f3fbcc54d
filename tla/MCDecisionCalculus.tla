------------------------- MODULE MCDecisionCalculus -------------------------
(* Instances of the decision calculus for TLC.                               *)
EXTENDS DecisionCalculus, TLC

CONSTANTS h1, h2, a1, b1, a2, g, sa, sb, sg, v1, v2, c1, x1, x2, l1, e1

\* b1 is derived from a1, a2 revises a1 on the ground of b1, and g is pinned.
Subject == [d \in Decisions |->
               CASE d \in {a1, a2} -> sa [] d = b1 -> sb [] d = g -> sg]
Value   == [d \in Decisions |-> IF d = a2 THEN v2 ELSE v1]
Ground  == [d \in Decisions |->
               CASE d = a2 -> {b1} [] d = b1 -> {a1} [] OTHER -> {}]
NoConstraint == [d \in Decisions |-> {}]
Witness == [c \in Conflicts |-> {e1}]
AllAboutC1 == [x \in Explanations |-> c1]
Cited   == [x \in Explanations |-> {e1}]
FirstExplains == [l \in Constraints |-> x1]

\* b1 alone, and with its cause and a pinned decision.
Blame == {{b1}, {a1, b1, g}}

Symmetry == Permutations(Hosts)
=============================================================================
