------------------------ MODULE MCPhysicalAuthority ------------------------
(* Instances of the physical authority model for TLC.                        *)
EXTENDS AuthorityRefinement, TLC

CONSTANTS h1, h2, d1, l1, l2, l3, c1, c2, e1, p, q

OneDomain == [l \in Leases |-> d1]

\* l1 is valid for three units; l2 and l3 both want to follow it with epoch 2
\* while it would still be valid.
Epochs == [l \in Leases |-> IF l = l1 THEN 1 ELSE 2]
Starts == [x \in Leases \cup Caps |-> IF x \in {l2, l3} THEN 1 ELSE 0]
Ends   == [x \in Leases \cup Caps |-> 3]
OnL1   == [c \in Caps |-> l1]
Chain  == [c \in Caps |-> IF c = c2 THEN c1 ELSE None]

Ask(k, o, t, a) == [kind |-> k, obj |-> o, at |-> t, arg |-> a]

\* An effect is taken through its boundaries under a delegated capability,
\* while its lease is revoked and two leases compete for the succession.
Boundary ==
    {Ask("register", d1, 0, None), Ask("grant", l1, 0, None),
     Ask("grant", l2, 1, None), Ask("grant", l3, 1, None),
     Ask("revoke", l1, 1, p),
     Ask("issue", c1, 0, None), Ask("issue", c2, 0, None),
     Ask("bind", e1, 0, c2), Ask("authorize", e1, 1, None),
     Ask("execute", e1, 1, None)}

\* Two principals preempt one lease, at different moments, while a capability
\* under it is in use and withdrawn.
Preemption ==
    {Ask("register", d1, 0, None), Ask("grant", l1, 0, None),
     Ask("preempt", l1, 1, q), Ask("preempt", l1, 2, p),
     Ask("issue", c1, 0, None), Ask("withdraw", c1, 1, p),
     Ask("use", c1, 1, None)}

Symmetry == Permutations(Hosts)
=============================================================================
