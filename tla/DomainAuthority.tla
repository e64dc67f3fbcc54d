--------------------------- MODULE DomainAuthority ---------------------------
(***************************************************************************)
(* What the leases of a domain promise, without hosts, snapshots, records  *)
(* or capabilities: authority is granted lease by lease, epoch by epoch,   *)
(* over moments that no other lease of the domain has; it can only be cut  *)
(* short; and it is exercised only at moments it has.                      *)
(***************************************************************************)
EXTENDS Naturals

CONSTANTS
    Leases, Times,
    Domain, Epoch,  \* of each lease
    Term            \* the moments each lease was made for

VARIABLES
    granted,    \* the leases that were granted
    force,      \* the moments at which each lease is in force
    exercised   \* the leases that were relied on, and for which moment

avars == <<granted, force, exercised>>

Init ==
    /\ granted = {}
    /\ force = [l \in Leases |-> {}]
    /\ exercised = {}

Rivals(l) == {m \in granted : Domain[m] = Domain[l]}

Grant(l) ==
    /\ l \notin granted
    /\ \A m \in Rivals(l) : Epoch[m] < Epoch[l] /\ force[m] \cap Term[l] = {}
    /\ Epoch[l] > 1 => \E m \in Rivals(l) : Epoch[m] + 1 = Epoch[l]
    /\ granted' = granted \cup {l}
    /\ force' = [force EXCEPT ![l] = Term[l]]
    /\ UNCHANGED exercised

\* A lease ends at t, which may be long past.
Cut(l, t) ==
    /\ force' = [force EXCEPT ![l] = {u \in force[l] : u < t}]
    /\ UNCHANGED <<granted, exercised>>

\* The leases under a chain of capabilities are relied on together.
Exercise(ls, t) ==
    /\ \A l \in ls : t \in force[l]
    /\ exercised' = exercised \cup (ls \X {t})
    /\ UNCHANGED <<granted, force>>

Next ==
    \/ \E l \in Leases : Grant(l)
    \/ \E l \in Leases, t \in Times : Cut(l, t)
    \/ \E ls \in SUBSET Leases, t \in Times : Exercise(ls, t)

Spec == Init /\ [][Next]_avars

=============================================================================
