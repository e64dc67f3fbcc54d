--------------------------- MODULE LeaseRefinement ---------------------------
(***************************************************************************)
(* The leases on record and the claim rows implement the custody of tasks. *)
(***************************************************************************)
EXTENDS TaskLeases

OnRecord == {l \in Leases : machine.leases[l].status # "NONE"}

InForce(t) == {l \in Active(machine, clock) : machine.leases[l].task = t}

Custody == INSTANCE TaskCustody WITH
    entitled <- [t \in Tasks |-> {l \in OnRecord : claims[t].lease = l}],
    held     <- [t \in Tasks |-> InForce(t)],
    out      <- {l \in OnRecord : Lost(l)}

\* Whatever hosts, sweeps, late renewals, crashes and stale snapshots do to the
\* records and the rows, a task passes from one lease to a new one, and a lease
\* that has lost its row is never in force again: no claim and no late heartbeat
\* brings the row back.
ImplementsCustody == Custody!Spec

=============================================================================
