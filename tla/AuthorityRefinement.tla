------------------------- MODULE AuthorityRefinement -------------------------
(***************************************************************************)
(* The evidence about leases, capabilities and effects implements the      *)
(* authority over domains.                                                 *)
(***************************************************************************)
EXTENDS PhysicalAuthority

Granted(E) == {l \in Leases : Item("lease", l) \in E}

Moments(E) == [l \in Leases |-> {t \in Times : InForce(E, l, t)}]

TermOf == [l \in Leases |-> {t \in Times : From[l] <= t /\ t < Until[l]}]

\* The leases that the exercise stated by r relies on: those of the capability
\* and of every capability it was delegated from.
Relied(r) == {LeaseOf[d] : d \in UNION {Ancestry[k] : k \in Exercised(r)}}

Relyings == UNION {Relied(r) \X {r.at} : r \in evidence}

Authority == INSTANCE DomainAuthority WITH
    granted <- Granted(evidence), force <- Moments(evidence),
    exercised <- Relyings, Term <- TermOf

\* Hosts with stale snapshots, unguarded decisions, revocations, crashes between
\* two commits and effects on their way change the log only as the abstract
\* authority over a domain may change: a lease that was granted never regains a
\* moment, and what is relied on at a boundary of an effect is in force there.
ImplementsAuthority == Authority!Spec

=============================================================================
