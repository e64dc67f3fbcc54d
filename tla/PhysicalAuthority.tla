-------------------------- MODULE PhysicalAuthority --------------------------
(***************************************************************************)
(* Authority over a physical domain: leases with epochs, bounded effect    *)
(* capabilities, preemption, the fence on the use of a capability and the  *)
(* rechecks at the boundaries of an effect (v0.56, PR-3A to PR-3H).        *)
(*                                                                         *)
(* All of it is evidence in the machine log.  A host works on its own      *)
(* snapshot (`seen'), which another host's commit leaves behind.  Two      *)
(* kinds of commit exist: the scoped-authority decision is appended        *)
(* unconditionally and brings the snapshot up to date, and the document    *)
(* itself is appended only if the machine version is still the one the     *)
(* host expects.  `behind[h]' says that it is not.                         *)
(*                                                                         *)
(* An identifier is the fingerprint of the contents, so the contents of    *)
(* leases and capabilities are constants of their identifiers.  Times are  *)
(* the at_time arguments of the calls: no handler compares them with a     *)
(* clock.  Checks on constant fields (scopes, revisions, operations,       *)
(* numeric bounds, delegation depth) either always raise or always pass;   *)
(* the calls of an instance are ones that pass.                            *)
(***************************************************************************)
EXTENDS Naturals, FiniteSets

CONSTANTS
    Hosts,              \* runtimes attached to the same machine
    Leases, Caps, Effects,
    Domain,             \* the authority domain of each lease
    Epoch,              \* authority_epoch of each lease
    From, Until,        \* validity of each lease and capability
    LeaseOf,            \* authority_lease_id of each capability
    Parent,             \* parent_capability_id, None for a root capability
    None,               \* no parent, no argument, no call
    Actors,             \* principals who terminate leases and capabilities
    Times,              \* values of at_time
    Calls               \* the calls that the callers of an instance make

\* Kinds of documents, beside the decisions, which have the kind of the call.
CallKinds == {"register", "grant", "revoke", "preempt", "issue", "withdraw",
              "use", "bind", "authorize", "execute"}
DocumentKinds == {"domain", "lease", "revoked", "preemption", "preempted",
                  "capability", "withdrawn", "used", "binding", "AUTHORIZE",
                  "EXECUTE"}

Domains == {Domain[l] : l \in Leases}
Objects == Domains \cup Leases \cup Caps \cup Effects
Records == [kind : CallKinds \cup DocumentKinds, obj : Objects,
            at : Times, arg : Actors \cup Caps \cup {None}]

ASSUME AuthorityAssumption ==
    /\ Times \subseteq Nat
    /\ 0 \in Times
    /\ Epoch \in [Leases -> Nat \ {0}]
    /\ From \in [Leases \cup Caps -> Nat]
    /\ Until \in [Leases \cup Caps -> Nat]
    /\ LeaseOf \in [Caps -> Leases]
    /\ Parent \in [Caps -> Caps \cup {None}]
    /\ Calls \subseteq [kind : CallKinds, obj : Objects, at : Times,
                        arg : Actors \cup Caps \cup {None}]
    /\ \A c \in Calls :
        /\ c.kind = "register" => c.obj \in Domains
        /\ c.kind \in {"grant", "revoke", "preempt"} => c.obj \in Leases
        /\ c.kind \in {"issue", "withdraw", "use"} => c.obj \in Caps
        /\ c.kind \in {"bind", "authorize", "execute"} => c.obj \in Effects
        /\ c.kind = "bind" => c.arg \in Caps
    /\ None \notin Caps \cup Calls

VARIABLES
    evidence,   \* the evidence records of the canonical snapshot
    seen,       \* the evidence records of the snapshot of each host
    behind,     \* the snapshot of the host is not of the canonical version
    call,       \* the call each host is working on
    phase,      \* how far it is
    status      \* the status of each effect in the store

vars == <<evidence, seen, behind, call, phase, status>>
host == <<call, phase>>

TypeOK ==
    /\ evidence \subseteq Records
    /\ seen \in [Hosts -> SUBSET Records]
    /\ behind \in [Hosts -> BOOLEAN]
    /\ call \in [Hosts -> Calls \cup {None}]
    /\ phase \in [Hosts -> {"idle", "decided", "preempting", "rechecked"}]
    /\ status \in [Effects -> {"PROPOSED", "AUTHORIZED", "RUNNING"}]

Init ==
    /\ evidence = {}
    /\ seen = [h \in Hosts |-> {}]
    /\ behind = [h \in Hosts |-> FALSE]
    /\ call = [h \in Hosts |-> None]
    /\ phase = [h \in Hosts |-> "idle"]
    /\ status = [e \in Effects |-> "PROPOSED"]

-----------------------------------------------------------------------------
(* What a set of evidence records says.                                    *)

\* A document that is the same whoever records it and when.
Item(k, o) == [kind |-> k, obj |-> o, at |-> 0, arg |-> None]

Of(E, kinds, o) == {r \in E : r.kind \in kinds /\ r.obj = o}

Terminations(E, l) == Of(E, {"revoked", "preempted"}, l)
Withdrawals(E, c) == Of(E, {"withdrawn"}, c)
Preemptions(E, l) == Of(E, {"preemption"}, l)

Unique(S) == \A r, s \in S : r = s

\* No lease has two non-identical revocations.
LeaseLogValid(E) == \A l \in Leases : Unique(Terminations(E, l))

\* No capability has two non-identical revocations.
CapLogValid(E) == \A c \in Caps : Unique(Withdrawals(E, c))

\* No effect has two bindings.
BindingLogValid(E) == \A e \in Effects : Unique(Of(E, {"binding"}, e))

\* authority_lease_report(...)["active_at_time"]
InForce(E, l, t) ==
    /\ Item("lease", l) \in E
    /\ From[l] <= t /\ t < Until[l]
    /\ \A r \in Terminations(E, l) : t < r.at

\* A capability and the capabilities it was delegated from: the least set that
\* holds the capability and the parent of every member.
Ancestry == [c \in Caps |->
    {d \in Caps : \A S \in SUBSET Caps :
        c \in S /\ (\A k \in S : Parent[k] # None => Parent[k] \in S) => d \in S}]

\* effect_capability_report(...)["active_at_time"]: the whole chain of parents
\* is valid at t, not withdrawn by then, and backed by a lease in force.  The
\* revocation generation of a parent differs from the one its child captured
\* exactly when the parent is withdrawn.
CapActive(E, c, t) ==
    \A d \in Ancestry[c] :
        /\ Item("capability", d) \in E
        /\ From[d] <= t /\ t < Until[d]
        /\ \A w \in Withdrawals(E, d) : t < w.at
        /\ InForce(E, LeaseOf[d], t)

\* The reports on leases and capabilities raise on an invalid projection.
ReportsWork(E) == LeaseLogValid(E) /\ CapLogValid(E)

-----------------------------------------------------------------------------
(* The two kinds of commit.                                                *)

Commit(h, r) ==
    /\ evidence' = evidence \cup {r}
    /\ seen' = [seen EXCEPT ![h] = evidence']
    /\ behind' = [g \in Hosts |-> g # h]

Reload(h) ==
    /\ seen' = [seen EXCEPT ![h] = evidence]
    /\ behind' = [behind EXCEPT ![h] = FALSE]
    /\ UNCHANGED evidence

Enter(h, c, p) ==
    /\ call' = [call EXCEPT ![h] = c]
    /\ phase' = [phase EXCEPT ![h] = p]

Return(h) == Enter(h, None, "idle")

\* (Mutant: the documents are added without the expected version.)
Unguarded(h) == FALSE

\* expected_machine_version is not the version of the canonical snapshot.
Stale(h) == behind[h]

\* _record_*_document: an identical document that the host already sees is
\* returned as it is; otherwise the document is committed under the guard.
\* The handler goes on with call c in phase p, or the store refuses the
\* commit and the host reloads its snapshot and raises.
RecordThen(h, r, c, p) ==
    \/ /\ r \in seen[h]
       /\ Enter(h, c, p)
       /\ UNCHANGED <<evidence, seen, behind>>
    \/ /\ r \notin seen[h] /\ ~Stale(h)
       /\ Commit(h, r)
       /\ Enter(h, c, p)
    \/ /\ r \notin seen[h] /\ Stale(h)
       /\ Reload(h)
       /\ Return(h)

Record(h, r) == RecordThen(h, r, None, "idle")

\* authorize_scoped_request, allowed: the snapshot is refreshed, and the
\* decision is appended without a guard, unless an identical one is there.  A
\* denial, and every commit of another component, is OtherCommit below.
Decide(h, c) ==
    /\ IF c \in evidence THEN Reload(h) ELSE Commit(h, c)
    /\ Enter(h, c, "decided")
    /\ UNCHANGED status

Asked(h, k) == {c \in Calls : phase[h] = "idle" /\ c.kind = k}

Decided(h, k) == phase[h] = "decided" /\ call[h].kind = k

\* The host raises on a check after the decision.
Raise(h) == Return(h) /\ UNCHANGED <<evidence, seen, behind>>

-----------------------------------------------------------------------------
(* Domains and leases.                                                     *)

RegisterDomain(h) ==
    \/ \E c \in Asked(h, "register") : Decide(h, c)
    \/ /\ Decided(h, "register")
       /\ IF LeaseLogValid(seen[h])
          THEN Record(h, Item("domain", call[h].obj))
          ELSE Raise(h)
       /\ UNCHANGED status

DomainLeases(E, d) == {l \in Leases : Domain[l] = d /\ Item("lease", l) \in E}

\* (Mutant: any epoch above the highest one will do.)
HigherEpoch(E, l) ==
    \A m \in DomainLeases(E, Domain[l]) : Epoch[m] < Epoch[l]

\* The epoch of l is one above the highest epoch of its domain.
NextEpoch(E, l) ==
    LET others == DomainLeases(E, Domain[l]) IN
    /\ \A m \in others : Epoch[m] < Epoch[l]
    /\ Epoch[l] > 1 => \E m \in others : Epoch[m] + 1 = Epoch[l]

\* The validity of l and the effective interval of m have a common moment.
Overlaps(E, l, m) ==
    \E t \in From[l] .. Until[l] : t < Until[l] /\ InForce(E, m, t)

Grantable(E, l) ==
    /\ LeaseLogValid(E)
    /\ NextEpoch(E, l)
    /\ \A m \in DomainLeases(E, Domain[l]) : ~Overlaps(E, l, m)

GrantLease(h) ==
    \/ \E c \in Asked(h, "grant") :
        /\ LeaseLogValid(seen[h])
        /\ Item("domain", Domain[c.obj]) \in seen[h]
        /\ Decide(h, c)
    \/ /\ Decided(h, "grant")
       /\ LET l == call[h].obj IN
          IF Grantable(seen[h], l) \/ Item("lease", l) \in seen[h]
          THEN Record(h, Item("lease", l))
          ELSE Raise(h)
       /\ UNCHANGED status

\* The prior revocation is looked for before the decision, and only then.
RevokeLease(h) ==
    \/ \E c \in Asked(h, "revoke") :
        /\ LeaseLogValid(seen[h])
        /\ Item("lease", c.obj) \in seen[h]
        /\ Terminations(seen[h], c.obj) = {}
        /\ Decide(h, c)
    \/ /\ Decided(h, "revoke")
       /\ IF call[h].at >= From[call[h].obj]
          THEN Record(h, [call[h] EXCEPT !.kind = "revoked"])
          ELSE Raise(h)
       /\ UNCHANGED status

-----------------------------------------------------------------------------
(* Preemption: two guarded documents, and the repair of the second one.    *)

PreemptionOf(c) == [c EXCEPT !.kind = "preemption"]
PreemptedBy(c) == [c EXCEPT !.kind = "preempted"]

PreemptLease(h) ==
    /\ \/ \E c \in Asked(h, "preempt") :
           /\ Preemptions(seen[h], c.obj) = {}
           /\ LeaseLogValid(seen[h])
           /\ InForce(seen[h], c.obj, c.at)
           /\ Decide(h, c)
       \/ /\ Decided(h, "preempt")
          /\ RecordThen(h, PreemptionOf(call[h]), call[h], "preempting")
       \/ /\ phase[h] = "preempting"
          /\ Record(h, PreemptedBy(call[h]))
    /\ UNCHANGED status

\* (Mutant: the retry answers already_preempted and repairs nothing.)
NothingToRepair(E, c) == FALSE

Unrepaired(E, c) ==
    /\ PreemptionOf(c) \in E
    /\ LeaseLogValid(E)
    /\ Terminations(E, c.obj) = {}

\* The same preemption is asked for again: a missing revocation is recorded.
RepairPreemption(h) ==
    \E c \in Asked(h, "preempt") :
        /\ Unrepaired(seen[h], c)
        /\ Record(h, PreemptedBy(c))
        /\ UNCHANGED status

-----------------------------------------------------------------------------
(* Capabilities.                                                           *)

\* issue_effect_capability and delegate_effect_capability: what the new
\* capability is rooted in is checked before the decision.
IssueCapability(h) ==
    \/ \E c \in Asked(h, "issue") :
        LET k == c.obj IN
        /\ ReportsWork(seen[h])
        /\ IF Parent[k] = None
           THEN /\ InForce(seen[h], LeaseOf[k], c.at)
                /\ \A r \in Terminations(seen[h], LeaseOf[k]) : Until[k] <= r.at
           ELSE CapActive(seen[h], Parent[k], c.at)
        /\ Decide(h, c)
    \/ /\ Decided(h, "issue")
       /\ IF CapLogValid(seen[h])
          THEN Record(h, Item("capability", call[h].obj))
          ELSE Raise(h)
       /\ UNCHANGED status

RevokeCapability(h) ==
    \/ \E c \in Asked(h, "withdraw") :
        /\ CapLogValid(seen[h])
        /\ Item("capability", c.obj) \in seen[h]
        /\ Withdrawals(seen[h], c.obj) = {}
        /\ Decide(h, c)
    \/ /\ Decided(h, "withdraw")
       /\ Record(h, [call[h] EXCEPT !.kind = "withdrawn"])
       /\ UNCHANGED status

\* validate_effect_capability_use: no decision, one guarded document.
UseCapability(h) ==
    \E c \in Asked(h, "use") :
        /\ ReportsWork(seen[h])
        /\ CapActive(seen[h], c.obj, c.at)
        /\ Record(h, [c EXCEPT !.kind = "used"])
        /\ UNCHANGED status

-----------------------------------------------------------------------------
(* The boundaries of an effect that requires physical authority.           *)

BindEffect(h) ==
    \/ \E c \in Asked(h, "bind") :
        /\ status[c.obj] = "PROPOSED"
        /\ ReportsWork(seen[h])
        /\ CapActive(seen[h], c.arg, c.at)
        /\ Decide(h, c)
    \/ /\ Decided(h, "bind")
       /\ LET b == [Item("binding", call[h].obj) EXCEPT !.arg = call[h].arg] IN
          IF Of(seen[h], {"binding"}, b.obj) \subseteq {b}
          THEN Record(h, b)
          ELSE Raise(h)
       /\ UNCHANGED status

\* _validate_physical_effect_authority_at_time
Authorized(E, c) ==
    /\ ReportsWork(E)
    /\ BindingLogValid(E)
    /\ \E b \in Of(E, {"binding"}, c.obj) : CapActive(E, b.arg, c.at)

\* The recheck at a boundary, and then the lifecycle of the effect.
Recheck(h, k, boundary) ==
    \E c \in Asked(h, k) :
        /\ Authorized(seen[h], c)
        /\ RecordThen(h, [c EXCEPT !.kind = boundary], c, "rechecked")
        /\ UNCHANGED status

Proceed(h, k, from, to) ==
    /\ phase[h] = "rechecked" /\ call[h].kind = k
    /\ LET e == call[h].obj IN
       status' = [status EXCEPT ![e] = IF @ = from THEN to ELSE @]
    /\ Return(h)
    /\ UNCHANGED <<evidence, seen, behind>>

AuthorizeEffect(h) ==
    \/ Recheck(h, "authorize", "AUTHORIZE")
    \/ Proceed(h, "authorize", "PROPOSED", "AUTHORIZED")

\* (Mutant: an execution is not rechecked.)
ExecuteUnchecked(h) ==
    \E c \in Asked(h, "execute") :
        /\ status[c.obj] = "AUTHORIZED"
        /\ status' = [status EXCEPT ![c.obj] = "RUNNING"]
        /\ UNCHANGED <<evidence, seen, behind, host>>

ExecuteEffect(h) ==
    \/ Recheck(h, "execute", "EXECUTE")
    \/ Proceed(h, "execute", "AUTHORIZED", "RUNNING")

-----------------------------------------------------------------------------
(* The rest of the machine.                                                *)

\* Another component of the host commits an event, or a decision is a denial:
\* the version moves and the snapshot of h is brought up to date.
OtherCommit(h) ==
    /\ phase[h] = "idle"
    /\ seen' = [seen EXCEPT ![h] = evidence]
    /\ behind' = [g \in Hosts |-> g # h]
    /\ UNCHANGED <<evidence, host, status>>

\* The process dies anywhere in a handler; it is resumed from the store.
Crash(h) ==
    /\ Reload(h)
    /\ Return(h)
    /\ UNCHANGED status

Handler(h) ==
    \/ RegisterDomain(h) \/ GrantLease(h) \/ RevokeLease(h)
    \/ PreemptLease(h) \/ RepairPreemption(h)
    \/ IssueCapability(h) \/ RevokeCapability(h) \/ UseCapability(h)
    \/ BindEffect(h) \/ AuthorizeEffect(h) \/ ExecuteEffect(h)

Next == \E h \in Hosts : Handler(h) \/ OtherCommit(h) \/ Crash(h)

Spec == Init /\ [][Next]_vars
-----------------------------------------------------------------------------
(* Properties.                                                             *)

\* Two leases of one domain are never in force at the same moment, whoever
\* granted, revoked or preempted them on which snapshot.
ExclusiveAuthority ==
    \A l, m \in Leases : \A t \in Times :
        /\ l # m /\ Domain[l] = Domain[m]
        => ~(InForce(evidence, l, t) /\ InForce(evidence, m, t))

\* The epochs of a domain are handed out one by one, each to one lease.
EpochsHaveNoGap ==
    \A l \in Leases : Item("lease", l) \in evidence =>
        LET others == DomainLeases(evidence, Domain[l]) \ {l} IN
        /\ \A m \in others : Epoch[m] # Epoch[l]
        /\ \A n \in 1 .. Epoch[l] : n < Epoch[l] =>
            \E m \in others : Epoch[m] = n

\* The capability whose exercise a record states.
Exercised(r) ==
    IF r.kind = "used" THEN {r.obj}
    ELSE IF r.kind \in {"AUTHORIZE", "EXECUTE"}
    THEN {b.arg : b \in Of(evidence, {"binding"}, r.obj)}
    ELSE {}

\* When the exercise of a capability is recorded, its whole chain is active
\* in the canonical log, not only in the snapshot of the host, and no later
\* holder of the domain is in force at that moment.
ExercisedInForce ==
    \A r \in evidence' \ evidence : \A k \in Exercised(r) :
        /\ CapActive(evidence, k, r.at)
        /\ \A m \in Leases : m # LeaseOf[k] /\ Domain[m] = Domain[LeaseOf[k]]
            => ~InForce(evidence, m, r.at)

AuthorityIsCurrent == [][ExercisedInForce]_vars

\* An effect runs only after it was bound and rechecked at both boundaries.
DispatchIsFenced ==
    \A e \in Effects : status[e] = "RUNNING" =>
        \A k \in {"binding", "AUTHORIZE", "EXECUTE"} : Of(evidence, {k}, e) # {}

\* A preemption that was recorded eventually ends its lease, although the two
\* documents are two commits and the host may die between them.
PreemptionTakesEffect ==
    \A l \in Leases :
        Preemptions(evidence, l) # {} ~> Terminations(evidence, l) # {}

\* A handler that was entered goes on; callers repeat a preemption until it
\* has succeeded, and an optimistic commit that is tried for ever is eventually
\* not overtaken.
FairSpec ==
    /\ Spec
    /\ \A h \in Hosts :
        /\ WF_vars(phase[h] # "idle" /\ Handler(h))
        /\ SF_vars(RepairPreemption(h) /\ evidence' # evidence)
=============================================================================
