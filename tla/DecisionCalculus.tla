-------------------------- MODULE DecisionCalculus --------------------------
(***************************************************************************)
(* The decision calculus of the v0.21 runtime with the certificates of     *)
(* v0.24, in the root scope: decisions about subjects, the active model,   *)
(* conflicts and their explanations, the constraints (no-goods) learned    *)
(* from them, backjumps and restarts of the search.                        *)
(*                                                                         *)
(* An operation refreshes the snapshot of its host, computes a new         *)
(* calculus from what it has read, and patches the snapshot with the whole *)
(* document, without an expected version: what other hosts have committed  *)
(* in between is overwritten.  The certificates are a second document,     *)
(* patched the same way.  An operation is a relation between the calculus  *)
(* s that it reads and the calculus t that it writes.                      *)
(*                                                                         *)
(* The attributes that a record keeps from its registration on (subject,   *)
(* value, parents, evidence) are constants.  There are no obligations, so  *)
(* the audits of fairness and of locks find nothing to do, and the epoch,  *)
(* which only they read, is left out.                                      *)
(***************************************************************************)
EXTENDS Naturals, FiniteSets

CONSTANTS
    Hosts,          \* engine processes attached to the store
    Decisions,      \* decision identifiers
    Subjects,       \* what decisions are about
    Values,         \* what they choose
    Conflicts,      \* conflict identifiers
    Explanations,   \* explanation identifiers
    Constraints,    \* constraint identifiers
    Evidence,       \* evidence identifiers
    SubjectOf,      \* DecisionRecord.subject
    ValueOf,        \* DecisionRecord.value
    Parents,        \* DecisionRecord.parent_ids
    Antecedents,    \* DecisionRecord.antecedent_constraint_ids
    Derived,        \* decisions of kind DERIVED
    Pinned,         \* decisions of kind ROOT or PINNED
    Observed,       \* ConflictRecord.evidence_ids
    About,          \* ExplanationRecord.conflict_id
    Grounds,        \* ExplanationRecord.evidence_ids
    Cores,          \* what callers put forward as an explanation
    Source,         \* the explanation a constraint is learned from
    MaxOvertakes,   \* bound on the commits that overtake an operation
    None

DecisionStatuses == {"ABSENT", "PROPOSED", "ACTIVE", "SUSPENDED",
                     "SUPERSEDED", "INVALIDATED"}
Unresolved       == {"OPEN", "EXPLAINED", "LEARNED"}
ConflictStatuses == {"ABSENT", "RESOLVED", "REJECTED"} \cup Unresolved

\* DecisionCalculusState, as far as it is modelled.
Documents ==
    [decisions    : [Decisions -> DecisionStatuses],
     level        : [Decisions -> Nat],                  \* DecisionRecord.level
     heir         : [Decisions -> Decisions \cup {None}],  \* superseded_by
     model        : [Subjects -> Decisions \cup {None}],   \* active_model
     conflicts    : [Conflicts -> ConflictStatuses],
     snapshot     : [Conflicts -> SUBSET Decisions],  \* active_model_snapshot
     blamed       : [Conflicts -> Explanations \cup {None}],  \* of the backjump
     explanations : [Explanations -> {"ABSENT", "PROPOSED", "VALIDATED", "REJECTED"}],
     literals     : [Explanations -> SUBSET Decisions],  \* assumption_literals
     constraints  : [Constraints ->       \* HARD when ACTIVE
                        {"ABSENT", "SOFT", "ACTIVE", "SUPERSEDED", "EXPIRED"}],
     validated    : SUBSET Constraints]   \* those with validation VALIDATED

Certificates == [Constraints -> {"ABSENT", "PROPOSED", "VERIFIED"}]

\* What an operation has read.
Copies == [calculus : Documents, certificates : Certificates]

ASSUME CalculusConstants ==
    /\ IsFiniteSet(Decisions)
    /\ None \notin Decisions \cup Explanations \cup Copies
    /\ SubjectOf \in [Decisions -> Subjects]
    /\ ValueOf \in [Decisions -> Values]
    /\ Parents \in [Decisions -> SUBSET Decisions]
    /\ Antecedents \in [Decisions -> SUBSET Constraints]
    /\ Derived \subseteq Decisions
    /\ Pinned \subseteq Decisions \ Derived
    /\ Observed \in [Conflicts -> SUBSET Evidence]
    /\ About \in [Explanations -> Conflicts]
    /\ Grounds \in [Explanations -> SUBSET Evidence]
    /\ \A x \in Explanations : Grounds[x] \subseteq Observed[About[x]]
    /\ Cores \subseteq SUBSET Decisions
    /\ Source \in [Constraints -> Explanations]

VARIABLES
    calculus,       \* the calculus of the canonical snapshot
    certificates,   \* the certificates of its assurance state
    copy,           \* what each host has read for the operation it is in
    overtakes       \* how many commits have overtaken an operation so far

vars == <<calculus, certificates, copy, overtakes>>

TypeOK ==
    /\ calculus \in Documents
    /\ certificates \in Certificates
    /\ copy \in [Hosts -> Copies \cup {None}]
    /\ overtakes \in Nat

Empty ==
    [decisions    |-> [d \in Decisions |-> "ABSENT"],
     level        |-> [d \in Decisions |-> 0],
     heir         |-> [d \in Decisions |-> None],
     model        |-> [s \in Subjects |-> None],
     conflicts    |-> [c \in Conflicts |-> "ABSENT"],
     snapshot     |-> [c \in Conflicts |-> {}],
     blamed       |-> [c \in Conflicts |-> None],
     explanations |-> [x \in Explanations |-> "ABSENT"],
     literals     |-> [x \in Explanations |-> {}],
     constraints  |-> [l \in Constraints |-> "ABSENT"],
     validated    |-> {}]

Init ==
    /\ calculus = Empty
    /\ certificates = [l \in Constraints |-> "ABSENT"]
    /\ copy = [h \in Hosts |-> None]
    /\ overtakes = 0

-----------------------------------------------------------------------------
(* Reading a calculus.                                                      *)

Known(s) == {d \in Decisions : s.decisions[d] # "ABSENT"}

Active(s) == {d \in Decisions : s.decisions[d] = "ACTIVE"}

Chosen(m) == {m[u] : u \in Subjects} \ {None}

Assignment(d) == <<SubjectOf[d], ValueOf[d]>>

\* The no-good of a constraint: the assignments it forbids together.
Body(s, l) == {Assignment(d) : d \in s.literals[Source[l]]}

Binding(s, l) == s.constraints[l] = "ACTIVE"

\* constraint_violated, in the model m.
Violated(s, l, m) ==
    /\ Binding(s, l)
    /\ Body(s, l) \subseteq {Assignment(d) : d \in Chosen(m)}

Admissible(s, m) == \A l \in Constraints : ~Violated(s, l, m)

\* What assert_calculus_invariants demands of a calculus that is committed.
Sound(s) ==
    \A l \in Constraints : Binding(s, l) =>
        /\ l \in s.validated
        /\ Violated(s, l, s.model) => s.conflicts[About[Source[l]]] \in Unresolved

\* assert_hard_constraint_certification
Certified(s, certs) ==
    \A l \in Constraints : Binding(s, l) => certs[l] = "VERIFIED"

\* decision_descendants: a decision and all that was registered below it.
ClosedDown(s, S) == \A d \in Known(s) : Parents[d] \cap S # {} => d \in S

\* (Mutant: nothing else falls.)
OnlyItself(s, d) == {d}

Descendants(s, d) ==
    {e \in Decisions :
        \A S \in SUBSET Decisions : d \in S /\ ClosedDown(s, S) => e \in S}

\* causal_roots: from a derived decision up to what it was derived from.
ClosedUp(S) == \A d \in S \cap Derived : Parents[d] \subseteq S

CausalRoots(d) ==
    {r \in Decisions :
        /\ r \notin Derived \/ Parents[r] = {}
        /\ \A S \in SUBSET Decisions : d \in S /\ ClosedUp(S) => r \in S}

-----------------------------------------------------------------------------
(* Decisions.                                                               *)

\* register_decision: the level is one above the parents, or, without any,
\* one above everything that is active.
Register(s, t, d) ==
    LET below == IF Parents[d] # {} THEN Parents[d] ELSE Active(s) IN
    /\ s.decisions[d] = "ABSENT"
    /\ Parents[d] \subseteq Known(s)
    /\ \A l \in Antecedents[d] : s.constraints[l] # "ABSENT"
    /\ \E highest \in {0} \cup {s.level[e] : e \in below} :
          /\ \A e \in below : s.level[e] <= highest
          /\ t = [s EXCEPT !.decisions[d] = "PROPOSED",
                           !.level[d] = IF d \in Pinned THEN 0 ELSE 1 + highest]

\* (Mutant: only the parents' existence is checked.)
RegisteredSupport(s, d) == Parents[d] \subseteq Known(s)

Supported(s, d) ==
    /\ Parents[d] \subseteq Active(s)
    /\ \A l \in Antecedents[d] : s.constraints[l] \in {"ACTIVE", "SOFT"}

\* What leaves the model when current is superseded.  (Mutant: everything.)
SuspendedAll(s, current) == IF current = None THEN {} ELSE Active(s) \ {current}

Suspended(s, current) ==
    IF current = None THEN {}
    ELSE (Descendants(s, current) \ {current}) \cap Active(s)

ModelWith(s, d, fallen) ==
    [u \in Subjects |-> IF u = SubjectOf[d] THEN d
                        ELSE IF s.model[u] \in fallen THEN None
                        ELSE s.model[u]]

\* activate_decision, with the explicit supersession of the decision that is
\* active on the same subject.
Activate(s, t, d) ==
    LET current == s.model[SubjectOf[d]]
        fallen  == Suspended(s, current)
        m       == ModelWith(s, d, fallen) IN
    /\ s.decisions[d] \in {"PROPOSED", "SUSPENDED"}
    /\ Supported(s, d)
    /\ current \notin Pinned
    /\ Admissible(s, m)
    /\ t = [s EXCEPT
               !.decisions = [e \in Decisions |-> IF e = d THEN "ACTIVE"
                                                  ELSE IF e = current THEN "SUPERSEDED"
                                                  ELSE IF e \in fallen THEN "SUSPENDED"
                                                  ELSE @[e]],
               !.heir = [e \in Decisions |-> IF e = current THEN d ELSE @[e]],
               !.model = m]

\* restart_search: all that is not pinned is suspended.
RestartSearch(s, t) ==
    LET m == [u \in Subjects |->
                  IF s.model[u] \in Pinned THEN s.model[u] ELSE None] IN
    /\ Admissible(s, m)
    /\ t = [s EXCEPT
               !.decisions = [d \in Decisions |->
                                 IF d \in Chosen(s.model) \ Pinned THEN "SUSPENDED"
                                 ELSE @[d]],
               !.model = m]

-----------------------------------------------------------------------------
(* Conflicts, explanations and what is learned from them.                   *)

\* raise_conflict: the snapshot is the active model.
RaiseConflict(s, t, c) ==
    /\ s.conflicts[c] = "ABSENT"
    /\ t = [s EXCEPT !.conflicts[c] = "OPEN", !.snapshot[c] = Chosen(s.model)]

\* register_explanation: some decisions of the snapshot are to blame.
RegisterExplanation(s, t, x, status, S) ==
    LET c == About[x] IN
    /\ s.explanations[x] = "ABSENT"
    /\ s.conflicts[c] # "ABSENT"
    /\ S # {}
    /\ S \subseteq s.snapshot[c]
    /\ t = [s EXCEPT !.explanations[x] = status,
                     !.literals[x] = S,
                     !.conflicts[c] = IF status = "VALIDATED" THEN "EXPLAINED" ELSE @]

\* minimize_conflict(adopt=True): a successor y of x with a smaller core.
MinimizeConflict(s, t, x, y, S) ==
    /\ s.explanations[x] # "ABSENT"
    /\ s.explanations[y] = "ABSENT"
    /\ About[y] = About[x]
    /\ Grounds[y] = Grounds[x]
    /\ S # {}
    /\ S \subseteq s.literals[x]
    /\ t = [s EXCEPT !.explanations[y] = s.explanations[x], !.literals[y] = S]

\* Constraints of the strength a learned constraint gets: under the default
\* policy it is SOFT until its certificate is verified.
Comparable(s) == {l \in Constraints : s.constraints[l] = "SOFT"}

\* learn_constraint: the smaller of two bodies is the stronger no-good.
LearnConstraint(s, t, l) ==
    LET x       == Source[l]
        weaker  == {k \in Comparable(s) : Body(s, l) \subseteq Body(s, k)}
        covered == \E k \in Comparable(s) : Body(s, k) \subseteq Body(s, l) IN
    /\ s.constraints[l] = "ABSENT"
    /\ s.explanations[x] # "ABSENT"
    /\ t = [s EXCEPT
               !.constraints = [k \in Constraints |->
                    IF k = l THEN IF covered THEN "SUPERSEDED" ELSE "SOFT"
                    ELSE IF k \in weaker /\ ~covered THEN "SUPERSEDED"
                    ELSE @[k]],
               !.validated = IF s.explanations[x] = "VALIDATED" THEN @ \cup {l} ELSE @,
               !.conflicts[About[x]] = "LEARNED"]

\* promote_constraint_hard: whatever the status of the constraint has become.
Promote(s, t, l, certs) ==
    /\ certs[l] = "VERIFIED"
    /\ s.constraints[l] # "ABSENT"
    /\ t = [s EXCEPT !.constraints[l] = "ACTIVE"]

\* The calculus half of invalidate_evidence: what was learned from it expires.
\* The record of the evidence itself was committed before.
ExpireKnowledge(s, t, e) ==
    /\ t = [s EXCEPT
               !.explanations = [x \in Explanations |->
                    IF e \in Grounds[x] /\ @[x] = "VALIDATED" THEN "REJECTED" ELSE @[x]],
               !.constraints = [l \in Constraints |->
                    IF e \in Grounds[Source[l]] /\ @[l] \in {"ACTIVE", "SOFT"}
                    THEN "EXPIRED" ELSE @[l]],
               !.conflicts = [c \in Conflicts |->
                    IF e \in Observed[c] /\ @[c] \in Unresolved THEN "REJECTED" ELSE @[c]]]
    /\ t # s

-----------------------------------------------------------------------------
(* backjump_conflict: the deepest active cause falls, with all below it.    *)

Revisable(s, x) ==
    ((UNION {CausalRoots(d) : d \in s.literals[x]}) \cap Active(s)) \ Pinned

\* Deepest first, then the fewest dependents; equals are told apart by their
\* identifiers, which is left open.
Pivots(s, x) ==
    {p \in Revisable(s, x) : \A r \in Revisable(s, x) :
        \/ s.level[r] < s.level[p]
        \/ /\ s.level[r] = s.level[p]
           /\ Cardinality(Descendants(s, p)) <= Cardinality(Descendants(s, r))}

\* The caller may name any explanation, and any conflict that was raised.
Backjump(s, t, c, x, p) ==
    LET fallen == Descendants(s, p)
        m == [u \in Subjects |-> IF s.model[u] \in fallen THEN None ELSE s.model[u]] IN
    /\ s.conflicts[c] # "ABSENT"
    /\ s.explanations[x] # "ABSENT"
    /\ p \in Pivots(s, x)
    /\ Admissible(s, m)
    /\ t = [s EXCEPT
               !.decisions = [d \in Decisions |->
                                 IF d \in fallen THEN "INVALIDATED" ELSE @[d]],
               !.model = m,
               !.conflicts[c] = "RESOLVED",
               !.blamed[c] = x]

-----------------------------------------------------------------------------
(* Reading, computing and patching.                                         *)

\* _begin_calculus: the snapshot of h is refreshed.
Begin(h) ==
    /\ copy[h] = None
    /\ copy' = [copy EXCEPT ![h] = [calculus |-> calculus,
                                    certificates |-> certificates]]
    /\ UNCHANGED <<calculus, certificates, overtakes>>

\* The operation raises, its guards or its result do not hold, or the host dies.
Abandon(h) ==
    /\ copy[h] # None
    /\ copy' = [copy EXCEPT ![h] = None]
    /\ UNCHANGED <<calculus, certificates, overtakes>>

\* The patch of h is in the log, with no regard to who has read before it.
Finish(h) ==
    /\ copy' = [copy EXCEPT ![h] = None]
    /\ IF \A g \in Hosts \ {h} : copy[g] = None
       THEN UNCHANGED overtakes
       ELSE overtakes < MaxOvertakes /\ overtakes' = overtakes + 1

\* What takes the calculus s, read together with the certificates certs, to t.
\* The audits and the operations on locks and obligations change only what is
\* left out: they write back what they have read.
Operation(s, t, certs) ==
    \/ \E d \in Decisions : Register(s, t, d) \/ Activate(s, t, d)
    \/ RestartSearch(s, t)
    \/ \E c \in Conflicts : RaiseConflict(s, t, c)
    \/ \E x \in Explanations, S \in Cores, status \in {"PROPOSED", "VALIDATED"} :
           RegisterExplanation(s, t, x, status, S)
    \/ \E l \in Constraints : LearnConstraint(s, t, l) \/ Promote(s, t, l, certs)
    \/ \E c \in Conflicts, x \in Explanations, p \in Decisions :
           Backjump(s, t, c, x, p)
    \/ \E e \in Evidence : ExpireKnowledge(s, t, e)
    \/ t = s

\* _commit_calculus: the operation raises unless its result is sound, and its
\* hard constraints certified by what the host has read.
Commit(h) ==
    /\ copy[h] # None
    /\ Operation(copy[h].calculus, calculus', copy[h].certificates)
    /\ Sound(calculus') /\ Certified(calculus', copy[h].certificates)
    /\ UNCHANGED certificates
    /\ Finish(h)

\* An adopted minimization is recorded beside the certificates, in the same
\* patch; its successor may be there already.
Minimize(h) ==
    /\ copy[h] # None
    /\ \/ \E x, y \in Explanations, S \in Cores :
             MinimizeConflict(copy[h].calculus, calculus', x, y, S)
       \/ /\ \E x \in Explanations : copy[h].calculus.explanations[x] # "ABSENT"
          /\ calculus' = copy[h].calculus
    /\ Sound(calculus') /\ Certified(calculus', copy[h].certificates)
    /\ certificates' = copy[h].certificates
    /\ Finish(h)

\* register_projection_certificate and verify_projection_certificate; the
\* projection of a constraint never changes, so the verifier accepts it.
RegisterCertificate(h, l) ==
    /\ copy[h] # None
    /\ copy[h].calculus.constraints[l] # "ABSENT"
    /\ copy[h].certificates[l] = "ABSENT"
    /\ certificates' = [copy[h].certificates EXCEPT ![l] = "PROPOSED"]
    /\ UNCHANGED calculus
    /\ Finish(h)

VerifyCertificate(h, l) ==
    /\ copy[h] # None
    /\ copy[h].calculus.constraints[l] # "ABSENT"
    /\ copy[h].certificates[l] # "ABSENT"
    /\ certificates' = [copy[h].certificates EXCEPT ![l] = "VERIFIED"]
    /\ UNCHANGED calculus
    /\ Finish(h)

\* A history check, or a minimization that is not adopted, is recorded beside
\* the certificates.
RecordCheck(h) ==
    /\ copy[h] # None
    /\ certificates' = copy[h].certificates
    /\ UNCHANGED calculus
    /\ Finish(h)

Next ==
    \E h \in Hosts :
        \/ Begin(h) \/ Abandon(h)
        \/ Commit(h) \/ Minimize(h)
        \/ \E l \in Constraints : RegisterCertificate(h, l) \/ VerifyCertificate(h, l)
        \/ RecordCheck(h)

Spec == Init /\ [][Next]_vars

-----------------------------------------------------------------------------
(* Properties.                                                              *)

\* The canonical calculus, and what the operations under way have read.
InUse == {calculus} \cup {copy[h].calculus : h \in {g \in Hosts : copy[g] # None}}

\* The active model names exactly the active decisions, each on its subject.
\* assert_calculus_invariants raises otherwise, so an operation that broke
\* this could never be completed: the assertion never fires.
ModelIsActive ==
    \A s \in InUse :
        /\ Chosen(s.model) = Active(s)
        /\ \A u \in Subjects : s.model[u] # None => SubjectOf[s.model[u]] = u

\* A decision and everything above it.
Above(d) ==
    {a \in Decisions :
        \A S \in SUBSET Decisions :
            d \in S /\ (\A e \in S : Parents[e] \subseteq S) => a \in S}

\* No decision stays active when what it rests on has fallen, by whatever
\* operation of whatever host, unless it is pinned or has itself superseded that
\* ground: activate_decision checks the parents before it suspends the
\* descendants of the decision that it replaces.
GroundedIn(s) ==
    \A d \in Active(s) : \A p \in Parents[d] :
        \/ p \in Active(s)
        \/ d \in Pinned
        \/ \E a \in Above(p) : s.heir[a] = d

Grounded == GroundedIn(calculus)

\* A conflict counts as resolved only while the explanation its backjump used
\* stays refuted: a decision it names has been invalidated for good, also in
\* what another host writes back.
RefutedIn(s) ==
    \A c \in Conflicts : s.conflicts[c] = "RESOLVED" =>
        /\ s.blamed[c] \in Explanations
        /\ \E d \in s.literals[s.blamed[c]] : s.decisions[d] = "INVALIDATED"

ResolvedIsRefuted == RefutedIn(calculus)

\* Of the decisions an operation has read as active, those fall together that
\* one of them none can do without and that is not pinned takes along; only a
\* restart lets everything else go, and for a time.
OnlyDependents(s, t) ==
    LET fallen == Active(s) \ Active(t) IN
    \/ \E a \in Decisions \ Pinned :
           \A d \in fallen : a \in Above(d) /\ a \notin Active(t)
    \/ /\ Active(t) \subseteq Pinned
       /\ \A d \in fallen : t.decisions[d] = "SUSPENDED"

\* A backjump or a supersession takes nothing from the search that its host has
\* read but what depends on the decision that goes.
OnlyDependentsFall ==
    [][\A h \in Hosts :
          copy[h] # None /\ copy'[h] = None /\ calculus' # calculus
            => OnlyDependents(copy[h].calculus, calculus')]_vars
=============================================================================
