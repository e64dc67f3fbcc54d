----------------------- MODULE DecisionCalculusProofs -----------------------
(***************************************************************************)
(* What the decision calculus keeps for every graph of decisions (cyclic   *)
(* declarations included), every number of conflicts, explanations and     *)
(* constraints, callers that name any explanation for any conflict, and    *)
(* hosts that overwrite each other's commits: what an operation makes of   *)
(* the calculus that it has read is consistent by itself.                  *)
(***************************************************************************)
EXTENDS DecisionCalculus, TLAPS

(* The inductive invariant, of one calculus.                               *)

\* The model names the active decisions.
ModelMatches(s) ==
    /\ \A u \in Subjects : s.model[u] # None =>
           s.model[u] \in Active(s) /\ SubjectOf[s.model[u]] = u
    /\ \A d \in Active(s) : s.model[SubjectOf[d]] = d

\* What a record refers to has been recorded.
References(s) ==
    /\ \A d \in Known(s) : Parents[d] \subseteq Known(s)
    /\ \A c \in Conflicts : s.snapshot[c] \subseteq Known(s)
    /\ \A x \in Explanations : s.literals[x] \subseteq Known(s)
    /\ \A c \in Conflicts :
           s.blamed[c] # None => s.explanations[s.blamed[c]] # "ABSENT"

\* A superseded decision never becomes active again.
HeirsReplace(s) ==
    \A d \in Decisions :
        s.heir[d] # None => s.decisions[d] \in {"SUPERSEDED", "INVALIDATED"}

Consistent(s) ==
    /\ s \in Documents
    /\ ModelMatches(s) /\ References(s) /\ HeirsReplace(s)
    /\ GroundedIn(s) /\ RefutedIn(s)

\* The canonical calculus is consistent, and so is whatever is about to be
\* written in its place.
Inv == TypeOK /\ \A s \in InUse : Consistent(s)

\* What takes the calculus s to the calculus t.
Step(s, t, certs) ==
    \/ Operation(s, t, certs)
    \/ \E x, y \in Explanations, S \in Cores : MinimizeConflict(s, t, x, y, S)

-----------------------------------------------------------------------------
(* The graph of decisions.                                                 *)

LEMMA DescendantsClosed ==
    ASSUME NEW s, NEW d
    PROVE  /\ d \in Decisions => d \in Descendants(s, d)
           /\ ClosedDown(s, Descendants(s, d))
BY DEF Descendants, ClosedDown, Known

\* What is above a decision reaches it from below.
LEMMA DescendantsBelow ==
    ASSUME NEW s, NEW a \in Decisions, NEW d \in Descendants(s, a),
           CalculusConstants
    PROVE  a \in Above(d)
<1> SUFFICES ASSUME NEW S \in SUBSET Decisions, d \in S,
                    \A e \in S : Parents[e] \subseteq S,
                    a \notin S
             PROVE  FALSE
  BY DEF Above
<1> DEFINE T == Decisions \ S
<1>1. ClosedDown(s, T)
  BY DEF ClosedDown, Known
<1>2. d \in T
  BY <1>1 DEF Descendants
<1> QED BY <1>2

\* A causal root has everything that it is a root of among its dependents, so
\* that a backjump refutes what is blamed.
LEMMA RootsReach ==
    ASSUME NEW s, NEW d \in Known(s), NEW r \in CausalRoots(d), References(s)
    PROVE  d \in Descendants(s, r)
<1> SUFFICES ASSUME NEW S \in SUBSET Decisions, r \in S, ClosedDown(s, S),
                    d \notin S
             PROVE  FALSE
  BY DEF Descendants, Known
<1> DEFINE T == Known(s) \ S
<1>1. T \in SUBSET Decisions /\ d \in T
  BY DEF Known
<1>2. ASSUME NEW e \in T PROVE Parents[e] \subseteq T
  BY <1>2 DEF References, ClosedDown
<1>3. ClosedUp(T)
  BY <1>2 DEF ClosedUp
<1>4. r \in T
  BY <1>1, <1>3 DEF CausalRoots
<1> QED BY <1>4

LEMMA ModelMeans ==
    ASSUME NEW s \in Documents, ModelMatches(s), CalculusConstants
    PROVE  Chosen(s.model) = Active(s)
<1>1. \A d \in Active(s) : d \in Decisions /\ SubjectOf[d] \in Subjects /\ d # None
  BY DEF Active, CalculusConstants
<1>2. Chosen(s.model) \subseteq Active(s)
  BY DEF ModelMatches, Chosen
<1>3. Active(s) \subseteq Chosen(s.model)
  BY <1>1 DEF ModelMatches, Chosen
<1> QED BY <1>2, <1>3

-----------------------------------------------------------------------------
(* Types.                                                                  *)

LEMMA EmptyTyped == Empty \in Documents
BY DEF Empty, Documents, DecisionStatuses, ConflictStatuses

LEMMA TypeStep ==
    ASSUME NEW s \in Documents, NEW t, NEW certs, CalculusConstants, Step(s, t, certs)
    PROVE  t \in Documents
<1> USE DEF Documents
<1>1. ASSUME NEW d \in Decisions, Register(s, t, d) PROVE t \in Documents
  <2>1. t.decisions \in [Decisions -> DecisionStatuses]
    BY <1>1 DEF Register, DecisionStatuses
  <2>2. t.level \in [Decisions -> Nat]
    <3> DEFINE below == IF Parents[d] # {} THEN Parents[d] ELSE Active(s)
    <3>1. \A e \in below : s.level[e] \in Nat
      BY DEF Active, CalculusConstants
    <3>2. PICK h \in {0} \cup {s.level[e] : e \in below} :
             t.level = [s.level EXCEPT ![d] = IF d \in Pinned THEN 0 ELSE 1 + h]
      <4>1. PICK h \in {0} \cup {s.level[e] : e \in below} :
               t = [s EXCEPT !.decisions[d] = "PROPOSED",
                             !.level[d] = IF d \in Pinned THEN 0 ELSE 1 + h]
        BY <1>1 DEF Register
      <4> QED BY <4>1
    <3>3. h \in Nat
      BY <3>1
    <3> QED BY <3>2, <3>3
  <2>3. t = [s EXCEPT !.decisions = t.decisions, !.level = t.level]
    BY <1>1 DEF Register
  <2>4. [s EXCEPT !.decisions = t.decisions, !.level = t.level] \in Documents
    BY <2>1, <2>2
  <2> QED BY <2>3, <2>4
<1>2. ASSUME NEW d \in Decisions, Activate(s, t, d) PROVE t \in Documents
  <2>1. t.decisions \in [Decisions -> DecisionStatuses]
    BY <1>2 DEF Activate, DecisionStatuses
  <2>2. t.heir \in [Decisions -> Decisions \cup {None}]
    BY <1>2 DEF Activate
  <2>3. t.model \in [Subjects -> Decisions \cup {None}]
    BY <1>2 DEF Activate, ModelWith
  <2> QED BY <1>2, <2>1, <2>2, <2>3 DEF Activate
<1>3. ASSUME RestartSearch(s, t) PROVE t \in Documents
  <2>1. t.decisions \in [Decisions -> DecisionStatuses]
    BY <1>3 DEF RestartSearch, DecisionStatuses
  <2>2. t.model \in [Subjects -> Decisions \cup {None}]
    BY <1>3 DEF RestartSearch
  <2> QED BY <1>3, <2>1, <2>2 DEF RestartSearch
<1>4. ASSUME NEW c \in Conflicts, RaiseConflict(s, t, c) PROVE t \in Documents
  <2>1. Chosen(s.model) \in SUBSET Decisions
    BY DEF Chosen
  <2>2. t.snapshot \in [Conflicts -> SUBSET Decisions]
    BY <1>4, <2>1 DEF RaiseConflict
  <2>3. t.conflicts \in [Conflicts -> ConflictStatuses]
    BY <1>4 DEF RaiseConflict, ConflictStatuses, Unresolved
  <2> QED BY <1>4, <2>2, <2>3 DEF RaiseConflict
<1>5. ASSUME NEW x \in Explanations, NEW S \in Cores,
             NEW status \in {"PROPOSED", "VALIDATED"},
             RegisterExplanation(s, t, x, status, S)
      PROVE t \in Documents
  <2>1. t.conflicts \in [Conflicts -> ConflictStatuses]
    BY <1>5 DEF RegisterExplanation, ConflictStatuses, Unresolved
  <2>2. t.literals \in [Explanations -> SUBSET Decisions]
    BY <1>5 DEF RegisterExplanation, CalculusConstants
  <2>3. t.explanations \in
           [Explanations -> {"ABSENT", "PROPOSED", "VALIDATED", "REJECTED"}]
    BY <1>5 DEF RegisterExplanation
  <2> QED BY <1>5, <2>1, <2>2, <2>3 DEF RegisterExplanation
<1>6. ASSUME NEW x \in Explanations, NEW S \in Cores, NEW y \in Explanations,
             MinimizeConflict(s, t, x, y, S)
      PROVE t \in Documents
  <2>1. t.literals \in [Explanations -> SUBSET Decisions]
    BY <1>6 DEF MinimizeConflict, CalculusConstants
  <2>2. t.explanations \in
           [Explanations -> {"ABSENT", "PROPOSED", "VALIDATED", "REJECTED"}]
    BY <1>6 DEF MinimizeConflict
  <2> QED BY <1>6, <2>1, <2>2 DEF MinimizeConflict
<1>7. ASSUME NEW l \in Constraints, LearnConstraint(s, t, l) PROVE t \in Documents
  <2>1. t.conflicts \in [Conflicts -> ConflictStatuses]
    BY <1>7 DEF LearnConstraint, ConflictStatuses, Unresolved
  <2>2. t.constraints \in
           [Constraints -> {"ABSENT", "SOFT", "ACTIVE", "SUPERSEDED", "EXPIRED"}]
    BY <1>7 DEF LearnConstraint
  <2>3. t.validated \subseteq Constraints
    BY <1>7 DEF LearnConstraint
  <2> QED BY <1>7, <2>1, <2>2, <2>3 DEF LearnConstraint
<1>8. ASSUME NEW l \in Constraints,
             Promote(s, t, l, certs)
      PROVE t \in Documents
  BY <1>8 DEF Promote
<1>9. ASSUME NEW c \in Conflicts, NEW x \in Explanations, NEW p \in Decisions,
             Backjump(s, t, c, x, p)
      PROVE t \in Documents
  <2>1. t.decisions \in [Decisions -> DecisionStatuses]
    BY <1>9 DEF Backjump, DecisionStatuses
  <2>2. t.model \in [Subjects -> Decisions \cup {None}]
    BY <1>9 DEF Backjump
  <2>3. t.conflicts \in [Conflicts -> ConflictStatuses]
    BY <1>9 DEF Backjump, ConflictStatuses
  <2> QED BY <1>9, <2>1, <2>2, <2>3 DEF Backjump
<1>10. ASSUME t = s PROVE t \in Documents
  BY <1>10
<1>11. ASSUME NEW e \in Evidence, ExpireKnowledge(s, t, e) PROVE t \in Documents
  <2>1. t.conflicts \in [Conflicts -> ConflictStatuses]
    BY <1>11 DEF ExpireKnowledge, ConflictStatuses
  <2>2. t.constraints \in
           [Constraints -> {"ABSENT", "SOFT", "ACTIVE", "SUPERSEDED", "EXPIRED"}]
    BY <1>11 DEF ExpireKnowledge
  <2>3. t.explanations \in
           [Explanations -> {"ABSENT", "PROPOSED", "VALIDATED", "REJECTED"}]
    BY <1>11 DEF ExpireKnowledge
  <2> QED BY <1>11, <2>1, <2>2, <2>3 DEF ExpireKnowledge
<1> QED BY <1>1, <1>2, <1>3, <1>4, <1>5, <1>6, <1>7, <1>8, <1>9, <1>10, <1>11
           DEF Step, Operation

-----------------------------------------------------------------------------
(* What the steps have in common.                                          *)

\* Steps that leave the search and the explanations alone.
Quiet(s, t) ==
    /\ t.decisions = s.decisions /\ t.level = s.level
    /\ t.heir = s.heir /\ t.model = s.model
    /\ t.literals = s.literals

\* A step is one on the search, one on the explanations, or neither.
LEMMA StepKinds ==
    ASSUME NEW s \in Documents, NEW t, NEW certs, Step(s, t, certs)
    PROVE  \/ \E d \in Decisions : Register(s, t, d) \/ Activate(s, t, d)
           \/ RestartSearch(s, t)
           \/ \E c \in Conflicts, x \in Explanations, p \in Decisions :
                  Backjump(s, t, c, x, p)
           \/ \E x \in Explanations, S \in Cores,
                 status \in {"PROPOSED", "VALIDATED"} :
                  RegisterExplanation(s, t, x, status, S)
           \/ \E x, y \in Explanations, S \in Cores : MinimizeConflict(s, t, x, y, S)
           \/ Quiet(s, t)
<1> USE DEF Quiet, Documents
<1>1. ASSUME NEW c \in Conflicts, RaiseConflict(s, t, c) PROVE Quiet(s, t)
  BY <1>1 DEF RaiseConflict
<1>2. ASSUME NEW l \in Constraints, LearnConstraint(s, t, l) PROVE Quiet(s, t)
  BY <1>2 DEF LearnConstraint
<1>3. ASSUME NEW l \in Constraints, Promote(s, t, l, certs) PROVE Quiet(s, t)
  BY <1>3 DEF Promote
<1>4. ASSUME NEW e \in Evidence, ExpireKnowledge(s, t, e) PROVE Quiet(s, t)
  BY <1>4 DEF ExpireKnowledge
<1>5. ASSUME t = s PROVE Quiet(s, t)
  BY <1>5
<1> QED BY <1>1, <1>2, <1>3, <1>4, <1>5 DEF Step, Operation

\* Replacing a decision frees the subjects of what depends on it.
LEMMA ActivateSteps ==
    ASSUME NEW s \in Documents, NEW t, ModelMatches(s), CalculusConstants,
           NEW d \in Decisions, Activate(s, t, d)
    PROVE  LET current == s.model[SubjectOf[d]] IN
           /\ d \notin Active(s)
           /\ Suspended(s, current) \subseteq Active(s)
           /\ current # None =>
                  current \in Active(s) \ Pinned /\ SubjectOf[current] = SubjectOf[d]
           /\ Active(t) = {d} \cup
                  (Active(s) \ ({current} \cup Suspended(s, current)))
           /\ \A e \in Decisions :
                  s.decisions[e] = "INVALIDATED" => t.decisions[e] = "INVALIDATED"
<1> DEFINE current == s.model[SubjectOf[d]]
           fallen == Suspended(s, current)
<1>1. SubjectOf[d] \in Subjects
  BY DEF CalculusConstants
<1>2. s.decisions[d] \in {"PROPOSED", "SUSPENDED"} /\ current \notin Pinned
  BY DEF Activate
<1>3. d \notin Active(s)
  BY <1>2 DEF Active
<1>4. fallen \subseteq Active(s)
  BY DEF Suspended
<1>5. current # None =>
         current \in Active(s) \ Pinned /\ SubjectOf[current] = SubjectOf[d]
  BY <1>1, <1>2 DEF ModelMatches
<1>6. t.decisions = [e \in Decisions |-> IF e = d THEN "ACTIVE"
                                        ELSE IF e = current THEN "SUPERSEDED"
                                        ELSE IF e \in fallen THEN "SUSPENDED"
                                        ELSE s.decisions[e]]
  BY DEF Activate
<1> HIDE DEF fallen
<1>7. Active(t) = {d} \cup (Active(s) \ ({current} \cup fallen))
  BY <1>3, <1>6 DEF Active
<1>8. \A e \in Decisions :
         s.decisions[e] = "INVALIDATED" => t.decisions[e] = "INVALIDATED"
  <2> SUFFICES ASSUME NEW e \in Decisions, s.decisions[e] = "INVALIDATED"
               PROVE  t.decisions[e] = "INVALIDATED"
    OBVIOUS
  <2>1. e # d /\ e # current /\ e \notin fallen
    <3>1. None \notin Decisions
      BY DEF CalculusConstants
    <3> QED BY <1>2, <1>4, <1>5, <3>1 DEF Active
  <2> QED BY <1>6, <2>1
<1> QED BY <1>3, <1>4, <1>5, <1>7, <1>8 DEF fallen

LEMMA RestartSteps ==
    ASSUME NEW s \in Documents, NEW t, ModelMatches(s), CalculusConstants,
           RestartSearch(s, t)
    PROVE  /\ Active(t) = Active(s) \cap Pinned
           /\ \A e \in Decisions :
                  s.decisions[e] = "INVALIDATED" => t.decisions[e] = "INVALIDATED"
           /\ \A e \in Active(s) \ Active(t) : t.decisions[e] = "SUSPENDED"
<1>1. t.decisions = [d \in Decisions |->
                       IF d \in Chosen(s.model) \ Pinned THEN "SUSPENDED"
                       ELSE s.decisions[d]]
  BY DEF RestartSearch
<1>2. Chosen(s.model) = Active(s)
  BY ModelMeans
<1> QED BY <1>1, <1>2 DEF Active

LEMMA BackjumpSteps ==
    ASSUME NEW s \in Documents, NEW t, CalculusConstants,
           NEW c \in Conflicts, NEW x \in Explanations, NEW p \in Decisions,
           Backjump(s, t, c, x, p)
    PROVE  /\ Active(t) = Active(s) \ Descendants(s, p)
           /\ p \in Descendants(s, p) /\ p \notin Pinned
           /\ \A e \in Descendants(s, p) : t.decisions[e] = "INVALIDATED"
           /\ \A e \in Decisions : s.decisions[e] = "INVALIDATED"
                                      => t.decisions[e] = "INVALIDATED"
<1>1. Descendants(s, p) \subseteq Decisions
  BY DEF Descendants
<1>2. t.decisions = [d \in Decisions |-> IF d \in Descendants(s, p)
                                        THEN "INVALIDATED" ELSE s.decisions[d]]
  BY DEF Backjump
<1>3. p \notin Pinned
  BY DEF Backjump, Pivots, Revisable
<1> QED BY <1>1, <1>2, <1>3, DescendantsClosed DEF Active

-----------------------------------------------------------------------------
(* The active model.                                                       *)

LEMMA ModelStep ==
    ASSUME NEW s \in Documents, NEW t, NEW certs, CalculusConstants,
           ModelMatches(s), Step(s, t, certs)
    PROVE  ModelMatches(t)
<1> USE DEF Documents
<1>1. ASSUME t.decisions = s.decisions, t.model = s.model PROVE ModelMatches(t)
  BY <1>1 DEF ModelMatches, Active
<1>2. ASSUME NEW d \in Decisions, Register(s, t, d) PROVE ModelMatches(t)
  <2>1. Active(t) = Active(s) /\ t.model = s.model
    BY <1>2 DEF Register, Active
  <2> QED BY <2>1 DEF ModelMatches
<1>3. ASSUME NEW d \in Decisions, Activate(s, t, d) PROVE ModelMatches(t)
  <2> DEFINE current == s.model[SubjectOf[d]]
             fallen == Suspended(s, current)
  <2>1. /\ d \notin Active(s) /\ fallen \subseteq Active(s)
        /\ current # None => SubjectOf[current] = SubjectOf[d]
        /\ Active(t) = {d} \cup (Active(s) \ ({current} \cup fallen))
    BY <1>3, ActivateSteps
  <2>2. t.model = [u \in Subjects |-> IF u = SubjectOf[d] THEN d
                                     ELSE IF s.model[u] \in fallen THEN None
                                     ELSE s.model[u]]
    BY <1>3 DEF Activate, ModelWith
  <2>3. /\ SubjectOf[d] \in Subjects
        /\ \A e \in Active(s) : e \in Decisions /\ SubjectOf[e] \in Subjects
    BY DEF CalculusConstants, Active
  <2> HIDE DEF fallen
  <2>4. ASSUME NEW u \in Subjects, t.model[u] # None
        PROVE  t.model[u] \in Active(t) /\ SubjectOf[t.model[u]] = u
    <3>1. CASE u = SubjectOf[d]
      BY <3>1, <2>1, <2>2
    <3>2. CASE u # SubjectOf[d]
      <4>1. t.model[u] = s.model[u] /\ s.model[u] \notin fallen
        BY <3>2, <2>2, <2>4
      <4>2. s.model[u] \in Active(s) /\ SubjectOf[s.model[u]] = u
        BY <4>1, <2>4 DEF ModelMatches
      <4>3. s.model[u] # current
        <5>1. current # None
              => s.model[SubjectOf[current]] = current /\ SubjectOf[current] = SubjectOf[d]
          BY <2>1
        <5> QED BY <5>1, <4>1, <4>2, <2>4, <3>2
      <4> QED BY <4>1, <4>2, <4>3, <2>1
    <3> QED BY <3>1, <3>2
  <2>5. ASSUME NEW e \in Active(t) PROVE t.model[SubjectOf[e]] = e
    <3>1. CASE e = d
      BY <3>1, <2>2, <2>3
    <3>2. CASE e # d
      <4>1. e \in Active(s) /\ e # current /\ e \notin fallen
        BY <3>2, <2>1, <2>5
      <4>2. s.model[SubjectOf[e]] = e /\ SubjectOf[e] \in Subjects
        BY <4>1, <2>3 DEF ModelMatches
      <4> QED BY <4>1, <4>2, <2>2
    <3> QED BY <3>1, <3>2
  <2> QED BY <2>4, <2>5 DEF ModelMatches
<1>4. ASSUME RestartSearch(s, t) PROVE ModelMatches(t)
  <2>1. Active(t) = Active(s) \cap Pinned
    BY <1>4, RestartSteps
  <2>2. t.model = [u \in Subjects |->
                     IF s.model[u] \in Pinned THEN s.model[u] ELSE None]
    BY <1>4 DEF RestartSearch
  <2>3. \A e \in Active(s) : SubjectOf[e] \in Subjects
    BY DEF CalculusConstants, Active
  <2>4. \A u \in Subjects : t.model[u] # None =>
           t.model[u] \in Active(t) /\ SubjectOf[t.model[u]] = u
    BY <2>1, <2>2 DEF ModelMatches
  <2>5. \A e \in Active(t) : t.model[SubjectOf[e]] = e
    BY <2>1, <2>2, <2>3 DEF ModelMatches
  <2> QED BY <2>4, <2>5 DEF ModelMatches
<1>5. ASSUME NEW c \in Conflicts, NEW x \in Explanations, NEW p \in Decisions,
             Backjump(s, t, c, x, p)
      PROVE ModelMatches(t)
  <2>1. Active(t) = Active(s) \ Descendants(s, p)
    BY <1>5, BackjumpSteps
  <2>2. t.model = [u \in Subjects |->
                     IF s.model[u] \in Descendants(s, p) THEN None ELSE s.model[u]]
    BY <1>5 DEF Backjump
  <2>3. \A e \in Active(s) : SubjectOf[e] \in Subjects
    BY DEF CalculusConstants, Active
  <2>4. \A u \in Subjects : t.model[u] # None =>
           t.model[u] \in Active(t) /\ SubjectOf[t.model[u]] = u
    BY <2>1, <2>2 DEF ModelMatches
  <2>5. \A e \in Active(t) : t.model[SubjectOf[e]] = e
    BY <2>1, <2>2, <2>3 DEF ModelMatches
  <2> QED BY <2>4, <2>5 DEF ModelMatches
<1>6. ASSUME NEW x \in Explanations, NEW S, NEW status,
             RegisterExplanation(s, t, x, status, S)
      PROVE ModelMatches(t)
  BY <1>1, <1>6 DEF RegisterExplanation
<1>7. ASSUME NEW x \in Explanations, NEW y \in Explanations, NEW S,
             MinimizeConflict(s, t, x, y, S)
      PROVE ModelMatches(t)
  BY <1>1, <1>7 DEF MinimizeConflict
<1>8. ASSUME Quiet(s, t) PROVE ModelMatches(t)
  BY <1>1, <1>8 DEF Quiet
<1> HIDE DEF Documents
<1> QED BY <1>2, <1>3, <1>4, <1>5, <1>6, <1>7, <1>8, StepKinds

LEMMA HeirStep ==
    ASSUME NEW s \in Documents, NEW t, NEW certs, CalculusConstants,
           ModelMatches(s), HeirsReplace(s), Step(s, t, certs)
    PROVE  HeirsReplace(t)
<1> USE DEF Documents
<1>1. ASSUME t.decisions = s.decisions, t.heir = s.heir PROVE HeirsReplace(t)
  BY <1>1 DEF HeirsReplace
<1>2. ASSUME NEW d \in Decisions, Register(s, t, d) PROVE HeirsReplace(t)
  BY <1>2 DEF Register, HeirsReplace
<1>3. ASSUME NEW d \in Decisions, Activate(s, t, d) PROVE HeirsReplace(t)
  <2> DEFINE current == s.model[SubjectOf[d]]
             fallen == Suspended(s, current)
  <2>1. /\ d \notin Active(s) /\ fallen \subseteq Active(s)
        /\ current # None => current \in Active(s)
    BY <1>3, ActivateSteps
  <2>2. /\ s.decisions[d] \in {"PROPOSED", "SUSPENDED"}
        /\ t.decisions = [e \in Decisions |-> IF e = d THEN "ACTIVE"
                                        ELSE IF e = current THEN "SUPERSEDED"
                                        ELSE IF e \in fallen THEN "SUSPENDED"
                                        ELSE s.decisions[e]]
        /\ t.heir = [e \in Decisions |-> IF e = current THEN d ELSE s.heir[e]]
    BY <1>3 DEF Activate
  <2> HIDE DEF fallen
  <2> SUFFICES ASSUME NEW e \in Decisions, t.heir[e] # None
               PROVE  t.decisions[e] \in {"SUPERSEDED", "INVALIDATED"}
    BY DEF HeirsReplace
  <2>3. CASE e = current
    <3>1. e # d
      BY <2>1, <2>3, CalculusConstants DEF CalculusConstants
    <3> QED BY <3>1, <2>2, <2>3
  <2>4. CASE e # current
    <3>1. s.decisions[e] \in {"SUPERSEDED", "INVALIDATED"}
      BY <2>2, <2>4 DEF HeirsReplace
    <3> QED BY <3>1, <2>1, <2>2, <2>4 DEF Active
  <2> QED BY <2>3, <2>4
<1>4. ASSUME RestartSearch(s, t) PROVE HeirsReplace(t)
  <2>1. Chosen(s.model) = Active(s)
    BY ModelMeans
  <2> QED BY <1>4, <2>1 DEF RestartSearch, HeirsReplace, Active
<1>5. ASSUME NEW c \in Conflicts, NEW x \in Explanations, NEW p \in Decisions,
             Backjump(s, t, c, x, p)
      PROVE HeirsReplace(t)
  BY <1>5 DEF Backjump, HeirsReplace
<1>6. ASSUME NEW x \in Explanations, NEW S, NEW status,
             RegisterExplanation(s, t, x, status, S)
      PROVE HeirsReplace(t)
  BY <1>1, <1>6 DEF RegisterExplanation
<1>7. ASSUME NEW x \in Explanations, NEW y \in Explanations, NEW S,
             MinimizeConflict(s, t, x, y, S)
      PROVE HeirsReplace(t)
  BY <1>1, <1>7 DEF MinimizeConflict
<1>8. ASSUME Quiet(s, t) PROVE HeirsReplace(t)
  BY <1>1, <1>8 DEF Quiet
<1> HIDE DEF Documents
<1> QED BY <1>2, <1>3, <1>4, <1>5, <1>6, <1>7, <1>8, StepKinds

-----------------------------------------------------------------------------
(* Grounds.                                                                *)

LEMMA GroundedStep ==
    ASSUME NEW s \in Documents, NEW t, NEW certs, CalculusConstants,
           ModelMatches(s), HeirsReplace(s), GroundedIn(s),
           Step(s, t, certs)
    PROVE  GroundedIn(t)
<1> USE DEF Documents
<1>1. ASSUME Active(t) = Active(s), t.heir = s.heir PROVE GroundedIn(t)
  BY <1>1 DEF GroundedIn, Above
<1>2. \A S : \A d, p \in Decisions :
         /\ s.decisions[d] # "ABSENT" /\ ClosedDown(s, S)
         /\ p \in Parents[d] /\ p \in S
         => d \in S
  BY DEF ClosedDown, Known
<1>3. \A d \in Active(s) : d \in Decisions /\ s.decisions[d] # "ABSENT"
                        /\ Parents[d] \subseteq Decisions
  BY DEF Active, CalculusConstants
<1>4. ASSUME NEW d \in Decisions, Register(s, t, d) PROVE GroundedIn(t)
  BY <1>1, <1>4 DEF Register, Active
<1>5. ASSUME NEW d \in Decisions, Activate(s, t, d) PROVE GroundedIn(t)
  <2> DEFINE current == s.model[SubjectOf[d]]
             fallen == Suspended(s, current)
  <2>1. /\ d \notin Active(s) /\ fallen \subseteq Active(s)
        /\ current # None => current \in Active(s)
        /\ Active(t) = {d} \cup (Active(s) \ ({current} \cup fallen))
    BY <1>5, ActivateSteps
  <2>2. current # None =>
           fallen = (Descendants(s, current) \ {current}) \cap Active(s)
    BY DEF Suspended
  <2>3. /\ Parents[d] \subseteq Active(s)
        /\ t.heir = [e \in Decisions |-> IF e = current THEN d ELSE s.heir[e]]
    BY <1>5 DEF Activate, Supported
  <2>4. current \in Active(s) \/ (current = None /\ fallen = {})
    BY <2>1 DEF Suspended
  <2>5. current \in Active(s) => current \in Descendants(s, current)
                              /\ ClosedDown(s, Descendants(s, current))
    BY DescendantsClosed DEF Active
  <2>6. None \notin Active(s)
    BY DEF Active, CalculusConstants
  <2> HIDE DEF fallen
  <2> SUFFICES ASSUME NEW q \in Active(t), NEW p \in Parents[q], p \notin Active(t),
                      q \notin Pinned
               PROVE  \E a \in Above(p) : t.heir[a] = q
    BY DEF GroundedIn, Above
  <2>7. CASE q = d
    <3>1. p \in Active(s) /\ (p = current \/ p \in fallen)
      BY <2>1, <2>3, <2>7
    <3>2. current \in Active(s) /\ p \in Descendants(s, current)
      BY <3>1, <2>2, <2>4, <2>5, <2>6
    <3>3. current \in Above(p)
      BY <3>2, DescendantsBelow DEF Active
    <3> QED BY <3>2, <3>3, <2>3, <2>7 DEF Active
  <2>8. CASE q # d
    <3>1. q \in Active(s) /\ q # current /\ q \notin fallen
      BY <2>8, <2>1
    <3>2. p \in Decisions
      BY <3>1, <1>3
    <3>3. p \notin Active(s)
      <4> SUFFICES ASSUME p \in Active(s) PROVE FALSE
        OBVIOUS
      <4>1. p = current \/ p \in fallen
        BY <2>1
      <4>2. current \in Active(s) /\ p \in Descendants(s, current)
        BY <4>1, <2>2, <2>4, <2>5, <2>6
      <4>3. q \in Descendants(s, current)
        BY <4>2, <3>1, <3>2, <2>5, <1>2, <1>3
      <4> QED BY <4>2, <4>3, <3>1, <2>2, <2>6
    <3>4. PICK a \in Above(p) : s.heir[a] = q
      BY <3>1, <3>3 DEF GroundedIn
    <3>5. a \in Decisions /\ q # None
      BY <3>1, <2>6 DEF Above
    <3>6. a # current
      BY <3>4, <3>5, <2>4 DEF HeirsReplace, Active
    <3> QED BY <3>4, <3>5, <3>6, <2>3
  <2> QED BY <2>7, <2>8
<1>6. ASSUME RestartSearch(s, t) PROVE GroundedIn(t)
  <2>1. Active(t) = Active(s) \cap Pinned
    BY <1>6, RestartSteps
  <2> QED BY <2>1 DEF GroundedIn
<1>7. ASSUME NEW c \in Conflicts, NEW x \in Explanations, NEW p \in Decisions,
             Backjump(s, t, c, x, p)
      PROVE GroundedIn(t)
  <2>1. Active(t) = Active(s) \ Descendants(s, p) /\ ClosedDown(s, Descendants(s, p))
    BY <1>7, BackjumpSteps, DescendantsClosed
  <2>2. t.heir = s.heir
    BY <1>7 DEF Backjump
  <2> SUFFICES ASSUME NEW q \in Active(t), NEW r \in Parents[q]
               PROVE  \/ r \in Active(t) \/ q \in Pinned
                      \/ \E a \in Above(r) : s.heir[a] = q
    BY <2>2 DEF GroundedIn, Above
  <2>3. q \in Active(s) /\ r \in Decisions /\ r \notin Descendants(s, p)
    BY <2>1, <1>2, <1>3
  <2> QED BY <2>1, <2>3 DEF GroundedIn
<1>8. ASSUME NEW x \in Explanations, NEW S, NEW status,
             RegisterExplanation(s, t, x, status, S)
      PROVE GroundedIn(t)
  BY <1>1, <1>8 DEF RegisterExplanation, Active
<1>9. ASSUME NEW x \in Explanations, NEW y \in Explanations, NEW S,
             MinimizeConflict(s, t, x, y, S)
      PROVE GroundedIn(t)
  BY <1>1, <1>9 DEF MinimizeConflict, Active
<1>10. ASSUME Quiet(s, t) PROVE GroundedIn(t)
  BY <1>1, <1>10 DEF Quiet, Active
<1> HIDE DEF Documents
<1> QED BY <1>4, <1>5, <1>6, <1>7, <1>8, <1>9, <1>10, StepKinds

-----------------------------------------------------------------------------
(* References and resolved conflicts.                                      *)

LEMMA DescendantsKnown ==
    ASSUME NEW s, NEW p \in Known(s)
    PROVE  Descendants(s, p) \subseteq Known(s)
<1>1. ClosedDown(s, Known(s)) /\ Known(s) \in SUBSET Decisions
  BY DEF ClosedDown, Known
<1> QED BY <1>1 DEF Descendants

\* What has been recorded stays, and new records refer to what is recorded.
LEMMA RecordsStay ==
    ASSUME NEW s \in Documents, NEW t, NEW certs, CalculusConstants,
           ModelMatches(s), References(s), Step(s, t, certs)
    PROVE  /\ References(t)
           /\ \A x \in Explanations : s.explanations[x] # "ABSENT" =>
                  t.explanations[x] # "ABSENT" /\ t.literals[x] = s.literals[x]
<1> USE DEF Documents
<1> DEFINE P == /\ References(t)
                /\ \A x \in Explanations : s.explanations[x] # "ABSENT" =>
                       /\ t.explanations[x] # "ABSENT"
                       /\ t.literals[x] = s.literals[x]
<1>1. ASSUME NEW d \in Decisions, Register(s, t, d) PROVE P
  BY <1>1 DEF Register, Known, References
<1>2. ASSUME NEW d \in Decisions, Activate(s, t, d) PROVE P
  <2> DEFINE current == s.model[SubjectOf[d]]
             fallen == Suspended(s, current)
  <2>1. fallen \subseteq Active(s) /\ (current # None => current \in Active(s))
    BY <1>2, ActivateSteps
  <2>2. /\ s.decisions[d] \in {"PROPOSED", "SUSPENDED"}
        /\ t.decisions = [e \in Decisions |-> IF e = d THEN "ACTIVE"
                                        ELSE IF e = current THEN "SUPERSEDED"
                                        ELSE IF e \in fallen THEN "SUSPENDED"
                                        ELSE s.decisions[e]]
    BY <1>2 DEF Activate
  <2> HIDE DEF fallen
  <2>3. current \in Decisions => current \in Active(s)
    BY <2>1 DEF CalculusConstants
  <2>4. Known(t) = Known(s)
    BY <2>1, <2>2, <2>3 DEF Known, Active
  <2> QED BY <1>2, <2>4 DEF Activate, References
<1>3. ASSUME RestartSearch(s, t) PROVE P
  <2>1. Chosen(s.model) = Active(s)
    BY ModelMeans
  <2>2. Known(t) = Known(s)
    BY <1>3, <2>1 DEF RestartSearch, Known, Active
  <2> QED BY <1>3, <2>2 DEF RestartSearch, References
<1>4. ASSUME NEW c \in Conflicts, RaiseConflict(s, t, c) PROVE P
  <2>1. Chosen(s.model) \subseteq Known(s)
    <3>1. Chosen(s.model) = Active(s)
      BY ModelMeans
    <3> QED BY <3>1 DEF Active, Known
  <2>2. Known(t) = Known(s)
    BY <1>4 DEF RaiseConflict, Known
  <2>3. \A k \in Conflicts : t.snapshot[k] \subseteq Known(s)
    BY <1>4, <2>1 DEF RaiseConflict, References
  <2> QED BY <1>4, <2>2, <2>3 DEF RaiseConflict, References
<1>5. ASSUME NEW x \in Explanations, NEW S \in Cores,
             NEW status \in {"PROPOSED", "VALIDATED"},
             RegisterExplanation(s, t, x, status, S)
      PROVE P
  BY <1>5 DEF RegisterExplanation, Known, References
<1>6. ASSUME NEW x \in Explanations, NEW S \in Cores, NEW y \in Explanations,
             MinimizeConflict(s, t, x, y, S)
      PROVE P
  BY <1>6 DEF MinimizeConflict, Known, References
<1>7. ASSUME NEW l \in Constraints, LearnConstraint(s, t, l) PROVE P
  <2>1. Known(t) = Known(s)
    BY <1>7 DEF LearnConstraint, Known
  <2>2. \A k \in Constraints :
           /\ s.constraints[k] # "ABSENT" => t.constraints[k] # "ABSENT"
           /\ k # l /\ s.constraints[k] = "ABSENT" => t.constraints[k] = "ABSENT"
    BY <1>7 DEF LearnConstraint, Comparable
  <2>3. /\ s.explanations[Source[l]] # "ABSENT"
        /\ t.snapshot = s.snapshot /\ t.blamed = s.blamed
        /\ t.explanations = s.explanations /\ t.literals = s.literals
    BY <1>7 DEF LearnConstraint
  <2> QED BY <2>1, <2>2, <2>3 DEF References
<1>8. ASSUME NEW l \in Constraints, Promote(s, t, l, certs) PROVE P
  BY <1>8 DEF Promote, Known, References
<1>9. ASSUME NEW c \in Conflicts, NEW x \in Explanations,
              NEW p \in Decisions, Backjump(s, t, c, x, p)
      PROVE P
  <2>1. p \in Known(s)
    <3>1. p \in Pivots(s, x)
      BY <1>9 DEF Backjump
    <3>2. p \in Revisable(s, x)
      BY <3>1 DEF Pivots
    <3>3. p \in Active(s)
      BY <3>2 DEF Revisable
    <3> QED BY <3>3 DEF Active, Known
  <2>2. Descendants(s, p) \subseteq Known(s)
    BY <2>1, DescendantsKnown
  <2>3. Known(t) = Known(s)
    BY <1>9, <2>2 DEF Backjump, Known
  <2>4. /\ s.explanations[x] # "ABSENT"
        /\ \A k \in Conflicts : t.blamed[k] = s.blamed[k] \/ t.blamed[k] = x
        /\ t.snapshot = s.snapshot /\ t.constraints = s.constraints
        /\ t.explanations = s.explanations /\ t.literals = s.literals
    BY <1>9 DEF Backjump
  <2> QED BY <2>3, <2>4 DEF References
<1>10. ASSUME NEW e \in Evidence, ExpireKnowledge(s, t, e) PROVE P
  BY <1>10 DEF ExpireKnowledge, Known, References
<1> HIDE DEF P
<1>11. ASSUME t = s PROVE P
  BY <1>11 DEF P
<1>12. P
  BY <1>1, <1>2, <1>3, <1>4, <1>5, <1>6, <1>7, <1>8, <1>9, <1>10, <1>11
     DEF Step, Operation
<1> QED BY <1>12 DEF P

\* An invalidated decision is never used again.
LEMMA RefutedStay ==
    ASSUME NEW s \in Documents, NEW t, NEW certs, CalculusConstants,
           ModelMatches(s), Step(s, t, certs)
    PROVE  \A d \in Decisions : s.decisions[d] = "INVALIDATED"
                                    => t.decisions[d] = "INVALIDATED"
<1> USE DEF Documents
<1> DEFINE P == \A d \in Decisions : s.decisions[d] = "INVALIDATED"
                                         => t.decisions[d] = "INVALIDATED"
<1>1. ASSUME NEW d \in Decisions, Register(s, t, d) PROVE P
  BY <1>1 DEF Register
<1>2. ASSUME NEW d \in Decisions, Activate(s, t, d) PROVE P
  BY <1>2, ActivateSteps
<1>3. ASSUME RestartSearch(s, t) PROVE P
  BY <1>3, RestartSteps
<1>4. ASSUME NEW c \in Conflicts, NEW x \in Explanations, NEW p \in Decisions,
             Backjump(s, t, c, x, p)
      PROVE P
  BY <1>4, BackjumpSteps
<1>5. ASSUME NEW x \in Explanations, NEW S, NEW status,
             RegisterExplanation(s, t, x, status, S)
      PROVE P
  BY <1>5 DEF RegisterExplanation
<1>6. ASSUME NEW x \in Explanations, NEW y \in Explanations, NEW S,
             MinimizeConflict(s, t, x, y, S)
      PROVE P
  BY <1>6 DEF MinimizeConflict
<1>7. ASSUME Quiet(s, t) PROVE P
  BY <1>7 DEF Quiet
<1> HIDE DEF P, Documents
<1>8. P
  BY <1>1, <1>2, <1>3, <1>4, <1>5, <1>6, <1>7, StepKinds
<1> QED BY <1>8 DEF P

\* A conflict becomes resolved by a backjump, which refutes what it blames.
LEMMA ResolvedStep ==
    ASSUME NEW s \in Documents, NEW t, NEW certs, CalculusConstants,
           ModelMatches(s), References(s),
           RefutedIn(s), Step(s, t, certs)
    PROVE  RefutedIn(t)
<1>1. \A x \in Explanations : s.explanations[x] # "ABSENT" =>
         t.literals[x] = s.literals[x]
  BY RecordsStay
<1>2. \A x \in Explanations : s.literals[x] \subseteq Decisions
  BY DEF Documents
<1>3. \A d \in Decisions : s.decisions[d] = "INVALIDATED"
                               => t.decisions[d] = "INVALIDATED"
  BY RefutedStay
<1>4. ASSUME NEW c \in Conflicts, NEW x \in Explanations, NEW p \in Decisions,
             Backjump(s, t, c, x, p)
      PROVE  \A e \in Descendants(s, p) : t.decisions[e] = "INVALIDATED"
  BY <1>4, BackjumpSteps
<1> USE DEF Documents
<1> DEFINE Refuted(x) == \E d \in s.literals[x] : s.decisions[d] = "INVALIDATED"
<1>5. ASSUME NEW c \in Conflicts, NEW x \in Explanations, NEW p \in Decisions,
             Backjump(s, t, c, x, p)
      PROVE  /\ x \in Explanations /\ s.explanations[x] # "ABSENT"
             /\ \E d \in s.literals[x] : t.decisions[d] = "INVALIDATED"
             /\ t.conflicts = [s.conflicts EXCEPT ![c] = "RESOLVED"]
             /\ t.blamed = [s.blamed EXCEPT ![c] = x]
  <2>1. PICK d \in s.literals[x] : p \in CausalRoots(d)
    BY <1>5 DEF Backjump, Pivots, Revisable
  <2>2. d \in Known(s)
    BY DEF References
  <2>3. d \in Descendants(s, p)
    BY <2>1, <2>2, RootsReach
  <2>4. t.decisions[d] = "INVALIDATED"
    BY <1>5, <1>4, <2>3
  <2> QED BY <1>5, <2>1, <2>4 DEF Backjump
<1>6. \/ \E c \in Conflicts, x \in Explanations, p \in Decisions :
             Backjump(s, t, c, x, p)
      \/ \A c \in Conflicts :
             t.conflicts[c] = "RESOLVED"
             => s.conflicts[c] = "RESOLVED" /\ t.blamed[c] = s.blamed[c]
  <2> DEFINE P == \A c \in Conflicts :
             t.conflicts[c] = "RESOLVED"
             => s.conflicts[c] = "RESOLVED" /\ t.blamed[c] = s.blamed[c]
  <2>1. ASSUME NEW d \in Decisions, Register(s, t, d) PROVE P
    BY <2>1 DEF Register
  <2>2. ASSUME NEW d \in Decisions, Activate(s, t, d) PROVE P
    BY <2>2 DEF Activate
  <2>3. ASSUME RestartSearch(s, t) PROVE P
    BY <2>3 DEF RestartSearch
  <2>4. ASSUME NEW c \in Conflicts, RaiseConflict(s, t, c) PROVE P
    BY <2>4 DEF RaiseConflict
  <2>5. ASSUME NEW x \in Explanations, NEW S \in Cores,
               NEW status \in {"PROPOSED", "VALIDATED"},
               RegisterExplanation(s, t, x, status, S)
        PROVE P
    BY <2>5 DEF RegisterExplanation
  <2>6. ASSUME NEW x \in Explanations, NEW S \in Cores, NEW y \in Explanations,
               MinimizeConflict(s, t, x, y, S)
        PROVE P
    BY <2>6 DEF MinimizeConflict
  <2>7. ASSUME NEW l \in Constraints, LearnConstraint(s, t, l) PROVE P
    BY <2>7 DEF LearnConstraint
  <2>8. ASSUME NEW l \in Constraints, Promote(s, t, l, certs) PROVE P
    BY <2>8 DEF Promote
  <2>9. ASSUME NEW e \in Evidence, ExpireKnowledge(s, t, e) PROVE P
    BY <2>9 DEF ExpireKnowledge
  <2>10. ASSUME t = s PROVE P
    BY <2>10
  <2> HIDE DEF P
  <2>11. P \/ \E c \in Conflicts, x \in Explanations, p \in Decisions :
                  Backjump(s, t, c, x, p)
    BY <2>1, <2>2, <2>3, <2>4, <2>5, <2>6, <2>7, <2>8, <2>9, <2>10
       DEF Step, Operation
  <2> QED BY <2>11 DEF P
<1> SUFFICES ASSUME NEW c \in Conflicts, t.conflicts[c] = "RESOLVED"
             PROVE  /\ t.blamed[c] \in Explanations
                    /\ \E d \in t.literals[t.blamed[c]] :
                           t.decisions[d] = "INVALIDATED"
  BY DEF RefutedIn
<1>7. ASSUME s.conflicts[c] = "RESOLVED", t.blamed[c] = s.blamed[c]
      PROVE  /\ t.blamed[c] \in Explanations
             /\ \E d \in t.literals[t.blamed[c]] : t.decisions[d] = "INVALIDATED"
  <2>1. s.blamed[c] \in Explanations /\ Refuted(s.blamed[c])
    BY <1>7 DEF RefutedIn
  <2>2. s.explanations[s.blamed[c]] # "ABSENT"
    BY <2>1 DEF References, CalculusConstants
  <2>3. t.literals[s.blamed[c]] = s.literals[s.blamed[c]]
    BY <2>1, <2>2, <1>1
  <2> QED BY <1>2, <1>7, <2>1, <2>3, <1>3
<1>8. ASSUME NEW k \in Conflicts, NEW x \in Explanations, NEW p \in Decisions,
             Backjump(s, t, k, x, p)
      PROVE  /\ t.blamed[c] \in Explanations
             /\ \E d \in t.literals[t.blamed[c]] : t.decisions[d] = "INVALIDATED"
  <2>1. CASE c = k
    <3>1. /\ s.explanations[x] # "ABSENT"
          /\ \E d \in s.literals[x] : t.decisions[d] = "INVALIDATED"
          /\ t.blamed = [s.blamed EXCEPT ![k] = x]
      BY <1>5, <1>8
    <3>2. t.blamed[c] = x /\ t.literals[x] = s.literals[x]
      BY <2>1, <3>1, <1>1
    <3> QED BY <3>1, <3>2
  <2>2. CASE c # k
    <3>1. /\ t.conflicts = [s.conflicts EXCEPT ![k] = "RESOLVED"]
          /\ t.blamed = [s.blamed EXCEPT ![k] = x]
      BY <1>5, <1>8
    <3>2. s.conflicts[c] = "RESOLVED" /\ t.blamed[c] = s.blamed[c]
      BY <2>2, <3>1
    <3> QED BY <1>7, <3>2
  <2> QED BY <2>1, <2>2
<1> QED BY <1>6, <1>7, <1>8

-----------------------------------------------------------------------------
-----------------------------------------------------------------------------
(* The invariant and what follows from it.                                 *)

LEMMA ConsistentStep ==
    ASSUME NEW s, NEW t, NEW certs, CalculusConstants, Consistent(s),
           Step(s, t, certs)
    PROVE  Consistent(t)
<1>1. /\ s \in Documents /\ ModelMatches(s) /\ References(s)
      /\ HeirsReplace(s) /\ GroundedIn(s) /\ RefutedIn(s)
  BY DEF Consistent
<1>2. t \in Documents
  BY <1>1, TypeStep
<1>3. ModelMatches(t)
  BY <1>1, ModelStep
<1>4. References(t)
  BY <1>1, RecordsStay
<1>5. HeirsReplace(t)
  BY <1>1, HeirStep
<1>6. GroundedIn(t)
  BY <1>1, GroundedStep
<1>7. RefutedIn(t)
  BY <1>1, ResolvedStep
<1> QED BY <1>2, <1>3, <1>4, <1>5, <1>6, <1>7 DEF Consistent

\* A calculus that is committed was computed from one that a host has read.
LEMMA Written ==
    ASSUME [Next]_vars
    PROVE  \/ calculus' = calculus
           \/ \E h \in Hosts :
                 /\ copy[h] # None
                 /\ Step(copy[h].calculus, calculus', copy[h].certificates)
                 /\ copy' = [copy EXCEPT ![h] = None]
<1>1. ASSUME NEW h \in Hosts, Begin(h) PROVE calculus' = calculus
  BY <1>1 DEF Begin
<1>2. ASSUME NEW h \in Hosts, Abandon(h) PROVE calculus' = calculus
  BY <1>2 DEF Abandon
<1>3. ASSUME NEW h \in Hosts, Commit(h)
      PROVE  /\ copy[h] # None /\ copy' = [copy EXCEPT ![h] = None]
             /\ Step(copy[h].calculus, calculus', copy[h].certificates)
  BY <1>3 DEF Commit, Finish, Step
<1>4. ASSUME NEW h \in Hosts, Minimize(h)
      PROVE  /\ copy[h] # None /\ copy' = [copy EXCEPT ![h] = None]
             /\ Step(copy[h].calculus, calculus', copy[h].certificates)
  BY <1>4 DEF Minimize, Finish, Step, Operation
<1>5. ASSUME NEW h \in Hosts, NEW l \in Constraints, RegisterCertificate(h, l)
      PROVE  calculus' = calculus
  BY <1>5 DEF RegisterCertificate
<1>6. ASSUME NEW h \in Hosts, NEW l \in Constraints, VerifyCertificate(h, l)
      PROVE  calculus' = calculus
  BY <1>6 DEF VerifyCertificate
<1>7. ASSUME NEW h \in Hosts, RecordCheck(h) PROVE calculus' = calculus
  BY <1>7 DEF RecordCheck
<1>8. ASSUME UNCHANGED vars PROVE calculus' = calculus
  BY <1>8 DEF vars
<1> QED BY <1>1, <1>2, <1>3, <1>4, <1>5, <1>6, <1>7, <1>8 DEF Next

\* A host has read what was canonical when it began.
LEMMA Read ==
    ASSUME TypeOK, CalculusConstants, [Next]_vars, NEW h \in Hosts, copy'[h] # None
    PROVE  copy'[h] = copy[h] \/ copy'[h].calculus = calculus
<1> DEFINE P == copy'[h] = copy[h] \/ copy'[h].calculus = calculus
<1>1. ASSUME NEW g \in Hosts, copy' = [copy EXCEPT ![g] = None] PROVE P
  BY <1>1 DEF TypeOK
<1>2. ASSUME NEW g \in Hosts, Begin(g) PROVE P
  BY <1>2 DEF Begin, TypeOK
<1>3. ASSUME NEW g \in Hosts, Abandon(g) PROVE P
  BY <1>1, <1>3 DEF Abandon
<1>4. ASSUME NEW g \in Hosts, Commit(g) PROVE P
  BY <1>1, <1>4 DEF Commit, Finish
<1>5. ASSUME NEW g \in Hosts, Minimize(g) PROVE P
  BY <1>1, <1>5 DEF Minimize, Finish
<1>6. ASSUME NEW g \in Hosts, NEW l \in Constraints, RegisterCertificate(g, l)
      PROVE  P
  BY <1>1, <1>6 DEF RegisterCertificate, Finish
<1>7. ASSUME NEW g \in Hosts, NEW l \in Constraints, VerifyCertificate(g, l)
      PROVE  P
  BY <1>1, <1>7 DEF VerifyCertificate, Finish
<1>8. ASSUME NEW g \in Hosts, RecordCheck(g) PROVE P
  BY <1>1, <1>8 DEF RecordCheck, Finish
<1>9. ASSUME UNCHANGED vars PROVE P
  BY <1>9 DEF vars
<1> QED BY <1>2, <1>3, <1>4, <1>5, <1>6, <1>7, <1>8, <1>9 DEF Next

LEMMA TypeNext ==
    ASSUME Inv, CalculusConstants, [Next]_vars, Consistent(calculus')
    PROVE  TypeOK'
<1> USE DEF Inv, TypeOK
<1>1. calculus' \in Documents
  BY DEF Consistent
<1>2. ASSUME NEW h \in Hosts, copy' = [copy EXCEPT ![h] = None]
      PROVE  copy' \in [Hosts -> Copies \cup {None}]
  BY <1>2
<1>3. ASSUME NEW h \in Hosts, Finish(h), certificates' \in Certificates
      PROVE  TypeOK'
  BY <1>1, <1>2, <1>3 DEF Finish
<1>4. ASSUME NEW h \in Hosts, copy[h] # None
      PROVE  copy[h].certificates \in Certificates
  BY <1>4 DEF Copies
<1>5. ASSUME NEW h \in Hosts, Begin(h) PROVE TypeOK'
  BY <1>5 DEF Begin, Copies
<1>6. ASSUME NEW h \in Hosts, Abandon(h) PROVE TypeOK'
  BY <1>2, <1>6 DEF Abandon
<1>7. ASSUME NEW h \in Hosts, Commit(h) PROVE TypeOK'
  BY <1>3, <1>7 DEF Commit
<1>8. ASSUME NEW h \in Hosts, Minimize(h) PROVE TypeOK'
  BY <1>3, <1>4, <1>8 DEF Minimize
<1>9. ASSUME NEW h \in Hosts, NEW l \in Constraints, RegisterCertificate(h, l)
      PROVE  TypeOK'
  <2>1. certificates' \in Certificates
    BY <1>4, <1>9 DEF RegisterCertificate, Certificates
  <2> QED BY <1>3, <1>9, <2>1 DEF RegisterCertificate
<1>10. ASSUME NEW h \in Hosts, NEW l \in Constraints, VerifyCertificate(h, l)
      PROVE  TypeOK'
  <2>1. certificates' \in Certificates
    BY <1>4, <1>10 DEF VerifyCertificate, Certificates
  <2> QED BY <1>3, <1>10, <2>1 DEF VerifyCertificate
<1>11. ASSUME NEW h \in Hosts, RecordCheck(h) PROVE TypeOK'
  BY <1>3, <1>4, <1>11 DEF RecordCheck
<1>12. ASSUME UNCHANGED vars PROVE TypeOK'
  BY <1>12 DEF vars
<1> QED BY <1>5, <1>6, <1>7, <1>8, <1>9, <1>10, <1>11, <1>12 DEF Next

THEOREM CalculusInvariant == Spec => []Inv
<1>1. Init => Inv
  <2> SUFFICES ASSUME Init PROVE Inv
    OBVIOUS
  <2>1. TypeOK
    BY EmptyTyped DEF Init, TypeOK, Certificates
  <2>2. InUse = {Empty}
    BY DEF Init, InUse
  <2>3. Active(Empty) = {} /\ Known(Empty) = {}
    BY DEF Empty, Active, Known
  <2>4. ModelMatches(Empty) /\ References(Empty) /\ HeirsReplace(Empty)
    BY <2>3, CalculusConstants
       DEF Empty, ModelMatches, References, HeirsReplace, CalculusConstants
  <2>5. GroundedIn(Empty) /\ RefutedIn(Empty)
    BY <2>3 DEF Empty, GroundedIn, RefutedIn
  <2> QED BY <2>1, <2>2, <2>4, <2>5, EmptyTyped DEF Inv, Consistent
<1>2. Inv /\ [Next]_vars => Inv'
  <2> SUFFICES ASSUME Inv, [Next]_vars PROVE Inv'
    OBVIOUS
  <2>1. \A h \in Hosts : copy[h] # None => Consistent(copy[h].calculus)
    BY DEF Inv, InUse
  <2>2. Consistent(calculus)
    BY DEF Inv, InUse
  <2>3. Consistent(calculus')
    BY <2>1, <2>2, Written, ConsistentStep, CalculusConstants
  <2>4. TypeOK'
    BY <2>3, TypeNext, CalculusConstants
  <2>5. \A h \in Hosts : copy'[h] # None => Consistent(copy'[h].calculus)
    BY <2>1, <2>2, Read, CalculusConstants DEF Inv
  <2>6. ASSUME NEW s \in InUse' PROVE Consistent(s)
    BY <2>3, <2>5, <2>6 DEF InUse
  <2> QED BY <2>4, <2>6 DEF Inv, Consistent
<1> QED BY <1>1, <1>2, PTL DEF Spec

\* Every operation leaves records of the right types.
THEOREM CalculusTypeCorrect == Spec => []TypeOK
<1>1. Inv => TypeOK
  BY DEF Inv
<1> QED BY <1>1, CalculusInvariant, PTL

\* The active model is exactly the active decisions, whatever operations ran
\* and whatever they overwrote: the assertion of assert_calculus_invariants
\* never fires.
THEOREM ModelConsistent == Spec => []ModelIsActive
<1>1. Inv => ModelIsActive
  BY ModelMeans, CalculusConstants DEF Inv, Consistent, ModelMatches, ModelIsActive
<1> QED BY <1>1, CalculusInvariant, PTL

\* A decision that is active rests on active parents, unless it is pinned or
\* has itself replaced what they stood on, also where hosts overwrite each
\* other's commits.
THEOREM SupportHolds == Spec => []Grounded
<1>1. Inv => Grounded
  BY DEF Inv, InUse, Consistent, Grounded
<1> QED BY <1>1, CalculusInvariant, PTL

\* A resolved conflict has a refuted explanation, also where hosts overwrite
\* each other's commits.
THEOREM ResolutionRefutes == Spec => []ResolvedIsRefuted
<1>1. Inv => ResolvedIsRefuted
  BY DEF Inv, InUse, Consistent, ResolvedIsRefuted
<1> QED BY <1>1, CalculusInvariant, PTL

-----------------------------------------------------------------------------
(* What no operation may do.                                               *)

LEMMA OthersStayIn ==
    ASSUME NEW s, NEW t, NEW certs, CalculusConstants, Consistent(s),
           Step(s, t, certs)
    PROVE  OnlyDependents(s, t)
<1> USE DEF Consistent
<1> DEFINE P == OnlyDependents(s, t)
<1>1. ASSUME Active(s) \subseteq Active(t) PROVE P
  <2>1. Active(t) \subseteq Decisions
    BY DEF Active
  <2>2. CASE Decisions \ Pinned = {}
    BY <1>1, <2>1, <2>2 DEF OnlyDependents
  <2>3. CASE Decisions \ Pinned # {}
    BY <1>1, <2>3 DEF OnlyDependents
  <2> QED BY <2>2, <2>3
<1>2. ASSUME NEW a \in Decisions \ Pinned, a \notin Active(t),
             Active(s) \ Active(t) \subseteq Descendants(s, a)
      PROVE P
  <2>1. \A d \in Active(s) \ Active(t) : a \in Above(d)
    BY <1>2, DescendantsBelow
  <2> QED BY <1>2, <2>1 DEF OnlyDependents
<1> HIDE DEF P
<1>3. ASSUME t.decisions = s.decisions PROVE P
  BY <1>1, <1>3 DEF Active
<1>4. ASSUME NEW d \in Decisions, Register(s, t, d) PROVE P
  BY <1>1, <1>4 DEF Register, Active, Documents
<1>5. ASSUME NEW d \in Decisions, Activate(s, t, d) PROVE P
  <2> DEFINE current == s.model[SubjectOf[d]]
  <2>1. /\ d \notin Active(s)
        /\ current # None => current \in Active(s) \ Pinned
        /\ Active(t) = {d} \cup (Active(s) \ ({current} \cup Suspended(s, current)))
    BY <1>5, ActivateSteps
  <2>2. CASE current = None
    <3>1. Suspended(s, current) = {} /\ None \notin Active(s)
      BY <2>2 DEF Suspended, Active, CalculusConstants
    <3> QED BY <1>1, <2>1, <2>2, <3>1
  <2>3. CASE current # None
    <3>1. Suspended(s, current) \subseteq Descendants(s, current)
      BY <2>3 DEF Suspended
    <3>2. current \in Decisions \ Pinned /\ current \in Descendants(s, current)
      BY <2>1, <2>3, DescendantsClosed DEF Active
    <3>3. current \notin Active(t)
      BY <2>1, <2>3
    <3>4. Active(s) \ Active(t) \subseteq Descendants(s, current)
      BY <2>1, <3>1, <3>2
    <3> HIDE DEF current
    <3> QED BY <1>2, <3>2, <3>3, <3>4
  <2> QED BY <2>2, <2>3
<1>6. ASSUME RestartSearch(s, t) PROVE P
  BY <1>6, RestartSteps DEF P, OnlyDependents
<1>7. ASSUME NEW c \in Conflicts, NEW x \in Explanations, NEW p \in Decisions,
             Backjump(s, t, c, x, p)
      PROVE P
  <2>1. /\ Active(t) = Active(s) \ Descendants(s, p)
        /\ p \in Descendants(s, p) /\ p \notin Pinned
    BY <1>7, BackjumpSteps
  <2> QED BY <1>2, <2>1
<1>8. ASSUME NEW x \in Explanations, NEW S, NEW status,
             RegisterExplanation(s, t, x, status, S)
      PROVE P
  BY <1>3, <1>8 DEF RegisterExplanation, Documents
<1>9. ASSUME NEW x \in Explanations, NEW y \in Explanations, NEW S,
             MinimizeConflict(s, t, x, y, S)
      PROVE P
  BY <1>3, <1>9 DEF MinimizeConflict, Documents
<1>10. ASSUME Quiet(s, t) PROVE P
  BY <1>3, <1>10 DEF Quiet
<1>11. P
  BY <1>4, <1>5, <1>6, <1>7, <1>8, <1>9, <1>10, StepKinds
<1> QED BY <1>11 DEF P

\* What a backjump or a supersession takes from the model that its host has read
\* lies below one decision that it takes as well; a restart spares only what is
\* pinned.
THEOREM OthersStay == Spec => OnlyDependentsFall
<1> DEFINE P == \A h \in Hosts :
                   copy[h] # None /\ copy'[h] = None /\ calculus' # calculus
                   => OnlyDependents(copy[h].calculus, calculus')
<1>1. ASSUME Inv, [Next]_vars PROVE P
  <2> SUFFICES ASSUME NEW h \in Hosts, copy[h] # None, copy'[h] = None,
                      calculus' # calculus
               PROVE  OnlyDependents(copy[h].calculus, calculus')
    OBVIOUS
  <2>1. PICK g \in Hosts :
           /\ copy[g] # None
           /\ Step(copy[g].calculus, calculus', copy[g].certificates)
           /\ copy' = [copy EXCEPT ![g] = None]
    BY <1>1, Written
  <2>2. g = h
    BY <1>1, <2>1 DEF Inv, TypeOK
  <2>3. Consistent(copy[h].calculus)
    BY <1>1 DEF Inv, InUse
  <2> QED BY <2>1, <2>2, <2>3, OthersStayIn, CalculusConstants
<1>2. Inv /\ [Next]_vars => [P]_vars
  BY <1>1
<1> QED BY <1>2, CalculusInvariant, PTL DEF Spec, OnlyDependentsFall

=============================================================================
