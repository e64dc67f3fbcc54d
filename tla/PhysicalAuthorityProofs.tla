----------------------- MODULE PhysicalAuthorityProofs -----------------------
(***************************************************************************)
(* Proofs about PhysicalAuthority, for all sets of hosts, leases,          *)
(* capabilities and effects, and for all calls.                            *)
(*                                                                         *)
(* The argument has one idea: a document is committed only by a host whose *)
(* snapshot is the canonical one, so the checks that the handler made on   *)
(* its snapshot were checks on the log the document is added to (`Sync').  *)
(* StepAdds says it once, for every action; the theorems only use what it  *)
(* says of the record that a step adds, the last of them for what the log  *)
(* as a whole promises.                                                    *)
(***************************************************************************)
EXTENDS AuthorityRefinement, TLAPS

-----------------------------------------------------------------------------
(* The inductive invariant.                                                *)

\* A host is in a handler on a call of the right kind.
CallOK ==
    \A h \in Hosts :
        /\ phase[h] # "idle" => call[h] \in Calls
        /\ phase[h] = "preempting" => call[h].kind = "preempt"
        /\ phase[h] = "rechecked" => call[h].kind \in {"authorize", "execute"}

\* A snapshot is a prefix of the log, and all of it unless it is behind.
Sync ==
    \A h \in Hosts :
        /\ seen[h] \subseteq evidence
        /\ ~behind[h] => seen[h] = evidence

Inv == TypeOK /\ CallOK /\ Sync

USE AuthorityAssumption DEF Objects, Domains

LEMMA ItemType ==
    ASSUME NEW k \in DocumentKinds, NEW o \in Objects
    PROVE  Item(k, o) \in Records
BY DEF Item, Records

\* What an added record tells of the log it was added to.
Justified(E, r) ==
    /\ r \in Records
    /\ r.kind = "lease" =>
        /\ r.obj \in Leases /\ r = Item("lease", r.obj) /\ r \notin E
        /\ Grantable(E, r.obj)
    /\ r.kind = "used" => r.obj \in Caps /\ CapActive(E, r.obj, r.at)
    /\ r.kind \in {"AUTHORIZE", "EXECUTE"} => r.obj \in Effects /\ Authorized(E, r)
    /\ r.kind = "binding" => r.arg \in Caps /\ Of(E, {"binding"}, r.obj) = {}

\* The log is unchanged, or one justified record is added.
Grows ==
    \/ evidence' = evidence
    \/ \E r : evidence' = evidence \cup {r} /\ Justified(evidence, r)

-----------------------------------------------------------------------------
(* The commits.                                                            *)

LEMMA CommitOK ==
    ASSUME Inv, NEW h \in Hosts, NEW r \in Records, Commit(h, r)
    PROVE  /\ evidence' \subseteq Records
           /\ seen' \in [Hosts -> SUBSET Records]
           /\ behind' \in [Hosts -> BOOLEAN]
           /\ Sync'
<1>1. evidence \subseteq Records /\ seen \in [Hosts -> SUBSET Records]
  BY DEF Inv, TypeOK
<1>2. evidence' \subseteq Records /\ evidence \subseteq evidence'
  BY <1>1 DEF Commit
<1>3. seen' \in [Hosts -> SUBSET Records]
  BY <1>1, <1>2 DEF Commit
<1>4. behind' = [g \in Hosts |-> g # h]
  BY DEF Commit
<1>5. seen'[h] = evidence' /\ \A g \in Hosts : g # h => seen'[g] = seen[g]
  BY <1>1 DEF Commit
<1>6. Sync'
  BY <1>2, <1>4, <1>5 DEF Inv, Sync
<1>7. behind' \in [Hosts -> BOOLEAN]
  BY <1>4
<1>8. QED
  BY <1>2, <1>3, <1>6, <1>7

LEMMA ReloadOK ==
    ASSUME Inv, NEW h \in Hosts, Reload(h)
    PROVE  /\ evidence' = evidence
           /\ seen' \in [Hosts -> SUBSET Records]
           /\ behind' \in [Hosts -> BOOLEAN]
           /\ Sync'
BY DEF Inv, TypeOK, Sync, Reload

\* Entering a call keeps the invariant on calls.
LEMMA EnterOK ==
    ASSUME Inv, NEW h \in Hosts, NEW c \in Calls \cup {None},
           NEW p \in {"idle", "decided", "preempting", "rechecked"},
           p # "idle" => c \in Calls,
           p = "preempting" => c.kind = "preempt",
           p = "rechecked" => c.kind \in {"authorize", "execute"},
           Enter(h, c, p)
    PROVE  /\ call' \in [Hosts -> Calls \cup {None}]
           /\ phase' \in [Hosts -> {"idle", "decided", "preempting", "rechecked"}]
           /\ CallOK'
BY DEF Inv, TypeOK, CallOK, Enter

LEMMA RecordOK ==
    ASSUME Inv, NEW h \in Hosts, NEW r \in Records, NEW c \in Calls \cup {None},
           NEW p \in {"idle", "decided", "preempting", "rechecked"},
           p # "idle" => c \in Calls,
           p = "preempting" => c.kind = "preempt",
           p = "rechecked" => c.kind \in {"authorize", "execute"},
           seen[h] = evidence /\ r \notin evidence => Justified(evidence, r),
           RecordThen(h, r, c, p), UNCHANGED status
    PROVE  Inv' /\ Grows
<1>1. CASE r \in seen[h] /\ Enter(h, c, p) /\ UNCHANGED <<evidence, seen, behind>>
  BY <1>1, EnterOK DEF Inv, TypeOK, Sync, Grows
<1>2. CASE r \notin seen[h] /\ ~Stale(h) /\ Commit(h, r) /\ Enter(h, c, p)
  <2>1. Justified(evidence, r)
    BY <1>2 DEF Inv, Sync, Stale
  <2>2. Grows
    BY <1>2, <2>1 DEF Commit, Grows
  <2>3. Inv'
    BY <1>2, CommitOK, EnterOK DEF Inv, TypeOK
  <2>4. QED
    BY <2>2, <2>3
<1>3. CASE r \notin seen[h] /\ Stale(h) /\ Reload(h) /\ Return(h)
  BY <1>3, ReloadOK, EnterOK DEF Inv, TypeOK, Return, Grows
<1>4. QED
  BY <1>1, <1>2, <1>3 DEF RecordThen

LEMMA LastRecordOK ==
    ASSUME Inv, NEW h \in Hosts, NEW r \in Records,
           seen[h] = evidence /\ r \notin evidence => Justified(evidence, r),
           Record(h, r), UNCHANGED status
    PROVE  Inv' /\ Grows
BY RecordOK DEF Record

LEMMA CallType ==
    ASSUME NEW c \in Calls
    PROVE  c \in Records /\ c.kind \in CallKinds /\ c.at \in Times
BY DEF Records

LEMMA DecideOK ==
    ASSUME Inv, NEW h \in Hosts, NEW c \in Calls, Decide(h, c)
    PROVE  Inv' /\ Grows
<1>1. Justified(evidence, c)
  BY CallType DEF Justified, CallKinds
<1>2. CASE c \in evidence
  BY <1>2, ReloadOK, EnterOK DEF Decide, Inv, TypeOK, Grows
<1>3. CASE c \notin evidence
  <2>1. Commit(h, c) /\ Enter(h, c, "decided") /\ UNCHANGED status
    BY <1>3 DEF Decide
  <2>2. Grows
    BY <1>1, <2>1 DEF Commit, Grows
  <2>3. Inv'
    BY <2>1, CallType, CommitOK, EnterOK DEF Inv, TypeOK
  <2>4. QED
    BY <2>2, <2>3
<1>4. QED
  BY <1>2, <1>3

LEMMA RaiseOK ==
    ASSUME Inv, NEW h \in Hosts, Raise(h), UNCHANGED status
    PROVE  Inv' /\ Grows
BY EnterOK DEF Raise, Return, Inv, TypeOK, Sync, Grows
-----------------------------------------------------------------------------
(* Every action.                                                           *)

\* A document that is neither a lease nor the exercise of a capability.
LEMMA PlainOK ==
    ASSUME NEW r \in Records, r.kind \notin {"lease", "used", "AUTHORIZE", "EXECUTE", "binding"}
    PROVE  Justified(evidence, r)
BY DEF Justified

LEMMA AskedOK ==
    ASSUME NEW h \in Hosts, NEW k \in CallKinds, NEW c \in Asked(h, k)
    PROVE  c \in Calls /\ c.kind = k /\ phase[h] = "idle"
BY DEF Asked

LEMMA DecidedOK ==
    ASSUME Inv, NEW h \in Hosts, NEW k \in CallKinds, Decided(h, k)
    PROVE  call[h] \in Calls /\ call[h].kind = k
BY DEF Decided, Inv, CallOK

LEMMA RegisterStep ==
    ASSUME Inv, NEW h \in Hosts, RegisterDomain(h)
    PROVE  Inv' /\ Grows
<1>1. CASE \E c \in Asked(h, "register") : Decide(h, c)
  BY <1>1, AskedOK, DecideOK DEF CallKinds
<1>2. CASE Decided(h, "register")
  <2>1. call[h] \in Calls /\ call[h].kind = "register"
    BY <1>2, DecidedOK DEF CallKinds
  <2> DEFINE r == Item("domain", call[h].obj)
  <2>2. r \in Records /\ r.kind = "domain"
    BY <2>1, ItemType DEF DocumentKinds, Item
  <2>3. Justified(evidence, r)
    BY <2>2, PlainOK
  <2> HIDE DEF r
  <2>4. Record(h, r) \/ Raise(h)
    BY <1>1, DecideOK, <1>2 DEF RegisterDomain, r, Asked, Decided
  <2>5. UNCHANGED status
    BY <1>2 DEF RegisterDomain, Asked, Decided
  <2>6. QED
    BY <2>2, <2>3, <2>4, <2>5, LastRecordOK, RaiseOK
<1>3. QED
  BY <1>1, <1>2 DEF RegisterDomain

LEMMA GrantStep ==
    ASSUME Inv, NEW h \in Hosts, GrantLease(h)
    PROVE  Inv' /\ Grows
<1>1. CASE \E c \in Asked(h, "grant") : Decide(h, c)
  BY <1>1, AskedOK, DecideOK DEF CallKinds
<1>2. CASE Decided(h, "grant")
  <2>1. call[h] \in Calls /\ call[h].kind = "grant"
    BY <1>2, DecidedOK DEF CallKinds
  <2> DEFINE l == call[h].obj
             r == Item("lease", l)
  <2>2. l \in Leases /\ r \in Records /\ r.kind = "lease" /\ r.obj = l
    BY <2>1, ItemType DEF DocumentKinds, Item
  <2>3. /\ \/ (Grantable(seen[h], l) \/ r \in seen[h]) /\ Record(h, r)
           \/ Raise(h)
        /\ UNCHANGED status
    BY <1>2 DEF GrantLease, Asked, Decided
  <2>4. ASSUME seen[h] = evidence, r \notin evidence, Grantable(seen[h], l)
        PROVE  Justified(evidence, r)
    BY <2>2, <2>4 DEF Justified
  <2> HIDE DEF l, r
  <2>5. CASE Raise(h)
    BY <2>3, <2>5, RaiseOK
  <2>6. CASE (Grantable(seen[h], l) \/ r \in seen[h]) /\ Record(h, r)
    BY <2>2, <2>3, <2>4, <2>6, LastRecordOK
  <2>7. QED
    BY <2>3, <2>5, <2>6
<1>3. QED
  BY <1>1, <1>2 DEF GrantLease

LEMMA RevokeStep ==
    ASSUME Inv, NEW h \in Hosts, RevokeLease(h)
    PROVE  Inv' /\ Grows
<1>1. CASE \E c \in Asked(h, "revoke") : Decide(h, c)
  BY <1>1, AskedOK, DecideOK DEF CallKinds
<1>2. CASE Decided(h, "revoke")
  <2>1. call[h] \in Calls
    BY <1>2, DecidedOK DEF CallKinds
  <2> DEFINE r == [call[h] EXCEPT !.kind = "revoked"]
  <2>2. r \in Records /\ r.kind = "revoked"
    BY <2>1, CallType DEF Records, DocumentKinds
  <2>3. (Record(h, r) \/ Raise(h)) /\ UNCHANGED status
    BY <1>2 DEF RevokeLease, Asked, Decided
  <2> HIDE DEF r
  <2>4. QED
    BY <2>2, <2>3, PlainOK, LastRecordOK, RaiseOK
<1>3. QED
  BY <1>1, <1>2 DEF RevokeLease

\* The records of a preemption, and of every call under another kind.
LEMMA RenamedOK ==
    ASSUME NEW c \in Calls, NEW k \in CallKinds \cup DocumentKinds
    PROVE  /\ [c EXCEPT !.kind = k] \in Records
           /\ [c EXCEPT !.kind = k].kind = k
           /\ [c EXCEPT !.kind = k].obj = c.obj
           /\ [c EXCEPT !.kind = k].at = c.at
BY CallType DEF Records

LEMMA PreemptStep ==
    ASSUME Inv, NEW h \in Hosts, PreemptLease(h)
    PROVE  Inv' /\ Grows
<1>1. CASE \E c \in Asked(h, "preempt") : Decide(h, c)
  BY <1>1, AskedOK, DecideOK DEF CallKinds
<1>2. CASE /\ Decided(h, "preempt") /\ UNCHANGED status
           /\ RecordThen(h, PreemptionOf(call[h]), call[h], "preempting")
  <2>1. call[h] \in Calls /\ call[h].kind = "preempt"
    BY <1>2, DecidedOK DEF CallKinds
  <2>2. PreemptionOf(call[h]) \in Records /\ PreemptionOf(call[h]).kind = "preemption"
    BY <2>1, RenamedOK DEF PreemptionOf, DocumentKinds
  <2>3. Justified(evidence, PreemptionOf(call[h]))
    BY <2>2, PlainOK
  <2>4. QED
    BY <1>2, <2>1, <2>2, <2>3, RecordOK
<1>3. CASE /\ phase[h] = "preempting" /\ UNCHANGED status
           /\ Record(h, PreemptedBy(call[h]))
  <2>1. call[h] \in Calls
    BY <1>3 DEF Inv, CallOK
  <2>2. PreemptedBy(call[h]) \in Records /\ PreemptedBy(call[h]).kind = "preempted"
    BY <2>1, RenamedOK DEF PreemptedBy, DocumentKinds
  <2>3. QED
    BY <1>3, <2>2, PlainOK, LastRecordOK
<1>4. QED
  BY <1>1, <1>2, <1>3 DEF PreemptLease

LEMMA RepairStep ==
    ASSUME Inv, NEW h \in Hosts, RepairPreemption(h)
    PROVE  Inv' /\ Grows
<1>1. PICK c \in Asked(h, "preempt") : Record(h, PreemptedBy(c)) /\ UNCHANGED status
  BY DEF RepairPreemption
<1>2. c \in Calls
  BY AskedOK DEF CallKinds
<1>3. PreemptedBy(c) \in Records /\ PreemptedBy(c).kind = "preempted"
  BY <1>2, RenamedOK DEF PreemptedBy, DocumentKinds
<1>4. QED
  BY <1>1, <1>3, PlainOK, LastRecordOK

LEMMA IssueStep ==
    ASSUME Inv, NEW h \in Hosts, IssueCapability(h)
    PROVE  Inv' /\ Grows
<1>1. CASE \E c \in Asked(h, "issue") : Decide(h, c)
  BY <1>1, AskedOK, DecideOK DEF CallKinds
<1>2. CASE Decided(h, "issue")
  <2>1. call[h] \in Calls /\ call[h].kind = "issue"
    BY <1>2, DecidedOK DEF CallKinds
  <2> DEFINE r == Item("capability", call[h].obj)
  <2>2. r \in Records /\ r.kind = "capability"
    BY <2>1, ItemType DEF DocumentKinds, Item
  <2>3. (Record(h, r) \/ Raise(h)) /\ UNCHANGED status
    BY <1>2 DEF IssueCapability, Asked, Decided
  <2> HIDE DEF r
  <2>4. QED
    BY <2>2, <2>3, PlainOK, LastRecordOK, RaiseOK
<1>3. QED
  BY <1>1, <1>2 DEF IssueCapability

LEMMA WithdrawStep ==
    ASSUME Inv, NEW h \in Hosts, RevokeCapability(h)
    PROVE  Inv' /\ Grows
<1>1. CASE \E c \in Asked(h, "withdraw") : Decide(h, c)
  BY <1>1, AskedOK, DecideOK DEF CallKinds
<1>2. CASE Decided(h, "withdraw")
  <2>1. call[h] \in Calls
    BY <1>2, DecidedOK DEF CallKinds
  <2> DEFINE r == [call[h] EXCEPT !.kind = "withdrawn"]
  <2>2. r \in Records /\ r.kind = "withdrawn"
    BY <2>1, RenamedOK DEF DocumentKinds
  <2>3. Record(h, r) /\ UNCHANGED status
    BY <1>2 DEF RevokeCapability, Asked, Decided
  <2> HIDE DEF r
  <2>4. QED
    BY <2>2, <2>3, PlainOK, LastRecordOK
<1>3. QED
  BY <1>1, <1>2 DEF RevokeCapability

LEMMA UseStep ==
    ASSUME Inv, NEW h \in Hosts, UseCapability(h)
    PROVE  Inv' /\ Grows
<1>1. PICK c \in Asked(h, "use") :
        /\ CapActive(seen[h], c.obj, c.at)
        /\ Record(h, [c EXCEPT !.kind = "used"]) /\ UNCHANGED status
  BY DEF UseCapability
<1> DEFINE r == [c EXCEPT !.kind = "used"]
<1>2. c \in Calls /\ c.kind = "use"
  BY AskedOK DEF CallKinds
<1>3. r \in Records /\ r.kind = "used" /\ r.obj = c.obj /\ r.at = c.at
  BY <1>2, RenamedOK DEF DocumentKinds
<1>4. c.obj \in Caps
  BY <1>2
<1>5. seen[h] = evidence => Justified(evidence, r)
  BY <1>1, <1>3, <1>4 DEF Justified
<1> HIDE DEF r
<1>6. Record(h, r) /\ UNCHANGED status
  BY <1>1 DEF r
<1>7. QED
  BY <1>3, <1>5, <1>6, LastRecordOK

LEMMA BindStep ==
    ASSUME Inv, NEW h \in Hosts, BindEffect(h)
    PROVE  Inv' /\ Grows
<1>1. CASE \E c \in Asked(h, "bind") : Decide(h, c)
  BY <1>1, AskedOK, DecideOK DEF CallKinds
<1>2. CASE Decided(h, "bind")
  <2>1. call[h] \in Calls /\ call[h].kind = "bind"
    BY <1>2, DecidedOK DEF CallKinds
  <2> DEFINE r == [Item("binding", call[h].obj) EXCEPT !.arg = call[h].arg]
  <2>2. r \in Records /\ r.kind = "binding" /\ r.arg \in Caps
    BY <2>1, CallType DEF DocumentKinds, Item, Records
  <2>3. /\ \/ Of(seen[h], {"binding"}, r.obj) \subseteq {r} /\ Record(h, r)
           \/ Raise(h)
        /\ UNCHANGED status
    BY <1>2 DEF BindEffect, Asked, Decided
  <2> HIDE DEF r
  <2>4. ASSUME seen[h] = evidence, r \notin evidence,
               Of(seen[h], {"binding"}, r.obj) \subseteq {r}
        PROVE  Justified(evidence, r)
    <3>1. Of(evidence, {"binding"}, r.obj) = {}
      BY <2>4 DEF Of
    <3>2. QED
      BY <2>2, <3>1 DEF Justified
  <2>5. CASE Raise(h)
    BY <2>3, <2>5, RaiseOK
  <2>6. CASE Of(seen[h], {"binding"}, r.obj) \subseteq {r} /\ Record(h, r)
    BY <2>2, <2>3, <2>4, <2>6, LastRecordOK
  <2>7. QED
    BY <2>3, <2>5, <2>6
<1>3. QED
  BY <1>1, <1>2 DEF BindEffect

LEMMA RecheckStep ==
    ASSUME Inv, NEW h \in Hosts,
           NEW k \in {"authorize", "execute"}, NEW b \in {"AUTHORIZE", "EXECUTE"},
           Recheck(h, k, b)
    PROVE  Inv' /\ Grows
<1>1. PICK c \in Asked(h, k) :
        /\ Authorized(seen[h], c)
        /\ RecordThen(h, [c EXCEPT !.kind = b], c, "rechecked") /\ UNCHANGED status
  BY DEF Recheck
<1> DEFINE r == [c EXCEPT !.kind = b]
<1>2. c \in Calls /\ c.kind = k
  BY AskedOK DEF CallKinds
<1>3. r \in Records /\ r.kind = b /\ r.obj = c.obj /\ r.at = c.at
  BY <1>2, RenamedOK DEF DocumentKinds
<1>4. r.obj \in Effects
  BY <1>2, <1>3
<1>5. seen[h] = evidence => Authorized(evidence, r)
  BY <1>1, <1>3 DEF Authorized
<1>6. seen[h] = evidence => Justified(evidence, r)
  BY <1>3, <1>4, <1>5 DEF Justified
<1> HIDE DEF r
<1>7. RecordThen(h, r, c, "rechecked") /\ UNCHANGED status
  BY <1>1 DEF r
<1>8. QED
  BY <1>2, <1>3, <1>6, <1>7, RecordOK

LEMMA ProceedStep ==
    ASSUME Inv, NEW h \in Hosts, NEW k \in {"authorize", "execute"},
           NEW from \in {"PROPOSED", "AUTHORIZED"}, NEW to \in {"AUTHORIZED", "RUNNING"},
           Proceed(h, k, from, to)
    PROVE  Inv' /\ Grows
<1>1. status' \in [Effects -> {"PROPOSED", "AUTHORIZED", "RUNNING"}]
  BY DEF Inv, TypeOK, Proceed
<1>2. Return(h) /\ UNCHANGED <<evidence, seen, behind>>
  BY DEF Proceed
<1>3. QED
  BY <1>1, <1>2, EnterOK DEF Inv, TypeOK, Return, Sync, Grows

\* Every step keeps the invariant and adds at most one justified record.
LEMMA StepAdds == Inv /\ [Next]_vars => Inv' /\ Grows
<1> SUFFICES ASSUME Inv, [Next]_vars PROVE Inv' /\ Grows
  OBVIOUS
<1>1. CASE UNCHANGED vars
  BY <1>1 DEF vars, Inv, TypeOK, CallOK, Sync, Grows
<1>2. ASSUME NEW h \in Hosts, Handler(h)
      PROVE  Inv' /\ Grows
  <2>1. CASE AuthorizeEffect(h)
    BY <2>1, RecheckStep, ProceedStep DEF AuthorizeEffect
  <2>2. CASE ExecuteEffect(h)
    BY <2>2, RecheckStep, ProceedStep DEF ExecuteEffect
  <2>3. QED
    BY <1>2, <2>1, <2>2, RegisterStep, GrantStep, RevokeStep, PreemptStep,
       RepairStep, IssueStep, WithdrawStep, UseStep, BindStep DEF Handler
<1>3. ASSUME NEW h \in Hosts, OtherCommit(h)
      PROVE  Inv' /\ Grows
  BY <1>3 DEF OtherCommit, host, Inv, TypeOK, CallOK, Sync, Grows
<1>4. ASSUME NEW h \in Hosts, Crash(h)
      PROVE  Inv' /\ Grows
  BY <1>4, ReloadOK, EnterOK DEF Crash, Return, Inv, TypeOK, Grows
<1>5. QED
  BY <1>1, <1>2, <1>3, <1>4 DEF Next

LEMMA InitInv == Init => Inv
BY DEF Init, Inv, TypeOK, CallOK, Sync

\* Every variable has its type: what the hosts see, and the calls they are on.
THEOREM AuthorityTypeOK == Spec => []TypeOK
<1>1. Spec => []Inv
  BY InitInv, StepAdds, PTL DEF Spec
<1>2. Inv => TypeOK
  BY DEF Inv
<1>3. QED
  BY <1>1, <1>2, PTL

-----------------------------------------------------------------------------
(* One holder of a domain at a time.                                       *)

\* A record that is not the grant of l cannot bring l into force.
LEMMA InForceShrinks ==
    ASSUME NEW E, NEW r, NEW l \in Leases, NEW t, r # Item("lease", l),
           InForce(E \cup {r}, l, t)
    PROVE  InForce(E, l, t)
BY DEF InForce, Terminations, Of

\* The interval of a new lease meets no interval of its domain.
LEMMA GrantableApart ==
    ASSUME NEW E, NEW l \in Leases, NEW m \in Leases, NEW t \in Times, NEW r,
           Grantable(E, l), Domain[l] = Domain[m],
           InForce(E \cup {r}, l, t), InForce(E, m, t)
    PROVE  FALSE
<1>1. t \in From[l] .. Until[l] /\ t < Until[l]
  <2>1. t \in Nat /\ From[l] \in Nat /\ Until[l] \in Nat
    OBVIOUS
  <2>2. From[l] <= t /\ t < Until[l]
    BY DEF InForce
  <2>3. QED
    BY <2>1, <2>2
<1>2. m \in DomainLeases(E, Domain[l])
  BY DEF DomainLeases, InForce
<1>3. ~Overlaps(E, l, m)
  BY <1>2 DEF Grantable
<1>4. QED
  BY <1>1, <1>3 DEF Overlaps

LEMMA ExclusiveStep == ExclusiveAuthority /\ Grows => ExclusiveAuthority'
<1> SUFFICES ASSUME ExclusiveAuthority, Grows,
                    NEW l \in Leases, NEW m \in Leases, NEW t \in Times,
                    l # m, Domain[l] = Domain[m],
                    InForce(evidence', l, t), InForce(evidence', m, t)
             PROVE  FALSE
  BY DEF ExclusiveAuthority
<1>1. CASE evidence' = evidence
  BY <1>1 DEF ExclusiveAuthority
<1>2. ASSUME NEW r, evidence' = evidence \cup {r}, Justified(evidence, r)
      PROVE  FALSE
  <2>1. CASE r = Item("lease", l)
    <3>1. Grantable(evidence, l)
      BY <1>2, <2>1 DEF Justified, Item
    <3>2. r # Item("lease", m)
      BY <2>1 DEF Item
    <3>3. InForce(evidence, m, t)
      BY <1>2, <3>2, InForceShrinks
    <3>4. QED
      BY <1>2, <3>1, <3>3, GrantableApart
  <2>2. CASE r = Item("lease", m)
    <3>1. Grantable(evidence, m)
      BY <1>2, <2>2 DEF Justified, Item
    <3>2. r # Item("lease", l)
      BY <2>2 DEF Item
    <3>3. InForce(evidence, l, t)
      BY <1>2, <3>2, InForceShrinks
    <3>4. QED
      BY <1>2, <3>1, <3>3, GrantableApart
  <2>3. CASE r # Item("lease", l) /\ r # Item("lease", m)
    BY <1>2, <2>3, InForceShrinks DEF ExclusiveAuthority
  <2>4. QED
    BY <2>1, <2>2, <2>3
<1>3. QED
  BY <1>1, <1>2 DEF Grows

LEMMA ExclusiveInit == Init => ExclusiveAuthority
BY DEF Init, ExclusiveAuthority, InForce

\* Two leases of one domain are never in force at the same moment.
THEOREM AuthorityIsExclusive == Spec => []ExclusiveAuthority
<1>1. Inv /\ ExclusiveAuthority /\ [Next]_vars => (Inv /\ ExclusiveAuthority)'
  BY StepAdds, ExclusiveStep
<1>2. Init => Inv /\ ExclusiveAuthority
  BY InitInv, ExclusiveInit
<1>3. QED
  BY <1>1, <1>2, PTL DEF Spec

-----------------------------------------------------------------------------
(* The epochs of a domain.                                                 *)

\* Only the grant of a lease of a domain changes the leases of the domain.
LEMMA SameLeases ==
    ASSUME NEW E, NEW r, NEW d,
           \A l \in Leases : r = Item("lease", l) => Domain[l] # d
    PROVE  DomainLeases(E \cup {r}, d) = DomainLeases(E, d)
BY DEF DomainLeases

LEMMA NewLease ==
    ASSUME NEW E, NEW l \in Leases
    PROVE  DomainLeases(E \cup {Item("lease", l)}, Domain[l])
               = DomainLeases(E, Domain[l]) \cup {l}
BY DEF DomainLeases, Item

LEMMA EpochStep == EpochsHaveNoGap /\ Grows => EpochsHaveNoGap'
<1> SUFFICES ASSUME EpochsHaveNoGap, Grows,
                    NEW m \in Leases, Item("lease", m) \in evidence'
             PROVE  LET others == DomainLeases(evidence', Domain[m]) \ {m} IN
                    /\ \A x \in others : Epoch[x] # Epoch[m]
                    /\ \A n \in 1 .. Epoch[m] : n < Epoch[m] =>
                        \E x \in others : Epoch[x] = n
  BY DEF EpochsHaveNoGap
<1> DEFINE old == DomainLeases(evidence, Domain[m])
<1>0. /\ \A x \in Leases : Epoch[x] \in Nat \ {0}
      /\ old \subseteq Leases
  BY DEF DomainLeases
<1>1. CASE DomainLeases(evidence', Domain[m]) = old
  <2>1. m \in old
    BY <1>1 DEF DomainLeases
  <2>2. Item("lease", m) \in evidence
    BY <2>1 DEF DomainLeases
  <2>3. QED
    BY <1>1, <2>2 DEF EpochsHaveNoGap
<1>2. ASSUME NEW l \in Leases, Grantable(evidence, l), Item("lease", l) \notin evidence,
             evidence' = evidence \cup {Item("lease", l)}, Domain[l] = Domain[m]
      PROVE  LET others == DomainLeases(evidence', Domain[m]) \ {m} IN
             /\ \A x \in others : Epoch[x] # Epoch[m]
             /\ \A n \in 1 .. Epoch[m] : n < Epoch[m] =>
                 \E x \in others : Epoch[x] = n
  <2>1. DomainLeases(evidence', Domain[m]) = old \cup {l}
    BY <1>2, NewLease
  <2>2. /\ \A x \in old : Epoch[x] < Epoch[l]
        /\ Epoch[l] > 1 => \E x \in old : Epoch[x] + 1 = Epoch[l]
    BY <1>2 DEF Grantable, NextEpoch
  <2>3. l \notin old
    BY <1>2 DEF DomainLeases
  <2>4. \A x \in old :
            /\ \A y \in old \ {x} : Epoch[y] # Epoch[x]
            /\ \A n \in 1 .. Epoch[x] : n < Epoch[x] =>
                \E y \in old \ {x} : Epoch[y] = n
    BY DEF EpochsHaveNoGap, DomainLeases
  <2> HIDE DEF old
  <2>5. CASE m = l
    <3>1. DomainLeases(evidence', Domain[m]) \ {m} = old
      BY <2>1, <2>3, <2>5
    <3>2. \A x \in old : Epoch[x] # Epoch[m]
      BY <1>0, <2>2, <2>5
    <3>3. ASSUME NEW n \in 1 .. Epoch[m], n < Epoch[m]
          PROVE  \E x \in old : Epoch[x] = n
      <4>1. PICK x \in old : Epoch[x] + 1 = Epoch[l]
        BY <1>0, <2>2, <2>5, <3>3
      <4>2. n = Epoch[x] \/ (n < Epoch[x] /\ n \in 1 .. Epoch[x])
        BY <1>0, <2>5, <3>3, <4>1
      <4>3. QED
        BY <2>4, <4>1, <4>2
    <3>4. QED
      BY <3>1, <3>2, <3>3
  <2>6. CASE m # l
    <3>1. m \in old
      BY <1>2, <2>6 DEF old, DomainLeases, Item
    <3>2. DomainLeases(evidence', Domain[m]) \ {m} = (old \ {m}) \cup {l}
      BY <2>1, <2>3, <2>6
    <3>3. Epoch[l] # Epoch[m]
      BY <1>0, <2>2, <3>1
    <3>4. QED
      BY <2>4, <3>1, <3>2, <3>3
  <2>7. QED
    BY <2>5, <2>6
<1>3. CASE evidence' = evidence
  BY <1>1, <1>3
<1>4. ASSUME NEW r, evidence' = evidence \cup {r}, Justified(evidence, r)
      PROVE  \/ DomainLeases(evidence', Domain[m]) = old
             \/ \E l \in Leases :
                    /\ Grantable(evidence, l) /\ Item("lease", l) \notin evidence
                    /\ evidence' = evidence \cup {Item("lease", l)}
                    /\ Domain[l] = Domain[m]
  <2>1. CASE \E l \in Leases : r = Item("lease", l)
    <3>1. PICK l \in Leases : r = Item("lease", l)
      BY <2>1
    <3>2. Grantable(evidence, l) /\ Item("lease", l) \notin evidence
      BY <1>4, <3>1 DEF Justified, Item
    <3>3. CASE Domain[l] = Domain[m]
      BY <1>4, <3>1, <3>2, <3>3
    <3>4. CASE Domain[l] # Domain[m]
      <4>1. \A x \in Leases : r = Item("lease", x) => Domain[x] # Domain[m]
        BY <3>1, <3>4 DEF Item
      <4>2. QED
        BY <1>4, <4>1, SameLeases
    <3>5. QED
      BY <3>3, <3>4
  <2>2. CASE ~ \E l \in Leases : r = Item("lease", l)
    <3>1. \A x \in Leases : r = Item("lease", x) => Domain[x] # Domain[m]
      BY <2>2
    <3>2. QED
      BY <1>4, <3>1, SameLeases
  <2>3. QED
    BY <2>1, <2>2
<1>5. QED
  BY <1>1, <1>2, <1>3, <1>4 DEF Grows

LEMMA EpochInit == Init => EpochsHaveNoGap
BY DEF Init, EpochsHaveNoGap

\* Each epoch of a domain belongs to one lease, and none was left out.
THEOREM EpochsAreConsecutive == Spec => []EpochsHaveNoGap
<1>1. Inv /\ EpochsHaveNoGap /\ [Next]_vars => (Inv /\ EpochsHaveNoGap)'
  BY StepAdds, EpochStep
<1>2. Init => Inv /\ EpochsHaveNoGap
  BY InitInv, EpochInit
<1>3. QED
  BY <1>1, <1>2, PTL DEF Spec

-----------------------------------------------------------------------------
(* The exercise of a capability.                                           *)

LEMMA SelfAncestor == \A k \in Caps : k \in Ancestry[k]
BY DEF Ancestry

\* An active capability rests on a lease in force.
LEMMA ActiveInForce ==
    ASSUME NEW E, NEW k \in Caps, NEW t, CapActive(E, k, t)
    PROVE  InForce(E, LeaseOf[k], t)
BY SelfAncestor DEF CapActive

\* Any binding of an authorized effect names an active capability.
LEMMA AuthorizedActive ==
    ASSUME NEW E, NEW r, r.obj \in Effects, Authorized(E, r),
           NEW b \in Of(E, {"binding"}, r.obj)
    PROVE  CapActive(E, b.arg, r.at)
<1>1. PICK a \in Of(E, {"binding"}, r.obj) : CapActive(E, a.arg, r.at)
  BY DEF Authorized
<1>2. a = b
  BY <1>1 DEF Authorized, BindingLogValid, Unique
<1>3. QED
  BY <1>1, <1>2

\* A binding names a capability.
BoundOK == \A b \in evidence : b.kind = "binding" => b.arg \in Caps

LEMMA BoundStep == BoundOK /\ Grows => BoundOK'
BY DEF BoundOK, Grows, Justified

LEMMA BoundCaps ==
    ASSUME BoundOK, NEW e, NEW b \in Of(evidence, {"binding"}, e)
    PROVE  b.arg \in Caps
BY DEF BoundOK, Of

LEMMA CurrentStep ==
    Inv /\ ExclusiveAuthority /\ BoundOK /\ [Next]_vars => [ExercisedInForce]_vars
<1> SUFFICES ASSUME Inv, ExclusiveAuthority, BoundOK, [Next]_vars,
                    NEW r \in evidence' \ evidence, NEW k \in Exercised(r)
             PROVE  /\ CapActive(evidence, k, r.at)
                    /\ \A m \in Leases :
                        m # LeaseOf[k] /\ Domain[m] = Domain[LeaseOf[k]]
                            => ~InForce(evidence, m, r.at)
  BY DEF ExercisedInForce
<1>1. Justified(evidence, r) /\ r \in Records
  BY StepAdds DEF Grows, Justified
<1>2. k \in Caps /\ CapActive(evidence, k, r.at)
  <2>1. CASE r.kind = "used"
    BY <1>1, <2>1 DEF Justified, Exercised
  <2>2. CASE r.kind \in {"AUTHORIZE", "EXECUTE"}
    <3>1. PICK b \in Of(evidence, {"binding"}, r.obj) : k = b.arg
      BY <2>2 DEF Exercised
    <3>2. k \in Caps
      BY <3>1, BoundCaps
    <3>3. CapActive(evidence, b.arg, r.at)
      BY <1>1, <2>2, AuthorizedActive DEF Justified
    <3>4. QED
      BY <3>1, <3>2, <3>3
  <2>3. QED
    BY <2>1, <2>2 DEF Exercised
<1>3. InForce(evidence, LeaseOf[k], r.at)
  BY <1>2, ActiveInForce
<1>4. r.at \in Times
  BY <1>1 DEF Records
<1>5. LeaseOf[k] \in Leases
  BY <1>2
<1>6. QED
  BY <1>2, <1>3, <1>4, <1>5 DEF ExclusiveAuthority

\* A capability is exercised only while its chain is active in the log and
\* no other lease of the domain is in force.
THEOREM ExerciseIsCurrent == Spec => AuthorityIsCurrent
<1>1. Inv /\ ExclusiveAuthority /\ BoundOK /\ [Next]_vars
        => (Inv /\ ExclusiveAuthority /\ BoundOK)'
  BY StepAdds, ExclusiveStep, BoundStep
<1>2. Init => Inv /\ ExclusiveAuthority /\ BoundOK
  BY InitInv, ExclusiveInit DEF Init, BoundOK
<1>3. Inv /\ ExclusiveAuthority /\ BoundOK /\ [Next]_vars => [ExercisedInForce]_vars
  BY CurrentStep
<1>4. QED
  BY <1>1, <1>2, <1>3, PTL DEF Spec, AuthorityIsCurrent

-----------------------------------------------------------------------------
(* The fence before a dispatch.                                            *)

\* An effect that has come as far as a status has the records of the way.
Fenced ==
    /\ \A e \in Effects : status[e] # "PROPOSED" =>
        Of(evidence, {"binding"}, e) # {} /\ Of(evidence, {"AUTHORIZE"}, e) # {}
    /\ \A e \in Effects : status[e] = "RUNNING" => Of(evidence, {"EXECUTE"}, e) # {}
    /\ \A h \in Hosts : phase[h] = "rechecked" =>
        /\ Of(evidence, {"binding"}, call[h].obj) # {}
        /\ call[h].kind = "authorize" => Of(evidence, {"AUTHORIZE"}, call[h].obj) # {}
        /\ call[h].kind = "execute" => Of(evidence, {"EXECUTE"}, call[h].obj) # {}

\* A step that neither moves an effect nor passes a recheck.
Quiet ==
    /\ UNCHANGED status
    /\ \A g \in Hosts : phase'[g] = "rechecked" =>
        phase[g] = "rechecked" /\ call'[g] = call[g]

LEMMA EvidenceGrows ==
    ASSUME Grows, NEW k, NEW o
    PROVE  Of(evidence, {k}, o) \subseteq Of(evidence, {k}, o)'
BY DEF Grows, Of

LEMMA QuietFenced == Fenced /\ Grows /\ Quiet => Fenced'
<1> SUFFICES ASSUME Fenced, Grows, Quiet PROVE Fenced'
  OBVIOUS
<1>1. \A k, o : Of(evidence, {k}, o) # {} => Of(evidence', {k}, o) # {}
  BY EvidenceGrows DEF Of
<1>2. QED
  BY <1>1 DEF Fenced, Quiet

LEMMA QuietEnter ==
    ASSUME Inv, NEW h \in Hosts, NEW c, NEW p, p # "rechecked",
           Enter(h, c, p), UNCHANGED status
    PROVE  Quiet
BY DEF Inv, TypeOK, Enter, Quiet

LEMMA QuietRecord ==
    ASSUME Inv, NEW h \in Hosts, NEW r, NEW c, NEW p, p # "rechecked",
           RecordThen(h, r, c, p), UNCHANGED status
    PROVE  Quiet
<1>1. Enter(h, c, p) \/ Enter(h, None, "idle")
  BY DEF RecordThen, Return
<1>2. QED
  BY <1>1, QuietEnter

LEMMA QuietLastRecord ==
    ASSUME Inv, NEW h \in Hosts, NEW r, Record(h, r), UNCHANGED status
    PROVE  Quiet
BY QuietRecord DEF Record

LEMMA QuietDecide ==
    ASSUME Inv, NEW h \in Hosts, NEW c, Decide(h, c)
    PROVE  Quiet
<1>1. Enter(h, c, "decided") /\ UNCHANGED status
  BY DEF Decide
<1>2. QED
  BY <1>1, QuietEnter

LEMMA QuietRaise ==
    ASSUME Inv, NEW h \in Hosts, Raise(h), UNCHANGED status
    PROVE  Quiet
BY QuietEnter DEF Raise, Return

LEMMA QuietHandlers ==
    ASSUME Inv, NEW h \in Hosts,
           \/ RegisterDomain(h) \/ GrantLease(h) \/ RevokeLease(h)
           \/ PreemptLease(h) \/ RepairPreemption(h)
           \/ IssueCapability(h) \/ RevokeCapability(h) \/ UseCapability(h)
           \/ BindEffect(h) \/ OtherCommit(h) \/ Crash(h)
    PROVE  Quiet
<1>1. CASE RegisterDomain(h)
  BY <1>1, QuietRecord, QuietLastRecord, QuietDecide, QuietRaise DEF RegisterDomain
<1>2. CASE GrantLease(h)
  BY <1>2, QuietRecord, QuietLastRecord, QuietDecide, QuietRaise DEF GrantLease
<1>3. CASE RevokeLease(h)
  BY <1>3, QuietRecord, QuietLastRecord, QuietDecide, QuietRaise DEF RevokeLease
<1>4. CASE PreemptLease(h)
  BY <1>4, QuietRecord, QuietLastRecord, QuietDecide, QuietRaise DEF PreemptLease
<1>5. CASE RepairPreemption(h)
  BY <1>5, QuietRecord, QuietLastRecord, QuietDecide, QuietRaise DEF RepairPreemption
<1>6. CASE IssueCapability(h)
  BY <1>6, QuietRecord, QuietLastRecord, QuietDecide, QuietRaise DEF IssueCapability
<1>7. CASE RevokeCapability(h)
  BY <1>7, QuietRecord, QuietLastRecord, QuietDecide, QuietRaise DEF RevokeCapability
<1>8. CASE UseCapability(h)
  BY <1>8, QuietRecord, QuietLastRecord, QuietDecide, QuietRaise DEF UseCapability
<1>9. CASE BindEffect(h)
  BY <1>9, QuietRecord, QuietLastRecord, QuietDecide, QuietRaise DEF BindEffect
<1>10. CASE OtherCommit(h)
  BY <1>10 DEF OtherCommit, Quiet, host
<1>11. CASE Crash(h)
  BY <1>11, QuietEnter DEF Crash, Return
<1>12. QED
  BY <1>1, <1>2, <1>3, <1>4, <1>5, <1>6, <1>7, <1>8, <1>9, <1>10, <1>11

\* A recheck that is passed leaves its record beside the binding.
LEMMA RecheckFenced ==
    ASSUME Inv, Fenced, Grows, NEW h \in Hosts, NEW k, NEW b,
           \/ k = "authorize" /\ b = "AUTHORIZE"
           \/ k = "execute" /\ b = "EXECUTE",
           Recheck(h, k, b)
    PROVE  Fenced'
<1>1. PICK c \in Asked(h, k) :
        /\ Authorized(seen[h], c)
        /\ RecordThen(h, [c EXCEPT !.kind = b], c, "rechecked") /\ UNCHANGED status
  BY DEF Recheck
<1> DEFINE r == [c EXCEPT !.kind = b]
<1>2. c \in Calls /\ c.kind = k
  BY DEF Asked
<1>3. r.kind = b /\ r.obj = c.obj
  BY <1>2, RenamedOK DEF DocumentKinds
<1> HIDE DEF r
<1>4. CASE phase'[h] = "rechecked" /\ Enter(h, c, "rechecked") /\ r \in evidence'
  <2>1. Of(evidence', {"binding"}, c.obj) # {}
    <3>1. Of(seen[h], {"binding"}, c.obj) # {}
      BY <1>1 DEF Authorized
    <3>2. seen[h] \subseteq evidence'
      BY DEF Inv, Sync, Grows
    <3>3. QED
      BY <3>1, <3>2 DEF Of
  <2>2. Of(evidence', {b}, c.obj) # {}
    BY <1>3, <1>4 DEF Of
  <2>3. \A g \in Hosts : g # h => phase'[g] = phase[g] /\ call'[g] = call[g]
    BY <1>4 DEF Enter, Inv, TypeOK
  <2>4. call'[h] = c
    BY <1>4 DEF Enter, Inv, TypeOK
  <2>5. \A x, o : Of(evidence, {x}, o) # {} => Of(evidence', {x}, o) # {}
    BY EvidenceGrows DEF Of
  <2> DEFINE Passed(E, ph, d) ==
        ph = "rechecked" =>
            /\ Of(E, {"binding"}, d.obj) # {}
            /\ d.kind = "authorize" => Of(E, {"AUTHORIZE"}, d.obj) # {}
            /\ d.kind = "execute" => Of(E, {"EXECUTE"}, d.obj) # {}
  <2>6. Passed(evidence', phase'[h], call'[h])
    BY <1>2, <2>1, <2>2, <2>4
  <2>7. ASSUME NEW g \in Hosts, g # h PROVE Passed(evidence', phase'[g], call'[g])
    <3>1. Passed(evidence, phase[g], call[g])
      BY DEF Fenced
    <3>2. phase'[g] = phase[g] /\ call'[g] = call[g]
      BY <2>3, <2>7
    <3> QED BY <2>5, <3>1, <3>2
  <2>8. /\ \A e \in Effects : status[e] # "PROPOSED" =>
              Of(evidence', {"binding"}, e) # {} /\ Of(evidence', {"AUTHORIZE"}, e) # {}
        /\ \A e \in Effects : status[e] = "RUNNING" => Of(evidence', {"EXECUTE"}, e) # {}
    BY <2>5 DEF Fenced
  <2>9. status' = status
    BY <1>1
  <2> QED BY <2>6, <2>7, <2>8, <2>9 DEF Fenced
<1>5. CASE Return(h)
  BY <1>1, <1>5, QuietEnter, QuietFenced DEF Return
<1>6. \/ Return(h)
      \/ phase'[h] = "rechecked" /\ Enter(h, c, "rechecked") /\ r \in evidence'
  <2>1. RecordThen(h, r, c, "rechecked")
    BY <1>1 DEF r
  <2>2. seen[h] \subseteq evidence
    BY DEF Inv, Sync
  <2>3. Enter(h, c, "rechecked") => phase'[h] = "rechecked"
    BY DEF Enter, Inv, TypeOK
  <2>4. QED
    BY <2>1, <2>2, <2>3 DEF RecordThen, Commit
<1>7. QED
  BY <1>4, <1>5, <1>6

LEMMA ProceedFenced ==
    ASSUME Inv, Fenced, NEW h \in Hosts,
           \/ Proceed(h, "authorize", "PROPOSED", "AUTHORIZED")
           \/ Proceed(h, "execute", "AUTHORIZED", "RUNNING")
    PROVE  Fenced'
<1>1. evidence' = evidence
  BY DEF Proceed
<1>2. /\ phase[h] = "rechecked" /\ phase' = [phase EXCEPT ![h] = "idle"]
      /\ call' = [call EXCEPT ![h] = None]
  BY DEF Proceed, Return, Enter
<1>3. \A g \in Hosts : phase'[g] = "rechecked" =>
        phase[g] = "rechecked" /\ call'[g] = call[g]
  BY <1>2 DEF Inv, TypeOK
<1>4. call[h].obj \in Effects
  BY <1>2 DEF Inv, CallOK
<1>5. \A e \in Effects : e # call[h].obj => status'[e] = status[e]
  BY DEF Proceed, Inv, TypeOK
<1>6. CASE Proceed(h, "authorize", "PROPOSED", "AUTHORIZED")
  <2>1. /\ call[h].kind = "authorize"
        /\ status'[call[h].obj] =
             IF status[call[h].obj] = "PROPOSED" THEN "AUTHORIZED" ELSE status[call[h].obj]
    BY <1>4, <1>6 DEF Proceed, Inv, TypeOK
  <2>2. Of(evidence, {"binding"}, call[h].obj) # {} /\ Of(evidence, {"AUTHORIZE"}, call[h].obj) # {}
    BY <1>2, <2>1 DEF Fenced
  <2>3. QED
    BY <1>1, <1>3, <1>4, <1>5, <2>1, <2>2 DEF Fenced
<1>7. CASE Proceed(h, "execute", "AUTHORIZED", "RUNNING")
  <2>1. /\ call[h].kind = "execute"
        /\ status'[call[h].obj] =
             IF status[call[h].obj] = "AUTHORIZED" THEN "RUNNING" ELSE status[call[h].obj]
    BY <1>4, <1>7 DEF Proceed, Inv, TypeOK
  <2>2. Of(evidence, {"EXECUTE"}, call[h].obj) # {}
    BY <1>2, <2>1 DEF Fenced
  <2>3. QED
    BY <1>1, <1>3, <1>4, <1>5, <2>1, <2>2 DEF Fenced
<1>8. QED
  BY <1>6, <1>7

LEMMA FencedStep == Inv /\ Fenced /\ [Next]_vars => Fenced'
<1> SUFFICES ASSUME Inv, Fenced, [Next]_vars PROVE Fenced'
  OBVIOUS
<1>0. Grows
  BY StepAdds
<1>1. CASE UNCHANGED vars
  BY <1>0, <1>1, QuietFenced DEF vars, Quiet
<1>2. ASSUME NEW h \in Hosts, AuthorizeEffect(h)
      PROVE  Fenced'
  BY <1>0, <1>2, RecheckFenced, ProceedFenced DEF AuthorizeEffect
<1>3. ASSUME NEW h \in Hosts, ExecuteEffect(h)
      PROVE  Fenced'
  BY <1>0, <1>3, RecheckFenced, ProceedFenced DEF ExecuteEffect
<1>4. QED
  BY <1>0, <1>1, <1>2, <1>3, QuietHandlers, QuietFenced DEF Next, Handler

\* An effect runs only after it was bound and rechecked at both boundaries.
THEOREM RunningIsFenced == Spec => []DispatchIsFenced
<1>1. Inv /\ Fenced /\ [Next]_vars => (Inv /\ Fenced)'
  BY StepAdds, FencedStep
<1>2. Init => Inv /\ Fenced
  BY InitInv DEF Init, Fenced
<1>3. Fenced => DispatchIsFenced
  BY DEF Fenced, DispatchIsFenced
<1>4. QED
  BY <1>1, <1>2, <1>3, PTL DEF Spec

-----------------------------------------------------------------------------
(* The authority over domains.                                             *)

Ends == {"preemption", "revoked", "preempted"}

\* Only a lease that was granted is ended: its record is in the log before
\* the first document of a revocation or preemption, and while a host is on it.
Rooted ==
    /\ \A r \in evidence : r.kind \in Ends => Item("lease", r.obj) \in evidence
    /\ \A h \in Hosts :
        /\ phase[h] \in {"decided", "preempting"}
        /\ call[h].kind \in {"revoke", "preempt"}
        => Item("lease", call[h].obj) \in evidence

\* An effect is bound before any recheck of it is recorded.
BoundFirst ==
    \A r \in evidence : r.kind \in {"AUTHORIZE", "EXECUTE"} =>
        Of(evidence, {"binding"}, r.obj) # {}

LEMMA RootedEnter ==
    ASSUME Inv, Rooted, NEW h \in Hosts, NEW r, NEW c, NEW p,
           r.kind \in Ends => Item("lease", r.obj) \in evidence,
           p \in {"decided", "preempting"} /\ c.kind \in {"revoke", "preempt"}
               => Item("lease", c.obj) \in evidence,
           evidence' = evidence \/ evidence' = evidence \cup {r},
           Enter(h, c, p)
    PROVE  Rooted'
<1>1. evidence \subseteq evidence'
  OBVIOUS
<1>2. ASSUME NEW s \in evidence', s.kind \in Ends
      PROVE  Item("lease", s.obj) \in evidence'
  BY <1>1, <1>2 DEF Rooted
<1>3. /\ phase'[h] = p /\ call'[h] = c
      /\ \A g \in Hosts : g # h => phase'[g] = phase[g] /\ call'[g] = call[g]
  BY DEF Enter, Inv, TypeOK
<1>4. ASSUME NEW g \in Hosts, phase'[g] \in {"decided", "preempting"},
             call'[g].kind \in {"revoke", "preempt"}
      PROVE  Item("lease", call'[g].obj) \in evidence'
  <2>1. CASE g = h
    BY <1>1, <1>3, <1>4, <2>1
  <2>2. CASE g # h
    BY <1>1, <1>3, <1>4, <2>2 DEF Rooted
  <2> QED BY <2>1, <2>2
<1>5. QED
  BY <1>2, <1>4 DEF Rooted, Item

LEMMA RootedReturn ==
    ASSUME Inv, Rooted, NEW h \in Hosts, evidence' = evidence, Return(h)
    PROVE  Rooted'
<1> DEFINE r == Item("domain", None)
<1>1. r.kind \notin Ends
  BY DEF Item, Ends
<1> HIDE DEF r
<1>2. QED
  BY <1>1, RootedEnter DEF Return

LEMMA RootedRecord ==
    ASSUME Inv, Rooted, NEW h \in Hosts, NEW r, NEW c, NEW p,
           r.kind \in Ends => Item("lease", r.obj) \in evidence,
           p \in {"decided", "preempting"} /\ c.kind \in {"revoke", "preempt"}
               => Item("lease", c.obj) \in evidence,
           RecordThen(h, r, c, p)
    PROVE  Rooted'
<1>1. CASE Enter(h, c, p) /\ (evidence' = evidence \/ evidence' = evidence \cup {r})
  BY <1>1, RootedEnter
<1>2. CASE Return(h) /\ evidence' = evidence
  BY <1>2, RootedReturn
<1>3. QED
  BY <1>1, <1>2 DEF RecordThen, Commit, Reload

LEMMA RootedLastRecord ==
    ASSUME Inv, Rooted, NEW h \in Hosts, NEW r,
           r.kind \in Ends => Item("lease", r.obj) \in evidence,
           Record(h, r)
    PROVE  Rooted'
BY RootedRecord DEF Record

LEMMA RootedDecide ==
    ASSUME Inv, Rooted, NEW h \in Hosts, NEW c \in Calls,
           c.kind \in {"revoke", "preempt"} => Item("lease", c.obj) \in evidence,
           Decide(h, c)
    PROVE  Rooted'
<1>1. c.kind \notin Ends
  BY CallType DEF CallKinds, Ends
<1>2. Enter(h, c, "decided") /\ (evidence' = evidence \/ evidence' = evidence \cup {c})
  BY DEF Decide, Commit, Reload
<1>3. QED
  BY <1>1, <1>2, RootedEnter

LEMMA RootedRaise ==
    ASSUME Inv, Rooted, NEW h \in Hosts, Raise(h)
    PROVE  Rooted'
BY RootedReturn DEF Raise

\* The handlers that end no lease.
LEMMA RootedOthers ==
    ASSUME Inv, Rooted, NEW h \in Hosts,
           \/ RegisterDomain(h) \/ GrantLease(h) \/ IssueCapability(h)
           \/ RevokeCapability(h) \/ UseCapability(h) \/ BindEffect(h)
    PROVE  Rooted'
<1> DEFINE Other(k) == k \in {"register", "grant", "issue", "withdraw", "bind"}
<1>1. ASSUME NEW k, Other(k), NEW c \in Asked(h, k), Decide(h, c)
      PROVE  Rooted'
  <2>1. c \in Calls /\ c.kind \notin {"revoke", "preempt"}
    BY <1>1 DEF Asked
  <2>2. QED
    BY <1>1, <2>1, RootedDecide
<1>2. \A k \in {"domain", "lease", "capability"} : \A o : Item(k, o).kind \notin Ends
  BY DEF Item, Ends
<1>3. CASE RegisterDomain(h)
  <2>1. CASE Record(h, Item("domain", call[h].obj))
    BY <1>2, <2>1, RootedLastRecord
  <2>2. QED
    BY <1>1, <1>3, <2>1, RootedRaise DEF RegisterDomain
<1>4. CASE GrantLease(h)
  <2>1. CASE Record(h, Item("lease", call[h].obj))
    BY <1>2, <2>1, RootedLastRecord
  <2>2. QED
    BY <1>1, <1>4, <2>1, RootedRaise DEF GrantLease
<1>5. CASE IssueCapability(h)
  <2>1. CASE Record(h, Item("capability", call[h].obj))
    BY <1>2, <2>1, RootedLastRecord
  <2>2. QED
    BY <1>1, <1>5, <2>1, RootedRaise DEF IssueCapability
<1>6. CASE RevokeCapability(h)
  <2>1. CASE Decided(h, "withdraw") /\ Record(h, [call[h] EXCEPT !.kind = "withdrawn"])
    <3>1. [call[h] EXCEPT !.kind = "withdrawn"].kind \notin Ends
      BY <2>1, DecidedOK, RenamedOK DEF CallKinds, DocumentKinds, Ends
    <3>2. QED
      BY <2>1, <3>1, RootedLastRecord
  <2>2. QED
    BY <1>1, <1>6, <2>1 DEF RevokeCapability
<1>7. CASE UseCapability(h)
  <2>1. PICK c \in Asked(h, "use") : Record(h, [c EXCEPT !.kind = "used"])
    BY <1>7 DEF UseCapability
  <2>2. [c EXCEPT !.kind = "used"].kind \notin Ends
    BY AskedOK, RenamedOK DEF CallKinds, DocumentKinds, Ends
  <2>3. QED
    BY <2>1, <2>2, RootedLastRecord
<1>8. CASE BindEffect(h)
  <2> DEFINE b == [Item("binding", call[h].obj) EXCEPT !.arg = call[h].arg]
  <2>1. b.kind \notin Ends
    BY DEF Item, Ends
  <2>2. (\E c \in Asked(h, "bind") : Decide(h, c)) \/ Record(h, b) \/ Raise(h)
    BY <1>8 DEF BindEffect
  <2> HIDE DEF b
  <2>3. QED
    BY <1>1, <2>1, <2>2, RootedLastRecord, RootedRaise
<1>9. QED
  BY <1>3, <1>4, <1>5, <1>6, <1>7, <1>8

LEMMA RootedRevoke ==
    ASSUME Inv, Rooted, NEW h \in Hosts, RevokeLease(h)
    PROVE  Rooted'
<1>1. ASSUME NEW c \in Asked(h, "revoke"), Item("lease", c.obj) \in seen[h], Decide(h, c)
      PROVE  Rooted'
  BY <1>1, AskedOK, RootedDecide DEF CallKinds, Inv, Sync
<1>2. CASE Decided(h, "revoke") /\ Record(h, [call[h] EXCEPT !.kind = "revoked"])
  <2> DEFINE r == [call[h] EXCEPT !.kind = "revoked"]
  <2>1. call[h] \in Calls /\ call[h].kind = "revoke"
    BY <1>2, DecidedOK DEF CallKinds
  <2>2. r.obj = call[h].obj
    BY <2>1, RenamedOK DEF DocumentKinds
  <2>3. Item("lease", r.obj) \in evidence
    BY <1>2, <2>1, <2>2 DEF Rooted, Decided
  <2> HIDE DEF r
  <2>4. QED
    BY <1>2, <2>3, RootedLastRecord DEF r
<1>3. QED
  BY <1>1, <1>2, RootedRaise DEF RevokeLease

LEMMA RootedPreempt ==
    ASSUME Inv, Rooted, NEW h \in Hosts, PreemptLease(h) \/ RepairPreemption(h)
    PROVE  Rooted'
<1>1. ASSUME NEW c \in Calls, NEW r \in {PreemptionOf(c), PreemptedBy(c)}
      PROVE  r.obj = c.obj /\ r.kind \in Ends
  BY <1>1, RenamedOK DEF PreemptionOf, PreemptedBy, DocumentKinds, Ends
<1>2. ASSUME NEW c \in Asked(h, "preempt"), InForce(seen[h], c.obj, c.at), Decide(h, c)
      PROVE  Rooted'
  BY <1>2, AskedOK, RootedDecide DEF CallKinds, Inv, Sync, InForce
<1>3. CASE Decided(h, "preempt") /\ RecordThen(h, PreemptionOf(call[h]), call[h], "preempting")
  <2>1. call[h] \in Calls /\ call[h].kind = "preempt"
    BY <1>3, DecidedOK DEF CallKinds
  <2>2. Item("lease", call[h].obj) \in evidence
    BY <1>3, <2>1 DEF Rooted, Decided
  <2>3. PreemptionOf(call[h]).obj = call[h].obj
    BY <1>1, <2>1
  <2>4. QED
    BY <1>3, <2>2, <2>3, RootedRecord
<1>4. CASE phase[h] = "preempting" /\ Record(h, PreemptedBy(call[h]))
  <2>1. call[h] \in Calls /\ call[h].kind = "preempt"
    BY <1>4 DEF Inv, CallOK
  <2>2. Item("lease", call[h].obj) \in evidence
    BY <1>4, <2>1 DEF Rooted
  <2>3. PreemptedBy(call[h]).obj = call[h].obj
    BY <1>1, <2>1
  <2>4. QED
    BY <1>4, <2>2, <2>3, RootedLastRecord
<1>5. ASSUME NEW c \in Asked(h, "preempt"), Unrepaired(seen[h], c), Record(h, PreemptedBy(c))
      PROVE  Rooted'
  <2>1. c \in Calls
    BY AskedOK DEF CallKinds
  <2>2. PreemptionOf(c) \in evidence
    BY <1>5 DEF Unrepaired, Inv, Sync
  <2>3. Item("lease", c.obj) \in evidence /\ PreemptedBy(c).obj = c.obj
    BY <1>1, <2>1, <2>2 DEF Rooted
  <2>4. QED
    BY <1>5, <2>3, RootedLastRecord
<1>6. QED
  BY <1>2, <1>3, <1>4, <1>5 DEF PreemptLease, RepairPreemption

LEMMA RootedEffect ==
    ASSUME Inv, Rooted, NEW h \in Hosts, AuthorizeEffect(h) \/ ExecuteEffect(h)
    PROVE  Rooted'
<1>1. ASSUME NEW k \in {"authorize", "execute"}, NEW b \in {"AUTHORIZE", "EXECUTE"},
             Recheck(h, k, b)
      PROVE  Rooted'
  <2>1. PICK c \in Asked(h, k) : RecordThen(h, [c EXCEPT !.kind = b], c, "rechecked")
    BY <1>1 DEF Recheck
  <2> DEFINE r == [c EXCEPT !.kind = b]
  <2>2. r.kind \notin Ends
    <3>1. c \in Calls
      BY AskedOK DEF CallKinds
    <3>2. r.kind = b
      BY <3>1, RenamedOK DEF DocumentKinds
    <3> QED BY <3>2 DEF Ends
  <2>3. RecordThen(h, r, c, "rechecked")
    BY <2>1
  <2> HIDE DEF r
  <2>4. QED
    BY <2>2, <2>3, RootedRecord
<1>2. ASSUME NEW k, NEW from, NEW to, Proceed(h, k, from, to)
      PROVE  Rooted'
  BY <1>2, RootedReturn DEF Proceed
<1>3. QED
  BY <1>1, <1>2 DEF AuthorizeEffect, ExecuteEffect

LEMMA RootedStep == Inv /\ Rooted /\ [Next]_vars => Rooted'
<1> SUFFICES ASSUME Inv, Rooted, [Next]_vars PROVE Rooted'
  OBVIOUS
<1>1. CASE UNCHANGED vars
  BY <1>1 DEF vars, Rooted
<1>2. ASSUME NEW h \in Hosts, OtherCommit(h)
      PROVE  Rooted'
  BY <1>2 DEF OtherCommit, host, Rooted
<1>3. ASSUME NEW h \in Hosts, Crash(h)
      PROVE  Rooted'
  BY <1>3, RootedReturn DEF Crash, Reload
<1>4. QED
  BY <1>1, <1>2, <1>3, RootedOthers, RootedRevoke, RootedPreempt, RootedEffect
     DEF Next, Handler

LEMMA BoundFirstStep == BoundFirst /\ Grows => BoundFirst'
<1> SUFFICES ASSUME BoundFirst, Grows, NEW r \in evidence',
                    r.kind \in {"AUTHORIZE", "EXECUTE"}
             PROVE  Of(evidence', {"binding"}, r.obj) # {}
  BY DEF BoundFirst, Of
<1>1. Of(evidence, {"binding"}, r.obj) # {}
  BY DEF Grows, Justified, Authorized, BoundFirst
<1>2. QED
  BY <1>1 DEF Grows, Of

\* A record that neither grants m nor ends it leaves its moments.
LEMMA ForceStays ==
    ASSUME NEW E, NEW r, NEW m \in Leases, r # Item("lease", m),
           ~(r.kind \in {"revoked", "preempted"} /\ r.obj = m)
    PROVE  Moments(E \cup {r})[m] = Moments(E)[m]
<1>1. \A t \in Times : InForce(E \cup {r}, m, t) <=> InForce(E, m, t)
  BY DEF InForce, Terminations, Of
<1>2. QED
  BY <1>1 DEF Moments

LEMMA GrantedStays ==
    ASSUME NEW E, NEW r, \A m \in Leases : r # Item("lease", m)
    PROVE  Granted(E \cup {r}) = Granted(E)
BY DEF Granted

\* What was relied on does not change with what is recorded later.
LEMMA RelyingsGrow ==
    ASSUME NEW r, evidence' = evidence \cup {r}, BoundFirst,
           r.kind = "binding" => Of(evidence, {"binding"}, r.obj) = {}
    PROVE  Relyings' = Relyings \cup (Relied(r)' \X {r.at})
<1>1. ASSUME NEW s \in evidence
      PROVE  Exercised(s)' = Exercised(s)
  <2>1. CASE s.kind \in {"AUTHORIZE", "EXECUTE"}
    <3>1. Of(evidence, {"binding"}, s.obj) # {}
      BY <2>1 DEF BoundFirst
    <3>2. ~(r.kind = "binding" /\ r.obj = s.obj)
      BY <3>1
    <3>3. Of(evidence, {"binding"}, s.obj)' = Of(evidence, {"binding"}, s.obj)
      BY <3>2 DEF Of
    <3>4. QED
      BY <3>3 DEF Exercised
  <2>2. CASE s.kind \notin {"AUTHORIZE", "EXECUTE"}
    BY <2>2 DEF Exercised
  <2>3. QED
    BY <2>1, <2>2
<1>2. \A s \in evidence : Relied(s)' = Relied(s)
  BY <1>1 DEF Relied
<1>3. QED
  BY <1>2 DEF Relyings

LEMMA NothingRelied ==
    ASSUME NEW r, evidence' = evidence \cup {r}, BoundFirst,
           r.kind = "binding" => Of(evidence, {"binding"}, r.obj) = {},
           r.kind \notin {"used", "AUTHORIZE", "EXECUTE"}
    PROVE  Relyings' = Relyings
<1>1. Relied(r)' = {}
  BY DEF Relied, Exercised
<1>2. \A x : {} \X {x} = {}
  OBVIOUS
<1>3. Relied(r)' \X {r.at} = {}
  BY <1>1, <1>2
<1>4. Relyings' = Relyings \cup (Relied(r)' \X {r.at})
  BY RelyingsGrow
<1>5. QED
  BY <1>3, <1>4

LEMMA AncestorsAreCaps == \A k \in Caps : Ancestry[k] \subseteq Caps
BY DEF Ancestry

\* A record of another kind shows nothing of the authority.
LEMMA UnseenRecord ==
    ASSUME NEW r, evidence' = evidence \cup {r}, BoundFirst,
           r.kind = "binding" => Of(evidence, {"binding"}, r.obj) = {},
           r.kind \notin {"lease", "revoked", "preempted", "used", "AUTHORIZE", "EXECUTE"}
    PROVE  UNCHANGED Authority!avars
<1>1. \A m \in Leases : r # Item("lease", m)
  BY DEF Item
<1>2. Granted(evidence)' = Granted(evidence)
  BY <1>1, GrantedStays
<1>3. \A m \in Leases : Moments(evidence)'[m] = Moments(evidence)[m]
  BY <1>1, ForceStays
<1>4. Moments(evidence)' = Moments(evidence)
  BY <1>3 DEF Moments
<1>5. Relyings' = Relyings
  BY NothingRelied
<1>6. QED
  BY <1>2, <1>4, <1>5 DEF Authority!avars

LEMMA LeaseGranted ==
    ASSUME Rooted, BoundFirst, NEW l \in Leases, Item("lease", l) \notin evidence,
           Grantable(evidence, l), evidence' = evidence \cup {Item("lease", l)}
    PROVE  Authority!Grant(l)
<1> DEFINE r == Item("lease", l)
<1>1. r.kind = "lease" /\ r.obj = l
  BY DEF Item
<1>2. Terminations(evidence', l) = {}
  <2>1. ASSUME NEW s \in evidence', s.kind \in {"revoked", "preempted"}, s.obj = l
        PROVE  FALSE
    BY <1>1, <2>1 DEF Rooted, Ends
  <2>2. QED
    BY <2>1 DEF Terminations, Of
<1>3. Moments(evidence)'[l] = TermOf[l]
  BY <1>2 DEF Moments, TermOf, InForce
<1>4. ASSUME NEW m \in Leases, m # l
      PROVE  Moments(evidence)'[m] = Moments(evidence)[m]
  <2>1. r # Item("lease", m)
    BY <1>4 DEF Item
  <2>2. QED
    BY <1>1, <2>1, ForceStays
<1>5. Moments(evidence)' = [Moments(evidence) EXCEPT ![l] = TermOf[l]]
  BY <1>3, <1>4 DEF Moments
<1>6. Granted(evidence)' = Granted(evidence) \cup {l} /\ l \notin Granted(evidence)
  BY DEF Granted, Item
<1>7. Relyings' = Relyings
  BY <1>1, NothingRelied
<1>8. {m \in Granted(evidence) : Domain[m] = Domain[l]} = DomainLeases(evidence, Domain[l])
  BY DEF Granted, DomainLeases
<1>9. ASSUME NEW m \in DomainLeases(evidence, Domain[l])
       PROVE  Moments(evidence)[m] \cap TermOf[l] = {}
  <2>1. ASSUME NEW t \in Times, InForce(evidence, m, t), From[l] <= t, t < Until[l]
        PROVE  FALSE
    <3>1. t \in From[l] .. Until[l]
      BY <2>1
    <3>2. Overlaps(evidence, l, m)
      BY <2>1, <3>1 DEF Overlaps
    <3>3. QED
      BY <1>9, <3>2 DEF Grantable
  <2>2. m \in Leases
    BY DEF DomainLeases
  <2>3. QED
    BY <2>1, <2>2 DEF Moments, TermOf
<1>10. NextEpoch(evidence, l)
  BY DEF Grantable
<1>11. Authority!Rivals(l) = DomainLeases(evidence, Domain[l])
  BY <1>8 DEF Authority!Rivals
<1>12. QED
  BY <1>5, <1>6, <1>7, <1>9, <1>10, <1>11 DEF Authority!Grant, NextEpoch

\* A revocation and the second document of a preemption.
LEMMA LeaseCut ==
    ASSUME BoundFirst, NEW r \in Records, evidence' = evidence \cup {r},
           r.kind \in {"revoked", "preempted"}
    PROVE  (\E l \in Leases, t \in Times : Authority!Cut(l, t))
               \/ UNCHANGED Authority!avars
<1>1. \A m \in Leases : r # Item("lease", m)
  BY DEF Item
<1>2. Granted(evidence)' = Granted(evidence)
  BY <1>1, GrantedStays
<1>3. Relyings' = Relyings
  BY NothingRelied
<1>4. \A m \in Leases : m # r.obj => Moments(evidence)'[m] = Moments(evidence)[m]
  BY <1>1, ForceStays
<1>5. CASE r.obj \in Leases
  <2> DEFINE l == r.obj
  <2>1. r.at \in Times
    BY DEF Records
  <2>2. \A t \in Times : InForce(evidence', l, t) <=> InForce(evidence, l, t) /\ t < r.at
    BY <1>1, <1>5 DEF InForce, Terminations, Of
  <2>3. Moments(evidence)'[l] = {u \in Moments(evidence)[l] : u < r.at}
    BY <1>5, <2>2 DEF Moments
  <2>4. Moments(evidence)' = [Moments(evidence) EXCEPT ![l] = {u \in Moments(evidence)[l] : u < r.at}]
    BY <1>4, <2>3 DEF Moments
  <2>5. Authority!Cut(l, r.at)
    BY <1>2, <1>3, <2>4 DEF Authority!Cut
  <2>6. QED
    BY <1>5, <2>1, <2>5
<1>6. CASE r.obj \notin Leases
  <2>1. Moments(evidence)' = Moments(evidence)
    BY <1>4, <1>6 DEF Moments
  <2>2. QED
    BY <1>2, <1>3, <2>1 DEF Authority!avars
<1>7. QED
  BY <1>5, <1>6

\* The exercise of a capability, alone or at a boundary of an effect.
LEMMA LeasesExercised ==
    ASSUME BoundFirst, BoundOK, NEW r, Justified(evidence, r),
           evidence' = evidence \cup {r},
           r.kind \in {"used", "AUTHORIZE", "EXECUTE"}
    PROVE  \E ls \in SUBSET Leases, t \in Times : Authority!Exercise(ls, t)
<1>1. \A m \in Leases : r # Item("lease", m)
  BY DEF Item
<1>2. Granted(evidence)' = Granted(evidence)
  BY <1>1, GrantedStays
<1>3. \A m \in Leases : Moments(evidence)'[m] = Moments(evidence)[m]
  BY <1>1, ForceStays
<1>4. Moments(evidence)' = Moments(evidence)
  BY <1>3 DEF Moments
<1>5. Relyings' = Relyings \cup (Relied(r)' \X {r.at})
  BY RelyingsGrow
<1>6. Exercised(r)' = Exercised(r)
  BY DEF Exercised, Of
<1>7. Relied(r)' = Relied(r)
  BY <1>6 DEF Relied
<1>8. \A k \in Exercised(r) : k \in Caps /\ CapActive(evidence, k, r.at)
  <2>1. CASE r.kind = "used"
    BY <2>1 DEF Justified, Exercised
  <2>2. CASE r.kind \in {"AUTHORIZE", "EXECUTE"}
    <3>1. r.obj \in Effects /\ Authorized(evidence, r)
      BY <2>2 DEF Justified
    <3>2. QED
      BY <2>2, <3>1, AuthorizedActive, BoundCaps DEF Exercised
  <2>3. QED
    BY <2>1, <2>2
<1>9. r.at \in Times
  BY DEF Justified, Records
<1>10. Relied(r) \subseteq Leases
  BY <1>8, AncestorsAreCaps DEF Relied
<1>11. \A l \in Relied(r) : r.at \in Moments(evidence)[l]
  <2>1. ASSUME NEW l \in Relied(r)
        PROVE  InForce(evidence, l, r.at)
    <3>1. PICK k \in Exercised(r) : \E d \in Ancestry[k] : l = LeaseOf[d]
      BY DEF Relied
    <3>2. QED
      BY <1>8, <3>1 DEF CapActive
  <2>2. QED
    BY <1>9, <1>10, <2>1 DEF Moments
<1>12. Authority!Exercise(Relied(r), r.at)
  BY <1>2, <1>4, <1>5, <1>7, <1>11 DEF Authority!Exercise
<1>13. QED
  BY <1>9, <1>10, <1>12

LEMMA AuthorityStep ==
    Rooted /\ BoundFirst /\ BoundOK /\ Grows
        => [Authority!Next]_(Authority!avars)
<1> SUFFICES ASSUME Rooted, BoundFirst, BoundOK, Grows
             PROVE  Authority!Next \/ UNCHANGED Authority!avars
  OBVIOUS
<1>1. CASE evidence' = evidence
  BY <1>1 DEF Authority!avars, Granted, Moments, InForce, Terminations, Of,
              Relyings, Relied, Exercised
<1>2. ASSUME NEW r, evidence' = evidence \cup {r}, Justified(evidence, r)
      PROVE  Authority!Next \/ UNCHANGED Authority!avars
  <2>1. CASE r.kind = "lease"
    <3>1. /\ r.obj \in Leases /\ Item("lease", r.obj) \notin evidence
          /\ Grantable(evidence, r.obj)
          /\ evidence' = evidence \cup {Item("lease", r.obj)}
      BY <1>2, <2>1 DEF Justified
    <3>2. Authority!Grant(r.obj)
      BY <3>1, LeaseGranted
    <3>3. QED
      BY <3>1, <3>2 DEF Authority!Next
  <2>2. CASE r.kind \in {"revoked", "preempted"}
    BY <1>2, <2>2, LeaseCut DEF Authority!Next, Justified
  <2>3. CASE r.kind \in {"used", "AUTHORIZE", "EXECUTE"}
    BY <1>2, <2>3, LeasesExercised DEF Authority!Next
  <2>4. CASE r.kind \notin {"lease", "revoked", "preempted", "used", "AUTHORIZE", "EXECUTE"}
    BY <1>2, <2>4, UnseenRecord DEF Justified
  <2>5. QED
    BY <2>1, <2>2, <2>3, <2>4
<1>3. QED
  BY <1>1, <1>2 DEF Grows

LEMMA AuthorityInit == Init => Authority!Init /\ Rooted /\ BoundFirst /\ BoundOK
BY DEF Init, Authority!Init, Rooted, BoundFirst, BoundOK, Granted, Moments, InForce, Relyings

\* The evidence implements the abstract authority: leases are granted epoch by
\* epoch over moments nobody else has, are only ever cut short, and are
\* relied on only at moments they have.
THEOREM AuthorityImplemented == Spec => ImplementsAuthority
<1> DEFINE AInv == Inv /\ Rooted /\ BoundFirst /\ BoundOK
<1>1. Init => AInv /\ Authority!Init
  BY InitInv, AuthorityInit
<1>2. AInv /\ [Next]_vars => AInv' /\ [Authority!Next]_(Authority!avars)
  BY StepAdds, RootedStep, BoundFirstStep, BoundStep, AuthorityStep
<1> HIDE DEF AInv
<1>3. QED
  BY <1>1, <1>2, PTL DEF Spec, ImplementsAuthority, Authority!Spec

=============================================================================
