----------------------- MODULE GovernedEffectsProofs -----------------------
(***************************************************************************)
(* Proofs about governed effects, for every set of hosts, leases and       *)
(* executions and every retry policy.                                      *)
(***************************************************************************)
EXTENDS GovernedRefinement, TLAPS

-----------------------------------------------------------------------------
(* The inductive invariant, in named parts.                                 *)

\* What the steps towards the external boundary have found in the evidence.
AuthorizedSteps == Executing \cup {"noting dispatch", "accepted", "deciding",
                                   "claiming", "requested"}

Governance ==
    /\ \A h \in Hosts :
          /\ at[h] \in AuthorizedSteps
                => "proposal" \in bound /\ "authorization" \in bound
          /\ at[h] \in {"dispatching", "dispatched"} => "proposal" \in bound
          /\ at[h] \in {"owned", "started", "calling"} => held[h].exec \in owned
    /\ CallsAreGoverned

\* Every executing host has an execution of its own.
Attempts ==
    /\ \A h \in Hosts :
          /\ at[h] \in Executing => /\ held[h].exec \in Execs
                                    /\ calls[held[h].exec] # "unused"
          /\ at[h] \in {"claimed", "owned", "started"}
                => calls[held[h].exec] = "claimed"
          /\ at[h] \in Forgetting => held[h] = Absent
          /\ at[h] \in {"admitted", "dispatching", "requested"} => arg[h] \in Leases
          /\ at[h] \in {"reconciling", "reloaded", "reconciled", "concluding"}
                => arg[h] \in {"SUCCEEDED", "FAILED"}
          /\ at[h] = "authorizing" => held[h].status \in {"PROPOSED", "FAILED"}
          /\ at[h] = "recovering" => held[h].status = "RUNNING"
          /\ at[h] \in {"reconciling", "reloaded"} => held[h].status = "UNKNOWN"
    /\ \A g, h \in Hosts :
          at[g] \in Executing /\ at[h] \in Executing /\ g # h
              => held[g].exec # held[h].exec

\* A record names executions that were claimed, the last one among its owners.
Known(r) ==
    /\ r.exec = None => r.owners = {}
    /\ r.exec \in Execs => calls[r.exec] # "unused" /\ r.exec \in r.owners

\* As long as nothing raced the record is the one its executor holds, and what
\* the handlers have loaded agrees with it where it names the same execution.
Tracked ==
    /\ Known(record)
    /\ Invoked \subseteq record.owners
    /\ \A h \in Hosts :
          /\ Known(held[h])
          /\ held[h].exec = record.exec => held[h].owners = record.owners
          /\ at[h] \in Executing => /\ record.status = "RUNNING"
                                    /\ record.exec = held[h].exec
          /\ at[h] \in {"settling", "settled"}
                => held[h].status \in {"SUCCEEDED", "FAILED"}
          /\ at[h] \in {"reconciled", "concluding"}
                => held[h].status = arg[h]
    /\ \A g, h \in Hosts :
          at[g] \in {"recovering", "reconciling", "reloaded"}
          /\ at[h] \in Executing
              => held[g].exec # held[h].exec

\* The status s of an attempt x is the truth about its call.
Truth(s, x) ==
    /\ s = "SUCCEEDED" => x \in Execs /\ calls[x] = "ok"
    /\ s = "FAILED" => x \in Execs /\ calls[x] \in {"claimed", "error"}

\* Without blind retries the record also tells which call may be under way.
Resolved ==
    /\ \A x \in Execs : calls[x] = "inflight"
          => record.exec = x /\ record.status \in {"RUNNING", "UNKNOWN"}
    /\ Truth(record.status, record.exec)
    /\ \A h \in Hosts :
          at[h] \in {"reconciling", "reloaded"}
              => Truth(arg[h], held[h].exec)

IInv ==
    /\ TypeOK
    /\ Governance
    /\ Attempts
    /\ ~raced => Tracked
    /\ ~raced /\ ~RetryOnUnknown => Resolved

-----------------------------------------------------------------------------
(* Type correctness.                                                        *)

Args == Leases \cup {"SUCCEEDED", "FAILED", None}

\* The updates of a record that the handlers make keep it one.
LEMMA RecordFacts ==
    /\ Absent \in Records
    /\ Fresh \in Records
    /\ \A r \in Records :
          /\ \A s \in Statuses : [r EXCEPT !.status = s] \in Records
          /\ [r EXCEPT !.intent = TRUE] \in Records
          /\ \A l \in Leases : [r EXCEPT !.dispatch = l] \in Records
          /\ \A v \in Verdicts : Judged(r, v) \in Records
<1>1. Absent \in Records /\ Fresh \in Records
    BY DEF Absent, Fresh, Records, Statuses, Verdicts
<1>2. ASSUME NEW r \in Records
      PROVE  /\ \A s \in Statuses : [r EXCEPT !.status = s] \in Records
             /\ [r EXCEPT !.intent = TRUE] \in Records
             /\ \A l \in Leases : [r EXCEPT !.dispatch = l] \in Records
    BY DEF Records
<1>3. ASSUME NEW r \in Records, NEW v \in Verdicts
      PROVE  Judged(r, v) \in Records
    <2> DEFINE rows == IF r.exec = None THEN r.verdicts
                       ELSE r.verdicts \cup {<<r.exec, v>>}
    <2>1. rows \in SUBSET (Execs \X Verdicts)
        BY DEF Records
    <2>2. Judged(r, v) = [r EXCEPT !.outcome = v, !.verdicts = rows]
        BY DEF Judged
    <2> HIDE DEF rows
    <2> QED
        BY <2>1, <2>2 DEF Records
<1> QED
    BY <1>1, <1>2, <1>3

\* The fields of a record.
LEMMA FieldFacts ==
    ASSUME NEW r \in Records
    PROVE  /\ r.status \in Statuses
           /\ r.attempts \in Nat
           /\ r.exec \in Execs \cup {None}
           /\ r.dispatch \in Leases \cup {None}
           /\ r.owners \in SUBSET Execs
BY DEF Records

\* Moving a host to a step keeps its variables well typed.
LEMMA EnterTyping ==
    ASSUME TypeOK, NEW h \in Hosts, NEW s \in Steps, NEW r \in Records,
           NEW a \in Args, Enter(h, s, r, a)
    PROVE  /\ at' \in [Hosts -> Steps]
           /\ held' \in [Hosts -> Records]
           /\ arg' \in [Hosts -> Args]
BY RecordFacts DEF TypeOK, Enter, Args

\* So does saving a record on the way.
LEMMA WriteTyping ==
    ASSUME TypeOK, NEW h \in Hosts, NEW s \in Steps, NEW r \in Records,
           NEW a \in Args, Write(h, r, s, a)
    PROVE  /\ record' \in Records
           /\ at' \in [Hosts -> Steps]
           /\ held' \in [Hosts -> Records]
           /\ arg' \in [Hosts -> Args]
           /\ raced' \in BOOLEAN
<1>1. Enter(h, s, r, a) /\ record' = r /\ raced' \in BOOLEAN
    BY DEF Write, Moved, TypeOK
<1> QED
    BY <1>1, EnterTyping

\* Every step keeps the state well typed.
LEMMA TypeStep == TypeOK /\ Attempts /\ [Next]_vars => TypeOK'
<1> SUFFICES ASSUME TypeOK, Attempts, [Next]_vars PROVE TypeOK'
    OBVIOUS
<1> USE DEF Evidence
<1>0. /\ record \in Records
      /\ None \in Args /\ Leases \subseteq Args
      /\ \A h \in Hosts : held[h] \in Records /\ arg[h] \in Args
      /\ \A h \in Hosts : AfterNote(h) \in Steps
      /\ \A x : Outcome(x) \in Args /\ Outcome(x) \in Statuses
      /\ \A s : VerdictOn(s) \in Verdicts
      /\ "UNKNOWN" \in Verdicts
    BY DEF TypeOK, Args, AfterNote, Outcome, Statuses, VerdictOn, Verdicts,
       Steps
<1>1. CASE UNCHANGED vars
    BY <1>1 DEF vars, TypeOK
<1>2. ASSUME NEW h \in Hosts, Propose(h) \/ Note(h) PROVE TypeOK'
    <2>1. {"idle", "proposing", "intending", "proposed", "intended", "noting",
           "noting dispatch"} \subseteq Steps
        BY DEF Steps
    <2>2. CASE FindByKey(h)
        BY <1>0, <2>1, <2>2, EnterTyping DEF FindByKey, Load, TypeOK, Args
    <2>3. CASE SaveProposal(h)
        BY <1>0, <2>1, <2>3, EnterTyping, WriteTyping, RecordFacts
        DEF SaveProposal, Load, TypeOK, Args
    <2>4. CASE BindProposal(h)
        BY <1>0, <2>1, <2>4, EnterTyping DEF BindProposal, Go, TypeOK, Args
    <2>5. CASE SaveIntent(h)
        BY <1>0, <2>1, <2>5, EnterTyping, WriteTyping, RecordFacts
        DEF SaveIntent, Go, TypeOK, Args
    <2>6. CASE LoadToNote(h)
        BY <1>0, <2>1, <2>6, EnterTyping DEF LoadToNote, Load, TypeOK, Args
    <2>7. CASE SaveNote(h)
        BY <1>0, <2>1, <2>7, EnterTyping, WriteTyping
        DEF SaveNote, Go, TypeOK, Args
    <2> QED
        BY <1>2, <2>2, <2>3, <2>4, <2>5, <2>6, <2>7 DEF Propose, Note
<1>3. ASSUME NEW h \in Hosts, Authorize(h) PROVE TypeOK'
    <2>1. /\ {"idle", "authorizing", "binding", "endorsing"} \subseteq Steps
          /\ "AUTHORIZED" \in Statuses
        BY DEF Steps, Statuses
    <2>2. CASE LoadToAuthorize(h)
        BY <1>0, <2>1, <2>2, EnterTyping DEF LoadToAuthorize, Load, TypeOK, Args
    <2>3. CASE SaveAuthorized(h)
        BY <1>0, <2>1, <2>3, WriteTyping, RecordFacts
        DEF SaveAuthorized, TypeOK, Args
    <2>4. CASE BindAuthorization(h)
        BY <1>0, <2>1, <2>4, EnterTyping
        DEF BindAuthorization, Go, TypeOK, Args
    <2>5. CASE SaveEndorsed(h)
        BY <1>0, <2>1, <2>5, EnterTyping, WriteTyping, RecordFacts
        DEF SaveEndorsed, Leave, TypeOK, Args
    <2> QED
        BY <1>3, <2>2, <2>3, <2>4, <2>5 DEF Authorize
<1>4. ASSUME NEW h \in Hosts, Dispatch(h) PROVE TypeOK'
    <2>1. {"settling", "admitted", "dispatching", "dispatched", "deciding",
           "claiming"} \subseteq Steps
        BY DEF Steps
    <2>2. ASSUME NEW l \in Leases, StartExecute(h, l) PROVE TypeOK'
        BY <1>0, <2>1, <2>2, EnterTyping DEF StartExecute, Load, TypeOK, Args
    <2>3. CASE LoadToDispatch(h)
        BY <1>0, <2>1, <2>3, EnterTyping DEF LoadToDispatch, Load, TypeOK, Args
    <2>4. CASE SaveDispatch(h)
        BY <1>0, <2>1, <2>4, EnterTyping, WriteTyping, RecordFacts
        DEF SaveDispatch, Go, TypeOK, Args, Attempts
    <2>5. CASE LoadToDecide(h)
        BY <1>0, <2>1, <2>5, EnterTyping DEF LoadToDecide, Load, TypeOK, Args
    <2>6. CASE SaveDecided(h)
        BY <1>0, <2>1, <2>6, EnterTyping, WriteTyping
        DEF SaveDecided, Go, TypeOK, Args
    <2> QED
        BY <1>4, <2>2, <2>3, <2>4, <2>5, <2>6 DEF Dispatch
<1>5. ASSUME NEW h \in Hosts, Execute(h) PROVE TypeOK'
    <2>1. {"requested", "claimed", "owned", "started", "calling", "settling"}
              \subseteq Steps
        BY DEF Steps, Executing
    <2>2. CASE RequestOwnership(h)
        <3>1. record.dispatch \in Args
            BY <1>0, FieldFacts DEF Args
        <3> QED
            BY <1>0, <2>1, <2>2, <3>1, EnterTyping
            DEF RequestOwnership, Load, TypeOK, Args
    <2>3. ASSUME NEW x \in Execs, ClaimAttempt(h, x) PROVE TypeOK'
        <3>1. CASE record.status = "SUCCEEDED" /\ record' = record
                   /\ calls' = calls
            BY <1>0, <2>1, <2>3, <3>1, EnterTyping
            DEF ClaimAttempt, TypeOK, Args, Claimable
        <3>2. CASE /\ Claimable
                   /\ record' = Claimed(x, arg[h])
                   /\ Enter(h, "claimed", record', None)
                   /\ calls' = [calls EXCEPT ![x] = "claimed"]
            <4>1. arg[h] \in Leases
                BY <2>3 DEF ClaimAttempt, Attempts
            <4>2. record' \in Records
                <5> DEFINE n == record.attempts + 1
                           own == record.owners \cup {x}
                <5>1. n \in Nat /\ own \in SUBSET Execs
                    BY <1>0, FieldFacts
                <5>2. record' = [record EXCEPT !.status = "RUNNING",
                        !.attempts = n, !.exec = x, !.under = arg[h],
                        !.owners = own, !.outcome = None]
                    BY <3>2 DEF Claimed
                <5> HIDE DEF n, own
                <5> QED
                    BY <1>0, <4>1, <5>1, <5>2 DEF Records, Statuses
            <4>3. calls' \in [Execs -> CallStates]
                BY <3>2 DEF TypeOK, CallStates
            <4> QED
                BY <1>0, <2>1, <2>3, <3>2, <4>2, <4>3, EnterTyping
                DEF ClaimAttempt, TypeOK, Args
        <3> QED
            BY <2>3, <3>1, <3>2 DEF ClaimAttempt
    <2>4. CASE RecordOwnership(h)
        <3>1. held[h].exec \in Execs
            BY <2>4 DEF RecordOwnership, Attempts, Executing
        <3> QED
            BY <1>0, <2>1, <2>4, <3>1, EnterTyping
            DEF RecordOwnership, Go, TypeOK, Args
    <2>5. CASE SaveOwned(h)
        BY <1>0, <2>1, <2>5, WriteTyping DEF SaveOwned, TypeOK, Args
    <2>6. CASE Invoke(h)
        <3>1. calls' \in [Execs -> CallStates]
            BY <2>6 DEF Invoke, TypeOK, CallStates
        <3> QED
            BY <1>0, <2>1, <2>6, <3>1, EnterTyping DEF Invoke, Go, TypeOK, Args
    <2>7. CASE FinishAttempt(h)
        <3>1. record' \in Records
            BY <1>0, <2>7, RecordFacts DEF FinishAttempt
        <3> QED
            BY <1>0, <2>1, <2>7, <3>1, EnterTyping
            DEF FinishAttempt, TypeOK, Args
    <2> QED
        BY <1>5, <2>2, <2>3, <2>4, <2>5, <2>6, <2>7 DEF Execute
<1>6. ASSUME NEW h \in Hosts, Settle(h) \/ Recover(h) \/ Abandon(h) PROVE TypeOK'
    <2>1. /\ {"idle", "settled", "concluded", "recovering"} \subseteq Steps
          /\ "UNKNOWN" \in Statuses
        BY DEF Steps, Statuses
    <2>2. CASE LoadToSettle(h)
        <3>1. raced' \in BOOLEAN
            BY <2>2 DEF LoadToSettle, Moved, TypeOK
        <3> QED
            BY <1>0, <2>1, <2>2, <3>1, EnterTyping, RecordFacts
            DEF LoadToSettle, Load, Leave, TypeOK, Args
    <2>3. CASE SaveSettled(h)
        BY <1>0, <2>1, <2>3, WriteTyping, RecordFacts
        DEF SaveSettled, TypeOK, Args
    <2>4. CASE ListRunning(h)
        BY <1>0, <2>1, <2>4, EnterTyping DEF ListRunning, Load, TypeOK, Args
    <2>5. CASE SaveUnknown(h)
        BY <1>0, <2>1, <2>5, WriteTyping, RecordFacts
        DEF SaveUnknown, TypeOK, Args
    <2>6. CASE Abandon(h)
        BY <1>0, <2>1, <2>6, EnterTyping, RecordFacts
        DEF Abandon, Leave, TypeOK, Args
    <2> QED
        BY <1>6, <2>2, <2>3, <2>4, <2>5, <2>6 DEF Settle, Recover
<1>7. ASSUME NEW h \in Hosts, Reconcile(h) PROVE TypeOK'
    <2>1. {"reconciling", "reloaded", "reconciled", "concluding", "concluded"}
              \subseteq Steps
        BY DEF Steps
    <2>2. CASE StartReconcile(h)
        BY <1>0, <2>1, <2>2, EnterTyping DEF StartReconcile, Load, TypeOK, Args
    <2>3. CASE LoadToReconcile(h)
        <3>1. raced' \in BOOLEAN
            BY <2>3 DEF LoadToReconcile, Moved, TypeOK
        <3> QED
            BY <1>0, <2>1, <2>3, <3>1, EnterTyping
            DEF LoadToReconcile, Load, TypeOK, Args
    <2>4. CASE SaveReconciled(h)
        <3>1. arg[h] \in Statuses
            BY <2>4 DEF SaveReconciled, Attempts, Statuses
        <3> QED
            BY <1>0, <2>1, <2>4, <3>1, WriteTyping, RecordFacts
            DEF SaveReconciled, TypeOK, Args
    <2>5. CASE LoadToConclude(h)
        <3>1. raced' \in BOOLEAN
            BY <2>5 DEF LoadToConclude, Moved, TypeOK
        <3> QED
            BY <1>0, <2>1, <2>5, <3>1, EnterTyping
            DEF LoadToConclude, Load, TypeOK, Args
    <2>6. CASE SaveConcluded(h)
        BY <1>0, <2>1, <2>6, WriteTyping, RecordFacts
        DEF SaveConcluded, TypeOK, Args
    <2> QED
        BY <1>7, <2>2, <2>3, <2>4, <2>5, <2>6 DEF Reconcile
<1>8. ASSUME NEW x \in Execs, CallReturns(x) PROVE TypeOK'
    BY <1>8 DEF CallReturns, TypeOK, CallStates
<1> QED
    BY <1>1, <1>2, <1>3, <1>4, <1>5, <1>6, <1>7, <1>8 DEF Next

\* The initial state is well typed.
LEMMA TypeInit == Init => TypeOK
BY RecordFacts
DEF Init, TypeOK, CallStates, Steps, Executing

-----------------------------------------------------------------------------
(* Governance: what the steps have found in the evidence stays there.       *)

\* The entries of a host that moves to a step, and of the others.
LEMMA EnterFacts ==
    ASSUME TypeOK, NEW h \in Hosts, NEW s, NEW r, NEW a, Enter(h, s, r, a)
    PROVE  /\ at'[h] = s /\ arg'[h] = a
           /\ s \in Forgetting => held'[h] = Absent
           /\ s \notin Forgetting => held'[h] = r
           /\ \A g \in Hosts : g # h => /\ at'[g] = at[g]
                                        /\ held'[g] = held[g]
                                        /\ arg'[g] = arg[g]
BY DEF TypeOK, Enter

\* A host may move to any step whose evidence is there.
LEMMA GovernanceFrame ==
    ASSUME TypeOK, Governance, NEW h \in Hosts, NEW s, NEW r, NEW a,
           Enter(h, s, r, a),
           bound \subseteq bound', owned \subseteq owned',
           s \in AuthorizedSteps
               => "proposal" \in bound' /\ "authorization" \in bound',
           s \in {"dispatching", "dispatched"} => "proposal" \in bound',
           s \in {"owned", "started", "calling"} => r.exec \in owned',
           \A x \in Invoked' :
               \/ x \in Invoked
               \/ /\ x \in owned'
                  /\ "proposal" \in bound' /\ "authorization" \in bound'
    PROVE  Governance'
<1>1. \A g \in Hosts :
          /\ at'[g] \in AuthorizedSteps
                => "proposal" \in bound' /\ "authorization" \in bound'
          /\ at'[g] \in {"dispatching", "dispatched"} => "proposal" \in bound'
          /\ at'[g] \in {"owned", "started", "calling"}
                => held'[g].exec \in owned'
    BY EnterFacts DEF Governance, Forgetting
<1>2. CallsAreGoverned'
    BY DEF Governance, CallsAreGoverned
<1> QED
    BY <1>1, <1>2 DEF Governance

\* Every step keeps what is known about the evidence.
LEMMA GovernanceStep ==
    TypeOK /\ Attempts /\ Governance /\ [Next]_vars => Governance'
<1> SUFFICES ASSUME TypeOK, Attempts, Governance, [Next]_vars PROVE Governance'
    OBVIOUS
<1> USE DEF Evidence
<1>0. Invoked' = Invoked \/ calls' # calls
    BY DEF Invoked
<1>1. CASE UNCHANGED vars
    BY <1>1 DEF vars, Governance, CallsAreGoverned, Invoked
<1>2. ASSUME NEW h \in Hosts, Propose(h) \/ Note(h) PROVE Governance'
    <2> USE DEF AuthorizedSteps, Executing
    <2>1. CASE FindByKey(h)
        BY <1>0, <2>1, GovernanceFrame DEF FindByKey, Load
    <2>2. CASE SaveProposal(h)
        BY <1>0, <2>2, GovernanceFrame DEF SaveProposal, Load, Write
    <2>3. CASE BindProposal(h)
        BY <1>0, <2>3, GovernanceFrame DEF BindProposal, Go
    <2>4. CASE SaveIntent(h)
        BY <1>0, <2>4, GovernanceFrame DEF SaveIntent, Go, Write
    <2>5. CASE LoadToNote(h)
        <3>1. at[h] = "dispatched" => "proposal" \in bound
            BY DEF Governance
        <3> QED
            BY <1>0, <2>5, <3>1, GovernanceFrame
            DEF LoadToNote, Load, HasAuthorization
    <2>6. CASE SaveNote(h)
        <3>1. AfterNote(h) \in {"idle", "accepted"}
            BY DEF AfterNote
        <3>2. AfterNote(h) = "accepted"
                  => "proposal" \in bound /\ "authorization" \in bound
            BY <2>6 DEF SaveNote, AfterNote, Governance
        <3> QED
            BY <1>0, <2>6, <3>1, <3>2, GovernanceFrame DEF SaveNote, Go, Write
    <2> QED
        BY <1>2, <2>1, <2>2, <2>3, <2>4, <2>5, <2>6 DEF Propose, Note
<1>3. ASSUME NEW h \in Hosts, Authorize(h) PROVE Governance'
    <2> USE DEF AuthorizedSteps, Executing
    <2>1. CASE LoadToAuthorize(h)
        BY <1>0, <2>1, GovernanceFrame DEF LoadToAuthorize, Load
    <2>2. CASE SaveAuthorized(h)
        BY <1>0, <2>2, GovernanceFrame DEF SaveAuthorized, Write
    <2>3. CASE BindAuthorization(h)
        BY <1>0, <2>3, GovernanceFrame DEF BindAuthorization, Go
    <2>4. CASE SaveEndorsed(h)
        BY <1>0, <2>4, GovernanceFrame DEF SaveEndorsed, Leave, Write
    <2> QED
        BY <1>3, <2>1, <2>2, <2>3, <2>4 DEF Authorize
<1>4. ASSUME NEW h \in Hosts, Dispatch(h) PROVE Governance'
    <2> USE DEF AuthorizedSteps, Executing
    <2>1. ASSUME NEW l \in Leases, StartExecute(h, l) PROVE Governance'
        BY <1>0, <2>1, GovernanceFrame DEF StartExecute, Load
    <2>2. CASE LoadToDispatch(h)
        BY <1>0, <2>2, GovernanceFrame DEF LoadToDispatch, Load, Governed
    <2>3. CASE SaveDispatch(h)
        <3>1. "proposal" \in bound
            BY <2>3 DEF SaveDispatch, Governance
        <3> QED
            BY <1>0, <2>3, <3>1, GovernanceFrame DEF SaveDispatch, Go, Write
    <2>4. CASE LoadToDecide(h)
        BY <1>0, <2>4, GovernanceFrame DEF LoadToDecide, Load, HasAuthorization
    <2>5. CASE SaveDecided(h)
        <3>1. "proposal" \in bound /\ "authorization" \in bound
            BY <2>5 DEF SaveDecided, Governance
        <3> QED
            BY <1>0, <2>5, <3>1, GovernanceFrame DEF SaveDecided, Go, Write
    <2> QED
        BY <1>4, <2>1, <2>2, <2>3, <2>4, <2>5 DEF Dispatch
<1>5. ASSUME NEW h \in Hosts, Execute(h) PROVE Governance'
    <2> USE DEF AuthorizedSteps, Executing
    <2>0. at[h] \in AuthorizedSteps
              => "proposal" \in bound /\ "authorization" \in bound
        BY DEF Governance
    <2>1. CASE RequestOwnership(h)
        BY <1>0, <2>0, <2>1, GovernanceFrame DEF RequestOwnership, Load
    <2>2. ASSUME NEW x \in Execs, ClaimAttempt(h, x) PROVE Governance'
        <3>1. Invoked' \subseteq Invoked
            BY <2>2 DEF ClaimAttempt, Invoked, TypeOK
        <3>2. CASE Enter(h, "claimed", record', None)
            BY <2>0, <2>2, <3>1, <3>2, GovernanceFrame DEF ClaimAttempt
        <3>3. CASE Enter(h, "settling", record, None)
            BY <2>2, <3>1, <3>3, GovernanceFrame DEF ClaimAttempt
        <3> QED
            BY <2>2, <3>2, <3>3 DEF ClaimAttempt
    <2>3. CASE RecordOwnership(h)
        BY <1>0, <2>0, <2>3, GovernanceFrame DEF RecordOwnership, Go
    <2>4. CASE SaveOwned(h)
        <3>1. held[h].exec \in owned
            BY <2>4 DEF SaveOwned, Governance
        <3> QED
            BY <1>0, <2>0, <2>4, <3>1, GovernanceFrame DEF SaveOwned, Write
    <2>5. CASE Invoke(h)
        <3>1. held[h].exec \in owned
            BY <2>5 DEF Invoke, Governance
        <3>2. Invoked' \subseteq Invoked \cup {held[h].exec}
            BY <2>5 DEF Invoke, Invoked, TypeOK
        <3> QED
            BY <2>0, <2>5, <3>1, <3>2, GovernanceFrame DEF Invoke, Go
    <2>6. CASE FinishAttempt(h)
        BY <1>0, <2>6, GovernanceFrame DEF FinishAttempt
    <2> QED
        BY <1>5, <2>1, <2>2, <2>3, <2>4, <2>5, <2>6 DEF Execute
<1>6. ASSUME NEW h \in Hosts, Settle(h) \/ Recover(h) \/ Abandon(h)
      PROVE  Governance'
    <2> USE DEF AuthorizedSteps, Executing
    <2>1. CASE LoadToSettle(h)
        BY <1>0, <2>1, GovernanceFrame DEF LoadToSettle, Load, Leave
    <2>2. CASE SaveSettled(h)
        BY <1>0, <2>2, GovernanceFrame DEF SaveSettled, Write
    <2>3. CASE ListRunning(h)
        BY <1>0, <2>3, GovernanceFrame DEF ListRunning, Load
    <2>4. CASE SaveUnknown(h)
        BY <1>0, <2>4, GovernanceFrame DEF SaveUnknown, Write
    <2>5. CASE Abandon(h)
        BY <1>0, <2>5, GovernanceFrame DEF Abandon, Leave
    <2> QED
        BY <1>6, <2>1, <2>2, <2>3, <2>4, <2>5 DEF Settle, Recover
<1>7. ASSUME NEW h \in Hosts, Reconcile(h) PROVE Governance'
    <2> USE DEF AuthorizedSteps, Executing
    <2>1. CASE StartReconcile(h)
        BY <1>0, <2>1, GovernanceFrame DEF StartReconcile, Load
    <2>2. CASE LoadToReconcile(h)
        BY <1>0, <2>2, GovernanceFrame DEF LoadToReconcile, Load
    <2>3. CASE SaveReconciled(h)
        BY <1>0, <2>3, GovernanceFrame DEF SaveReconciled, Write
    <2>4. CASE LoadToConclude(h)
        BY <1>0, <2>4, GovernanceFrame DEF LoadToConclude, Load
    <2>5. CASE SaveConcluded(h)
        BY <1>0, <2>5, GovernanceFrame DEF SaveConcluded, Write
    <2> QED
        BY <1>7, <2>1, <2>2, <2>3, <2>4, <2>5 DEF Reconcile
<1>8. ASSUME NEW x \in Execs, CallReturns(x) PROVE Governance'
    <2>1. Invoked' = Invoked
        BY <1>8 DEF CallReturns, Invoked, TypeOK
    <2> QED
        BY <1>8, <2>1 DEF CallReturns, Governance, CallsAreGoverned
<1> QED
    BY <1>1, <1>2, <1>3, <1>4, <1>5, <1>6, <1>7, <1>8 DEF Next

-----------------------------------------------------------------------------
(* Attempts: every executing host has an execution of its own.              *)

\* A host may move to any step outside the external boundary, or stay inside
\* with its execution, while no call changes.
LEMMA AttemptsFrame ==
    ASSUME TypeOK, Attempts, NEW h \in Hosts, NEW s, NEW r, NEW a,
           Enter(h, s, r, a),
           calls' = calls,
           s \in Executing => at[h] \in Executing /\ r.exec = held[h].exec,
           s \in {"claimed", "owned", "started"}
               => at[h] \in {"claimed", "owned", "started"},
           s \in {"admitted", "dispatching", "requested"} => a \in Leases,
           s \in {"reconciling", "reloaded", "reconciled", "concluding"}
               => a \in {"SUCCEEDED", "FAILED"},
           s = "authorizing" => r.status \in {"PROPOSED", "FAILED"},
           s = "recovering" => r.status = "RUNNING",
           s \in {"reconciling", "reloaded"} => r.status = "UNKNOWN"
    PROVE  Attempts'
<1>1. /\ at'[h] = s /\ arg'[h] = a
      /\ s \in Forgetting => held'[h] = Absent
      /\ s \notin Forgetting => held'[h] = r
      /\ \A g \in Hosts : g # h => /\ at'[g] = at[g]
                                   /\ held'[g] = held[g]
                                   /\ arg'[g] = arg[g]
    BY EnterFacts
<1>2. \A g \in Hosts : at'[g] \in Executing
          => at[g] \in Executing /\ held'[g].exec = held[g].exec
    BY <1>1 DEF Executing, Forgetting
<1>3. ASSUME NEW g \in Hosts
      PROVE  /\ at'[g] \in Executing => /\ held'[g].exec \in Execs
                                        /\ calls'[held'[g].exec] # "unused"
             /\ at'[g] \in {"claimed", "owned", "started"}
                   => calls'[held'[g].exec] = "claimed"
    <2>1. at'[g] \in {"claimed", "owned", "started"}
              => at[g] \in {"claimed", "owned", "started"}
        BY <1>1
    <2> QED
        BY <1>2, <2>1 DEF Attempts, Executing
<1>4. ASSUME NEW g \in Hosts
      PROVE  /\ at'[g] \in Forgetting => held'[g] = Absent
             /\ at'[g] \in {"admitted", "dispatching", "requested"}
                   => arg'[g] \in Leases
             /\ at'[g] \in {"reconciling", "reloaded", "reconciled",
                            "concluding"}
                   => arg'[g] \in {"SUCCEEDED", "FAILED"}
             /\ at'[g] = "authorizing"
                   => held'[g].status \in {"PROPOSED", "FAILED"}
             /\ at'[g] = "recovering" => held'[g].status = "RUNNING"
             /\ at'[g] \in {"reconciling", "reloaded"}
                   => held'[g].status = "UNKNOWN"
    <2>1. CASE g = h
        BY <1>1, <2>1 DEF Forgetting
    <2>2. CASE g # h
        BY <1>1, <2>2 DEF Attempts
    <2> QED
        BY <2>1, <2>2
<1> QED
    BY <1>2, <1>3, <1>4 DEF Attempts, Forgetting

\* Every step keeps the executions of the hosts apart.
LEMMA AttemptsStep == TypeOK /\ Attempts /\ [Next]_vars => Attempts'
<1> SUFFICES ASSUME TypeOK, Attempts, [Next]_vars PROVE Attempts'
    OBVIOUS
<1> USE DEF Evidence
<1>0. /\ record \in Records
      /\ \A h \in Hosts : held[h] \in Records
      /\ \A x : Outcome(x) \in {"SUCCEEDED", "FAILED"}
    BY DEF TypeOK, Outcome
<1>1. CASE UNCHANGED vars
    BY <1>1 DEF vars, Attempts
<1>2. ASSUME NEW h \in Hosts, Propose(h) \/ Note(h) PROVE Attempts'
    <2> USE DEF Executing
    <2>1. CASE FindByKey(h)
        BY <2>1, AttemptsFrame DEF FindByKey, Load
    <2>2. CASE SaveProposal(h)
        BY <2>2, AttemptsFrame DEF SaveProposal, Load, Write
    <2>3. CASE BindProposal(h)
        BY <2>3, AttemptsFrame DEF BindProposal, Go
    <2>4. CASE SaveIntent(h)
        BY <2>4, AttemptsFrame DEF SaveIntent, Go, Write
    <2>5. CASE LoadToNote(h)
        BY <2>5, AttemptsFrame DEF LoadToNote, Load
    <2>6. CASE SaveNote(h)
        BY <2>6, AttemptsFrame DEF SaveNote, Go, Write, AfterNote
    <2> QED
        BY <1>2, <2>1, <2>2, <2>3, <2>4, <2>5, <2>6 DEF Propose, Note
<1>3. ASSUME NEW h \in Hosts, Authorize(h) PROVE Attempts'
    <2> USE DEF Executing
    <2>1. CASE LoadToAuthorize(h)
        BY <2>1, AttemptsFrame DEF LoadToAuthorize, Load
    <2>2. CASE SaveAuthorized(h)
        BY <2>2, AttemptsFrame DEF SaveAuthorized, Write
    <2>3. CASE BindAuthorization(h)
        BY <2>3, AttemptsFrame DEF BindAuthorization, Go
    <2>4. CASE SaveEndorsed(h)
        BY <2>4, AttemptsFrame DEF SaveEndorsed, Leave, Write
    <2> QED
        BY <1>3, <2>1, <2>2, <2>3, <2>4 DEF Authorize
<1>4. ASSUME NEW h \in Hosts, Dispatch(h) PROVE Attempts'
    <2> USE DEF Executing
    <2>1. ASSUME NEW l \in Leases, StartExecute(h, l) PROVE Attempts'
        BY <2>1, AttemptsFrame DEF StartExecute, Load
    <2>2. CASE LoadToDispatch(h)
        <3>1. arg[h] \in Leases
            BY <2>2 DEF LoadToDispatch, Attempts
        <3> QED
            BY <2>2, <3>1, AttemptsFrame DEF LoadToDispatch, Load
    <2>3. CASE SaveDispatch(h)
        BY <2>3, AttemptsFrame DEF SaveDispatch, Go, Write
    <2>4. CASE LoadToDecide(h)
        BY <2>4, AttemptsFrame DEF LoadToDecide, Load
    <2>5. CASE SaveDecided(h)
        BY <2>5, AttemptsFrame DEF SaveDecided, Go, Write
    <2> QED
        BY <1>4, <2>1, <2>2, <2>3, <2>4, <2>5 DEF Dispatch
<1>5. ASSUME NEW h \in Hosts, RequestOwnership(h) PROVE Attempts'
    <2>1. record.dispatch \in Leases
        BY <1>0, <1>5, FieldFacts DEF RequestOwnership
    <2> QED
        BY <1>5, <2>1, AttemptsFrame DEF RequestOwnership, Load, Executing
<1>6. ASSUME NEW h \in Hosts, NEW x \in Execs, ClaimAttempt(h, x) PROVE Attempts'
    <2>1. CASE Enter(h, "settling", record, None) /\ calls' = calls
        BY <2>1, AttemptsFrame DEF Executing
    <2>2. CASE /\ record' = Claimed(x, arg[h])
               /\ Enter(h, "claimed", record', None)
               /\ calls' = [calls EXCEPT ![x] = "claimed"]
        <3>1. record'.exec = x
            BY <1>0, <2>2 DEF Claimed, Records
        <3>2. /\ at'[h] = "claimed" /\ held'[h] = record' /\ arg'[h] = None
              /\ \A g \in Hosts : g # h => /\ at'[g] = at[g]
                                           /\ held'[g] = held[g]
                                           /\ arg'[g] = arg[g]
            BY <2>2, EnterFacts DEF Forgetting
        <3>3. calls'[x] = "claimed" /\ \A y \in Execs : y # x => calls'[y] = calls[y]
            BY <2>2 DEF TypeOK
        <3>4. \A g \in Hosts : at[g] \in Executing => held[g].exec # x
            BY <1>6 DEF ClaimAttempt, Attempts
        <3>5. ASSUME NEW g \in Hosts, g # h
              PROVE  /\ at'[g] \in Executing
                            => /\ held'[g].exec \in Execs
                               /\ calls'[held'[g].exec] # "unused"
                     /\ at'[g] \in {"claimed", "owned", "started"}
                           => calls'[held'[g].exec] = "claimed"
            BY <3>2, <3>3, <3>4, <3>5 DEF Attempts, Executing
        <3>6. ASSUME NEW f \in Hosts, NEW g \in Hosts, f # g,
                     at'[f] \in Executing, at'[g] \in Executing
              PROVE  held'[f].exec # held'[g].exec
            BY <3>1, <3>2, <3>4, <3>6 DEF Attempts
        <3>7. ASSUME NEW g \in Hosts, g # h
              PROVE  /\ at'[g] \in Forgetting => held'[g] = Absent
                     /\ at'[g] \in {"admitted", "dispatching", "requested"}
                           => arg'[g] \in Leases
                     /\ at'[g] \in {"reconciling", "reloaded", "reconciled",
                                    "concluding"}
                           => arg'[g] \in {"SUCCEEDED", "FAILED"}
                     /\ at'[g] = "authorizing"
                           => held'[g].status \in {"PROPOSED", "FAILED"}
                     /\ at'[g] = "recovering" => held'[g].status = "RUNNING"
                     /\ at'[g] \in {"reconciling", "reloaded"}
                           => held'[g].status = "UNKNOWN"
            BY <3>2, <3>7 DEF Attempts
        <3> QED
            BY <3>1, <3>2, <3>3, <3>5, <3>6, <3>7 DEF Attempts, Forgetting
    <2> QED
        BY <1>6, <2>1, <2>2 DEF ClaimAttempt
<1>7. ASSUME NEW h \in Hosts, RecordOwnership(h) \/ SaveOwned(h) \/ FinishAttempt(h)
      PROVE  Attempts'
    <2> USE DEF Executing
    <2>1. CASE RecordOwnership(h)
        BY <2>1, AttemptsFrame DEF RecordOwnership, Go
    <2>2. CASE SaveOwned(h)
        BY <2>2, AttemptsFrame DEF SaveOwned, Write
    <2>3. CASE FinishAttempt(h)
        BY <2>3, AttemptsFrame DEF FinishAttempt
    <2> QED
        BY <1>7, <2>1, <2>2, <2>3
<1>8. ASSUME NEW h \in Hosts, Invoke(h) PROVE Attempts'
    <2> DEFINE x == held[h].exec
    <2>1. x \in Execs
        BY <1>8 DEF Invoke, Attempts, Executing
    <2>2. /\ at'[h] = "calling" /\ held' = held /\ arg'[h] = None
          /\ \A g \in Hosts : g # h => at'[g] = at[g] /\ arg'[g] = arg[g]
        BY <1>8 DEF Invoke, Go, Enter, Forgetting, TypeOK
    <2>3. calls'[x] = "inflight" /\ \A y \in Execs : y # x => calls'[y] = calls[y]
        BY <1>8, <2>1 DEF Invoke, TypeOK
    <2>4. \A g \in Hosts : g # h /\ at[g] \in Executing => held[g].exec # x
        BY <1>8 DEF Invoke, Attempts, Executing
    <2> HIDE DEF x
    <2>5. ASSUME NEW g \in Hosts, g # h
          PROVE  /\ at'[g] \in Executing => /\ held'[g].exec \in Execs
                                            /\ calls'[held'[g].exec] # "unused"
                 /\ at'[g] \in {"claimed", "owned", "started"}
                       => calls'[held'[g].exec] = "claimed"
        BY <2>2, <2>3, <2>4, <2>5 DEF Attempts, Executing
    <2>6. ASSUME NEW f \in Hosts, NEW g \in Hosts, f # g,
                 at'[f] \in Executing, at'[g] \in Executing
          PROVE  held'[f].exec # held'[g].exec
        BY <1>8, <2>2, <2>6 DEF Invoke, Attempts, Executing
    <2>7. held'[h].exec = x
        BY <2>2 DEF x
    <2> QED
        BY <2>1, <2>2, <2>3, <2>5, <2>6, <2>7 DEF Attempts, Forgetting
<1>9. ASSUME NEW h \in Hosts, Settle(h) \/ Recover(h) \/ Abandon(h)
      PROVE  Attempts'
    <2> USE DEF Executing
    <2>1. CASE LoadToSettle(h)
        BY <2>1, AttemptsFrame DEF LoadToSettle, Load, Leave
    <2>2. CASE SaveSettled(h)
        BY <2>2, AttemptsFrame DEF SaveSettled, Write
    <2>3. CASE ListRunning(h)
        BY <2>3, AttemptsFrame DEF ListRunning, Load
    <2>4. CASE SaveUnknown(h)
        BY <2>4, AttemptsFrame DEF SaveUnknown, Write
    <2>5. CASE Abandon(h)
        BY <2>5, AttemptsFrame DEF Abandon, Leave
    <2> QED
        BY <1>9, <2>1, <2>2, <2>3, <2>4, <2>5 DEF Settle, Recover
<1>10. ASSUME NEW h \in Hosts, Reconcile(h) PROVE Attempts'
    <2> USE DEF Executing
    <2>0. at[h] \in {"reconciling", "reloaded", "reconciled", "concluding"}
              => arg[h] \in {"SUCCEEDED", "FAILED"}
        BY DEF Attempts
    <2>1. CASE StartReconcile(h)
        BY <1>0, <2>1, AttemptsFrame DEF StartReconcile, Load
    <2>2. CASE LoadToReconcile(h)
        BY <2>0, <2>2, AttemptsFrame DEF LoadToReconcile, Load
    <2>3. CASE SaveReconciled(h)
        BY <2>0, <2>3, AttemptsFrame DEF SaveReconciled, Write
    <2>4. CASE LoadToConclude(h)
        BY <2>0, <2>4, AttemptsFrame DEF LoadToConclude, Load
    <2>5. CASE SaveConcluded(h)
        BY <2>5, AttemptsFrame DEF SaveConcluded, Write
    <2> QED
        BY <1>10, <2>1, <2>2, <2>3, <2>4, <2>5 DEF Reconcile
<1>11. ASSUME NEW x \in Execs, CallReturns(x) PROVE Attempts'
    <2>1. calls[x] = "inflight" /\ calls'[x] \in {"ok", "error"}
        BY <1>11 DEF CallReturns, TypeOK
    <2>2. \A y \in Execs : y # x => calls'[y] = calls[y]
        BY <1>11 DEF CallReturns, TypeOK
    <2>3. at' = at /\ held' = held /\ arg' = arg
        BY <1>11 DEF CallReturns
    <2>4. ASSUME NEW g \in Hosts
          PROVE  /\ at'[g] \in Executing => /\ held'[g].exec \in Execs
                                            /\ calls'[held'[g].exec] # "unused"
                 /\ at'[g] \in {"claimed", "owned", "started"}
                       => calls'[held'[g].exec] = "claimed"
        BY <2>1, <2>2, <2>3 DEF Attempts, Executing
    <2> QED
        BY <2>3, <2>4 DEF Attempts
<1> QED
    BY <1>1, <1>2, <1>3, <1>4, <1>5, <1>6, <1>7, <1>8, <1>9, <1>10, <1>11
    DEF Next, Execute

-----------------------------------------------------------------------------
(* Tracked: as long as nothing raced, the record is the executor's.         *)

\* The fields that an update of a record leaves alone, and the one it sets.
LEMMA UpdateFacts ==
    ASSUME NEW r \in Records
    PROVE  /\ \A s : LET n == [r EXCEPT !.status = s]
                     IN  /\ n.status = s /\ n.exec = r.exec
                         /\ n.owners = r.owners /\ n.verdicts = r.verdicts
           /\ LET n == [r EXCEPT !.intent = TRUE]
              IN  /\ n.status = r.status /\ n.exec = r.exec
                  /\ n.owners = r.owners /\ n.verdicts = r.verdicts
           /\ \A l : LET n == [r EXCEPT !.dispatch = l]
                     IN  /\ n.status = r.status /\ n.exec = r.exec
                         /\ n.owners = r.owners /\ n.verdicts = r.verdicts
           /\ \A v : LET n == Judged(r, v)
                     IN  /\ n.status = r.status /\ n.exec = r.exec
                         /\ n.owners = r.owners
                         /\ n.verdicts = IF r.exec = None THEN r.verdicts
                                         ELSE r.verdicts \cup {<<r.exec, v>>}
BY DEF Records, Judged

\* A verdict changes nothing but the reconciliation and its history.
LEMMA JudgedFacts ==
    ASSUME NEW r \in Records, NEW v
    PROVE  /\ Judged(r, v).status = r.status /\ Judged(r, v).exec = r.exec
           /\ Judged(r, v).owners = r.owners
           /\ Judged(r, v).verdicts = IF r.exec = None THEN r.verdicts
                                      ELSE r.verdicts \cup {<<r.exec, v>>}
BY DEF Records, Judged

\* A record that was never saved names no execution.
LEMMA AbsentFacts ==
    /\ Absent.status = "ABSENT" /\ Absent.exec = None
    /\ Absent.owners = {} /\ Absent.verdicts = {}
    /\ Fresh.status = "PROPOSED" /\ Fresh.exec = None
    /\ Fresh.owners = {} /\ Fresh.verdicts = {}
BY DEF Absent, Fresh

\* What a step has to respect that neither claims nor invokes: the execution
\* and the owners of the record stay, and what a host goes on with is known.
LEMMA TrackedFrame ==
    ASSUME TypeOK, Attempts, Tracked,
           NEW h \in Hosts, NEW s, NEW r, NEW a, Enter(h, s, r, a),
           \A x \in Execs : calls[x] # "unused" => calls'[x] # "unused",
           Invoked' \subseteq record.owners,
           record'.exec = record.exec, record'.owners = record.owners,
           \A g \in Hosts : g # h /\ at[g] \in Executing
                                => record'.status = "RUNNING",
           Known(r), r.exec = record.exec => r.owners = record.owners,
           s \in Executing => /\ at[h] \in Executing /\ r.exec = held[h].exec
                              /\ record'.status = "RUNNING",
           s \in {"settling", "settled"} => r.status \in {"SUCCEEDED", "FAILED"},
           s \in {"reconciled", "concluding"} => r.status = a,
           s \in {"recovering", "reconciling", "reloaded"} =>
               \A g \in Hosts : g # h /\ at[g] \in Executing
                                    => r.exec # held[g].exec
    PROVE  Tracked'
<1>1. /\ at'[h] = s /\ arg'[h] = a
      /\ s \in Forgetting => held'[h] = Absent
      /\ s \notin Forgetting => held'[h] = r
      /\ \A g \in Hosts : g # h => /\ at'[g] = at[g]
                                   /\ held'[g] = held[g]
                                   /\ arg'[g] = arg[g]
    BY EnterFacts
<1>2. Known(record)' /\ \A g \in Hosts : Known(held[g])'
    <2>1. \A q : Known(q) => /\ q.exec = None => q.owners = {}
                             /\ q.exec \in Execs => /\ calls'[q.exec] # "unused"
                                                    /\ q.exec \in q.owners
        BY DEF Known
    <2>2. Known(Absent)
        BY AbsentFacts, GovernedAssumption DEF Known
    <2>3. \A g \in Hosts : Known(held[g])
        BY DEF Tracked
    <2>4. \A g \in Hosts : held'[g] = Absent \/ held'[g] = r \/ held'[g] = held[g]
        BY <1>1
    <2>5. Known(record)
        BY DEF Tracked
    <2>6. Known(record)'
        BY <2>1, <2>5 DEF Known
    <2>7. \A g \in Hosts : Known(held'[g])
        BY <2>2, <2>3, <2>4
    <2> QED
        BY <2>1, <2>6, <2>7 DEF Known
<1>3. \A g \in Hosts : held'[g].exec = record'.exec => held'[g].owners = record'.owners
    <2>1. Absent.exec = record.exec => Absent.owners = record.owners
        BY AbsentFacts DEF Tracked, Known
    <2> QED
        BY <1>1, <2>1 DEF Tracked
<1>4. \A g \in Hosts : at'[g] \in Executing =>
          /\ record'.status = "RUNNING"
          /\ record'.exec = held'[g].exec
          /\ at[g] \in Executing
          /\ held'[g].exec = held[g].exec
    BY <1>1 DEF Tracked, Executing, Forgetting
<1>5. \A g \in Hosts :
          /\ at'[g] \in {"settling", "settled"}
                => held'[g].status \in {"SUCCEEDED", "FAILED"}
          /\ at'[g] \in {"reconciled", "concluding"}
                => held'[g].status = arg'[g]
    BY <1>1 DEF Tracked, Forgetting
<1>6. ASSUME NEW f \in Hosts, NEW g \in Hosts,
             at'[f] \in {"recovering", "reconciling", "reloaded"},
             at'[g] \in Executing
      PROVE  held'[f].exec # held'[g].exec
    <2>1. f # g /\ at[g] \in Executing /\ held'[g].exec = held[g].exec
        BY <1>4, <1>6 DEF Executing
    <2>2. CASE f = h
        BY <1>1, <1>6, <2>1, <2>2 DEF Forgetting
    <2>3. CASE f # h
        BY <1>1, <1>6, <2>1, <2>3 DEF Tracked
    <2> QED
        BY <2>2, <2>3
<1>7. Invoked' \subseteq record'.owners
    OBVIOUS
<1> QED
    BY <1>2, <1>3, <1>4, <1>5, <1>6, <1>7 DEF Tracked

\* What a handler holds that has not raced.
LEMMA SameRecord ==
    ASSUME TypeOK, Tracked, NEW h \in Hosts, ~Moved(h)
    PROVE  /\ held[h].exec = record.exec /\ held[h].status = record.status
           /\ held[h].owners = record.owners
BY DEF Moved, Tracked

\* A load, or a step that touches no record.
LEMMA QuietTracked ==
    ASSUME TypeOK, Attempts, Tracked,
           NEW h \in Hosts, NEW s, NEW r, NEW a, Enter(h, s, r, a),
           record' = record, calls' = calls,
           r = record \/ r = held[h] \/ r = Absent,
           s \in Executing => at[h] \in Executing /\ r = held[h],
           s \in {"settling", "settled"} => r.status \in {"SUCCEEDED", "FAILED"},
           s \in {"reconciled", "concluding"} => r.status = a,
           s \in {"recovering", "reconciling", "reloaded"} =>
               \A g \in Hosts : g # h /\ at[g] \in Executing
                                    => r.exec # held[g].exec
    PROVE  Tracked'
<1>1. Invoked' = Invoked
    BY DEF Invoked
<1>2. \A g \in Hosts : at[g] \in Executing => record.status = "RUNNING"
    BY DEF Tracked
<1>3. Known(Absent) /\ (Absent.exec = record.exec => Absent.owners = record.owners)
    BY AbsentFacts, GovernedAssumption DEF Known, Tracked
<1>4. Known(r) /\ (r.exec = record.exec => r.owners = record.owners)
    BY <1>3 DEF Tracked
<1>5. Invoked' \subseteq record.owners
    BY <1>1 DEF Tracked
<1> QED
    BY <1>2, <1>4, <1>5, TrackedFrame

\* A save of a record that did not race.
LEMMA WrittenTracked ==
    ASSUME TypeOK, Attempts, Tracked,
           NEW h \in Hosts, NEW s, NEW r, NEW a, Write(h, r, s, a),
           ~raced', calls' = calls,
           r.exec = held[h].exec, r.owners = held[h].owners,
           \/ r.status = held[h].status
           \/ \A g \in Hosts : g # h => at[g] \notin Executing,
           s \in Executing => at[h] \in Executing /\ r = held[h],
           s \notin {"settling", "settled", "concluding", "recovering",
                     "reconciling", "reloaded"},
           s = "reconciled" => r.status = a
    PROVE  Tracked'
<1>1. Enter(h, s, r, a) /\ record' = r /\ ~Moved(h)
    BY DEF Write
<1>2. /\ held[h].exec = record.exec /\ held[h].status = record.status
      /\ held[h].owners = record.owners
    BY <1>1, SameRecord
<1>3. Invoked' \subseteq record.owners
    BY DEF Invoked, Tracked
<1>4. \A g \in Hosts : at[g] \in Executing => record.status = "RUNNING"
    BY DEF Tracked
<1>5. Known(r)
    BY <1>2 DEF Tracked, Known
<1> QED
    BY <1>1, <1>2, <1>3, <1>4, <1>5, TrackedFrame

\* A step after which nothing has raced keeps the record tracked.
LEMMA TrackedStep ==
    TypeOK /\ Attempts /\ Tracked /\ [Next]_vars /\ ~raced' => Tracked'
<1> SUFFICES ASSUME TypeOK, Attempts, Tracked, [Next]_vars, ~raced'
             PROVE  Tracked'
    OBVIOUS
<1> USE DEF Evidence
<1>0. /\ record \in Records
      /\ \A h \in Hosts : held[h] \in Records
      /\ \A x : Outcome(x) \in {"SUCCEEDED", "FAILED"}
    BY DEF TypeOK, Outcome
<1>1. CASE UNCHANGED vars
    BY <1>1 DEF vars, Tracked, Known, Invoked
<1>2. ASSUME NEW h \in Hosts, Propose(h) \/ Note(h) PROVE Tracked'
    <2> USE DEF Executing
    <2>1. CASE FindByKey(h)
        BY <2>1, QuietTracked DEF FindByKey, Load
    <2>2. CASE SaveProposal(h)
        <3>1. CASE Load(h, "proposed", None) /\ record' = record
            BY <2>2, <3>1, QuietTracked DEF SaveProposal, Load
        <3>2. CASE Write(h, Fresh, "proposed", None) /\ record.status = "ABSENT"
            <4>1. held[h] = Absent
                BY <2>2 DEF SaveProposal, Attempts, Forgetting
            <4>2. \A g \in Hosts : at[g] \notin {"claimed", "owned", "started", "calling"}
                BY <3>2 DEF Tracked
            <4> QED
                BY <2>2, <3>2, <4>1, <4>2, AbsentFacts, WrittenTracked
                DEF SaveProposal
        <3> QED
            BY <2>2, <3>1, <3>2 DEF SaveProposal
    <2>3. CASE BindProposal(h)
        BY <2>3, QuietTracked DEF BindProposal, Go
    <2>4. CASE SaveIntent(h)
        <3>1. CASE Go(h, "intended") /\ record' = record
            BY <2>4, <3>1, QuietTracked DEF SaveIntent, Go
        <3>2. CASE Write(h, [held[h] EXCEPT !.intent = TRUE], "intended", None)
            BY <1>0, <2>4, <3>2, UpdateFacts, WrittenTracked DEF SaveIntent
        <3> QED
            BY <2>4, <3>1, <3>2 DEF SaveIntent
    <2>5. CASE LoadToNote(h)
        BY <2>5, QuietTracked DEF LoadToNote, Load
    <2>6. CASE SaveNote(h)
        <3>1. AfterNote(h) \in {"idle", "accepted"}
            BY DEF AfterNote
        <3>2. CASE Go(h, AfterNote(h)) /\ record' = record
            BY <2>6, <3>1, <3>2, QuietTracked DEF SaveNote, Go
        <3>3. CASE Write(h, held[h], AfterNote(h), None)
            BY <2>6, <3>1, <3>3, WrittenTracked DEF SaveNote
        <3> QED
            BY <2>6, <3>2, <3>3 DEF SaveNote
    <2> QED
        BY <1>2, <2>1, <2>2, <2>3, <2>4, <2>5, <2>6 DEF Propose, Note
<1>3. ASSUME NEW h \in Hosts, Authorize(h) PROVE Tracked'
    <2> USE DEF Executing
    <2>1. CASE LoadToAuthorize(h)
        BY <2>1, QuietTracked DEF LoadToAuthorize, Load
    <2>2. CASE SaveAuthorized(h)
        <3>1. Write(h, [held[h] EXCEPT !.status = "AUTHORIZED"], "binding", None)
            BY <2>2 DEF SaveAuthorized
        <3>2. held[h].status # "RUNNING" /\ held[h].status = record.status
            BY <2>2, <3>1, SameRecord DEF SaveAuthorized, Attempts, Write
        <3>3. \A g \in Hosts : at[g] \notin {"claimed", "owned", "started", "calling"}
            BY <3>2 DEF Tracked
        <3> DEFINE n == [held[h] EXCEPT !.status = "AUTHORIZED"]
        <3>4. n.exec = held[h].exec /\ n.owners = held[h].owners
            BY <1>0, UpdateFacts
        <3> HIDE DEF n
        <3>5. Write(h, n, "binding", None) /\ calls' = calls
            BY <2>2, <3>1 DEF SaveAuthorized, n
        <3> QED
            BY <3>3, <3>4, <3>5, WrittenTracked
    <2>3. CASE BindAuthorization(h)
        BY <2>3, QuietTracked DEF BindAuthorization, Go
    <2>4. CASE SaveEndorsed(h)
        <3>1. CASE Leave(h) /\ record' = record
            BY <2>4, <3>1, QuietTracked DEF SaveEndorsed, Leave
        <3>2. CASE Write(h, held[h], "idle", None)
            BY <2>4, <3>2, WrittenTracked DEF SaveEndorsed
        <3> QED
            BY <2>4, <3>1, <3>2 DEF SaveEndorsed
    <2> QED
        BY <1>3, <2>1, <2>2, <2>3, <2>4 DEF Authorize
<1>4. ASSUME NEW h \in Hosts, Dispatch(h) PROVE Tracked'
    <2> USE DEF Executing
    <2>1. ASSUME NEW l \in Leases, StartExecute(h, l) PROVE Tracked'
        BY <2>1, QuietTracked DEF StartExecute, Load
    <2>2. CASE LoadToDispatch(h)
        BY <2>2, QuietTracked DEF LoadToDispatch, Load
    <2>3. CASE SaveDispatch(h)
        <3>1. CASE Go(h, "dispatched") /\ record' = record
            BY <2>3, <3>1, QuietTracked DEF SaveDispatch, Go
        <3>2. CASE Write(h, [held[h] EXCEPT !.dispatch = arg[h]], "dispatched", None)
            <4> DEFINE n == [held[h] EXCEPT !.dispatch = arg[h]]
            <4>1. /\ n.exec = held[h].exec /\ n.owners = held[h].owners
                  /\ n.status = held[h].status
                BY <1>0, UpdateFacts
            <4> HIDE DEF n
            <4>2. Write(h, n, "dispatched", None) /\ calls' = calls
                BY <2>3, <3>2 DEF SaveDispatch, n
            <4> QED
                BY <4>1, <4>2, WrittenTracked
        <3> QED
            BY <2>3, <3>1, <3>2 DEF SaveDispatch
    <2>4. CASE LoadToDecide(h)
        BY <2>4, QuietTracked DEF LoadToDecide, Load
    <2>5. CASE SaveDecided(h)
        <3>1. CASE Go(h, "claiming") /\ record' = record
            BY <2>5, <3>1, QuietTracked DEF SaveDecided, Go
        <3>2. CASE Write(h, held[h], "claiming", None)
            BY <2>5, <3>2, WrittenTracked DEF SaveDecided
        <3> QED
            BY <2>5, <3>1, <3>2 DEF SaveDecided
    <2> QED
        BY <1>4, <2>1, <2>2, <2>3, <2>4, <2>5 DEF Dispatch
<1>5. ASSUME NEW h \in Hosts, RequestOwnership(h) PROVE Tracked'
    BY <1>5, QuietTracked DEF RequestOwnership, Load, Executing
<1>6. ASSUME NEW h \in Hosts, NEW x \in Execs, ClaimAttempt(h, x) PROVE Tracked'
    <2>1. CASE /\ record.status = "SUCCEEDED" /\ record' = record
               /\ Enter(h, "settling", record, None) /\ calls' = calls
        BY <2>1, QuietTracked DEF Executing
    <2>2. CASE /\ Claimable
               /\ record' = Claimed(x, arg[h])
               /\ Enter(h, "claimed", record', None)
               /\ calls' = [calls EXCEPT ![x] = "claimed"]
        <3>1. /\ record'.exec = x /\ record'.status = "RUNNING"
              /\ record'.owners = record.owners \cup {x}
            BY <1>0, <2>2 DEF Claimed, Records
        <3>2. /\ at'[h] = "claimed" /\ held'[h] = record'
              /\ \A g \in Hosts : g # h => /\ at'[g] = at[g]
                                           /\ held'[g] = held[g]
                                           /\ arg'[g] = arg[g]
            BY <2>2, EnterFacts DEF Forgetting
        <3>3. /\ calls[x] = "unused" /\ calls'[x] = "claimed"
              /\ \A y \in Execs : y # x => calls'[y] = calls[y]
            BY <1>6, <2>2 DEF ClaimAttempt, TypeOK
        <3>4. \A g \in Hosts : at[g] \notin Executing
            BY <2>2 DEF Claimable, Tracked
        <3>5. \A g \in Hosts : held[g].exec # x
            BY <3>3 DEF Tracked, Known
        <3>6. ASSUME NEW g \in Hosts, g # h PROVE Known(held[g])'
            BY <3>2, <3>3, <3>6 DEF Tracked, Known
        <3>7. Known(record)'
            BY <3>1, <3>3, GovernedAssumption DEF Known
        <3>8. Known(held[h])'
            BY <3>2, <3>7 DEF Known
        <3>9. Invoked' \subseteq record'.owners
            BY <3>1, <3>3 DEF Invoked, Tracked
        <3>10. ASSUME NEW g \in Hosts
               PROVE  /\ held'[g].exec = record'.exec
                            => held'[g].owners = record'.owners
                      /\ at'[g] \in Executing => /\ record'.status = "RUNNING"
                                                 /\ record'.exec = held'[g].exec
                      /\ at'[g] \in {"settling", "settled"}
                            => held'[g].status \in {"SUCCEEDED", "FAILED"}
                      /\ at'[g] \in {"reconciled", "concluding"}
                            => held'[g].status = arg'[g]
            BY <3>1, <3>2, <3>4, <3>5 DEF Tracked
        <3>11. ASSUME NEW f \in Hosts, NEW g \in Hosts,
                      at'[f] \in {"recovering", "reconciling", "reloaded"},
                      at'[g] \in Executing
               PROVE  held'[f].exec # held'[g].exec
            BY <3>1, <3>2, <3>4, <3>5, <3>11
        <3> QED
            BY <3>6, <3>7, <3>8, <3>9, <3>10, <3>11 DEF Tracked
    <2> QED
        BY <1>6, <2>1, <2>2 DEF ClaimAttempt
<1>7. ASSUME NEW h \in Hosts, RecordOwnership(h) \/ SaveOwned(h) PROVE Tracked'
    <2> USE DEF Executing
    <2>1. CASE RecordOwnership(h)
        BY <2>1, QuietTracked DEF RecordOwnership, Go
    <2>2. CASE SaveOwned(h)
        BY <2>2, WrittenTracked DEF SaveOwned
    <2> QED
        BY <1>7, <2>1, <2>2
<1>8. ASSUME NEW h \in Hosts, Invoke(h) PROVE Tracked'
    <2>1. /\ held[h].exec \in Execs /\ record.status = "RUNNING"
          /\ record.exec = held[h].exec
        BY <1>8 DEF Invoke, Attempts, Tracked, Executing
    <2>2. Invoked' \subseteq Invoked \cup {record.exec}
        BY <1>8, <2>1 DEF Invoke, Invoked, TypeOK
    <2>3. Invoked' \subseteq record.owners
        BY <2>1, <2>2 DEF Tracked, Known
    <2>4. \A y \in Execs : calls[y] # "unused" => calls'[y] # "unused"
        BY <1>8 DEF Invoke, TypeOK
    <2>5. Known(held[h])
              /\ (held[h].exec = record.exec => held[h].owners = record.owners)
        BY DEF Tracked
    <2>6. Enter(h, "calling", held[h], None) /\ record' = record
        BY <1>8 DEF Invoke, Go
    <2>7. at[h] \in Executing
        BY <1>8 DEF Invoke, Executing
    <2> QED
        BY <2>1, <2>3, <2>4, <2>5, <2>6, <2>7, TrackedFrame
<1>9. ASSUME NEW h \in Hosts, FinishAttempt(h) PROVE Tracked'
    <2>1. /\ record'.exec = record.exec /\ record'.owners = record.owners
          /\ record'.status \in {"SUCCEEDED", "FAILED"}
        BY <1>0, <1>9, UpdateFacts DEF FinishAttempt
    <2>2. \A g \in Hosts : g # h => at[g] \notin Executing
        BY <1>9 DEF FinishAttempt, Tracked, Attempts, Executing
    <2>3. Known(record') /\ Enter(h, "settling", record', None) /\ calls' = calls
        BY <1>9, <2>1 DEF FinishAttempt, Tracked, Known
    <2>4. Invoked' \subseteq record.owners
        BY <2>3 DEF Invoked, Tracked
    <2> QED
        BY <2>1, <2>2, <2>3, <2>4, TrackedFrame DEF Executing
<1>10. ASSUME NEW h \in Hosts, Settle(h) \/ Recover(h) \/ Abandon(h)
       PROVE  Tracked'
    <2> USE DEF Executing
    <2>1. CASE LoadToSettle(h)
        <3>1. record.status = held[h].status /\ calls' = calls /\ record' = record
            BY <2>1, SameRecord DEF LoadToSettle
        <3>2. record.status \in {"SUCCEEDED", "FAILED"}
            BY <2>1, <3>1 DEF LoadToSettle, Tracked
        <3>3. CASE Leave(h)
            BY <3>1, <3>3, QuietTracked DEF Leave
        <3>4. ASSUME NEW s \in {"concluded", "settled"}, Load(h, s, None)
              PROVE  Tracked'
            BY <3>1, <3>2, <3>4, QuietTracked DEF Load
        <3> QED
            BY <2>1, <3>3, <3>4 DEF LoadToSettle
    <2>2. CASE SaveSettled(h)
        <3> DEFINE n == Judged(held[h], VerdictOn(held[h].status))
        <3>1. /\ n.exec = held[h].exec /\ n.owners = held[h].owners
              /\ n.status = held[h].status
            BY <1>0, JudgedFacts
        <3> HIDE DEF n
        <3>2. Write(h, n, "concluded", None) /\ calls' = calls
            BY <2>2 DEF SaveSettled, n
        <3> QED
            BY <3>1, <3>2, WrittenTracked
    <2>3. CASE ListRunning(h)
        BY <2>3, QuietTracked DEF ListRunning, Load
    <2>4. CASE SaveUnknown(h)
        <3> DEFINE q == Judged(held[h], "UNKNOWN")
                   n == [q EXCEPT !.status = "UNKNOWN"]
        <3>1. Write(h, n, "idle", None)
            BY <2>4 DEF SaveUnknown
        <3>2. q \in Records
            BY <1>0, RecordFacts DEF Verdicts
        <3>3. q.exec = held[h].exec /\ q.owners = held[h].owners
            BY <1>0, UpdateFacts
        <3>4. n.exec = held[h].exec /\ n.owners = held[h].owners
            BY <3>2, <3>3, UpdateFacts
        <3>5. held[h].exec = record.exec
            BY <3>1, SameRecord DEF Write
        <3>6. \A g \in Hosts : at[g] \notin {"claimed", "owned", "started", "calling"}
            BY <2>4, <3>5 DEF SaveUnknown, Tracked
        <3> HIDE DEF n
        <3> QED
            BY <2>4, <3>1, <3>4, <3>6, WrittenTracked DEF SaveUnknown
    <2>5. CASE Abandon(h)
        BY <2>5, QuietTracked DEF Abandon, Leave
    <2> QED
        BY <1>10, <2>1, <2>2, <2>3, <2>4, <2>5 DEF Settle, Recover
<1>11. ASSUME NEW h \in Hosts, Reconcile(h) PROVE Tracked'
    <2> USE DEF Executing
    <2>0. record.status = "UNKNOWN"
              => \A g \in Hosts : at[g] \notin {"claimed", "owned", "started", "calling"}
        BY DEF Tracked
    <2>1. CASE StartReconcile(h)
        BY <2>0, <2>1, QuietTracked DEF StartReconcile, Load
    <2>2. CASE LoadToReconcile(h)
        BY <2>0, <2>2, QuietTracked DEF LoadToReconcile, Load
    <2>3. CASE SaveReconciled(h)
        <3>1. Write(h, [held[h] EXCEPT !.status = arg[h]], "reconciled", arg[h])
            BY <2>3 DEF SaveReconciled
        <3>2. record.status = "UNKNOWN"
            BY <2>3, <3>1, SameRecord DEF SaveReconciled, Attempts, Write
        <3> DEFINE n == [held[h] EXCEPT !.status = arg[h]]
        <3>3. /\ n.exec = held[h].exec /\ n.owners = held[h].owners
              /\ n.status = arg[h]
            BY <1>0, UpdateFacts
        <3> HIDE DEF n
        <3>4. Write(h, n, "reconciled", arg[h]) /\ calls' = calls
            BY <2>3, <3>1 DEF SaveReconciled, n
        <3> QED
            BY <2>0, <3>2, <3>3, <3>4, WrittenTracked
    <2>4. CASE LoadToConclude(h)
        <3>1. record.status = arg[h]
            BY <2>4, SameRecord DEF LoadToConclude, Tracked
        <3> QED
            BY <2>4, <3>1, QuietTracked DEF LoadToConclude, Load
    <2>5. CASE SaveConcluded(h)
        <3> DEFINE n == Judged(held[h], VerdictOn(arg[h]))
        <3>1. /\ n.exec = held[h].exec /\ n.owners = held[h].owners
              /\ n.status = held[h].status
            BY <1>0, JudgedFacts
        <3> HIDE DEF n
        <3>2. Write(h, n, "concluded", None) /\ calls' = calls
            BY <2>5 DEF SaveConcluded, n
        <3> QED
            BY <3>1, <3>2, WrittenTracked
    <2> QED
        BY <1>11, <2>1, <2>2, <2>3, <2>4, <2>5 DEF Reconcile
<1>12. ASSUME NEW x \in Execs, CallReturns(x) PROVE Tracked'
    <2>1. /\ \A y \in Execs : calls[y] # "unused" <=> calls'[y] # "unused"
          /\ Invoked' = Invoked
        BY <1>12 DEF CallReturns, Invoked, TypeOK
    <2> QED
        BY <1>12, <2>1 DEF CallReturns, Tracked, Known
<1> QED
    BY <1>1, <1>2, <1>3, <1>4, <1>5, <1>6, <1>7, <1>8, <1>9, <1>10, <1>11,
       <1>12 DEF Next, Execute

-----------------------------------------------------------------------------
(* Resolved: without blind retries the record tells which call is open.     *)

\* What a step has to respect that changes no call.
LEMMA ResolvedFrame ==
    ASSUME TypeOK, Resolved,
           NEW h \in Hosts, NEW s, NEW r, NEW a, Enter(h, s, r, a),
           calls' = calls,
           record'.exec = record.exec,
           \A x \in Execs : calls[x] = "inflight"
               => record'.status \in {"RUNNING", "UNKNOWN"},
           Truth(record'.status, record'.exec),
           s \in {"reconciling", "reloaded"} => Truth(a, r.exec)
    PROVE  Resolved'
<1>1. /\ at'[h] = s /\ arg'[h] = a
      /\ s \in Forgetting => held'[h] = Absent
      /\ s \notin Forgetting => held'[h] = r
      /\ \A g \in Hosts : g # h => /\ at'[g] = at[g]
                                   /\ held'[g] = held[g]
                                   /\ arg'[g] = arg[g]
    BY EnterFacts
<1>2. ASSUME NEW g \in Hosts, at'[g] \in {"reconciling", "reloaded"}
      PROVE  Truth(arg[g], held[g].exec)'
    BY <1>1, <1>2 DEF Resolved, Truth, Forgetting
<1>3. Truth(record.status, record.exec)'
    BY DEF Truth
<1>4. \A x \in Execs : calls'[x] = "inflight"
          => record'.exec = x /\ record'.status \in {"RUNNING", "UNKNOWN"}
    BY DEF Resolved
<1> QED
    BY <1>2, <1>3, <1>4 DEF Resolved

\* A load, or a step that touches no record.
LEMMA QuietResolved ==
    ASSUME TypeOK, Resolved,
           NEW h \in Hosts, NEW s, NEW r, NEW a, Enter(h, s, r, a),
           record' = record, calls' = calls,
           s \in {"reconciling", "reloaded"} => Truth(a, r.exec)
    PROVE  Resolved'
<1>1. /\ Truth(record'.status, record'.exec)
      /\ \A x \in Execs : calls[x] = "inflight"
             => record'.status \in {"RUNNING", "UNKNOWN"}
    BY DEF Resolved
<1> QED
    BY <1>1, ResolvedFrame

\* A save of a record that did not race and keeps its status.
LEMMA WrittenResolved ==
    ASSUME TypeOK, Tracked, Resolved,
           NEW h \in Hosts, NEW s, NEW r, NEW a, Write(h, r, s, a),
           ~raced', calls' = calls,
           r.exec = held[h].exec, r.status = held[h].status,
           s \notin {"reconciling", "reloaded"}
    PROVE  Resolved'
<1>1. Enter(h, s, r, a) /\ record' = r /\ ~Moved(h)
    BY DEF Write
<1>2. r.exec = record.exec /\ r.status = record.status
    BY <1>1, SameRecord
<1>3. /\ Truth(record'.status, record'.exec)
      /\ \A x \in Execs : calls[x] = "inflight"
             => record'.status \in {"RUNNING", "UNKNOWN"}
    BY <1>1, <1>2 DEF Resolved
<1> QED
    BY <1>1, <1>2, <1>3, ResolvedFrame

\* A step after which nothing has raced keeps the record resolved.
LEMMA ResolvedStep ==
    TypeOK /\ Attempts /\ Tracked /\ Resolved /\ ~RetryOnUnknown
        /\ [Next]_vars /\ ~raced' => Resolved'
<1> SUFFICES ASSUME TypeOK, Attempts, Tracked, Resolved, ~RetryOnUnknown,
                    [Next]_vars, ~raced'
             PROVE  Resolved'
    OBVIOUS
<1> USE DEF Evidence
<1>0. /\ record \in Records
      /\ \A h \in Hosts : held[h] \in Records
      /\ \A x : Outcome(x) \in {"SUCCEEDED", "FAILED"}
    BY DEF TypeOK, Outcome
<1>1. CASE UNCHANGED vars
    BY <1>1 DEF vars, Resolved, Truth
<1>2. ASSUME NEW h \in Hosts, Propose(h) \/ Note(h) PROVE Resolved'
    <2> USE DEF Executing
    <2>1. CASE FindByKey(h)
        BY <2>1, QuietResolved DEF FindByKey, Load
    <2>2. CASE SaveProposal(h)
        <3>1. CASE Load(h, "proposed", None) /\ record' = record
            BY <2>2, <3>1, QuietResolved DEF SaveProposal, Load
        <3>2. CASE Write(h, Fresh, "proposed", None) /\ record.status = "ABSENT"
            <4>1. Enter(h, "proposed", Fresh, None) /\ record' = Fresh /\ ~Moved(h)
                BY <3>2 DEF Write
            <4>2. record.exec = None
                BY <2>2, <4>1, AbsentFacts
                DEF SaveProposal, Attempts, Forgetting, Moved
            <4>3. \A x \in Execs : calls[x] # "inflight"
                BY <3>2 DEF Resolved
            <4>4. Truth(Fresh.status, Fresh.exec)
                BY AbsentFacts DEF Truth
            <4> QED
                BY <2>2, <4>1, <4>2, <4>3, <4>4, AbsentFacts, ResolvedFrame
                DEF SaveProposal
        <3> QED
            BY <2>2, <3>1, <3>2 DEF SaveProposal
    <2>3. CASE BindProposal(h)
        BY <2>3, QuietResolved DEF BindProposal, Go
    <2>4. CASE SaveIntent(h)
        <3>1. CASE Go(h, "intended") /\ record' = record
            BY <2>4, <3>1, QuietResolved DEF SaveIntent, Go
        <3>2. CASE Write(h, [held[h] EXCEPT !.intent = TRUE], "intended", None)
            <4> DEFINE n == [held[h] EXCEPT !.intent = TRUE]
            <4>1. n.exec = held[h].exec /\ n.status = held[h].status
                BY <1>0, UpdateFacts
            <4> HIDE DEF n
            <4>2. Write(h, n, "intended", None) /\ calls' = calls
                BY <2>4, <3>2 DEF SaveIntent, n
            <4> QED
                BY <4>1, <4>2, WrittenResolved
        <3> QED
            BY <2>4, <3>1, <3>2 DEF SaveIntent
    <2>5. CASE LoadToNote(h)
        BY <2>5, QuietResolved DEF LoadToNote, Load
    <2>6. CASE SaveNote(h)
        <3>1. AfterNote(h) \in {"idle", "accepted"}
            BY DEF AfterNote
        <3>2. CASE Go(h, AfterNote(h)) /\ record' = record
            BY <2>6, <3>1, <3>2, QuietResolved DEF SaveNote, Go
        <3>3. CASE Write(h, held[h], AfterNote(h), None)
            BY <2>6, <3>1, <3>3, WrittenResolved DEF SaveNote
        <3> QED
            BY <2>6, <3>2, <3>3 DEF SaveNote
    <2> QED
        BY <1>2, <2>1, <2>2, <2>3, <2>4, <2>5, <2>6 DEF Propose, Note
<1>3. ASSUME NEW h \in Hosts, Authorize(h) PROVE Resolved'
    <2> USE DEF Executing
    <2>1. CASE LoadToAuthorize(h)
        BY <2>1, QuietResolved DEF LoadToAuthorize, Load
    <2>2. CASE SaveAuthorized(h)
        <3> DEFINE n == [held[h] EXCEPT !.status = "AUTHORIZED"]
        <3>1. n.exec = held[h].exec /\ n.status = "AUTHORIZED"
            BY <1>0, UpdateFacts
        <3> HIDE DEF n
        <3>2. Enter(h, "binding", n, None) /\ record' = n /\ ~Moved(h) /\ calls' = calls
            BY <2>2 DEF SaveAuthorized, Write, n
        <3>3. held[h].exec = record.exec /\ record.status \in {"PROPOSED", "FAILED"}
            BY <2>2, <3>2, SameRecord DEF SaveAuthorized, Attempts
        <3>4. \A x \in Execs : calls[x] # "inflight"
            BY <3>3 DEF Resolved
        <3>5. Truth(n.status, n.exec)
            BY <3>1 DEF Truth
        <3> QED
            BY <3>1, <3>2, <3>3, <3>4, <3>5, ResolvedFrame
    <2>3. CASE BindAuthorization(h)
        BY <2>3, QuietResolved DEF BindAuthorization, Go
    <2>4. CASE SaveEndorsed(h)
        <3>1. CASE Leave(h) /\ record' = record
            BY <2>4, <3>1, QuietResolved DEF SaveEndorsed, Leave
        <3>2. CASE Write(h, held[h], "idle", None)
            BY <2>4, <3>2, WrittenResolved DEF SaveEndorsed
        <3> QED
            BY <2>4, <3>1, <3>2 DEF SaveEndorsed
    <2> QED
        BY <1>3, <2>1, <2>2, <2>3, <2>4 DEF Authorize
<1>4. ASSUME NEW h \in Hosts, Dispatch(h) PROVE Resolved'
    <2> USE DEF Executing
    <2>1. ASSUME NEW l \in Leases, StartExecute(h, l) PROVE Resolved'
        BY <2>1, QuietResolved DEF StartExecute, Load
    <2>2. CASE LoadToDispatch(h)
        BY <2>2, QuietResolved DEF LoadToDispatch, Load
    <2>3. CASE SaveDispatch(h)
        <3>1. CASE Go(h, "dispatched") /\ record' = record
            BY <2>3, <3>1, QuietResolved DEF SaveDispatch, Go
        <3>2. CASE Write(h, [held[h] EXCEPT !.dispatch = arg[h]], "dispatched", None)
            <4> DEFINE n == [held[h] EXCEPT !.dispatch = arg[h]]
            <4>1. n.exec = held[h].exec /\ n.status = held[h].status
                BY <1>0, UpdateFacts
            <4> HIDE DEF n
            <4>2. Write(h, n, "dispatched", None) /\ calls' = calls
                BY <2>3, <3>2 DEF SaveDispatch, n
            <4> QED
                BY <4>1, <4>2, WrittenResolved
        <3> QED
            BY <2>3, <3>1, <3>2 DEF SaveDispatch
    <2>4. CASE LoadToDecide(h)
        BY <2>4, QuietResolved DEF LoadToDecide, Load
    <2>5. CASE SaveDecided(h)
        <3>1. CASE Go(h, "claiming") /\ record' = record
            BY <2>5, <3>1, QuietResolved DEF SaveDecided, Go
        <3>2. CASE Write(h, held[h], "claiming", None)
            BY <2>5, <3>2, WrittenResolved DEF SaveDecided
        <3> QED
            BY <2>5, <3>1, <3>2 DEF SaveDecided
    <2> QED
        BY <1>4, <2>1, <2>2, <2>3, <2>4, <2>5 DEF Dispatch
<1>5. ASSUME NEW h \in Hosts, RequestOwnership(h) PROVE Resolved'
    BY <1>5, QuietResolved DEF RequestOwnership, Load, Executing
<1>6. ASSUME NEW h \in Hosts, NEW x \in Execs, ClaimAttempt(h, x) PROVE Resolved'
    <2>1. CASE /\ record' = record /\ calls' = calls
               /\ Enter(h, "settling", record, None)
        BY <2>1, QuietResolved DEF Executing
    <2>2. CASE /\ Claimable
               /\ record' = Claimed(x, arg[h])
               /\ Enter(h, "claimed", record', None)
               /\ calls' = [calls EXCEPT ![x] = "claimed"]
        <3>1. record'.exec = x /\ record'.status = "RUNNING"
            BY <1>0, <2>2 DEF Claimed, Records
        <3>2. /\ at'[h] = "claimed" /\ held'[h] = record'
              /\ \A g \in Hosts : g # h => /\ at'[g] = at[g]
                                           /\ held'[g] = held[g]
                                           /\ arg'[g] = arg[g]
            BY <2>2, EnterFacts DEF Forgetting
        <3>3. /\ calls[x] = "unused" /\ calls'[x] = "claimed"
              /\ \A y \in Execs : y # x => calls'[y] = calls[y]
            BY <1>6, <2>2 DEF ClaimAttempt, TypeOK
        <3>4. \A y \in Execs : calls'[y] # "inflight"
            BY <2>2, <3>3 DEF Claimable, Resolved
        <3>5. ASSUME NEW g \in Hosts, at'[g] \in {"reconciling", "reloaded"}
              PROVE  Truth(arg[g], held[g].exec)'
            <4>1. g # h /\ at[g] \in {"reconciling", "reloaded"}
                BY <3>2, <3>5
            <4>2. Truth(arg[g], held[g].exec)
                BY <4>1 DEF Resolved
            <4> QED
                BY <3>2, <3>3, <4>1, <4>2 DEF Truth
        <3>6. Truth(record.status, record.exec)'
            BY <3>1 DEF Truth
        <3> QED
            BY <3>1, <3>4, <3>5, <3>6 DEF Resolved
    <2> QED
        BY <1>6, <2>1, <2>2 DEF ClaimAttempt
<1>7. ASSUME NEW h \in Hosts, RecordOwnership(h) \/ SaveOwned(h) PROVE Resolved'
    <2> USE DEF Executing
    <2>1. CASE RecordOwnership(h)
        BY <2>1, QuietResolved DEF RecordOwnership, Go
    <2>2. CASE SaveOwned(h)
        BY <2>2, WrittenResolved DEF SaveOwned
    <2> QED
        BY <1>7, <2>1, <2>2
<1>8. ASSUME NEW h \in Hosts, Invoke(h) PROVE Resolved'
    <2> DEFINE x == held[h].exec
    <2>1. /\ x \in Execs /\ calls[x] = "claimed" /\ at[h] \in Executing
          /\ record.status = "RUNNING" /\ record.exec = x
        BY <1>8 DEF Invoke, Attempts, Tracked, Executing
    <2>2. /\ at'[h] = "calling" /\ held' = held /\ record' = record
          /\ \A g \in Hosts : g # h => at'[g] = at[g] /\ arg'[g] = arg[g]
        BY <1>8 DEF Invoke, Go, Enter, Forgetting, TypeOK
    <2>3. calls'[x] = "inflight" /\ \A y \in Execs : y # x => calls'[y] = calls[y]
        BY <1>8, <2>1 DEF Invoke, TypeOK
    <2>4. \A g \in Hosts : at[g] \in {"reconciling", "reloaded"} => held[g].exec # x
        BY <2>1 DEF Tracked
    <2> HIDE DEF x
    <2>5. ASSUME NEW g \in Hosts, at'[g] \in {"reconciling", "reloaded"}
          PROVE  Truth(arg[g], held[g].exec)'
        <3>1. g # h /\ at[g] \in {"reconciling", "reloaded"}
            BY <2>2, <2>5
        <3>2. Truth(arg[g], held[g].exec) /\ held[g].exec # x
            BY <2>4, <3>1 DEF Resolved
        <3> QED
            BY <2>2, <2>3, <3>1, <3>2 DEF Truth
    <2>6. Truth(record.status, record.exec)'
        BY <2>1, <2>2 DEF Truth
    <2>7. \A y \in Execs : calls'[y] = "inflight" => record'.exec = y
        BY <2>1, <2>2, <2>3 DEF Resolved
    <2> QED
        BY <2>1, <2>2, <2>5, <2>6, <2>7 DEF Resolved
<1>9. ASSUME NEW h \in Hosts, FinishAttempt(h) PROVE Resolved'
    <2>1. record'.exec = record.exec /\ record'.status = Outcome(record.exec)
        BY <1>0, <1>9, UpdateFacts DEF FinishAttempt, OwnsAttempt
    <2>2. /\ record.exec \in Execs /\ calls[record.exec] \in {"ok", "error"}
          /\ Enter(h, "settling", record', None) /\ calls' = calls
        BY <1>9 DEF FinishAttempt, OwnsAttempt, Attempts, Executing
    <2>3. \A y \in Execs : calls[y] # "inflight"
        BY <2>2 DEF Resolved
    <2>4. Truth(record'.status, record'.exec)
        BY <2>1, <2>2 DEF Truth, Outcome
    <2> QED
        BY <2>1, <2>2, <2>3, <2>4, ResolvedFrame
<1>10. ASSUME NEW h \in Hosts, Settle(h) \/ Recover(h) \/ Abandon(h)
       PROVE  Resolved'
    <2> USE DEF Executing
    <2>1. CASE LoadToSettle(h)
        <3>1. calls' = calls /\ record' = record
            BY <2>1 DEF LoadToSettle
        <3>2. CASE Leave(h)
            BY <3>1, <3>2, QuietResolved DEF Leave
        <3>3. ASSUME NEW s \in {"concluded", "settled"}, Load(h, s, None)
              PROVE  Resolved'
            BY <3>1, <3>3, QuietResolved DEF Load
        <3> QED
            BY <2>1, <3>2, <3>3 DEF LoadToSettle
    <2>2. CASE SaveSettled(h)
        <3> DEFINE n == Judged(held[h], VerdictOn(held[h].status))
        <3>1. n.exec = held[h].exec /\ n.status = held[h].status
            BY <1>0, JudgedFacts
        <3>2. Write(h, n, "concluded", None) /\ calls' = calls
            BY <2>2 DEF SaveSettled
        <3>3. ~Moved(h) /\ Enter(h, "concluded", n, None) /\ record' = n
            BY <3>2 DEF Write
        <3> HIDE DEF n
        <3>4. held[h].exec = record.exec /\ held[h].status = record.status
            BY <3>3, SameRecord
        <3>5. /\ Truth(n.status, n.exec)
              /\ \A x \in Execs : calls[x] = "inflight"
                     => n.status \in {"RUNNING", "UNKNOWN"}
            BY <3>1, <3>4 DEF Resolved
        <3> QED
            BY <3>1, <3>2, <3>3, <3>4, <3>5, ResolvedFrame
    <2>3. CASE ListRunning(h)
        BY <2>3, QuietResolved DEF ListRunning, Load
    <2>4. CASE SaveUnknown(h)
        <3> DEFINE q == Judged(held[h], "UNKNOWN")
                   n == [q EXCEPT !.status = "UNKNOWN"]
        <3>1. q \in Records
            BY <1>0, RecordFacts DEF Verdicts
        <3>2. q.exec = held[h].exec
            BY <1>0, JudgedFacts
        <3>3. n.exec = q.exec /\ n.status = "UNKNOWN"
            BY <3>1, UpdateFacts
        <3>4. /\ Enter(h, "idle", n, None) /\ record' = n /\ ~Moved(h)
              /\ calls' = calls
            BY <2>4 DEF SaveUnknown, Write
        <3> HIDE DEF q, n
        <3>5. held[h].exec = record.exec
            BY <3>4, SameRecord
        <3>6. Truth(n.status, n.exec)
            BY <3>3 DEF Truth
        <3> QED
            BY <3>2, <3>3, <3>4, <3>5, <3>6, ResolvedFrame
    <2>5. CASE Abandon(h)
        BY <2>5, QuietResolved DEF Abandon, Leave
    <2> QED
        BY <1>10, <2>1, <2>2, <2>3, <2>4, <2>5 DEF Settle, Recover
<1>11. ASSUME NEW h \in Hosts, Reconcile(h) PROVE Resolved'
    <2> USE DEF Executing
    <2>1. CASE StartReconcile(h)
        <3>1. /\ record.exec \in Execs
              /\ calls[record.exec] \notin {"unused", "inflight"}
            BY <1>0, <2>1, FieldFacts DEF StartReconcile, Tracked, Known
        <3>2. calls[record.exec] \in CallStates
            BY <3>1 DEF TypeOK
        <3>3. Truth(Outcome(record.exec), record.exec)
            BY <3>1, <3>2 DEF Truth, Outcome, CallStates
        <3> QED
            BY <2>1, <3>3, QuietResolved DEF StartReconcile, Load
    <2>2. CASE LoadToReconcile(h)
        <3>1. held[h].exec = record.exec
            BY <2>2, SameRecord DEF LoadToReconcile
        <3>2. Truth(arg[h], record.exec)
            BY <2>2, <3>1 DEF LoadToReconcile, Resolved
        <3> QED
            BY <2>2, <3>2, QuietResolved DEF LoadToReconcile, Load
    <2>3. CASE SaveReconciled(h)
        <3> DEFINE n == [held[h] EXCEPT !.status = arg[h]]
        <3>1. n.exec = held[h].exec /\ n.status = arg[h]
            BY <1>0, UpdateFacts
        <3>2. /\ Enter(h, "reconciled", n, arg[h]) /\ record' = n /\ ~Moved(h)
              /\ calls' = calls
            BY <2>3 DEF SaveReconciled, Write
        <3> HIDE DEF n
        <3>3. held[h].exec = record.exec
            BY <3>2, SameRecord
        <3>4. Truth(arg[h], record.exec) /\ arg[h] \in {"SUCCEEDED", "FAILED"}
            BY <2>3, <3>3 DEF SaveReconciled, Resolved, Attempts
        <3>5. \A x \in Execs : calls[x] # "inflight"
            BY <3>4 DEF Resolved, Truth
        <3>6. Truth(n.status, n.exec)
            BY <3>1, <3>3, <3>4 DEF Resolved
        <3> QED
            BY <3>1, <3>2, <3>3, <3>5, <3>6, ResolvedFrame
    <2>4. CASE LoadToConclude(h)
        BY <2>4, QuietResolved DEF LoadToConclude, Load
    <2>5. CASE SaveConcluded(h)
        <3> DEFINE n == Judged(held[h], VerdictOn(arg[h]))
        <3>1. n.exec = held[h].exec /\ n.status = held[h].status
            BY <1>0, JudgedFacts
        <3>2. /\ Enter(h, "concluded", n, None) /\ record' = n /\ ~Moved(h)
              /\ calls' = calls
            BY <2>5 DEF SaveConcluded, Write
        <3> HIDE DEF n
        <3>3. held[h].exec = record.exec /\ held[h].status = record.status
            BY <3>2, SameRecord
        <3>4. /\ Truth(n.status, n.exec)
              /\ \A x \in Execs : calls[x] = "inflight"
                     => n.status \in {"RUNNING", "UNKNOWN"}
            BY <3>1, <3>3 DEF Resolved
        <3> QED
            BY <3>1, <3>2, <3>3, <3>4, ResolvedFrame
    <2> QED
        BY <1>11, <2>1, <2>2, <2>3, <2>4, <2>5 DEF Reconcile
<1>12. ASSUME NEW x \in Execs, CallReturns(x) PROVE Resolved'
    <2>1. /\ calls[x] = "inflight" /\ calls'[x] \in {"ok", "error"}
          /\ \A y \in Execs : y # x => calls'[y] = calls[y]
          /\ record' = record /\ at' = at /\ held' = held /\ arg' = arg
        BY <1>12 DEF CallReturns, TypeOK
    <2>2. record.exec = x /\ record.status \in {"RUNNING", "UNKNOWN"}
        BY <2>1 DEF Resolved
    <2>3. ASSUME NEW g \in Hosts, at'[g] \in {"reconciling", "reloaded"}
          PROVE  Truth(arg[g], held[g].exec)'
        <3>1. at[g] \in {"reconciling", "reloaded"}
            BY <2>1, <2>3
        <3>2. Truth(arg[g], held[g].exec)
            BY <3>1 DEF Resolved
        <3> QED
            BY <2>1, <3>2 DEF Truth
    <2>4. Truth(record.status, record.exec)'
        BY <2>1, <2>2 DEF Truth
    <2>5. \A y \in Execs : calls'[y] = "inflight"
              => record'.exec = y /\ record'.status \in {"RUNNING", "UNKNOWN"}
        BY <2>1 DEF Resolved
    <2> QED
        BY <2>3, <2>4, <2>5 DEF Resolved
<1> QED
    BY <1>1, <1>2, <1>3, <1>4, <1>5, <1>6, <1>7, <1>8, <1>9, <1>10, <1>11,
       <1>12 DEF Next, Execute

-----------------------------------------------------------------------------
(* The invariant and what follows from it.                                  *)

\* The invariant holds initially.
LEMMA InvariantInit == Init => IInv
<1> SUFFICES ASSUME Init PROVE IInv
    OBVIOUS
<1>1. TypeOK
    BY TypeInit
<1>2. /\ record = Absent /\ raced = FALSE /\ Invoked = {}
      /\ \A x \in Execs : calls[x] = "unused"
      /\ \A h \in Hosts : at[h] = "idle" /\ held[h] = Absent
    BY DEF Init, Invoked
<1>3. Governance /\ Attempts
    BY <1>2
    DEF Governance, CallsAreGoverned, AuthorizedSteps, Executing, Attempts,
        Forgetting
<1>4. Tracked
    BY <1>2, AbsentFacts, GovernedAssumption DEF Tracked, Known, Executing
<1>5. Resolved
    BY <1>2, AbsentFacts DEF Resolved, Truth
<1> QED
    BY <1>1, <1>3, <1>4, <1>5 DEF IInv

\* What raced once has raced for good.
LEMMA RacedGrows == [Next]_vars /\ raced => raced'
BY DEF Next, vars, Propose, Note, Authorize, Dispatch, Execute, Settle, Recover,
   Reconcile, Abandon, FindByKey, SaveProposal, BindProposal, SaveIntent,
   LoadToNote, SaveNote, LoadToAuthorize, SaveAuthorized, BindAuthorization,
   SaveEndorsed, StartExecute, LoadToDispatch, SaveDispatch, LoadToDecide,
   SaveDecided, RequestOwnership, ClaimAttempt, RecordOwnership, SaveOwned,
   Invoke, CallReturns, FinishAttempt, LoadToSettle, SaveSettled, ListRunning,
   SaveUnknown, StartReconcile, LoadToReconcile, SaveReconciled, LoadToConclude,
   SaveConcluded, Write

\* Every step keeps the invariant.
LEMMA InvariantStep == IInv /\ [Next]_vars => IInv'
<1> SUFFICES ASSUME IInv, [Next]_vars PROVE IInv'
    OBVIOUS
<1>1. TypeOK' /\ Governance' /\ Attempts'
    BY TypeStep, GovernanceStep, AttemptsStep DEF IInv
<1>2. ~raced' => Tracked'
    BY RacedGrows, TrackedStep DEF IInv
<1>3. ~raced' /\ ~RetryOnUnknown => Resolved'
    BY RacedGrows, ResolvedStep DEF IInv
<1> QED
    BY <1>1, <1>2, <1>3 DEF IInv

\* The invariant holds in every reachable state.
LEMMA Invariance == Spec => []IInv
BY InvariantInit, InvariantStep, PTL DEF Spec

\* Types are kept, whatever the hosts do.
THEOREM TypeCorrect == Spec => []TypeOK
<1>1. IInv => TypeOK
    BY DEF IInv
<1> QED
    BY <1>1, Invariance, PTL

\* No call without its scoped proposal, its authorization and its ownership in
\* evidence, even after crashes and races of the handlers.
THEOREM GovernedCalls == Spec => []CallsAreGoverned
<1>1. IInv => CallsAreGoverned
    BY DEF IInv, Governance
<1> QED
    BY <1>1, Invariance, PTL

\* As long as no handler raced, at most one call is under way.
THEOREM SingleCall == Spec => []OneCallAtATime
<1>1. IInv => OneCallAtATime
    BY DEF IInv, Resolved, OneCallAtATime
<1> QED
    BY <1>1, Invariance, PTL

-----------------------------------------------------------------------------
(* The external boundary.                                                   *)

\* A step that begins and ends no call and does not touch a recorded success
\* cannot be seen from outside.
LEMMA Unseen ==
    ASSUME \A x \in Execs : (calls'[x] = "inflight") <=> (calls[x] = "inflight"),
           Invoked' = Invoked,
           (record'.status = "SUCCEEDED") <=> (record.status = "SUCCEEDED")
    PROVE  UNCHANGED Boundary!bvars
<1>1. BoundaryState' = BoundaryState
    BY DEF BoundaryState
<1> QED
    BY <1>1 DEF Boundary!bvars

\* The first recorded success seals a boundary that nobody crosses.
LEMMA SuccessSeals ==
    ASSUME calls' = calls, record.status # "SUCCEEDED", record'.status = "SUCCEEDED",
           \A x \in Execs : calls[x] # "inflight",
           NEW y \in Execs, calls[y] = "ok"
    PROVE  Boundary!Next
<1>1. BoundaryState = "open" /\ BoundaryState' = "sealed"
    BY DEF BoundaryState
<1>2. Invoked' = Invoked /\ Invoked # {}
    BY DEF Invoked
<1>3. Boundary!Seal(Effect)
    BY <1>1, <1>2 DEF Boundary!Seal
<1> QED
    BY <1>3 DEF Boundary!Next

\* A handler that saves a record it has loaded, and has not raced, leaves the
\* status as it was.
LEMMA StatusSaved ==
    ASSUME TypeOK, Tracked, NEW h \in Hosts, NEW r, NEW s, NEW a, Write(h, r, s, a),
           ~raced', calls' = calls,
           (r.status = "SUCCEEDED") <=> (held[h].status = "SUCCEEDED")
    PROVE  UNCHANGED Boundary!bvars
<1>1. record' = r /\ record.status = held[h].status
    BY SameRecord DEF Write
<1>2. Invoked' = Invoked
    BY DEF Invoked
<1> QED
    BY <1>1, <1>2, Unseen

\* A call begins at a boundary that is open, under an execution of its own.
LEMMA InvokeCrosses ==
    ASSUME TypeOK, Attempts, Tracked, Resolved, NEW h \in Hosts, Invoke(h)
    PROVE  Boundary!Next
<1> DEFINE x == held[h].exec
<1>1. x \in Execs /\ calls[x] = "claimed" /\ record.exec = x /\ record.status = "RUNNING"
    BY DEF Invoke, Attempts, Tracked, Executing
<1>2. calls' = [calls EXCEPT ![x] = "inflight"] /\ record' = record
    BY DEF Invoke
<1>3. \A y \in Execs : calls[y] # "inflight"
    BY <1>1 DEF Resolved
<1>4. calls'[x] = "inflight" /\ \A y \in Execs \ {x} : calls'[y] = calls[y]
    BY <1>1, <1>2 DEF TypeOK
<1>5. x \notin Invoked /\ Invoked' = Invoked \cup {x}
    BY <1>1, <1>4 DEF Invoked
<1>6. BoundaryState = "open" /\ BoundaryState' = "crossing"
    BY <1>1, <1>2, <1>3, <1>4 DEF BoundaryState
<1> HIDE DEF x
<1>7. Boundary!Cross(Effect)
    BY <1>1, <1>5, <1>6 DEF Boundary!Cross
<1> QED
    BY <1>7 DEF Boundary!Next

\* Its answer opens the boundary again: no other call is under way.
LEMMA AnswerReturns ==
    ASSUME TypeOK, Resolved, NEW x \in Execs, CallReturns(x)
    PROVE  Boundary!Next
<1>1. /\ calls[x] = "inflight" /\ calls'[x] \in {"ok", "error"} /\ record' = record
      /\ \A y \in Execs \ {x} : calls'[y] = calls[y]
    BY DEF CallReturns, TypeOK
<1>2. /\ record.status # "SUCCEEDED"
      /\ \A y \in Execs : calls[y] = "inflight" => y = x
    BY <1>1 DEF Resolved
<1>3. \A y \in Execs : calls'[y] # "inflight"
    BY <1>1, <1>2
<1>4. BoundaryState = "crossing" /\ BoundaryState' = "open"
    BY <1>1, <1>2, <1>3 DEF BoundaryState
<1>5. Invoked' = Invoked
    BY <1>1 DEF Invoked
<1>6. Boundary!Return(Effect)
    BY <1>4, <1>5 DEF Boundary!Return
<1> QED
    BY <1>6 DEF Boundary!Next

\* The steps that neither save a record nor touch a call.
LEMMA QuietUnseen ==
    ASSUME record' = record, calls' = calls
    PROVE  UNCHANGED Boundary!bvars
<1>1. Invoked' = Invoked
    BY DEF Invoked
<1> QED
    BY <1>1, Unseen

Outside == Boundary!Next \/ UNCHANGED Boundary!bvars

\* Claims draw an execution that was never used, for a record without success.
LEMMA ExecuteOutside ==
    ASSUME TypeOK, Attempts, Tracked, Resolved, ~raced',
           NEW h \in Hosts, Execute(h)
    PROVE  Outside
<1>1. CASE RequestOwnership(h)
    BY <1>1, QuietUnseen DEF RequestOwnership, Evidence, Outside
<1>2. ASSUME NEW x \in Execs, ClaimAttempt(h, x)
      PROVE  Outside
    <2>1. CASE UNCHANGED <<record, calls>>
        BY <2>1, QuietUnseen DEF Outside
    <2>2. CASE /\ Claimable
               /\ record' = Claimed(x, arg[h])
               /\ calls' = [calls EXCEPT ![x] = "claimed"]
        <3>1. record.status # "SUCCEEDED" /\ record'.status = "RUNNING"
            BY <2>2 DEF Claimable, Claimed, TypeOK, Records
        <3>2. calls[x] = "unused"
            BY <1>2 DEF ClaimAttempt
        <3>3. calls'[x] = "claimed" /\ \A y \in Execs \ {x} : calls'[y] = calls[y]
            BY <2>2 DEF TypeOK
        <3>4. Invoked' = Invoked
            BY <3>2, <3>3 DEF Invoked
        <3> QED
            BY <3>1, <3>2, <3>3, <3>4, Unseen DEF Outside
    <2> QED
        BY <1>2, <2>1, <2>2 DEF ClaimAttempt
<1>3. CASE RecordOwnership(h)
    BY <1>3, QuietUnseen DEF RecordOwnership, Outside
<1>4. CASE SaveOwned(h)
    BY <1>4, StatusSaved DEF SaveOwned, Evidence, Outside
<1>5. CASE Invoke(h)
    BY <1>5, InvokeCrosses DEF Outside
<1>6. CASE FinishAttempt(h)
    <2> DEFINE x == held[h].exec
    <2>1. /\ x \in Execs /\ record.exec = x /\ record.status = "RUNNING"
          /\ calls[x] \in {"ok", "error"} /\ calls' = calls
        BY <1>6 DEF FinishAttempt, OwnsAttempt, Attempts, Executing, Evidence
    <2>2. record'.status = IF calls[x] = "ok" THEN "SUCCEEDED" ELSE "FAILED"
        BY <1>6 DEF FinishAttempt, Outcome, TypeOK, Records
    <2>3. \A y \in Execs : calls[y] # "inflight"
        BY <2>1 DEF Resolved
    <2> HIDE DEF x
    <2>4. CASE calls[x] = "ok"
        BY <2>1, <2>2, <2>3, <2>4, SuccessSeals DEF Outside
    <2>5. CASE calls[x] # "ok"
        <3>1. Invoked' = Invoked
            BY <2>1 DEF Invoked
        <3> QED
            BY <2>1, <2>2, <2>5, <3>1, Unseen DEF Outside
    <2> QED
        BY <2>4, <2>5
<1> QED
    BY <1>1, <1>2, <1>3, <1>4, <1>5, <1>6 DEF Execute

\* A verdict of the operator is the truth: only it seals, and only for a call
\* that has succeeded.
LEMMA ReconcileOutside ==
    ASSUME TypeOK, Attempts, Tracked, Resolved, ~raced',
           NEW h \in Hosts, Reconcile(h)
    PROVE  Outside
<1>0. held[h] \in Records
    BY DEF TypeOK
<1>1. CASE StartReconcile(h) \/ LoadToReconcile(h) \/ LoadToConclude(h)
    BY <1>1, QuietUnseen
    DEF StartReconcile, LoadToReconcile, LoadToConclude, Evidence, Outside
<1>2. CASE SaveReconciled(h)
    <2> DEFINE n == [held[h] EXCEPT !.status = arg[h]]
    <2>1. /\ at[h] = "reloaded" /\ held[h].status = "UNKNOWN"
          /\ arg[h] \in {"SUCCEEDED", "FAILED"}
          /\ Write(h, n, "reconciled", arg[h]) /\ calls' = calls
        BY <1>2 DEF SaveReconciled, Attempts, Evidence
    <2>2. n.status = arg[h]
        BY <1>0, UpdateFacts
    <2> HIDE DEF n
    <2>3. CASE arg[h] = "FAILED"
        BY <2>1, <2>2, <2>3, StatusSaved DEF Outside
    <2>4. CASE arg[h] = "SUCCEEDED"
        <3>1. record' = n /\ record.status = "UNKNOWN" /\ record.exec = held[h].exec
            BY <2>1, SameRecord DEF Write
        <3>2. held[h].exec \in Execs /\ calls[held[h].exec] = "ok"
            BY <2>1, <2>4 DEF Resolved, Truth
        <3>3. \A y \in Execs : calls[y] # "inflight"
            BY <3>1, <3>2 DEF Resolved
        <3> QED
            BY <2>1, <2>2, <2>4, <3>1, <3>2, <3>3, SuccessSeals DEF Outside
    <2> QED
        BY <2>1, <2>3, <2>4
<1>3. CASE SaveConcluded(h)
    <2>1. Judged(held[h], VerdictOn(arg[h])).status = held[h].status
        BY <1>0, JudgedFacts
    <2> QED
        BY <1>3, <2>1, StatusSaved DEF SaveConcluded, Evidence, Outside
<1> QED
    BY <1>1, <1>2, <1>3 DEF Reconcile

\* The steps that govern an effect around its execution stay inside.
LEMMA GovernanceOutside ==
    ASSUME TypeOK, Attempts, Tracked, ~raced', NEW h \in Hosts,
           \/ Propose(h) \/ Note(h) \/ Authorize(h) \/ Dispatch(h)
           \/ Settle(h) \/ Recover(h) \/ Abandon(h)
    PROVE  UNCHANGED Boundary!bvars
<1>0. held[h] \in Records
    BY DEF TypeOK
<1>1. CASE UNCHANGED <<record, calls>>
    BY <1>1, QuietUnseen
<1>2. ASSUME NEW s, NEW a, Write(h, held[h], s, a), calls' = calls
      PROVE  UNCHANGED Boundary!bvars
    BY <1>2, StatusSaved
<1>3. CASE SaveProposal(h)
    <2>1. CASE record.status = "ABSENT" /\ record' = Fresh
        <3>1. Invoked' = Invoked
            BY <1>3 DEF SaveProposal, Evidence, Invoked
        <3> QED
            BY <1>3, <2>1, <3>1, Unseen, AbsentFacts DEF SaveProposal, Evidence
    <2> QED
        BY <1>1, <1>3, <2>1 DEF SaveProposal, Write, Evidence
<1>4. CASE SaveIntent(h)
    <2>1. CASE Write(h, [held[h] EXCEPT !.intent = TRUE], "intended", None)
        <3>1. [held[h] EXCEPT !.intent = TRUE].status = held[h].status
            BY <1>0, UpdateFacts
        <3> QED
            BY <1>4, <2>1, <3>1, StatusSaved DEF SaveIntent, Evidence
    <2> QED
        BY <1>1, <1>4, <2>1 DEF SaveIntent, Evidence
<1>5. CASE SaveNote(h) \/ SaveEndorsed(h) \/ SaveDecided(h)
    <2>1. /\ calls' = calls
          /\ record' = record \/ \E s, a : Write(h, held[h], s, a)
        BY <1>5 DEF SaveNote, SaveEndorsed, SaveDecided, Evidence
    <2> QED
        BY <1>1, <1>2, <2>1
<1>6. CASE SaveAuthorized(h)
    <2> DEFINE n == [held[h] EXCEPT !.status = "AUTHORIZED"]
    <2>1. n.status = "AUTHORIZED"
        BY <1>0, UpdateFacts
    <2>2. Write(h, n, "binding", None) /\ calls' = calls
          /\ held[h].status \in {"PROPOSED", "FAILED"}
        BY <1>6 DEF SaveAuthorized, Attempts, Evidence
    <2> HIDE DEF n
    <2> QED
        BY <2>1, <2>2, StatusSaved
<1>7. CASE SaveDispatch(h)
    <2>1. CASE Write(h, [held[h] EXCEPT !.dispatch = arg[h]], "dispatched", None)
        <3>1. [held[h] EXCEPT !.dispatch = arg[h]].status = held[h].status
            BY <1>0, UpdateFacts
        <3> QED
            BY <1>7, <2>1, <3>1, StatusSaved DEF SaveDispatch, Evidence
    <2> QED
        BY <1>1, <1>7, <2>1 DEF SaveDispatch, Evidence
<1>8. CASE SaveSettled(h)
    <2>1. Judged(held[h], VerdictOn(held[h].status)).status = held[h].status
        BY <1>0, JudgedFacts
    <2> QED
        BY <1>8, <2>1, StatusSaved DEF SaveSettled, Evidence
<1>9. CASE SaveUnknown(h)
    <2> DEFINE q == Judged(held[h], "UNKNOWN")
               n == [q EXCEPT !.status = "UNKNOWN"]
    <2>1. q \in Records
        BY <1>0, RecordFacts DEF Verdicts
    <2>2. n.status = "UNKNOWN"
        BY <2>1, UpdateFacts
    <2>3. Write(h, n, "idle", None) /\ calls' = calls /\ held[h].status = "RUNNING"
        BY <1>9 DEF SaveUnknown, Attempts, Evidence
    <2> HIDE DEF q, n
    <2> QED
        BY <2>2, <2>3, StatusSaved
<1> QED
    BY <1>1, <1>3, <1>4, <1>5, <1>6, <1>7, <1>8, <1>9
    DEF Propose, Note, Authorize, Dispatch, Settle, Recover, Abandon, Evidence,
        FindByKey, BindProposal, LoadToNote, LoadToAuthorize, BindAuthorization,
        StartExecute, LoadToDispatch, LoadToDecide, LoadToSettle, ListRunning

LEMMA OutsideStep ==
    ASSUME IInv, [Next]_vars, ~raced', ~RetryOnUnknown
    PROVE  Outside
<1>0. TypeOK /\ Attempts /\ Tracked /\ Resolved
    BY RacedGrows DEF IInv
<1>1. CASE UNCHANGED vars
    BY <1>1, QuietUnseen DEF vars, Outside
<1>2. ASSUME NEW h \in Hosts, Execute(h)
      PROVE  Outside
    BY <1>0, <1>2, ExecuteOutside
<1>3. ASSUME NEW h \in Hosts, Reconcile(h)
      PROVE  Outside
    BY <1>0, <1>3, ReconcileOutside
<1>4. ASSUME NEW h \in Hosts,
             \/ Propose(h) \/ Note(h) \/ Authorize(h) \/ Dispatch(h)
             \/ Settle(h) \/ Recover(h) \/ Abandon(h)
      PROVE  Outside
    BY <1>0, <1>4, GovernanceOutside DEF Outside
<1>5. ASSUME NEW x \in Execs, CallReturns(x)
      PROVE  Outside
    BY <1>0, <1>5, AnswerReturns DEF Outside
<1> QED
    BY <1>1, <1>2, <1>3, <1>4, <1>5 DEF Next

\* Governed effects implement the external boundary of the durable effects, for
\* any number of hosts, leases and executions: loads, saves and verdicts are
\* invisible, as long as no handler has gone on with a record that moved.
THEOREM GovernedBoundaryImplemented == Spec => GovernedBoundary
<1>1. Init => Boundary!Init
    <2> SUFFICES ASSUME Init PROVE Boundary!Init
        OBVIOUS
    <2>1. BoundaryState = "open" /\ Invoked = {}
        BY AbsentFacts DEF Init, BoundaryState, Invoked
    <2> QED
        BY <2>1 DEF Boundary!Init
<1>2. IInv /\ [Next]_vars
          => [~raced' /\ ~RetryOnUnknown =>
                  Boundary!Next \/ UNCHANGED Boundary!bvars]_vars
    BY OutsideStep DEF Outside
<1> QED
    BY <1>1, <1>2, Invariance, PTL DEF Spec, GovernedBoundary

=============================================================================
