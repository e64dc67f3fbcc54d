------------------------ MODULE EffectLifecycleProofs ------------------------
(***************************************************************************)
(* Proofs about the effect lifecycle, for every set of hosts, effects,     *)
(* keys and executions and every bound.                                    *)
(***************************************************************************)
EXTENDS EffectInvariant, EffectRefinement, FiniteSetTheorems, TLAPS

-----------------------------------------------------------------------------
(* Type correctness.                                                       *)

\* Absent and Fresh are records, and an update of the status keeps a record one.
LEMMA RecordFacts ==
    /\ Absent \in Records
    /\ Fresh \in Records
    /\ \A r \in Records, s \in Statuses : [r EXCEPT !.status = s] \in Records
    /\ \A r \in Records :
          /\ r.status \in Statuses
          /\ r.attempts \in Nat
          /\ r.exec \in Execs \cup {NoExec}
    /\ \A x : Outcome(x) \in Statuses
BY DEF Absent, Fresh, Records, Statuses, Outcome

\* Moving a host to a step of a handler keeps its variables well typed.
LEMMA EnterTyping ==
    ASSUME TypeInv, NEW h \in Hosts, NEW s \in Steps, NEW e \in Effects,
           NEW r \in Records, Enter(h, s, e, r)
    PROVE  /\ step' \in [Hosts -> Steps]
           /\ current' \in [Hosts -> Effects \cup {NoEffect}]
           /\ held' \in [Hosts -> [Effects -> Records]]
           /\ HandlersHaveAnEffect'
BY RecordFacts DEF TypeInv, TypeOK, Enter, NothingHeld, HandlersHaveAnEffect

\* So does returning from a handler.
LEMMA LeaveTyping ==
    ASSUME TypeInv, NEW h \in Hosts, Leave(h)
    PROVE  /\ step' \in [Hosts -> Steps]
           /\ current' \in [Hosts -> Effects \cup {NoEffect}]
           /\ held' \in [Hosts -> [Effects -> Records]]
           /\ HandlersHaveAnEffect'
BY RecordFacts
DEF TypeInv, TypeOK, Leave, NothingHeld, HandlersHaveAnEffect, Steps, Handling

\* Saving a record keeps the effects table well typed.
LEMMA SaveTyping ==
    ASSUME TypeInv, NEW e \in Effects, NEW r \in Records, Save(e, r)
    PROVE  effects' \in [Effects -> Records]
BY DEF TypeInv, TypeOK, Save

\* Emitting an event keeps the machine log well typed.
LEMMA EmitTyping ==
    ASSUME TypeInv, NEW t \in EventTypes, NEW e \in Effects,
           NEW x \in Execs \cup {NoExec}, Emit(t, e, x)
    PROVE  events' \subseteq Events
BY DEF TypeInv, TypeOK, Emit, Events

\* The initial state is well typed.
LEMMA TypeInit == Init => TypeInv
BY RecordFacts, ConstantsAssumption
DEF Init, TypeInv, TypeOK, HandlersHaveAnEffect, Handling, Steps, CallStates,
    Events

\* Every step of the hosts and of the outside world keeps the state well typed.
LEMMA TypeStep == TypeInv /\ [Next]_vars => TypeInv'
<1> SUFFICES ASSUME TypeInv, [Next]_vars PROVE TypeInv'
    OBVIOUS
<1> USE DEF World
<1>0. ASSUME NEW h \in Hosts, step[h] \in Handling
      PROVE  current[h] \in Effects /\ held[h][current[h]] \in Records
    BY <1>0 DEF TypeInv, TypeOK, HandlersHaveAnEffect
<1>1. CASE UNCHANGED vars
    BY <1>1 DEF vars, TypeInv, TypeOK, HandlersHaveAnEffect
<1>2. ASSUME NEW h \in Hosts, Propose(h) PROVE TypeInv'
    <2>1. ASSUME NEW e \in Effects, FindByKey(h, e) PROVE TypeInv'
        <3>1. "proposing" \in Steps
            BY DEF Steps
        <3> QED
            BY <2>1, <3>1, EnterTyping, RecordFacts
            DEF FindByKey, TypeInv, TypeOK
    <2>2. CASE SaveProposal(h)
        <3>1. "proposed" \in Steps /\ current[h] \in Effects
            BY <2>2, <1>0 DEF Steps, SaveProposal, Handling
        <3>2. CASE KeyTaken(current[h])
            BY <2>2, <3>2, LeaveTyping DEF SaveProposal, TypeInv, TypeOK
        <3>3. CASE ~KeyTaken(current[h])
            BY <2>2, <3>1, <3>3, EnterTyping, SaveTyping, RecordFacts
            DEF SaveProposal, TypeInv, TypeOK
        <3> QED
            BY <3>2, <3>3
    <2>3. CASE EmitProposed(h)
        <3>1. "EFFECT_PROPOSED" \in EventTypes /\ current[h] \in Effects
            BY <2>3, <1>0 DEF EventTypes, EmitProposed, Handling
        <3> QED
            BY <2>3, <3>1, EmitTyping, LeaveTyping
            DEF EmitProposed, TypeInv, TypeOK
    <2> QED
        BY <1>2, <2>1, <2>2, <2>3 DEF Propose
<1>3. ASSUME NEW h \in Hosts, Authorize(h) PROVE TypeInv'
    <2>1. ASSUME NEW e \in Effects, LoadToAuthorize(h, e) PROVE TypeInv'
        <3>1. "authorizing" \in Steps /\ effects[e] \in Records
            BY DEF Steps, TypeInv, TypeOK
        <3> QED
            BY <2>1, <3>1, EnterTyping DEF LoadToAuthorize, TypeInv, TypeOK
    <2>2. CASE SaveAuthorized(h)
        <3>1. /\ "authorized" \in Steps
              /\ "AUTHORIZED" \in Statuses
              /\ current[h] \in Effects
              /\ held[h][current[h]] \in Records
            BY <2>2, <1>0 DEF Steps, Statuses, SaveAuthorized, Handling
        <3>2. [held[h][current[h]] EXCEPT !.status = "AUTHORIZED"] \in Records
            BY <3>1, RecordFacts
        <3> QED
            BY <2>2, <3>1, <3>2, EnterTyping, SaveTyping
            DEF SaveAuthorized, TypeInv, TypeOK
    <2>3. CASE EmitAuthorized(h)
        <3>1. "EFFECT_AUTHORIZED" \in EventTypes /\ current[h] \in Effects
            BY <2>3, <1>0 DEF EventTypes, EmitAuthorized, Handling
        <3> QED
            BY <2>3, <3>1, EmitTyping, LeaveTyping
            DEF EmitAuthorized, TypeInv, TypeOK
    <2> QED
        BY <1>3, <2>1, <2>2, <2>3 DEF Authorize
<1>4. ASSUME NEW h \in Hosts, Execute(h) PROVE TypeInv'
    <2>1. ASSUME NEW e \in Effects, NEW x \in Execs, ClaimAttempt(h, e, x)
          PROVE  TypeInv'
        <3> DEFINE r == [status |-> "RUNNING",
                         attempts |-> effects[e].attempts + 1, exec |-> x]
        <3>1. r \in Records /\ "claimed" \in Steps
            BY DEF Records, Statuses, Steps, TypeInv, TypeOK
        <3>2. Save(e, r) /\ Enter(h, "claimed", e, r)
            BY <2>1 DEF ClaimAttempt
        <3>3. calls' \in [Execs -> CallStates]
            BY <2>1 DEF ClaimAttempt, TypeInv, TypeOK, CallStates
        <3>4. owner' \in [Execs -> Effects \cup {NoEffect}]
            BY <2>1 DEF ClaimAttempt, TypeInv, TypeOK
        <3>5. events' = events /\ crashes' = crashes
            BY <2>1 DEF ClaimAttempt
        <3> HIDE DEF r
        <3> QED
            BY <3>1, <3>2, <3>3, <3>4, <3>5, EnterTyping, SaveTyping
            DEF TypeInv, TypeOK
    <2>2. CASE EmitStarted(h)
        <3>1. /\ "started" \in Steps
              /\ "EFFECT_STARTED" \in EventTypes
              /\ current[h] \in Effects
              /\ held[h][current[h]] \in Records
            BY <2>2, <1>0 DEF Steps, EventTypes, EmitStarted, Handling
        <3> QED
            BY <2>2, <3>1, EnterTyping, EmitTyping, RecordFacts
            DEF EmitStarted, TypeInv, TypeOK
    <2>3. CASE Invoke(h)
        <3>1. /\ "calling" \in Steps
              /\ current[h] \in Effects
              /\ held[h][current[h]] \in Records
            BY <2>3, <1>0 DEF Steps, Invoke, Handling
        <3>2. calls' \in [Execs -> CallStates]
            BY <2>3 DEF Invoke, TypeInv, TypeOK, CallStates
        <3> QED
            BY <2>3, <3>1, <3>2, EnterTyping DEF Invoke, TypeInv, TypeOK
    <2>4. CASE FinishAttempt(h)
        <3> DEFINE e == current[h]
        <3> DEFINE mine == held[h][e]
        <3> DEFINE r == [effects[e] EXCEPT !.status = Outcome(mine.exec)]
        <3>1. "finished" \in Steps /\ e \in Effects /\ mine \in Records
            BY <2>4, <1>0 DEF Steps, FinishAttempt, Handling
        <3>2. r \in Records
            BY <3>1, RecordFacts DEF TypeInv, TypeOK
        <3>3. \/ Save(e, r) /\ Enter(h, "finished", e, r)
              \/ Leave(h) /\ UNCHANGED effects
            BY <2>4 DEF FinishAttempt
        <3>4. UNCHANGED <<events, calls, owner, crashes>>
            BY <2>4 DEF FinishAttempt
        <3> HIDE DEF e, mine, r
        <3>5. CASE Save(e, r) /\ Enter(h, "finished", e, r)
            BY <3>1, <3>2, <3>4, <3>5, EnterTyping, SaveTyping
            DEF TypeInv, TypeOK
        <3>6. CASE Leave(h) /\ UNCHANGED effects
            BY <3>4, <3>6, LeaveTyping DEF TypeInv, TypeOK
        <3> QED
            BY <3>3, <3>5, <3>6
    <2>5. CASE EmitFinished(h)
        <3>1. /\ {"EFFECT_SUCCEEDED", "EFFECT_FAILED"} \subseteq EventTypes
              /\ current[h] \in Effects
              /\ held[h][current[h]].exec \in Execs \cup {NoExec}
            BY <2>5, <1>0, RecordFacts DEF EventTypes, EmitFinished, Handling
        <3>2. \E t \in EventTypes : Emit(t, current[h], held[h][current[h]].exec)
            BY <2>5, <3>1 DEF EmitFinished
        <3> QED
            BY <2>5, <3>1, <3>2, EmitTyping, LeaveTyping
            DEF EmitFinished, TypeInv, TypeOK
    <2> QED
        BY <1>4, <2>1, <2>2, <2>3, <2>4, <2>5 DEF Execute
<1>5. ASSUME NEW h \in Hosts, Recover(h) PROVE TypeInv'
    <2>1. CASE RecoverAtomically(h)
        <3>1. \A e \in Effects : Unresolved(effects[e]) \in Records
            BY RecordFacts DEF TypeInv, TypeOK, Unresolved, Statuses
        <3>2. effects' \in [Effects -> Records]
            BY <2>1, <3>1 DEF RecoverAtomically, TypeInv, TypeOK
        <3>3. held' \in [Hosts -> [Effects -> Records]]
            BY <2>1, <3>1, RecordFacts DEF RecoverAtomically, TypeInv, TypeOK
        <3>4. step' \in [Hosts -> Steps] /\ HandlersHaveAnEffect'
            BY <2>1 DEF RecoverAtomically, TypeInv, TypeOK, Steps,
                        HandlersHaveAnEffect, Handling
        <3> QED
            BY <2>1, <3>2, <3>3, <3>4 DEF RecoverAtomically, TypeInv, TypeOK
    <2>2. CASE ListRunning(h)
        <3>1. held' \in [Hosts -> [Effects -> Records]]
            BY <2>2, RecordFacts DEF ListRunning, TypeInv, TypeOK
        <3>2. step' \in [Hosts -> Steps] /\ HandlersHaveAnEffect'
            BY <2>2 DEF ListRunning, TypeInv, TypeOK, Steps,
                        HandlersHaveAnEffect, Handling
        <3> QED
            BY <2>2, <3>1, <3>2 DEF ListRunning, TypeInv, TypeOK
    <2>3. ASSUME NEW e \in Effects, SaveUnknown(h, e) PROVE TypeInv'
        <3>1. held[h][e] \in Records /\ "UNKNOWN" \in Statuses
            BY DEF TypeInv, TypeOK, Statuses
        <3>2. Unresolved(held[h][e]) \in Records
            BY <3>1, RecordFacts DEF Unresolved
        <3>3. held' = [held EXCEPT ![h] = [held[h] EXCEPT ![e] =
                          [held[h][e] EXCEPT !.status = "UNKNOWN"]]]
            BY <2>3 DEF SaveUnknown
        <3>4. held' \in [Hosts -> [Effects -> Records]]
            BY <3>1, <3>3, RecordFacts DEF TypeInv, TypeOK
        <3> QED
            BY <2>3, <3>2, <3>4, SaveTyping
            DEF SaveUnknown, TypeInv, TypeOK, HandlersHaveAnEffect
    <2>4. ASSUME NEW e \in Effects, EmitUnknown(h, e) PROVE TypeInv'
        <3>1. /\ "EFFECT_UNKNOWN" \in EventTypes
              /\ held[h][e].exec \in Execs \cup {NoExec}
            BY RecordFacts DEF EventTypes, TypeInv, TypeOK
        <3>2. events' \subseteq Events
            BY <2>4, <3>1, EmitTyping DEF EmitUnknown
        <3>3. held' \in [Hosts -> [Effects -> Records]]
            BY <2>4, RecordFacts DEF EmitUnknown, TypeInv, TypeOK
        <3>4. step' \in [Hosts -> Steps] /\ HandlersHaveAnEffect'
            BY <2>4 DEF EmitUnknown, TypeInv, TypeOK, Steps,
                        HandlersHaveAnEffect, Handling
        <3> QED
            BY <2>4, <3>2, <3>3, <3>4 DEF EmitUnknown, TypeInv, TypeOK
    <2> QED
        BY <1>5, <2>1, <2>2, <2>3, <2>4 DEF Recover
<1>6. ASSUME NEW h \in Hosts, Reconcile(h) PROVE TypeInv'
    <2>1. ASSUME NEW e \in Effects, LoadToReconcile(h, e) PROVE TypeInv'
        <3>1. /\ "reconciling" \in Steps
              /\ [effects[e] EXCEPT !.status = Outcome(effects[e].exec)]
                    \in Records
            BY RecordFacts DEF Steps, TypeInv, TypeOK
        <3> QED
            BY <2>1, <3>1, EnterTyping DEF LoadToReconcile, TypeInv, TypeOK
    <2>2. CASE SaveReconciled(h)
        <3>1. /\ "reconciled" \in Steps
              /\ current[h] \in Effects
              /\ held[h][current[h]] \in Records
            BY <2>2, <1>0 DEF Steps, SaveReconciled, Handling
        <3> QED
            BY <2>2, <3>1, EnterTyping, SaveTyping
            DEF SaveReconciled, TypeInv, TypeOK
    <2>3. CASE EmitReconciled(h)
        <3>1. /\ "EFFECT_RECONCILED" \in EventTypes
              /\ current[h] \in Effects
              /\ held[h][current[h]].exec \in Execs \cup {NoExec}
            BY <2>3, <1>0, RecordFacts DEF EventTypes, EmitReconciled, Handling
        <3> QED
            BY <2>3, <3>1, EmitTyping, LeaveTyping
            DEF EmitReconciled, TypeInv, TypeOK
    <2> QED
        BY <1>6, <2>1, <2>2, <2>3 DEF Reconcile
<1>7. ASSUME NEW h \in Hosts, Crash(h) PROVE TypeInv'
    BY <1>7, RecordFacts
    DEF Crash, TypeInv, TypeOK, Steps, HandlersHaveAnEffect, Handling,
        NothingHeld
<1>8. ASSUME NEW h \in Hosts, Resume(h) PROVE TypeInv'
    BY <1>8
    DEF Resume, TypeInv, TypeOK, Steps, HandlersHaveAnEffect, Handling
<1>9. ASSUME NEW x \in Execs, CallReturns(x) PROVE TypeInv'
    BY <1>9
    DEF CallReturns, TypeInv, TypeOK, CallStates, HandlersHaveAnEffect
<1> QED
    BY <1>1, <1>2, <1>3, <1>4, <1>5, <1>6, <1>7, <1>8, <1>9 DEF Next

\* The tables, the hosts' hands and the machine log keep their shape in every
\* behaviour, whatever the deployment: no handler saves a malformed record or
\* emits an event about nothing.
THEOREM Typing == Spec => []TypeOK
<1>1. Spec => []TypeInv
    BY TypeInit, TypeStep, PTL DEF Spec
<1>2. TypeInv => TypeOK
    BY DEF TypeInv
<1> QED
    BY <1>1, <1>2, PTL

-----------------------------------------------------------------------------
(* The supervised deployment.                                              *)

\* What Enter does to the host itself and to the others.
LEMMA EnterEffect ==
    ASSUME TypeInv, NEW h \in Hosts, NEW s, NEW e \in Effects, NEW r,
           Enter(h, s, e, r)
    PROVE  /\ step'[h] = s /\ current'[h] = e /\ held'[h][e] = r
           /\ \A g \in Hosts \ {h} : /\ step'[g] = step[g]
                                     /\ current'[g] = current[g]
                                     /\ held'[g] = held[g]
BY DEF Enter, NothingHeld, TypeInv, TypeOK

\* What Leave does to the host itself and to the others.
LEMMA LeaveEffect ==
    ASSUME TypeInv, NEW h \in Hosts, Leave(h)
    PROVE  /\ step'[h] = "idle"
           /\ \A g \in Hosts \ {h} : /\ step'[g] = step[g]
                                     /\ current'[g] = current[g]
                                     /\ held'[g] = held[g]
BY DEF Leave, TypeInv, TypeOK

\* What Save does to the saved effect and to the others.
LEMMA SaveEffect ==
    ASSUME TypeInv, NEW e \in Effects, NEW r, Save(e, r)
    PROVE  /\ effects'[e] = r
           /\ \A d \in Effects \ {e} : effects'[d] = effects[d]
BY DEF Save, TypeInv, TypeOK

\* Host g has loaded the record of e and will act on what it loaded.
Relies(g, e) ==
    \/ /\ step[g] \in Executing \cup {"authorizing", "reconciling"}
       /\ current[g] = e
    \/ /\ step[g] = "recovering"
       /\ held[g][e].status = "RUNNING"

\* Steps in which a host relies on nothing.
Resting == Steps \ (Executing \cup {"authorizing", "reconciling", "recovering"})

Undisturbed(g) ==
    step'[g] = step[g] /\ current'[g] = current[g] /\ held'[g] = held[g]

\* What the store says of an effect that a host relies on.
LEMMA RelianceStatus ==
    ASSUME IInv, NEW g \in Hosts, NEW e \in Effects, Relies(g, e)
    PROVE  /\ step[g] \in Executing \cup {"recovering"}
                  => effects[e].status = "RUNNING"
           /\ step[g] = "authorizing"
                  => effects[e].status \in {"PROPOSED", "FAILED"}
           /\ step[g] = "reconciling" => effects[e].status = "UNKNOWN"
           /\ step[g] \in Executing
                            \cup {"authorizing", "reconciling", "recovering"}
BY DEF IInv, Relies, ExecutionIsCurrent, AuthorizationIsCurrent,
       RecoveryIsCurrent, ReconciliationIsCurrent, Authorizable, Executing

\* At most one host relies on an effect: the controller is alone, recovery
\* excludes executions and an attempt has one executor.
LEMMA OneRelies ==
    ASSUME IInv, Supervised, NEW g \in Hosts, NEW h \in Hosts,
           NEW e \in Effects, Relies(g, e), Relies(h, e)
    PROVE  g = h
<1>1. CASE step[g] \in Executing /\ step[h] \in Executing
    BY <1>1 DEF IInv, OneExecutorPerEffect, Relies, Executing
<1>2. CASE step[g] \notin Executing /\ step[h] \notin Executing
    <2>1. g \in Controllers /\ h \in Controllers
        BY <1>2 DEF IInv, ControllersOnly, Relies
    <2> QED
        BY <2>1 DEF Supervised
<1>3. ASSUME NEW i \in Hosts, NEW j \in Hosts, Relies(i, e), Relies(j, e),
             step[i] \in Executing, step[j] \notin Executing
      PROVE  FALSE
    <2>1. step[j] = "recovering"
        BY <1>3, RelianceStatus
    <2>2. held[j][e].status = "RUNNING" /\ current[i] = e
        BY <1>3, <2>1 DEF Relies, Executing
    <2> QED
        BY <1>3, <2>1, <2>2 DEF IInv, RecoveryIsCurrent
<1> QED
    BY <1>1, <1>2, <1>3

\* A step that touches neither the store nor the outside world, and after
\* which every host is where it was or relies on nothing.
LEMMA QuietStep ==
    ASSUME IInv, TypeInv', UNCHANGED <<effects, calls, owner>>,
           \A g \in Hosts : Undisturbed(g) \/ step'[g] \in Resting
    PROVE  IInv'
<1> USE DEF IInv, Undisturbed, Resting, Executing
<1>1. ControllersOnly'
    BY DEF ControllersOnly
<1>2. AuthorizationIsCurrent'
    BY DEF AuthorizationIsCurrent, Authorizable
<1>3. ExecutionIsCurrent'
    BY DEF ExecutionIsCurrent
<1>4. OneExecutorPerEffect'
    BY DEF OneExecutorPerEffect
<1>5. RecoveryIsCurrent'
    BY DEF RecoveryIsCurrent
<1>6. ReconciliationIsCurrent'
    BY DEF ReconciliationIsCurrent, Outcome
<1>7. /\ OneRecordPerKey'
      /\ UnresolvedNamesItsAttempt'
      /\ InFlightIsUnresolved'
      /\ RecordedSuccessIsReal'
    BY DEF OneRecordPerKey, UnresolvedNamesItsAttempt, InFlightIsUnresolved,
           RecordedSuccessIsReal
<1> QED
    BY <1>1, <1>2, <1>3, <1>4, <1>5, <1>6, <1>7

\* A host saves a record that it alone relies on, and then rests.
LEMMA SaveStep ==
    ASSUME IInv, TypeInv', NEW h \in Hosts, NEW e \in Effects, NEW r,
           Save(e, r), UNCHANGED <<calls, owner>>,
           \A g \in Hosts \ {h} : Undisturbed(g) /\ ~Relies(g, e),
           step'[h] \in Resting,
           r.status \notin {"RUNNING", "UNKNOWN"},
           r.status = "SUCCEEDED" => r.exec \in Execs /\ calls[r.exec] = "ok",
           \A x \in Execs : calls[x] = "inflight" => owner[x] # e,
           \/ effects[e].status # "ABSENT"
           \/ \A d \in Effects : KeyOf[d] = KeyOf[e]
                                    => effects[d].status = "ABSENT"
    PROVE  IInv'
<1> USE DEF IInv, Undisturbed, Resting, Executing
<1>0. /\ effects'[e] = r
      /\ \A d \in Effects \ {e} : effects'[d] = effects[d]
    BY SaveEffect
<1>1. ControllersOnly'
    BY DEF ControllersOnly
<1>2. AuthorizationIsCurrent'
    <2> SUFFICES ASSUME NEW g \in Hosts, step'[g] = "authorizing"
                 PROVE  /\ effects'[current'[g]] = held'[g][current'[g]]
                        /\ Authorizable(held'[g][current'[g]])
        BY DEF AuthorizationIsCurrent, Authorizable
    <2>1. g # h /\ step[g] = "authorizing" /\ current[g] \in Effects
        BY DEF TypeInv, HandlersHaveAnEffect, Handling
    <2>2. current[g] # e
        BY <2>1 DEF Relies
    <2> QED
        BY <1>0, <2>1, <2>2 DEF AuthorizationIsCurrent, Authorizable
<1>3. ExecutionIsCurrent'
    <2> SUFFICES ASSUME NEW g \in Hosts, step'[g] \in Executing
                 PROVE  /\ g # h
                        /\ current[g] \in Effects \ {e}
        BY <1>0 DEF ExecutionIsCurrent
    <2> QED
        BY DEF Relies, TypeInv, HandlersHaveAnEffect, Handling
<1>4. OneExecutorPerEffect'
    BY DEF OneExecutorPerEffect
<1>5. RecoveryIsCurrent'
    <2> SUFFICES ASSUME NEW g \in Hosts, NEW d \in Effects,
                        step'[g] = "recovering",
                        held'[g][d].status = "RUNNING"
                 PROVE  /\ effects'[d] = held'[g][d]
                        /\ \A f \in Hosts : step'[f] \in Executing
                                                => current'[f] # d
        BY DEF RecoveryIsCurrent
    <2>1. g # h /\ step[g] = "recovering" /\ held[g][d].status = "RUNNING"
        OBVIOUS
    <2>2. d # e
        BY <2>1 DEF Relies
    <2> QED
        BY <1>0, <2>1, <2>2 DEF RecoveryIsCurrent
<1>6. ReconciliationIsCurrent'
    <2> SUFFICES ASSUME NEW g \in Hosts, step'[g] = "reconciling"
                 PROVE  /\ g # h
                        /\ current[g] \in Effects \ {e}
        BY <1>0 DEF ReconciliationIsCurrent, Outcome
    <2> QED
        BY DEF Relies, TypeInv, HandlersHaveAnEffect, Handling
<1>7. OneRecordPerKey'
    BY <1>0 DEF OneRecordPerKey
<1>8. UnresolvedNamesItsAttempt' /\ RecordedSuccessIsReal'
    BY <1>0 DEF UnresolvedNamesItsAttempt, RecordedSuccessIsReal
<1>9. InFlightIsUnresolved'
    BY <1>0 DEF InFlightIsUnresolved
<1> QED
    BY <1>1, <1>2, <1>3, <1>4, <1>5, <1>6, <1>7, <1>8, <1>9

\* The inductive invariant holds initially.
LEMMA SupervisedInit == Init => IInv
<1> SUFFICES ASSUME Init PROVE IInv
    OBVIOUS
<1>1. TypeInv
    BY TypeInit
<1>2. \A e \in Effects : effects[e].status = "ABSENT"
    BY DEF Init, Absent
<1>3. \A h \in Hosts : step[h] = "idle"
    BY DEF Init
<1>4. \A x \in Execs : calls[x] = "unused"
    BY DEF Init
<1> QED
    BY <1>1, <1>2, <1>3, <1>4
    DEF IInv, OneRecordPerKey, ControllersOnly, AuthorizationIsCurrent,
        ExecutionIsCurrent, OneExecutorPerEffect, RecoveryIsCurrent,
        ReconciliationIsCurrent, UnresolvedNamesItsAttempt,
        InFlightIsUnresolved, RecordedSuccessIsReal, Executing

\* An effect that is not RUNNING or UNKNOWN has no operation in flight.
LEMMA ResolvedIsNotInFlight ==
    ASSUME IInv, NEW e \in Effects,
           effects[e].status \notin {"RUNNING", "UNKNOWN"}
    PROVE  \A x \in Execs : calls[x] = "inflight" => owner[x] # e
BY DEF IInv, InFlightIsUnresolved

\* propose_effect preserves the invariant: the unique index keeps a key to one
\* record.
LEMMA ProposeStep ==
    ASSUME IInv, TypeInv', Supervised, NEW h \in Hosts, Propose(h)
    PROVE  IInv'
<1> USE DEF World
<1>0. TypeInv
    BY DEF IInv
<1>1. ASSUME NEW e \in Effects, FindByKey(h, e) PROVE IInv'
    BY <1>0, <1>1, EnterEffect, QuietStep
    DEF FindByKey, Undisturbed, Resting, Steps, Executing
<1>2. CASE SaveProposal(h)
    <2> DEFINE e == current[h]
    <2>1. e \in Effects
        BY <1>0, <1>2 DEF SaveProposal, TypeInv, HandlersHaveAnEffect, Handling
    <2>2. CASE KeyTaken(e)
        BY <1>0, <1>2, <2>2, LeaveEffect, QuietStep
        DEF SaveProposal, Undisturbed, Resting, Steps, Executing
    <2>3. CASE ~KeyTaken(e)
        <3>1. \A d \in Effects : KeyOf[d] = KeyOf[e]
                                    => effects[d].status = "ABSENT"
            BY <2>3 DEF KeyTaken, Sharing, Supervised
        <3>2. effects[e].status = "ABSENT"
            BY <2>1, <3>1
        <3>3. \A g \in Hosts : ~Relies(g, e)
            BY <2>1, <3>2, RelianceStatus DEF Executing
        <3>4. Enter(h, "proposed", e, Fresh) /\ Save(e, Fresh)
              /\ UNCHANGED <<calls, owner>>
            BY <1>2, <2>3 DEF SaveProposal
        <3>5. /\ \A g \in Hosts \ {h} : Undisturbed(g)
              /\ step'[h] \in Resting
            BY <1>0, <2>1, <3>4, EnterEffect
            DEF Undisturbed, Resting, Steps, Executing
        <3> HIDE DEF e
        <3> QED
            BY <2>1, <3>1, <3>2, <3>3, <3>4, <3>5, SaveStep,
               ResolvedIsNotInFlight
            DEF Fresh
    <2> QED
        BY <2>2, <2>3
<1>3. CASE EmitProposed(h)
    BY <1>0, <1>3, LeaveEffect, QuietStep
    DEF EmitProposed, Undisturbed, Resting, Steps, Executing
<1> QED
    BY <1>1, <1>2, <1>3 DEF Propose

\* authorize_effect preserves it: the only controller re-arms a record that no
\* attempt owns.
LEMMA AuthorizeStep ==
    ASSUME IInv, TypeInv', Supervised, NEW h \in Hosts, Authorize(h)
    PROVE  IInv'
<1> USE DEF World
<1>0. TypeInv
    BY DEF IInv
<1>1. ASSUME NEW e \in Effects, LoadToAuthorize(h, e) PROVE IInv'
    <2>0. /\ step'[h] = "authorizing" /\ current'[h] = e
          /\ held'[h][e] = effects[e]
          /\ \A g \in Hosts \ {h} : Undisturbed(g)
          /\ UNCHANGED <<effects, calls, owner>>
          /\ h \in Controllers
          /\ Authorizable(effects[e])
        BY <1>0, <1>1, EnterEffect DEF LoadToAuthorize, Undisturbed
    <2> USE DEF IInv, Undisturbed, Executing
    <2>1. ControllersOnly' /\ AuthorizationIsCurrent'
        BY <2>0 DEF ControllersOnly, AuthorizationIsCurrent, Authorizable
    <2>2. ExecutionIsCurrent' /\ OneExecutorPerEffect'
        BY <2>0 DEF ExecutionIsCurrent, OneExecutorPerEffect
    <2>3. RecoveryIsCurrent'
        BY <2>0 DEF RecoveryIsCurrent
    <2>4. ReconciliationIsCurrent'
        BY <2>0 DEF ReconciliationIsCurrent, Outcome
    <2>5. /\ OneRecordPerKey' /\ UnresolvedNamesItsAttempt'
          /\ InFlightIsUnresolved' /\ RecordedSuccessIsReal'
        BY <2>0 DEF OneRecordPerKey, UnresolvedNamesItsAttempt,
                    InFlightIsUnresolved, RecordedSuccessIsReal
    <2> QED
        BY <2>1, <2>2, <2>3, <2>4, <2>5
<1>2. CASE SaveAuthorized(h)
    <2> DEFINE e == current[h]
    <2> DEFINE r == [held[h][e] EXCEPT !.status = "AUTHORIZED"]
    <2>1. e \in Effects /\ held[h][e] \in Records
        BY <1>0, <1>2
        DEF SaveAuthorized, TypeInv, TypeOK, HandlersHaveAnEffect, Handling
    <2>2. Relies(h, e) /\ effects[e].status \in {"PROPOSED", "FAILED"}
        BY <1>2, <2>1, RelianceStatus DEF Relies, SaveAuthorized
    <2>3. r.status = "AUTHORIZED"
        BY <2>1 DEF Records
    <2>4. Enter(h, "authorized", e, r) /\ Save(e, r)
          /\ UNCHANGED <<calls, owner>>
        BY <1>2 DEF SaveAuthorized
    <2> HIDE DEF e, r
    <2>5. \A g \in Hosts \ {h} : Undisturbed(g) /\ ~Relies(g, e)
        BY <1>0, <2>1, <2>2, <2>4, EnterEffect, OneRelies DEF Undisturbed
    <2>6. step'[h] \in Resting
        BY <1>0, <2>1, <2>4, EnterEffect DEF Resting, Steps, Executing
    <2> QED
        BY <2>1, <2>2, <2>3, <2>4, <2>5, <2>6, SaveStep, ResolvedIsNotInFlight
<1>3. CASE EmitAuthorized(h)
    BY <1>0, <1>3, LeaveEffect, QuietStep
    DEF EmitAuthorized, Undisturbed, Resting, Steps, Executing
<1> QED
    BY <1>1, <1>2, <1>3 DEF Authorize

\* claim_effect_attempt preserves it: the claimed record had no executor.
LEMMA ClaimStep ==
    ASSUME IInv, TypeInv', Supervised, NEW h \in Hosts, NEW e \in Effects,
           NEW x \in Execs, ClaimAttempt(h, e, x)
    PROVE  IInv'
<1>0. TypeInv
    BY DEF IInv
<1> DEFINE r == [status |-> "RUNNING",
                 attempts |-> effects[e].attempts + 1, exec |-> x]
<1>1. effects[e].status = "AUTHORIZED" /\ calls[x] = "unused"
    BY DEF ClaimAttempt, Claimable, ReadyForAttempt, Supervised
<1>2. /\ r.status = "RUNNING" /\ r.exec = x
      /\ Save(e, r) /\ Enter(h, "claimed", e, r)
    BY DEF ClaimAttempt
<1> HIDE DEF r
<1>3. /\ effects'[e] = r
      /\ \A d \in Effects \ {e} : effects'[d] = effects[d]
      /\ step'[h] = "claimed" /\ current'[h] = e /\ held'[h][e] = r
      /\ \A g \in Hosts \ {h} : Undisturbed(g)
    BY <1>0, <1>2, SaveEffect, EnterEffect DEF Undisturbed
<1>4. /\ calls'[x] = "claimed" /\ owner'[x] = e
      /\ \A y \in Execs \ {x} : calls'[y] = calls[y] /\ owner'[y] = owner[y]
    BY <1>0 DEF ClaimAttempt, TypeInv, TypeOK
<1>5. \A g \in Hosts : ~Relies(g, e)
    BY <1>1, RelianceStatus DEF Executing
<1>6. \A g \in Hosts : step[g] \in Executing \cup {"authorizing", "reconciling"}
                          => current[g] \in Effects \ {e}
    BY <1>0, <1>5
    DEF Relies, TypeInv, HandlersHaveAnEffect, Handling, Executing
<1> USE DEF Undisturbed, Executing
<1>7. ControllersOnly' /\ OneRecordPerKey'
    BY <1>1, <1>3 DEF IInv, ControllersOnly, OneRecordPerKey
<1>8. AuthorizationIsCurrent'
    BY <1>3, <1>6 DEF IInv, AuthorizationIsCurrent, Authorizable
<1>9. ExecutionIsCurrent'
    <2> SUFFICES ASSUME NEW g \in Hosts \ {h}, step[g] \in Executing
                 PROVE  /\ current[g] \in Effects \ {e}
                        /\ held[g][current[g]].exec \in Execs \ {x}
        BY <1>2, <1>3, <1>4 DEF IInv, ExecutionIsCurrent
    <2> QED
        BY <1>1, <1>6 DEF IInv, ExecutionIsCurrent
<1>10. OneExecutorPerEffect'
    BY <1>3, <1>6 DEF IInv, OneExecutorPerEffect
<1>11. RecoveryIsCurrent'
    <2> SUFFICES ASSUME NEW g \in Hosts, NEW d \in Effects,
                        step'[g] = "recovering",
                        held'[g][d].status = "RUNNING"
                 PROVE  /\ effects'[d] = held'[g][d]
                        /\ \A f \in Hosts : step'[f] \in Executing
                                                => current'[f] # d
        BY DEF RecoveryIsCurrent
    <2>1. g # h /\ step[g] = "recovering" /\ held[g][d].status = "RUNNING"
        BY <1>3
    <2>2. d # e
        BY <1>5, <2>1 DEF Relies
    <2> QED
        BY <1>3, <2>1, <2>2 DEF IInv, RecoveryIsCurrent
<1>12. UnresolvedNamesItsAttempt'
    BY <1>1, <1>2, <1>3, <1>4 DEF IInv, UnresolvedNamesItsAttempt
<1>13. ReconciliationIsCurrent'
    <2> SUFFICES ASSUME NEW g \in Hosts \ {h}, step[g] = "reconciling"
                 PROVE  /\ current[g] \in Effects \ {e}
                        /\ effects[current[g]].exec \in Execs \ {x}
        BY <1>3, <1>4 DEF IInv, ReconciliationIsCurrent, Outcome
    <2> QED
        BY <1>1, <1>6
        DEF IInv, ReconciliationIsCurrent, UnresolvedNamesItsAttempt
<1>14. InFlightIsUnresolved'
    BY <1>1, <1>3, <1>4 DEF IInv, InFlightIsUnresolved
<1>15. RecordedSuccessIsReal'
    BY <1>1, <1>2, <1>3, <1>4 DEF IInv, RecordedSuccessIsReal
<1> QED
    BY <1>7, <1>8, <1>9, <1>10, <1>11, <1>12, <1>13, <1>14, <1>15 DEF IInv

\* Emitting EFFECT_STARTED preserves it.
LEMMA StartStep ==
    ASSUME IInv, TypeInv', NEW h \in Hosts, EmitStarted(h)
    PROVE  IInv'
<1>0. /\ step[h] = "claimed" /\ step'[h] = "started"
      /\ current[h] \in Effects
      /\ current'[h] = current[h]
      /\ held'[h][current[h]] = held[h][current[h]]
      /\ \A g \in Hosts \ {h} : Undisturbed(g)
      /\ UNCHANGED <<effects, calls, owner>>
    <2>1. current[h] \in Effects
        BY DEF IInv, TypeInv, HandlersHaveAnEffect, Handling, EmitStarted
    <2> QED
        BY <2>1, EnterEffect DEF IInv, EmitStarted, Undisturbed, World
<1> USE DEF IInv, Undisturbed, Executing
<1>1. ControllersOnly' /\ AuthorizationIsCurrent'
    BY <1>0 DEF ControllersOnly, AuthorizationIsCurrent, Authorizable
<1>2. ExecutionIsCurrent' /\ OneExecutorPerEffect'
    BY <1>0 DEF ExecutionIsCurrent, OneExecutorPerEffect
<1>3. RecoveryIsCurrent'
    BY <1>0 DEF RecoveryIsCurrent
<1>4. ReconciliationIsCurrent'
    BY <1>0 DEF ReconciliationIsCurrent, Outcome
<1>5. /\ OneRecordPerKey' /\ UnresolvedNamesItsAttempt'
      /\ InFlightIsUnresolved' /\ RecordedSuccessIsReal'
    BY <1>0 DEF OneRecordPerKey, UnresolvedNamesItsAttempt,
                InFlightIsUnresolved, RecordedSuccessIsReal
<1> QED
    BY <1>1, <1>2, <1>3, <1>4, <1>5

\* So does the call of the external system.
LEMMA InvokeStep ==
    ASSUME IInv, TypeInv', NEW h \in Hosts, Invoke(h)
    PROVE  IInv'
<1> DEFINE e == current[h]
<1> DEFINE x == held[h][e].exec
<1>0. /\ step[h] = "started" /\ step'[h] = "calling"
      /\ e \in Effects
      /\ current'[h] = e
      /\ held'[h][e] = held[h][e]
      /\ \A g \in Hosts \ {h} : Undisturbed(g)
      /\ UNCHANGED <<effects, owner>>
    <2>1. e \in Effects
        BY DEF IInv, TypeInv, HandlersHaveAnEffect, Handling, Invoke
    <2> QED
        BY <2>1, EnterEffect DEF IInv, Invoke, Undisturbed
<1>1. /\ effects[e].status = "RUNNING" /\ effects[e].exec = x
      /\ x \in Execs /\ owner[x] = e /\ calls[x] = "claimed"
    BY <1>0 DEF IInv, ExecutionIsCurrent, Executing
<1>2. /\ calls'[x] = "inflight"
      /\ \A y \in Execs \ {x} : calls'[y] = calls[y]
    BY <1>1 DEF Invoke, IInv, TypeInv, TypeOK
<1> USE DEF Undisturbed, Executing
<1>3. ControllersOnly' /\ AuthorizationIsCurrent'
    BY <1>0 DEF IInv, ControllersOnly, AuthorizationIsCurrent, Authorizable
<1>4. ExecutionIsCurrent'
    <2>1. ASSUME NEW g \in Hosts \ {h}, step[g] \in Executing
          PROVE  current[g] # e /\ held[g][current[g]].exec # x
        BY <1>0, <1>1, <2>1 DEF IInv, OneExecutorPerEffect, ExecutionIsCurrent
    <2> HIDE DEF e
    <2>2. \A g \in Hosts \ {h} : step'[g] \in Executing =>
              LET r == held'[g][current'[g]] IN
              /\ effects'[current'[g]].status = "RUNNING"
              /\ effects'[current'[g]].exec = r.exec
              /\ effects'[current'[g]].attempts = r.attempts
              /\ r.exec \in Execs
              /\ owner'[r.exec] = current'[g]
              /\ IF step'[g] = "calling"
                 THEN calls'[r.exec] \in {"inflight", "ok", "error"}
                 ELSE calls'[r.exec] = "claimed"
        BY <1>0, <1>2, <2>1 DEF IInv, ExecutionIsCurrent
    <2>3. effects[e].attempts = held[h][e].attempts
        BY <1>0 DEF IInv, ExecutionIsCurrent, e
    <2> QED
        BY <1>0, <1>1, <1>2, <2>2, <2>3 DEF ExecutionIsCurrent
<1>5. OneExecutorPerEffect'
    BY <1>0 DEF IInv, OneExecutorPerEffect
<1>6. RecoveryIsCurrent'
    BY <1>0 DEF IInv, RecoveryIsCurrent
<1>7. ReconciliationIsCurrent'
    <2> SUFFICES ASSUME NEW g \in Hosts \ {h}, step[g] = "reconciling"
                 PROVE  effects[current[g]].exec \in Execs \ {x}
        BY <1>0, <1>2 DEF IInv, ReconciliationIsCurrent, Outcome
    <2>1. current[g] \in Effects /\ effects[current[g]].status = "UNKNOWN"
        BY DEF IInv, ReconciliationIsCurrent, TypeInv, HandlersHaveAnEffect,
               Handling
    <2> QED
        BY <1>1, <2>1 DEF IInv, UnresolvedNamesItsAttempt
<1>8. /\ OneRecordPerKey' /\ UnresolvedNamesItsAttempt'
      /\ InFlightIsUnresolved'
    BY <1>0, <1>1, <1>2 DEF IInv, OneRecordPerKey, UnresolvedNamesItsAttempt,
                            InFlightIsUnresolved
<1>9. RecordedSuccessIsReal'
    BY <1>0, <1>1, <1>2 DEF IInv, RecordedSuccessIsReal
<1> QED
    BY <1>3, <1>4, <1>5, <1>6, <1>7, <1>8, <1>9 DEF IInv

\* So does its answer.
LEMMA ReturnStep ==
    ASSUME IInv, TypeInv', NEW x \in Execs, CallReturns(x)
    PROVE  IInv'
<1>0. /\ calls[x] = "inflight" /\ calls'[x] \in {"ok", "error"}
      /\ \A y \in Execs \ {x} : calls'[y] = calls[y]
      /\ UNCHANGED <<effects, step, current, held, owner>>
    BY DEF CallReturns, IInv, TypeInv, TypeOK
<1> USE DEF Executing
<1>1. /\ ControllersOnly' /\ AuthorizationIsCurrent' /\ OneExecutorPerEffect'
      /\ RecoveryIsCurrent' /\ OneRecordPerKey'
    BY <1>0 DEF IInv, ControllersOnly, AuthorizationIsCurrent, Authorizable,
                OneExecutorPerEffect, RecoveryIsCurrent, OneRecordPerKey
<1>2. ExecutionIsCurrent'
    BY <1>0 DEF IInv, ExecutionIsCurrent
<1>3. ReconciliationIsCurrent'
    <2> SUFFICES ASSUME NEW g \in Hosts, step[g] = "reconciling"
                 PROVE  effects[current[g]].exec \in Execs \ {x}
        BY <1>0 DEF IInv, ReconciliationIsCurrent, Outcome
    <2>1. current[g] \in Effects /\ effects[current[g]].status = "UNKNOWN"
        BY DEF IInv, ReconciliationIsCurrent, TypeInv, HandlersHaveAnEffect,
               Handling
    <2>2. effects[current[g]].exec # x
        BY <1>0 DEF IInv, ReconciliationIsCurrent
    <2> QED
        BY <2>1, <2>2 DEF IInv, UnresolvedNamesItsAttempt
<1>4. UnresolvedNamesItsAttempt' /\ InFlightIsUnresolved'
    BY <1>0 DEF IInv, UnresolvedNamesItsAttempt, InFlightIsUnresolved
<1>5. RecordedSuccessIsReal'
    BY <1>0 DEF IInv, RecordedSuccessIsReal
<1> QED
    BY <1>1, <1>2, <1>3, <1>4, <1>5 DEF IInv

\* finish_effect_attempt preserves it: the host owns the attempt it finalizes.
LEMMA FinishStep ==
    ASSUME IInv, TypeInv', Supervised, NEW h \in Hosts, FinishAttempt(h)
    PROVE  IInv'
<1> DEFINE e == current[h]
<1> DEFINE mine == held[h][e]
<1> DEFINE r == [effects[e] EXCEPT !.status = Outcome(mine.exec)]
<1>0. TypeInv
    BY DEF IInv
<1>1. e \in Effects /\ step[h] = "calling" /\ effects[e] \in Records
    BY <1>0 DEF FinishAttempt, TypeInv, TypeOK, HandlersHaveAnEffect, Handling
<1>2. /\ effects[e].exec = mine.exec /\ mine.exec \in Execs
      /\ effects[e].status = "RUNNING"
      /\ calls[mine.exec] \in {"ok", "error"}
    BY <1>1 DEF IInv, ExecutionIsCurrent, Executing, FinishAttempt
<1>3. r.status = Outcome(mine.exec) /\ r.exec = mine.exec
    BY <1>1, <1>2 DEF Records
<1>4. UNCHANGED <<calls, owner>>
    BY DEF FinishAttempt, World
<1>5. \/ Save(e, r) /\ Enter(h, "finished", e, r)
      \/ Leave(h) /\ UNCHANGED effects
    BY DEF FinishAttempt
<1> HIDE DEF r
<1>6. CASE Save(e, r) /\ Enter(h, "finished", e, r)
    <2>1. Relies(h, e)
        BY <1>1 DEF Relies, Executing
    <2>2. /\ \A g \in Hosts \ {h} : Undisturbed(g) /\ ~Relies(g, e)
          /\ step'[h] \in Resting
        BY <1>0, <1>1, <1>6, <2>1, EnterEffect, OneRelies
        DEF Undisturbed, Resting, Steps, Executing
    <2>3. \A x \in Execs : calls[x] = "inflight" => owner[x] # e
        BY <1>1, <1>2 DEF IInv, InFlightIsUnresolved
    <2>4. /\ r.status \notin {"RUNNING", "UNKNOWN"}
          /\ r.status = "SUCCEEDED" => r.exec \in Execs /\ calls[r.exec] = "ok"
        BY <1>2, <1>3 DEF Outcome
    <2> HIDE DEF e
    <2> QED
        BY <1>1, <1>2, <1>4, <1>6, <2>2, <2>3, <2>4, SaveStep
<1>7. CASE Leave(h) /\ UNCHANGED effects
    BY <1>0, <1>4, <1>7, LeaveEffect, QuietStep
    DEF Undisturbed, Resting, Steps, Executing
<1> QED
    BY <1>5, <1>6, <1>7

\* So every step of execute_effect preserves it.
LEMMA ExecuteStep ==
    ASSUME IInv, TypeInv', Supervised, NEW h \in Hosts, Execute(h)
    PROVE  IInv'
<1>1. CASE EmitFinished(h)
    BY <1>1, LeaveEffect, QuietStep
    DEF EmitFinished, Undisturbed, Resting, Steps, Executing, World, IInv
<1> QED
    BY <1>1, ClaimStep, StartStep, InvokeStep, FinishStep DEF Execute

\* The record of a RUNNING effect that nobody is executing becomes UNKNOWN,
\* for any number of effects, by the hand of the controller h.
LEMMA SweepStep ==
    ASSUME IInv, TypeInv', Supervised, NEW h \in Controllers, NEW S \in SUBSET Effects,
           step[h] \in {"idle", "recovering"},
           step'[h] \in {"idle", "recovering"},
           \A g \in Hosts \ {h} : Undisturbed(g),
           UNCHANGED <<calls, owner>>,
           \A e \in S : /\ effects[e].status = "RUNNING"
                        /\ effects'[e] = Unresolved(effects[e])
                        /\ \A g \in Hosts : step[g] \in Executing
                                                => current[g] # e,
           \A e \in Effects \ S : effects'[e] = effects[e],
           \A e \in Effects : held'[h][e].status = "RUNNING" =>
               /\ effects'[e] = held'[h][e]
               /\ \A g \in Hosts : step[g] \in Executing => current[g] # e
    PROVE  IInv'
<1>0. TypeInv /\ h \in Hosts
    BY ConstantsAssumption DEF IInv
<1>1. \A e \in S : /\ effects'[e].status = "UNKNOWN"
                   /\ effects'[e].exec = effects[e].exec
    <2> SUFFICES ASSUME NEW e \in S
                 PROVE  /\ effects'[e].status = "UNKNOWN"
                        /\ effects'[e].exec = effects[e].exec
        OBVIOUS
    <2>1. effects[e] \in Records /\ effects'[e] = Unresolved(effects[e])
        BY <1>0 DEF TypeInv, TypeOK
    <2> QED
        BY <2>1 DEF Unresolved, Records
<1> USE DEF Undisturbed, Executing
<1>2. ControllersOnly'
    BY <1>0 DEF IInv, ControllersOnly
<1>3. AuthorizationIsCurrent'
    <2> SUFFICES ASSUME NEW g \in Hosts \ {h}, step[g] = "authorizing"
                 PROVE  current[g] \in Effects \ S
        BY <1>0 DEF IInv, AuthorizationIsCurrent, Authorizable
    <2> QED
        BY <1>0 DEF IInv, AuthorizationIsCurrent, Authorizable, TypeInv,
                    HandlersHaveAnEffect, Handling
<1>4. ExecutionIsCurrent'
    <2> SUFFICES ASSUME NEW g \in Hosts \ {h}, step[g] \in Executing
                 PROVE  current[g] \in Effects \ S
        BY <1>0 DEF IInv, ExecutionIsCurrent
    <2> QED
        BY <1>0 DEF TypeInv, HandlersHaveAnEffect, Handling
<1>5. OneExecutorPerEffect'
    BY <1>0 DEF IInv, OneExecutorPerEffect
<1>6. RecoveryIsCurrent'
    <2>1. \A g \in Hosts \ {h} : step[g] # "recovering"
        BY <1>0 DEF IInv, ControllersOnly, Supervised
    <2> QED
        BY <1>0, <2>1 DEF RecoveryIsCurrent
<1>7. ReconciliationIsCurrent'
    <2>1. \A g \in Hosts : step'[g] # "reconciling"
        BY <1>0 DEF IInv, ControllersOnly, Supervised
    <2> QED
        BY <2>1 DEF ReconciliationIsCurrent
<1>8. OneRecordPerKey'
    BY <1>1 DEF IInv, OneRecordPerKey
<1>9. UnresolvedNamesItsAttempt' /\ RecordedSuccessIsReal'
    BY <1>1 DEF IInv, UnresolvedNamesItsAttempt, RecordedSuccessIsReal
<1>10. InFlightIsUnresolved'
    BY <1>1 DEF IInv, InFlightIsUnresolved
<1> QED
    BY <1>2, <1>3, <1>4, <1>5, <1>6, <1>7, <1>8, <1>9, <1>10 DEF IInv

\* Recovery preserves it: it is exclusive of executions, and only the controller
\* changes what it has listed.
LEMMA RecoverStep ==
    ASSUME IInv, TypeInv', Supervised, NEW h \in Hosts, Recover(h)
    PROVE  IInv'
<1> USE DEF World
<1>0. TypeInv /\ TypeOK
    BY DEF IInv, TypeInv
<1>1. CASE RecoverAtomically(h)
    <2>1. /\ step[h] = "idle" /\ h \in Controllers
          /\ \A g \in Hosts : step[g] \notin Executing
        BY <1>1 DEF RecoverAtomically, MayRecover, Supervised
    <2>2. /\ step'[h] = "recovering"
          /\ \A g \in Hosts \ {h} : Undisturbed(g)
          /\ UNCHANGED <<calls, owner>>
        BY <1>0, <1>1 DEF RecoverAtomically, Undisturbed, TypeOK
    <2>3. /\ \A e \in Running : effects'[e] = Unresolved(effects[e])
          /\ \A e \in Effects \ Running : effects'[e] = effects[e]
        BY <1>0, <1>1 DEF RecoverAtomically, Running
    <2>4. \A e \in Effects : held'[h][e].status # "RUNNING"
        <3>1. \A e \in Effects : held'[h][e] = IF e \in Running
                                  THEN Unresolved(effects[e]) ELSE Absent
            BY <1>0, <1>1 DEF RecoverAtomically, TypeOK
        <3>2. \A e \in Effects : Unresolved(effects[e]).status = "UNKNOWN"
            BY <1>0 DEF Unresolved, TypeOK, Records
        <3> QED
            BY <3>1, <3>2 DEF Absent
    <2>5. Running \in SUBSET Effects
          /\ \A e \in Running : effects[e].status = "RUNNING"
        BY DEF Running
    <2> HIDE DEF Running
    <2> QED
        BY <2>1, <2>2, <2>3, <2>4, <2>5, SweepStep
<1>2. CASE ListRunning(h)
    <2>1. /\ step[h] = "idle" /\ h \in Controllers
          /\ \A g \in Hosts : step[g] \notin Executing
        BY <1>2 DEF ListRunning, MayRecover, Supervised
    <2>2. /\ step'[h] = "recovering"
          /\ \A g \in Hosts \ {h} : Undisturbed(g)
          /\ UNCHANGED <<effects, calls, owner>>
        BY <1>0, <1>2 DEF ListRunning, Undisturbed, TypeOK
    <2>3. \A e \in Effects : held'[h][e].status = "RUNNING"
                                => effects[e] = held'[h][e]
        <3>1. \A e \in Effects : held'[h][e] = IF e \in Running
                                  THEN effects[e] ELSE Absent
            BY <1>0, <1>2 DEF ListRunning, TypeOK
        <3> QED
            BY <3>1 DEF Absent
    <2>4. {} \in SUBSET Effects
        OBVIOUS
    <2> QED
        BY <2>1, <2>2, <2>3, <2>4, SweepStep
<1>3. ASSUME NEW e \in Effects, SaveUnknown(h, e) PROVE IInv'
    <2>1. /\ step[h] = "recovering" /\ h \in Controllers
          /\ held[h][e].status = "RUNNING"
        BY <1>3 DEF SaveUnknown, IInv, ControllersOnly
    <2>2. /\ effects[e] = held[h][e]
          /\ \A g \in Hosts : step[g] \in Executing => current[g] # e
        BY <2>1 DEF IInv, RecoveryIsCurrent
    <2>3. /\ step'[h] = "recovering"
          /\ \A g \in Hosts \ {h} : Undisturbed(g)
          /\ UNCHANGED <<calls, owner>>
        BY <1>0, <1>3, <2>1 DEF SaveUnknown, Undisturbed, TypeOK
    <2>4. /\ effects'[e] = Unresolved(effects[e])
          /\ \A d \in Effects \ {e} : effects'[d] = effects[d]
        BY <1>0, <1>3, <2>2, SaveEffect DEF SaveUnknown
    <2>5. /\ held'[h][e].status = "UNKNOWN"
          /\ \A d \in Effects \ {e} : held'[h][d] = held[h][d]
        <3>1. held[h][e] \in Records
            BY <1>0 DEF TypeOK
        <3>2. held' = [held EXCEPT ![h] = [held[h] EXCEPT ![e] =
                          [held[h][e] EXCEPT !.status = "UNKNOWN"]]]
            BY <1>3 DEF SaveUnknown
        <3>3. held'[h] = [held[h] EXCEPT ![e] =
                             [held[h][e] EXCEPT !.status = "UNKNOWN"]]
            BY <1>0, <3>2 DEF TypeOK
        <3> QED
            BY <1>0, <3>1, <3>3 DEF TypeOK, Records
    <2>6. \A d \in Effects : held'[h][d].status = "RUNNING" =>
              /\ effects'[d] = held'[h][d]
              /\ \A g \in Hosts : step[g] \in Executing => current[g] # d
        BY <2>1, <2>4, <2>5 DEF IInv, RecoveryIsCurrent
    <2> DEFINE S == {e}
    <2>7. /\ S \in SUBSET Effects
          /\ \A d \in S : /\ effects[d].status = "RUNNING"
                         /\ effects'[d] = Unresolved(effects[d])
                         /\ \A g \in Hosts : step[g] \in Executing
                                                 => current[g] # d
          /\ \A d \in Effects \ S : effects'[d] = effects[d]
        BY <2>1, <2>2, <2>4
    <2> HIDE DEF S
    <2> QED
        BY <2>1, <2>3, <2>6, <2>7, SweepStep
<1>4. ASSUME NEW e \in Effects, EmitUnknown(h, e) PROVE IInv'
    <2>1. step[h] = "recovering" /\ h \in Controllers
        BY <1>4 DEF EmitUnknown, IInv, ControllersOnly
    <2>2. /\ step'[h] \in {"idle", "recovering"}
          /\ \A g \in Hosts \ {h} : Undisturbed(g)
          /\ UNCHANGED <<effects, calls, owner>>
        BY <1>0, <1>4 DEF EmitUnknown, Undisturbed, TypeOK
    <2>3. \A d \in Effects : held'[h][d].status # "RUNNING"
        BY <1>0, <1>4 DEF EmitUnknown, TypeOK, Absent
    <2>4. {} \in SUBSET Effects
        OBVIOUS
    <2> QED
        BY <2>1, <2>2, <2>3, <2>4, SweepStep
<1> QED
    BY <1>1, <1>2, <1>3, <1>4 DEF Recover

\* reconcile_effect preserves it: only the controller leaves UNKNOWN.
LEMMA ReconcileStep ==
    ASSUME IInv, TypeInv', Supervised, NEW h \in Hosts, Reconcile(h)
    PROVE  IInv'
<1> USE DEF World
<1>0. TypeInv
    BY DEF IInv
<1>1. ASSUME NEW e \in Effects, LoadToReconcile(h, e) PROVE IInv'
    <2>0. /\ step'[h] = "reconciling" /\ current'[h] = e
          /\ held'[h][e] = [effects[e] EXCEPT !.status = Outcome(effects[e].exec)]
          /\ \A g \in Hosts \ {h} : Undisturbed(g)
          /\ UNCHANGED <<effects, calls, owner>>
          /\ h \in Controllers
          /\ effects[e].status = "UNKNOWN"
          /\ calls[effects[e].exec] # "inflight"
        BY <1>0, <1>1, EnterEffect DEF LoadToReconcile, Undisturbed
    <2>1. /\ held'[h][e].status = Outcome(effects[e].exec)
          /\ held'[h][e].exec = effects[e].exec
          /\ held'[h][e].attempts = effects[e].attempts
        <3>1. effects[e] \in Records
            BY <1>0 DEF TypeInv, TypeOK
        <3> QED
            BY <2>0, <3>1 DEF Records
    <2> USE DEF IInv, Undisturbed, Executing
    <2>2. ControllersOnly' /\ AuthorizationIsCurrent'
        BY <2>0 DEF ControllersOnly, AuthorizationIsCurrent, Authorizable
    <2>3. ExecutionIsCurrent' /\ OneExecutorPerEffect'
        BY <2>0 DEF ExecutionIsCurrent, OneExecutorPerEffect
    <2>4. RecoveryIsCurrent'
        BY <2>0 DEF RecoveryIsCurrent
    <2>5. ReconciliationIsCurrent'
        <3>1. \A x : Outcome(x)' = Outcome(x)
            BY <2>0 DEF Outcome
        <3>2. \A g \in Hosts \ {h} : step'[g] # "reconciling"
            BY <2>0 DEF ControllersOnly, Supervised
        <3> QED
            BY <2>0, <2>1, <3>1, <3>2 DEF ReconciliationIsCurrent
    <2>6. /\ OneRecordPerKey' /\ UnresolvedNamesItsAttempt'
          /\ InFlightIsUnresolved' /\ RecordedSuccessIsReal'
        BY <2>0 DEF OneRecordPerKey, UnresolvedNamesItsAttempt,
                    InFlightIsUnresolved, RecordedSuccessIsReal
    <2> QED
        BY <2>2, <2>3, <2>4, <2>5, <2>6
<1>2. CASE SaveReconciled(h)
    <2> DEFINE e == current[h]
    <2> DEFINE r == held[h][e]
    <2>1. e \in Effects
        BY <1>0, <1>2
        DEF SaveReconciled, TypeInv, HandlersHaveAnEffect, Handling
    <2>2. /\ Relies(h, e)
          /\ effects[e].status = "UNKNOWN"
          /\ r.exec = effects[e].exec /\ r.exec \in Execs
          /\ r.status = Outcome(r.exec)
          /\ calls[r.exec] # "inflight"
        BY <1>2, <2>1
        DEF Relies, SaveReconciled, IInv, ReconciliationIsCurrent,
            UnresolvedNamesItsAttempt
    <2>3. Enter(h, "reconciled", e, r) /\ Save(e, r)
          /\ UNCHANGED <<calls, owner>>
        BY <1>2 DEF SaveReconciled
    <2>4. /\ r.status \notin {"RUNNING", "UNKNOWN"}
          /\ r.status = "SUCCEEDED" => r.exec \in Execs /\ calls[r.exec] = "ok"
        BY <2>2 DEF Outcome
    <2>5. \A x \in Execs : calls[x] = "inflight" => owner[x] # e
        BY <2>1, <2>2 DEF IInv, InFlightIsUnresolved
    <2> HIDE DEF e, r
    <2>6. \A g \in Hosts \ {h} : Undisturbed(g) /\ ~Relies(g, e)
        BY <1>0, <2>1, <2>2, <2>3, EnterEffect, OneRelies DEF Undisturbed
    <2>7. step'[h] \in Resting
        BY <1>0, <2>1, <2>3, EnterEffect DEF Resting, Steps, Executing
    <2> QED
        BY <2>1, <2>2, <2>3, <2>4, <2>5, <2>6, <2>7, SaveStep
<1>3. CASE EmitReconciled(h)
    BY <1>0, <1>3, LeaveEffect, QuietStep
    DEF EmitReconciled, Undisturbed, Resting, Steps, Executing
<1> QED
    BY <1>1, <1>2, <1>3 DEF Reconcile

\* Every step of a supervised deployment preserves the inductive invariant.
LEMMA SupervisedStep == Supervised /\ IInv /\ [Next]_vars => IInv'
<1> SUFFICES ASSUME Supervised, IInv, [Next]_vars PROVE IInv'
    OBVIOUS
<1>0. TypeInv'
    BY TypeStep DEF IInv
<1>1. CASE UNCHANGED vars
    BY <1>0, <1>1, QuietStep DEF vars, Undisturbed
<1>2. ASSUME NEW h \in Hosts, Crash(h) PROVE IInv'
    BY <1>0, <1>2, QuietStep
    DEF Crash, Undisturbed, Resting, Steps, Executing, IInv, TypeInv, TypeOK
<1>3. ASSUME NEW h \in Hosts, Resume(h) PROVE IInv'
    BY <1>0, <1>3, QuietStep
    DEF Resume, Undisturbed, Resting, Steps, Executing, IInv, TypeInv, TypeOK,
        World
<1> QED
    BY <1>0, <1>1, <1>2, <1>3, ProposeStep, AuthorizeStep, ExecuteStep,
       RecoverStep, ReconcileStep, ReturnStep
    DEF Next

\* The inductive invariant holds in every reachable state.
LEMMA Invariance == Supervised => (Spec => []IInv)
<1> SUFFICES ASSUME Supervised PROVE Spec => []IInv
    OBVIOUS
<1>1. IInv /\ [Next]_vars => IInv'
    BY SupervisedStep
<1> QED
    BY <1>1, SupervisedInit, PTL DEF Spec

\* No handler of a supervised deployment is overtaken between its load and its
\* save, so the unversioned save_effect calls of authorization, recovery and
\* reconciliation never overwrite what another host has written.
THEOREM Overtaking == Spec => []HandlersAreNeverOvertaken
<1>1. CASE Supervised
    <2>1. IInv => HandlersAreNeverOvertaken
        BY DEF HandlersAreNeverOvertaken
    <2> QED
        BY <1>1, <2>1, Invariance, PTL
<1>2. CASE ~Supervised
    <2>1. HandlersAreNeverOvertaken
        BY <1>2 DEF HandlersAreNeverOvertaken
    <2> QED
        BY <2>1, PTL
<1> QED
    BY <1>1, <1>2

\* The external boundary is crossed by at most one operation per idempotency
\* key at any time, for any number of hosts, effects, attempts and crashes.
THEOREM MutualExclusion == Supervised => (Spec => []AtMostOneInFlight)
<1>1. IInv => AtMostOneInFlight
    <2> SUFFICES ASSUME IInv, NEW e \in Effects, NEW x \in InFlight(e),
                        NEW y \in InFlight(e)
                 PROVE  x = y
        BY DEF AtMostOneInFlight
    <2>1. /\ x \in Execs /\ calls[x] = "inflight" /\ owner[x] \in Sharing(e)
          /\ y \in Execs /\ calls[y] = "inflight" /\ owner[y] \in Sharing(e)
        BY DEF InFlight
    <2>2. /\ effects[owner[x]].exec = x
          /\ effects[owner[x]].status # "ABSENT"
          /\ effects[owner[y]].exec = y
          /\ effects[owner[y]].status # "ABSENT"
        BY <2>1 DEF IInv, InFlightIsUnresolved
    <2>3. owner[x] = owner[y]
        BY <2>1, <2>2 DEF IInv, OneRecordPerKey, Sharing
    <2> QED
        BY <2>2, <2>3
<1> QED
    BY <1>1, Invariance, PTL

\* The answer of the external system is never discarded at finalization.
THEOREM NoLostAnswer == Supervised => (Spec => []AnswersAreRecordable)
<1>1. IInv => AnswersAreRecordable
    BY DEF IInv, ExecutionIsCurrent, AnswersAreRecordable
<1> QED
    BY <1>1, Invariance, PTL

\* No step of a supervised deployment changes a SUCCEEDED record.
LEMMA SuccessStays ==
    ASSUME IInv, Supervised, NEW e \in Effects, Next,
           effects[e].status = "SUCCEEDED"
    PROVE  effects'[e] = effects[e]
<1>0. TypeInv /\ TypeOK
    BY DEF IInv, TypeInv
<1>1. \A h \in Hosts : ~Relies(h, e)
    BY RelianceStatus DEF Executing
<1>2. ASSUME NEW h \in Hosts, NEW r, Save(current[h], r),
             current[h] \in Effects, current[h] # e
      PROVE  effects'[e] = effects[e]
    BY <1>0, <1>2, SaveEffect
<1>3. ASSUME NEW h \in Hosts, step[h] \in Handling
      PROVE  current[h] \in Effects
    BY <1>0, <1>3 DEF TypeInv, HandlersHaveAnEffect
<1>4. ASSUME NEW h \in Hosts, Propose(h) PROVE effects'[e] = effects[e]
    <2>1. CASE SaveProposal(h)
        <3>1. current[h] \in Effects
            BY <1>3, <2>1 DEF SaveProposal, Handling
        <3>2. ~KeyTaken(current[h]) => effects[current[h]].status = "ABSENT"
            BY <3>1 DEF KeyTaken, Sharing, Supervised
        <3> QED
            BY <1>2, <2>1, <3>1, <3>2 DEF SaveProposal
    <2> QED
        BY <1>4, <2>1 DEF Propose, FindByKey, EmitProposed
<1>5. ASSUME NEW h \in Hosts, Authorize(h) PROVE effects'[e] = effects[e]
    <2>1. CASE SaveAuthorized(h)
        BY <1>1, <1>2, <1>3, <2>1
        DEF SaveAuthorized, Handling, Relies
    <2> QED
        BY <1>5, <2>1 DEF Authorize, LoadToAuthorize, EmitAuthorized
<1>6. ASSUME NEW h \in Hosts, Execute(h) PROVE effects'[e] = effects[e]
    <2>1. CASE FinishAttempt(h)
        BY <1>1, <1>2, <1>3, <2>1
        DEF FinishAttempt, Handling, Relies, Executing
    <2>2. ASSUME NEW d \in Effects, NEW x \in Execs, ClaimAttempt(h, d, x)
          PROVE  effects'[e] = effects[e]
        <3>1. d # e
            BY <2>2 DEF ClaimAttempt, Claimable, ReadyForAttempt, Supervised
        <3> QED
            BY <1>0, <2>2, <3>1, SaveEffect DEF ClaimAttempt
    <2> QED
        BY <1>6, <2>1, <2>2 DEF Execute, EmitStarted, Invoke, EmitFinished
<1>7. ASSUME NEW h \in Hosts, Recover(h) PROVE effects'[e] = effects[e]
    <2>1. CASE RecoverAtomically(h)
        BY <2>1 DEF RecoverAtomically, Running
    <2>2. ASSUME NEW d \in Effects, SaveUnknown(h, d)
          PROVE  effects'[e] = effects[e]
        <3>1. d # e
            BY <1>1, <2>2 DEF SaveUnknown, Relies
        <3> QED
            BY <1>0, <2>2, <3>1, SaveEffect DEF SaveUnknown
    <2> QED
        BY <1>7, <2>1, <2>2 DEF Recover, ListRunning, EmitUnknown
<1>8. ASSUME NEW h \in Hosts, Reconcile(h) PROVE effects'[e] = effects[e]
    <2>1. CASE SaveReconciled(h)
        BY <1>1, <1>2, <1>3, <2>1 DEF SaveReconciled, Handling, Relies
    <2> QED
        BY <1>8, <2>1 DEF Reconcile, LoadToReconcile, EmitReconciled
<1> QED
    BY <1>4, <1>5, <1>6, <1>7, <1>8 DEF Next, Crash, Resume, CallReturns

\* How a step may change an external operation: it is claimed, it starts for
\* a RUNNING effect, or it returns.
LEMMA CallSteps ==
    ASSUME IInv, Next
    PROVE  \A x \in Execs :
              \/ calls'[x] = calls[x] /\ owner'[x] = owner[x]
              \/ calls[x] = "unused" /\ calls'[x] = "claimed"
              \/ /\ calls[x] = "claimed" /\ calls'[x] = "inflight"
                 /\ owner'[x] = owner[x]
                 /\ owner[x] \in Effects
                 /\ effects[owner[x]].status = "RUNNING"
                 /\ effects'[owner[x]] = effects[owner[x]]
              \/ /\ calls[x] = "inflight" /\ calls'[x] \in {"ok", "error"}
                 /\ owner'[x] = owner[x] /\ effects' = effects
<1> SUFFICES ASSUME NEW x \in Execs
             PROVE
              \/ calls'[x] = calls[x] /\ owner'[x] = owner[x]
              \/ calls[x] = "unused" /\ calls'[x] = "claimed"
              \/ /\ calls[x] = "claimed" /\ calls'[x] = "inflight"
                 /\ owner'[x] = owner[x]
                 /\ owner[x] \in Effects
                 /\ effects[owner[x]].status = "RUNNING"
                 /\ effects'[owner[x]] = effects[owner[x]]
              \/ /\ calls[x] = "inflight" /\ calls'[x] \in {"ok", "error"}
                 /\ owner'[x] = owner[x] /\ effects' = effects
    OBVIOUS
<1>0. TypeInv /\ TypeOK
    BY DEF IInv, TypeInv
<1> USE DEF World
<1>1. ASSUME NEW h \in Hosts, NEW e \in Effects, NEW y \in Execs,
             ClaimAttempt(h, e, y)
      PROVE  \/ calls'[x] = calls[x] /\ owner'[x] = owner[x]
             \/ calls[x] = "unused" /\ calls'[x] = "claimed"
    BY <1>0, <1>1 DEF ClaimAttempt, TypeOK
<1>2. ASSUME NEW h \in Hosts, Invoke(h)
      PROVE  \/ calls'[x] = calls[x] /\ owner'[x] = owner[x]
             \/ /\ calls[x] = "claimed" /\ calls'[x] = "inflight"
                /\ owner'[x] = owner[x]
                /\ owner[x] \in Effects
                /\ effects[owner[x]].status = "RUNNING"
                /\ effects'[owner[x]] = effects[owner[x]]
    <2>1. current[h] \in Effects /\ step[h] = "started"
        BY <1>0, <1>2 DEF Invoke, TypeInv, HandlersHaveAnEffect, Handling
    <2>2. LET y == held[h][current[h]].exec IN
          /\ y \in Execs /\ calls[y] = "claimed" /\ owner[y] = current[h]
          /\ effects[current[h]].status = "RUNNING"
        BY <2>1 DEF IInv, ExecutionIsCurrent, Executing
    <2> QED
        BY <1>0, <1>2, <2>1, <2>2 DEF Invoke, TypeOK
<1>3. ASSUME NEW y \in Execs, CallReturns(y)
      PROVE  \/ calls'[x] = calls[x] /\ owner'[x] = owner[x]
             \/ /\ calls[x] = "inflight" /\ calls'[x] \in {"ok", "error"}
                /\ owner'[x] = owner[x] /\ effects' = effects
    BY <1>0, <1>3 DEF CallReturns, TypeOK
<1>4. ASSUME NEW h \in Hosts,
             \/ Propose(h) \/ Authorize(h) \/ Recover(h) \/ Reconcile(h)
             \/ Crash(h) \/ Resume(h)
             \/ EmitStarted(h) \/ FinishAttempt(h) \/ EmitFinished(h)
      PROVE  calls' = calls /\ owner' = owner
    BY <1>4
    DEF Propose, FindByKey, SaveProposal, EmitProposed, Authorize,
        LoadToAuthorize, SaveAuthorized, EmitAuthorized, Recover,
        RecoverAtomically, ListRunning, SaveUnknown, EmitUnknown, Reconcile,
        LoadToReconcile, SaveReconciled, EmitReconciled, Crash, Resume,
        EmitStarted, FinishAttempt, EmitFinished
<1> QED
    BY <1>1, <1>2, <1>3, <1>4 DEF Next, Execute

\* Once a success is recorded it stays, and no operation of the same key ever
\* starts again: no authorization, recovery or reconciliation that began
\* earlier brings the effect back.
THEOREM SuccessIsFinal == Supervised => (Spec => NoInvocationAfterSuccess)
<1> SUFFICES ASSUME Supervised PROVE Spec => NoInvocationAfterSuccess
    OBVIOUS
<1> DEFINE Sealed ==
        \A e \in Effects :
            effects[e].status = "SUCCEEDED" =>
                /\ effects'[e].status = "SUCCEEDED"
                /\ Invoked(e)' = Invoked(e)
<1>1. IInv /\ [Next]_vars => [Sealed]_vars
    <2> SUFFICES ASSUME IInv, Next, NEW e \in Effects,
                        effects[e].status = "SUCCEEDED"
                 PROVE  /\ effects'[e].status = "SUCCEEDED"
                        /\ Invoked(e)' = Invoked(e)
        OBVIOUS
    <2>1. effects'[e] = effects[e]
        BY SuccessStays
    <2>2. ASSUME NEW x \in Execs, calls[x] = "claimed", calls'[x] = "inflight"
          PROVE  owner[x] \notin Sharing(e)
        <3>1. /\ owner[x] \in Effects
              /\ effects[owner[x]].status = "RUNNING"
            BY <2>2, CallSteps
        <3> QED
            BY <3>1 DEF IInv, OneRecordPerKey, Sharing
    <2>3. \A x \in Execs : x \in Invoked(e)' <=> x \in Invoked(e)
        BY <2>2, CallSteps DEF Invoked, Sharing
    <2>4. Invoked(e)' \subseteq Execs /\ Invoked(e) \subseteq Execs
        BY DEF Invoked
    <2> QED
        BY <2>1, <2>3, <2>4
<1> HIDE DEF Sealed
<1>2. Spec => [][Sealed]_vars
    BY <1>1, Invariance, PTL DEF Spec
<1> QED
    BY <1>2 DEF Sealed, NoInvocationAfterSuccess

-----------------------------------------------------------------------------
(* The budget of invocations.                                              *)

\* What a step may do to the attempts of an effect and the executions drawn for
\* it: nothing, the proposal of the record, or the claim of one more attempt
\* within the budget.
AttemptsKept(e) ==
    /\ effects'[e].attempts = effects[e].attempts
    /\ effects'[e].status = "ABSENT" => effects[e].status = "ABSENT"
    /\ Drawn(e)' \subseteq Drawn(e)

Proposed(e) ==
    /\ effects[e].status = "ABSENT"
    /\ effects'[e] = Fresh
    /\ Drawn(e)' \subseteq Drawn(e)

Claimed(e) ==
    /\ effects[e].attempts < Budget
    /\ effects'[e].status = "RUNNING"
    /\ effects'[e].attempts = effects[e].attempts + 1
    /\ \E x \in Execs : Drawn(e)' \subseteq Drawn(e) \cup {x}

\* A save of a record with the attempts that the store holds.
LEMMA SaveKeeps ==
    ASSUME TypeInv, NEW e \in Effects, NEW d \in Effects, NEW r,
           Save(d, r), UNCHANGED owner, r.attempts = effects[d].attempts,
           r.status # "ABSENT"
    PROVE  AttemptsKept(e)
BY SaveEffect DEF AttemptsKept, Drawn

LEMMA ProposeCounts ==
    ASSUME IInv, Supervised, NEW h \in Hosts, Propose(h), NEW e \in Effects
    PROVE  AttemptsKept(e) \/ Proposed(e)
<1> USE DEF World
<1>0. TypeInv
    BY DEF IInv
<1>1. CASE SaveProposal(h)
    <2>1. current[h] \in Effects
        BY <1>0, <1>1 DEF SaveProposal, TypeInv, HandlersHaveAnEffect, Handling
    <2>2. CASE KeyTaken(current[h])
        BY <1>1, <2>2 DEF SaveProposal, AttemptsKept, Drawn
    <2>3. CASE ~KeyTaken(current[h])
        <3>1. effects[current[h]].status = "ABSENT"
            BY <2>1, <2>3 DEF KeyTaken, Sharing, Supervised
        <3>2. Save(current[h], Fresh) /\ UNCHANGED owner
            BY <1>1, <2>3 DEF SaveProposal
        <3>3. CASE e = current[h]
            BY <1>0, <3>1, <3>2, <3>3, SaveEffect DEF Proposed, Drawn
        <3>4. CASE e # current[h]
            BY <1>0, <2>1, <3>2, <3>4, SaveEffect DEF AttemptsKept, Drawn
        <3> QED
            BY <3>3, <3>4
    <2> QED
        BY <2>2, <2>3
<1>2. CASE ~SaveProposal(h)
    BY <1>2 DEF Propose, FindByKey, EmitProposed, AttemptsKept, Drawn
<1> QED
    BY <1>1, <1>2

LEMMA AuthorizeCounts ==
    ASSUME IInv, NEW h \in Hosts, Authorize(h), NEW e \in Effects
    PROVE  AttemptsKept(e)
<1> USE DEF World
<1>0. TypeInv /\ TypeOK
    BY DEF IInv, TypeInv
<1>1. CASE SaveAuthorized(h)
    <2>1. /\ current[h] \in Effects
          /\ effects[current[h]] = held[h][current[h]]
          /\ effects[current[h]] \in Records
        BY <1>0, <1>1 DEF SaveAuthorized, TypeInv, TypeOK, HandlersHaveAnEffect,
                          Handling, IInv, AuthorizationIsCurrent
    <2> DEFINE r == [held[h][current[h]] EXCEPT !.status = "AUTHORIZED"]
    <2>2. r.attempts = effects[current[h]].attempts /\ r.status # "ABSENT"
        BY <2>1 DEF Records
    <2>3. Save(current[h], r) /\ UNCHANGED owner
        BY <1>1 DEF SaveAuthorized
    <2> HIDE DEF r
    <2> QED
        BY <1>0, <2>1, <2>2, <2>3, SaveKeeps
<1>2. CASE ~SaveAuthorized(h)
    BY <1>2 DEF Authorize, LoadToAuthorize, EmitAuthorized, AttemptsKept, Drawn
<1> QED
    BY <1>1, <1>2

LEMMA ExecuteCounts ==
    ASSUME IInv, NEW h \in Hosts, Execute(h), NEW e \in Effects
    PROVE  AttemptsKept(e) \/ Claimed(e)
<1> USE DEF World
<1>0. TypeInv /\ TypeOK
    BY DEF IInv, TypeInv
<1>1. ASSUME NEW d \in Effects, NEW x \in Execs, ClaimAttempt(h, d, x)
      PROVE  AttemptsKept(e) \/ Claimed(e)
    <2> DEFINE r == [status |-> "RUNNING", attempts |-> effects[d].attempts + 1,
                     exec |-> x]
    <2>1. Save(d, r) /\ owner' = [owner EXCEPT ![x] = d]
        BY <1>1 DEF ClaimAttempt
    <2>2. /\ effects'[d] = r
          /\ \A c \in Effects \ {d} : effects'[c] = effects[c]
        BY <1>0, <2>1, SaveEffect
    <2>3. \A y \in Execs : owner'[y] = owner[y] \/ (y = x /\ owner'[y] = d)
        BY <1>0, <2>1 DEF TypeOK
    <2>4. CASE e = d
        <3>1. effects[e].attempts < Budget
            BY <1>1, <2>4 DEF ClaimAttempt, Claimable
        <3>2. Drawn(e)' \subseteq Drawn(e) \cup {x}
            BY <2>3 DEF Drawn
        <3> QED
            BY <2>2, <2>4, <3>1, <3>2 DEF Claimed
    <2>5. CASE e # d
        <3>1. Drawn(e)' \subseteq Drawn(e)
            BY <2>3, <2>5 DEF Drawn
        <3> QED
            BY <2>2, <2>5, <3>1 DEF AttemptsKept
    <2> QED
        BY <2>4, <2>5
<1>2. CASE FinishAttempt(h)
    <2> DEFINE r == [effects[current[h]] EXCEPT !.status = Outcome(held[h][current[h]].exec)]
    <2>1. current[h] \in Effects /\ effects[current[h]] \in Records
        BY <1>0, <1>2 DEF FinishAttempt, TypeInv, TypeOK, HandlersHaveAnEffect, Handling
    <2>2. r.attempts = effects[current[h]].attempts /\ r.status # "ABSENT"
        BY <2>1 DEF Records, Outcome
    <2>3. Save(current[h], r) \/ UNCHANGED effects
        BY <1>2 DEF FinishAttempt
    <2>4. UNCHANGED owner
        BY <1>2 DEF FinishAttempt
    <2>5. UNCHANGED effects => AttemptsKept(e)
        BY <2>4 DEF AttemptsKept, Drawn
    <2> HIDE DEF r
    <2> QED
        BY <1>0, <2>1, <2>2, <2>3, <2>4, <2>5, SaveKeeps
<1>3. CASE EmitStarted(h) \/ Invoke(h) \/ EmitFinished(h)
    BY <1>3 DEF EmitStarted, Invoke, EmitFinished, AttemptsKept, Drawn
<1> QED
    BY <1>1, <1>2, <1>3 DEF Execute

LEMMA RecoverCounts ==
    ASSUME IInv, NEW h \in Hosts, Recover(h), NEW e \in Effects
    PROVE  AttemptsKept(e)
<1> USE DEF World
<1>0. TypeInv /\ TypeOK
    BY DEF IInv, TypeInv
<1>1. \A r \in Records : /\ Unresolved(r).attempts = r.attempts
                         /\ Unresolved(r).status = "UNKNOWN"
    BY DEF Records, Unresolved
<1>2. CASE RecoverAtomically(h)
    <2>1. effects[e] \in Records
        BY <1>0 DEF TypeOK
    <2>2. effects'[e] = Unresolved(effects[e]) \/ effects'[e] = effects[e]
        BY <1>2 DEF RecoverAtomically
    <2>3. owner' = owner
        BY <1>2 DEF RecoverAtomically
    <2> QED
        BY <1>1, <2>1, <2>2, <2>3 DEF AttemptsKept, Drawn
<1>3. ASSUME NEW d \in Effects, SaveUnknown(h, d) PROVE AttemptsKept(e)
    <2>1. effects[d] = held[h][d] /\ effects[d] \in Records
        BY <1>0, <1>3 DEF SaveUnknown, IInv, RecoveryIsCurrent, TypeOK
    <2>2. Save(d, Unresolved(held[h][d])) /\ UNCHANGED owner
        BY <1>3 DEF SaveUnknown
    <2> QED
        BY <1>0, <1>1, <2>1, <2>2, SaveKeeps
<1>4. CASE ListRunning(h) \/ \E d \in Effects : EmitUnknown(h, d)
    BY <1>4 DEF ListRunning, EmitUnknown, AttemptsKept, Drawn
<1> QED
    BY <1>2, <1>3, <1>4 DEF Recover

LEMMA ReconcileCounts ==
    ASSUME IInv, NEW h \in Hosts, Reconcile(h), NEW e \in Effects
    PROVE  AttemptsKept(e)
<1> USE DEF World
<1>0. TypeInv /\ TypeOK
    BY DEF IInv, TypeInv
<1>1. CASE SaveReconciled(h)
    <2>1. /\ current[h] \in Effects
          /\ held[h][current[h]].attempts = effects[current[h]].attempts
          /\ held[h][current[h]].status # "ABSENT"
        BY <1>0, <1>1 DEF SaveReconciled, TypeInv, HandlersHaveAnEffect, Handling,
                          IInv, ReconciliationIsCurrent, Outcome
    <2>2. Save(current[h], held[h][current[h]]) /\ UNCHANGED owner
        BY <1>1 DEF SaveReconciled
    <2> QED
        BY <1>0, <2>1, <2>2, SaveKeeps
<1>2. CASE ~SaveReconciled(h)
    BY <1>2 DEF Reconcile, LoadToReconcile, EmitReconciled, AttemptsKept, Drawn
<1> QED
    BY <1>1, <1>2

\* What is drawn from a finite set and one more element has at most one more.
LEMMA OneMore ==
    ASSUME NEW S, IsFiniteSet(S), NEW x, NEW T, T \subseteq S \cup {x}
    PROVE  /\ IsFiniteSet(T)
           /\ Cardinality(T) \in Nat /\ Cardinality(S) \in Nat
           /\ Cardinality(T) <= Cardinality(S) + 1
<1> DEFINE U == S \cup {x}
<1>1. IsFiniteSet(U) /\ Cardinality(U) = IF x \in S THEN Cardinality(S)
                                                     ELSE Cardinality(S) + 1
    BY FS_AddElement
<1> HIDE DEF U
<1>2. T \in SUBSET U
    BY DEF U
<1>3. IsFiniteSet(T) /\ Cardinality(T) <= Cardinality(U)
    BY <1>1, <1>2, FS_Subset
<1>4. Cardinality(S) \in Nat
    BY FS_CardinalityType
<1>5. Cardinality(T) \in Nat
    BY <1>3, FS_CardinalityType
<1> QED
    BY <1>1, <1>3, <1>4, <1>5

LEMMA AttemptsStep == Supervised /\ IInv /\ AttemptsAreCounted /\ [Next]_vars
                        => AttemptsAreCounted'
<1> SUFFICES ASSUME Supervised, IInv, AttemptsAreCounted, [Next]_vars, NEW e \in Effects
             PROVE  /\ effects'[e].attempts <= Budget
                    /\ IsFiniteSet(Drawn(e)')
                    /\ Cardinality(Drawn(e)') <= effects'[e].attempts
                    /\ effects'[e].status = "ABSENT" => Drawn(e)' = {}
    BY DEF AttemptsAreCounted, Budget
<1>0. /\ effects[e].attempts \in Nat /\ Budget \in Nat
      /\ effects[e].attempts <= Budget
      /\ IsFiniteSet(Drawn(e)) /\ Cardinality(Drawn(e)) <= effects[e].attempts
      /\ effects[e].status = "ABSENT" => Drawn(e) = {}
    BY RecordFacts, ConstantsAssumption
    DEF IInv, TypeInv, TypeOK, AttemptsAreCounted, Budget
<1>1. AttemptsKept(e) \/ Proposed(e) \/ Claimed(e)
    <2>1. CASE UNCHANGED vars
        BY <2>1 DEF vars, AttemptsKept, Drawn
    <2>2. CASE \E h \in Hosts : Crash(h) \/ Resume(h)
        BY <2>2 DEF Crash, Resume, AttemptsKept, Drawn, World
    <2>3. CASE \E x \in Execs : CallReturns(x)
        BY <2>3 DEF CallReturns, AttemptsKept, Drawn
    <2> QED
        BY <2>1, <2>2, <2>3, ProposeCounts, AuthorizeCounts, ExecuteCounts,
           RecoverCounts, ReconcileCounts
        DEF Next
<1>2. ASSUME Drawn(e)' \subseteq Drawn(e)
      PROVE  /\ IsFiniteSet(Drawn(e)')
             /\ Cardinality(Drawn(e)') <= effects[e].attempts
    <2>1. /\ IsFiniteSet(Drawn(e)')
          /\ Cardinality(Drawn(e)') <= Cardinality(Drawn(e))
        BY <1>0, <1>2, FS_Subset
    <2>2. Cardinality(Drawn(e)') \in Nat /\ Cardinality(Drawn(e)) \in Nat
        BY <1>0, <2>1, FS_CardinalityType
    <2> QED
        BY <1>0, <2>1, <2>2
<1>3. CASE AttemptsKept(e)
    BY <1>0, <1>2, <1>3 DEF AttemptsKept
<1>4. CASE Proposed(e)
    <2>1. Drawn(e)' = {} /\ effects'[e].attempts = 0 /\ effects'[e].status = "PROPOSED"
        BY <1>0, <1>4 DEF Proposed, Fresh
    <2>2. IsFiniteSet(Drawn(e)') /\ Cardinality(Drawn(e)') = 0
        BY <2>1, FS_EmptySet
    <2> QED
        BY <1>0, <2>1, <2>2
<1>5. CASE Claimed(e)
    <2>1. PICK x \in Execs : Drawn(e)' \subseteq Drawn(e) \cup {x}
        BY <1>5 DEF Claimed
    <2>2. /\ IsFiniteSet(Drawn(e)')
          /\ Cardinality(Drawn(e)') \in Nat /\ Cardinality(Drawn(e)) \in Nat
          /\ Cardinality(Drawn(e)') <= Cardinality(Drawn(e)) + 1
        BY <1>0, <2>1, OneMore
    <2> QED
        BY <1>0, <1>5, <2>2 DEF Claimed
<1> QED
    BY <1>1, <1>3, <1>4, <1>5

\* A key has one record and the record counts its executions.
LEMMA CountedIsWithinBudget ==
    ASSUME IInv, AttemptsAreCounted
    PROVE  InvocationBudget
<1> SUFFICES ASSUME NEW e \in Effects
             PROVE  Cardinality(Invoked(e)) <= Budget
    BY DEF InvocationBudget
<1>0. Budget \in Nat
    BY ConstantsAssumption DEF Budget
<1>1. CASE Invoked(e) = {}
    BY <1>0, <1>1, FS_EmptySet
<1>2. CASE Invoked(e) # {}
    <2>1. PICK x \in Invoked(e) : TRUE
        BY <1>2
    <2>2. x \in Execs /\ owner[x] \in Sharing(e)
        BY <2>1 DEF Invoked
    <2> DEFINE d == owner[x]
    <2>3. d \in Effects /\ KeyOf[d] = KeyOf[e]
        BY <2>2 DEF Sharing
    <2>4. effects[d].status # "ABSENT"
        BY <2>2, <2>3 DEF AttemptsAreCounted, Drawn
    <2>5. Invoked(e) \subseteq Drawn(d)
        <3> SUFFICES ASSUME NEW y \in Invoked(e) PROVE y \in Drawn(d)
            OBVIOUS
        <3>1. y \in Execs /\ owner[y] \in Effects /\ KeyOf[owner[y]] = KeyOf[e]
            BY DEF Invoked, Sharing
        <3>2. effects[owner[y]].status # "ABSENT"
            BY <3>1 DEF AttemptsAreCounted, Drawn
        <3> QED
            BY <2>3, <2>4, <3>1, <3>2 DEF IInv, OneRecordPerKey, Drawn
    <2> HIDE DEF d
    <2>6. /\ IsFiniteSet(Drawn(d)) /\ Cardinality(Drawn(d)) <= effects[d].attempts
          /\ effects[d].attempts <= Budget
        BY <2>3 DEF AttemptsAreCounted
    <2>7. IsFiniteSet(Invoked(e)) /\ Cardinality(Invoked(e)) <= Cardinality(Drawn(d))
        BY <2>5, <2>6, FS_Subset
    <2>8. /\ Cardinality(Invoked(e)) \in Nat /\ Cardinality(Drawn(d)) \in Nat
          /\ effects[d].attempts \in Nat
        BY <2>3, <2>6, <2>7, FS_CardinalityType, RecordFacts DEF IInv, TypeInv, TypeOK
    <2> QED
        BY <1>0, <2>6, <2>7, <2>8
<1> QED
    BY <1>1, <1>2

\* The external system is called at most max_attempts times for a key, however
\* many hosts, effects and crashes there are: no authorization, recovery or
\* reconciliation writes an older count of attempts over a newer one.
THEOREM CallsAreBudgeted == Supervised => (Spec => []InvocationBudget)
<1> SUFFICES ASSUME Supervised PROVE Spec => []InvocationBudget
    OBVIOUS
<1>1. Init => AttemptsAreCounted
    <2> SUFFICES ASSUME Init, NEW e \in Effects
                 PROVE  /\ effects[e].attempts <= Budget
                        /\ IsFiniteSet(Drawn(e))
                        /\ Cardinality(Drawn(e)) <= effects[e].attempts
                        /\ effects[e].status = "ABSENT" => Drawn(e) = {}
        BY DEF AttemptsAreCounted
    <2>1. effects[e].attempts = 0
        BY DEF Init, Absent
    <2>2. Drawn(e) = {}
        BY ConstantsAssumption DEF Init, Drawn
    <2>3. IsFiniteSet(Drawn(e)) /\ Cardinality(Drawn(e)) = 0
        BY <2>2, FS_EmptySet
    <2>4. Budget \in Nat
        BY ConstantsAssumption DEF Budget
    <2> QED
        BY <2>1, <2>2, <2>3, <2>4
<1>2. IInv /\ AttemptsAreCounted /\ [Next]_vars => (IInv /\ AttemptsAreCounted)'
    BY SupervisedStep, AttemptsStep
<1>3. IInv /\ AttemptsAreCounted => InvocationBudget
    BY CountedIsWithinBudget
<1> QED
    BY <1>1, <1>2, <1>3, SupervisedInit, PTL DEF Spec

-----------------------------------------------------------------------------
(* Every deployment: several controllers, executors that retry by           *)
(* themselves, recovery in the middle of executions.                        *)

\* What a step may do to a record.
RecordKept(e) == effects'[e] = effects[e]

RecordCreated(e) ==
    /\ effects'[e] = Fresh
    /\ \A d \in Effects \ {e} : effects'[d] = effects[d]
    /\ UniqueKeys => \A d \in Sharing(e) : effects[d].status = "ABSENT"

RecordMoved(e) ==
    /\ effects[e].status # "ABSENT"
    /\ effects'[e].status \in {"AUTHORIZED", "RUNNING", "FAILED"}

RecordSucceeds(e) ==
    /\ effects[e].status # "ABSENT"
    /\ effects'[e].status = "SUCCEEDED"
    /\ effects'[e].exec \in Execs
    /\ calls[effects'[e].exec] = "ok"
    /\ \/ effects[e].status = "RUNNING" /\ effects'[e].exec = effects[e].exec
       \/ \E h \in Hosts : /\ step[h] = "reconciling" /\ current[h] = e
                           /\ effects'[e] = held[h][e]
    /\ UNCHANGED <<calls, owner>>
    /\ \A d \in Effects \ {e} : effects'[d] = effects[d]

RecordLost(e) ==
    /\ effects[e].status # "ABSENT"
    /\ effects'[e].status = "UNKNOWN"
    /\ \/ effects[e].status = "RUNNING"
       \/ \E h \in Hosts : step[h] = "recovering" /\ held[h][e].status = "RUNNING"

LEMMA RecordSteps ==
    ASSUME ContendedInv, Next, NEW e \in Effects
    PROVE  \/ RecordKept(e) \/ RecordCreated(e) \/ RecordMoved(e)
           \/ RecordSucceeds(e) \/ RecordLost(e)
<1> DEFINE Goal == \/ RecordKept(e) \/ RecordCreated(e) \/ RecordMoved(e)
                   \/ RecordSucceeds(e) \/ RecordLost(e)
<1> USE DEF World
<1>0. TypeInv /\ TypeOK
    BY DEF ContendedInv, TypeInv
<1>a. ASSUME NEW h \in Hosts, step[h] \in Handling
      PROVE  current[h] \in Effects /\ held[h][current[h]] \in Records
    BY <1>0, <1>a DEF TypeInv, TypeOK, HandlersHaveAnEffect
<1>b. effects' = effects => RecordKept(e)
    BY DEF RecordKept
<1>1. ASSUME NEW h \in Hosts, Propose(h) PROVE Goal
    <2>1. CASE SaveProposal(h) /\ ~KeyTaken(current[h])
        <3>1. current[h] \in Effects
            BY <1>a, <2>1 DEF SaveProposal, Handling
        <3>2. Save(current[h], Fresh)
            BY <2>1 DEF SaveProposal
        <3>3. CASE e = current[h]
            BY <1>0, <2>1, <3>2, <3>3, SaveEffect DEF RecordCreated, KeyTaken
        <3>4. CASE e # current[h]
            BY <1>0, <3>1, <3>2, <3>4, SaveEffect DEF RecordKept
        <3> QED
            BY <3>3, <3>4
    <2>2. CASE ~(SaveProposal(h) /\ ~KeyTaken(current[h]))
        BY <1>1, <1>b, <2>2 DEF Propose, FindByKey, EmitProposed, SaveProposal
    <2> QED
        BY <2>1, <2>2
<1>2. ASSUME NEW h \in Hosts, Authorize(h) PROVE Goal
    <2>1. CASE SaveAuthorized(h)
        <3> DEFINE r == [held[h][current[h]] EXCEPT !.status = "AUTHORIZED"]
        <3>1. current[h] \in Effects /\ r.status = "AUTHORIZED"
            BY <1>a, <2>1 DEF SaveAuthorized, Handling, Records
        <3>2. effects[current[h]].status # "ABSENT"
            BY <2>1 DEF ContendedInv, HandIsSound, SaveAuthorized
        <3>3. Save(current[h], r)
            BY <2>1 DEF SaveAuthorized
        <3> HIDE DEF r
        <3> QED
            BY <1>0, <3>1, <3>2, <3>3, SaveEffect DEF RecordMoved, RecordKept
    <2>2. CASE ~SaveAuthorized(h)
        BY <1>2, <1>b, <2>2 DEF Authorize, LoadToAuthorize, EmitAuthorized
    <2> QED
        BY <2>1, <2>2
<1>3. ASSUME NEW h \in Hosts, Execute(h) PROVE Goal
    <2>1. ASSUME NEW d \in Effects, NEW x \in Execs, ClaimAttempt(h, d, x)
          PROVE  Goal
        <3> DEFINE r == [status |-> "RUNNING", attempts |-> effects[d].attempts + 1,
                         exec |-> x]
        <3>1. Save(d, r) /\ r.status = "RUNNING" /\ effects[d].status # "ABSENT"
            BY <2>1 DEF ClaimAttempt, Claimable, ReadyForAttempt
        <3> HIDE DEF r
        <3> QED
            BY <1>0, <3>1, SaveEffect DEF RecordMoved, RecordKept
    <2>2. CASE FinishAttempt(h)
        <3> DEFINE c == current[h]
                   mine == held[h][c]
                   r == [effects[c] EXCEPT !.status = Outcome(mine.exec)]
        <3>1. c \in Effects /\ effects[c] \in Records /\ step[h] = "calling"
            BY <1>0, <1>a, <2>2 DEF FinishAttempt, Handling, TypeOK
        <3>2. \/ effects' = effects
              \/ Save(c, r) /\ effects[c].status = "RUNNING" /\ effects[c].exec = mine.exec
            BY <2>2 DEF FinishAttempt, OwnsAttempt
        <3>3. mine.exec \in Execs
            BY <3>1 DEF ContendedInv, HandIsSound, Executing
        <3>4. r.status = Outcome(mine.exec) /\ r.exec = effects[c].exec
            BY <3>1 DEF Records
        <3>a. UNCHANGED <<calls, owner>>
            BY <2>2 DEF FinishAttempt
        <3> HIDE DEF r, c, mine
        <3>5. CASE Save(c, r) /\ effects[c].status = "RUNNING" /\ effects[c].exec = mine.exec
            BY <1>0, <3>1, <3>3, <3>4, <3>5, <3>a, SaveEffect
            DEF RecordMoved, RecordKept, RecordSucceeds, Outcome
        <3> QED
            BY <1>b, <3>2, <3>5
    <2>3. CASE EmitStarted(h) \/ Invoke(h) \/ EmitFinished(h)
        BY <1>b, <2>3 DEF EmitStarted, Invoke, EmitFinished
    <2> QED
        BY <1>3, <2>1, <2>2, <2>3 DEF Execute
<1>4. ASSUME NEW h \in Hosts, Recover(h) PROVE Goal
    <2>0. \A r \in Records : Unresolved(r).status = "UNKNOWN"
        BY DEF Records, Unresolved
    <2>1. CASE RecoverAtomically(h)
        <3>1. \/ effects'[e] = effects[e]
              \/ effects[e].status = "RUNNING" /\ effects'[e] = Unresolved(effects[e])
            BY <2>1 DEF RecoverAtomically, Running
        <3>2. effects[e] \in Records
            BY <1>0 DEF TypeOK
        <3> QED
            BY <2>0, <3>1, <3>2 DEF RecordKept, RecordLost
    <2>2. ASSUME NEW d \in Effects, SaveUnknown(h, d) PROVE Goal
        <3>1. /\ step[h] = "recovering" /\ held[h][d].status = "RUNNING"
              /\ held[h][d] \in Records /\ Save(d, Unresolved(held[h][d]))
            BY <1>0, <2>2 DEF SaveUnknown, TypeOK
        <3>2. effects[d].status # "ABSENT"
            BY <3>1 DEF ContendedInv, HandIsSound
        <3> QED
            BY <1>0, <2>0, <3>1, <3>2, SaveEffect DEF RecordLost, RecordKept
    <2>3. CASE ListRunning(h) \/ \E d \in Effects : EmitUnknown(h, d)
        BY <1>b, <2>3 DEF ListRunning, EmitUnknown
    <2> QED
        BY <1>4, <2>1, <2>2, <2>3 DEF Recover
<1>5. ASSUME NEW h \in Hosts, Reconcile(h) PROVE Goal
    <2>1. CASE SaveReconciled(h)
        <3> DEFINE r == held[h][current[h]]
        <3>1. current[h] \in Effects /\ step[h] = "reconciling" /\ Save(current[h], r)
            BY <1>a, <2>1 DEF SaveReconciled, Handling
        <3>2. /\ r.status \in {"SUCCEEDED", "FAILED"}
              /\ r.status = "SUCCEEDED" => r.exec \in Execs /\ calls[r.exec] = "ok"
              /\ effects[current[h]].status # "ABSENT"
            BY <3>1 DEF ContendedInv, HandIsSound
        <3>3. CASE e = current[h]
            <4>1. /\ effects'[e] = r /\ r = held[h][e]
                  /\ \A d \in Effects \ {e} : effects'[d] = effects[d]
                BY <1>0, <3>1, <3>3, SaveEffect
            <4>2. UNCHANGED <<calls, owner>>
                BY <2>1 DEF SaveReconciled
            <4> HIDE DEF r
            <4> QED
                BY <3>1, <3>2, <3>3, <4>1, <4>2 DEF RecordMoved, RecordSucceeds
        <3>4. CASE e # current[h]
            BY <1>0, <3>1, <3>4, SaveEffect DEF RecordKept
        <3> QED
            BY <3>3, <3>4
    <2>2. CASE ~SaveReconciled(h)
        BY <1>5, <1>b, <2>2 DEF Reconcile, LoadToReconcile, EmitReconciled
    <2> QED
        BY <2>1, <2>2
<1>6. ASSUME NEW h \in Hosts, Crash(h) \/ Resume(h) PROVE Goal
    BY <1>6, <1>b DEF Crash, Resume
<1>7. ASSUME NEW x \in Execs, CallReturns(x) PROVE Goal
    BY <1>7, <1>b DEF CallReturns
<1> QED
    BY <1>1, <1>2, <1>3, <1>4, <1>5, <1>6, <1>7 DEF Next

\* The external operation of another host's execution is only touched by its
\* answer; what was drawn stays drawn and what succeeded stays so.
CallsKept(h) ==
    /\ \A x \in Execs : /\ calls[x] = "ok" => calls'[x] = "ok"
                        /\ calls[x] # "unused" => calls'[x] # "unused"
    /\ \A g \in Hosts \ {h} :
          step[g] \in Executing =>
              LET x == held[g][current[g]].exec IN
              calls[x] = "claimed" => calls'[x] = "claimed"

\* A step of h is sound when what h has in its hands after it is.
LEMMA ContendedStepOf ==
    ASSUME ContendedInv, TypeInv', Next, NEW h \in Hosts,
           \A g \in Hosts \ {h} : Undisturbed(g),
           CallsKept(h),
           HandIsSound(h)',
           step'[h] \in Executing =>
               \A g \in Hosts \ {h} :
                   step[g] \in Executing =>
                       held[g][current[g]].exec # held'[h][current'[h]].exec
    PROVE  ContendedInv'
<1>1. \A e \in Effects : effects[e].status # "ABSENT" => effects'[e].status # "ABSENT"
    BY RecordSteps
    DEF RecordKept, RecordCreated, RecordMoved, RecordSucceeds, RecordLost, Fresh
<1>2. ASSUME NEW g \in Hosts \ {h} PROVE HandIsSound(g)'
    <2>1. HandIsSound(g) /\ Undisturbed(g)
        BY DEF ContendedInv
    <2>2. step[g] \in {"authorizing", "reconciling"} => current[g] \in Effects
        BY DEF ContendedInv, TypeInv, HandlersHaveAnEffect, Handling
    <2>3. step[g] \in Executing => held[g][current[g]].exec \in Execs
        BY <2>1 DEF HandIsSound
    <2> QED
        BY <1>1, <2>1, <2>2, <2>3 DEF HandIsSound, Undisturbed, CallsKept, Executing
<1>3. ExecutionsAreDistinct'
    BY DEF ContendedInv, ExecutionsAreDistinct, Undisturbed, Executing
<1>4. RecordedSuccessIsReal'
    <2> SUFFICES ASSUME NEW e \in Effects, effects'[e].status = "SUCCEEDED"
                 PROVE  effects'[e].exec \in Execs /\ calls'[effects'[e].exec] = "ok"
        BY DEF RecordedSuccessIsReal
    <2>1. RecordKept(e) \/ RecordSucceeds(e)
        BY RecordSteps DEF RecordCreated, RecordMoved, RecordLost, Fresh
    <2>2. effects'[e].exec \in Execs /\ calls[effects'[e].exec] = "ok"
        BY <2>1 DEF RecordKept, RecordSucceeds, ContendedInv, RecordedSuccessIsReal
    <2> QED
        BY <2>2 DEF CallsKept
<1>5. UniqueKeys => OneRecordPerKey'
    <2> SUFFICES ASSUME UniqueKeys, NEW d \in Effects, NEW e \in Effects,
                        KeyOf[d] = KeyOf[e], d # e,
                        effects'[d].status # "ABSENT", effects'[e].status # "ABSENT"
                 PROVE  FALSE
        BY DEF OneRecordPerKey
    <2>1. effects[d].status = "ABSENT" \/ effects[e].status = "ABSENT"
        BY DEF ContendedInv, OneRecordPerKey
    <2>2. ASSUME NEW c \in Effects, effects[c].status = "ABSENT",
                 effects'[c].status # "ABSENT"
          PROVE  RecordCreated(c)
        BY <2>2, RecordSteps DEF RecordKept, RecordMoved, RecordSucceeds, RecordLost
    <2>3. effects[d].status = "ABSENT" /\ effects[e].status = "ABSENT"
        BY <2>1, <2>2 DEF RecordCreated, Sharing
    <2> QED
        BY <2>2, <2>3 DEF RecordCreated
<1>6. HandIsSound(h)'
    OBVIOUS
<1> QED
    BY <1>2, <1>3, <1>4, <1>5, <1>6 DEF ContendedInv

\* Steps after which a host has neither an execution nor a record in its hands.
LEMMA RestingIsSound ==
    ASSUME NEW h \in Hosts, step'[h] \in Resting
    PROVE  HandIsSound(h)' /\ step'[h] \notin Executing
BY DEF HandIsSound, Resting, Executing

LEMMA SameCalls ==
    ASSUME UNCHANGED calls, NEW h \in Hosts
    PROVE  CallsKept(h)
BY DEF CallsKept

\* A step of h that ends at rest and calls nobody.
LEMMA ContendedRest ==
    ASSUME ContendedInv, TypeInv', Next, NEW h \in Hosts, UNCHANGED calls,
           \A g \in Hosts \ {h} : Undisturbed(g), step'[h] \in Resting
    PROVE  ContendedInv'
BY RestingIsSound, SameCalls, ContendedStepOf

LEMMA ContendedPropose ==
    ASSUME ContendedInv, TypeInv', Next, NEW h \in Hosts, Propose(h)
    PROVE  ContendedInv'
<1>0. TypeInv
    BY DEF ContendedInv
<1>1. UNCHANGED calls
    BY DEF Propose, FindByKey, SaveProposal, EmitProposed, World
<1>2. step[h] \in Handling => current[h] \in Effects
    BY <1>0 DEF TypeInv, HandlersHaveAnEffect
<1>3. (\A g \in Hosts \ {h} : Undisturbed(g)) /\ step'[h] \in Resting
    <2>1. ASSUME NEW e \in Effects, FindByKey(h, e)
          PROVE  (\A g \in Hosts \ {h} : Undisturbed(g)) /\ step'[h] \in Resting
        BY <1>0, <2>1, EnterEffect DEF FindByKey, Undisturbed, Resting, Steps, Executing
    <2>2. CASE SaveProposal(h)
        BY <1>0, <1>2, <2>2, EnterEffect, LeaveEffect
        DEF SaveProposal, Undisturbed, Resting, Steps, Executing, Handling
    <2>3. CASE EmitProposed(h)
        BY <1>0, <2>3, LeaveEffect
        DEF EmitProposed, Undisturbed, Resting, Steps, Executing
    <2> QED
        BY <2>1, <2>2, <2>3 DEF Propose
<1> QED
    BY <1>1, <1>3, ContendedRest

LEMMA ContendedAuthorize ==
    ASSUME ContendedInv, TypeInv', Next, NEW h \in Hosts, Authorize(h)
    PROVE  ContendedInv'
<1> USE DEF World
<1>0. TypeInv
    BY DEF ContendedInv
<1>1. ASSUME NEW e \in Effects, LoadToAuthorize(h, e) PROVE ContendedInv'
    <2>1. /\ step'[h] = "authorizing" /\ current'[h] = e
          /\ \A g \in Hosts \ {h} : Undisturbed(g)
          /\ UNCHANGED <<effects, calls>> /\ effects[e].status # "ABSENT"
        BY <1>0, <1>1, EnterEffect DEF LoadToAuthorize, Undisturbed, Authorizable
    <2>2. HandIsSound(h)'
        BY <2>1 DEF HandIsSound, Executing
    <2> QED
        BY <2>1, <2>2, SameCalls, ContendedStepOf DEF Executing
<1>2. CASE SaveAuthorized(h)
    <2>1. current[h] \in Effects
        BY <1>0, <1>2 DEF SaveAuthorized, TypeInv, HandlersHaveAnEffect, Handling
    <2> QED
        BY <1>0, <1>2, <2>1, EnterEffect, ContendedRest
        DEF SaveAuthorized, Undisturbed, Resting, Steps, Executing
<1>3. CASE EmitAuthorized(h)
    BY <1>0, <1>3, LeaveEffect, ContendedRest
    DEF EmitAuthorized, Undisturbed, Resting, Steps, Executing
<1> QED
    BY <1>1, <1>2, <1>3 DEF Authorize

LEMMA ContendedClaim ==
    ASSUME ContendedInv, TypeInv', Next, NEW h \in Hosts, NEW e \in Effects,
           NEW x \in Execs, ClaimAttempt(h, e, x)
    PROVE  ContendedInv'
<1>0. TypeInv /\ TypeOK
    BY DEF ContendedInv, TypeInv
<1> DEFINE r == [status |-> "RUNNING", attempts |-> effects[e].attempts + 1, exec |-> x]
<1>1. /\ r.exec = x /\ Enter(h, "claimed", e, r)
      /\ calls[x] = "unused" /\ calls' = [calls EXCEPT ![x] = "claimed"]
    BY DEF ClaimAttempt
<1> HIDE DEF r
<1>2. /\ step'[h] = "claimed" /\ current'[h] = e /\ held'[h][e] = r
      /\ \A g \in Hosts \ {h} : Undisturbed(g)
    BY <1>0, <1>1, EnterEffect DEF Undisturbed
<1>3. \A g \in Hosts \ {h} : step[g] \in Executing =>
         held[g][current[g]].exec \in Execs \ {x}
    BY <1>1 DEF ContendedInv, HandIsSound
<1>4. CallsKept(h)
    BY <1>0, <1>1, <1>3 DEF CallsKept, TypeOK
<1>5. HandIsSound(h)'
    BY <1>0, <1>1, <1>2 DEF HandIsSound, Executing, TypeOK
<1> QED
    BY <1>1, <1>2, <1>3, <1>4, <1>5, ContendedStepOf

LEMMA ContendedCall ==
    ASSUME ContendedInv, TypeInv', Next, NEW h \in Hosts, EmitStarted(h) \/ Invoke(h)
    PROVE  ContendedInv'
<1>0. TypeInv /\ TypeOK
    BY DEF ContendedInv, TypeInv
<1> DEFINE e == current[h]
           x == held[h][e].exec
<1>1. e \in Effects /\ step[h] \in {"claimed", "started"}
    BY <1>0 DEF EmitStarted, Invoke, TypeInv, HandlersHaveAnEffect, Handling
<1>2. x \in Execs /\ calls[x] = "claimed"
    BY <1>1 DEF ContendedInv, HandIsSound, Executing
<1>3. /\ step'[h] \in {"started", "calling"} /\ current'[h] = e
      /\ held'[h][e] = held[h][e]
      /\ \A g \in Hosts \ {h} : Undisturbed(g)
      /\ \/ step'[h] = "started" /\ calls' = calls
         \/ step'[h] = "calling" /\ calls' = [calls EXCEPT ![x] = "inflight"]
    BY <1>0, <1>1, EnterEffect DEF EmitStarted, Invoke, Undisturbed, World
<1>4. \A g \in Hosts \ {h} : step[g] \in Executing =>
         held[g][current[g]].exec \in Execs \ {x}
    BY <1>1 DEF ContendedInv, HandIsSound, ExecutionsAreDistinct, Executing
<1> HIDE DEF e, x
<1>5. CallsKept(h)
    BY <1>0, <1>2, <1>3, <1>4 DEF CallsKept, TypeOK
<1>6. HandIsSound(h)'
    BY <1>0, <1>2, <1>3 DEF HandIsSound, Executing, TypeOK, x
<1> QED
    BY <1>3, <1>4, <1>5, <1>6, ContendedStepOf DEF x

LEMMA ContendedExecute ==
    ASSUME ContendedInv, TypeInv', Next, NEW h \in Hosts, Execute(h)
    PROVE  ContendedInv'
<1> USE DEF World
<1>0. TypeInv
    BY DEF ContendedInv
<1>1. CASE FinishAttempt(h)
    <2>1. current[h] \in Effects
        BY <1>0, <1>1 DEF FinishAttempt, TypeInv, HandlersHaveAnEffect, Handling
    <2>2. (\A g \in Hosts \ {h} : Undisturbed(g)) /\ step'[h] \in Resting
        BY <1>0, <1>1, <2>1, EnterEffect, LeaveEffect
        DEF FinishAttempt, Undisturbed, Resting, Steps, Executing
    <2> QED
        BY <1>1, <2>2, ContendedRest DEF FinishAttempt
<1>2. CASE EmitFinished(h)
    BY <1>0, <1>2, LeaveEffect, ContendedRest
    DEF EmitFinished, Undisturbed, Resting, Steps, Executing
<1> QED
    BY <1>1, <1>2, ContendedClaim, ContendedCall DEF Execute

LEMMA ContendedRecover ==
    ASSUME ContendedInv, TypeInv', Next, NEW h \in Hosts, Recover(h)
    PROVE  ContendedInv'
<1> USE DEF World
<1>0. TypeInv /\ TypeOK
    BY DEF ContendedInv, TypeInv
<1>1. /\ UNCHANGED calls /\ \A g \in Hosts \ {h} : Undisturbed(g)
      /\ step'[h] \in {"idle", "recovering"}
    BY <1>0 DEF Recover, RecoverAtomically, ListRunning, SaveUnknown, EmitUnknown,
                Undisturbed, TypeOK
<1>2. \A e \in Effects : held'[h][e].status = "RUNNING" =>
          effects[e].status # "ABSENT" /\ ~AtomicRecovery
    <2>0. \A r \in Records : Unresolved(r).status = "UNKNOWN"
        BY DEF Records, Unresolved
    <2>1. CASE RecoverAtomically(h)
        <3>1. \A e \in Effects : held'[h][e] = IF e \in Running
                                  THEN Unresolved(effects[e]) ELSE Absent
            BY <1>0, <2>1 DEF RecoverAtomically, TypeOK
        <3> QED
            BY <1>0, <2>0, <3>1 DEF Absent, TypeOK
    <2>2. CASE ListRunning(h)
        <3>1. \A e \in Effects : held'[h][e] = IF e \in Running
                                  THEN effects[e] ELSE Absent
            BY <1>0, <2>2 DEF ListRunning, TypeOK
        <3> QED
            BY <2>2, <3>1 DEF Absent, ListRunning
    <2>3. ASSUME NEW d \in Effects, SaveUnknown(h, d)
          PROVE  \A e \in Effects : held'[h][e].status = "RUNNING" =>
                    effects[e].status # "ABSENT" /\ ~AtomicRecovery
        <3>1. /\ \A e \in Effects \ {d} : held'[h][e] = held[h][e]
              /\ held'[h][d] = [held[h][d] EXCEPT !.status = "UNKNOWN"]
            BY <1>0, <2>3 DEF SaveUnknown, TypeOK
        <3>2. held'[h][d].status = "UNKNOWN"
            BY <1>0, <3>1 DEF TypeOK, Records
        <3> QED
            BY <2>3, <3>1, <3>2 DEF SaveUnknown, ContendedInv, HandIsSound
    <2>4. ASSUME NEW d \in Effects, EmitUnknown(h, d)
          PROVE  \A e \in Effects : held'[h][e].status # "RUNNING"
        BY <1>0, <2>4 DEF EmitUnknown, TypeOK, Absent
    <2> QED
        BY <2>1, <2>2, <2>3, <2>4 DEF Recover
<1>3. \A e \in Effects : effects[e].status # "ABSENT" => effects'[e].status # "ABSENT"
    BY RecordSteps
    DEF RecordKept, RecordCreated, RecordMoved, RecordSucceeds, RecordLost, Fresh
<1>4. HandIsSound(h)'
    BY <1>1, <1>2, <1>3 DEF HandIsSound, Executing
<1> QED
    BY <1>1, <1>4, SameCalls, ContendedStepOf DEF Executing

LEMMA ContendedReconcile ==
    ASSUME ContendedInv, TypeInv', Next, NEW h \in Hosts, Reconcile(h)
    PROVE  ContendedInv'
<1> USE DEF World
<1>0. TypeInv /\ TypeOK
    BY DEF ContendedInv, TypeInv
<1>1. ASSUME NEW e \in Effects, LoadToReconcile(h, e) PROVE ContendedInv'
    <2> DEFINE r == [effects[e] EXCEPT !.status = Outcome(effects[e].exec)]
    <2>1. /\ step'[h] = "reconciling" /\ current'[h] = e /\ held'[h][e] = r
          /\ \A g \in Hosts \ {h} : Undisturbed(g)
          /\ UNCHANGED <<effects, calls>>
          /\ effects[e].status = "UNKNOWN" /\ effects[e].exec \in Execs
        BY <1>0, <1>1, EnterEffect DEF LoadToReconcile, Undisturbed
    <2>2. r.status = Outcome(effects[e].exec) /\ r.exec = effects[e].exec
        BY <1>0 DEF TypeOK, Records
    <2> HIDE DEF r
    <2>3. HandIsSound(h)'
        BY <2>1, <2>2 DEF HandIsSound, Executing, Outcome
    <2> QED
        BY <2>1, <2>3, SameCalls, ContendedStepOf DEF Executing
<1>2. CASE SaveReconciled(h)
    <2>1. current[h] \in Effects
        BY <1>0, <1>2 DEF SaveReconciled, TypeInv, HandlersHaveAnEffect, Handling
    <2> QED
        BY <1>0, <1>2, <2>1, EnterEffect, ContendedRest
        DEF SaveReconciled, Undisturbed, Resting, Steps, Executing
<1>3. CASE EmitReconciled(h)
    BY <1>0, <1>3, LeaveEffect, ContendedRest
    DEF EmitReconciled, Undisturbed, Resting, Steps, Executing
<1> QED
    BY <1>1, <1>2, <1>3 DEF Reconcile

\* The external system answers an execution that was in flight.
LEMMA ContendedReturn ==
    ASSUME ContendedInv, TypeInv', NEW x \in Execs, CallReturns(x)
    PROVE  ContendedInv'
<1>1. /\ calls[x] = "inflight" /\ calls'[x] \in {"ok", "error"}
      /\ \A y \in Execs \ {x} : calls'[y] = calls[y]
      /\ UNCHANGED <<effects, step, current, held>>
    BY DEF ContendedInv, TypeInv, TypeOK, CallReturns
<1>2. \A h \in Hosts : HandIsSound(h)'
    BY <1>1 DEF ContendedInv, HandIsSound, Executing
<1> QED
    BY <1>1, <1>2
    DEF ContendedInv, ExecutionsAreDistinct, Executing, RecordedSuccessIsReal,
        OneRecordPerKey

LEMMA ContendedStep == ContendedInv /\ [Next]_vars => ContendedInv'
<1> SUFFICES ASSUME ContendedInv, [Next]_vars PROVE ContendedInv'
    OBVIOUS
<1>0. TypeInv /\ TypeOK /\ TypeInv'
    BY TypeStep DEF ContendedInv, TypeInv
<1>1. CASE UNCHANGED vars
    BY <1>0, <1>1
    DEF vars, ContendedInv, HandIsSound, ExecutionsAreDistinct, Executing,
        RecordedSuccessIsReal, OneRecordPerKey
<1>2. ASSUME NEW h \in Hosts, Next, Crash(h) \/ Resume(h) PROVE ContendedInv'
    BY <1>0, <1>2, ContendedRest
    DEF Crash, Resume, Undisturbed, Resting, Steps, Executing, TypeOK, World
<1> QED
    BY <1>0, <1>1, <1>2, ContendedPropose, ContendedAuthorize, ContendedExecute,
       ContendedRecover, ContendedReconcile, ContendedReturn
    DEF Next

LEMMA Contention == Spec => []ContendedInv
<1>1. Init => ContendedInv
    <2> SUFFICES ASSUME Init PROVE ContendedInv
        OBVIOUS
    <2>1. TypeInv
        BY TypeInit
    <2>2. \A e \in Effects : effects[e].status = "ABSENT"
        BY DEF Init, Absent
    <2>3. \A h \in Hosts : step[h] = "idle"
        BY DEF Init
    <2> QED
        BY <2>1, <2>2, <2>3
        DEF ContendedInv, HandIsSound, ExecutionsAreDistinct, Executing,
            RecordedSuccessIsReal, OneRecordPerKey
<1> QED
    BY <1>1, ContendedStep, PTL DEF Spec

\* A recorded success is the answer of the external system to the execution
\* that the record names, in every deployment: also where controllers overwrite
\* each other, executors retry by themselves and recovery interrupts executions.
THEOREM HonestSuccess == Spec => []RecordedSuccessIsReal
<1>1. ContendedInv => RecordedSuccessIsReal
    BY DEF ContendedInv
<1> QED
    BY <1>1, Contention, PTL

\* The unique index is enough for one record per idempotency key: no stale save
\* takes a record away or brings one into being.
THEOREM OneRecord == UniqueKeys => (Spec => []OneRecordPerKey)
<1> SUFFICES ASSUME UniqueKeys PROVE Spec => []OneRecordPerKey
    OBVIOUS
<1>1. ContendedInv => OneRecordPerKey
    BY DEF ContendedInv
<1> QED
    BY <1>1, Contention, PTL

-----------------------------------------------------------------------------
(* The supervised lifecycle implements the external boundary.               *)

Spending == {"inflight", "ok", "error"}

\* An operation in flight belongs to the one record of its key.
LEMMA InFlightOwner ==
    ASSUME IInv, NEW x \in Execs, calls[x] = "inflight", NEW e \in Effects,
           owner[x] \in Effects, KeyOf[owner[x]] = KeyOf[e],
           effects[e].status # "ABSENT"
    PROVE  /\ owner[x] = e /\ effects[e].exec = x
           /\ effects[e].status \in {"RUNNING", "UNKNOWN"}
<1>1. effects[owner[x]].exec = x /\ effects[owner[x]].status \in {"RUNNING", "UNKNOWN"}
    BY DEF IInv, InFlightIsUnresolved
<1> QED
    BY <1>1 DEF IInv, OneRecordPerKey

\* The boundary of the key of a record without an operation in flight is open,
\* unless the record has succeeded.
LEMMA OpenBoundary ==
    ASSUME IInv, NEW e \in Effects, effects[e].status \notin {"ABSENT", "SUCCEEDED"},
           ~(effects[e].exec \in Execs /\ calls[effects[e].exec] = "inflight")
    PROVE  /\ ~Settled(KeyOf[e])
           /\ ~Crossing(KeyOf[e])
<1>1. ~Settled(KeyOf[e])
    BY DEF Settled, IInv, OneRecordPerKey
<1>2. ~Crossing(KeyOf[e])
    <2> SUFFICES ASSUME NEW x \in Execs, NEW d \in Effects, owner[x] = d,
                        KeyOf[d] = KeyOf[e], calls[x] = "inflight"
                 PROVE  FALSE
        BY DEF Crossing, CallsFor
    <2> QED
        BY InFlightOwner
<1> QED
    BY <1>1, <1>2

LEMMA InvokeCrosses ==
    ASSUME IInv, NEW h \in Hosts, Invoke(h)
    PROVE  \E k \in Keys : Boundary!Cross(k)
<1>a. TypeOK /\ current[h] \in Effects /\ step[h] = "started"
    BY DEF Invoke, IInv, TypeInv, HandlersHaveAnEffect, Handling
<1>b. PICK e \in Effects : e = current[h]
    BY <1>a
<1>c. PICK k \in Keys : k = KeyOf[e]
    BY ConstantsAssumption
<1>d. held[h][e].exec \in Execs
    BY <1>a, <1>b DEF IInv, ExecutionIsCurrent, Executing
<1>e. PICK x \in Execs : x = held[h][e].exec
    BY <1>d
<1>0. TypeOK
    BY <1>a
<1>1. /\ effects[e].status = "RUNNING" /\ effects[e].exec = x
      /\ x \in Execs /\ owner[x] = e /\ calls[x] = "claimed"
    BY <1>a, <1>b, <1>e DEF IInv, ExecutionIsCurrent, Executing
<1>2. /\ calls' = [calls EXCEPT ![x] = "inflight"] /\ owner' = owner
      /\ effects' = effects
    BY <1>b, <1>e DEF Invoke
<1>3. /\ calls'[x] = "inflight"
      /\ \A y \in Execs \ {x} : calls'[y] = calls[y]
    BY <1>0, <1>1, <1>2 DEF TypeOK
<1>4. ~Settled(k) /\ ~Crossing(k)
    BY <1>1, <1>c, OpenBoundary
<1>5. \A j \in Keys : Settled(j)' <=> Settled(j)
    BY <1>2 DEF Settled
<1>6. \A j \in Keys : CallsFor(j)' = CallsFor(j) /\ (x \in CallsFor(j) <=> j = k)
    BY <1>1, <1>2, <1>c DEF CallsFor
<1>7. \A j \in Keys \ {k} : Crossing(j)' <=> Crossing(j)
    BY <1>3, <1>6 DEF Crossing, CallsFor
<1>8. Crossing(k)'
    BY <1>0, <1>3, <1>6 DEF Crossing
<1>9. BoundaryState[k] = "open" /\ BoundaryState' = [BoundaryState EXCEPT ![k] = "crossing"]
    BY <1>0, <1>4, <1>5, <1>7, <1>8 DEF BoundaryState
<1>10. \A j \in Keys : x \notin SpentTokens[j]
    BY <1>1 DEF SpentTokens
<1>11. SpentTokens' = [SpentTokens EXCEPT ![k] = @ \cup {x}]
    <2>1. ASSUME NEW j \in Keys
          PROVE  SpentTokens'[j] = IF j = k THEN SpentTokens[j] \cup {x} ELSE SpentTokens[j]
        BY <1>3, <1>6 DEF SpentTokens, CallsFor
    <2> QED
        BY <1>0, <2>1 DEF SpentTokens
<1> QED
    BY <1>0, <1>1, <1>9, <1>10, <1>11 DEF Boundary!Cross

LEMMA AnswerReturns ==
    ASSUME IInv, NEW x \in Execs, CallReturns(x)
    PROVE  \E k \in Keys : Boundary!Return(k)
<1>0. /\ calls[x] = "inflight" /\ calls'[x] \in {"ok", "error"}
      /\ \A y \in Execs \ {x} : calls'[y] = calls[y]
      /\ UNCHANGED <<effects, owner>>
    BY DEF CallReturns, IInv, TypeInv, TypeOK
<1>a. /\ owner[x] \in Effects /\ effects[owner[x]].exec = x
      /\ effects[owner[x]].status \in {"RUNNING", "UNKNOWN"}
    BY <1>0 DEF IInv, InFlightIsUnresolved
<1>b. PICK e \in Effects : e = owner[x]
    BY <1>a
<1>c. PICK k \in Keys : k = KeyOf[e]
    BY ConstantsAssumption
<1>1. effects[e].exec = x /\ effects[e].status \in {"RUNNING", "UNKNOWN"}
    BY <1>a, <1>b
<1>2. x \in CallsFor(k) /\ Crossing(k)
    BY <1>0, <1>b, <1>c DEF CallsFor, Crossing
<1>3. ~Settled(k)
    BY <1>1, <1>c DEF Settled, IInv, OneRecordPerKey
<1>4. \A j \in Keys : /\ Settled(j)' <=> Settled(j)
                      /\ CallsFor(j)' = CallsFor(j)
    BY <1>0 DEF Settled, CallsFor
<1>5. ~Crossing(k)'
    <2> SUFFICES ASSUME NEW y \in Execs, NEW d \in Effects, owner[y] = d,
                        KeyOf[d] = k, calls'[y] = "inflight"
                 PROVE  FALSE
        BY <1>0 DEF Crossing, CallsFor
    <2>1. y # x /\ calls[y] = "inflight"
        BY <1>0
    <2> QED
        BY <1>1, <1>c, <2>1, InFlightOwner
<1>6. \A j \in Keys \ {k} : Crossing(j)' <=> Crossing(j)
    <2>1. \A j \in Keys \ {k} : x \notin CallsFor(j)
        BY <1>b, <1>c DEF CallsFor
    <2> QED
        BY <1>0, <1>4, <2>1 DEF Crossing, CallsFor
<1>7. BoundaryState[k] = "crossing" /\ BoundaryState' = [BoundaryState EXCEPT ![k] = "open"]
    BY <1>1, <1>2, <1>3, <1>4, <1>5, <1>6 DEF BoundaryState
<1>8. SpentTokens' = SpentTokens
    <2>1. ASSUME NEW j \in Keys PROVE SpentTokens'[j] = SpentTokens[j]
        BY <1>0, <1>4 DEF SpentTokens, CallsFor
    <2> QED
        BY <2>1 DEF SpentTokens
<1> QED
    BY <1>1, <1>7, <1>8 DEF Boundary!Return

\* A claim draws a token that nobody has used; nothing is crossed or returned.
LEMMA TokensKept ==
    ASSUME \A x \in Execs : \/ calls'[x] = calls[x] /\ owner'[x] = owner[x]
                            \/ calls[x] = "unused" /\ calls'[x] = "claimed"
    PROVE  /\ SpentTokens' = SpentTokens
           /\ \A k \in Keys : Crossing(k)' <=> Crossing(k)
<1>1. ASSUME NEW k \in Keys
      PROVE  {x \in CallsFor(k)' : calls'[x] \in {"inflight", "ok", "error"}}
               = {x \in CallsFor(k) : calls[x] \in {"inflight", "ok", "error"}}
    BY DEF CallsFor
<1>2. SpentTokens' = SpentTokens
    BY <1>1 DEF SpentTokens
<1>3. ASSUME NEW k \in Keys PROVE Crossing(k)' <=> Crossing(k)
    <2>1. ASSUME NEW x \in Execs
          PROVE  x \in CallsFor(k)' /\ calls'[x] = "inflight"
                    <=> x \in CallsFor(k) /\ calls[x] = "inflight"
        BY DEF CallsFor
    <2> QED
        BY <2>1 DEF Crossing, CallsFor
<1> QED
    BY <1>2, <1>3

LEMMA SuccessSeals ==
    ASSUME IInv, ContendedInv, Next, NEW e \in Effects,
           effects[e].status # "SUCCEEDED", effects'[e].status = "SUCCEEDED"
    PROVE  \E k \in Keys : Boundary!Seal(k)
<1> DEFINE k == KeyOf[e]
           x == effects[e].exec
<1>0. k \in Keys
    BY ConstantsAssumption
<1>1. RecordSucceeds(e)
    BY RecordSteps DEF RecordKept, RecordCreated, RecordMoved, RecordLost, Fresh
<1>2. effects[e].status \in {"RUNNING", "UNKNOWN"} /\ effects'[e].exec = x
    BY <1>1 DEF RecordSucceeds, IInv, ReconciliationIsCurrent
<1>3. x \in Execs /\ owner[x] = e /\ calls[x] = "ok"
    BY <1>1, <1>2 DEF RecordSucceeds, IInv, UnresolvedNamesItsAttempt
<1>4. ~Settled(k) /\ ~Crossing(k)
    BY <1>2, <1>3, OpenBoundary
<1>5. /\ calls' = calls /\ owner' = owner
      /\ \A d \in Effects \ {e} : effects'[d] = effects[d]
    BY <1>1 DEF RecordSucceeds
<1>6. /\ SpentTokens' = SpentTokens
      /\ \A j \in Keys : Crossing(j)' <=> Crossing(j)
    BY <1>5, TokensKept
<1>7. Settled(k)' /\ \A j \in Keys \ {k} : Settled(j)' <=> Settled(j)
    BY <1>5 DEF Settled
<1>8. x \in SpentTokens[k]
    BY <1>0, <1>3 DEF SpentTokens, CallsFor
<1> HIDE DEF k, x
<1>9. BoundaryState[k] = "open" /\ BoundaryState' = [BoundaryState EXCEPT ![k] = "sealed"]
    BY <1>0, <1>4, <1>6, <1>7 DEF BoundaryState
<1> QED
    BY <1>0, <1>6, <1>8, <1>9 DEF Boundary!Seal

LEMMA BoundaryStep ==
    Supervised /\ IInv /\ ContendedInv /\ [Next]_vars
        => [Boundary!Next]_<<BoundaryState, SpentTokens>>
<1> SUFFICES ASSUME Supervised, IInv, ContendedInv, [Next]_vars
             PROVE  Boundary!Next \/ UNCHANGED <<BoundaryState, SpentTokens>>
    OBVIOUS
<1>1. CASE UNCHANGED vars
    BY <1>1 DEF vars, BoundaryState, SpentTokens, Settled, Crossing, CallsFor
<1>2. CASE \E h \in Hosts : Invoke(h)
    BY <1>2, InvokeCrosses DEF Boundary!Next
<1>3. CASE \E x \in Execs : CallReturns(x)
    BY <1>3, AnswerReturns DEF Boundary!Next
<1>4. CASE Next /\ \E e \in Effects : /\ effects[e].status # "SUCCEEDED"
                                      /\ effects'[e].status = "SUCCEEDED"
    BY <1>4, SuccessSeals DEF Boundary!Next
<1>5. CASE /\ Next
           /\ ~\E h \in Hosts : Invoke(h)
           /\ ~\E x \in Execs : CallReturns(x)
           /\ ~\E e \in Effects : /\ effects[e].status # "SUCCEEDED"
                                  /\ effects'[e].status = "SUCCEEDED"
    <2>1. \A x \in Execs : \/ calls'[x] = calls[x] /\ owner'[x] = owner[x]
                           \/ calls[x] = "unused" /\ calls'[x] = "claimed"
        <3>1. ASSUME NEW h \in Hosts, NEW e \in Effects, NEW y \in Execs,
                     ClaimAttempt(h, e, y)
              PROVE  \A x \in Execs : \/ calls'[x] = calls[x] /\ owner'[x] = owner[x]
                                      \/ calls[x] = "unused" /\ calls'[x] = "claimed"
            BY <3>1 DEF ClaimAttempt, IInv, TypeInv, TypeOK
        <3>2. ASSUME NEW h \in Hosts,
                     \/ Propose(h) \/ Authorize(h) \/ Recover(h) \/ Reconcile(h)
                     \/ Crash(h) \/ Resume(h)
                     \/ EmitStarted(h) \/ FinishAttempt(h) \/ EmitFinished(h)
              PROVE  calls' = calls /\ owner' = owner
            BY <3>2
            DEF Propose, FindByKey, SaveProposal, EmitProposed, Authorize,
                LoadToAuthorize, SaveAuthorized, EmitAuthorized, Recover,
                RecoverAtomically, ListRunning, SaveUnknown, EmitUnknown, Reconcile,
                LoadToReconcile, SaveReconciled, EmitReconciled, Crash, Resume,
                EmitStarted, FinishAttempt, EmitFinished, World
        <3> QED
            BY <1>5, <3>1, <3>2 DEF Next, Execute
    <2>2. /\ SpentTokens' = SpentTokens
          /\ \A k \in Keys : Crossing(k)' <=> Crossing(k)
        BY <2>1, TokensKept
    <2>3. \A e \in Effects : effects'[e].status = "SUCCEEDED"
                                <=> effects[e].status = "SUCCEEDED"
        BY <1>5, SuccessStays
    <2>4. \A k \in Keys : Settled(k)' <=> Settled(k)
        BY <2>3 DEF Settled
    <2> QED
        BY <2>2, <2>4 DEF BoundaryState
<1> QED
    BY <1>1, <1>2, <1>3, <1>4, <1>5

\* A supervised deployment implements the external boundary for every key: one
\* crossing at a time, each with a token of its own, and none after a success.
THEOREM BoundaryImplemented == Supervised => (Spec => ImplementsBoundary)
<1> SUFFICES ASSUME Supervised PROVE Spec => ImplementsBoundary
    OBVIOUS
<1>1. Init => Boundary!Init
    <2> SUFFICES ASSUME Init PROVE Boundary!Init
        OBVIOUS
    <2>1. \A k \in Keys : ~Settled(k) /\ ~Crossing(k)
        BY DEF Init, Absent, Settled, Crossing, CallsFor
    <2>2. \A k \in Keys : CallsFor(k) = {}
        BY ConstantsAssumption DEF Init, CallsFor
    <2> QED
        BY <2>1, <2>2 DEF Boundary!Init, BoundaryState, SpentTokens
<1>2. IInv /\ ContendedInv /\ [Next]_vars
          => [Boundary!Next]_<<BoundaryState, SpentTokens>>
    BY BoundaryStep
<1> QED
    BY <1>1, <1>2, Invariance, Contention, PTL
    DEF Spec, ImplementsBoundary, Boundary!Spec, Boundary!bvars

=============================================================================
