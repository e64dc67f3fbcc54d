--------------------------- MODULE EffectLifecycle ---------------------------
(***************************************************************************)
(* The durable effect boundary of the v0.8 runtime: several hosts (engine  *)
(* processes) share one store and move effect records through              *)
(*                                                                         *)
(*   PROPOSED -> AUTHORIZED -> RUNNING -> SUCCEEDED | FAILED | UNKNOWN     *)
(*                                                                         *)
(* Every store call is one step, because it is one transaction, and so is  *)
(* every event emitted into the machine log.  What a host has loaded is    *)
(* kept in `held' until it is saved: the load and the save of a handler    *)
(* are different steps and other hosts run between them.                   *)
(*                                                                         *)
(* `calls' is the outside world: the state of the external operation that  *)
(* each claimed attempt performs.  It survives the crash of the host.      *)
(***************************************************************************)
EXTENDS Naturals, FiniteSets

CONSTANTS
    Hosts,              \* engine processes attached to the same store
    Controllers,        \* hosts that authorize, recover and reconcile
    Effects,            \* effect identifiers
    Keys,               \* idempotency keys
    KeyOf,              \* the key of each effect
    Execs,              \* execution identifiers a claim can draw (new_id)
    NoExec,             \* execution_id is None
    NoEffect,           \* a host that is not working on an effect
    MaxAttempts,        \* RetryPolicy.max_attempts
    RetryOnFailure,     \* RetryPolicy.retry_on_failure
    RetryOnUnknown,     \* RetryPolicy.retry_on_unknown
    UniqueKeys,         \* the store has a unique index on idempotency keys
    AtomicRecovery,     \* mark_running_effects_unknown is one transaction
    ExclusiveRecovery,  \* recovery is run only when no execution is live
    MaxCrashes          \* bound on the crashes of a behaviour

ASSUME ConstantsAssumption ==
    /\ Controllers \subseteq Hosts
    /\ KeyOf \in [Effects -> Keys]
    /\ NoExec \notin Execs
    /\ NoEffect \notin Effects
    /\ MaxAttempts \in Nat
    /\ MaxCrashes \in Nat
    /\ {RetryOnFailure, RetryOnUnknown, UniqueKeys, AtomicRecovery,
        ExclusiveRecovery} \subseteq BOOLEAN

Statuses == {"ABSENT", "PROPOSED", "AUTHORIZED", "RUNNING",
             "SUCCEEDED", "FAILED", "UNKNOWN"}

Records == [status : Statuses, attempts : Nat, exec : Execs \cup {NoExec}]

Absent  == [status |-> "ABSENT",   attempts |-> 0, exec |-> NoExec]
Fresh   == [status |-> "PROPOSED", attempts |-> 0, exec |-> NoExec]

EventTypes == {"EFFECT_PROPOSED", "EFFECT_AUTHORIZED", "EFFECT_STARTED",
               "EFFECT_SUCCEEDED", "EFFECT_FAILED", "EFFECT_UNKNOWN",
               "EFFECT_RECONCILED"}

Events == [type : EventTypes, effect : Effects, exec : Execs \cup {NoExec}]

Steps == {"idle", "proposing", "proposed", "authorizing", "authorized",
          "claimed", "started", "calling", "finished",
          "recovering", "reconciling", "reconciled", "down"}

\* A host in one of these steps is crossing the external boundary.
Executing == {"claimed", "started", "calling"}

VARIABLES
    effects,    \* the effects table of the store
    events,     \* the effect events of the machine log
    step,       \* where each host is inside a handler
    current,    \* the effect each host is working on
    held,       \* the records each host has loaded
    calls,      \* the external operation of each execution identifier
    owner,      \* the effect each execution identifier was drawn for
    crashes     \* how many crashes have happened

vars == <<effects, events, step, current, held, calls, owner, crashes>>

CallStates == {"unused", "claimed", "inflight", "ok", "error"}

TypeOK ==
    /\ effects \in [Effects -> Records]
    /\ events \subseteq Events
    /\ step \in [Hosts -> Steps]
    /\ current \in [Hosts -> Effects \cup {NoEffect}]
    /\ held \in [Hosts -> [Effects -> Records]]
    /\ calls \in [Execs -> CallStates]
    /\ owner \in [Execs -> Effects \cup {NoEffect}]
    /\ crashes \in Nat

Init ==
    /\ effects = [e \in Effects |-> Absent]
    /\ events = {}
    /\ step = [h \in Hosts |-> "idle"]
    /\ current = [h \in Hosts |-> NoEffect]
    /\ held = [h \in Hosts |-> [e \in Effects |-> Absent]]
    /\ calls = [x \in Execs |-> "unused"]
    /\ owner = [x \in Execs |-> NoEffect]
    /\ crashes = 0

-----------------------------------------------------------------------------
(* Helpers.                                                                *)

NothingHeld == [e \in Effects |-> Absent]

Emit(t, e, x) ==
    events' = events \cup {[type |-> t, effect |-> e, exec |-> x]}

\* Host h moves to step s of a handler on effect e with record r in hand.
Enter(h, s, e, r) ==
    /\ step' = [step EXCEPT ![h] = s]
    /\ current' = [current EXCEPT ![h] = e]
    /\ held' = [held EXCEPT ![h] = [NothingHeld EXCEPT ![e] = r]]

\* Host h returns from its handler, or the handler raises.
Leave(h) ==
    /\ step' = [step EXCEPT ![h] = "idle"]
    /\ current' = [current EXCEPT ![h] = NoEffect]
    /\ held' = [held EXCEPT ![h] = NothingHeld]

Save(e, r) == effects' = [effects EXCEPT ![e] = r]

Sharing(e) == {d \in Effects : KeyOf[d] = KeyOf[e]}

World == <<calls, owner, crashes>>

-----------------------------------------------------------------------------
(* propose_effect: look the key up, save the record, emit the event.       *)

\* INSERT fails on the unique index.  (Mutant: the index is not there.)
KeyNotIndexed(e) == FALSE

KeyTaken(e) ==
    UniqueKeys /\ \E d \in Sharing(e) : effects[d].status # "ABSENT"

FindByKey(h, e) ==
    /\ step[h] = "idle"
    /\ effects[e].status = "ABSENT"
    /\ \A g \in Hosts : current[g] # e   \* new_id: an effect has one proposer
    /\ \A d \in Sharing(e) : effects[d].status = "ABSENT"
    /\ Enter(h, "proposing", e, Absent)
    /\ UNCHANGED <<effects, events, World>>

SaveProposal(h) ==
    LET e == current[h] IN
    /\ step[h] = "proposing"
    /\ IF KeyTaken(e)
       THEN Leave(h) /\ UNCHANGED effects
       ELSE Enter(h, "proposed", e, Fresh) /\ Save(e, Fresh)
    /\ UNCHANGED <<events, World>>

EmitProposed(h) ==
    /\ step[h] = "proposed"
    /\ Emit("EFFECT_PROPOSED", current[h], NoExec)
    /\ Leave(h)
    /\ UNCHANGED <<effects, World>>

-----------------------------------------------------------------------------
(* authorize_effect: load, check the status, save AUTHORIZED, emit.        *)

\* (Mutant: the early return for SUCCEEDED is gone.)
AuthorizableAgain(r) == r.status \in {"PROPOSED", "FAILED", "SUCCEEDED"}

Authorizable(r) == r.status \in {"PROPOSED", "FAILED"}

LoadToAuthorize(h, e) ==
    /\ step[h] = "idle"
    /\ h \in Controllers
    /\ Authorizable(effects[e])
    /\ Enter(h, "authorizing", e, effects[e])
    /\ UNCHANGED <<effects, events, World>>

SaveAuthorized(h) ==
    LET e == current[h]
        r == [held[h][e] EXCEPT !.status = "AUTHORIZED"] IN
    /\ step[h] = "authorizing"
    /\ Save(e, r)
    /\ Enter(h, "authorized", e, r)
    /\ UNCHANGED <<events, World>>

EmitAuthorized(h) ==
    /\ step[h] = "authorized"
    /\ Emit("EFFECT_AUTHORIZED", current[h], NoExec)
    /\ Leave(h)
    /\ UNCHANGED <<effects, World>>

-----------------------------------------------------------------------------
(* execute_effect: claim an attempt in one transaction, emit EFFECT_STARTED *)
(* and hand the operation to the executor; its answer is finalized in one   *)
(* transaction that checks the ownership of the attempt.                    *)

Budget == IF MaxAttempts > 1 THEN MaxAttempts ELSE 1

ReadyForAttempt(r) ==
    \/ r.status = "AUTHORIZED"
    \/ r.status = "UNKNOWN" /\ RetryOnUnknown
    \/ r.status = "FAILED" /\ RetryOnFailure

\* (Mutant: a RUNNING record is not refused.)
ClaimableWhileRunning(r) ==
    /\ ReadyForAttempt(r) \/ r.status = "RUNNING"
    /\ r.attempts < Budget

\* (Mutant: max_attempts is off by one.)
ClaimableOnceMore(r) == ReadyForAttempt(r) /\ r.attempts <= Budget

Claimable(r) == ReadyForAttempt(r) /\ r.attempts < Budget

ClaimAttempt(h, e, x) ==
    LET r == [status |-> "RUNNING", attempts |-> effects[e].attempts + 1,
              exec |-> x] IN
    /\ step[h] = "idle"
    /\ calls[x] = "unused"
    /\ Claimable(effects[e])
    /\ Save(e, r)
    /\ Enter(h, "claimed", e, r)
    /\ calls' = [calls EXCEPT ![x] = "claimed"]
    /\ owner' = [owner EXCEPT ![x] = e]
    /\ UNCHANGED <<events, crashes>>

EmitStarted(h) ==
    LET e == current[h] IN
    /\ step[h] = "claimed"
    /\ Emit("EFFECT_STARTED", e, held[h][e].exec)
    /\ Enter(h, "started", e, held[h][e])
    /\ UNCHANGED <<effects, World>>

Invoke(h) ==
    LET e == current[h] IN
    /\ step[h] = "started"
    /\ Enter(h, "calling", e, held[h][e])
    /\ calls' = [calls EXCEPT ![held[h][e].exec] = "inflight"]
    /\ UNCHANGED <<effects, events, owner, crashes>>

\* The external system answers, whether or not the host is still there.
CallReturns(x) ==
    /\ calls[x] = "inflight"
    /\ \E answer \in {"ok", "error"} : calls' = [calls EXCEPT ![x] = answer]
    /\ UNCHANGED <<effects, events, step, current, held, owner, crashes>>

Outcome(x) == IF calls[x] = "ok" THEN "SUCCEEDED" ELSE "FAILED"

\* (Mutant: only the status of the record is checked.)
StillRunning(r, mine) == r.status = "RUNNING"

OwnsAttempt(r, mine) ==
    /\ r.status = "RUNNING"
    /\ r.exec = mine.exec
    /\ r.attempts = mine.attempts

\* The executor returned (or raised) and finish_effect_attempt runs; when the
\* host has lost the attempt the call raises and nothing is recorded.
FinishAttempt(h) ==
    LET e == current[h]
        mine == held[h][e]
        r == [effects[e] EXCEPT !.status = Outcome(mine.exec)] IN
    /\ step[h] = "calling"
    /\ calls[mine.exec] \in {"ok", "error"}
    /\ IF OwnsAttempt(effects[e], mine)
       THEN Save(e, r) /\ Enter(h, "finished", e, r)
       ELSE Leave(h) /\ UNCHANGED effects
    /\ UNCHANGED <<events, World>>

EmitFinished(h) ==
    LET e == current[h] IN
    /\ step[h] = "finished"
    /\ Emit(IF held[h][e].status = "SUCCEEDED"
            THEN "EFFECT_SUCCEEDED" ELSE "EFFECT_FAILED", e, held[h][e].exec)
    /\ Leave(h)
    /\ UNCHANGED <<effects, World>>

-----------------------------------------------------------------------------
(* resume(recover_effects=True): the RUNNING records become UNKNOWN.  The   *)
(* MemoryStore does it under its lock; the SQL stores list the records and  *)
(* then save each of them, and the events are emitted after all the saves.  *)

\* (Mutant: nothing is ever recovered.)
NothingRunning == {}

Running == {e \in Effects : effects[e].status = "RUNNING"}

MayRecover(h) ==
    /\ step[h] = "idle"
    /\ h \in Controllers
    /\ ExclusiveRecovery => \A g \in Hosts : step[g] \notin Executing
    /\ Running # {}

\* (Mutant: a blind retry instead of UNKNOWN.)
BlindRetry(r) == [r EXCEPT !.status = "AUTHORIZED"]

Unresolved(r) == [r EXCEPT !.status = "UNKNOWN"]

RecoverAtomically(h) ==
    /\ AtomicRecovery
    /\ MayRecover(h)
    /\ effects' = [e \in Effects |-> IF e \in Running
                                     THEN Unresolved(effects[e])
                                     ELSE effects[e]]
    /\ held' = [held EXCEPT ![h] = [e \in Effects |->
                    IF e \in Running THEN Unresolved(effects[e]) ELSE Absent]]
    /\ step' = [step EXCEPT ![h] = "recovering"]
    /\ UNCHANGED <<events, current, World>>

ListRunning(h) ==
    /\ ~AtomicRecovery
    /\ MayRecover(h)
    /\ held' = [held EXCEPT ![h] = [e \in Effects |->
                    IF e \in Running THEN effects[e] ELSE Absent]]
    /\ step' = [step EXCEPT ![h] = "recovering"]
    /\ UNCHANGED <<effects, events, current, World>>

SaveUnknown(h, e) ==
    /\ step[h] = "recovering"
    /\ held[h][e].status = "RUNNING"
    /\ Save(e, Unresolved(held[h][e]))
    /\ held' = [held EXCEPT ![h][e].status = "UNKNOWN"]
    /\ UNCHANGED <<events, step, current, World>>

EmitUnknown(h, e) ==
    /\ step[h] = "recovering"
    /\ \A d \in Effects : held[h][d].status # "RUNNING"
    /\ held[h][e].status = "UNKNOWN"
    /\ Emit("EFFECT_UNKNOWN", e, held[h][e].exec)
    /\ held' = [held EXCEPT ![h][e] = Absent]
    /\ step' = [step EXCEPT ![h] =
                    IF \A d \in Effects \ {e} : held[h][d].status = "ABSENT"
                    THEN "idle" ELSE "recovering"]
    /\ UNCHANGED <<effects, current, World>>

-----------------------------------------------------------------------------
(* reconcile_effect: the operator has established what became of the        *)
(* external operation and records it; load, check UNKNOWN, save, emit.      *)

LoadToReconcile(h, e) ==
    /\ step[h] = "idle"
    /\ h \in Controllers
    /\ effects[e].status = "UNKNOWN"
    /\ effects[e].exec \in Execs
    /\ calls[effects[e].exec] # "inflight"
    /\ Enter(h, "reconciling", e,
             [effects[e] EXCEPT !.status = Outcome(effects[e].exec)])
    /\ UNCHANGED <<effects, events, World>>

SaveReconciled(h) ==
    LET e == current[h] IN
    /\ step[h] = "reconciling"
    /\ Save(e, held[h][e])
    /\ Enter(h, "reconciled", e, held[h][e])
    /\ UNCHANGED <<events, World>>

EmitReconciled(h) ==
    LET e == current[h] IN
    /\ step[h] = "reconciled"
    /\ Emit("EFFECT_RECONCILED", e, held[h][e].exec)
    /\ Leave(h)
    /\ UNCHANGED <<effects, World>>

-----------------------------------------------------------------------------
(* A host process ends at any point of a handler; resume() without          *)
(* recover_effects attaches a new process and changes no record.            *)

Crash(h) ==
    /\ step[h] # "down"
    /\ crashes < MaxCrashes
    /\ crashes' = crashes + 1
    /\ step' = [step EXCEPT ![h] = "down"]
    /\ current' = [current EXCEPT ![h] = NoEffect]
    /\ held' = [held EXCEPT ![h] = NothingHeld]
    /\ UNCHANGED <<effects, events, calls, owner>>

Resume(h) ==
    /\ step[h] = "down"
    /\ step' = [step EXCEPT ![h] = "idle"]
    /\ UNCHANGED <<effects, events, current, held, World>>

-----------------------------------------------------------------------------

Propose(h) ==
    \/ \E e \in Effects : FindByKey(h, e)
    \/ SaveProposal(h)
    \/ EmitProposed(h)

Authorize(h) ==
    \/ \E e \in Effects : LoadToAuthorize(h, e)
    \/ SaveAuthorized(h)
    \/ EmitAuthorized(h)

Execute(h) ==
    \/ \E e \in Effects, x \in Execs : ClaimAttempt(h, e, x)
    \/ EmitStarted(h)
    \/ Invoke(h)
    \/ FinishAttempt(h)
    \/ EmitFinished(h)

Recover(h) ==
    \/ RecoverAtomically(h)
    \/ ListRunning(h)
    \/ \E e \in Effects : SaveUnknown(h, e)
    \/ \E e \in Effects : EmitUnknown(h, e)

Reconcile(h) ==
    \/ \E e \in Effects : LoadToReconcile(h, e)
    \/ SaveReconciled(h)
    \/ EmitReconciled(h)

Next ==
    \/ \E h \in Hosts : \/ Propose(h)
                        \/ Authorize(h)
                        \/ Execute(h)
                        \/ Recover(h)
                        \/ Reconcile(h)
                        \/ Crash(h)
                        \/ Resume(h)
    \/ \E x \in Execs : CallReturns(x)

Spec == Init /\ [][Next]_vars

-----------------------------------------------------------------------------
(* Fairness: a live host finishes the handler it is in, an external call    *)
(* returns, a dead host is attached again and the controller runs the       *)
(* recovery that the documentation asks for after a crash.  Nobody is       *)
(* obliged to propose, authorize, execute or reconcile anything.            *)

InHandler(h) ==
    \/ SaveProposal(h)   \/ EmitProposed(h)
    \/ SaveAuthorized(h) \/ EmitAuthorized(h)
    \/ EmitStarted(h)    \/ Invoke(h)
    \/ FinishAttempt(h)  \/ EmitFinished(h)
    \/ \E e \in Effects : SaveUnknown(h, e) \/ EmitUnknown(h, e)
    \/ SaveReconciled(h) \/ EmitReconciled(h)

Fairness ==
    /\ \A h \in Hosts : /\ WF_vars(InHandler(h))
                        /\ WF_vars(Resume(h))
                        /\ WF_vars(RecoverAtomically(h) \/ ListRunning(h))
    /\ \A x \in Execs : WF_vars(CallReturns(x))

FairSpec == Spec /\ Fairness

-----------------------------------------------------------------------------
(* Properties.                                                              *)

InFlight(e) == {x \in Execs : calls[x] = "inflight" /\ owner[x] \in Sharing(e)}

Invoked(e) == {x \in Execs : /\ calls[x] \in {"inflight", "ok", "error"}
                             /\ owner[x] \in Sharing(e)}

\* The deployment under which the lifecycle keeps its promises: one host
\* authorizes, recovers and reconciles, recovery waits until no execution is
\* live, no retry policy lets an executor leave FAILED or UNKNOWN by itself,
\* and the store refuses a second record for a key.
Supervised ==
    /\ \A c, d \in Controllers : c = d
    /\ ExclusiveRecovery
    /\ ~RetryOnFailure
    /\ ~RetryOnUnknown
    /\ UniqueKeys

\* Two hosts never cross the external boundary for one idempotency key at the
\* same time (claim_effect_attempt is the only way in, and a record goes back
\* to AUTHORIZED only when its attempt is over).
AtMostOneInFlight ==
    \A e \in Effects : \A x, y \in InFlight(e) : x = y

\* A recorded success is final and no operation starts after it: neither an
\* authorization, a recovery nor a reconciliation that began earlier brings
\* the effect back.
NoInvocationAfterSuccess ==
    [][\A e \in Effects :
          effects[e].status = "SUCCEEDED" =>
              /\ effects'[e].status = "SUCCEEDED"
              /\ Invoked(e)' = Invoked(e)]_vars

\* The external system is called at most max_attempts times for a key, however
\* crashes, recoveries and new authorizations are interleaved.
InvocationBudget ==
    \A e \in Effects : Cardinality(Invoked(e)) <= Budget

\* A SUCCEEDED record names an execution whose external operation did succeed:
\* no late, stale or foreign answer is recorded as the outcome of an attempt.
RecordedSuccessIsReal ==
    \A e \in Effects :
        effects[e].status = "SUCCEEDED" =>
            effects[e].exec \in Execs /\ calls[effects[e].exec] = "ok"

\* While a host is executing, its attempt is still the one the store holds, so
\* the answer of the external system is never thrown away at finalization.
AnswersAreRecordable ==
    \A h \in Hosts :
        step[h] \in Executing =>
            /\ effects[current[h]].status = "RUNNING"
            /\ effects[current[h]].exec = held[h][current[h]].exec
            /\ effects[current[h]].attempts = held[h][current[h]].attempts

\* The store never holds two records for one idempotency key.
OneRecordPerKey ==
    \A d, e \in Effects :
        /\ KeyOf[d] = KeyOf[e]
        /\ effects[d].status # "ABSENT"
        /\ effects[e].status # "ABSENT"
        => d = e

\* An effect does not stay RUNNING: its executor records an outcome, or it
\* died and recovery marks the effect UNKNOWN.
RunningResolves ==
    \A e \in Effects :
        effects[e].status = "RUNNING" ~> effects[e].status # "RUNNING"

\* A success of the external system becomes known: it is recorded, or the
\* effect waits for reconciliation, even if the executor died before saving it.
SuccessSurfaces ==
    \A x \in Execs :
        calls[x] = "ok" ~>
            \E e \in Effects : /\ owner[x] = e
                               /\ effects[e].status \in {"SUCCEEDED", "UNKNOWN"}

=============================================================================
