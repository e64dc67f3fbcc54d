-------------------------- MODULE GovernedEffects --------------------------
(***************************************************************************)
(* The governed life of one effect in the v0.53 and v0.54 runtimes, over a *)
(* SQL store.  Every operation of the v0.8 lifecycle is wrapped in loads   *)
(* and saves of the same record, each a transaction of its own, that bind  *)
(* it to an intent, a scoped authorization, a dispatch request (a task     *)
(* lease), the ownership of the attempt and the verdict on it.  Only the   *)
(* claim and the finalization of an attempt compare before they write.     *)
(*                                                                         *)
(* A handler that raises (authority denied, lease or reservation gone, the *)
(* version guard of an evidence write, a dead process) is Abandon: the     *)
(* program can stop between any two of its steps.  Evidence identifiers    *)
(* are not told apart: whether a record already lists one is left open.    *)
(***************************************************************************)
EXTENDS Naturals

CONSTANTS
    Hosts,              \* engine processes attached to the store
    Leases,             \* task leases a dispatch may name
    Execs,              \* execution identifiers a claim can draw
    None,               \* the None of the code
    MaxAttempts,        \* RetryPolicy.max_attempts
    RetryOnFailure,     \* RetryPolicy.retry_on_failure
    RetryOnUnknown      \* RetryPolicy.retry_on_unknown

ASSUME GovernedAssumption ==
    /\ None \notin Leases \cup Execs
    /\ MaxAttempts \in Nat
    /\ {RetryOnFailure, RetryOnUnknown} \subseteq BOOLEAN

Statuses == {"ABSENT", "PROPOSED", "AUTHORIZED", "RUNNING",
             "SUCCEEDED", "FAILED", "UNKNOWN"}
Verdicts == {"CONFIRMED", "FAILED", "UNKNOWN"}

Records ==
    [status   : Statuses,
     attempts : Nat,
     exec     : Execs \cup {None},      \* execution_id, and its ownership
     intent   : BOOLEAN,                \* an EffectIntent is attached
     dispatch : Leases \cup {None},     \* dispatch_request
     under    : Leases \cup {None},     \* the dispatch request of ownership
     owners   : SUBSET Execs,           \* ownership_history
     outcome  : Verdicts \cup {None},   \* reconciliation
     verdicts : SUBSET (Execs \X Verdicts)]     \* reconciliation_history

Absent ==
    [status |-> "ABSENT", attempts |-> 0, exec |-> None, intent |-> FALSE,
     dispatch |-> None, under |-> None, owners |-> {}, outcome |-> None,
     verdicts |-> {}]

Fresh == [Absent EXCEPT !.status = "PROPOSED"]

\* A host in one of these steps is crossing the external boundary.
Executing == {"claimed", "owned", "started", "calling"}

Steps == Executing \cup
    {"idle", "proposing", "proposed", "intending", "intended", "noting",
     "authorizing", "binding", "endorsing", "admitted", "dispatching",
     "dispatched", "noting dispatch", "accepted", "deciding", "claiming",
     "requested", "settling", "settled", "concluded", "recovering",
     "reconciling", "reloaded", "reconciled", "concluding"}

VARIABLES
    record,     \* the row of the effect
    bound,      \* v0.53 bindings in the machine's evidence
    owned,      \* executions with ownership evidence
    calls,      \* the external operation of each execution
    at,         \* where each host is
    held,       \* the record each host has loaded or written
    arg,        \* the lease or the status its handler works with
    raced       \* history: a handler has gone on with a record that another
                \* host had moved to a different status or execution

vars == <<record, bound, owned, calls, at, held, arg, raced>>

Init ==
    /\ record = Absent
    /\ bound = {}
    /\ owned = {}
    /\ calls = [x \in Execs |-> "unused"]
    /\ at = [h \in Hosts |-> "idle"]
    /\ held = [h \in Hosts |-> Absent]
    /\ arg = [h \in Hosts |-> None]
    /\ raced = FALSE

-----------------------------------------------------------------------------
(* Loads and saves.                                                         *)

\* EffectRecord.__post_init__ runs on every load from a SQL store: a dispatch
\* request beside the ownership of another one makes the record unreadable.
Readable ==
    record.under # None /\ record.dispatch # None
        => record.under = record.dispatch

Moved(h) == \/ record.status # held[h].status
            \/ record.exec # held[h].exec

\* Between these steps a handler uses nothing of a record it has loaded.
Forgetting == {"idle", "proposing", "intended", "concluded", "admitted",
               "dispatched", "accepted", "claiming", "requested"}

Enter(h, s, r, a) ==
    /\ at' = [at EXCEPT ![h] = s]
    /\ held' = [held EXCEPT ![h] = IF s \in Forgetting THEN Absent ELSE r]
    /\ arg' = [arg EXCEPT ![h] = a]

Leave(h) == Enter(h, "idle", Absent, None)

Load(h, s, a) == Readable /\ Enter(h, s, record, a)

\* save_effect writes r whatever the row holds by now.
Write(h, r, s, a) ==
    /\ record' = r
    /\ Enter(h, s, r, a)
    /\ raced' = (raced \/ Moved(h))

Go(h, s) == Enter(h, s, held[h], None)

Evidence == <<bound, owned, calls>>

-----------------------------------------------------------------------------
(* propose_effect: the v0.8 proposal, its v0.53 binding, the v0.54 intent.  *)

FindByKey(h) ==
    /\ at[h] = "idle"
    /\ \/ record.status = "ABSENT" /\ Load(h, "proposing", None)
       \/ /\ record.status # "ABSENT"
          /\ "proposal" \in bound
          /\ Load(h, "intending", None)
    /\ UNCHANGED <<record, Evidence, raced>>

\* The key is looked up once more; an insertion under a taken key raises.
SaveProposal(h) ==
    /\ at[h] = "proposing"
    /\ \/ record.status = "ABSENT" /\ Write(h, Fresh, "proposed", None)
       \/ /\ record.status # "ABSENT"
          /\ Load(h, "proposed", None)
          /\ UNCHANGED <<record, raced>>
    /\ UNCHANGED Evidence

BindProposal(h) ==
    /\ at[h] = "proposed"
    /\ bound' = bound \cup {"proposal"}
    /\ Go(h, "intending")
    /\ UNCHANGED <<record, owned, calls, raced>>

SaveIntent(h) ==
    /\ at[h] = "intending"
    /\ \/ /\ held[h].intent
          /\ Go(h, "intended")
          /\ UNCHANGED <<record, raced>>
       \/ /\ ~held[h].intent
          /\ held[h].status = "PROPOSED"
          /\ Write(h, [held[h] EXCEPT !.intent = TRUE], "intended", None)
    /\ UNCHANGED Evidence

\* _latest_effect_authorization looks for the binding in the evidence.
\* (Mutant: the status of the record is taken for it.)
StatusSuffices == record.status = "AUTHORIZED"

HasAuthorization == "authorization" \in bound

\* The evidence of an intent, a dispatch request or a verdict is recorded, the
\* record is loaded again and saved with its identifier, if that is new.
LoadToNote(h) ==
    /\ \/ at[h] \in {"intended", "concluded"} /\ Load(h, "noting", None)
       \/ /\ at[h] = "dispatched"
          /\ HasAuthorization
          /\ Load(h, "noting dispatch", None)
    /\ UNCHANGED <<record, Evidence, raced>>

AfterNote(h) == IF at[h] = "noting" THEN "idle" ELSE "accepted"

SaveNote(h) ==
    /\ at[h] \in {"noting", "noting dispatch"}
    /\ \/ Write(h, held[h], AfterNote(h), None)
       \/ Go(h, AfterNote(h)) /\ UNCHANGED <<record, raced>>
    /\ UNCHANGED Evidence

-----------------------------------------------------------------------------
(* authorize_effect: load and save AUTHORIZED, record the scoped binding,   *)
(* save the record once more with the identifier of the binding.            *)

Governed == record.intent /\ "proposal" \in bound

LoadToAuthorize(h) ==
    /\ at[h] = "idle"
    /\ Governed
    /\ \/ record.status \in {"PROPOSED", "FAILED"} /\ Load(h, "authorizing", None)
       \/ record.status = "SUCCEEDED" /\ Load(h, "binding", None)
    /\ UNCHANGED <<record, Evidence, raced>>

SaveAuthorized(h) ==
    /\ at[h] = "authorizing"
    /\ Write(h, [held[h] EXCEPT !.status = "AUTHORIZED"], "binding", None)
    /\ UNCHANGED Evidence

BindAuthorization(h) ==
    /\ at[h] = "binding"
    /\ bound' = bound \cup {"authorization"}
    /\ Go(h, "endorsing")
    /\ UNCHANGED <<record, owned, calls, raced>>

\* After an early return for SUCCEEDED the binding may be in the list already.
SaveEndorsed(h) ==
    /\ at[h] = "endorsing"
    /\ \/ Write(h, held[h], "idle", None)
       \/ held[h].status = "SUCCEEDED" /\ Leave(h) /\ UNCHANGED <<record, raced>>
    /\ UNCHANGED Evidence

-----------------------------------------------------------------------------
(* execute_effect.                                                          *)

StartExecute(h, l) ==
    /\ at[h] = "idle"
    /\ record.status \notin {"ABSENT", "UNKNOWN"}
    /\ \/ record.status = "SUCCEEDED" /\ Load(h, "settling", None)
       \/ record.status # "SUCCEEDED" /\ Load(h, "admitted", l)
    /\ UNCHANGED <<record, Evidence, raced>>

\* _bind_dispatch_request
LoadToDispatch(h) ==
    /\ at[h] = "admitted"
    /\ Governed
    /\ record.status \notin {"RUNNING", "UNKNOWN"}
    /\ Load(h, "dispatching", arg[h])
    /\ UNCHANGED <<record, Evidence, raced>>

SaveDispatch(h) ==
    /\ at[h] = "dispatching"
    /\ \/ /\ held[h].dispatch = arg[h]
          /\ Go(h, "dispatched")
          /\ UNCHANGED <<record, raced>>
       \/ /\ held[h].dispatch # arg[h]
          /\ Write(h, [held[h] EXCEPT !.dispatch = arg[h]], "dispatched", None)
    /\ UNCHANGED Evidence

\* The execute_effect of v0.53 loads the record, asks for the authority to
\* execute and saves the record it loaded with the identifier of the answer.
LoadToDecide(h) ==
    /\ at[h] = "accepted"
    /\ \/ record.status = "SUCCEEDED" /\ Load(h, "settling", None)
       \/ /\ record.status # "SUCCEEDED"
          /\ "proposal" \in bound
          /\ HasAuthorization
          /\ Load(h, "deciding", None)
    /\ UNCHANGED <<record, Evidence, raced>>

SaveDecided(h) ==
    /\ at[h] = "deciding"
    /\ \/ Write(h, held[h], "claiming", None)
       \/ Go(h, "claiming") /\ UNCHANGED <<record, raced>>
    /\ UNCHANGED Evidence

\* _effect_ownership_request_for_claim names the dispatch of the record.
RequestOwnership(h) ==
    /\ at[h] = "claiming"
    /\ record.intent
    /\ record.dispatch # None
    /\ Load(h, "requested", record.dispatch)
    /\ UNCHANGED <<record, Evidence, raced>>

Budget == IF MaxAttempts > 1 THEN MaxAttempts ELSE 1

\* (Mutant: an unresolved attempt does not wait for reconciliation.)
UnresolvedIsRetried ==
    /\ record.status \in {"AUTHORIZED", "UNKNOWN"}
    /\ record.attempts < Budget

Claimable ==
    /\ \/ record.status = "AUTHORIZED"
       \/ record.status = "FAILED" /\ RetryOnFailure
       \/ record.status = "UNKNOWN" /\ RetryOnUnknown
    /\ record.attempts < Budget

\* (Mutant: the ownership replaces the history instead of joining it.)
LatestOwner(x, l) ==
    [record EXCEPT !.status = "RUNNING", !.attempts = @ + 1, !.exec = x,
                   !.under = l, !.owners = {x}, !.outcome = None]

Claimed(x, l) ==
    [record EXCEPT !.status = "RUNNING", !.attempts = @ + 1, !.exec = x,
                   !.under = l, !.owners = @ \cup {x}, !.outcome = None]

\* One transaction: claim_effect_attempt with the ownership request.
ClaimAttempt(h, x) ==
    /\ at[h] = "requested"
    /\ calls[x] = "unused"
    /\ Readable
    /\ \/ /\ Claimable
          /\ record.dispatch = arg[h]
          /\ record' = Claimed(x, arg[h])
          /\ Enter(h, "claimed", record', None)
          /\ calls' = [calls EXCEPT ![x] = "claimed"]
       \/ /\ record.status = "SUCCEEDED"
          /\ Enter(h, "settling", record, None)
          /\ UNCHANGED <<record, calls>>
    /\ UNCHANGED <<bound, owned, raced>>

\* _after_effect_claim
RecordOwnership(h) ==
    /\ at[h] = "claimed"
    /\ owned' = owned \cup {held[h].exec}
    /\ Go(h, "owned")
    /\ UNCHANGED <<record, bound, calls, raced>>

SaveOwned(h) ==
    /\ at[h] = "owned"
    /\ Write(h, held[h], "started", None)
    /\ UNCHANGED Evidence

Invoke(h) ==
    /\ at[h] = "started"
    /\ calls' = [calls EXCEPT ![held[h].exec] = "inflight"]
    /\ Go(h, "calling")
    /\ UNCHANGED <<record, bound, owned, raced>>

CallReturns(x) ==
    /\ calls[x] = "inflight"
    /\ \E answer \in {"ok", "error"} : calls' = [calls EXCEPT ![x] = answer]
    /\ UNCHANGED <<record, bound, owned, at, held, arg, raced>>

\* (Mutant: a call that was never made is taken for one without an error.)
NoErrorIsSuccess(x) == IF calls[x] = "error" THEN "FAILED" ELSE "SUCCEEDED"

Outcome(x) == IF calls[x] = "ok" THEN "SUCCEEDED" ELSE "FAILED"

OwnsAttempt(mine) ==
    /\ record.status = "RUNNING"
    /\ record.exec = mine.exec
    /\ record.attempts = mine.attempts

\* One transaction: finish_effect_attempt.
FinishAttempt(h) ==
    /\ at[h] = "calling"
    /\ calls[held[h].exec] \in {"ok", "error"}
    /\ Readable
    /\ OwnsAttempt(held[h])
    /\ record' = [record EXCEPT !.status = Outcome(held[h].exec)]
    /\ Enter(h, "settling", record', None)
    /\ UNCHANGED <<Evidence, raced>>

-----------------------------------------------------------------------------
(* _ensure_terminal_reconciliation: attach the verdict on the attempt.  The *)
(* status of the record it loads is not looked at again.                    *)

VerdictOn(s) == IF s = "SUCCEEDED" THEN "CONFIRMED" ELSE "FAILED"

Judged(r, v) ==
    [r EXCEPT !.outcome = v,
              !.verdicts = IF r.exec = None THEN @ ELSE @ \cup {<<r.exec, v>>}]

LoadToSettle(h) ==
    /\ at[h] = "settling"
    /\ IF record.exec = None
       THEN Readable /\ Leave(h)
       ELSE Load(h, IF record.outcome = VerdictOn(record.status)
                    THEN "concluded" ELSE "settled", None)
    /\ raced' = (raced \/ Moved(h))
    /\ UNCHANGED <<record, Evidence>>

SaveSettled(h) ==
    /\ at[h] = "settled"
    /\ Write(h, Judged(held[h], VerdictOn(held[h].status)), "concluded", None)
    /\ UNCHANGED Evidence

-----------------------------------------------------------------------------
(* resume(recover_effects=True): run while no execution is live.  The SQL   *)
(* stores list the RUNNING records and save UNKNOWN later.                  *)

ListRunning(h) ==
    /\ at[h] = "idle"
    /\ record.status = "RUNNING"
    /\ \A g \in Hosts : at[g] \notin Executing
    /\ Load(h, "recovering", None)
    /\ UNCHANGED <<record, Evidence, raced>>

SaveUnknown(h) ==
    /\ at[h] = "recovering"
    /\ Write(h, [Judged(held[h], "UNKNOWN") EXCEPT !.status = "UNKNOWN"], "idle", None)
    /\ UNCHANGED Evidence

-----------------------------------------------------------------------------
(* reconcile_effect: the operator has established what became of the call   *)
(* of the execution on record; the verdict is saved in two further steps.   *)

StartReconcile(h) ==
    /\ at[h] = "idle"
    /\ Governed
    /\ record.status = "UNKNOWN"
    /\ record.exec # None
    /\ calls[record.exec] # "inflight"
    /\ Load(h, "reconciling", Outcome(record.exec))
    /\ UNCHANGED <<record, Evidence, raced>>

LoadToReconcile(h) ==
    /\ at[h] = "reconciling"
    /\ record.status = "UNKNOWN"
    /\ Load(h, "reloaded", arg[h])
    /\ raced' = (raced \/ Moved(h))
    /\ UNCHANGED <<record, Evidence>>

SaveReconciled(h) ==
    /\ at[h] = "reloaded"
    /\ Write(h, [held[h] EXCEPT !.status = arg[h]], "reconciled", arg[h])
    /\ UNCHANGED Evidence

LoadToConclude(h) ==
    /\ at[h] = "reconciled"
    /\ Load(h, "concluding", arg[h])
    /\ raced' = (raced \/ Moved(h))
    /\ UNCHANGED <<record, Evidence>>

SaveConcluded(h) ==
    /\ at[h] = "concluding"
    /\ Write(h, Judged(held[h], VerdictOn(arg[h])), "concluded", None)
    /\ UNCHANGED Evidence

-----------------------------------------------------------------------------

Abandon(h) ==
    /\ at[h] # "idle"
    /\ Leave(h)
    /\ UNCHANGED <<record, Evidence, raced>>

Propose(h) ==
    FindByKey(h) \/ SaveProposal(h) \/ BindProposal(h) \/ SaveIntent(h)

Note(h) == LoadToNote(h) \/ SaveNote(h)

Authorize(h) ==
    \/ LoadToAuthorize(h) \/ SaveAuthorized(h)
    \/ BindAuthorization(h) \/ SaveEndorsed(h)

Dispatch(h) ==
    \/ \E l \in Leases : StartExecute(h, l)
    \/ LoadToDispatch(h) \/ SaveDispatch(h)
    \/ LoadToDecide(h) \/ SaveDecided(h)

Execute(h) ==
    \/ RequestOwnership(h)
    \/ \E x \in Execs : ClaimAttempt(h, x)
    \/ RecordOwnership(h) \/ SaveOwned(h)
    \/ Invoke(h) \/ FinishAttempt(h)

Settle(h) == LoadToSettle(h) \/ SaveSettled(h)

Recover(h) == ListRunning(h) \/ SaveUnknown(h)

Reconcile(h) ==
    \/ StartReconcile(h) \/ LoadToReconcile(h) \/ SaveReconciled(h)
    \/ LoadToConclude(h) \/ SaveConcluded(h)

Next ==
    \/ \E h \in Hosts : \/ Propose(h) \/ Note(h) \/ Authorize(h)
                        \/ Dispatch(h) \/ Execute(h) \/ Settle(h)
                        \/ Recover(h) \/ Reconcile(h) \/ Abandon(h)
    \/ \E x \in Execs : CallReturns(x)

Spec == Init /\ [][Next]_vars

-----------------------------------------------------------------------------
(* Properties.                                                              *)

CallStates == {"unused", "claimed", "inflight", "ok", "error"}

\* Types of the variables.
TypeOK ==
    /\ record \in Records
    /\ bound \subseteq {"proposal", "authorization"}
    /\ owned \subseteq Execs
    /\ calls \in [Execs -> CallStates]
    /\ at \in [Hosts -> Steps]
    /\ held \in [Hosts -> Records]
    /\ arg \in [Hosts -> Leases \cup {"SUCCEEDED", "FAILED", None}]
    /\ raced \in BOOLEAN

Invoked == {x \in Execs : calls[x] \in {"inflight", "ok", "error"}}

\* No external call is made for an effect that lacks its scoped proposal or
\* authorization, or before the ownership of its attempt is in evidence: also
\* not after a crash between a status and the evidence that goes with it.
CallsAreGoverned ==
    Invoked # {} => /\ {"proposal", "authorization"} \subseteq bound
                    /\ Invoked \subseteq owned

\* As long as no handler has gone on with a record that moved under it, the
\* external boundary is crossed by one attempt at a time, whatever crashes,
\* recoveries, reconciliations and new dispatches come between.
OneCallAtATime ==
    ~raced /\ ~RetryOnUnknown =>
        \A x, y \in Execs :
            calls[x] = "inflight" /\ calls[y] = "inflight" => x = y

\* Retries, recoveries and reconciliations only append to the owners: until a
\* handler goes on with a record that moved, every attempt that was invoked is
\* in the ownership history. A save of such a record can shorten the history.
OwnershipIsKept == ~raced => Invoked \subseteq record.owners

\* Under the condition of OneCallAtATime a verdict is the truth about the
\* attempt it names: CONFIRMED only for a call that succeeded, FAILED only for
\* one that neither succeeded nor is still under way.
VerdictsAreReal ==
    ~raced /\ ~RetryOnUnknown =>
        \A x \in Execs :
            /\ <<x, "CONFIRMED">> \in record.verdicts => calls[x] = "ok"
            /\ <<x, "FAILED">> \in record.verdicts
                   => calls[x] \in {"claimed", "error"}

\* What the contract of effects.py promises without any condition: the
\* histories of ownerships and verdicts only grow.
HistoryIsAppendOnly ==
    [][/\ record.owners \subseteq record'.owners
       /\ record.verdicts \subseteq record'.verdicts]_vars
=============================================================================
