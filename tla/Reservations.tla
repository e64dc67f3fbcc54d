---------------------------- MODULE Reservations ----------------------------
(***************************************************************************)
(* Governed resources of the v0.52 to v0.54 runtimes: capacities and the   *)
(* reservations drawn from them, recorded as documents in the evidence of  *)
(* one machine by several hosts.                                           *)
(*                                                                         *)
(* A document carries the capacities that result from it, computed from a  *)
(* projection the host made earlier, and its identifier is a fingerprint   *)
(* of its content: one that is there already is not appended again.  An    *)
(* append names the version of the host's snapshot and is refused when any *)
(* event came in between.  A handler that raises is Abandon.               *)
(*                                                                         *)
(* The capacities are registered, in one workspace and scope, and have a   *)
(* finite total; a candidate names its resources, each of them once.       *)
(***************************************************************************)
EXTENDS Integers, FiniteSets, Functions

CONSTANTS
    Hosts,          \* engine processes attached to the store
    Resources,      \* registered capacities
    Candidates,     \* resource-aware candidates; each stands for its reservation
    Demand,         \* what a candidate demands of the resources it names
    Total,          \* total of a capacity
    Protected,      \* protected_reserve of a capacity
    Amounts,        \* amounts of consumption and of revised demand
    Reports,        \* reported_remaining of observations
    Bound,          \* resource_reservation_ids of an effect
    MaxDocuments,   \* bound on the documents of a run
    None

Vectors == UNION {[S -> Nat] : S \in SUBSET Resources}

\* What the reservations of an effect may have consumed.
Consumptions == [Bound -> UNION {[S -> Amounts] : S \in SUBSET Resources}]

ASSUME ReservationsAssumption ==
    /\ \A c \in Candidates : /\ DOMAIN Demand[c] \subseteq Resources
                            /\ Demand[c] \in [DOMAIN Demand[c] -> Nat]
    /\ Total \in [Resources -> Nat]
    /\ Protected \in [Resources -> Nat]
    /\ Amounts \subseteq Nat
    /\ Reports \subseteq Nat
    /\ Bound \subseteq Candidates
    /\ None \notin Candidates \cup Resources \cup Nat
    /\ None \notin [actual : [Bound -> Vectors], todo : SUBSET Bound]
    /\ Candidates \cap Resources = {}

Steps == {"idle", "decided", "reported", "appending", "explaining", "observing",
          "binding", "entered", "settling", "summing"}

VARIABLES
    capacity,       \* projection: the governed capacities
    reservation,    \* projection: the reservation of each candidate
    documents,      \* the resource documents in the evidence
    summaries,      \* effect settlements recorded as complete
    at,             \* where each host is
    plan,           \* the projection a host works with
    pending,        \* the document a host is about to append
    task,           \* the effect settlement a host is in
    current,        \* no event was committed since a host's snapshot
    answer          \* what the last call has returned

ledger == <<capacity, reservation, documents, summaries>>
vars == <<ledger, at, plan, pending, task, current, answer>>

-----------------------------------------------------------------------------
(* Capacities, reservations and documents.                                  *)

Nothing == [r \in {} |-> 0]

\* Allocations of a reservation, consumption, revised demand.
IsVector(v) == DOMAIN v \subseteq Resources /\ v \in [DOMAIN v -> Nat]

Capacities == [committed : Nat, consumed : Nat, seen : Nat \cup {None}]

Statuses == {"NONE", "ACTIVE", "REPLAN_REQUIRED", "SETTLED", "RELEASED"}

Live(reserved, c) == reserved[c].status \in {"ACTIVE", "REPLAN_REQUIRED"}

\* (Mutant: the consumption of the last settlement replaces the total.)
ConsumeLatest(cap, v, actual) ==
    [r \in DOMAIN v |->
        [cap[r] EXCEPT !.committed = @ - v[r], !.consumed = actual[r]]]

\* amount <= planning_allocatable: the declared rest, and the observed one when
\* the policy trusts the latest observation.
Fits(cap, r, amount, trusting) ==
    \/ amount = 0
    \/ /\ cap[r].consumed + cap[r].committed + amount + Protected[r] <= Total[r]
       /\ trusting /\ cap[r].seen # None
             => cap[r].committed + amount + Protected[r] <= cap[r].seen

Covers(cap, v) == \A r \in DOMAIN v : v[r] <= cap[r].committed

Commit(cap, v) ==
    [r \in DOMAIN v |-> [cap[r] EXCEPT !.committed = @ + v[r]]]

Free(cap, v) ==
    [r \in DOMAIN v |-> [cap[r] EXCEPT !.committed = @ - v[r]]]

Consume(cap, v, actual) ==
    [r \in DOMAIN v |->
        [cap[r] EXCEPT !.committed = @ - v[r], !.consumed = @ + actual[r]]]

\* (Mutant: only the first of the capacities of a document is taken over.)
UpdateOne(cap, post) ==
    LET one == CHOOSE r \in DOMAIN post : TRUE IN
    [r \in Resources |-> IF r \in DOMAIN post /\ r = one THEN post[r] ELSE cap[r]]

\* post_capacities replace the capacities they name.
Update(cap, post) == [r \in Resources |-> IF r \in DOMAIN post THEN post[r] ELSE cap[r]]

Document(kind, about, amounts, post) ==
    [kind |-> kind, about |-> about, amounts |-> amounts, post |-> post,
     rows |-> {}, verdict |-> {}, before |-> Nothing]

\* What a document makes of the reservation it is about.
Projected(old, d) ==
    CASE d.kind = "reserve" ->
           [status |-> "ACTIVE", held |-> d.amounts, spent |-> Nothing]
      [] d.kind = "settle" -> [old EXCEPT !.status = "SETTLED", !.spent = d.amounts]
      [] d.kind = "release" -> [old EXCEPT !.status = "RELEASED"]
      [] d.kind = "reestimate" /\ d.verdict = {} ->
           [old EXCEPT !.status = "ACTIVE", !.held = d.amounts]
      [] OTHER -> [old EXCEPT !.status = "REPLAN_REQUIRED"]

Init ==
    /\ capacity = [r \in Resources |-> [committed |-> 0, consumed |-> 0, seen |-> None]]
    /\ reservation = [c \in Candidates |->
                        [status |-> "NONE", held |-> Nothing, spent |-> Nothing]]
    /\ documents = {}
    /\ summaries = {}
    /\ at = [h \in Hosts |-> "idle"]
    /\ plan = [h \in Hosts |-> None]
    /\ pending = [h \in Hosts |-> None]
    /\ task = [h \in Hosts |-> None]
    /\ current = [h \in Hosts |-> FALSE]
    /\ answer = None

-----------------------------------------------------------------------------
(* The frame of a handler: decision, projection, refresh, append.           *)

Projection == [capacity |-> capacity, reservation |-> reservation]

Go(h, s, doc) ==
    /\ at' = [at EXCEPT ![h] = s]
    /\ pending' = [pending EXCEPT ![h] = doc]

\* An event of h makes the snapshots of the other hosts stale.
Overtake(h) == current' = [g \in Hosts |-> g = h /\ at'[h] # "idle"]

Return(h, kind, about) ==
    /\ Go(h, "idle", None)
    /\ answer' = [kind |-> kind, about |-> about]

\* The settlement d of one reservation is found or made for the task t.
Settled(t, d) ==
    [t EXCEPT !.todo = @ \ {d.about}, !.actual[d.about] = d.amounts]

\* The handler goes on when its document is in the evidence.
Continue(h, d) ==
    IF d.kind = "reserve"
    THEN Go(h, "explaining", d) /\ answer' = None /\ UNCHANGED task
    ELSE IF d.kind = "capacity"
    THEN Go(h, "binding", None) /\ answer' = None /\ UNCHANGED task
    ELSE IF task[h] # None
    THEN /\ task' = [task EXCEPT ![h] = Settled(@, d)]
         /\ Go(h, IF task'[h].todo = {} THEN "summing" ELSE "settling", None)
         /\ answer' = None
    ELSE Return(h, d.kind, d.about) /\ UNCHANGED task

\* (Mutant: the identifier of a settlement leaves out the consumption.)
FoundBySubject(d) ==
    \E e \in documents :
        e.kind = d.kind /\ e.about = d.about /\ (d.kind = "settle" \/ e = d)

\* The identifier of a document is a fingerprint of all of it.
Found(d) == d \in documents

\* The context is validated, which refreshes the snapshot, and the document is
\* looked for in it by its identifier.
Record(h, d) ==
    /\ IF Found(d)
       THEN Continue(h, d)
       ELSE Go(h, "appending", d) /\ answer' = None /\ UNCHANGED task
    /\ plan' = [plan EXCEPT ![h] = None]
    /\ current' = [current EXCEPT ![h] = at'[h] # "idle"]
    /\ UNCHANGED ledger

\* The scoped authority decides; the decision is an event unless the same
\* request was decided before.  The host's snapshot is canonical after it.
Authorize(h) ==
    /\ at[h] \in {"idle", "settling"}
    /\ Cardinality(documents) < MaxDocuments
    /\ \/ current' = [g \in Hosts |-> FALSE]
       \/ current' = [current EXCEPT ![h] = FALSE]
    /\ Go(h, "decided", None)
    /\ plan' = [plan EXCEPT ![h] = Projection]
    /\ answer' = None
    /\ UNCHANGED <<ledger, task>>

Append(h) ==
    /\ at[h] = "appending"
    /\ current[h]
    /\ LET d == pending[h] IN
       /\ capacity' = Update(capacity, d.post)
       /\ reservation' = IF d.about \in Candidates
                         THEN [reservation EXCEPT ![d.about] = Projected(@, d)]
                         ELSE reservation
       /\ documents' = documents \cup {d}
       /\ Continue(h, d)
    /\ Overtake(h)
    /\ UNCHANGED <<summaries, plan>>

\* Denied, infeasible, not active, refused as stale, or the process died.
Abandon(h) ==
    /\ at[h] # "idle"
    /\ Go(h, "idle", None)
    /\ plan' = [plan EXCEPT ![h] = None]
    /\ task' = [task EXCEPT ![h] = None]
    /\ current' = [current EXCEPT ![h] = FALSE]
    /\ answer' = None
    /\ UNCHANGED ledger

-----------------------------------------------------------------------------
(* The operations.                                                          *)

\* The v0.52 wrapper reports the capacities first, which refreshes once more.
Report(h) ==
    /\ at[h] = "decided"
    /\ task[h] = None
    /\ Go(h, "reported", None)
    /\ plan' = [plan EXCEPT ![h] = Projection]
    /\ answer' = None
    /\ UNCHANGED <<ledger, task, current>>

\* The policy ranks the eligible candidates: any of them may be the first.
Reserve(h) ==
    /\ at[h] = "reported"
    /\ \E rows \in SUBSET Candidates \ {{}}, trusting \in BOOLEAN :
         LET cap == plan[h].capacity
             eligible == {c \in rows : \A r \in DOMAIN Demand[c] :
                                          Fits(cap, r, Demand[c][r], trusting)}
             Selected(c, v, post) ==
                 [Document("reserve", c, v, post) EXCEPT !.rows = rows, !.verdict = eligible]
         IN \/ eligible = {} /\ Record(h, Selected(None, Nothing, Nothing))
            \/ \E c \in eligible :
                 /\ plan[h].reservation[c].status # "ACTIVE"
                 /\ Record(h, Selected(c, Demand[c], Commit(cap, Demand[c])))

\* A routing explanation follows: recorded if it is new and nothing came since.
Explain(h) ==
    /\ at[h] = "explaining"
    /\ Return(h, "reserve", pending[h].about)
    /\ \/ current[h] /\ Overtake(h)
       \/ current' = [current EXCEPT ![h] = FALSE]
    /\ UNCHANGED <<ledger, plan, task>>

Settle(h) ==
    /\ at[h] = "decided"
    /\ \E c \in IF task[h] = None THEN Candidates ELSE task[h].todo :
         LET old == plan[h].reservation[c]
             cap == plan[h].capacity
         IN /\ old.status = "ACTIVE"
            /\ Covers(cap, old.held)
            /\ \E actual \in IF task[h] = None THEN [DOMAIN old.held -> Amounts]
                                               ELSE {task[h].actual[c]} :
                 /\ DOMAIN actual = DOMAIN old.held
                 /\ Record(h, Document("settle", c, actual,
                                       Consume(cap, old.held, actual)))

\* The old allocation is freed on a trial; what does not fit then asks for a
\* new plan and leaves the capacities alone.
Reestimate(h) ==
    /\ at[h] = "decided"
    /\ task[h] = None
    /\ \E c \in Candidates, trusting \in BOOLEAN :
         LET old == plan[h].reservation[c]
             cap == plan[h].capacity
             trial == Update(cap, Free(cap, old.held))
         IN /\ old.status = "ACTIVE"
            /\ Covers(cap, old.held)
            /\ \E revised \in [DOMAIN old.held -> Amounts] :
                 LET infeasible == {r \in DOMAIN revised :
                                      ~ Fits(trial, r, revised[r], trusting)}
                     post == IF infeasible = {} THEN Commit(trial, revised) ELSE Nothing
                 IN Record(h, [Document("reestimate", c, revised, post) EXCEPT
                                  !.verdict = infeasible, !.before = old.held])

Release(h) ==
    /\ at[h] = "decided"
    /\ task[h] = None
    /\ \E c \in Candidates :
         LET old == plan[h].reservation[c] IN
         /\ Live(plan[h].reservation, c)
         /\ Covers(plan[h].capacity, old.held)
         /\ Record(h, Document("release", c, old.held,
                               Free(plan[h].capacity, old.held)))

Observation(d) ==
    Document("observation", d.about, [r \in {d.about} |-> d.post[r].seen], Nothing)

\* Two documents: the observation, and the capacity that shows it.
Observe(h) ==
    /\ at[h] = "decided"
    /\ task[h] = None
    /\ \E r \in Resources, seen \in Reports :
         LET d == Document("capacity", r, Nothing,
                           [x \in {r} |-> [plan[h].capacity[x] EXCEPT !.seen = seen]])
         IN IF Found(Observation(d))
            THEN Record(h, d)
            ELSE /\ Go(h, "observing", d)
                 /\ plan' = [plan EXCEPT ![h] = None]
                 /\ current' = [current EXCEPT ![h] = TRUE]
                 /\ answer' = None
                 /\ UNCHANGED <<ledger, task>>

\* A capacity that shows an observation is never there before the observation.
AppendObservation(h) ==
    /\ at[h] = "observing"
    /\ current[h]
    /\ documents' = documents \cup {Observation(pending[h])}
    /\ Go(h, "appending", pending[h])
    /\ Overtake(h)
    /\ answer' = None
    /\ UNCHANGED <<capacity, reservation, summaries, plan, task>>

\* The binding of an observation to its authority, unguarded; nothing is written
\* when it is there already.
Bind(h) ==
    /\ at[h] = "binding"
    /\ Return(h, "observe", None)
    /\ \/ Overtake(h)
       \/ current' = [current EXCEPT ![h] = FALSE]
    /\ UNCHANGED <<ledger, plan, task>>

\* settle_effect_resources validates the context of a reconciled effect, which
\* refreshes the snapshot, and reports the reservations.
Enter(h) ==
    /\ at[h] = "idle"
    /\ Bound # {}
    /\ Go(h, "entered", None)
    /\ plan' = [plan EXCEPT ![h] = Projection]
    /\ current' = [current EXCEPT ![h] = FALSE]
    /\ answer' = None
    /\ UNCHANGED <<ledger, task>>

Consistent(reserved, c, actual) ==
    \/ reserved[c].status = "ACTIVE"
    \/ reserved[c].status = "SETTLED" /\ reserved[c].spent = actual

\* Those that are ACTIVE are settled one after the other with the consumption it
\* was given; those that are SETTLED must agree with it, and stand for it.
SettleEffect(h) ==
    /\ at[h] = "entered"
    /\ \E actual \in Consumptions :
         LET reserved == plan[h].reservation
             todo == {c \in Bound : reserved[c].status = "ACTIVE"}
             known == [c \in Bound |-> IF c \in todo THEN actual[c]
                                      ELSE reserved[c].spent]
         IN /\ \A c \in Bound : /\ DOMAIN actual[c] = DOMAIN reserved[c].held
                                /\ Consistent(reserved, c, actual[c])
            /\ task' = [task EXCEPT ![h] = [actual |-> known, todo |-> todo]]
            /\ Go(h, IF todo = {} THEN "summing" ELSE "settling", None)
    /\ plan' = [plan EXCEPT ![h] = None]
    /\ current' = [current EXCEPT ![h] = TRUE]
    /\ answer' = None
    /\ UNCHANGED ledger

\* The summary names the consumption of the settlements found or made.  One that
\* is there already is found by its identifier.
Summarize(h) ==
    /\ at[h] = "summing"
    /\ Go(h, "idle", None)
    /\ \/ task[h].actual \in summaries /\ current' = [current EXCEPT ![h] = FALSE]
       \/ task[h].actual \notin summaries /\ current[h] /\ Overtake(h)
    /\ summaries' = summaries \cup {task[h].actual}
    /\ task' = [task EXCEPT ![h] = None]
    /\ answer' = None
    /\ UNCHANGED <<capacity, reservation, documents, plan>>

Next ==
    \E h \in Hosts :
        \/ Authorize(h) \/ Append(h) \/ Abandon(h)
        \/ Report(h) \/ Reserve(h) \/ Explain(h)
        \/ Settle(h) \/ Reestimate(h) \/ Release(h)
        \/ Observe(h) \/ AppendObservation(h) \/ Bind(h)
        \/ Enter(h) \/ SettleEffect(h) \/ Summarize(h)

Spec == Init /\ [][Next]_vars

-----------------------------------------------------------------------------
(* Properties.                                                              *)

\* The projection stays well-formed, and a handler holds a document only where
\* it has one to record.
TypeOK ==
    /\ capacity \in [Resources -> Capacities]
    /\ \A c \in Candidates : /\ reservation[c].status \in Statuses
                            /\ IsVector(reservation[c].held)
                            /\ IsVector(reservation[c].spent)
    /\ at \in [Hosts -> Steps]
    /\ current \in [Hosts -> BOOLEAN]

Sum(f) == FoldFunction(+, 0, f)

\* With a single engine attached, what a capacity has committed covers every
\* reservation that is still held, whatever is released, estimated again or
\* abandoned half-way: settlement and release find what they take back.
CommitmentsCovered ==
    \A r \in Resources :
        LET holders == {c \in Candidates : /\ Live(reservation, c)
                                          /\ r \in DOMAIN reservation[c].held}
        IN capacity[r].committed >= Sum([c \in holders |-> reservation[c].held[r]])

\* With a single engine attached, the consumption of a capacity is what the
\* recorded settlements add up to: a settlement that is retried or stops half-way
\* is neither charged twice nor lost.
ConsumptionIsAccounted ==
    \A r \in Resources :
        LET charges == {d \in documents : d.kind = "settle" /\ r \in DOMAIN d.amounts}
        IN capacity[r].consumed = Sum([d \in charges |-> d.amounts[r]])

\* A summary of an effect's consumption names, for each reservation the effect is
\* bound to, a settlement with exactly that consumption in the evidence, also
\* after retries of a settlement that stopped half-way.
SummaryIsReal ==
    \A s \in summaries, c \in Bound :
        \E d \in documents : d.kind = "settle" /\ d.about = c /\ d.amounts = s[c]
=============================================================================
