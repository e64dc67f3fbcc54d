---------------------------- MODULE MissionControl ----------------------------
(***************************************************************************)
(* Mission controls, information-change checkpoints and dependency gating  *)
(* around the claim of a task.  A claim is checked against the canonical   *)
(* snapshot before and after ownership is created; a control operation     *)
(* writes its decision and then releases the leases that it affects.       *)
(*                                                                         *)
(* Leases change by typed events, each a change of one record.  A control  *)
(* operation patches the whole resources document, leases included, from   *)
(* the copy that it took when it began.  Every request runs on an engine   *)
(* of its own that is resumed from the store (server_v19); each commit,    *)
(* each look at the store and each change of the claim table is a step.    *)
(* The expiry of leases, capacities and quotas are in TaskLeases.          *)
(***************************************************************************)
EXTENDS Naturals

CONSTANTS
    Hosts,          \* server threads with requests of workers
    Controllers,    \* server threads with requests of operators
    Tasks,          \* plan nodes
    Requires,       \* the edges of the plan, pairs of tasks
    Leases,         \* lease identifiers
    Impacts,        \* identifiers of impact checkpoints
    Nothing,        \* no task, no lease, no impact
    MaxControls     \* bound on the control operations

ASSUME MissionConstants ==
    /\ Hosts \cap Controllers = {}
    /\ Requires \subseteq Tasks \X Tasks
    /\ Nothing \notin Tasks \cup Leases \cup Impacts
    /\ MaxControls \in Nat

Threads == Hosts \cup Controllers

Machines ==
    [leases : [Leases -> [status : {"NONE", "ACTIVE", "COMPLETED", "RELEASED"},
                          task : Tasks \cup {Nothing}, attempt : Nat]],
     mission : {"RUNNING", "QUIESCE", "SUSPEND"},
     paused : SUBSET Tasks,
     impacts : [Impacts -> [status : {"NONE", "OPEN", "PARTIAL", "RESOLVED"},
                            remaining : SUBSET Tasks]],
     nodes : [Tasks -> {"ready", "leased", "complete"}]]

Steps == {"idle", "requires?", "paused?", "acquire", "claim", "note",
          "paused!", "requires!", "mission!", "finish", "unclaim", "unnote",
          "patch", "record"}

Calls ==
    [op : {"none", "claim", "complete", "pause", "resume", "analyze", "resolve"},
     task : Tasks \cup {Nothing}, lease : Leases \cup {Nothing},
     status : {"RELEASED", "COMPLETED"}, mode : {"RUNNING", "QUIESCE", "SUSPEND"},
     region : SUBSET Tasks, impact : Impacts \cup {Nothing}, todo : SUBSET Leases]

VARIABLES
    canon,      \* the canonical snapshot: resources and plan nodes
    rows,       \* the claim row of each task
    view,       \* the snapshot that each thread works on
    at,         \* where each thread is in its request
    call,       \* the arguments and locals of the request
    held,       \* the leases that workers were given and work under
    cleared,    \* history: the leases of which, after their commit, there was a
                \* moment with all predecessors of the task complete
    controls    \* how many control operations began

vars == <<canon, rows, view, at, call, held, cleared, controls>>

NoCall == [op |-> "none", task |-> Nothing, lease |-> Nothing,
           status |-> "RELEASED", mode |-> "RUNNING", region |-> {},
           impact |-> Nothing, todo |-> {}]

TypeOK ==
    /\ canon \in Machines
    /\ rows \in [Tasks -> Leases \cup {Nothing}]
    /\ view \in [Threads -> Machines]
    /\ at \in [Threads -> Steps]
    /\ call \in [Threads -> Calls]
    /\ held \subseteq Leases
    /\ cleared \subseteq Leases
    /\ controls \in Nat

Init ==
    /\ canon = [leases |-> [l \in Leases |->
                    [status |-> "NONE", task |-> Nothing, attempt |-> 0]],
                mission |-> "RUNNING", paused |-> {},
                impacts |-> [i \in Impacts |-> [status |-> "NONE", remaining |-> {}]],
                nodes |-> [t \in Tasks |-> "ready"]]
    /\ rows = [t \in Tasks |-> Nothing]
    /\ view = [p \in Threads |-> canon]
    /\ at = [p \in Threads |-> "idle"]
    /\ call = [p \in Threads |-> NoCall]
    /\ held = {}
    /\ cleared = {}
    /\ controls = 0

-----------------------------------------------------------------------------
(* The store and the steps of a request.                                   *)

\* A typed event is reduced on the canonical snapshot.
Commit(p, m) ==
    /\ canon' = m
    /\ view' = [view EXCEPT ![p] = m]

\* patch_snapshot({"resources": ...}): all of the resources document is
\* replaced, and only the plan nodes stay as they are in the store.
Patch(p, m) == Commit(p, [m EXCEPT !.nodes = canon.nodes])

Begin(p, step, c) ==
    /\ at[p] = "idle"
    /\ at' = [at EXCEPT ![p] = step]
    /\ call' = [call EXCEPT ![p] = c]
    /\ view' = [view EXCEPT ![p] = canon]

Go(p, step) ==
    /\ at' = [at EXCEPT ![p] = step]
    /\ UNCHANGED call

\* The request returns or raises.
End(p) ==
    /\ at' = [at EXCEPT ![p] = "idle"]
    /\ call' = [call EXCEPT ![p] = NoCall]

Active(m) == {l \in Leases : m.leases[l].status = "ACTIVE"}

-----------------------------------------------------------------------------
(* The three gates, read from the canonical snapshot.                      *)

MissionOpen == canon.mission = "RUNNING"

Unblocked(m, t) == \A e \in Requires : e[2] = t => m.nodes[e[1]] = "complete"

TaskOpen(t) == t \notin canon.paused

\* Go on when the gate is open; before the claim the request raises
\* otherwise, after it the new lease is released first.
Gate(p, from, open, to) ==
    /\ at[p] = from
    /\ IF open THEN Go(p, to)
       ELSE IF call[p].lease = Nothing THEN End(p) ELSE Go(p, "finish")
    /\ UNCHANGED <<canon, rows, view, held, cleared, controls>>

\* claim_task, from the outermost runtime to the innermost; the request begins
\* with a look at the mission, and raises when it is paused.
Claim(p, t) ==
    /\ MissionOpen
    /\ Begin(p, "requires?", [NoCall EXCEPT !.op = "claim", !.task = t])
    /\ UNCHANGED <<canon, rows, held, cleared, controls>>

CheckRequires(p) == Gate(p, "requires?", Unblocked(canon, call[p].task), "paused?")

CheckPaused(p) == Gate(p, "paused?", TaskOpen(call[p].task), "acquire")

\* acquire_task_claim, with a new identifier, or the task is already claimed.
Acquire(p) ==
    /\ at[p] = "acquire"
    /\ IF rows[call[p].task] # Nothing
       THEN End(p) /\ UNCHANGED rows
       ELSE \E l \in Leases :
              /\ canon.leases[l].status = "NONE" /\ l \notin held
              /\ \A t \in Tasks : rows[t] # l
              /\ \A q \in Threads : call[q].lease # l
              /\ \A c \in Controllers : at[c] # "idle" => view[c].leases[l].status = "NONE"
              /\ rows' = [rows EXCEPT ![call[p].task] = l]
              /\ at' = [at EXCEPT ![p] = "claim"]
              /\ call' = [call EXCEPT ![p].lease = l]
    /\ UNCHANGED <<canon, view, held, cleared, controls>>

\* 1 + the largest attempt at the task in the local snapshot (a set of one).
NextAttempt(m, t) ==
    LET earlier == {0} \cup {m.leases[l].attempt :
                               l \in {k \in Leases : m.leases[k].task = t}}
    IN  {n + 1 : n \in {n \in earlier : \A k \in earlier : k <= n}}

CommitClaim(p) ==
    LET t == call[p].task IN
    /\ at[p] = "claim"
    /\ \E n \in NextAttempt(view[p], t) :
          Commit(p, [canon EXCEPT !.leases[call[p].lease] =
                       [status |-> "ACTIVE", task |-> t, attempt |-> n]])
    /\ Go(p, "note")
    /\ cleared' = IF Unblocked(canon, t) THEN cleared \cup {call[p].lease} ELSE cleared
    /\ UNCHANGED <<rows, held, controls>>

NoteClaim(p) ==
    /\ at[p] = "note"
    /\ Commit(p, [canon EXCEPT !.nodes[call[p].task] = "leased"])
    /\ Go(p, "paused!")
    /\ UNCHANGED <<rows, held, cleared, controls>>

\* (Mutants: after the claim, a gate is not looked at again.)
PausedOnce(p) == Gate(p, "paused!", TRUE, "requires!")

RequiresOnce(p) == Gate(p, "requires!", TRUE, "mission!")

MissionOnce(p) ==
    /\ at[p] = "mission!"
    /\ End(p)
    /\ held' = held \cup {call[p].lease}
    /\ UNCHANGED <<canon, rows, view, cleared, controls>>

RecheckPaused(p) == Gate(p, "paused!", TaskOpen(call[p].task), "requires!")

RecheckRequires(p) ==
    Gate(p, "requires!", Unblocked(canon, call[p].task), "mission!")

\* The last check: the lease is given to the worker.
RecheckMission(p) ==
    /\ at[p] = "mission!"
    /\ IF MissionOpen
       THEN End(p) /\ held' = held \cup {call[p].lease}
       ELSE Go(p, "finish") /\ UNCHANGED held
    /\ UNCHANGED <<canon, rows, view, cleared, controls>>

-----------------------------------------------------------------------------
(* _finish_lease.                                                          *)

Newest(m, l) ==
    \A k \in Active(m) : m.leases[k].task = m.leases[l].task
                            => m.leases[k].attempt <= m.leases[l].attempt

\* complete_lease of a worker; it is refused when the lease is not ACTIVE or
\* not the newest, and the worker gives up.
Complete(p, l) ==
    /\ l \in held
    /\ IF l \in Active(canon) /\ Newest(canon, l)
       THEN /\ Begin(p, "finish", [NoCall EXCEPT !.op = "complete", !.lease = l,
                                                 !.status = "COMPLETED"])
            /\ UNCHANGED held
       ELSE /\ at[p] = "idle"
            /\ held' = held \ {l}
            /\ UNCHANGED <<view, at, call>>
    /\ UNCHANGED <<canon, rows, cleared, controls>>

\* A control operation releases the leases of todo, one after the other, and
\* then records which ones it released, by another patch of the resources.
Sweep(c, todo) ==
    IF todo # {}
    THEN \E l \in todo :
           /\ at' = [at EXCEPT ![c] = "finish"]
           /\ call' = [call EXCEPT ![c].lease = l, ![c].todo = todo \ {l}]
    ELSE IF call[c].lease # Nothing THEN Go(c, "record") ELSE End(c)

\* What comes after a lease was finished.
GoOn(p) == IF p \in Controllers THEN Sweep(p, call[p].todo) ELSE End(p)

\* The status is committed if the lease is ACTIVE in the snapshot of the
\* request; the reducer raises when the store does not have the lease.
FinishLease(p) ==
    LET l == call[p].lease IN
    /\ at[p] = "finish"
    /\ IF view[p].leases[l].status # "ACTIVE"
       THEN GoOn(p) /\ UNCHANGED <<canon, view, held>>
       ELSE IF canon.leases[l].status = "NONE"
       THEN End(p) /\ view' = [view EXCEPT ![p] = canon] /\ UNCHANGED <<canon, held>>
       ELSE /\ Commit(p, [canon EXCEPT !.leases[l].status = call[p].status])
            /\ held' = IF call[p].status = "COMPLETED" THEN held \ {l} ELSE held
            /\ Go(p, "unclaim")
    /\ UNCHANGED <<rows, cleared, controls>>

Unclaim(p) ==
    /\ at[p] = "unclaim"
    /\ rows' = [t \in Tasks |-> IF rows[t] = call[p].lease THEN Nothing ELSE rows[t]]
    /\ Go(p, "unnote")
    /\ UNCHANGED <<canon, view, held, cleared, controls>>

\* The request holds a committed lease that the checks may still give away.
Claiming(p) == at[p] \in {"note", "paused!", "requires!", "mission!"}

NoteFinish(p) ==
    LET t == view[p].leases[call[p].lease].task IN
    /\ at[p] = "unnote"
    /\ Commit(p, [canon EXCEPT !.nodes[t] =
                    IF call[p].status = "COMPLETED" THEN "complete" ELSE "ready"])
    /\ GoOn(p)
    /\ cleared' = cleared \cup {call[q].lease : q \in
                     {q \in Hosts : Claiming(q) /\ Unblocked(canon', call[q].task)}}
    /\ UNCHANGED <<rows, held, controls>>

-----------------------------------------------------------------------------
(* Control operations.                                                     *)

Control(c, args) ==
    /\ controls < MaxControls
    /\ controls' = controls + 1
    /\ Begin(c, "patch", args)
    /\ UNCHANGED <<canon, rows, held, cleared>>

\* pause_mission; a paused mission stays as it is.
PauseMission(c, mode) ==
    /\ canon.mission = "RUNNING"
    /\ Control(c, [NoCall EXCEPT !.op = "pause", !.mode = mode])

ResumeMission(c) == Control(c, [NoCall EXCEPT !.op = "resume"])

\* ChangeImpactAnalyzer: the seeds and everything downstream of them.
Affected(S) ==
    {t \in Tasks : \A U \in SUBSET Tasks :
        S \subseteq U /\ (\A e \in Requires : e[1] \in U => e[2] \in U) => t \in U}

AnalyzeChange(c, t) ==
    \E i \in Impacts :
        /\ canon.impacts[i].status = "NONE"
        /\ Control(c, [NoCall EXCEPT !.op = "analyze", !.impact = i,
                                     !.region = Affected({t})])

\* resolve_change_impact: part of the region is resumed or retired.
ResolveImpact(c, i, S) ==
    /\ canon.impacts[i].status \in {"OPEN", "PARTIAL"}
    /\ S \subseteq canon.impacts[i].remaining /\ S # {}
    /\ Control(c, [NoCall EXCEPT !.op = "resolve", !.impact = i, !.region = S])

\* What the operation makes of its copy of the resources.
Decided(m, c) ==
    LET rest == m.impacts[c.impact].remaining \ c.region IN
    CASE c.op \in {"pause", "resume"} -> [m EXCEPT !.mission = c.mode]
      [] c.op = "analyze" ->
            [m EXCEPT !.paused = @ \cup c.region,
                      !.impacts[c.impact] = [status |-> "OPEN", remaining |-> c.region]]
      [] c.op = "resolve" ->
            [m EXCEPT !.paused = (@ \ c.region) \cup rest,
                      !.impacts[c.impact] =
                         [status |-> IF rest = {} THEN "RESOLVED" ELSE "PARTIAL",
                          remaining |-> rest]]

\* The active leases that the operation releases, from the patched snapshot.
AffectedLeases(m, c) ==
    {l \in Active(m) : \/ call[c].mode = "SUSPEND"
                       \/ call[c].op = "analyze" /\ m.leases[l].task \in call[c].region}

Decide(c) ==
    /\ at[c] = "patch"
    /\ Patch(c, Decided(view[c], call[c]))
    /\ IF call[c].op \in {"pause", "analyze"}
       THEN Sweep(c, AffectedLeases(canon', c))
       ELSE End(c)
    /\ UNCHANGED <<rows, held, cleared, controls>>

Record(c) ==
    /\ at[c] = "record"
    /\ Patch(c, view[c])
    /\ End(c)
    /\ UNCHANGED <<rows, held, cleared, controls>>

\* plan_update_node: the Planner reopens a finished task.
Reopen(c, t) ==
    /\ controls < MaxControls
    /\ controls' = controls + 1
    /\ at[c] = "idle"
    /\ canon.nodes[t] = "complete"
    /\ Commit(c, [canon EXCEPT !.nodes[t] = "ready"])
    /\ UNCHANGED <<rows, at, call, held, cleared>>

-----------------------------------------------------------------------------

WorkerRequest(p) ==
    \/ \E t \in Tasks : Claim(p, t)
    \/ \E l \in Leases : Complete(p, l)
    \/ CheckRequires(p) \/ CheckPaused(p)
    \/ Acquire(p) \/ CommitClaim(p) \/ NoteClaim(p)
    \/ RecheckPaused(p) \/ RecheckRequires(p) \/ RecheckMission(p)

ControlRequest(c) ==
    \/ \E mode \in {"QUIESCE", "SUSPEND"} : PauseMission(c, mode)
    \/ ResumeMission(c)
    \/ \E t \in Tasks : AnalyzeChange(c, t) \/ Reopen(c, t)
    \/ \E i \in Impacts, S \in SUBSET Tasks : ResolveImpact(c, i, S)
    \/ Decide(c) \/ Record(c)

Next ==
    \/ \E p \in Hosts : WorkerRequest(p)
    \/ \E c \in Controllers : ControlRequest(c)
    \/ \E p \in Threads : FinishLease(p) \/ Unclaim(p) \/ NoteFinish(p)

Spec == Init /\ [][Next]_vars
-----------------------------------------------------------------------------
(* Properties.  The first two hold of one operator at a time.              *)

\* Once pause_mission has returned from a SUSPEND, no worker works under an
\* active lease: neither one that was active before, nor one whose claim was on
\* its way when the mission was paused.
SuspensionStopsWork ==
    canon.mission = "SUSPEND" /\ (\A c \in Controllers : call[c].op # "pause")
        => held \cap Active(canon) = {}

\* Once analyze_change has returned, no worker works under an active lease on a
\* paused task of the affected region, until the planner resumes it.  This takes
\* open checkpoints that do not overlap: resolve_change_impact pauses the rest of
\* one checkpoint again, also a task that was resumed through another one.
ChangeStopsWork ==
    (\A c \in Controllers : call[c].op # "analyze")
        => \A l \in held \cap Active(canon) :
              canon.leases[l].task \notin canon.paused

\* claim_task gives a worker no task that was blocked during the whole claim,
\* although the planner may reopen a predecessor at any time: there was a moment
\* after its lease was committed when all its predecessors were complete.
OrderIsKept == held \subseteq cleared

\* A lease that was completed or released does not come back: a control
\* operation recreates none from the resources that it copied.
NothingComesBack ==
    [][\A l \in Leases : canon.leases[l].status \in {"COMPLETED", "RELEASED"}
            => canon'.leases[l].status # "ACTIVE"]_vars
=============================================================================
