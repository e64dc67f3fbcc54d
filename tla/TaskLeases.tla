------------------------------ MODULE TaskLeases ------------------------------
(***************************************************************************)
(* Task leases of the distributed-worker layer.  Hosts share one durable   *)
(* machine: its leases, workers, plan nodes and the limit on leased work.  *)
(* Each host works on a local copy of it and learns what the others did    *)
(* only when it commits an event, which returns the canonical snapshot.    *)
(* Beside the machine the store keeps one claim row per task: the          *)
(* reservation that makes ownership exclusive.                             *)
(*                                                                         *)
(* Each commit, each claim-table operation and the beginning of a handler  *)
(* is a step.  A handler reads the clock once, when it begins.             *)
(***************************************************************************)
EXTENDS Integers, FiniteSets

CONSTANTS
    Hosts,          \* engines attached to the store
    Workers,        \* execution workers
    Tasks,          \* plan tasks, each of demand 1
    Leases,         \* lease identifiers (new_id)
    Nothing,        \* no lease, no task, no worker
    Limits,         \* values of the limit on concurrently leased work
    LeaseTime,      \* lease_seconds and extend_seconds
    WorkerTimeout,  \* heartbeat_timeout
    Age,            \* how long before the start the workers were last heard
    MaxTime,        \* bound on the clock
    MaxDelay,       \* no handler runs longer than this
    FreshHandlers,  \* every handler resumes from the store (server_v19)
    MaxCrashes      \* bound on the crashes of a behaviour

ASSUME LeaseConstants ==
    /\ Nothing \notin Leases \cup Tasks \cup Workers
    /\ IsFiniteSet(Tasks)
    /\ Limits \subseteq Nat
    /\ {LeaseTime, WorkerTimeout} \subseteq Nat \ {0}
    /\ Age \in 0 .. WorkerTimeout
    /\ {MaxTime, MaxDelay, MaxCrashes} \subseteq Nat
    /\ FreshHandlers \in BOOLEAN

Finished == {"COMPLETED", "FAILED", "RELEASED", "EXPIRED"}

LeaseRecords ==
    [status : {"NONE", "ACTIVE"} \cup Finished,
     task : Tasks \cup {Nothing}, worker : Workers \cup {Nothing},
     attempt : Nat, expires : Nat]

Machines ==
    [leases : [Leases -> LeaseRecords],
     workers : [Workers -> [status : {"ACTIVE", "STALE"}, until : Nat]],
     nodes : [Tasks -> {"ready", "leased", "complete", "failed"}],
     limit : Limits]

Operations == {"claim", "heartbeat", "finish", "expire", "reap"}

Steps == {"idle", "sweeping", "finishing", "releasing", "noting", "acquired",
          "recorded", "renewing", "renewed", "reaping", "down"}

Calls ==
    [op : Operations, ts : Nat, task : Tasks \cup {Nothing},
     worker : Workers \cup {Nothing}, lease : Leases \cup {Nothing},
     status : {"ACTIVE"} \cup Finished, attempt : Nat,
     todo : SUBSET Leases, late : SUBSET Workers]

VARIABLES
    clock,      \* real time
    machine,    \* the canonical snapshot of the machine
    claims,     \* the claim row of each task: lease and expiry
    view,       \* the snapshot each host works on
    at,         \* where each host is inside a handler
    call,       \* the arguments and locals of that handler
    crashes     \* how many crashes have happened

vars == <<clock, machine, claims, view, at, call, crashes>>

NoLease == [status |-> "NONE", task |-> Nothing, worker |-> Nothing,
            attempt |-> 0, expires |-> 0]

NoRow == [lease |-> Nothing, expires |-> 0]

NoCall == [op |-> "expire", ts |-> 0, task |-> Nothing, worker |-> Nothing,
           lease |-> Nothing, status |-> "ACTIVE", attempt |-> 0,
           todo |-> {}, late |-> {}]

TypeOK ==
    /\ clock \in Nat
    /\ machine \in Machines
    /\ claims \in [Tasks -> [lease : Leases \cup {Nothing}, expires : Nat]]
    /\ view \in [Hosts -> Machines \cup {Nothing}]
    /\ at \in [Hosts -> Steps]
    /\ call \in [Hosts -> Calls]
    /\ crashes \in Nat

\* When a worker that was heard at time ts is silent (a deadline beyond the
\* bound on the clock never passes).
Deadline(ts) ==
    IF ts + WorkerTimeout < MaxTime THEN ts + WorkerTimeout ELSE MaxTime

\* What a host keeps of the machine between two requests.
Kept(m) == IF FreshHandlers THEN Nothing ELSE m

Init ==
    /\ clock = 0
    /\ \E n \in Limits :
          machine = [leases |-> [l \in Leases |-> NoLease],
                     workers |-> [w \in Workers |->
                                    [status |-> "ACTIVE",
                                     until |-> Deadline(0 - Age)]],
                     nodes |-> [t \in Tasks |-> "ready"],
                     limit |-> n]
    /\ claims = [t \in Tasks |-> NoRow]
    /\ view = [h \in Hosts |-> Kept(machine)]
    /\ at = [h \in Hosts |-> "idle"]
    /\ call = [h \in Hosts |-> NoCall]
    /\ crashes = 0

-----------------------------------------------------------------------------
(* The store.                                                              *)

\* append(): the event is reduced on the canonical snapshot, which becomes the
\* snapshot of the committing host.
Commit(h, m) ==
    /\ machine' = m
    /\ view' = [view EXCEPT ![h] = m]

Idle(h) ==
    /\ at' = [at EXCEPT ![h] = "idle"]
    /\ call' = [call EXCEPT ![h] = NoCall]

\* The handler returns, or raises, as it is or after a last commit.
Return(h) ==
    /\ Idle(h)
    /\ view' = [view EXCEPT ![h] = Kept(@)]
    /\ UNCHANGED machine

CommitLast(h, m) ==
    /\ Idle(h)
    /\ machine' = m
    /\ view' = [view EXCEPT ![h] = Kept(m)]

SetLease(l, r) == [machine EXCEPT !.leases[l] = r]
SetWorker(w, r) == [machine EXCEPT !.workers[w] = r]
SetNode(t, s) == [machine EXCEPT !.nodes[t] = s]

\* The rows that an acquisition at time ts leaves in place.  (Mutant: a row is
\* purged a moment too early.)
LiveLonger(ts) ==
    [t \in Tasks |-> IF claims[t].expires <= ts + 1 THEN NoRow ELSE claims[t]]

Live(ts) == [t \in Tasks |-> IF claims[t].expires <= ts THEN NoRow ELSE claims[t]]

Rows(table) == {t \in Tasks : table[t].lease # Nothing}

Without(l) == [t \in Tasks |-> IF claims[t].lease = l THEN NoRow ELSE claims[t]]

\* Whether worker w of machine m may work at time ts.
Able(m, w, ts) ==
    /\ m.workers[w].status = "ACTIVE"
    /\ ts <= m.workers[w].until

Active(m, ts) ==
    {l \in Leases : m.leases[l].status = "ACTIVE" /\ m.leases[l].expires > ts}

\* (Mutants: a lease is swept too early, or not at its very expiry.)
OverdueSoon(m, ts) ==
    {l \in Leases : m.leases[l].status = "ACTIVE" /\ m.leases[l].expires <= ts + 1}

OverdueStrictly(m, ts) ==
    {l \in Leases : m.leases[l].status = "ACTIVE" /\ m.leases[l].expires < ts}

Overdue(m, ts) ==
    {l \in Leases : m.leases[l].status = "ACTIVE" /\ m.leases[l].expires <= ts}

Unused(l) ==
    /\ machine.leases[l].status = "NONE"
    /\ \A t \in Tasks : claims[t].lease # l
    /\ \A h \in Hosts : call[h].lease # l

\* new_id: identifiers are interchangeable, so any fixed choice will do.
NewId == CHOOSE l \in Leases : Unused(l)

Least(a, b) == IF a <= b THEN a ELSE b

-----------------------------------------------------------------------------
(* Handlers begin: on a snapshot of their own, or on a fresh one when the   *)
(* host resumes the machine for every request.                              *)

Snapshot(h) == IF FreshHandlers THEN machine ELSE view[h]

Begin(h, step, c) ==
    /\ at[h] = "idle"
    /\ at' = [at EXCEPT ![h] = step]
    /\ call' = [call EXCEPT ![h] = c]
    /\ view' = [view EXCEPT ![h] = Snapshot(h)]

Go(h, step) ==
    /\ at' = [at EXCEPT ![h] = step]
    /\ UNCHANGED call

\* A worker is a sequential client: one call about its leases at a time.
Serial(w) == \A h \in Hosts : call[h].worker # w

\* claim_task: first expire_leases on the local snapshot.
Claim(h, t, w) ==
    /\ clock + LeaseTime <= MaxTime
    /\ Serial(w)
    /\ Begin(h, "sweeping",
             [NoCall EXCEPT !.op = "claim", !.ts = clock, !.task = t,
                            !.worker = w, !.todo = Overdue(Snapshot(h), clock)])
    /\ UNCHANGED <<clock, machine, claims, crashes>>

\* lease_heartbeat: renew the claim row, or expire what is overdue and raise.
Heartbeat(h, l) ==
    LET r == Snapshot(h).leases[l]
        late == r.expires <= clock IN
    /\ clock + LeaseTime <= MaxTime
    /\ r.status = "ACTIVE"
    /\ Serial(r.worker)
    /\ Begin(h, IF late THEN "sweeping" ELSE "renewing",
             [NoCall EXCEPT !.op = "heartbeat", !.ts = clock, !.lease = l,
                !.worker = r.worker,
                !.todo = IF late THEN Overdue(Snapshot(h), clock) ELSE {}])
    /\ UNCHANGED <<clock, machine, claims, crashes>>

\* (Mutant: the result of an overdue lease is taken.)
NeverLate(m, l, ts) == TRUE

InTime(m, l, ts) == m.leases[l].expires > ts

\* No newer attempt of the same task is ACTIVE.
Newest(m, l) ==
    \A k \in Leases :
        /\ m.leases[k].status = "ACTIVE"
        /\ m.leases[k].task = m.leases[l].task
        => m.leases[k].attempt <= m.leases[l].attempt

\* complete_lease and fail_lease take a result in time and from the newest
\* attempt only, an overdue lease expires instead; release_lease always works.
Finish(h, l, s) ==
    LET m == Snapshot(h)
        takes == s = "RELEASED" \/ InTime(m, l, clock) IN
    /\ m.leases[l].status = "ACTIVE"
    /\ s # "RELEASED" /\ takes => Newest(m, l)
    /\ Serial(m.leases[l].worker)
    /\ Begin(h, "finishing",
             [NoCall EXCEPT !.op = "finish", !.ts = clock, !.lease = l,
                            !.worker = m.leases[l].worker,
                            !.status = IF takes THEN s ELSE "EXPIRED"])
    /\ UNCHANGED <<clock, machine, claims, crashes>>

ExpireLeases(h) ==
    /\ Overdue(Snapshot(h), clock) # {}
    /\ Begin(h, "sweeping",
             [NoCall EXCEPT !.op = "expire", !.ts = clock,
                            !.todo = Overdue(Snapshot(h), clock)])
    /\ UNCHANGED <<clock, machine, claims, crashes>>

\* reap_stale_workers looks at the workers once, when it begins.
Silent(m, ts) ==
    {w \in Workers : /\ m.workers[w].status = "ACTIVE"
                     /\ ts > m.workers[w].until}

ReapStaleWorkers(h) ==
    /\ Silent(Snapshot(h), clock) # {}
    /\ Begin(h, "reaping",
             [NoCall EXCEPT !.op = "reap", !.ts = clock,
                            !.late = Silent(Snapshot(h), clock)])
    /\ UNCHANGED <<clock, machine, claims, crashes>>

\* worker_heartbeat is one commit; so is a change of the limit (set_quota,
\* update_resource).
WorkerHeartbeat(h, w) ==
    /\ at[h] = "idle"
    /\ CommitLast(h, SetWorker(w,
         [status |-> IF Snapshot(h).workers[w].status = "STALE" THEN "ACTIVE"
                     ELSE machine.workers[w].status,
          until |-> Deadline(clock)]))
    /\ UNCHANGED <<clock, claims, crashes>>

SetLimit(h, n) ==
    /\ at[h] = "idle"
    /\ n # machine.limit
    /\ CommitLast(h, [machine EXCEPT !.limit = n])
    /\ UNCHANGED <<clock, claims, crashes>>

-----------------------------------------------------------------------------
(* _finish_lease: commit the status, delete the claim row, update the node. *)

FinishLease(h, l, s) ==
    LET mine == view[h].leases[l] IN
    /\ mine.status = "ACTIVE"
    /\ Commit(h, SetLease(l, [machine.leases[l] EXCEPT
                                !.status = s,
                                !.expires = Least(mine.expires, call[h].ts)]))
    /\ at' = [at EXCEPT ![h] = "releasing"]
    /\ call' = [call EXCEPT ![h].lease = l, ![h].status = s,
                            ![h].todo = @ \ {l}]

CommitFinish(h) ==
    /\ at[h] = "finishing"
    /\ FinishLease(h, call[h].lease, call[h].status)
    /\ UNCHANGED <<clock, claims, crashes>>

\* The next lease of a sweep; one that is no longer ACTIVE in the local
\* snapshot is passed over.
Sweep(h, l) ==
    /\ at[h] = "sweeping"
    /\ l \in call[h].todo
    /\ IF view[h].leases[l].status = "ACTIVE"
       THEN FinishLease(h, l, "EXPIRED")
       ELSE /\ call' = [call EXCEPT ![h].todo = @ \ {l}]
            /\ UNCHANGED <<machine, view, at>>
    /\ UNCHANGED <<clock, claims, crashes>>

ReleaseClaim(h) ==
    /\ at[h] = "releasing"
    /\ claims' = Without(call[h].lease)
    /\ Go(h, "noting")
    /\ UNCHANGED <<clock, machine, view, crashes>>

\* (Mutant: FAILED completes the node.)
FailedIsDone(s) == IF s \in {"COMPLETED", "FAILED"} THEN "complete" ELSE "ready"

NodeStatus(s) ==
    CASE s = "COMPLETED" -> "complete"
      [] s = "FAILED"    -> "failed"
      [] OTHER           -> "ready"

\* A sweep goes on, the other handlers return.
NoteFinish(h) ==
    LET m == SetNode(view[h].leases[call[h].lease].task,
                     NodeStatus(call[h].status)) IN
    /\ at[h] = "noting"
    /\ IF call[h].op = "finish" THEN CommitLast(h, m)
                                ELSE Commit(h, m) /\ Go(h, "sweeping")
    /\ UNCHANGED <<clock, claims, crashes>>

SweepDone(h) ==
    /\ at[h] = "sweeping"
    /\ call[h].todo = {}
    /\ call[h].op \in {"heartbeat", "expire"}
    /\ Return(h)
    /\ UNCHANGED <<clock, claims, crashes>>

\* reap_stale_workers goes through its workers; each is marked STALE and its
\* ACTIVE leases are swept.
Reap(h, w) ==
    /\ at[h] \in {"reaping", "sweeping"}
    /\ call[h].op = "reap"
    /\ call[h].todo = {}
    /\ w \in call[h].late
    /\ Commit(h, SetWorker(w, [machine.workers[w] EXCEPT !.status = "STALE"]))
    /\ at' = [at EXCEPT ![h] = "sweeping"]
    /\ call' = [call EXCEPT
                 ![h].late = @ \ {w},
                 ![h].todo = {l \in Leases :
                                /\ machine.leases[l].status = "ACTIVE"
                                /\ machine.leases[l].worker = w}]
    /\ UNCHANGED <<clock, claims, crashes>>

ReapDone(h) ==
    /\ at[h] = "sweeping"
    /\ call[h].op = "reap"
    /\ call[h].todo = {}
    /\ call[h].late = {}
    /\ Return(h)
    /\ UNCHANGED <<clock, claims, crashes>>

-----------------------------------------------------------------------------
(* The rest of claim_task: local checks, acquisition of the claim row in one *)
(* transaction against the canonical worker and limit, the LEASE_CLAIMED     *)
(* event, the plan node.                                                     *)

ReadyToAcquire(h) ==
    /\ at[h] = "sweeping"
    /\ call[h].op = "claim"
    /\ call[h].todo = {}

\* The local checks of claim_task.
LocallyAllowed(h) ==
    /\ Able(view[h], call[h].worker, call[h].ts)
    /\ Cardinality(Active(view[h], call[h].ts)) < view[h].limit

\* (Mutants: the host's own count is trusted; a live row is replaced.)
OwnCountAllows(h) ==
    /\ Able(machine, call[h].worker, call[h].ts)
    /\ Live(call[h].ts)[call[h].task].lease = Nothing

RowIsReplaced(h) ==
    LET live == Live(call[h].ts) IN
    /\ Able(machine, call[h].worker, call[h].ts)
    /\ Cardinality(Rows(live)) < machine.limit

\* acquire_task_claim, on the canonical worker, limit and rows.
Acquirable(h) ==
    LET live == Live(call[h].ts) IN
    /\ Able(machine, call[h].worker, call[h].ts)
    /\ live[call[h].task].lease = Nothing
    /\ Cardinality(Rows(live)) < machine.limit

\* 1 + the largest attempt at the task in the local snapshot (a set of one).
NextAttempt(m, t) ==
    LET earlier == {0} \cup {m.leases[l].attempt :
                               l \in {k \in Leases : m.leases[k].task = t}}
    IN  {n + 1 : n \in {n \in earlier : \A k \in earlier : k <= n}}

Acquire(h, l) ==
    LET c == call[h] IN
    /\ ReadyToAcquire(h)
    /\ LocallyAllowed(h)
    /\ Acquirable(h)
    /\ Unused(l) /\ l = NewId
    /\ claims' = [Live(c.ts) EXCEPT
                    ![c.task] = [lease |-> l, expires |-> c.ts + LeaseTime]]
    /\ at' = [at EXCEPT ![h] = "acquired"]
    /\ \E n \in NextAttempt(view[h], c.task) :
          call' = [call EXCEPT ![h].lease = l, ![h].attempt = n]
    /\ UNCHANGED <<clock, machine, view, crashes>>

\* The claim is refused.  MemoryStore keeps the purge of the expired rows, the
\* SQL stores roll it back.
RefuseClaim(h) ==
    /\ ReadyToAcquire(h)
    /\ Able(view[h], call[h].worker, call[h].ts)
    /\ ~LocallyAllowed(h) \/ ~Acquirable(h)
    /\ IF LocallyAllowed(h) /\ Able(machine, call[h].worker, call[h].ts)
       THEN claims' \in {claims, Live(call[h].ts)}
       ELSE UNCHANGED claims
    /\ Return(h)
    /\ UNCHANGED <<clock, crashes>>

\* A worker that looks silent is marked STALE and the claim is refused.
RefuseWorker(h) ==
    LET w == call[h].worker IN
    /\ ReadyToAcquire(h)
    /\ ~Able(view[h], w, call[h].ts)
    /\ IF view[h].workers[w].status = "ACTIVE"
       THEN CommitLast(h, SetWorker(w, [machine.workers[w] EXCEPT
                                           !.status = "STALE"]))
       ELSE Return(h)
    /\ UNCHANGED <<clock, claims, crashes>>

RecordClaim(h) ==
    LET c == call[h] IN
    /\ at[h] = "acquired"
    /\ Commit(h, SetLease(c.lease,
                    [status |-> "ACTIVE", task |-> c.task, worker |-> c.worker,
                     attempt |-> c.attempt, expires |-> c.ts + LeaseTime]))
    /\ Go(h, "recorded")
    /\ UNCHANGED <<clock, claims, crashes>>

\* The event cannot be appended: the reservation is given back.
AbandonClaim(h) ==
    /\ at[h] = "acquired"
    /\ claims' = Without(call[h].lease)
    /\ Return(h)
    /\ UNCHANGED <<clock, crashes>>

NoteClaim(h) ==
    /\ at[h] = "recorded"
    /\ CommitLast(h, SetNode(call[h].task, "leased"))
    /\ UNCHANGED <<clock, claims, crashes>>

\* The claim row of l is gone.
Lost(l) == \A t \in Tasks : claims[t].lease # l

\* The rest of lease_heartbeat: a lease without its claim row is not renewed.
Renew(h) ==
    LET c == call[h] IN
    /\ at[h] = "renewing"
    /\ claims' = [t \in Tasks |-> IF claims[t].lease = c.lease
                     THEN [lease |-> c.lease, expires |-> c.ts + LeaseTime]
                     ELSE claims[t]]
    /\ IF Lost(c.lease) THEN Return(h)
                        ELSE Go(h, "renewed") /\ UNCHANGED <<machine, view>>
    /\ UNCHANGED <<clock, crashes>>

RecordRenewal(h) ==
    LET c == call[h] IN
    /\ at[h] = "renewed"
    /\ CommitLast(h, SetLease(c.lease, [machine.leases[c.lease] EXCEPT
                                          !.expires = c.ts + LeaseTime]))
    /\ UNCHANGED <<clock, claims, crashes>>

-----------------------------------------------------------------------------
(* Time passes; hosts die and resume the machine from the store.            *)

Tick ==
    /\ clock < MaxTime
    /\ \A h \in Hosts : at[h] \notin {"idle", "down"}
                            => clock < call[h].ts + MaxDelay
    /\ clock' = clock + 1
    /\ UNCHANGED <<machine, claims, view, at, call, crashes>>

Crash(h) ==
    /\ at[h] # "down"
    /\ crashes < MaxCrashes
    /\ crashes' = crashes + 1
    /\ at' = [at EXCEPT ![h] = "down"]
    /\ call' = [call EXCEPT ![h] = NoCall]
    /\ view' = [view EXCEPT ![h] = Kept(@)]
    /\ UNCHANGED <<clock, machine, claims>>

Resume(h) ==
    /\ at[h] = "down"
    /\ at' = [at EXCEPT ![h] = "idle"]
    /\ view' = [view EXCEPT ![h] = Kept(machine)]
    /\ UNCHANGED <<clock, machine, claims, call, crashes>>

-----------------------------------------------------------------------------

\* A request arrives.
Request(h) ==
    \/ \E t \in Tasks, w \in Workers : Claim(h, t, w)
    \/ \E l \in Leases : Heartbeat(h, l)
    \/ \E l \in Leases, s \in {"COMPLETED", "FAILED", "RELEASED"} :
          Finish(h, l, s)
    \/ ExpireLeases(h)
    \/ ReapStaleWorkers(h)
    \/ \E w \in Workers : WorkerHeartbeat(h, w)
    \/ \E n \in Limits : SetLimit(h, n)

\* A request is carried on.
Handle(h) ==
    \/ CommitFinish(h)
    \/ \E l \in Leases : Sweep(h, l)
    \/ ReleaseClaim(h)
    \/ NoteFinish(h)
    \/ SweepDone(h)
    \/ \E w \in Workers : Reap(h, w)
    \/ ReapDone(h)
    \/ \E l \in Leases : Acquire(h, l)
    \/ RefuseClaim(h)
    \/ RefuseWorker(h)
    \/ RecordClaim(h)
    \/ AbandonClaim(h)
    \/ NoteClaim(h)
    \/ Renew(h)
    \/ RecordRenewal(h)

Next ==
    \/ \E h \in Hosts : Request(h) \/ Handle(h) \/ Crash(h) \/ Resume(h)
    \/ Tick

Spec == Init /\ [][Next]_vars

(* Fairness: time passes, a handler that has begun is carried on, a dead host
   is resumed, and some maintenance process keeps calling expire_leases.  No
   worker is obliged to claim, to heartbeat or to finish anything.          *)

Fairness ==
    /\ WF_vars(Tick)
    /\ \A h \in Hosts : /\ WF_vars(Handle(h))
                        /\ WF_vars(Resume(h))
                        /\ WF_vars(ExpireLeases(h))

FairSpec == Spec /\ Fairness

-----------------------------------------------------------------------------
(* Properties.                                                              *)

\* No two leases are in force for one task.
TaskExclusive ==
    \A k, l \in Active(machine, clock) :
        machine.leases[k].task = machine.leases[l].task => k = l

\* A lease in force keeps the claim row that fences the task.
LeaseIsBacked ==
    \A l \in Active(machine, clock) :
        claims[machine.leases[l].task].lease = l

\* The tasks that are reserved, or worked on under a lease in force.
Occupied ==
    {t \in Tasks : claims[t].lease # Nothing /\ claims[t].expires > clock}
    \cup {machine.leases[l].task : l \in Active(machine, clock)}

\* A task is reserved only while what all hosts have reserved and leased leaves
\* room for it, also when several hosts go for the last place at once.
NoOverbooking ==
    [][\A t \in Tasks :
          claims'[t].lease \notin {claims[t].lease, Nothing} =>
              Cardinality(Occupied) < machine.limit]_vars

\* A lease expires by a sweep only when it is overdue in the canonical machine.
ExpiryIsCanonical ==
    [][\A l \in Leases :
          /\ machine.leases[l].status = "ACTIVE"
          /\ machine'.leases[l].status = "EXPIRED"
          => \/ machine.leases[l].expires <= clock
             \/ \E h \in Hosts : at[h] = "sweeping" /\ call[h].op = "reap"]_vars

\* The result of a worker that has lost its lease is not accepted.
NoResultAfterLoss ==
    [][\A l \in Leases :
          machine.leases[l].status \in {"RELEASED", "EXPIRED"} =>
              machine'.leases[l].status \notin {"COMPLETED", "FAILED"}]_vars

\* A plan node is complete only if a worker completed it under a lease.
CompletionIsEarned ==
    \A t \in Tasks :
        machine.nodes[t] = "complete" =>
            \E l \in Leases : /\ machine.leases[l].task = t
                              /\ machine.leases[l].status = "COMPLETED"

\* No lease is held for ever: it is finished, or it is swept when it is overdue,
\* even if the host that claimed it died.
LeasesEnd ==
    \A l \in Leases :
        machine.leases[l].status = "ACTIVE" ~> machine.leases[l].status # "ACTIVE"

=============================================================================
