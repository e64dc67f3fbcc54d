# A TLA+ verification of AASM

AASM is a durable state-machine engine for agent work. A *machine* is an event
log with a snapshot, kept in a store (memory, SQLite or PostgreSQL); *hosts*
(engine processes, or HTTP requests of the control plane) attach to it, commit
events, lease its tasks to workers and perform effects on external systems.
Several hosts share one store and only the store serializes them, so nearly
every promise of the documentation is a promise about interleavings, crashes
and stale copies. That is what this project models.

All source paths below are relative to `src/aasm/`.

## 1. Inventory

| Component | State | Operations | What is hard | What makes it correct |
|---|---|---|---|---|
| Durable effects (`engine.py`, `runtime_v08.py`, `effects.py`, stores) | effect records: status, attempts, execution id; effect events | propose, authorize, execute (claim, call, finish), recover, reconcile | the load and the save of a handler are separate; a host dies around the external call; recovery meets a live executor | one operation at a time per idempotency key, none after a recorded success, only real successes recorded, nothing left RUNNING |
| Task leases (`runtime.py`, `runtime_v32.py`, `workers.py`, claim tables) | leases, workers, limits and plan nodes in the snapshot; one claim row per task | claim, heartbeat, complete, fail, release, expire, reap, worker heartbeat | lease and claim row are written in different transactions; decisions from stale snapshots; expiry during a handler | one lease in force per task, backed by its row; no overbooking; no result of a lost lease; every lease ends |
| Event store and machine log (`persistence/`, `core/reducer.py`, `engine.py`) | events, snapshot, checkpoints | append with transition guard and expected version, checkpoint, backtrack, replay, fork | guards are checked against the canonical snapshot, reductions are repeated locally; an unguarded restore | snapshot = reduction of the log; equal versions mean equal snapshots; the machine moves along its definition |
| Mission control, change impact, dependency gating (`runtime_v14.py` to `runtime_v19.py`) | mission status, paused tasks, impact checkpoints, in the `resources` document | pause, resume, analyze change, resolve, gated claim | pause and claim race; whole-document patches | no work goes on under a suspension or on a paused task; no task before its predecessors |
| Physical authority, capabilities, preemption, fencing (`physical_*`, `effect_capability*`) | evidence records: leases of authority with epochs, capabilities, preemptions, uses, bindings, rechecks | register, grant, revoke, preempt, issue, withdraw, use, bind, authorize, execute | decisions on stale snapshots; two documents of one operation in two commits | one holder of a domain at a time; only authority in force is exercised; a preemption takes effect |
| Decision calculus (`calculus.py`, `_calculus_*`, `runtime_v21.py`, `runtime_v24.py`, `_runtime_v31_*`) | decisions, active model, conflicts, explanations, learned constraints, certificates | register, activate, blame, minimize, learn, certify, promote, backjump, restart, invalidate evidence | long legal sequences that reach an inconsistent state; hosts that overwrite each other's whole document | model = active decisions; nothing active without its ground; a resolved conflict stays refuted; only dependents fall |
| Scoped authority and governed effects (`runtime_v53.py`, `runtime_v54.py`) | authority decisions, intents, dispatch requests, ownership, reconciliations | the effect operations, wrapped | every step is a load or a save of its own around the claim; a process dies between a status and its evidence | no call without its governance in evidence; one call at a time, no ownership lost and no false verdict while handlers do not overtake each other |
| Resource governance (`resource_governance.py`, `_runtime_v52_resources.py`, `_runtime_v53_resource_history.py`) | capacities and reservations, projected from evidence documents | reserve, settle, reestimate, release, observe, settle the reservations of an effect | a document carries totals computed from an earlier projection; a settlement of several reservations stops half-way | with a single engine, commitments covered and nothing charged twice or lost; summaries backed by settlements |
| Scopes, truth maintenance, portfolio, verification planning (`scopes*`, `semantic_dependencies.py`, ...) | documents derived from one snapshot | derive, validate, record | data, long sequences | closures and phases |
| Solver representations, numeric evaluation, adapters, CLI and HTTP | none shared, or pure | formatting, validation, calls of solvers | data, not order | unit tests reach most of it |

Components interact through the store only. A host reduces an event on its own
copy, the store reduces it again on the canonical snapshot and the host takes
over the result; a method of a later runtime version wraps the one of an
earlier version, so `claim_task` is a chain of checks before and after the
claim of `runtime.py`, and the physical operations put a scoped-authority
decision before each document. `PROJECT.json` lists every component, modelled
or not, and the hazards of the code at the lines where they bite.

## 2. The modules

| Modules | Content | Checked | Proved |
|---|---|---|---|
| `EffectLifecycle`, `ExternalBoundary`, `EffectRefinement`, `EffectInvariant`, `EffectLifecycleProofs` | the v0.8 effect boundary, its abstract specification, its inductive invariant | safety, refinement, liveness | 9 theorems, the refinement among them |
| `TaskLeases`, `TaskCustody`, `LeaseRefinement`, `TaskLeasesProofs` | leases and claim rows over several hosts, and the custody of tasks that they implement | safety, refinement, liveness | 5 theorems, the refinement among them |
| `MachineLog`, `MachineLogProofs` | the event-sourced machine: guards, reducer, checkpoints, replay | safety | 6 theorems |
| `MissionControl`, `MissionControlProofs` | pauses, change impact and dependency gates around a claim | safety | 4 theorems |
| `PhysicalAuthority`, `DomainAuthority`, `AuthorityRefinement`, `PhysicalAuthorityProofs` | epochs, capabilities, preemption and fencing over the log, and the authority over a domain that they implement | safety, refinement, liveness | 6 theorems, the refinement among them |
| `DecisionCalculus`, `DecisionCalculusProofs` | decisions, conflicts, learned constraints and backjumps, on hosts that overwrite each other | safety | 5 theorems |
| `GovernedEffects`, `GovernedRefinement`, `GovernedEffectsProofs` | the v0.53 and v0.54 wrappers around the effect boundary, and that they leave it as it is | safety, refinement | 4 theorems, the refinement among them |
| `Reservations`, `ReservationsProofs` | capacities and reservations over the log | safety | 4 theorems |

Each component has a module `MC...` with the definitions its instances use, and
one `.cfg` per run. A module abstracts what the modules below it establish: the
commit of `MachineLog` (a step that changes the canonical snapshot and gives it
to the committing host) is the commit of `TaskLeases`, `MissionControl` and
`PhysicalAuthority`, and the guarded append of `Reservations`; `MissionControl`
leaves expiry and capacities to `TaskLeases`; `PhysicalAuthority` stops where
`EffectLifecycle` begins, at RUNNING; `GovernedEffects` has the steps of
`EffectLifecycle` for one effect and leaves keys, events and liveness to it.

What a plan for more would contain, in this order: hierarchical scopes and
obligations over the decision calculus, and forks of the log.

Mutants. Beside a definition that models code stands, where `PROJECT.json` uses
one, the form a plausible bug would give it (marked `Mutant` in its comment).
Each property of a passing run fails under one of them.

## 3. Durable effects

### Correspondence

`effects` is the effects table (one record per effect, `ABSENT` before the
proposal), `events` the set of effect events in the machine log. A host is a
thread of control: `step` says where it is inside a handler, `current` which
effect it is handling and `held` which records it has loaded. `calls` and
`owner` are the outside world: what became of the external operation of each
execution id, and which effect it was drawn for. They survive a crash, the
host's variables do not.

One step is one store transaction or one emitted event, because that is where
hosts interleave:

| Code | Actions |
|---|---|
| `propose_effect` (engine.py:153-156) | `FindByKey`, `SaveProposal`, `EmitProposed` |
| `authorize_effect` (engine.py:157-161) | `LoadToAuthorize`, `SaveAuthorized`, `EmitAuthorized` |
| `execute_effect` (runtime_v08.py:111-132), `claim_effect_attempt`, `finish_effect_attempt` (persistence/sqlite.py:179-222, persistence/memory.py:157-228) | `ClaimAttempt`, `EmitStarted`, `Invoke`, `FinishAttempt`, `EmitFinished`; `CallReturns` is the environment |
| `resume(recover_effects=True)` (runtime_v08.py:47-51) | `RecoverAtomically` (persistence/memory.py:230-252) or `ListRunning`, `SaveUnknown` (persistence/sqlite.py:224-233), then `EmitUnknown` |
| `reconcile_effect` (engine.py:178-181) | `LoadToReconcile`, `SaveReconciled`, `EmitReconciled` |
| end of a process, passive `resume` | `Crash`, `Resume` |

Abstractions: payloads, results, evidence and timestamps are left out;
`CANCELLED` exists in the enumeration and no code of this layer assigns it. The
operator who reconciles is taken to know the truth about the external
operation. `FinishAttempt` and `EmitFinished` cover the success path and the
path of an executor that raises. The wrappers of v0.53 and v0.54 are in
`GovernedEffects` (section 9); what is proved here is about the boundary they
are built on.

### Deployments

The documentation addresses a deployment that the code does not enforce. The
constants say what is assumed:

* `Controllers`: the hosts that authorize, recover and reconcile.
* `ExclusiveRecovery`: recovery runs only when no execution is live ("when a
  process actually died", docs/EFFECT_SYSTEM.md).
* `RetryOnFailure`, `RetryOnUnknown`, `MaxAttempts`: the retry policy.
* `UniqueKeys`: the SQL stores; `AtomicRecovery`: the MemoryStore.

`Supervised` is the deployment in which the promises hold: at most one
controller, exclusive recovery, no automatic retry, unique keys.

### Runs

| Run | Instance | Shows |
|---|---|---|
| `EffectSupervised` | 2 hosts, 1 controller, 2 effects with keys of their own, 3 executions, 2 attempts, 1 crash, SQL recovery, fair | the safety properties, the inductive invariant, that the lifecycle implements `ExternalBoundary`, and that no effect stays RUNNING and every external success surfaces |
| `EffectContended` | 2 controllers, 2 effects under one key, retries allowed, atomic recovery while executions are live | `RecordedSuccessIsReal` and `OneRecordPerKey` need no supervision: the ownership check of `finish_effect_attempt` and the unique index carry them |

Three disagreements have no run of their own. With two controllers
`AtMostOneInFlight` fails: `authorize_effect` (engine.py:161) overwrites a
RUNNING record and two calls are in flight; section 9 describes the governed
form of the same handler. The SQL recovery
(`AtomicRecovery = FALSE`) lists the RUNNING records and saves them one by one
later (persistence/sqlite.py:226-232): while an execution is live
(`ExclusiveRecovery = FALSE`) it overwrites a SUCCEEDED record with UNKNOWN. No
property is about this: under exclusive recovery it cannot happen, and the
recovery of the MemoryStore has no gap. With `UniqueKeys = FALSE` (the
MemoryStore shared by threads) `OneRecordPerKey` fails: two proposers both find
nothing. Each is the reason for a hypothesis in `Supervised`.

Two hosts are enough for the races: each of them is between one load and one
save of a handler and one intruding step. Three executions under a budget of
two are needed for the budget to bind; two effects under one key make
idempotency visible, two apart independence. One crash at any point covers each
crash window; the states after a second crash are those after the first with a
smaller budget. Execution ids are interchangeable, hence the symmetry
of the two runs without liveness.

Fairness: a live host finishes the handler it is in, an external call returns
(a call that hangs for ever leaves its effect RUNNING until its host is killed),
a dead host is attached again, and the controller runs recovery when records are
RUNNING and no execution is live, as the documentation asks. Nobody is obliged
to propose, authorize, execute or reconcile.

### Proof

`EffectLifecycleProofs`, for every set of hosts, effects, keys and executions,
every retry budget and every number of crashes:

| Theorem | Statement |
|---|---|
| `Typing` | `Spec => []TypeOK`, for every deployment |
| `Overtaking` | `Spec => []HandlersAreNeverOvertaken`, i.e. `Supervised => []IInv` |
| `MutualExclusion` | `Supervised => (Spec => []AtMostOneInFlight)` |
| `HonestSuccess` | `Spec => []RecordedSuccessIsReal`, for every deployment |
| `OneRecord` | `UniqueKeys => (Spec => []OneRecordPerKey)` |
| `NoLostAnswer` | `Supervised => (Spec => []AnswersAreRecordable)` |
| `SuccessIsFinal` | `Supervised => (Spec => NoInvocationAfterSuccess)` |
| `CallsAreBudgeted` | `Supervised => (Spec => []InvocationBudget)` |
| `BoundaryImplemented` | `Supervised => (Spec => ImplementsBoundary)` |

They rest on `ConstantsAssumption` only. None of the properties is inductive
by itself. What holds in every deployment follows from `ContendedInv`: what a
host is about to save is the outcome of an execution that it was given or the
change of a record that exists (`HandIsSound`), and no two hosts have the same
execution (`ExecutionsAreDistinct`).

The rest needs supervision: whether two operations can be in flight depends on
what the hosts that are in the middle of a handler will write. `IInv` (module
`EffectInvariant`) says it: the record a controller is about to overwrite is the
record in the store (`AuthorizationIsCurrent`, `RecoveryIsCurrent`,
`ReconciliationIsCurrent`), the attempt of an executing host is the one the
store names (`ExecutionIsCurrent`), an attempt has one executor
(`OneExecutorPerEffect`), and an operation in flight belongs to an unresolved
record that names it (`InFlightIsUnresolved`, `UnresolvedNamesItsAttempt`). The
proof treats the saves by one argument: a save disturbs only the hosts that rely
on the saved effect, and `OneRelies` shows that the saver is the only one (a
controller is alone, and excludes executors by the status it has read). Each
handler is then a lemma of its own; `SupervisedStep` puts them together.
`SuccessIsFinal` adds that a step on a SUCCEEDED record never saves and never
calls (`SuccessStays`, `CallSteps`). `CallsAreBudgeted` adds
`AttemptsAreCounted`, that the executions ever drawn for an effect are at most
the attempts on its record: no save brings an older count back.
`BoundaryImplemented` maps the initial states to the initial states of
`ExternalBoundary` and each step, action by action, to a step of it or to a
stutter; what makes a save a stutter or a step of the abstract boundary is that
the record in the hand of the saver is the one in the store.

## 4. Task leases

### Correspondence

`machine` is the canonical snapshot, restricted to leases, workers, plan nodes
and the limit; `claims` the claim table; `view` each host's copy; `at` and
`call` the handler a host is in and its locals, among them the time `ts` it read
once at its beginning; `clock` real time. `FreshHandlers` distinguishes the
control plane, which resumes the machine for every request
(server_v19.py:77-84), from a long-lived engine that keeps its copy until its
next commit. `Age` is how long before the start the workers were last heard.

| Code | Actions |
|---|---|
| `claim_task` (runtime.py:171-238), `acquire_task_claim` (persistence/sqlite.py:264-280, persistence/memory.py:339-388) | `Claim`, `Sweep`..., `RefuseWorker`, `RefuseClaim`, `Acquire`, `RecordClaim` or `AbandonClaim`, `NoteClaim` |
| `lease_heartbeat` (runtime.py:240-262) | `Heartbeat`, `Renew`, `RecordRenewal`, or a sweep |
| `complete_lease`, `fail_lease`, `release_lease`, `_finish_lease` (runtime.py:264-313, runtime_v32.py:19-34) | `Finish`, `CommitFinish`, `ReleaseClaim`, `NoteFinish` |
| `expire_leases` (runtime.py:315-321) | `ExpireLeases`, `Sweep`, `ReleaseClaim`, `NoteFinish`, `SweepDone` |
| `reap_stale_workers` (runtime.py:323-333) | `ReapStaleWorkers`, `Reap`, `Sweep`, ..., `ReapDone` |
| `worker_heartbeat`, `set_quota`, `update_resource` | `WorkerHeartbeat`, `SetLimit` |
| `append` and the reducer (persistence/sqlite.py:114-133, core/reducer.py:150-172) | `Commit`, `CommitLast`, `SetLease`, `SetWorker`, `SetNode` |

Abstractions: every task has demand 1 and one `limit` stands for the capacity of
a resource and for the quotas, which the code compares in the same way. A worker
is a sequential client. `DRAINING` and `OFFLINE`, which block claims
as `STALE` does, registration, and results are left out. Times are small
naturals: `MaxTime` bounds the clock, and no claim or heartbeat begins whose
expiry lies beyond it. `MaxDelay` bounds how long a handler may run.

### Runs

| Run | Instance | Shows |
|---|---|---|
| `LeaseFencing` | 2 hosts, 1 worker whose time is up at the start unless it is heard, 2 leases of one task, lease time 2 of 3, handlers of up to one tick, 1 crash, fair | `LeaseIsBacked`, `LeasesEnd`, and that the leases implement `TaskCustody` (`ImplementsCustody`) |
| `LeaseResults` | 2 hosts, 2 workers, 2 tasks and 2 leases, the limit changes between 0 and 1, lease time 2 of 4, handlers take no time but interleave step by step, 1 crash | `CompletionIsEarned`, `NoResultAfterLoss`, `ExpiryIsCanonical`, `NoOverbooking` |

Two leases of one task are what exclusivity is about, in `LeaseFencing` under a
limit of 2 so that it is the claim row and not the limit that keeps them apart. With
a lease time of 2 in a clock of 3 a lease lapses, comes back by a late heartbeat, is
finished or reaped, and the task is claimed again. In `LeaseResults` there are two
tasks and room for one, so two hosts go for the last place at once, each having
found room in its own copy (runtime.py:194); what decides is the count of rows in
the transaction of the acquisition. `NoOverbooking` compares with what all hosts have reserved
or leased (`Occupied`), and its mutant counts only what the claiming host has in its
copy. In the clock of 4 a task is also claimed again after an expiry.

`TaskCustody` says what the leases are for without hosts, rows, events or clocks:
one lease at a time is entitled to a task, only that one has custody of it, custody
may lapse and be taken up again, and a lease that is not entitled any more is out
for good before another is granted the task. `LeaseRefinement` reads this off the
store: entitled is a recorded lease that its claim row names, out one that no row
names. That custody is taken up again is real: a heartbeat that read its copy in
time and commits after the expiry (runtime.py:240-262) brings the lease back into
force. It can do so only while nobody else has claimed the task, since it
renews the claim row first and gives up when the row is gone (runtime.py:252-254,
`Lost`). So is a lease that is out from the start: one that is recorded so late that
its row has expired and was purged. In `LeaseFencing` a handler may take a tick, so
that heartbeats do come late. TLC agreed on a clock of 4 as well, where a
task changes hands after an expiry; what is larger, two workers on copies older than
each other's claims, is left to the theorem. That a task is never held by two
leases at once (`TaskExclusive`) is part of `ImplementsCustody` and has no run
of its own.

`NoResultAfterLoss`, `ExpiryIsCanonical` and `CompletionIsEarned` are claimed, and
checked in `LeaseResults`, only for handlers that finish within the tick in which
they began (`MaxDelay = 0`), on hosts that resume for each request
(`FreshHandlers`), and with workers that are not reaped within the clock. They say
what the interleaving of the steps alone cannot break. The code guarantees none of
these conditions, and outside of them the three fail, because the reducer patches a
lease unconditionally (core/reducer.py:170):

* a host with a stale snapshot sweeps a lease that its worker has renewed through
  another host (runtime.py:319), although docs/REMOTE_EXECUTION.md:72 says that
  stale hosts cannot overwrite the state of others;
* a result is accepted for a lease that a reaper on another host has just expired,
  although docs/TYPED_CAPABILITIES_FORMAL_VERIFICATION.md:129 says that "stale
  workers cannot commit after lease expiry";
* a slow handler of an old lease updates the node of a task after the handler of
  the new one (runtime.py:299).

For this reason they are not stated as theorems. The exclusivity of a task does not
depend on any of this, as the proof shows. The numbering of attempts is not monotonic either:
`runtime.py:201` computes it from a copy older than the acquisition.

Fairness: time passes, a handler that has begun goes on, a dead host is resumed
and some process keeps calling `expire_leases`, which the code does at the
beginning of each claim and in its maintenance commands. No worker is obliged to
do anything.

### Proof

`TaskLeasesProofs`, from `LeaseConstants`: `LeaseTypes` (`TypeOK`),
`LeasesKeepTheirRows` (`LeaseIsBacked`), `TasksAreExclusive` (`TaskExclusive`)
and `LimitsAreKept` (`NoOverbooking`), for any number of hosts, workers, tasks
and crashes, for stale as for fresh copies, with reaping and with handlers of
any length. `TaskExclusive` follows from `LeaseIsBacked`, a row
naming one lease. That is not inductive: between `acquire_task_claim` and
LEASE_CLAIMED, and between the renewal of a row and the renewal of its lease,
the promise is held by the locals of a host. `Inv` says what they hold, step by
step (`Host(h)`), that a recorded lease is complete and that its row is of its
task (`Complete`, `RowsMatch`), that no snapshot shows a lease of another task
than it has (`Seen`), and that two hosts never work for one worker or on a
lease that is being acquired (`Apart`).

`CustodyImplemented` is the refinement, for any number of hosts, workers, tasks
and crashes, with copies of any age and handlers of any length: each step is a
step of `TaskCustody` or a stutter. A step writes claim rows or leases, never both
(`RowsOrLeases`). One that writes rows withdraws the leases that lose theirs
(`CustodyWithdraws`), and gives none to a lease on record, which acquires under an
identifier of its own and renews only the row it has (`RowsAreNew`). One that writes
a lease puts it on record (`CustodyGrants`), brings it back into force while it is
entitled (`CustodyRevives`) or ends it, as time does (`CustodyLapses`). `Inv` is
strong enough: that a lease in force has its row, before the step and after it, is
what keeps a withdrawn lease out of force.

`LimitsAreKept` holds for copies of any age, since the acquisition does not use them:
the rows it counts include those of everything that is reserved or leased by any
host (`OccupiedAreCounted`), because a lease in force has its row.

## 5. The machine log

`MachineLog` models the store as `log` and `canon` (the canonical snapshot),
changed in one transaction; a host as its snapshot `mine` and `rest`, what is
left of the handler it is in; `checkpoints` are the saved snapshots. A commit
(`AASMEngine._commit`, `append`) is refused when its expected version is not the
canonical one, or when a transition does not start in the canonical state, or
when the reducer raises on the canonical snapshot; otherwise the event is
reduced there and the result becomes the snapshot of the host. The operations
are transitions, metadata, checkpoint (`Checkpoint` saves the snapshot of the host,
`FinishCheckpoint` announces it), backtrack (two commits, the second
unguarded), the plan graph (`PlanAddNode` commits the node and then, if the caller
wants it, `FinishAddNode` the frontier of the host with it), the memo table, the evidence records (guarded and
not), emitted events that only count, and a restart by `Resume`. `check_machine`
is the assumption `ValidDefinition`: what it accepts is what the code lets run.

| Run | Instance | Shows |
|---|---|---|
| `MachineLog` | 2 hosts, 5 states of which one is unreachable, 1 node, key and fact, 2 checkpoints, logs of up to 4 events | `ReplayIsSnapshot`, `VersionIdentifiesSnapshot`, `TerminationStaysPossible` |

Four events suffice for a move, the move to the backtracking state, the restore of a
checkpoint, and an event of the other host on top of it; a checkpoint that was saved
by a host that died before it announced it needs no event. The state that
nobody reaches is there because `check_machine` only warns of it. Deadlock is
checked: a host can always restart.

`MachineLogProofs` shows from `DefinitionAssumption`, for any definition without
errors and any number of hosts, `MachineTypeOK`, `VersionsTell` (a host whose
version is the canonical one has the canonical snapshot, so that a guarded
append refuses whenever anything has changed), `PlanIsClosed` (no edge of the
plan dangles), `NeverTrapped` (from every state of the run a terminal state can
still be reached) and `MachineFollowsDefinition` (only a restored checkpoint
leaves the moves of the definition, `StateFollowsDefinition`), and
`ReplayRebuilds`. The invariant of the first five: the log is of the events the
operations commit, every snapshot that exists anywhere (canonical, of a host,
saved, about to be restored) is in a reachable state with a closed plan, and no
host is ahead of the store.

`ReplayRebuilds` is `ReplayIsSnapshot`: reducing the log from the beginning gives
the canonical snapshot. Its invariant is that some function `f` on the positions
of the log starts with `Genesis`, reduces the event at each position (`Runs`)
and ends in the snapshot; a commit extends it by one place (`ReplayedAppend`).
The recursive function in `Replay` is chosen by the same equation, and a log has
one such function (`RunIsUnique`): two of them would differ first at a least
position (`LeastElement`), and there they agree because they agree before it.
`LeastElement` follows from the well-foundedness of the order on the naturals,
a fact of the library about sets, which is how an induction can be made
without the theorems that take an operator as a parameter.

## 6. Mission control

`MissionControl` takes the claim of `TaskLeases` as its steps (`Acquire`,
`CommitClaim`, `NoteClaim`) and puts around it what `runtime_v16.py` to
`runtime_v19.py` add: the checks of predecessors and paused tasks before it
(`CheckRequires`, `CheckPaused`) and of paused tasks, predecessors and the
mission after it (`RecheckPaused`, `RecheckRequires`, `RecheckMission`), which
give a lease back when they fail. Lease events change one record. The
control operations (`PauseMission`, `ResumeMission`, `AnalyzeChange`,
`ResolveImpact`) copy the resources when they begin, patch the whole document
(`Decide`) and then release the leases they affect (`FinishLease`, `Unclaim`,
`NoteFinish`). `Reopen` is a planner who reopens a finished task. `held` is the
set of leases that workers were given, `cleared` a history variable: the leases
for which, after their commit, all predecessors were complete at some moment.

| Run | Instance | Shows |
|---|---|---|
| `MissionControl` | 2 hosts, 1 operator, 2 tasks in a chain, 2 leases, 1 impact checkpoint, 2 control operations | `SuspensionStopsWork`, `ChangeStopsWork`, `OrderIsKept` |
| `MissionRedoesWork` | the same | violation of `NothingComesBack`: a lease that is completed between the copy of `pause_mission` and its patch is ACTIVE again |

`OrderIsKept` says what the gate can promise: a predecessor may be reopened at
any time, but no worker is given a task that was blocked during the whole of
its claim. The first two properties are claimed for one operator at a time, since
a second operator's patch undoes the first one's. Two control operations let a
pause follow an analysis or a reopening. The view `Busy` leaves out of a
snapshot what its thread will not read again; hosts and leases are symmetric.

`MissionControlProofs` proves from `MissionConstants`, for any dependency
relation and any number of hosts, tasks and impacts:

| Theorem | Statement |
|---|---|
| `MissionTypeOK` | `Spec => []TypeOK` |
| `ClaimsKeepTheOrder` | `Spec => []OrderIsKept` |
| `SuspensionsStopWork` | `OneOperator => (Spec => []SuspensionStopsWork)` |
| `ChangesStopWork` | `OneOperator => (Spec /\ []ImpactsAreApart => []ChangeStopsWork)` |

For the order, `Noticed` is the strengthening: a claim past its commit whose task
is unblocked now is in `cleared`, and one that has passed the check of the
predecessors was. For the two promises the strengthening follows the operator's
request. It writes the whole document back, so the copy that it works on has to
have the controls of the store and no lease that the store lacks (`Copied`), and
what it holds at each of its steps has to fit (`Decisions`); a lease belongs to
one claim until it is given to a worker (`Owned`); and of the leases that are
unwanted, each is still with a claim that will find out, or is one that the
operator is going to release (`Stopping`). `Kept` collects what the requests of
workers leave of this, step by step.

`ImpactsAreApart` is a hypothesis because the code needs it: when two checkpoints
have a task in common, `resolve_change_impact` of the one pauses again what is
left of it (runtime_v15.py:92, `paused.update(remaining)`), although the
resolution of the other has cleared the task and a worker holds a lease of it;
that lease is not released. docs/INFORMATION_CHANGE_CHECKPOINTS.md:63 promises
resolution "without re-pausing nodes already cleared", which holds within one
checkpoint. In the run there is one.

## 7. Physical authority

All state of PR-3A to PR-3H is evidence in the log, so `PhysicalAuthority` keeps
the set of evidence records: `evidence` in the store, `seen` by each host, and
`behind`, whether the host's version is no longer the canonical one. An
operation is a scoped-authority decision (`Decide`, appended unconditionally unless
the same decision is there; in both cases the host is up to date after it) and then a document that is appended only on
the version the host has seen (`RecordThen`). Preemption records the preemption
and then the revocation (`PreemptLease`, `RepairPreemption`, which a retry
completes); `AuthorizeEffect` and `ExecuteEffect` record a recheck and then
change the effect (`Proceed`). Identifiers are fingerprints of contents, so
contents are constants of the identifiers; `at_time` is an argument of the call,
because no handler compares it with a clock. `Calls` is what the callers ask.

| Run | Instance | Shows |
|---|---|---|
| `AuthorityFencing` | 2 hosts, 3 leases of one domain of which two compete for epoch 2 after the first is revoked, an effect taken through binding, authorization and execution under a delegated capability | `DispatchIsFenced`, and that the log implements `DomainAuthority` (`ImplementsAuthority`) |
| `AuthorityPreemption` | 2 hosts, 2 principals who preempt one lease at different moments while a capability under it is used and withdrawn, crashes at any point, fair | `AuthorityIsCurrent`, `PreemptionTakesEffect` |

`DomainAuthority` says what the leases of a domain promise, without hosts,
snapshots, records or capabilities. A lease is granted once, with the epoch after
the last one of its domain, over moments that no other lease of the domain has; it
can then only be cut short; and what is relied on at a moment is in force at that
moment. `AuthorityRefinement` reads this off the evidence: the leases granted, the
moments at which each is in force (none before it is granted or from its end on),
and the leases that a recorded use or recheck relies on, which are those of the
capability and of all it was delegated from. A revocation that comes after a
use may be dated before it, since `at_time` is what the caller says; it takes back
the moment but not the reliance, which is why `exercised` is a variable of its own
and not a condition on the leases as they are now. That two leases of a domain are
never in force at one moment (`ExclusiveAuthority`) is implied, and has no run
of its own.

One disagreement has no run. `revoke_authority_lease` and
`preempt_authority_lease` look for a prior revocation on the snapshot of before
the authority decision (physical_authority_runtime.py:485), and the decision
brings the snapshot up to date: a revocation and a preemption of one lease on two
hosts both become durable, `ReportsWork` is false from then on and every later
operation raises, although
docs/implementation/PR3_STALE_COMMAND_FENCING_AND_PREEMPTION.md:122 says that a
non-identical retry fails closed. No property of the runs rests on it.

Three leases are what it takes for two grants to compute the same next epoch of a
domain that already has a holder. Deadlock is checked.

Fairness: a handler that has begun goes on, and a preemption is retried until it
is complete; the retry is strongly fair, since its guarded append may be
overtaken any finite number of times.

`PhysicalAuthorityProofs` proves from `AuthorityAssumption`, for any calls of
any number of hosts: `AuthorityTypeOK`, `AuthorityIsExclusive` (`ExclusiveAuthority`),
`EpochsAreConsecutive` (the epochs of a domain are handed out one by one, each
to one lease), `ExerciseIsCurrent` (what is recorded as exercised is in force in
the canonical log at that moment, and no other lease of the domain is) and
`RunningIsFenced`. The common invariant is `Sync`: a snapshot is part of the
log, and all of it unless its version is behind. Each theorem adds that a new
record was justified by the log it was added to (`Justified`), which is where
the guard on the version is used.

`AuthorityImplemented` is the refinement, with any tree of delegations. A step
adds at most one record to the log, so the proof is one lemma per kind of record:
a lease is a `Grant` (`LeaseGranted`); a revocation, also the one that completes
a preemption, is a `Cut` (`LeaseCut`); a use or a recheck is an `Exercise` of the
whole chain (`LeasesExercised`); any other record is invisible (`UnseenRecord`). Two facts about the log are needed beyond `Sync`, both because
records speak of other records. `Rooted`: only a granted lease is ever ended, also
by the second document of a preemption and by its repair; otherwise a grant might
not have all the moments it was made for. `BoundFirst`: a recheck follows the
binding of its effect; otherwise a later binding would change what an
earlier recheck relied on.

## 8. The decision calculus

`DecisionCalculus` is the root scope of the v0.21 calculus with the certificates
of v0.24 and the recovery of v0.31. Every operation has the same frame: it refreshes
the snapshot of its host, computes a new calculus and patches the snapshot with the
whole document, without an expected version (runtime_v21.py:56-66,
runtime_v24.py:40-45). What another host has committed between the refresh and the
patch is overwritten.

| Code | Definitions |
|---|---|
| `_begin_calculus` | `Begin`: `copy[h]` is what the host has read |
| `register_decision`, `activate_decision`, `raise_conflict`, `register_explanation`, `learn_constraint`, `promote_constraint_hard`, `backjump_conflict`, `restart_search` | the relations `Register`, `Activate`, `RaiseConflict`, `RegisterExplanation`, `LearnConstraint`, `Promote`, `Backjump`, `RestartSearch` between the calculus that is read and the one that is written, joined in `Operation` |
| `_commit_calculus` | `Commit`: some operation on the copy becomes the calculus if it passes the assertions, `Sound` and `Certified` |
| `minimize_conflict` | `Minimize` (`adopt=True`: both documents in one patch), `RecordCheck` (otherwise) |
| `register_projection_certificate`, `verify_projection_certificate` | `RegisterCertificate`, `VerifyCertificate`: the certificates are a document of their own, overwritten in the same way |
| `invalidate_evidence` | `ExpireKnowledge`, the half that is about the calculus; the record of the evidence was committed before |
| an operation that raises, a dead process | `Abandon` |

A host that dies between the two halves of `invalidate_evidence` (runtime_v21.py:577)
leaves knowledge without evidence; repeating the call is left to the caller, by the
code as by the model. `Descendants` and `CausalRoots` are least closed sets, the
code's worklists. Learned constraints are SOFT until their certificate is
verified and promoted, as the default policy has it. There are no obligations,
so the audits of fairness and of locks find nothing to do.

| Run | Instance | Shows |
|---|---|---|
| `DecisionCalculus` | 2 hosts, one commit that overtakes an operation (`MaxOvertakes`); a1; b1 derived from it; a2, which revises a1 on the ground of b1; g, pinned; 3 subjects, 1 conflict, 2 explanations, 1 constraint, 1 evidence record | `Grounded`, `ResolvedIsRefuted`, `OnlyDependentsFall` |

Four decisions give a chain, a revision within it, and one that must survive;
two explanations of one conflict allow one to be minimized into the other. What
callers blame is b1 alone, or b1 with its cause and the pinned decision. One overtaking commit
is what it takes to patch from a stale copy; a second one finds again one document
that was computed from another, and the proof has no bound.

Since documents of two hosts may follow each other in any order, the properties say
what each document keeps and what an operation does to the one that it has read.
`Grounded` and `ResolvedIsRefuted` are about every calculus that is ever stored;
`OnlyDependentsFall` compares what is stored with the copy of the host. That
nothing is lost cannot be stated. Another host's activation, learned constraint
or backjump does vanish when a patch from an older copy follows, and a combination
that the lost constraint forbade can be entered again, although
docs/REMOTE_EXECUTION.md:72 says that "stale hosts therefore cannot overwrite state
committed by another host". `MissionRedoesWork` shows the same pattern for the
`resources` document.

`DecisionCalculusProofs` proves the three, `ModelIsActive` (the active model is the
active decisions, also in what a host has read) and the type invariant, for every
graph of decisions, any number of hosts, conflicts, explanations and constraints and
any number of overtaking commits, from `CalculusConstants`: `SupportHolds`,
`ResolutionRefutes`, `OthersStay`, `ModelConsistent`, `CalculusTypeCorrect`. The
invariant says of the canonical calculus and of every copy (`InUse`) that it is
`Consistent`: its model is exactly the active decisions (`ModelMatches`), references
name registered records (`References`), heirs are there only for decisions that were
replaced or invalidated (`HeirsReplace`), and it is `GroundedIn` and `RefutedIn`. An
operation makes a consistent calculus of a consistent one, so it does not matter
whose document is overwritten. Two lemmas on the graph carry the proofs of the
backjump: what is below a pivot are the decisions that cannot do without it
(`DescendantsBelow`), and each decision of a conflict has its roots among those
the pivot is chosen from (`RootsReach`).

`Grounded` exempts one case, because the code does it: `activate_decision`
checks the parents of a decision (runtime_v21.py:152) before it suspends the
descendants of the decision that it replaces, so a2 stays active when b1, its
ground, falls with a1. And `promote_constraint_hard` (runtime_v24.py:203) sets
HARD and ACTIVE whatever the constraint has become: one that had EXPIRED with
its evidence, or was SUPERSEDED, binds again once its certificate is verified,
while docs/FORMAL_CALCULUS.md allows hard constraints only from validated
explanations. The model promotes as the code does.

## 9. Governed effects

`GovernedEffects` is one effect under `runtime_v54.py`, whose operations wrap
those of `runtime_v53.py`, which wrap those of section 3. Each layer loads the
record, adds something to it and saves it, and only `ClaimAttempt` and
`FinishAttempt` compare before they write. `record` is the row, with what the
layers bind to it: intent, dispatch request (named by its task lease),
ownership and verdict, and their histories. `bound` and `owned` are the evidence
in the machine's log, `calls` the outside world. A host is in the step `at`, with
the record `held` that it has loaded and `arg`, the lease or the status that its
handler works with.

| Code | Actions |
|---|---|
| `propose_effect` (runtime_v54.py:761, runtime_v53.py:435, engine.py:153) | `FindByKey`, `SaveProposal`, `BindProposal`, `SaveIntent`, then `LoadToNote`, `SaveNote` |
| `authorize_effect` (runtime_v54.py:820, runtime_v53.py:464, engine.py:157) | `LoadToAuthorize`, `SaveAuthorized`, `BindAuthorization`, `SaveEndorsed` |
| `execute_effect` up to the claim (runtime_v54.py:870-1005, runtime_v53.py:499) | `StartExecute`, `LoadToDispatch`, `SaveDispatch`, `LoadToNote`, `SaveNote`, `LoadToDecide`, `SaveDecided`, `RequestOwnership` |
| the claim, the call and its result (persistence/sqlite.py:179-222, runtime_v08.py:111, runtime_v54.py:1007) | `ClaimAttempt`, `RecordOwnership`, `SaveOwned`, `Invoke`, `CallReturns`, `FinishAttempt` |
| `_ensure_terminal_reconciliation` (runtime_v54.py:1072) | `LoadToSettle`, `SaveSettled`, then `LoadToNote`, `SaveNote` |
| `resume(recover_effects=True)` on a SQL store | `ListRunning`, `SaveUnknown` |
| `reconcile_effect` (runtime_v54.py:1110, runtime_v53.py:537, engine.py:178) | `StartReconcile`, `LoadToReconcile`, `SaveReconciled`, `LoadToConclude`, `SaveConcluded`, then `LoadToNote`, `SaveNote` |
| a check that raises, a dead process | `Abandon` |

Whether authority is granted, a lease or a reservation is active, or the guard
on an evidence record holds is left open: each of these checks may stop its
handler at its step, and `Abandon` may stop any. Workspaces and scopes are one
context, evidence identifiers are not told apart, and evidence is not
invalidated. As in section 3 the operator who reconciles knows what became of
the call, and recovery runs while no execution is live. Within a handler, loads
between which it records nothing are one load.

`raced` is a history variable: it becomes true when a handler writes back, or goes
on to judge, a record whose status or execution has moved since it was loaded.
When the operations on an effect are serialized it stays false; it may
also stay false when they interleave, since a handler may be interrupted
between any two of its steps as long as it does not write over the interruption.

| Run | Instance | Shows |
|---|---|---|
| `GovernedEffects` | 2 hosts, 2 leases, 2 executions, 2 attempts, retries after failure | `CallsAreGoverned`; without a race, that retries only append to the owners (`OwnershipIsKept`) and that a verdict follows the status (`VerdictsAreReal`); that without a race the governed effect implements `ExternalBoundary` (`GovernedBoundary`) |

Two executions give a retry after a failure and a second claim beside a first;
two leases a new dispatch after the first; two hosts the intruder of each race.
Hosts, leases and executions are interchangeable. Deadlock is not checked, since a
record can become unreadable and then every operation raises (below). That one
call is made at a time (`OneCallAtATime`) is part of `GovernedBoundary`, and is
left to the theorem `SingleCall`.

`GovernedEffectsProofs` proves from `GovernedAssumption`, for any number of hosts,
leases and executions and every retry policy, `TypeCorrect`, `GovernedCalls`,
`SingleCall` and `GovernedBoundaryImplemented`. `OwnershipIsKept` and
`VerdictsAreReal` are only model-checked: their condition excludes the saves of a
record that has moved, which is how the code loses an owner or gives a false
verdict (below), so that they say little more than what the handlers do one after
the other.
The invariant `IInv` has two unconditional parts: `Governance` (a step towards the boundary has found its
evidence, which is never taken back; here not even a race does harm) and
`Attempts` (each executing host has an execution that no other has). As long as
nothing raced, `Tracked` adds that the record is the one its executor holds and
that whoever has loaded the same execution has the same owners; and, without
`RetryOnUnknown`, `Resolved` adds that an open call is the one on record and
that statuses and what an operator is about to save are true of the calls. Each part has a frame lemma for the steps that leave its subject alone,
and one step per action for the rest.

`GovernedRefinement` reads the state of the abstract boundary of section 3 off the
governed record and its calls: sealed when the record has SUCCEEDED, crossing
while a call is in flight, open otherwise. `GovernedBoundary` is the refinement
as far as the code keeps it: the initial states are initial states of
`ExternalBoundary`, and each step after which nothing has raced yet is a step of
it or a stutter, unless unknown outcomes are retried. The proof
(`OutsideStep`) takes the steps in three groups: those that neither save a status nor
touch a call are invisible (`QuietUnseen`); a save changes the boundary only if it
makes the record SUCCEEDED, which seals a boundary that is open because the
attempt has been called and has returned (`SuccessSeals`, from `Tracked` and
`Resolved`); and a call is made only when no other is open, under an execution
that has not been used (`InvokeCrosses`), and comes back (`AnswerReturns`).

What the code does that the properties make room for:

* Two hosts that authorize one effect: the second save of `authorize_effect`
  (runtime_v53.py:496) puts AUTHORIZED back over the RUNNING attempt that the
  other has begun meanwhile, and the ownership bound to it is gone from the
  record, although effects.py:445 and docs/RELEASE_0.54.md:33 speak of a history
  that is only appended to. This is a race in the sense of `raced`:
  `HistoryIsAppendOnly` states the sentence without that condition, TLC finds it
  violated, and no run checks it.
* With `retry_on_unknown` an execution that was admitted before a recovery
  claims the UNKNOWN effect before anyone has reconciled it, although the
  contract says `REQUIRES_EXPLICIT_RECONCILIATION_BEFORE_NEW_OWNERSHIP`
  (effects.py:444). `OneCallAtATime` and `VerdictsAreReal` exclude that policy.
* After a failed attempt a dispatch under another lease is saved beside the
  ownership of the first (runtime_v54.py:893-905), and `EffectRecord` refuses the
  pair on its next load (effects.py:522): the effect cannot be used again.
  `Readable` models it; two attempts therefore always have one lease.
* A process that dies after engine.py:161 and before the binding leaves an
  effect AUTHORIZED without an authorization: it can be neither authorized again
  nor executed. One that dies after the proposal and before its binding leaves a
  key that nobody can propose. `CallsAreGoverned` says that neither leads to an
  ungoverned call.
* `_ensure_terminal_reconciliation` does not look at the status of the record it
  loads again: a retry in between makes it judge a running attempt FAILED. This is
  one of the races that set `raced`.

## 10. Reservations

`Reservations` is the resource governance of v0.52 to v0.54: `capacity` and
`reservation` are what `_project` (`_runtime_v52_resources.py:154`) derives from
the `documents` in the evidence; `summaries` are the recorded settlements of
effects. A host is at a step `at`, with the projection it works with in `plan`,
the document it is about to append in `pending` and the settlement of an effect
it is in in `task`; `current` says that no event has come since the host's
snapshot, the guard of an append.

| Code | Actions |
|---|---|
| the scoped-authority decision before every operation (`_authorize_resource_action`, runtime_v53.py:41-69) | `Authorize`, after which the projection is made |
| `select_and_reserve_resource_candidate` (`_runtime_v52_resources.py:454-524`, runtime_v52.py:187-209) | `Report`, `Reserve`, then `Append`, `Explain` |
| `settle_...`, `reestimate_...`, `release_resource_reservation` (`_runtime_v52_resources.py:526-690`) | `Settle`, `Reestimate`, `Release`, then `Append` |
| `record_resource_observation`, with its capacity and its binding (`_runtime_v52_resources.py:351-388`, runtime_v53.py:149-163) | `Observe`, `AppendObservation`, `Append`, `Bind` |
| `settle_effect_resources` (`_runtime_v54_effect_resources.py:85-204`) | `Enter`, `SettleEffect`, then `Authorize`, `Settle`, `Append` for each reservation that is ACTIVE, `Summarize` |
| a check that raises, a refused append, a dead process | `Abandon` |

A document carries the capacities that result from it (`post_capacities`),
computed from the projection, and its identifier is a fingerprint of its
content; `Record` is the validation, which refreshes the snapshot, and the search
for that identifier. The policy ranks the candidates that fit: any of them may
be the first. Capacities are registered, in one workspace and scope, with a
finite total.

| Run | Instance | Shows |
|---|---|---|
| `Reservations` | a single engine, 2 capacities of 3 with a reserve of 1, candidates that demand 2 of the first and 1 of each, both bound to one effect, up to 6 documents | `CommitmentsCovered`, `ConsumptionIsAccounted`, `SummaryIsReal` |

Each candidate fits alone, both do not, so that one must wait for the other's
settlement. Six documents are two reservations with their settlements and two
re-estimations, releases or observations between them, after handlers that have stopped
anywhere and were repeated. The run stops when the documents are used up, hence no
check of deadlock.

The run has a single engine, the deployment of the store in memory
(persistence/memory.py:28, "without pretending to be multi-process"). With two
engines the model of this code violates `CommitmentsCovered` and
`ConsumptionIsAccounted`: every operation computes its projection before the
refresh in its validation (`_runtime_v52_resources.py:466-467`, 535-540, 588-593,
657-662), so what another engine commits in between is not in the totals that the
document carries, and the guard, which compares the version of after the refresh,
lets it pass. Two reservations, of which the second erases the first from the capacity,
are enough, and a settlement loses the charge of another in the same way. This
contradicts tests/test_v53_resource_authority.py:186, where a stale
reservation is refused, and `_runtime_v53_resource_history.py:101`, which names the
guard `V53_OPTIMISTIC_MACHINE_VERSION_FAIL_CLOSED`. The two properties are therefore
claimed for a single engine only, and no run is about the defect. Two more are of
one engine:

* A document that is there already is not appended again
  (`_runtime_v52_resources.py:308`). After reserve, release and an identical
  reserve the call returns the old reservation as reserved (`answer`), while it is
  RELEASED in the ledger, although docs/RESOURCE_GOVERNED_DECISION_FOUNDATION.md:250
  calls a reservation "persisted as one durable transaction".
* A reservation that is REPLAN_REQUIRED may be reserved again
  (`_runtime_v52_resources.py:489`): the new allocation is committed, the old one
  is never freed. What is committed then covers more than what is held, which
  is why `CommitmentsCovered` says "covers".

`ReservationsProofs` proves from `ReservationsAssumption`, for any number of
hosts, capacities and candidates and without a bound on documents:

| Theorem | Statement |
|---|---|
| `ReservationTypes` | `Spec => []TypeOK`, for every deployment |
| `SummariesAreReal` | `Spec => []SummaryIsReal`, for every deployment |
| `HeldIsCovered` | `SingleEngine => (Spec => []CommitmentsCovered)` |
| `ConsumptionAddsUp` | `SingleEngine => (Spec => []ConsumptionIsAccounted)` |

`SingleEngine` is a set of hosts with at most one element. `SummariesAreReal` needs
nothing of the kind: by `SummaryInv`, what a settlement of an effect has behind it is
in the evidence and what it is about to append settles one of the rest, whatever
happens to the reservations meanwhile. The last two rest on `ReadsAreCurrent`: a
host that reads has the projection of the store, and what it is about to append is
`Balanced` for the capacities that are there, changing what is committed by at
least what it changes in its reservation and consuming what it charges. `Novel`
adds that a settlement about to be appended is not in the evidence yet, so that
it is charged once, whatever was abandoned or repeated before.

Both accounts are sums over sets of any size, the fold of the community modules.
The provers cannot use the induction theorems of the library, so the module has
what it needs of such a fold as lemmas: `AddingExists` gives a function of the
sums over all subsets that may be split at any element, by a smallest set
without one; `AddsUnique` shows that the recursion of the fold has no other
solution; `SumSplits` is the result.

## 11. What is proved and what is only checked

Proved for every value of the constants: the theorems above, each from the
named assumption of its module, by an invariant that holds initially and is
kept by each action (one lemma or step per action), from which the property
follows. Action properties are proved from the same invariant, step by step.

Only model-checked, at the bounds given above: liveness (`RunningResolves`,
`SuccessSurfaces`, `LeasesEnd`, `PreemptionTakesEffect`), since fairness and
`ENABLED` are out of the prover's reach; and five properties whose conditions leave out
the schedules in which the code fails, so that a theorem for every value of the
constants would promise more than it shows: `ExpiryIsCanonical`, `NoResultAfterLoss`
and `CompletionIsEarned` of section 4, `OwnershipIsKept` and `VerdictsAreReal` of
section 9. Every other safety and action property of a passing run is a theorem, with
the four refinements: both of `ExternalBoundary`, the one of `TaskCustody` and the
one of `DomainAuthority`.

What a theorem assumes beyond the named assumption of its module is `Supervised`,
`UniqueKeys`, `OneOperator`, `[]ImpactsAreApart` or `SingleEngine`; the section of the component says which
behaviour of the code makes it necessary.

Only proved, and checked by no run: `AnswersAreRecordable`, `EpochsHaveNoGap`,
`EdgesHaveEndpoints`, `ModelIsActive`, `StateFollowsDefinition` and the type
invariants; and `TaskExclusive`, `ExclusiveAuthority` and `OneCallAtATime`, each
of which a refinement that is checked implies.

Deadlock is checked in the runs of `MachineLog` and `PhysicalAuthority`. The
others say `CHECK_DEADLOCK FALSE`: the system may stop when all effects are
settled, the clock or the control operations have reached their bound, every
record of the calculus is registered and final, a governed effect is
unreadable, or the documents about resources have reached theirs.

## 12. Not modelled

`PROJECT.json` gives the reason for each component. The larger groups are:

* Wrappers around what is modelled. How a scoped request is decided, and the
  consumption that v0.54 reports, are documents beside the governed effect;
  hierarchical scopes, obligations, locks and fairness
  audits extend the decision calculus; team approvals, fleet tools and triggers
  decide who may call mission control.
* Evidence families of one shape. Observations, machine identities, calibration,
  provenance, outcomes, memory, candidates and assurance validate a document and
  append it with a guard; the concurrency of that append is in `MachineLog`.
* Solvers, optimization representations, numeric evaluation, scoring of models,
  similarity of memories: data beyond a finite model, nothing concurrent.
* Transport and presentation: HTTP, command line, observability, adapters,
  examples and demonstrations.

Most of the lines of the repository are in the last four groups, so the map
covers a small share of them: it covers the part where several actors
change shared state.
