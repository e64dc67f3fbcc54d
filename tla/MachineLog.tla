------------------------------ MODULE MachineLog ------------------------------
(***************************************************************************)
(* The event-sourced machine: typed events, the reducer, the store that    *)
(* appends them and the runtimes (hosts) that commit them.                 *)
(*                                                                         *)
(* The store keeps the log and the canonical snapshot and changes both in  *)
(* one transaction.  A host works on the snapshot it got from its own last *)
(* commit.  Of the snapshot the model keeps the version, the lifecycle     *)
(* state, the plan graph with its work lists, the memo table and the       *)
(* evidence; identifiers stand for contents, work lists are sets, and a    *)
(* record of the memo table or of the evidence is its validity.  Evidence  *)
(* is a list: the reducer does not look for an identifier it already has.  *)
(***************************************************************************)
EXTENDS Naturals, Sequences, FiniteSets

CONSTANTS
    Hosts,          \* runtimes attached to the machine
    States,         \* lifecycle states of the definition
    Start,          \* its start state
    Terminal,       \* its terminal states
    Moves,          \* its transitions, pairs of states
    BackTrack,      \* the state from which a checkpoint is restored
    Nodes,          \* plan nodes
    Keys,           \* keys of the memo table
    Facts,          \* evidence identifiers
    MaxLog,         \* bound on the number of events
    MaxCheckpoints  \* bound on the number of checkpoints

\* MachineDefinition.allowed
Allowed(s) == {t \in States : <<s, t>> \in Moves}

\* check_machine: what can be reached from the start, and what can reach a
\* terminal state, as least sets closed under the moves.
Reachable ==
    {s \in States : \A S \in SUBSET States :
        Start \in S /\ (\A m \in Moves : m[1] \in S => m[2] \in S) => s \in S}

CanTerminate ==
    {s \in States : \A S \in SUBSET States :
        Terminal \subseteq S /\ (\A m \in Moves : m[2] \in S => m[1] \in S) => s \in S}

\* A definition without errors.  An unreachable state is only a warning.
ValidDefinition ==
    /\ Start \in States
    /\ \A s \in Terminal : Allowed(s) = {}
    /\ \A s \in Reachable \ Terminal : Allowed(s) # {}
    /\ Reachable \subseteq CanTerminate
    /\ Reachable \cap Terminal # {}

ASSUME DefinitionAssumption ==
    /\ Moves \subseteq States \X States
    /\ Terminal \subseteq States
    /\ ValidDefinition
    /\ {MaxLog, MaxCheckpoints} \subseteq Nat

VARIABLES
    log,            \* the events of the store, in order
    canon,          \* the snapshot of the store
    mine,           \* the snapshot of each host
    rest,           \* what is left of the handler a host is in
    checkpoints     \* the snapshots that were saved

vars == <<log, canon, mine, rest, checkpoints>>

NodeStatus == {"absent", "pending", "complete", "pruned"}
Validity == {"absent", "active", "invalid"}
Standing == {"active", "invalid"}

Snapshots ==
    [version : Nat, state : States, nodes : [Nodes -> NodeStatus],
     edges : SUBSET (Nodes \X Nodes), frontier : SUBSET Nodes,
     visited : SUBSET Nodes, pruned : SUBSET Nodes,
     memory : [Keys -> Validity], facts : [Facts -> Seq(Standing)]]

Idle == [kind |-> "idle"]
Saved == [kind |-> "saved"]

\* What the handlers of several steps still have to do.
Rests == {Idle, Saved} \cup [kind : {"frontier"}, node : Nodes]
                \cup [kind : {"fact"}, fact : Facts]
                \cup [kind : {"restore"}, snapshot : Snapshots]

TypeOK ==
    /\ canon \in Snapshots
    /\ mine \in [Hosts -> Snapshots]
    /\ rest \in [Hosts -> Rests]
    /\ checkpoints \subseteq Snapshots

-----------------------------------------------------------------------------
(* Events.                                                                 *)

Event(k) == [kind |-> k]
TransitionEvent(from, to) == [kind |-> "transition", from |-> from, to |-> to]
FrontierEvent(F) == [kind |-> "frontier", frontier |-> F]
WorkListsEvent(F, V) == [kind |-> "worklists", frontier |-> F, visited |-> V]
RestoreEvent(s) == [kind |-> "restore", snapshot |-> s]
NodeEvent(k, n) == [kind |-> k, node |-> n]
UpdateEvent(n, v) == [kind |-> "node_updated", node |-> n, status |-> v]
EdgeEvent(src, dst) == [kind |-> "edge_added", src |-> src, dst |-> dst]
MemoEvent(k, x) == [kind |-> k, key |-> x]
FactEvent(k, f) == [kind |-> k, fact |-> f]
GuardedFactEvent(f, v) == [kind |-> "fact_guarded", fact |-> f, expected |-> v]

\* The reducer raises on an event that names something unknown, or that adds
\* a node twice.
Applicable(s, e) ==
    CASE e.kind = "node_added" -> s.nodes[e.node] = "absent"
      [] e.kind = "node_updated" -> s.nodes[e.node] # "absent"
      [] e.kind = "edge_added" ->
            s.nodes[e.src] # "absent" /\ s.nodes[e.dst] # "absent"
      [] e.kind = "memo_invalidated" -> s.memory[e.key] # "absent"
      [] e.kind = "fact_invalidated" -> s.facts[e.fact] # <<>>
      [] OTHER -> TRUE

Prune(s, n) ==
    [s EXCEPT !.pruned = @ \cup {n}, !.frontier = @ \ {n},
              !.nodes[n] = IF @ = "absent" THEN @ ELSE "pruned"]

\* The contents of the snapshot after an event that changes it.
Contents(s, e) ==
    CASE e.kind = "transition" -> [s EXCEPT !.state = e.to]
      [] e.kind = "frontier" -> [s EXCEPT !.frontier = e.frontier]
      [] e.kind = "worklists" ->
            [s EXCEPT !.frontier = e.frontier, !.visited = e.visited]
      [] e.kind = "restore" -> e.snapshot
      [] e.kind = "node_added" -> [s EXCEPT !.nodes[e.node] = "pending"]
      [] e.kind = "node_updated" -> [s EXCEPT !.nodes[e.node] = e.status]
      [] e.kind = "node_pruned" -> Prune(s, e.node)
      [] e.kind = "edge_added" -> [s EXCEPT !.edges = @ \cup {<<e.src, e.dst>>}]
      [] e.kind = "memo_put" -> [s EXCEPT !.memory[e.key] = "active"]
      [] e.kind = "memo_invalidated" -> [s EXCEPT !.memory[e.key] = "invalid"]
      [] e.kind = "fact_invalidated" -> [s EXCEPT !.facts[e.fact][1] = "invalid"]
      [] e.kind \in {"fact_added", "fact_guarded"} ->
            [s EXCEPT !.facts[e.fact] = Append(@, "active")]
      [] OTHER -> s

\* Events that leave the snapshot and its version alone.
Silent == {"emit"}

\* (Mutant: a restored snapshot brings its own version along.)
VersionOfContents(s, e) == Contents(s, e).version + 1

NextVersion(s, e) == s.version + 1

\* reduce_event
Reduce(s, e) ==
    IF e.kind \in Silent THEN s
    ELSE [Contents(s, e) EXCEPT !.version = NextVersion(s, e)]

Genesis ==
    [version |-> 0, state |-> Start, nodes |-> [n \in Nodes |-> "absent"],
     edges |-> {}, frontier |-> {}, visited |-> {}, pruned |-> {},
     memory |-> [k \in Keys |-> "absent"], facts |-> [f \in Facts |-> <<>>]]

\* replay_events, on the events up to number n.
Replay(n) ==
    LET after[i \in 0 .. n] ==
            IF i = 0 THEN Genesis ELSE Reduce(after[i - 1], log[i])
    IN  after[n]

-----------------------------------------------------------------------------
(* The store and a commit of a host.                                       *)

Init ==
    /\ log = <<>>
    /\ canon = Genesis
    /\ mine = [h \in Hosts |-> Genesis]
    /\ rest = [h \in Hosts |-> Idle]
    /\ checkpoints = {}

\* Store.append: the guards on the expected version and on the state that a
\* transition leaves, and then the reducer.
Accepts(e) ==
    /\ e.kind = "fact_guarded" => canon.version = e.expected
    /\ e.kind = "transition" => canon.state = e.from
    /\ Applicable(canon, e)

\* (Mutant: the store keeps the snapshot that the host computed.)
HostsCandidate(h, e) == Reduce(mine[h], e)

Materialized(h, e) == Reduce(canon, e)

\* _commit: the host reduces its own snapshot first (an exception changes
\* nothing), then the store appends, and the host takes over the canonical
\* snapshot; if the store refuses, the host reloads and raises.
CommitThen(h, e, r) ==
    /\ Len(log) < MaxLog
    /\ Applicable(mine[h], e)
    /\ IF Accepts(e)
       THEN /\ log' = Append(log, e)
            /\ canon' = Materialized(h, e)
            /\ mine' = [mine EXCEPT ![h] = canon']
            /\ rest' = [rest EXCEPT ![h] = r]
       ELSE /\ mine' = [mine EXCEPT ![h] = canon]
            /\ rest' = [rest EXCEPT ![h] = Idle]
            /\ UNCHANGED <<log, canon>>

Commit(h, e) ==
    /\ rest[h] = Idle
    /\ CommitThen(h, e, Idle)
    /\ UNCHANGED checkpoints

-----------------------------------------------------------------------------
(* The operations of a host.                                               *)

\* (Mutant: the target of a transition is not looked up.)
AnyTarget(h) == States

Targets(h) == Allowed(mine[h].state)

Transition(h) ==
    \E t \in Targets(h) : Commit(h, TransitionEvent(mine[h].state, t))

\* patch_snapshot of the metadata, as in classify.
PatchMetadata(h) == Commit(h, Event("metadata"))

\* emit: a provenance event, which also refreshes the snapshot of the host.
Emit(h) == Commit(h, Event("emit"))

\* checkpoint: the snapshot of the host is saved, and then an event emitted.
Checkpoint(h) ==
    /\ rest[h] = Idle
    /\ Cardinality(checkpoints) < MaxCheckpoints
    /\ checkpoints' = checkpoints \cup {mine[h]}
    /\ rest' = [rest EXCEPT ![h] = Saved]
    /\ UNCHANGED <<log, canon, mine>>

FinishCheckpoint(h) ==
    /\ rest[h] = Saved
    /\ CommitThen(h, Event("emit"), Idle)
    /\ UNCHANGED checkpoints

\* backtrack: first the transition, then the restoration, which is committed
\* without a guard.
Backtrack(h) ==
    /\ rest[h] = Idle
    /\ \E s \in checkpoints :
        IF mine[h].state = BackTrack
        THEN CommitThen(h, RestoreEvent(s), Idle)
        ELSE /\ BackTrack \in Targets(h)
             /\ CommitThen(h, TransitionEvent(mine[h].state, BackTrack),
                           [kind |-> "restore", snapshot |-> s])
    /\ UNCHANGED checkpoints

FinishBacktrack(h) ==
    /\ rest[h].kind = "restore"
    /\ CommitThen(h, RestoreEvent(rest[h].snapshot), Idle)
    /\ UNCHANGED checkpoints

\* plan_add_node: the node, and then, unless the caller does not want it or it
\* is there already, the frontier of the host with the node.
PlanAddNode(h) ==
    /\ rest[h] = Idle
    /\ \E n \in Nodes : \E r \in {Idle, [kind |-> "frontier", node |-> n]} :
        CommitThen(h, NodeEvent("node_added", n), r)
    /\ UNCHANGED checkpoints

FinishAddNode(h) ==
    /\ rest[h].kind = "frontier"
    /\ IF rest[h].node \notin mine[h].frontier
       THEN CommitThen(h, FrontierEvent(mine[h].frontier \cup {rest[h].node}), Idle)
       ELSE rest' = [rest EXCEPT ![h] = Idle] /\ UNCHANGED <<log, canon, mine>>
    /\ UNCHANGED checkpoints

PlanAddEdge(h) ==
    \E m, n \in Nodes : Commit(h, EdgeEvent(m, n))

PlanUpdateNode(h) ==
    \E n \in Nodes, v \in {"pending", "complete"} : Commit(h, UpdateEvent(n, v))

\* plan_mark_visited: both work lists of the host, as a whole.
PlanMarkVisited(h) ==
    \E n \in Nodes :
        /\ mine[h].nodes[n] # "absent"
        /\ Commit(h, WorkListsEvent(mine[h].frontier \ {n},
                                    mine[h].visited \cup {n}))

PlanPruneNode(h) ==
    \E n \in Nodes :
        /\ mine[h].nodes[n] # "absent"
        /\ Commit(h, NodeEvent("node_pruned", n))

MemoPut(h) == \E k \in Keys : Commit(h, MemoEvent("memo_put", k))

MemoInvalidate(h) ==
    \E k \in Keys : Commit(h, MemoEvent("memo_invalidated", k))

\* add_evidence: the snapshot is refreshed, and then the ledger of the host
\* refuses an identifier it has.
AddEvidence(h) ==
    \E f \in Facts :
        /\ rest[h] = Idle
        /\ rest' = [rest EXCEPT ![h] = [kind |-> "fact", fact |-> f]]
        /\ mine' = [mine EXCEPT ![h] = canon]
        /\ UNCHANGED <<log, canon, checkpoints>>

FinishAddEvidence(h) ==
    /\ rest[h].kind = "fact"
    /\ IF mine[h].facts[rest[h].fact] = <<>>
       THEN CommitThen(h, FactEvent("fact_added", rest[h].fact), Idle)
       ELSE rest' = [rest EXCEPT ![h] = Idle] /\ UNCHANGED <<log, canon, mine>>
    /\ UNCHANGED checkpoints

AddEvidenceGuarded(h) ==
    \E f \in Facts :
        /\ mine[h].facts[f] = <<>>
        /\ Commit(h, GuardedFactEvent(f, mine[h].version))

InvalidateEvidence(h) ==
    \E f \in Facts : Commit(h, FactEvent("fact_invalidated", f))

\* The process dies and is resumed, from the snapshot or by replay.
Resume(h) ==
    /\ mine' = [mine EXCEPT ![h] = canon]
    /\ rest' = [rest EXCEPT ![h] = Idle]
    /\ UNCHANGED <<log, canon, checkpoints>>

Operation(h) ==
    \/ Transition(h) \/ PatchMetadata(h) \/ Emit(h)
    \/ Checkpoint(h) \/ FinishCheckpoint(h)
    \/ Backtrack(h) \/ FinishBacktrack(h)
    \/ PlanAddNode(h) \/ FinishAddNode(h) \/ PlanAddEdge(h)
    \/ PlanUpdateNode(h) \/ PlanMarkVisited(h) \/ PlanPruneNode(h)
    \/ MemoPut(h) \/ MemoInvalidate(h)
    \/ AddEvidence(h) \/ FinishAddEvidence(h)
    \/ AddEvidenceGuarded(h) \/ InvalidateEvidence(h)

Next == \E h \in Hosts : Operation(h) \/ Resume(h)

Spec == Init /\ [][Next]_vars
-----------------------------------------------------------------------------
(* Properties.                                                             *)

\* Replaying the log from its first event gives the canonical snapshot,
\* whatever snapshots the hosts had when they committed.
ReplayIsSnapshot == canon = Replay(Len(log))

\* A host whose version is the canonical one has the canonical snapshot: the
\* comparison of versions in a guarded append tells whether anything changed,
\* also after a checkpoint was restored.
VersionIdentifiesSnapshot ==
    \A h \in Hosts : mine[h].version = canon.version => mine[h] = canon

\* The machine moves along its definition, although every host checks a move
\* on its own snapshot; only a restored checkpoint may set another state.
StateFollowsDefinition ==
    [][canon'.state # canon.state =>
        \/ <<canon.state, canon'.state>> \in Moves
        \/ log'[Len(log')].kind = "restore"]_vars

\* The check of the definition carries over to the run: every state the
\* machine gets into, by moves and by restored checkpoints, can still reach a
\* terminal state.
TerminationStaysPossible == canon.state \in CanTerminate

\* No edge of the plan dangles.
EdgesHaveEndpoints ==
    \A d \in canon.edges :
        canon.nodes[d[1]] # "absent" /\ canon.nodes[d[2]] # "absent"
=============================================================================
