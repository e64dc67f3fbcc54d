-------------------------- MODULE MachineLogProofs --------------------------
(***************************************************************************)
(* Proofs about the event-sourced machine, for any hosts, definition and   *)
(* plan.  The invariant says that every snapshot in sight, of the store,   *)
(* of a host, of a checkpoint or of a restoration in progress, is Good,    *)
(* and that no host is ahead of the store.  All that an operation does is  *)
(* to commit a member of Events, so one lemma about the reducer            *)
(* (ReduceGood) and one about a commit (CommitStep) carry the steps.       *)
(***************************************************************************)
EXTENDS MachineLog, WellFoundedInduction, TLAPS

\* A state that the definition reaches, and a plan without dangling edges.
Good(s) ==
    /\ s.state \in Reachable
    /\ \A d \in s.edges : s.nodes[d[1]] # "absent" /\ s.nodes[d[2]] # "absent"

GoodSnapshots == {s \in Snapshots : Good(s)}

NodeKinds == {"node_pruned", "node_added"}
MemoKinds == {"memo_put", "memo_invalidated"}
FactKinds == {"fact_added", "fact_invalidated"}

\* What the operations commit.
Events ==
    {Event(k) : k \in {"metadata", "emit"}}
    \cup {TransitionEvent(m[1], m[2]) : m \in Moves}
    \cup {FrontierEvent(F) : F \in SUBSET Nodes}
    \cup {WorkListsEvent(F, V) : F, V \in SUBSET Nodes}
    \cup {RestoreEvent(s) : s \in GoodSnapshots}
    \cup {NodeEvent(k, n) : k \in NodeKinds, n \in Nodes}
    \cup {UpdateEvent(n, v) : n \in Nodes, v \in {"pending", "complete"}}
    \cup {EdgeEvent(m, n) : m, n \in Nodes}
    \cup {MemoEvent(k, x) : k \in MemoKinds, x \in Keys}
    \cup {FactEvent(k, f) : k \in FactKinds, f \in Facts}
    \cup {GuardedFactEvent(f, v) : f \in Facts, v \in Nat}

GoodRest(r) == r \in Rests /\ (r.kind = "restore" => Good(r.snapshot))

NoHostAhead ==
    \A h \in Hosts :
        /\ mine[h].version <= canon.version
        /\ mine[h].version = canon.version => mine[h] = canon

Inv ==
    /\ TypeOK
    /\ log \in Seq(Events)
    /\ canon \in GoodSnapshots
    /\ \A h \in Hosts : mine[h] \in GoodSnapshots /\ GoodRest(rest[h])
    /\ checkpoints \subseteq GoodSnapshots
    /\ NoHostAhead

-----------------------------------------------------------------------------
(* The definition of the machine.                                          *)

\* The start state is reachable.
LEMMA StartReachable == Start \in Reachable
BY DefinitionAssumption DEF Reachable, ValidDefinition

\* Reachability is closed under the moves.
LEMMA MovesReach ==
    ASSUME NEW m \in Moves, m[1] \in Reachable
    PROVE  m[2] \in Reachable
<1>1. m[2] \in States
  BY DefinitionAssumption
<1>2. SUFFICES ASSUME NEW S \in SUBSET States, Start \in S,
                      \A k \in Moves : k[1] \in S => k[2] \in S
               PROVE  m[2] \in S
  BY <1>1 DEF Reachable
<1>3. m[1] \in S
  BY <1>2 DEF Reachable
<1> QED BY <1>2, <1>3

\* A reachable state is a state, and it can reach a terminal one.
LEMMA ReachableEnds == Reachable \subseteq States /\ Reachable \subseteq CanTerminate
BY DefinitionAssumption DEF ValidDefinition, Reachable

-----------------------------------------------------------------------------
(* The reducer.                                                            *)

\* The empty snapshot is good.
LEMMA GenesisGood == Genesis \in GoodSnapshots
<1>1. Genesis \in Snapshots
  BY StartReachable, ReachableEnds
  DEF Genesis, Snapshots, NodeStatus, Validity, Standing
<1>2. Good(Genesis)
  BY StartReachable DEF Genesis, Good
<1> QED BY <1>1, <1>2 DEF GoodSnapshots

\* Setting the version of a good snapshot gives a good snapshot.
LEMMA VersionGood ==
    ASSUME NEW s \in GoodSnapshots, NEW v \in Nat
    PROVE  [s EXCEPT !.version = v] \in GoodSnapshots
BY DEF GoodSnapshots, Good, Snapshots

\* A snapshot with the state and the edges of a good one, and with at least
\* its nodes, is good.
LEMMA SamePlanGood ==
    ASSUME NEW s \in GoodSnapshots, NEW t \in Snapshots,
           t.state = s.state, t.edges = s.edges,
           \A n \in Nodes : s.nodes[n] # "absent" => t.nodes[n] # "absent"
    PROVE  t \in GoodSnapshots
<1>1. \A d \in s.edges : d[1] \in Nodes /\ d[2] \in Nodes
  BY DEF GoodSnapshots, Snapshots
<1> QED BY <1>1 DEF GoodSnapshots, Good

\* What an event that applies makes of a good snapshot is good.
LEMMA ContentsGood ==
    ASSUME NEW s \in GoodSnapshots, NEW e \in Events, Applicable(s, e),
           e.kind = "transition" => s.state = e.from
    PROVE  Contents(s, e) \in GoodSnapshots
<1> USE DEF GoodSnapshots
<1>0. s \in Snapshots /\ Good(s)
  OBVIOUS
<1>1. CASE \E k \in {"metadata", "emit"} : e = Event(k)
  BY <1>1 DEF Event, Contents
<1>2. CASE \E m \in Moves : e = TransitionEvent(m[1], m[2])
  <2>1. PICK m \in Moves : e = TransitionEvent(m[1], m[2])
    BY <1>2
  <2>2. m[2] \in Reachable
    BY <2>1, <1>0, MovesReach DEF Good, TransitionEvent
  <2>3. Contents(s, e) = [s EXCEPT !.state = m[2]]
    BY <2>1 DEF Contents, TransitionEvent
  <2> QED BY <2>2, <2>3, <1>0, ReachableEnds DEF Good, Snapshots
<1>3. CASE \E F \in SUBSET Nodes : e = FrontierEvent(F)
  <2>1. PICK F \in SUBSET Nodes : e = FrontierEvent(F)
    BY <1>3
  <2>2. Contents(s, e) = [s EXCEPT !.frontier = F]
    BY <2>1 DEF Contents, FrontierEvent
  <2> QED BY <2>2, <1>0 DEF Good, Snapshots
<1>4. CASE \E F, V \in SUBSET Nodes : e = WorkListsEvent(F, V)
  <2>1. PICK F \in SUBSET Nodes, V \in SUBSET Nodes : e = WorkListsEvent(F, V)
    BY <1>4
  <2>2. Contents(s, e) = [s EXCEPT !.frontier = F, !.visited = V]
    BY <2>1 DEF Contents, WorkListsEvent
  <2> QED BY <2>2, <1>0 DEF Good, Snapshots
<1>5. CASE \E c \in GoodSnapshots : e = RestoreEvent(c)
  BY <1>5 DEF RestoreEvent, Contents
<1>6. CASE \E k \in NodeKinds, n \in Nodes : e = NodeEvent(k, n)
  <2>1. PICK n \in Nodes : \E k \in NodeKinds : e = NodeEvent(k, n)
    BY <1>6
  <2>2. CASE e.kind = "node_added"
    <3>1. Contents(s, e) = [s EXCEPT !.nodes[n] = "pending"]
      BY <2>1, <2>2 DEF Contents, NodeEvent
    <3>2. [s EXCEPT !.nodes[n] = "pending"] \in Snapshots
      BY <1>0 DEF Snapshots, NodeStatus
    <3>3. /\ [s EXCEPT !.nodes[n] = "pending"].state = s.state
          /\ [s EXCEPT !.nodes[n] = "pending"].edges = s.edges
          /\ \A x \in Nodes : s.nodes[x] # "absent"
                => [s EXCEPT !.nodes[n] = "pending"].nodes[x] # "absent"
      BY <1>0 DEF Snapshots
    <3> HIDE DEF GoodSnapshots
    <3> QED BY <3>1, <3>2, <3>3, SamePlanGood
  <2>3. CASE e.kind = "node_pruned"
    <3>1. Contents(s, e) = Prune(s, n)
      BY <2>1, <2>3 DEF Contents, NodeEvent
    <3>2. Prune(s, n) \in Snapshots
      BY <1>0 DEF Prune, Snapshots, NodeStatus
    <3>3. /\ Prune(s, n).state = s.state
          /\ Prune(s, n).edges = s.edges
          /\ \A x \in Nodes : Prune(s, n).nodes[x] = "absent" <=> s.nodes[x] = "absent"
      BY <1>0 DEF Prune, Snapshots, NodeStatus
    <3> HIDE DEF GoodSnapshots
    <3> QED BY <3>1, <3>2, <3>3, SamePlanGood
  <2> QED BY <2>1, <2>2, <2>3 DEF NodeEvent, NodeKinds
<1>7. CASE \E n \in Nodes, v \in {"pending", "complete"} : e = UpdateEvent(n, v)
  <2>1. PICK n \in Nodes, v \in {"pending", "complete"} : e = UpdateEvent(n, v)
    BY <1>7
  <2>2. Contents(s, e) = [s EXCEPT !.nodes[n] = v]
    BY <2>1 DEF Contents, UpdateEvent
  <2>3. [s EXCEPT !.nodes[n] = v] \in Snapshots
    BY <1>0 DEF Snapshots, NodeStatus
  <2>4. /\ [s EXCEPT !.nodes[n] = v].state = s.state
        /\ [s EXCEPT !.nodes[n] = v].edges = s.edges
        /\ \A x \in Nodes : s.nodes[x] # "absent"
              => [s EXCEPT !.nodes[n] = v].nodes[x] # "absent"
    BY <1>0 DEF Snapshots
  <2> HIDE DEF GoodSnapshots
  <2> QED BY <2>2, <2>3, <2>4, SamePlanGood
<1>8. CASE \E m, n \in Nodes : e = EdgeEvent(m, n)
  <2>1. PICK m \in Nodes, n \in Nodes : e = EdgeEvent(m, n)
    BY <1>8
  <2>2. Contents(s, e) = [s EXCEPT !.edges = @ \cup {<<m, n>>}]
    BY <2>1 DEF Contents, EdgeEvent
  <2>3. s.nodes[m] # "absent" /\ s.nodes[n] # "absent"
    BY <2>1 DEF Applicable, EdgeEvent
  <2>4. Contents(s, e) \in Snapshots
    <3>1. PICK D \in SUBSET (Nodes \X Nodes) : D = s.edges \cup {<<m, n>>}
      <4>1. s.edges \in SUBSET (Nodes \X Nodes)
        BY <1>0 DEF Snapshots
      <4>2. <<m, n>> \in Nodes \X Nodes
        OBVIOUS
      <4> QED BY <4>1, <4>2
    <3>2. Contents(s, e) = [s EXCEPT !.edges = D]
      BY <2>2, <3>1
    <3> QED BY <3>2, <1>0 DEF Snapshots
  <2>5. /\ Contents(s, e).state = s.state
        /\ Contents(s, e).nodes = s.nodes
        /\ Contents(s, e).edges = s.edges \cup {<<m, n>>}
    BY <2>2, <1>0 DEF Snapshots
  <2> QED BY <2>3, <2>4, <2>5, <1>0 DEF Good
<1>9. CASE \E k \in MemoKinds, x \in Keys : e = MemoEvent(k, x)
  <2>1. PICK k \in MemoKinds, x \in Keys : e = MemoEvent(k, x)
    BY <1>9
  <2>2. PICK v \in Validity : Contents(s, e) = [s EXCEPT !.memory[x] = v]
    BY <2>1 DEF Contents, MemoEvent, MemoKinds, Validity
  <2> DEFINE f == [s.memory EXCEPT ![x] = v]
  <2>3. s.memory \in [Keys -> Validity]
    BY <1>0 DEF Snapshots
  <2>4. f \in [Keys -> Validity]
    BY <2>3
  <2>5. Contents(s, e) = [s EXCEPT !.memory = f]
    BY <2>2
  <2> HIDE DEF f
  <2> QED BY <2>4, <2>5, <1>0 DEF Good, Snapshots
<1>10. CASE \E k \in FactKinds, f \in Facts : e = FactEvent(k, f)
  <2>1. PICK k \in FactKinds, f \in Facts : e = FactEvent(k, f)
    BY <1>10
  <2>2. s.facts[f] \in Seq(Standing)
    BY <1>0 DEF Snapshots
  <2>3. PICK q \in Seq(Standing) : Contents(s, e) = [s EXCEPT !.facts[f] = q]
    <3>1. CASE k = "fact_added"
      <4>1. Append(s.facts[f], "active") \in Seq(Standing)
        BY <2>2 DEF Standing
      <4>2. Contents(s, e) = [s EXCEPT !.facts[f] = Append(s.facts[f], "active")]
        BY <2>1, <3>1, <1>0 DEF Contents, FactEvent, Snapshots
      <4> QED BY <4>1, <4>2
    <3>2. CASE k = "fact_invalidated"
      <4>1. s.facts[f] # <<>>
        BY <2>1, <3>2 DEF Applicable, FactEvent
      <4>2. [s.facts[f] EXCEPT ![1] = "invalid"] \in Seq(Standing)
        BY <2>2, <4>1 DEF Standing
      <4>3. Contents(s, e)
              = [s EXCEPT !.facts[f] = [s.facts[f] EXCEPT ![1] = "invalid"]]
        BY <2>1, <3>2, <1>0 DEF Contents, FactEvent, Snapshots
      <4> QED BY <4>2, <4>3
    <3> QED BY <2>1, <3>1, <3>2 DEF FactKinds
  <2>4. [s EXCEPT !.facts[f] = q] \in Snapshots
    BY <1>0 DEF Snapshots
  <2>5. /\ [s EXCEPT !.facts[f] = q].state = s.state
        /\ [s EXCEPT !.facts[f] = q].edges = s.edges
        /\ [s EXCEPT !.facts[f] = q].nodes = s.nodes
    BY <1>0 DEF Snapshots
  <2> HIDE DEF GoodSnapshots
  <2> QED BY <2>3, <2>4, <2>5, SamePlanGood
<1>11. CASE \E f \in Facts, v \in Nat : e = GuardedFactEvent(f, v)
  <2>1. PICK f \in Facts, v \in Nat : e = GuardedFactEvent(f, v)
    BY <1>11
  <2>2. Append(s.facts[f], "active") \in Seq(Standing)
    BY <1>0 DEF Snapshots, Standing
  <2>3. Contents(s, e) = [s EXCEPT !.facts[f] = Append(s.facts[f], "active")]
    BY <2>1, <1>0 DEF Contents, GuardedFactEvent, Snapshots
  <2> DEFINE q == Append(s.facts[f], "active")
  <2>4. [s EXCEPT !.facts[f] = q] \in Snapshots
    BY <2>2, <1>0 DEF Snapshots
  <2>5. /\ [s EXCEPT !.facts[f] = q].state = s.state
        /\ [s EXCEPT !.facts[f] = q].edges = s.edges
        /\ [s EXCEPT !.facts[f] = q].nodes = s.nodes
    BY <1>0 DEF Snapshots
  <2> HIDE DEF GoodSnapshots
  <2> QED BY <2>3, <2>4, <2>5, SamePlanGood
<1> QED
  BY <1>1, <1>2, <1>3, <1>4, <1>5, <1>6, <1>7, <1>8, <1>9, <1>10, <1>11 DEF Events

\* The reducer returns a good snapshot, either the one it was given or one
\* with the next version.
LEMMA ReduceGood ==
    ASSUME NEW s \in GoodSnapshots, NEW e \in Events, Applicable(s, e),
           e.kind = "transition" => s.state = e.from
    PROVE  /\ Reduce(s, e) \in GoodSnapshots
           /\ Reduce(s, e) = s \/ Reduce(s, e).version = s.version + 1
<1>1. CASE e.kind \in Silent
  BY <1>1 DEF Reduce
<1>2. CASE e.kind \notin Silent
  <2>1. Contents(s, e) \in GoodSnapshots
    BY ContentsGood
  <2>2. s.version + 1 \in Nat
    BY DEF GoodSnapshots, Snapshots
  <2>3. Reduce(s, e) = [Contents(s, e) EXCEPT !.version = s.version + 1]
    BY <1>2 DEF Reduce, NextVersion
  <2>4. Reduce(s, e) \in GoodSnapshots
    BY <2>1, <2>2, <2>3, VersionGood
  <2>5. Reduce(s, e).version = s.version + 1
    BY <2>1, <2>3 DEF GoodSnapshots, Snapshots
  <2> QED BY <2>4, <2>5
<1> QED BY <1>1, <1>2

\* An event that is no restoration changes the state only along a move.
LEMMA ReduceMoves ==
    ASSUME NEW s \in GoodSnapshots, NEW e \in Events, Applicable(s, e),
           e.kind = "transition" => s.state = e.from,
           e.kind # "restore"
    PROVE  Reduce(s, e).state # s.state => <<s.state, Reduce(s, e).state>> \in Moves
<1>1. CASE e.kind = "transition"
  <2>1. PICK m \in Moves : e = TransitionEvent(m[1], m[2])
    BY <1>1 DEF Events, Event, FrontierEvent, WorkListsEvent, RestoreEvent, NodeEvent,
       UpdateEvent, EdgeEvent, MemoEvent, FactEvent, GuardedFactEvent,
       NodeKinds, MemoKinds, FactKinds
  <2>2. Contents(s, e).state = m[2] /\ s.state = m[1]
    BY <2>1 DEF Contents, TransitionEvent, GoodSnapshots, Snapshots
  <2>3. Contents(s, e) \in Snapshots
    BY ContentsGood DEF GoodSnapshots
  <2>4. Reduce(s, e).state = m[2]
    BY <2>2, <2>3, <1>1 DEF Reduce, Silent, Snapshots
  <2>5. m = <<m[1], m[2]>>
    BY DefinitionAssumption
  <2> QED BY <2>2, <2>4, <2>5
<1>2. CASE e.kind # "transition"
  <2>1. Contents(s, e).state = s.state
    BY <1>2 DEF Contents, Prune, GoodSnapshots, Snapshots
  <2>2. Contents(s, e) \in Snapshots
    BY ContentsGood DEF GoodSnapshots
  <2>3. Reduce(s, e).state = s.state
    BY <2>1, <2>2 DEF Reduce, Snapshots
  <2> QED BY <2>3
<1> QED BY <1>1, <1>2

-----------------------------------------------------------------------------
(* The steps.                                                              *)

\* What a step does to the state of the machine.
Follows ==
    canon'.state # canon.state =>
        \/ <<canon.state, canon'.state>> \in Moves
        \/ log'[Len(log')].kind = "restore"

\* The invariant holds of the empty machine.
LEMMA InitInv == Init => Inv
<1>1. SUFFICES ASSUME Init PROVE Inv
  OBVIOUS
<1>2. Genesis \in Snapshots /\ Genesis.version \in Nat
  BY GenesisGood DEF GoodSnapshots, Genesis
<1>3. Idle \in Rests /\ GoodRest(Idle)
  BY DEF Rests, Idle, GoodRest
<1> QED BY <1>1, <1>2, <1>3, GenesisGood DEF Init, Inv, TypeOK, NoHostAhead

\* A commit of a member of Events keeps the invariant and moves the machine
\* along its definition.
LEMMA CommitStep ==
    ASSUME Inv, NEW h \in Hosts, NEW e \in Events, NEW r, GoodRest(r),
           CommitThen(h, e, r), checkpoints' \subseteq GoodSnapshots
    PROVE  Inv' /\ Follows
<1> USE DEF Inv
<1>1. canon.version \in Nat
  BY DEF TypeOK, Snapshots
<1>2. \A g \in Hosts : mine[g].version \in Nat
  BY DEF TypeOK, Snapshots
<1>3. Idle \in Rests /\ GoodRest(Idle)
  BY DEF Rests, Idle, GoodRest
<1>4. checkpoints' \subseteq Snapshots
  BY DEF GoodSnapshots
<1>5. CASE Accepts(e)
  <2>1. Applicable(canon, e) /\ (e.kind = "transition" => canon.state = e.from)
    BY <1>5 DEF Accepts
  <2>2. /\ log' = Append(log, e)
        /\ canon' = Reduce(canon, e)
        /\ mine' = [mine EXCEPT ![h] = canon']
        /\ rest' = [rest EXCEPT ![h] = r]
    BY <1>5 DEF CommitThen, Materialized
  <2>3. canon' \in GoodSnapshots
    BY <2>1, <2>2, ReduceGood
  <2>4. canon' = canon \/ canon'.version = canon.version + 1
    BY <2>1, <2>2, ReduceGood
  <2>5. TypeOK'
    BY <1>4, <2>2, <2>3 DEF TypeOK, GoodSnapshots, GoodRest
  <2>6. log' \in Seq(Events)
    BY <2>2
  <2>7. \A g \in Hosts : mine'[g] \in GoodSnapshots /\ GoodRest(rest'[g])
    BY <2>2, <2>3 DEF TypeOK
  <2>8. NoHostAhead'
    <3>1. SUFFICES ASSUME NEW g \in Hosts
                   PROVE  /\ mine'[g].version <= canon'.version
                          /\ mine'[g].version = canon'.version => mine'[g] = canon'
      BY DEF NoHostAhead
    <3>2. canon'.version \in Nat
      BY <2>3 DEF GoodSnapshots, Snapshots
    <3>3. CASE g = h
      BY <2>2, <3>2, <3>3 DEF TypeOK
    <3>4. CASE g # h
      <4>1. mine'[g] = mine[g]
        BY <2>2, <3>4 DEF TypeOK
      <4>2. /\ mine[g].version <= canon.version
            /\ mine[g].version = canon.version => mine[g] = canon
        BY DEF NoHostAhead
      <4> QED BY <4>1, <4>2, <2>4, <1>1, <1>2
    <3> QED BY <3>3, <3>4
  <2>9. Follows
    <3>1. log'[Len(log')] = e
      BY <2>2
    <3>2. CASE e.kind = "restore"
      BY <3>1, <3>2 DEF Follows
    <3>3. CASE e.kind # "restore"
      BY <2>1, <2>2, <3>3, ReduceMoves DEF Follows
    <3> QED BY <3>2, <3>3
  <2> QED BY <2>3, <2>5, <2>6, <2>7, <2>8, <2>9
<1>6. CASE ~Accepts(e)
  <2>1. /\ mine' = [mine EXCEPT ![h] = canon]
        /\ rest' = [rest EXCEPT ![h] = Idle]
        /\ UNCHANGED <<log, canon>>
    BY <1>6 DEF CommitThen
  <2>2. TypeOK'
    BY <1>3, <1>4, <2>1 DEF TypeOK
  <2>3. \A g \in Hosts : mine'[g] \in GoodSnapshots /\ GoodRest(rest'[g])
    BY <1>3, <2>1 DEF TypeOK
  <2>4. NoHostAhead'
    BY <1>1, <2>1 DEF NoHostAhead, TypeOK
  <2> QED BY <2>1, <2>2, <2>3, <2>4 DEF Follows
<1> QED BY <1>5, <1>6

\* A host that reloads the snapshot of the store keeps the invariant.
LEMMA ReloadStep ==
    ASSUME Inv, NEW h \in Hosts, NEW r, GoodRest(r),
           mine' = [mine EXCEPT ![h] = canon], rest' = [rest EXCEPT ![h] = r],
           UNCHANGED <<log, canon, checkpoints>>
    PROVE  Inv' /\ Follows
<1> USE DEF Inv
<1>1. TypeOK'
  BY DEF TypeOK, GoodRest
<1>2. \A g \in Hosts : mine'[g] \in GoodSnapshots /\ GoodRest(rest'[g])
  BY DEF TypeOK
<1>3. NoHostAhead'
  <2>1. canon.version \in Nat
    BY DEF TypeOK, Snapshots
  <2> QED BY <2>1 DEF NoHostAhead, TypeOK
<1> QED BY <1>1, <1>2, <1>3 DEF Follows

\* What is idle is good.
LEMMA IdleGood == GoodRest(Idle)
BY DEF Rests, Idle, GoodRest

\* So does a step of a handler that commits nothing.
LEMMA RestStep ==
    ASSUME Inv, NEW h \in Hosts, NEW r, GoodRest(r),
           rest' = [rest EXCEPT ![h] = r], UNCHANGED <<log, canon, mine>>,
           checkpoints' \subseteq GoodSnapshots
    PROVE  Inv' /\ Follows
<1>1. TypeOK'
  BY DEF Inv, TypeOK, GoodRest, GoodSnapshots
<1>2. \A g \in Hosts : GoodRest(rest'[g])
  BY DEF Inv, TypeOK
<1> QED BY <1>1, <1>2 DEF Inv, NoHostAhead, Follows

\* An operation of one commit: what CommitStep says of it.
LEMMA OneCommit ==
    ASSUME Inv, NEW h \in Hosts, NEW e \in Events, Commit(h, e)
    PROVE  Inv' /\ Follows
<1>1. checkpoints' \subseteq GoodSnapshots
  BY DEF Commit, Inv
<1>2. CommitThen(h, e, Idle)
  BY DEF Commit
<1> QED BY <1>1, <1>2, IdleGood, CommitStep

\* Every step of a host keeps the invariant.
LEMMA OperationStep ==
    ASSUME Inv, NEW h \in Hosts, Operation(h)
    PROVE  Inv' /\ Follows
<1> USE DEF Events
<1>0. GoodRest(Idle) /\ rest[h] \in Rests /\ GoodRest(rest[h])
  BY IdleGood DEF Inv, TypeOK
<1>1. CASE Transition(h)
  <2>1. PICK t \in Targets(h) : Commit(h, TransitionEvent(mine[h].state, t))
    BY <1>1 DEF Transition
  <2>2. <<mine[h].state, t>> \in Moves
    BY DEF Targets, Allowed
  <2>3. TransitionEvent(mine[h].state, t) \in Events
    BY <2>2
  <2> HIDE DEF Events
  <2> QED BY <2>1, <2>3, OneCommit
<1>2. CASE PatchMetadata(h)
  <2>1. Event("metadata") \in Events
    OBVIOUS
  <2> HIDE DEF Events
  <2> QED BY <1>2, <2>1, OneCommit DEF PatchMetadata
<1>3. CASE Emit(h)
  <2>1. Event("emit") \in Events
    OBVIOUS
  <2> HIDE DEF Events
  <2> QED BY <1>3, <2>1, OneCommit DEF Emit
<1>4. CASE Checkpoint(h)
  <2>1. /\ rest' = [rest EXCEPT ![h] = Saved] /\ UNCHANGED <<log, canon, mine>>
        /\ checkpoints' \subseteq GoodSnapshots
    BY <1>4 DEF Checkpoint, Inv
  <2>2. GoodRest(Saved)
    BY DEF GoodRest, Rests, Saved
  <2> HIDE DEF Events
  <2> QED BY <2>1, <2>2, RestStep
<1>18. CASE FinishCheckpoint(h)
  <2>1. Event("emit") \in Events
    OBVIOUS
  <2> HIDE DEF Events
  <2>2. checkpoints' \subseteq GoodSnapshots /\ CommitThen(h, Event("emit"), Idle)
    BY <1>18 DEF FinishCheckpoint, Inv
  <2> QED BY <1>0, <2>1, <2>2, CommitStep
<1>5. CASE Backtrack(h)
  <2>1. PICK s \in checkpoints :
          IF mine[h].state = BackTrack
          THEN CommitThen(h, RestoreEvent(s), Idle)
          ELSE /\ BackTrack \in Targets(h)
               /\ CommitThen(h, TransitionEvent(mine[h].state, BackTrack),
                             [kind |-> "restore", snapshot |-> s])
    BY <1>5 DEF Backtrack
  <2>2. s \in GoodSnapshots /\ checkpoints' \subseteq GoodSnapshots
    BY <1>5 DEF Backtrack, Inv
  <2>3. CASE mine[h].state = BackTrack
    <3>1. RestoreEvent(s) \in Events
      BY <2>2
    <3> HIDE DEF Events
    <3> QED BY <1>0, <2>1, <2>2, <2>3, <3>1, CommitStep
  <2>4. CASE mine[h].state # BackTrack
    <3>1. <<mine[h].state, BackTrack>> \in Moves
      BY <2>1, <2>4 DEF Targets, Allowed
    <3>2. TransitionEvent(mine[h].state, BackTrack) \in Events
      BY <3>1
    <3>3. GoodRest([kind |-> "restore", snapshot |-> s])
      BY <2>2 DEF GoodRest, Rests, GoodSnapshots
    <3> HIDE DEF Events
    <3> QED BY <2>1, <2>2, <2>4, <3>2, <3>3, CommitStep
  <2> QED BY <2>3, <2>4
<1>6. CASE FinishBacktrack(h)
  <2>1. rest[h].snapshot \in GoodSnapshots
    BY <1>0, <1>6 DEF FinishBacktrack, GoodRest, Rests, Idle, Saved, GoodSnapshots
  <2>2. RestoreEvent(rest[h].snapshot) \in Events
    BY <2>1
  <2>3. checkpoints' \subseteq GoodSnapshots
    BY <1>6 DEF FinishBacktrack, Inv
  <2> HIDE DEF Events
  <2> QED BY <1>0, <1>6, <2>2, <2>3, CommitStep DEF FinishBacktrack
<1>7. CASE PlanAddNode(h)
  <2>0. PICK n \in Nodes : \E r \in {Idle, [kind |-> "frontier", node |-> n]} :
          CommitThen(h, NodeEvent("node_added", n), r)
    BY <1>7 DEF PlanAddNode
  <2>1. PICK r \in {Idle, [kind |-> "frontier", node |-> n]} :
          CommitThen(h, NodeEvent("node_added", n), r)
    BY <2>0
  <2>2. NodeEvent("node_added", n) \in Events
    BY DEF NodeKinds
  <2>3. GoodRest(r)
    BY <1>0 DEF GoodRest, Rests
  <2>4. checkpoints' \subseteq GoodSnapshots
    BY <1>7 DEF PlanAddNode, Inv
  <2> HIDE DEF Events
  <2> QED BY <2>1, <2>2, <2>3, <2>4, CommitStep
<1>8. CASE FinishAddNode(h)
  <2>1. rest[h].node \in Nodes
    BY <1>0, <1>8 DEF FinishAddNode, Rests, Idle, Saved
  <2>2. mine[h].frontier \cup {rest[h].node} \in SUBSET Nodes
    BY <2>1 DEF Inv, TypeOK, Snapshots
  <2>3. FrontierEvent(mine[h].frontier \cup {rest[h].node}) \in Events
    BY <2>2
  <2>4. checkpoints' \subseteq GoodSnapshots
    BY <1>8 DEF FinishAddNode, Inv
  <2> HIDE DEF Events
  <2> QED BY <1>0, <1>8, <2>3, <2>4, CommitStep, RestStep DEF FinishAddNode
<1>9. CASE PlanAddEdge(h)
  <2>1. PICK m \in Nodes, n \in Nodes : Commit(h, EdgeEvent(m, n))
    BY <1>9 DEF PlanAddEdge
  <2>2. EdgeEvent(m, n) \in Events
    OBVIOUS
  <2> HIDE DEF Events
  <2> QED BY <2>1, <2>2, OneCommit
<1>10. CASE PlanUpdateNode(h)
  <2>1. PICK n \in Nodes, v \in {"pending", "complete"} : Commit(h, UpdateEvent(n, v))
    BY <1>10 DEF PlanUpdateNode
  <2>2. UpdateEvent(n, v) \in Events
    OBVIOUS
  <2> HIDE DEF Events
  <2> QED BY <2>1, <2>2, OneCommit
<1>11. CASE PlanMarkVisited(h)
  <2>1. PICK n \in Nodes :
          Commit(h, WorkListsEvent(mine[h].frontier \ {n}, mine[h].visited \cup {n}))
    BY <1>11 DEF PlanMarkVisited
  <2>2. mine[h].frontier \ {n} \in SUBSET Nodes /\ mine[h].visited \cup {n} \in SUBSET Nodes
    BY DEF Inv, TypeOK, Snapshots
  <2>3. WorkListsEvent(mine[h].frontier \ {n}, mine[h].visited \cup {n}) \in Events
    BY <2>2
  <2> HIDE DEF Events
  <2> QED BY <2>1, <2>3, OneCommit
<1>12. CASE PlanPruneNode(h)
  <2>1. PICK n \in Nodes : Commit(h, NodeEvent("node_pruned", n))
    BY <1>12 DEF PlanPruneNode
  <2>2. NodeEvent("node_pruned", n) \in Events
    BY DEF NodeKinds
  <2> HIDE DEF Events
  <2> QED BY <2>1, <2>2, OneCommit
<1>13. CASE MemoPut(h) \/ MemoInvalidate(h)
  <2>1. PICK k \in MemoKinds, x \in Keys : Commit(h, MemoEvent(k, x))
    BY <1>13 DEF MemoPut, MemoInvalidate, MemoKinds
  <2>2. MemoEvent(k, x) \in Events
    OBVIOUS
  <2> HIDE DEF Events
  <2> QED BY <2>1, <2>2, OneCommit
<1>14. CASE AddEvidence(h)
  <2>1. PICK f \in Facts : rest' = [rest EXCEPT ![h] = [kind |-> "fact", fact |-> f]]
    BY <1>14 DEF AddEvidence
  <2>2. GoodRest([kind |-> "fact", fact |-> f])
    BY DEF GoodRest, Rests
  <2> QED BY <1>14, <2>1, <2>2, ReloadStep DEF AddEvidence
<1>15. CASE FinishAddEvidence(h)
  <2>1. rest[h].fact \in Facts
    BY <1>0, <1>15 DEF FinishAddEvidence, Rests, Idle, Saved
  <2>2. CASE mine[h].facts[rest[h].fact] = <<>>
    <3>1. FactEvent("fact_added", rest[h].fact) \in Events
      BY <2>1 DEF FactKinds
    <3>2. checkpoints' \subseteq GoodSnapshots
      BY <1>15 DEF FinishAddEvidence, Inv
    <3> HIDE DEF Events
    <3> QED BY <1>0, <1>15, <2>2, <3>1, <3>2, CommitStep DEF FinishAddEvidence
  <2>3. CASE mine[h].facts[rest[h].fact] # <<>>
    <3> HIDE DEF Events
    <3>1. /\ rest' = [rest EXCEPT ![h] = Idle] /\ UNCHANGED <<log, canon, mine>>
          /\ checkpoints' \subseteq GoodSnapshots
      BY <1>15, <2>3 DEF FinishAddEvidence, Inv
    <3> QED BY <1>0, <3>1, RestStep
  <2> QED BY <2>2, <2>3
<1>16. CASE AddEvidenceGuarded(h)
  <2>1. PICK f \in Facts : Commit(h, GuardedFactEvent(f, mine[h].version))
    BY <1>16 DEF AddEvidenceGuarded
  <2>2. GuardedFactEvent(f, mine[h].version) \in Events
    BY DEF Inv, TypeOK, Snapshots
  <2> HIDE DEF Events
  <2> QED BY <2>1, <2>2, OneCommit
<1>17. CASE InvalidateEvidence(h)
  <2>1. PICK f \in Facts : Commit(h, FactEvent("fact_invalidated", f))
    BY <1>17 DEF InvalidateEvidence
  <2>2. FactEvent("fact_invalidated", f) \in Events
    BY DEF FactKinds
  <2> HIDE DEF Events
  <2> QED BY <2>1, <2>2, OneCommit
<1> HIDE DEF Events
<1> QED
  BY <1>1, <1>2, <1>3, <1>4, <1>5, <1>6, <1>7, <1>8, <1>9, <1>10, <1>11, <1>12,
     <1>13, <1>14, <1>15, <1>16, <1>17, <1>18 DEF Operation

\* Every step keeps the invariant and follows the definition.
LEMMA NextStep == Inv /\ [Next]_vars => Inv' /\ [Follows]_vars
<1>1. SUFFICES ASSUME Inv, [Next]_vars PROVE Inv' /\ [Follows]_vars
  OBVIOUS
<1>2. ASSUME NEW h \in Hosts, Operation(h) PROVE Inv' /\ Follows
  BY <1>1, <1>2, OperationStep
<1>3. ASSUME NEW h \in Hosts, Resume(h) PROVE Inv' /\ Follows
  BY <1>1, <1>3, IdleGood, ReloadStep DEF Resume
<1>4. CASE UNCHANGED vars
  BY <1>1, <1>4 DEF vars, Inv, TypeOK, NoHostAhead
<1> QED BY <1>1, <1>2, <1>3, <1>4 DEF Next

\* The invariant always holds.
LEMMA InvAlways == Spec => []Inv
BY InitInv, NextStep, PTL DEF Spec

-----------------------------------------------------------------------------
(* The theorems.                                                           *)

\* The store, the hosts, the checkpoints and the handlers in progress hold
\* snapshots of the right form, whatever the order of the commits.
THEOREM MachineTypeOK == Spec => []TypeOK
<1>1. Inv => TypeOK
  BY DEF Inv
<1> QED BY <1>1, InvAlways, PTL

\* A host whose version is the one of the store has the snapshot of the store,
\* for any number of hosts: what the guarded append relies on.
THEOREM VersionsTell == Spec => []VersionIdentifiesSnapshot
<1>1. Inv => VersionIdentifiesSnapshot
  BY DEF Inv, NoHostAhead, VersionIdentifiesSnapshot
<1> QED BY <1>1, InvAlways, PTL

\* No edge of the plan dangles, for any plan.
THEOREM PlanIsClosed == Spec => []EdgesHaveEndpoints
<1>1. Inv => EdgesHaveEndpoints
  BY DEF Inv, GoodSnapshots, Good, EdgesHaveEndpoints
<1> QED BY <1>1, InvAlways, PTL

\* A definition that passes check_machine gives a machine that can always
\* still terminate, through any moves and restored checkpoints.
THEOREM NeverTrapped == Spec => []TerminationStaysPossible
<1>1. Inv => TerminationStaysPossible
  BY ReachableEnds DEF Inv, GoodSnapshots, Good, TerminationStaysPossible
<1> QED BY <1>1, InvAlways, PTL

\* The machine moves along its definition: of the hosts that leave a state at
\* the same time only one succeeds.
THEOREM MachineFollowsDefinition == Spec => StateFollowsDefinition
<1>1. [Follows]_vars => [canon'.state # canon.state =>
        \/ <<canon.state, canon'.state>> \in Moves
        \/ log'[Len(log')].kind = "restore"]_vars
  BY DEF Follows
<1> QED BY <1>1, NextStep, InvAlways, PTL DEF Spec, StateFollowsDefinition

-----------------------------------------------------------------------------
(* Replay.  Induction over the log in the form the provers can use: a       *)
(* nonempty set of naturals has a least element, and the snapshots after    *)
(* each event, given as one function, grow by one with each commit.         *)

\* A nonempty set of naturals has a least element.
LEMMA LeastElement ==
    ASSUME NEW T \in SUBSET Nat, T # {}
    PROVE  \E x \in T : \A y \in T : x <= y
<1> DEFINE R == {p \in Nat \X Nat : p[1] < p[2]}
<1>1. IsWellFoundedOn(R, Nat)
  BY NatLessThanWellFounded, Zenon DEF OpToRel
<1>2. \A x, y \in Nat : y < x => <<y, x>> \in R
  OBVIOUS
<1> HIDE DEF R
<1>3. PICK x \in T : \A y \in T : <<y, x>> \notin R
  BY <1>1, WFMin
<1>4. \A y \in T : ~(y < x)
  BY <1>2, <1>3
<1> QED BY <1>4

\* Function f gives the snapshots after the first events of log l.
Runs(f, l) ==
    f = [i \in 0 .. Len(l) |-> IF i = 0 THEN Genesis ELSE Reduce(f[i - 1], l[i])]

\* The log determines them.
LEMMA RunIsUnique ==
    ASSUME NEW E, NEW l \in Seq(E), NEW f, Runs(f, l), NEW g, Runs(g, l)
    PROVE  f = g
<1> DEFINE n == Len(l)
           T == {i \in 0 .. n : f[i] # g[i]}
<1>1. n \in Nat
  OBVIOUS
<1>2. /\ f = [i \in 0 .. n |-> IF i = 0 THEN Genesis ELSE Reduce(f[i - 1], l[i])]
      /\ g = [i \in 0 .. n |-> IF i = 0 THEN Genesis ELSE Reduce(g[i - 1], l[i])]
  BY DEF Runs
<1> HIDE DEF n
<1>3. /\ \A i \in 0 .. n : f[i] = IF i = 0 THEN Genesis ELSE Reduce(f[i - 1], l[i])
      /\ \A i \in 0 .. n : g[i] = IF i = 0 THEN Genesis ELSE Reduce(g[i - 1], l[i])
      /\ DOMAIN f = 0 .. n /\ DOMAIN g = 0 .. n
  BY ONLY <1>2, Zenon
<1>4. T = {}
  <2> SUFFICES ASSUME T # {} PROVE FALSE
    OBVIOUS
  <2>1. T \subseteq Nat
    BY <1>1
  <2>2. PICK x \in T : \A y \in T : x <= y
    BY <2>1, LeastElement
  <2>3. x \in 0 .. n /\ f[x] # g[x]
    BY <2>2
  <2>4. x # 0
    BY <1>3, <2>3
  <2>5. x - 1 \in 0 .. n /\ ~(x <= x - 1)
    BY <1>1, <2>3, <2>4
  <2>6. f[x - 1] = g[x - 1]
    BY <2>2, <2>5
  <2> QED BY <1>3, <2>3, <2>4, <2>6
<1>5. \A i \in 0 .. n : f[i] = g[i]
  BY <1>4
<1> QED BY <1>2, <1>3, <1>5

\* So the recursive function of Replay is any function that satisfies its
\* equation.
LEMMA ReplayOfRun ==
    ASSUME NEW E, log \in Seq(E), NEW f, Runs(f, log)
    PROVE  Replay(Len(log)) = f[Len(log)]
<1> DEFINE after == CHOOSE g : Runs(g, log)
<1>1. Runs(after, log)
  OBVIOUS
<1>2. after = f
  BY <1>1, RunIsUnique
<1>3. Replay(Len(log)) = after[Len(log)]
  BY DEF Replay, Runs
<1> QED BY <1>2, <1>3

\* A step leaves the log and the snapshot of the store alone, or appends an
\* event and reduces it on that snapshot.
Appends(e) == log' = Append(log, e) /\ canon' = Reduce(canon, e)

LEMMA StepAppends ==
    ASSUME [Next]_vars
    PROVE  UNCHANGED <<log, canon>> \/ \E e : Appends(e)
<1>1. ASSUME NEW h, NEW e, NEW r, CommitThen(h, e, r)
      PROVE  UNCHANGED <<log, canon>> \/ \E d : Appends(d)
  BY <1>1 DEF CommitThen, Appends, Materialized
<1>2. ASSUME NEW h, NEW e, Commit(h, e)
      PROVE  UNCHANGED <<log, canon>> \/ \E d : Appends(d)
  BY <1>1, <1>2 DEF Commit
<1>3. ASSUME NEW h \in Hosts, Operation(h)
      PROVE  UNCHANGED <<log, canon>> \/ \E d : Appends(d)
  <2> HIDE DEF Commit, CommitThen
  <2>1. \/ \E e : Commit(h, e)
        \/ \E e, r : CommitThen(h, e, r)
        \/ UNCHANGED <<log, canon>>
    BY <1>3 DEF Operation, Transition, PatchMetadata, Emit, Checkpoint,
                FinishCheckpoint, Backtrack, FinishBacktrack, PlanAddNode,
                FinishAddNode, PlanAddEdge,
                PlanUpdateNode, PlanMarkVisited, PlanPruneNode, MemoPut,
                MemoInvalidate, AddEvidence, FinishAddEvidence,
                AddEvidenceGuarded, InvalidateEvidence
  <2> QED BY <1>1, <1>2, <2>1
<1> QED BY <1>3 DEF Next, Resume, vars

Replayed == \E f : Runs(f, log) /\ f[Len(log)] = canon

LEMMA ReplayedAppend ==
    ASSUME NEW E, log \in Seq(E), log' \in Seq(E), Replayed, NEW e, Appends(e)
    PROVE  Replayed'
<1> DEFINE n == Len(log)
<1>1. PICK f : Runs(f, log) /\ f[n] = canon
  BY DEF Replayed
<1>2. /\ n \in Nat /\ Len(log') = n + 1 /\ log'[n + 1] = e
      /\ \A i \in 1 .. n : log'[i] = log[i]
  <2>1. log' = Append(log, e) /\ e \in E
    <3>1. log' = Append(log, e)
      BY DEF Appends
    <3>2. log'[Len(log')] \in E /\ Len(log') = n + 1
      BY <3>1
    <3> QED BY <3>1, <3>2
  <2> QED BY <2>1
<1> DEFINE g == [i \in 0 .. n + 1 |-> IF i = n + 1 THEN canon' ELSE f[i]]
<1> HIDE DEF n
<1>3. \A i \in 0 .. n : f[i] = IF i = 0 THEN Genesis ELSE Reduce(f[i - 1], log[i])
  <2>1. f = [i \in 0 .. n |-> IF i = 0 THEN Genesis ELSE Reduce(f[i - 1], log[i])]
    BY <1>1 DEF Runs, n
  <2> QED BY ONLY <2>1, Zenon
<1>4. ASSUME NEW i \in 0 .. n + 1
      PROVE  g[i] = IF i = 0 THEN Genesis ELSE Reduce(g[i - 1], log'[i])
  <2>1. CASE i = n + 1
    <3>1. g[i] = Reduce(canon, e) /\ i # 0
      BY <1>2, <2>1 DEF Appends
    <3>2. i - 1 = n /\ g[n] = f[n]
      BY <1>2, <2>1
    <3>3. log'[i] = e /\ g[i - 1] = canon
      BY <1>1, <1>2, <2>1, <3>2 DEF n
    <3> QED BY <3>1, <3>3
  <2>2. CASE i = 0
    <3>1. g[0] = f[0] /\ 0 \in 0 .. n
      BY <1>2
    <3> QED BY <1>3, <2>2, <3>1
  <2>3. CASE i \in 1 .. n
    <3>1. g[i] = f[i] /\ g[i - 1] = f[i - 1] /\ i # 0 /\ i \in 0 .. n
      BY <1>2, <2>3
    <3> QED BY <1>2, <1>3, <2>3, <3>1
  <2> QED BY <1>2, <2>1, <2>2, <2>3
<1>5. g[n + 1] = canon' /\ DOMAIN g = 0 .. n + 1
  BY <1>2
<1>6. g = [i \in 0 .. n + 1 |-> g[i]]
  OBVIOUS
<1> HIDE DEF g
<1>7. g = [i \in 0 .. n + 1 |-> IF i = 0 THEN Genesis ELSE Reduce(g[i - 1], log'[i])]
  BY <1>4, <1>6, Zenon
<1>8. Runs(g, log')
  BY <1>2, <1>7 DEF Runs
<1> QED BY <1>2, <1>5, <1>8 DEF Replayed

\* Replaying the log from its first event gives the snapshot of the store, for
\* any number of hosts and events: append reduces on the canonical snapshot,
\* and the hosts that commit have no say in it (reduce_event, replay_events).
THEOREM ReplayRebuilds == Spec => []ReplayIsSnapshot
<1>1. Init => Replayed
  <2> SUFFICES ASSUME Init PROVE Replayed
    OBVIOUS
  <2> DEFINE f == [i \in 0 .. 0 |-> Genesis]
  <2>1. log = <<>> /\ canon = Genesis /\ Len(log) = 0
    BY DEF Init
  <2>2. f = [i \in 0 .. 0 |-> IF i = 0 THEN Genesis ELSE Reduce(f[i - 1], log[i])]
    OBVIOUS
  <2>3. f[0] = Genesis
    OBVIOUS
  <2> HIDE DEF f
  <2> QED BY <2>1, <2>2, <2>3 DEF Replayed, Runs
<1>2. Replayed /\ Inv /\ Inv' /\ [Next]_vars => Replayed'
  <2> SUFFICES ASSUME Replayed, Inv, Inv', [Next]_vars PROVE Replayed'
    OBVIOUS
  <2>1. log \in Seq(Events) /\ log' \in Seq(Events)
    BY DEF Inv
  <2>2. CASE UNCHANGED <<log, canon>>
    BY <2>2 DEF Replayed, Runs
  <2>3. CASE \E e : Appends(e)
    BY <2>1, <2>3, ReplayedAppend
  <2> QED BY <2>2, <2>3, StepAppends
<1>3. Replayed /\ Inv => ReplayIsSnapshot
  BY ReplayOfRun DEF Replayed, Inv, ReplayIsSnapshot
<1> QED BY <1>1, <1>2, <1>3, InvAlways, PTL DEF Spec
=============================================================================
