------------------------ MODULE MissionControlProofs ------------------------
(***************************************************************************)
(* What the mission controls keep for every number of hosts, operators,    *)
(* tasks, leases and impact checkpoints: the types, the order of the plan, *)
(* and, with one operator at a time, that a suspension and a change stop   *)
(* the work.  The order is inductive together with what a claim knows of   *)
(* its own lease after each of its checks; the stops are together with     *)
(* what the operator's copy, which it writes back, has of the store.       *)
(***************************************************************************)
EXTENDS MissionControl, TLAPS

\* What the locals of a request hold at each of its steps.
Local ==
    /\ \A p \in Threads :
          at[p] \in {"claim", "note", "paused!", "requires!", "mission!"}
              => call[p].lease \in Leases
    /\ \A c \in Threads :
          at[c] = "patch" =>
              /\ call[c].op \in {"pause", "resume", "analyze", "resolve"}
              /\ call[c].op \in {"analyze", "resolve"} => call[c].impact \in Impacts

\* A claim whose task is not blocked now has noticed so, and a claim that is
\* past the check of the predecessors has noticed it before.
Noticed(p) ==
    /\ Claiming(p) /\ Unblocked(canon, call[p].task) => call[p].lease \in cleared
    /\ at[p] = "mission!" => call[p].lease \in cleared

Order == OrderIsKept /\ \A p \in Hosts : Noticed(p)

Inv == TypeOK /\ Local /\ Order

-----------------------------------------------------------------------------
(* Types.                                                                  *)

\* The number of an attempt is a number.
LEMMA AttemptType ==
    ASSUME NEW m \in Machines, NEW t PROVE NextAttempt(m, t) \subseteq Nat
<1>1. \A l \in Leases : m.leases[l].attempt \in Nat
  BY DEF Machines
<1> QED BY <1>1 DEF NextAttempt

\* A snapshot with other paused tasks and another checkpoint is a snapshot.
ImpactRecords == [status : {"NONE", "OPEN", "PARTIAL", "RESOLVED"},
                  remaining : SUBSET Tasks]

Checkpointed(m, i, P, r) == [m EXCEPT !.paused = P, !.impacts[i] = r]

LEMMA CheckpointType ==
    ASSUME NEW m \in Machines, NEW i \in Impacts,
           NEW P \in SUBSET Tasks, NEW r \in ImpactRecords
    PROVE  Checkpointed(m, i, P, r) \in Machines
<1> DEFINE f == [m.impacts EXCEPT ![i] = r]
           n == [m EXCEPT !.paused = P]
<1>1. f \in [Impacts -> ImpactRecords]
  BY DEF Machines, ImpactRecords
<1>2. n \in Machines /\ n.impacts = m.impacts
  BY DEF Machines
<1>3. \A g \in [Impacts -> ImpactRecords] : [n EXCEPT !.impacts = g] \in Machines
  BY <1>2 DEF Machines, ImpactRecords
<1>4. Checkpointed(m, i, P, r) = [n EXCEPT !.impacts = f]
  <2>1. Checkpointed(m, i, P, r) = [n EXCEPT !.impacts[i] = r]
    BY DEF Checkpointed
  <2>2. [n EXCEPT !.impacts[i] = r] = [n EXCEPT !.impacts = [n.impacts EXCEPT ![i] = r]]
    OBVIOUS
  <2> QED BY <1>2, <2>1, <2>2
<1> HIDE DEF f, n
<1> QED BY <1>1, <1>3, <1>4

\* What a control operation makes of a snapshot is a snapshot.
LEMMA DecidedType ==
    ASSUME NEW m \in Machines, NEW c \in Calls,
           c.op \in {"pause", "resume", "analyze", "resolve"},
           c.op \in {"analyze", "resolve"} => c.impact \in Impacts
    PROVE  Decided(m, c) \in Machines
<1>0. c.region \in SUBSET Tasks /\ m.paused \in SUBSET Tasks
  BY DEF Machines, Calls
<1>1. CASE c.op \in {"pause", "resume"}
  BY <1>1 DEF Decided, Machines, Calls
<1>2. CASE c.op = "analyze"
  <2> DEFINE P == m.paused \cup c.region
             r == [status |-> "OPEN", remaining |-> c.region]
  <2>1. Decided(m, c) = Checkpointed(m, c.impact, P, r)
    BY <1>2 DEF Decided, Checkpointed
  <2>2. P \in SUBSET Tasks /\ r \in ImpactRecords
    BY <1>0 DEF ImpactRecords
  <2>3. c.impact \in Impacts
    BY <1>2
  <2> HIDE DEF P, r
  <2> QED BY <2>1, <2>2, <2>3, CheckpointType
<1>3. CASE c.op = "resolve"
  <2> DEFINE rest == m.impacts[c.impact].remaining \ c.region
             P == (m.paused \ c.region) \cup rest
             r == [status |-> IF rest = {} THEN "RESOLVED" ELSE "PARTIAL",
                   remaining |-> rest]
  <2>1. Decided(m, c) = Checkpointed(m, c.impact, P, r)
    BY <1>3 DEF Decided, Checkpointed
  <2>2. rest \in SUBSET Tasks
    BY <1>3 DEF Machines
  <2>3. P \in SUBSET Tasks /\ r \in ImpactRecords
    <3> HIDE DEF rest
    <3> QED BY <1>0, <2>2 DEF ImpactRecords
  <2>4. c.impact \in Impacts
    BY <1>3
  <2> HIDE DEF P, r
  <2> QED BY <2>1, <2>3, <2>4, CheckpointType
<1> QED BY <1>1, <1>2, <1>3

\* A snapshot stays one when plan nodes or one lease are replaced.
NodeStates == [Tasks -> {"ready", "leased", "complete"}]

LeaseRecords == [status : {"NONE", "ACTIVE", "COMPLETED", "RELEASED"},
                 task : Tasks \cup {Nothing}, attempt : Nat]

LEMMA NodesType ==
    ASSUME NEW m \in Machines, NEW n \in NodeStates
    PROVE  [m EXCEPT !.nodes = n] \in Machines
BY DEF Machines, NodeStates

LEMMA LeasesType ==
    ASSUME NEW m \in Machines, NEW f \in [Leases -> LeaseRecords]
    PROVE  [m EXCEPT !.leases = f] \in Machines
BY DEF Machines, LeaseRecords

LEMMA NodeType ==
    ASSUME NEW m \in Machines, NEW t, NEW s \in {"ready", "leased", "complete"}
    PROVE  [m EXCEPT !.nodes[t] = s] \in Machines
<1>1. m.nodes \in NodeStates
  BY DEF Machines, NodeStates
<1>2. [m.nodes EXCEPT ![t] = s] \in NodeStates
  BY <1>1 DEF NodeStates
<1>3. [m EXCEPT !.nodes[t] = s] = [m EXCEPT !.nodes = [m.nodes EXCEPT ![t] = s]]
  OBVIOUS
<1> QED BY <1>2, <1>3, NodesType

LEMMA LeaseType ==
    ASSUME NEW m \in Machines, NEW l, NEW r \in LeaseRecords
    PROVE  [m EXCEPT !.leases[l] = r] \in Machines
<1>1. m.leases \in [Leases -> LeaseRecords]
  BY DEF Machines, LeaseRecords
<1>2. [m.leases EXCEPT ![l] = r] \in [Leases -> LeaseRecords]
  BY <1>1
<1>3. [m EXCEPT !.leases[l] = r] = [m EXCEPT !.leases = [m.leases EXCEPT ![l] = r]]
  OBVIOUS
<1> QED BY <1>2, <1>3, LeasesType

LEMMA StatusType ==
    ASSUME NEW m \in Machines, NEW l, NEW s \in {"COMPLETED", "RELEASED"}
    PROVE  [m EXCEPT !.leases[l].status = s] \in Machines
<1> DEFINE f == [m.leases EXCEPT ![l].status = s]
<1>1. m.leases \in [Leases -> LeaseRecords]
  BY DEF Machines, LeaseRecords
<1>2. f \in [Leases -> LeaseRecords]
  <2>1. CASE l \in Leases
    <3>1. m.leases[l] \in LeaseRecords
      BY <1>1, <2>1
    <3>2. [m.leases[l] EXCEPT !.status = s] \in LeaseRecords
      BY <3>1 DEF LeaseRecords
    <3> QED BY <1>1, <2>1, <3>2
  <2>2. CASE l \notin Leases
    BY <1>1, <2>2
  <2> QED BY <2>1, <2>2
<1>3. [m EXCEPT !.leases[l].status = s] = [m EXCEPT !.leases = f]
  OBVIOUS
<1> HIDE DEF f
<1> QED BY <1>2, <1>3, LeasesType

-----------------------------------------------------------------------------
(* The steps from which the actions are made.                              *)

\* A request starts with a fresh snapshot.
LEMMA BeginType ==
    ASSUME TypeOK, NEW p \in Threads, NEW s \in Steps, NEW c \in Calls, Begin(p, s, c)
    PROVE  /\ view' \in [Threads -> Machines]
           /\ at' \in [Threads -> Steps]
           /\ call' \in [Threads -> Calls]
           /\ at'[p] = s /\ call'[p] = c
           /\ \A q \in Threads : q # p => at'[q] = at[q] /\ call'[q] = call[q]
BY DEF TypeOK, Begin

LEMMA GoType ==
    ASSUME TypeOK, NEW p \in Threads, NEW s \in Steps, Go(p, s)
    PROVE  /\ at' \in [Threads -> Steps]
           /\ call' \in [Threads -> Calls]
           /\ at'[p] = s /\ call'[p] = call[p]
           /\ \A q \in Threads : q # p => at'[q] = at[q] /\ call'[q] = call[q]
BY DEF TypeOK, Go

LEMMA NoCallType == NoCall \in Calls
BY DEF NoCall, Calls

LEMMA EndType ==
    ASSUME TypeOK, NEW p \in Threads, End(p)
    PROVE  /\ at' \in [Threads -> Steps]
           /\ call' \in [Threads -> Calls]
           /\ at'[p] = "idle"
           /\ \A q \in Threads : q # p => at'[q] = at[q] /\ call'[q] = call[q]
BY NoCallType DEF TypeOK, End, Steps

LEMMA CommitType ==
    ASSUME TypeOK, NEW p \in Threads, NEW m \in Machines, Commit(p, m)
    PROVE  canon' = m /\ canon' \in Machines /\ view' \in [Threads -> Machines]
BY DEF TypeOK, Commit

\* A control operation goes on with the next lease, with its record, or returns.
LEMMA SweepType ==
    ASSUME TypeOK, NEW c \in Threads, NEW todo \in SUBSET Leases, Sweep(c, todo)
    PROVE  /\ at' \in [Threads -> Steps]
           /\ call' \in [Threads -> Calls]
           /\ at'[c] \in {"idle", "finish", "record"}
           /\ \A q \in Threads : q # c => at'[q] = at[q] /\ call'[q] = call[q]
<1>1. CASE todo # {}
  <2>1. PICK l \in todo :
           /\ at' = [at EXCEPT ![c] = "finish"]
           /\ call' = [call EXCEPT ![c].lease = l, ![c].todo = todo \ {l}]
    BY <1>1 DEF Sweep
  <2>2. [call[c] EXCEPT !.lease = l, !.todo = todo \ {l}] \in Calls
    BY <2>1 DEF TypeOK, Calls
  <2>3. call' = [call EXCEPT ![c] = [call[c] EXCEPT !.lease = l, !.todo = todo \ {l}]]
    BY <2>1 DEF TypeOK
  <2> QED BY <2>1, <2>2, <2>3 DEF TypeOK, Steps
<1>2. CASE todo = {} /\ call[c].lease # Nothing
  <2>1. Go(c, "record") BY <1>2 DEF Sweep
  <2> QED BY <2>1, GoType DEF Steps
<1>3. CASE todo = {} /\ call[c].lease = Nothing
  <2>1. End(c) BY <1>3 DEF Sweep
  <2> QED BY <2>1, EndType
<1> QED BY <1>1, <1>2, <1>3

LEMMA GoOnType ==
    ASSUME TypeOK, NEW p \in Threads, GoOn(p)
    PROVE  /\ at' \in [Threads -> Steps]
           /\ call' \in [Threads -> Calls]
           /\ at'[p] \in {"idle", "finish", "record"}
           /\ \A q \in Threads : q # p => at'[q] = at[q] /\ call'[q] = call[q]
<1>1. call[p].todo \in SUBSET Leases
  BY DEF TypeOK, Calls
<1>2. CASE p \in Controllers
  <2>1. Sweep(p, call[p].todo) BY <1>2 DEF GoOn
  <2> QED BY <1>1, <2>1, SweepType
<1>3. CASE p \notin Controllers
  <2>1. End(p) BY <1>3 DEF GoOn
  <2> QED BY <2>1, EndType
<1> QED BY <1>2, <1>3

-----------------------------------------------------------------------------
(* What a step of one thread leaves of the invariant of the others.        *)

\* A node that becomes ready or leased unblocks no task.
LEMMA Reopened ==
    ASSUME TypeOK, NEW u, NEW t, NEW s \in {"ready", "leased"},
           canon' = [canon EXCEPT !.nodes[u] = s], Unblocked(canon', t)
    PROVE  Unblocked(canon, t)
<1>1. SUFFICES ASSUME NEW e \in Requires, e[2] = t
               PROVE  canon.nodes[e[1]] = "complete"
  BY DEF Unblocked
<1>2. canon'.nodes[e[1]] = "complete"
  BY <1>1 DEF Unblocked
<1>3. canon'.nodes = [canon.nodes EXCEPT ![u] = s]
  BY DEF TypeOK, Machines
<1>4. e[1] \in Tasks /\ canon.nodes \in NodeStates
  BY <1>1, MissionConstants DEF TypeOK, Machines, NodeStates
<1> QED BY <1>2, <1>3, <1>4 DEF NodeStates

\* The locals of the request of p are right after its step when they are right
\* for the new step of p.
LEMMA LocalStep ==
    ASSUME Local, NEW p \in Threads,
           \A q \in Threads : q # p => at'[q] = at[q] /\ call'[q] = call[q],
           at'[p] \in {"claim", "note", "paused!", "requires!", "mission!"}
               => call'[p].lease \in Leases,
           at'[p] = "patch" =>
              /\ call'[p].op \in {"pause", "resume", "analyze", "resolve"}
              /\ call'[p].op \in {"analyze", "resolve"} => call'[p].impact \in Impacts
    PROVE  Local'
BY DEF Local

\* Where a step unblocks no task and clears no lease, a claim that goes on to its
\* next check has to have noticed only what that check tells.
LEMMA OrderStep ==
    ASSUME Order, NEW p \in Threads, cleared' = cleared,
           held' \subseteq held \cup {l \in Leases : l \in cleared},
           \A q \in Threads : q # p => at'[q] = at[q] /\ call'[q] = call[q],
           \A t : Unblocked(canon', t) => Unblocked(canon, t),
           Claiming(p)' => Claiming(p) /\ call'[p] = call[p],
           at'[p] = "mission!" => call'[p].lease \in cleared
    PROVE  Order'
<1>1. OrderIsKept'
  BY DEF Order, OrderIsKept
<1>2. ASSUME NEW q \in Hosts PROVE Noticed(q)'
  <2>1. CASE q # p
    BY <1>2, <2>1 DEF Order, Noticed, Claiming, Threads
  <2>2. CASE q = p
    BY <1>2, <2>2 DEF Order, Noticed, Claiming, Threads
  <2> QED BY <2>1, <2>2
<1> QED BY <1>1, <1>2 DEF Order

-----------------------------------------------------------------------------
(* The actions of a claim.                                                 *)

\* A request that only moves on: to a check that it may reach, or to its end.
LEMMA MoveStep ==
    ASSUME Inv, NEW p \in Threads,
           UNCHANGED <<canon, rows, view, held, cleared, controls>>,
           \/ End(p)
           \/ \E s \in {"paused?", "acquire", "finish", "requires!", "mission!"} :
                /\ Go(p, s)
                /\ s \in {"requires!", "mission!"} => Claiming(p)
                /\ s = "mission!" => call[p].lease \in cleared
    PROVE  Inv'
<1>1. CASE End(p)
  <2>1. TypeOK'
    BY <1>1, EndType DEF Inv, TypeOK
  <2>2. Local'
    BY <1>1, EndType, LocalStep DEF Inv
  <2>3. Order'
    BY <1>1, EndType, OrderStep DEF Inv, Claiming
  <2> QED BY <2>1, <2>2, <2>3 DEF Inv
<1>2. ASSUME NEW s \in {"paused?", "acquire", "finish", "requires!", "mission!"},
             Go(p, s), s \in {"requires!", "mission!"} => Claiming(p),
             s = "mission!" => call[p].lease \in cleared
      PROVE  Inv'
  <2>0. s \in Steps
    BY DEF Steps
  <2>1. TypeOK'
    BY <1>2, <2>0, GoType DEF Inv, TypeOK
  <2>2. Local'
    <3>1. Claiming(p) => call[p].lease \in Leases
      BY DEF Inv, Local, Claiming
    <3> QED BY <1>2, <2>0, <3>1, GoType, LocalStep DEF Inv
  <2>3. Order'
    <3>1. Claiming(p)' => Claiming(p) /\ call'[p] = call[p]
      BY <1>2, <2>0, GoType DEF Inv, Claiming
    <3>2. at'[p] = "mission!" => call'[p].lease \in cleared
      BY <1>2, <2>0, GoType DEF Inv
    <3> QED BY <1>2, <2>0, <3>1, <3>2, GoType, OrderStep DEF Inv
  <2> QED BY <2>1, <2>2, <2>3 DEF Inv
<1> QED BY <1>1, <1>2

LEMMA CheckRequiresStep ==
    ASSUME Inv, NEW p \in Hosts, CheckRequires(p) PROVE Inv'
BY MoveStep DEF CheckRequires, Gate, Threads

LEMMA CheckPausedStep ==
    ASSUME Inv, NEW p \in Hosts, CheckPaused(p) PROVE Inv'
BY MoveStep DEF CheckPaused, Gate, Threads

LEMMA RecheckPausedStep ==
    ASSUME Inv, NEW p \in Hosts, RecheckPaused(p) PROVE Inv'
BY MoveStep DEF RecheckPaused, Gate, Threads, Claiming

\* The check of the predecessors passes only a claim that has noticed.
LEMMA RecheckRequiresStep ==
    ASSUME Inv, NEW p \in Hosts, RecheckRequires(p) PROVE Inv'
<1>1. Claiming(p)
  BY DEF RecheckRequires, Gate, Claiming
<1>2. Unblocked(canon, call[p].task) => call[p].lease \in cleared
  BY <1>1 DEF Inv, Order, Noticed
<1>3. UNCHANGED <<canon, rows, view, held, cleared, controls>>
  BY DEF RecheckRequires, Gate
<1>4. \/ Unblocked(canon, call[p].task) /\ Go(p, "mission!")
      \/ End(p)
      \/ Go(p, "finish")
  BY DEF RecheckRequires, Gate
<1> QED BY <1>1, <1>2, <1>3, <1>4, MoveStep DEF Threads

LEMMA ClaimStep ==
    ASSUME Inv, NEW p \in Hosts, NEW t \in Tasks, Claim(p, t) PROVE Inv'
<1> DEFINE c == [NoCall EXCEPT !.op = "claim", !.task = t]
<1>1. c \in Calls /\ "requires?" \in Steps /\ p \in Threads
  BY DEF NoCall, Calls, Steps, Threads
<1>2. Begin(p, "requires?", c) /\ UNCHANGED <<canon, rows, held, cleared, controls>>
  BY DEF Claim
<1> HIDE DEF c
<1>3. TypeOK'
  BY <1>1, <1>2, BeginType DEF Inv, TypeOK
<1>4. Local'
  BY <1>1, <1>2, BeginType, LocalStep DEF Inv
<1>5. Order'
  BY <1>1, <1>2, BeginType, OrderStep DEF Inv, Claiming
<1> QED BY <1>3, <1>4, <1>5 DEF Inv

LEMMA AcquireStep ==
    ASSUME Inv, NEW p \in Hosts, Acquire(p) PROVE Inv'
<1>0. p \in Threads
  BY DEF Threads
<1>1. CASE rows[call[p].task] # Nothing
  BY <1>0, <1>1, MoveStep DEF Acquire
<1>2. CASE rows[call[p].task] = Nothing
  <2>1. PICK l \in Leases :
           /\ rows' = [rows EXCEPT ![call[p].task] = l]
           /\ at' = [at EXCEPT ![p] = "claim"]
           /\ call' = [call EXCEPT ![p].lease = l]
    BY <1>2 DEF Acquire
  <2>2. UNCHANGED <<canon, view, held, cleared, controls>>
    BY DEF Acquire
  <2>3. call' \in [Threads -> Calls] /\ call'[p].lease = l
    <3>1. [call[p] EXCEPT !.lease = l] \in Calls
      BY <1>0 DEF Inv, TypeOK, Calls
    <3>2. call' = [call EXCEPT ![p] = [call[p] EXCEPT !.lease = l]]
      BY <2>1
    <3>3. [call[p] EXCEPT !.lease = l].lease = l
      BY <1>0 DEF Inv, TypeOK, Calls
    <3> QED BY <1>0, <3>1, <3>2, <3>3 DEF Inv, TypeOK
  <2>4. /\ at'[p] = "claim" /\ at' \in [Threads -> Steps]
        /\ \A q \in Threads : q # p => at'[q] = at[q] /\ call'[q] = call[q]
    BY <1>0, <2>1 DEF Inv, TypeOK, Steps
  <2>5. TypeOK'
    BY <2>1, <2>2, <2>3, <2>4 DEF Inv, TypeOK
  <2>6. Local'
    BY <1>0, <2>3, <2>4, LocalStep DEF Inv
  <2>7. Order'
    BY <1>0, <2>2, <2>4, OrderStep DEF Inv, Claiming
  <2> QED BY <2>5, <2>6, <2>7 DEF Inv
<1> QED BY <1>1, <1>2

\* The commit of a claim leaves the nodes alone, so that what the others have
\* noticed stays true; its own lease is cleared when nothing blocks the task.
LEMMA CommitClaimStep ==
    ASSUME Inv, NEW p \in Hosts, CommitClaim(p) PROVE Inv'
<1> DEFINE l == call[p].lease
           t == call[p].task
<1>a. view[p] \in Machines /\ p \in Threads
  BY DEF Inv, TypeOK, Threads
<1>b. PICK n \in NextAttempt(view[p], t) :
         Commit(p, [canon EXCEPT !.leases[l] =
                      [status |-> "ACTIVE", task |-> t, attempt |-> n]])
  BY DEF CommitClaim
<1> DEFINE m == [canon EXCEPT !.leases[l] = [status |-> "ACTIVE", task |-> t,
                                             attempt |-> n]]
<1>0. p \in Threads /\ l \in Leases /\ t \in Tasks \cup {Nothing} /\ n \in Nat
  BY <1>a, AttemptType DEF Inv, Local, TypeOK, Calls, CommitClaim
<1>1. m \in Machines
  <2>1. [status |-> "ACTIVE", task |-> t, attempt |-> n] \in LeaseRecords
    BY <1>0 DEF LeaseRecords
  <2> QED BY <2>1, LeaseType DEF Inv, TypeOK
<1>2. /\ Commit(p, m) /\ Go(p, "note") /\ "note" \in Steps
      /\ cleared' = IF Unblocked(canon, t) THEN cleared \cup {l} ELSE cleared
      /\ UNCHANGED <<rows, held, controls>>
  BY <1>b DEF CommitClaim, Steps
<1>3. m.nodes = canon.nodes
  BY DEF Inv, TypeOK, Machines
<1> HIDE DEF m
<1>4. canon' = m /\ canon' \in Machines /\ view' \in [Threads -> Machines]
  BY <1>0, <1>1, <1>2, CommitType DEF Inv
<1>5. /\ at' \in [Threads -> Steps] /\ call' \in [Threads -> Calls]
      /\ at'[p] = "note" /\ call'[p] = call[p]
      /\ \A q \in Threads : q # p => at'[q] = at[q] /\ call'[q] = call[q]
  BY <1>0, <1>2, GoType DEF Inv
<1>6. TypeOK'
  BY <1>0, <1>2, <1>4, <1>5 DEF Inv, TypeOK
<1>7. Local'
  BY <1>0, <1>5, LocalStep DEF Inv
<1>8. Order'
  <2>1. cleared \subseteq cleared'
    BY <1>2
  <2>2. ASSUME NEW q \in Hosts PROVE Noticed(q)'
    <3>1. \A u : Unblocked(canon', u) <=> Unblocked(canon, u)
      BY <1>3, <1>4 DEF Unblocked
    <3>2. CASE q # p
      BY <1>5, <2>1, <3>1, <3>2 DEF Inv, Order, Noticed, Claiming, Threads
    <3>3. CASE q = p
      BY <1>2, <1>5, <3>1, <3>3 DEF Noticed
    <3> QED BY <3>2, <3>3
  <2> QED BY <1>2, <2>1, <2>2 DEF Inv, Order, OrderIsKept
<1> QED BY <1>6, <1>7, <1>8 DEF Inv

LEMMA NoteClaimStep ==
    ASSUME Inv, NEW p \in Hosts, NoteClaim(p) PROVE Inv'
<1> DEFINE m == [canon EXCEPT !.nodes[call[p].task] = "leased"]
<1>0. p \in Threads /\ m \in Machines /\ "paused!" \in Steps
  BY NodeType DEF Inv, TypeOK, Threads, Steps
<1>1. /\ at[p] = "note" /\ Commit(p, m) /\ Go(p, "paused!")
      /\ UNCHANGED <<rows, held, cleared, controls>>
  BY DEF NoteClaim
<1>2. canon' = m /\ canon' \in Machines /\ view' \in [Threads -> Machines]
  BY <1>0, <1>1, CommitType DEF Inv
<1>3. \A t : Unblocked(canon', t) => Unblocked(canon, t)
  BY <1>2, Reopened DEF Inv
<1> HIDE DEF m
<1>4. /\ at' \in [Threads -> Steps] /\ call' \in [Threads -> Calls]
      /\ at'[p] = "paused!" /\ call'[p] = call[p]
      /\ \A q \in Threads : q # p => at'[q] = at[q] /\ call'[q] = call[q]
  BY <1>0, <1>1, GoType DEF Inv
<1>5. TypeOK'
  BY <1>1, <1>2, <1>4 DEF Inv, TypeOK
<1>6. Local'
  BY <1>0, <1>1, <1>4, LocalStep DEF Inv, Local
<1>7. Order'
  BY <1>0, <1>1, <1>3, <1>4, OrderStep DEF Inv, Claiming
<1> QED BY <1>5, <1>6, <1>7 DEF Inv

\* The lease that is given away has been cleared.
LEMMA RecheckMissionStep ==
    ASSUME Inv, NEW p \in Hosts, RecheckMission(p) PROVE Inv'
<1>0. p \in Threads /\ call[p].lease \in Leases /\ call[p].lease \in cleared
  BY DEF Inv, Local, Order, Noticed, RecheckMission, Threads
<1>1. CASE MissionOpen
  <2>1. /\ End(p) /\ held' = held \cup {call[p].lease}
        /\ UNCHANGED <<canon, rows, view, cleared, controls>>
    BY <1>1 DEF RecheckMission
  <2>2. TypeOK'
    BY <1>0, <2>1, EndType DEF Inv, TypeOK
  <2>3. Local'
    BY <1>0, <2>1, EndType, LocalStep DEF Inv
  <2>4. Order'
    BY <1>0, <2>1, EndType, OrderStep DEF Inv, Claiming
  <2> QED BY <2>2, <2>3, <2>4 DEF Inv
<1>2. CASE ~MissionOpen
  BY <1>0, <1>2, MoveStep DEF RecheckMission
<1> QED BY <1>1, <1>2

-----------------------------------------------------------------------------
(* The actions of _finish_lease.                                           *)

\* A step outside of the claims that neither unblocks a task nor adds to held.
LEMMA OtherStep ==
    ASSUME Inv, NEW p \in Threads, cleared' = cleared, held' \subseteq held,
           canon' \in Machines, \A t : Unblocked(canon', t) => Unblocked(canon, t),
           view' \in [Threads -> Machines],
           rows' \in [Tasks -> Leases \cup {Nothing}], controls' \in Nat,
           at' \in [Threads -> Steps], call' \in [Threads -> Calls],
           \A q \in Threads : q # p => at'[q] = at[q] /\ call'[q] = call[q],
           at'[p] \in {"idle", "finish", "unclaim", "unnote", "record"}
    PROVE  Inv'
<1>1. TypeOK'
  BY DEF Inv, TypeOK
<1>2. Local'
  BY LocalStep DEF Inv
<1>3. Order'
  BY OrderStep DEF Inv, Claiming
<1> QED BY <1>1, <1>2, <1>3 DEF Inv

LEMMA CompleteStep ==
    ASSUME Inv, NEW p \in Hosts, NEW l \in Leases, Complete(p, l) PROVE Inv'
<1>0. p \in Threads /\ "finish" \in Steps
  BY DEF Threads, Steps
<1>1. UNCHANGED <<canon, rows, cleared, controls>>
  BY DEF Complete
<1>2. CASE l \in Active(canon) /\ Newest(canon, l)
  <2> DEFINE c == [NoCall EXCEPT !.op = "complete", !.lease = l,
                                 !.status = "COMPLETED"]
  <2>1. c \in Calls
    BY DEF NoCall, Calls
  <2>2. Begin(p, "finish", c) /\ held' = held
    BY <1>2 DEF Complete
  <2> HIDE DEF c
  <2> QED BY <1>0, <1>1, <2>1, <2>2, BeginType, OtherStep DEF Inv, TypeOK
<1>3. CASE ~(l \in Active(canon) /\ Newest(canon, l))
  <2>1. at[p] = "idle" /\ held' = held \ {l} /\ UNCHANGED <<view, at, call>>
    BY <1>3 DEF Complete
  <2> QED BY <1>0, <1>1, <2>1, OtherStep DEF Inv, TypeOK
<1> QED BY <1>2, <1>3

LEMMA FinishLeaseStep ==
    ASSUME Inv, NEW p \in Threads, FinishLease(p) PROVE Inv'
<1> DEFINE l == call[p].lease
           m == [canon EXCEPT !.leases[l].status = call[p].status]
<1>1. UNCHANGED <<rows, cleared, controls>>
  BY DEF FinishLease
<1>2. CASE view[p].leases[l].status # "ACTIVE"
  <2>1. GoOn(p) /\ UNCHANGED <<canon, view, held>>
    BY <1>2 DEF FinishLease
  <2> QED BY <1>1, <2>1, GoOnType, OtherStep DEF Inv, TypeOK
<1>3. CASE /\ view[p].leases[l].status = "ACTIVE"
           /\ canon.leases[l].status = "NONE"
  <2>1. /\ End(p) /\ view' = [view EXCEPT ![p] = canon]
        /\ UNCHANGED <<canon, held>>
    BY <1>3 DEF FinishLease
  <2>2. view' \in [Threads -> Machines]
    BY <2>1 DEF Inv, TypeOK
  <2> QED BY <1>1, <2>1, <2>2, EndType, OtherStep DEF Inv, TypeOK
<1>4. CASE /\ view[p].leases[l].status = "ACTIVE"
           /\ canon.leases[l].status # "NONE"
  <2>1. /\ Commit(p, m) /\ Go(p, "unclaim")
        /\ held' = IF call[p].status = "COMPLETED" THEN held \ {l} ELSE held
    BY <1>4 DEF FinishLease
  <2>2. m \in Machines
    <3>1. call[p].status \in {"COMPLETED", "RELEASED"} /\ canon \in Machines
      BY DEF Inv, TypeOK, Calls
    <3> QED BY <3>1, StatusType
  <2>3. m.nodes = canon.nodes
    BY DEF Inv, TypeOK, Machines
  <2> HIDE DEF m
  <2>4. canon' = m /\ canon' \in Machines /\ view' \in [Threads -> Machines]
    BY <2>1, <2>2, CommitType DEF Inv
  <2>5. \A t : Unblocked(canon', t) => Unblocked(canon, t)
    BY <2>3, <2>4 DEF Unblocked
  <2>6. "unclaim" \in Steps
    BY DEF Steps
  <2>7. held' \subseteq held
    BY <2>1
  <2> QED BY <1>1, <2>1, <2>4, <2>5, <2>6, <2>7, GoType, OtherStep DEF Inv, TypeOK
<1> QED BY <1>2, <1>3, <1>4

LEMMA UnclaimStep ==
    ASSUME Inv, NEW p \in Threads, Unclaim(p) PROVE Inv'
<1>1. /\ rows' = [t \in Tasks |-> IF rows[t] = call[p].lease THEN Nothing ELSE rows[t]]
      /\ Go(p, "unnote") /\ "unnote" \in Steps
      /\ UNCHANGED <<canon, view, held, cleared, controls>>
  BY DEF Unclaim, Steps
<1>2. rows' \in [Tasks -> Leases \cup {Nothing}]
  BY <1>1 DEF Inv, TypeOK
<1> QED BY <1>1, <1>2, GoType, OtherStep DEF Inv, TypeOK

\* The completion of a task may unblock others; every claim of such a task that
\* has been committed is cleared by the same step.
LEMMA NoteFinishStep ==
    ASSUME Inv, NEW p \in Threads, NoteFinish(p) PROVE Inv'
<1> DEFINE t == view[p].leases[call[p].lease].task
           s == IF call[p].status = "COMPLETED" THEN "complete" ELSE "ready"
           m == [canon EXCEPT !.nodes[t] = s]
           Seen == {q \in Hosts : Claiming(q) /\ Unblocked(canon', call[q].task)}
<1>1. /\ at[p] = "unnote" /\ Commit(p, m) /\ GoOn(p)
      /\ cleared' = cleared \cup {call[q].lease : q \in Seen}
      /\ UNCHANGED <<rows, held, controls>>
  BY DEF NoteFinish
<1>2. m \in Machines
  <2>1. s \in {"ready", "leased", "complete"}
    OBVIOUS
  <2> HIDE DEF s
  <2> QED BY <2>1, NodeType DEF Inv, TypeOK
<1> HIDE DEF m
<1>3. canon' \in Machines /\ view' \in [Threads -> Machines]
  BY <1>1, <1>2, CommitType DEF Inv
<1>4. /\ at' \in [Threads -> Steps] /\ call' \in [Threads -> Calls]
      /\ at'[p] \in {"idle", "finish", "record"}
      /\ \A q \in Threads : q # p => at'[q] = at[q] /\ call'[q] = call[q]
  BY <1>1, GoOnType DEF Inv
<1>5. cleared \subseteq cleared' /\ cleared' \subseteq Leases
  <2>1. \A q \in Seen : call[q].lease \in Leases
    BY DEF Inv, Local, Claiming, Threads
  <2> QED BY <1>1, <2>1 DEF Inv, TypeOK
<1>6. TypeOK'
  BY <1>1, <1>3, <1>4, <1>5 DEF Inv, TypeOK
<1>7. Local'
  BY <1>4, LocalStep DEF Inv
<1>8. Order'
  <2>1. ASSUME NEW q \in Hosts PROVE Noticed(q)'
    <3>1. CASE q = p
      BY <1>4, <3>1 DEF Noticed, Claiming
    <3>2. CASE q # p
      <4>1. at'[q] = at[q] /\ call'[q] = call[q]
        BY <1>4, <3>2 DEF Threads
      <4>2. Claiming(q) /\ Unblocked(canon', call[q].task)
               => call[q].lease \in cleared'
        BY <1>1
      <4>3. at[q] = "mission!" => call[q].lease \in cleared
        BY DEF Inv, Order, Noticed
      <4> QED BY <1>5, <4>1, <4>2, <4>3 DEF Noticed, Claiming
    <3> QED BY <3>1, <3>2
  <2> QED BY <1>1, <1>5, <2>1 DEF Inv, Order, OrderIsKept
<1> QED BY <1>6, <1>7, <1>8 DEF Inv

-----------------------------------------------------------------------------
(* Control operations.                                                     *)

LEMMA ControlStep ==
    ASSUME Inv, NEW c \in Controllers, NEW args \in Calls, Control(c, args),
           args.op \in {"pause", "resume", "analyze", "resolve"},
           args.op \in {"analyze", "resolve"} => args.impact \in Impacts
    PROVE  Inv'
<1>0. c \in Threads /\ "patch" \in Steps
  BY DEF Threads, Steps
<1>1. /\ controls' = controls + 1 /\ Begin(c, "patch", args)
      /\ UNCHANGED <<canon, rows, held, cleared>>
  BY DEF Control
<1>2. TypeOK'
  BY <1>0, <1>1, BeginType DEF Inv, TypeOK
<1>3. Local'
  BY <1>0, <1>1, BeginType, LocalStep DEF Inv
<1>4. Order'
  BY <1>0, <1>1, BeginType, OrderStep DEF Inv, Claiming
<1> QED BY <1>2, <1>3, <1>4 DEF Inv

LEMMA PauseMissionStep ==
    ASSUME Inv, NEW c \in Controllers, NEW mode \in {"QUIESCE", "SUSPEND"},
           PauseMission(c, mode)
    PROVE  Inv'
<1> DEFINE args == [NoCall EXCEPT !.op = "pause", !.mode = mode]
<1>1. args \in Calls /\ args.op = "pause"
  BY DEF NoCall, Calls
<1>2. Control(c, args)
  BY DEF PauseMission
<1> HIDE DEF args
<1> QED BY <1>1, <1>2, ControlStep

LEMMA ResumeMissionStep ==
    ASSUME Inv, NEW c \in Controllers, ResumeMission(c) PROVE Inv'
<1> DEFINE args == [NoCall EXCEPT !.op = "resume"]
<1>1. args \in Calls /\ args.op = "resume"
  BY DEF NoCall, Calls
<1>2. Control(c, args)
  BY DEF ResumeMission
<1> HIDE DEF args
<1> QED BY <1>1, <1>2, ControlStep

LEMMA AnalyzeChangeStep ==
    ASSUME Inv, NEW c \in Controllers, NEW t \in Tasks, AnalyzeChange(c, t)
    PROVE  Inv'
<1>1. PICK i \in Impacts :
         Control(c, [NoCall EXCEPT !.op = "analyze", !.impact = i,
                                   !.region = Affected({t})])
  BY DEF AnalyzeChange
<1> DEFINE args == [NoCall EXCEPT !.op = "analyze", !.impact = i,
                                  !.region = Affected({t})]
<1>2. args \in Calls /\ args.op = "analyze" /\ args.impact \in Impacts
  <2>1. Affected({t}) \subseteq Tasks
    BY DEF Affected
  <2> QED BY <2>1 DEF NoCall, Calls
<1> HIDE DEF args
<1> QED BY <1>1, <1>2, ControlStep DEF args

LEMMA ResolveImpactStep ==
    ASSUME Inv, NEW c \in Controllers, NEW i \in Impacts, NEW S \in SUBSET Tasks,
           ResolveImpact(c, i, S)
    PROVE  Inv'
<1> DEFINE args == [NoCall EXCEPT !.op = "resolve", !.impact = i, !.region = S]
<1>1. args \in Calls /\ args.op = "resolve" /\ args.impact \in Impacts
  BY DEF NoCall, Calls
<1>2. Control(c, args)
  BY DEF ResolveImpact
<1> HIDE DEF args
<1> QED BY <1>1, <1>2, ControlStep

\* A patch of the resources leaves the nodes, and so what is blocked, alone.
LEMMA PatchType ==
    ASSUME Inv, NEW c \in Threads, NEW m \in Machines, Patch(c, m)
    PROVE  /\ canon' \in Machines /\ view' \in [Threads -> Machines]
           /\ \A t : Unblocked(canon', t) => Unblocked(canon, t)
<1> DEFINE n == [m EXCEPT !.nodes = canon.nodes]
<1>1. n \in Machines /\ n.nodes = canon.nodes
  <2>1. canon.nodes \in NodeStates
    BY DEF Inv, TypeOK, Machines, NodeStates
  <2> QED BY <2>1, NodesType DEF Machines
<1>2. Commit(c, n)
  BY DEF Patch
<1> HIDE DEF n
<1>3. canon' = n /\ canon' \in Machines /\ view' \in [Threads -> Machines]
  BY <1>1, <1>2, CommitType DEF Inv
<1> QED BY <1>1, <1>3 DEF Unblocked

LEMMA DecideStep ==
    ASSUME Inv, NEW c \in Controllers, Decide(c) PROVE Inv'
<1>0. c \in Threads
  BY DEF Threads
<1>1. /\ at[c] = "patch" /\ Patch(c, Decided(view[c], call[c]))
      /\ UNCHANGED <<rows, held, cleared, controls>>
  BY DEF Decide
<1>2. Decided(view[c], call[c]) \in Machines
  <2>1. view[c] \in Machines /\ call[c] \in Calls
    BY <1>0 DEF Inv, TypeOK
  <2> QED BY <1>0, <1>1, <2>1, DecidedType DEF Inv, Local
<1>3. /\ canon' \in Machines /\ view' \in [Threads -> Machines]
      /\ \A t : Unblocked(canon', t) => Unblocked(canon, t)
  BY <1>0, <1>1, <1>2, PatchType
<1>4. /\ at' \in [Threads -> Steps] /\ call' \in [Threads -> Calls]
      /\ at'[c] \in {"idle", "finish", "record"}
      /\ \A q \in Threads : q # c => at'[q] = at[q] /\ call'[q] = call[q]
  <2>1. CASE Sweep(c, AffectedLeases(canon', c))
    <3>1. AffectedLeases(canon', c) \in SUBSET Leases
      BY DEF AffectedLeases, Active
    <3> QED BY <1>0, <2>1, <3>1, SweepType DEF Inv
  <2>2. CASE End(c)
    BY <1>0, <2>2, EndType DEF Inv
  <2> QED BY <2>1, <2>2 DEF Decide
<1> QED BY <1>0, <1>1, <1>3, <1>4, OtherStep DEF Inv, TypeOK

LEMMA RecordStep ==
    ASSUME Inv, NEW c \in Controllers, Record(c) PROVE Inv'
<1>0. c \in Threads /\ view[c] \in Machines
  BY DEF Threads, Inv, TypeOK
<1>1. Patch(c, view[c]) /\ End(c) /\ UNCHANGED <<rows, held, cleared, controls>>
  BY DEF Record
<1> QED BY <1>0, <1>1, PatchType, EndType, OtherStep DEF Inv, TypeOK

LEMMA ReopenStep ==
    ASSUME Inv, NEW c \in Controllers, NEW t \in Tasks, Reopen(c, t) PROVE Inv'
<1> DEFINE m == [canon EXCEPT !.nodes[t] = "ready"]
<1>0. c \in Threads /\ m \in Machines
  BY NodeType DEF Inv, TypeOK, Threads
<1>1. /\ controls' = controls + 1 /\ at[c] = "idle" /\ Commit(c, m)
      /\ UNCHANGED <<rows, at, call, held, cleared>>
  BY DEF Reopen
<1>2. canon' = m /\ canon' \in Machines /\ view' \in [Threads -> Machines]
  BY <1>0, <1>1, CommitType DEF Inv
<1>3. \A u : Unblocked(canon', u) => Unblocked(canon, u)
  BY <1>2, Reopened DEF Inv
<1> HIDE DEF m
<1> QED BY <1>0, <1>1, <1>2, <1>3, OtherStep DEF Inv, TypeOK

-----------------------------------------------------------------------------
(* The invariant and the theorems.                                         *)

LEMMA InitInv == Init => Inv
<1> SUFFICES ASSUME Init PROVE Inv
  OBVIOUS
<1>1. canon \in Machines
  BY DEF Init, Machines
<1>2. TypeOK
  BY <1>1, NoCallType DEF Init, TypeOK, Steps
<1>3. Local
  BY DEF Init, Local
<1>4. Order
  BY DEF Init, Order, OrderIsKept, Noticed, Claiming, Threads
<1> QED BY <1>2, <1>3, <1>4 DEF Inv

LEMMA NextInv == Inv /\ [Next]_vars => Inv'
<1> SUFFICES ASSUME Inv, [Next]_vars PROVE Inv'
  OBVIOUS
<1>1. CASE UNCHANGED vars
  BY <1>1 DEF vars, Inv, TypeOK, Local, Order, OrderIsKept, Noticed, Claiming, Unblocked
<1>2. ASSUME NEW p \in Hosts, WorkerRequest(p) PROVE Inv'
  BY <1>2, ClaimStep, CompleteStep, CheckRequiresStep, CheckPausedStep, AcquireStep,
     CommitClaimStep, NoteClaimStep, RecheckPausedStep, RecheckRequiresStep,
     RecheckMissionStep DEF WorkerRequest
<1>3. ASSUME NEW c \in Controllers, ControlRequest(c) PROVE Inv'
  BY <1>3, PauseMissionStep, ResumeMissionStep, AnalyzeChangeStep, ReopenStep,
     ResolveImpactStep, DecideStep, RecordStep DEF ControlRequest
<1>4. ASSUME NEW p \in Threads, FinishLease(p) \/ Unclaim(p) \/ NoteFinish(p)
      PROVE  Inv'
  BY <1>4, FinishLeaseStep, UnclaimStep, NoteFinishStep
<1> QED BY <1>1, <1>2, <1>3, <1>4 DEF Next

\* The store, the claim table and the requests keep their types in every
\* interleaving of claims, completions and control operations.
THEOREM MissionTypeOK == Spec => []TypeOK
<1>1. Inv => TypeOK
  BY DEF Inv
<1> QED BY <1>1, InitInv, NextInv, PTL DEF Spec

\* No claim_task gives away a lease of a task that was blocked during the whole
\* claim, for every plan and every number of concurrent requests.
THEOREM ClaimsKeepTheOrder == Spec => []OrderIsKept
<1>1. Inv => OrderIsKept
  BY DEF Inv, Order
<1> QED BY <1>1, InitInv, NextInv, PTL DEF Spec

-----------------------------------------------------------------------------
(* The promises of a pause and of a change.  They are made by one operator *)
(* at a time.                                                              *)

OneOperator == \E c : Controllers = {c}

\* The host has an identifier of a lease, and has not yet given it away.
Owning(p) == at[p] \in {"claim", "note", "paused!", "requires!", "mission!"}

\* A lease has one owner until it is given to a worker, it is committed once, and
\* for the task of the claim.
Owned ==
    \A p \in Hosts :
       /\ Owning(p) =>
            /\ call[p].lease \notin held
            /\ \A q \in Hosts : q # p /\ Owning(q) => call[q].lease # call[p].lease
       /\ at[p] = "claim" => canon.leases[call[p].lease].status = "NONE"
       /\ Claiming(p) /\ canon.leases[call[p].lease].status # "NONE"
             => canon.leases[call[p].lease].task = call[p].task

\* The operator's copy has the controls of the store, and no lease that the store
\* does not have.
Copied(c) ==
    at[c] # "idle" =>
       /\ view[c].mission = canon.mission
       /\ view[c].paused = canon.paused
       /\ view[c].impacts = canon.impacts
       /\ \A l \in Leases : view[c].leases[l].status # "NONE" =>
             /\ canon.leases[l].status # "NONE"
             /\ canon.leases[l].task = view[c].leases[l].task

Sweeping(c) == at[c] \in {"finish", "unclaim", "unnote", "record"}

\* What an operator's request holds at each of its steps.
Decisions(c) ==
    /\ at[c] \in {"idle", "patch"} \/ Sweeping(c)
    /\ at[c] = "idle" => call[c].op = "none"
    /\ at[c] = "patch" =>
         /\ call[c].todo = {}
         /\ call[c].lease = Nothing
         /\ call[c].status = "RELEASED"
         /\ call[c].op = "resume" => call[c].mode = "RUNNING"
         /\ call[c].op = "pause" => canon.mission = "RUNNING"
         /\ call[c].op = "resolve" =>
               call[c].region \subseteq canon.impacts[call[c].impact].remaining
    /\ Sweeping(c) => call[c].status = "RELEASED"
    /\ at[c] = "finish" => call[c].lease \in Leases
    /\ at[c] = "record" => call[c].todo = {}

\* The leases that the operation op of c is still going to release.
Due(c, op) ==
    IF call[c].op = op /\ Sweeping(c)
    THEN call[c].todo \cup (IF at[c] = "finish" THEN {call[c].lease} ELSE {})
    ELSE {}

\* The leases under which workers work, or will, unless the mission is paused.
Given == {call[p].lease : p \in {q \in Hosts : at[q] \in {"requires!", "mission!"}}}

AtWork == held \cup Given

\* The active leases of m that a suspension and an analysis have to end.
Unwanted(m, op) ==
    {l \in Active(m) :
        \/ op = "pause" /\ canon.mission = "SUSPEND" /\ l \in held
        \/ op = "analyze" /\ l \in AtWork /\ m.leases[l].task \in canon.paused}

\* All of them are going to be released, and the operator's copy, which decides
\* what is released and is written back at the end, has no others.
Stopping(c, op) ==
    /\ Unwanted(canon, op) \subseteq Due(c, op)
    /\ at[c] # "idle" =>
         /\ Unwanted(canon, op) \subseteq Active(view[c])
         /\ Unwanted(view[c], op) \subseteq Due(c, op)

\* What is left of a change is paused, which takes checkpoints that do not overlap:
\* resolve_change_impact pauses what is left of one checkpoint, also where the
\* planner has resumed it through another one.
ImpactsAreApart ==
    \A i, j \in Impacts :
       i # j => canon.impacts[i].remaining \cap canon.impacts[j].remaining = {}

RestIsPaused == \A i \in Impacts : canon.impacts[i].remaining \subseteq canon.paused

Basis(c) == Inv /\ Owned /\ Copied(c) /\ Decisions(c)

-----------------------------------------------------------------------------
(* Frames.                                                                 *)

\* One thread moves.
Only(p) == \A q \in Threads : q # p => at'[q] = at[q] /\ call'[q] = call[q]

\* No lease appears, and none changes its task.
NoNewLease ==
    \A l \in Leases : canon'.leases[l].status # "NONE" =>
       /\ canon.leases[l].status # "NONE"
       /\ canon'.leases[l].task = canon.leases[l].task

LEMMA OwnedStep ==
    ASSUME Inv, Inv', Owned, NEW p \in Threads, Only(p), NoNewLease,
           held' \subseteq held,
           p \in Hosts /\ Owning(p)' => Claiming(p) /\ Claiming(p)' /\ call'[p] = call[p]
    PROVE  Owned'
<1> SUFFICES ASSUME NEW q \in Hosts
             PROVE  /\ Owning(q)' =>
                         /\ call'[q].lease \notin held'
                         /\ \A r \in Hosts : r # q /\ Owning(r)'
                               => call'[r].lease # call'[q].lease
                    /\ at'[q] = "claim" => canon'.leases[call'[q].lease].status = "NONE"
                    /\ Claiming(q)' /\ canon'.leases[call'[q].lease].status # "NONE"
                          => canon'.leases[call'[q].lease].task = call'[q].task
  BY DEF Owned, Owning, Claiming
<1>1. \A r \in Hosts : Owning(r)' =>
         /\ Owning(r) /\ call'[r] = call[r]
         /\ at'[r] = "claim" => at[r] = "claim"
         /\ Claiming(r)' => Claiming(r)
  BY DEF Only, Owning, Claiming, Threads
<1>2. Owning(q)' => call[q].lease \in Leases
  BY <1>1 DEF Inv, Local, Owning, Threads
<1>3. Claiming(q)' => Owning(q)'
  BY DEF Claiming, Owning
<1>4. at'[q] = "claim" => Owning(q)'
  BY DEF Owning
<1>5. CASE ~Owning(q)'
  BY <1>3, <1>4, <1>5
<1>6. CASE Owning(q)'
  <2>1. call'[q].lease \notin held'
    BY <1>1, <1>6 DEF Owned
  <2>2. \A r \in Hosts : r # q /\ Owning(r)' => call'[r].lease # call'[q].lease
    BY <1>1, <1>6 DEF Owned
  <2>3. at'[q] = "claim" => canon'.leases[call'[q].lease].status = "NONE"
    BY <1>1, <1>2, <1>6 DEF Owned, NoNewLease
  <2>4. Claiming(q)' /\ canon'.leases[call'[q].lease].status # "NONE"
          => canon'.leases[call'[q].lease].task = call'[q].task
    BY <1>1, <1>2, <1>6 DEF Owned, NoNewLease
  <2> QED BY <2>1, <2>2, <2>3, <2>4
<1> QED BY <1>5, <1>6

\* The store keeps its controls, and no lease disappears from it.
LeasesStay ==
    /\ canon'.mission = canon.mission
    /\ canon'.paused = canon.paused
    /\ canon'.impacts = canon.impacts
    /\ \A l \in Leases : canon.leases[l].status # "NONE" =>
          /\ canon'.leases[l].status # "NONE"
          /\ canon'.leases[l].task = canon.leases[l].task

Aside(c) == at'[c] = at[c] /\ call'[c] = call[c] /\ view'[c] = view[c]

LEMMA AsideStep ==
    ASSUME NEW c, Copied(c), Decisions(c), LeasesStay, Aside(c)
    PROVE  Copied(c)' /\ Decisions(c)'
<1>1. Copied(c)'
  BY DEF Copied, LeasesStay, Aside
<1>2. Decisions(c)'
  BY DEF Decisions, Sweeping, LeasesStay, Aside
<1> QED BY <1>1, <1>2

\* Another thread moves: a lease that becomes active is not at work, and one that
\* comes to be at work is not on a paused task.
LEMMA StoppingAside ==
    ASSUME NEW c, NEW op, Stopping(c, op), LeasesStay, Aside(c),
           \A l \in Active(canon') :
              \/ l \in Active(canon) /\ canon'.leases[l].task = canon.leases[l].task
              \/ l \notin AtWork',
           canon.mission = "SUSPEND" => held' \subseteq held,
           \A l \in AtWork' :
              \/ l \in AtWork
              \/ /\ l \in Active(canon) => canon.leases[l].task \notin canon.paused
                 /\ at[c] # "idle" /\ l \in Active(view[c])
                       => view[c].leases[l].task \notin canon.paused
    PROVE  Stopping(c, op)'
<1>0. Due(c, op)' = Due(c, op)
  BY DEF Due, Sweeping, Aside
<1>1. held' \subseteq AtWork'
  BY DEF AtWork
<1>2. Unwanted(canon, op)' \subseteq Unwanted(canon, op)
  BY <1>1 DEF Unwanted, LeasesStay
<1>3. at[c] # "idle" => Unwanted(view[c], op)' \subseteq Unwanted(view[c], op)
  BY DEF Unwanted, LeasesStay, Aside, Active
<1>4. Active(view[c])' = Active(view[c])
  BY DEF Active, Aside
<1> QED BY <1>0, <1>2, <1>3, <1>4 DEF Stopping, Aside

\* A step after which no more leases are at work than before.
LEMMA WorkStep ==
    ASSUME NEW p \in Threads, Only(p), held' \subseteq held,
           p \in Hosts /\ at'[p] \in {"requires!", "mission!"}
              => at[p] \in {"requires!", "mission!"} /\ call'[p] = call[p]
    PROVE  AtWork' \subseteq AtWork
BY DEF AtWork, Given, Only, Threads

-----------------------------------------------------------------------------
(* What the requests of workers leave of it.                               *)

Kept(c, op) == Owned /\ Copied(c) /\ Decisions(c) /\ Stopping(c, op)

LEMMA Apartness ==
    ASSUME NEW c, Controllers = {c}, NEW p \in Hosts
    PROVE  p # c /\ p \in Threads /\ c \in Threads
BY MissionConstants DEF Threads

\* A claim that has been committed and is still in the store is one of its task.
LEMMA ClaimsTask ==
    ASSUME NEW c, Basis(c), NEW p \in Hosts, Claiming(p)
    PROVE  /\ call[p].lease \in Leases
           /\ call[p].lease \in Active(canon)
                => canon.leases[call[p].lease].task = call[p].task
           /\ at[c] # "idle" /\ call[p].lease \in Active(view[c])
                => view[c].leases[call[p].lease].task = call[p].task
<1>1. call[p].lease \in Leases
  BY DEF Basis, Inv, Local, Claiming, Threads
<1>2. canon.leases[call[p].lease].status # "NONE"
         => canon.leases[call[p].lease].task = call[p].task
  BY DEF Basis, Owned
<1> QED BY <1>1, <1>2 DEF Basis, Copied, Active

\* A step of a worker's request that commits no claim and gives none away.
LEMMA QuietStep ==
    ASSUME NEW c, Controllers = {c}, Basis(c), Inv', NEW op, Stopping(c, op),
           NEW p \in Hosts, Only(p), view'[c] = view[c], LeasesStay, NoNewLease,
           held' \subseteq held, Active(canon') \subseteq Active(canon),
           Owning(p)' => Claiming(p) /\ Claiming(p)' /\ call'[p] = call[p],
           at'[p] \in {"requires!", "mission!"} =>
              \/ at[p] \in {"requires!", "mission!"}
              \/ TaskOpen(call[p].task)
    PROVE  Kept(c, op)'
<1>0. p # c /\ p \in Threads /\ c \in Threads
  BY Apartness
<1>1. Owned'
  BY <1>0, OwnedStep DEF Basis
<1>2. Aside(c)
  BY <1>0 DEF Aside, Only
<1>3. Copied(c)' /\ Decisions(c)'
  BY <1>2, AsideStep DEF Basis
<1>4. \A l \in Active(canon') :
         l \in Active(canon) /\ canon'.leases[l].task = canon.leases[l].task
  BY DEF Active, LeasesStay
<1>5. ASSUME NEW l \in AtWork', l \notin AtWork
      PROVE  /\ l \in Active(canon) => canon.leases[l].task \notin canon.paused
             /\ at[c] # "idle" /\ l \in Active(view[c])
                   => view[c].leases[l].task \notin canon.paused
  <2>1. PICK q \in Hosts : at'[q] \in {"requires!", "mission!"} /\ call'[q].lease = l
    BY <1>5 DEF AtWork, Given
  <2>2. q = p
    BY <1>0, <1>5, <2>1 DEF AtWork, Given, Only, Threads
  <2>3. Claiming(p) /\ call'[p] = call[p] /\ call[p].lease = l
    BY <2>1, <2>2 DEF Owning
  <2>4. at[p] \notin {"requires!", "mission!"}
    BY <1>5, <2>3 DEF AtWork, Given
  <2>5. call[p].task \notin canon.paused
    BY <2>1, <2>2, <2>4 DEF TaskOpen
  <2> QED BY <2>3, <2>5, ClaimsTask
<1>6. Stopping(c, op)'
  BY <1>2, <1>4, <1>5, StoppingAside
<1> QED BY <1>1, <1>3, <1>6 DEF Kept

\* A step that leaves the store alone, and one that replaces nodes.
LEMMA SameLeases ==
    ASSUME canon'.mission = canon.mission, canon'.paused = canon.paused,
           canon'.impacts = canon.impacts, canon'.leases = canon.leases
    PROVE  LeasesStay /\ NoNewLease /\ Active(canon') = Active(canon)
BY DEF LeasesStay, NoNewLease, Active

LEMMA NodesOnly ==
    ASSUME Inv, NEW t, NEW s, canon' = [canon EXCEPT !.nodes[t] = s]
    PROVE  /\ canon'.mission = canon.mission /\ canon'.paused = canon.paused
           /\ canon'.impacts = canon.impacts /\ canon'.leases = canon.leases
BY DEF Inv, TypeOK, Machines

LEMMA ClaimKept ==
    ASSUME NEW c, Controllers = {c}, Basis(c), Inv', NEW op, Stopping(c, op),
           NEW p \in Hosts, NEW t \in Tasks, Claim(p, t)
    PROVE  Kept(c, op)'
<1>0. p # c /\ p \in Threads /\ c \in Threads
  BY Apartness
<1>1. /\ UNCHANGED <<canon, rows, held, cleared, controls>>
      /\ Only(p) /\ at'[p] = "requires?" /\ view'[c] = view[c]
  BY <1>0 DEF Claim, Begin, Only, Basis, Inv, TypeOK
<1>2. LeasesStay /\ NoNewLease /\ Active(canon') = Active(canon)
  BY <1>1, SameLeases
<1> QED BY <1>1, <1>2, QuietStep DEF Owning

\* Each of the checks.
LEMMA GateKept ==
    ASSUME NEW c, Controllers = {c}, Basis(c), Inv', NEW op, Stopping(c, op),
           NEW p \in Hosts,
           \/ CheckRequires(p) \/ CheckPaused(p)
           \/ RecheckPaused(p) \/ RecheckRequires(p)
    PROVE  Kept(c, op)'
<1>0. p # c /\ p \in Threads /\ c \in Threads
  BY Apartness
<1>1. UNCHANGED <<canon, rows, view, held, cleared, controls>>
  BY DEF CheckRequires, CheckPaused, RecheckPaused, RecheckRequires, Gate
<1>2. LeasesStay /\ NoNewLease /\ Active(canon') = Active(canon)
  BY <1>1, SameLeases
<1>3. Only(p)
  BY <1>0 DEF CheckRequires, CheckPaused, RecheckPaused, RecheckRequires, Gate,
              Go, End, Only, Basis, Inv, TypeOK
<1>4. at'[p] \in {"idle", "finish", "paused?", "acquire"}
        \/ /\ call' = call
           /\ \/ at[p] = "paused!" /\ at'[p] = "requires!" /\ TaskOpen(call[p].task)
              \/ at[p] = "requires!" /\ at'[p] = "mission!"
  BY <1>0 DEF CheckRequires, CheckPaused, RecheckPaused, RecheckRequires, Gate,
              Go, End, Basis, Inv, TypeOK
<1> QED BY <1>1, <1>2, <1>3, <1>4, QuietStep DEF Owning, Claiming

LEMMA NoteClaimKept ==
    ASSUME NEW c, Controllers = {c}, Basis(c), Inv', NEW op, Stopping(c, op),
           NEW p \in Hosts, NoteClaim(p)
    PROVE  Kept(c, op)'
<1>0. p # c /\ p \in Threads /\ c \in Threads
  BY Apartness
<1>1. LeasesStay /\ NoNewLease /\ Active(canon') = Active(canon)
  BY NodesOnly, SameLeases DEF NoteClaim, Commit, Basis
<1>2. /\ Only(p) /\ at[p] = "note" /\ at'[p] = "paused!" /\ call' = call
      /\ held' = held /\ view'[c] = view[c]
  BY <1>0 DEF NoteClaim, Go, Commit, Only, Basis, Inv, TypeOK
<1> QED BY <1>1, <1>2, QuietStep DEF Owning, Claiming

LEMMA CompleteKept ==
    ASSUME NEW c, Controllers = {c}, Basis(c), Inv', NEW op, Stopping(c, op),
           NEW p \in Hosts, NEW l \in Leases, Complete(p, l)
    PROVE  Kept(c, op)'
<1>0. p # c /\ p \in Threads /\ c \in Threads
  BY Apartness
<1>1. LeasesStay /\ NoNewLease /\ Active(canon') = Active(canon)
  BY SameLeases DEF Complete
<1>2. /\ Only(p) /\ at'[p] \in {"idle", "finish"} /\ held' \subseteq held
      /\ view'[c] = view[c]
  BY <1>0 DEF Complete, Begin, Only, Basis, Inv, TypeOK
<1> QED BY <1>1, <1>2, QuietStep DEF Owning

\* What the commit of _finish_lease makes of the store.
LEMMA FinishedLease ==
    ASSUME Inv, NEW l \in Leases, NEW s \in {"COMPLETED", "RELEASED"},
           canon.leases[l].status # "NONE",
           canon' = [canon EXCEPT !.leases[l].status = s]
    PROVE  /\ LeasesStay /\ NoNewLease
           /\ Active(canon') = Active(canon) \ {l}
<1>1. /\ canon'.mission = canon.mission /\ canon'.paused = canon.paused
      /\ canon'.impacts = canon.impacts
      /\ canon'.leases = [canon.leases EXCEPT ![l].status = s]
  BY DEF Inv, TypeOK, Machines
<1>2. canon.leases \in [Leases -> LeaseRecords]
  BY DEF Inv, TypeOK, Machines, LeaseRecords
<1>3. \A k \in Leases : canon'.leases[k].task = canon.leases[k].task
  BY <1>1, <1>2 DEF LeaseRecords
<1>4. \A k \in Leases :
         canon'.leases[k].status = IF k = l THEN s ELSE canon.leases[k].status
  BY <1>1, <1>2 DEF LeaseRecords
<1> QED BY <1>1, <1>3, <1>4 DEF LeasesStay, NoNewLease, Active

\* A committed status is that of a lease of the store (the request of a host).
LEMMA FinishLeaseKept ==
    ASSUME NEW c, Controllers = {c}, Basis(c), Inv', NEW op, Stopping(c, op),
           NEW p \in Hosts, FinishLease(p)
    PROVE  Kept(c, op)'
<1> DEFINE l == call[p].lease
<1>0. p # c /\ p \in Threads /\ c \in Threads /\ p \notin Controllers
  BY Apartness
<1>1. Only(p) /\ at'[p] \in {"idle", "unclaim"} /\ held' \subseteq held
        /\ view'[c] = view[c]
  BY <1>0 DEF FinishLease, GoOn, Commit, Go, End, Only, Basis, Inv, TypeOK
<1>2. LeasesStay /\ NoNewLease /\ Active(canon') \subseteq Active(canon)
  <2>1. CASE UNCHANGED canon
    BY <2>1, SameLeases
  <2>2. CASE /\ view[p].leases[l].status = "ACTIVE"
             /\ canon.leases[l].status # "NONE"
    <3>1. canon' = [canon EXCEPT !.leases[l].status = call[p].status]
      BY <2>2 DEF FinishLease, Commit
    <3>2. call[p].status \in {"COMPLETED", "RELEASED"}
      BY <1>0 DEF Basis, Inv, TypeOK, Calls
    <3>3. CASE l \in Leases
      BY <2>2, <3>1, <3>2, <3>3, FinishedLease DEF Basis
    <3>4. CASE l \notin Leases
      <4>1. canon \in Machines
        BY DEF Basis, Inv, TypeOK
      <4>2. canon' = canon
        BY <3>1, <3>4, <4>1 DEF Machines
      <4> QED BY <4>2, SameLeases
    <3> QED BY <3>3, <3>4
  <2> QED BY <2>1, <2>2 DEF FinishLease
<1> QED BY <1>1, <1>2, QuietStep DEF Owning

LEMMA UnclaimKept ==
    ASSUME NEW c, Controllers = {c}, Basis(c), Inv', NEW op, Stopping(c, op),
           NEW p \in Hosts, Unclaim(p)
    PROVE  Kept(c, op)'
<1>0. p # c /\ p \in Threads /\ c \in Threads
  BY Apartness
<1>1. LeasesStay /\ NoNewLease /\ Active(canon') = Active(canon)
  BY SameLeases DEF Unclaim
<1>2. /\ Only(p) /\ at'[p] = "unnote" /\ held' = held /\ view'[c] = view[c]
  BY <1>0 DEF Unclaim, Go, Only, Basis, Inv, TypeOK
<1> QED BY <1>1, <1>2, QuietStep DEF Owning

LEMMA NoteFinishKept ==
    ASSUME NEW c, Controllers = {c}, Basis(c), Inv', NEW op, Stopping(c, op),
           NEW p \in Hosts, NoteFinish(p)
    PROVE  Kept(c, op)'
<1>0. p # c /\ p \in Threads /\ c \in Threads /\ p \notin Controllers
  BY Apartness
<1>1. LeasesStay /\ NoNewLease /\ Active(canon') = Active(canon)
  BY NodesOnly, SameLeases DEF NoteFinish, Commit, Basis
<1>2. /\ Only(p) /\ at'[p] = "idle" /\ held' = held /\ view'[c] = view[c]
  BY <1>0 DEF NoteFinish, GoOn, End, Commit, Only, Basis, Inv, TypeOK
<1> QED BY <1>1, <1>2, QuietStep DEF Owning

\* A new identifier is one that nobody has.
LEMMA AcquireKept ==
    ASSUME NEW c, Controllers = {c}, Basis(c), Inv', NEW op, Stopping(c, op),
           NEW p \in Hosts, Acquire(p)
    PROVE  Kept(c, op)'
<1>0. p # c /\ p \in Threads /\ c \in Threads
  BY Apartness
<1>1. UNCHANGED <<canon, view, held, cleared, controls>> /\ at[p] = "acquire"
  BY DEF Acquire
<1>2. LeasesStay /\ NoNewLease /\ Active(canon') = Active(canon)
  BY <1>1, SameLeases
<1>3. CASE rows[call[p].task] # Nothing
  <2>1. Only(p) /\ at'[p] = "idle"
    BY <1>0, <1>3 DEF Acquire, End, Only, Basis, Inv, TypeOK
  <2> QED BY <1>1, <1>2, <2>1, QuietStep DEF Owning
<1>4. CASE rows[call[p].task] = Nothing
  <2>1. PICK l \in Leases :
           /\ canon.leases[l].status = "NONE" /\ l \notin held
           /\ \A q \in Threads : call[q].lease # l
           /\ at' = [at EXCEPT ![p] = "claim"]
           /\ call' = [call EXCEPT ![p].lease = l]
    BY <1>4 DEF Acquire
  <2>2. Only(p) /\ at'[p] = "claim"
    BY <1>0, <2>1 DEF Only, Basis, Inv, TypeOK
  <2>3. call'[p].lease = l
    <3>1. call'[p] = [call[p] EXCEPT !.lease = l] /\ call[p] \in Calls
      BY <1>0, <2>1 DEF Basis, Inv, TypeOK
    <3> QED BY <3>1 DEF Calls
  <2>4. Aside(c)
    BY <1>0, <1>1, <2>2 DEF Aside, Only
  <2>5. Copied(c)' /\ Decisions(c)'
    BY <1>2, <2>4, AsideStep DEF Basis
  <2>6. AtWork' \subseteq AtWork
    BY <1>0, <1>1, <2>2, WorkStep
  <2>7. Stopping(c, op)'
    BY <1>1, <1>2, <2>4, <2>6, StoppingAside DEF LeasesStay
  <2>8. Owned'
    <3> SUFFICES ASSUME NEW q \in Hosts
                 PROVE  /\ Owning(q)' =>
                             /\ call'[q].lease \notin held'
                             /\ \A r \in Hosts : r # q /\ Owning(r)'
                                   => call'[r].lease # call'[q].lease
                        /\ at'[q] = "claim"
                              => canon'.leases[call'[q].lease].status = "NONE"
                        /\ Claiming(q)' /\ canon'.leases[call'[q].lease].status # "NONE"
                              => canon'.leases[call'[q].lease].task = call'[q].task
      BY DEF Owned, Owning, Claiming
    <3>1. CASE q = p
      <4>1. \A r \in Hosts : r # q => call'[r].lease # l
        BY <2>1, <2>2, <3>1 DEF Only, Threads
      <4> QED BY <1>1, <2>1, <2>2, <2>3, <3>1, <4>1 DEF Claiming
    <3>2. CASE q # p
      <4>1. at'[q] = at[q] /\ call'[q] = call[q] /\ call[q].lease # l
        BY <2>1, <2>2, <3>2 DEF Only, Threads
      <4>2. \A r \in Hosts : r # q /\ Owning(r)' =>
               \/ call'[r].lease = l
               \/ Owning(r) /\ call'[r] = call[r]
        BY <2>2, <2>3 DEF Only, Threads, Owning
      <4> QED BY <1>1, <4>1, <4>2 DEF Basis, Owned, Owning, Claiming
    <3> QED BY <3>1, <3>2
  <2> QED BY <2>5, <2>7, <2>8 DEF Kept
<1> QED BY <1>3, <1>4

\* The lease that a claim commits was not there, and is not at work.
LEMMA CommitClaimKept ==
    ASSUME NEW c, Controllers = {c}, Basis(c), Inv', NEW op, Stopping(c, op),
           NEW p \in Hosts, CommitClaim(p)
    PROVE  Kept(c, op)'
<1> DEFINE l == call[p].lease
           t == call[p].task
<1>0. p # c /\ p \in Threads /\ c \in Threads
  BY Apartness
<1>1. PICK n : canon' = [canon EXCEPT !.leases[l] =
                           [status |-> "ACTIVE", task |-> t, attempt |-> n]]
  BY DEF CommitClaim, Commit
<1>2. /\ at[p] = "claim" /\ Only(p) /\ at'[p] = "note" /\ call' = call
      /\ held' = held /\ view'[c] = view[c]
  BY <1>0 DEF CommitClaim, Go, Commit, Only, Basis, Inv, TypeOK
<1>3. l \in Leases /\ canon.leases[l].status = "NONE"
  BY <1>0, <1>2 DEF Basis, Inv, Local, Owned
<1>4. /\ canon'.mission = canon.mission /\ canon'.paused = canon.paused
      /\ canon'.impacts = canon.impacts
      /\ canon'.leases[l].status = "ACTIVE" /\ canon'.leases[l].task = t
      /\ \A k \in Leases \ {l} : canon'.leases[k] = canon.leases[k]
  BY <1>1, <1>3 DEF Basis, Inv, TypeOK, Machines
<1> HIDE DEF l, t
<1>5. LeasesStay
  BY <1>3, <1>4 DEF LeasesStay
<1>6. Aside(c)
  BY <1>0, <1>2 DEF Aside, Only
<1>7. Copied(c)' /\ Decisions(c)'
  BY <1>5, <1>6, AsideStep DEF Basis
<1>8. AtWork' \subseteq AtWork
  BY <1>0, <1>2, WorkStep
<1>9. l \notin AtWork
  <2>1. Owning(p)
    BY <1>2 DEF Owning
  <2>2. \A q \in Hosts : at[q] \in {"requires!", "mission!"} => q # p /\ Owning(q)
    BY <1>2 DEF Owning
  <2> QED BY <2>1, <2>2 DEF AtWork, Given, Basis, Owned, l
<1>10. Stopping(c, op)'
  <2>1. \A k \in Active(canon') :
           \/ k \in Active(canon) /\ canon'.leases[k].task = canon.leases[k].task
           \/ k \notin AtWork'
    BY <1>4, <1>8, <1>9 DEF Active
  <2> QED BY <1>2, <1>5, <1>6, <1>8, <2>1, StoppingAside
<1>11. Owned'
  <2> SUFFICES ASSUME NEW q \in Hosts
               PROVE  /\ Owning(q)' =>
                           /\ call'[q].lease \notin held'
                           /\ \A r \in Hosts : r # q /\ Owning(r)'
                                 => call'[r].lease # call'[q].lease
                      /\ at'[q] = "claim"
                            => canon'.leases[call'[q].lease].status = "NONE"
                      /\ Claiming(q)' /\ canon'.leases[call'[q].lease].status # "NONE"
                            => canon'.leases[call'[q].lease].task = call'[q].task
    BY DEF Owned, Owning, Claiming
  <2>1. \A r \in Hosts : Owning(r)' => Owning(r)
    BY <1>2 DEF Only, Threads, Owning
  <2>2. Owning(q)' => /\ call'[q].lease \notin held'
                      /\ \A r \in Hosts : r # q /\ Owning(r)'
                            => call'[r].lease # call'[q].lease
    BY <1>2, <2>1 DEF Basis, Owned
  <2>3. CASE q = p
    BY <1>2, <1>4, <2>2, <2>3 DEF l, t
  <2>4. CASE q # p
    <3>1. at'[q] = at[q] /\ call'[q] = call[q]
      BY <1>2, <2>4 DEF Only, Threads
    <3>2. Owning(q) => call[q].lease \in Leases \ {l}
      BY <1>2, <2>4 DEF Owning, Basis, Inv, Local, Owned, Threads, l
    <3>3. at[q] = "claim" \/ Claiming(q) => Owning(q)
      BY DEF Owning, Claiming
    <3>4. Claiming(q)' <=> Claiming(q)
      BY <3>1 DEF Claiming
    <3>5. Owning(q) => canon'.leases[call[q].lease] = canon.leases[call[q].lease]
      BY <1>4, <3>2
    <3>6. at'[q] = "claim" => canon'.leases[call'[q].lease].status = "NONE"
      BY <3>1, <3>3, <3>5 DEF Basis, Owned
    <3>7. Claiming(q)' /\ canon'.leases[call'[q].lease].status # "NONE"
              => canon'.leases[call'[q].lease].task = call'[q].task
      BY <3>1, <3>3, <3>4, <3>5 DEF Basis, Owned
    <3> QED BY <2>2, <3>6, <3>7
  <2> QED BY <2>3, <2>4
<1> QED BY <1>7, <1>10, <1>11 DEF Kept

\* A lease is given to a worker when the mission is open, and was at work since
\* the check of the paused tasks.
LEMMA RecheckMissionKept ==
    ASSUME NEW c, Controllers = {c}, Basis(c), Inv', NEW op, Stopping(c, op),
           NEW p \in Hosts, RecheckMission(p)
    PROVE  Kept(c, op)'
<1> DEFINE l == call[p].lease
<1>0. p # c /\ p \in Threads /\ c \in Threads
  BY Apartness
<1>1. UNCHANGED <<canon, rows, view, cleared, controls>> /\ at[p] = "mission!"
  BY DEF RecheckMission
<1>2. LeasesStay /\ NoNewLease /\ Active(canon') = Active(canon)
  BY <1>1, SameLeases
<1>3. Only(p) /\ at'[p] \in {"idle", "finish"}
  BY <1>0 DEF RecheckMission, End, Go, Only, Basis, Inv, TypeOK
<1>4. CASE ~MissionOpen
  <2>1. held' = held
    BY <1>4 DEF RecheckMission
  <2> QED BY <1>1, <1>2, <1>3, <2>1, QuietStep DEF Owning
<1>5. CASE MissionOpen
  <2>1. held' = held \cup {l}
    BY <1>5 DEF RecheckMission
  <2>2. Aside(c)
    BY <1>0, <1>1, <1>3 DEF Aside, Only
  <2>3. Copied(c)' /\ Decisions(c)'
    BY <1>2, <2>2, AsideStep DEF Basis
  <2>4. AtWork' \subseteq AtWork
    BY <1>1, <1>3, <2>1 DEF AtWork, Given, Only, Threads
  <2>5. canon.mission # "SUSPEND"
    BY <1>5 DEF MissionOpen
  <2>6. Stopping(c, op)'
    BY <1>1, <1>2, <2>2, <2>4, <2>5, StoppingAside
  <2>7. Owned'
    <3> SUFFICES ASSUME NEW q \in Hosts
                 PROVE  /\ Owning(q)' =>
                             /\ call'[q].lease \notin held'
                             /\ \A r \in Hosts : r # q /\ Owning(r)'
                                   => call'[r].lease # call'[q].lease
                        /\ at'[q] = "claim"
                              => canon'.leases[call'[q].lease].status = "NONE"
                        /\ Claiming(q)' /\ canon'.leases[call'[q].lease].status # "NONE"
                              => canon'.leases[call'[q].lease].task = call'[q].task
      BY DEF Owned, Owning, Claiming
    <3>1. \A r \in Hosts : Owning(r)' => r # p /\ Owning(r) /\ call'[r] = call[r]
      BY <1>3 DEF Only, Threads, Owning
    <3>2. Owning(p)
      BY <1>1 DEF Owning
    <3>3. CASE q = p
      BY <1>3, <3>1, <3>3 DEF Claiming
    <3>4. CASE q # p
      <4>1. at'[q] = at[q] /\ call'[q] = call[q]
        BY <1>3, <3>4 DEF Only, Threads
      <4>2. Owning(q) => call[q].lease # l
        BY <3>2, <3>4 DEF Basis, Owned
      <4> QED BY <1>1, <2>1, <3>1, <4>1, <4>2 DEF Basis, Owned, Owning, Claiming
    <3> QED BY <3>3, <3>4
  <2> QED BY <2>3, <2>6, <2>7 DEF Kept
<1> QED BY <1>4, <1>5

-----------------------------------------------------------------------------
(* The operator's own steps.                                               *)

\* The operator moves, and what workers have and claim stays as it is.
Operates(c) == Only(c) /\ held' = held

LEMMA OperatorFrame ==
    ASSUME NEW c, Controllers = {c}, Basis(c), Inv', Operates(c), NoNewLease
    PROVE  Owned' /\ AtWork' \subseteq AtWork
<1>1. c \in Threads /\ c \notin Hosts
  BY MissionConstants DEF Threads
<1>2. Owned'
  BY <1>1, OwnedStep DEF Basis, Operates
<1>3. AtWork' \subseteq AtWork
  BY <1>1, WorkStep DEF Operates
<1> QED BY <1>2, <1>3

\* A request begins with a copy of the store.
LEMMA ControlKept ==
    ASSUME NEW c, Controllers = {c}, Basis(c), Inv', NEW op, Stopping(c, op),
           NEW args \in Calls, Control(c, args),
           args.todo = {}, args.lease = Nothing, args.status = "RELEASED",
           args.op = "resume" => args.mode = "RUNNING",
           args.op = "pause" => canon.mission = "RUNNING",
           args.op = "resolve" =>
              args.region \subseteq canon.impacts[args.impact].remaining
    PROVE  Kept(c, op)'
<1>0. c \in Threads
  BY DEF Threads
<1>1. /\ Only(c) /\ at[c] = "idle" /\ at'[c] = "patch" /\ call'[c] = args
      /\ view'[c] = canon /\ UNCHANGED <<canon, rows, held, cleared>>
  BY <1>0 DEF Control, Begin, Only, Basis, Inv, TypeOK
<1>2. NoNewLease
  BY <1>1, SameLeases
<1>3. Owned' /\ AtWork' \subseteq AtWork
  BY <1>1, <1>2, OperatorFrame DEF Operates
<1>4. Copied(c)'
  BY <1>1 DEF Copied
<1>5. Decisions(c)'
  BY <1>1 DEF Decisions, Sweeping
<1>6. Unwanted(canon, op) = {}
  BY <1>1 DEF Stopping, Due, Sweeping
<1>7. Unwanted(canon, op)' = {} /\ Unwanted(view[c], op)' = {}
  BY <1>1, <1>3, <1>6 DEF Unwanted, Active
<1>8. Stopping(c, op)'
  BY <1>7 DEF Stopping
<1> QED BY <1>3, <1>4, <1>5, <1>8 DEF Kept

LEMMA BeginKept ==
    ASSUME NEW c, Controllers = {c}, Basis(c), Inv', NEW op, Stopping(c, op),
           \/ \E mode \in {"QUIESCE", "SUSPEND"} : PauseMission(c, mode)
           \/ ResumeMission(c)
           \/ \E t \in Tasks : AnalyzeChange(c, t)
           \/ \E i \in Impacts, S \in SUBSET Tasks : ResolveImpact(c, i, S)
    PROVE  Kept(c, op)'
<1>1. ASSUME NEW mode \in {"QUIESCE", "SUSPEND"}, PauseMission(c, mode)
      PROVE  Kept(c, op)'
  <2> DEFINE args == [NoCall EXCEPT !.op = "pause", !.mode = mode]
  <2>1. /\ args \in Calls /\ args.op = "pause" /\ args.todo = {}
        /\ args.lease = Nothing /\ args.status = "RELEASED"
    BY DEF NoCall, Calls
  <2>2. Control(c, args) /\ canon.mission = "RUNNING"
    BY <1>1 DEF PauseMission
  <2> HIDE DEF args
  <2> QED BY <2>1, <2>2, ControlKept
<1>2. CASE ResumeMission(c)
  <2> DEFINE args == [NoCall EXCEPT !.op = "resume"]
  <2>1. /\ args \in Calls /\ args.op = "resume" /\ args.mode = "RUNNING"
        /\ args.todo = {} /\ args.lease = Nothing /\ args.status = "RELEASED"
    BY DEF NoCall, Calls
  <2>2. Control(c, args)
    BY <1>2 DEF ResumeMission
  <2> HIDE DEF args
  <2> QED BY <2>1, <2>2, ControlKept
<1>3. ASSUME NEW t \in Tasks, AnalyzeChange(c, t) PROVE Kept(c, op)'
  <2>1. PICK i \in Impacts :
           Control(c, [NoCall EXCEPT !.op = "analyze", !.impact = i,
                                     !.region = Affected({t})])
    BY <1>3 DEF AnalyzeChange
  <2> DEFINE args == [NoCall EXCEPT !.op = "analyze", !.impact = i,
                                    !.region = Affected({t})]
  <2>2. /\ args \in Calls /\ args.op = "analyze" /\ args.todo = {}
        /\ args.lease = Nothing /\ args.status = "RELEASED"
    <3>1. Affected({t}) \subseteq Tasks
      BY DEF Affected
    <3> QED BY <3>1 DEF NoCall, Calls
  <2>3. Control(c, args)
    BY <2>1
  <2> HIDE DEF args
  <2> QED BY <2>2, <2>3, ControlKept
<1>4. ASSUME NEW i \in Impacts, NEW S \in SUBSET Tasks, ResolveImpact(c, i, S)
      PROVE  Kept(c, op)'
  <2> DEFINE args == [NoCall EXCEPT !.op = "resolve", !.impact = i, !.region = S]
  <2>1. /\ args \in Calls /\ args.op = "resolve" /\ args.impact = i /\ args.region = S
        /\ args.todo = {} /\ args.lease = Nothing /\ args.status = "RELEASED"
    BY DEF NoCall, Calls
  <2>2. Control(c, args) /\ S \subseteq canon.impacts[i].remaining
    BY <1>4 DEF ResolveImpact
  <2> HIDE DEF args
  <2> QED BY <2>1, <2>2, ControlKept
<1> QED BY <1>1, <1>2, <1>3, <1>4

\* The sweep goes on: what is to be released stays the same, or is nothing.
LEMMA SweepDue ==
    ASSUME TypeOK, NEW c \in Threads, NEW todo \in SUBSET Leases, Sweep(c, todo)
    PROVE  /\ at'[c] \in {"idle", "finish", "record"} /\ Only(c)
           /\ at'[c] = "idle" => call'[c] = NoCall /\ todo = {}
           /\ at'[c] # "idle" =>
                 /\ call'[c].op = call[c].op /\ call'[c].status = call[c].status
           /\ at'[c] = "finish" => call'[c].todo \cup {call'[c].lease} = todo
           /\ at'[c] = "record" => call'[c].todo = call[c].todo /\ todo = {}
<1>1. CASE todo # {}
  <2>1. PICK l \in todo :
           /\ at' = [at EXCEPT ![c] = "finish"]
           /\ call' = [call EXCEPT ![c].lease = l, ![c].todo = todo \ {l}]
    BY <1>1 DEF Sweep
  <2>2. call[c] \in Calls
    BY DEF TypeOK
  <2>3. call'[c] = [call[c] EXCEPT !.lease = l, !.todo = todo \ {l}]
    BY <2>1 DEF TypeOK
  <2>4. /\ call'[c].lease = l /\ call'[c].todo = todo \ {l}
        /\ call'[c].op = call[c].op /\ call'[c].status = call[c].status
    BY <2>2, <2>3 DEF Calls
  <2>5. at'[c] = "finish" /\ Only(c)
    BY <2>1 DEF TypeOK, Only
  <2> QED BY <2>1, <2>4, <2>5
<1>2. CASE todo = {} /\ call[c].lease # Nothing
  BY <1>2 DEF Sweep, Go, Only, TypeOK
<1>3. CASE todo = {} /\ call[c].lease = Nothing
  BY <1>3 DEF Sweep, End, Only, TypeOK
<1> QED BY <1>1, <1>2, <1>3

\* After the sweep has gone on, everything that was to be released still is.
LEMMA SweepDecisions ==
    ASSUME TypeOK, NEW c \in Threads, NEW todo \in SUBSET Leases, Sweep(c, todo),
           call[c].status = "RELEASED", call[c].todo = todo \/ call[c].todo = {}, NEW op
    PROVE  /\ Decisions(c)'
           /\ call[c].op = op => todo \subseteq Due(c, op)'
<1>1. Decisions(c)'
  BY SweepDue DEF Decisions, Sweeping, NoCall
<1>2. call[c].op = op => todo \subseteq Due(c, op)'
  BY SweepDue DEF Due, Sweeping
<1> QED BY <1>1, <1>2

\* The next lease, after one that needs no release or was released.
LEMMA GoOnKept ==
    ASSUME NEW c, Controllers = {c}, Basis(c), Inv', NEW op, Stopping(c, op),
           GoOn(c), Sweeping(c), at[c] # "record", held' = held,
           canon'.mission = canon.mission, canon'.paused = canon.paused,
           canon'.impacts = canon.impacts, canon'.leases = canon.leases,
           view'[c] = view[c] \/ view'[c] = canon',
           at[c] = "finish" => call[c].lease \notin Active(view[c])
    PROVE  Kept(c, op)'
<1> DEFINE todo == call[c].todo
<1>0. c \in Threads /\ TypeOK
  BY DEF Threads, Basis, Inv
<1>1. todo \in SUBSET Leases /\ Sweep(c, todo)
  BY <1>0 DEF GoOn, TypeOK, Calls
<1>2. Only(c)
  BY <1>0, <1>1, SweepDue
<1>3. LeasesStay /\ NoNewLease /\ Active(canon') = Active(canon)
  BY SameLeases
<1>4. Owned' /\ AtWork' \subseteq AtWork
  BY <1>2, <1>3, OperatorFrame DEF Operates
<1>5. Copied(c)'
  BY DEF Basis, Copied, Sweeping
<1>6. Decisions(c)' /\ (call[c].op = op => todo \subseteq Due(c, op)')
  BY <1>0, <1>1, SweepDecisions DEF Basis, Decisions
<1>7. Unwanted(canon, op) \subseteq Due(c, op)'
  BY <1>6 DEF Stopping, Due, Sweeping
<1>8. Unwanted(view[c], op) \subseteq Due(c, op)'
  <2>1. Unwanted(view[c], op) \subseteq Active(view[c])
    BY DEF Unwanted
  <2> QED BY <1>6, <2>1 DEF Stopping, Due, Sweeping
<1>9. Unwanted(canon, op)' \subseteq Unwanted(canon, op)
  BY <1>3, <1>4 DEF Unwanted
<1>10. Unwanted(view[c], op)' \subseteq Unwanted(view[c], op) \cup Unwanted(canon, op)
  BY <1>3, <1>4 DEF Unwanted, Active
<1>11. Unwanted(canon, op)' \subseteq Active(view[c])'
  <2>1. CASE view'[c] = view[c]
    BY <1>9, <2>1 DEF Stopping, Sweeping, Active
  <2>2. CASE view'[c] = canon'
    BY <2>2 DEF Unwanted, Active
  <2> QED BY <2>1, <2>2
<1>12. Stopping(c, op)'
  BY <1>7, <1>8, <1>9, <1>10, <1>11 DEF Stopping
<1> QED BY <1>4, <1>5, <1>6, <1>12 DEF Kept

\* A lease is released in the store and in the copy; one that is not active in
\* the copy does not work in the store either.
LEMMA ReleaseKept ==
    ASSUME NEW c, Controllers = {c}, Basis(c), Inv', NEW op, Stopping(c, op),
           FinishLease(c)
    PROVE  Kept(c, op)'
<1> DEFINE l == call[c].lease
<1>0. c \in Threads /\ at[c] = "finish" /\ Sweeping(c)
  BY DEF Threads, FinishLease, Sweeping
<1>1. l \in Leases /\ call[c].status = "RELEASED"
  BY <1>0 DEF Basis, Decisions
<1>2. CASE view[c].leases[l].status # "ACTIVE"
  <2>1. GoOn(c) /\ UNCHANGED <<canon, view, held>>
    BY <1>2 DEF FinishLease
  <2>2. l \notin Active(view[c])
    BY <1>2 DEF Active
  <2> QED BY <1>0, <2>1, <2>2, GoOnKept
<1>3. CASE view[c].leases[l].status = "ACTIVE"
  <2>1. canon.leases[l].status # "NONE"
    BY <1>0, <1>1, <1>3 DEF Basis, Copied
  <2>2. /\ canon' = [canon EXCEPT !.leases[l].status = "RELEASED"]
        /\ view'[c] = canon' /\ held' = held
        /\ Only(c) /\ at'[c] = "unclaim" /\ call' = call
    BY <1>0, <1>1, <1>3, <2>1 DEF FinishLease, Commit, Go, Only, Basis, Inv, TypeOK
  <2>3. LeasesStay /\ NoNewLease /\ Active(canon') = Active(canon) \ {l}
    BY <1>1, <2>1, <2>2, FinishedLease DEF Basis
  <2>4. Owned' /\ AtWork' \subseteq AtWork
    BY <2>2, <2>3, OperatorFrame DEF Operates
  <2>5. Copied(c)'
    BY <2>2 DEF Copied
  <2>6. Decisions(c)'
    BY <1>0, <2>2 DEF Basis, Decisions, Sweeping
  <2>7. Unwanted(canon, op)' \subseteq Unwanted(canon, op) \ {l}
    BY <2>2, <2>3, <2>4 DEF Unwanted, LeasesStay, Active
  <2>8. Due(c, op) \ {l} \subseteq Due(c, op)'
    BY <1>0, <2>2 DEF Due, Sweeping
  <2>9. Unwanted(view[c], op)' = Unwanted(canon, op)'
    BY <2>2 DEF Unwanted, Active
  <2>10. Unwanted(canon, op)' \subseteq Active(view[c])'
    BY <2>2 DEF Unwanted, Active
  <2>11. Stopping(c, op)'
    BY <2>7, <2>8, <2>9, <2>10 DEF Stopping
  <2> QED BY <2>4, <2>5, <2>6, <2>11 DEF Kept
<1> QED BY <1>2, <1>3

LEMMA ReleaseClaimKept ==
    ASSUME NEW c, Controllers = {c}, Basis(c), Inv', NEW op, Stopping(c, op), Unclaim(c)
    PROVE  Kept(c, op)'
<1>0. c \in Threads
  BY DEF Threads
<1>1. /\ at[c] = "unclaim" /\ at'[c] = "unnote" /\ call' = call /\ Only(c)
      /\ UNCHANGED <<canon, view, held>>
  BY <1>0 DEF Unclaim, Go, Only, Basis, Inv, TypeOK
<1>2. NoNewLease
  BY <1>1, SameLeases
<1>3. Owned' /\ AtWork' \subseteq AtWork
  BY <1>1, <1>2, OperatorFrame DEF Operates
<1>4. Copied(c)' /\ Decisions(c)'
  BY <1>1 DEF Basis, Copied, Decisions, Sweeping
<1>5. Due(c, op)' = Due(c, op)
  BY <1>1 DEF Due, Sweeping
<1>6. /\ Unwanted(canon, op)' \subseteq Unwanted(canon, op)
      /\ Unwanted(view[c], op)' \subseteq Unwanted(view[c], op)
      /\ Active(view[c])' = Active(view[c])
  BY <1>1, <1>3 DEF Unwanted, Active
<1>7. Stopping(c, op)'
  BY <1>1, <1>5, <1>6 DEF Stopping
<1> QED BY <1>3, <1>4, <1>7 DEF Kept

LEMMA NoteReleaseKept ==
    ASSUME NEW c, Controllers = {c}, Basis(c), Inv', NEW op, Stopping(c, op),
           NoteFinish(c)
    PROVE  Kept(c, op)'
<1>0. c \in Threads
  BY DEF Threads
<1>1. GoOn(c) /\ at[c] = "unnote" /\ held' = held /\ view'[c] = canon'
  BY <1>0 DEF NoteFinish, Commit, Basis, Inv, TypeOK
<1>2. /\ canon'.mission = canon.mission /\ canon'.paused = canon.paused
      /\ canon'.impacts = canon.impacts /\ canon'.leases = canon.leases
  BY NodesOnly DEF NoteFinish, Commit, Basis
<1> QED BY <1>1, <1>2, GoOnKept DEF Sweeping

\* What is patched: the leases of the copy, and the controls that were decided.
LEMMA Patched ==
    ASSUME Inv, NEW c \in Threads, NEW m \in Machines, Patch(c, m)
    PROVE  /\ canon'.leases = m.leases /\ canon'.mission = m.mission
           /\ canon'.paused = m.paused /\ canon'.impacts = m.impacts
           /\ view'[c] = canon'
BY DEF Inv, TypeOK, Machines, Patch, Commit

LEMMA DecidedParts ==
    ASSUME NEW m \in Machines, NEW k,
           k.op \in {"pause", "resume", "analyze", "resolve"}
    PROVE  /\ Decided(m, k).leases = m.leases
           /\ Decided(m, k).mission =
                 IF k.op \in {"pause", "resume"} THEN k.mode ELSE m.mission
           /\ Decided(m, k).paused =
                 IF k.op = "analyze" THEN m.paused \cup k.region
                 ELSE IF k.op = "resolve"
                 THEN (m.paused \ k.region) \cup (m.impacts[k.impact].remaining \ k.region)
                 ELSE m.paused
<1>1. CASE k.op \in {"pause", "resume"}
  BY <1>1 DEF Decided, Machines
<1>2. CASE k.op = "analyze"
  BY <1>2 DEF Decided, Machines
<1>3. CASE k.op = "resolve"
  BY <1>3 DEF Decided, Machines
<1> QED BY <1>1, <1>2, <1>3

\* The decision: the leases of the copy are in the store again, and those that
\* have to end are going to be released.
LEMMA DecideKept ==
    ASSUME NEW c, Controllers = {c}, Basis(c), Inv', NEW op, Stopping(c, op),
           op = "analyze" => RestIsPaused, Decide(c)
    PROVE  Kept(c, op)'
<1> DEFINE k == call[c]
           todo == IF k.op \in {"pause", "analyze"} THEN AffectedLeases(canon', c) ELSE {}
<1>0. /\ c \in Threads /\ TypeOK /\ at[c] = "patch" /\ k \in Calls /\ view[c] \in Machines
      /\ k.op \in {"pause", "resume", "analyze", "resolve"}
  BY DEF Threads, Basis, Inv, TypeOK, Local, Decide
<1>1. /\ k.todo = {} /\ k.lease = Nothing
      /\ k.op = "resume" => k.mode = "RUNNING"
      /\ k.op = "resolve" => k.region \subseteq canon.impacts[k.impact].remaining
  BY <1>0 DEF Basis, Decisions
<1>2. /\ view[c].mission = canon.mission /\ view[c].paused = canon.paused
      /\ view[c].impacts = canon.impacts
      /\ \A l \in Leases : view[c].leases[l].status # "NONE" =>
            /\ canon.leases[l].status # "NONE"
            /\ canon.leases[l].task = view[c].leases[l].task
  BY <1>0 DEF Basis, Copied
<1>3. /\ canon'.leases = view[c].leases /\ view'[c] = canon'
      /\ canon'.mission = IF k.op \in {"pause", "resume"} THEN k.mode ELSE canon.mission
      /\ canon'.paused =
           IF k.op = "analyze" THEN canon.paused \cup k.region
           ELSE IF k.op = "resolve"
           THEN (canon.paused \ k.region) \cup (canon.impacts[k.impact].remaining \ k.region)
           ELSE canon.paused
  <2> DEFINE d == Decided(view[c], k)
  <2>1. d \in Machines
    BY <1>0, DecidedType DEF Basis, Inv, Local
  <2>2. Patch(c, d) /\ Inv
    BY DEF Decide, Basis
  <2>3. /\ d.leases = view[c].leases
        /\ d.mission = IF k.op \in {"pause", "resume"} THEN k.mode ELSE canon.mission
        /\ d.paused =
             IF k.op = "analyze" THEN canon.paused \cup k.region
             ELSE IF k.op = "resolve"
             THEN (canon.paused \ k.region) \cup (canon.impacts[k.impact].remaining \ k.region)
             ELSE canon.paused
    BY <1>0, <1>2, DecidedParts
  <2> HIDE DEF d
  <2>4. /\ canon'.leases = d.leases /\ view'[c] = canon'
        /\ canon'.mission = d.mission /\ canon'.paused = d.paused
    BY <1>0, <2>1, <2>2, Patched
  <2> QED BY <2>3, <2>4
<1>4. todo \in SUBSET Leases
  BY DEF AffectedLeases, Active
<1>5. /\ Only(c) /\ held' = held
      /\ Decisions(c)'
      /\ k.op \in {"pause", "analyze"} /\ k.op = op => todo \subseteq Due(c, op)'
  <2>1. CASE k.op \in {"pause", "analyze"}
    <3>1. Sweep(c, todo) /\ held' = held
      BY <2>1 DEF Decide
    <3>2. Only(c)
      BY <1>0, <1>4, <3>1, SweepDue
    <3>3. k.status = "RELEASED"
      BY <1>0 DEF Basis, Decisions
    <3> QED BY <1>0, <1>1, <1>4, <3>1, <3>2, <3>3, SweepDecisions
  <2>2. CASE k.op \notin {"pause", "analyze"}
    <3>1. End(c) /\ held' = held
      BY <2>2 DEF Decide
    <3>2. Only(c) /\ at'[c] = "idle" /\ call'[c] = NoCall
      BY <1>0, <3>1 DEF End, Only, TypeOK
    <3> QED BY <2>2, <3>1, <3>2 DEF Decisions, Sweeping, NoCall
  <2> QED BY <2>1, <2>2
<1>6. NoNewLease
  BY <1>2, <1>3 DEF NoNewLease
<1>7. Owned' /\ AtWork' \subseteq AtWork
  BY <1>5, <1>6, OperatorFrame DEF Operates
<1>8. Copied(c)'
  BY <1>3 DEF Copied
<1>9. Active(canon') = Active(view[c]) /\ Unwanted(view[c], op) = {}
  BY <1>0, <1>3 DEF Active, Stopping, Due, Sweeping
<1>10. ASSUME NEW l \in Unwanted(canon, op)' PROVE l \in Due(c, op)'
  <2>1. l \in Active(view[c]) /\ l \in Active(canon')
    BY <1>9, <1>10 DEF Unwanted
  <2>2. CASE op = "pause"
    <3>1. canon'.mission = "SUSPEND" /\ l \in held
      BY <1>5, <1>10, <2>2 DEF Unwanted
    <3>2. canon.mission # "SUSPEND"
      BY <1>9, <2>1, <2>2, <3>1 DEF Unwanted
    <3>3. k.op = "pause" /\ k.mode = "SUSPEND"
      BY <1>0, <1>1, <1>3, <3>1, <3>2
    <3>4. l \in AffectedLeases(canon', c)
      BY <2>1, <3>3 DEF AffectedLeases
    <3> QED BY <1>5, <2>2, <3>3, <3>4
  <2>3. CASE op = "analyze"
    <3>1. l \in AtWork /\ canon'.leases[l].task \in canon'.paused
      BY <1>7, <1>10, <2>3 DEF Unwanted
    <3>2. canon'.leases[l].task \notin canon.paused
      BY <1>3, <1>9, <2>1, <2>3, <3>1 DEF Unwanted
    <3>3. k.op = "resolve" => k.impact \in Impacts
      BY <1>0 DEF Basis, Inv, Local
    <3>4. k.op # "resolve"
      BY <1>3, <2>3, <3>1, <3>2, <3>3 DEF RestIsPaused
    <3>5. k.op = "analyze" /\ canon'.leases[l].task \in k.region
      BY <1>0, <1>3, <3>1, <3>2, <3>4
    <3>6. l \in AffectedLeases(canon', c)
      BY <2>1, <3>5 DEF AffectedLeases
    <3> QED BY <1>5, <2>3, <3>5, <3>6
  <2> QED BY <1>10, <2>2, <2>3 DEF Unwanted
<1>11. Stopping(c, op)'
  <2>1. Unwanted(view[c], op)' = Unwanted(canon, op)'
    BY <1>3 DEF Unwanted, Active
  <2>2. Unwanted(canon, op)' \subseteq Active(view[c])'
    BY <1>3 DEF Unwanted, Active
  <2> QED BY <1>10, <2>1, <2>2 DEF Stopping
<1> QED BY <1>5, <1>7, <1>8, <1>11 DEF Kept

\* What is written back at the end has no lease that had to end.
LEMMA RecordKept ==
    ASSUME NEW c, Controllers = {c}, Basis(c), Inv', NEW op, Stopping(c, op), Record(c)
    PROVE  Kept(c, op)'
<1>0. c \in Threads /\ view[c] \in Machines /\ at[c] = "record"
  BY DEF Threads, Basis, Inv, TypeOK, Record
<1>1. /\ canon'.leases = view[c].leases /\ view'[c] = canon'
      /\ canon'.mission = canon.mission /\ canon'.paused = canon.paused
      /\ canon'.impacts = canon.impacts
  <2>1. /\ canon'.leases = view[c].leases /\ canon'.mission = view[c].mission
        /\ canon'.paused = view[c].paused /\ canon'.impacts = view[c].impacts
        /\ view'[c] = canon'
    BY <1>0, Patched DEF Record, Basis
  <2> QED BY <1>0, <2>1 DEF Basis, Copied
<1>2. /\ Only(c) /\ held' = held /\ at'[c] = "idle" /\ call'[c] = NoCall
  BY <1>0 DEF Record, End, Only, Basis, Inv, TypeOK
<1>3. NoNewLease
  BY <1>0, <1>1 DEF NoNewLease, Basis, Copied
<1>4. Owned' /\ AtWork' \subseteq AtWork
  BY <1>2, <1>3, OperatorFrame DEF Operates
<1>5. Copied(c)' /\ Decisions(c)'
  BY <1>2 DEF Copied, Decisions, Sweeping, NoCall
<1>6. Unwanted(canon, op)' \subseteq Unwanted(view[c], op)
  BY <1>1, <1>2, <1>4 DEF Unwanted, Active
<1>7. Unwanted(view[c], op) = {}
  BY <1>0 DEF Stopping, Due, Basis, Decisions
<1>8. Stopping(c, op)'
  BY <1>2, <1>6, <1>7 DEF Stopping
<1> QED BY <1>4, <1>5, <1>8 DEF Kept

LEMMA ReopenKept ==
    ASSUME NEW c, Controllers = {c}, Basis(c), Inv', NEW op, Stopping(c, op),
           NEW t \in Tasks, Reopen(c, t)
    PROVE  Kept(c, op)'
<1>0. c \in Threads
  BY DEF Threads
<1>1. at[c] = "idle" /\ UNCHANGED <<rows, at, call, held, cleared>>
  BY DEF Reopen
<1>2. /\ canon'.mission = canon.mission /\ canon'.paused = canon.paused
      /\ canon'.impacts = canon.impacts /\ canon'.leases = canon.leases
  BY NodesOnly DEF Reopen, Commit, Basis
<1>3. NoNewLease
  BY <1>2, SameLeases
<1>4. Owned' /\ AtWork' \subseteq AtWork
  BY <1>1, <1>3, OperatorFrame DEF Operates, Only
<1>5. Copied(c)' /\ Decisions(c)'
  BY <1>1 DEF Basis, Copied, Decisions, Sweeping
<1>6. Unwanted(canon, op)' \subseteq Unwanted(canon, op)
  BY <1>1, <1>2, <1>4 DEF Unwanted, Active
<1>7. Due(c, op)' = Due(c, op)
  BY <1>1 DEF Due, Sweeping
<1>8. Stopping(c, op)'
  BY <1>1, <1>6, <1>7 DEF Stopping
<1> QED BY <1>4, <1>5, <1>8 DEF Kept

\* While the checkpoints do not overlap, what is left of each of them is paused:
\* the resolution of one takes nothing from the others.
LEMMA RestStaysPaused ==
    ASSUME NEW c, Controllers = {c}, Basis(c), Inv', Next, RestIsPaused,
           ImpactsAreApart, ImpactsAreApart'
    PROVE  RestIsPaused'
<1>0. c \in Threads /\ Inv /\ canon \in Machines
  BY DEF Threads, Basis, Inv, TypeOK
<1>1. CASE UNCHANGED <<canon.impacts, canon.paused>>
  BY <1>1 DEF RestIsPaused
<1>2. CASE Decide(c)
  <2> DEFINE k == call[c]
             d == Decided(view[c], k)
  <2>1. /\ at[c] = "patch" /\ view[c] \in Machines /\ k \in Calls
        /\ k.op \in {"pause", "resume", "analyze", "resolve"}
        /\ k.op \in {"analyze", "resolve"} => k.impact \in Impacts
    BY <1>0, <1>2 DEF Basis, Inv, TypeOK, Local, Decide
  <2>2. view[c].paused = canon.paused /\ view[c].impacts = canon.impacts
    BY <2>1 DEF Basis, Copied
  <2>3. canon'.paused = d.paused /\ canon'.impacts = d.impacts
    <3>1. d \in Machines
      BY <2>1, DecidedType
    <3>2. Patch(c, d)
      BY <1>2 DEF Decide
    <3> HIDE DEF d
    <3> QED BY <1>0, <3>1, <3>2, Patched
  <2>4. CASE k.op \in {"pause", "resume"}
    <3>1. d.paused = canon.paused /\ d.impacts = canon.impacts
      BY <2>1, <2>2, <2>4 DEF Decided, Machines
    <3> QED BY <2>3, <3>1 DEF RestIsPaused
  <2>5. CASE k.op = "analyze"
    <3>1. /\ d.paused = canon.paused \cup k.region
          /\ d.impacts = [canon.impacts EXCEPT ![k.impact] =
                            [status |-> "OPEN", remaining |-> k.region]]
      BY <2>1, <2>2, <2>5 DEF Decided, Machines
    <3> QED BY <1>0, <2>1, <2>3, <3>1 DEF RestIsPaused, Machines
  <2>6. CASE k.op = "resolve"
    <3> DEFINE i == k.impact
               rest == canon.impacts[i].remaining \ k.region
               r == [status |-> IF rest = {} THEN "RESOLVED" ELSE "PARTIAL",
                     remaining |-> rest]
    <3>1. d.paused = (canon.paused \ k.region) \cup rest
          /\ d.impacts = [canon.impacts EXCEPT ![i] = r]
      BY <2>1, <2>2, <2>6 DEF Decided, Machines
    <3>2. i \in Impacts /\ k.region \subseteq canon.impacts[i].remaining
      BY <2>1, <2>6 DEF Basis, Decisions
    <3>3. canon'.impacts[i].remaining = rest
      <4>1. r.remaining = rest /\ i \in DOMAIN canon.impacts
        BY <1>0, <3>2 DEF Machines
      <4> QED BY <2>3, <3>1, <4>1
    <3>4. \A j \in Impacts : j # i => canon'.impacts[j] = canon.impacts[j]
      <4>1. DOMAIN canon.impacts = Impacts
        BY <1>0 DEF Machines
      <4> HIDE DEF r
      <4> QED BY <2>3, <3>1, <4>1
    <3>5. \A j \in Impacts : j # i =>
             canon.impacts[j].remaining \subseteq canon.paused \ k.region
      BY <3>2 DEF RestIsPaused, ImpactsAreApart
    <3>6. canon'.paused = (canon.paused \ k.region) \cup rest
      BY <2>3, <3>1
    <3> HIDE DEF d, rest, i
    <3>7. \A j \in Impacts : canon'.impacts[j].remaining \subseteq canon'.paused
      BY <3>3, <3>4, <3>5, <3>6
    <3> QED BY <3>7 DEF RestIsPaused
  <2> QED BY <2>1, <2>4, <2>5, <2>6
<1>3. CASE Record(c)
  <2>1. at[c] = "record" /\ view[c] \in Machines /\ Patch(c, view[c])
    BY <1>0, <1>3 DEF Record, Inv, TypeOK
  <2>2. UNCHANGED <<canon.impacts, canon.paused>>
    BY <1>0, <2>1, Patched DEF Basis, Copied
  <2> QED BY <1>1, <2>2
<1>4. ASSUME NEW p \in Hosts, WorkerRequest(p)
      PROVE  UNCHANGED <<canon.impacts, canon.paused>>
  BY <1>0, <1>4 DEF WorkerRequest, Claim, Complete, CheckRequires, CheckPaused, Acquire,
     CommitClaim, NoteClaim, RecheckPaused, RecheckRequires, RecheckMission, Gate,
     Commit, Machines
<1>5. ASSUME NEW p \in Threads, FinishLease(p) \/ Unclaim(p) \/ NoteFinish(p)
      PROVE  UNCHANGED <<canon.impacts, canon.paused>>
  BY <1>0, <1>5 DEF FinishLease, Unclaim, NoteFinish, Commit, Machines
<1>6. ASSUME NEW t \in Tasks, Reopen(c, t)
      PROVE  UNCHANGED <<canon.impacts, canon.paused>>
  BY <1>0, <1>6 DEF Reopen, Commit, Machines
<1>7. CASE ControlRequest(c) /\ ~Decide(c) /\ ~Record(c) /\ ~\E t \in Tasks : Reopen(c, t)
  <2>1. UNCHANGED <<canon.impacts, canon.paused>>
    BY <1>7 DEF ControlRequest, PauseMission, ResumeMission, AnalyzeChange,
       ResolveImpact, Control
  <2> QED BY <1>1, <2>1
<1> QED BY <1>1, <1>2, <1>3, <1>4, <1>5, <1>6, <1>7 DEF Next

LEMMA KeptStep ==
    ASSUME NEW c, Controllers = {c}, Basis(c), Inv', NEW op, Stopping(c, op),
           op = "analyze" => RestIsPaused, [Next]_vars
    PROVE  Kept(c, op)'
<1>1. CASE UNCHANGED vars
  <2>1. Owned'
    BY <1>1 DEF vars, Basis, Owned, Owning, Claiming
  <2>2. Copied(c)' /\ Decisions(c)'
    BY <1>1 DEF vars, Basis, Copied, Decisions, Sweeping
  <2>3. Stopping(c, op)'
    BY <1>1 DEF vars, Stopping, Unwanted, Active, Due, Sweeping, AtWork, Given
  <2> QED BY <2>1, <2>2, <2>3 DEF Kept
<1>2. ASSUME NEW p \in Hosts, WorkerRequest(p) PROVE Kept(c, op)'
  BY <1>2, ClaimKept, CompleteKept, GateKept, AcquireKept, CommitClaimKept,
     NoteClaimKept, RecheckMissionKept DEF WorkerRequest
<1>3. CASE ControlRequest(c)
  BY <1>3, BeginKept, ReopenKept, DecideKept, RecordKept DEF ControlRequest
<1>4. ASSUME NEW p \in Threads, FinishLease(p) \/ Unclaim(p) \/ NoteFinish(p)
      PROVE  Kept(c, op)'
  <2>1. CASE p \in Hosts
    BY <1>4, <2>1, FinishLeaseKept, UnclaimKept, NoteFinishKept
  <2>2. CASE p = c
    BY <1>4, <2>2, ReleaseKept, ReleaseClaimKept, NoteReleaseKept
  <2> QED BY <2>1, <2>2 DEF Threads
<1> QED BY <1>1, <1>2, <1>3, <1>4 DEF Next

LEMMA InitKept ==
    ASSUME NEW c, Controllers = {c}, Init, NEW op
    PROVE  Kept(c, op) /\ RestIsPaused
<1>0. c \in Threads
  BY DEF Threads
<1>1. Owned
  BY DEF Init, Owned, Owning, Claiming, Threads
<1>2. Copied(c) /\ Decisions(c)
  BY <1>0 DEF Init, Copied, Decisions, Sweeping, NoCall
<1>3. Active(canon) = {}
  BY DEF Init, Active
<1>4. Stopping(c, op)
  BY <1>0, <1>3 DEF Init, Stopping, Unwanted
<1>5. RestIsPaused
  BY DEF Init, RestIsPaused
<1> QED BY <1>1, <1>2, <1>4, <1>5 DEF Kept

\* One operator's suspension stops the work: when pause_mission has returned, no
\* worker holds an active lease, whatever was claimed, completed or patched back
\* while it ran, for any number of hosts, tasks and leases.
THEOREM SuspensionsStopWork == OneOperator => (Spec => []SuspensionStopsWork)
<1> SUFFICES ASSUME OneOperator PROVE Spec => []SuspensionStopsWork
  OBVIOUS
<1>0. PICK c : Controllers = {c}
  BY DEF OneOperator
<1> DEFINE I == Basis(c) /\ Stopping(c, "pause")
<1>1. Init => I
  BY <1>0, InitInv, InitKept DEF Kept, Basis
<1>2. I /\ [Next]_vars => I'
  BY <1>0, NextInv, KeptStep DEF Kept, Basis
<1>3. I => SuspensionStopsWork
  <2> SUFFICES ASSUME I, canon.mission = "SUSPEND", \A d \in Controllers : call[d].op # "pause",
                      NEW l \in held \cap Active(canon)
               PROVE  FALSE
    BY DEF SuspensionStopsWork
  <2>1. l \in Unwanted(canon, "pause")
    BY DEF Unwanted
  <2>2. Due(c, "pause") = {}
    BY <1>0 DEF Due
  <2> QED BY <2>1, <2>2 DEF Stopping
<1> HIDE DEF I
<1> QED BY <1>1, <1>2, <1>3, PTL DEF Spec

\* One operator's change stops the work on what it affects, as long as the open
\* checkpoints do not overlap: when analyze_change has returned, no worker holds an
\* active lease on a paused task.
THEOREM ChangesStopWork ==
    OneOperator => (Spec /\ []ImpactsAreApart => []ChangeStopsWork)
<1> SUFFICES ASSUME OneOperator PROVE Spec /\ []ImpactsAreApart => []ChangeStopsWork
  OBVIOUS
<1>0. PICK c : Controllers = {c}
  BY DEF OneOperator
<1> DEFINE I == Basis(c) /\ Stopping(c, "analyze") /\ RestIsPaused
<1>1. Init => I
  BY <1>0, InitInv, InitKept DEF Kept, Basis
<1>2. I /\ ImpactsAreApart /\ ImpactsAreApart' /\ [Next]_vars => I'
  <2> SUFFICES ASSUME I, ImpactsAreApart, ImpactsAreApart', [Next]_vars PROVE I'
    OBVIOUS
  <2>1. Inv'
    BY NextInv DEF Basis
  <2>2. Kept(c, "analyze")'
    BY <1>0, <2>1, KeptStep
  <2>3. RestIsPaused'
    <3>1. CASE Next
      BY <1>0, <2>1, <3>1, RestStaysPaused
    <3>2. CASE UNCHANGED vars
      BY <3>2 DEF vars, RestIsPaused
    <3> QED BY <3>1, <3>2
  <2> QED BY <2>1, <2>2, <2>3 DEF Kept, Basis
<1>3. I => ChangeStopsWork
  <2> SUFFICES ASSUME I, \A d \in Controllers : call[d].op # "analyze",
                      NEW l \in held \cap Active(canon),
                      canon.leases[l].task \in canon.paused
               PROVE  FALSE
    BY DEF ChangeStopsWork
  <2>1. l \in Unwanted(canon, "analyze")
    BY DEF Unwanted, AtWork
  <2>2. Due(c, "analyze") = {}
    BY <1>0 DEF Due
  <2> QED BY <2>1, <2>2 DEF Stopping
<1> HIDE DEF I
<1> QED BY <1>1, <1>2, <1>3, PTL DEF Spec
=============================================================================
