-------------------------- MODULE TaskLeasesProofs --------------------------
(***************************************************************************)
(* What the task leases keep for every number of hosts, workers, tasks and *)
(* leases, for long-lived and for resumed engines, and for handlers and    *)
(* crashes of any number and duration: the types, the claim row behind     *)
(* each lease in force, with it the exclusiveness of tasks, the limit, and *)
(* that the leases implement the custody of tasks.                         *)
(***************************************************************************)
EXTENDS LeaseRefinement, FiniteSetTheorems, TLAPS

(* The inductive invariant.                                                *)

\* Lease l of machine m exists: it was recorded, and is ACTIVE or finished.
Recorded(m, l) == m.leases[l].status # "NONE"

\* A recorded lease has a task and a worker, and no lease reaches further than
\* one lease time from now.
Complete == \A l \in Leases : Recorded(machine, l) =>
    /\ machine.leases[l].task \in Tasks /\ machine.leases[l].worker \in Workers
    /\ machine.leases[l].status = "ACTIVE"
          => machine.leases[l].expires <= clock + LeaseTime

\* What a snapshot shows of a lease is still so.
Seen(m) == \A l \in Leases : Recorded(m, l) =>
    /\ Recorded(machine, l)
    /\ m.leases[l].task = machine.leases[l].task
    /\ m.leases[l].worker = machine.leases[l].worker

\* The row of task t holds lease l at least until time e.
Holds(t, l, e) == claims[t].lease = l /\ claims[t].expires >= e

\* A claim row is of the task of its lease.
RowsMatch == \A t \in Tasks : \A l \in Leases :
    claims[t].lease = l /\ Recorded(machine, l) => machine.leases[l].task = t

\* A lease in force is backed by its row, which does not end before it.
Backed == \A l \in Active(machine, clock) :
    Holds(machine.leases[l].task, l, machine.leases[l].expires)

\* A host between acquire_task_claim and LEASE_CLAIMED: the lease is not yet
\* recorded, and its row is in place unless it has expired meanwhile.
Acquired(h) ==
    LET c == call[h] IN
    /\ c.lease \in Leases /\ ~Recorded(machine, c.lease)
    /\ c.task \in Tasks /\ c.worker \in Workers
    /\ \A t \in Tasks : claims[t].lease = c.lease => t = c.task
    /\ clock < c.ts + LeaseTime => Holds(c.task, c.lease, c.ts + LeaseTime)

\* A host in lease_heartbeat: no renewal of the lease reached further.
Renewing(h) ==
    LET c == call[h] IN
    /\ c.lease \in Leases /\ Recorded(machine, c.lease)
    /\ c.worker = machine.leases[c.lease].worker
    /\ machine.leases[c.lease].status = "ACTIVE"
          => machine.leases[c.lease].expires <= c.ts + LeaseTime

\* ... between the renewal of the row and LEASE_HEARTBEAT.
Renewed(h) ==
    LET c == call[h] IN
    machine.leases[c.lease].status = "ACTIVE" /\ clock < c.ts + LeaseTime
        => Holds(machine.leases[c.lease].task, c.lease, c.ts + LeaseTime)

\* The handler of h, or its next one, works on view[h].
Reads(h) == at[h] # "down" /\ (at[h] = "idle" => ~FreshHandlers)

\* What a host knows in the middle of a handler.
Host(h) ==
    /\ call[h].ts <= clock
    /\ Reads(h) => view[h] \in Machines /\ Seen(view[h])
    /\ call[h].op = "claim" => call[h].task \in Tasks /\ call[h].worker \in Workers
    /\ at[h] = "acquired" => Acquired(h)
    /\ at[h] \in {"renewing", "renewed"} => Renewing(h)
    /\ at[h] = "renewed" => Renewed(h)
    /\ at[h] = "finishing" => /\ call[h].lease \in Leases
                              /\ call[h].status \in Finished
    /\ at[h] = "releasing" => /\ call[h].lease \in Leases
                              /\ machine.leases[call[h].lease].status \in Finished

\* Two hosts do not serve one worker at a time, and nobody else works on a
\* lease that is being acquired.
Apart(g, h) ==
    /\ call[g].worker = call[h].worker => call[h].worker = Nothing
    /\ at[h] = "acquired" => call[g].lease # call[h].lease

Inv ==
    /\ TypeOK /\ Complete /\ RowsMatch /\ Backed
    /\ \A h \in Hosts : Host(h)
    /\ \A g, h \in Hosts : g # h => Apart(g, h)

-----------------------------------------------------------------------------
(* Types.                                                                  *)

WorkerRecords == [status : {"ACTIVE", "STALE"}, until : Nat]

LEMMA LeasesType ==
    ASSUME NEW m \in Machines, NEW l, NEW r \in LeaseRecords
    PROVE  LET n == [m EXCEPT !.leases[l] = r] IN
           /\ n \in Machines
           /\ n.leases = [m.leases EXCEPT ![l] = r]
<1> DEFINE f == [m.leases EXCEPT ![l] = r]
<1>1. f \in [Leases -> LeaseRecords]
  BY DEF Machines
<1>2. [m EXCEPT !.leases[l] = r] = [m EXCEPT !.leases = f]
  OBVIOUS
<1> HIDE DEF f
<1>3. [m EXCEPT !.leases = f] \in Machines /\ [m EXCEPT !.leases = f].leases = f
  BY <1>1 DEF Machines
<1> QED BY <1>2, <1>3 DEF f

LEMMA WorkersType ==
    ASSUME NEW m \in Machines, NEW w, NEW r \in WorkerRecords
    PROVE  LET n == [m EXCEPT !.workers[w] = r] IN
           n \in Machines /\ n.leases = m.leases
<1> DEFINE f == [m.workers EXCEPT ![w] = r]
<1>1. f \in [Workers -> WorkerRecords]
  BY DEF Machines, WorkerRecords
<1>2. [m EXCEPT !.workers[w] = r] = [m EXCEPT !.workers = f]
  OBVIOUS
<1> HIDE DEF f
<1>3. [m EXCEPT !.workers = f] \in Machines /\ [m EXCEPT !.workers = f].leases = m.leases
  BY <1>1 DEF Machines, WorkerRecords
<1> QED BY <1>2, <1>3

LEMMA NodesType ==
    ASSUME NEW m \in Machines, NEW t,
           NEW s \in {"ready", "leased", "complete", "failed"}
    PROVE  LET n == [m EXCEPT !.nodes[t] = s] IN
           n \in Machines /\ n.leases = m.leases
<1> DEFINE f == [m.nodes EXCEPT ![t] = s]
<1>1. f \in [Tasks -> {"ready", "leased", "complete", "failed"}]
  BY DEF Machines
<1>2. [m EXCEPT !.nodes[t] = s] = [m EXCEPT !.nodes = f]
  OBVIOUS
<1> HIDE DEF f
<1>3. [m EXCEPT !.nodes = f] \in Machines /\ [m EXCEPT !.nodes = f].leases = m.leases
  BY <1>1 DEF Machines
<1> QED BY <1>2, <1>3

LEMMA LimitType ==
    ASSUME NEW m \in Machines, NEW n \in Limits
    PROVE  LET k == [m EXCEPT !.limit = n] IN k \in Machines /\ k.leases = m.leases
BY DEF Machines

LEMMA DeadlineType == ASSUME NEW t \in Nat PROVE Deadline(t) \in Nat
BY LeaseConstants DEF Deadline

LEMMA NoCallType == NoCall \in Calls
BY DEF NoCall, Calls, Operations

LEMMA LeaseType == ASSUME NEW m \in Machines, NEW l \in Leases
    PROVE /\ m.leases[l] \in LeaseRecords
          /\ m.leases[l].expires \in Nat
          /\ m.leases[l].task \in Tasks \cup {Nothing}
          /\ m.leases[l].worker \in Workers \cup {Nothing}
          /\ m.leases[l].attempt \in Nat
          /\ m.leases[l].status \in {"NONE", "ACTIVE"} \cup Finished
BY DEF Machines, LeaseRecords

-----------------------------------------------------------------------------
(* Frames: what a step of one host leaves to the others.                   *)

Others(h) == \A g \in Hosts : g # h =>
    at'[g] = at[g] /\ call'[g] = call[g] /\ view'[g] = view[g]

Alone(h) == \A g \in Hosts : g # h => Apart(g, h) /\ Apart(h, g)

\* Nobody relies on the row of task t: it is empty, it has expired, or its
\* lease is neither in force nor being acquired by another host.
Gone(h, t) ==
    \/ claims[t].lease = Nothing
    \/ claims[t].expires <= clock
    \/ /\ claims[t].lease \in Leases
       /\ machine.leases[claims[t].lease].status # "ACTIVE"
       /\ \A g \in Hosts : g # h /\ at[g] = "acquired" => call[g].lease # claims[t].lease

\* The new row of t is empty, or of a lease that only h is acquiring.
Taken(h, t) ==
    \/ claims'[t].lease = Nothing
    \/ /\ ~Recorded(machine, claims'[t].lease)
       /\ \A g \in Hosts : g # h /\ at[g] = "acquired" => call[g].lease # claims'[t].lease

\* The row of t is renewed by the one host that works on its lease.
Longer(h, t) ==
    /\ claims'[t].lease = claims[t].lease
    /\ claims[t].lease \in Leases
    /\ machine.leases[claims[t].lease].status = "ACTIVE"
          => machine.leases[claims[t].lease].expires <= claims'[t].expires
    /\ \A g \in Hosts : g # h /\ at[g] \in {"acquired", "renewed"}
          => call[g].lease # claims[t].lease

\* A step of h that leaves the leases alone, and of the claim rows changes only
\* what nobody else relies on.
LEMMA RowStep ==
    ASSUME Inv, NEW h \in Hosts, TypeOK', clock' = clock,
           machine'.leases = machine.leases, Others(h),
           \A t \in Tasks : \/ claims'[t] = claims[t]
                            \/ Gone(h, t) /\ Taken(h, t)
                            \/ Longer(h, t),
           Host(h)', Alone(h)'
    PROVE  Inv'
<1>1. \A l : Recorded(machine', l) <=> Recorded(machine, l)
  BY DEF Recorded
<1>2. Complete'
  BY <1>1 DEF Inv, Complete
<1>3. RowsMatch'
  <2> SUFFICES ASSUME NEW t \in Tasks, NEW l \in Leases,
                      claims'[t].lease = l, Recorded(machine, l)
               PROVE  machine.leases[l].task = t
    BY <1>1 DEF RowsMatch
  <2>1. claims[t].lease = l
    BY LeaseConstants DEF Taken, Longer
  <2> QED BY <2>1 DEF Inv, RowsMatch
<1>4. ASSUME NEW t \in Tasks, NEW l \in Leases, NEW e \in Nat, e > clock, Holds(t, l, e),
             \/ machine.leases[l].status = "ACTIVE"
             \/ \E g \in Hosts : g # h /\ at[g] = "acquired" /\ call[g].lease = l
      PROVE  \/ claims'[t] = claims[t]
             \/ Longer(h, t)
  BY <1>4, LeaseConstants DEF Inv, TypeOK, Gone, Holds
<1>5. Backed'
  <2> SUFFICES ASSUME NEW l \in Active(machine, clock)
               PROVE  Holds(machine.leases[l].task, l, machine.leases[l].expires)'
    BY DEF Backed, Active
  <2> DEFINE t == machine.leases[l].task
             e == machine.leases[l].expires
  <2>1. /\ l \in Leases /\ machine.leases[l].status = "ACTIVE" /\ e > clock
        /\ Holds(t, l, e) /\ t \in Tasks /\ e \in Nat
    <3>1. l \in Leases /\ machine.leases[l].status = "ACTIVE" /\ e > clock
      BY DEF Active
    <3>2. e \in Nat
      BY <3>1, LeaseType DEF Inv, TypeOK
    <3>3. Holds(t, l, e)
      BY DEF Inv, Backed
    <3> QED BY <3>1, <3>2, <3>3 DEF Inv, Complete, Recorded
  <2>2. claims'[t].lease = l /\ claims'[t].expires >= e
    BY <2>1, <1>4 DEF Holds, Longer
  <2> QED BY <2>2 DEF Holds
<1>6. ASSUME NEW g \in Hosts, g # h PROVE Host(g)'
  <2>0. Host(g) /\ at'[g] = at[g] /\ call'[g] = call[g] /\ view'[g] = view[g]
    BY <1>6 DEF Inv, Others
  <2>1. Reads(g)' => view'[g] \in Machines /\ Seen(view[g])'
    <3>1. Reads(g)' => view[g] \in Machines /\ Seen(view[g])
      BY <2>0 DEF Host, Reads
    <3> QED BY <2>0, <3>1 DEF Seen, Recorded
  <2>2. at[g] = "acquired" => Acquired(g)'
    <3> SUFFICES ASSUME at[g] = "acquired" PROVE Acquired(g)'
      OBVIOUS
    <3> DEFINE c == call[g]
    <3>1. Acquired(g)
      BY <2>0 DEF Host
    <3>2. ASSUME NEW t \in Tasks, claims'[t].lease = c.lease PROVE t = c.task
      <4>1. claims[t].lease = c.lease
        BY <1>6, <3>1, <3>2, LeaseConstants DEF Taken, Longer, Acquired
      <4> QED BY <3>1, <4>1 DEF Acquired
    <3>3. ASSUME clock < c.ts + LeaseTime
          PROVE  claims'[c.task].lease = c.lease /\ claims'[c.task].expires >= c.ts + LeaseTime
      <4>1. c.ts + LeaseTime \in Nat /\ c.ts + LeaseTime > clock
        BY <3>3, LeaseConstants DEF Inv, TypeOK, Calls
      <4>2. Holds(c.task, c.lease, c.ts + LeaseTime) /\ c.task \in Tasks /\ c.lease \in Leases
        BY <3>1, <3>3 DEF Acquired
      <4>3. claims'[c.task] = claims[c.task] \/ Longer(h, c.task)
        BY <1>4, <1>6, <4>1, <4>2
      <4>4. ~Longer(h, c.task)
        BY <1>6, <4>2 DEF Longer, Holds
      <4> QED BY <4>2, <4>3, <4>4 DEF Holds
    <3> QED BY <2>0, <3>1, <3>2, <3>3 DEF Acquired, Recorded, Holds
  <2>3. Renewing(g) => Renewing(g)'
    BY <2>0 DEF Renewing, Recorded
  <2>4. at[g] = "renewed" => Renewed(g)'
    <3> SUFFICES ASSUME at[g] = "renewed" PROVE Renewed(g)'
      OBVIOUS
    <3> DEFINE c == call[g]
               t == machine.leases[c.lease].task
    <3>1. Renewed(g) /\ Renewing(g)
      BY <2>0 DEF Host
    <3>2. ASSUME machine.leases[c.lease].status = "ACTIVE", clock < c.ts + LeaseTime
          PROVE  claims'[t].lease = c.lease /\ claims'[t].expires >= c.ts + LeaseTime
      <4>1. c.ts + LeaseTime \in Nat /\ c.ts + LeaseTime > clock
        BY <3>2, LeaseConstants DEF Inv, TypeOK, Calls
      <4>2. Holds(t, c.lease, c.ts + LeaseTime) /\ t \in Tasks /\ c.lease \in Leases
        BY <3>1, <3>2 DEF Renewed, Renewing, Inv, Complete
      <4>3. claims'[t] = claims[t] \/ Longer(h, t)
        BY <1>4, <3>2, <4>1, <4>2
      <4>4. ~Longer(h, t)
        BY <1>6, <4>2 DEF Longer, Holds
      <4> QED BY <4>2, <4>3, <4>4 DEF Holds
    <3> QED BY <2>0, <3>2 DEF Renewed, Holds
  <2> QED BY <2>0, <2>1, <2>2, <2>3, <2>4 DEF Host
<1>7. ASSUME NEW g \in Hosts, NEW k \in Hosts, g # k PROVE Apart(g, k)'
  BY <1>7 DEF Inv, Others, Alone, Apart
<1> QED BY <1>2, <1>3, <1>5, <1>6, <1>7 DEF Inv

\* A step of h that writes lease l alone: nobody else is acquiring it, and nobody
\* else renews it unless it ends here.
LEMMA LeaseStep ==
    ASSUME Inv, NEW h \in Hosts, TypeOK', clock' = clock, claims' = claims,
           Others(h), NEW l \in Leases, NEW r \in LeaseRecords,
           machine'.leases = [machine.leases EXCEPT ![l] = r],
           r.status # "NONE", r.task \in Tasks, r.worker \in Workers,
           Recorded(machine, l) => /\ r.task = machine.leases[l].task
                                   /\ r.worker = machine.leases[l].worker,
           \A t \in Tasks : claims[t].lease = l => t = r.task,
           r.status = "ACTIVE" => r.expires <= clock + LeaseTime,
           r.status = "ACTIVE" /\ r.expires > clock => Holds(r.task, l, r.expires),
           machine.leases[l].status \in Finished => r.status \in Finished,
           \A g \in Hosts : g # h =>
              /\ at[g] = "acquired" => call[g].lease # l
              /\ at[g] \in {"renewing", "renewed"} /\ call[g].lease = l
                    => r.status # "ACTIVE",
           Host(h)', Alone(h)'
    PROVE  Inv'
<1>0. /\ machine'.leases[l] = r
      /\ \A k \in Leases : k # l => machine'.leases[k] = machine.leases[k]
  BY DEF Inv, TypeOK, Machines
<1>1. \A k \in Leases : Recorded(machine, k) => Recorded(machine', k)
  BY <1>0 DEF Recorded
<1>2. Complete'
  BY <1>0 DEF Inv, Complete, Recorded
<1>3. RowsMatch'
  BY <1>0 DEF Inv, RowsMatch, Recorded
<1>4. Backed'
  <2> SUFFICES ASSUME NEW k \in Leases, machine'.leases[k].status = "ACTIVE",
                      machine'.leases[k].expires > clock
               PROVE  Holds(machine'.leases[k].task, k, machine'.leases[k].expires)
    BY DEF Backed, Active, Holds
  <2>1. CASE k = l
    BY <2>1, <1>0
  <2>2. CASE k # l
    BY <2>2, <1>0 DEF Inv, Backed, Active
  <2> QED BY <2>1, <2>2
<1>5. ASSUME NEW g \in Hosts, g # h PROVE Host(g)'
  <2>0. Host(g) /\ at'[g] = at[g] /\ call'[g] = call[g] /\ view'[g] = view[g]
    BY <1>5 DEF Inv, Others
  <2>1. Reads(g)' => view'[g] \in Machines /\ Seen(view[g])'
    <3>1. Reads(g)' => view[g] \in Machines /\ Seen(view[g])
      BY <2>0 DEF Host, Reads
    <3>2. Seen(view[g]) => Seen(view[g])'
      BY <2>0, <1>0, <1>1 DEF Seen, Recorded
    <3> QED BY <2>0, <3>1, <3>2
  <2>2. at[g] = "acquired" => Acquired(g)'
    <3>1. at[g] = "acquired" => Acquired(g) /\ call[g].lease # l
      BY <1>5, <2>0 DEF Host
    <3> QED BY <1>0, <2>0, <3>1 DEF Acquired, Recorded, Holds
  <2>3. at[g] \in {"renewing", "renewed"} => Renewing(g)'
    <3>1. at[g] \in {"renewing", "renewed"}
             => Renewing(g) /\ (call[g].lease = l => r.status # "ACTIVE")
      BY <1>5, <2>0 DEF Host
    <3> QED BY <1>0, <2>0, <3>1 DEF Renewing, Recorded
  <2>4. at[g] = "renewed" => Renewed(g)'
    <3>1. at[g] = "renewed"
             => /\ Renewed(g) /\ call[g].lease \in Leases
                /\ call[g].lease = l => r.status # "ACTIVE"
      <4>1. at[g] = "renewed" => Renewed(g) /\ Renewing(g)
        BY <2>0 DEF Host
      <4>2. at[g] = "renewed" /\ call[g].lease = l => r.status # "ACTIVE"
        BY <1>5
      <4> QED BY <4>1, <4>2 DEF Renewing
    <3>2. CASE at[g] = "renewed" /\ call[g].lease = l
      BY <1>0, <2>0, <3>1, <3>2 DEF Renewed
    <3>3. CASE at[g] = "renewed" /\ call[g].lease # l
      <4>1. machine'.leases[call[g].lease] = machine.leases[call[g].lease]
        BY <1>0, <3>1, <3>3
      <4> QED BY <2>0, <3>1, <3>3, <4>1 DEF Renewed, Holds
    <3> QED BY <3>2, <3>3
  <2>5. at[g] = "releasing" => machine'.leases[call[g].lease].status \in Finished
    <3>1. at[g] = "releasing" => /\ call[g].lease \in Leases
                                 /\ machine.leases[call[g].lease].status \in Finished
      BY <2>0 DEF Host
    <3> QED BY <1>0, <3>1
  <2> QED BY <2>0, <2>1, <2>2, <2>3, <2>4, <2>5 DEF Host
<1>6. ASSUME NEW g \in Hosts, NEW k \in Hosts, g # k PROVE Apart(g, k)'
  BY <1>6 DEF Inv, Others, Alone, Apart
<1> QED BY <1>2, <1>3, <1>4, <1>5, <1>6 DEF Inv

-----------------------------------------------------------------------------
(* Handlers begin.                                                         *)

LEMMA SnapshotIsSeen ==
    ASSUME Inv, NEW h \in Hosts, at[h] = "idle"
    PROVE  Snapshot(h) \in Machines /\ Seen(Snapshot(h))
<1>1. machine \in Machines /\ Seen(machine)
  BY DEF Inv, TypeOK, Seen
<1>2. ~FreshHandlers => view[h] \in Machines /\ Seen(view[h])
  BY DEF Inv, Host, Reads
<1> QED BY <1>1, <1>2 DEF Snapshot

\* A handler that begins knows what its snapshot shows, and takes its worker
\* for itself.
LEMMA BeginStep ==
    ASSUME Inv, NEW h \in Hosts,
           NEW step \in {"sweeping", "finishing", "renewing", "reaping"},
           NEW c \in Calls, Begin(h, step, c),
           UNCHANGED <<clock, machine, claims, crashes>>,
           c.ts = clock,
           c.worker = Nothing \/ Serial(c.worker),
           c.lease = Nothing \/ (c.lease \in Leases /\ Recorded(Snapshot(h), c.lease)),
           c.op = "claim" => c.task \in Tasks /\ c.worker \in Workers,
           step = "renewing" =>
              /\ c.lease \in Leases
              /\ c.worker = Snapshot(h).leases[c.lease].worker,
           step = "finishing" => c.lease \in Leases /\ c.status \in Finished
    PROVE  Inv'
<1>0. Snapshot(h) \in Machines /\ Seen(Snapshot(h)) /\ at[h] = "idle"
  BY SnapshotIsSeen DEF Begin
<1>1. at'[h] = step /\ call'[h] = c /\ view'[h] = Snapshot(h) /\ Others(h)
  BY DEF Begin, Inv, TypeOK, Others
<1>2. TypeOK'
  BY <1>0 DEF Inv, TypeOK, Begin, Steps
<1>3. c.lease # Nothing => Recorded(machine, c.lease)
  BY <1>0 DEF Seen
<1>4. Host(h)'
  <2>1. Seen(view[h])'
    BY <1>0, <1>1 DEF Seen, Recorded
  <2>2. step = "renewing" => Renewing(h)'
    <3> SUFFICES ASSUME step = "renewing" PROVE Renewing(h)'
      OBVIOUS
    <3>1. c.lease \in Leases /\ c.lease # Nothing /\ Recorded(machine, c.lease)
      BY <1>3, LeaseConstants
    <3>2. Recorded(Snapshot(h), c.lease)
      BY <3>1
    <3>3. c.worker = machine.leases[c.lease].worker
      BY <1>0, <3>1, <3>2 DEF Seen
    <3>4. machine.leases[c.lease].status = "ACTIVE"
             => machine.leases[c.lease].expires <= clock + LeaseTime
      BY <3>1 DEF Inv, Complete
    <3> QED BY <1>1, <3>1, <3>3, <3>4 DEF Renewing, Recorded
  <2>3. clock' <= clock'
    BY DEF Inv, TypeOK
  <2> QED BY <1>0, <1>1, <2>1, <2>2, <2>3 DEF Host
<1>5. Alone(h)'
  <2> SUFFICES ASSUME NEW g \in Hosts, g # h
               PROVE  Apart(g, h)' /\ Apart(h, g)'
    BY DEF Alone
  <2>1. at'[g] = at[g] /\ call'[g] = call[g] /\ at'[h] # "acquired"
    BY <1>1 DEF Others
  <2>2. call[g].worker = c.worker => c.worker = Nothing
    BY DEF Serial
  <2>3. at[g] = "acquired" => call[g].lease # c.lease
    BY <1>3, LeaseConstants DEF Inv, Host, Acquired
  <2> QED BY <1>1, <2>1, <2>2, <2>3 DEF Apart
<1> QED BY <1>1, <1>2, <1>4, <1>5, RowStep

LEMMA OverdueType == ASSUME NEW m, NEW t PROVE Overdue(m, t) \in SUBSET Leases
BY DEF Overdue

LEMMA ClaimStep ==
    ASSUME Inv, NEW h \in Hosts, NEW t \in Tasks, NEW w \in Workers, Claim(h, t, w)
    PROVE  Inv'
<1> DEFINE step == "sweeping"
           todo == Overdue(Snapshot(h), clock)
           c == [NoCall EXCEPT !.op = "claim", !.ts = clock, !.task = t,
                               !.worker = w, !.todo = todo]
<1>1. todo \in SUBSET Leases
  BY OverdueType
<1> HIDE DEF todo
<1>2. c \in Calls
  BY <1>1 DEF NoCall, Calls, Operations, Inv, TypeOK
<1>3. Begin(h, step, c)
  BY DEF Claim, todo
<1>4. c.ts = clock /\ c.worker = w /\ c.lease = Nothing /\ c.op = "claim" /\ c.task = t
  BY DEF NoCall
<1>5. Serial(w) /\ UNCHANGED <<clock, machine, claims, crashes>>
  BY DEF Claim
<1>9. step \in {"sweeping", "reaping"}
  OBVIOUS
<1> HIDE DEF c, step
<1> QED BY <1>2, <1>3, <1>4, <1>5, <1>9, BeginStep

LEMMA HeartbeatStep ==
    ASSUME Inv, NEW h \in Hosts, NEW l \in Leases, Heartbeat(h, l)
    PROVE  Inv'
<1> DEFINE r == Snapshot(h).leases[l]
           late == r.expires <= clock
           todo == IF late THEN Overdue(Snapshot(h), clock) ELSE {}
           step == IF late THEN "sweeping" ELSE "renewing"
           c == [NoCall EXCEPT !.op = "heartbeat", !.ts = clock, !.lease = l,
                               !.worker = r.worker, !.todo = todo]
<1>1. Begin(h, step, c) /\ r.status = "ACTIVE" /\ Serial(r.worker)
      /\ UNCHANGED <<clock, machine, claims, crashes>>
  BY DEF Heartbeat
<1>2. todo \in SUBSET Leases
  BY OverdueType
<1>3. Snapshot(h) \in Machines
  BY <1>1, SnapshotIsSeen DEF Begin
<1>4. r.worker \in Workers \cup {Nothing}
  BY <1>3, LeaseType
<1>5. step \in {"sweeping", "renewing"}
  OBVIOUS
<1> HIDE DEF todo, step, late
<1>6. c \in Calls
  BY <1>2, <1>4 DEF NoCall, Calls, Operations, Inv, TypeOK
<1>7. c.ts = clock /\ c.worker = r.worker /\ c.lease = l /\ c.op = "heartbeat"
  BY DEF NoCall
<1>8. Recorded(Snapshot(h), l)
  BY <1>1 DEF Recorded
<1> HIDE DEF c
<1> QED BY <1>1, <1>5, <1>6, <1>7, <1>8, BeginStep

LEMMA FinishStep ==
    ASSUME Inv, NEW h \in Hosts, NEW l \in Leases,
           NEW s \in {"COMPLETED", "FAILED", "RELEASED"}, Finish(h, l, s)
    PROVE  Inv'
<1> DEFINE r == Snapshot(h).leases[l]
           n == IF s = "RELEASED" \/ InTime(Snapshot(h), l, clock)
                THEN s ELSE "EXPIRED"
           c == [NoCall EXCEPT !.op = "finish", !.ts = clock, !.lease = l,
                               !.worker = r.worker, !.status = n]
<1>1. Begin(h, "finishing", c) /\ r.status = "ACTIVE" /\ Serial(r.worker)
      /\ UNCHANGED <<clock, machine, claims, crashes>>
  BY DEF Finish
<1>2. n \in Finished
  BY DEF Finished
<1>3. Snapshot(h) \in Machines
  BY <1>1, SnapshotIsSeen DEF Begin
<1>4. r.worker \in Workers \cup {Nothing}
  BY <1>3, LeaseType
<1> HIDE DEF n
<1>6. c \in Calls
  BY <1>2, <1>4 DEF NoCall, Calls, Operations, Inv, TypeOK
<1>7. c.ts = clock /\ c.worker = r.worker /\ c.lease = l /\ c.op = "finish" /\ c.status = n
  BY DEF NoCall
<1>8. Recorded(Snapshot(h), l)
  BY <1>1 DEF Recorded
<1> HIDE DEF c
<1> QED BY <1>1, <1>2, <1>6, <1>7, <1>8, BeginStep

LEMMA ExpireStep ==
    ASSUME Inv, NEW h \in Hosts, ExpireLeases(h)
    PROVE  Inv'
<1> DEFINE step == "sweeping"
           todo == Overdue(Snapshot(h), clock)
           c == [NoCall EXCEPT !.op = "expire", !.ts = clock, !.todo = todo]
<1>1. Begin(h, step, c) /\ UNCHANGED <<clock, machine, claims, crashes>>
  BY DEF ExpireLeases
<1>2. todo \in SUBSET Leases
  BY OverdueType
<1> HIDE DEF todo
<1>3. c \in Calls
  BY <1>2 DEF NoCall, Calls, Operations, Inv, TypeOK
<1>4. c.ts = clock /\ c.worker = Nothing /\ c.lease = Nothing /\ c.op = "expire"
  BY DEF NoCall
<1>9. step \in {"sweeping", "reaping"}
  OBVIOUS
<1> HIDE DEF c, step
<1> QED BY <1>1, <1>3, <1>4, <1>9, BeginStep

LEMMA ReapStaleStep ==
    ASSUME Inv, NEW h \in Hosts, ReapStaleWorkers(h)
    PROVE  Inv'
<1> DEFINE step == "reaping"
           late == Silent(Snapshot(h), clock)
           c == [NoCall EXCEPT !.op = "reap", !.ts = clock, !.late = late]
<1>1. Begin(h, step, c) /\ UNCHANGED <<clock, machine, claims, crashes>>
  BY DEF ReapStaleWorkers
<1>2. late \in SUBSET Workers
  BY DEF Silent
<1> HIDE DEF late
<1>3. c \in Calls
  BY <1>2 DEF NoCall, Calls, Operations, Inv, TypeOK
<1>4. c.ts = clock /\ c.worker = Nothing /\ c.lease = Nothing /\ c.op = "reap"
  BY DEF NoCall
<1>9. step \in {"sweeping", "reaping"}
  OBVIOUS
<1> HIDE DEF c, step
<1> QED BY <1>1, <1>3, <1>4, <1>9, BeginStep

-----------------------------------------------------------------------------
(* Handlers return.                                                        *)

\* A host that is done knows nothing but its copy, and is in nobody's way.
LEMMA IdleHost ==
    ASSUME Inv, NEW h \in Hosts, TypeOK', Others(h),
           at'[h] \in {"idle", "down"}, call'[h] = NoCall,
           Reads(h)' => view'[h] \in Machines /\ Seen(view[h])'
    PROVE  Host(h)' /\ Alone(h)'
<1>1. Host(h)'
  BY DEF Host, NoCall, TypeOK
<1>2. ASSUME NEW g \in Hosts, g # h PROVE Apart(g, h)' /\ Apart(h, g)'
  <2>1. at[g] = "acquired" => call[g].lease \in Leases
    BY DEF Inv, Host, Acquired
  <2> QED BY <1>2, <2>1, LeaseConstants DEF Others, Apart, NoCall
<1> QED BY <1>1, <1>2 DEF Alone

\* The last commit of a handler, or none, without a change of the leases.
LEMMA EndStep ==
    ASSUME Inv, NEW h \in Hosts, Idle(h), clock' = clock, crashes' = crashes,
           machine' \in Machines, machine'.leases = machine.leases,
           NEW m, view' = [view EXCEPT ![h] = Kept(m)],
           m = machine' \/ (at[h] # "idle" /\ m = view[h]),
           at[h] # "down",
           claims' \in [Tasks -> [lease : Leases \cup {Nothing}, expires : Nat]],
           \A t \in Tasks : \/ claims'[t] = claims[t]
                            \/ Gone(h, t) /\ Taken(h, t)
    PROVE  Inv'
<1>1. TypeOK /\ (at[h] # "idle" => view[h] \in Machines /\ Seen(view[h]))
  BY DEF Inv, Host, Reads
<1>2. m \in Machines
  BY <1>1
<1>3. /\ Others(h) /\ at'[h] = "idle" /\ call'[h] = NoCall
      /\ view'[h] = Kept(m) /\ view' \in [Hosts -> Machines \cup {Nothing}]
  BY <1>1, <1>2 DEF Idle, Others, TypeOK, Kept
<1>4. TypeOK'
  BY <1>1, <1>3, NoCallType DEF Idle, TypeOK, Steps
<1>5. Seen(m)'
  <2>1. CASE m = machine'
    BY <2>1 DEF Seen
  <2>2. CASE at[h] # "idle" /\ m = view[h]
    BY <1>1, <2>2 DEF Seen, Recorded
  <2> QED BY <2>1, <2>2
<1>6. Reads(h)' => view'[h] \in Machines /\ Seen(view[h])'
  BY <1>2, <1>3, <1>5 DEF Reads, Kept, Seen, Recorded
<1>7. Host(h)' /\ Alone(h)'
  BY <1>3, <1>4, <1>6, IdleHost
<1> QED BY <1>3, <1>4, <1>7, RowStep

LEMMA CommitLastStep ==
    ASSUME Inv, NEW h \in Hosts, at[h] # "down",
           NEW m \in Machines, m.leases = machine.leases, CommitLast(h, m),
           UNCHANGED <<clock, claims, crashes>>
    PROVE  Inv'
<1>1. claims \in [Tasks -> [lease : Leases \cup {Nothing}, expires : Nat]]
  BY DEF Inv, TypeOK
<1>2. Idle(h) /\ machine' = m /\ view' = [view EXCEPT ![h] = Kept(m)]
  BY DEF CommitLast
<1> QED BY <1>1, <1>2, EndStep

LEMMA ReturnStep ==
    ASSUME Inv, NEW h \in Hosts, at[h] \notin {"idle", "down"}, Return(h),
           clock' = clock, crashes' = crashes,
           claims' \in [Tasks -> [lease : Leases \cup {Nothing}, expires : Nat]],
           \A t \in Tasks : \/ claims'[t] = claims[t]
                            \/ Gone(h, t) /\ Taken(h, t)
    PROVE  Inv'
<1>1. machine \in Machines
  BY DEF Inv, TypeOK
<1>2. Idle(h) /\ machine' = machine /\ view' = [view EXCEPT ![h] = Kept(view[h])]
  BY DEF Return, Inv, TypeOK
<1> QED BY <1>1, <1>2, EndStep

LEMMA WorkerHeartbeatStep ==
    ASSUME Inv, NEW h \in Hosts, NEW w \in Workers, WorkerHeartbeat(h, w)
    PROVE  Inv'
<1> DEFINE r == [status |-> IF Snapshot(h).workers[w].status = "STALE" THEN "ACTIVE"
                            ELSE machine.workers[w].status,
                 until |-> Deadline(clock)]
<1>1. machine \in Machines /\ clock \in Nat
  BY DEF Inv, TypeOK
<1>2. r \in WorkerRecords
  <2>1. machine.workers[w].status \in {"ACTIVE", "STALE"}
    BY <1>1 DEF Machines
  <2>2. Deadline(clock) \in Nat
    BY <1>1, DeadlineType
  <2> QED BY <2>1, <2>2 DEF WorkerRecords
<1>3. at[h] = "idle" /\ CommitLast(h, SetWorker(w, r)) /\ UNCHANGED <<clock, claims, crashes>>
  BY DEF WorkerHeartbeat
<1> HIDE DEF r
<1>4. SetWorker(w, r) \in Machines /\ SetWorker(w, r).leases = machine.leases
  BY <1>1, <1>2, WorkersType DEF SetWorker
<1> QED BY <1>3, <1>4, CommitLastStep

LEMMA SetLimitStep ==
    ASSUME Inv, NEW h \in Hosts, NEW n \in Limits, SetLimit(h, n)
    PROVE  Inv'
<1>1. machine \in Machines
  BY DEF Inv, TypeOK
<1> DEFINE m == [machine EXCEPT !.limit = n]
<1>2. m \in Machines /\ m.leases = machine.leases
  BY <1>1, LimitType
<1>3. at[h] = "idle" /\ CommitLast(h, m) /\ UNCHANGED <<clock, claims, crashes>>
  BY DEF SetLimit
<1> HIDE DEF m
<1> QED BY <1>2, <1>3, CommitLastStep

LEMMA SweepDoneStep ==
    ASSUME Inv, NEW h \in Hosts, SweepDone(h) \/ ReapDone(h)
    PROVE  Inv'
<1>1. at[h] = "sweeping" /\ Return(h) /\ UNCHANGED <<clock, claims, crashes>>
  BY DEF SweepDone, ReapDone
<1>2. claims \in [Tasks -> [lease : Leases \cup {Nothing}, expires : Nat]]
  BY DEF Inv, TypeOK
<1> QED BY <1>1, <1>2, ReturnStep

LEMMA StaleWorkerType ==
    ASSUME Inv, NEW w \in Workers
    PROVE  LET m == SetWorker(w, [machine.workers[w] EXCEPT !.status = "STALE"]) IN
           m \in Machines /\ m.leases = machine.leases
<1>1. machine \in Machines
  BY DEF Inv, TypeOK
<1>2. [machine.workers[w] EXCEPT !.status = "STALE"] \in WorkerRecords
  BY <1>1 DEF Machines, WorkerRecords
<1> QED BY <1>1, <1>2, WorkersType DEF SetWorker

LEMMA RefuseWorkerStep ==
    ASSUME Inv, NEW h \in Hosts, RefuseWorker(h)
    PROVE  Inv'
<1> DEFINE w == call[h].worker
           m == SetWorker(w, [machine.workers[w] EXCEPT !.status = "STALE"])
<1>1. /\ at[h] = "sweeping" /\ call[h].op = "claim"
      /\ CommitLast(h, m) \/ Return(h)
      /\ UNCHANGED <<clock, claims, crashes>>
  BY DEF RefuseWorker, ReadyToAcquire
<1>2. w \in Workers
  BY <1>1 DEF Inv, Host
<1>3. m \in Machines /\ m.leases = machine.leases
  BY <1>2, StaleWorkerType
<1>4. claims \in [Tasks -> [lease : Leases \cup {Nothing}, expires : Nat]]
  BY DEF Inv, TypeOK
<1> HIDE DEF m
<1>5. CASE CommitLast(h, m)
  BY <1>1, <1>3, <1>5, CommitLastStep
<1>6. CASE Return(h)
  BY <1>1, <1>4, <1>6, ReturnStep
<1> QED BY <1>1, <1>5, <1>6

LEMMA NoteClaimStep ==
    ASSUME Inv, NEW h \in Hosts, NoteClaim(h)
    PROVE  Inv'
<1> DEFINE m == SetNode(call[h].task, "leased")
<1>1. m \in Machines /\ m.leases = machine.leases
  BY NodesType DEF SetNode, Inv, TypeOK
<1>2. at[h] = "recorded" /\ CommitLast(h, m) /\ UNCHANGED <<clock, claims, crashes>>
  BY DEF NoteClaim
<1> HIDE DEF m
<1> QED BY <1>1, <1>2, CommitLastStep

\* The purge of the rows that have expired takes nobody's row.
LEMMA PurgeIsHarmless ==
    ASSUME Inv, NEW h \in Hosts
    PROVE  /\ Live(call[h].ts) \in [Tasks -> [lease : Leases \cup {Nothing}, expires : Nat]]
           /\ \A t \in Tasks : \/ Live(call[h].ts)[t] = claims[t]
                               \/ /\ claims[t].expires <= clock
                                  /\ Live(call[h].ts)[t] = NoRow
<1>1. call[h].ts <= clock /\ call[h].ts \in Nat /\ clock \in Nat
      /\ claims \in [Tasks -> [lease : Leases \cup {Nothing}, expires : Nat]]
  BY DEF Inv, TypeOK, Host, Calls
<1> QED BY <1>1 DEF Live, NoRow

LEMMA RefuseClaimStep ==
    ASSUME Inv, NEW h \in Hosts, RefuseClaim(h)
    PROVE  Inv'
<1>1. /\ at[h] = "sweeping" /\ Return(h) /\ clock' = clock /\ crashes' = crashes
      /\ claims' \in {claims, Live(call[h].ts)}
  BY DEF RefuseClaim, ReadyToAcquire
<1>2. claims' \in [Tasks -> [lease : Leases \cup {Nothing}, expires : Nat]]
  BY <1>1, PurgeIsHarmless DEF Inv, TypeOK
<1>3. ASSUME NEW t \in Tasks
      PROVE  claims'[t] = claims[t] \/ (Gone(h, t) /\ Taken(h, t))
  BY <1>1, PurgeIsHarmless DEF Gone, Taken, NoRow
<1> QED BY <1>1, <1>2, <1>3, ReturnStep

LEMMA AbandonStep ==
    ASSUME Inv, NEW h \in Hosts, AbandonClaim(h)
    PROVE  Inv'
<1> DEFINE l == call[h].lease
<1>1. /\ at[h] = "acquired" /\ Return(h) /\ clock' = clock /\ crashes' = crashes
      /\ claims' = Without(l)
  BY DEF AbandonClaim
<1>2. /\ l \in Leases /\ machine.leases[l].status = "NONE"
      /\ \A g \in Hosts : g # h => call[g].lease # l
  BY <1>1 DEF Inv, Host, Acquired, Recorded, Apart
<1>3. claims' \in [Tasks -> [lease : Leases \cup {Nothing}, expires : Nat]]
  BY <1>1 DEF Inv, TypeOK, Without, NoRow
<1>4. ASSUME NEW t \in Tasks
      PROVE  claims'[t] = claims[t] \/ (Gone(h, t) /\ Taken(h, t))
  BY <1>1, <1>2 DEF Gone, Taken, NoRow, Without
<1> QED BY <1>1, <1>3, <1>4, ReturnStep

-----------------------------------------------------------------------------
(* Handlers go on.                                                         *)

LEMMA MidStep ==
    ASSUME Inv, NEW h \in Hosts, at[h] \notin {"idle", "down"},
           NEW step \in {"sweeping", "noting"}, at' = [at EXCEPT ![h] = step],
           NEW c \in Calls, call' = [call EXCEPT ![h] = c],
           c.op = call[h].op, c.ts = call[h].ts, c.task = call[h].task,
           c.worker = call[h].worker, c.lease = call[h].lease,
           clock' = clock, crashes' = crashes,
           machine' \in Machines, machine'.leases = machine.leases,
           NEW m, view' = [view EXCEPT ![h] = m], m = machine' \/ m = view[h],
           claims' \in [Tasks -> [lease : Leases \cup {Nothing}, expires : Nat]],
           \A t \in Tasks : claims'[t] = claims[t] \/ (Gone(h, t) /\ Taken(h, t))
    PROVE  Inv'
<1>1. TypeOK /\ view[h] \in Machines /\ Seen(view[h]) /\ Host(h)
  BY DEF Inv, Host, Reads
<1>2. m \in Machines
  BY <1>1
<1>3. Others(h) /\ at'[h] = step /\ call'[h] = c /\ view'[h] = m
  BY <1>1 DEF Others, TypeOK
<1>4. TypeOK'
  BY <1>1, <1>2 DEF TypeOK, Steps
<1>5. Seen(m)'
  <2>1. CASE m = machine'
    BY <2>1 DEF Seen
  <2>2. CASE m = view[h]
    BY <1>1, <2>2 DEF Seen, Recorded
  <2> QED BY <2>1, <2>2
<1>6. Host(h)'
  BY <1>1, <1>2, <1>3, <1>5 DEF Host, Seen, Recorded
<1>7. ASSUME NEW g \in Hosts, g # h PROVE Apart(g, h)' /\ Apart(h, g)'
  <2>1. Apart(g, h) /\ Apart(h, g)
    BY <1>7 DEF Inv
  <2> QED BY <1>3, <1>7, <2>1 DEF Others, Apart
<1>8. Alone(h)'
  BY <1>7 DEF Alone
<1> QED BY <1>3, <1>4, <1>6, <1>8, RowStep

LEMMA CallType == ASSUME Inv, NEW h \in Hosts PROVE call[h] \in Calls
BY DEF Inv, TypeOK

LEMMA SkipStep ==
    ASSUME Inv, NEW h \in Hosts, NEW l \in Leases, Sweep(h, l),
           view[h].leases[l].status # "ACTIVE"
    PROVE  Inv'
<1> DEFINE c == [call[h] EXCEPT !.todo = @ \ {l}]
           step == "sweeping"
<1>1. /\ at[h] = step /\ call' = [call EXCEPT ![h] = c]
      /\ UNCHANGED <<clock, machine, claims, view, at, crashes>>
  BY DEF Sweep
<1>2. /\ c \in Calls /\ c.op = call[h].op /\ c.ts = call[h].ts /\ c.task = call[h].task
      /\ c.worker = call[h].worker /\ c.lease = call[h].lease
  BY CallType DEF Calls
<1> HIDE DEF c
<1>3. at' = [at EXCEPT ![h] = step] /\ view' = [view EXCEPT ![h] = view[h]]
  BY <1>1 DEF Inv, TypeOK
<1>4. machine \in Machines
      /\ claims \in [Tasks -> [lease : Leases \cup {Nothing}, expires : Nat]]
  BY DEF Inv, TypeOK
<1>5. step \in {"sweeping", "noting"} /\ at[h] \notin {"idle", "down"}
  BY <1>1
<1> HIDE DEF step
<1> QED BY <1>1, <1>2, <1>3, <1>4, <1>5, MidStep

LEMMA ReapStep ==
    ASSUME Inv, NEW h \in Hosts, NEW w \in Workers, Reap(h, w)
    PROVE  Inv'
<1> DEFINE m == SetWorker(w, [machine.workers[w] EXCEPT !.status = "STALE"])
           todo == {l \in Leases : /\ machine.leases[l].status = "ACTIVE"
                                   /\ machine.leases[l].worker = w}
           c == [call[h] EXCEPT !.late = @ \ {w}, !.todo = todo]
           step == "sweeping"
<1>1. /\ at[h] \in {"reaping", "sweeping"}
      /\ machine' = m /\ view' = [view EXCEPT ![h] = m]
      /\ at' = [at EXCEPT ![h] = step]
      /\ UNCHANGED <<clock, claims, crashes>>
  BY DEF Reap, Commit
<1>2. call' = [call EXCEPT ![h] = c]
  BY DEF Reap
<1>3. m \in Machines /\ m.leases = machine.leases
  BY StaleWorkerType
<1>4. todo \in SUBSET Leases
  OBVIOUS
<1> HIDE DEF m, todo
<1>5. /\ c \in Calls /\ c.op = call[h].op /\ c.ts = call[h].ts /\ c.task = call[h].task
      /\ c.worker = call[h].worker /\ c.lease = call[h].lease
  BY <1>4, CallType DEF Calls
<1> HIDE DEF c
<1>6. claims \in [Tasks -> [lease : Leases \cup {Nothing}, expires : Nat]]
  BY DEF Inv, TypeOK
<1>7. step \in {"sweeping", "noting"} /\ at[h] \notin {"idle", "down"}
  BY <1>1
<1> HIDE DEF step
<1> QED BY <1>1, <1>2, <1>3, <1>5, <1>6, <1>7, MidStep

LEMMA ReleaseStep ==
    ASSUME Inv, NEW h \in Hosts, ReleaseClaim(h)
    PROVE  Inv'
<1> DEFINE l == call[h].lease
           step == "noting"
<1>1. /\ at[h] = "releasing" /\ at' = [at EXCEPT ![h] = step]
      /\ claims' = Without(l)
      /\ UNCHANGED <<clock, machine, call, view, crashes>>
  BY DEF ReleaseClaim, Go
<1>2. l \in Leases /\ machine.leases[l].status \in Finished
  BY <1>1 DEF Inv, Host
<1>3. ASSUME NEW g \in Hosts, at[g] = "acquired" PROVE call[g].lease # l
  BY <1>2, <1>3 DEF Inv, Host, Acquired, Recorded, Finished
<1>4. ASSUME NEW t \in Tasks
      PROVE  claims'[t] = claims[t] \/ (Gone(h, t) /\ Taken(h, t))
  BY <1>1, <1>2, <1>3 DEF Gone, Taken, NoRow, Without, Finished
<1>5. /\ call' = [call EXCEPT ![h] = call[h]] /\ view' = [view EXCEPT ![h] = view[h]]
      /\ call[h] \in Calls /\ machine \in Machines
  BY <1>1 DEF Inv, TypeOK
<1>6. claims' \in [Tasks -> [lease : Leases \cup {Nothing}, expires : Nat]]
  BY <1>1 DEF Inv, TypeOK, Without, NoRow
<1>7. step \in {"sweeping", "noting"} /\ at[h] \notin {"idle", "down"}
  BY <1>1
<1> HIDE DEF step
<1> QED BY <1>1, <1>4, <1>5, <1>6, <1>7, MidStep

LEMMA NoteFinishStep ==
    ASSUME Inv, NEW h \in Hosts, NoteFinish(h)
    PROVE  Inv'
<1> DEFINE t == view[h].leases[call[h].lease].task
           m == SetNode(t, NodeStatus(call[h].status))
           step == "sweeping"
<1>1. at[h] = "noting" /\ UNCHANGED <<clock, claims, crashes>>
  BY DEF NoteFinish
<1>2. m \in Machines /\ m.leases = machine.leases
  <2>1. NodeStatus(call[h].status) \in {"ready", "leased", "complete", "failed"}
    BY DEF NodeStatus
  <2>2. machine \in Machines
    BY DEF Inv, TypeOK
  <2> QED BY <2>1, <2>2, NodesType DEF SetNode
<1> HIDE DEF m
<1>3. CASE CommitLast(h, m)
  BY <1>1, <1>2, <1>3, CommitLastStep
<1>4. CASE Commit(h, m) /\ Go(h, "sweeping")
  <2>1. /\ machine' = m /\ view' = [view EXCEPT ![h] = m]
        /\ at' = [at EXCEPT ![h] = step] /\ call' = call
    BY <1>4 DEF Commit, Go
  <2>2. call' = [call EXCEPT ![h] = call[h]] /\ call[h] \in Calls
        /\ claims \in [Tasks -> [lease : Leases \cup {Nothing}, expires : Nat]]
    BY <2>1 DEF Inv, TypeOK
  <2>3. step \in {"sweeping", "noting"} /\ at[h] \notin {"idle", "down"}
    BY <1>1
  <2> HIDE DEF step
  <2> QED BY <1>1, <1>2, <2>1, <2>2, <2>3, MidStep
<1> QED BY <1>3, <1>4 DEF NoteFinish, m

-----------------------------------------------------------------------------
(* The three commits that write a lease.                                   *)

LEMMA FinishLeaseStep ==
    ASSUME Inv, NEW h \in Hosts, at[h] \in {"finishing", "sweeping"},
           NEW l \in Leases, NEW s \in Finished, FinishLease(h, l, s),
           UNCHANGED <<clock, claims, crashes>>
    PROVE  Inv'
<1> DEFINE mine == view[h].leases[l]
           r == [machine.leases[l] EXCEPT !.status = s,
                                          !.expires = Least(mine.expires, call[h].ts)]
           m == SetLease(l, r)
           c == [call[h] EXCEPT !.lease = l, !.status = s, !.todo = @ \ {l}]
<1>1. TypeOK /\ view[h] \in Machines /\ Seen(view[h]) /\ Host(h) /\ machine \in Machines
  BY DEF Inv, Host, Reads, TypeOK
<1>2. Recorded(view[h], l) /\ Recorded(machine, l)
  BY <1>1 DEF FinishLease, Seen, Recorded
<1>3. call[h] \in Calls /\ call[h].ts \in Nat /\ mine.expires \in Nat
  BY <1>1, CallType, LeaseType DEF Calls
<1>4. Least(mine.expires, call[h].ts) \in Nat
  BY <1>3 DEF Least
<1>5. /\ r \in LeaseRecords /\ r.status = s /\ s # "ACTIVE" /\ s # "NONE"
      /\ r.task = machine.leases[l].task /\ r.worker = machine.leases[l].worker
      /\ r.task \in Tasks /\ r.worker \in Workers
  <2>1. machine.leases[l] \in LeaseRecords
    BY <1>1, LeaseType
  <2>2. machine.leases[l].task \in Tasks /\ machine.leases[l].worker \in Workers
    BY <1>2 DEF Inv, Complete
  <2> QED BY <1>4, <2>1, <2>2 DEF LeaseRecords, Finished
<1>6. c \in Calls /\ c.lease = l /\ c.status = s /\ c.worker = call[h].worker
      /\ c.ts = call[h].ts /\ c.op = call[h].op /\ c.task = call[h].task
  BY <1>3 DEF Calls
<1>7. call' = [call EXCEPT ![h] = c] /\ at' = [at EXCEPT ![h] = "releasing"]
      /\ machine' = m /\ view' = [view EXCEPT ![h] = m]
  BY DEF FinishLease, Commit
<1> HIDE DEF r, c
<1>8. m \in Machines /\ m.leases = [machine.leases EXCEPT ![l] = r]
  BY <1>1, <1>5, LeasesType DEF SetLease
<1> HIDE DEF m
<1>9. TypeOK' /\ Others(h) /\ at'[h] = "releasing" /\ call'[h] = c /\ view'[h] = machine'
  BY <1>1, <1>6, <1>7, <1>8 DEF TypeOK, Others, Steps
<1>10. machine'.leases[l] = r
  BY <1>1, <1>7, <1>8 DEF Machines
<1>11. ASSUME NEW g \in Hosts, at[g] = "acquired" PROVE call[g].lease # l
  BY <1>2, <1>11 DEF Inv, Host, Acquired
<1>12. Host(h)'
  <2>1. view'[h] \in Machines /\ Seen(view[h])'
    BY <1>7, <1>8, <1>9 DEF Seen
  <2>2. call'[h].ts <= clock'
    BY <1>1, <1>6, <1>9 DEF Host
  <2>3. call'[h].op = "claim" => call'[h].task \in Tasks /\ call'[h].worker \in Workers
    BY <1>1, <1>6, <1>9 DEF Host
  <2>4. call'[h].lease \in Leases /\ machine'.leases[call'[h].lease].status \in Finished
    BY <1>5, <1>6, <1>9, <1>10
  <2> QED BY <1>9, <2>1, <2>2, <2>3, <2>4 DEF Host
<1>13. ASSUME NEW g \in Hosts, g # h PROVE Apart(g, h)' /\ Apart(h, g)'
  <2>1. Apart(g, h) /\ Apart(h, g)
    BY <1>13 DEF Inv
  <2> QED BY <1>6, <1>9, <1>11, <1>13, <2>1 DEF Others, Apart
<1>14. Alone(h)'
  BY <1>13 DEF Alone
<1>15. \A t \in Tasks : claims[t].lease = l => t = r.task
  BY <1>2, <1>5 DEF Inv, RowsMatch
<1> QED BY <1>5, <1>7, <1>8, <1>9, <1>11, <1>12, <1>14, <1>15, LeaseStep

LEMMA RecordClaimStep ==
    ASSUME Inv, NEW h \in Hosts, RecordClaim(h)
    PROVE  Inv'
<1> DEFINE c == call[h]
           l == c.lease
           r == [status |-> "ACTIVE", task |-> c.task, worker |-> c.worker,
                 attempt |-> c.attempt, expires |-> c.ts + LeaseTime]
           m == SetLease(l, r)
<1>1. TypeOK /\ Host(h) /\ Acquired(h) /\ c \in Calls /\ machine \in Machines
      /\ at[h] = "acquired"
  BY DEF Inv, Host, TypeOK, RecordClaim
<1>2. l \in Leases /\ machine.leases[l].status = "NONE"
  BY <1>1 DEF Acquired, Recorded
<1>3. c.task \in Tasks /\ c.worker \in Workers /\ c.ts + LeaseTime \in Nat /\ c.ts <= clock
  BY <1>1, LeaseConstants DEF Acquired, Calls, Host
<1>4. /\ r \in LeaseRecords /\ r.status = "ACTIVE" /\ r.task = c.task
      /\ r.worker = c.worker /\ r.expires = c.ts + LeaseTime
  BY <1>1, <1>3 DEF LeaseRecords, Calls
<1>5. /\ machine' = m /\ view' = [view EXCEPT ![h] = m] /\ call' = call
      /\ at' = [at EXCEPT ![h] = "recorded"] /\ UNCHANGED <<clock, claims, crashes>>
  BY DEF RecordClaim, Commit, Go
<1> HIDE DEF r
<1>6. m \in Machines /\ m.leases = [machine.leases EXCEPT ![l] = r]
  BY <1>1, <1>2, <1>4, LeasesType DEF SetLease
<1> HIDE DEF m
<1>7. TypeOK' /\ Others(h) /\ at'[h] = "recorded" /\ view'[h] = machine'
  BY <1>1, <1>5, <1>6 DEF TypeOK, Others, Steps
<1>8. r.expires <= clock + LeaseTime
  BY <1>1, <1>3, <1>4, LeaseConstants DEF TypeOK, Calls
<1>9. r.expires > clock => Holds(r.task, l, r.expires)
  BY <1>1, <1>3, <1>4, LeaseConstants DEF Acquired, TypeOK, Calls
<1>10. ASSUME NEW g \in Hosts, g # h
       PROVE  /\ call[g].lease # l
              /\ at[g] \in {"renewing", "renewed"} => call[g].lease # l
  BY <1>1, <1>2, <1>10 DEF Inv, Apart
<1>11. Host(h)'
  BY <1>1, <1>5, <1>6, <1>7 DEF Host, Seen, Recorded
<1>12. ASSUME NEW g \in Hosts, g # h PROVE Apart(g, h)' /\ Apart(h, g)'
  <2>1. Apart(g, h) /\ Apart(h, g)
    BY <1>12 DEF Inv
  <2> QED BY <1>5, <1>7, <1>12, <2>1 DEF Others, Apart
<1>13. Alone(h)'
  BY <1>12 DEF Alone
<1>14. \A t \in Tasks : claims[t].lease = l => t = r.task
  BY <1>1, <1>4 DEF Acquired
<1>15. machine.leases[l].status \notin Finished /\ ~Recorded(machine, l)
  BY <1>2 DEF Finished, Recorded
<1> QED BY <1>2, <1>3, <1>4, <1>5, <1>6, <1>7, <1>8, <1>9, <1>10, <1>11, <1>13,
           <1>14, <1>15, LeaseStep

LEMMA RecordRenewalStep ==
    ASSUME Inv, NEW h \in Hosts, RecordRenewal(h)
    PROVE  Inv'
<1> DEFINE c == call[h]
           l == c.lease
           r == [machine.leases[l] EXCEPT !.expires = c.ts + LeaseTime]
           m == SetLease(l, r)
<1>1. TypeOK /\ Host(h) /\ Renewing(h) /\ Renewed(h) /\ c \in Calls /\ machine \in Machines
      /\ at[h] = "renewed"
  BY DEF Inv, Host, TypeOK, RecordRenewal
<1>2. l \in Leases /\ Recorded(machine, l) /\ c.worker = machine.leases[l].worker
  BY <1>1 DEF Renewing
<1>3. c.ts \in Nat /\ c.ts + LeaseTime \in Nat /\ c.ts <= clock /\ clock \in Nat
  BY <1>1, LeaseConstants DEF Calls, Host, TypeOK
<1>4. /\ r \in LeaseRecords /\ r.status = machine.leases[l].status
      /\ r.task = machine.leases[l].task /\ r.worker = machine.leases[l].worker
      /\ r.expires = c.ts + LeaseTime
      /\ r.task \in Tasks /\ r.worker \in Workers
  <2>1. machine.leases[l] \in LeaseRecords
    BY <1>1, <1>2, LeaseType
  <2>2. machine.leases[l].task \in Tasks /\ machine.leases[l].worker \in Workers
    BY <1>2 DEF Inv, Complete
  <2> QED BY <1>3, <2>1, <2>2 DEF LeaseRecords
<1>5. /\ machine' = m /\ view' = [view EXCEPT ![h] = Kept(m)] /\ Idle(h)
      /\ UNCHANGED <<clock, claims, crashes>>
  BY DEF RecordRenewal, CommitLast
<1> HIDE DEF r
<1>6. m \in Machines /\ m.leases = [machine.leases EXCEPT ![l] = r]
  <2>1. machine \in Machines /\ r \in LeaseRecords
    BY <1>1, <1>4
  <2> HIDE DEF l
  <2> QED BY <2>1, LeasesType DEF SetLease
<1> HIDE DEF m
<1>7. /\ TypeOK' /\ Others(h) /\ at'[h] = "idle" /\ call'[h] = NoCall
      /\ view'[h] = Kept(machine')
  BY <1>1, <1>5, <1>6, NoCallType DEF TypeOK, Others, Steps, Idle, Kept
<1>8. r.expires <= clock + LeaseTime
  BY <1>3, <1>4, LeaseConstants
<1>9. r.status = "ACTIVE" /\ r.expires > clock => Holds(r.task, l, r.expires)
  BY <1>1, <1>3, <1>4, LeaseConstants DEF Renewed
<1>10. ASSUME NEW g \in Hosts, g # h
       PROVE  /\ at[g] = "acquired" => call[g].lease # l
              /\ at[g] \in {"renewing", "renewed"} => call[g].lease # l
  <2>1. at[g] = "acquired" => call[g].lease # l
    BY <1>2 DEF Inv, Host, Acquired
  <2>2. at[g] \in {"renewing", "renewed"} /\ call[g].lease = l
           => call[g].worker = call[h].worker
    BY <1>2 DEF Inv, Host, Renewing
  <2>3. call[g].worker = call[h].worker => call[h].worker = Nothing
    BY <1>10 DEF Inv, Apart
  <2>4. call[h].worker # Nothing
    BY <1>2, <1>4, LeaseConstants
  <2> QED BY <2>1, <2>2, <2>3, <2>4
<1>11. Host(h)' /\ Alone(h)'
  BY <1>6, <1>7, IdleHost, <1>5 DEF Reads, Kept, Seen
<1>12. \A t \in Tasks : claims[t].lease = l => t = r.task
  BY <1>2, <1>4 DEF Inv, RowsMatch
<1>13. r.status # "NONE"
  BY <1>2, <1>4 DEF Recorded
<1>14. \A g \in Hosts : g # h =>
           /\ at[g] = "acquired" => call[g].lease # l
           /\ at[g] \in {"renewing", "renewed"} /\ call[g].lease = l
                 => r.status # "ACTIVE"
  BY <1>10
<1>15. machine'.leases = [machine.leases EXCEPT ![l] = r] /\ r.status = machine.leases[l].status
       /\ (Recorded(machine, l) => /\ r.task = machine.leases[l].task
                                   /\ r.worker = machine.leases[l].worker)
  BY <1>4, <1>5, <1>6
<1>16. machine.leases[l].status \in Finished => r.status \in Finished
  BY <1>15
<1> HIDE DEF l, c
<1> QED BY <1>2, <1>4, <1>5, <1>7, <1>8, <1>9, <1>11, <1>12, <1>13, <1>14, <1>15, <1>16,
           LeaseStep

-----------------------------------------------------------------------------
(* The two steps that write claim rows for a lease in use.                 *)

LEMMA AttemptsType ==
    ASSUME NEW m \in Machines, NEW t, NEW n \in NextAttempt(m, t)
    PROVE  n \in Nat
<1> DEFINE earlier == {0} \cup {m.leases[l].attempt :
                                  l \in {k \in Leases : m.leases[k].task = t}}
<1>1. earlier \subseteq Nat
  BY LeaseType
<1>2. \E k \in earlier : n = k + 1
  BY DEF NextAttempt
<1> HIDE DEF earlier
<1> QED BY <1>1, <1>2

LEMMA AcquireStep ==
    ASSUME Inv, NEW h \in Hosts, NEW l \in Leases, Acquire(h, l)
    PROVE  Inv'
<1> DEFINE e == call[h].ts + LeaseTime
           row == [lease |-> l, expires |-> e]
           t0 == call[h].task
<1>1. /\ at[h] = "sweeping" /\ call[h].op = "claim" /\ Acquirable(h) /\ Unused(l)
      /\ claims' = [Live(call[h].ts) EXCEPT ![t0] = row]
      /\ at' = [at EXCEPT ![h] = "acquired"]
      /\ UNCHANGED <<clock, machine, view, crashes>>
  BY DEF Acquire, ReadyToAcquire
<1>2. TypeOK /\ Host(h) /\ view[h] \in Machines /\ Seen(view[h]) /\ call[h] \in Calls
  BY <1>1, CallType DEF Inv, Host, Reads
<1>3. t0 \in Tasks /\ call[h].worker \in Workers /\ call[h].ts \in Nat /\ e \in Nat
      /\ call[h].ts <= clock
  BY <1>1, <1>2, LeaseConstants DEF Host, Calls
<1>4. PICK n \in NextAttempt(view[h], t0) :
         call' = [call EXCEPT ![h].lease = l, ![h].attempt = n]
  BY DEF Acquire
<1>5. n \in Nat
  BY <1>2, AttemptsType
<1> DEFINE c == [call[h] EXCEPT !.lease = l, !.attempt = n]
<1>6. /\ call' = [call EXCEPT ![h] = c] /\ c \in Calls /\ c.lease = l /\ c.ts = call[h].ts
      /\ c.task = t0 /\ c.worker = call[h].worker /\ c.op = call[h].op
  BY <1>2, <1>4, <1>5 DEF TypeOK, Calls
<1> HIDE DEF c
<1>7. /\ Live(call[h].ts) \in [Tasks -> [lease : Leases \cup {Nothing}, expires : Nat]]
      /\ \A t \in Tasks : \/ Live(call[h].ts)[t] = claims[t]
                          \/ claims[t].expires <= clock /\ Live(call[h].ts)[t] = NoRow
  BY PurgeIsHarmless
<1>8. claims' \in [Tasks -> [lease : Leases \cup {Nothing}, expires : Nat]]
  BY <1>1, <1>3, <1>7
<1>9. TypeOK'
  BY <1>1, <1>2, <1>6, <1>8 DEF TypeOK, Steps
<1>10. Others(h) /\ at'[h] = "acquired" /\ call'[h] = c /\ view'[h] = view[h]
  BY <1>1, <1>2, <1>6 DEF TypeOK, Others
<1>11. /\ ~Recorded(machine, l) /\ \A t \in Tasks : claims[t].lease # l
       /\ \A g \in Hosts : call[g].lease # l
  BY <1>1 DEF Unused, Recorded
<1>12. claims'[t0] = row /\ \A t \in Tasks : t # t0 => claims'[t] = Live(call[h].ts)[t]
  BY <1>1, <1>3, <1>7
<1>13. ASSUME NEW t \in Tasks
       PROVE  claims'[t] = claims[t] \/ (Gone(h, t) /\ Taken(h, t))
  <2>1. CASE t = t0
    <3>1. Live(call[h].ts)[t].lease = Nothing
      BY <1>1, <2>1 DEF Acquirable
    <3>2. Gone(h, t)
      BY <1>7, <3>1 DEF Gone
    <3>3. Taken(h, t)
      BY <1>11, <1>12, <2>1 DEF Taken
    <3> QED BY <3>2, <3>3
  <2>2. CASE t # t0
    BY <1>7, <1>12, <2>2 DEF Gone, Taken, NoRow
  <2> QED BY <2>1, <2>2
<1>14. Acquired(h)'
  <2>1. ASSUME NEW t \in Tasks, claims'[t].lease = l PROVE t = t0
    BY <1>7, <1>11, <1>12, <2>1, LeaseConstants DEF NoRow
  <2> QED BY <1>1, <1>3, <1>6, <1>10, <1>11, <1>12, <2>1 DEF Acquired, Recorded, Holds
<1>15. Host(h)'
  BY <1>1, <1>2, <1>3, <1>6, <1>10, <1>14 DEF Host, Seen, Recorded
<1>16. ASSUME NEW g \in Hosts, g # h PROVE Apart(g, h)' /\ Apart(h, g)'
  <2>1. Apart(g, h) /\ Apart(h, g)
    BY <1>16 DEF Inv
  <2> QED BY <1>6, <1>10, <1>11, <1>16, <2>1 DEF Others, Apart
<1>17. Alone(h)'
  BY <1>16 DEF Alone
<1> QED BY <1>1, <1>9, <1>10, <1>13, <1>15, <1>17, RowStep

LEMMA RenewStep ==
    ASSUME Inv, NEW h \in Hosts, Renew(h)
    PROVE  Inv'
<1> DEFINE l == call[h].lease
           e == call[h].ts + LeaseTime
           rows == {t \in Tasks : claims[t].lease = l}
<1>1. /\ at[h] = "renewing" /\ clock' = clock /\ crashes' = crashes
      /\ claims' = [t \in Tasks |-> IF t \in rows THEN [lease |-> l, expires |-> e]
                                                 ELSE claims[t]]
  BY DEF Renew
<1>2. /\ TypeOK /\ Host(h) /\ Renewing(h) /\ view[h] \in Machines /\ Seen(view[h])
      /\ call[h] \in Calls
  BY <1>1, CallType DEF Inv, Host, Reads
<1>3. /\ l \in Leases /\ Recorded(machine, l) /\ call[h].worker = machine.leases[l].worker
      /\ e \in Nat
      /\ machine.leases[l].status = "ACTIVE" => machine.leases[l].expires <= e
  BY <1>2, LeaseConstants DEF Renewing, Calls
<1>4. claims' \in [Tasks -> [lease : Leases \cup {Nothing}, expires : Nat]]
  BY <1>1, <1>2, <1>3 DEF TypeOK
<1>5. CASE rows = {}
  <2>1. Return(h)
    BY <1>5 DEF Renew, Lost
  <2>2. \A t \in Tasks : claims'[t] = claims[t]
    BY <1>1, <1>5
  <2> QED BY <1>1, <1>4, <2>1, <2>2, ReturnStep
<1>6. CASE rows # {}
  <2>1. /\ at' = [at EXCEPT ![h] = "renewed"] /\ call' = call /\ machine' = machine
        /\ view' = view
    BY <1>6 DEF Renew, Lost, Go
  <2>2. TypeOK'
    BY <1>1, <1>2, <1>4, <2>1 DEF TypeOK, Steps
  <2>3. Others(h) /\ at'[h] = "renewed"
    BY <1>2, <2>1 DEF Others, TypeOK
  <2>4. ASSUME NEW g \in Hosts, g # h, at[g] \in {"acquired", "renewed"}
        PROVE  call[g].lease # l
    <3>1. at[g] = "acquired" => call[g].lease # l
      BY <1>3 DEF Inv, Host, Acquired
    <3>2. at[g] = "renewed" /\ call[g].lease = l => call[g].worker = call[h].worker
      BY <1>3 DEF Inv, Host, Renewing
    <3>3. call[g].worker = call[h].worker => call[h].worker = Nothing
      BY <2>4 DEF Inv, Apart
    <3>4. call[h].worker # Nothing
      BY <1>3, LeaseConstants DEF Inv, Complete
    <3> QED BY <2>4, <3>1, <3>2, <3>3, <3>4
  <2>5. ASSUME NEW t \in Tasks PROVE claims'[t] = claims[t] \/ Longer(h, t)
    <3>1. CASE t \in rows
      BY <1>1, <1>3, <2>4, <3>1 DEF Longer
    <3>2. CASE t \notin rows
      BY <1>1, <3>2
    <3> QED BY <3>1, <3>2
  <2>6. machine.leases[l].task \in rows
    BY <1>3, <1>6 DEF Inv, RowsMatch
  <2>7. Renewed(h)'
    <3>1. claims'[machine.leases[l].task] = [lease |-> l, expires |-> e]
      BY <1>1, <2>6
    <3> QED BY <1>3, <2>1, <3>1 DEF Renewed, Holds
  <2>8. Host(h)'
    BY <1>1, <1>2, <2>1, <2>3, <2>7 DEF Host, Renewing, Recorded, Seen
  <2>9. Alone(h)'
    BY <2>1, <2>3 DEF Inv, Alone, Apart, Others
  <2> QED BY <1>1, <2>1, <2>2, <2>3, <2>5, <2>8, <2>9, RowStep
<1> QED BY <1>5, <1>6

-----------------------------------------------------------------------------
(* Time, crashes, restarts.                                                *)

LEMMA TickStep ==
    ASSUME Inv, Tick
    PROVE  Inv'
<1>1. clock \in Nat /\ clock' = clock + 1 /\ clock' \in Nat
      /\ UNCHANGED <<machine, claims, view, at, call, crashes>>
  BY DEF Inv, TypeOK, Tick
<1>2. TypeOK'
  BY <1>1 DEF Inv, TypeOK
<1>3. \A l \in Leases : machine.leases[l].expires \in Nat
  BY LeaseType DEF Inv, TypeOK
<1>4. Complete'
  BY <1>1, <1>3, LeaseConstants DEF Inv, Complete, Recorded
<1>5. RowsMatch'
  BY <1>1 DEF Inv, RowsMatch, Recorded
<1>6. Backed'
  <2>1. Active(machine', clock') \subseteq Active(machine, clock)
    BY <1>1, <1>3 DEF Active
  <2> QED BY <1>1, <2>1 DEF Inv, Backed, Holds
<1>7. ASSUME NEW h \in Hosts PROVE Host(h)'
  <2>1. Host(h) /\ call[h].ts \in Nat
    BY CallType DEF Inv, Calls
  <2>0. LeaseTime \in Nat
    BY LeaseConstants
  <2>2. Acquired(h) => Acquired(h)'
    BY <1>1, <2>0, <2>1 DEF Acquired, Recorded, Holds
  <2>3. Renewing(h) => Renewing(h)'
    BY <1>1 DEF Renewing, Recorded
  <2>4. Renewed(h) => Renewed(h)'
    BY <1>1, <2>0, <2>1 DEF Renewed, Holds
  <2>5. (Reads(h)' <=> Reads(h)) /\ (Seen(view[h])' <=> Seen(view[h]))
    BY <1>1 DEF Reads, Seen, Recorded
  <2>6. call'[h].ts <= clock'
    BY <1>1, <2>1 DEF Host
  <2> QED BY <1>1, <2>1, <2>2, <2>3, <2>4, <2>5, <2>6 DEF Host
<1>8. \A g, h \in Hosts : g # h => Apart(g, h)'
  BY <1>1 DEF Inv, Apart
<1> QED BY <1>2, <1>4, <1>5, <1>6, <1>7, <1>8 DEF Inv

LEMMA CrashStep ==
    ASSUME Inv, NEW h \in Hosts, Crash(h)
    PROVE  Inv'
<1>1. /\ at' = [at EXCEPT ![h] = "down"] /\ call' = [call EXCEPT ![h] = NoCall]
      /\ view' = [view EXCEPT ![h] = Kept(view[h])] /\ crashes' = crashes + 1
      /\ UNCHANGED <<clock, machine, claims>>
  BY DEF Crash, Inv, TypeOK
<1>2. TypeOK'
  BY <1>1, NoCallType DEF Inv, TypeOK, Steps, Kept
<1>3. Others(h) /\ at'[h] = "down" /\ call'[h] = NoCall
  BY <1>1 DEF Inv, TypeOK, Others
<1>4. Host(h)' /\ Alone(h)'
  BY <1>2, <1>3, IdleHost DEF Reads
<1> QED BY <1>1, <1>2, <1>3, <1>4, RowStep

LEMMA ResumeStep ==
    ASSUME Inv, NEW h \in Hosts, Resume(h)
    PROVE  Inv'
<1>1. /\ at' = [at EXCEPT ![h] = "idle"]
      /\ view' = [view EXCEPT ![h] = Kept(machine)]
      /\ UNCHANGED <<clock, machine, claims, call, crashes>>
  BY DEF Resume
<1>2. TypeOK'
  BY <1>1 DEF Inv, TypeOK, Steps, Kept
<1>3. Others(h) /\ at'[h] = "idle" /\ view'[h] = Kept(machine)
  BY <1>1 DEF Inv, TypeOK, Others
<1>4. Host(h)'
  BY <1>1, <1>3 DEF Inv, TypeOK, Host, Reads, Kept, Seen, Recorded
<1>5. Alone(h)'
  BY <1>1, <1>3 DEF Inv, Alone, Apart, Others
<1> QED BY <1>1, <1>2, <1>3, <1>4, <1>5, RowStep

-----------------------------------------------------------------------------
(* The invariant.                                                          *)

LEMMA InitInv == Init => Inv
<1> SUFFICES ASSUME Init PROVE Inv
  OBVIOUS
<1>1. PICK n \in Limits :
         machine = [leases |-> [l \in Leases |-> NoLease],
                    workers |-> [w \in Workers |->
                                   [status |-> "ACTIVE", until |-> Deadline(0 - Age)]],
                    nodes |-> [t \in Tasks |-> "ready"],
                    limit |-> n]
  BY DEF Init
<1>2. Deadline(0 - Age) \in Nat
  BY LeaseConstants DEF Deadline
<1>3. [l \in Leases |-> NoLease] \in [Leases -> LeaseRecords]
  BY DEF NoLease, LeaseRecords
<1>4. machine \in Machines
  BY <1>1, <1>2, <1>3 DEF Machines
<1>5. /\ clock = 0 /\ claims = [t \in Tasks |-> NoRow]
      /\ view = [h \in Hosts |-> Kept(machine)] /\ crashes = 0
      /\ at = [h \in Hosts |-> "idle"] /\ call = [h \in Hosts |-> NoCall]
  BY DEF Init
<1>6. \A l \in Leases : machine.leases[l].status = "NONE"
  BY <1>1 DEF NoLease
<1>7. TypeOK
  BY <1>4, <1>5, NoCallType DEF TypeOK, NoRow, Kept, Steps
<1>8. Complete /\ RowsMatch /\ Backed
  BY <1>6 DEF Complete, RowsMatch, Backed, Recorded, Active
<1>9. \A h \in Hosts : Host(h)
  BY <1>4, <1>5, <1>6 DEF Host, Reads, Kept, Seen, Recorded, NoCall
<1>10. \A g, h \in Hosts : g # h => Apart(g, h)
  BY <1>5 DEF Apart, NoCall
<1> QED BY <1>7, <1>8, <1>9, <1>10 DEF Inv

LEMMA RequestStep ==
    ASSUME Inv, NEW h \in Hosts, Request(h)
    PROVE  Inv'
<1>1. CASE \E t \in Tasks, w \in Workers : Claim(h, t, w)
  BY <1>1, ClaimStep
<1>2. CASE \E l \in Leases : Heartbeat(h, l)
  BY <1>2, HeartbeatStep
<1>3. CASE \E l \in Leases, s \in {"COMPLETED", "FAILED", "RELEASED"} : Finish(h, l, s)
  BY <1>3, FinishStep
<1>4. CASE ExpireLeases(h)
  BY <1>4, ExpireStep
<1>5. CASE ReapStaleWorkers(h)
  BY <1>5, ReapStaleStep
<1>6. CASE \E w \in Workers : WorkerHeartbeat(h, w)
  BY <1>6, WorkerHeartbeatStep
<1>7. CASE \E n \in Limits : SetLimit(h, n)
  BY <1>7, SetLimitStep
<1> QED BY <1>1, <1>2, <1>3, <1>4, <1>5, <1>6, <1>7 DEF Request

LEMMA HandleStep ==
    ASSUME Inv, NEW h \in Hosts, Handle(h)
    PROVE  Inv'
<1>1. CASE CommitFinish(h)
  BY <1>1, FinishLeaseStep DEF CommitFinish, Inv, Host
<1>2. ASSUME NEW l \in Leases, Sweep(h, l) PROVE Inv'
  <2>1. CASE view[h].leases[l].status = "ACTIVE"
    <3>1. /\ FinishLease(h, l, "EXPIRED") /\ at[h] \in {"finishing", "sweeping"}
          /\ UNCHANGED <<clock, claims, crashes>>
      BY <1>2, <2>1 DEF Sweep
    <3>2. "EXPIRED" \in Finished
      BY DEF Finished
    <3> QED BY <3>1, <3>2, FinishLeaseStep
  <2>2. CASE view[h].leases[l].status # "ACTIVE"
    BY <1>2, <2>2, SkipStep
  <2> QED BY <2>1, <2>2
<1>3. CASE ReleaseClaim(h)
  BY <1>3, ReleaseStep
<1>4. CASE NoteFinish(h)
  BY <1>4, NoteFinishStep
<1>5. CASE SweepDone(h) \/ ReapDone(h)
  BY <1>5, SweepDoneStep
<1>6. CASE \E w \in Workers : Reap(h, w)
  BY <1>6, ReapStep
<1>7. CASE \E l \in Leases : Acquire(h, l)
  BY <1>7, AcquireStep
<1>8. CASE RefuseClaim(h)
  BY <1>8, RefuseClaimStep
<1>9. CASE RefuseWorker(h)
  BY <1>9, RefuseWorkerStep
<1>10. CASE RecordClaim(h)
  BY <1>10, RecordClaimStep
<1>11. CASE AbandonClaim(h)
  BY <1>11, AbandonStep
<1>12. CASE NoteClaim(h)
  BY <1>12, NoteClaimStep
<1>13. CASE Renew(h)
  BY <1>13, RenewStep
<1>14. CASE RecordRenewal(h)
  BY <1>14, RecordRenewalStep
<1> QED BY <1>1, <1>2, <1>3, <1>4, <1>5, <1>6, <1>7, <1>8, <1>9, <1>10, <1>11,
           <1>12, <1>13, <1>14 DEF Handle

LEMMA NextInv == Inv /\ [Next]_vars => Inv'
<1> SUFFICES ASSUME Inv, [Next]_vars PROVE Inv'
  OBVIOUS
<1>1. CASE UNCHANGED vars
  <2>1. TypeOK'
    BY <1>1 DEF vars, Inv, TypeOK
  <2>2. Complete' /\ RowsMatch' /\ Backed'
    BY <1>1 DEF vars, Inv, Complete, RowsMatch, Backed, Active, Recorded, Holds
  <2>3. ASSUME NEW h \in Hosts PROVE Host(h)'
    BY <1>1 DEF vars, Inv, Host, Reads, Seen, Recorded, Acquired, Renewing, Renewed, Holds
  <2>4. \A g, h \in Hosts : g # h => Apart(g, h)'
    BY <1>1 DEF vars, Inv, Apart
  <2> QED BY <2>1, <2>2, <2>3, <2>4 DEF Inv
<1>2. CASE \E h \in Hosts : Request(h)
  BY <1>2, RequestStep
<1>3. CASE \E h \in Hosts : Handle(h)
  BY <1>3, HandleStep
<1>4. CASE \E h \in Hosts : Crash(h)
  BY <1>4, CrashStep
<1>5. CASE \E h \in Hosts : Resume(h)
  BY <1>5, ResumeStep
<1>6. CASE Tick
  BY <1>6, TickStep
<1> QED BY <1>1, <1>2, <1>3, <1>4, <1>5, <1>6 DEF Next

LEMMA Invariance == Spec => []Inv
BY InitInv, NextInv, PTL DEF Spec

-----------------------------------------------------------------------------
(* The theorems.                                                           *)

\* The canonical machine, the claim table and the handlers keep their types.
THEOREM LeaseTypes == Spec => []TypeOK
<1>1. Inv => TypeOK
  BY DEF Inv
<1> QED BY <1>1, Invariance, PTL

\* A lease in force always has the row of its task in the claim table: neither
\* the two transactions of a claim, nor a slow renewal, nor a purge or a release
\* by another host, nor a crash between any two steps takes it away.
THEOREM LeasesKeepTheirRows == Spec => []LeaseIsBacked
<1>1. Inv => LeaseIsBacked
  BY DEF Inv, Backed, Holds, LeaseIsBacked
<1> QED BY <1>1, Invariance, PTL

\* Hence no task is worked on under two leases (acquire_task_claim,
\* _finish_lease and lease_heartbeat together), for hosts with copies of any age.
THEOREM TasksAreExclusive == Spec => []TaskExclusive
<1>1. Inv => TaskExclusive
  BY DEF Inv, Backed, Holds, TaskExclusive
<1> QED BY <1>1, Invariance, PTL

-----------------------------------------------------------------------------
(* The limit.                                                              *)

\* What is reserved or leased has a row among those an acquisition counts.
LEMMA OccupiedAreCounted ==
    ASSUME Inv, NEW ts \in Nat, ts <= clock
    PROVE  Occupied \subseteq Rows(Live(ts))
<1>1. ASSUME NEW t \in Tasks, claims[t].lease # Nothing, claims[t].expires > clock
      PROVE  t \in Rows(Live(ts))
  <2>1. clock \in Nat /\ claims[t].expires \in Nat
    BY DEF Inv, TypeOK
  <2>2. Live(ts)[t] = claims[t]
    BY <1>1, <2>1 DEF Live
  <2> QED BY <1>1, <2>2 DEF Rows
<1>2. ASSUME NEW l \in Active(machine, clock)
      PROVE  machine.leases[l].task \in Rows(Live(ts))
  <2> DEFINE t == machine.leases[l].task
  <2>1. /\ l \in Leases /\ t \in Tasks /\ Holds(t, l, machine.leases[l].expires)
        /\ machine.leases[l].expires > clock
    BY DEF Active, Inv, Backed, Complete, Recorded
  <2>2. machine.leases[l].expires \in Nat /\ clock \in Nat /\ claims[t].expires \in Nat
    BY <2>1, LeaseType DEF Inv, TypeOK
  <2>3. claims[t].lease # Nothing /\ claims[t].expires > clock
    BY <2>1, <2>2, LeaseConstants DEF Holds
  <2> QED BY <1>1, <2>1, <2>3
<1> QED BY <1>1, <1>2 DEF Occupied

LEMMA ClaimsFit ==
    ASSUME Inv, [Next]_vars, NEW t \in Tasks,
           claims'[t].lease \notin {claims[t].lease, Nothing}
    PROVE  Cardinality(Occupied) < machine.limit
<1>1. PICK h \in Hosts : \E l \in Leases : Acquire(h, l)
  <2>1. ~UNCHANGED claims
    OBVIOUS
  <2>2. PICK h \in Hosts : Handle(h)
    BY <2>1 DEF Next, vars, Request, Claim, Heartbeat, Finish, ExpireLeases,
                ReapStaleWorkers, WorkerHeartbeat, SetLimit, Tick, Crash, Resume
  <2>3. /\ ~CommitFinish(h) /\ ~NoteFinish(h) /\ ~SweepDone(h) /\ ~ReapDone(h)
        /\ ~RefuseWorker(h) /\ ~RecordClaim(h) /\ ~NoteClaim(h) /\ ~RecordRenewal(h)
        /\ \A l \in Leases : ~Sweep(h, l)
        /\ \A w \in Workers : ~Reap(h, w)
    BY <2>1 DEF CommitFinish, NoteFinish, SweepDone, ReapDone, RefuseWorker,
                RecordClaim, NoteClaim, RecordRenewal, Sweep, Reap
  <2>4. ~ReleaseClaim(h) /\ ~AbandonClaim(h)
    BY DEF ReleaseClaim, AbandonClaim, Without, NoRow
  <2>5. ~RefuseClaim(h)
    BY DEF RefuseClaim, Live, NoRow
  <2>6. ~Renew(h)
    BY DEF Renew
  <2> QED BY <2>2, <2>3, <2>4, <2>5, <2>6 DEF Handle
<1>2. /\ at[h] = "sweeping" /\ call[h].op = "claim"
      /\ Cardinality(Rows(Live(call[h].ts))) < machine.limit
  BY <1>1 DEF Acquire, Acquirable, ReadyToAcquire
<1>3. call[h].ts \in Nat /\ call[h].ts <= clock
  BY CallType DEF Calls, Inv, Host
<1>4. IsFiniteSet(Rows(Live(call[h].ts)))
  BY LeaseConstants, FS_Subset DEF Rows
<1>6. /\ IsFiniteSet(Occupied)
      /\ Cardinality(Occupied) <= Cardinality(Rows(Live(call[h].ts)))
  BY <1>3, <1>4, OccupiedAreCounted, FS_Subset
<1>5. machine.limit \in Nat
  BY LeaseConstants DEF Inv, TypeOK, Machines
<1> QED BY <1>2, <1>4, <1>5, <1>6, FS_CardinalityType

\* A task is reserved only while what is reserved or leased by all hosts leaves
\* room under the canonical limit, whatever limit and leases the claiming host
\* has in its copy.
THEOREM LimitsAreKept == Spec => NoOverbooking
<1>1. Inv /\ [Next]_vars =>
         [\A t \in Tasks : claims'[t].lease \notin {claims[t].lease, Nothing} =>
             Cardinality(Occupied) < machine.limit]_vars
  BY ClaimsFit
<1> QED BY <1>1, Invariance, PTL DEF Spec, NoOverbooking

-----------------------------------------------------------------------------
(* The commits that write a lease, and what the other steps leave alone.    *)

Writes(h) ==
    \/ CommitFinish(h)
    \/ \E l \in Leases : Sweep(h, l) /\ view[h].leases[l].status = "ACTIVE"
    \/ RecordClaim(h)
    \/ RecordRenewal(h)

LEMMA OtherFields ==
    ASSUME TypeOK
    PROVE  /\ \A w, r : SetWorker(w, r).leases = machine.leases
           /\ \A t, s : SetNode(t, s).leases = machine.leases
<1>1. machine \in Machines
  BY DEF TypeOK
<1>2. ASSUME NEW w, NEW r PROVE SetWorker(w, r).leases = machine.leases
  <2> DEFINE f == [machine.workers EXCEPT ![w] = r]
  <2>1. SetWorker(w, r) = [machine EXCEPT !.workers = f]
    BY DEF SetWorker
  <2> HIDE DEF f
  <2> QED BY <1>1, <2>1 DEF Machines
<1>3. ASSUME NEW t, NEW s PROVE SetNode(t, s).leases = machine.leases
  <2> DEFINE f == [machine.nodes EXCEPT ![t] = s]
  <2>1. SetNode(t, s) = [machine EXCEPT !.nodes = f]
    BY DEF SetNode
  <2> HIDE DEF f
  <2> QED BY <1>1, <2>1 DEF Machines
<1> QED BY <1>2, <1>3

LEMMA HandleIs ==
    ASSUME Inv, NEW h \in Hosts, Handle(h), ~Writes(h)
    PROVE  clock' = clock /\ machine'.leases = machine.leases
<1>0. TypeOK
  BY DEF Inv
<1>1. CASE NoteFinish(h)
  BY <1>0, <1>1, OtherFields DEF NoteFinish, CommitLast, Commit
<1>2. ASSUME NEW w \in Workers, Reap(h, w)
      PROVE  clock' = clock /\ machine'.leases = machine.leases
  BY <1>0, <1>2, OtherFields DEF Reap, Commit
<1>3. CASE RefuseWorker(h)
  BY <1>0, <1>3, OtherFields DEF RefuseWorker, CommitLast, Return
<1>4. CASE NoteClaim(h)
  BY <1>0, <1>4, OtherFields DEF NoteClaim, CommitLast
<1>5. ASSUME NEW l \in Leases, Sweep(h, l)
      PROVE  clock' = clock /\ machine'.leases = machine.leases
  BY <1>5 DEF Sweep, Writes
<1>6. CASE Renew(h)
  BY <1>6 DEF Renew, Return
<1> QED BY <1>1, <1>2, <1>3, <1>4, <1>5, <1>6
        DEF Handle, Writes, Return, ReleaseClaim, SweepDone, ReapDone, Acquire,
            RefuseClaim, AbandonClaim

\* Record r of lease l is written, and nothing else of the leases.
Puts(l, r) ==
    /\ clock' = clock
    /\ machine'.leases[l] = r
    /\ \A k \in Leases : k # l => machine'.leases[k] = machine.leases[k]
    /\ Recorded(machine, l) => r.task = machine.leases[l].task

LEMMA PutsIs ==
    ASSUME Inv, NEW l \in Leases, NEW r, machine' = SetLease(l, r), clock' = clock,
           Recorded(machine, l) => r.task = machine.leases[l].task
    PROVE  Puts(l, r)
<1>1. machine \in Machines
  BY DEF Inv, TypeOK
<1> DEFINE f == [machine.leases EXCEPT ![l] = r]
<1>2. SetLease(l, r) = [machine EXCEPT !.leases = f]
  BY DEF SetLease
<1>3. machine.leases \in [Leases -> LeaseRecords]
  BY <1>1 DEF Machines
<1>4. f[l] = r /\ \A k \in Leases : k # l => f[k] = machine.leases[k]
  BY <1>3
<1> HIDE DEF f
<1>5. machine'.leases = f
  BY <1>1, <1>2 DEF Machines
<1> QED BY <1>4, <1>5 DEF Puts

LEMMA FinishIs ==
    ASSUME Inv, NEW h \in Hosts, NEW l \in Leases, NEW s, FinishLease(h, l, s),
           clock' = clock
    PROVE  \E r : Puts(l, r) /\ r.status = s
<1> DEFINE r == [machine.leases[l] EXCEPT
                    !.status = s, !.expires = Least(view[h].leases[l].expires, call[h].ts)]
<1>1. machine' = SetLease(l, r)
  BY DEF FinishLease, Commit
<1>2. r.status = s /\ r.task = machine.leases[l].task
  BY LeaseType DEF Inv, TypeOK, LeaseRecords
<1> HIDE DEF r
<1> QED BY <1>1, <1>2, PutsIs

LEMMA RecordClaimIs ==
    ASSUME Inv, NEW h \in Hosts, RecordClaim(h)
    PROVE  \E l \in Leases : \E r : Puts(l, r) /\ r.status = "ACTIVE"
<1> DEFINE c == call[h]
           l == c.lease
           r == [status |-> "ACTIVE", task |-> c.task, worker |-> c.worker,
                 attempt |-> c.attempt, expires |-> c.ts + LeaseTime]
<1>1. machine' = SetLease(l, r) /\ clock' = clock /\ at[h] = "acquired"
  BY DEF RecordClaim, Commit
<1>2. l \in Leases /\ ~Recorded(machine, l)
  BY <1>1 DEF Inv, Host, Acquired
<1>3. r.status = "ACTIVE"
  OBVIOUS
<1> HIDE DEF r, l
<1> QED BY <1>1, <1>2, <1>3, PutsIs

LEMMA RecordRenewalIs ==
    ASSUME Inv, NEW h \in Hosts, RecordRenewal(h)
    PROVE  \E l \in Leases : \E r : Puts(l, r) /\ r.status # "NONE"
<1> DEFINE l == call[h].lease
           r == [machine.leases[l] EXCEPT !.expires = call[h].ts + LeaseTime]
<1>1. machine' = SetLease(l, r) /\ clock' = clock /\ at[h] = "renewed"
  BY DEF RecordRenewal, CommitLast
<1>2. l \in Leases /\ Recorded(machine, l)
  BY <1>1 DEF Inv, Host, Renewing
<1>3. r.status = machine.leases[l].status /\ r.task = machine.leases[l].task
  BY <1>2, LeaseType DEF Inv, TypeOK, LeaseRecords
<1> HIDE DEF r, l
<1> QED BY <1>1, <1>2, <1>3, PutsIs DEF Recorded

-----------------------------------------------------------------------------
(* Custody.                                                                *)

\* A step writes one lease at a time, or none while time passes.
OneLease ==
    /\ clock \in Nat /\ clock' \in Nat /\ clock <= clock'
    /\ \/ machine'.leases = machine.leases
       \/ /\ clock' = clock
          /\ \E l \in Leases : \A k \in Leases :
                k # l => machine'.leases[k] = machine.leases[k]

\* A lease on record stays on record, for its task.
RecordsStay == \A l \in Leases : Recorded(machine, l) =>
    /\ Recorded(machine', l)
    /\ machine'.leases[l].task = machine.leases[l].task

\* No row is created for a lease that is on record.
RowsAreNew == \A l \in Leases : Recorded(machine, l) =>
    \A t \in Tasks : claims'[t].lease = l => claims[t].lease = l

LEMMA RequestLeaves ==
    ASSUME Inv, NEW h \in Hosts, Request(h)
    PROVE  clock' = clock /\ machine'.leases = machine.leases /\ claims' = claims
<1>0. TypeOK
  BY DEF Inv
<1>1. ASSUME NEW t \in Tasks, NEW w \in Workers, Claim(h, t, w)
      PROVE  clock' = clock /\ machine'.leases = machine.leases /\ claims' = claims
  BY <1>1 DEF Claim
<1>2. ASSUME NEW l \in Leases, Heartbeat(h, l)
      PROVE  clock' = clock /\ machine'.leases = machine.leases /\ claims' = claims
  BY <1>2 DEF Heartbeat
<1>3. ASSUME NEW l \in Leases, NEW s, Finish(h, l, s)
      PROVE  clock' = clock /\ machine'.leases = machine.leases /\ claims' = claims
  BY <1>3 DEF Finish
<1>4. ASSUME ExpireLeases(h) \/ ReapStaleWorkers(h)
      PROVE  clock' = clock /\ machine'.leases = machine.leases /\ claims' = claims
  BY <1>4 DEF ExpireLeases, ReapStaleWorkers
<1>5. ASSUME NEW w \in Workers, WorkerHeartbeat(h, w)
      PROVE  clock' = clock /\ machine'.leases = machine.leases /\ claims' = claims
  BY <1>0, <1>5, OtherFields DEF WorkerHeartbeat, CommitLast
<1>6. ASSUME NEW n \in Limits, SetLimit(h, n)
      PROVE  clock' = clock /\ machine'.leases = machine.leases /\ claims' = claims
  BY <1>0, <1>6 DEF SetLimit, CommitLast, TypeOK, Machines
<1> QED BY <1>1, <1>2, <1>3, <1>4, <1>5, <1>6 DEF Request

\* Only acquisitions, renewals, purges and releases change rows: a new row is of
\* an unused lease, a renewed one is of the lease it had.
LEMMA HandleRows ==
    ASSUME Inv, NEW h \in Hosts, Handle(h)
    PROVE  RowsAreNew
<1>0. TypeOK
  BY DEF Inv
<1>1. ASSUME claims' = claims PROVE RowsAreNew
  BY <1>1 DEF RowsAreNew
<1>2. ASSUME \A t \in Tasks : claims'[t] \in {claims[t], NoRow} PROVE RowsAreNew
  <2>1. NoRow.lease \notin Leases
    BY LeaseConstants DEF NoRow
  <2> QED BY <1>2, <2>1 DEF RowsAreNew
<1>3. ASSUME NEW l, claims' = Without(l) PROVE RowsAreNew
  BY <1>2, <1>3 DEF Without
<1>4. ASSUME NEW l \in Leases, Acquire(h, l) PROVE RowsAreNew
  <2> DEFINE t == call[h].task
             live == Live(call[h].ts)
  <2>1. /\ claims' = [live EXCEPT ![t] = [lease |-> l, expires |-> call[h].ts + LeaseTime]]
        /\ ~Recorded(machine, l)
    BY <1>4 DEF Acquire, Unused, Recorded
  <2>2. ASSUME NEW k \in Leases, Recorded(machine, k), NEW u \in Tasks, claims'[u].lease = k
        PROVE  claims[u].lease = k
    <3>1. k # l
      BY <2>1, <2>2
    <3>2. claims'[u] = live[u]
      BY <2>1, <2>2, <3>1 DEF Live
    <3>3. live[u] \in {claims[u], NoRow} /\ NoRow.lease \notin Leases
      BY LeaseConstants DEF Live, NoRow
    <3> QED BY <2>2, <3>2, <3>3
  <2> QED BY <2>2 DEF RowsAreNew
<1>5. ASSUME RefuseClaim(h) PROVE RowsAreNew
  <2>1. claims' \in {claims, Live(call[h].ts)}
    BY <1>5 DEF RefuseClaim
  <2> QED BY <1>2, <2>1 DEF Live
<1>6. ASSUME Renew(h) PROVE RowsAreNew
  <2>1. \A t \in Tasks : claims'[t].lease = claims[t].lease
    BY <1>6 DEF Renew
  <2> QED BY <2>1 DEF RowsAreNew
<1> QED BY <1>1, <1>3, <1>4, <1>5, <1>6
        DEF Handle, CommitFinish, Sweep, ReleaseClaim, NoteFinish, SweepDone, Reap,
            ReapDone, RefuseWorker, RecordClaim, AbandonClaim, NoteClaim, RecordRenewal

LEMMA PutsLeaves ==
    ASSUME Inv, NEW l \in Leases, NEW r, Puts(l, r), r.status # "NONE"
    PROVE  OneLease /\ RecordsStay
BY DEF Puts, OneLease, RecordsStay, Recorded, Inv, TypeOK

LEMMA WritesLeave ==
    ASSUME Inv, NEW h \in Hosts, Writes(h)
    PROVE  OneLease /\ RecordsStay
<1>1. ASSUME NEW l \in Leases, NEW s \in Finished, FinishLease(h, l, s), clock' = clock
      PROVE  OneLease /\ RecordsStay
  <2>1. PICK r : Puts(l, r) /\ r.status = s
    BY <1>1, FinishIs
  <2> QED BY <1>1, <2>1, PutsLeaves DEF Finished
<1>2. CASE CommitFinish(h)
  <2>1. call[h].lease \in Leases /\ call[h].status \in Finished
    BY <1>2 DEF CommitFinish, Inv, Host
  <2> QED BY <1>1, <1>2, <2>1 DEF CommitFinish
<1>3. ASSUME NEW l \in Leases, Sweep(h, l), view[h].leases[l].status = "ACTIVE"
      PROVE  OneLease /\ RecordsStay
  BY <1>1, <1>3 DEF Sweep, Finished
<1>4. CASE RecordClaim(h)
  BY <1>4, RecordClaimIs, PutsLeaves
<1>5. CASE RecordRenewal(h)
  BY <1>5, RecordRenewalIs, PutsLeaves DEF Recorded
<1> QED BY <1>2, <1>3, <1>4, <1>5 DEF Writes

LEMMA StepLeaves ==
    ASSUME Inv, Inv', [Next]_vars
    PROVE  OneLease /\ RecordsStay /\ RowsAreNew
<1>0. clock \in Nat /\ clock' \in Nat
  BY DEF Inv, TypeOK
<1>1. ASSUME machine'.leases = machine.leases, clock <= clock'
      PROVE  OneLease /\ RecordsStay
  BY <1>0, <1>1 DEF OneLease, RecordsStay, Recorded
<1>2. CASE UNCHANGED vars
  BY <1>0, <1>1, <1>2 DEF vars, RowsAreNew
<1>3. ASSUME NEW h \in Hosts, Request(h) PROVE OneLease /\ RecordsStay /\ RowsAreNew
  BY <1>0, <1>1, <1>3, RequestLeaves DEF RowsAreNew
<1>4. ASSUME NEW h \in Hosts, Handle(h) PROVE OneLease /\ RecordsStay /\ RowsAreNew
  <2>1. CASE Writes(h)
    BY <1>4, <2>1, WritesLeave, HandleRows
  <2>2. CASE ~Writes(h)
    <3>1. machine'.leases = machine.leases /\ clock' = clock
      BY <1>4, <2>2, HandleIs
    <3> QED BY <1>0, <1>1, <1>4, <3>1, HandleRows
  <2> QED BY <2>1, <2>2
<1>5. ASSUME NEW h \in Hosts, Crash(h) \/ Resume(h)
      PROVE  OneLease /\ RecordsStay /\ RowsAreNew
  BY <1>0, <1>1, <1>5 DEF Crash, Resume, RowsAreNew
<1>6. CASE Tick
  BY <1>0, <1>1, <1>6 DEF Tick, RowsAreNew
<1> QED BY <1>2, <1>3, <1>4, <1>5, <1>6 DEF Next

\* A step writes rows or leases, not both.
LEMMA RowsOrLeases ==
    ASSUME Inv, [Next]_vars
    PROVE  \/ claims' = claims
           \/ machine'.leases = machine.leases /\ clock' = clock
<1>1. CASE UNCHANGED vars
  BY <1>1 DEF vars
<1>2. ASSUME NEW h \in Hosts, Request(h) PROVE claims' = claims
  BY <1>2, RequestLeaves
<1>3. ASSUME NEW h \in Hosts, Handle(h), ~Writes(h)
      PROVE  machine'.leases = machine.leases /\ clock' = clock
  BY <1>3, HandleIs
<1>4. ASSUME NEW h \in Hosts, Writes(h) PROVE claims' = claims
  BY <1>4 DEF Writes, CommitFinish, Sweep, RecordClaim, RecordRenewal
<1>5. ASSUME NEW h \in Hosts, Crash(h) \/ Resume(h) PROVE claims' = claims
  BY <1>5 DEF Crash, Resume
<1>6. CASE Tick
  BY <1>6 DEF Tick
<1> QED BY <1>1, <1>2, <1>3, <1>4, <1>5, <1>6 DEF Next

\* A lease in force is on record, entitled, and the only one of its task.
LEMMA ForceIs ==
    ASSUME Inv, NEW l \in Active(machine, clock)
    PROVE  /\ l \in Leases /\ Recorded(machine, l)
           /\ machine.leases[l].task \in Tasks
           /\ claims[machine.leases[l].task].lease = l
           /\ \A t : machine.leases[l].task = t => InForce(t) = {l}
<1>1. l \in Leases /\ Recorded(machine, l)
  BY DEF Active, Recorded
<1>2. machine.leases[l].task \in Tasks
  BY <1>1 DEF Inv, Complete
<1>3. \A k \in Active(machine, clock) : claims[machine.leases[k].task].lease = k
  BY DEF Inv, Backed, Holds
<1> QED BY <1>1, <1>2, <1>3 DEF InForce

LEMMA ForceWillBe ==
    ASSUME Inv', NEW l \in Active(machine, clock)'
    PROVE  /\ l \in Leases /\ Recorded(machine', l)
           /\ machine'.leases[l].task \in Tasks
           /\ claims'[machine'.leases[l].task].lease = l
           /\ \A t : machine'.leases[l].task = t => InForce(t)' = {l}
<1>1. l \in Leases /\ Recorded(machine', l)
  BY DEF Active, Recorded
<1>2. machine'.leases[l].task \in Tasks
  BY <1>1 DEF Inv, Complete, Recorded
<1>3. \A k \in Active(machine, clock)' : claims'[machine'.leases[k].task].lease = k
  BY DEF Inv, Backed, Holds
<1>4. ASSUME NEW t, machine'.leases[l].task = t PROVE InForce(t)' = {l}
  BY <1>3, <1>4 DEF InForce
<1> QED BY <1>1, <1>2, <1>3, <1>4

\* The rows change: whoever has lost its row is withdrawn.
LEMMA CustodyWithdraws ==
    ASSUME Inv, Inv', [Next]_vars, machine'.leases = machine.leases, clock' = clock
    PROVE  Custody!Next
<1> DEFINE withdrawn == {l \in OnRecord : Lost(l)' /\ ~Lost(l)}
<1>1. OnRecord' = OnRecord /\ \A l \in OnRecord : l \in Leases /\ Recorded(machine, l)
  BY DEF OnRecord, Recorded
<1>2. \A l \in OnRecord : \A t \in Tasks : claims'[t].lease = l => claims[t].lease = l
  BY <1>1, StepLeaves DEF RowsAreNew
<1>3. Active(machine, clock)' = Active(machine, clock)
  BY DEF Active
<1>4. \A t \in Tasks : InForce(t)' = InForce(t)
  BY <1>3 DEF InForce
<1>5. \A t \in Tasks : InForce(t) \cap withdrawn = {}
  <2> SUFFICES ASSUME NEW t \in Tasks, NEW l \in InForce(t), l \in withdrawn PROVE FALSE
    OBVIOUS
  <2>1. l \in Active(machine, clock)'
    BY <1>3 DEF InForce
  <2> QED BY <2>1, ForceWillBe DEF Lost
<1>6. {l \in OnRecord : Lost(l)}' = {l \in OnRecord : Lost(l)} \cup withdrawn
  BY <1>1, <1>2 DEF Lost
<1>7. ASSUME NEW t \in Tasks
      PROVE  {l \in OnRecord : claims[t].lease = l}'
                 = {l \in OnRecord : claims[t].lease = l} \ withdrawn
  <2>1. ASSUME NEW l \in OnRecord, claims'[t].lease = l
        PROVE  claims[t].lease = l /\ l \notin withdrawn
    BY <1>2, <2>1 DEF Lost
  <2>2. ASSUME NEW l \in OnRecord, claims[t].lease = l, claims'[t].lease # l
        PROVE  l \in withdrawn
    <3>1. ASSUME NEW u \in Tasks, claims'[u].lease = l PROVE FALSE
      <4>1. machine.leases[l].task = t /\ machine.leases[l].task = u
        BY <1>1, <1>2, <2>2, <3>1 DEF Inv, RowsMatch
      <4> QED BY <2>2, <3>1, <4>1
    <3> QED BY <2>2, <3>1 DEF Lost
  <2> QED BY <1>1, <2>1, <2>2
<1>8. withdrawn \in SUBSET Leases
  BY <1>1
<1>9. PICK gone \in SUBSET Leases : gone = withdrawn
  BY <1>8
<1>10. Custody!Withdraw(gone)
  BY <1>4, <1>5, <1>6, <1>7, <1>9 DEF Custody!Withdraw
<1> QED BY <1>10 DEF Custody!Next

\* What a step leaves alone that neither writes rows nor puts a lease on record.
LEMMA EntitlementStays ==
    ASSUME claims' = claims, OnRecord' = OnRecord
    PROVE  /\ UNCHANGED {l \in OnRecord : Lost(l)}
           /\ UNCHANGED [t \in Tasks |-> {l \in OnRecord : claims[t].lease = l}]
<1>1. \A l : Lost(l)' <=> Lost(l)
  BY DEF Lost
<1> QED BY <1>1

\* Nothing comes into force: what has ended has lapsed.
LEMMA CustodyLapses ==
    ASSUME Inv, Inv', [Next]_vars, claims' = claims, OnRecord' = OnRecord,
           Active(machine, clock)' \subseteq Active(machine, clock)
    PROVE  Custody!Next
<1> DEFINE ended == {t \in Tasks : InForce(t)' = {}}
<1>1. ASSUME NEW t \in Tasks, t \notin ended PROVE InForce(t)' = InForce(t)
  <2>1. PICK l \in Active(machine, clock)' : machine'.leases[l].task = t
    BY <1>1 DEF InForce
  <2>2. l \in Active(machine, clock) /\ machine.leases[l].task = t
    BY <2>1, ForceIs, StepLeaves DEF RecordsStay
  <2>3. InForce(t)' = {l}
    BY <2>1, ForceWillBe
  <2>4. InForce(t) = {l}
    BY <2>2, ForceIs
  <2> QED BY <2>3, <2>4
<1>2. [t \in Tasks |-> InForce(t)]' = [t \in Tasks |-> IF t \in ended THEN {} ELSE InForce(t)]
  BY <1>1
<1>3. Custody!Lapse(ended)
  BY <1>2, EntitlementStays DEF Custody!Lapse
<1> QED BY <1>3 DEF Custody!Next

\* What a write of lease l leaves alone: the leases of the other tasks.
LEMMA OthersStay ==
    ASSUME Inv, Inv', NEW l \in Leases, clock' = clock,
           \A k \in Leases : k # l => machine'.leases[k] = machine.leases[k],
           NEW t, machine'.leases[l].task = t, Recorded(machine, l) =>
              machine.leases[l].task = t
    PROVE  /\ \A k : k # l => (k \in Active(machine, clock)' <=> k \in Active(machine, clock))
           /\ \A k : k # l => (k \in OnRecord' <=> k \in OnRecord)
           /\ \A u \in Tasks : u # t => InForce(u)' = InForce(u)
<1>1. ASSUME NEW k, k # l
      PROVE  /\ k \in Active(machine, clock)' <=> k \in Active(machine, clock)
             /\ k \in OnRecord' <=> k \in OnRecord
             /\ \A u : k \in InForce(u)' <=> k \in InForce(u)
  BY <1>1 DEF Active, OnRecord, InForce
<1>2. \A u \in Tasks : u # t => l \notin InForce(u)' /\ l \notin InForce(u)
  BY DEF InForce, Active, Recorded
<1> QED BY <1>1, <1>2

\* A lease that is entitled comes into force again.
LEMMA CustodyRevives ==
    ASSUME Inv, Inv', [Next]_vars, claims' = claims, OnRecord' = OnRecord,
           NEW l \in Active(machine, clock)', l \notin Active(machine, clock)
    PROVE  Custody!Next
<1>1. l \in Leases /\ Recorded(machine, l)
  BY ForceWillBe DEF OnRecord, Recorded
<1>2. PICK t \in Tasks : machine'.leases[l].task = t
  BY ForceWillBe
<1>3. machine.leases[l].task = t /\ InForce(t)' = {l} /\ claims[t].lease = l
  BY <1>1, <1>2, ForceWillBe, StepLeaves DEF RecordsStay
<1>4. /\ clock' = clock
      /\ \A k \in Leases : k # l => machine'.leases[k] = machine.leases[k]
  <2>1. machine'.leases[l].status = "ACTIVE" /\ machine'.leases[l].expires > clock'
    BY DEF Active
  <2>2. machine.leases[l].status # "ACTIVE" \/ ~(machine.leases[l].expires > clock)
    BY <1>1 DEF Active
  <2>3. machine.leases[l].expires \in Nat /\ OneLease
    BY <1>1, StepLeaves, LeaseType DEF Inv, TypeOK
  <2>4. machine'.leases # machine.leases
    BY <2>1, <2>2, <2>3 DEF OneLease
  <2>5. PICK j \in Leases : \A k \in Leases : k # j => machine'.leases[k] = machine.leases[k]
    BY <2>3, <2>4 DEF OneLease
  <2>6. clock' = clock
    BY <2>3, <2>4 DEF OneLease
  <2>7. j = l
    BY <1>1, <2>1, <2>2, <2>5, <2>6
  <2> QED BY <2>5, <2>6, <2>7
<1>5. InForce(t) = {}
  <2> SUFFICES ASSUME NEW k \in InForce(t) PROVE FALSE
    OBVIOUS
  <2>1. k \in Active(machine, clock) /\ claims[t].lease = k
    BY ForceIs DEF InForce
  <2> QED BY <1>3, <2>1
<1>6. \A u \in Tasks : u # t => InForce(u)' = InForce(u)
  BY <1>1, <1>2, <1>3, <1>4, OthersStay
<1>7. {k \in OnRecord : claims[t].lease = k} = {l}
  BY <1>1, <1>3 DEF OnRecord, Recorded
<1> DEFINE held == [u \in Tasks |-> InForce(u)]
           entitled == [u \in Tasks |-> {k \in OnRecord : claims[u].lease = k}]
<1>8. held' = [held EXCEPT ![t] = entitled[t]]
  BY <1>3, <1>6, <1>7
<1>9. held[t] = {}
  BY <1>5
<1>10. Custody!Revive(t)
  BY <1>8, <1>9, EntitlementStays DEF Custody!Revive
<1> QED BY <1>10 DEF Custody!Next

\* A lease is put on record: it is granted, or too late if its row is gone.
LEMMA CustodyGrants ==
    ASSUME Inv, Inv', [Next]_vars, claims' = claims,
           NEW l \in OnRecord', l \notin OnRecord
    PROVE  Custody!Next
<1>1. l \in Leases /\ ~Recorded(machine, l) /\ Recorded(machine', l)
  BY DEF OnRecord, Recorded
<1>2. PICK t \in Tasks : machine'.leases[l].task = t
  BY <1>1 DEF Inv, Complete, Recorded
<1>3. /\ clock' = clock
      /\ \A k \in Leases : k # l => machine'.leases[k] = machine.leases[k]
  <2>1. machine'.leases # machine.leases
    BY <1>1 DEF Recorded
  <2> QED BY <1>1, <2>1, StepLeaves DEF OneLease, Recorded
<1>4. /\ \A k : k # l => (k \in Active(machine, clock)' <=> k \in Active(machine, clock))
      /\ \A k : k # l => (k \in OnRecord' <=> k \in OnRecord)
      /\ \A u \in Tasks : u # t => InForce(u)' = InForce(u)
  BY <1>1, <1>2, <1>3, OthersStay
<1>5. \A k : Lost(k)' <=> Lost(k)
  BY DEF Lost
<1>6. OnRecord' = OnRecord \cup {l}
  BY <1>4
<1>7. l \notin Active(machine, clock)
  BY <1>1 DEF Active, Recorded
<1> DEFINE held == [u \in Tasks |-> InForce(u)]
           entitled == [u \in Tasks |-> {k \in OnRecord : claims[u].lease = k}]
           out == {k \in OnRecord : Lost(k)}
<1>8. CASE Lost(l)
  <2>1. l \notin Active(machine, clock)'
    BY <1>5, <1>8, ForceWillBe DEF Lost
  <2>2. InForce(t)' = InForce(t)
    <3>1. ASSUME NEW k PROVE k \in InForce(t)' <=> k \in InForce(t)
      <4>1. CASE k = l
        BY <1>7, <2>1, <4>1 DEF InForce
      <4>2. CASE k # l
        BY <1>3, <1>4, <4>2 DEF InForce, Active
      <4> QED BY <4>1, <4>2
    <3> QED BY <3>1
  <2>3. held' = held
    BY <1>4, <2>2
  <2>4. \A u \in Tasks : claims[u].lease # l
    BY <1>8 DEF Lost
  <2>5. entitled' = [u \in Tasks |-> entitled[u] \ {l}]
    BY <1>6, <2>4
  <2>6. out' = out \cup {l}
    BY <1>5, <1>6, <1>8
  <2>7. \A u \in Tasks : held[u] \cap {l} = {}
    BY <1>7 DEF InForce
  <2>8. Custody!Withdraw({l})
    BY <2>3, <2>5, <2>6, <2>7 DEF Custody!Withdraw
  <2> QED BY <1>1, <2>8 DEF Custody!Next
<1>9. CASE ~Lost(l)
  <2>1. claims[t].lease = l /\ \A u \in Tasks : claims[u].lease = l => u = t
    <3>1. \A u \in Tasks : claims'[u].lease = l => u = t
      BY <1>1, <1>2 DEF Inv, RowsMatch, Recorded
    <3> QED BY <1>9, <3>1 DEF Lost
  <2>2. \A u \in Tasks : l \notin entitled[u]
    OBVIOUS
  <2>3. entitled[t] = {}
    BY <2>1
  <2>4. entitled' = [entitled EXCEPT ![t] = {l}]
    BY <1>6, <2>1
  <2>5. out' = out
    BY <1>5, <1>6, <1>9
  <2>6. InForce(t)' \in {{}, {l}}
    <3> SUFFICES ASSUME NEW k \in InForce(t)' PROVE k = l
      OBVIOUS
    <3>1. k \in Active(machine, clock)' /\ machine'.leases[k].task = t
      BY DEF InForce
    <3>2. claims'[t].lease = k
      BY <3>1, ForceWillBe
    <3> QED BY <2>1, <3>2
  <2>7. held' = [held EXCEPT ![t] = InForce(t)']
    BY <1>4
  <2>8. l \notin out
    OBVIOUS
  <2>9. Custody!Grant(t, l)
    BY <2>2, <2>3, <2>4, <2>5, <2>6, <2>7, <2>8 DEF Custody!Grant
  <2> QED BY <1>1, <2>9 DEF Custody!Next
<1> QED BY <1>8, <1>9

LEMMA CustodyInit == Init => Custody!Init
<1> SUFFICES ASSUME Init PROVE Custody!Init
  OBVIOUS
<1>1. \A l \in Leases : machine.leases[l].status = "NONE"
  BY DEF Init, NoLease
<1>2. OnRecord = {} /\ Active(machine, clock) = {}
  BY <1>1 DEF Active, OnRecord
<1>3. \A t \in Tasks : InForce(t) = {}
  BY <1>2 DEF InForce
<1> QED BY <1>2, <1>3 DEF Custody!Init, Custody!Nobody

LEMMA CustodyStep ==
    ASSUME Inv, Inv', [Next]_vars
    PROVE  [Custody!Next]_(Custody!cvars)
<1>1. CASE machine'.leases = machine.leases /\ clock' = clock
  BY <1>1, CustodyWithdraws
<1>2. CASE claims' = claims /\ OnRecord' = OnRecord
  <2>1. CASE Active(machine, clock)' \subseteq Active(machine, clock)
    BY <1>2, <2>1, CustodyLapses
  <2>2. CASE ~(Active(machine, clock)' \subseteq Active(machine, clock))
    BY <1>2, <2>2, CustodyRevives
  <2> QED BY <2>1, <2>2
<1>3. CASE claims' = claims /\ OnRecord' # OnRecord
  <2>1. OnRecord \subseteq OnRecord'
    BY StepLeaves DEF RecordsStay, OnRecord, Recorded
  <2>2. PICK l \in OnRecord' : l \notin OnRecord
    BY <1>3, <2>1
  <2> QED BY <1>3, <2>2, CustodyGrants
<1> QED BY <1>1, <1>2, <1>3, RowsOrLeases

\* The leases implement the custody of tasks, for any number of hosts, workers,
\* tasks and crashes, for copies of any age and handlers of any length: a task
\* passes to a lease that never had it, and the former lease is out for good.
THEOREM CustodyImplemented == Spec => ImplementsCustody
BY Invariance, CustodyInit, CustodyStep, PTL DEF Spec, ImplementsCustody, Custody!Spec
=============================================================================
