------------------------- MODULE ReservationsProofs -------------------------
(***************************************************************************)
(* Proofs about reservations, for every set of hosts, capacities and       *)
(* candidates, every demand and every bound.                               *)
(***************************************************************************)
EXTENDS Reservations, TLAPS, FiniteSetTheorems, WellFoundedInduction

-----------------------------------------------------------------------------
(* The inductive invariants, in named parts.                                *)

Posts == UNION {[S -> Capacities] : S \in SUBSET Resources}

Reserved == [status : Statuses, held : Vectors, spent : Vectors]

Projections ==
    [capacity : [Resources -> Capacities], reservation : [Candidates -> Reserved]]

Kinds == {"reserve", "settle", "release", "reestimate", "capacity", "observation"}

Docs ==
    [kind : Kinds, about : Candidates \cup Resources \cup {None},
     amounts : Vectors, post : Posts, rows : SUBSET Candidates,
     verdict : SUBSET (Candidates \cup Resources), before : Vectors]

Tasks == [actual : [Bound -> Vectors], todo : SUBSET Bound]

\* A host in one of these steps has made its projection and not yet refreshed.
Reading == {"decided", "reported", "entered"}

\* A host has a projection, a document and a task where its step needs them.
TypeInv ==
    /\ Projection \in Projections
    /\ at \in [Hosts -> Steps]
    /\ plan \in [Hosts -> Projections \cup {None}]
    /\ pending \in [Hosts -> Docs \cup {None}]
    /\ task \in [Hosts -> Tasks \cup {None}]
    /\ current \in [Hosts -> BOOLEAN]
    /\ \A h \in Hosts :
          /\ at[h] \in Reading => plan[h] \in Projections
          /\ at[h] \in {"appending", "observing", "explaining"} => pending[h] \in Docs
          /\ at[h] \in {"settling", "summing"} => task[h] \in Tasks

\* A settlement of c with this consumption is in the evidence.
Charged(docs, c, actual) ==
    \E d \in docs : d.kind = "settle" /\ d.about = c /\ d.amounts = actual

SettledAreCharged(docs, reserved) ==
    \A c \in Candidates :
        reserved[c].status = "SETTLED" => Charged(docs, c, reserved[c].spent)

\* What the settlement t of an effect has behind it.
DoneIsCharged(docs, t) ==
    t # None => \A c \in Bound \ t.todo : Charged(docs, c, t.actual[c])

\* The document is one that the settlement t of an effect still lacks.
Due(t, d) ==
    t # None =>
        /\ d.kind = "settle"
        /\ d.about \in t.todo
        /\ d.amounts = t.actual[d.about]

\* What the settlement of an effect has behind it is in the evidence, and what
\* it is about to append settles one of the rest.
ProgressOf(h) ==
    /\ at[h] \in Reading => SettledAreCharged(documents, plan[h].reservation)
    /\ at[h] \in {"reported", "observing", "explaining", "binding"} => task[h] = None
    /\ DoneIsCharged(documents, task[h])
    /\ at[h] = "appending" => Due(task[h], pending[h])
    /\ at[h] = "summing" => task[h] # None /\ task[h].todo = {}

Progress == \A h \in Hosts : ProgressOf(h)

SummaryInv == SettledAreCharged(documents, reservation) /\ Progress /\ SummaryIsReal

\* What a reservation holds of a capacity, and what a document charges it.
Share(old, r) ==
    IF old.status \in {"ACTIVE", "REPLAN_REQUIRED"} /\ r \in DOMAIN old.held
    THEN old.held[r] ELSE 0

Charge(d, r) ==
    IF d.kind = "settle" /\ r \in DOMAIN d.amounts THEN d.amounts[r] ELSE 0

\* The document changes what is committed of a capacity by at least what it
\* changes in the reservation it is about, and consumes what it charges.
Balanced(d) ==
    \A r \in Resources :
        LET new == Update(capacity, d.post)[r] IN
        /\ new.consumed = capacity[r].consumed + Charge(d, r)
        /\ IF d.about \in Candidates
           THEN new.committed + Share(reservation[d.about], r)
                  >= capacity[r].committed + Share(Projected(reservation[d.about], d), r)
           ELSE new.committed >= capacity[r].committed

\* With one engine nobody commits between a projection and its refresh: a host
\* reads what is so, and what it is about to append was computed from what is still so.
ReadsAreCurrent ==
    \A h \in Hosts :
        /\ at[h] \in Reading => plan[h] = Projection
        /\ at[h] \in {"appending", "observing"} /\ current[h] => Balanced(pending[h])

-----------------------------------------------------------------------------
(* Vectors, capacities and documents.                                       *)

LEMMA VectorIs ==
    \A v : v \in Vectors <=> DOMAIN v \subseteq Resources /\ v \in [DOMAIN v -> Nat]
    BY DEF Vectors

LEMMA PostIs ==
    \A p : p \in Posts <=> DOMAIN p \subseteq Resources /\ p \in [DOMAIN p -> Capacities]
    BY DEF Posts

LEMMA TaskIs ==
    ASSUME NEW t \in Tasks
    PROVE  t # None /\ t.todo \subseteq Bound /\ \A c \in Bound : t.actual[c] \in Vectors
<1>1. t # None /\ t.todo \subseteq Bound
    BY ReservationsAssumption DEF Tasks
<1>2. ASSUME NEW c \in Bound PROVE t.actual[c] \in Vectors
    BY DEF Tasks
<1> QED
    BY <1>1, <1>2

LEMMA NothingIsVector == Nothing \in Vectors /\ Nothing \in Posts
    BY VectorIs, PostIs DEF Nothing

\* What is committed, freed or consumed of well-formed capacities is well-formed.
LEMMA CommitTypes ==
    ASSUME NEW cap \in [Resources -> Capacities], NEW v \in Vectors
    PROVE  Commit(cap, v) \in Posts /\ DOMAIN Commit(cap, v) = DOMAIN v
<1>1. DOMAIN v \subseteq Resources /\ v \in [DOMAIN v -> Nat]
    BY VectorIs
<1>2. \A r \in DOMAIN v : cap[r] \in Capacities /\ v[r] \in Nat
    BY <1>1
<1>3. \A r \in DOMAIN v : Commit(cap, v)[r] \in Capacities
    BY <1>2 DEF Commit, Capacities
<1>4. Commit(cap, v) \in [DOMAIN v -> Capacities]
    BY <1>3 DEF Commit
<1> QED
    BY <1>1, <1>4, PostIs

LEMMA FreeTypes ==
    ASSUME NEW cap \in [Resources -> Capacities], NEW v \in Vectors, Covers(cap, v)
    PROVE  Free(cap, v) \in Posts /\ DOMAIN Free(cap, v) = DOMAIN v
<1>1. DOMAIN v \subseteq Resources /\ v \in [DOMAIN v -> Nat]
    BY VectorIs
<1>2. \A r \in DOMAIN v : cap[r] \in Capacities /\ v[r] \in Nat
    BY <1>1
<1>3. \A r \in DOMAIN v : Free(cap, v)[r] \in Capacities
    BY <1>2, Covers(cap, v) DEF Free, Capacities, Covers
<1>4. Free(cap, v) \in [DOMAIN v -> Capacities]
    BY <1>3 DEF Free
<1> QED
    BY <1>1, <1>4, PostIs

LEMMA ConsumeTypes ==
    ASSUME NEW cap \in [Resources -> Capacities], NEW v \in Vectors, Covers(cap, v),
           NEW actual \in Vectors, DOMAIN actual = DOMAIN v
    PROVE  Consume(cap, v, actual) \in Posts /\ DOMAIN Consume(cap, v, actual) = DOMAIN v
<1>0. \A r \in DOMAIN v : actual[r] \in Nat
    BY VectorIs
<1>1. DOMAIN v \subseteq Resources /\ v \in [DOMAIN v -> Nat]
    BY VectorIs
<1>2. \A r \in DOMAIN v : cap[r] \in Capacities /\ v[r] \in Nat
    BY <1>1
<1>3. \A r \in DOMAIN v : Consume(cap, v, actual)[r] \in Capacities
    <2> SUFFICES ASSUME NEW r \in DOMAIN v
                 PROVE  Consume(cap, v, actual)[r] \in Capacities
        OBVIOUS
    <2>1. /\ cap[r] \in Capacities /\ v[r] \in Nat /\ actual[r] \in Nat
          /\ v[r] <= cap[r].committed
        BY <1>0, <1>2, Covers(cap, v) DEF Covers
    <2>2. /\ cap[r].committed - v[r] \in Nat
          /\ cap[r].consumed + actual[r] \in Nat
        BY <2>1 DEF Capacities
    <2>3. Consume(cap, v, actual)[r] =
            [cap[r] EXCEPT !.committed = @ - v[r], !.consumed = @ + actual[r]]
        BY DEF Consume
    <2> QED
        BY <2>1, <2>2, <2>3 DEF Capacities
<1>4. Consume(cap, v, actual) \in [DOMAIN v -> Capacities]
    BY <1>3 DEF Consume
<1> QED
    BY <1>1, <1>4, PostIs

LEMMA UpdateTypes ==
    ASSUME NEW cap \in [Resources -> Capacities], NEW post \in Posts
    PROVE  Update(cap, post) \in [Resources -> Capacities]
    BY PostIs DEF Update

LEMMA ProjectedTypes ==
    ASSUME NEW old \in Reserved, NEW d \in Docs
    PROVE  Projected(old, d) \in Reserved
    BY NothingIsVector DEF Projected, Reserved, Docs, Kinds, Statuses

LEMMA DocumentTypes ==
    ASSUME NEW kind \in Kinds, NEW about \in Candidates \cup Resources \cup {None},
           NEW amounts \in Vectors, NEW post \in Posts
    PROVE  Document(kind, about, amounts, post) \in Docs
    BY NothingIsVector DEF Document, Docs

-----------------------------------------------------------------------------
(* What the frame of a handler does.                                        *)

\* A step that is taken by h alone.
OnlyOf(h) ==
    /\ at' = [at EXCEPT ![h] = at'[h]]
    /\ plan' = [plan EXCEPT ![h] = plan'[h]]
    /\ pending' = [pending EXCEPT ![h] = pending'[h]]
    /\ task' = [task EXCEPT ![h] = task'[h]]

\* After its document is in the evidence a handler reads and appends no more.
LEMMA ContinueDoes ==
    ASSUME TypeInv, NEW h \in Hosts, NEW d \in Docs, Continue(h, d)
    PROVE  /\ at' = [at EXCEPT ![h] = at'[h]]
           /\ at'[h] \in {"explaining", "binding", "summing", "settling", "idle"}
           /\ pending' = [pending EXCEPT ![h] = pending'[h]]
           /\ pending'[h] \in Docs \cup {None}
           /\ at'[h] = "explaining" => pending'[h] = d
           /\ task' = [task EXCEPT ![h] = task'[h]]
           /\ task'[h] \in Tasks \cup {None}
           /\ at'[h] \in {"settling", "summing"} => task'[h] \in Tasks
<1>0. /\ at \in [Hosts -> Steps] /\ pending \in [Hosts -> Docs \cup {None}]
      /\ task \in [Hosts -> Tasks \cup {None}]
    BY DEF TypeInv
<1>1. CASE d.kind = "reserve"
    BY <1>0, <1>1 DEF Continue, Go
<1>2. CASE d.kind # "reserve" /\ d.kind = "capacity"
    BY <1>0, <1>2 DEF Continue, Go
<1>3. CASE d.kind # "reserve" /\ d.kind # "capacity" /\ task[h] # None
    <2>1. /\ task' = [task EXCEPT ![h] = Settled(@, d)]
          /\ Go(h, IF task'[h].todo = {} THEN "summing" ELSE "settling", None)
        BY <1>3 DEF Continue
    <2>2. task[h] \in Tasks
        BY <1>0, <1>3
    <2>3. task'[h] = Settled(task[h], d)
        BY <1>0, <2>1
    <2>4. task'[h] \in Tasks
        <3>1. d.amounts \in Vectors
            BY DEF Docs
        <3>2. [task[h].actual EXCEPT ![d.about] = d.amounts] \in [Bound -> Vectors]
            BY <2>2, <3>1 DEF Tasks
        <3>3. task'[h] = [actual |-> [task[h].actual EXCEPT ![d.about] = d.amounts],
                          todo |-> task[h].todo \ {d.about}]
            BY <2>2, <2>3 DEF Tasks, Settled
        <3> QED
            BY <2>2, <3>2, <3>3 DEF Tasks
    <2> QED
        BY <1>0, <2>1, <2>3, <2>4 DEF Go
<1>4. CASE d.kind # "reserve" /\ d.kind # "capacity" /\ task[h] = None
    BY <1>0, <1>4 DEF Continue, Return, Go
<1> QED
    BY <1>1, <1>2, <1>3, <1>4

\* A recorded document is either in the evidence or about to be appended.
LEMMA RecordDoes ==
    ASSUME TypeInv, NEW h \in Hosts, NEW d \in Docs, Record(h, d)
    PROVE  /\ TypeInv' /\ OnlyOf(h) /\ UNCHANGED ledger
           /\ at'[h] \notin Reading \cup {"observing"}
           /\ at'[h] = "appending" => /\ pending'[h] = d /\ d \notin documents
                                     /\ UNCHANGED task
           /\ at'[h] # "appending" => d \in documents /\ Continue(h, d)
           /\ \A g \in Hosts \ {h} : current'[g] = current[g]
<1>0. TypeInv
    OBVIOUS
<1>1. /\ plan' = [plan EXCEPT ![h] = None]
      /\ current' = [current EXCEPT ![h] = at'[h] # "idle"]
      /\ UNCHANGED ledger
    BY DEF Record
<1>2. CASE d \in documents
    <2>1. Continue(h, d)
        BY <1>2 DEF Record, Found
    <2>2. /\ at' = [at EXCEPT ![h] = at'[h]]
          /\ at'[h] \in {"explaining", "binding", "summing", "settling", "idle"}
          /\ pending' = [pending EXCEPT ![h] = pending'[h]]
          /\ pending'[h] \in Docs \cup {None}
          /\ at'[h] = "explaining" => pending'[h] = d
          /\ task' = [task EXCEPT ![h] = task'[h]]
          /\ task'[h] \in Tasks \cup {None}
          /\ at'[h] \in {"settling", "summing"} => task'[h] \in Tasks
        BY <1>0, <2>1, ContinueDoes
    <2> QED
        BY <1>0, <1>1, <1>2, <2>1, <2>2
        DEF TypeInv, OnlyOf, Reading, Steps, ledger, Projection
<1>3. CASE d \notin documents
    <2>1. Go(h, "appending", d) /\ UNCHANGED task
        BY <1>3 DEF Record, Found
    <2>2. /\ at' = [at EXCEPT ![h] = "appending"] /\ at'[h] = "appending"
          /\ pending' = [pending EXCEPT ![h] = d] /\ pending'[h] = d
        BY <1>0, <2>1 DEF Go, TypeInv
    <2>3. OnlyOf(h)
        BY <1>0, <1>1, <2>1, <2>2 DEF TypeInv, OnlyOf
    <2>4. TypeInv'
        BY <1>0, <1>1, <2>1, <2>2 DEF TypeInv, Reading, Steps, ledger, Projection
    <2> QED
        BY <1>0, <1>1, <1>3, <2>1, <2>2, <2>3, <2>4 DEF Reading, TypeInv
<1> QED
    BY <1>2, <1>3

-----------------------------------------------------------------------------
(* The documents of the operations.  Computed from what is so, each of them *)
(* leaves the protected reserve of what it commits more of, and is balanced. *)

LEMMA PlanHas ==
    ASSUME TypeInv, NEW h \in Hosts, at[h] \in Reading
    PROVE  /\ plan[h].capacity \in [Resources -> Capacities]
           /\ plan[h].reservation \in [Candidates -> Reserved]
           /\ plan[h] = Projection => /\ plan[h].capacity = capacity
                                     /\ plan[h].reservation = reservation
    BY DEF TypeInv, Projections, Projection

LEMMA UpdateIs ==
    ASSUME NEW cap, NEW post, NEW r \in Resources
    PROVE  Update(cap, post)[r] = IF r \in DOMAIN post THEN post[r] ELSE cap[r]
    BY DEF Update

LEMMA ShareIsNat ==
    ASSUME NEW old \in Reserved, NEW r \in Resources
    PROVE  Share(old, r) \in Nat
<1>1. old.held \in [DOMAIN old.held -> Nat]
    BY VectorIs DEF Reserved
<1> QED
    BY <1>1 DEF Share

LEMMA NothingBalances ==
    ASSUME TypeInv, NEW d \in Docs, d.kind = "reserve", d.about \notin Candidates,
           d.post = Nothing
    PROVE  Balanced(d)
<1>1. \A r \in Resources : Update(capacity, d.post)[r] = capacity[r]
    BY UpdateIs DEF Nothing
<1>2. \A r \in Resources : capacity[r].consumed \in Nat /\ capacity[r].committed \in Nat
    BY DEF TypeInv, Projection, Projections, Capacities
<1> QED
    BY <1>1, <1>2 DEF Balanced, Charge

LEMMA ReserveBalances ==
    ASSUME TypeInv, NEW d \in Docs, d.kind = "reserve", NEW c \in Candidates, d.about = c,
           NEW v \in Vectors, d.amounts = v, d.post = Commit(capacity, v)
    PROVE  Balanced(d)
<1> SUFFICES ASSUME NEW r \in Resources
             PROVE  LET new == Update(capacity, d.post)[r] IN
                    /\ new.consumed = capacity[r].consumed
                    /\ new.committed + Share(reservation[c], r)
                         >= capacity[r].committed + Share(Projected(reservation[c], d), r)
    BY DEF Balanced, Charge, TypeInv, Projection, Projections, Capacities
<1>1. capacity[r] \in Capacities /\ Share(reservation[c], r) \in Nat
    BY ShareIsNat DEF TypeInv, Projection, Projections
<1>2. Share(Projected(reservation[c], d), r) = IF r \in DOMAIN v THEN v[r] ELSE 0
    BY DEF Share, Projected
<1>3. Update(capacity, d.post)[r] = IF r \in DOMAIN v THEN Commit(capacity, v)[r]
                                                      ELSE capacity[r]
    BY UpdateIs DEF Commit
<1>4. CASE r \in DOMAIN v
    <2>1. v[r] \in Nat
        BY <1>4, VectorIs
    <2>2. Update(capacity, d.post)[r] = [capacity[r] EXCEPT !.committed = @ + v[r]]
        BY <1>3, <1>4 DEF Commit
    <2> QED
        BY <1>1, <1>2, <1>4, <2>1, <2>2 DEF Capacities
<1>5. CASE r \notin DOMAIN v
    BY <1>1, <1>2, <1>3, <1>5 DEF Capacities
<1> QED
    BY <1>4, <1>5

LEMMA SettleBalances ==
    ASSUME TypeInv, NEW d \in Docs, d.kind = "settle", NEW c \in Candidates, d.about = c,
           reservation[c].status = "ACTIVE", Covers(capacity, reservation[c].held),
           NEW actual \in Vectors, DOMAIN actual = DOMAIN reservation[c].held,
           d.amounts = actual,
           d.post = Consume(capacity, reservation[c].held, actual)
    PROVE  Balanced(d)
<1> DEFINE v == reservation[c].held
<1> SUFFICES ASSUME NEW r \in Resources
             PROVE  LET new == Update(capacity, d.post)[r] IN
                    /\ new.consumed = capacity[r].consumed + Charge(d, r)
                    /\ new.committed + Share(reservation[c], r)
                         >= capacity[r].committed + Share(Projected(reservation[c], d), r)
    BY DEF Balanced
<1>1. capacity[r] \in Capacities /\ v \in Vectors
    BY DEF TypeInv, Projection, Projections, Reserved
<1>2. /\ Share(Projected(reservation[c], d), r) = 0
      /\ Share(reservation[c], r) = IF r \in DOMAIN v THEN v[r] ELSE 0
      /\ Charge(d, r) = IF r \in DOMAIN v THEN actual[r] ELSE 0
    <2>1. Projected(reservation[c], d)
             = [reservation[c] EXCEPT !.status = "SETTLED", !.spent = d.amounts]
        BY DEF Projected
    <2>2. Projected(reservation[c], d).status = "SETTLED"
        BY <2>1 DEF TypeInv, Projection, Projections, Reserved
    <2> QED
        BY <2>2 DEF Share, Charge
<1>3. Update(capacity, d.post)[r] = IF r \in DOMAIN v THEN Consume(capacity, v, actual)[r]
                                                      ELSE capacity[r]
    <2>1. d.post = Consume(capacity, v, actual)
        OBVIOUS
    <2>2. DOMAIN Consume(capacity, v, actual) = DOMAIN v
        BY DEF Consume
    <2> HIDE DEF v
    <2> QED
        BY <2>1, <2>2, UpdateIs
<1>4. CASE r \in DOMAIN v
    <2>1. v[r] \in Nat /\ actual[r] \in Nat
        BY <1>1, <1>4, VectorIs
    <2>2. Update(capacity, d.post)[r] =
            [capacity[r] EXCEPT !.committed = @ - v[r], !.consumed = @ + actual[r]]
        BY <1>3, <1>4 DEF Consume
    <2> HIDE DEF v
    <2> QED
        BY <1>1, <1>2, <1>4, <2>1, <2>2 DEF Capacities
<1>5. CASE r \notin DOMAIN v
    BY <1>1, <1>2, <1>3, <1>5 DEF Capacities
<1> QED
    BY <1>4, <1>5

LEMMA ReleaseBalances ==
    ASSUME TypeInv, NEW d \in Docs, d.kind = "release", NEW c \in Candidates, d.about = c,
           Live(reservation, c), d.post = Free(capacity, reservation[c].held)
    PROVE  Balanced(d)
<1> DEFINE v == reservation[c].held
<1> SUFFICES ASSUME NEW r \in Resources
             PROVE  LET new == Update(capacity, d.post)[r] IN
                    /\ new.consumed = capacity[r].consumed
                    /\ new.committed + Share(reservation[c], r)
                         >= capacity[r].committed + Share(Projected(reservation[c], d), r)
    BY DEF Balanced, Charge, TypeInv, Projection, Projections, Capacities
<1>1. capacity[r] \in Capacities /\ v \in Vectors
    BY DEF TypeInv, Projection, Projections, Reserved
<1>2. /\ Share(Projected(reservation[c], d), r) = 0
      /\ Share(reservation[c], r) = IF r \in DOMAIN v THEN v[r] ELSE 0
    <2>1. Projected(reservation[c], d) = [reservation[c] EXCEPT !.status = "RELEASED"]
        BY DEF Projected
    <2>2. Projected(reservation[c], d).status = "RELEASED"
        BY <2>1 DEF TypeInv, Projection, Projections, Reserved
    <2> QED
        BY <2>2 DEF Share, Live
<1>3. Update(capacity, d.post)[r] = IF r \in DOMAIN v THEN Free(capacity, v)[r]
                                                      ELSE capacity[r]
    BY UpdateIs DEF Free
<1>4. CASE r \in DOMAIN v
    <2>1. v[r] \in Nat
        BY <1>1, <1>4, VectorIs
    <2>2. Update(capacity, d.post)[r] = [capacity[r] EXCEPT !.committed = @ - v[r]]
        BY <1>3, <1>4 DEF Free
    <2> HIDE DEF v
    <2> QED
        BY <1>1, <1>2, <1>4, <2>1, <2>2 DEF Capacities
<1>5. CASE r \notin DOMAIN v
    BY <1>1, <1>2, <1>3, <1>5 DEF Capacities
<1> QED
    BY <1>4, <1>5

LEMMA ReestimateBalances ==
    ASSUME TypeInv, NEW d \in Docs, d.kind = "reestimate", NEW c \in Candidates,
           d.about = c, reservation[c].status = "ACTIVE",
           Covers(capacity, reservation[c].held),
           NEW revised \in Vectors, DOMAIN revised = DOMAIN reservation[c].held,
           d.amounts = revised,
           d.post = IF d.verdict = {}
                    THEN Commit(Update(capacity, Free(capacity, reservation[c].held)), revised)
                    ELSE Nothing
    PROVE  Balanced(d)
<1> DEFINE v == reservation[c].held
           trial == Update(capacity, Free(capacity, v))
<1> SUFFICES ASSUME NEW r \in Resources
             PROVE  LET new == Update(capacity, d.post)[r] IN
                    /\ new.consumed = capacity[r].consumed
                    /\ new.committed + Share(reservation[c], r)
                         >= capacity[r].committed + Share(Projected(reservation[c], d), r)
    BY DEF Balanced, Charge, TypeInv, Projection, Projections, Capacities
<1>1. /\ capacity[r] \in Capacities /\ v \in Vectors /\ reservation[c] \in Reserved
      /\ Share(reservation[c], r) = IF r \in DOMAIN v THEN v[r] ELSE 0
    BY DEF TypeInv, Projection, Projections, Reserved, Share
<1>2. CASE d.verdict # {}
    <2>1. Projected(reservation[c], d) = [reservation[c] EXCEPT !.status = "REPLAN_REQUIRED"]
        BY <1>2 DEF Projected
    <2>2. /\ Projected(reservation[c], d).status = "REPLAN_REQUIRED"
          /\ Projected(reservation[c], d).held = v
        BY <1>1, <2>1 DEF Reserved
    <2>3. Share(Projected(reservation[c], d), r) = Share(reservation[c], r)
        BY <2>2 DEF Share
    <2>4. Update(capacity, d.post)[r] = capacity[r]
        BY <1>2, UpdateIs DEF Nothing
    <2> QED
        BY <1>1, <2>3, <2>4, ShareIsNat DEF Capacities
<1>3. CASE d.verdict = {}
    <2>1. Projected(reservation[c], d)
             = [reservation[c] EXCEPT !.status = "ACTIVE", !.held = d.amounts]
        BY <1>3 DEF Projected
    <2>2. /\ Projected(reservation[c], d).status = "ACTIVE"
          /\ Projected(reservation[c], d).held = revised
        BY <1>1, <2>1 DEF Reserved
    <2>3. Share(Projected(reservation[c], d), r) = IF r \in DOMAIN v THEN revised[r] ELSE 0
        BY <2>2 DEF Share
    <2>4. Update(capacity, d.post)[r] = IF r \in DOMAIN v THEN Commit(trial, revised)[r]
                                                          ELSE capacity[r]
        BY <1>3, UpdateIs DEF Commit
    <2>5. CASE r \in DOMAIN v
        <3>1. v[r] \in Nat /\ revised[r] \in Nat
            BY <1>1, <2>5, VectorIs
        <3>2. trial[r] = [capacity[r] EXCEPT !.committed = @ - v[r]]
            BY <2>5, UpdateIs DEF Free
        <3> HIDE DEF trial
        <3>3. Update(capacity, d.post)[r] = [trial[r] EXCEPT !.committed = @ + revised[r]]
            BY <2>4, <2>5 DEF Commit
        <3>4. /\ trial[r].committed = capacity[r].committed - v[r]
              /\ trial[r].consumed = capacity[r].consumed
              /\ trial[r] \in [{"committed", "consumed", "seen"} -> Int \cup {None}]
            BY <1>1, <3>1, <3>2 DEF Capacities
        <3>5. /\ Update(capacity, d.post)[r].committed = trial[r].committed + revised[r]
              /\ Update(capacity, d.post)[r].consumed = trial[r].consumed
            BY <3>3, <3>4
        <3>6. capacity[r].committed \in Nat
            BY <1>1 DEF Capacities
        <3> HIDE DEF v
        <3> QED
            BY <1>1, <2>3, <2>5, <3>1, <3>4, <3>5, <3>6
    <2>6. CASE r \notin DOMAIN v
        BY <1>1, <2>3, <2>4, <2>6 DEF Capacities
    <2> QED
        BY <2>5, <2>6
<1> QED
    BY <1>2, <1>3

LEMMA ReserveDoes ==
    ASSUME TypeInv, NEW h \in Hosts, Reserve(h)
    PROVE  \E d \in Docs : /\ Record(h, d)
                           /\ d.kind = "reserve"
                           /\ plan[h] = Projection => Balanced(d)
<1>1. at[h] = "reported"
    BY DEF Reserve
<1>2. /\ plan[h].capacity \in [Resources -> Capacities]
      /\ plan[h] = Projection => /\ plan[h].capacity = capacity
                                /\ plan[h].reservation = reservation
    BY <1>1, PlanHas DEF Reading
<1>3. PICK rows \in SUBSET Candidates \ {{}}, trusting \in BOOLEAN :
         LET cap == plan[h].capacity
             eligible == {c \in rows : \A r \in DOMAIN Demand[c] :
                                          Fits(cap, r, Demand[c][r], trusting)}
             Selected(c, v, post) ==
                 [Document("reserve", c, v, post) EXCEPT !.rows = rows, !.verdict = eligible]
         IN \/ eligible = {} /\ Record(h, Selected(None, Nothing, Nothing))
            \/ \E c \in eligible :
                 /\ plan[h].reservation[c].status # "ACTIVE"
                 /\ Record(h, Selected(c, Demand[c], Commit(cap, Demand[c])))
    BY DEF Reserve
<1> DEFINE cap == plan[h].capacity
           eligible == {c \in rows : \A r \in DOMAIN Demand[c] :
                                        Fits(cap, r, Demand[c][r], trusting)}
           Selected(c, v, post) ==
               [Document("reserve", c, v, post) EXCEPT !.rows = rows, !.verdict = eligible]
<1>4. rows \in SUBSET Candidates /\ eligible \in SUBSET (Candidates \cup Resources)
    OBVIOUS
<1>5. ASSUME NEW c \in Candidates \cup {None}, NEW v \in Vectors, NEW post \in Posts
      PROVE  /\ Selected(c, v, post) \in Docs
             /\ Selected(c, v, post).kind = "reserve"
             /\ Selected(c, v, post).about = c
             /\ Selected(c, v, post).amounts = v
             /\ Selected(c, v, post).post = post
    <2>1. Document("reserve", c, v, post) \in Docs
        BY DocumentTypes DEF Kinds
    <2> HIDE DEF eligible
    <2> QED
        BY <1>4, <2>1 DEF Docs, Document
<1> HIDE DEF eligible, Selected
<1>6. CASE eligible = {} /\ Record(h, Selected(None, Nothing, Nothing))
    <2>1. DOMAIN Nothing = {}
        BY DEF Nothing
    <2>2. Balanced(Selected(None, Nothing, Nothing))
        BY <1>5, NothingIsVector, NothingBalances, ReservationsAssumption
    <2> QED
        BY <1>5, <1>6, <2>2, NothingIsVector
<1>7. ASSUME NEW c \in eligible, Record(h, Selected(c, Demand[c], Commit(cap, Demand[c])))
      PROVE  \E d \in Docs : /\ Record(h, d) /\ d.kind = "reserve"
                             /\ plan[h] = Projection => Balanced(d)
    <2>1. c \in Candidates /\ \A r \in DOMAIN Demand[c] : Fits(cap, r, Demand[c][r], trusting)
        BY DEF eligible
    <2>2. Demand[c] \in Vectors
        BY <2>1, VectorIs, ReservationsAssumption
    <2>3. Commit(cap, Demand[c]) \in Posts /\ DOMAIN Commit(cap, Demand[c]) = DOMAIN Demand[c]
        BY <1>2, <2>2, CommitTypes
    <2> DEFINE d == Selected(c, Demand[c], Commit(cap, Demand[c]))
    <2>4. /\ d \in Docs /\ d.kind = "reserve" /\ d.post = Commit(cap, Demand[c])
          /\ d.about = c /\ d.amounts = Demand[c]
        BY <1>5, <2>1, <2>2, <2>3
    <2>6. ASSUME plan[h] = Projection PROVE Balanced(d)
        BY <1>2, <2>1, <2>2, <2>4, <2>6, ReserveBalances
    <2> QED
        BY <1>7, <2>4, <2>6
<1> QED
    BY <1>3, <1>6, <1>7 DEF eligible, Selected

LEMMA SettleDoes ==
    ASSUME TypeInv, NEW h \in Hosts, Settle(h)
    PROVE  \E d \in Docs :
              /\ Record(h, d)
              /\ d.kind = "settle"
              /\ task[h] # None => /\ d.about \in task[h].todo
                                   /\ d.amounts = task[h].actual[d.about]
              /\ plan[h] = Projection => Balanced(d)
<1>1. at[h] = "decided"
    BY DEF Settle
<1>2. /\ plan[h].capacity \in [Resources -> Capacities]
      /\ plan[h].reservation \in [Candidates -> Reserved]
      /\ plan[h] = Projection => /\ plan[h].capacity = capacity
                                /\ plan[h].reservation = reservation
    BY <1>1, PlanHas DEF Reading
<1>3. task[h] # None => task[h] \in Tasks
    BY DEF TypeInv
<1>4. PICK c \in IF task[h] = None THEN Candidates ELSE task[h].todo :
         LET old == plan[h].reservation[c]
             cap == plan[h].capacity
         IN /\ old.status = "ACTIVE"
            /\ Covers(cap, old.held)
            /\ \E actual \in IF task[h] = None THEN [DOMAIN old.held -> Amounts]
                                               ELSE {task[h].actual[c]} :
                 /\ DOMAIN actual = DOMAIN old.held
                 /\ Record(h, Document("settle", c, actual,
                                       Consume(cap, old.held, actual)))
    BY DEF Settle
<1> DEFINE old == plan[h].reservation[c]
           cap == plan[h].capacity
<1>5. c \in Candidates /\ (task[h] # None => c \in Bound)
    BY <1>3, <1>4, ReservationsAssumption DEF Tasks
<1>6. old \in Reserved /\ old.held \in Vectors
    BY <1>2, <1>5 DEF Reserved
<1>7. PICK actual \in IF task[h] = None THEN [DOMAIN old.held -> Amounts]
                                        ELSE {task[h].actual[c]} :
                 /\ DOMAIN actual = DOMAIN old.held
                 /\ Record(h, Document("settle", c, actual,
                                       Consume(cap, old.held, actual)))
    BY <1>4
<1>8. actual \in Vectors
    <2>1. CASE task[h] = None
        <3>1. actual \in [DOMAIN old.held -> Nat] /\ DOMAIN old.held \subseteq Resources
            BY <1>6, <1>7, <2>1, VectorIs, ReservationsAssumption
        <3> QED
            BY <3>1, VectorIs
    <2>2. CASE task[h] # None
        BY <1>3, <1>5, <1>7, <2>2, TaskIs
    <2> QED
        BY <2>1, <2>2
<1> DEFINE post == Consume(cap, old.held, actual)
           d == Document("settle", c, actual, post)
<1>9. Covers(cap, old.held)
    BY <1>4
<1>10. post \in Posts /\ DOMAIN post = DOMAIN old.held
    BY <1>2, <1>6, <1>7, <1>8, <1>9, ConsumeTypes
<1>11. /\ d \in Docs /\ d.kind = "settle" /\ d.about = c /\ d.amounts = actual
       /\ d.post = post
    BY <1>5, <1>8, <1>10, DocumentTypes DEF Kinds, Document
<1>14. ASSUME plan[h] = Projection PROVE Balanced(d)
    BY <1>2, <1>4, <1>5, <1>6, <1>7, <1>8, <1>9, <1>11, <1>14, SettleBalances
<1>13. task[h] # None => c \in task[h].todo /\ actual = task[h].actual[c]
    BY <1>4, <1>7
<1> QED
    BY <1>7, <1>11, <1>13, <1>14

LEMMA ReleaseDoes ==
    ASSUME TypeInv, NEW h \in Hosts, Release(h)
    PROVE  \E d \in Docs : /\ Record(h, d)
                           /\ d.kind = "release"
                           /\ plan[h] = Projection => Balanced(d)
<1>1. at[h] = "decided"
    BY DEF Release
<1>2. /\ plan[h].capacity \in [Resources -> Capacities]
      /\ plan[h].reservation \in [Candidates -> Reserved]
      /\ plan[h] = Projection => /\ plan[h].capacity = capacity
                                /\ plan[h].reservation = reservation
    BY <1>1, PlanHas DEF Reading
<1>3. PICK c \in Candidates :
         LET old == plan[h].reservation[c] IN
         /\ Live(plan[h].reservation, c)
         /\ Covers(plan[h].capacity, old.held)
         /\ Record(h, Document("release", c, old.held,
                               Free(plan[h].capacity, old.held)))
    BY DEF Release
<1> DEFINE old == plan[h].reservation[c]
           post == Free(plan[h].capacity, old.held)
           d == Document("release", c, old.held, post)
<1>4. old.held \in Vectors
    BY <1>2 DEF Reserved
<1>5. post \in Posts /\ DOMAIN post = DOMAIN old.held
    BY <1>2, <1>3, <1>4, FreeTypes
<1>6. d \in Docs /\ d.kind = "release" /\ d.about = c /\ d.post = post
    BY <1>4, <1>5, DocumentTypes DEF Kinds, Document
<1>8. ASSUME plan[h] = Projection PROVE Balanced(d)
    BY <1>2, <1>3, <1>4, <1>6, <1>8, ReleaseBalances
<1> QED
    BY <1>3, <1>6, <1>8

LEMMA ReestimateDoes ==
    ASSUME TypeInv, NEW h \in Hosts, Reestimate(h)
    PROVE  \E d \in Docs : /\ Record(h, d)
                           /\ d.kind = "reestimate"
                           /\ plan[h] = Projection => Balanced(d)
<1>1. at[h] = "decided"
    BY DEF Reestimate
<1>2. /\ plan[h].capacity \in [Resources -> Capacities]
      /\ plan[h].reservation \in [Candidates -> Reserved]
      /\ plan[h] = Projection => /\ plan[h].capacity = capacity
                                /\ plan[h].reservation = reservation
    BY <1>1, PlanHas DEF Reading
<1>3. PICK c \in Candidates, trusting \in BOOLEAN :
         LET old == plan[h].reservation[c]
             cap == plan[h].capacity
             trial == Update(cap, Free(cap, old.held))
         IN /\ old.status = "ACTIVE"
            /\ Covers(cap, old.held)
            /\ \E revised \in [DOMAIN old.held -> Amounts] :
                 LET infeasible == {r \in DOMAIN revised :
                                      ~ Fits(trial, r, revised[r], trusting)}
                     post == IF infeasible = {} THEN Commit(trial, revised) ELSE Nothing
                 IN Record(h, [Document("reestimate", c, revised, post) EXCEPT
                                  !.verdict = infeasible, !.before = old.held])
    BY DEF Reestimate
<1> DEFINE old == plan[h].reservation[c]
           cap == plan[h].capacity
           trial == Update(cap, Free(cap, old.held))
<1>4. PICK revised \in [DOMAIN old.held -> Amounts] :
                 LET infeasible == {r \in DOMAIN revised :
                                      ~ Fits(trial, r, revised[r], trusting)}
                     post == IF infeasible = {} THEN Commit(trial, revised) ELSE Nothing
                 IN Record(h, [Document("reestimate", c, revised, post) EXCEPT
                                  !.verdict = infeasible, !.before = old.held])
    BY <1>3
<1> DEFINE infeasible == {r \in DOMAIN revised : ~ Fits(trial, r, revised[r], trusting)}
           post == IF infeasible = {} THEN Commit(trial, revised) ELSE Nothing
           d == [Document("reestimate", c, revised, post) EXCEPT
                    !.verdict = infeasible, !.before = old.held]
<1>5. old.held \in Vectors
    BY <1>2 DEF Reserved
<1>6. /\ revised \in Vectors /\ DOMAIN revised = DOMAIN old.held
      /\ DOMAIN revised \subseteq Resources
    <2>1. revised \in [DOMAIN old.held -> Nat] /\ DOMAIN old.held \subseteq Resources
        BY <1>5, VectorIs, ReservationsAssumption
    <2> QED
        BY <2>1, VectorIs
<1>7. Free(cap, old.held) \in Posts /\ DOMAIN Free(cap, old.held) = DOMAIN old.held
    BY <1>2, <1>3, <1>5, FreeTypes
<1>8. trial \in [Resources -> Capacities]
    BY <1>2, <1>7, UpdateTypes
<1>9. Commit(trial, revised) \in Posts /\ DOMAIN Commit(trial, revised) = DOMAIN revised
    BY <1>6, <1>8, CommitTypes
<1>10. post \in Posts /\ infeasible \in SUBSET (Candidates \cup Resources)
    BY <1>6, <1>9, NothingIsVector
<1>11. /\ d \in Docs /\ d.kind = "reestimate" /\ d.about = c /\ d.amounts = revised
       /\ d.verdict = infeasible /\ d.post = post
    <2>1. Document("reestimate", c, revised, post) \in Docs
        BY <1>6, <1>10, DocumentTypes DEF Kinds
    <2> HIDE DEF infeasible, post, old
    <2> QED
        BY <1>5, <1>10, <2>1 DEF Docs, Document
<1>13. ASSUME plan[h] = Projection PROVE Balanced(d)
    <2>1. cap = capacity /\ old = reservation[c] /\ Covers(capacity, old.held)
        BY <1>2, <1>3, <1>13
    <2> HIDE DEF infeasible
    <2> QED
        BY <1>2, <1>3, <1>5, <1>6, <1>11, <2>1, ReestimateBalances, NothingIsVector
<1> QED
    BY <1>4, <1>11, <1>13

\* An observation is recorded before the capacity that shows it.
LEMMA ObserveDoes ==
    ASSUME TypeInv, NEW h \in Hosts, Observe(h)
    PROVE  \E d \in Docs :
              /\ \/ Record(h, d)
                 \/ /\ Go(h, "observing", d)
                    /\ plan' = [plan EXCEPT ![h] = None]
                    /\ current' = [current EXCEPT ![h] = TRUE]
                    /\ UNCHANGED <<ledger, task>>
              /\ d.kind = "capacity"
              /\ plan[h] = Projection => Balanced(d)
<1>1. at[h] = "decided"
    BY DEF Observe
<1>2. /\ plan[h].capacity \in [Resources -> Capacities]
      /\ plan[h] = Projection => /\ plan[h].capacity = capacity
                                /\ plan[h].reservation = reservation
    BY <1>1, PlanHas DEF Reading
<1>3. PICK r \in Resources, seen \in Reports :
         LET d == Document("capacity", r, Nothing,
                           [x \in {r} |-> [plan[h].capacity[x] EXCEPT !.seen = seen]])
         IN \/ Record(h, d)
            \/ /\ Go(h, "observing", d)
               /\ plan' = [plan EXCEPT ![h] = None]
               /\ current' = [current EXCEPT ![h] = TRUE]
               /\ UNCHANGED <<ledger, task>>
    BY DEF Observe
<1> DEFINE post == [x \in {r} |-> [plan[h].capacity[x] EXCEPT !.seen = seen]]
           d == Document("capacity", r, Nothing, post)
<1>4. seen \in Nat /\ plan[h].capacity[r] \in Capacities
    BY <1>2, ReservationsAssumption
<1>5. /\ post[r] \in Capacities /\ DOMAIN post = {r}
      /\ post[r].committed = plan[h].capacity[r].committed
      /\ post[r].consumed = plan[h].capacity[r].consumed
    BY <1>4 DEF Capacities
<1>6. post \in Posts
    <2>1. post \in [{r} -> Capacities]
        BY <1>4 DEF Capacities
    <2> QED
        BY <1>5, <2>1, PostIs
<1>7. d \in Docs /\ d.kind = "capacity" /\ d.about = r /\ d.post = post
    BY <1>6, NothingIsVector, DocumentTypes DEF Kinds, Document
<1>9. ASSUME plan[h] = Projection PROVE Balanced(d)
    <2>1. \A x \in Resources :
             /\ Update(capacity, post)[x].committed = capacity[x].committed
             /\ Update(capacity, post)[x].consumed = capacity[x].consumed
        BY <1>2, <1>5, <1>9 DEF Update
    <2> HIDE DEF post
    <2> QED
        BY <1>2, <1>7, <1>9, <2>1, ReservationsAssumption
        DEF Balanced, Charge, Capacities
<1> QED
    BY <1>3, <1>7, <1>9

-----------------------------------------------------------------------------
(* The types.                                                               *)

LEMMA TypeInit == Init => TypeInv
<1> SUFFICES ASSUME Init PROVE TypeInv
    OBVIOUS
<1>1. capacity \in [Resources -> Capacities]
    BY DEF Init, Capacities
<1>2. reservation \in [Candidates -> Reserved]
    BY NothingIsVector DEF Init, Reserved, Statuses
<1> QED
    BY <1>1, <1>2 DEF Init, TypeInv, Projection, Projections, Steps, Reading

LEMMA AppendDoes ==
    ASSUME TypeInv, NEW h \in Hosts, Append(h)
    PROVE  /\ TypeInv' /\ OnlyOf(h)
           /\ at'[h] \notin Reading \cup {"appending", "observing"}
           /\ pending[h] \in Docs /\ Continue(h, pending[h])
           /\ documents' = documents \cup {pending[h]}
           /\ \A g \in Hosts \ {h} : current'[g] = FALSE
<1>0. TypeInv
    OBVIOUS
<1>1. /\ at[h] = "appending"
      /\ capacity' = Update(capacity, pending[h].post)
      /\ reservation' = IF pending[h].about \in Candidates
                        THEN [reservation EXCEPT ![pending[h].about] =
                                 Projected(@, pending[h])]
                        ELSE reservation
      /\ documents' = documents \cup {pending[h]}
      /\ Continue(h, pending[h])
      /\ current' = [g \in Hosts |-> g = h /\ at'[h] # "idle"]
      /\ UNCHANGED <<summaries, plan>>
    BY DEF Append, Overtake
<1>2. pending[h] \in Docs
    BY <1>1 DEF TypeInv
<1>3. capacity' \in [Resources -> Capacities]
    BY <1>0, <1>1, <1>2, UpdateTypes DEF TypeInv, Projection, Projections, Docs
<1>4. reservation \in [Candidates -> Reserved]
    BY DEF TypeInv, Projection, Projections
<1>5. reservation' \in [Candidates -> Reserved]
    BY <1>1, <1>2, <1>4, ProjectedTypes
<1>6. Projection' \in Projections
    BY <1>3, <1>5 DEF Projection, Projections
<1>7. /\ at' = [at EXCEPT ![h] = at'[h]]
      /\ at'[h] \in {"explaining", "binding", "summing", "settling", "idle"}
      /\ pending' = [pending EXCEPT ![h] = pending'[h]]
      /\ pending'[h] \in Docs \cup {None}
      /\ at'[h] = "explaining" => pending'[h] = pending[h]
      /\ task' = [task EXCEPT ![h] = task'[h]]
      /\ task'[h] \in Tasks \cup {None}
      /\ at'[h] \in {"settling", "summing"} => task'[h] \in Tasks
    BY <1>0, <1>1, <1>2, ContinueDoes
<1>8. plan' = [plan EXCEPT ![h] = plan'[h]]
    BY <1>1 DEF TypeInv
<1>9. TypeInv'
    BY <1>0, <1>1, <1>2, <1>6, <1>7 DEF TypeInv, Reading, Steps
<1>10. \A g \in Hosts \ {h} : current'[g] = FALSE
    BY <1>1
<1> QED
    BY <1>1, <1>2, <1>7, <1>8, <1>9, <1>10 DEF OnlyOf, Reading

\* The steps that record no document about a reservation.
LEMMA OtherSteps ==
    ASSUME TypeInv, NEW h \in Hosts,
           \/ Authorize(h) \/ Abandon(h) \/ Report(h) \/ Explain(h)
           \/ AppendObservation(h) \/ Bind(h) \/ Enter(h) \/ SettleEffect(h)
           \/ Summarize(h)
    PROVE  TypeInv' /\ OnlyOf(h) /\ UNCHANGED <<capacity, reservation>>
<1>0. TypeInv
    OBVIOUS
<1>1. CASE Authorize(h)
    BY <1>0, <1>1 DEF Authorize, Go, TypeInv, OnlyOf, Reading, Steps, ledger,
                      Projection
<1>2. CASE Abandon(h)
    BY <1>0, <1>2 DEF Abandon, Go, TypeInv, OnlyOf, Reading, Steps, ledger, Projection
<1>3. CASE Report(h)
    BY <1>0, <1>3 DEF Report, Go, TypeInv, OnlyOf, Reading, Steps, ledger, Projection
<1>4. CASE Explain(h)
    BY <1>0, <1>4 DEF Explain, Return, Overtake, Go, TypeInv, OnlyOf, Reading, Steps,
                      ledger, Projection
<1>5. CASE AppendObservation(h)
    BY <1>0, <1>5 DEF AppendObservation, Overtake, Go, TypeInv, OnlyOf, Reading, Steps,
                      ledger, Projection
<1>6. CASE Bind(h)
    BY <1>0, <1>6 DEF Bind, Return, Overtake, Go, TypeInv, OnlyOf, Reading, Steps,
                      ledger, Projection
<1>7. CASE Enter(h)
    BY <1>0, <1>7 DEF Enter, Go, TypeInv, OnlyOf, Reading, Steps, ledger, Projection
<1>8. CASE SettleEffect(h)
    <2> DEFINE reserved == plan[h].reservation
               todo == {c \in Bound : reserved[c].status = "ACTIVE"}
               Known(actual) == [c \in Bound |-> IF c \in todo THEN actual[c]
                                                ELSE reserved[c].spent]
    <2>1. PICK actual \in Consumptions :
             /\ task' = [task EXCEPT ![h] = [actual |-> Known(actual), todo |-> todo]]
             /\ Go(h, IF todo = {} THEN "summing" ELSE "settling", None)
        BY <1>8 DEF SettleEffect
    <2>2. ASSUME NEW c \in Bound PROVE Known(actual)[c] \in Vectors
        <3>1. PICK S \in SUBSET Resources : actual[c] \in [S -> Amounts]
            BY DEF Consumptions
        <3>2. actual[c] \in [S -> Nat]
            BY <3>1, ReservationsAssumption
        <3>3. actual[c] \in Vectors
            BY <3>2 DEF Vectors
        <3>4. reserved[c].spent \in Vectors
            <4>1. reserved \in [Candidates -> Reserved]
                BY <1>8, PlanHas DEF SettleEffect, Reading
            <4>2. c \in Candidates
                BY ReservationsAssumption
            <4>3. reserved[c] \in Reserved
                BY <4>1, <4>2
            <4> QED
                BY <4>3 DEF Reserved
        <3> QED
            BY <3>3, <3>4
    <2>3. [actual |-> Known(actual), todo |-> todo] \in Tasks
        BY <2>2 DEF Tasks
    <2>4. /\ plan' = [plan EXCEPT ![h] = None]
          /\ current' = [current EXCEPT ![h] = TRUE]
          /\ UNCHANGED ledger
        BY <1>8 DEF SettleEffect
    <2>5. /\ \/ at' = [at EXCEPT ![h] = "summing"]
             \/ at' = [at EXCEPT ![h] = "settling"]
          /\ pending' = [pending EXCEPT ![h] = None]
        BY <2>1 DEF Go
    <2>6. PICK t \in Tasks : task' = [task EXCEPT ![h] = t]
        BY <2>1, <2>3
    <2> HIDE DEF todo, Known, reserved
    <2> QED
        BY <1>0, <2>4, <2>5, <2>6 DEF TypeInv, OnlyOf, Reading, Steps, ledger,
                                      Projection
<1>9. CASE Summarize(h)
    BY <1>0, <1>9 DEF Summarize, Overtake, Go, TypeInv, OnlyOf, Reading, Steps, ledger,
                      Projection
<1> QED
    BY <1>1, <1>2, <1>3, <1>4, <1>5, <1>6, <1>7, <1>8, <1>9

LEMMA TypeStep == TypeInv /\ [Next]_vars => TypeInv'
<1> SUFFICES ASSUME TypeInv, [Next]_vars PROVE TypeInv'
    OBVIOUS
<1>0. TypeInv
    OBVIOUS
<1>1. CASE UNCHANGED vars
    BY <1>0, <1>1 DEF vars, ledger, TypeInv, Projection, Reading
<1>2. ASSUME NEW h \in Hosts, Reserve(h) \/ Settle(h) \/ Reestimate(h) \/ Release(h)
      PROVE  TypeInv'
    BY <1>0, <1>2, ReserveDoes, SettleDoes, ReestimateDoes, ReleaseDoes, RecordDoes
<1>3. ASSUME NEW h \in Hosts, Observe(h) PROVE TypeInv'
    <2>1. PICK d \in Docs :
              \/ Record(h, d)
              \/ /\ Go(h, "observing", d)
                 /\ plan' = [plan EXCEPT ![h] = None]
                 /\ current' = [current EXCEPT ![h] = TRUE]
                 /\ UNCHANGED <<ledger, task>>
        BY <1>0, <1>3, ObserveDoes
    <2>2. CASE Record(h, d)
        BY <1>0, <2>2, RecordDoes
    <2>3. CASE ~Record(h, d)
        <3>1. /\ at' = [at EXCEPT ![h] = "observing"]
              /\ pending' = [pending EXCEPT ![h] = d]
              /\ plan' = [plan EXCEPT ![h] = None]
              /\ current' = [current EXCEPT ![h] = TRUE]
              /\ task' = task /\ Projection' = Projection
            BY <2>1, <2>3 DEF Go, ledger, Projection
        <3>2. /\ at \in [Hosts -> Steps] /\ plan \in [Hosts -> Projections \cup {None}]
              /\ pending \in [Hosts -> Docs \cup {None}] /\ current \in [Hosts -> BOOLEAN]
            BY <1>0 DEF TypeInv
        <3>3. /\ at' \in [Hosts -> Steps] /\ plan' \in [Hosts -> Projections \cup {None}]
              /\ pending' \in [Hosts -> Docs \cup {None}] /\ current' \in [Hosts -> BOOLEAN]
            BY <3>1, <3>2 DEF Steps
        <3>4. ASSUME NEW g \in Hosts
              PROVE  /\ at'[g] \in Reading => plan'[g] \in Projections
                     /\ at'[g] \in {"appending", "observing", "explaining"}
                           => pending'[g] \in Docs
                     /\ at'[g] \in {"settling", "summing"} => task'[g] \in Tasks
            <4>1. CASE g = h
                BY <3>1, <3>2, <4>1 DEF Reading
            <4>2. CASE g # h
                BY <1>0, <3>1, <3>2, <4>2 DEF TypeInv
            <4> QED
                BY <4>1, <4>2
        <3> QED
            BY <1>0, <3>1, <3>3, <3>4 DEF TypeInv
    <2> QED
        BY <2>2, <2>3
<1>4. ASSUME NEW h \in Hosts, Append(h) PROVE TypeInv'
    BY <1>0, <1>4, AppendDoes
<1> QED
    BY <1>0, <1>1, <1>2, <1>3, <1>4, OtherSteps DEF Next

\* The projection stays well-formed; no commitment and no consumption is ever
\* negative, also where projections are stale.
THEOREM ReservationTypes == Spec => []TypeOK
<1>1. Spec => []TypeInv
    BY TypeInit, TypeStep, PTL DEF Spec
<1>2. TypeInv => TypeOK
    BY VectorIs DEF TypeInv, TypeOK, Projection, Projections, Reserved, IsVector
<1> QED
    BY <1>1, <1>2, PTL

-----------------------------------------------------------------------------
(* A single engine reads what is so.                                        *)

\* At most one engine is attached to the store.
SingleEngine == \A g, h \in Hosts : g = h

\* A step of h that leaves the ledger's projection alone.
LEMMA QuietStep ==
    ASSUME TypeInv, ReadsAreCurrent, NEW h \in Hosts, OnlyOf(h),
           UNCHANGED <<capacity, reservation>>,
           \A g \in Hosts \ {h} : current'[g] => current[g],
           at'[h] \in Reading => plan'[h] = Projection,
           at'[h] \in {"appending", "observing"} => Balanced(pending'[h])
    PROVE  ReadsAreCurrent'
<1>1. Projection' = Projection
    BY DEF Projection
<1>2. \A d : Balanced(d)' <=> Balanced(d)
    BY DEF Balanced
<1>3. ASSUME NEW g \in Hosts \ {h}
      PROVE  /\ at'[g] = at[g] /\ plan'[g] = plan[g] /\ pending'[g] = pending[g]
             /\ current'[g] => current[g]
    BY <1>3 DEF OnlyOf, TypeInv
<1>4. ASSUME NEW g \in Hosts
      PROVE  /\ at'[g] \in Reading => plan'[g] = Projection
             /\ at'[g] \in {"appending", "observing"} /\ current'[g] => Balanced(pending'[g])
    BY <1>3, <1>4 DEF ReadsAreCurrent
<1>5. \A g \in Hosts : Balanced(pending'[g]) => Balanced(pending[g])'
    BY DEF Balanced
<1> QED
    BY <1>1, <1>4, <1>5 DEF ReadsAreCurrent, Reading

LEMMA CurrentRecord ==
    ASSUME TypeInv, ReadsAreCurrent, NEW h \in Hosts, NEW d \in Docs, Record(h, d),
           at[h] \in Reading, plan[h] = Projection => Balanced(d)
    PROVE  ReadsAreCurrent'
<1>1. Balanced(d)
    BY DEF ReadsAreCurrent
<1>2. /\ OnlyOf(h) /\ UNCHANGED ledger
      /\ at'[h] \notin Reading \cup {"observing"}
      /\ at'[h] = "appending" => pending'[h] = d
      /\ \A g \in Hosts \ {h} : current'[g] = current[g]
    BY RecordDoes
<1> QED
    BY <1>1, <1>2, QuietStep DEF ledger

LEMMA CurrentOther ==
    ASSUME TypeInv, ReadsAreCurrent, NEW h \in Hosts,
           \/ Authorize(h) \/ Abandon(h) \/ Report(h) \/ Explain(h)
           \/ AppendObservation(h) \/ Bind(h) \/ Enter(h) \/ SettleEffect(h)
           \/ Summarize(h)
    PROVE  ReadsAreCurrent'
<1>0. /\ at \in [Hosts -> Steps] /\ plan \in [Hosts -> Projections \cup {None}]
      /\ pending \in [Hosts -> Docs \cup {None}] /\ current \in [Hosts -> BOOLEAN]
    BY DEF TypeInv
<1>1. OnlyOf(h) /\ UNCHANGED <<capacity, reservation>>
    BY OtherSteps
<1>2. \A g \in Hosts \ {h} : current'[g] => current[g]
    BY <1>0 DEF Authorize, Abandon, Report, Explain, AppendObservation, Bind, Enter,
                SettleEffect, Summarize, Return, Overtake
<1>3. at'[h] \in Reading => plan'[h] = Projection
    BY <1>0 DEF Authorize, Abandon, Report, Explain, AppendObservation, Bind, Enter,
                SettleEffect, Summarize, Return, Go, Reading
<1>4. at'[h] \in {"appending", "observing"} => Balanced(pending'[h])
    <2>1. CASE AppendObservation(h)
        <3>1. at[h] = "observing" /\ current[h] /\ pending'[h] = pending[h]
            BY <1>0, <2>1 DEF AppendObservation, Go
        <3> QED
            BY <3>1 DEF ReadsAreCurrent
    <2>2. CASE ~AppendObservation(h)
        BY <1>0, <2>2 DEF Authorize, Abandon, Report, Explain, Bind, Enter,
                          SettleEffect, Summarize, Return, Go
    <2> QED
        BY <2>1, <2>2
<1> QED
    BY <1>1, <1>2, <1>3, <1>4, QuietStep

\* Whoever appends finds nobody else reading, and makes their snapshots stale.
LEMMA CurrentAppend ==
    ASSUME TypeInv, ReadsAreCurrent, SingleEngine, NEW h \in Hosts, Append(h)
    PROVE  ReadsAreCurrent'
<1>1. /\ OnlyOf(h)
      /\ at'[h] \notin Reading \cup {"appending", "observing"}
      /\ \A g \in Hosts \ {h} : current'[g] = FALSE
    BY AppendDoes
<1>2. \A g \in Hosts \ {h} : at[g] \notin Reading
    BY DEF Append, SingleEngine
<1>3. \A g \in Hosts \ {h} : at'[g] = at[g]
    BY <1>1 DEF OnlyOf, TypeInv
<1> QED
    BY <1>1, <1>2, <1>3 DEF ReadsAreCurrent, Reading

LEMMA CurrentStep == SingleEngine /\ TypeInv /\ ReadsAreCurrent /\ [Next]_vars
                        => ReadsAreCurrent'
<1> SUFFICES ASSUME SingleEngine, TypeInv, ReadsAreCurrent, [Next]_vars
             PROVE  ReadsAreCurrent'
    OBVIOUS
<1>1. CASE UNCHANGED vars
    BY <1>1 DEF vars, ledger, ReadsAreCurrent, Projection, Reading, Balanced
<1>2. ASSUME NEW h \in Hosts, Reserve(h) \/ Settle(h) \/ Reestimate(h) \/ Release(h)
      PROVE  ReadsAreCurrent'
    <2>1. at[h] \in Reading
        BY <1>2 DEF Reserve, Settle, Reestimate, Release, Reading
    <2>2. PICK d \in Docs : Record(h, d) /\ (plan[h] = Projection => Balanced(d))
        BY <1>2, ReserveDoes, SettleDoes, ReestimateDoes, ReleaseDoes
    <2> QED
        BY <2>1, <2>2, CurrentRecord
<1>3. ASSUME NEW h \in Hosts, Observe(h) PROVE ReadsAreCurrent'
    <2>1. at[h] \in Reading
        BY <1>3 DEF Observe, Reading
    <2>2. PICK d \in Docs :
              /\ \/ Record(h, d)
                 \/ /\ Go(h, "observing", d)
                    /\ plan' = [plan EXCEPT ![h] = None]
                    /\ current' = [current EXCEPT ![h] = TRUE]
                    /\ UNCHANGED <<ledger, task>>
              /\ plan[h] = Projection => Balanced(d)
        BY <1>3, ObserveDoes
    <2>3. CASE Record(h, d)
        BY <2>1, <2>2, <2>3, CurrentRecord
    <2>4. CASE ~Record(h, d)
        <3>1. Balanced(d)
            BY <2>1, <2>2 DEF ReadsAreCurrent
        <3>2. OnlyOf(h) /\ at'[h] = "observing" /\ pending'[h] = d
            BY <2>2, <2>4 DEF Go, OnlyOf, TypeInv
        <3>3. /\ UNCHANGED <<capacity, reservation>>
              /\ \A g \in Hosts \ {h} : current'[g] => current[g]
            BY <2>2, <2>4 DEF ledger, TypeInv
        <3> QED
            BY <3>1, <3>2, <3>3, QuietStep DEF Reading
    <2> QED
        BY <2>3, <2>4
<1> QED
    BY <1>1, <1>2, <1>3, CurrentAppend, CurrentOther DEF Next

-----------------------------------------------------------------------------
(* Summaries of effects have their settlements, in any deployment.          *)

LEMMA ChargedStays ==
    ASSUME NEW docs, NEW more, docs \subseteq more
    PROVE  /\ \A c, v : Charged(docs, c, v) => Charged(more, c, v)
           /\ \A reserved : SettledAreCharged(docs, reserved)
                               => SettledAreCharged(more, reserved)
           /\ \A t : DoneIsCharged(docs, t) => DoneIsCharged(more, t)
    BY DEF Charged, SettledAreCharged, DoneIsCharged

\* A step of h that forgets no document leaves the other hosts where they are.
LEMMA ProgressOfOthers ==
    ASSUME TypeInv, Progress, NEW h \in Hosts, OnlyOf(h), documents \subseteq documents',
           ProgressOf(h)'
    PROVE  Progress'
<1>1. ASSUME NEW g \in Hosts \ {h} PROVE ProgressOf(g)'
    <2>1. /\ at'[g] = at[g] /\ plan'[g] = plan[g] /\ pending'[g] = pending[g]
          /\ task'[g] = task[g]
        BY <1>1 DEF OnlyOf, TypeInv
    <2>2. ProgressOf(g)
        BY <1>1 DEF Progress
    <2> QED
        BY <2>1, <2>2, ChargedStays DEF ProgressOf, Reading
<1> QED
    BY <1>1 DEF Progress

\* A settlement goes on with one reservation less to settle.
LEMMA ContinueProgress ==
    ASSUME TypeInv, NEW h \in Hosts, ProgressOf(h), NEW d \in Docs, Continue(h, d),
           Due(task[h], d), d \in documents', documents \subseteq documents'
    PROVE  ProgressOf(h)'
<1>0. /\ at \in [Hosts -> Steps] /\ pending \in [Hosts -> Docs \cup {None}]
      /\ task \in [Hosts -> Tasks \cup {None}]
    BY DEF TypeInv
<1>1. at'[h] \in {"explaining", "binding", "summing", "settling", "idle"}
    BY ContinueDoes
<1>2. CASE task[h] = None
    <2>1. task'[h] = None /\ at'[h] # "summing"
        BY <1>0, <1>2 DEF Continue, Return, Go
    <2> QED
        BY <1>1, <2>1 DEF ProgressOf, DoneIsCharged, Reading
<1>3. CASE task[h] # None
    <2>1. /\ d.kind = "settle" /\ d.about \in task[h].todo
          /\ d.amounts = task[h].actual[d.about]
        BY <1>3 DEF Due
    <2>2. /\ task' = [task EXCEPT ![h] = Settled(@, d)]
          /\ at' = [at EXCEPT ![h] = IF task'[h].todo = {} THEN "summing" ELSE "settling"]
        BY <1>3, <2>1 DEF Continue, Go
    <2>3. /\ task[h] \in Tasks
          /\ task'[h] = Settled(task[h], d)
        BY <1>0, <1>3, <2>2
    <2>4. task'[h].actual = task[h].actual /\ task'[h].todo = task[h].todo \ {d.about}
        BY <2>1, <2>3 DEF Tasks, Settled
    <2>5. \A c \in Bound \ task[h].todo : Charged(documents', c, task[h].actual[c])
        BY <1>3, ChargedStays DEF ProgressOf, DoneIsCharged
    <2>6. Charged(documents', d.about, task[h].actual[d.about])
        BY <2>1 DEF Charged
    <2>7. DoneIsCharged(documents', task'[h])
        BY <2>4, <2>5, <2>6 DEF DoneIsCharged
    <2>8. at'[h] \in {"summing", "settling"} /\ (at'[h] = "summing" => task'[h].todo = {})
        BY <1>0, <2>2
    <2>9. task'[h] # None
        BY <1>0, <2>8, ContinueDoes, TaskIs
    <2> QED
        BY <2>7, <2>8, <2>9 DEF ProgressOf, Reading
<1> QED
    BY <1>2, <1>3

LEMMA SummaryRecord ==
    ASSUME TypeInv, SummaryInv, NEW h \in Hosts, NEW d \in Docs, Record(h, d),
           Due(task[h], d)
    PROVE  SummaryInv'
<1>1. /\ OnlyOf(h) /\ UNCHANGED ledger
      /\ at'[h] \notin Reading \cup {"observing"}
      /\ at'[h] = "appending" => pending'[h] = d /\ UNCHANGED task
      /\ at'[h] # "appending" => d \in documents /\ Continue(h, d)
    BY RecordDoes
<1>2. documents' = documents /\ reservation' = reservation /\ summaries' = summaries
    BY <1>1 DEF ledger
<1>3. ProgressOf(h)
    BY DEF SummaryInv, Progress
<1>4. ProgressOf(h)'
    <2>1. CASE at'[h] = "appending"
        BY <1>1, <1>2, <1>3, <2>1 DEF ProgressOf, Reading
    <2>2. CASE at'[h] # "appending"
        BY <1>1, <1>2, <1>3, <2>2, ContinueProgress
    <2> QED
        BY <2>1, <2>2
<1>5. Progress'
    BY <1>1, <1>2, <1>4, ProgressOfOthers DEF SummaryInv
<1> QED
    BY <1>2, <1>5 DEF SummaryInv, SummaryIsReal

\* Only a settlement makes a reservation SETTLED, with what its document says.
LEMMA ProjectedCharged ==
    ASSUME NEW old \in Reserved, NEW d \in Docs, Projected(old, d).status = "SETTLED"
    PROVE  d.kind = "settle" /\ Projected(old, d).spent = d.amounts
    BY DEF Projected, Reserved, Statuses

LEMMA SummaryAppend ==
    ASSUME TypeInv, SummaryInv, NEW h \in Hosts, Append(h)
    PROVE  SummaryInv'
<1>1. /\ OnlyOf(h) /\ pending[h] \in Docs /\ Continue(h, pending[h])
      /\ documents' = documents \cup {pending[h]}
    BY AppendDoes
<1>2. ProgressOf(h) /\ at[h] = "appending" /\ Due(task[h], pending[h])
    BY DEF SummaryInv, Progress, ProgressOf, Append
<1>3. ProgressOf(h)'
    BY <1>1, <1>2, ContinueProgress
<1>4. Progress'
    BY <1>1, <1>3, ProgressOfOthers DEF SummaryInv
<1>5. SettledAreCharged(documents', reservation')
    <2>1. reservation' = IF pending[h].about \in Candidates
                         THEN [reservation EXCEPT ![pending[h].about] =
                                  Projected(@, pending[h])]
                         ELSE reservation
        BY DEF Append
    <2>2. reservation \in [Candidates -> Reserved]
        BY DEF TypeInv, Projection, Projections
    <2>3. SettledAreCharged(documents', reservation)
        BY <1>1, ChargedStays DEF SummaryInv
    <2>4. ASSUME NEW c \in Candidates, reservation'[c].status = "SETTLED"
          PROVE  Charged(documents', c, reservation'[c].spent)
        <3>1. CASE c = pending[h].about
            <4>1. reservation'[c] = Projected(reservation[c], pending[h])
                BY <2>1, <2>2, <3>1
            <4>2. pending[h].kind = "settle" /\ reservation'[c].spent = pending[h].amounts
                BY <1>1, <2>2, <2>4, <4>1, ProjectedCharged
            <4> QED
                BY <1>1, <3>1, <4>2 DEF Charged
        <3>2. CASE c # pending[h].about
            BY <2>1, <2>2, <2>3, <2>4, <3>2 DEF SettledAreCharged
        <3> QED
            BY <3>1, <3>2
    <2> QED
        BY <2>4 DEF SettledAreCharged
<1>6. SummaryIsReal'
    BY <1>1 DEF SummaryInv, SummaryIsReal, Append
<1> QED
    BY <1>4, <1>5, <1>6 DEF SummaryInv

\* What is ACTIVE is still to be settled, what is SETTLED has what was given.
LEMMA SummarySettleEffect ==
    ASSUME TypeInv, SummaryInv, NEW h \in Hosts, SettleEffect(h)
    PROVE  DoneIsCharged(documents, task'[h])
           /\ at'[h] \in {"summing", "settling"}
           /\ task'[h] # None
           /\ (at'[h] = "summing" => task'[h].todo = {})
<1> DEFINE reserved == plan[h].reservation
           todo == {c \in Bound : reserved[c].status = "ACTIVE"}
           Known(actual) == [c \in Bound |-> IF c \in todo THEN actual[c]
                                            ELSE reserved[c].spent]
<1>1. PICK actual \in Consumptions :
         /\ \A c \in Bound : Consistent(reserved, c, actual[c])
         /\ task' = [task EXCEPT ![h] = [actual |-> Known(actual), todo |-> todo]]
         /\ Go(h, IF todo = {} THEN "summing" ELSE "settling", None)
    BY DEF SettleEffect
<1>2. task'[h] = [actual |-> Known(actual), todo |-> todo]
    BY <1>1 DEF TypeInv
<1>3. at'[h] = IF todo = {} THEN "summing" ELSE "settling"
    BY <1>1 DEF TypeInv, Go
<1>4. task'[h] # None
    <2>1. TypeInv'
        BY OtherSteps
    <2>2. at'[h] \in {"summing", "settling"}
        BY <1>3
    <2>3. task'[h] \in Tasks
        BY <2>1, <2>2 DEF TypeInv
    <2> QED
        BY <2>3, TaskIs
<1>5. SettledAreCharged(documents, reserved)
    BY DEF SummaryInv, Progress, ProgressOf, SettleEffect, Reading
<1>6. ASSUME NEW c \in Bound \ todo PROVE Charged(documents, c, Known(actual)[c])
    <2>1. c \in Candidates
        BY ReservationsAssumption
    <2>2. reserved[c].status = "SETTLED" /\ Known(actual)[c] = reserved[c].spent
        BY <1>1 DEF Consistent
    <2> QED
        BY <1>5, <2>1, <2>2 DEF SettledAreCharged
<1>7. task'[h].actual = Known(actual) /\ task'[h].todo = todo
    BY <1>2
<1> HIDE DEF todo, reserved, Known
<1> QED
    BY <1>3, <1>4, <1>6, <1>7 DEF DoneIsCharged

LEMMA SummaryOther ==
    ASSUME TypeInv, SummaryInv, NEW h \in Hosts,
           \/ Authorize(h) \/ Abandon(h) \/ Report(h) \/ Explain(h)
           \/ AppendObservation(h) \/ Bind(h) \/ Enter(h) \/ SettleEffect(h)
           \/ Summarize(h)
    PROVE  SummaryInv'
<1>0. /\ at \in [Hosts -> Steps] /\ plan \in [Hosts -> Projections \cup {None}]
      /\ pending \in [Hosts -> Docs \cup {None}]
      /\ task \in [Hosts -> Tasks \cup {None}]
    BY DEF TypeInv
<1>1. OnlyOf(h) /\ UNCHANGED <<capacity, reservation>>
    BY OtherSteps
<1>2. documents \subseteq documents'
    BY DEF Authorize, Abandon, Report, Explain, AppendObservation, Bind, Enter,
           SettleEffect, Summarize, ledger
<1>3. /\ ProgressOf(h)
      /\ SettledAreCharged(documents, reservation)
      /\ SummaryIsReal
    BY DEF SummaryInv, Progress
<1>4. DoneIsCharged(documents', task'[h])
    <2>1. CASE SettleEffect(h)
        BY <1>2, <2>1, SummarySettleEffect, ChargedStays
    <2>2. CASE ~SettleEffect(h)
        <3>1. task'[h] = task[h] \/ task'[h] = None
            BY <1>0, <2>2 DEF Authorize, Abandon, Report, Explain, AppendObservation,
                              Bind, Enter, Summarize
        <3> QED
            BY <1>2, <1>3, <3>1, ChargedStays DEF ProgressOf, DoneIsCharged
    <2> QED
        BY <2>1, <2>2
<1>5. ProgressOf(h)'
    <2>1. at'[h] \in Reading => SettledAreCharged(documents', plan'[h].reservation)
        <3>1. at'[h] \in Reading => plan'[h] = Projection
            BY <1>0 DEF Authorize, Abandon, Report, Explain, AppendObservation, Bind,
                        Enter, SettleEffect, Summarize, Return, Go, Reading
        <3>2. Projection.reservation = reservation
            BY DEF Projection
        <3> QED
            BY <1>2, <1>3, <3>1, <3>2, ChargedStays
    <2>2. /\ at'[h] \in {"reported", "observing", "explaining", "binding"}
                => task'[h] = None
          /\ at'[h] = "appending" => task'[h] = None
        BY <1>0, <1>3 DEF Authorize, Abandon, Report, Explain, AppendObservation, Bind,
                          Enter, SettleEffect, Summarize, Return, Go, ProgressOf
    <2>3. at'[h] = "summing" => task'[h] # None /\ task'[h].todo = {}
        <3>1. CASE SettleEffect(h)
            BY <3>1, SummarySettleEffect
        <3>2. CASE ~SettleEffect(h)
            BY <1>0, <3>2 DEF Authorize, Abandon, Report, Explain, AppendObservation,
                              Bind, Enter, Summarize, Return, Go
        <3> QED
            BY <3>1, <3>2
    <2> QED
        BY <1>4, <2>1, <2>2, <2>3 DEF ProgressOf, Due, Reading
<1>6. Progress'
    BY <1>1, <1>2, <1>5, ProgressOfOthers DEF SummaryInv
<1>7. SettledAreCharged(documents', reservation')
    BY <1>1, <1>2, <1>3, ChargedStays
<1>8. SummaryIsReal'
    <2>1. CASE Summarize(h)
        <3>1. /\ task[h] # None /\ task[h].todo = {}
              /\ summaries' = summaries \cup {task[h].actual}
            BY <1>3, <2>1 DEF Summarize, ProgressOf
        <3>2. \A c \in Bound : Charged(documents, c, task[h].actual[c])
            BY <1>3, <3>1 DEF ProgressOf, DoneIsCharged
        <3> QED
            BY <1>2, <1>3, <3>1, <3>2 DEF SummaryIsReal, Charged
    <2>2. CASE ~Summarize(h)
        <3>1. summaries' = summaries
            BY <2>2 DEF Authorize, Abandon, Report, Explain, AppendObservation, Bind,
                        Enter, SettleEffect, ledger
        <3> QED
            BY <1>2, <1>3, <3>1 DEF SummaryIsReal
    <2> QED
        BY <2>1, <2>2
<1> QED
    BY <1>6, <1>7, <1>8 DEF SummaryInv

LEMMA SummaryStep == TypeInv /\ SummaryInv /\ [Next]_vars => SummaryInv'
<1> SUFFICES ASSUME TypeInv, SummaryInv, [Next]_vars PROVE SummaryInv'
    OBVIOUS
<1>1. CASE UNCHANGED vars
    BY <1>1 DEF vars, ledger, SummaryInv, Progress, ProgressOf, Reading, SummaryIsReal
<1>2. ASSUME NEW h \in Hosts, Reserve(h) \/ Settle(h) \/ Reestimate(h) \/ Release(h)
      PROVE  SummaryInv'
    <2>1. CASE Settle(h)
        BY <2>1, SettleDoes, SummaryRecord DEF Due
    <2>2. CASE Reserve(h) \/ Reestimate(h) \/ Release(h)
        <3>1. task[h] = None
            BY <2>2 DEF Reserve, Reestimate, Release, SummaryInv, Progress, ProgressOf
        <3>2. PICK d \in Docs : Record(h, d)
            BY <2>2, ReserveDoes, ReestimateDoes, ReleaseDoes
        <3> QED
            BY <3>1, <3>2, SummaryRecord DEF Due
    <2> QED
        BY <1>2, <2>1, <2>2
<1>3. ASSUME NEW h \in Hosts, Observe(h) PROVE SummaryInv'
    <2>1. task[h] = None
        BY <1>3 DEF Observe
    <2>2. PICK d \in Docs :
              \/ Record(h, d)
              \/ /\ Go(h, "observing", d)
                 /\ plan' = [plan EXCEPT ![h] = None]
                 /\ current' = [current EXCEPT ![h] = TRUE]
                 /\ UNCHANGED <<ledger, task>>
        BY <1>3, ObserveDoes
    <2>3. CASE Record(h, d)
        BY <2>1, <2>3, SummaryRecord DEF Due
    <2>4. CASE ~Record(h, d)
        <3>1. /\ OnlyOf(h) /\ at'[h] = "observing" /\ task'[h] = None
              /\ UNCHANGED ledger
            BY <2>1, <2>2, <2>4 DEF Go, OnlyOf, TypeInv
        <3>2. ProgressOf(h)'
            BY <3>1 DEF ProgressOf, DoneIsCharged, Reading
        <3>3. Progress'
            BY <3>1, <3>2, ProgressOfOthers DEF SummaryInv, ledger
        <3> QED
            BY <3>1, <3>3 DEF SummaryInv, SummaryIsReal, ledger
    <2> QED
        BY <2>2, <2>3, <2>4
<1> QED
    BY <1>1, <1>2, <1>3, SummaryAppend, SummaryOther DEF Next

\* A recorded settlement of an effect has a settlement of each reservation behind
\* it, whatever stopped half-way and was tried again, and however many hosts work
\* from projections that are stale.
THEOREM SummariesAreReal == Spec => []SummaryIsReal
<1>1. Init => TypeInv /\ SummaryInv
    BY TypeInit DEF Init, SummaryInv, SettledAreCharged, Progress, ProgressOf, Reading,
                    DoneIsCharged, SummaryIsReal
<1>2. TypeInv /\ SummaryInv /\ [Next]_vars => (TypeInv /\ SummaryInv)'
    BY TypeStep, SummaryStep
<1>3. SummaryInv => SummaryIsReal
    BY DEF SummaryInv
<1> QED
    BY <1>1, <1>2, <1>3, PTL DEF Spec

-----------------------------------------------------------------------------
(* Sums of functions on finite sets, by the sums over all their subsets.    *)

\* A nonempty set of naturals has a least element.
LEMMA LeastElement ==
    ASSUME NEW T \in SUBSET Nat, T # {}
    PROVE  \E x \in T : \A y \in T : x <= y
<1> DEFINE R == {p \in Nat \X Nat : p[1] < p[2]}
<1>1. IsWellFoundedOn(R, Nat)
    BY NatLessThanWellFounded, Zenon DEF OpToRel
<1>2. \A x, y \in Nat : y < x => <<y, x>> \in R
    OBVIOUS
<1> HIDE DEF R
<1>3. PICK x \in T : \A y \in T : <<y, x>> \notin R
    BY <1>1, WFMin
<1>4. \A y \in T : ~(y < x)
    BY <1>2, <1>3
<1> QED
    BY <1>4

\* g gives the sums of f over the subsets of S.
Adding(f, S, g) ==
    /\ g \in [SUBSET S -> Nat]
    /\ g[{}] = 0
    /\ \A s \in SUBSET S : \A x \in s : g[s] = f[x] + g[s \ {x}]

\* An element more.
LEMMA AddingMore ==
    ASSUME NEW f, NEW S, \A x \in S : f[x] \in Nat, NEW z \in S,
           NEW g, Adding(f, S \ {z}, g)
    PROVE  \E k : Adding(f, S, k)
<1> DEFINE k == [s \in SUBSET S |-> IF z \in s THEN f[z] + g[s \ {z}] ELSE g[s]]
<1>0. /\ g \in [SUBSET (S \ {z}) -> Nat]
      /\ g[{}] = 0
      /\ \A s \in SUBSET (S \ {z}) : \A x \in s : g[s] = f[x] + g[s \ {x}]
    BY DEF Adding
<1>1. \A s \in SUBSET S : s \ {z} \in SUBSET (S \ {z}) /\ g[s \ {z}] \in Nat
    BY <1>0
<1>2. \A s \in SUBSET S : z \notin s => s \ {z} = s
    OBVIOUS
<1>3. k \in [SUBSET S -> Nat]
    BY <1>1, <1>2
<1>4. k[{}] = 0
    BY <1>0
<1>5. ASSUME NEW s \in SUBSET S, NEW x \in s
      PROVE  k[s] = f[x] + k[s \ {x}]
    <2>1. s \ {x} \in SUBSET S
        OBVIOUS
    <2>2. CASE x = z
        BY <2>1, <2>2
    <2>3. CASE x # z /\ z \notin s
        <3>1. s \in SUBSET (S \ {z})
            BY <2>3
        <3> QED
            BY <1>0, <2>1, <2>3, <3>1
    <2>4. CASE x # z /\ z \in s
        <3>1. s \ {z} \in SUBSET (S \ {z}) /\ x \in s \ {z}
            BY <2>4
        <3>2. g[s \ {z}] = f[x] + g[(s \ {z}) \ {x}]
            BY <1>0, <3>1
        <3>3. (s \ {z}) \ {x} = (s \ {x}) \ {z} /\ z \in s \ {x}
            BY <2>4
        <3>4. k[s] = f[z] + g[s \ {z}] /\ k[s \ {x}] = f[z] + g[(s \ {x}) \ {z}]
            BY <2>1, <2>4, <3>3
        <3>5. g[s \ {z}] \in Nat /\ g[(s \ {x}) \ {z}] \in Nat
            BY <1>1, <2>1
        <3>6. f[x] + (f[z] + g[(s \ {x}) \ {z}]) = f[z] + (f[x] + g[(s \ {x}) \ {z}])
            BY <3>2, <3>3, <3>5, f[x] \in Nat, f[z] \in Nat
        <3> QED
            BY <3>2, <3>3, <3>4, <3>6
    <2> QED
        BY <2>2, <2>3, <2>4
<1> HIDE DEF k
<1> QED
    BY <1>3, <1>4, <1>5 DEF Adding

\* Every finite set has such sums.
LEMMA AddingExists ==
    ASSUME NEW f, NEW S, IsFiniteSet(S), \A x \in S : f[x] \in Nat
    PROVE  \E g : Adding(f, S, g)
<1> DEFINE Bad(s) == ~ \E g : Adding(f, s, g)
           T == {n \in Nat : \E s \in SUBSET S : Cardinality(s) = n /\ Bad(s)}
<1> SUFFICES ASSUME Bad(S) PROVE FALSE
    OBVIOUS
<1>1. Cardinality(S) \in T
    BY FS_CardinalityType
<1> HIDE DEF Bad
<1>2. PICK n \in T : \A m \in T : n <= m
    <2>1. T \in SUBSET Nat /\ T # {}
        BY <1>1
    <2> HIDE DEF T
    <2> QED
        BY <2>1, LeastElement
<1>3. PICK s \in SUBSET S : Cardinality(s) = n /\ Bad(s)
    BY <1>2
<1>4. s # {}
    <2>1. Adding(f, {}, [t \in SUBSET {} |-> 0])
        BY DEF Adding
    <2> QED
        BY <1>3, <2>1 DEF Bad
<1>5. PICK z \in s : TRUE
    BY <1>4
<1>6. IsFiniteSet(s)
    BY FS_Subset
<1>7. Cardinality(s \ {z}) = n - 1 /\ Cardinality(s \ {z}) \in Nat
    BY <1>3, <1>5, <1>6, FS_RemoveElement, FS_CardinalityType
<1>8. ~ Bad(s \ {z})
    <2>1. n - 1 \notin T
        BY <1>2, <1>7
    <2> QED
        BY <1>3, <1>7, <2>1
<1>9. PICK g : Adding(f, s \ {z}, g)
    BY <1>8 DEF Bad
<1> QED
    BY <1>3, <1>5, <1>9, AddingMore DEF Bad

\* What the recursive function of Sum satisfies, and what determines it.
Adds(f, g) ==
    g = [s \in SUBSET DOMAIN f |->
            IF s = {} THEN 0
            ELSE f[CHOOSE x \in s : TRUE] + g[s \ {CHOOSE x \in s : TRUE}]]

LEMMA AddingAdds ==
    ASSUME NEW f, NEW g, Adding(f, DOMAIN f, g)
    PROVE  Adds(f, g)
<1>1. \A s \in SUBSET DOMAIN f :
        g[s] = IF s = {} THEN 0
               ELSE f[CHOOSE x \in s : TRUE] + g[s \ {CHOOSE x \in s : TRUE}]
    BY DEF Adding
<1> QED
    BY <1>1 DEF Adding, Adds

LEMMA AddsUnique ==
    ASSUME NEW f, IsFiniteSet(DOMAIN f), NEW g, Adds(f, g), NEW k, Adds(f, k)
    PROVE  g = k
<1> DEFINE S == DOMAIN f
           T == {n \in Nat : \E s \in SUBSET S : Cardinality(s) = n /\ g[s] # k[s]}
<1>1. /\ g = [s \in SUBSET S |-> IF s = {} THEN 0
               ELSE f[CHOOSE x \in s : TRUE] + g[s \ {CHOOSE x \in s : TRUE}]]
      /\ k = [s \in SUBSET S |-> IF s = {} THEN 0
               ELSE f[CHOOSE x \in s : TRUE] + k[s \ {CHOOSE x \in s : TRUE}]]
    BY DEF Adds
<1>2. ASSUME NEW s \in SUBSET S, g[s] # k[s]
      PROVE  FALSE
    <2>1. \A t \in SUBSET S : IsFiniteSet(t) /\ Cardinality(t) \in Nat
        BY FS_Subset, FS_CardinalityType
    <2>2. Cardinality(s) \in T
        BY <1>2, <2>1
    <2>3. PICK n \in T : \A m \in T : n <= m
        <3>1. T \in SUBSET Nat /\ T # {}
            BY <2>2
        <3> HIDE DEF T
        <3> QED
            BY <3>1, LeastElement
    <2>4. PICK t \in SUBSET S : Cardinality(t) = n /\ g[t] # k[t]
        BY <2>3
    <2> DEFINE x == CHOOSE y \in t : TRUE
    <2>5. t # {} /\ g[t] = f[x] + g[t \ {x}] /\ k[t] = f[x] + k[t \ {x}]
        BY <1>1, <2>4
    <2>6. x \in t
        BY <2>5
    <2> HIDE DEF x
    <2>7. Cardinality(t \ {x}) = n - 1 /\ Cardinality(t \ {x}) \in Nat
        BY <2>1, <2>4, <2>6, FS_RemoveElement
    <2>8. n - 1 \notin T
        BY <2>3, <2>7
    <2>9. g[t \ {x}] = k[t \ {x}]
        BY <2>7, <2>8
    <2> QED
        BY <2>4, <2>5, <2>9
<1>3. \A s \in SUBSET S : g[s] = k[s]
    BY <1>2
<1> QED
    BY <1>1, <1>3

LEMMA SumIs ==
    ASSUME NEW f, IsFiniteSet(DOMAIN f), NEW g, Adding(f, DOMAIN f, g)
    PROVE  Sum(f) = g[DOMAIN f]
<1>1. Sum(f) = (CHOOSE k : Adds(f, k))[DOMAIN f]
    BY DEF Sum, FoldFunction, FoldFunctionOnSet, MapThenFoldSet, Adds
<1>2. Adds(f, g)
    BY AddingAdds
<1>3. Adds(f, CHOOSE k : Adds(f, k))
    BY <1>2
<1>4. (CHOOSE k : Adds(f, k)) = g
    BY <1>2, <1>3, AddsUnique
<1> QED
    BY <1>1, <1>4

\* A sum is a natural number, and that of the rest is what is missing.
LEMMA SumSplits ==
    ASSUME NEW D, IsFiniteSet(D), NEW f \in [D -> Nat], NEW x \in D
    PROVE  /\ Sum(f) = f[x] + Sum([y \in D \ {x} |-> f[y]])
           /\ Sum([y \in D \ {x} |-> f[y]]) \in Nat
<1> DEFINE rest == [y \in D \ {x} |-> f[y]]
<1>1. PICK g : Adding(f, D, g)
    BY AddingExists
<1>2. Sum(f) = g[D]
    BY <1>1, SumIs
<1>3. g[D] = f[x] + g[D \ {x}] /\ g[D \ {x}] \in Nat
    BY <1>1 DEF Adding
<1> DEFINE k == [s \in SUBSET (D \ {x}) |-> g[s]]
<1>4. Adding(rest, D \ {x}, k)
    <2>1. /\ g \in [SUBSET D -> Nat]
          /\ g[{}] = 0
          /\ \A s \in SUBSET D : \A y \in s : g[s] = f[y] + g[s \ {y}]
        BY <1>1 DEF Adding
    <2>2. k \in [SUBSET (D \ {x}) -> Nat] /\ k[{}] = 0
        BY <2>1
    <2>3. ASSUME NEW s \in SUBSET (D \ {x}), NEW y \in s
          PROVE  k[s] = rest[y] + k[s \ {y}]
        BY <2>1
    <2> HIDE DEF k, rest
    <2> QED
        BY <2>2, <2>3 DEF Adding
<1>5. IsFiniteSet(D \ {x}) /\ DOMAIN rest = D \ {x}
    BY FS_RemoveElement
<1>6. Sum(rest) = k[D \ {x}]
    <2> HIDE DEF k, rest
    <2> QED
        BY <1>4, <1>5, SumIs
<1> QED
    BY <1>2, <1>3, <1>6

LEMMA SumOfNothing == ASSUME NEW f, DOMAIN f = {} PROVE Sum(f) = 0
<1>1. IsFiniteSet(DOMAIN f)
    BY FS_EmptySet
<1>2. PICK g : Adding(f, DOMAIN f, g)
    BY <1>1, AddingExists
<1> QED
    BY <1>1, <1>2, SumIs DEF Adding

-----------------------------------------------------------------------------
(* The accounts, where nobody commits between a projection and its refresh. *)

LEMMA SumIsNat ==
    ASSUME NEW D, IsFiniteSet(D), NEW f \in [D -> Nat]
    PROVE  Sum(f) \in Nat
<1>1. CASE D = {}
    BY <1>1, SumOfNothing
<1>2. ASSUME NEW x \in D PROVE Sum(f) \in Nat
    <2> DEFINE rest == [y \in D \ {x} |-> f[y]]
    <2>1. Sum(f) = f[x] + Sum(rest) /\ Sum(rest) \in Nat
        BY SumSplits, Zenon
    <2>2. f[x] \in Nat
        OBVIOUS
    <2> QED
        BY <2>1, <2>2
<1> QED
    BY <1>1, <1>2

\* The reservations that hold something of r, and what those in S hold of it.
Holders(reserved, r) ==
    {c \in Candidates : Live(reserved, c) /\ r \in DOMAIN reserved[c].held}

HeldBy(reserved, r, S) == Sum([c \in S |-> reserved[c].held[r]])

Known(reserved) == {c \in Candidates : reserved[c].status # "NONE"}

LEMMA HoldersSum ==
    ASSUME NEW reserved \in [Candidates -> Reserved], IsFiniteSet(Known(reserved)),
           NEW r \in Resources, NEW c \in Candidates
    PROVE  /\ HeldBy(reserved, r, Holders(reserved, r) \ {c}) \in Nat
           /\ HeldBy(reserved, r, Holders(reserved, r))
                = Share(reserved[c], r) + HeldBy(reserved, r, Holders(reserved, r) \ {c})
<1> DEFINE H == Holders(reserved, r)
           f == [x \in H |-> reserved[x].held[r]]
           rest == [x \in H \ {c} |-> reserved[x].held[r]]
<1>1. IsFiniteSet(H)
    <2>1. H \in SUBSET Known(reserved)
        BY DEF Holders, Known, Live
    <2> QED
        BY <2>1, FS_Subset
<1>2. \A x \in H : reserved[x].held[r] \in Nat
    BY VectorIs DEF Holders, Reserved
<1>3. f \in [H -> Nat]
    BY <1>2
<1>4. Share(reserved[c], r) = IF c \in H THEN reserved[c].held[r] ELSE 0
    BY DEF Holders, Share, Live
<1>5. CASE c \in H
    <2>1. [x \in H \ {c} |-> f[x]] = rest /\ f[c] = reserved[c].held[r]
        BY <1>5
    <2> HIDE DEF H, f, rest
    <2>2. Sum(f) = f[c] + Sum([x \in H \ {c} |-> f[x]]) /\ Sum([x \in H \ {c} |-> f[x]]) \in Nat
        BY <1>1, <1>3, <1>5, SumSplits
    <2> QED
        BY <1>4, <1>5, <2>1, <2>2 DEF HeldBy, H, f, rest
<1>6. CASE c \notin H
    <2>1. H \ {c} = H
        BY <1>6
    <2>2. Sum(f) \in Nat
        BY <1>1, <1>3, SumIsNat
    <2> HIDE DEF H
    <2> QED
        BY <1>4, <1>6, <2>1, <2>2 DEF HeldBy, H
<1> QED
    BY <1>5, <1>6

\* Finitely many documents and reservations are known, and settlements consume
\* amounts.
Finite ==
    /\ IsFiniteSet(documents)
    /\ IsFiniteSet(Known(reservation))
    /\ \A d \in documents : d.kind = "settle" => d.amounts \in Vectors

\* A settlement that is about to be appended, on the version of its host, is not in
\* the evidence.

NovelOf(h) ==
    /\ at[h] = "observing" => pending[h].kind = "capacity"
    /\ at[h] = "appending" /\ current[h] /\ pending[h].kind = "settle"
         => pending[h] \notin documents

Novel == \A h \in Hosts : NovelOf(h)

AccountInv == Finite /\ Novel /\ CommitmentsCovered /\ ConsumptionIsAccounted

\* A step of h.  Other hosts are outrun by whoever adds to the documents.
LEMMA NovelOthers ==
    ASSUME TypeInv, Novel, NEW h \in Hosts, OnlyOf(h),
           \A g \in Hosts \ {h} : current'[g] => current[g] /\ documents' = documents,
           NovelOf(h)'
    PROVE  Novel'
<1>1. ASSUME NEW g \in Hosts \ {h} PROVE NovelOf(g)'
    <2>1. /\ at'[g] = at[g] /\ pending'[g] = pending[g]
          /\ current'[g] => current[g] /\ documents' = documents
        BY <1>1 DEF OnlyOf, TypeInv
    <2> QED
        BY <2>1 DEF Novel, NovelOf
<1> QED
    BY <1>1 DEF Novel

LEMMA NovelRecord ==
    ASSUME TypeInv, Novel, NEW h \in Hosts, NEW d \in Docs, Record(h, d)
    PROVE  Novel' /\ UNCHANGED ledger
<1>1. /\ OnlyOf(h) /\ UNCHANGED ledger
      /\ at'[h] \notin Reading \cup {"observing"}
      /\ at'[h] = "appending" => pending'[h] = d /\ d \notin documents
      /\ \A g \in Hosts \ {h} : current'[g] = current[g]
    BY RecordDoes
<1>2. NovelOf(h)'
    BY <1>1 DEF NovelOf, ledger
<1> QED
    BY <1>1, <1>2, NovelOthers DEF ledger

\* An observation is evidence, but none of the accounts is about it.
LEMMA NovelOther ==
    ASSUME TypeInv, Novel, NEW h \in Hosts,
           \/ Authorize(h) \/ Abandon(h) \/ Report(h) \/ Explain(h)
           \/ AppendObservation(h) \/ Bind(h) \/ Enter(h) \/ SettleEffect(h)
           \/ Summarize(h)
    PROVE  /\ Novel'
           /\ UNCHANGED <<capacity, reservation>>
           /\ \/ UNCHANGED documents
              \/ \E d : d.kind = "observation" /\ documents' = documents \cup {d}
<1>0. /\ at \in [Hosts -> Steps] /\ current \in [Hosts -> BOOLEAN]
      /\ pending \in [Hosts -> Docs \cup {None}]
    BY DEF TypeInv
<1>1. OnlyOf(h) /\ UNCHANGED <<capacity, reservation>>
    BY OtherSteps
<1>2. CASE AppendObservation(h)
    <2>1. /\ at[h] = "observing"
          /\ documents' = documents \cup {Observation(pending[h])}
          /\ current' = [g \in Hosts |-> g = h /\ at'[h] # "idle"]
          /\ at'[h] = "appending" /\ pending'[h] = pending[h]
        BY <1>0, <1>2 DEF AppendObservation, Go, Overtake
    <2>2. Observation(pending[h]).kind = "observation"
        BY DEF Observation, Document
    <2>3. pending[h].kind = "capacity"
        BY <2>1 DEF Novel, NovelOf
    <2>4. NovelOf(h)'
        BY <2>1, <2>3 DEF NovelOf
    <2>5. \A g \in Hosts \ {h} : ~ current'[g]
        BY <2>1
    <2>6. Novel'
        BY <1>1, <2>4, <2>5, NovelOthers
    <2> QED
        BY <1>1, <2>1, <2>2, <2>6
<1>3. CASE ~ AppendObservation(h)
    <2>1. UNCHANGED documents
        BY <1>3 DEF Authorize, Abandon, Report, Explain, Bind, Enter, SettleEffect,
                    Summarize, ledger
    <2>2. at'[h] \notin {"observing", "appending"}
        BY <1>0, <1>3 DEF Authorize, Abandon, Report, Explain, Bind, Enter, SettleEffect,
                          Summarize, Return, Go
    <2>3. \A g \in Hosts \ {h} : current'[g] => current[g]
        BY <1>0, <1>3 DEF Authorize, Abandon, Report, Explain, Bind, Enter, SettleEffect,
                          Summarize, Return, Overtake
    <2>4. NovelOf(h)'
        BY <2>2 DEF NovelOf
    <2> QED
        BY <1>1, <2>1, <2>3, <2>4, NovelOthers
<1> QED
    BY <1>2, <1>3

\* Documents that are no settlements leave the accounts alone.
LEMMA AccountsStay ==
    ASSUME Finite, CommitmentsCovered, ConsumptionIsAccounted,
           UNCHANGED <<capacity, reservation>>,
           \/ UNCHANGED documents
           \/ \E d : d.kind = "observation" /\ documents' = documents \cup {d}
    PROVE  Finite' /\ CommitmentsCovered' /\ ConsumptionIsAccounted'
<1>1. Known(reservation)' = Known(reservation) /\ CommitmentsCovered'
    BY DEF Known, CommitmentsCovered, Live
<1>2. IsFiniteSet(documents')
    BY FS_AddElement DEF Finite
<1>3. ASSUME NEW r \in Resources
      PROVE  {d \in documents' : d.kind = "settle" /\ r \in DOMAIN d.amounts}
               = {d \in documents : d.kind = "settle" /\ r \in DOMAIN d.amounts}
    OBVIOUS
<1>4. ConsumptionIsAccounted'
    BY <1>3 DEF ConsumptionIsAccounted
<1> QED
    BY <1>1, <1>2, <1>4 DEF Finite

\* What an append does to the accounts of the reservations ...
LEMMA CoverStep ==
    ASSUME TypeInv, Finite, CommitmentsCovered, NEW d \in Docs, Balanced(d),
           capacity' = Update(capacity, d.post),
           reservation' = IF d.about \in Candidates
                          THEN [reservation EXCEPT ![d.about] = Projected(@, d)]
                          ELSE reservation
    PROVE  CommitmentsCovered' /\ IsFiniteSet(Known(reservation'))
<1>1. /\ reservation \in [Candidates -> Reserved]
      /\ capacity \in [Resources -> Capacities]
      /\ Update(capacity, d.post) \in [Resources -> Capacities]
    <2>1. d.post \in Posts
        BY DEF Docs
    <2> QED
        BY <2>1, UpdateTypes DEF TypeInv, Projection, Projections
<1>2. reservation' \in [Candidates -> Reserved]
    BY <1>1, ProjectedTypes
<1>3. IsFiniteSet(Known(reservation'))
    <2>1. Known(reservation') \in SUBSET (Known(reservation) \cup {d.about})
        BY <1>1 DEF Known
    <2>2. IsFiniteSet(Known(reservation) \cup {d.about})
        BY FS_AddElement DEF Finite
    <2> QED
        BY <2>1, <2>2, FS_Subset
<1>4. ASSUME NEW r \in Resources
      PROVE  capacity'[r].committed >= HeldBy(reservation', r, Holders(reservation', r))
    <2>1. capacity[r].committed >= HeldBy(reservation, r, Holders(reservation, r))
        BY DEF CommitmentsCovered, HeldBy, Holders
    <2>2. capacity[r].committed \in Nat /\ capacity'[r].committed \in Nat
        BY <1>1 DEF Capacities
    <2>3. CASE d.about \in Candidates
        <3> DEFINE c == d.about
                   rest == HeldBy(reservation, r, Holders(reservation, r) \ {c})
        <3>1. capacity'[r].committed + Share(reservation[c], r)
                >= capacity[r].committed + Share(reservation'[c], r)
            BY <1>1, <2>3 DEF Balanced
        <3>2. \A x \in Candidates \ {c} : reservation'[x] = reservation[x]
            BY <1>1, <2>3
        <3>3. Holders(reservation', r) \ {c} = Holders(reservation, r) \ {c}
            BY <3>2 DEF Holders, Live
        <3>4. HeldBy(reservation', r, Holders(reservation', r) \ {c}) = rest
            <4>1. \A x \in Holders(reservation, r) \ {c} : reservation'[x] = reservation[x]
                BY <3>2 DEF Holders
            <4>2. [x \in Holders(reservation, r) \ {c} |-> reservation'[x].held[r]]
                    = [x \in Holders(reservation, r) \ {c} |-> reservation[x].held[r]]
                BY <4>1
            <4> QED
                BY <3>3, <4>2 DEF HeldBy
        <3>5. /\ rest \in Nat
              /\ HeldBy(reservation, r, Holders(reservation, r))
                   = Share(reservation[c], r) + rest
            BY <1>1, <2>3, HoldersSum DEF Finite
        <3>6. HeldBy(reservation', r, Holders(reservation', r))
                = Share(reservation'[c], r) + rest
            BY <1>2, <1>3, <2>3, <3>4, HoldersSum
        <3>7. Share(reservation[c], r) \in Nat /\ Share(reservation'[c], r) \in Nat
            BY <1>1, <1>2, <2>3, ShareIsNat
        <3> HIDE DEF rest, c
        <3> QED
            BY <2>1, <2>2, <3>1, <3>5, <3>6, <3>7
    <2>4. CASE d.about \notin Candidates
        <3>1. capacity'[r].committed >= capacity[r].committed /\ reservation' = reservation
            BY <2>4 DEF Balanced
        <3>2. HeldBy(reservation, r, Holders(reservation, r)) \in Nat
            <4>1. IsFiniteSet(Holders(reservation, r))
                <5>1. Holders(reservation, r) \in SUBSET Known(reservation)
                    BY DEF Holders, Known, Live
                <5> QED
                    BY <5>1, FS_Subset DEF Finite
            <4>2. \A x \in Holders(reservation, r) : reservation[x].held[r] \in Nat
                BY <1>1, VectorIs DEF Holders, Reserved
            <4>3. [x \in Holders(reservation, r) |-> reservation[x].held[r]]
                    \in [Holders(reservation, r) -> Nat]
                BY <4>2
            <4> QED
                BY <4>1, <4>3, SumIsNat DEF HeldBy
        <3> QED
            BY <2>1, <2>2, <3>1, <3>2
    <2> QED
        BY <2>3, <2>4
<1>5. CommitmentsCovered'
    <2>1. ASSUME NEW r \in Resources
          PROVE  capacity'[r].committed
                   >= Sum([c \in {x \in Candidates : /\ Live(reservation', x)
                                                    /\ r \in DOMAIN reservation'[x].held}
                             |-> reservation'[c].held[r]])
        BY <1>4 DEF HeldBy, Holders
    <2> QED
        BY <2>1 DEF CommitmentsCovered, Live
<1> QED
    BY <1>3, <1>5

\* The settlements that charge r, and what they add up to.
Charges(docs, r) == {x \in docs : x.kind = "settle" /\ r \in DOMAIN x.amounts}

Spent(docs, r) == Sum([x \in Charges(docs, r) |-> x.amounts[r]])

LEMMA SpentMore ==
    ASSUME NEW docs, IsFiniteSet(docs), NEW r,
           \A x \in docs : x.kind = "settle" => x.amounts \in Vectors,
           NEW d \in docs, d.kind = "settle", r \in DOMAIN d.amounts
    PROVE  /\ Spent(docs, r) = d.amounts[r] + Spent(docs \ {d}, r)
           /\ d.amounts[r] \in Nat /\ Spent(docs \ {d}, r) \in Nat
<1> DEFINE D == Charges(docs, r)
           f == [x \in D |-> x.amounts[r]]
<1>1. d \in D /\ D \ {d} = Charges(docs \ {d}, r)
    BY DEF Charges
<1>2. IsFiniteSet(D)
    <2>1. D \in SUBSET docs
        BY DEF Charges
    <2> QED
        BY <2>1, FS_Subset
<1>3. f \in [D -> Nat]
    <2>1. \A x \in D : x.amounts[r] \in Nat
        BY VectorIs DEF Charges
    <2> QED
        BY <2>1
<1>4. [x \in D \ {d} |-> f[x]] = [x \in Charges(docs \ {d}, r) |-> x.amounts[r]]
    BY <1>1
<1>5. f[d] = d.amounts[r]
    BY <1>1
<1> HIDE DEF D, f
<1>6. /\ Sum(f) = f[d] + Sum([x \in D \ {d} |-> f[x]])
      /\ Sum([x \in D \ {d} |-> f[x]]) \in Nat
    BY <1>1, <1>2, <1>3, SumSplits
<1>7. f[d] \in Nat
    BY <1>1, <1>3
<1> QED
    BY <1>4, <1>5, <1>6, <1>7 DEF Spent, D, f

\* ... and to those of the consumption.
LEMMA ConsumeStep ==
    ASSUME TypeInv, Finite, ConsumptionIsAccounted, NEW d \in Docs, Balanced(d),
           d.kind = "settle" => d \notin documents,
           capacity' = Update(capacity, d.post),
           documents' = documents \cup {d}
    PROVE  ConsumptionIsAccounted'
<1>1. ASSUME NEW r \in Resources
      PROVE  capacity'[r].consumed = Spent(documents', r)
    <2>1. /\ capacity[r].consumed = Spent(documents, r)
          /\ capacity'[r].consumed = capacity[r].consumed + Charge(d, r)
        BY DEF ConsumptionIsAccounted, Balanced, Spent, Charges
    <2>2. capacity[r].consumed \in Nat
        BY DEF TypeInv, Projection, Projections, Capacities
    <2>3. CASE d.kind = "settle" /\ r \in DOMAIN d.amounts
        <3>1. IsFiniteSet(documents') /\ d \in documents' /\ documents' \ {d} = documents
            BY <2>3, FS_AddElement DEF Finite
        <3>2. \A x \in documents' : x.kind = "settle" => x.amounts \in Vectors
            BY DEF Finite, Docs
        <3>3. Spent(documents', r) = d.amounts[r] + Spent(documents, r)
              /\ d.amounts[r] \in Nat
            BY <2>3, <3>1, <3>2, SpentMore
        <3>4. Charge(d, r) = d.amounts[r]
            BY <2>3 DEF Charge
        <3> QED
            BY <2>1, <2>2, <3>3, <3>4
    <2>4. CASE ~ (d.kind = "settle" /\ r \in DOMAIN d.amounts)
        <3>1. Charges(documents', r) = Charges(documents, r)
            BY <2>4 DEF Charges
        <3>2. Charge(d, r) = 0
            BY <2>4 DEF Charge
        <3>3. Spent(documents', r) = Spent(documents, r)
            BY <3>1, Zenon DEF Spent
        <3> QED
            BY <2>1, <2>2, <3>2, <3>3
    <2> QED
        BY <2>3, <2>4
<1> QED
    BY <1>1 DEF ConsumptionIsAccounted, Spent, Charges

LEMMA AccountStep ==
    ASSUME SingleEngine, TypeInv, ReadsAreCurrent, AccountInv, [Next]_vars
    PROVE  AccountInv'
<1>0. TypeInv /\ Finite /\ Novel /\ CommitmentsCovered /\ ConsumptionIsAccounted
    BY DEF AccountInv
<1>1. CASE UNCHANGED vars
    <2>1. UNCHANGED <<capacity, reservation, documents, at, pending, current>>
        BY <1>1 DEF vars, ledger
    <2>2. Novel'
        BY <1>0, <2>1 DEF Novel, NovelOf
    <2> QED
        BY <1>0, <2>1, <2>2, AccountsStay DEF AccountInv
<1>2. ASSUME NEW h \in Hosts, NEW d \in Docs, Record(h, d) PROVE AccountInv'
    <2>1. Novel' /\ UNCHANGED ledger
        BY <1>0, <1>2, NovelRecord
    <2> QED
        BY <1>0, <2>1, AccountsStay DEF AccountInv, ledger
<1>3. ASSUME NEW h \in Hosts, Reserve(h) \/ Settle(h) \/ Reestimate(h) \/ Release(h)
      PROVE  AccountInv'
    BY <1>0, <1>2, <1>3, ReserveDoes, SettleDoes, ReestimateDoes, ReleaseDoes
<1>4. ASSUME NEW h \in Hosts, Observe(h) PROVE AccountInv'
    <2>1. PICK d \in Docs :
              /\ \/ Record(h, d)
                 \/ /\ Go(h, "observing", d)
                    /\ plan' = [plan EXCEPT ![h] = None]
                    /\ current' = [current EXCEPT ![h] = TRUE]
                    /\ UNCHANGED <<ledger, task>>
              /\ d.kind = "capacity"
        BY <1>0, <1>4, ObserveDoes
    <2>2. CASE ~ Record(h, d)
        <3>1. /\ OnlyOf(h) /\ at'[h] = "observing" /\ pending'[h] = d
              /\ \A g \in Hosts \ {h} : current'[g] = current[g]
              /\ UNCHANGED <<capacity, reservation, documents>>
            BY <2>1, <2>2 DEF Go, OnlyOf, TypeInv, ledger
        <3>2. NovelOf(h)'
            BY <2>1, <3>1 DEF NovelOf
        <3>3. Novel'
            BY <1>0, <3>1, <3>2, NovelOthers
        <3> QED
            BY <1>0, <3>1, <3>3, AccountsStay DEF AccountInv
    <2> QED
        BY <1>2, <2>1, <2>2
<1>5. ASSUME NEW h \in Hosts, Append(h) PROVE AccountInv'
    <2> DEFINE d == pending[h]
    <2>1. /\ OnlyOf(h)
          /\ at'[h] \notin Reading \cup {"appending", "observing"}
          /\ d \in Docs
          /\ documents' = documents \cup {d}
          /\ \A g \in Hosts \ {h} : current'[g] = FALSE
        BY <1>0, <1>5, AppendDoes
    <2>2. /\ at[h] = "appending" /\ current[h]
          /\ capacity' = Update(capacity, d.post)
          /\ reservation' = IF d.about \in Candidates
                            THEN [reservation EXCEPT ![d.about] = Projected(@, d)]
                            ELSE reservation
        BY <1>5 DEF Append
    <2>3. Balanced(d)
        BY <2>2 DEF ReadsAreCurrent
    <2>4. d.kind = "settle" => d \notin documents
        BY <1>0, <2>2 DEF Novel, NovelOf
    <2>5. Novel'
        <3>1. NovelOf(h)'
            BY <2>1 DEF NovelOf
        <3> QED
            BY <1>0, <2>1, <3>1, NovelOthers
    <2>6. \A x \in documents' : x.kind = "settle" => x.amounts \in Vectors
        BY <1>0, <2>1 DEF Finite, Docs
    <2>7. IsFiniteSet(documents')
        BY <1>0, <2>1, FS_AddElement DEF Finite
    <2> HIDE DEF d
    <2>8. CommitmentsCovered' /\ IsFiniteSet(Known(reservation'))
        BY <1>0, <2>1, <2>2, <2>3, CoverStep
    <2>9. ConsumptionIsAccounted'
        BY <1>0, <2>1, <2>2, <2>3, <2>4, ConsumeStep
    <2>10. Known(reservation)' = Known(reservation')
        BY DEF Known
    <2> QED
        BY <2>5, <2>6, <2>7, <2>8, <2>9, <2>10 DEF AccountInv, Finite
<1>6. ASSUME NEW h \in Hosts,
             \/ Authorize(h) \/ Abandon(h) \/ Report(h) \/ Explain(h)
             \/ AppendObservation(h) \/ Bind(h) \/ Enter(h) \/ SettleEffect(h)
             \/ Summarize(h)
      PROVE  AccountInv'
    BY <1>0, <1>6, NovelOther, AccountsStay DEF AccountInv
<1> QED
    BY <1>1, <1>3, <1>4, <1>5, <1>6 DEF Next

LEMMA AccountInit == Init => AccountInv
<1> SUFFICES ASSUME Init PROVE AccountInv
    OBVIOUS
<1>1. Finite
    <2>1. documents = {} /\ Known(reservation) = {}
        BY DEF Init, Known
    <2> QED
        BY <2>1, FS_EmptySet DEF Finite
<1>2. Novel
    BY DEF Init, Novel, NovelOf
<1>3. CommitmentsCovered
    <2> SUFFICES ASSUME NEW r \in Resources
                 PROVE  capacity[r].committed >=
                          Sum([c \in {x \in Candidates : /\ Live(reservation, x)
                                                         /\ r \in DOMAIN reservation[x].held}
                                 |-> reservation[c].held[r]])
        BY DEF CommitmentsCovered
    <2>1. {x \in Candidates : Live(reservation, x) /\ r \in DOMAIN reservation[x].held} = {}
        BY DEF Init, Live
    <2>2. capacity[r].committed = 0
        BY DEF Init
    <2> DEFINE held == [c \in {x \in Candidates : /\ Live(reservation, x)
                                                 /\ r \in DOMAIN reservation[x].held}
                          |-> reservation[c].held[r]]
    <2>3. DOMAIN held = {}
        BY <2>1
    <2>4. Sum(held) = 0
        <3> HIDE DEF held
        <3> QED
            BY <2>3, SumOfNothing
    <2> QED
        BY <2>2, <2>4
<1>4. ConsumptionIsAccounted
    <2> SUFFICES ASSUME NEW r \in Resources
                 PROVE  capacity[r].consumed =
                          Sum([d \in {x \in documents : x.kind = "settle"
                                                         /\ r \in DOMAIN x.amounts}
                                 |-> d.amounts[r]])
        BY DEF ConsumptionIsAccounted
    <2>1. {x \in documents : x.kind = "settle" /\ r \in DOMAIN x.amounts} = {}
        BY DEF Init
    <2>2. capacity[r].consumed = 0
        BY DEF Init
    <2> QED
        BY <2>1, <2>2, SumOfNothing
<1> QED
    BY <1>1, <1>2, <1>3, <1>4 DEF AccountInv

\* SingleEngine hosts leave what is held covered: a settlement or a release finds
\* what it takes back, whatever was reserved, re-estimated and settled before it.
THEOREM HeldIsCovered == SingleEngine => (Spec => []CommitmentsCovered)
<1> SUFFICES ASSUME SingleEngine PROVE Spec => []CommitmentsCovered
    OBVIOUS
<1>1. Init => TypeInv /\ ReadsAreCurrent /\ AccountInv
    BY TypeInit, AccountInit DEF Init, ReadsAreCurrent, Reading
<1>2. TypeInv /\ ReadsAreCurrent /\ AccountInv /\ [Next]_vars
        => (TypeInv /\ ReadsAreCurrent /\ AccountInv)'
    BY TypeStep, CurrentStep, AccountStep
<1>3. AccountInv => CommitmentsCovered
    BY DEF AccountInv
<1> QED
    BY <1>1, <1>2, <1>3, PTL DEF Spec

\* They charge a capacity exactly what the recorded settlements add up to.
THEOREM ConsumptionAddsUp == SingleEngine => (Spec => []ConsumptionIsAccounted)
<1> SUFFICES ASSUME SingleEngine PROVE Spec => []ConsumptionIsAccounted
    OBVIOUS
<1>1. Init => TypeInv /\ ReadsAreCurrent /\ AccountInv
    BY TypeInit, AccountInit DEF Init, ReadsAreCurrent, Reading
<1>2. TypeInv /\ ReadsAreCurrent /\ AccountInv /\ [Next]_vars
        => (TypeInv /\ ReadsAreCurrent /\ AccountInv)'
    BY TypeStep, CurrentStep, AccountStep
<1>3. AccountInv => ConsumptionIsAccounted
    BY DEF AccountInv
<1> QED
    BY <1>1, <1>2, <1>3, PTL DEF Spec

=============================================================================
