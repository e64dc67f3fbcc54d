---------------------------- MODULE TaskCustody ----------------------------
(***************************************************************************)
(* What the leases promise about a task, without hosts, claim rows, events *)
(* or clocks: one lease at a time is entitled to the task, and only that   *)
(* one has custody of it.  Custody may lapse and be taken up again for as  *)
(* long as the lease is entitled; a lease that is not is out for good, and *)
(* no other is granted the task before.                                    *)
(***************************************************************************)
CONSTANTS Tasks, Leases

VARIABLES
    entitled,   \* the lease entitled to each task
    held,       \* the lease in force for each task
    out         \* the leases that are out

cvars == <<entitled, held, out>>

Nobody == [t \in Tasks |-> {}]

Init == entitled = Nobody /\ held = Nobody /\ out = {}

\* A new lease; it may already be over.
Grant(t, l) ==
    /\ entitled[t] = {}
    /\ l \notin out
    /\ \A u \in Tasks : l \notin entitled[u]
    /\ entitled' = [entitled EXCEPT ![t] = {l}]
    /\ \E h \in {{}, {l}} : held' = [held EXCEPT ![t] = h]
    /\ UNCHANGED out

Revive(t) ==
    /\ held[t] = {}
    /\ held' = [held EXCEPT ![t] = entitled[t]]
    /\ UNCHANGED <<entitled, out>>

\* As time passes several leases may run out at once.
Lapse(ended) ==
    /\ held' = [t \in Tasks |-> IF t \in ended THEN {} ELSE held[t]]
    /\ UNCHANGED <<entitled, out>>

\* Leases that are not in force are out, among them new ones that come too late.
Withdraw(gone) ==
    /\ \A t \in Tasks : held[t] \cap gone = {}
    /\ entitled' = [t \in Tasks |-> entitled[t] \ gone]
    /\ out' = out \cup gone
    /\ UNCHANGED held

Next ==
    \/ \E t \in Tasks, l \in Leases : Grant(t, l)
    \/ \E t \in Tasks : Revive(t)
    \/ \E ended \in SUBSET Tasks : Lapse(ended)
    \/ \E gone \in SUBSET Leases : Withdraw(gone)

Spec == Init /\ [][Next]_cvars

=============================================================================
