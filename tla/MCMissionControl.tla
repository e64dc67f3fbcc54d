-------------------------- MODULE MCMissionControl --------------------------
(* Instances of the mission controls for TLC.                                *)
EXTENDS MissionControl, TLC

CONSTANTS h1, h2, c1, t1, t2, l1, l2, l3, i1

\* The second task requires the first.
Chain == {<<t1, t2>>}

Symmetry == Permutations(Hosts) \cup Permutations(Leases)

\* What a thread may still read of its snapshot.
Seen(p) ==
    CASE at[p] \in {"idle", "note"} -> Nothing
      [] at[p] \in {"requires?", "paused?", "acquire", "claim"} ->
            NextAttempt(view[p], call[p].task)
      [] at[p] \in {"paused!", "requires!", "mission!"} ->
            view[p].leases[call[p].lease].status
      [] at[p] \in {"unclaim", "unnote"} -> view[p].leases[call[p].lease].task
      [] at[p] = "finish" /\ p \in Hosts -> view[p].leases[call[p].lease]
      [] OTHER -> view[p]

Busy == <<canon, rows, [p \in Threads |-> Seen(p)], at, call, held, cleared, controls>>
=============================================================================
