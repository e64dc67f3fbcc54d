---------------------------- MODULE MCMachineLog ----------------------------
(* Instances of the event-sourced machine for TLC.                           *)
EXTENDS MachineLog, TLC

CONSTANTS h1, h2

\* A definition with a choice, a way back, two ends and a state that nothing
\* leads to.
SmallMoves ==
    {<<"plan", "verify">>, <<"verify", "back">>, <<"back", "plan">>,
     <<"verify", "done">>}

Symmetry == Permutations(Hosts)
=============================================================================
