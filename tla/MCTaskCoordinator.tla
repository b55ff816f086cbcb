------------------------- MODULE MCTaskCoordinator -------------------------
(* TaskCoordinator for TLC: tasks, agents and callers are interchangeable. *)
EXTENDS TaskCoordinator, TLC

Interchangeable ==
    Permutations(Tasks) \cup Permutations(Agents) \cup Permutations(Callers)
=============================================================================
