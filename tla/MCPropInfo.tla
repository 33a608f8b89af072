----------------------------- MODULE MCPropInfo -----------------------------
(* Bounded instances of PropInfo for TLC. *)
EXTENDS PropInfo, TLC

CONSTANT MaxBumps   \* updates of the property and adds of others

(* init begins a new operation only while the bound allows one more. *)
Bound == wpc = "idle" /\ wpc' # "idle" => bumps < MaxBumps
MCNext == Next /\ Bound
MCSpec == Init /\ [][MCNext]_vars
MCFairSpec == MCSpec /\ Fairness

Symmetry == Permutations(Clients)
=============================================================================
