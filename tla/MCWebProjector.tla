----------------------------- MODULE MCWebProjector -----------------------------
(* Two subsystems: one whose three nodes are rearranged in every way, and   *)
(* one with a node of its own and a node whose tag is not registered.       *)
EXTENDS WebProjector, TLC
CONSTANTS map, hud, a, b, c, d, e
MCSubsystems == <<map, hud>>
MCNodesOf == map :> {a, b, c} @@ hud :> {d, e}
Symmetry == Permutations({a, b, c})
============================================================================
