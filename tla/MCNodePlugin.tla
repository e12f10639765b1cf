---------------------------- MODULE MCNodePlugin ----------------------------
(* NodePlugin for TLC: two pods, one with a claim the plugin can prepare and  *)
(* one it cannot; at most MaxDisturbances disturbances, at any moment.        *)
EXTENDS NodePlugin, TLC

CONSTANTS MaxDisturbances, c1, c2, c3

VARIABLE budget

mcVars == <<vars, budget>>

MCAlloc == (c1 :> {"gpu0", "gpu1"}) @@ (c2 :> {}) @@ (c3 :> {"gpu1"})
MCPods == {{c1, c2}, {c3}}

MCInit == Init /\ budget = MaxDisturbances

MCNext ==
    \/ Disturbance /\ budget > 0 /\ budget' = budget - 1
    \/ System /\ UNCHANGED budget

MCSpec == MCInit /\ [][MCNext]_mcVars /\ Fairness
=============================================================================
