----------------------------- MODULE MCProbeLoop -----------------------------
(* ProbeLoop for TLC: at most MaxDisturbances disturbances, at any moment.   *)
EXTENDS ProbeLoop

CONSTANT MaxDisturbances

VARIABLE budget

mcVars == <<vars, budget>>

MCInit == Init /\ budget = MaxDisturbances

MCNext ==
    \/ Disturbance /\ budget > 0 /\ budget' = budget - 1
    \/ System /\ UNCHANGED budget

MCSpec == MCInit /\ [][MCNext]_mcVars /\ Fairness
=============================================================================
