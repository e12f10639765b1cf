----------------------------- MODULE MCController -----------------------------
(* Controller for TLC: at most MaxDisturbances of the environment's steps    *)
(* happen, in any order and at any moment; the controller's own steps are    *)
(* not bounded.                                                              *)
EXTENDS Controller

CONSTANT MaxDisturbances

VARIABLE budget

mcVars == <<vars, budget>>

MCSpecs == {[tuple |-> "a", backend |-> "llmfit.ai"],
            [tuple |-> "b", backend |-> "gpu.nvidia.com"],
            [tuple |-> "a", backend |-> "gpu.nvidia.com"],
            [tuple |-> BadModel, backend |-> "llmfit.ai"]}

(* "a" on the NVIDIA backend comes with a selector that is not CEL.          *)
MCRejected == {[tuple |-> "a", backend |-> "gpu.nvidia.com"]}

LiveSpecs == {s \in MCSpecs : s.tuple # BadModel}

MCInit == Init /\ budget = MaxDisturbances

(* No property tells AllDevicesHeld from the other verdicts.                 *)
MCPools == [Backends -> {"NoCandidates", "DevicesAvailable"}]

MCNext ==
    \/ (Disturbance \/ Resync) /\ budget > 0 /\ budget' = budget - 1 /\ pool' \in MCPools
    \/ System /\ UNCHANGED budget

(* The resync never stops, and fairness is Controller's own.                 *)
LiveNext ==
    \/ Disturbance /\ budget > 0 /\ budget' = budget - 1
    \/ (System \/ Resync) /\ UNCHANGED budget

LiveSpec == MCInit /\ [][LiveNext]_mcVars /\ Fairness

MCSpec == MCInit /\ [][MCNext]_mcVars
=============================================================================
