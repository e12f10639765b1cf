------------------------------ MODULE MCEvents ------------------------------
(* Events for TLC: at most MaxDisturbances disturbances.                      *)
EXTENDS Events

CONSTANTS MaxDisturbances

VARIABLE budget

mcVars == <<vars, budget>>

Situation(fail, bounds, sat, text) ==
    [fail |-> fail, bounds |-> bounds, sat |-> sat, text |-> text]

(* Devices come and go; a new resolver asks for more; the model database is   *)
(* away.                                                                      *)
MCSituations ==
    { Situation("", "b1", "DevicesAvailable", "2 of 2"),
      Situation("", "b2", "NoCandidates", "short"),
      Situation("ResolveFailed", "", "", "timeout") }

(* Devices only come and go.                                                  *)
FlipSituations ==
    { Situation("", "b1", "DevicesAvailable", "2 of 2"),
      Situation("", "b1", "NoCandidates", "short") }

(* The claims start alike.                                                    *)
MCInit == Init /\ (\A c, d \in Claims : world[c] = world[d]) /\ budget = MaxDisturbances

MCNext ==
    \/ \E c \in Claims : (Reconcile(c) \/ Deliver(c)) /\ UNCHANGED budget
    \/ Disturbance /\ budget > 0 /\ budget' = budget - 1

MCFairness == \A c \in Claims : /\ WF_mcVars(Reconcile(c) /\ UNCHANGED budget)
                                /\ WF_mcVars(Deliver(c) /\ UNCHANGED budget)

MCSpec == MCInit /\ [][MCNext]_mcVars /\ MCFairness
=============================================================================
