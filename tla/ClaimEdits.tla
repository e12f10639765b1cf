----------------------------- MODULE ClaimEdits -----------------------------
(***************************************************************************)
(* What a prepared device gives a container (internal/nodeplugin): the     *)
(* inventory's lookups, the device nodes of editsFor and the visibility    *)
(* that keeps ROCm inside the claim.  LLMFIT_* variables are left out.     *)
(***************************************************************************)
EXTENDS Probe

(* The inventory is the last walk; of two devices of one name Set keeps    *)
(* the last.                                                               *)
names(devices) == {Name(d) : d \in devices}

lookup(inv, n) == CHOOSE d \in inv :
                    /\ Name(d) = n
                    /\ \A e \in inv : Name(e) = n => e.index \leq d.index

driverCount(inv, drv) == Cardinality({n \in names(inv) : driver(lookup(inv, n)) = drv})

(* Node-global paths beside the device's own.                              *)
kfd == <<"kfd", 0>>
rdma_cm == <<"rdma_cm", 0>>

editsFor(d) ==
    ({d.render, d.node} \ {NoNode})
    \union (IF driver(d) = "amdgpu" THEN {kfd} ELSE {})
    \union (IF d.kind = "nic" /\ d.node # NoNode THEN {rdma_cm} ELSE {})

(* A path already given by an earlier device of the claim is not repeated. *)
withEdits(cdi, n, d) ==
    LET seen == UNION {e.nodes : e \in cdi}
    IN  cdi \union {[name |-> n, card |-> d.card, nodes |-> editsFor(d) \ seen]}

(* The GPUs ROCR_VISIBLE_DEVICES lists, {} where it is not set.            *)
addROCmVisibility_claimSize(inv, cdi) ==
    LET mine == {e.card : e \in {e \in cdi : Facts[e.card].driver = "amdgpu"}}
    IN  IF Cardinality(mine) \leq 1 \/ \E c \in mine : ~Facts[c].uid THEN {} ELSE mine

addROCmVisibility(inv, cdi) ==
    LET mine == {e.card : e \in {e \in cdi : Facts[e.card].driver = "amdgpu"}}
    IN  IF mine = {} \/ driverCount(inv, "amdgpu") \leq 1 \/ \E c \in mine : ~Facts[c].uid
        THEN {} ELSE mine
=============================================================================
