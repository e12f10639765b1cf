------------------------------- MODULE MCAgent -------------------------------
(* Agent for TLC: six machines, at most MaxDisturbances disturbances; the one *)
(* with two AMD cards also has a claim.                                       *)
EXTENDS Agent

CONSTANTS MaxDisturbances

VARIABLE budget

mcVars == <<vars, budget>>

Card(addr, vendor, model, drv, vram, mem, uid, gpu, faces) ==
    [addr |-> addr, vendor |-> vendor, model |-> model, driver |-> drv, vram |-> vram,
     mem |-> mem, uid |-> uid, gpu |-> gpu, faces |-> faces]

(* w1, w2: AMD discrete cards of one model; apu: AMD with shared memory,      *)
(* whose sysfs file shows the carve-out; nv: NVIDIA, no sysfs memory file,    *)
(* and nvh the same without a drm card; arc: a card whose name llmfit cannot  *)
(* classify; bmc: a framebuffer; dpu: drm and infiniband faces; m1, m2: two   *)
(* RDMA entries of one function; u1, u2: USB display adapters, which carry    *)
(* their controller's address; vpu: an NPU.                                   *)
MCFacts ==
    [ cpu |-> Card(NoAddr, "cpu", "cpu", "", 0, RAM, FALSE, FALSE, {}),
      w1  |-> Card(1, "amd", "W", "amdgpu", 3, 3, TRUE, TRUE, {"drm", "rnd"}),
      w2  |-> Card(2, "amd", "W", "amdgpu", 3, 3, TRUE, TRUE, {"drm", "rnd"}),
      apu |-> Card(3, "amd", "APU", "amdgpu", 1, RAM, FALSE, TRUE, {"drm", "rnd"}),
      nv  |-> Card(4, "nvidia", "NV", "nvidia", 0, 2, FALSE, TRUE, {"drm", "rnd"}),
      nvh |-> Card(5, "nvidia", "NV", "nvidia", 0, 2, FALSE, TRUE, {}),
      arc |-> Card(6, "intel", "ARC", "xe", 2, 2, FALSE, TRUE, {"drm", "rnd"}),
      bmc |-> Card(7, "other", "BMC", "mgag200", 0, 0, FALSE, FALSE, {"drm"}),
      dpu |-> Card(8, "mellanox", "DPU", "mlx5_core", 0, 0, FALSE, FALSE, {"drm", "ib"}),
      m1  |-> Card(9, "microsoft", "MANA", "mana", 0, 0, FALSE, FALSE, {"ib"}),
      m2  |-> Card(9, "microsoft", "MANA", "mana", 0, 0, FALSE, FALSE, {"ib"}),
      u1  |-> Card(10, "other", "USB", "udl", 0, 0, FALSE, FALSE, {"drm"}),
      u2  |-> Card(10, "other", "USB", "udl", 0, 0, FALSE, FALSE, {"drm"}),
      vpu |-> Card(11, "intel", "VPU", "intel_vpu", 0, RAM, FALSE, FALSE, {"accel"}) ]

MCPrice ==
    [ W   |-> [vendor |-> "amd", unified |-> "no", mem |-> 3, bw |-> TRUE],
      APU |-> [vendor |-> "amd", unified |-> "yes", mem |-> 0, bw |-> TRUE],
      NV  |-> [vendor |-> "nvidia", unified |-> "no", mem |-> 2, bw |-> TRUE],
      ARC |-> [vendor |-> "", unified |-> "no", mem |-> 0, bw |-> FALSE] ]

MCIndex ==
    [ APU |-> [unified |-> "yes", bw |-> TRUE],
      VPU |-> [unified |-> "yes", bw |-> FALSE] ]

MCTree(cards, drm, rnd, accel, ib, verbs) ==
    [pci |-> cards, drm |-> drm, rnd |-> rnd, accel |-> accel, ib |-> ib,
     faulty |-> {}, verbs |-> verbs]

MCTrees ==
    { MCTree({"w1", "w2"}, <<"w1", "w2">>, <<"w2", "w1">>, <<>>, <<>>, TRUE),
      MCTree({"w1", "w2", "apu"}, <<"w1", "w2", "apu">>, <<"w2", "w1", "apu">>, <<>>, <<>>, TRUE),
      MCTree({"apu", "vpu", "bmc"}, <<"bmc", "apu">>, <<"apu">>, <<"vpu">>, <<>>, TRUE),
      MCTree({"nv", "arc", "dpu"}, <<"dpu", "nv", "arc">>, <<"nv", "arc">>, <<>>, <<"dpu">>, TRUE),
      MCTree({"nvh", "bmc", "m1", "m2"}, <<"bmc">>, <<>>, <<>>, <<"m1", "m2">>, FALSE),
      MCTree({"u1", "u2", "w1", "m1"}, <<"u1", "w1", "u2">>, <<"w1">>, <<>>, <<"m1">>, TRUE) }

(* A vendor driver owns the GPUs of the machine with the NVIDIA card.         *)
MCInit == Init /\ (vm <=> "nv" \in box) /\ budget = MaxDisturbances

(* A run ends when the claim's spec file is written: nothing here reads it    *)
(* again.  The machine with two AMD cards has a claim, for w1 or for both.    *)
Claimed == alloc' # {} => "w1" \in {p.card : p \in alloc'}

MCNext ==
    \/ Disturbance /\ spec = NoSpec /\ budget > 0 /\ budget' = budget - 1
    \/ Cycle /\ spec = NoSpec /\ UNCHANGED budget
    \/ Plugin /\ spec = NoSpec /\ box = {"w1", "w2"} /\ Claimed /\ UNCHANGED budget

MCSpec == MCInit /\ [][MCNext]_mcVars /\ Fairness
=============================================================================
