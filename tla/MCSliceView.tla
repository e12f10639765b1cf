----------------------------- MODULE MCSliceView ----------------------------
(* SliceView for TLC.  A gibibyte is 4 mebibytes of 2 bytes.  Node n1 has a   *)
(* pool of each driver, with devices of the same name; node n2's pool stays   *)
(* as it is.                                                                  *)
EXTENDS SliceView

Dev(name, kind, vm, mem, bw, compute, healthy) ==
    [name |-> name, kind |-> kind, vendorManaged |-> vm, mem |-> mem, bw |-> bw,
     compute |-> compute, healthy |-> healthy]

BigGPU == Dev("gpu0", "gpu", FALSE, 17, 3, 2, "true")
DemotedGPU == [BigGPU EXCEPT !.vendorManaged = TRUE]
SickGPU == [BigGPU EXCEPT !.healthy = "false"]
NoHealthGPU == Dev("gpu1", "gpu", FALSE, 16, 2, Absent, "absent")
CPU == Dev("cpu", "cpu", FALSE, 16, Absent, Absent, "true")
NPU == Dev("npu0", "npu", FALSE, 8, 1, 2, "true")
VendorNPU == [NPU EXCEPT !.vendorManaged = TRUE, !.mem = 15]
NIC == Dev("nic0", "nic", FALSE, Absent, Absent, Absent, "true")

LlmfitLayouts == {
    [s \in {"s1", "s2"} |-> IF s = "s1" THEN {BigGPU, CPU} ELSE {NPU}],
    [s \in {"s1"} |-> {BigGPU, NPU, NIC}],
    [s \in {"s1", "s2"} |-> IF s = "s1" THEN {NPU} ELSE {DemotedGPU, CPU}],
    [s \in {"s1", "s2"} |-> IF s = "s1" THEN {SickGPU} ELSE {NoHealthGPU, VendorNPU}],
    [s \in {"s2"} |-> {}] }

Nv(name, type, product, mem, sms) ==
    [name |-> name, type |-> type, product |-> product, mem |-> mem, sms |-> sms]

NvidiaLayouts == {
    [s \in {"s1", "s2"} |-> IF s = "s1" THEN {Nv("gpu0", "gpu", "A", 32, 4)}
                                        ELSE {Nv("gpu1", "gpu", "B", 15, Absent)}],
    [s \in {"s1"} |-> {Nv("mig0", "mig", "A", 8, 1), Nv("mig1", "mig", "A", 15, 2)}],
    [s \in {"s1", "s2"} |-> IF s = "s1" THEN {Nv("mig1", "mig", "A", 23, 3)}
                                        ELSE {Nv("gpu0", "gpu", "unknown", 32, 4),
                                              Nv("vfio0", "vfio", "A", 32, 4)}] }

n1Llmfit == [driver |-> LlmfitDriver, node |-> "n1"]
n1Nvidia == [driver |-> NvidiaDriver, node |-> "n1"]
n2Llmfit == [driver |-> LlmfitDriver, node |-> "n2"]

MCPools == {n1Llmfit, n1Nvidia, n2Llmfit}
MCLayouts == [p \in MCPools |-> CASE p = n1Llmfit -> LlmfitLayouts
                                  [] p = n1Nvidia -> NvidiaLayouts
                                  [] p = n2Llmfit -> {[s \in {"s1"} |-> {BigGPU, CPU}]}]

MCBoards == [p \in {"A", "B"} |->
    IF p = "A" THEN [mem |-> 16, bw |-> 8, slices |-> 4, sms |-> 4, compute |-> 2]
               ELSE [mem |-> 8, bw |-> 4, slices |-> 0, sms |-> 0, compute |-> 0]]

(* "fitness" is the companion class that admits demoted devices, "big" a    *)
(* class or an extra selector that wants memory, "partitions" selects MIG.  *)
MCSelectors ==
    LET ours == UNION {UNION {l[s] : s \in DOMAIN l} : l \in LlmfitLayouts}
        theirs == UNION {UNION {l[s] : s \in DOMAIN l} : l \in NvidiaLayouts}
    IN  [c \in {"fitness", "big", "partitions"} |->
            CASE c = "fitness"    -> {d \in ours : d.kind = "gpu"}
              [] c = "big"        -> {d \in ours : d.mem > 16} \union {d \in theirs : d.mem > 16}
              [] c = "partitions" -> {d \in theirs : d.type = "mig"}]

Ask(class, target, memoryGi, bw, compute) ==
    [class |-> class, target |-> target, extra |-> "",
     memoryGi |-> memoryGi, bw |-> bw, compute |-> compute]

With(ask, extra) == [ask EXCEPT !.extra = extra]

MCAsks == {
    Ask("llmfit.ai", "", 1, 1, 0), Ask("llmfit.ai", "", 2, 0, 1),
    Ask("gpu.llmfit.ai", "", 2, 2, 0), Ask("npu.llmfit.ai", "", 1, 1, 2),
    Ask("cpu.llmfit.ai", "", 2, 3, 0), Ask("cpu.llmfit.ai", "", 1, 3, 1),
    Ask("gpu.nvidia.com", "", 1, 4, 0), Ask("gpu.nvidia.com", "", 2, 8, 2),
    Ask("mig.nvidia.com", "", 1, 3, 0), Ask("mig.nvidia.com", "", 1, 4, 1),
    Ask("partitions", "gpu.nvidia.com", 1, 3, 0), Ask("llmfit.ai", "gpu.nvidia.com", 1, 5, 0),
    With(Ask("gpu.nvidia.com", "", 1, 4, 0), "big"),
    Ask("fitness", "", 1, 1, 0), Ask("nosuchclass", "", 1, 0, 0), Ask("nic.llmfit.ai", "", 1, 0, 0),
    With(Ask("llmfit.ai", "", 1, 1, 0), "big") }
=============================================================================
