------------------------------ MODULE Publisher ------------------------------
(***************************************************************************)
(* BuildDevices (internal/publisher): the devices of a walk joined with    *)
(* what llmfit, the embedded index and the probe know of their capability. *)
(* Models are PCI IDs for the index and names for llmfit; a card's numbers *)
(* are its model's.  Attributes no rule depends on are left out.           *)
(***************************************************************************)
EXTENDS Probe, Detector, FiniteSetsExt

CONSTANTS
    Price,      \* model -> llmfit's vendor, unified, mem (0: none), for its name
    Index,      \* models the embedded index knows -> unified, bw
    RAM,        \* system memory
    NoModel     \* no llmfit entry

(* vendorName has a name for every PCI vendor.                             *)
ASSUME PublisherAssumption ==
    /\ \A c \in Cards : Facts[c].vendor # "" /\ Facts[c].vram \in Nat /\ Facts[c].mem \in Nat
    /\ RAM \in Nat

gpus(devices) == {d \in devices : d.kind = "gpu"}

sameVendor(devices, v) == {d \in gpus(devices) : Facts[d.card].vendor = v}

(* llmfit names no PCI address: an entry is paired by vendor, and only     *)
(* where that can mean one model.                                          *)
covered(n) == IF n = 0 THEN 1 ELSE n

matchLLMFitGPU_anyCount(sys, d, devices) ==
    LET same == {m \in DOMAIN sys : Price[m].vendor = Facts[d.card].vendor}
    IN  IF sys # NoSystem /\ d.kind = "gpu" /\ Cardinality(same) = 1
        THEN CHOOSE m \in same : TRUE ELSE NoModel

matchLLMFitGPU(sys, d, devices) ==
    LET vendor == Facts[d.card].vendor
        same == {m \in DOMAIN sys : Price[m].vendor = vendor}
        only(S) == CHOOSE m \in S : TRUE
    IN  CASE sys = NoSystem \/ d.kind # "gpu" -> NoModel
          [] sys # NoSystem /\ d.kind = "gpu" /\ Cardinality(same) = 1 ->
                IF Cardinality(sameVendor(devices, vendor)) > covered(sys[only(same)].count)
                THEN NoModel ELSE only(same)
          [] OTHER ->
                IF /\ same = {} /\ Cardinality(DOMAIN sys) = 1 /\ Cardinality(gpus(devices)) = 1
                   /\ Price[only(DOMAIN sys)].vendor = ""
                THEN only(DOMAIN sys) ELSE NoModel

(* GPUs the kubelet plugin cannot make usable are fitness-only.            *)
preparableGPUDrivers == {"amdgpu", "xe", "i915"}

vendorManaged_optionOnly(d, vm) == d.kind = "gpu" /\ vm

vendorManaged(d, vm) == d.kind = "gpu" /\ (vm \/ driver(d) \notin preparableGPUDrivers)

(* Whether the memory is the system's pool, where a source knows.          *)
unified_unlessVRAM(d, lf) == IF Facts[d.card].vram > 0 THEN "no" ELSE "yes"

unified(d, lf) ==
    CASE lf # NoModel -> Price[lf].unified
      [] lf = NoModel /\ Facts[d.card].model \in DOMAIN Index -> Index[Facts[d.card].model].unified
      [] OTHER -> IF Facts[d.card].vram > 0 THEN "no" ELSE "unknown"

(* Capacity is published only when it is known.                            *)
capacity(d, lf) ==
    CASE d.kind = "cpu" -> RAM
      [] d.kind = "nic" -> 0
      [] OTHER ->
            IF lf # NoModel /\ Price[lf].mem > 0 THEN Price[lf].mem
            ELSE IF unified(d, lf) = "yes" THEN Max({Facts[d.card].vram, RAM})
            ELSE Facts[d.card].vram

(* Capability: llmfit, else the index, else the probe.                     *)
Published(d, devices, sys, vm) ==
    LET lf == matchLLMFitGPU(sys, d, devices)
        model == Facts[d.card].model
        compute == d.kind \in {"gpu", "npu"}
        indexed == compute /\ model \in DOMAIN Index
    IN  [name |-> Name(d), card |-> d.card, kind |-> d.kind,
         healthy |-> Healthy(d),
         source |-> IF lf # NoModel \/ (d.kind = "cpu" /\ sys # NoSystem) THEN "llmfit"
                    ELSE IF indexed THEN "index" ELSE "probe",
         model |-> IF lf # NoModel THEN lf ELSE model,
         mem |-> capacity(d, lf),
         bw |-> (lf # NoModel /\ sys[lf].bw) \/ (indexed /\ Index[model].bw),
         vendorManaged |-> vendorManaged(d, vm)]

(* One device per name: the first.  A name implies the kind.               *)
BuildDevices_keepsAll(devices, sys, vm) == {Published(d, devices, sys, vm) : d \in devices}

BuildDevices(devices, sys, vm) ==
    LET firsts == {d \in devices : \A e \in devices : Name(e) = Name(d) => d.index \leq e.index}
    IN  {Published(d, devices, sys, vm) : d \in firsts}

(* The shipped device classes (deploy/deviceclass.yaml).                   *)
selectable(p) == p.healthy /\ ~p.vendorManaged
=============================================================================
