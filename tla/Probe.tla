-------------------------------- MODULE Probe --------------------------------
(***************************************************************************)
(* The device-tree walk (pkg/probe): what sysfs shows of the hardware, as  *)
(* devices with stable names.  Reading and parsing the files is left out;  *)
(* an entry is the card behind it and its device nodes.  A walk is a set:  *)
(* the code sorts it by kind and index, which every device carries.        *)
(*                                                                         *)
(* A tree is a record: drm, rnd, accel and ib are the class directories by *)
(* minor number (card, render and accel nodes, infiniband entries), faulty *)
(* the cards with uncorrectable memory errors or, for a NIC, a port that   *)
(* is down, verbs whether ib_uverbs is loaded.                             *)
(***************************************************************************)
EXTENDS Naturals, Sequences, FiniteSets

CONSTANTS
    Cards,      \* devices as the kernel knows them, one per class entry
    Facts,      \* card -> addr, vendor, model, driver, vram, uid
    NoCard,     \* a minor number not in use
    CPU,        \* the card behind the CPU fallback device
    NoAddr,     \* no PCI address in the device's path
    NoNode      \* no device node

ASSUME ProbeAssumption ==
    /\ IsFiniteSet(Cards) /\ CPU \in Cards /\ NoCard \notin Cards /\ Facts[CPU].addr = NoAddr
    /\ NoNode \notin {"card", "render", "accel", "uverbs"} \X (Nat \union Cards)

Device(kind, index, c, node, render, tree) ==
    [kind |-> kind, index |-> index, card |-> c, node |-> node, render |-> render,
     faulty |-> c \in tree.faulty]

driver(d) == Facts[d.card].driver

(* driverUnbound, uncorrectableEcc or portDown, noUverbsNode.              *)
Healthy(d) ==
    \/ d.kind = "cpu"
    \/ driver(d) # "" /\ ~d.faulty /\ (d.kind = "nic" => d.node # NoNode)

(* From the PCI address where there is one, else from the counter.         *)
Name_counter(d) == <<d.kind, "index", d.index>>

Name(d) ==
    IF Facts[d.card].addr # NoAddr THEN <<d.kind, "pci", Facts[d.card].addr>>
                                   ELSE <<d.kind, "index", d.index>>

(* The render minor of the same device directory.                          *)
renderNode(tree, c) ==
    IF \E m \in DOMAIN tree.rnd : tree.rnd[m] = c
    THEN <<"render", CHOOSE m \in DOMAIN tree.rnd : tree.rnd[m] = c>>
    ELSE NoNode

(* Entries are counted in directory order.                                 *)
entries(class) == {m \in DOMAIN class : class[m] # NoCard}

position(m, S) == Cardinality({k \in S : k < m})

walkClass(tree, class, kind) ==
    {Device(kind, position(m, entries(class)), class[m],
            IF kind = "gpu" THEN <<"card", m>> ELSE <<"accel", m>>,
            IF kind = "gpu" THEN renderNode(tree, class[m]) ELSE NoNode,
            tree) : m \in entries(class)}

(* One device per PCI function, or per device directory: the first entry.  *)
function(c) == IF Facts[c].addr # NoAddr THEN <<"pci", Facts[c].addr>> ELSE <<"dir", c>>

uverbsNode(tree, c) == IF tree.verbs THEN <<"uverbs", c>> ELSE NoNode

firstEntries(ib) ==
    {i \in entries(ib) : \A j \in entries(ib) : function(ib[j]) = function(ib[i]) => i \leq j}

walkInfiniband(tree) ==
    {Device("nic", position(i, firstEntries(tree.ib)), tree.ib[i],
            uverbsNode(tree, tree.ib[i]), NoNode, tree) : i \in firstEntries(tree.ib)}

(* A function of the infiniband class is a fabric endpoint, not compute.   *)
dropFabricFunctions_none(devices, nics) == devices

dropFabricFunctions(devices, nics) ==
    LET fabric == {Facts[n.card].addr : n \in nics} \ {NoAddr}
    IN  {d \in devices : Facts[d.card].addr \notin fabric}

cpuDevice(tree) == Device("cpu", 0, CPU, NoNode, NoNode, tree)

(* The nics were read earlier in the same walk.                            *)
Walk(tree, nics) ==
    {cpuDevice(tree)} \union nics
    \union dropFabricFunctions(walkClass(tree, tree.drm, "gpu")
                              \union walkClass(tree, tree.accel, "npu"), nics)
=============================================================================
