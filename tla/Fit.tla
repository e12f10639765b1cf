-------------------------------- MODULE Fit ---------------------------------
(***************************************************************************)
(* What fits: the device inequality of a ModelClaim, three times over.     *)
(*   - the CEL the controller puts in the ResourceClaimTemplate (FitCEL,   *)
(*     NvidiaFitCEL), evaluated by the scheduler next to the claim's       *)
(*     extraSelectors and the selector of its DeviceClass: one shipped in  *)
(*     deploy/deviceclass.yaml, one of NVIDIA's chart, or the user's own;  *)
(*   - the static mirror behind the Satisfiable condition (EvaluateSlices, *)
(*     EvaluateNvidiaSlices), one device at a time;                        *)
(*   - the physics it stands for, where the code derives one from another. *)
(*                                                                         *)
(* A CEL expression is the predicate it denotes.  An attribute or capacity *)
(* that is not published is Absent.  Memory is in bytes, a mebibyte is MiB *)
(* bytes and a gibibyte MiPerGi mebibytes, so that small instances have    *)
(* capacities off the boundaries.                                          *)
(***************************************************************************)
EXTENDS Integers

CONSTANTS
    MiB, MiPerGi,
    Boards,     \* the NVIDIA board table: product name -> board
    Selectors   \* CEL of the users: a class of theirs, or a claim's
                \* extraSelectors together -> the devices it selects

Absent == -1

BoardType == [mem : Nat, bw : Nat, slices : Nat, sms : Nat, compute : Nat]

ASSUME UnitsAssumption == MiB \in Nat \ {0} /\ MiPerGi \in Nat \ {0}

ASSUME BoardsAssumption ==
    "" \notin DOMAIN Boards /\ \A p \in DOMAIN Boards : Boards[p] \in BoardType

(* What a claim asks: its class, its targetDriver and its extraSelectors   *)
(* ("" when unset), the resolved bounds, its compute floor (0 when unset,  *)
(* at least 1 when set).                                                   *)
AskType ==
    [class : STRING, target : STRING, extra : STRING,
     memoryGi : Nat, bw : Nat, compute : Nat]

(* What the two drivers publish of a device.                               *)
LlmfitDevice ==
    [name : STRING, kind : {"gpu", "cpu", "npu", "nic"}, vendorManaged : BOOLEAN,
     mem : Nat \union {Absent}, bw : Nat \union {Absent}, compute : Nat \union {Absent},
     healthy : {"true", "false", "absent"}]

NvidiaDevice ==
    [name : STRING, type : STRING, product : STRING,
     mem : Nat \union {Absent}, sms : Nat \union {Absent}]

-----------------------------------------------------------------------------
(* A class that does not exist selects no device.                          *)
Selects(name, d) == name \in DOMAIN Selectors /\ d \in Selectors[name]

(* Whatever a claim adds is ANDed with the rest, and no mirror knows it.   *)
ExtraSelects(ask, d) == ask.extra # "" => Selects(ask.extra, d)

-----------------------------------------------------------------------------
(* llmfit.ai devices.                                                      *)

(* The shipped classes that EvaluateSlices knows.                          *)
LlmfitClasses == {"llmfit.ai", "gpu.llmfit.ai", "npu.llmfit.ai", "cpu.llmfit.ai"}

(* The selectors of the shipped DeviceClasses.  Reading an absent healthy  *)
(* is an error, and an error does not match.                               *)
ClassSelects(class, d) ==
    CASE class = "llmfit.ai"     -> ~d.vendorManaged /\ d.healthy = "true"
      [] class = "gpu.llmfit.ai" -> d.kind = "gpu" /\ ~d.vendorManaged /\ d.healthy = "true"
      [] class = "npu.llmfit.ai" -> d.kind = "npu" /\ d.healthy = "true"
      [] class = "cpu.llmfit.ai" -> d.kind = "cpu"
      [] class = "nic.llmfit.ai" -> d.kind = "nic" /\ d.healthy = "true"
      [] OTHER                   -> Selects(class, d)

memFloor(ask) == ask.memoryGi * MiPerGi * MiB

FitCEL(ask, d) ==
    /\ d.mem # Absent /\ d.mem >= memFloor(ask)
    /\ ask.class # "cpu.llmfit.ai" => d.bw # Absent /\ d.bw >= ask.bw
    /\ d.healthy = "true"
    /\ ask.compute > 0 => d.compute # Absent /\ d.compute >= ask.compute

Schedulable(ask, d) ==
    ClassSelects(ask.class, d) /\ FitCEL(ask, d) /\ ExtraSelects(ask, d)

(* The static mirror.                                                      *)
kindForClass(class) ==
    CASE class = "gpu.llmfit.ai" -> "gpu"
      [] class = "cpu.llmfit.ai" -> "cpu"
      [] class = "npu.llmfit.ai" -> "npu"
      [] OTHER -> ""

OfKind(ask, d) == kindForClass(ask.class) \in {"", d.kind}

Excluded(ask, d) ==
    OfKind(ask, d) /\ ask.class \in {"llmfit.ai", "gpu.llmfit.ai"} /\ d.vendorManaged

Compute(d) == IF d.compute = Absent THEN 0 ELSE d.compute

Admits(ask, d) ==
    /\ OfKind(ask, d) /\ ~Excluded(ask, d)
    /\ d.mem # Absent /\ d.mem >= memFloor(ask)
    /\ ask.class = "cpu.llmfit.ai" \/ (d.bw # Absent /\ d.bw >= ask.bw)
    /\ ask.compute = 0 \/ Compute(d) >= ask.compute
    /\ d.healthy = "true"

-----------------------------------------------------------------------------
(* gpu.nvidia.com devices.                                                 *)

wantMIG(class) == class # "gpu.nvidia.com"
wantGPU(class) == class # "mig.nvidia.com"

nvidiaMemFloorMiB(ask) == ask.memoryGi * MiPerGi

CeilDiv(a, b) == (a + b - 1) \div b

(* Fewest memory slices whose share of the board's bandwidth is enough.    *)
minSlices(board, ask) == CeilDiv(ask.bw * board.slices, board.bw)

(* Half-way between k - 1 and k slices of the board's memory.              *)
midpoint(board, k) == ((2 * k - 1) * board.mem) \div (2 * board.slices)

migThresholdMiB_boundary(board, ask) ==
    LET byBandwidth == (minSlices(board, ask) * board.mem) \div board.slices
    IN  IF ask.bw > 0 /\ byBandwidth > nvidiaMemFloorMiB(ask)
        THEN byBandwidth ELSE nvidiaMemFloorMiB(ask)

migThresholdMiB(board, ask) ==
    LET byBandwidth == midpoint(board, minSlices(board, ask))
    IN  IF ask.bw > 0 /\ byBandwidth > nvidiaMemFloorMiB(ask)
        THEN byBandwidth ELSE nvidiaMemFloorMiB(ask)

migThresholdOK(board, ask) ==
    /\ board.slices > 0 /\ board.bw > 0
    /\ ask.bw > 0 => minSlices(board, ask) <= board.slices
    /\ migThresholdMiB(board, ask) <= board.mem

migMinSMs(board, ask) ==
    IF ask.compute = 0 THEN 0 ELSE CeilDiv(ask.compute * board.sms, board.compute)

migMinSMsOK(board, ask) ==
    ask.compute > 0 => /\ board.compute > 0 /\ board.sms > 0
                       /\ migMinSMs(board, ask) <= board.sms

gpuAdmits(board, ask) ==
    /\ board.bw >= ask.bw /\ board.mem >= nvidiaMemFloorMiB(ask)
    /\ ask.compute > 0 => board.compute >= ask.compute

(* The MIG clauses, one per threshold pair; the products that share it.    *)
migFeasible(ask) ==
    {p \in DOMAIN Boards : migThresholdOK(Boards[p], ask) /\ migMinSMsOK(Boards[p], ask)}

migKey(ask, p) ==
    [thresholdMiB |-> migThresholdMiB(Boards[p], ask), minSMs |-> migMinSMs(Boards[p], ask)]

migGroups(ask) ==
    {[key |-> migKey(ask, p), products |-> {q \in migFeasible(ask) : migKey(ask, q) = migKey(ask, p)}]
        : p \in migFeasible(ask)}

NvidiaFitCEL(ask, d) ==
    /\ d.type # "" /\ d.product # "" /\ d.mem # Absent
    /\ \/ /\ wantMIG(ask.class) /\ d.type = "mig"
          /\ \E g \in migGroups(ask) :
                /\ d.product \in g.products
                /\ d.mem >= g.key.thresholdMiB * MiB
                /\ g.key.minSMs > 0 => d.sms # Absent /\ d.sms >= g.key.minSMs
       \/ /\ wantGPU(ask.class) /\ d.type = "gpu"
          /\ d.product \in {p \in DOMAIN Boards : gpuAdmits(Boards[p], ask)}
          /\ d.mem >= nvidiaMemFloorMiB(ask) * MiB

NvidiaClasses == {"gpu.nvidia.com", "mig.nvidia.com"}

(* The classes of NVIDIA's chart pin the type; those shipped here select   *)
(* devices of llmfit.ai only.                                              *)
NvidiaClassSelects(class, d) ==
    \/ class = "gpu.nvidia.com" /\ d.type = "gpu"
    \/ class = "mig.nvidia.com" /\ d.type = "mig"
    \/ /\ class \notin NvidiaClasses \union LlmfitClasses \union {"nic.llmfit.ai"}
       /\ Selects(class, d)

NvidiaSchedulable(ask, d) ==
    NvidiaClassSelects(ask.class, d) /\ NvidiaFitCEL(ask, d) /\ ExtraSelects(ask, d)

(* The static mirror: type filter, board lookup, thresholds.               *)
memMiB(d) == IF d.mem = Absent THEN 0 ELSE d.mem \div MiB
SMs(d) == IF d.sms = Absent THEN 0 ELSE d.sms

NvidiaAdmits(ask, d) ==
    /\ \/ d.type = "mig" /\ wantMIG(ask.class)
       \/ d.type = "gpu" /\ wantGPU(ask.class)
    /\ d.product \in DOMAIN Boards
    /\ LET board == Boards[d.product]
       IN  IF d.type = "mig"
           THEN /\ migThresholdOK(board, ask) /\ migMinSMsOK(board, ask)
                /\ memMiB(d) >= migThresholdMiB(board, ask)
                /\ migMinSMs(board, ask) > 0 => SMs(d) >= migMinSMs(board, ask)
           ELSE gpuAdmits(board, ask) /\ memMiB(d) >= nvidiaMemFloorMiB(ask)
=============================================================================
