------------------------------ MODULE FitProofs ------------------------------
(***************************************************************************)
(* The static satisfiability mirror admits every device that the scheduler *)
(* may allocate to a claim, whatever its class and extraSelectors, and     *)
(* under a class the code knows it admits no other, for every device,      *)
(* bounds and board table; and the one memory threshold of a board tells   *)
(* its partitions apart by their bandwidth.                                *)
(***************************************************************************)
EXTENDS Fit, TLAPS

(* EvaluateSlices counts every device of ours that DeviceClass, FitCEL and *)
(* extraSelectors together select, whatever class the claim names: it      *)
(* never reports a claim short of a device it has.  Of a claim on the base *)
(* class or one of the classes gpu, npu and cpu, with no extraSelectors,   *)
(* it counts no other: a class of the user's, nic.llmfit.ai and extra      *)
(* selectors may select fewer.                                             *)
THEOREM EvaluateMirrorsScheduler ==
    ASSUME NEW ask \in AskType, NEW d \in LlmfitDevice
    PROVE  /\ Schedulable(ask, d) => Admits(ask, d)
           /\ ask.class \in LlmfitClasses /\ ask.extra = ""
                 => (Admits(ask, d) <=> Schedulable(ask, d))
<1>1. /\ ask.compute \in Nat
      /\ d.compute \in Nat \union {Absent}
  BY DEF AskType, LlmfitDevice
<1>2. (ask.compute = 0 \/ Compute(d) >= ask.compute)
         <=> (ask.compute > 0 => d.compute # Absent /\ d.compute >= ask.compute)
  BY <1>1 DEF Compute, Absent
<1>3. /\ ask.class = "llmfit.ai" => kindForClass(ask.class) = ""
      /\ ask.class = "gpu.llmfit.ai" => kindForClass(ask.class) = "gpu"
      /\ ask.class = "cpu.llmfit.ai" => kindForClass(ask.class) = "cpu"
      /\ ask.class = "npu.llmfit.ai" => kindForClass(ask.class) = "npu"
      /\ ask.class \notin LlmfitClasses => kindForClass(ask.class) = ""
  BY DEF kindForClass, LlmfitClasses
<1>4. d.kind # ""
  BY DEF LlmfitDevice
<1>5. ask.class \in LlmfitClasses =>
         ((OfKind(ask, d) /\ ~Excluded(ask, d) /\ d.healthy = "true")
             <=> (ClassSelects(ask.class, d) /\ d.healthy = "true"))
  BY <1>3, <1>4 DEF OfKind, Excluded, ClassSelects, LlmfitClasses
<1>6. ask.class \notin LlmfitClasses => OfKind(ask, d) /\ ~Excluded(ask, d)
  BY <1>3 DEF OfKind, Excluded, LlmfitClasses
<1>7. ask.extra = "" => ExtraSelects(ask, d)
  BY DEF ExtraSelects
<1> QED  BY <1>2, <1>5, <1>6, <1>7 DEF Admits, Schedulable, FitCEL

(* Whole mebibytes reach a threshold exactly when the bytes do.            *)
LEMMA WholeMebibytes ==
    ASSUME NEW m \in Nat, NEW t \in Nat
    PROVE  (m \div MiB) >= t <=> m >= t * MiB
<1> DEFINE q == m \div MiB
<1>0. MiB \in Nat /\ MiB > 0  BY UnitsAssumption
<1>1. q \in Nat /\ m = MiB * q + (m % MiB) /\ m % MiB \in 0 .. MiB - 1
  BY <1>0
<1>2. ASSUME q >= t PROVE m >= t * MiB
  <2>1. MiB * q >= MiB * t  BY <1>0, <1>1, <1>2
  <2> QED  BY <2>1, <1>0, <1>1
<1>3. ASSUME ~(q >= t) PROVE ~(m >= t * MiB)
  <2>1. q + 1 <= t  BY <1>1, <1>3
  <2>2. MiB * (q + 1) <= MiB * t  BY <2>1, <1>0, <1>1
  <2>3. MiB * (q + 1) = MiB * q + MiB  BY <1>0, <1>1
  <2> QED  BY <2>2, <2>3, <1>0, <1>1
<1> QED  BY <1>2, <1>3

(* ... also when an absent capacity reads as none, for a positive floor.   *)
LEMMA MemoryMirrored ==
    ASSUME NEW d \in NvidiaDevice, NEW t \in Nat, t > 0 \/ d.mem # Absent
    PROVE  memMiB(d) >= t <=> d.mem # Absent /\ d.mem >= t * MiB
<1>1. CASE d.mem = Absent
  BY <1>1 DEF memMiB
<1>2. CASE d.mem # Absent
  <2>1. d.mem \in Nat  BY <1>2 DEF NvidiaDevice
  <2> QED  BY <1>2, <2>1, WholeMebibytes DEF memMiB
<1> QED  BY <1>1, <1>2

LEMMA CeilDivInt ==
    ASSUME NEW a \in Nat, NEW b \in Nat, b > 0
    PROVE  CeilDiv(a, b) \in Int
BY DEF CeilDiv

(* A claim's memory floor is positive when it asks for memory.             *)
LEMMA FloorPositive ==
    ASSUME NEW ask \in AskType
    PROVE  /\ nvidiaMemFloorMiB(ask) \in Nat
           /\ ask.memoryGi > 0 => nvidiaMemFloorMiB(ask) > 0
BY UnitsAssumption DEF nvidiaMemFloorMiB, AskType

(* The capacity threshold of a MIG-capable board is at least the memory    *)
(* floor.                                                                  *)
LEMMA ThresholdPositive ==
    ASSUME NEW ask \in AskType, NEW board \in BoardType, board.slices > 0, board.bw > 0
    PROVE  /\ migThresholdMiB(board, ask) \in Nat
           /\ ask.memoryGi > 0 => migThresholdMiB(board, ask) > 0
<1>1. /\ nvidiaMemFloorMiB(ask) \in Nat
      /\ ask.memoryGi > 0 => nvidiaMemFloorMiB(ask) > 0
  BY FloorPositive
<1>2. /\ board.mem \in Nat /\ board.slices \in Nat /\ board.bw \in Nat /\ ask.bw \in Nat
  BY DEF BoardType, AskType
<1>3. minSlices(board, ask) \in Int
  <2>1. ask.bw * board.slices \in Nat  BY <1>2
  <2> QED  BY <2>1, <1>2, CeilDivInt DEF minSlices
<1>4. midpoint(board, minSlices(board, ask)) \in Int
  <2>1. (2 * minSlices(board, ask) - 1) * board.mem \in Int  BY <1>2, <1>3
  <2>2. 2 * board.slices \in Nat /\ 2 * board.slices > 0  BY <1>2
  <2> QED  BY <2>1, <2>2 DEF midpoint
<1> QED  BY <1>1, <1>4 DEF migThresholdMiB

(* EvaluateNvidiaSlices counts a gpu.nvidia.com device exactly when the    *)
(* compiled CEL selects it, for any board table, if the claim asks for     *)
(* memory or the device publishes its own (resolver.go:75 lets bounds      *)
(* without memory pass, and an absent capacity reads as 0 in the mirror).  *)
THEOREM NvidiaMirrorsCEL ==
    ASSUME NEW ask \in AskType, NEW d \in NvidiaDevice, ask.memoryGi > 0 \/ d.mem # Absent
    PROVE  NvidiaAdmits(ask, d) <=> NvidiaFitCEL(ask, d)
<1> DEFINE board == Boards[d.product]
           smsOK == migMinSMs(board, ask) > 0 => d.sms # Absent /\ d.sms >= migMinSMs(board, ask)
<1>1. CASE d.product \notin DOMAIN Boards
  <2>1. d.product \notin migFeasible(ask)  BY <1>1 DEF migFeasible
  <2>2. ~ \E g \in migGroups(ask) : d.product \in g.products
    BY <2>1 DEF migGroups
  <2> QED  BY <1>1, <2>2 DEF NvidiaAdmits, NvidiaFitCEL
<1>2. CASE d.product \in DOMAIN Boards
  <2>1. board \in BoardType /\ d.product # ""  BY <1>2, BoardsAssumption
  <2>2. /\ nvidiaMemFloorMiB(ask) \in Nat
        /\ nvidiaMemFloorMiB(ask) > 0 \/ d.mem # Absent
    BY FloorPositive
  <2>3. memMiB(d) >= nvidiaMemFloorMiB(ask)
           <=> d.mem # Absent /\ d.mem >= nvidiaMemFloorMiB(ask) * MiB
    BY <2>2, MemoryMirrored
  <2>4. CASE d.type = "gpu"
    BY <1>2, <2>1, <2>3, <2>4 DEF NvidiaAdmits, NvidiaFitCEL
  <2>5. CASE d.type = "mig"
    <3>1. ASSUME migThresholdOK(board, ask)
          PROVE  memMiB(d) >= migThresholdMiB(board, ask)
                    <=> d.mem # Absent /\ d.mem >= migThresholdMiB(board, ask) * MiB
      <4>1. board.slices > 0 /\ board.bw > 0  BY <3>1 DEF migThresholdOK
      <4> QED  BY <4>1, <2>1, ThresholdPositive, MemoryMirrored
    <3>2. ASSUME migMinSMsOK(board, ask)
          PROVE  (migMinSMs(board, ask) > 0 => SMs(d) >= migMinSMs(board, ask)) <=> smsOK
      <4>1. migMinSMs(board, ask) \in Int
        <5>1. ask.compute \in Nat /\ board.sms \in Nat /\ board.compute \in Nat
          BY <2>1 DEF AskType, BoardType
        <5>2. CASE ask.compute = 0  BY <5>2 DEF migMinSMs
        <5>3. CASE ask.compute # 0
          <6>1. ask.compute * board.sms \in Nat /\ board.compute > 0
            BY <5>1, <5>3, <3>2 DEF migMinSMsOK
          <6> QED  BY <6>1, <5>1, <5>3, CeilDivInt DEF migMinSMs
        <5> QED  BY <5>2, <5>3
      <4>2. d.sms \in Nat \union {Absent}  BY DEF NvidiaDevice
      <4> QED  BY <4>1, <4>2 DEF SMs, Absent
    <3>3. (\E g \in migGroups(ask) :
              /\ d.product \in g.products
              /\ d.mem >= g.key.thresholdMiB * MiB
              /\ g.key.minSMs > 0 => d.sms # Absent /\ d.sms >= g.key.minSMs)
            <=> /\ migThresholdOK(board, ask) /\ migMinSMsOK(board, ask)
                /\ d.mem >= migThresholdMiB(board, ask) * MiB
                /\ smsOK
      <4> DEFINE Pass(k) == /\ d.mem >= k.thresholdMiB * MiB
                            /\ k.minSMs > 0 => d.sms # Absent /\ d.sms >= k.minSMs
                 Group(p) == [key |-> migKey(ask, p),
                              products |-> {q \in migFeasible(ask) : migKey(ask, q) = migKey(ask, p)}]
      <4>1. d.product \in migFeasible(ask)
               <=> migThresholdOK(board, ask) /\ migMinSMsOK(board, ask)
        BY <1>2 DEF migFeasible
      <4>2. Pass(migKey(ask, d.product))
               <=> d.mem >= migThresholdMiB(board, ask) * MiB /\ smsOK
        BY DEF migKey
      <4>3. ASSUME NEW g \in migGroups(ask), d.product \in g.products
            PROVE  d.product \in migFeasible(ask) /\ g.key = migKey(ask, d.product)
        BY <4>3 DEF migGroups
      <4>4. ASSUME d.product \in migFeasible(ask)
            PROVE  /\ Group(d.product) \in migGroups(ask)
                   /\ d.product \in Group(d.product).products
                   /\ Group(d.product).key = migKey(ask, d.product)
        BY <4>4 DEF migGroups
      <4>5. (\E g \in migGroups(ask) : d.product \in g.products /\ Pass(g.key))
               <=> d.product \in migFeasible(ask) /\ Pass(migKey(ask, d.product))
        <5> HIDE DEF Pass, Group
        <5> QED  BY <4>3, <4>4
      <4> QED  BY <4>1, <4>2, <4>5
    <3> QED  BY <1>2, <2>1, <2>5, <3>1, <3>2, <3>3 DEF NvidiaAdmits, NvidiaFitCEL
  <2>6. CASE d.type \notin {"gpu", "mig"}
    BY <2>6 DEF NvidiaAdmits, NvidiaFitCEL
  <2> QED  BY <2>4, <2>5, <2>6
<1> QED  BY <1>1, <1>2

(* So it counts every device of gpu.nvidia.com that DeviceClass, CEL and   *)
(* extraSelectors together select, and under the two classes of NVIDIA's   *)
(* chart, with no extraSelectors, no other.                                *)
THEOREM EvaluateNvidiaMirrorsScheduler ==
    ASSUME NEW ask \in AskType, NEW d \in NvidiaDevice, ask.memoryGi > 0 \/ d.mem # Absent
    PROVE  /\ NvidiaSchedulable(ask, d) => NvidiaAdmits(ask, d)
           /\ ask.class \in NvidiaClasses /\ ask.extra = ""
                 => (NvidiaAdmits(ask, d) <=> NvidiaSchedulable(ask, d))
<1>1. NvidiaAdmits(ask, d) <=> NvidiaFitCEL(ask, d)
  BY NvidiaMirrorsCEL
<1>2. NvidiaAdmits(ask, d) =>
         \/ d.type = "mig" /\ ask.class # "gpu.nvidia.com"
         \/ d.type = "gpu" /\ ask.class # "mig.nvidia.com"
  BY Zenon DEF NvidiaAdmits, wantMIG, wantGPU
<1>3. ASSUME ask.class \in NvidiaClasses, NvidiaAdmits(ask, d)
      PROVE  NvidiaClassSelects(ask.class, d)
  <2>1. CASE ask.class = "gpu.nvidia.com"
    <3>1. d.type = "gpu"
      BY <1>2, <1>3, <2>1
    <3> QED
      BY <2>1, <3>1 DEF NvidiaClassSelects
  <2>2. CASE ask.class = "mig.nvidia.com"
    <3>1. d.type = "mig"
      BY <1>2, <1>3, <2>2
    <3> QED
      BY <2>2, <3>1 DEF NvidiaClassSelects
  <2> QED
    BY <1>3, <2>1, <2>2 DEF NvidiaClasses
<1>4. ask.extra = "" => ExtraSelects(ask, d)
  BY DEF ExtraSelects
<1> QED  BY <1>1, <1>3, <1>4, Zenon DEF NvidiaSchedulable

-----------------------------------------------------------------------------
(* Division by a positive number.                                          *)
LEMMA DivReaches ==
    ASSUME NEW a \in Int, NEW b \in Nat, b > 0, NEW c \in Int
    PROVE  a \div b \in Int /\ (a \div b >= c <=> a >= b * c)
<1> DEFINE q == a \div b
<1>1. q \in Int /\ a = b * q + (a % b) /\ a % b \in 0 .. b - 1
  OBVIOUS
<1> HIDE DEF q
<1>2. ASSUME q >= c PROVE a >= b * c
  <2>1. b * q >= b * c  BY <1>1, <1>2
  <2> QED  BY <2>1, <1>1
<1>3. ASSUME ~(q >= c) PROVE ~(a >= b * c)
  <2>1. q + 1 <= c  BY <1>1, <1>3
  <2>2. b * (q + 1) <= b * c  BY <2>1, <1>1
  <2>3. b * (q + 1) = b * q + b  BY <1>1
  <2> QED  BY <2>2, <2>3, <1>1
<1> QED  BY <1>1, <1>2, <1>3 DEF q

LEMMA CeilReaches ==
    ASSUME NEW a \in Nat, NEW b \in Nat, b > 0, NEW c \in Int
    PROVE  CeilDiv(a, b) \in Int /\ (CeilDiv(a, b) <= c <=> a <= b * c)
<1>1. CeilDiv(a, b) = (a + b - 1) \div b
  BY DEF CeilDiv
<1>2. (a + b - 1) \div b \in Int /\ ((a + b - 1) \div b >= c + 1 <=> a + b - 1 >= b * (c + 1))
  BY DivReaches
<1>3. b * (c + 1) = b * c + b
  OBVIOUS
<1>4. b * c \in Int
  OBVIOUS
<1> QED
  BY <1>1, <1>2, <1>3, <1>4

(* A partition of j slices that publishes less than half a slice below its *)
(* nominal size passes the board's threshold exactly when j slices carry   *)
(* the bandwidth and it has the memory, on any board whose slices have two *)
(* mebibytes.                                                              *)
LEMMA MidpointSeparates ==
    ASSUME NEW board \in BoardType, NEW ask \in AskType,
           ask.bw > 0, migThresholdOK(board, ask), board.slices * 2 <= board.mem,
           NEW j \in 1 .. board.slices,
           NEW mem \in midpoint(board, j) + 1 .. (j * board.mem) \div board.slices
    PROVE  mem >= migThresholdMiB(board, ask)
              <=> j * board.bw >= ask.bw * board.slices /\ mem >= nvidiaMemFloorMiB(ask)
<1> DEFINE n == board.slices
           M == board.mem
           k == minSlices(board, ask)
           floor == nvidiaMemFloorMiB(ask)
<1>1. /\ n \in Nat /\ n > 0 /\ M \in Nat /\ board.bw \in Nat /\ board.bw > 0
      /\ ask.bw \in Nat /\ j \in Nat /\ 2 * n <= M /\ floor \in Nat
  BY FloorPositive DEF BoardType, AskType, migThresholdOK
<1>2. k \in Int /\ (k <= j <=> ask.bw * n <= board.bw * j)
  <2> DEFINE a == ask.bw * n
  <2>1. a \in Nat
    BY <1>1
  <2>2. k = CeilDiv(a, board.bw)
    BY DEF minSlices
  <2> HIDE DEF a, k
  <2>3. CeilDiv(a, board.bw) \in Int /\ (CeilDiv(a, board.bw) <= j <=> a <= board.bw * j)
    <3>1. \A b \in Nat, c \in Int :
             b > 0 => CeilDiv(a, b) \in Int /\ (CeilDiv(a, b) <= c <=> a <= b * c)
      BY <2>1, CeilReaches
    <3>2. board.bw \in Nat /\ board.bw > 0 /\ j \in Int
      BY <1>1
    <3> QED
      BY <3>1, <3>2
  <2> QED
    BY <2>2, <2>3 DEF a
<1>3. \A i, c \in Int : midpoint(board, i) \in Int
                       /\ (midpoint(board, i) >= c <=> (2 * i - 1) * M >= (2 * n) * c)
  <2> SUFFICES ASSUME NEW i \in Int, NEW c \in Int
               PROVE  midpoint(board, i) \in Int
                      /\ (midpoint(board, i) >= c <=> (2 * i - 1) * M >= (2 * n) * c)
    OBVIOUS
  <2>1. (2 * i - 1) * M \in Int /\ 2 * n \in Nat /\ 2 * n > 0
    BY <1>1
  <2> HIDE DEF n, M
  <2>2. midpoint(board, i) = ((2 * i - 1) * M) \div (2 * n)
    BY DEF midpoint, n, M
  <2> QED
    BY <2>1, <2>2, DivReaches
<1>4. mem \in Int /\ mem >= midpoint(board, j) + 1 /\ j * M >= n * mem
  <2>1. mem \in midpoint(board, j) + 1 .. (j * M) \div n
    OBVIOUS
  <2>2. j * M \in Int
    BY <1>1
  <2>3. midpoint(board, j) \in Int
    BY <1>1, <1>3
  <2> HIDE DEF n, M
  <2>4. (j * M) \div n \in Int
    BY <1>1, <2>2, DivReaches
  <2>5. mem \in Int /\ mem >= midpoint(board, j) + 1 /\ (j * M) \div n >= mem
    BY <2>1, <2>3, <2>4
  <2> QED
    BY <1>1, <2>2, <2>5, DivReaches
<1>5. mem >= midpoint(board, k) <=> k <= j
  <2>1. ASSUME k <= j PROVE mem >= midpoint(board, k)
    <3>1. midpoint(board, k) \in Int /\ (2 * k - 1) * M >= (2 * n) * midpoint(board, k)
      <4> HIDE DEF k, M, n
      <4>1. midpoint(board, k) \in Int
        BY <1>2, <1>3
      <4> QED
        BY <1>2, <1>3, <4>1
    <3>2. (2 * j - 1) * M >= (2 * k - 1) * M
      <4>1. 2 * j - 1 >= 2 * k - 1  BY <1>1, <1>2, <2>1
      <4> HIDE DEF k, M
      <4> QED  BY <1>1, <1>2, <4>1
    <3>3. (2 * j - 1) * M \in Int /\ (2 * k - 1) * M \in Int
          /\ (2 * n) * midpoint(board, k) \in Int
      BY <1>1, <1>2, <3>1
    <3>4. midpoint(board, j) >= midpoint(board, k)
      <4>1. (2 * j - 1) * M >= (2 * n) * midpoint(board, k)
        <5> HIDE DEF k, M, n
        <5> QED  BY <3>1, <3>2, <3>3
      <4> HIDE DEF k, M, n
      <4>2. j \in Int /\ midpoint(board, k) \in Int
        BY <1>1, <3>1
      <4> QED
        BY <1>3, <4>1, <4>2
    <3> QED
      BY <1>1, <1>3, <1>4, <3>1, <3>4
  <2>2. ASSUME ~(k <= j) PROVE ~(mem >= midpoint(board, k))
    <3>1. (2 * k - 1) * M >= (2 * n) * (mem + 1)
      <4> HIDE DEF k, M, n
      <4>1. k >= j + 1
        BY <1>1, <1>2, <2>2
      <4>2. (2 * k - 1) * M >= (2 * j + 1) * M
        BY <1>1, <1>2, <4>1
      <4>3. (2 * j + 1) * M = 2 * (j * M) + M
        BY <1>1
      <4>4. (2 * n) * (mem + 1) = 2 * (n * mem) + 2 * n
        BY <1>1, <1>4
      <4>5. /\ j * M \in Int /\ n * mem \in Int
            /\ (2 * k - 1) * M \in Int /\ (2 * j + 1) * M \in Int
        BY <1>1, <1>2, <1>4
      <4> QED
        BY <1>1, <1>4, <4>2, <4>3, <4>4, <4>5
    <3>2. midpoint(board, k) \in Int /\ midpoint(board, k) >= mem + 1
      <4> HIDE DEF k
      <4>1. mem + 1 \in Int
        BY <1>4
      <4> QED
        BY <1>2, <1>3, <3>1, <4>1
    <3> QED
      BY <1>4, <3>2
  <2> QED
    BY <2>1, <2>2
<1>6. migThresholdMiB(board, ask) = IF midpoint(board, k) > floor THEN midpoint(board, k) ELSE floor
  BY DEF migThresholdMiB
<1>7. midpoint(board, k) \in Int
  BY <1>2, <1>3
<1>8. j * board.bw = board.bw * j
  BY <1>1
<1> HIDE DEF k, floor
<1>9. mem >= migThresholdMiB(board, ask) <=> mem >= midpoint(board, k) /\ mem >= floor
  BY <1>1, <1>4, <1>6, <1>7
<1> QED
  BY <1>1, <1>2, <1>5, <1>8, <1>9 DEF floor
=============================================================================
