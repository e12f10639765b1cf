--------------------------- MODULE ProbeLoopProofs ---------------------------
(***************************************************************************)
(* The probe loop's type invariant, for every set of devices and every     *)
(* staleness limit: in particular an agent that has started, and is        *)
(* therefore ready, has given the slice helper a pool to publish.          *)
(***************************************************************************)
EXTENDS ProbeLoop, TLAPS

(* The kubelet plugin starts only behind a first cycle that reached the    *)
(* publisher (main.go: probeAndPublish before nodeplugin.Start), so there  *)
(* is a pool before readiness is announced.                                *)
PoolBeforePlugin == step = "plugin" => desired \in Pools

IndInv == TypeOK /\ PoolBeforePlugin

LEMMA InitEstablishes == Init => IndInv
<1> SUFFICES ASSUME Init PROVE IndInv
  OBVIOUS
<1> USE DEF Init
<1>1. hw \subseteq Devices /\ inv \subseteq Devices
  OBVIOUS
<1>2. vendor \in BOOLEAN /\ broken \in BOOLEAN /\ vm \in BOOLEAN /\ sync \in BOOLEAN
  OBVIOUS
<1>3. hung \in BOOLEAN /\ started \in BOOLEAN /\ ~started
  OBVIOUS
<1>4. age \in 0 .. MaxStale + 1
  BY ProbeLoopAssumption
<1>5. slices \in Pools \union {NoSlices} /\ desired \in Pools \union {NoSlices}
  OBVIOUS
<1>6. step = "down"
  OBVIOUS
<1> HIDE DEF Init
<1> QED
  BY <1>1, <1>2, <1>3, <1>4, <1>5, <1>6 DEF IndInv, TypeOK, PoolBeforePlugin

(* Another interval without a beat stays within the age's range.           *)
LEMMA OlderInRange == TypeOK => older \in 0 .. MaxStale + 1
  BY ProbeLoopAssumption DEF TypeOK, older

(* What the cycle builds from the inventory is a pool.                     *)
LEMMA BuiltIsPool == TypeOK => BuildResources \in Pools
  BY DEF TypeOK, BuildResources, Pools

(* A booting process knows nothing of an earlier one.                      *)
LEMMA BootKeeps == IndInv /\ Boot => IndInv'
<1> SUFFICES ASSUME IndInv, Boot PROVE IndInv'
  OBVIOUS
<1>1. hw' \subseteq Devices /\ inv' \subseteq Devices
  BY DEF IndInv, TypeOK, Boot, envVars
<1>2. vendor' \in BOOLEAN /\ broken' \in BOOLEAN /\ vm' \in BOOLEAN /\ sync' \in BOOLEAN
  BY DEF IndInv, TypeOK, Boot, envVars
<1>3. hung' \in BOOLEAN /\ started' \in BOOLEAN /\ ~started'
  BY DEF Boot
<1>4. age' \in 0 .. MaxStale + 1
  BY ProbeLoopAssumption DEF Boot
<1>5. slices' \in Pools \union {NoSlices} /\ desired' \in Pools \union {NoSlices}
  BY DEF IndInv, TypeOK, Boot, envVars
<1>6. step' = "refresh"
  BY DEF Boot
<1> QED
  BY <1>1, <1>2, <1>3, <1>4, <1>5, <1>6 DEF IndInv, TypeOK, PoolBeforePlugin, Pools

(* The steps of run(), each with what it does to the pool behind start-up. *)
LEMMA CycleKeeps == IndInv /\ Cycle => IndInv'
<1> SUFFICES ASSUME IndInv, Cycle PROVE IndInv'
  OBVIOUS
<1> USE ProbeLoopAssumption DEF IndInv, TypeOK, PoolBeforePlugin, envVars, procVars
<1>1. CASE Boot
  BY <1>1, BootKeeps
<1>2. CASE TickerWake
  BY <1>2, OlderInRange DEF TickerWake
<1>3. CASE RefreshOpts
  BY <1>3 DEF RefreshOpts
<1>4. CASE Walk
  BY <1>4 DEF Walk
<1>5. CASE WalkFails
  BY <1>5 DEF WalkFails, CycleFails
<1>6. CASE ReadRAM
  BY <1>6 DEF ReadRAM
<1>7. CASE Publish
  BY <1>7, BuiltIsPool DEF Publish
<1>8. CASE PluginStarts
  BY <1>8 DEF PluginStarts
<1> QED
  BY <1>1, <1>2, <1>3, <1>4, <1>5, <1>6, <1>7, <1>8 DEF Cycle

(* The uevent arm, the slice helper, time and the liveness probe.          *)
LEMMA SystemKeeps == IndInv /\ System => IndInv'
<1> SUFFICES ASSUME IndInv, System PROVE IndInv'
  OBVIOUS
<1>1. CASE Cycle
  BY <1>1, CycleKeeps
<1> USE ProbeLoopAssumption DEF IndInv, TypeOK, PoolBeforePlugin, envVars, procVars
<1>2. CASE UeventWake
  BY <1>2 DEF UeventWake
<1>3. CASE HelperSync
  BY <1>3 DEF HelperSync
<1>4. CASE Interval
  BY <1>4, OlderInRange DEF Interval
<1>5. CASE LivenessRestart
  BY <1>5 DEF LivenessRestart
<1> QED
  BY <1>1, <1>2, <1>3, <1>4, <1>5 DEF System

(* What happens to the agent from outside, and its failing calls.          *)
LEMMA DisturbanceKeeps == IndInv /\ Disturbance => IndInv'
<1> SUFFICES ASSUME IndInv, Disturbance PROVE IndInv'
  OBVIOUS
<1> USE ProbeLoopAssumption DEF IndInv, TypeOK, PoolBeforePlugin, envVars, procVars
<1>1. CASE RefreshOptsFails
  BY <1>1 DEF RefreshOptsFails
<1>2. CASE ReadRAMFails
  BY <1>2 DEF ReadRAMFails, CycleFails
<1>3. CASE HardwareChanges
  BY <1>3 DEF HardwareChanges
<1>4. CASE VendorDriverChanges
  BY <1>4 DEF VendorDriverChanges
<1>5. CASE SysfsBreaksOrRecovers
  BY <1>5 DEF SysfsBreaksOrRecovers
<1>6. CASE SlicesDeleted
  BY <1>6 DEF SlicesDeleted
<1>7. CASE Hangs
  BY <1>7 DEF Hangs
<1>8. CASE Dies
  BY <1>8 DEF Dies
<1> QED
  BY <1>1, <1>2, <1>3, <1>4, <1>5, <1>6, <1>7, <1>8 DEF Disturbance

LEMMA StutterKeeps == IndInv /\ UNCHANGED vars => IndInv'
  BY DEF IndInv, TypeOK, PoolBeforePlugin, vars, envVars, procVars

THEOREM Invariance == Spec => []IndInv
<1>1. IndInv /\ [Next]_vars => IndInv'
  BY SystemKeeps, DisturbanceKeeps, StutterKeeps DEF Next
<1> QED
  BY <1>1, InitEstablishes, PTL DEF Spec

(* Types, and: a started agent has a desired pool (main.go: the readiness  *)
(* gate opens only after the first publish).                               *)
THEOREM TypeCorrect == Spec => []TypeOK
<1>1. IndInv => TypeOK
  BY DEF IndInv
<1> QED
  BY <1>1, Invariance, PTL
=============================================================================
