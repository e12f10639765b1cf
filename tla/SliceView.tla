----------------------------- MODULE SliceView ------------------------------
(***************************************************************************)
(* The candidate count behind a ModelClaim's Satisfiable condition         *)
(* (internal/modelclaim/satisfiable*.go): EvaluateSlices and               *)
(* EvaluateNvidiaSlices over an informer's view of ResourceSlices while    *)
(* drivers replace their pools slice by slice, and over the allocations of *)
(* the cluster's ResourceClaims.                                           *)
(*                                                                         *)
(* A pool is published in one or more slices that carry its generation;    *)
(* the view receives each slice on its own, and may skip versions.  Both   *)
(* drivers name a node's pool after the node, so pools are told apart by   *)
(* driver and node.  Which device fits is module Fit's subject.            *)
(***************************************************************************)
EXTENDS Fit, FiniteSets, FiniteSetsExt

CONSTANTS
    Pools,      \* [driver |-> ..., node |-> ...]
    SliceNames, \* slices a pool may be split into
    Layouts,    \* pool -> the contents it may be published with
    Asks,       \* what the ModelClaims of the cluster ask for
    MaxGen,     \* bound on a pool's generation
    MaxHeld     \* bound on allocated devices

LlmfitDriver == "llmfit.ai"
NvidiaDriver == "gpu.nvidia.com"

ASSUME SliceViewAssumption ==
    /\ Pools \subseteq [driver : {LlmfitDriver, NvidiaDriver}, node : STRING]
    /\ IsFiniteSet(Pools) /\ IsFiniteSet(SliceNames)
    /\ Asks \subseteq AskType
    /\ MaxGen \in Nat \ {0} /\ MaxHeld \in Nat

(* A driver splits its devices over slices; in the API a device's name is  *)
(* its pool's alone.                                                       *)
ASSUME LayoutsAssumption ==
    \A p \in Pools : \A l \in Layouts[p] :
        /\ DOMAIN l \subseteq SliceNames
        /\ \A s \in DOMAIN l :
              /\ IsFiniteSet(l[s])
              /\ l[s] \subseteq IF p.driver = NvidiaDriver THEN NvidiaDevice ELSE LlmfitDevice
        /\ \A s, t \in DOMAIN l : \A d \in l[s], e \in l[t] :
              d.name = e.name => s = t /\ d = e

VARIABLES
    api,        \* pool -> generation and layout last published
    view,       \* pool -> slice -> generation and devices the informer holds
    held        \* allocated devices: driver, pool name, device name

vars == <<api, view, held>>

NoSlice == [gen |-> 0, devs |-> {}]

(* What the API holds of a slice once the pool's publication is complete.  *)
Published(p, s) ==
    IF s \in DOMAIN api[p].layout THEN [gen |-> api[p].gen, devs |-> api[p].layout[s]]
                                  ELSE NoSlice

PoolDevices(p) == UNION {api[p].layout[s] : s \in DOMAIN api[p].layout}

Init ==
    /\ api \in {a \in [Pools -> [gen : {1}, layout : UNION {Layouts[p] : p \in Pools}]] :
                    \A p \in Pools : a[p].layout \in Layouts[p]}
    /\ view = [p \in Pools |-> [s \in SliceNames |-> NoSlice]]
    /\ held = {}

-----------------------------------------------------------------------------
(* A driver replaces its pool under the next generation (external for      *)
(* gpu.nvidia.com, the resourceslice helper for ours).                     *)
Republish(p) ==
    /\ api[p].gen < MaxGen
    /\ \E l \in Layouts[p] \ {api[p].layout} :
          api' = [api EXCEPT ![p] = [gen |-> @.gen + 1, layout |-> l]]
    /\ UNCHANGED <<view, held>>

(* The informer receives one slice's latest state.                         *)
Deliver(p, s) ==
    /\ view[p][s] # Published(p, s)
    /\ view' = [view EXCEPT ![p][s] = Published(p, s)]
    /\ UNCHANGED <<api, held>>

Key(p, d) == [driver |-> p.driver, pool |-> p.node, device |-> d.name]

Allocate(p) ==
    /\ Cardinality(held) < MaxHeld
    /\ \E d \in PoolDevices(p) :
          /\ Key(p, d) \notin held
          /\ held' = held \union {Key(p, d)}
    /\ UNCHANGED <<api, view>>

Release ==
    /\ \E k \in held : held' = held \ {k}
    /\ UNCHANGED <<api, view>>

Next ==
    \/ \E p \in Pools : Republish(p) \/ Allocate(p)
    \/ \E p \in Pools, s \in SliceNames : Deliver(p, s)
    \/ Release

Spec == Init /\ [][Next]_vars

-----------------------------------------------------------------------------
(* The evaluation.                                                         *)

(* Devices of one driver that claims hold, by pool name and device name.   *)
AllocatedDevices(driver) ==
    {[pool |-> k.pool, device |-> k.device] : k \in {h \in held : h.driver = driver}}

SlicesOf(driver) ==
    {ps \in Pools \X SliceNames : ps[1].driver = driver /\ view[ps[1]][ps[2]] # NoSlice}

currentPoolGens_anyDriver(driver, name) ==
    Max({0} \union {view[ps[1]][ps[2]].gen :
           ps \in {x \in Pools \X SliceNames : x[1].node = name}})

currentPoolGens(driver, name) ==
    Max({0} \union {view[ps[1]][ps[2]].gen : ps \in {x \in SlicesOf(driver) : x[1].node = name}})

CurrentSlices_all(driver) == SlicesOf(driver)

CurrentSlices(driver) ==
    {ps \in SlicesOf(driver) : view[ps[1]][ps[2]].gen >= currentPoolGens(driver, ps[1].node)}

(* A device occurrence: two slices that list a device count it twice.      *)
Occurrences(driver) ==
    UNION {{[pool |-> ps[1].node, slice |-> ps[2], dev |-> d] : d \in view[ps[1]][ps[2]].devs}
              : ps \in CurrentSlices(driver)}

Candidates_allAvailable(driver, matching) ==
    [devices   |-> Cardinality(matching),
     nodes     |-> Cardinality({o.pool : o \in matching}),
     available |-> Cardinality({o \in Occurrences(driver) :
                      [pool |-> o.pool, device |-> o.dev.name] \notin AllocatedDevices(driver)})]

Candidates(driver, matching) ==
    [devices   |-> Cardinality(matching),
     nodes     |-> Cardinality({o.pool : o \in matching}),
     available |-> Cardinality({o \in matching :
                      [pool |-> o.pool, device |-> o.dev.name] \notin AllocatedDevices(driver)})]

EvaluateSlices(ask) ==
    Candidates(LlmfitDriver, {o \in Occurrences(LlmfitDriver) : Admits(ask, o.dev)})

EvaluateNvidiaSlices(ask) ==
    Candidates(NvidiaDriver, {o \in Occurrences(NvidiaDriver) : NvidiaAdmits(ask, o.dev)})

backendFor(ask) ==
    IF ask.target = NvidiaDriver \/ ask.class \in NvidiaClasses
    THEN NvidiaDriver ELSE LlmfitDriver

(* Bounds may ask for no memory (resolver.go:75) where every device of     *)
(* gpu.nvidia.com publishes its own.                                       *)
ASSUME AsksAssumption ==
    \A ask \in Asks :
        \/ ask.memoryGi > 0
        \/ \A p \in {q \in Pools : q.driver = NvidiaDriver} : \A l \in Layouts[p] :
              \A s \in DOMAIN l : \A d \in l[s] : d.mem # Absent

evaluateCandidates(ask) ==
    IF backendFor(ask) = NvidiaDriver THEN EvaluateNvidiaSlices(ask) ELSE EvaluateSlices(ask)

-----------------------------------------------------------------------------
(* Generations and slices are what the drivers published; the evaluation   *)
(* never counts more free devices than devices, or more nodes.             *)
TypeOK ==
    /\ \A p \in Pools : api[p].gen \in 1 .. MaxGen /\ api[p].layout \in Layouts[p]
    /\ \A p \in Pools, s \in SliceNames : view[p][s].gen \in 0 .. api[p].gen
    /\ Cardinality(held) <= MaxHeld
    /\ \A ask \in Asks : LET c == evaluateCandidates(ask)
                         IN  c.available <= c.devices /\ c.nodes <= c.devices

(* satisfiable.go:48-51: while a pool is being replaced, old and new       *)
(* slices are in the view together, and "counting both double-counts every *)
(* device".  No device is counted twice, in whatever mix of generations.   *)
NoDoubleCount ==
    \A driver \in {LlmfitDriver, NvidiaDriver} :
        \A o1, o2 \in Occurrences(driver) :
            o1.pool = o2.pool /\ o1.dev.name = o2.dev.name => o1 = o2

Settled == \A p \in Pools, s \in SliceNames : view[p][s] = Published(p, s)

(* The devices the scheduler would admit for the claim, and the free ones. *)
Eligible(ask, p) ==
    {d \in PoolDevices(p) :
        IF p.driver = NvidiaDriver THEN NvidiaSchedulable(ask, d) ELSE Schedulable(ask, d)}

BackendPools(ask) == {p \in Pools : p.driver = backendFor(ask)}

SchedulerCount(ask) ==
    LET all == UNION {{<<p, d>> : d \in Eligible(ask, p)} : p \in BackendPools(ask)}
    IN  [devices |-> Cardinality(all),
         nodes |-> Cardinality({pd[1] : pd \in all}),
         available |-> Cardinality({pd \in all : Key(pd[1], pd[2]) \notin held})]

(* The asks whose class the evaluation knows, with no selector added.      *)
Mirrored(ask) ==
    /\ ask.extra = ""
    /\ ask.class \in IF backendFor(ask) = NvidiaDriver THEN NvidiaClasses ELSE LlmfitClasses

(* Once the view has caught up, the advertised devices, nodes and free     *)
(* devices are exactly those the scheduler will find when it evaluates the *)
(* generated CEL under a DeviceClass the code knows: no driver's pool or   *)
(* allocation bleeds into the other's, no clause of one is missing in the  *)
(* other.  A user's own class or extraSelectors may leave fewer devices    *)
(* than are advertised, never more.                                        *)
CandidatesMatchScheduler ==
    Settled => \A ask \in Asks :
        LET c == evaluateCandidates(ask)
            s == SchedulerCount(ask)
        IN  /\ Mirrored(ask) => c = s
            /\ s.devices <= c.devices /\ s.nodes <= c.nodes /\ s.available <= c.available

PublishedBoards ==
    DOMAIN Boards \intersect
        {d.product : d \in UNION {PoolDevices(p) : p \in {q \in Pools : q.driver = NvidiaDriver}}}

(* nvidia.go:22-26: published MIG capacities run a little below the        *)
(* nominal slice size.  A partition of j slices that publishes less than   *)
(* half a slice below its nominal size passes the one memory threshold     *)
(* exactly when its j slices carry the bandwidth and it has the memory.    *)
MidpointsRobust ==
    \A ask \in Asks, b \in PublishedBoards :
        LET board == Boards[b] IN
        /\ ask.bw > 0 /\ migThresholdOK(board, ask)
        /\ board.slices * 2 <= board.mem
        => \A j \in 1 .. board.slices :
              \A mem \in midpoint(board, j) + 1 .. (j * board.mem) \div board.slices :
                 mem >= migThresholdMiB(board, ask)
                    <=> j * board.bw >= ask.bw * board.slices /\ mem >= nvidiaMemFloorMiB(ask)

(* satisfiable.go:65-66: kindForClass "mirrors the shipped DeviceClass     *)
(* selectors: the kind classes pin device kind".  The same agreement, for  *)
(* the shipped class nic.llmfit.ai.                                        *)
NicClassMirrored ==
    Settled => \A ask \in Asks :
        LET nic == [ask EXCEPT !.class = "nic.llmfit.ai", !.target = "", !.extra = ""]
        IN  evaluateCandidates(nic) = SchedulerCount(nic)
=============================================================================
