-------------------------------- MODULE Agent --------------------------------
(***************************************************************************)
(* One node agent with its data: the cycle of desiredState (walk, memory   *)
(* read, llmfit, BuildDevices) over hardware that comes, goes and fails,   *)
(* an llmfit that is down, blind to a card or old, and the kubelet plugin  *)
(* looking up the devices of one claim while cycles replace the inventory. *)
(*                                                                         *)
(* ProbeLoop has the loop's own control (what wakes it, what ends it, the  *)
(* coexistence check); here a cycle starts at any time, a cycle is an      *)
(* interval, and what BuildDevices returns is published at once.           *)
(***************************************************************************)
EXTENDS Publisher, ClaimEdits

CONSTANTS
    Trees,              \* device trees the node may start with
    ApiOmitsBandwidth,  \* an llmfit before 1.1.3 serves the API
    NoSpec              \* the claim's spec file is not written

Class == Seq(Cards \union {NoCard})

Tree == [pci : SUBSET Cards, faulty : SUBSET Cards, verbs : BOOLEAN,
         drm : Class, rnd : Class, accel : Class, ib : Class]

(* A class directory lists the plugged cards that show its face, each once.*)
Lists(class, face, pci) ==
    /\ {class[m] : m \in entries(class)} = {c \in pci : face \in Facts[c].faces}
    /\ \A m, n \in entries(class) : class[m] = class[n] => m = n

Shown(tree) ==
    /\ Lists(tree.drm, "drm", tree.pci) /\ Lists(tree.rnd, "rnd", tree.pci)
    /\ Lists(tree.accel, "accel", tree.pci) /\ Lists(tree.ib, "ib", tree.pci)

ASSUME TreesAssumption == Trees \subseteq Tree /\ \A t \in Trees : Shown(t)

(* The driver and the infiniband class belong to the PCI function: what    *)
(* shares one agrees on them.                                              *)
ASSUME FunctionsAssumption ==
    \A c, e \in Cards : Facts[c].addr = Facts[e].addr /\ Facts[c].addr # NoAddr
                       => /\ "ib" \in Facts[c].faces <=> "ib" \in Facts[e].faces
                          /\ Facts[c].driver = Facts[e].driver

(* llmfit's GPU names, and whether it knows a bandwidth for them.          *)
ASSUME NamesAssumption ==
    /\ \A c \in Cards : Facts[c].gpu => Facts[c].model \in Models
    /\ \A m \in Models : Price[m].bw \in BOOLEAN

(* What sysfs, llmfit and the index say of a card's memory is no more than *)
(* the card has; shared memory is the system's.                            *)
ASSUME SourcesAssumption ==
    /\ RAM \leq Facts[CPU].mem
    /\ \A c \in Cards :
          LET f == Facts[c] IN
          /\ f.vram \leq f.mem
          /\ f.gpu => Price[f.model].mem \in 0 .. f.mem
          /\ \/ f.gpu /\ Price[f.model].unified = "yes"
             \/ f.model \in DOMAIN Index /\ Index[f.model].unified = "yes"
             => RAM \leq f.mem

(* The drivers that the plugin can prepare give a card a render node.      *)
ASSUME DriversAssumption ==
    \A c \in Cards : /\ Facts[c].driver \in preparableGPUDrivers
                     /\ "drm" \in Facts[c].faces
                     => "rnd" \in Facts[c].faces

VARIABLES
    box,        \* cards of this node, plugged in or not
    tree,       \* what sysfs shows
    hidden,     \* GPUs llmfit does not see
    api, exec,  \* transport is up
    step,       \* where desiredState is
    started,    \* start-up is over and the plugin serves
    nics,       \* this walk's infiniband devices
    inv,        \* the inventory: the last walk
    vm,         \* opts.VendorManagedGPUs
    slices,     \* the published devices
    alloc,      \* published devices the claim was given: name and card
    todo,       \* their names prepareClaim has yet to look up
    cdi,        \* CDI devices it has built
    spec,       \* the claim's spec file
    paired,     \* inv is the walk slices were built from (history)
    sameWalk,   \* the tree has not changed since the last walk began (history)
    sameCards,  \* nor the GPUs since the last reading (history)
    sound,      \* slices come from such a walk and reading (history)
    oneInv      \* prepareClaim has seen one inventory (history)

envVars == <<box, tree, hidden, api, exec>>
cycleVars == <<step, started, nics, inv, vm, slices, paired, sameWalk, sameCards, sound>>
claimVars == <<alloc, todo, cdi, spec, oneInv>>
vars == <<envVars, cycleVars, detectorVars, claimVars>>

Init ==
    /\ tree \in Trees /\ box = tree.pci /\ hidden = {} /\ api = FALSE /\ exec = TRUE
    /\ step = "down" /\ started = FALSE /\ nics = {} /\ inv = {} /\ vm \in BOOLEAN /\ slices = {}
    /\ InitDetector
    /\ alloc = {} /\ todo = {} /\ cdi = {} /\ spec = NoSpec
    /\ paired = FALSE /\ sameWalk = TRUE /\ sameCards = TRUE /\ sound = FALSE
    /\ oneInv = TRUE

-----------------------------------------------------------------------------
(* desiredState.                                                           *)

Boot ==
    /\ step = "down"
    /\ step' = "ib"
    /\ UNCHANGED <<envVars, started, nics, inv, vm, slices, paired, sameWalk, sameCards, sound, detectorVars, claimVars>>

Wake ==
    /\ step = "select"
    /\ step' = "ib"
    /\ IntervalPasses /\ UNCHANGED last
    /\ UNCHANGED <<envVars, started, nics, inv, vm, slices, paired, sameWalk, sameCards, sound, claimVars>>

WalkFabric ==
    /\ step = "ib"
    /\ nics' = walkInfiniband(tree)
    /\ step' = "walk" /\ sameWalk' = TRUE
    /\ UNCHANGED <<envVars, started, inv, vm, slices, paired, sameCards, sound,
                   detectorVars, claimVars>>

(* The rest of the walk, and inv.Set.                                      *)
WalkRest ==
    /\ step = "walk"
    /\ inv' = Walk(tree, nics)
    /\ nics' = {}
    /\ step' = "ram"
    /\ paired' = FALSE
    /\ oneInv' = (oneInv /\ cdi = {})
    /\ UNCHANGED <<envVars, started, vm, slices, sameWalk, sameCards, sound, detectorVars,
                   alloc, todo, cdi, spec>>

(* The walk or the memory read that follows it fails: the loop waits (at   *)
(* start-up it ends the process, see Dies).                                *)
CycleFails ==
    /\ step \in {"ib", "walk", "ram"} /\ started
    /\ step' = "select"
    /\ nics' = {} /\ sameWalk' = FALSE
    /\ UNCHANGED <<envVars, started, inv, vm, slices, paired, sameCards, sound,
                   detectorVars, claimVars>>

(* llmfit groups the GPUs it sees by name (external).                      *)
Reading(complete) ==
    LET seen == {c \in tree.pci \ hidden : Facts[c].gpu}
        group(m) == {c \in seen : Facts[c].model = m}
    IN  [m \in {Facts[c].model : c \in seen} |->
            [count |-> IF Cardinality(group(m)) = 1 THEN 0 ELSE Cardinality(group(m)),
             bw |-> complete /\ Price[m].bw]]

(* BuildDevices and controller.Update.                                     *)
Publish_neverStarts(sys) ==
    /\ slices' = BuildDevices(inv, sys, vm)
    /\ step' = "select" /\ paired' = TRUE
    /\ UNCHANGED <<envVars, started, nics, inv, vm, sameWalk, claimVars>>

Publish(sys) ==
    /\ slices' = BuildDevices(inv, sys, vm)
    /\ step' = "select" /\ started' = TRUE /\ paired' = TRUE
    /\ UNCHANGED <<envVars, nics, inv, vm, sameWalk, claimVars>>

DetectAndPublish ==
    LET sys == Fresh(Reading(~(api /\ ApiOmitsBandwidth)))
    IN  /\ step = "ram" /\ (api \/ exec)
        /\ last' = sys /\ age' = 0
        /\ sameCards' = TRUE /\ sound' = sameWalk
        /\ Publish(sys)

DetectFails ==
    /\ step = "ram" /\ ~api /\ ~exec
    /\ Publish(Cached)
    /\ sound' = (sameWalk /\ sameCards)
    /\ UNCHANGED <<sameCards, detectorVars>>

-----------------------------------------------------------------------------
(* prepareClaim, for one claim of up to two devices that have nodes.  The  *)
(* slices stay as they are between cycles: it is allocated there.          *)

selected == {p \in slices : selectable(p)}

Allocated(S) ==
    /\ alloc = {} /\ step = "select"
    /\ alloc' = {[name |-> p.name, card |-> p.card] : p \in S}
    /\ todo' = {p.name : p \in S}
    /\ UNCHANGED <<envVars, cycleVars, detectorVars, cdi, spec, oneInv>>

Lookup(n) ==
    /\ n \in todo /\ n \in names(inv) /\ started
    /\ cdi' = withEdits(cdi, n, lookup(inv, n))
    /\ todo' = todo \ {n}
    /\ UNCHANGED <<envVars, cycleVars, detectorVars, alloc, spec, oneInv>>

(* The call fails, or dies with the agent; the kubelet calls again.        *)
Again == /\ todo' = {p.name : p \in alloc}
         /\ cdi' = {} /\ oneInv' = TRUE

DeviceMissing(n) ==
    /\ n \in todo /\ n \notin names(inv) /\ started
    /\ cdi # {} /\ Again
    /\ UNCHANGED <<envVars, cycleVars, detectorVars, alloc, spec>>

WriteSpec ==
    /\ alloc # {} /\ todo = {} /\ spec = NoSpec /\ started
    /\ spec' = [devices |-> cdi, visible |-> addROCmVisibility(inv, cdi)]
    /\ UNCHANGED <<envVars, cycleVars, detectorVars, alloc, todo, cdi, oneInv>>

-----------------------------------------------------------------------------
(* The hardware, llmfit and the agent's end.                               *)

Free(class) == {m \in DOMAIN class : class[m] = NoCard}

(* The kernel gives a new device the lowest free minor of each class.      *)
Add(class, c, face) ==
    CASE face \notin Facts[c].faces -> class
      [] face \in Facts[c].faces /\ Free(class) # {} -> [class EXCEPT ![Min(Free(class))] = c]
      [] OTHER -> Append(class, c)

Del(class, c) == [m \in DOMAIN class |-> IF class[m] = c THEN NoCard ELSE class[m]]

TreeChanges ==
    /\ sameWalk' = FALSE
    /\ UNCHANGED <<box, hidden, api, exec, step, started, nics, inv, vm, slices, paired, sound,
                   detectorVars, claimVars>>

Unplug(c) ==
    /\ c \in tree.pci \ {CPU}
    /\ tree' = [tree EXCEPT !.pci = @ \ {c}, !.drm = Del(@, c), !.rnd = Del(@, c),
                            !.accel = Del(@, c), !.ib = Del(@, c),
                            !.faulty = @ \ {c}]
    /\ sameCards' = FALSE
    /\ TreeChanges

Plug(c) ==
    /\ c \in box \ tree.pci
    /\ tree' = [tree EXCEPT !.pci = @ \union {c}, !.drm = Add(@, c, "drm"),
                            !.rnd = Add(@, c, "rnd"), !.accel = Add(@, c, "accel"), !.ib = Add(@, c, "ib")]
    /\ sameCards' = FALSE
    /\ TreeChanges

(* Memory errors; a port that goes down.                                   *)
Fails(c) ==
    /\ c \in tree.pci \ tree.faulty
    /\ tree' = [tree EXCEPT !.faulty = @ \union {c}]
    /\ UNCHANGED sameCards
    /\ TreeChanges

(* A vendor tool of llmfit's loses sight of a card, or finds it again.     *)
LlmfitView(c) ==
    /\ Facts[c].gpu
    /\ hidden' = IF c \in hidden THEN hidden \ {c} ELSE hidden \union {c}
    /\ UNCHANGED <<box, tree, api, exec, cycleVars, detectorVars, claimVars>>

Transport ==
    /\ \/ api' = ~api /\ exec' = exec
       \/ exec' = ~exec /\ api' = api
    /\ UNCHANGED <<box, tree, hidden, cycleVars, detectorVars, claimVars>>

Dies ==
    /\ step # "down"
    /\ step' = "down" /\ started' = FALSE /\ nics' = {} /\ inv' = {} /\ paired' = FALSE
    /\ last' = NoSystem /\ age' = 0
    /\ IF spec = NoSpec THEN Again ELSE UNCHANGED <<todo, cdi, oneInv>>
    /\ UNCHANGED <<envVars, vm, slices, sameWalk, sameCards, sound, alloc, spec>>

-----------------------------------------------------------------------------
Cycle ==
    \/ Boot \/ Wake \/ WalkFabric \/ WalkRest
    \/ DetectAndPublish \/ DetectFails

Plugin ==
    \/ \E p, q \in {p \in selected : p.kind # "cpu"} : Allocated({p, q})
    \/ \E n \in todo : Lookup(n) \/ DeviceMissing(n)
    \/ WriteSpec

Disturbance ==
    \/ \E c \in box : Unplug(c) \/ Plug(c) \/ Fails(c) \/ LlmfitView(c)
    \/ Transport \/ CycleFails \/ Dies

Next == Cycle \/ Plugin \/ Disturbance

Spec == Init /\ [][Next]_vars

(* The agent is restarted and its loop runs.  A step of Cycle is possible  *)
(* in every state, so weak fairness of it is that it happens again and     *)
(* again.                                                                  *)
Fairness == []<><<Cycle>>_vars
-----------------------------------------------------------------------------
(* Types; a cycle in work, an inventory and a reading belong to a process  *)
(* that runs.                                                              *)
TypeOK ==
    /\ box \subseteq Cards /\ tree.pci \subseteq box /\ hidden \subseteq box
    /\ api \in BOOLEAN /\ exec \in BOOLEAN
    /\ step \in {"down", "ib", "walk", "ram", "select"}
    /\ \A d \in inv \union nics : d.card \in Cards
    /\ DetectorTypeOK
    /\ todo \subseteq {p.name : p \in alloc} /\ {e.name : e \in cdi} \subseteq {p.name : p \in alloc}
    /\ step = "down" => ~started /\ inv = {} /\ last = NoSystem
    /\ step = "select" => started

(* publisher.go:78-81, probe.go:289-293: the resourceslice library rejects *)
(* a pool with two devices of one name.  Names are unique whatever entries *)
(* share a PCI function, and a finished cycle publishes exactly the names  *)
(* the plugin can look up.                                                 *)
PoolAccepted ==
    /\ \A p, q \in slices : p.name = q.name => p = q
    /\ paired => {p.name : p \in slices} = names(inv)

(* probe.go:28-34: a function of the infiniband class is "never compute",  *)
(* also for a card that shows both faces, once a walk has seen both.       *)
FabricIsNotCompute ==
    sound => \A p \in slices, c \in box :
                 /\ "ib" \in Facts[c].faces /\ Facts[c].addr # NoAddr
                 /\ Facts[p.card].addr = Facts[c].addr
                 => p.kind = "nic"

(* publisher.go:233-237: no card is given memory it does not have, in      *)
(* particular not the system's on a discrete card nobody could measure.    *)
CapacityIsReal ==
    sound => \A p \in slices : p.mem \leq Facts[p.card].mem

(* publisher.go:278-287 and 311-315: llmfit's numbers go to the cards they *)
(* are about, however many of a vendor's cards llmfit fails to see, once   *)
(* walk and reading are of the same hardware.                              *)
NumbersAreOwn ==
    sound => \A p \in slices : p.model = Facts[p.card].model

(* publisher.go:221-223: "a default-class claim must never allocate a      *)
(* device we can't make usable": what the classes select has, in the       *)
(* inventory of the same cycle, the nodes its kind needs; and although a   *)
(* node several devices share is injected once (plugin.go:144-167), each   *)
(* device of a claim prepared from one inventory brings nodes of its own.  *)
SelectableIsUsable ==
    /\ paired => \A p \in selected :
          LET d == lookup(inv, p.name)
          IN  CASE p.kind = "gpu" -> d.render # NoNode /\ {d.render, d.node} \subseteq editsFor(d)
                [] p.kind = "nic" -> d.node # NoNode /\ {d.node, rdma_cm} \subseteq editsFor(d)
                [] p.kind = "npu" -> editsFor(d) # {}
                [] OTHER -> TRUE
    /\ spec # NoSpec /\ oneInv =>
          \A e \in spec.devices : e.nodes \ {kfd, rdma_cm} # {}

(* probe.go:120-125: a name identifies the same silicon across hot-remove  *)
(* and renumbering.  The devices of a prepared claim are the functions the *)
(* scheduler chose, however many walks came between; without a PCI address *)
(* they only have the name.                                                *)
NameIsSilicon ==
    spec # NoSpec =>
        \A e \in spec.devices : \E p \in alloc :
            /\ p.name = e.name
            /\ Facts[e.card].addr # NoAddr => function(p.card) = function(e.card)

(* plugin.go:191-196: a container that reaches /dev/kfd on a node with     *)
(* other AMD GPUs is confined to its own, unless one of them has no ID.    *)
ROCmIsConfined ==
    [][spec = NoSpec /\ spec' # NoSpec /\ oneInv =>
          LET mine == {e.card : e \in {e \in spec'.devices : Facts[e.card].driver = "amdgpu"}}
              others == {d \in inv : driver(d) = "amdgpu" /\ Name(d) \notin {e.name : e \in spec'.devices}}
          IN  mine # {} /\ others # {} /\ (\A c \in mine : Facts[c].uid) => spec'.visible = mine]_vars

(* detector.go:14-19 and 91-99: neither a transient llmfit failure nor a   *)
(* change of transport flaps what is published of a GPU.  It goes from     *)
(* llmfit to another source only with a change of the node's GPUs, a new   *)
(* reading, a restarted agent, or after more than MaxStale intervals       *)
(* without a reading; and it keeps its bandwidth from one reading to the   *)
(* next, also when the second transport does not report it.                *)
gpuNames == {p.name : p \in {p \in slices : p.kind = "gpu"}}

FactsDoNotFlap ==
    [][\A p \in slices, q \in slices' :
          p.name = q.name /\ p.kind = "gpu" /\ p.source = "llmfit" =>
          /\ q.source # "llmfit" =>
                gpuNames' # gpuNames \/ last' # last \/ age > MaxStale \/ last = NoSystem
          /\ q.source = "llmfit" /\ q.model = p.model /\ p.bw => q.bw \/ last = NoSystem]_vars

(* detector.go:17-19: slices do degrade once llmfit stays away.            *)
OutageEndsInIndex ==
    <>[](~api /\ ~exec) => <>[](\A p \in slices : p.source # "llmfit")
=============================================================================
