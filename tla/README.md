# A TLA+ model of llmfit-dra

llmfit-dra is a Kubernetes DRA driver that publishes what a node's accelerators
can do and turns "run this model" into a scheduling constraint. Two programs come
from one binary:

- the **node agent** (DaemonSet) walks sysfs, publishes the devices as
  ResourceSlices, and serves the kubelet's Prepare/Unprepare calls by writing CDI
  spec files;
- the **controller** (Deployment, `--mode=controller`) resolves every ModelClaim
  to physical bounds, keeps a same-named ResourceClaimTemplate whose CEL admits
  exactly the devices that fit, and reports in the status how many there are.

They share no memory and never call each other: the agent writes slices, the
controller reads them, the scheduler allocates, the kubelet calls the agent.

## Inventory

| Component (source) | State | Operations | Interacts through | Hard behaviour | What makes it correct |
|---|---|---|---|---|---|
| uevent listener (`internal/hotplug`) | socket, raw channel (16), signal channel (1), three goroutines | read, classify error, send, debounce, signal, close | channels to the probe loop | storms, overrun, death mid-burst, shutdown | no change without a later walk; channels closed in order |
| probe loop (`cmd/llmfit-dra/main.go`, `publisher/coexist.go`, heartbeat of `internal/observe`) | desired slices, inventory, demotion flag, heartbeat | start-up, wake, coexistence check, walk, publish, beat | slice helper, plugin's inventory, liveness probe | failing steps, hangs, restarts, deleted slices | published pool equals hardware; stalls end in a restart |
| kubelet plugin (`internal/nodeplugin`) | one CDI file per claim | prepare, unprepare, start-up sweep | kubelet gRPC, API list, inventory | crash, power loss, late calls, retries, lost checkpoint | prepared => file; no torn files; sweep spares the living, removes the dead |
| ModelClaim controller (`internal/modelclaim/controller.go`) | informer stores, workqueue, resolve cache | reconcile, resolve, template create/update/recreate, status write, shutdown | API server, llmfit binary | stale caches, two workers, conflicts, applied-but-failed writes, SIGTERM, crash | nothing left to do => template and status are current |
| fit rule (`template.go`, `nvidia.go`, `satisfiable*.go`, `deviceclass.yaml`) | none | CEL for the scheduler, static mirror for the status | both read the same attributes | three copies of one inequality, integer thresholds, absent attributes | the copies agree on every device, for the classes the code knows |
| satisfiability (`satisfiable*.go`) | informer stores | count candidates | slices and claims | pools replaced slice by slice | no double count; agrees with the scheduler for the classes the code knows, never counts fewer for others |
| events (`events.go`, `controller.event`) | last text per object and reason | emit, suppress | API server | suppression across flips, memory at its limit, restarts | retries are silent, no verdict goes unannounced |
| prober (`pkg/probe`) | none; a walk reads sysfs | walk, name, health | inventory, publisher | a tree that changes between two reads, renumbering, one function with several entries | a name is one piece of silicon; fabric is not compute |
| llmfit source (`internal/llmfit`) | last reading and its age | Detect, backfill | HTTP, exec | outages, transports that differ | facts neither flap nor outlive their source |
| publisher (`publisher.go`) | none | BuildDevices, matchLLMFitGPU | probe, index, llmfit | duplicate names, ambiguous pairing, unknown memory | what is published of a card is its own, what can be picked can be used |
| index, metrics server, API types, chart | | | | tables, counters, generated code | constants of the models, or out of scope |

`PROJECT.json` lists the hazards line by line, with the properties that cover
them.

## Modules

| Module | Models | Run by |
|---|---|---|
| `Hotplug` | listener, debouncer and the select of the probe loop | `hotplug` |
| `HotplugProofs` | theorems about `Hotplug` | TLAPS |
| `ProbeLoop` (`MCProbeLoop`) | the agent's cycle, publishing, heartbeat | `probe_loop`, `demotion` |
| `ProbeLoopProofs` | theorem about `ProbeLoop` | TLAPS |
| `Probe` | the sysfs walk, as operators over a device tree | through `Agent` |
| `Detector` | the capability source: its state and its answers | through `Agent` |
| `Publisher` | BuildDevices and the shipped classes, as operators | through `Agent` |
| `ClaimEdits` | inventory lookups and device nodes of a claim, as operators | through `Agent` |
| `Agent` (`MCAgent`) | their composition: cycles, one claim, hardware and llmfit | `agent` |
| `AgentProofs` | theorems about the composition | TLAPS |
| `Preparation` | abstract specification of the kubelet plugin | as a property of `node_plugin` |
| `NodePlugin` (`MCNodePlugin`) | the kubelet plugin and a kubelet; implements `Preparation` | `node_plugin` |
| `NodePluginProofs` | theorems about `NodePlugin`, the refinement included | TLAPS |
| `Controller` (`MCController`) | the ModelClaim controller and an API server | `controller`, `controller_live`, `foreign_template` |
| `ControllerProofs` | theorems about `Controller` | TLAPS |
| `Events` (`MCEvents`) | the controller's Events against the status it writes | `events`, `event_flips` |
| `EventsProofs` | theorems about `Events` | TLAPS |
| `Fit` | the fit inequality in its three forms, as operators | through `SliceView` |
| `FitProofs` | the mirrors agree | TLAPS |
| `SliceView` (`MCSliceView`) | evaluation over a changing view of slices and claims | `slice_view`, `nic_class` |
| `SliceViewProofs` | theorems about `SliceView` | TLAPS |

An operator with a suffix after an underscore (`SendRaw_unbounded`) is a plausible
bug in the definition it precedes; it is used to see that a property notices.

### Hotplug

Each goroutine's program counter (`rd`, `deb`, `main`), the two channels as counts
with their closed flags, the socket as a short sequence, and the ticker's one-slot
channel. A behaviour begins with the walk `run()` makes before it starts the publisher, the
kubelet plugin and, last, the listener (`main = "starting"`, main.go:183-213); `Listen` opens the
socket, or fails and leaves the ticker alone. `early` (announced before `Listen`, to nobody, and not
walked since), `unseen` (announced later and not walked since) and `accepted` (the reader handed
something over since the last walk started) are history. Nothing counts up, so
storms of any length are covered. ENOBUFS is taken to be reported once after a
drop. Reads that fail for no reason may happen and are never assumed to. A start-up that fails
ends the process; one that hangs is `ProbeLoop`'s.

### ProbeLoop

`step` is where `run()` stands; each of the coexistence check, the walk, the
memory read, the publish and the plugin's start may fail or hang where the code lets it. A device is
its name. `age` counts probe intervals since the last beat: one per ticker
wake-up and one for every interval a call hangs, saturating past `MaxStale`. The
resourceslice helper (external) is a queued sync; its missed delete event, which
the comment at main.go:254-258 works around, is a choice of `SlicesDeleted`. llmfit's
failure falls back to the index and does not change the control, so it is no step.

### NodePlugin

`spec[c]` is the set of devices claim `c`'s file describes. The visible file
changes only at `Rename` and `removeSpec`; the fsync is a step so that its order
matters. The kubelet (external) keeps `want`, `prepared`, `release` per claim,
calls for a whole pod, retries, gives up on a running call, restarts (and then
prepares again) and may lose its checkpoint (and then forgets releases). Calls are
serialised by the helper library, and one agent runs per node because the
DaemonSet never surges. A call the kubelet has given up on runs on to its end, but none
is left waiting behind another one: `NoOrphanWhileServing` rests on that, and only on the
helper's word. A power loss may undo a rename but not a removal: nothing
syncs the directory. All claims exist at the start; one created later would have no
file until it is prepared, which is after the sweep.

`Preparation` says what all this is for in two variables: the kubelet's phase of a claim and
the file. A file appears whole or not at all; it never goes while the claim is prepared;
"prepared" is said only with the file there and "unprepared" only with it gone. The mapping
is `phase <- kubelet, file <- spec`: the temporary file, the sweep and the calls are stutters
except where they rename or remove.

### Probe, Detector, Publisher, ClaimEdits and Agent

`ProbeLoop` has the control of a cycle with a device as a name; `Agent` has its data. A card
is a constant record (PCI address, vendor, model, driver, memory as sysfs shows it and as it
is, the faces it shows); a tree is what sysfs shows: class directories by minor number, each
listing the plugged cards that show its face, once (`Lists`). A card that comes back gets the lowest
free minor, or a new one when none is free. A walk is a set of devices: the code sorts it by kind and
index, which every device carries. The walk takes two steps, the infiniband
class and then the rest with `inv.Set`, so that the tree may change where it matters; names,
health, render nodes, the first entry per PCI function and the dropped fabric functions are
operators of `Probe`. A reading of llmfit (external) groups the GPUs it sees by name, with
count 0 for a single one as in its JSON; `hidden` cards are those a vendor tool does not list.
A cycle is an interval of `Detector`'s age. `Publisher` keeps of a device what a rule depends
on: name, kind, health, source, model, memory, bandwidth (known or not), the demotion.
`ClaimEdits` has the lookups of `prepareClaim`, one step each, the deduplicated nodes and
`ROCR_VISIBLE_DEVICES`; a call that fails or dies is made again.

History variables say when two facts are about the same hardware: `paired` (the inventory
is the walk the slices were built from), `sound` (the tree did not change during that walk and
the reading is of the same GPUs), `oneInv` (a prepare has seen one inventory). Properties that
need it are conditional on them; they are true after every undisturbed cycle. The slices
are published at once (`ProbeLoop` has the helper), and the demotion flag is fixed (there too).

### Events

One step decides what a reconcile finds and does to the template; the Events then go out one by
one, then the status is written or refused. `cached` lags behind `status`, and `conditionReason`
reads it. A reconcile may start at any time, which covers retries, resyncs and informer events.
An Event's text is a value, and the best-effort create call is assumed neither to succeed nor to fail:
nothing depends on it. `sent`, `shown` and `minted` are history.

### Controller

One step per cache read, resolver call and API call of `reconcile`, so everything
else comes between any two. resourceVersion is object equality: the update and the
status write conflict exactly when the object differs from the copy that was read.
An informer's store may skip versions; its handler runs later. `again` and `delayed`
are the workqueue's parked and rate-limited keys. `immutable` chooses the kind of
API server at the start. `gap` and `drift` are history. A spec is its resolve tuple
and its backend; what the published devices amount to for a backend is one value of
`Fits` (how it is computed is `SliceView`). A spec in `RejectedSpecs` has an extra selector that is
not CEL: nothing checks it before the API server rejects the template. Event emission is in `Events`.

### Fit and SliceView

A CEL expression is the predicate it denotes, an unpublished attribute is `Absent`.
A mebibyte is `MiB` bytes so that small instances have sizes off the boundaries.
Integer overflow of the memory floor (beyond 8 EiB) is ignored. `SliceView` delivers a
pool's slices one at a time, with skipped generations, next to allocations.

`deviceClassName` is a free string and `extraSelectors` are the user's own CEL. Each is a name whose
devices the constant `Selectors` lists, a class that does not exist selecting none. Only the scheduler's
side of the rule (`Schedulable`, `NvidiaSchedulable`) evaluates them; the static mirror knows
neither (backend.go:37-40). Agreement is therefore claimed for the classes the code knows
(`LlmfitClasses`, `NvidiaClasses`) without extra selectors; for all other claims the mirror counts at
least what the scheduler finds, and may count more.

## Runs

Every run is exhaustive within its bounds. "Disturbance" means a step of users,
hardware, the network, the kubelet or a failure; `MaxDisturbances` bounds how many
occur, at whatever moments, while the program's own steps are unbounded. Each
hazard listed needs at most two or three disturbances (an edit, a failure and a
crash, say), which is how the bounds are chosen.

| Run | Bounds | Shows |
|---|---|---|
| `hotplug` | raw capacity 2, socket 1, one relevant and one other subsystem; from the first walk on, `Listen` succeeding or not | safety and liveness of the listener; full buffers and overruns are reached |
| `controller` | one key, one worker, four specs on two backends (one with an invalid model, one with a rejected selector), two verdicts, 3 disturbances, both kinds of API server | the safety properties below; a second worker would stay idle, since the workqueue gives a key to one at a time, and keys share only the resolve cache |
| `controller_live` | as `controller`, without the invalid model; resolve cache of one entry, 2 disturbances | convergence |
| `probe_loop` | two devices, liveness after 1 missed interval, 4 disturbances | publishing and restart |
| `node_plugin` | three claims in two pods (one with nothing of ours, one device shared), 6 disturbances | file protocol |
| `slice_view` | both drivers on one node with equal device names, a second node, two slices, two generations, one held device; claims of every shipped class, of three other classes and with an extra selector | counting and mirroring |
| `agent` | six machines of two to four cards, 2 disturbances, `MaxStale` 1, system memory 4; the machine with two AMD cards has a claim for one or both, and a run ends when its file is written | what is published and prepared, over hot-plug, faults, outages, failed cycles and restarts |
| `events` | two ModelClaims, three situations, memory of 3 entries (the code has 4096), 2 disturbances | order and number of Events |
| `foreign_template`, `demotion`, `nic_class`, `event_flips` | as above (`event_flips`: one claim whose devices come and go) | disagreements between code and comments or docs; see below |

Deadlock checking is off where the bounded environment may be exhausted and the
system rightly has nothing to do (controller runs, `node_plugin`, `agent` after its claim is
prepared, `events`).

The machines of `agent` are chosen for the joins that can go wrong: two cards of one model, with
and without an APU beside them (a count that does not cover the probed cards; a carve-out in sysfs); an APU,
an NPU and a BMC framebuffer; an NVIDIA card, a card whose name llmfit cannot classify and a DPU with both
faces; an NVIDIA GPU without a DRM card beside the framebuffer, with two RDMA entries of one function and no
uverbs; and two USB display adapters behind one PCI function. Two disturbances are enough to take
a card out and put it back, to hide a card during a hand-over, or to end an outage's cache.
`MaxStale` 1 lets a cached reading be served and then expire. In `events` the memory of 3 is emptied
in ordinary operation, since two claims use more keys than that.

### Properties

- *Hotplug*: `AcceptedEventProbed` and `NoLostWakeup` (coalescing, overruns and death
  never lose the wake-up of a change announced since `Listen`), `TickerFloor` (the ticker finds every
  change, those announced before `Listen` included), `ListenerDeathNoticed`,
  `SettledStormProbed` (without the ticker's help, for changes since `Listen`).
- *Controller*: `SettledIsCurrent` (with no work pending for a claim, conditions,
  candidates and template belong to its current spec),
  `TemplateFromOneSpec`, `GapRepairOwed` and `ShutdownKeepsRecreate` (delete-then-recreate),
  `OwnerNeverChanges`, `EventuallyConverged` (for every spec whose template the API server accepts).
- *ProbeLoop*: `EventuallyPublished`, `StalledLoopRestarted`.
- *NodePlugin*: `PreparedHasSpec`, `NoTornSpec`, `SweepSparesLive`,
  `NoOrphanWhileServing`, `EventuallyServed`, `ImplementsPreparation`.
- *SliceView*: `NoDoubleCount`, `CandidatesMatchScheduler` (equal to what the scheduler finds under the
  classes the code knows, never below it otherwise), `MidpointsRobust`.
- *Agent*: `PoolAccepted` (unique names, and after a finished cycle the names the plugin can look
  up, so only while `paired`), `FabricIsNotCompute`, `CapacityIsReal` and `NumbersAreOwn` (a card is never given memory it
  does not have or another model's numbers), `SelectableIsUsable` (what the classes select has its
  nodes, also after deduplication), `NameIsSilicon` (a prepared claim has the PCI
  function that was allocated; two cards that were in one slot one after the other are not told apart), `ROCmIsConfined`, `FactsDoNotFlap` and `OutageEndsInIndex` (llmfit's outages
  and hand-overs).
- *Events*: `AnnouncedFirst` (no crash leaves a verdict in status that no Event was sent for),
  `EventsStop` (retries fall silent, also with a full memory).

### Where code and text disagree

- `foreign_template`: templates.Delete is by name, so a foreign template that takes the
  name between an update that came back Invalid and the delete is deleted, against
  controller.go:374-376. An update is Invalid on an API server with immutable template specs, or when
  the new spec is rejected.
- `demotion`: a restarted agent whose first coexistence check fails publishes without the
  demotion, against main.go:167 and coexist.go:15-16.
- `nic_class`: kindForClass misses the shipped class nic.llmfit.ai, against
  satisfiable.go:65-66.
- `event_flips`: an Event whose text is that of the last one of its reason is suppressed, also when
  other reasons came between, so devices that go and come back produce two Events and not three,
  against controller.go:415-417.

Met while modelling, and not the subject of a run: a template deleted by hand comes back only with
the resync, because templates are not watched (docs/design/modelclaim.md:262-263 says they are);
a drm or accel change between the first walk (main.go:183) and `hotplug.Listen` (main.go:213), with the
publisher and the plugin started in between, has no wake-up and waits for the first tick; so does an
infiniband face at any time, since the listener keeps drm and accel uevents only (hotplug.go:26-29);
a ModelClaim edited to an `extraSelectors` expression that is not CEL loses its working template: the
update comes back Invalid, which is taken for immutability (controller.go:393-395), the template is deleted,
and the recreate is rejected at every retry, with no status written, so that the conditions go on
describing the previous generation; a claim of a custom class, one with `extraSelectors`, or one of
a shipped llmfit.ai class with `targetDriver: gpu.nvidia.com` may be reported satisfiable although the scheduler
finds no device;
a failed resolve leaves status.candidates, which the CRD prints (controller.go:340-346); the inventory is
replaced before the memory read can fail (main.go:271-278), so a failed cycle leaves Prepare with a newer
view than the slices; a GPU missing from one reading between a full and a partial one loses its
carried bandwidth (detector.go:104-117); a reading kept through an outage may be paired with a card of the
same vendor that was swapped in since; a ModelClaim recreated under its name may have its first
Events suppressed, because the memory is keyed by name (controller.go:561); a GPU without a DRM card that
llmfit reports, next to a DRM card of its vendor that llmfit does not report, hands that card its numbers, since the counts agree
(publisher.go:278-320; such a machine is outside `NoStrayGPU`).

## Fairness

- *Hotplug*: start-up gets to `Listen` and the Go runtime runs runnable goroutines (weak fairness); select picks at random
  among ready arms, so an arm that is ready again and again is taken (strong fairness on
  the loop's arms); a debounce timer that is no longer reset fires. Only `TickerFloor`
  assumes the ticker, and says so in its statement.
- *ProbeLoop*: the process runs and is restarted by the kubelet, the helper syncs, time passes
  over a hung call, and a failing liveness probe is acted on; the ticker's arm as above.
- *NodePlugin*: the agent runs, and the kubelet retries for every pod; pods' retries take
  turns, hence strong fairness per pod.
- *Controller*: informers deliver and resync, handlers run, due retries are queued, workers
  take their next step, owned templates of deleted claims are collected, and the
  Deployment starts a controller when none runs.

- *Agent*: the agent is restarted and its loop runs: a step of the cycle is possible in every state,
  so weak fairness of it is stated as `[]<><<Cycle>>_vars`.
- *Events*: the resync queues every ModelClaim again and again and workers serve it, and the
  informer delivers: weak fairness per claim.

No fairness is put on any disturbance.

## Proofs

A theorem about a state machine is an invariant or an action property of its module's specification, for every
value of the constants that satisfies the named assumptions. The invariants are built from named parts,
and each module has one lemma per action (or per part) that shows them kept.

- **HotplugProofs**, from `CapAssumption` (capacities are positive): `TypeCorrect`,
  `AcceptedNeverLost`, `WakeupNeverLost`, `ClosedInOrder`. The inductive invariant adds `CloseOrder`: an
  event is owed a probe only because a debouncer that has ended left nothing buffered, and
  the loop drops its channel only after that; before `Listen` there is neither goroutine nor message.
- **NodePluginProofs**, from `NodePluginAssumption`: `TypesKept`, `PreparedAlwaysHasSpec`, `NeverTorn`,
  `SweepNeverTouchesLive`, `Refinement`, `OrphansAreOwned`. The inductive invariant adds: a claim wanted or
  prepared exists (`UsedIsLive`); while sweeping, every existing claim is in the list (`SweepSafe`); a
  prepare call's successes have their files, and an unprepare call never works on a prepared claim
  (`CallSafe`); the temporary file is synced before the rename (`SyncedFirst`); an answer the kubelet
  still waits for is true of the files (`AnswerTrue`). The last is what `Refinement` needs: each action is
  shown to be one step of `Preparation` or a stutter, the answer to the kubelet being the step where
  the abstract specification asks for the file to be there, or gone. `OrphansAreOwned` also needs that a
  claim the kubelet has nothing to do with has no file and is not being prepared, unless the kubelet
  forgot it (`IdleHasNoFile`), and that the sweep has the file of a claim gone before the start still to
  look at, or there is none (`DeadIsSwept`).
- **ControllerProofs**, from `ControllerAssumption` and `NoObjAssumption` (a spec is a resolve tuple and a
  backend; the absent object is no object): `TypeCorrect`, `SettledClaimIsCurrent`, `OneSpecPerTemplate`,
  `GapIsRepaired`, `RecreateSurvivesShutdown`, `OwnersKept`. The invariant has to say what each worker
  knows at each point between two calls: the informer's store is never ahead of the API server
  (`NeverAhead`); a reconcile works on the cached object and will report what is true of it, or its
  key is queued again (`WorkIsCurrent`); so is the key of a status write that comes too late (`ConflictRedone`);
  no two workers have one key (`OneWorker`); a template deleted for recreation is absent, and a worker is about
  to create it until that attempt fails (`GapIsEmpty`). `QuietIsCurrent` follows: the
  status of a claim with nothing queued, parked, due or unseen is current. That is where stale caches,
  conflicts, applied-but-failed writes and crashes meet.
- **EventsProofs**, from `EventsAssumption` (the memory has room for one entry per claim): `TypeCorrect`,
  `AnnouncedBeforeWritten`. A status, the memory and the work in progress each name only reasons that were
  sent (`StatusTold`, `MemoryTold`, `WorkTold`); the memory is bounded however often it is emptied
  (`Bounded`).
- **FitProofs**, from `UnitsAssumption` and `BoardsAssumption`: `EvaluateMirrorsScheduler` and
  `EvaluateNvidiaMirrorsScheduler` (whatever the class and extra selectors the mirror admits what the scheduler
  would choose; exactly that for the classes the code knows, without extra selectors), `NvidiaMirrorsCEL`
  (for every board table the mirror is the generated CEL, class and extra selectors aside). A device without a memory
  capacity counts as 0 MiB in the mirror and as no match in the CEL, so the two about NVIDIA ask that the claim
  asks for memory or the device publishes it. `MidpointSeparates` is the arithmetic of the board table's thresholds.
- **SliceViewProofs**, from `SliceViewAssumption`, `LayoutsAssumption` (a device's name is its pool's
  alone, over all slices) and `AsksAssumption` (the precondition of the previous item): `TypeCorrect`,
  `NeverCountedTwice`, `CountsAreTheSchedulers` (from the two theorems on the mirrors: equal
  or included sets of devices, counted), `MidpointsHold`. The invariant `Recorded` says there is a
  history of layouts, one per generation, that every slice in the view was taken from: slices of one
  generation therefore fit together, whichever of them have arrived.
- **ProbeLoopProofs**, from `ProbeLoopAssumption`: `TypeCorrect`, with `PoolBeforePlugin`.
- **AgentProofs**, from `ProbeAssumption`, `DetectorAssumption`, `PublisherAssumption` and the assumptions
  of `Agent` on its machines: `TreesAssumption` (a tree shows what is plugged), `FunctionsAssumption` (the
  driver and the infiniband class belong to a PCI function), `NamesAssumption`, `SourcesAssumption` (sysfs,
  llmfit and the index never overstate a card's memory, and shared memory is the system's) and
  `DriversAssumption` (a driver the plugin can prepare gives a render node). TLC evaluates them on the
  machines of the run.
  - For every machine: `TypeCorrect`, `PoolAlwaysAccepted`, `PreparedIsAllocated`, `FabricNeverCompute`,
    `ROCmAlwaysConfined`, `SelectedIsUsable`. They rest on `WalksPlaced` (a walk never has two
    devices of one kind and index), `NamesKept` (a name kept
    anywhere, in slices, the allocation, the CDI devices or the file, is the name of its card's function),
    `FabricInv` (what the first half of an undisturbed walk knows of the fabric is enough for the second)
    and `UseInv` (two devices share no node of their own, what is published as selectable has nodes, and
    each looked-up device brings its node or finds it there already).
  - `NumbersStayOwn` and `CapacityStaysReal` have a hypothesis on the machine, `NoStrayGPU`: a GPU llmfit
    may report is a DRM card, no fabric function, and llmfit takes its name for its vendor's or for nobody's;
    or else no DRM card of the machine can be taken for it. `OwnInv` says that an undisturbed walk
    then holds every GPU of such a group, so that a group which covers all the probed cards consists of
    exactly these cards. The pairing rule really needs it (see the last of the points met while modelling).
  - `FactsStay` has the hypothesis `OneCardPerFunction`: a DRM card whose vendor llmfit may report is
    a PCI function of its own, so that devices and names correspond one to one where llmfit's groups are
    counted. `FlapInv` says the slices were made from the last reading, or from none because it
    was too old, and that a reading names models of this machine's GPUs.

  All six machines of the run satisfy both hypotheses: the NVIDIA GPU without a DRM card has only a
  framebuffer of another vendor beside it, and llmfit reports nothing of the vendor of the USB adapters.

Only model-checked: every liveness property (fairness is beyond the prover): `TickerFloor`,
`ListenerDeathNoticed`, `SettledStormProbed`, `EventuallyConverged`, `EventuallyPublished`,
`StalledLoopRestarted`, `EventuallyServed`, `OutageEndsInIndex`, `EventsStop`. The four violation runs refute
claims of the repository's text and have nothing to prove.

## Not modelled

- The HTTP and exec transports of llmfit, JSON decoding, and the reading and parsing of sysfs files: pure
  I/O, represented by calls that answer or fail and by the tree a walk sees.
- The metrics endpoint, logging, flag parsing, generated deep copies and the chart. Of `internal/observe` only
  the heartbeat takes part in the system's behaviour (`ProbeLoop`).
- Attributes and variables no rule reads back: link facts of a NIC, `pcieRoot`, `backend`,
  `computeTFLOPS` (in `Fit` as an attribute of the rule), taints, the `LLMFIT_*` variables.
- The controller's idle heartbeat (controller.go:243): it beats whether or not the workers move, so there
  is no promise about it to state.

## Plan

1. An abstract specification of the ModelClaim controller (a claim is pending, current or failed; its
   template exists or is being replaced) that `Controller` implements.
2. More of what holds at every step as action theorems: a status is never moved back to an older
   generation, and an unchanged claim's template is not written.
