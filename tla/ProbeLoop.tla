------------------------------ MODULE ProbeLoop ------------------------------
(***************************************************************************)
(* One node agent's life outside the kubelet plugin (cmd/llmfit-dra/       *)
(* main.go): start-up, the probe cycle that turns the hardware into        *)
(* desired ResourceSlices, the helper that writes them, the vendor         *)
(* coexistence check and the heartbeat behind the liveness probe.          *)
(*                                                                         *)
(* A device is its name: identity is all the loop's control depends on.    *)
(* What wakes the loop is Hotplug's business; here it wakes at any time.   *)
(* Time is counted in probe intervals: one passes with every tick of the   *)
(* loop's ticker and while a call hangs.  It stops mattering once the      *)
(* heartbeat is stale.                                                     *)
(***************************************************************************)
EXTENDS Naturals

CONSTANTS
    Devices,    \* device names (PCI addresses) the node may have
    MaxStale,   \* intervals without a beat before liveness fails (3)
    NoSlices    \* no ResourceSlice of this driver for this node

ASSUME ProbeLoopAssumption == MaxStale \in Nat

VARIABLES
    hw,         \* devices present in sysfs
    vendor,     \* a known vendor GPU driver publishes slices for this node
    broken,     \* the sysfs walk fails
    slices,     \* this driver's published pool
    step,       \* where run() is
    hung,       \* the call run() is in does not return
    started,    \* start-up is over: failures no longer end the process
    vm,         \* opts.VendorManagedGPUs
    inv,        \* the inventory Prepare uses
    desired,    \* what the slice helper was last given
    sync,       \* the helper has a pool sync queued
    age         \* intervals since the last beat

envVars == <<hw, vendor, broken, slices>>
procVars == <<step, hung, started, vm, inv, desired, sync, age>>
vars == <<envVars, procVars>>

Pools == [devs : SUBSET Devices, vm : BOOLEAN]

Init ==
    /\ hw \in SUBSET Devices /\ vendor \in BOOLEAN /\ broken = FALSE
    /\ slices = NoSlices
    /\ step = "down" /\ hung = FALSE /\ started = FALSE
    /\ vm = FALSE /\ inv = {} /\ desired = NoSlices /\ sync = FALSE /\ age = 0

-----------------------------------------------------------------------------
(* The cycle.  refreshOpts, Walk, MemTotalBytes and BuildDevices in order. *)

(* run() from the top: nothing of an earlier process is known.             *)
Boot ==
    /\ step = "down"
    /\ step' = "refresh" /\ hung' = FALSE /\ started' = FALSE
    /\ vm' = FALSE /\ inv' = {} /\ desired' = NoSlices /\ sync' = FALSE /\ age' = 0
    /\ UNCHANGED envVars

(* The ticker or a uevent wakes the select.                                *)
older == IF age > MaxStale THEN age ELSE age + 1

TickerWake ==
    /\ step = "select"
    /\ step' = "refresh"
    /\ age' = older
    /\ UNCHANGED <<envVars, hung, started, vm, inv, desired, sync>>

UeventWake ==
    /\ step = "select"
    /\ step' = "refresh"
    /\ UNCHANGED <<envVars, hung, started, vm, inv, desired, sync, age>>

RefreshOpts ==
    /\ step = "refresh" /\ ~hung
    /\ vm' = vendor
    /\ step' = "walk"
    /\ UNCHANGED <<envVars, hung, started, inv, desired, sync, age>>

RefreshOptsFails ==
    /\ step = "refresh" /\ ~hung
    /\ step' = "walk"
    /\ UNCHANGED <<envVars, hung, started, vm, inv, desired, sync, age>>

(* A failed cycle: start-up gives up, the loop waits for the next wake-up  *)
(* without a beat.                                                         *)
CycleFails_beats ==
    /\ step' = IF started THEN "select" ELSE "down"
    /\ age' = 0
    /\ UNCHANGED <<envVars, hung, started, vm, desired, sync>>

CycleFails_startsAnyway ==
    /\ step' = IF started THEN "select" ELSE "plugin"
    /\ UNCHANGED <<envVars, hung, started, vm, desired, sync, age>>

CycleFails ==
    /\ step' = IF started THEN "select" ELSE "down"
    /\ UNCHANGED <<envVars, hung, started, vm, desired, sync, age>>

Walk ==
    /\ step = "walk" /\ ~hung /\ ~broken
    /\ inv' = hw
    /\ step' = "ram"
    /\ UNCHANGED <<envVars, hung, started, vm, desired, sync, age>>

WalkFails ==
    /\ step = "walk" /\ ~hung /\ broken
    /\ CycleFails
    /\ UNCHANGED inv

ReadRAM ==
    /\ step = "ram" /\ ~hung
    /\ step' = "publish"
    /\ UNCHANGED <<envVars, hung, started, vm, inv, desired, sync, age>>

ReadRAMFails ==
    /\ step = "ram" /\ ~hung
    /\ CycleFails
    /\ UNCHANGED inv

(* BuildDevices, then publisher.Start at start-up and controller.Update in *)
(* every later cycle; the loop's cycle ends with a beat.                   *)
BuildResources == [devs |-> inv, vm |-> vm]

Publish_onlyIfChanged ==
    /\ step = "publish" /\ ~hung
    /\ desired' = BuildResources
    /\ sync' = (sync \/ desired # BuildResources)
    /\ step' = IF started THEN "select" ELSE "plugin"
    /\ age' = IF started THEN 0 ELSE age
    /\ UNCHANGED <<envVars, hung, started, vm, inv>>

Publish ==
    /\ step = "publish" /\ ~hung
    /\ desired' = BuildResources
    /\ sync' = TRUE
    /\ step' = IF started THEN "select" ELSE "plugin"
    /\ age' = IF started THEN 0 ELSE age
    /\ UNCHANGED <<envVars, hung, started, vm, inv>>

(* nodeplugin.Start, Ready and the first beat.                             *)
PluginStarts ==
    /\ step = "plugin" /\ ~hung
    /\ step' = "select" /\ started' = TRUE /\ age' = 0
    /\ UNCHANGED <<envVars, hung, vm, inv, desired, sync>>

(* The resourceslice helper writes the pool.                               *)
HelperSync ==
    /\ sync /\ step # "down"
    /\ slices' = desired
    /\ sync' = FALSE
    /\ UNCHANGED <<hw, vendor, broken, step, hung, started, vm, inv, desired, age>>

(* Time passes over a hung call; the kubelet restarts a container whose    *)
(* heartbeat is stale.                                                     *)
Interval ==
    /\ hung /\ step # "down"
    /\ age' = older
    /\ UNCHANGED <<envVars, step, hung, started, vm, inv, desired, sync>>

live == age \leq MaxStale

LivenessRestart ==
    /\ step # "down" /\ ~live
    /\ step' = "down"
    /\ UNCHANGED <<envVars, hung, started, vm, inv, desired, sync, age>>

-----------------------------------------------------------------------------
(* What happens to it.                                                     *)

HardwareChanges ==
    /\ hw' \in SUBSET Devices /\ hw' # hw
    /\ UNCHANGED <<vendor, broken, slices, procVars>>

VendorDriverChanges ==
    /\ vendor' = ~vendor
    /\ UNCHANGED <<hw, broken, slices, procVars>>

SysfsBreaksOrRecovers ==
    /\ broken' = ~broken
    /\ UNCHANGED <<hw, vendor, slices, procVars>>

(* Someone deletes the slices; the helper's delete event may get lost      *)
(* inside its mutation-cache TTL.                                          *)
SlicesDeleted ==
    /\ slices # NoSlices
    /\ slices' = NoSlices
    /\ sync' \in {sync, sync \/ step # "down"}
    /\ UNCHANGED <<hw, vendor, broken, step, hung, started, vm, inv, desired, age>>

(* An API call, llmfit, a sysfs read or the plugin's start does not return *)
(* for want of a deadline.                                                 *)
Hangs ==
    /\ step \in {"refresh", "walk", "ram", "publish", "plugin"} /\ ~hung
    /\ hung' = TRUE
    /\ UNCHANGED <<envVars, step, started, vm, inv, desired, sync, age>>

Dies ==
    /\ step # "down"
    /\ step' = "down"
    /\ UNCHANGED <<envVars, hung, started, vm, inv, desired, sync, age>>

-----------------------------------------------------------------------------
Cycle ==
    \/ Boot \/ TickerWake \/ RefreshOpts \/ Walk \/ WalkFails \/ ReadRAM \/ Publish
    \/ PluginStarts

System == Cycle \/ UeventWake \/ HelperSync \/ Interval \/ LivenessRestart

Disturbance ==
    \/ RefreshOptsFails \/ ReadRAMFails
    \/ HardwareChanges \/ VendorDriverChanges \/ SysfsBreaksOrRecovers
    \/ SlicesDeleted \/ Hangs \/ Dies

Next == System \/ Disturbance

Spec == Init /\ [][Next]_vars

(* The process runs and is restarted, the helper syncs, time passes and    *)
(* the kubelet acts on a failing liveness probe.  The ticker's arm of the  *)
(* select is not starved by uevents: select chooses among ready arms at    *)
(* random.                                                                 *)
Fairness ==
    /\ WF_vars(Cycle) /\ WF_vars(HelperSync) /\ WF_vars(Interval)
    /\ SF_vars(TickerWake) /\ SF_vars(LivenessRestart)

-----------------------------------------------------------------------------
(* Every variable stays within the values the agent and its environment    *)
(* give it; in particular an agent that reports ready has a desired state  *)
(* to publish.                                                             *)
TypeOK ==
    /\ hw \subseteq Devices /\ vendor \in BOOLEAN /\ broken \in BOOLEAN
    /\ slices \in Pools \union {NoSlices} /\ desired \in Pools \union {NoSlices}
    /\ step \in {"down", "refresh", "walk", "ram", "publish", "plugin", "select"}
    /\ started \in BOOLEAN /\ vm \in BOOLEAN /\ sync \in BOOLEAN
    /\ inv \subseteq Devices
    /\ age \in 0 .. MaxStale + 1 /\ hung \in BOOLEAN
    /\ started => desired \in Pools

(* Once disturbances stop the published pool is the node's hardware with   *)
(* the right vendor demotion, unless sysfs stays broken: deleted slices    *)
(* come back although the helper missed the delete, hot-plugged devices    *)
(* appear, a failed coexistence check or memory read is made up for.       *)
EventuallyPublished == <>[](broken \/ slices = [devs |-> hw, vm |-> vendor])

(* main.go:138-141: "a hung loop becomes a failing probe, not a silent     *)
(* 1/1-Running node".  A loop that hangs or only fails is restarted.       *)
StalledLoopRestarted ==
    /\ hung ~> step = "down"
    /\ broken /\ started ~> (~broken \/ step = "down")

(* coexist.go:15-16 and main.go:167: vendor-managed GPUs are demoted "so   *)
(* the same silicon is never allocatable through two drivers at once", and *)
(* a failed check is "keeping previous state": with the vendor driver      *)
(* present throughout, a published demotion is not withdrawn.              *)
DemotionKept ==
    [][vendor /\ vendor' /\ slices # NoSlices /\ slices' # NoSlices /\ slices.vm
       => slices'.vm]_vars
=============================================================================
