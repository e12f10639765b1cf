----------------------------- MODULE NodePlugin -----------------------------
(***************************************************************************)
(* The kubelet DRA plugin of one node agent (internal/nodeplugin):         *)
(* PrepareResourceClaims writes one CDI spec file per claim,               *)
(* UnprepareResourceClaims removes it, and a start-up sweep collects the   *)
(* files of claims that are gone.  The files are the plugin's only state;  *)
(* the kubelet around it retries, gives up, restarts and forgets.          *)
(*                                                                         *)
(* A spec file is the set of devices it describes.  Calls are serialised   *)
(* by the helper library, and there is one agent per node (the DaemonSet   *)
(* never surges), so at most one call or sweep runs at a time.             *)
(***************************************************************************)
EXTENDS Naturals, FiniteSets

CONSTANTS
    Claims,     \* ResourceClaim UIDs, each used once
    Devices,    \* device names
    Alloc,      \* claim -> the devices of ours its allocation names
    Pods,       \* pods of this node: the set of claims each one uses
    NoClaim     \* the call is between two claims

ASSUME NodePluginAssumption ==
    /\ Alloc \in [Claims -> SUBSET Devices]
    /\ Pods \subseteq SUBSET Claims
    /\ NoClaim \notin Claims

VARIABLES
    claims,     \* ResourceClaims that exist in the API
    kubelet,    \* claim -> what the kubelet has to do or has done for it
    forgotten,  \* claims the kubelet dropped without an Unprepare (history)
    inv,        \* the agent's current inventory
    spec,       \* claim -> devices its spec file describes
    unsynced,   \* claims whose spec file has contents not on disk yet
    step,       \* where the agent is
    uids,       \* sweep: files still to look at
    live,       \* sweep: claims the API listed
    swept,      \* the sweep met no error (history)
    dead,       \* claims already gone when the agent started (history)
    call,       \* the running call: operation, claims left, succeeded, awaited
    cur,        \* claim the call is working on
    left,       \* its allocation results still to look up
    synced      \* the temporary file's contents are on disk

kubeletVars == <<claims, kubelet, forgotten>>
sweepVars == <<uids, live, swept, dead>>
claimVars == <<cur, left, synced>>
fileVars == <<spec, unsynced>>
vars == <<kubeletVars, inv, fileVars, step, sweepVars, call, claimVars>>

(* A spec file describes at least one device: none stands for no file.     *)
NoSpec == {}

NoCall == [op |-> "none", todo |-> {}, ok |-> {}, awaited |-> FALSE]

Idle == call.op = "none" /\ step = "serve"

Working == /\ uids' = {} /\ live' = {}
           /\ call' = NoCall /\ cur' = NoClaim /\ left' = {} /\ synced' = FALSE

Init ==
    /\ claims = Claims /\ kubelet = [c \in Claims |-> "idle"] /\ forgotten = {}
    /\ inv \in SUBSET Devices
    /\ spec = [c \in Claims |-> NoSpec] /\ unsynced = {}
    /\ step = "down" /\ uids = {} /\ live = {} /\ swept = TRUE /\ dead = {}
    /\ call = NoCall /\ cur = NoClaim /\ left = {} /\ synced = FALSE

-----------------------------------------------------------------------------
(* Start-up: gcOrphanedSpecs, then the sockets.                            *)

Boot ==
    /\ step = "down"
    /\ step' = "glob" /\ swept' = TRUE /\ dead' = Claims \ claims
    /\ UNCHANGED <<kubeletVars, inv, fileVars, uids, live, call, claimVars>>

specUIDs == {c \in Claims : spec[c] # NoSpec}

removeSpec(c) ==
    /\ spec' = [spec EXCEPT ![c] = NoSpec]
    /\ unsynced' = unsynced \ {c}

GCGlob ==
    /\ step = "glob"
    /\ uids' = specUIDs
    /\ step' = IF specUIDs = {} THEN "serve" ELSE "list"
    /\ UNCHANGED <<kubeletVars, inv, fileVars, live, swept, dead, call, claimVars>>

GCList ==
    /\ step = "list"
    /\ live' = claims
    /\ step' = "sweep"
    /\ UNCHANGED <<kubeletVars, inv, fileVars, uids, swept, dead, call, claimVars>>

(* A failed list ends the sweep; serving starts all the same.              *)
GCListFails_asEmpty ==
    /\ step = "list"
    /\ live' = {}
    /\ step' = "sweep"
    /\ UNCHANGED <<kubeletVars, inv, fileVars, uids, swept, dead, call, claimVars>>

GCListFails ==
    /\ step = "list"
    /\ step' = "serve" /\ swept' = FALSE /\ uids' = {}
    /\ UNCHANGED <<kubeletVars, inv, fileVars, live, dead, call, claimVars>>

GCRemove(c) ==
    /\ step = "sweep" /\ c \in uids
    /\ uids' = uids \ {c}
    /\ IF c \in live THEN UNCHANGED fileVars ELSE removeSpec(c)
    /\ UNCHANGED <<kubeletVars, inv, step, live, swept, dead, call, claimVars>>

GCRemoveFails(c) ==
    /\ step = "sweep" /\ c \in uids \ live
    /\ uids' = uids \ {c} /\ swept' = FALSE
    /\ UNCHANGED <<kubeletVars, inv, fileVars, step, live, dead, call, claimVars>>

GCDone ==
    /\ step = "sweep" /\ uids = {}
    /\ step' = "serve" /\ live' = {}
    /\ UNCHANGED <<kubeletVars, inv, fileVars, uids, swept, dead, call, claimVars>>

-----------------------------------------------------------------------------
(* PrepareResourceClaims: claim by claim, device by device.                *)

PrepareClaim(c) ==
    /\ call.op = "prepare" /\ cur = NoClaim /\ c \in call.todo
    /\ cur' = c /\ left' = Alloc[c]
    /\ step' = "lookup"
    /\ UNCHANGED <<kubeletVars, inv, fileVars, sweepVars, call, synced>>

ClaimDone(ok) ==
    /\ call' = [call EXCEPT !.todo = @ \ {cur}, !.ok = IF ok THEN @ \union {cur} ELSE @]
    /\ cur' = NoClaim /\ left' = {} /\ synced' = FALSE
    /\ step' = "serve"

(* A claim's failure is its own: the batch goes on.                        *)
ClaimFails_endsBatch ==
    /\ call' = [call EXCEPT !.todo = {}]
    /\ cur' = NoClaim /\ left' = {} /\ synced' = FALSE
    /\ step' = "serve"

ClaimFails == ClaimDone(FALSE)

Lookup(d) ==
    /\ step = "lookup" /\ d \in left /\ d \in inv
    /\ left' = left \ {d}
    /\ UNCHANGED <<kubeletVars, inv, fileVars, step, sweepVars, call, cur, synced>>

LookupMissing(d) ==
    /\ step = "lookup" /\ d \in left /\ d \notin inv
    /\ ClaimFails
    /\ UNCHANGED <<kubeletVars, inv, fileVars, sweepVars>>

(* No allocation, or none of its results is ours.                          *)
NothingToPrepare ==
    /\ step = "lookup" /\ Alloc[cur] = {}
    /\ ClaimFails
    /\ UNCHANGED <<kubeletVars, inv, fileVars, sweepVars>>

(* writeSpec: temporary file, fsync, rename; nothing visible before the    *)
(* rename.                                                                 *)
WriteTemp ==
    /\ step = "lookup" /\ left = {} /\ Alloc[cur] # {}
    /\ step' = "sync"
    /\ UNCHANGED <<kubeletVars, inv, fileVars, sweepVars, call, claimVars>>

SyncTemp_skipped ==
    /\ step = "sync"
    /\ step' = "rename"
    /\ UNCHANGED <<kubeletVars, inv, fileVars, sweepVars, call, claimVars>>

SyncTemp ==
    /\ step = "sync"
    /\ synced' = TRUE
    /\ step' = "rename"
    /\ UNCHANGED <<kubeletVars, inv, fileVars, sweepVars, call, cur, left>>

Rename ==
    /\ step = "rename"
    /\ spec' = [spec EXCEPT ![cur] = Alloc[cur]]
    /\ unsynced' = IF synced THEN unsynced \ {cur} ELSE unsynced \union {cur}
    /\ ClaimDone(TRUE)
    /\ UNCHANGED <<kubeletVars, inv, sweepVars>>

WriteSpecFails ==
    /\ step \in {"sync", "rename"}
    /\ ClaimFails
    /\ UNCHANGED <<kubeletVars, inv, fileVars, sweepVars>>

-----------------------------------------------------------------------------
(* UnprepareResourceClaims; a file already gone is success.                *)

RemoveSpec(c) ==
    /\ call.op = "unprepare" /\ c \in call.todo
    /\ removeSpec(c)
    /\ call' = [call EXCEPT !.todo = @ \ {c}, !.ok = @ \union {c}]
    /\ UNCHANGED <<kubeletVars, inv, step, sweepVars, claimVars>>

RemoveSpecFails_reportedOk(c) ==
    /\ call.op = "unprepare" /\ c \in call.todo /\ spec[c] # NoSpec
    /\ call' = [call EXCEPT !.todo = @ \ {c}, !.ok = @ \union {c}]
    /\ UNCHANGED <<kubeletVars, inv, fileVars, step, sweepVars, claimVars>>

RemoveSpecFails(c) ==
    /\ call.op = "unprepare" /\ c \in call.todo /\ spec[c] # NoSpec
    /\ call' = [call EXCEPT !.todo = @ \ {c}]
    /\ UNCHANGED <<kubeletVars, inv, fileVars, step, sweepVars, claimVars>>

(* The result map goes back; a kubelet that gave up does not see it.       *)
Outcome(c) ==
    IF ~call.awaited \/ c \notin call.ok THEN kubelet[c]
    ELSE CASE call.op = "prepare" /\ kubelet[c] = "want" -> "prepared"
           [] call.op = "unprepare" /\ kubelet[c] = "release" -> "idle"
           [] OTHER -> kubelet[c]

Reply_beforeDone ==
    /\ call.op # "none" /\ call.todo \ {cur} = {}
    /\ kubelet' = [c \in Claims |-> Outcome(c)]
    /\ call' = NoCall
    /\ UNCHANGED <<claims, forgotten, inv, fileVars, step, sweepVars, claimVars>>

Reply ==
    /\ call.op # "none" /\ call.todo = {} /\ cur = NoClaim
    /\ kubelet' = [c \in Claims |-> Outcome(c)]
    /\ call' = NoCall
    /\ UNCHANGED <<claims, forgotten, inv, fileVars, step, sweepVars, claimVars>>

-----------------------------------------------------------------------------
(* The kubelet (external).                                                 *)

Pending(P, s) == {c \in P : kubelet[c] = s}

Calls(op, todo) ==
    /\ Idle /\ todo # {}
    /\ call' = [op |-> op, todo |-> todo, ok |-> {}, awaited |-> TRUE]
    /\ UNCHANGED <<kubeletVars, inv, fileVars, step, sweepVars, claimVars>>

CallPrepare(P) == Calls("prepare", Pending(P, "want"))

CallUnprepare(P) == Calls("unprepare", Pending(P, "release"))

PodArrives(P) ==
    /\ P \subseteq claims /\ \A c \in P : kubelet[c] = "idle"
    /\ kubelet' = [c \in Claims |-> IF c \in P THEN "want" ELSE kubelet[c]]
    /\ UNCHANGED <<claims, forgotten, inv, fileVars, step, sweepVars, call, claimVars>>

PodDeleted(P) ==
    /\ \E c \in P : kubelet[c] \in {"want", "prepared"}
    /\ kubelet' = [c \in Claims |-> IF c \in P /\ kubelet[c] # "idle" THEN "release"
                                                                    ELSE kubelet[c]]
    /\ UNCHANGED <<claims, forgotten, inv, fileVars, step, sweepVars, call, claimVars>>

(* A claim goes once no pod uses it; a forced deletion does not wait for   *)
(* the kubelet.                                                            *)
ClaimDeleted(c) ==
    /\ c \in claims /\ kubelet[c] \in {"idle", "release"}
    /\ claims' = claims \ {c}
    /\ UNCHANGED <<kubelet, forgotten, inv, fileVars, step, sweepVars, call, claimVars>>

KubeletGivesUp ==
    /\ call.awaited
    /\ call' = [call EXCEPT !.awaited = FALSE]
    /\ UNCHANGED <<kubeletVars, inv, fileVars, step, sweepVars, claimVars>>

Reprepares == [c \in Claims |-> IF kubelet[c] = "prepared" THEN "want" ELSE kubelet[c]]

(* Whether a claim is prepared is not part of the checkpoint.              *)
KubeletRestart ==
    /\ kubelet' = Reprepares
    /\ call' = [call EXCEPT !.awaited = FALSE]
    /\ UNCHANGED <<claims, forgotten, inv, fileVars, step, sweepVars, claimVars>>

(* The checkpoint is lost: claims of pods that are gone are forgotten.     *)
CheckpointLost ==
    /\ kubelet' = [c \in Claims |-> IF kubelet[c] = "release" THEN "idle" ELSE Reprepares[c]]
    /\ forgotten' = forgotten \union {c \in Claims : kubelet[c] = "release"}
    /\ call' = [call EXCEPT !.awaited = FALSE]
    /\ UNCHANGED <<claims, inv, fileVars, step, sweepVars, claimVars>>

-----------------------------------------------------------------------------
(* The agent's other thread, and the ways to stop.                         *)

InventorySet ==
    /\ inv' \in SUBSET Devices /\ inv' # inv
    /\ UNCHANGED <<kubeletVars, fileVars, step, sweepVars, call, claimVars>>

Crash ==
    /\ step # "down"
    /\ step' = "down" /\ Working
    /\ UNCHANGED <<kubeletVars, inv, fileVars, swept, dead>>

(* The node loses power: what no directory sync made durable may be gone.  *)
PowerLoss ==
    /\ step' = "down" /\ Working
    /\ \E gone \in SUBSET specUIDs :
          spec' = [c \in Claims |-> IF c \in gone THEN NoSpec ELSE spec[c]]
    /\ kubelet' = Reprepares
    /\ UNCHANGED <<claims, forgotten, inv, unsynced, swept, dead>>

-----------------------------------------------------------------------------
Agent ==
    \/ Boot \/ GCGlob \/ GCList \/ GCDone
    \/ \E c \in Claims : GCRemove(c) \/ PrepareClaim(c) \/ RemoveSpec(c)
    \/ \E d \in Devices : Lookup(d) \/ LookupMissing(d)
    \/ NothingToPrepare \/ WriteTemp \/ SyncTemp \/ Rename \/ Reply

KubeletCalls(P) == CallPrepare(P) \/ CallUnprepare(P)

System == Agent \/ \E P \in Pods : KubeletCalls(P)

Disturbance ==
    \/ GCListFails \/ WriteSpecFails
    \/ \E c \in Claims : GCRemoveFails(c) \/ RemoveSpecFails(c) \/ ClaimDeleted(c)
    \/ \E P \in Pods : PodArrives(P) \/ PodDeleted(P)
    \/ KubeletGivesUp \/ KubeletRestart \/ CheckpointLost
    \/ InventorySet \/ Crash \/ PowerLoss

Next == System \/ Disturbance

Spec == Init /\ [][Next]_vars

(* The agent runs, and the kubelet retries for every pod: another pod's    *)
(* retries take turns with its own, hence strong fairness.                 *)
Fairness == WF_vars(Agent) /\ \A P \in Pods : SF_vars(KubeletCalls(P))

-----------------------------------------------------------------------------
(* Types, and where the agent's working variables mean something: a claim  *)
(* is in work only within a prepare call, and the sweep runs alone.        *)
TypeOK ==
    /\ claims \subseteq Claims /\ forgotten \subseteq Claims /\ inv \subseteq Devices
    /\ kubelet \in [Claims -> {"idle", "want", "prepared", "release"}]
    /\ spec \in [Claims -> SUBSET Devices] /\ unsynced \subseteq Claims
    /\ step \in {"down", "glob", "list", "sweep", "serve", "lookup", "sync", "rename"}
    /\ uids \subseteq Claims /\ live \subseteq Claims /\ swept \in BOOLEAN /\ dead \subseteq Claims
    /\ call \in [op : {"none", "prepare", "unprepare"}, todo : SUBSET Claims,
                 ok : SUBSET Claims, awaited : BOOLEAN]
    /\ cur \in Claims \union {NoClaim} /\ left \subseteq Devices /\ synced \in BOOLEAN
    /\ step \in {"lookup", "sync", "rename"} <=> cur # NoClaim
    /\ cur # NoClaim => call.op = "prepare" /\ cur \in call.todo /\ left \subseteq Alloc[cur]
    /\ step \in {"down", "glob", "list", "sweep"} => call = NoCall

(* A claim the kubelet holds for prepared has a spec file that describes   *)
(* every device of ours in its allocation, whatever restarts, sweeps,      *)
(* late calls and power losses came between.                               *)
PreparedHasSpec == \A c \in Claims : kubelet[c] = "prepared" => spec[c] = Alloc[c]

(* cdi.go:78-80: no power loss finds a renamed spec whose contents are not *)
(* on disk.                                                                *)
NoTornSpec == unsynced = {}

(* plugin.go:283-287: "live claims' specs are never touched".              *)
SweepSparesLive ==
    [][\A c \in Claims :
          step = "sweep" /\ step' = "sweep" /\ spec[c] # NoSpec /\ spec'[c] = NoSpec
             => c \notin claims]_vars

(* A spec file without a claim is one the kubelet will still have removed, *)
(* or one it forgot (checkpoint loss); and a sweep without errors leaves   *)
(* none of a claim that was gone before the agent started.                 *)
NoOrphanWhileServing ==
    \A c \in Claims :
        /\ step = "serve" /\ swept
        /\ spec[c] # NoSpec /\ c \notin claims
        => c \notin dead /\ (kubelet[c] = "release" \/ c \in forgotten)

(* The plugin and its kubelet, seen from the CDI directory, behave as       *)
(* Preparation says: files appear whole (plugin.go:184, cdi.go:52-94), no   *)
(* prepared claim loses its file, and an unprepare is reported done only    *)
(* when the file is gone (plugin.go:316-331).                               *)
Abstract == INSTANCE Preparation WITH phase <- kubelet, file <- spec

ImplementsPreparation == Abstract!Spec

(* A claim that can be prepared does not stay waiting, also when another   *)
(* claim of its batch cannot; and every release is completed.              *)
EventuallyServed ==
    \A c \in Claims :
        <>[](/\ kubelet[c] = "want" => Alloc[c] = {} \/ ~(Alloc[c] \subseteq inv)
             /\ kubelet[c] # "release")
=============================================================================
