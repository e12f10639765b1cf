------------------------------ MODULE Controller ------------------------------
(***************************************************************************)
(* The ModelClaim controller (internal/modelclaim/controller.go) against   *)
(* the API server: every ModelClaim is resolved to physical bounds and     *)
(* reconciled into a same-named ResourceClaimTemplate, and its status      *)
(* reports the outcome and how many published devices fit.                 *)
(*                                                                         *)
(* Each API call, cache read and resolver call of reconcile is a step of   *)
(* its own, so users, the garbage collector, the informers, a second       *)
(* worker and a crash come between any two of them.  A call to the API     *)
(* server may fail, and a failed write may have been applied.              *)
(*                                                                         *)
(* Abstractions.  A spec is its resolve tuple (model, minTps, quant,       *)
(* efficiency) and its backend; bounds are the tuple and the model         *)
(* database they were resolved from; pool[b] is the verdict on backend b's *)
(* devices (Fit checks how it is computed).  resourceVersion is object     *)
(* equality.  The queue's order is left out.                               *)
(***************************************************************************)
EXTENDS Naturals, FiniteSets

CONSTANTS
    Keys,       \* ModelClaim keys (namespace/name)
    Workers,    \* reconcile workers (main.go starts two)
    Tuples,     \* valid resolve tuples
    Specs,      \* specs users write: records [tuple, backend]
    RejectedSpecs,  \* specs with extraSelectors the API server finds invalid
    NoObj,      \* no such object
    ResolveCacheCap     \* entries of the resolve cache (512 in the code)

Backends == {"llmfit.ai", "gpu.nvidia.com"}
BadModel == "-bad-"         \* a spec.model that modelRefPattern rejects

ASSUME ControllerAssumption ==
    /\ ResolveCacheCap \in Nat
    /\ BadModel \notin Tuples
    /\ Specs \subseteq [tuple : Tuples \union {BadModel}, backend : Backends]
    /\ RejectedSpecs \subseteq Specs

VARIABLES
    mc,         \* ModelClaims on the API server
    tmpl,       \* ResourceClaimTemplates of the same names
    pool,       \* what the published devices amount to, per backend
    db,         \* version of the model database the resolver reads
    immutable,  \* the API server rejects template spec updates (Invalid)
    uids,       \* incarnations created so far, per key
    cache,      \* the ModelClaim informer's store
    mcNote,     \* keys whose add/update handler has yet to run
    poolCache,  \* the slice and claim informers' stores
    poolNote,   \* backends whose slice/claim handler has yet to run
    queued,     \* keys waiting in the workqueue
    again,      \* keys added while being processed
    delayed,    \* keys waiting out a rate-limited retry
    resolveCache,   \* resolve tuple -> database version, 0 if absent
    w,          \* the workers
    phase,      \* running, draining (SIGTERM), stopped or crashed
    gap,        \* history: the template the controller deleted is not back
    drift       \* history: keys whose template others changed since read

apiVars == <<mc, tmpl, pool, db, immutable, uids>>
informerVars == <<cache, mcNote, poolCache, poolNote>>
queueVars == <<queued, again, delayed>>
vars == <<apiVars, informerVars, queueVars, resolveCache, w, phase, gap, drift>>

-----------------------------------------------------------------------------
(* Objects.                                                                *)

Bounds == [tuple : Tuples, db : Nat]
Fits == {"DevicesAvailable", "AllDevicesHeld", "NoCandidates"}
Failures == {"InvalidModel", "ResolveFailed", "TemplateConflict"}

(* ModelClaimStatus.  Both conditions are always set together: reason is   *)
(* Resolved's, sat is Satisfiable's, condGen their observedGeneration.     *)
Status == [obs : Nat, bounds : Bounds \union {NoObj},
           cands : Fits \union {NoObj},
           reason : {"None", "Resolved"} \union Failures,
           sat : {"None"} \union Fits \union Failures, condGen : Nat]

NoStatus == [obs |-> 0, bounds |-> NoObj, cands |-> NoObj,
             reason |-> "None", sat |-> "None", condGen |-> 0]

ModelClaim == [uid : Nat, gen : Nat, spec : Specs,
               label : BOOLEAN, status : Status]

Foreign == 0    \* the owner of a template no ModelClaim controls

BuildTemplate_noOwnerRef(m, b) ==
    [owner |-> NoObj, bounds |-> b, backend |-> m.spec.backend]

BuildTemplate(m, b) ==
    [owner |-> m.uid, bounds |-> b, backend |-> m.spec.backend]
Templates == [owner : Nat, bounds : Bounds \union {NoObj},
              backend : Backends]

(* nil is none of the objects it stands in for.                            *)
ASSUME NoObjAssumption == NoObj \notin ModelClaim \union Templates \union Bounds

IsControlledBy(t, m) == t.owner = m.uid
TemplateNeedsUpdate(live, desired) ==
    live.bounds # desired.bounds \/ live.backend # desired.backend

ValidModel(m) == m.spec.tuple \in Tuples

(* The ModelClaim's schema accepts any string for an extra selector; the   *)
(* API server parses it only in the template.                              *)
Rejected(m) == m.spec \in RejectedSpecs

(* The mutation a reconcile applies to the status it reads back.  A        *)
(* failure sets the two conditions and leaves everything else standing.    *)
Failed(m, why) == [reason |-> why, gen |-> m.gen, bounds |-> NoObj, cands |-> NoObj]
Reconciled(m, b, fit) ==
    [reason |-> "Resolved", gen |-> m.gen, bounds |-> b, cands |-> fit]

Mutate(status, u) ==
    IF u.reason = "Resolved"
    THEN [obs |-> u.gen, bounds |-> u.bounds, cands |-> u.cands,
          reason |-> "Resolved", sat |-> u.cands, condGen |-> u.gen]
    ELSE [status EXCEPT !.reason = u.reason, !.sat = u.reason, !.condGen = u.gen]

-----------------------------------------------------------------------------
(* Workers and the workqueue.                                              *)

(* What reconcile keeps of the cached object.                              *)
Read(m) == [uid |-> m.uid, gen |-> m.gen, spec |-> m.spec]

Idle == [pc |-> "idle", key |-> NoObj, obj |-> NoObj, bounds |-> NoObj,
         live |-> NoObj, update |-> NoObj, fresh |-> NoObj, err |-> FALSE]

Processing == {w[x].key : x \in {y \in Workers : w[y].pc # "idle"}}

(* queue.Add: deduplicated, parked while the key is being processed,       *)
(* ignored after ShutDown.                                                 *)
Enqueue(ks) ==
    IF phase = "running"
    THEN /\ queued' = queued \union (ks \ Processing)
         /\ again' = again \union (ks \cap Processing)
         /\ delayed' = delayed
    ELSE UNCHANGED queueVars

(* The end of processNext: AddRateLimited on an error (not any more once   *)
(* the queue is shut down), then Done, which requeues a key added          *)
(* meanwhile.                                                              *)
Finish(x, err) ==
    LET k == w[x].key IN
    /\ w' = [w EXCEPT ![x] = Idle]
    /\ delayed' = IF err /\ phase = "running" THEN delayed \union {k} ELSE delayed
    /\ queued' = IF k \in again THEN queued \union {k} ELSE queued
    /\ again' = again \ {k}

Goto(x, pc) ==
    /\ w' = [w EXCEPT ![x].pc = pc]
    /\ UNCHANGED queueVars

(* updateStatus is entered with the mutation to apply and the error the    *)
(* reconcile returns once the status is written.                           *)
GoUpdateStatus(x, u, err) ==
    /\ w' = [w EXCEPT ![x] = [Idle EXCEPT !.pc = "getStatus", !.key = w[x].key,
                                         !.update = u, !.err = err]]
    /\ UNCHANGED queueVars

-----------------------------------------------------------------------------
(* The controller is about to start, on ModelClaims that may exist already.*)
NewClaim(uid, spec) ==
    [uid |-> uid, gen |-> 1, spec |-> spec, label |-> FALSE, status |-> NoStatus]

Init ==
    /\ mc \in [Keys -> {NoObj} \union {NewClaim(1, s) : s \in Specs}]
    /\ tmpl = [k \in Keys |-> NoObj]
    /\ pool = [b \in Backends |-> "NoCandidates"]
    /\ db = 1 /\ immutable \in BOOLEAN
    /\ uids = [k \in Keys |-> 1]
    /\ cache = [k \in Keys |-> NoObj] /\ mcNote = {} /\ poolCache = pool /\ poolNote = {}
    /\ queued = {} /\ again = {} /\ delayed = {}
    /\ resolveCache = [t \in Tuples |-> 0]
    /\ w = [x \in Workers |-> Idle]
    /\ phase = "stopped"
    /\ gap = [k \in Keys |-> "none"] /\ drift = {}

-----------------------------------------------------------------------------
(* Users, the cluster and the garbage collector.                           *)

(* What only the controller changes.                                       *)
ctlVars == <<informerVars, queueVars, resolveCache, w, phase>>

UserCreate(k, spec) ==
    /\ mc[k] = NoObj
    /\ uids' = [uids EXCEPT ![k] = @ + 1]
    /\ mc' = [mc EXCEPT ![k] = NewClaim(uids[k] + 1, spec)]
    /\ UNCHANGED <<tmpl, pool, db, immutable, ctlVars, gap, drift>>

UserEdit(k, spec) ==
    /\ mc[k] # NoObj /\ spec # mc[k].spec
    /\ mc' = [mc EXCEPT ![k].spec = spec, ![k].gen = @ + 1]
    /\ UNCHANGED <<tmpl, pool, db, immutable, uids, ctlVars, gap, drift>>

(* A metadata change: a new resourceVersion, the same generation.          *)
UserLabel(k) ==
    /\ mc[k] # NoObj /\ ~mc[k].label
    /\ mc' = [mc EXCEPT ![k].label = TRUE]
    /\ UNCHANGED <<tmpl, pool, db, immutable, uids, ctlVars, gap, drift>>

UserDelete(k) ==
    /\ mc[k] # NoObj
    /\ mc' = [mc EXCEPT ![k] = NoObj]
    /\ UNCHANGED <<tmpl, pool, db, immutable, uids, ctlVars, gap, drift>>

(* Someone else's template of the same name appears, or any template is    *)
(* deleted by hand.                                                        *)
OthersCreateTemplate(k) ==
    /\ tmpl[k] = NoObj
    /\ tmpl' = [tmpl EXCEPT ![k] = [owner |-> Foreign, bounds |-> NoObj,
                                    backend |-> "llmfit.ai"]]
    /\ drift' = drift \union {k}
    /\ gap' = [gap EXCEPT ![k] = "none"]
    /\ UNCHANGED <<mc, pool, db, immutable, uids, ctlVars>>

OthersDeleteTemplate(k) ==
    /\ tmpl[k] # NoObj
    /\ tmpl' = [tmpl EXCEPT ![k] = NoObj]
    /\ drift' = drift \union {k}
    /\ UNCHANGED <<mc, pool, db, immutable, uids, ctlVars, gap>>

(* ownerReference garbage collection: the owning incarnation is gone.      *)
GarbageCollect(k) ==
    /\ tmpl[k] # NoObj /\ tmpl[k].owner # Foreign
    /\ mc[k] # NoObj => mc[k].uid # tmpl[k].owner
    /\ tmpl' = [tmpl EXCEPT ![k] = NoObj]
    /\ drift' = drift \union {k}
    /\ UNCHANGED <<mc, pool, db, immutable, uids, ctlVars, gap>>

PoolChange(b, fit) ==
    /\ fit # pool[b]
    /\ pool' = [pool EXCEPT ![b] = fit]
    /\ UNCHANGED <<mc, tmpl, db, immutable, uids, ctlVars, gap, drift>>

ModelDBMoves ==
    /\ db' = db + 1
    /\ UNCHANGED <<mc, tmpl, pool, immutable, uids, ctlVars, gap, drift>>

-----------------------------------------------------------------------------
(* Informers.  A store is updated before its handler runs; a delete has no *)
(* handler work to do.                                                     *)

SyncModelClaim_generationOnly(k) ==
    /\ phase = "running" /\ cache[k] # mc[k]
    /\ cache' = [cache EXCEPT ![k] = mc[k]]
    /\ mcNote' = IF mc[k] # NoObj /\ (cache[k] # NoObj => cache[k].gen # mc[k].gen)
                 THEN mcNote \union {k} ELSE mcNote
    /\ UNCHANGED <<apiVars, poolCache, poolNote, queueVars, resolveCache, w,
                   phase, gap, drift>>

SyncModelClaim(k) ==
    /\ phase = "running" /\ cache[k] # mc[k]
    /\ cache' = [cache EXCEPT ![k] = mc[k]]
    /\ mcNote' = IF mc[k] # NoObj THEN mcNote \union {k} ELSE mcNote
    /\ UNCHANGED <<apiVars, poolCache, poolNote, queueVars, resolveCache, w,
                   phase, gap, drift>>

HandleModelClaim(k) ==
    /\ phase = "running" /\ k \in mcNote
    /\ mcNote' = mcNote \ {k}
    /\ Enqueue({k})
    /\ UNCHANGED <<apiVars, cache, poolCache, poolNote, resolveCache, w, phase,
                   gap, drift>>

SyncPool(b) ==
    /\ phase = "running" /\ poolCache[b] # pool[b]
    /\ poolCache' = [poolCache EXCEPT ![b] = pool[b]]
    /\ poolNote' = poolNote \union {b}
    /\ UNCHANGED <<apiVars, cache, mcNote, queueVars, resolveCache, w, phase,
                   gap, drift>>

(* nvidiaTargetsPresent, sliceRelevant and claimRelevant: NVIDIA's churn   *)
(* matters only while a cached ModelClaim targets it.                      *)
Cached == {k \in Keys : cache[k] # NoObj}
nvidiaTargetsPresent == \E k \in Cached : cache[k].spec.backend = "gpu.nvidia.com"
Relevant(b) == b = "llmfit.ai" \/ nvidiaTargetsPresent

HandlePool(b) ==
    /\ phase = "running" /\ b \in poolNote
    /\ poolNote' = poolNote \ {b}
    /\ IF Relevant(b) THEN Enqueue(Cached) ELSE UNCHANGED queueVars
    /\ UNCHANGED <<apiVars, cache, mcNote, poolCache, resolveCache, w, phase,
                   gap, drift>>

(* The ten-minute resync replays every cached object to its handler.       *)
Resync_never ==
    /\ FALSE
    /\ UNCHANGED vars

Resync ==
    /\ phase = "running" /\ ~(Cached \subseteq mcNote)
    /\ mcNote' = mcNote \union Cached
    /\ UNCHANGED <<apiVars, cache, poolCache, poolNote, queueVars, resolveCache,
                   w, phase, gap, drift>>

RetryDue(k) ==
    /\ phase = "running" /\ k \in delayed
    /\ delayed' = delayed \ {k}
    /\ queued' = IF k \in Processing THEN queued ELSE queued \union {k}
    /\ again' = IF k \in Processing THEN again \union {k} ELSE again
    /\ UNCHANGED <<apiVars, informerVars, resolveCache, w, phase, gap, drift>>

-----------------------------------------------------------------------------
(* reconcile, step by step.                                                *)

WorkerFrame == <<mc, pool, db, immutable, uids, informerVars, phase>>

(* queue.Get and the store lookup: a deleted claim is done with, an        *)
(* invalid model is terminal, anything else goes to the resolver.          *)
ProcessNext(x, k) ==
    /\ w[x].pc = "idle" /\ k \in queued
    /\ \/ /\ cache[k] = NoObj
          /\ queued' = queued \ {k}
          /\ UNCHANGED <<w, again, delayed>>
       \/ /\ cache[k] # NoObj
          /\ queued' = queued \ {k}
          /\ w' = [w EXCEPT ![x] =
                     IF ValidModel(cache[k])
                     THEN [Idle EXCEPT !.pc = "resolve", !.key = k,
                                       !.obj = Read(cache[k])]
                     ELSE [Idle EXCEPT !.pc = "getStatus", !.key = k,
                                       !.update = Failed(cache[k], "InvalidModel")]]
          /\ UNCHANGED <<again, delayed>>
    /\ UNCHANGED <<WorkerFrame, tmpl, resolveCache, gap, drift>>

(* resolve's cache lookup; the lock is released while the resolver runs.   *)
LookupBounds(x) ==
    LET t == w[x].obj.spec.tuple IN
    /\ w[x].pc = "resolve"
    /\ w' = [w EXCEPT ![x] =
               IF resolveCache[t] # 0
               THEN [@ EXCEPT !.pc = "getTemplate",
                              !.bounds = [tuple |-> t, db |-> resolveCache[t]]]
               ELSE [@ EXCEPT !.pc = "resolving"]]
    /\ UNCHANGED <<WorkerFrame, queueVars, tmpl, resolveCache, gap, drift>>

ResolveOk(x) ==
    LET t == w[x].obj.spec.tuple
        full == Cardinality({s \in Tuples : resolveCache[s] # 0}) >= ResolveCacheCap
    IN
    /\ w[x].pc = "resolving"
    /\ w' = [w EXCEPT ![x].pc = "getTemplate", ![x].bounds = [tuple |-> t, db |-> db]]
    /\ resolveCache' = [s \in Tuples |-> IF s = t THEN db
                                         ELSE IF full THEN 0 ELSE resolveCache[s]]
    /\ UNCHANGED <<WorkerFrame, queueVars, tmpl, gap, drift>>

ResolveFails_ignored(x) ==
    /\ w[x].pc = "resolving"
    /\ Goto(x, "getTemplate")
    /\ UNCHANGED <<WorkerFrame, tmpl, resolveCache, gap, drift>>

ResolveFails(x) ==
    /\ w[x].pc = "resolving"
    /\ GoUpdateStatus(x, Failed(w[x].obj, "ResolveFailed"), TRUE)
    /\ UNCHANGED <<WorkerFrame, tmpl, resolveCache, gap, drift>>

ResolveExpires(t) ==
    /\ resolveCache[t] # 0
    /\ resolveCache' = [resolveCache EXCEPT ![t] = 0]
    /\ UNCHANGED <<apiVars, informerVars, queueVars, w, phase, gap, drift>>

Desired(x) == BuildTemplate(w[x].obj, w[x].bounds)

(* A recreation that was under way for k is given up; k is retried.        *)
RecreateFails(k) ==
    gap' = [j \in Keys |-> IF j = k /\ gap[j] = "open" THEN "failed" ELSE gap[j]]

(* templates.Get and the switch on what it returned.                       *)
GetTemplate(x) ==
    LET k == w[x].key
        live == tmpl[k]
    IN
    /\ w[x].pc = "getTemplate"
    /\ drift' = drift \ {k}
    /\ \/ live = NoObj /\ Goto(x, "create")
       \/ /\ live # NoObj /\ ~IsControlledBy(live, w[x].obj)
          /\ GoUpdateStatus(x, Failed(w[x].obj, "TemplateConflict"), FALSE)
       \/ /\ live # NoObj /\ IsControlledBy(live, w[x].obj)
          /\ IF TemplateNeedsUpdate(live, Desired(x))
             THEN w' = [w EXCEPT ![x].pc = "update", ![x].live = live]
             ELSE w' = [w EXCEPT ![x].pc = "evaluate"]
          /\ UNCHANGED queueVars
    /\ UNCHANGED <<WorkerFrame, tmpl, resolveCache, gap>>

(* templates.Create, for a missing template or to recreate one; an error   *)
(* when the name is taken or the template invalid.                         *)
CreateTemplate(x) ==
    LET k == w[x].key IN
    /\ w[x].pc = "create"
    /\ IF tmpl[k] = NoObj /\ ~Rejected(w[x].obj)
       THEN /\ tmpl' = [tmpl EXCEPT ![k] = Desired(x)]
            /\ gap' = [gap EXCEPT ![k] = "none"]
            /\ Goto(x, "evaluate")
       ELSE /\ Finish(x, TRUE)
            /\ RecreateFails(k)
            /\ UNCHANGED tmpl
    /\ UNCHANGED <<WorkerFrame, resolveCache, drift>>

(* The update comes back Invalid.                                          *)
Invalid(x) == immutable \/ Rejected(w[x].obj)

UpdateTemplate_unconditional(x) ==
    LET k == w[x].key IN
    /\ w[x].pc = "update"
    /\ \/ /\ tmpl[k] = NoObj
          /\ Finish(x, TRUE)
          /\ UNCHANGED tmpl
       \/ /\ tmpl[k] # NoObj /\ Invalid(x)
          /\ Goto(x, "delete")
          /\ UNCHANGED tmpl
       \/ /\ tmpl[k] # NoObj /\ ~Invalid(x)
          /\ tmpl' = [tmpl EXCEPT ![k] = Desired(x)]
          /\ Goto(x, "evaluate")
    /\ UNCHANGED <<WorkerFrame, resolveCache, gap, drift>>

(* templates.Update of the copy that was read: a conflict if it is not the *)
(* live object any more.  Invalid is taken for an immutable template spec, *)
(* also when the new spec is what the API server rejects.                  *)
UpdateTemplate(x) ==
    LET k == w[x].key IN
    /\ w[x].pc = "update"
    /\ \/ /\ tmpl[k] # w[x].live
          /\ Finish(x, TRUE)
          /\ UNCHANGED tmpl
       \/ /\ tmpl[k] = w[x].live /\ Invalid(x)
          /\ Goto(x, "delete")
          /\ UNCHANGED tmpl
       \/ /\ tmpl[k] = w[x].live /\ ~Invalid(x)
          /\ tmpl' = [tmpl EXCEPT ![k] = [Desired(x) EXCEPT !.owner = w[x].live.owner]]
          /\ Goto(x, "evaluate")
    /\ UNCHANGED <<WorkerFrame, resolveCache, gap, drift>>

(* templates.Delete by name, whatever now has that name.                   *)
DeleteTemplate(x) ==
    LET k == w[x].key IN
    /\ w[x].pc = "delete"
    /\ IF tmpl[k] = NoObj
       THEN /\ Finish(x, TRUE)
            /\ UNCHANGED <<tmpl, gap>>
       ELSE /\ tmpl' = [tmpl EXCEPT ![k] = NoObj]
            /\ gap' = [gap EXCEPT ![k] = "open"]
            /\ Goto(x, "create")
    /\ UNCHANGED <<WorkerFrame, resolveCache, drift>>

(* The slice and claim stores are evaluated into the final status.         *)
EvaluateCandidates(x) ==
    LET m == w[x].obj IN
    /\ w[x].pc = "evaluate"
    /\ GoUpdateStatus(x, Reconciled(m, w[x].bounds, poolCache[m.spec.backend]), FALSE)
    /\ UNCHANGED <<WorkerFrame, tmpl, resolveCache, gap, drift>>

(* updateStatus: a fresh GET by name, the mutation, and a write that must  *)
(* find the object as it was read.  NotFound on the GET and a conflict on  *)
(* the write both count as done.                                           *)
GetStatus(x) ==
    LET k == w[x].key IN
    /\ w[x].pc = "getStatus"
    /\ IF mc[k] = NoObj
       THEN Finish(x, w[x].err)
       ELSE /\ w' = [w EXCEPT ![x].pc = "putStatus", ![x].fresh = mc[k]]
            /\ UNCHANGED queueVars
    /\ UNCHANGED <<WorkerFrame, tmpl, resolveCache, gap, drift>>

WriteStatus(x) ==
    mc' = [mc EXCEPT ![w[x].key].status = Mutate(w[x].fresh.status, w[x].update)]

PutStatus(x) ==
    LET k == w[x].key IN
    /\ w[x].pc = "putStatus"
    /\ \/ /\ mc[k] = NoObj
          /\ Finish(x, TRUE)
          /\ UNCHANGED mc
       \/ /\ mc[k] # NoObj /\ mc[k] # w[x].fresh
          /\ Finish(x, w[x].err)
          /\ UNCHANGED mc
       \/ /\ mc[k] = w[x].fresh
          /\ WriteStatus(x)
          /\ Finish(x, w[x].err)
    /\ UNCHANGED <<tmpl, pool, db, immutable, uids, informerVars, resolveCache,
                   phase, gap, drift>>

CallFails_swallowed(x) ==
    /\ w[x].pc \in {"getTemplate", "create", "update", "delete",
                    "getStatus", "putStatus"}
    /\ Finish(x, FALSE)
    /\ RecreateFails(w[x].key)
    /\ UNCHANGED <<WorkerFrame, tmpl, resolveCache, drift>>

(* Any API call of a reconcile fails: the reconcile returns the error and  *)
(* the key is retried with backoff.  A write that reports failure (a       *)
(* timeout) may have been applied.                                         *)
CallFails(x) ==
    /\ w[x].pc \in {"getTemplate", "create", "update", "delete",
                    "getStatus", "putStatus"}
    /\ Finish(x, TRUE)
    /\ RecreateFails(w[x].key)
    /\ UNCHANGED <<WorkerFrame, tmpl, resolveCache, drift>>

WriteAppliedThenFails(x) ==
    LET k == w[x].key IN
    /\ \/ /\ w[x].pc = "create" /\ tmpl[k] = NoObj /\ ~Rejected(w[x].obj)
          /\ tmpl' = [tmpl EXCEPT ![k] = Desired(x)]
          /\ gap' = [gap EXCEPT ![k] = "none"]
          /\ UNCHANGED mc
       \/ /\ w[x].pc = "update" /\ ~Invalid(x) /\ tmpl[k] = w[x].live
          /\ tmpl' = [tmpl EXCEPT ![k] = [Desired(x) EXCEPT !.owner = w[x].live.owner]]
          /\ UNCHANGED <<mc, gap>>
       \/ /\ w[x].pc = "delete" /\ tmpl[k] # NoObj
          /\ tmpl' = [tmpl EXCEPT ![k] = NoObj]
          /\ gap' = [gap EXCEPT ![k] = "failed"]
          /\ UNCHANGED mc
       \/ /\ w[x].pc = "putStatus" /\ mc[k] = w[x].fresh
          /\ WriteStatus(x)
          /\ UNCHANGED <<tmpl, gap>>
    /\ Finish(x, TRUE)
    /\ UNCHANGED <<pool, db, immutable, uids, informerVars, resolveCache, phase, drift>>

-----------------------------------------------------------------------------
(* The process.  SIGTERM ends the informers and shuts the queue down; the  *)
(* workers finish what is queued before Run returns.  The Deployment's     *)
(* Recreate strategy starts the next controller only then.                 *)

Terminate ==
    /\ phase = "running"
    /\ phase' = "draining"
    /\ UNCHANGED <<apiVars, informerVars, queueVars, resolveCache, w, gap, drift>>

MemoryLost ==
    /\ w' = [x \in Workers |-> Idle]
    /\ queued' = {} /\ again' = {} /\ delayed' = {}
    /\ mcNote' = {} /\ poolNote' = {}
    /\ resolveCache' = [t \in Tuples |-> 0]
    /\ UNCHANGED <<apiVars, cache, poolCache, drift>>

WorkersDone_noWait == queued = {}

(* wg.Wait: every worker has found the queue shut down and empty.          *)
WorkersDone == queued = {} /\ Processing = {}

RunReturns ==
    /\ phase = "draining" /\ WorkersDone
    /\ phase' = "stopped"
    /\ MemoryLost
    /\ UNCHANGED gap

Alive == phase \in {"running", "draining"}

Crash ==
    /\ Alive
    /\ phase' = "crashed"
    /\ MemoryLost
    /\ gap' = [k \in Keys |-> IF gap[k] = "open" THEN "failed" ELSE gap[k]]

(* A new controller lists everything and gets an add for each object.      *)
Start ==
    /\ ~Alive
    /\ phase' = "running"
    /\ cache' = mc /\ poolCache' = pool
    /\ mcNote' = {k \in Keys : mc[k] # NoObj}
    /\ UNCHANGED <<apiVars, poolNote, queueVars, resolveCache, w, gap, drift>>

-----------------------------------------------------------------------------
(* What users, the cluster, the network and the node do to it ...          *)
Disturbance ==
    \/ \E k \in Keys : \/ \E s \in Specs : UserCreate(k, s) \/ UserEdit(k, s)
                       \/ UserLabel(k) \/ UserDelete(k)
                       \/ OthersCreateTemplate(k) \/ OthersDeleteTemplate(k)
    \/ \E b \in Backends, f \in Fits : PoolChange(b, f)
    \/ ModelDBMoves
    \/ \E t \in Tuples : ResolveExpires(t)
    \/ \E x \in Workers : ResolveFails(x) \/ CallFails(x) \/ WriteAppliedThenFails(x)
    \/ Terminate \/ Crash

(* ... and what the controller and the API server's machinery do.          *)
InformerNext ==
    \/ \E k \in Keys : SyncModelClaim(k) \/ HandleModelClaim(k)
    \/ \E b \in Backends : SyncPool(b) \/ HandlePool(b)

WorkerNext(x) ==
    \/ \E k \in Keys : ProcessNext(x, k)
    \/ LookupBounds(x) \/ ResolveOk(x)
    \/ GetTemplate(x) \/ CreateTemplate(x) \/ UpdateTemplate(x) \/ DeleteTemplate(x)
    \/ EvaluateCandidates(x) \/ GetStatus(x) \/ PutStatus(x)

System ==
    \/ InformerNext
    \/ \E k \in Keys : RetryDue(k) \/ GarbageCollect(k)
    \/ \E x \in Workers : WorkerNext(x)
    \/ RunReturns \/ Start

Next == Disturbance \/ System \/ Resync

Spec == Init /\ [][Next]_vars

(* Scheduling the code justifies: the informers deliver, resync and run    *)
(* their handlers, due retries are queued, workers take the next step of   *)
(* what they hold, the garbage collector collects, and the Deployment      *)
(* starts a controller when none runs.                                     *)
Fairness ==
    /\ \A k \in Keys : /\ WF_vars(SyncModelClaim(k)) /\ WF_vars(HandleModelClaim(k))
                       /\ WF_vars(RetryDue(k)) /\ WF_vars(GarbageCollect(k))
    /\ \A b \in Backends : WF_vars(SyncPool(b)) /\ WF_vars(HandlePool(b))
    /\ \A x \in Workers : WF_vars(WorkerNext(x))
    /\ WF_vars(Resync) /\ WF_vars(RunReturns) /\ WF_vars(Start)

-----------------------------------------------------------------------------
(* Properties.                                                             *)

(* Every object, store, queue and worker holds what the code can put       *)
(* there; in particular every template has an owner or is someone else's.  *)
TypeOK ==
    /\ mc \in [Keys -> ModelClaim \union {NoObj}]
    /\ tmpl \in [Keys -> Templates \union {NoObj}]
    /\ pool \in [Backends -> Fits] /\ poolCache \in [Backends -> Fits]
    /\ db \in Nat /\ immutable \in BOOLEAN
    /\ uids \in [Keys -> Nat]
    /\ cache \in [Keys -> ModelClaim \union {NoObj}]
    /\ mcNote \subseteq Keys /\ poolNote \subseteq Backends
    /\ queued \subseteq Keys /\ again \subseteq Keys /\ delayed \subseteq Keys
    /\ resolveCache \in [Tuples -> Nat]
    /\ phase \in {"running", "draining", "stopped", "crashed"}
    /\ gap \in [Keys -> {"none", "open", "failed"}] /\ drift \subseteq Keys

(* Nothing is left to do for k: no notification, no queued or retried key, *)
(* no worker on it, and the stores show what the API server holds.         *)
Settled(k) ==
    /\ phase = "running"
    /\ k \notin queued \union again \union delayed \union mcNote \union Processing
    /\ cache[k] = mc[k] /\ poolCache = pool /\ poolNote = {}

(* The template and the status of k are those its spec calls for.  The     *)
(* template part is conditional on trust: nobody else has touched the      *)
(* template since the controller last read it.                             *)
Current(k, trust) ==
    LET m == mc[k]
        s == m.status
    IN
    /\ s.condGen = m.gen
    /\ \/ /\ s.reason = "Resolved" /\ ValidModel(m)
          /\ s.obs = m.gen /\ s.bounds.tuple = m.spec.tuple
          /\ s.cands = pool[m.spec.backend] /\ s.sat = s.cands
          /\ trust => tmpl[k] = BuildTemplate(m, s.bounds)
       \/ s.reason = "InvalidModel" /\ ~ValidModel(m)
       \/ /\ s.reason = "TemplateConflict" /\ ValidModel(m)
          /\ trust => tmpl[k] # NoObj /\ ~IsControlledBy(tmpl[k], m)

(* Whenever nothing is left to do for a ModelClaim, its conditions belong  *)
(* to its current generation, its candidates to the devices published now, *)
(* and its template to its spec: no conflict that updateStatus swallows,   *)
(* no lost or ignored notification and no edit behind a running reconcile  *)
(* leaves it stale.                                                        *)
SettledIsCurrent ==
    \A k \in Keys : Settled(k) /\ mc[k] # NoObj => Current(k, k \notin drift)

(* A template a ModelClaim owns carries bounds resolved for a model, and   *)
(* those bounds and its device class come from one and the same spec: a    *)
(* failed resolve or an edit between two steps never leaks into it.        *)
TemplateFromOneSpec ==
    \A k \in Keys : tmpl[k] # NoObj /\ tmpl[k].owner # Foreign =>
        \E s \in Specs : /\ tmpl[k].bounds # NoObj
                         /\ tmpl[k].bounds.tuple = s.tuple
                         /\ tmpl[k].backend = s.backend

(* A template the controller deleted to recreate it is never forgotten:    *)
(* until it is back the key is queued, retried, notified or in work.       *)
GapRepairOwed ==
    \A k \in Keys :
        /\ phase = "running" /\ gap[k] # "none" /\ tmpl[k] = NoObj
        /\ mc[k] # NoObj /\ ValidModel(mc[k])
        => ~Settled(k)

(* "shutdown cannot interrupt a template delete-then-recreate mid-flight": *)
(* after a SIGTERM the process is gone only once every deleted template is *)
(* recreated, or the attempt failed.                                       *)
ShutdownKeepsRecreate ==
    phase = "stopped" => \A k \in Keys : gap[k] # "open"

(* No update turns a template over to another owner: a template someone    *)
(* else created is neither adopted nor overwritten, even when it appears   *)
(* between the controller's read and its write.                            *)
OwnerNeverChanges ==
    [][\A k \in Keys : tmpl[k] # NoObj /\ tmpl'[k] # NoObj
                         => tmpl'[k].owner = tmpl[k].owner]_vars

(* The goal of the whole controller.                                       *)
Converged ==
    \A k \in Keys :
        IF mc[k] = NoObj THEN tmpl[k] = NoObj \/ tmpl[k].owner = Foreign
                         ELSE Rejected(mc[k]) \/ Current(k, TRUE)

(* Once disturbances stop, every ModelClaim ends with its template and an  *)
(* up-to-date status, or a conflict with a template that really is someone *)
(* else's, and templates of deleted claims are gone: whatever was edited,  *)
(* deleted, recreated, failed or crashed before, and even though nothing   *)
(* watches the templates (the resync does).  A spec whose template the API *)
(* server rejects is retried without end and excepted here.                *)
EventuallyConverged == <>[]Converged

(* controller.go:374-376 says of a same-named template the controller does *)
(* not own: "never adopt, never update, and above all never                *)
(* delete-recreate it".  No worker step removes a foreign template.        *)
ForeignNeverDeleted ==
    [][\A k \in Keys, x \in Workers :
          tmpl[k] # NoObj /\ tmpl[k].owner = Foreign /\ w'[x] # w[x]
          => tmpl'[k] # NoObj]_vars
=============================================================================
