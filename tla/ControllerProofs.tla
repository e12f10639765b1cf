-------------------------- MODULE ControllerProofs --------------------------
(***************************************************************************)
(* Controller's safety for every number of ModelClaims and workers, every  *)
(* set of specs and every size of the resolve cache.                       *)
(***************************************************************************)
EXTENDS Controller, TLAPS

(* What the workers hold at each step of reconcile.                        *)
Reads == [uid : Nat, gen : Nat, spec : Specs]

Updates == {u \in [reason : {"Resolved"} \union Failures, gen : Nat,
                   bounds : Bounds \union {NoObj}, cands : Fits \union {NoObj}] :
              u.reason = "Resolved" => u.bounds \in Bounds /\ u.cands \in Fits}

WithBounds == {"getTemplate", "create", "update", "delete", "evaluate"}
WithObj == {"resolve", "resolving"} \union WithBounds
WithUpdate == {"getStatus", "putStatus"}

WorkerStates ==
    [pc : {"idle"} \union WithObj \union WithUpdate,
     key : Keys \union {NoObj}, obj : Reads \union {NoObj},
     bounds : Bounds \union {NoObj}, live : Templates \union {NoObj},
     update : Updates \union {NoObj}, fresh : ModelClaim \union {NoObj},
     err : BOOLEAN]

Coherent(r) ==
    /\ r.pc # "idle" => r.key \in Keys
    /\ r.pc \in WithObj => r.obj \in Reads /\ r.obj.spec.tuple \in Tuples
    /\ r.pc \in WithBounds => r.bounds \in Bounds /\ r.bounds.tuple = r.obj.spec.tuple
    /\ r.pc = "update" => r.live \in Templates /\ r.live.owner = r.obj.uid
    /\ r.pc \in WithUpdate => r.update \in Updates
    /\ r.pc = "putStatus" => r.fresh \in ModelClaim

WorkersOK == w \in [Workers -> WorkerStates] /\ \A x \in Workers : Coherent(w[x])

(* The workqueue gives a key to one worker at a time, and a controller     *)
(* that is not there has neither queue nor workers.                        *)
OneWorker ==
    /\ \A x, y \in Workers :
          w[x].pc # "idle" /\ w[y].pc # "idle" /\ w[x].key = w[y].key => x = y
    /\ \A x \in Workers : w[x].pc # "idle" => w[x].key \notin queued
    /\ ~Alive => queued = {} /\ \A x \in Workers : w[x].pc = "idle"

(* An informer's store is never ahead of the API server.                   *)
NeverAhead ==
    \A k \in Keys :
        /\ mc[k] # NoObj => mc[k].uid \leq uids[k]
        /\ cache[k] # NoObj => cache[k].uid \leq uids[k]
        /\ cache[k] # NoObj /\ mc[k] # NoObj /\ cache[k].uid = mc[k].uid
           => cache[k].gen \leq mc[k].gen /\ (cache[k].label => mc[k].label)

(* A template the controller has deleted is not there, and as long as the  *)
(* attempt has not failed a worker is about to create it.                  *)
GapIsEmpty ==
    \A k \in Keys :
        /\ gap[k] # "none" => tmpl[k] = NoObj
        /\ gap[k] = "open" => \E x \in Workers : w[x].pc = "create" /\ w[x].key = k

(* Update u is what a reconcile of m should report.                        *)
Reports(m, k, u) ==
    /\ u.gen = m.gen
    /\ \/ /\ u.reason = "Resolved" /\ ValidModel(m) /\ gap[k] = "none"
          /\ u.bounds.tuple = m.spec.tuple
          /\ u.cands = poolCache[m.spec.backend] \/ m.spec.backend \in poolNote
          /\ k \notin drift => tmpl[k] = BuildTemplate(m, u.bounds)
       \/ u.reason = "InvalidModel" /\ ~ValidModel(m)
       \/ /\ u.reason = "TemplateConflict" /\ ValidModel(m) /\ gap[k] = "none"
          /\ k \notin drift => tmpl[k] # NoObj /\ ~IsControlledBy(tmpl[k], m)

(* The claim is reconciled again after the reconcile that is under way.    *)
Redo(k) == cache[k] = NoObj \/ k \in mcNote \/ k \in again

(* A reconcile works on the cached object, or is done again.               *)
WorkCurrent(x) ==
    LET k == w[x].key IN
    /\ w[x].pc \in WithObj => Redo(k) \/ Read(cache[k]) = w[x].obj
    /\ w[x].pc = "evaluate" => /\ gap[k] = "none"
                               /\ k \notin drift => tmpl[k] = Desired(x)
    /\ w[x].pc \in WithUpdate /\ ~w[x].err
       => Redo(k) \/ Reports(cache[k], k, w[x].update)

WorkIsCurrent == \A x \in Workers : WorkCurrent(x)

(* A status write that comes too late is of a reconcile that is done again.*)
Conflicted(x) ==
    LET k == w[x].key IN
    w[x].pc = "putStatus"
    => mc[k] = NoObj \/ mc[k] = w[x].fresh \/ cache[k] # mc[k] \/ Redo(k)

ConflictRedone == \A x \in Workers : Conflicted(x)

(* Nothing in the queue is left to do for k.                               *)
Quiet(k) ==
    /\ phase = "running" /\ mc[k] # NoObj /\ cache[k] = mc[k]
    /\ k \notin queued /\ k \notin again /\ k \notin delayed /\ k \notin mcNote
    /\ \A x \in Workers : w[x].pc # "idle" => w[x].key # k

AsUpdate(s) == [reason |-> s.reason, gen |-> s.condGen,
                bounds |-> s.bounds, cands |-> s.cands]

StatusCurrent(k) ==
    LET s == mc[k].status IN
    /\ Reports(mc[k], k, AsUpdate(s))
    /\ s.reason = "Resolved" => s.obs = mc[k].gen /\ s.sat = s.cands

QuietIsCurrent == \A k \in Keys : Quiet(k) => StatusCurrent(k)

IndInv ==
    /\ TypeOK /\ WorkersOK /\ OneWorker /\ NeverAhead /\ GapIsEmpty
    /\ TemplateFromOneSpec /\ WorkIsCurrent /\ ConflictRedone /\ QuietIsCurrent

(* A worker that waits for a key is well-formed.                           *)
LEMMA IdleOK == Idle \in WorkerStates /\ Coherent(Idle)
BY DEF Idle, WorkerStates, Coherent, WithObj, WithBounds, WithUpdate

(* The initial state satisfies the inductive invariant.                    *)
LEMMA InitIndInv == Init => IndInv
<1> SUFFICES ASSUME Init PROVE IndInv
  OBVIOUS
<1> USE ControllerAssumption, NoObjAssumption DEF Init
<1>1. \A s \in Specs : NewClaim(1, s) \in ModelClaim
  BY DEF NewClaim, ModelClaim, NoStatus, Status, Failures
<1>2. TypeOK
  BY <1>1 DEF TypeOK, Fits
<1>3. WorkersOK
  BY IdleOK DEF WorkersOK
<1>4. \A x \in Workers : w[x].pc = "idle"
  BY DEF Idle
<1>5. OneWorker /\ WorkIsCurrent /\ ConflictRedone
  BY <1>4 DEF OneWorker, WorkIsCurrent, WorkCurrent, ConflictRedone, Conflicted, WithObj, WithBounds, WithUpdate
<1>6. NeverAhead
  BY DEF NeverAhead, NewClaim
<1>7. GapIsEmpty /\ TemplateFromOneSpec /\ QuietIsCurrent
  BY DEF GapIsEmpty, TemplateFromOneSpec, QuietIsCurrent, Quiet
<1> QED
  BY <1>2, <1>3, <1>5, <1>6, <1>7 DEF IndInv

(* A worker that moves to a coherent state keeps the workers' types.       *)
LEMMA WorkerMoves ==
    ASSUME WorkersOK, NEW x \in Workers, NEW r \in WorkerStates, Coherent(r),
           w' = [w EXCEPT ![x] = r]
    PROVE  WorkersOK'
BY DEF WorkersOK

(* What the workers hold keeps its type and its coherence.                 *)
LEMMA StepWorkers ==
    ASSUME TypeOK, WorkersOK, [Next]_vars
    PROVE  WorkersOK'
<1> USE ControllerAssumption, NoObjAssumption
<1>1. CASE UNCHANGED w
  BY <1>1 DEF WorkersOK
<1>2. CASE \E x \in Workers : w' = [w EXCEPT ![x] = Idle]
  BY <1>2, WorkerMoves, IdleOK
<1>3. CASE MemoryLost
  BY <1>3, IdleOK DEF MemoryLost, WorkersOK
<1>4. ASSUME NEW x \in Workers, NEW u \in Updates, NEW err \in BOOLEAN,
             w[x].pc # "idle", GoUpdateStatus(x, u, err)
      PROVE  WorkersOK'
  <2> DEFINE r == [Idle EXCEPT !.pc = "getStatus", !.key = w[x].key,
                               !.update = u, !.err = err]
  <2>1. w[x] \in WorkerStates /\ Coherent(w[x])
    BY DEF WorkersOK
  <2>2. w[x].key \in Keys
    BY <1>4, <2>1 DEF Coherent
  <2>3. r.pc = "getStatus" /\ r.key = w[x].key /\ r.update = u
    BY DEF Idle
  <2>4. w' = [w EXCEPT ![x] = r]
    BY <1>4 DEF GoUpdateStatus
  <2>5. r \in WorkerStates
    BY <2>2, IdleOK DEF WorkerStates, WithUpdate
  <2> HIDE DEF r
  <2>6. Coherent(r)
    BY <1>4, <2>2, <2>3 DEF Coherent, WithObj, WithBounds, WithUpdate
  <2> QED
    BY <2>4, <2>5, <2>6, WorkerMoves
<1>5. ASSUME NEW x \in Workers, NEW k \in Keys, ProcessNext(x, k)
      PROVE  WorkersOK'
  <2>1. CASE cache[k] = NoObj
    BY <1>5, <2>1, <1>1 DEF ProcessNext
  <2>2. CASE cache[k] # NoObj
    <3>1. cache[k] \in ModelClaim
      BY <2>2 DEF TypeOK
    <3>2. Read(cache[k]) \in Reads
      BY <3>1 DEF Read, Reads, ModelClaim
    <3>3. Failed(cache[k], "InvalidModel") \in Updates
      BY <3>1 DEF Failed, Updates, ModelClaim, Failures
    <3> DEFINE a == [Idle EXCEPT !.pc = "resolve", !.key = k, !.obj = Read(cache[k])]
               b == [Idle EXCEPT !.pc = "getStatus", !.key = k,
                                 !.update = Failed(cache[k], "InvalidModel")]
    <3>4. ValidModel(cache[k]) => a \in WorkerStates /\ Coherent(a)
      BY <3>2 DEF ValidModel, Read, Idle, WorkerStates, Coherent, WithObj, WithBounds, WithUpdate
    <3>5. b \in WorkerStates /\ Coherent(b)
      BY <3>3 DEF Idle, WorkerStates, Coherent, WithObj, WithBounds, WithUpdate
    <3>6. w' = [w EXCEPT ![x] = IF ValidModel(cache[k]) THEN a ELSE b]
      BY <1>5, <2>2 DEF ProcessNext
    <3> HIDE DEF a, b
    <3> QED
      BY <3>4, <3>5, <3>6, WorkerMoves
  <2> QED
    BY <2>1, <2>2
<1>6. ASSUME NEW x \in Workers, LookupBounds(x) \/ ResolveOk(x)
      PROVE  WorkersOK'
  <2>1. w[x] \in WorkerStates /\ Coherent(w[x])
    BY DEF WorkersOK
  <2> DEFINE t == w[x].obj.spec.tuple
  <2>2. t \in Tuples
    BY <1>6, <2>1 DEF LookupBounds, ResolveOk, Coherent, WithObj
  <2>3. PICK n \in Nat : \/ w' = [w EXCEPT ![x] = [w[x] EXCEPT !.pc = "resolving"]]
                         \/ w' = [w EXCEPT ![x] = [w[x] EXCEPT !.pc = "getTemplate",
                                                     !.bounds = [tuple |-> t, db |-> n]]]
    BY <1>6, <2>1, <2>2 DEF LookupBounds, ResolveOk, TypeOK, WorkersOK
  <2>4. w[x].pc \in {"resolve", "resolving"}
    BY <1>6 DEF LookupBounds, ResolveOk
  <2>5. [w[x] EXCEPT !.pc = "resolving"] \in WorkerStates
        /\ Coherent([w[x] EXCEPT !.pc = "resolving"])
    BY <2>1, <2>4 DEF WorkerStates, Coherent, WithObj, WithBounds, WithUpdate
  <2>6. [tuple |-> t, db |-> n] \in Bounds
    BY <2>2 DEF Bounds
  <2>7. [w[x] EXCEPT !.pc = "getTemplate", !.bounds = [tuple |-> t, db |-> n]] \in WorkerStates
        /\ Coherent([w[x] EXCEPT !.pc = "getTemplate", !.bounds = [tuple |-> t, db |-> n]])
    BY <2>1, <2>4, <2>6 DEF WorkerStates, Coherent, WithObj, WithBounds, WithUpdate
  <2> QED
    BY <2>3, <2>5, <2>7, WorkerMoves
<1>7. ASSUME NEW x \in Workers, NEW pc \in {"create", "evaluate", "delete"},
             w[x].pc \in WithBounds, w' = [w EXCEPT ![x].pc = pc]
      PROVE  WorkersOK'
  <2>1. w[x] \in WorkerStates /\ Coherent(w[x])
    BY DEF WorkersOK
  <2>2. [w[x] EXCEPT !.pc = pc] \in WorkerStates /\ Coherent([w[x] EXCEPT !.pc = pc])
    BY <1>7, <2>1 DEF WorkerStates, Coherent, WithObj, WithBounds, WithUpdate
  <2>3. w' = [w EXCEPT ![x] = [w[x] EXCEPT !.pc = pc]]
    BY <1>7
  <2> QED
    BY <2>2, <2>3, WorkerMoves
<1>8. ASSUME NEW x \in Workers, GetTemplate(x)
      PROVE  WorkersOK'
  <2>1. w[x] \in WorkerStates /\ Coherent(w[x])
    BY DEF WorkersOK
  <2>2. /\ w[x].pc = "getTemplate" /\ w[x].pc \in WithBounds /\ w[x].pc # "idle"
        /\ w[x].key \in Keys /\ w[x].obj \in Reads
    BY <1>8, <2>1 DEF GetTemplate, Coherent, WithObj, WithBounds
  <2>3. CASE Goto(x, "create") \/ w' = [w EXCEPT ![x].pc = "evaluate"]
    BY <2>2, <2>3, <1>7 DEF Goto
  <2>4. CASE GoUpdateStatus(x, Failed(w[x].obj, "TemplateConflict"), FALSE)
    <3>1. Failed(w[x].obj, "TemplateConflict") \in Updates
      BY <2>2 DEF Failed, Updates, Reads, Failures
    <3> QED
      BY <2>2, <2>4, <3>1, <1>4
  <2>5. CASE /\ tmpl[w[x].key] # NoObj /\ IsControlledBy(tmpl[w[x].key], w[x].obj)
             /\ w' = [w EXCEPT ![x].pc = "update", ![x].live = tmpl[w[x].key]]
    <3> DEFINE r == [w[x] EXCEPT !.pc = "update", !.live = tmpl[w[x].key]]
    <3>1. tmpl[w[x].key] \in Templates
      BY <2>2, <2>5 DEF TypeOK
    <3>2. r \in WorkerStates /\ Coherent(r)
      BY <2>1, <2>2, <2>5, <3>1
         DEF IsControlledBy, WorkerStates, Coherent, WithObj, WithBounds, WithUpdate
    <3>3. w' = [w EXCEPT ![x] = r]
      BY <2>5
    <3> QED
      BY <3>2, <3>3, WorkerMoves
  <2> QED
    BY <1>8, <2>3, <2>4, <2>5 DEF GetTemplate
<1>9. ASSUME NEW x \in Workers, CreateTemplate(x) \/ UpdateTemplate(x) \/ DeleteTemplate(x)
      PROVE  WorkersOK'
  BY <1>2, <1>7, <1>9
     DEF CreateTemplate, UpdateTemplate, DeleteTemplate, Finish, Goto, WithBounds
<1>10. ASSUME NEW x \in Workers, EvaluateCandidates(x) \/ ResolveFails(x)
      PROVE  WorkersOK'
  <2>1. w[x] \in WorkerStates /\ Coherent(w[x])
    BY DEF WorkersOK
  <2>2. w[x].pc # "idle" /\ w[x].obj \in Reads
    BY <1>10, <2>1 DEF EvaluateCandidates, ResolveFails, Coherent, WithObj, WithBounds
  <2>3. CASE ResolveFails(x)
    <3>1. Failed(w[x].obj, "ResolveFailed") \in Updates
      BY <2>2 DEF Failed, Updates, Reads, Failures
    <3> QED
      BY <2>2, <2>3, <3>1, <1>4 DEF ResolveFails
  <2>4. CASE EvaluateCandidates(x)
    <3> DEFINE fit == poolCache[w[x].obj.spec.backend]
    <3>1. w[x].bounds \in Bounds
      BY <2>1, <2>4 DEF EvaluateCandidates, Coherent, WithBounds
    <3>2. fit \in Fits
      BY <2>2 DEF TypeOK, Reads
    <3>3. Reconciled(w[x].obj, w[x].bounds, fit) \in Updates
      BY <2>2, <3>1, <3>2 DEF Reconciled, Updates, Reads
    <3> QED
      BY <2>2, <2>4, <3>3, <1>4 DEF EvaluateCandidates
  <2> QED
    BY <1>10, <2>3, <2>4
<1>11. ASSUME NEW x \in Workers, GetStatus(x) \/ PutStatus(x)
      PROVE  WorkersOK'
  <2>1. w[x] \in WorkerStates /\ Coherent(w[x])
    BY DEF WorkersOK
  <2>2. CASE /\ w[x].pc = "getStatus" /\ mc[w[x].key] # NoObj
             /\ w' = [w EXCEPT ![x].pc = "putStatus", ![x].fresh = mc[w[x].key]]
    <3> DEFINE r == [w[x] EXCEPT !.pc = "putStatus", !.fresh = mc[w[x].key]]
    <3>1. mc[w[x].key] \in ModelClaim
      BY <2>1, <2>2 DEF TypeOK, Coherent
    <3>2. r \in WorkerStates /\ Coherent(r)
      BY <2>1, <2>2, <3>1 DEF WorkerStates, Coherent, WithObj, WithBounds, WithUpdate
    <3>3. w' = [w EXCEPT ![x] = r]
      BY <2>2
    <3> QED
      BY <3>2, <3>3, WorkerMoves
  <2> QED
    BY <1>11, <1>2, <2>2 DEF GetStatus, PutStatus, Finish
<1>12. ASSUME NEW x \in Workers, CallFails(x) \/ WriteAppliedThenFails(x)
      PROVE  WorkersOK'
  BY <1>12, <1>2 DEF CallFails, WriteAppliedThenFails, Finish
<1>13. ASSUME NEW x \in Workers, WorkerNext(x)
      PROVE  WorkersOK'
  BY <1>5, <1>6, <1>8, <1>9, <1>10, <1>11, <1>13 DEF WorkerNext
<1>14. CASE Disturbance
  <2>1. ASSUME NEW k \in Keys, NEW s \in Specs,
               \/ UserCreate(k, s) \/ UserEdit(k, s) \/ UserLabel(k) \/ UserDelete(k)
               \/ OthersCreateTemplate(k) \/ OthersDeleteTemplate(k)
        PROVE  UNCHANGED w
    BY <2>1 DEF UserCreate, UserEdit, UserLabel, UserDelete, OthersCreateTemplate,
                OthersDeleteTemplate, ctlVars
  <2>2. ASSUME NEW k \in Keys,
               \/ UserLabel(k) \/ UserDelete(k)
               \/ OthersCreateTemplate(k) \/ OthersDeleteTemplate(k)
        PROVE  UNCHANGED w
    BY <2>2 DEF UserLabel, UserDelete, OthersCreateTemplate, OthersDeleteTemplate, ctlVars
  <2>3. CASE (\E b \in Backends, f \in Fits : PoolChange(b, f)) \/ ModelDBMoves
    BY <1>1, <2>3 DEF PoolChange, ModelDBMoves, ctlVars
  <2>4. CASE (\E t \in Tuples : ResolveExpires(t)) \/ Terminate
    BY <1>1, <2>4 DEF ResolveExpires, Terminate
  <2>5. CASE Crash
    BY <1>3, <2>5 DEF Crash
  <2> QED
    BY <1>1, <1>10, <1>12, <1>14, <2>1, <2>2, <2>3, <2>4, <2>5 DEF Disturbance
<1>15. CASE InformerNext
  BY <1>1, <1>15 DEF InformerNext, SyncModelClaim, HandleModelClaim, SyncPool, HandlePool
<1>16. CASE \E k \in Keys : RetryDue(k) \/ GarbageCollect(k)
  BY <1>1, <1>16 DEF RetryDue, GarbageCollect, ctlVars
<1>17. CASE Start \/ Resync \/ UNCHANGED vars
  BY <1>1, <1>17 DEF Start, Resync, vars
<1>18. CASE RunReturns
  BY <1>3, <1>18 DEF RunReturns
<1> QED
  BY <1>13, <1>14, <1>15, <1>16, <1>17, <1>18 DEF Next, System

-----------------------------------------------------------------------------
(* The steps by who takes them.                                            *)
UserStep(k) ==
    (\E s \in Specs : UserCreate(k, s) \/ UserEdit(k, s)) \/ UserLabel(k) \/ UserDelete(k)

TemplateStep(k) == OthersCreateTemplate(k) \/ OthersDeleteTemplate(k) \/ GarbageCollect(k)

WorldStep ==
    \/ \E b \in Backends, f \in Fits : PoolChange(b, f)
    \/ ModelDBMoves
    \/ \E t \in Tuples : ResolveExpires(t)

KeyStep(k) == SyncModelClaim(k) \/ HandleModelClaim(k) \/ RetryDue(k)

PoolStep(b) == SyncPool(b) \/ HandlePool(b)

TemplateWork(x) == CreateTemplate(x) \/ UpdateTemplate(x) \/ DeleteTemplate(x)

FailedWork(x) == ResolveFails(x) \/ CallFails(x) \/ WriteAppliedThenFails(x)

(* Every step of the controller and its surroundings is one of these.      *)
LEMMA StepCases ==
    ASSUME [Next]_vars
    PROVE  \/ \E k \in Keys : UserStep(k) \/ TemplateStep(k) \/ KeyStep(k)
           \/ \E b \in Backends : PoolStep(b)
           \/ \E x \in Workers : WorkerNext(x) \/ FailedWork(x)
           \/ WorldStep \/ Terminate \/ Crash \/ RunReturns \/ Start \/ Resync
           \/ UNCHANGED vars
BY DEF Next, Disturbance, System, InformerNext, UserStep, TemplateStep, WorldStep,
       KeyStep, PoolStep, FailedWork

(* The API objects, stores and queues keep their types.                    *)
LEMMA StepType ==
    ASSUME TypeOK, WorkersOK, [Next]_vars
    PROVE  TypeOK'
<1> USE ControllerAssumption, NoObjAssumption
<1> USE DEF TypeOK
<1>1. ASSUME NEW k \in Keys, UserStep(k) PROVE TypeOK'
  <2>1. UNCHANGED <<tmpl, pool, db, immutable, ctlVars, gap, drift>>
    BY <1>1 DEF UserStep, UserCreate, UserEdit, UserLabel, UserDelete
  <2>2. \A n \in Nat, s \in Specs : NewClaim(n, s) \in ModelClaim
    BY DEF NewClaim, ModelClaim, NoStatus, Status, Failures
  <2>3. ASSUME NEW m \in ModelClaim, NEW s \in Specs
        PROVE  [m EXCEPT !.spec = s, !.gen = m.gen + 1] \in ModelClaim
    <3>1. m.gen + 1 \in Nat
      BY DEF ModelClaim
    <3> DEFINE n == m.gen + 1
    <3> HIDE DEF n
    <3>2. [m EXCEPT !.spec = s, !.gen = n] \in ModelClaim
      BY <3>1 DEF ModelClaim, n
    <3> QED
      BY <3>2 DEF n
  <2>3a. ASSUME NEW m \in ModelClaim
         PROVE  [m EXCEPT !.label = TRUE] \in ModelClaim
    BY DEF ModelClaim
  <2>4. mc' \in [Keys -> ModelClaim \union {NoObj}] /\ uids' \in [Keys -> Nat]
    <3>1. CASE \E s \in Specs : UserCreate(k, s)
      BY <3>1, <2>2 DEF UserCreate
    <3>2. CASE \E s \in Specs : UserEdit(k, s)
      <4>1. PICK s \in Specs : UserEdit(k, s)
        BY <3>2
      <4>2. mc[k] \in ModelClaim /\ mc' = [mc EXCEPT ![k] = [mc[k] EXCEPT !.spec = s, !.gen = mc[k].gen + 1]]
        BY <4>1 DEF UserEdit
      <4> DEFINE m == [mc[k] EXCEPT !.spec = s, !.gen = mc[k].gen + 1]
      <4>3. m \in ModelClaim /\ mc' = [mc EXCEPT ![k] = m] /\ uids' = uids
        BY <4>1, <4>2, <2>3 DEF UserEdit
      <4> HIDE DEF m
      <4> QED
        BY <4>3
    <3>3. CASE UserLabel(k)
      <4>1. mc[k] \in ModelClaim /\ mc' = [mc EXCEPT ![k] = [mc[k] EXCEPT !.label = TRUE]]
        BY <3>3 DEF UserLabel
      <4> QED
        BY <3>3, <4>1, <2>3a DEF UserLabel
    <3>4. CASE UserDelete(k)
      BY <3>4 DEF UserDelete
    <3> QED
      BY <1>1, <3>1, <3>2, <3>3, <3>4 DEF UserStep
  <2> QED
    BY <2>1, <2>4 DEF ctlVars, informerVars, queueVars
<1>2. ASSUME NEW k \in Keys, TemplateStep(k) PROVE TypeOK'
  <2>1. UNCHANGED <<mc, pool, db, immutable, uids, ctlVars>> /\ drift' = drift \union {k}
    BY <1>2 DEF TemplateStep, OthersCreateTemplate, OthersDeleteTemplate, GarbageCollect
  <2>2. [owner |-> Foreign, bounds |-> NoObj, backend |-> "llmfit.ai"] \in Templates
    BY DEF Templates, Foreign, Backends
  <2>3. tmpl' \in [Keys -> Templates \union {NoObj}]
        /\ gap' \in [Keys -> {"none", "open", "failed"}]
    BY <1>2, <2>2 DEF TemplateStep, OthersCreateTemplate, OthersDeleteTemplate, GarbageCollect
  <2> QED
    BY <2>1, <2>3 DEF ctlVars, informerVars, queueVars
<1>3. ASSUME NEW k \in Keys, KeyStep(k) PROVE TypeOK'
  BY <1>3 DEF KeyStep, SyncModelClaim, HandleModelClaim, RetryDue, Enqueue,
              apiVars, informerVars, queueVars
<1>4. ASSUME NEW b \in Backends, PoolStep(b) PROVE TypeOK'
  BY <1>4 DEF PoolStep, SyncPool, HandlePool, Enqueue, Cached, apiVars, informerVars, queueVars
<1>5. CASE WorldStep
  BY <1>5 DEF WorldStep, PoolChange, ModelDBMoves, ResolveExpires, apiVars, informerVars,
              ctlVars, queueVars
<1>6. CASE Terminate \/ Start \/ Resync \/ UNCHANGED vars
  BY <1>6 DEF Terminate, Start, Resync, vars, Cached, apiVars, informerVars, queueVars
<1>7. CASE Crash \/ RunReturns
  BY <1>7 DEF Crash, RunReturns, MemoryLost, apiVars
<1>8. ASSUME NEW x \in Workers, WorkerNext(x) \/ FailedWork(x) PROVE TypeOK'
  <2> DEFINE k == w[x].key
  <2>1. w[x] \in WorkerStates /\ Coherent(w[x])
    BY DEF WorkersOK
  <2>2. CASE \E j \in Keys : ProcessNext(x, j)
    BY <2>2 DEF ProcessNext, WorkerFrame, informerVars
  <2>3. CASE LookupBounds(x)
    BY <2>3 DEF LookupBounds, WorkerFrame, informerVars, queueVars
  <2>3a. CASE ResolveOk(x)
    <3>1. resolveCache' \in [Tuples -> Nat]
      BY <2>3a DEF ResolveOk
    <3> QED
      BY <2>3a, <3>1 DEF ResolveOk, WorkerFrame, informerVars, queueVars
  <2>4. w[x].pc \in WithBounds => k \in Keys /\ Desired(x) \in Templates
    BY <2>1 DEF Coherent, Desired, BuildTemplate, Templates, Reads, WithObj, WithBounds
  <2>5. w[x].pc = "update" => [Desired(x) EXCEPT !.owner = w[x].live.owner] \in Templates
    BY <2>1, <2>4 DEF Coherent, Templates, WithBounds
  <2>6. w[x].pc \in WithUpdate => k \in Keys
    BY <2>1 DEF Coherent, WithUpdate
  <2>7. ASSUME NEW err \in BOOLEAN, Finish(x, err), k \in Keys
        PROVE  queued' \subseteq Keys /\ again' \subseteq Keys /\ delayed' \subseteq Keys
    BY <2>7 DEF Finish
  <2>8. w[x].pc = "putStatus" => [w[x].fresh EXCEPT !.status = Mutate(@, w[x].update)] \in ModelClaim
    <3>1. SUFFICES ASSUME w[x].pc = "putStatus"
                   PROVE  [w[x].fresh EXCEPT !.status = Mutate(@, w[x].update)] \in ModelClaim
      OBVIOUS
    <3> DEFINE u == w[x].update
               s == w[x].fresh.status
    <3>2. u \in Updates /\ s \in Status
      BY <2>1, <3>1 DEF Coherent, WithUpdate, ModelClaim
    <3>3. Mutate(s, u) \in Status
      BY <3>2 DEF Mutate, Status, Updates
    <3> QED
      BY <2>1, <3>1, <3>3 DEF Coherent, ModelClaim
  <2>9. CASE GetTemplate(x) \/ EvaluateCandidates(x) \/ GetStatus(x) \/ ResolveFails(x)
    <3>1. k \in Keys
      BY <2>1, <2>9 DEF GetTemplate, EvaluateCandidates, GetStatus, ResolveFails, Coherent
    <3>2. w[x].err \in BOOLEAN
      BY <2>1 DEF WorkerStates
    <3>3. UNCHANGED queueVars \/ Finish(x, w[x].err)
      BY <2>9 DEF GetTemplate, EvaluateCandidates, GetStatus, ResolveFails, Goto, GoUpdateStatus
    <3>4. UNCHANGED <<WorkerFrame, tmpl, resolveCache, gap>> /\ drift' \subseteq Keys
      BY <2>9 DEF GetTemplate, EvaluateCandidates, GetStatus, ResolveFails
    <3> QED
      BY <2>7, <3>1, <3>2, <3>3, <3>4 DEF WorkerFrame, informerVars, queueVars
  <2>10. CASE TemplateWork(x)
    <3>1. w[x].pc \in {"create", "update", "delete"} /\ w[x].pc \in WithBounds
      BY <2>10 DEF TemplateWork, CreateTemplate, UpdateTemplate, DeleteTemplate, WithBounds
    <3>2. UNCHANGED queueVars \/ Finish(x, TRUE)
      BY <2>10 DEF TemplateWork, CreateTemplate, UpdateTemplate, DeleteTemplate, Goto
    <3>3. UNCHANGED <<WorkerFrame, resolveCache, drift>>
      BY <2>10 DEF TemplateWork, CreateTemplate, UpdateTemplate, DeleteTemplate
    <3>4. gap' \in [Keys -> {"none", "open", "failed"}]
      BY <2>10 DEF TemplateWork, CreateTemplate, UpdateTemplate, DeleteTemplate, RecreateFails
    <3>5. tmpl' \in [Keys -> Templates \union {NoObj}]
      <4> HIDE DEF Desired
      <4> QED
        BY <2>4, <2>5, <2>10, <3>1 DEF TemplateWork, CreateTemplate, UpdateTemplate, DeleteTemplate
    <3> QED
      BY <2>4, <2>7, <3>1, <3>2, <3>3, <3>4, <3>5 DEF WorkerFrame, informerVars, queueVars
  <2>11. CASE PutStatus(x) \/ CallFails(x) \/ WriteAppliedThenFails(x)
    <3>1. w[x].err \in BOOLEAN /\ k \in Keys
      BY <2>1, <2>11 DEF WorkerStates, Coherent, PutStatus, CallFails, WriteAppliedThenFails
    <3>2. Finish(x, TRUE) \/ Finish(x, w[x].err)
      BY <2>11 DEF PutStatus, CallFails, WriteAppliedThenFails
    <3>3. UNCHANGED <<pool, db, immutable, uids, informerVars, resolveCache, phase, drift>>
      BY <2>11 DEF PutStatus, CallFails, WriteAppliedThenFails, WorkerFrame
    <3>4. gap' \in [Keys -> {"none", "open", "failed"}]
      BY <2>11 DEF PutStatus, CallFails, WriteAppliedThenFails, RecreateFails
    <3>5. tmpl' \in [Keys -> Templates \union {NoObj}]
      <4>1. CASE tmpl' = tmpl
        BY <4>1
      <4>2. CASE WriteAppliedThenFails(x)
        BY <2>4, <2>5, <4>2 DEF WriteAppliedThenFails, WithBounds
      <4> QED
        BY <2>11, <4>1, <4>2 DEF PutStatus, CallFails
    <3>6. mc' \in [Keys -> ModelClaim \union {NoObj}]
      <4>1. CASE mc' = mc
        BY <4>1
      <4>2. CASE w[x].pc = "putStatus" /\ mc[k] = w[x].fresh /\ WriteStatus(x)
        <5> DEFINE m == [w[x].fresh EXCEPT !.status = Mutate(@, w[x].update)]
        <5>1. m \in ModelClaim
          BY <2>8, <4>2
        <5>2. mc' = [mc EXCEPT ![k] = m]
          BY <3>1, <4>2 DEF WriteStatus
        <5> HIDE DEF m
        <5> QED
          BY <5>1, <5>2
      <4> QED
        BY <2>11, <4>1, <4>2 DEF PutStatus, CallFails, WriteAppliedThenFails, WorkerFrame
    <3> QED
      BY <2>7, <3>1, <3>2, <3>3, <3>4, <3>5, <3>6 DEF informerVars
  <2> QED
    BY <1>8, <2>2, <2>3, <2>3a, <2>9, <2>10, <2>11 DEF WorkerNext, FailedWork, TemplateWork
<1> QED
  BY <1>1, <1>2, <1>3, <1>4, <1>5, <1>6, <1>7, <1>8, StepCases

(* A worker step that is neither the first nor the last of a reconcile.    *)
Continues(x, r) ==
    /\ w[x].pc # "idle" /\ r.pc # "idle" /\ r.key = w[x].key
    /\ w' = [w EXCEPT ![x] = r] /\ UNCHANGED queueVars

(* A worker's step takes a key, goes on with the one it has, or ends with  *)
(* it.                                                                     *)
LEMMA WorkerKinds ==
    ASSUME WorkersOK, NEW x \in Workers, WorkerNext(x) \/ FailedWork(x)
    PROVE  /\ \/ \E k \in Keys : ProcessNext(x, k)
              \/ \E r : Continues(x, r)
              \/ \E err \in BOOLEAN : w[x].pc # "idle" /\ Finish(x, err)
           /\ UNCHANGED <<phase, uids, pool, db, immutable, informerVars>>
<1> DEFINE Moves == \E r : Continues(x, r)
           Ends == \E err \in BOOLEAN : w[x].pc # "idle" /\ Finish(x, err)
<1>9. \/ (\E k \in Keys : ProcessNext(x, k)) \/ LookupBounds(x) \/ ResolveOk(x) \/ GetTemplate(x)
      \/ TemplateWork(x) \/ EvaluateCandidates(x) \/ ResolveFails(x) \/ GetStatus(x)
      \/ PutStatus(x) \/ CallFails(x) \/ WriteAppliedThenFails(x)
  BY DEF WorkerNext, FailedWork, TemplateWork
<1>10. UNCHANGED <<phase, uids, pool, db, immutable, informerVars>>
  BY <1>9 DEF ProcessNext, LookupBounds, ResolveOk, GetTemplate, TemplateWork, CreateTemplate,
              UpdateTemplate, DeleteTemplate, EvaluateCandidates, ResolveFails, GetStatus,
              PutStatus, CallFails, WriteAppliedThenFails, WorkerFrame
<1> SUFFICES (\E k \in Keys : ProcessNext(x, k)) \/ Moves \/ Ends
  BY <1>10
<1>0. w[x] \in WorkerStates /\ w \in [Workers -> WorkerStates]
  BY DEF WorkersOK
<1>1. ASSUME NEW pc \in WithObj, w[x].pc # "idle", Goto(x, pc) PROVE Moves
  <2> DEFINE r == [w[x] EXCEPT !.pc = pc]
  <2>1. r.pc # "idle" /\ r.key = w[x].key /\ w' = [w EXCEPT ![x] = r]
    BY <1>0, <1>1 DEF Goto, WithObj, WithBounds, WorkerStates
  <2> QED
    BY <1>1, <2>1 DEF Goto, Continues
<1>2. ASSUME NEW u, NEW err, w[x].pc # "idle", GoUpdateStatus(x, u, err) PROVE Moves
  <2> DEFINE r == [Idle EXCEPT !.pc = "getStatus", !.key = w[x].key, !.update = u, !.err = err]
  <2>1. r.pc # "idle" /\ r.key = w[x].key
    BY DEF Idle
  <2> QED
    BY <1>2, <2>1 DEF GoUpdateStatus, Continues
<1>3. CASE LookupBounds(x) \/ ResolveOk(x)
  <2>1. PICK n : \/ w' = [w EXCEPT ![x] = [w[x] EXCEPT !.pc = "resolving"]]
                 \/ w' = [w EXCEPT ![x] = [w[x] EXCEPT !.pc = "getTemplate", !.bounds = n]]
    BY <1>0, <1>3 DEF LookupBounds, ResolveOk
  <2> DEFINE r == [w[x] EXCEPT !.pc = "resolving"]
             s == [w[x] EXCEPT !.pc = "getTemplate", !.bounds = n]
  <2>2. r.pc # "idle" /\ r.key = w[x].key /\ s.pc # "idle" /\ s.key = w[x].key
    BY <1>0 DEF WorkerStates
  <2>3. w[x].pc # "idle" /\ UNCHANGED queueVars
    BY <1>3 DEF LookupBounds, ResolveOk
  <2> HIDE DEF r, s
  <2>4. Continues(x, r) \/ Continues(x, s)
    BY <2>1, <2>2, <2>3 DEF Continues, r, s
  <2> QED
    BY <2>4
<1>4. CASE GetTemplate(x)
  <2>1. w[x].pc # "idle"
    BY <1>4 DEF GetTemplate
  <2>2. CASE \E n : /\ UNCHANGED queueVars
                    /\ w' = [w EXCEPT ![x] = [w[x] EXCEPT !.pc = "update", !.live = n]]
    <3>1. PICK n : /\ UNCHANGED queueVars
                   /\ w' = [w EXCEPT ![x] = [w[x] EXCEPT !.pc = "update", !.live = n]]
      BY <2>2
    <3> DEFINE r == [w[x] EXCEPT !.pc = "update", !.live = n]
    <3>2. r.pc # "idle" /\ r.key = w[x].key
      BY <1>0 DEF WorkerStates
    <3>3. w' = [w EXCEPT ![x] = r]
      BY <3>1
    <3> HIDE DEF r
    <3> QED
      BY <2>1, <3>1, <3>2, <3>3 DEF Continues
  <2>3. \/ Goto(x, "create") \/ Goto(x, "evaluate")
        \/ GoUpdateStatus(x, Failed(w[x].obj, "TemplateConflict"), FALSE)
        \/ \E n : /\ UNCHANGED queueVars
                  /\ w' = [w EXCEPT ![x] = [w[x] EXCEPT !.pc = "update", !.live = n]]
    BY <1>0, <1>4 DEF GetTemplate, Goto
  <2>4. "create" \in WithObj /\ "evaluate" \in WithObj
    BY DEF WithObj, WithBounds
  <2>5. CASE Goto(x, "create") \/ Goto(x, "evaluate")
    BY <1>1, <2>1, <2>4, <2>5, Zenon
  <2>6. CASE GoUpdateStatus(x, Failed(w[x].obj, "TemplateConflict"), FALSE)
    BY <1>2, <2>1, <2>6, Zenon
  <2> QED
    BY <2>2, <2>3, <2>5, <2>6, Zenon
<1>5. CASE TemplateWork(x)
  <2>1. /\ w[x].pc # "idle"
        /\ \/ Goto(x, "create") \/ Goto(x, "evaluate") \/ Goto(x, "delete")
           \/ Finish(x, TRUE)
    BY <1>5 DEF TemplateWork, CreateTemplate, UpdateTemplate, DeleteTemplate
  <2>2. {"create", "evaluate", "delete"} \subseteq WithObj
    BY DEF WithObj, WithBounds
  <2> QED
    BY <1>1, <2>1, <2>2, Zenon
<1>6. CASE EvaluateCandidates(x) \/ ResolveFails(x)
  <2>1. w[x].pc # "idle"
    BY <1>6 DEF EvaluateCandidates, ResolveFails
  <2> QED
    BY <1>2, <1>6, <2>1, Zenon DEF EvaluateCandidates, ResolveFails
<1>7. CASE GetStatus(x)
  <2>1. w[x].err \in BOOLEAN /\ w[x].pc # "idle"
    BY <1>0, <1>7 DEF WorkerStates, GetStatus
  <2>2. CASE Finish(x, w[x].err)
    BY <2>1, <2>2, Zenon
  <2>3. CASE /\ w' = [w EXCEPT ![x].pc = "putStatus", ![x].fresh = mc[w[x].key]]
             /\ UNCHANGED queueVars
    <3> DEFINE r == [w[x] EXCEPT !.pc = "putStatus", !.fresh = mc[w[x].key]]
    <3>1. r.pc # "idle" /\ r.key = w[x].key /\ w' = [w EXCEPT ![x] = r]
      BY <1>0, <2>3 DEF WorkerStates
    <3> HIDE DEF r
    <3> QED
      BY <2>1, <2>3, <3>1 DEF Continues
  <2> QED
    BY <1>7, <2>2, <2>3 DEF GetStatus
<1>8. CASE PutStatus(x) \/ CallFails(x) \/ WriteAppliedThenFails(x)
  <2>1. w[x].err \in BOOLEAN
    BY <1>0 DEF WorkerStates
  <2>2. w[x].pc # "idle" /\ (Finish(x, TRUE) \/ Finish(x, w[x].err))
    BY <1>8 DEF PutStatus, CallFails, WriteAppliedThenFails
  <2> QED
    BY <2>1, <2>2, Zenon
<1> QED
  BY <1>3, <1>4, <1>5, <1>6, <1>7, <1>8, <1>9

(* Looking bounds up changes what it says and nothing else of the worker.  *)
LEMMA ResolveMoves ==
    ASSUME WorkersOK, NEW x \in Workers, LookupBounds(x) \/ ResolveOk(x)
    PROVE  /\ UNCHANGED queueVars /\ w[x].pc \in {"resolve", "resolving"}
           /\ w'[x].pc \in {"resolving", "getTemplate"}
           /\ w'[x].key = w[x].key /\ w'[x].obj = w[x].obj
<1>0. w[x] \in WorkerStates /\ w \in [Workers -> WorkerStates]
  BY DEF WorkersOK
<1>1. PICK n : \/ w' = [w EXCEPT ![x] = [w[x] EXCEPT !.pc = "resolving"]]
               \/ w' = [w EXCEPT ![x] = [w[x] EXCEPT !.pc = "getTemplate", !.bounds = n]]
  BY <1>0 DEF LookupBounds, ResolveOk
<1>2. UNCHANGED queueVars /\ w[x].pc \in {"resolve", "resolving"}
  BY DEF LookupBounds, ResolveOk
<1>3. CASE w' = [w EXCEPT ![x] = [w[x] EXCEPT !.pc = "resolving"]]
  BY <1>0, <1>2, <1>3 DEF WorkerStates
<1>4. CASE w' = [w EXCEPT ![x] = [w[x] EXCEPT !.pc = "getTemplate", !.bounds = n]]
  BY <1>0, <1>2, <1>4 DEF WorkerStates
<1> QED
  BY <1>1, <1>3, <1>4

(* The template's lookup has four ways out.                                *)
LEMMA GetTemplateMoves ==
    ASSUME WorkersOK, NEW x \in Workers, GetTemplate(x)
    PROVE  w'[x].pc \in {"create", "getStatus", "update", "evaluate"}
<1>0. w[x] \in WorkerStates /\ w \in [Workers -> WorkerStates]
  BY DEF WorkersOK
<1>1. \/ Goto(x, "create") \/ Goto(x, "evaluate")
      \/ GoUpdateStatus(x, Failed(w[x].obj, "TemplateConflict"), FALSE)
      \/ \E n : w' = [w EXCEPT ![x] = [w[x] EXCEPT !.pc = "update", !.live = n]]
  BY <1>0 DEF GetTemplate, Goto
<1>2. ASSUME NEW pc, Goto(x, pc) PROVE w'[x].pc = pc
  BY <1>0, <1>2 DEF Goto, WorkerStates
<1>3. ASSUME NEW u, NEW err, GoUpdateStatus(x, u, err) PROVE w'[x].pc = "getStatus"
  BY <1>0, <1>3 DEF GoUpdateStatus, Idle
<1>4. ASSUME NEW n, w' = [w EXCEPT ![x] = [w[x] EXCEPT !.pc = "update", !.live = n]]
      PROVE  w'[x].pc = "update"
  BY <1>0, <1>4 DEF WorkerStates
<1> QED
  BY <1>1, <1>2, <1>3, <1>4

(* ModelClaims are changed by status writes alone.                         *)
LEMMA WorkerWrites ==
    ASSUME NEW x \in Workers, WorkerNext(x) \/ FailedWork(x)
    PROVE  \/ mc' = mc
           \/ w[x].pc = "putStatus" /\ mc[w[x].key] = w[x].fresh /\ WriteStatus(x)
BY DEF WorkerNext, FailedWork, ProcessNext, LookupBounds, ResolveOk, GetTemplate, CreateTemplate,
       UpdateTemplate, DeleteTemplate, EvaluateCandidates, ResolveFails, GetStatus, PutStatus,
       CallFails, WriteAppliedThenFails, WorkerFrame

(* A key is never with two workers, and a controller that is not there     *)
(* holds none.                                                             *)
LEMMA StepOneWorker ==
    ASSUME TypeOK, WorkersOK, OneWorker, [Next]_vars
    PROVE  OneWorker'
<1> USE DEF OneWorker, Alive
<1>1. CASE UNCHANGED <<w, queued>> /\ (Alive' \/ ~Alive)
  BY <1>1
<1>2. ASSUME NEW k \in Keys, KeyStep(k) \/ UserStep(k) \/ TemplateStep(k) PROVE OneWorker'
  BY <1>2 DEF KeyStep, SyncModelClaim, HandleModelClaim, RetryDue, Enqueue, Processing, queueVars,
     UserStep, UserCreate, UserEdit, UserLabel, UserDelete, TemplateStep, OthersCreateTemplate, OthersDeleteTemplate,
     GarbageCollect, ctlVars
<1>3. ASSUME NEW b \in Backends, PoolStep(b) PROVE OneWorker'
  BY <1>3 DEF PoolStep, SyncPool, HandlePool, Enqueue, Processing, queueVars
<1>4. CASE WorldStep \/ Terminate \/ Start \/ Resync \/ UNCHANGED vars
  BY <1>4 DEF WorldStep, PoolChange, ModelDBMoves, ResolveExpires, Terminate, Start, Resync, vars,
              ctlVars, queueVars
<1>5. CASE Crash \/ RunReturns
  BY <1>5 DEF Crash, RunReturns, MemoryLost, Idle
<1>6. ASSUME NEW x \in Workers, WorkerNext(x) \/ FailedWork(x) PROVE OneWorker'
  <2>1. ASSUME NEW k \in Keys, ProcessNext(x, k) PROVE OneWorker'
    <3>1. w[x].pc = "idle" /\ k \in queued /\ queued' = queued \ {k} /\ phase' = phase
      BY <2>1 DEF ProcessNext, WorkerFrame
    <3>2. CASE w' = w
      BY <3>1, <3>2
    <3>3. CASE w' # w
      <4> DEFINE a == [Idle EXCEPT !.pc = "resolve", !.key = k, !.obj = Read(cache[k])]
                 b == [Idle EXCEPT !.pc = "getStatus", !.key = k,
                                   !.update = Failed(cache[k], "InvalidModel")]
      <4>0. a.key = k /\ b.key = k
        BY DEF Idle
      <4>1a. w' = [w EXCEPT ![x] = a] \/ w' = [w EXCEPT ![x] = b]
        BY <2>1, <3>3 DEF ProcessNext
      <4> HIDE DEF a, b
      <4>1. PICK r : w' = [w EXCEPT ![x] = r] /\ r.key = k
        BY <4>0, <4>1a
      <4> QED
        BY <3>1, <4>1 DEF WorkersOK
    <3> QED
      BY <3>2, <3>3
  <2>2. CASE \E r : Continues(x, r)
    BY <1>6, <2>2, WorkerKinds DEF Continues, WorkersOK, queueVars
  <2>3. CASE \E err \in BOOLEAN : w[x].pc # "idle" /\ Finish(x, err)
    <3>1. w' = [w EXCEPT ![x] = Idle] /\ Idle.pc = "idle" /\ w[x].pc # "idle" /\ phase' = phase
      BY <1>6, <2>3, WorkerKinds DEF Finish, Idle
    <3>2. queued' \subseteq queued \union {w[x].key}
      BY <2>3 DEF Finish
    <3> QED
      BY <3>1, <3>2 DEF WorkersOK
  <2> QED
    BY <1>6, <2>1, <2>2, <2>3, WorkerKinds
<1> QED
  BY <1>2, <1>3, <1>4, <1>5, <1>6, StepCases

(* No step lets an informer's store run ahead of the API server.           *)
LEMMA StepNeverAhead ==
    ASSUME TypeOK, WorkersOK, NeverAhead, [Next]_vars
    PROVE  NeverAhead'
<1> USE DEF NeverAhead
<1>1. CASE UNCHANGED <<mc, cache, uids>>
  BY <1>1
<1>2. ASSUME NEW k \in Keys, UserStep(k) PROVE NeverAhead'
  <2> SUFFICES ASSUME NEW j \in Keys
               PROVE  /\ mc'[j] # NoObj => mc'[j].uid \leq uids'[j]
                      /\ cache'[j] # NoObj => cache'[j].uid \leq uids'[j]
                      /\ cache'[j] # NoObj /\ mc'[j] # NoObj /\ cache'[j].uid = mc'[j].uid
                         => cache'[j].gen \leq mc'[j].gen /\ (cache'[j].label => mc'[j].label)
    BY Zenon
  <2>1. UNCHANGED cache
    BY <1>2 DEF UserStep, UserCreate, UserEdit, UserLabel, UserDelete, ctlVars, informerVars
  <2>2. CASE j # k
    BY <1>2, <2>1, <2>2 DEF UserStep, UserCreate, UserEdit, UserLabel, UserDelete, TypeOK
  <2>3. CASE j = k
    <3>0. uids[k] \in Nat /\ mc[k] \in ModelClaim \union {NoObj} /\ cache[k] \in ModelClaim \union {NoObj}
      BY DEF TypeOK
    <3>1. ASSUME NEW s \in Specs, UserCreate(k, s)
          PROVE  uids'[k] = uids[k] + 1 /\ mc'[k].uid = uids[k] + 1
      BY <3>1 DEF UserCreate, NewClaim, TypeOK
    <3>2. ASSUME NEW s \in Specs, UserEdit(k, s)
          PROVE  /\ uids' = uids /\ mc[k] # NoObj /\ mc'[k].uid = mc[k].uid
                 /\ mc'[k].gen = mc[k].gen + 1 /\ mc'[k].label = mc[k].label
      BY <3>0, <3>2 DEF UserEdit, ModelClaim, TypeOK
    <3>3. CASE UserLabel(k)
      <4>1. /\ uids' = uids /\ mc[k] # NoObj /\ mc'[k].uid = mc[k].uid
            /\ mc'[k].gen = mc[k].gen /\ mc'[k].label = TRUE
        BY <3>0, <3>3 DEF UserLabel, ModelClaim, TypeOK
      <4> QED
        BY <2>1, <2>3, <4>1
    <3>4. CASE UserDelete(k)
      BY <2>1, <2>3, <3>4 DEF UserDelete, TypeOK
    <3>5. CASE \E s \in Specs : UserCreate(k, s)
      BY <2>1, <2>3, <3>0, <3>1, <3>5 DEF ModelClaim
    <3>6. CASE \E s \in Specs : UserEdit(k, s)
      BY <2>1, <2>3, <3>0, <3>2, <3>6 DEF ModelClaim
    <3> QED
      BY <1>2, <3>3, <3>4, <3>5, <3>6 DEF UserStep
  <2> QED
    BY <2>2, <2>3
<1>3. ASSUME NEW k \in Keys, KeyStep(k) \/ TemplateStep(k) PROVE NeverAhead'
  BY <1>1, <1>3 DEF KeyStep, SyncModelClaim, HandleModelClaim, RetryDue, apiVars, informerVars, TypeOK, ModelClaim,
     TemplateStep, OthersCreateTemplate, OthersDeleteTemplate, GarbageCollect, ctlVars
<1>4. ASSUME NEW b \in Backends, PoolStep(b) PROVE NeverAhead'
  BY <1>1, <1>4 DEF PoolStep, SyncPool, HandlePool, apiVars
<1>5. CASE WorldStep \/ Terminate \/ Resync \/ UNCHANGED vars
  BY <1>1, <1>5 DEF WorldStep, PoolChange, ModelDBMoves, ResolveExpires, Terminate, Resync, vars,
              ctlVars, apiVars, informerVars
<1>6. CASE Start
  BY <1>6 DEF Start, TypeOK, ModelClaim, apiVars
<1>7. CASE Crash \/ RunReturns
  BY <1>1, <1>7 DEF Crash, RunReturns, MemoryLost, apiVars
<1>8. ASSUME NEW x \in Workers, WorkerNext(x) \/ FailedWork(x) PROVE NeverAhead'
  <2>1. UNCHANGED <<cache, uids>>
    BY <1>8, WorkerKinds DEF informerVars
  <2>2. CASE mc' = mc
    BY <1>1, <2>1, <2>2
  <2>3. CASE w[x].pc = "putStatus" /\ mc[w[x].key] = w[x].fresh /\ WriteStatus(x)
    <3>1. w[x].fresh \in ModelClaim /\ w[x].key \in Keys
      BY <2>3 DEF WorkersOK, Coherent
    <3>2. PICK s : mc' = [mc EXCEPT ![w[x].key] = [w[x].fresh EXCEPT !.status = s]]
      BY <2>3, <3>1 DEF WriteStatus, TypeOK
    <3> DEFINE m == [w[x].fresh EXCEPT !.status = s]
    <3>3. m.uid = w[x].fresh.uid /\ m.gen = w[x].fresh.gen /\ m.label = w[x].fresh.label
      BY <3>1 DEF ModelClaim
    <3>4. mc[w[x].key] # NoObj
      BY <2>3, <3>1, NoObjAssumption
    <3> HIDE DEF m
    <3> QED
      BY <2>1, <2>3, <3>1, <3>2, <3>3, <3>4 DEF TypeOK
  <2> QED
    BY <1>8, <2>2, <2>3, WorkerWrites
<1> QED
  BY <1>2, <1>3, <1>4, <1>5, <1>6, <1>7, <1>8, StepCases

(* A worker's step concerns that worker and its key alone.                 *)
LEMMA OthersKept ==
    ASSUME TypeOK, WorkersOK, NEW x \in Workers, WorkerNext(x) \/ FailedWork(x)
    PROVE  /\ \A y \in Workers : y # x => w'[y] = w[y]
           /\ \A j \in Keys : j # w[x].key =>
                 /\ tmpl'[j] = tmpl[j] /\ gap'[j] = gap[j] /\ mc'[j] = mc[j]
                 /\ j \in drift' <=> j \in drift
                 /\ j \in again' <=> j \in again
                 /\ j \in delayed' <=> j \in delayed
                 /\ j \in queued' => j \in queued
<1> USE DEF TypeOK, WorkersOK
<1>1. /\ \A y \in Workers : y # x => w'[y] = w[y]
      /\ \A j \in Keys : j # w[x].key =>
            /\ j \in again' <=> j \in again
            /\ j \in delayed' <=> j \in delayed
            /\ j \in queued' => j \in queued
  <2>1. CASE \E k \in Keys : ProcessNext(x, k)
    BY <2>1 DEF ProcessNext
  <2>2. CASE \E r : Continues(x, r)
    BY <2>2 DEF Continues, queueVars
  <2>3. CASE \E err \in BOOLEAN : w[x].pc # "idle" /\ Finish(x, err)
    BY <2>3 DEF Finish
  <2> QED
    BY <2>1, <2>2, <2>3, WorkerKinds
<1>2. ASSUME NEW j \in Keys, j # w[x].key
      PROVE  tmpl'[j] = tmpl[j] /\ gap'[j] = gap[j] /\ (j \in drift' <=> j \in drift)
  BY <1>2 DEF WorkerNext, FailedWork, ProcessNext, LookupBounds, ResolveOk, GetTemplate,
              CreateTemplate, UpdateTemplate, DeleteTemplate, EvaluateCandidates, ResolveFails,
              GetStatus, PutStatus, CallFails, WriteAppliedThenFails, WorkerFrame, RecreateFails
<1>3. ASSUME NEW j \in Keys, j # w[x].key
      PROVE  mc'[j] = mc[j]
  BY <1>3, WorkerWrites DEF WriteStatus
<1> QED
  BY <1>1, <1>2, <1>3

(* What a worker's step may do to the template of its name.                *)
LEMMA TemplateWrites ==
    ASSUME TypeOK, WorkersOK, NEW x \in Workers, WorkerNext(x) \/ FailedWork(x)
    PROVE  LET k == w[x].key IN
           \/ UNCHANGED tmpl
           \/ w[x].pc = "create" /\ tmpl[k] = NoObj /\ tmpl' = [tmpl EXCEPT ![k] = Desired(x)]
           \/ /\ w[x].pc = "update" /\ tmpl[k] = w[x].live
              /\ tmpl' = [tmpl EXCEPT ![k] = [Desired(x) EXCEPT !.owner = w[x].live.owner]]
           \/ w[x].pc = "delete" /\ tmpl' = [tmpl EXCEPT ![k] = NoObj]
BY DEF WorkerNext, FailedWork, ProcessNext, LookupBounds, ResolveOk, GetTemplate, CreateTemplate,
       UpdateTemplate, DeleteTemplate, EvaluateCandidates, ResolveFails, GetStatus, PutStatus,
       CallFails, WriteAppliedThenFails, WorkerFrame

(* What a worker's step may do to the history of deleted templates.        *)
LEMMA GapWrites ==
    ASSUME TypeOK, WorkersOK, NEW x \in Workers, WorkerNext(x) \/ FailedWork(x)
    PROVE  LET k == w[x].key IN
           \/ UNCHANGED gap /\ (w[x].pc = "create" => tmpl[k] # NoObj)
           \/ w[x].pc = "create" /\ gap' = [gap EXCEPT ![k] = "none"]
           \/ /\ w[x].pc = "delete" /\ tmpl' = [tmpl EXCEPT ![k] = NoObj]
              /\ \/ gap' = [gap EXCEPT ![k] = "failed"]
                 \/ gap' = [gap EXCEPT ![k] = "open"] /\ Goto(x, "create")
           \/ /\ UNCHANGED tmpl
              /\ gap' = [j \in Keys |-> IF j = k /\ gap[j] = "open" THEN "failed" ELSE gap[j]]
BY DEF WorkerNext, FailedWork, ProcessNext, LookupBounds, ResolveOk, GetTemplate, CreateTemplate,
       UpdateTemplate, DeleteTemplate, EvaluateCandidates, ResolveFails, GetStatus, PutStatus,
       CallFails, WriteAppliedThenFails, RecreateFails

(* A template is missing as long as the controller owes it, and somebody   *)
(* is about to create it unless the attempt has failed.                    *)
LEMMA StepGap ==
    ASSUME TypeOK, WorkersOK, GapIsEmpty, [Next]_vars
    PROVE  GapIsEmpty'
<1> USE DEF GapIsEmpty
<1>1. CASE UNCHANGED <<gap, tmpl, w>>
  BY <1>1
<1>2. ASSUME NEW k \in Keys, TemplateStep(k) PROVE GapIsEmpty'
  <2>1. UNCHANGED w /\ \A j \in Keys : gap'[j] # "none" => gap'[j] = gap[j]
    BY <1>2 DEF TemplateStep, OthersCreateTemplate, OthersDeleteTemplate, GarbageCollect, ctlVars, TypeOK
  <2>2. \A j \in Keys : tmpl'[j] = tmpl[j] \/ tmpl'[j] = NoObj \/ gap'[j] = "none"
    BY <1>2 DEF TemplateStep, OthersCreateTemplate, OthersDeleteTemplate, GarbageCollect, TypeOK
  <2> QED
    BY <2>1, <2>2
<1>3. ASSUME NEW k \in Keys, KeyStep(k) \/ UserStep(k) PROVE GapIsEmpty'
  BY <1>1, <1>3 DEF KeyStep, SyncModelClaim, HandleModelClaim, RetryDue, apiVars,
     UserStep, UserCreate, UserEdit, UserLabel, UserDelete, ctlVars
<1>4. ASSUME NEW b \in Backends, PoolStep(b) PROVE GapIsEmpty'
  BY <1>1, <1>4 DEF PoolStep, SyncPool, HandlePool, apiVars
<1>5. CASE WorldStep \/ Terminate \/ Start \/ Resync \/ UNCHANGED vars
  BY <1>1, <1>5 DEF WorldStep, PoolChange, ModelDBMoves, ResolveExpires, Terminate, Start, Resync,
                    vars, ctlVars, apiVars
<1>6. CASE Crash
  BY <1>6 DEF Crash, MemoryLost, apiVars
<1>7. CASE RunReturns
  <2>1. \A k \in Keys : gap[k] # "open"
    BY <1>7 DEF RunReturns, WorkersDone, Processing
  <2> QED
    BY <1>7, <2>1 DEF RunReturns, MemoryLost, apiVars
<1>8. ASSUME NEW x \in Workers, WorkerNext(x) \/ FailedWork(x) PROVE GapIsEmpty'
  <2> DEFINE k == w[x].key
  <2>0. w[x] \in WorkerStates /\ Coherent(w[x]) /\ \A y \in Workers : y # x => w'[y] = w[y]
    BY <1>8, OthersKept DEF WorkersOK
  <2>1. ASSUME k \in Keys, gap'[k] # "none"
        PROVE  tmpl'[k] = NoObj
    <3>1. gap[k] # "none" \/ tmpl' = [tmpl EXCEPT ![k] = NoObj]
      BY <1>8, <2>1, GapWrites DEF TypeOK
    <3>2. w[x].pc = "update" => w[x].live # NoObj
      BY <2>0, NoObjAssumption DEF Coherent
    <3>3. w[x].pc = "create" => tmpl' = tmpl \/ tmpl[k] # NoObj
      BY <1>8, <2>1, GapWrites DEF TypeOK
    <3>4. CASE tmpl' = [tmpl EXCEPT ![k] = NoObj]
      BY <2>1, <3>4 DEF TypeOK
    <3>5. CASE tmpl' # [tmpl EXCEPT ![k] = NoObj]
      <4>1. tmpl[k] = NoObj
        BY <2>1, <3>1, <3>5
      <4>2. UNCHANGED tmpl
        BY <1>8, <3>2, <3>3, <3>5, <4>1, TemplateWrites
      <4> QED
        BY <4>1, <4>2
    <3> QED
      BY <3>4, <3>5
  <2>2. ASSUME NEW j \in Keys, gap'[j] = "open"
        PROVE  \E y \in Workers : w'[y].pc = "create" /\ w'[y].key = j
    <3>1. CASE w[x].pc = "delete" /\ Goto(x, "create") /\ j = k
      BY <2>0, <3>1 DEF Goto, WorkersOK, WorkerStates
    <3>2. CASE gap[j] = "open"
      <4>1. PICK y \in Workers : w[y].pc = "create" /\ w[y].key = j
        BY <3>2
      <4>2. tmpl[j] = NoObj
        BY <3>2
      <4>3. y # x
        BY <1>8, <2>2, <4>1, <4>2, GapWrites DEF TypeOK
      <4> QED
        BY <2>0, <4>1, <4>3
    <3> QED
      BY <1>8, <2>2, <3>1, <3>2, GapWrites DEF TypeOK
  <2>3. \A j \in Keys : j # k => gap'[j] = gap[j] /\ tmpl'[j] = tmpl[j]
    BY <1>8, OthersKept
  <2> QED
    BY <2>1, <2>2, <2>3
<1> QED
  BY <1>2, <1>3, <1>4, <1>5, <1>6, <1>7, <1>8, StepCases

(* Every template a ModelClaim owns stays made of one spec.                *)
LEMMA StepTemplate ==
    ASSUME TypeOK, WorkersOK, TemplateFromOneSpec, [Next]_vars
    PROVE  TemplateFromOneSpec'
<1> USE DEF TemplateFromOneSpec
<1>1. CASE UNCHANGED tmpl
  BY <1>1
<1>2. ASSUME NEW k \in Keys, TemplateStep(k) PROVE TemplateFromOneSpec'
  BY <1>2 DEF TemplateStep, OthersCreateTemplate, OthersDeleteTemplate, GarbageCollect, TypeOK
<1>3. ASSUME NEW k \in Keys, KeyStep(k) \/ UserStep(k) PROVE TemplateFromOneSpec'
  BY <1>1, <1>3 DEF KeyStep, SyncModelClaim, HandleModelClaim, RetryDue, apiVars,
     UserStep, UserCreate, UserEdit, UserLabel, UserDelete
<1>4. ASSUME NEW b \in Backends, PoolStep(b) PROVE TemplateFromOneSpec'
  BY <1>1, <1>4 DEF PoolStep, SyncPool, HandlePool, apiVars
<1>5. CASE WorldStep \/ Terminate \/ Start \/ Resync \/ Crash \/ RunReturns \/ UNCHANGED vars
  BY <1>1, <1>5 DEF WorldStep, PoolChange, ModelDBMoves, ResolveExpires, Terminate, Start, Resync,
                    Crash, RunReturns, MemoryLost, vars, apiVars
<1>8. ASSUME NEW x \in Workers, WorkerNext(x) \/ FailedWork(x) PROVE TemplateFromOneSpec'
  <2>1. w[x] \in WorkerStates /\ Coherent(w[x])
    BY DEF WorkersOK
  <2> DEFINE k == w[x].key
  <2>2. ASSUME w[x].pc \in WithBounds
        PROVE  /\ w[x].obj.spec \in Specs /\ w[x].bounds # NoObj
               /\ w[x].bounds.tuple = w[x].obj.spec.tuple
    BY <2>1, <2>2, NoObjAssumption DEF Coherent, Reads, WithObj
  <2>3. CASE w[x].pc = "create" /\ tmpl' = [tmpl EXCEPT ![k] = Desired(x)]
    BY <2>2, <2>3 DEF Desired, BuildTemplate, TypeOK, WithBounds
  <2>4. CASE /\ w[x].pc = "update"
             /\ tmpl' = [tmpl EXCEPT ![k] = [Desired(x) EXCEPT !.owner = w[x].live.owner]]
    BY <2>2, <2>4 DEF Desired, BuildTemplate, TypeOK, WithBounds
  <2>5. CASE tmpl' = [tmpl EXCEPT ![k] = NoObj]
    BY <2>5 DEF TypeOK
  <2> QED
    BY <1>1, <1>8, <2>3, <2>4, <2>5, TemplateWrites
<1> QED
  BY <1>2, <1>3, <1>4, <1>5, <1>8, StepCases

-----------------------------------------------------------------------------
(* The argument for SettledIsCurrent.                                      *)

(* A user's change is news to the informer.                                *)
LEMMA UserStepIsNews ==
    ASSUME TypeOK, NeverAhead, NEW k \in Keys, UserStep(k)
    PROVE  /\ mc'[k] = NoObj \/ cache[k] # mc'[k]
           /\ \A j \in Keys : j # k => mc'[j] = mc[j]
           /\ UNCHANGED <<tmpl, gap, drift, ctlVars>>
<1>0. /\ uids[k] \in Nat
      /\ mc[k] \in ModelClaim \union {NoObj} /\ cache[k] \in ModelClaim \union {NoObj}
  BY DEF TypeOK
<1>1. /\ \A j \in Keys : j # k => mc'[j] = mc[j]
      /\ UNCHANGED <<tmpl, gap, drift, ctlVars>>
  BY DEF UserStep, UserCreate, UserEdit, UserLabel, UserDelete, TypeOK
<1>2. ASSUME NEW s \in Specs, UserCreate(k, s) PROVE cache[k] # mc'[k]
  <2>1. mc'[k].uid = uids[k] + 1 /\ mc'[k] \in ModelClaim
    BY <1>0, <1>2 DEF UserCreate, NewClaim, TypeOK, ModelClaim, NoStatus, Status, Failures
  <2>2. cache[k] # NoObj => cache[k].uid \leq uids[k] /\ cache[k].uid \in Nat
    BY <1>0 DEF NeverAhead, ModelClaim
  <2> QED
    BY <1>0, <2>1, <2>2, NoObjAssumption
<1>3. ASSUME NEW s \in Specs, UserEdit(k, s) PROVE mc'[k] = NoObj \/ cache[k] # mc'[k]
  <2>1. /\ mc[k] # NoObj /\ mc'[k].uid = mc[k].uid
        /\ mc'[k].gen = mc[k].gen + 1 /\ mc[k].gen \in Nat
    <3>1. mc[k] \in ModelClaim
      BY <1>0, <1>3 DEF UserEdit
    <3> DEFINE m == [mc[k] EXCEPT !.spec = s, !.gen = mc[k].gen + 1]
    <3>2. mc'[k] = m
      BY <1>3 DEF UserEdit, TypeOK
    <3>3. m.uid = mc[k].uid /\ m.gen = mc[k].gen + 1 /\ mc[k].gen \in Nat
      BY <3>1 DEF ModelClaim
    <3> HIDE DEF m
    <3> QED
      BY <1>3, <3>2, <3>3 DEF UserEdit
  <2>2. CASE cache[k] = mc'[k]
    <3>1. cache[k].uid = mc[k].uid /\ cache[k].gen = mc[k].gen + 1
      BY <2>1, <2>2
    <3>2. cache[k] = NoObj
      BY <2>1, <3>1 DEF NeverAhead
    <3> QED
      BY <2>2, <3>2
  <2> QED
    BY <2>2
<1>4. CASE UserLabel(k)
  <2>1. mc[k] # NoObj /\ ~mc[k].label /\ mc[k] \in ModelClaim
    BY <1>0, <1>4 DEF UserLabel
  <2>2. mc'[k] = [mc[k] EXCEPT !.label = TRUE]
    BY <1>4 DEF UserLabel, TypeOK
  <2>3. mc'[k].uid = mc[k].uid /\ mc'[k].label
    BY <2>1, <2>2 DEF ModelClaim
  <2>4. CASE cache[k] = mc'[k]
    <3>1. cache[k].uid = mc[k].uid /\ cache[k].label
      BY <2>3, <2>4
    <3>2. cache[k] = NoObj
      BY <2>1, <3>1 DEF NeverAhead
    <3> QED
      BY <1>1, <2>4, <3>2
  <2> QED
    BY <1>1, <2>4
<1>5. CASE UserDelete(k)
  BY <1>1, <1>5 DEF UserDelete, TypeOK
<1> QED
  BY <1>1, <1>2, <1>3, <1>4, <1>5 DEF UserStep

(* A worker whose key, template and news stay as they are stays current.   *)
LEMMA WorkFrame ==
    ASSUME NEW x \in Workers, WorkCurrent(x), w'[x] = w[x],
           w[x].pc # "idle" =>
              /\ Redo(w[x].key) => Redo(w[x].key)'
              /\ Redo(w[x].key)' \/ cache'[w[x].key] = cache[w[x].key]
              /\ tmpl'[w[x].key] = tmpl[w[x].key] \/ w[x].key \in drift'
              /\ gap'[w[x].key] \in {"none", gap[w[x].key]}
              /\ w[x].key \in drift => w[x].key \in drift',
           UNCHANGED <<poolCache, poolNote>>
    PROVE  WorkCurrent(x)'
BY DEF WorkCurrent, Reports, Desired, Redo, WithObj, WithBounds, WithUpdate

(* A key in work that has news stays with news; the steps of others.       *)
LEMMA StepWorkOthers ==
    ASSUME TypeOK, WorkersOK, OneWorker, NEW x \in Workers, WorkCurrent(x),
           \/ \E k \in Keys : UserStep(k) \/ TemplateStep(k) \/ KeyStep(k)
           \/ \E b \in Backends : PoolStep(b)
           \/ \E y \in Workers : y # x /\ (WorkerNext(y) \/ FailedWork(y))
           \/ WorldStep \/ Terminate \/ Crash \/ RunReturns \/ Start \/ Resync
           \/ UNCHANGED vars
    PROVE  WorkCurrent(x)'
<1> DEFINE k == w[x].key
<1>0. w[x].pc # "idle" => k \in Keys
  BY DEF WorkersOK, Coherent
<1>1. CASE \E j \in Keys : UserStep(j)
  <2>1. UNCHANGED <<tmpl, gap, drift, ctlVars>>
    BY <1>1 DEF UserStep, UserCreate, UserEdit, UserLabel, UserDelete
  <2> QED
    BY <2>1, WorkFrame DEF ctlVars, informerVars, queueVars, Redo
<1>2. ASSUME NEW j \in Keys, TemplateStep(j) PROVE WorkCurrent(x)'
  <2>1. /\ UNCHANGED ctlVars /\ drift' = drift \union {j}
        /\ \A i \in Keys : i # j => tmpl'[i] = tmpl[i]
        /\ \A i \in Keys : gap'[i] \in {"none", gap[i]}
    BY <1>2 DEF TemplateStep, OthersCreateTemplate, OthersDeleteTemplate, GarbageCollect, TypeOK
  <2> QED
    BY <1>0, <2>1, WorkFrame DEF ctlVars, informerVars, queueVars, Redo
<1>3. ASSUME NEW j \in Keys, KeyStep(j) PROVE WorkCurrent(x)'
  <2>1. UNCHANGED <<tmpl, gap, drift, w, poolCache, poolNote>>
    BY <1>3 DEF KeyStep, SyncModelClaim, HandleModelClaim, RetryDue, apiVars, informerVars
  <2>2. ASSUME w[x].pc # "idle"
        PROVE  (Redo(k) => Redo(k)') /\ (Redo(k)' \/ cache'[k] = cache[k])
    <3>1. k \in Processing
      BY <2>2 DEF Processing
    <3>2. CASE SyncModelClaim(j)
      BY <1>0, <2>2, <3>2 DEF SyncModelClaim, Redo, TypeOK, queueVars
    <3>3. CASE HandleModelClaim(j)
      BY <3>1, <3>3 DEF HandleModelClaim, Redo, Enqueue
    <3>4. CASE RetryDue(j)
      BY <3>1, <3>4 DEF RetryDue, Redo, informerVars
    <3> QED
      BY <1>3, <3>2, <3>3, <3>4 DEF KeyStep
  <2> QED
    BY <2>1, <2>2, WorkFrame
<1>4. ASSUME NEW b \in Backends, PoolStep(b) PROVE WorkCurrent(x)'
  <2>1. UNCHANGED <<tmpl, gap, drift, w, cache, mcNote>>
    BY <1>4 DEF PoolStep, SyncPool, HandlePool, apiVars
  <2>2. again \subseteq again'
    BY <1>4 DEF PoolStep, SyncPool, HandlePool, Enqueue, queueVars
  <2>3. ASSUME w[x].pc # "idle", NEW u, Reports(cache[k], k, u)
        PROVE  Redo(k)' \/ Reports(cache[k], k, u)'
    <3>1. CASE SyncPool(b)
      BY <2>1, <2>3, <3>1 DEF SyncPool, Reports, TypeOK
    <3>2. CASE HandlePool(b)
      <4>1. CASE cache[k] = NoObj
        BY <2>1, <4>1 DEF Redo
      <4>2. CASE cache[k] # NoObj /\ cache[k].spec.backend = b
        <5>1. Relevant(b) /\ k \in Cached /\ k \in Processing
          BY <1>0, <2>3, <4>2 DEF Relevant, nvidiaTargetsPresent, Cached, Processing, Backends
        <5> QED
          BY <3>2, <5>1 DEF HandlePool, Enqueue, Redo
      <4>3. CASE cache[k].spec.backend # b
        BY <2>1, <2>3, <3>2, <4>3 DEF HandlePool, Reports
      <4> QED
        BY <4>1, <4>2, <4>3
    <3> QED
      BY <1>4, <3>1, <3>2 DEF PoolStep
  <2> QED
    BY <2>1, <2>2, <2>3 DEF WorkCurrent, Redo, Desired, WithUpdate
<1>5. ASSUME NEW y \in Workers, y # x, WorkerNext(y) \/ FailedWork(y) PROVE WorkCurrent(x)'
  <2>1. w'[x] = w[x] /\ UNCHANGED informerVars
    BY <1>5, OthersKept, WorkerKinds
  <2>2. ASSUME w[x].pc # "idle" PROVE k # w[y].key \/ w[y].pc = "idle"
    BY <1>5, <2>2 DEF OneWorker
  <2>3. CASE w[x].pc # "idle" /\ k # w[y].key
    BY <1>0, <1>5, <2>1, <2>3, OthersKept, WorkFrame DEF informerVars, Redo
  <2>4. CASE w[y].pc = "idle"
    <3>1. UNCHANGED <<tmpl, gap, drift, again>>
      BY <1>5, <2>4, WorkerKinds DEF ProcessNext, Continues
    <3> QED
      BY <2>1, <3>1, WorkFrame DEF informerVars, Redo
  <2> QED
    BY <2>1, <2>2, <2>3, <2>4, WorkFrame DEF informerVars
<1>6. CASE WorldStep \/ Terminate \/ Resync \/ UNCHANGED vars
  <2>1. /\ UNCHANGED <<tmpl, gap, drift, w, cache, poolCache, poolNote, again>>
        /\ mcNote \subseteq mcNote'
    BY <1>6 DEF WorldStep, PoolChange, ModelDBMoves, ResolveExpires, Terminate, Resync, vars,
                ctlVars, apiVars, informerVars, queueVars
  <2> QED
    BY <2>1, WorkFrame DEF Redo
<1>7. CASE Crash \/ RunReturns \/ Start
  <2>1. w'[x].pc = "idle"
    BY <1>7 DEF Crash, RunReturns, MemoryLost, Start, OneWorker, Alive, Idle
  <2> QED
    BY <2>1 DEF WorkCurrent, WithObj, WithBounds, WithUpdate
<1> QED
  BY <1>1, <1>2, <1>3, <1>4, <1>5, <1>6, <1>7

(* A worker's own step keeps its work current.                             *)
LEMMA StepWorkOwn ==
    ASSUME TypeOK, WorkersOK, OneWorker, GapIsEmpty, NEW x \in Workers, WorkCurrent(x),
           WorkerNext(x) \/ FailedWork(x)
    PROVE  WorkCurrent(x)'
<1> DEFINE k == w[x].key
<1> USE NoObjAssumption
<1>0. /\ w[x] \in WorkerStates /\ Coherent(w[x]) /\ w \in [Workers -> WorkerStates]
      /\ UNCHANGED informerVars
  BY WorkerKinds DEF WorkersOK
<1>1. CASE w'[x].pc = "idle"
  BY <1>1 DEF WorkCurrent, WithObj, WithBounds, WithUpdate
<1>1a. ASSUME NEW err \in BOOLEAN, Finish(x, err) PROVE w'[x].pc = "idle"
  BY <1>0, <1>1a DEF Finish, Idle
<1>2. ASSUME NEW j \in Keys, ProcessNext(x, j) PROVE WorkCurrent(x)'
  <2>1. CASE UNCHANGED w
    BY <1>1, <1>2, <2>1 DEF ProcessNext
  <2>2. CASE /\ cache[j] # NoObj /\ ValidModel(cache[j])
             /\ w' = [w EXCEPT ![x] = [Idle EXCEPT !.pc = "resolve", !.key = j,
                                                  !.obj = Read(cache[j])]]
    <3>1. w'[x].pc = "resolve" /\ w'[x].key = j /\ w'[x].obj = Read(cache[j])
      BY <1>0, <2>2 DEF Idle
    <3> QED
      BY <1>0, <3>1 DEF WorkCurrent, Read, informerVars, WithUpdate
  <2>3. CASE /\ cache[j] # NoObj /\ ~ValidModel(cache[j])
             /\ w' = [w EXCEPT ![x] = [Idle EXCEPT !.pc = "getStatus", !.key = j,
                                                  !.update = Failed(cache[j], "InvalidModel")]]
    <3>1. /\ w'[x].pc = "getStatus" /\ w'[x].key = j
          /\ w'[x].update = Failed(cache[j], "InvalidModel")
      BY <1>0, <2>3 DEF Idle
    <3> QED
      BY <1>0, <2>3, <3>1 DEF WorkCurrent, Reports, Failed, ValidModel, informerVars, WithObj, WithBounds
  <2> QED
    BY <1>2, <2>1, <2>2, <2>3 DEF ProcessNext
<1>3. ASSUME UNCHANGED queueVars, w'[x].key = k, w'[x].obj = w[x].obj, w[x].pc \in WithObj,
             w'[x].pc \in WithObj \ {"evaluate"}
      PROVE  WorkCurrent(x)'
  BY <1>0, <1>3 DEF WorkCurrent, Redo, Read, informerVars, queueVars, WithUpdate, WithObj, WithBounds
<1>4. CASE LookupBounds(x) \/ ResolveOk(x)
  <2>1. /\ UNCHANGED queueVars /\ w'[x].key = k /\ w'[x].obj = w[x].obj
        /\ w[x].pc \in {"resolve", "resolving"} /\ w'[x].pc \in {"resolving", "getTemplate"}
    BY <1>4, ResolveMoves
  <2> QED
    BY <1>3, <2>1 DEF WithObj, WithBounds
<1>5. ASSUME w[x].pc \in WithBounds, Goto(x, "evaluate"), gap'[k] = "none",
             k \notin drift' => tmpl'[k] = Desired(x)
      PROVE  WorkCurrent(x)'
  <2>1. /\ UNCHANGED queueVars /\ w'[x].key = k /\ w'[x].obj = w[x].obj
        /\ w'[x].pc = "evaluate" /\ w'[x].bounds = w[x].bounds
    BY <1>0, <1>5 DEF Goto, WorkerStates
  <2> QED
    BY <1>0, <1>5, <2>1
       DEF WorkCurrent, Redo, Read, Desired, BuildTemplate, informerVars, queueVars, WithUpdate, WithObj
<1>6. ASSUME NEW pc \in {"create", "update", "delete"}, w[x].pc \in WithBounds, Goto(x, pc)
      PROVE  WorkCurrent(x)'
  <2>1. /\ UNCHANGED queueVars /\ w'[x].key = k /\ w'[x].obj = w[x].obj /\ w'[x].pc = pc
    BY <1>0, <1>6 DEF Goto, WorkerStates
  <2> QED
    BY <1>3, <1>6, <2>1 DEF WithObj, WithBounds
<1>7. ASSUME NEW u \in Updates, NEW err \in BOOLEAN, GoUpdateStatus(x, u, err),
             NEW i, i = k, ~err => Redo(k) \/ Reports(cache[i], i, u)'
      PROVE  WorkCurrent(x)'
  <2>1. /\ UNCHANGED queueVars /\ w'[x].key = k /\ w'[x].pc = "getStatus"
        /\ w'[x].update = u /\ w'[x].err = err
    BY <1>0, <1>7 DEF GoUpdateStatus, Idle
  <2> QED
    BY <1>0, <1>7, <2>1 DEF WorkCurrent, Redo, informerVars, queueVars, WithObj, WithBounds
<1>8. CASE GetTemplate(x)
  <2> DEFINE live == tmpl[k]
  <2>1. /\ w[x].pc = "getTemplate" /\ k \in Keys /\ w[x].obj \in Reads
        /\ w[x].obj.spec.tuple \in Tuples /\ w[x].bounds \in Bounds
    BY <1>0, <1>8 DEF GetTemplate, Coherent, WithObj, WithBounds
  <2>2. tmpl' = tmpl /\ gap' = gap /\ drift' = drift \ {k}
    BY <1>8 DEF GetTemplate
  <2>3. live # NoObj => gap[k] = "none" /\ live \in Templates
    BY <2>1 DEF GapIsEmpty, TypeOK
  <2>4. CASE live = NoObj
    <3>1. Goto(x, "create")
      BY <1>8, <2>4 DEF GetTemplate
    <3> QED
      BY <1>6, <2>1, <3>1 DEF WithBounds
  <2>5. CASE live # NoObj /\ ~IsControlledBy(live, w[x].obj)
    <3>1. PICK u : u = Failed(w[x].obj, "TemplateConflict")
      OBVIOUS
    <3>2. GoUpdateStatus(x, u, FALSE)
      BY <1>8, <2>5, <3>1 DEF GetTemplate
    <3>3. u \in Updates /\ u.gen = w[x].obj.gen /\ u.reason = "TemplateConflict"
      BY <2>1, <3>1 DEF Failed, Updates, Reads, Failures
    <3>4. Redo(k) \/ Read(cache[k]) = w[x].obj
      BY <2>1 DEF WorkCurrent, WithObj, WithBounds
    <3>4a. PICK i : i = k
      OBVIOUS
    <3>5. ASSUME Read(cache[k]) = w[x].obj PROVE Reports(cache[i], i, u)'
      <4>1. /\ cache[k].gen = w[x].obj.gen /\ cache[k].uid = w[x].obj.uid
            /\ cache[k].spec = w[x].obj.spec
        BY <3>5 DEF Read
      <4>2. cache' = cache
        BY <1>0 DEF informerVars
      <4> QED
        BY <2>1, <2>2, <2>3, <2>5, <3>3, <3>4a, <4>1, <4>2 DEF Reports, ValidModel, IsControlledBy
    <3> QED
      BY <1>7, <3>2, <3>3, <3>4, <3>4a, <3>5
  <2>6. CASE /\ live # NoObj /\ IsControlledBy(live, w[x].obj)
             /\ TemplateNeedsUpdate(live, Desired(x))
    <3>1. /\ UNCHANGED queueVars
          /\ w' = [w EXCEPT ![x] = [w[x] EXCEPT !.pc = "update", !.live = live]]
      BY <1>0, <1>8, <2>6 DEF GetTemplate
    <3>2. w'[x].key = k /\ w'[x].obj = w[x].obj /\ w'[x].pc = "update"
      BY <1>0, <3>1 DEF WorkerStates
    <3> QED
      BY <1>3, <2>1, <3>1, <3>2 DEF WithObj, WithBounds
  <2>7. CASE /\ live # NoObj /\ IsControlledBy(live, w[x].obj)
             /\ ~TemplateNeedsUpdate(live, Desired(x))
    <3>1. Goto(x, "evaluate")
      BY <1>8, <2>7 DEF GetTemplate, Goto
    <3>2. live = Desired(x)
      BY <2>1, <2>3, <2>7 DEF TemplateNeedsUpdate, IsControlledBy, Desired, BuildTemplate, Templates
    <3> QED
      BY <1>5, <2>1, <2>2, <2>3, <2>7, <3>1, <3>2 DEF WithBounds
  <2> QED
    BY <2>4, <2>5, <2>6, <2>7
<1>9. CASE TemplateWork(x)
  <2>1. /\ w[x].pc \in {"create", "update", "delete"} /\ w[x].pc \in WithBounds /\ k \in Keys
        /\ w[x].obj \in Reads
    BY <1>0, <1>9 DEF TemplateWork, CreateTemplate, UpdateTemplate, DeleteTemplate, Coherent,
                      WithObj, WithBounds
  <2>2. CASE CreateTemplate(x) /\ tmpl[k] = NoObj /\ ~Rejected(w[x].obj)
    BY <1>5, <2>1, <2>2 DEF CreateTemplate, TypeOK
  <2>3. CASE /\ w[x].pc = "update" /\ tmpl[k] = w[x].live /\ Goto(x, "evaluate")
             /\ tmpl' = [tmpl EXCEPT ![k] = [Desired(x) EXCEPT !.owner = w[x].live.owner]]
             /\ gap' = gap
    <3>1. w[x].live # NoObj /\ w[x].live.owner = w[x].obj.uid
      BY <1>0, <2>3 DEF Coherent
    <3>2. [Desired(x) EXCEPT !.owner = w[x].live.owner] = Desired(x)
      BY <3>1 DEF Desired, BuildTemplate
    <3>3. gap[k] = "none"
      BY <2>1, <2>3, <3>1 DEF GapIsEmpty
    <3>4. tmpl'[k] = Desired(x)
      BY <2>1, <2>3, <3>2 DEF TypeOK
    <3> QED
      BY <1>5, <2>1, <2>3, <3>3, <3>4
  <2>4. CASE Goto(x, "delete") \/ (w[x].pc = "delete" /\ Goto(x, "create"))
    BY <1>6, <2>1, <2>4
  <2>5. CASE Finish(x, TRUE)
    BY <1>1, <1>1a, <2>5
  <2> QED
    BY <1>9, <2>2, <2>3, <2>4, <2>5
       DEF TemplateWork, CreateTemplate, UpdateTemplate, DeleteTemplate
<1>10. CASE EvaluateCandidates(x)
  <2> DEFINE fit == poolCache[w[x].obj.spec.backend]
  <2>1. /\ w[x].pc = "evaluate" /\ k \in Keys /\ w[x].obj \in Reads
        /\ w[x].obj.spec.tuple \in Tuples
        /\ w[x].bounds \in Bounds /\ w[x].bounds.tuple = w[x].obj.spec.tuple
    BY <1>0, <1>10 DEF EvaluateCandidates, Coherent, WithObj, WithBounds
  <2>2. fit \in Fits
    BY <2>1, ControllerAssumption DEF TypeOK, Reads
  <2>3. PICK u : u = Reconciled(w[x].obj, w[x].bounds, fit)
    OBVIOUS
  <2>4. GoUpdateStatus(x, u, FALSE) /\ UNCHANGED <<tmpl, gap, drift>>
    BY <1>10, <2>3 DEF EvaluateCandidates
  <2>5. /\ u \in Updates /\ u.gen = w[x].obj.gen /\ u.reason = "Resolved"
        /\ u.bounds = w[x].bounds /\ u.cands = fit
    BY <2>1, <2>2, <2>3 DEF Reconciled, Updates, Reads
  <2>6. /\ Redo(k) \/ Read(cache[k]) = w[x].obj
        /\ gap[k] = "none" /\ (k \notin drift => tmpl[k] = Desired(x))
    BY <2>1 DEF WorkCurrent, WithObj, WithBounds
  <2>6a. PICK i : i = k
    OBVIOUS
  <2>7. ASSUME Read(cache[k]) = w[x].obj PROVE Reports(cache[i], i, u)'
    <3>1. /\ cache[k].gen = w[x].obj.gen /\ cache[k].uid = w[x].obj.uid
          /\ cache[k].spec = w[x].obj.spec
      BY <2>7 DEF Read
    <3>2. UNCHANGED <<cache, poolCache, poolNote>>
      BY <1>0 DEF informerVars
    <3> QED
      BY <2>1, <2>4, <2>5, <2>6, <2>6a, <2>7, <3>1, <3>2 DEF Reports, ValidModel, Desired, BuildTemplate
  <2> QED
    BY <1>7, <2>4, <2>5, <2>6, <2>6a, <2>7
<1>11. CASE ResolveFails(x)
  <2>1. w[x].obj \in Reads
    BY <1>0, <1>11 DEF ResolveFails, Coherent, WithObj
  <2>2. PICK u : u = Failed(w[x].obj, "ResolveFailed")
    OBVIOUS
  <2>3. u \in Updates /\ GoUpdateStatus(x, u, TRUE)
    BY <1>11, <2>1, <2>2 DEF ResolveFails, Failed, Updates, Reads, Failures
  <2> QED
    BY <1>7, <2>3, Zenon
<1>12. CASE GetStatus(x)
  <2>1. CASE mc[k] = NoObj
    BY <1>0, <1>1, <1>1a, <1>12, <2>1 DEF GetStatus, WorkerStates
  <2>2. CASE mc[k] # NoObj
    <3>1. /\ UNCHANGED <<queueVars, tmpl, gap, drift>> /\ w[x].pc = "getStatus"
          /\ w' = [w EXCEPT ![x] = [w[x] EXCEPT !.pc = "putStatus", !.fresh = mc[k]]]
      BY <1>0, <1>12, <2>2 DEF GetStatus
    <3>2. /\ w'[x].key = k /\ w'[x].pc = "putStatus"
          /\ w'[x].update = w[x].update /\ w'[x].err = w[x].err
      BY <1>0, <3>1 DEF WorkerStates
    <3> QED
      BY <1>0, <3>1, <3>2
         DEF WorkCurrent, Reports, Redo, informerVars, queueVars, WithObj, WithBounds, WithUpdate
  <2> QED
    BY <2>1, <2>2
<1>13. CASE PutStatus(x) \/ CallFails(x) \/ WriteAppliedThenFails(x)
  <2>1. w[x].err \in BOOLEAN /\ (Finish(x, TRUE) \/ Finish(x, w[x].err))
    BY <1>0, <1>13 DEF PutStatus, CallFails, WriteAppliedThenFails, WorkerStates
  <2> QED
    BY <1>1, <1>1a, <2>1
<1> QED
  BY <1>2, <1>4, <1>8, <1>9, <1>10, <1>11, <1>12, <1>13 DEF WorkerNext, FailedWork, TemplateWork

(* No step loses the news that a refused status write ran into.            *)
LEMMA StepConflict ==
    ASSUME TypeOK, WorkersOK, OneWorker, NeverAhead, ConflictRedone, [Next]_vars
    PROVE  ConflictRedone'
<1> SUFFICES ASSUME NEW x \in Workers PROVE Conflicted(x)'
  BY DEF ConflictRedone
<1> DEFINE k == w[x].key
<1>0. Conflicted(x) /\ Coherent(w[x]) /\ w[x] \in WorkerStates
  BY DEF ConflictRedone, WorkersOK
<1>a. CASE /\ w'[x] = w[x]
           /\ w[x].pc # "idle" => /\ cache'[k] = cache[k] /\ mc'[k] = mc[k]
                                  /\ Redo(k) => Redo(k)'
  BY <1>0, <1>a DEF Conflicted
<1>1. ASSUME NEW j \in Keys, UserStep(j) PROVE Conflicted(x)'
  <2>1. UNCHANGED <<w, cache, mcNote, again>>
    BY <1>1, UserStepIsNews DEF ctlVars, informerVars, queueVars
  <2>2. w[x].pc = "putStatus" => k \in Keys
    BY <1>0 DEF Coherent
  <2> QED
    BY <1>0, <1>1, <2>1, <2>2, UserStepIsNews DEF Conflicted, Redo
<1>2. ASSUME NEW j \in Keys, TemplateStep(j) PROVE Conflicted(x)'
  <2>1. UNCHANGED <<mc, ctlVars>>
    BY <1>2 DEF TemplateStep, OthersCreateTemplate, OthersDeleteTemplate, GarbageCollect
  <2> QED
    BY <1>a, <2>1 DEF ctlVars, informerVars, queueVars, Redo
<1>3. ASSUME NEW j \in Keys, KeyStep(j) PROVE Conflicted(x)'
  <2>1. UNCHANGED <<mc, w>>
    BY <1>3 DEF KeyStep, SyncModelClaim, HandleModelClaim, RetryDue, apiVars
  <2>2. w[x].pc = "putStatus" => k \in Processing /\ k \in Keys
    BY <1>0 DEF Processing, Coherent
  <2>3. CASE SyncModelClaim(j)
    BY <1>0, <2>1, <2>2, <2>3 DEF SyncModelClaim, Conflicted, Redo, TypeOK, queueVars
  <2>4. CASE HandleModelClaim(j)
    BY <1>0, <2>1, <2>2, <2>4 DEF HandleModelClaim, Enqueue, Conflicted, Redo
  <2>5. CASE RetryDue(j)
    BY <1>0, <2>1, <2>2, <2>5 DEF RetryDue, Conflicted, Redo, informerVars
  <2> QED
    BY <1>3, <2>3, <2>4, <2>5 DEF KeyStep
<1>4. ASSUME NEW b \in Backends, PoolStep(b) PROVE Conflicted(x)'
  <2>1. UNCHANGED <<mc, w, cache, mcNote>> /\ again \subseteq again'
    BY <1>4 DEF PoolStep, SyncPool, HandlePool, Enqueue, apiVars, queueVars
  <2> QED
    BY <1>a, <2>1 DEF Redo
<1>5. CASE WorldStep \/ Terminate \/ Resync \/ UNCHANGED vars
  <2>1. UNCHANGED <<mc, w, cache, again>> /\ mcNote \subseteq mcNote'
    BY <1>5 DEF WorldStep, PoolChange, ModelDBMoves, ResolveExpires, Terminate, Resync, vars,
                ctlVars, apiVars, informerVars, queueVars
  <2> QED
    BY <1>a, <2>1 DEF Redo
<1>6. CASE Crash \/ RunReturns \/ Start
  <2>1. w'[x].pc = "idle"
    BY <1>6 DEF Crash, RunReturns, MemoryLost, Start, OneWorker, Alive, Idle
  <2> QED
    BY <2>1 DEF Conflicted
<1>7. ASSUME NEW y \in Workers, y # x, WorkerNext(y) \/ FailedWork(y) PROVE Conflicted(x)'
  <2>1. w'[x] = w[x] /\ UNCHANGED informerVars
    BY <1>7, OthersKept, WorkerKinds
  <2>2. ASSUME w[x].pc # "idle" PROVE (k # w[y].key \/ w[y].pc = "idle") /\ k \in Keys
    BY <1>0, <1>7, <2>2 DEF OneWorker, Coherent
  <2>3. CASE w[x].pc # "idle" /\ k # w[y].key
    BY <1>a, <1>7, <2>1, <2>2, <2>3, OthersKept DEF informerVars, Redo
  <2>4. CASE w[y].pc = "idle"
    <3>1. UNCHANGED again
      BY <1>7, <2>4, WorkerKinds DEF ProcessNext, Continues
    <3>2. UNCHANGED mc
      BY <1>7, <2>4, WorkerWrites
    <3> QED
      BY <1>a, <2>1, <3>1, <3>2 DEF informerVars, Redo
  <2> QED
    BY <1>a, <2>1, <2>2, <2>3, <2>4
<1>8. CASE WorkerNext(x) \/ FailedWork(x)
  <2>1. w'[x].pc = "putStatus" => GetStatus(x) /\ mc[k] # NoObj
    <3>1. ASSUME NEW err \in BOOLEAN, Finish(x, err) PROVE w'[x].pc = "idle"
      BY <3>1 DEF Finish, Idle, WorkersOK
    <3>2. ASSUME NEW u, NEW err, GoUpdateStatus(x, u, err) PROVE w'[x].pc = "getStatus"
      BY <3>2 DEF GoUpdateStatus, Idle, WorkersOK
    <3>3. ASSUME NEW j \in Keys, ProcessNext(x, j) PROVE w'[x].pc # "putStatus"
      BY <3>3 DEF ProcessNext, Idle, WorkersOK
    <3>4. ASSUME TemplateWork(x) PROVE w'[x].pc # "putStatus"
      BY <1>0, <3>1, <3>4 DEF TemplateWork, CreateTemplate, UpdateTemplate,
              DeleteTemplate, Goto, WorkersOK, WorkerStates
    <3>5. ASSUME GetTemplate(x) \/ LookupBounds(x) \/ ResolveOk(x) PROVE w'[x].pc # "putStatus"
      BY <3>5, ResolveMoves, GetTemplateMoves
    <3>6. ASSUME EvaluateCandidates(x) \/ ResolveFails(x) PROVE w'[x].pc # "putStatus"
      BY <3>2, <3>6 DEF EvaluateCandidates, ResolveFails
    <3>7. ASSUME PutStatus(x) \/ CallFails(x) \/ WriteAppliedThenFails(x)
          PROVE  w'[x].pc # "putStatus"
      BY <1>0, <3>1, <3>7 DEF PutStatus, CallFails, WriteAppliedThenFails, WorkerStates
    <3>8. ASSUME GetStatus(x), mc[k] = NoObj PROVE w'[x].pc # "putStatus"
      BY <1>0, <3>1, <3>8 DEF GetStatus, WorkerStates
    <3> QED
      BY <1>8, <3>3, <3>4, <3>5, <3>6, <3>7, <3>8 DEF WorkerNext, FailedWork, TemplateWork
  <2>2. GetStatus(x) /\ mc[k] # NoObj => w'[x].key = k /\ w'[x].fresh = mc[k] /\ mc' = mc
    BY <1>0 DEF GetStatus, WorkersOK, WorkerStates, WorkerFrame
  <2> QED
    BY <2>1, <2>2 DEF Conflicted
<1> QED
  BY <1>1, <1>2, <1>3, <1>4, <1>5, <1>6, <1>7, <1>8, StepCases

(* A status that is current stays so when nothing it speaks of changes.    *)
LEMMA StatusFrame ==
    ASSUME NEW k \in Keys, StatusCurrent(k), mc'[k] = mc[k],
           /\ tmpl'[k] = tmpl[k] \/ k \in drift'
           /\ gap'[k] \in {"none", gap[k]}
           /\ k \in drift => k \in drift',
           \A b \in Backends : poolCache'[b] = poolCache[b] \/ b \in poolNote',
           mc[k].spec.backend \in poolNote => mc[k].spec.backend \in poolNote',
           mc[k].spec.backend \in Backends
    PROVE  StatusCurrent(k)'
BY DEF StatusCurrent, Reports, AsUpdate

(* What ends a reconcile without queueing the key again: a status read or  *)
(* write that has nothing to report to, or a write that succeeds.          *)
LEMMA QuietEnd ==
    ASSUME TypeOK, WorkersOK, NEW x \in Workers, WorkerNext(x) \/ FailedWork(x),
           phase = "running", w[x].pc # "idle", w'[x].pc = "idle", w[x].key \notin delayed'
    PROVE  LET k == w[x].key IN
           /\ ~w[x].err /\ Finish(x, FALSE) /\ UNCHANGED <<tmpl, gap, drift>>
           /\ \/ mc[k] = NoObj /\ mc' = mc
              \/ w[x].pc = "putStatus" /\ mc[k] # w[x].fresh /\ mc' = mc
              \/ w[x].pc = "putStatus" /\ mc[k] = w[x].fresh /\ WriteStatus(x)
<1>0. w[x] \in WorkerStates /\ w \in [Workers -> WorkerStates] /\ w[x].err \in BOOLEAN
  BY DEF WorkersOK, WorkerStates
<1>1. ~Finish(x, TRUE)
  BY DEF Finish
<1>2. ~\E r : Continues(x, r)
  BY <1>0 DEF Continues
<1>3. Finish(x, FALSE)
  BY <1>1, <1>2, WorkerKinds DEF ProcessNext
<1>4. ASSUME NEW u, NEW err, GoUpdateStatus(x, u, err) PROVE FALSE
  BY <1>0, <1>4 DEF GoUpdateStatus, Idle
<1>5. ASSUME NEW pc, pc # "idle", Goto(x, pc) PROVE FALSE
  BY <1>0, <1>5 DEF Goto, WorkerStates
<1>6. ~GetTemplate(x)
  BY GetTemplateMoves
<1>7. ~LookupBounds(x) /\ ~ResolveOk(x)
  BY ResolveMoves
<1>8. ~EvaluateCandidates(x) /\ ~ResolveFails(x)
  BY <1>4 DEF EvaluateCandidates, ResolveFails
<1>9. ~TemplateWork(x)
  BY <1>1, <1>5 DEF TemplateWork, CreateTemplate, UpdateTemplate, DeleteTemplate
<1>10. ~CallFails(x) /\ ~WriteAppliedThenFails(x) /\ ~\E j \in Keys : ProcessNext(x, j)
  BY <1>1 DEF CallFails, WriteAppliedThenFails, ProcessNext
<1>11. CASE GetStatus(x)
  <2>1. mc[w[x].key] = NoObj
    <3>1. SUFFICES ASSUME mc[w[x].key] # NoObj PROVE FALSE
      OBVIOUS
    <3>2. w' = [w EXCEPT ![x] = [w[x] EXCEPT !.pc = "putStatus", !.fresh = mc[w[x].key]]]
      BY <1>0, <1>11, <3>1 DEF GetStatus
    <3> QED
      BY <1>0, <3>2 DEF WorkerStates
  <2>2. Finish(x, w[x].err) /\ mc' = mc /\ UNCHANGED <<tmpl, gap, drift>>
    BY <1>11, <2>1 DEF GetStatus, WorkerFrame
  <2>3. ~w[x].err
    BY <1>0, <1>1, <2>2
  <2> QED
    BY <1>3, <2>1, <2>2, <2>3
<1>12. CASE PutStatus(x)
  <2>1. Finish(x, w[x].err)
    BY <1>1, <1>12 DEF PutStatus
  <2>2. ~w[x].err
    BY <1>0, <1>1, <2>1
  <2> QED
    BY <1>1, <1>3, <1>12, <2>1, <2>2 DEF PutStatus
<1> QED
  BY <1>6, <1>7, <1>8, <1>9, <1>10, <1>11, <1>12 DEF WorkerNext, FailedWork, TemplateWork

(* A status write that is not done again writes what is current.           *)
LEMMA WriteIsCurrent ==
    ASSUME TypeOK, WorkersOK, NEW x \in Workers, WorkCurrent(x),
           w[x].pc = "putStatus", ~w[x].err, mc[w[x].key] = w[x].fresh, WriteStatus(x),
           NEW k, k = w[x].key, ~Redo(k), cache[k] = mc'[k],
           UNCHANGED <<tmpl, gap, drift, cache, poolCache, poolNote>>
    PROVE  StatusCurrent(k)'
<1> DEFINE u == w[x].update
           f == w[x].fresh
<1>1. k \in Keys /\ u \in Updates /\ f \in ModelClaim
  BY DEF WorkersOK, Coherent, WithUpdate
<1>2. Reports(cache[k], k, u)
  BY DEF WorkCurrent, WithUpdate
<1>3. mc'[k] = [f EXCEPT !.status = Mutate(f.status, u)]
  BY <1>1 DEF WriteStatus, TypeOK
<1>4. f.status \in Status
  BY <1>1 DEF ModelClaim
<1> DEFINE s == Mutate(f.status, u)
<1>5. s.reason = u.reason /\ s.condGen = u.gen
  BY <1>4 DEF Mutate, Status
<1>6. u.reason = "Resolved" =>
         s.bounds = u.bounds /\ s.cands = u.cands /\ s.sat = u.cands /\ s.obs = u.gen
  BY DEF Mutate
<1>7. mc'[k].status = s
  BY <1>1, <1>3 DEF ModelClaim
<1> HIDE DEF s, u, f
<1>8. PICK m : m = mc'[k]
  OBVIOUS
<1>9. u.gen = m.gen /\ Reports(m, k, u)
  BY <1>2, <1>8 DEF Reports
<1> QED
  BY <1>5, <1>6, <1>7, <1>8, <1>9 DEF StatusCurrent, Reports, AsUpdate

(* No step leaves a claim quiet and its status out of date.                *)
LEMMA StepQuiet ==
    ASSUME TypeOK, WorkersOK, OneWorker, NeverAhead, WorkIsCurrent, ConflictRedone,
           QuietIsCurrent, [Next]_vars
    PROVE  QuietIsCurrent'
<1> SUFFICES ASSUME NEW k \in Keys, Quiet(k)' PROVE StatusCurrent(k)'
  BY DEF QuietIsCurrent
<1>0. /\ mc[k] \in ModelClaim => mc[k].spec.backend \in Backends
      /\ Quiet(k) => StatusCurrent(k) /\ mc[k].spec.backend \in Backends
      /\ mc[k] \in ModelClaim \union {NoObj}
  BY ControllerAssumption DEF QuietIsCurrent, Quiet, TypeOK, ModelClaim
<1>1. ASSUME NEW j \in Keys, UserStep(j) PROVE StatusCurrent(k)'
  <2>1. /\ j # k /\ mc'[k] = mc[k]
        /\ UNCHANGED <<tmpl, gap, drift, w, phase, cache, mcNote, poolCache, poolNote,
                       queued, again, delayed>>
    BY <1>1, UserStepIsNews DEF Quiet, ctlVars, informerVars, queueVars
  <2> QED
    BY <1>0, <2>1, StatusFrame DEF Quiet
<1>2. ASSUME NEW j \in Keys, TemplateStep(j) PROVE StatusCurrent(k)'
  <2>1. /\ UNCHANGED <<mc, w, phase, cache, mcNote, poolCache, poolNote, queued, again, delayed>>
        /\ drift' = drift \union {j}
        /\ \A i \in Keys : i # j => tmpl'[i] = tmpl[i]
        /\ \A i \in Keys : gap'[i] \in {"none", gap[i]}
    BY <1>2 DEF TemplateStep, OthersCreateTemplate, OthersDeleteTemplate, GarbageCollect, TypeOK,
                ctlVars, informerVars, queueVars
  <2> QED
    BY <1>0, <2>1, StatusFrame DEF Quiet
<1>3. ASSUME NEW j \in Keys, KeyStep(j) PROVE StatusCurrent(k)'
  <2>1. UNCHANGED <<tmpl, gap, drift, w, mc, poolCache, poolNote, phase>>
    BY <1>3 DEF KeyStep, SyncModelClaim, HandleModelClaim, RetryDue, apiVars, informerVars
  <2>2. Quiet(k)
    <3>1. CASE SyncModelClaim(j)
      BY <3>1 DEF SyncModelClaim, Quiet, apiVars, queueVars, TypeOK
    <3>2. CASE HandleModelClaim(j)
      BY <3>2 DEF HandleModelClaim, Quiet, Enqueue, apiVars
    <3>3. CASE RetryDue(j)
      BY <3>3 DEF RetryDue, Quiet, apiVars, informerVars
    <3> QED
      BY <1>3, <3>1, <3>2, <3>3 DEF KeyStep
  <2> QED
    BY <1>0, <2>1, <2>2, StatusFrame
<1>4. ASSUME NEW b \in Backends, PoolStep(b) PROVE StatusCurrent(k)'
  <2>1. UNCHANGED <<tmpl, gap, drift, w, mc, cache, mcNote, phase>>
    BY <1>4 DEF PoolStep, SyncPool, HandlePool, apiVars
  <2>2. Quiet(k)
    BY <1>4, <2>1 DEF PoolStep, SyncPool, HandlePool, Quiet, Enqueue, queueVars
  <2>3. CASE SyncPool(b)
    BY <1>0, <2>1, <2>2, <2>3, StatusFrame DEF SyncPool, TypeOK
  <2>4. CASE HandlePool(b)
    <3>1. mc[k].spec.backend # b
      <4>1. SUFFICES ASSUME mc[k].spec.backend = b PROVE FALSE
        OBVIOUS
      <4>2. Relevant(b) /\ k \in Cached
        BY <2>2, <4>1 DEF Relevant, nvidiaTargetsPresent, Cached, Backends, Quiet
      <4> QED
        BY <2>4, <4>2 DEF HandlePool, Enqueue, Quiet
    <3>2. poolCache' = poolCache /\ poolNote' = poolNote \ {b}
      BY <2>4 DEF HandlePool
    <3> QED
      BY <1>0, <2>1, <2>2, <3>1, <3>2, StatusFrame
  <2> QED
    BY <1>4, <2>3, <2>4 DEF PoolStep
<1>5. CASE WorldStep \/ Resync \/ UNCHANGED vars
  <2>1. /\ UNCHANGED <<tmpl, gap, drift, w, mc, cache, phase, poolCache, poolNote,
                       queued, again, delayed>>
        /\ mcNote \subseteq mcNote'
    BY <1>5 DEF WorldStep, PoolChange, ModelDBMoves, ResolveExpires, Resync, vars,
                ctlVars, apiVars, informerVars, queueVars
  <2> QED
    BY <1>0, <2>1, StatusFrame DEF Quiet
<1>6. CASE Terminate \/ Crash \/ RunReturns \/ Start
  BY <1>6 DEF Terminate, Crash, RunReturns, Start, Quiet, apiVars
<1>7. ASSUME NEW x \in Workers, WorkerNext(x) \/ FailedWork(x) PROVE StatusCurrent(k)'
  <2>0. UNCHANGED <<cache, mcNote, poolCache, poolNote, phase>>
    BY <1>7, WorkerKinds DEF informerVars
  <2>1. CASE w[x].pc # "idle" /\ w[x].key # k
    <3>1. /\ mc'[k] = mc[k] /\ tmpl'[k] = tmpl[k] /\ gap'[k] = gap[k]
          /\ k \in drift' <=> k \in drift
          /\ k \in again' <=> k \in again
          /\ k \in delayed' <=> k \in delayed
          /\ \A y \in Workers : y # x => w'[y] = w[y]
      BY <1>7, <2>1, OthersKept
    <3>2. queued \subseteq queued'
      BY <1>7, <2>1, WorkerKinds DEF ProcessNext, Continues, Finish, queueVars
    <3>3. Quiet(k)
      BY <2>0, <2>1, <3>1, <3>2 DEF Quiet
    <3> QED
      BY <1>0, <2>0, <3>1, <3>3, StatusFrame
  <2>2. CASE w[x].pc = "idle"
    <3>1. PICK j \in Keys : ProcessNext(x, j)
      BY <1>7, <2>2, WorkerKinds DEF Continues
    <3>2. UNCHANGED <<mc, tmpl, gap, drift, again, delayed>>
      BY <3>1 DEF ProcessNext, WorkerFrame
    <3>3. \A y \in Workers : y # x => w'[y] = w[y]
      BY <1>7, OthersKept
    <3>4. CASE j = k
      <4>1. cache[k] # NoObj
        BY <2>0, <3>2 DEF Quiet
      <4> DEFINE a == [Idle EXCEPT !.pc = "resolve", !.key = k, !.obj = Read(cache[k])]
                 b == [Idle EXCEPT !.pc = "getStatus", !.key = k,
                                   !.update = Failed(cache[k], "InvalidModel")]
      <4>2. a.key = k /\ a.pc # "idle" /\ b.key = k /\ b.pc # "idle"
        BY DEF Idle
      <4>3. \/ w' = [w EXCEPT ![x] = a]
            \/ w' = [w EXCEPT ![x] = b]
        BY <3>1, <3>4, <4>1 DEF ProcessNext
      <4> HIDE DEF a, b
      <4>4. w'[x].key = k /\ w'[x].pc # "idle"
        BY <4>2, <4>3 DEF WorkersOK
      <4> QED
        BY <4>4 DEF Quiet
    <3>5. CASE j # k
      <4>1. queued' = queued \ {j}
        BY <3>1 DEF ProcessNext
      <4>2. Quiet(k)
        BY <2>0, <2>2, <3>2, <3>3, <3>5, <4>1 DEF Quiet
      <4> QED
        BY <1>0, <2>0, <3>2, <4>2, StatusFrame
    <3> QED
      BY <3>4, <3>5
  <2>3. CASE w[x].pc # "idle" /\ w[x].key = k
    <3>1. w'[x].pc = "idle"
      <4>1. ASSUME NEW r, Continues(x, r) PROVE FALSE
        BY <2>3, <4>1 DEF Continues, Quiet, WorkersOK
      <4>2. ASSUME NEW err \in BOOLEAN, Finish(x, err) PROVE w'[x].pc = "idle"
        BY <4>2 DEF Finish, Idle, WorkersOK
      <4> QED
        BY <1>7, <2>3, <4>1, <4>2, WorkerKinds DEF ProcessNext
    <3>2. phase = "running" /\ k \notin delayed' /\ k \notin queued' /\ k \notin mcNote
          /\ cache[k] = mc'[k] /\ mc'[k] # NoObj
      BY <2>0 DEF Quiet
    <3>3. /\ ~w[x].err /\ Finish(x, FALSE) /\ UNCHANGED <<tmpl, gap, drift>>
          /\ \/ mc[k] = NoObj /\ mc' = mc
             \/ w[x].pc = "putStatus" /\ mc[k] # w[x].fresh /\ mc' = mc
             \/ w[x].pc = "putStatus" /\ mc[k] = w[x].fresh /\ WriteStatus(x)
      BY <1>7, <2>3, <3>1, <3>2, QuietEnd
    <3>4. ~Redo(k)
      BY <2>3, <3>2, <3>3 DEF Redo, Finish
    <3>5. CASE w[x].pc = "putStatus" /\ mc[k] # w[x].fresh /\ mc' = mc
      BY <2>3, <3>2, <3>4, <3>5 DEF ConflictRedone, Conflicted
    <3>6. CASE w[x].pc = "putStatus" /\ mc[k] = w[x].fresh /\ WriteStatus(x)
      <4>1. WorkCurrent(x)
        BY DEF WorkIsCurrent
      <4> QED
        BY <2>0, <2>3, <3>2, <3>3, <3>4, <3>6, <4>1, WriteIsCurrent
    <3> QED
      BY <3>2, <3>3, <3>5, <3>6
  <2> QED
    BY <2>1, <2>2, <2>3
<1> QED
  BY <1>1, <1>2, <1>3, <1>4, <1>5, <1>6, <1>7, StepCases

-----------------------------------------------------------------------------
(* The inductive invariant holds of every run.                             *)
THEOREM Invariance == Spec => []IndInv
<1>1. IndInv /\ [Next]_vars => IndInv'
  <2> SUFFICES ASSUME IndInv, [Next]_vars PROVE IndInv'
    OBVIOUS
  <2> USE DEF IndInv
  <2>1. TypeOK' /\ WorkersOK'
    BY StepType, StepWorkers
  <2>2. OneWorker' /\ NeverAhead' /\ GapIsEmpty' /\ TemplateFromOneSpec'
    BY StepOneWorker, StepNeverAhead, StepGap, StepTemplate
  <2>3. WorkIsCurrent'
    <3> SUFFICES ASSUME NEW x \in Workers PROVE WorkCurrent(x)'
      BY DEF WorkIsCurrent
    <3>1. WorkCurrent(x)
      BY DEF WorkIsCurrent
    <3>2. CASE WorkerNext(x) \/ FailedWork(x)
      BY <3>1, <3>2, StepWorkOwn
    <3>3. CASE ~(WorkerNext(x) \/ FailedWork(x))
      BY <3>1, <3>3, StepWorkOthers, StepCases
    <3> QED
      BY <3>2, <3>3
  <2>4. ConflictRedone' /\ QuietIsCurrent'
    BY StepConflict, StepQuiet
  <2> QED
    BY <2>1, <2>2, <2>3, <2>4
<1> QED
  BY InitIndInv, <1>1, PTL DEF Spec

(* controller.go: every object, store and queue holds what the code can    *)
(* put there; every template has an owner or is someone else's.            *)
THEOREM TypeCorrect == Spec => []TypeOK
<1>1. IndInv => TypeOK
  BY DEF IndInv
<1> QED
  BY Invariance, <1>1, PTL

(* controller.go:353-457: a template a ModelClaim owns is of one spec,     *)
(* whatever is edited or fails while it is being written.                  *)
THEOREM OneSpecPerTemplate == Spec => []TemplateFromOneSpec
<1>1. IndInv => TemplateFromOneSpec
  BY DEF IndInv
<1> QED
  BY Invariance, <1>1, PTL

(* controller.go:235-271: after a SIGTERM Run returns only once every      *)
(* template the controller deleted is back, or the attempt failed.         *)
THEOREM RecreateSurvivesShutdown == Spec => []ShutdownKeepsRecreate
<1>1. IndInv => ShutdownKeepsRecreate
  BY DEF IndInv, ShutdownKeepsRecreate, GapIsEmpty, OneWorker, Alive, TypeOK
<1> QED
  BY Invariance, <1>1, PTL

(* What Settled adds to Quiet: the pools' stores are up to date too.       *)
LEMMA SettledIsQuiet ==
    ASSUME NEW k \in Keys, Settled(k), mc[k] # NoObj
    PROVE  Quiet(k) /\ poolCache = pool /\ poolNote = {}
BY DEF Settled, Quiet, Processing

(* controller.go:336-457: with no work pending for a ModelClaim, its       *)
(* conditions, candidates and template belong to its current spec and to   *)
(* the devices published now.                                              *)
THEOREM SettledClaimIsCurrent == Spec => []SettledIsCurrent
<1>1. IndInv => SettledIsCurrent
  <2> SUFFICES ASSUME IndInv, NEW k \in Keys, Settled(k), mc[k] # NoObj
               PROVE  Current(k, k \notin drift)
    BY DEF SettledIsCurrent
  <2>1. StatusCurrent(k) /\ poolCache = pool /\ poolNote = {}
    BY SettledIsQuiet DEF IndInv, QuietIsCurrent
  <2> QED
    BY <2>1 DEF StatusCurrent, Reports, AsUpdate, Current
<1> QED
  BY Invariance, <1>1, PTL

(* controller.go:392-406: a template that the controller deleted and has   *)
(* not created again is never forgotten.                                   *)
THEOREM GapIsRepaired == Spec => []GapRepairOwed
<1>1. IndInv => GapRepairOwed
  <2> SUFFICES ASSUME IndInv, NEW k \in Keys, gap[k] # "none", mc[k] # NoObj,
                      ValidModel(mc[k]), Settled(k)
               PROVE  FALSE
    BY DEF GapRepairOwed
  <2>1. StatusCurrent(k)
    BY SettledIsQuiet DEF IndInv, QuietIsCurrent
  <2> QED
    BY <2>1 DEF StatusCurrent, Reports, AsUpdate
<1> QED
  BY Invariance, <1>1, PTL

(* controller.go:374-376: no update turns a template over to another       *)
(* owner, whoever created it between the read and the write.               *)
THEOREM OwnersKept == Spec => OwnerNeverChanges
<1> DEFINE Kept == \A k \in Keys : tmpl[k] # NoObj /\ tmpl'[k] # NoObj
                                      => tmpl'[k].owner = tmpl[k].owner
<1>1. IndInv /\ [Next]_vars => [Kept]_vars
  <2> SUFFICES ASSUME IndInv, [Next]_vars, NEW k \in Keys, tmpl[k] # NoObj, tmpl'[k] # NoObj
               PROVE  tmpl'[k].owner = tmpl[k].owner
    BY Zenon
  <2> USE DEF IndInv
  <2>1. CASE tmpl'[k] = tmpl[k]
    BY <2>1
  <2>2. ASSUME NEW j \in Keys, TemplateStep(j) PROVE tmpl'[k] = tmpl[k]
    BY <2>2 DEF TemplateStep, OthersCreateTemplate, OthersDeleteTemplate, GarbageCollect, TypeOK
  <2>3. ASSUME NEW x \in Workers, WorkerNext(x) \/ FailedWork(x)
        PROVE  tmpl'[k].owner = tmpl[k].owner
    <3>1. CASE /\ w[x].pc = "update" /\ tmpl[w[x].key] = w[x].live
               /\ tmpl' = [tmpl EXCEPT ![w[x].key] = [Desired(x) EXCEPT !.owner = w[x].live.owner]]
      BY <3>1 DEF TypeOK, Desired, BuildTemplate
    <3>2. CASE \/ tmpl[w[x].key] = NoObj /\ tmpl' = [tmpl EXCEPT ![w[x].key] = Desired(x)]
               \/ tmpl' = [tmpl EXCEPT ![w[x].key] = NoObj]
      BY <3>2 DEF TypeOK
    <3> QED
      BY <2>1, <2>3, <3>1, <3>2, TemplateWrites
  <2>4. ASSUME NEW j \in Keys, UserStep(j) \/ KeyStep(j) PROVE tmpl' = tmpl
    BY <2>4 DEF UserStep, UserCreate, UserEdit, UserLabel, UserDelete, KeyStep, SyncModelClaim,
                HandleModelClaim, RetryDue, apiVars
  <2>5. ASSUME NEW b \in Backends, PoolStep(b) PROVE tmpl' = tmpl
    BY <2>5 DEF PoolStep, SyncPool, HandlePool, apiVars
  <2>6. CASE WorldStep \/ Terminate \/ Crash \/ RunReturns \/ Start \/ Resync \/ UNCHANGED vars
    BY <2>6 DEF WorldStep, PoolChange, ModelDBMoves, ResolveExpires, Terminate, Crash, RunReturns,
                MemoryLost, Start, Resync, vars, apiVars
  <2> QED
    BY <2>1, <2>2, <2>3, <2>4, <2>5, <2>6, StepCases
<1> QED
  BY Invariance, <1>1, PTL DEF Spec, OwnerNeverChanges
=============================================================================
