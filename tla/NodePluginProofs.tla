--------------------------- MODULE NodePluginProofs --------------------------
(***************************************************************************)
(* For every set of claims, devices and pods: a claim the kubelet holds    *)
(* for prepared has its spec file, no spec file is torn, the start-up      *)
(* sweep removes no file of a live claim, and Preparation is implemented.  *)
(***************************************************************************)
EXTENDS NodePlugin, TLAPS

(* A claim that a pod uses, or the kubelet holds for prepared, exists.     *)
UsedIsLive == \A c \in Claims : kubelet[c] \in {"want", "prepared"} => c \in claims

(* The sweep's list has every claim that still exists.                     *)
SweepSafe == step = "sweep" => claims \subseteq live

(* A prepare call's successes have their files, an unprepare call works on *)
(* claims that are not prepared.                                           *)
CallSafe ==
    /\ call.op = "prepare" => \A c \in call.ok : spec[c] = Alloc[c]
    /\ call.op = "unprepare" => \A c \in call.todo : kubelet[c] # "prepared"

(* The temporary file is on disk before the rename.                        *)
SyncedFirst == step = "rename" => synced

(* Only an allocation with devices is written, and an unprepare call's     *)
(* successes have no file.                                                 *)
AnswerTrue ==
    /\ step \in {"sync", "rename"} => Alloc[cur] # {}
    /\ call.op = "prepare" => \A c \in call.ok : Alloc[c] # {}
    /\ call.op = "unprepare" => \A c \in call.ok : spec[c] = NoSpec

(* A claim the kubelet has nothing to do with has no file and is not being *)
(* prepared, unless the kubelet forgot it.                                 *)
IdleHasNoFile ==
    \A c \in Claims :
        kubelet[c] = "idle" /\ c \notin forgotten
        => spec[c] = NoSpec /\ (call.op = "prepare" => c \notin call.todo)

(* A claim that was gone when the agent started is not prepared any more,  *)
(* and the sweep has its file still to look at, or none is left.           *)
DeadIsSwept ==
    /\ dead \cap claims = {}
    /\ call.op = "prepare" => call.todo \cap dead = {}
    /\ step = "sweep" => live \cap dead = {}
    /\ step \in {"list", "sweep"} /\ swept => \A c \in dead : spec[c] # NoSpec => c \in uids
    /\ step \in {"serve", "lookup", "sync", "rename"} /\ swept => \A c \in dead : spec[c] = NoSpec

IndInv ==
    TypeOK /\ PreparedHasSpec /\ NoTornSpec
    /\ UsedIsLive /\ SweepSafe /\ CallSafe /\ SyncedFirst /\ AnswerTrue
    /\ IdleHasNoFile /\ DeadIsSwept

(* The initial states satisfy the inductive invariant.                     *)
LEMMA InitIndInv == Init => IndInv
<1> SUFFICES ASSUME Init PROVE IndInv  OBVIOUS
<1>1. TypeOK
  BY NodePluginAssumption DEF Init, TypeOK, NoCall, NoSpec
<1> QED
  BY <1>1 DEF Init, IndInv, PreparedHasSpec, NoTornSpec, UsedIsLive, SweepSafe, CallSafe,
              SyncedFirst, AnswerTrue, IdleHasNoFile, DeadIsSwept, NoCall

(* A kubelet that gives up on the running call changes nothing else of it. *)
LEMMA AbandonedCall ==
    ASSUME TypeOK, call' = [call EXCEPT !.awaited = FALSE]
    PROVE  /\ call' \in [op : {"none", "prepare", "unprepare"}, todo : SUBSET Claims,
                         ok : SUBSET Claims, awaited : BOOLEAN]
           /\ call'.op = call.op /\ call'.todo = call.todo
           /\ call = NoCall => call' = NoCall
<1>1. call \in [op : {"none", "prepare", "unprepare"}, todo : SUBSET Claims,
                ok : SUBSET Claims, awaited : BOOLEAN]
  BY DEF TypeOK
<1>2. call' = [op |-> call.op, todo |-> call.todo, ok |-> call.ok, awaited |-> FALSE]
  BY <1>1
<1>3. call' \in [op : {"none", "prepare", "unprepare"}, todo : SUBSET Claims,
                 ok : SUBSET Claims, awaited : BOOLEAN]
  BY <1>1, <1>2
<1>4. ASSUME call = NoCall PROVE call' = NoCall
  <2>1. call.op = "none" /\ call.todo = {} /\ call.ok = {}  BY <1>4 DEF NoCall
  <2> QED  BY <2>1, <1>2 DEF NoCall
<1> QED  BY <1>2, <1>3, <1>4

(* Types and the place of the claim in work are kept by every step.        *)
LEMMA StepType ==
    ASSUME IndInv, [Next]_vars
    PROVE  TypeOK'
<1> USE NodePluginAssumption DEF IndInv, TypeOK, kubeletVars, fileVars, sweepVars, claimVars, NoCall, NoSpec
<1>1. CASE Boot  BY <1>1 DEF Boot
<1>2. CASE GCGlob  BY <1>2 DEF GCGlob, specUIDs
<1>3. CASE GCList  BY <1>3 DEF GCList
<1>4. CASE GCDone  BY <1>4 DEF GCDone
<1>5. ASSUME NEW c \in Claims, GCRemove(c) PROVE TypeOK'
  BY <1>5 DEF GCRemove, removeSpec
<1>6. ASSUME NEW c \in Claims, PrepareClaim(c) PROVE TypeOK'
  BY <1>6 DEF PrepareClaim
<1>7. ASSUME NEW c \in Claims, RemoveSpec(c) PROVE TypeOK'
  <2>1. cur = NoClaim  BY <1>7 DEF RemoveSpec
  <2>2. call' \in [op : {"none", "prepare", "unprepare"}, todo : SUBSET Claims,
                   ok : SUBSET Claims, awaited : BOOLEAN]
    BY <1>7 DEF RemoveSpec
  <2>3. call # NoCall  BY <1>7 DEF RemoveSpec
  <2> QED  BY <1>7, <2>1, <2>2, <2>3 DEF RemoveSpec, removeSpec
<1>8. ASSUME NEW d \in Devices, Lookup(d) PROVE TypeOK'
  BY <1>8 DEF Lookup
<1>9. ASSUME NEW d \in Devices, LookupMissing(d) PROVE TypeOK'
  BY <1>9 DEF LookupMissing, ClaimFails, ClaimDone
<1>10. CASE NothingToPrepare  BY <1>10 DEF NothingToPrepare, ClaimFails, ClaimDone
<1>11. CASE WriteTemp  BY <1>11 DEF WriteTemp
<1>12. CASE SyncTemp  BY <1>12 DEF SyncTemp
<1>13. CASE Rename  BY <1>13 DEF Rename, ClaimDone
<1>14. CASE Reply  BY <1>14 DEF Reply, Outcome
<1>15. ASSUME NEW P \in Pods, CallPrepare(P) PROVE TypeOK'
  BY <1>15 DEF CallPrepare, Calls, Idle, Pending
<1>16. ASSUME NEW P \in Pods, CallUnprepare(P) PROVE TypeOK'
  BY <1>16 DEF CallUnprepare, Calls, Idle, Pending
<1>17. CASE GCListFails  BY <1>17 DEF GCListFails
<1>18. CASE WriteSpecFails  BY <1>18 DEF WriteSpecFails, ClaimFails, ClaimDone
<1>19. ASSUME NEW c \in Claims, GCRemoveFails(c) PROVE TypeOK'
  BY <1>19 DEF GCRemoveFails
<1>20. ASSUME NEW c \in Claims, RemoveSpecFails(c) PROVE TypeOK'
  BY <1>20 DEF RemoveSpecFails
<1>21. ASSUME NEW c \in Claims, ClaimDeleted(c) PROVE TypeOK'
  BY <1>21 DEF ClaimDeleted
<1>22. ASSUME NEW P \in Pods, PodArrives(P) PROVE TypeOK'
  BY <1>22 DEF PodArrives
<1>23. ASSUME NEW P \in Pods, PodDeleted(P) PROVE TypeOK'
  BY <1>23 DEF PodDeleted
<1>24. CASE KubeletGivesUp
  BY <1>24, AbandonedCall DEF KubeletGivesUp
<1>25. CASE KubeletRestart
  BY <1>25, AbandonedCall DEF KubeletRestart, Reprepares
<1>26. CASE CheckpointLost
  BY <1>26, AbandonedCall DEF CheckpointLost, Reprepares
<1>27. CASE InventorySet  BY <1>27 DEF InventorySet
<1>28. CASE Crash  BY <1>28 DEF Crash, Working
<1>29. CASE PowerLoss  BY <1>29 DEF PowerLoss, Working, Reprepares, specUIDs
<1>30. CASE UNCHANGED vars  BY <1>30 DEF vars
<1> QED
  BY <1>1, <1>2, <1>3, <1>4, <1>5, <1>6, <1>7, <1>8, <1>9, <1>10, <1>11, <1>12, <1>13, <1>14, <1>15,
     <1>16, <1>17, <1>18, <1>19, <1>20, <1>21, <1>22, <1>23, <1>24, <1>25, <1>26, <1>27, <1>28, <1>29, <1>30
     DEF Next, System, Agent, KubeletCalls, Disturbance

(* The rename follows the fsync: no spec file is ever torn.                *)
LEMMA StepSynced ==
    ASSUME IndInv, [Next]_vars
    PROVE  NoTornSpec' /\ SyncedFirst'
<1> USE DEF IndInv, TypeOK, NoTornSpec, SyncedFirst, kubeletVars, fileVars, sweepVars, claimVars, NoCall, NoSpec
<1>1. CASE Boot  BY <1>1 DEF Boot
<1>2. CASE GCGlob  BY <1>2 DEF GCGlob, specUIDs
<1>3. CASE GCList  BY <1>3 DEF GCList
<1>4. CASE GCDone  BY <1>4 DEF GCDone
<1>5. ASSUME NEW c \in Claims, GCRemove(c) PROVE NoTornSpec' /\ SyncedFirst'
  BY <1>5 DEF GCRemove, removeSpec
<1>6. ASSUME NEW c \in Claims, PrepareClaim(c) PROVE NoTornSpec' /\ SyncedFirst'
  BY <1>6 DEF PrepareClaim
<1>7. ASSUME NEW c \in Claims, RemoveSpec(c) PROVE NoTornSpec' /\ SyncedFirst'
  BY <1>7 DEF RemoveSpec, removeSpec
<1>8. ASSUME NEW d \in Devices, Lookup(d) PROVE NoTornSpec' /\ SyncedFirst'
  BY <1>8 DEF Lookup
<1>9. ASSUME NEW d \in Devices, LookupMissing(d) PROVE NoTornSpec' /\ SyncedFirst'
  BY <1>9 DEF LookupMissing, ClaimFails, ClaimDone
<1>10. CASE NothingToPrepare  BY <1>10 DEF NothingToPrepare, ClaimFails, ClaimDone
<1>11. CASE WriteTemp  BY <1>11 DEF WriteTemp
<1>12. CASE SyncTemp  BY <1>12 DEF SyncTemp
<1>13. CASE Rename  BY <1>13 DEF Rename, ClaimDone
<1>14. CASE Reply  BY <1>14 DEF Reply, Outcome
<1>15. ASSUME NEW P \in Pods, CallPrepare(P) PROVE NoTornSpec' /\ SyncedFirst'
  BY <1>15 DEF CallPrepare, Calls, Idle, Pending
<1>16. ASSUME NEW P \in Pods, CallUnprepare(P) PROVE NoTornSpec' /\ SyncedFirst'
  BY <1>16 DEF CallUnprepare, Calls, Idle, Pending
<1>17. CASE GCListFails  BY <1>17 DEF GCListFails
<1>18. CASE WriteSpecFails  BY <1>18 DEF WriteSpecFails, ClaimFails, ClaimDone
<1>19. ASSUME NEW c \in Claims, GCRemoveFails(c) PROVE NoTornSpec' /\ SyncedFirst'
  BY <1>19 DEF GCRemoveFails
<1>20. ASSUME NEW c \in Claims, RemoveSpecFails(c) PROVE NoTornSpec' /\ SyncedFirst'
  BY <1>20 DEF RemoveSpecFails
<1>21. ASSUME NEW c \in Claims, ClaimDeleted(c) PROVE NoTornSpec' /\ SyncedFirst'
  BY <1>21 DEF ClaimDeleted
<1>22. ASSUME NEW P \in Pods, PodArrives(P) PROVE NoTornSpec' /\ SyncedFirst'
  BY <1>22 DEF PodArrives
<1>23. ASSUME NEW P \in Pods, PodDeleted(P) PROVE NoTornSpec' /\ SyncedFirst'
  BY <1>23 DEF PodDeleted
<1>24. CASE KubeletGivesUp  BY <1>24 DEF KubeletGivesUp
<1>25. CASE KubeletRestart  BY <1>25 DEF KubeletRestart, Reprepares
<1>26. CASE CheckpointLost  BY <1>26 DEF CheckpointLost, Reprepares
<1>27. CASE InventorySet  BY <1>27 DEF InventorySet
<1>28. CASE Crash  BY <1>28 DEF Crash, Working
<1>29. CASE PowerLoss  BY <1>29 DEF PowerLoss, Working, Reprepares, specUIDs
<1>30. CASE UNCHANGED vars  BY <1>30 DEF vars
<1> QED
  BY <1>1, <1>2, <1>3, <1>4, <1>5, <1>6, <1>7, <1>8, <1>9, <1>10, <1>11, <1>12, <1>13, <1>14, <1>15,
     <1>16, <1>17, <1>18, <1>19, <1>20, <1>21, <1>22, <1>23, <1>24, <1>25, <1>26, <1>27, <1>28, <1>29, <1>30
     DEF Next, System, Agent, KubeletCalls, Disturbance

(* Claims in use exist, and the sweep's list covers the ones that exist.   *)
LEMMA StepLive ==
    ASSUME IndInv, [Next]_vars
    PROVE  UsedIsLive' /\ SweepSafe'
<1> USE DEF IndInv, TypeOK, UsedIsLive, SweepSafe, kubeletVars, fileVars, sweepVars, claimVars, NoCall, NoSpec
<1>1. CASE Boot  BY <1>1 DEF Boot
<1>2. CASE GCGlob  BY <1>2 DEF GCGlob, specUIDs
<1>3. CASE GCList  BY <1>3 DEF GCList
<1>4. CASE GCDone  BY <1>4 DEF GCDone
<1>5. ASSUME NEW c \in Claims, GCRemove(c) PROVE UsedIsLive' /\ SweepSafe'
  BY <1>5 DEF GCRemove, removeSpec
<1>6. ASSUME NEW c \in Claims, PrepareClaim(c) PROVE UsedIsLive' /\ SweepSafe'
  BY <1>6 DEF PrepareClaim
<1>7. ASSUME NEW c \in Claims, RemoveSpec(c) PROVE UsedIsLive' /\ SweepSafe'
  BY <1>7 DEF RemoveSpec, removeSpec
<1>8. ASSUME NEW d \in Devices, Lookup(d) PROVE UsedIsLive' /\ SweepSafe'
  BY <1>8 DEF Lookup
<1>9. ASSUME NEW d \in Devices, LookupMissing(d) PROVE UsedIsLive' /\ SweepSafe'
  BY <1>9 DEF LookupMissing, ClaimFails, ClaimDone
<1>10. CASE NothingToPrepare  BY <1>10 DEF NothingToPrepare, ClaimFails, ClaimDone
<1>11. CASE WriteTemp  BY <1>11 DEF WriteTemp
<1>12. CASE SyncTemp  BY <1>12 DEF SyncTemp
<1>13. CASE Rename  BY <1>13 DEF Rename, ClaimDone
<1>14. CASE Reply  BY <1>14 DEF Reply, Outcome
<1>15. ASSUME NEW P \in Pods, CallPrepare(P) PROVE UsedIsLive' /\ SweepSafe'
  BY <1>15 DEF CallPrepare, Calls, Idle, Pending
<1>16. ASSUME NEW P \in Pods, CallUnprepare(P) PROVE UsedIsLive' /\ SweepSafe'
  BY <1>16 DEF CallUnprepare, Calls, Idle, Pending
<1>17. CASE GCListFails  BY <1>17 DEF GCListFails
<1>18. CASE WriteSpecFails  BY <1>18 DEF WriteSpecFails, ClaimFails, ClaimDone
<1>19. ASSUME NEW c \in Claims, GCRemoveFails(c) PROVE UsedIsLive' /\ SweepSafe'
  BY <1>19 DEF GCRemoveFails
<1>20. ASSUME NEW c \in Claims, RemoveSpecFails(c) PROVE UsedIsLive' /\ SweepSafe'
  BY <1>20 DEF RemoveSpecFails
<1>21. ASSUME NEW c \in Claims, ClaimDeleted(c) PROVE UsedIsLive' /\ SweepSafe'
  BY <1>21 DEF ClaimDeleted
<1>22. ASSUME NEW P \in Pods, PodArrives(P) PROVE UsedIsLive' /\ SweepSafe'
  BY <1>22 DEF PodArrives
<1>23. ASSUME NEW P \in Pods, PodDeleted(P) PROVE UsedIsLive' /\ SweepSafe'
  BY <1>23 DEF PodDeleted
<1>24. CASE KubeletGivesUp  BY <1>24 DEF KubeletGivesUp
<1>25. CASE KubeletRestart  BY <1>25 DEF KubeletRestart, Reprepares
<1>26. CASE CheckpointLost  BY <1>26 DEF CheckpointLost, Reprepares
<1>27. CASE InventorySet  BY <1>27 DEF InventorySet
<1>28. CASE Crash  BY <1>28 DEF Crash, Working
<1>29. CASE PowerLoss  BY <1>29 DEF PowerLoss, Working, Reprepares, specUIDs
<1>30. CASE UNCHANGED vars  BY <1>30 DEF vars
<1> QED
  BY <1>1, <1>2, <1>3, <1>4, <1>5, <1>6, <1>7, <1>8, <1>9, <1>10, <1>11, <1>12, <1>13, <1>14, <1>15,
     <1>16, <1>17, <1>18, <1>19, <1>20, <1>21, <1>22, <1>23, <1>24, <1>25, <1>26, <1>27, <1>28, <1>29, <1>30
     DEF Next, System, Agent, KubeletCalls, Disturbance

(* Files are removed only for claims that are not prepared.                *)
LEMMA StepPrepared ==
    ASSUME IndInv, [Next]_vars
    PROVE  PreparedHasSpec' /\ CallSafe'
<1> USE DEF IndInv, TypeOK, PreparedHasSpec, CallSafe, UsedIsLive, SweepSafe, kubeletVars, fileVars, sweepVars, claimVars, NoCall, NoSpec
<1>1. CASE Boot  BY <1>1 DEF Boot
<1>2. CASE GCGlob  BY <1>2 DEF GCGlob, specUIDs
<1>3. CASE GCList  BY <1>3 DEF GCList
<1>4. CASE GCDone  BY <1>4 DEF GCDone
<1>5. ASSUME NEW c \in Claims, GCRemove(c) PROVE PreparedHasSpec' /\ CallSafe'
  BY <1>5 DEF GCRemove, removeSpec
<1>6. ASSUME NEW c \in Claims, PrepareClaim(c) PROVE PreparedHasSpec' /\ CallSafe'
  BY <1>6 DEF PrepareClaim
<1>7. ASSUME NEW c \in Claims, RemoveSpec(c) PROVE PreparedHasSpec' /\ CallSafe'
  BY <1>7 DEF RemoveSpec, removeSpec
<1>8. ASSUME NEW d \in Devices, Lookup(d) PROVE PreparedHasSpec' /\ CallSafe'
  BY <1>8 DEF Lookup
<1>9. ASSUME NEW d \in Devices, LookupMissing(d) PROVE PreparedHasSpec' /\ CallSafe'
  BY <1>9 DEF LookupMissing, ClaimFails, ClaimDone
<1>10. CASE NothingToPrepare  BY <1>10 DEF NothingToPrepare, ClaimFails, ClaimDone
<1>11. CASE WriteTemp  BY <1>11 DEF WriteTemp
<1>12. CASE SyncTemp  BY <1>12 DEF SyncTemp
<1>13. CASE Rename  BY <1>13 DEF Rename, ClaimDone
<1>14. CASE Reply  BY <1>14 DEF Reply, Outcome
<1>15. ASSUME NEW P \in Pods, CallPrepare(P) PROVE PreparedHasSpec' /\ CallSafe'
  BY <1>15 DEF CallPrepare, Calls, Idle, Pending
<1>16. ASSUME NEW P \in Pods, CallUnprepare(P) PROVE PreparedHasSpec' /\ CallSafe'
  BY <1>16 DEF CallUnprepare, Calls, Idle, Pending
<1>17. CASE GCListFails  BY <1>17 DEF GCListFails
<1>18. CASE WriteSpecFails  BY <1>18 DEF WriteSpecFails, ClaimFails, ClaimDone
<1>19. ASSUME NEW c \in Claims, GCRemoveFails(c) PROVE PreparedHasSpec' /\ CallSafe'
  BY <1>19 DEF GCRemoveFails
<1>20. ASSUME NEW c \in Claims, RemoveSpecFails(c) PROVE PreparedHasSpec' /\ CallSafe'
  BY <1>20 DEF RemoveSpecFails
<1>21. ASSUME NEW c \in Claims, ClaimDeleted(c) PROVE PreparedHasSpec' /\ CallSafe'
  BY <1>21 DEF ClaimDeleted
<1>22. ASSUME NEW P \in Pods, PodArrives(P) PROVE PreparedHasSpec' /\ CallSafe'
  BY <1>22 DEF PodArrives
<1>23. ASSUME NEW P \in Pods, PodDeleted(P) PROVE PreparedHasSpec' /\ CallSafe'
  BY <1>23 DEF PodDeleted
<1>24. CASE KubeletGivesUp  BY <1>24 DEF KubeletGivesUp
<1>25. CASE KubeletRestart  BY <1>25 DEF KubeletRestart, Reprepares
<1>26. CASE CheckpointLost  BY <1>26 DEF CheckpointLost, Reprepares
<1>27. CASE InventorySet  BY <1>27 DEF InventorySet
<1>28. CASE Crash  BY <1>28 DEF Crash, Working
<1>29. CASE PowerLoss  BY <1>29 DEF PowerLoss, Working, Reprepares, specUIDs
<1>30. CASE UNCHANGED vars  BY <1>30 DEF vars
<1> QED
  BY <1>1, <1>2, <1>3, <1>4, <1>5, <1>6, <1>7, <1>8, <1>9, <1>10, <1>11, <1>12, <1>13, <1>14, <1>15,
     <1>16, <1>17, <1>18, <1>19, <1>20, <1>21, <1>22, <1>23, <1>24, <1>25, <1>26, <1>27, <1>28, <1>29, <1>30
     DEF Next, System, Agent, KubeletCalls, Disturbance

(* A call reports no success it did not have.                              *)
LEMMA StepAnswer ==
    ASSUME IndInv, [Next]_vars
    PROVE  AnswerTrue'
<1> USE DEF IndInv, TypeOK, AnswerTrue, kubeletVars, fileVars, sweepVars, claimVars, NoCall, NoSpec
<1>1. CASE Boot  BY <1>1 DEF Boot
<1>2. CASE GCGlob  BY <1>2 DEF GCGlob, specUIDs
<1>3. CASE GCList  BY <1>3 DEF GCList
<1>4. CASE GCDone  BY <1>4 DEF GCDone
<1>5. ASSUME NEW c \in Claims, GCRemove(c) PROVE AnswerTrue'
  BY <1>5 DEF GCRemove, removeSpec
<1>6. ASSUME NEW c \in Claims, PrepareClaim(c) PROVE AnswerTrue'
  BY <1>6 DEF PrepareClaim
<1>7. ASSUME NEW c \in Claims, RemoveSpec(c) PROVE AnswerTrue'
  BY <1>7 DEF RemoveSpec, removeSpec
<1>8. ASSUME NEW d \in Devices, Lookup(d) PROVE AnswerTrue'
  BY <1>8 DEF Lookup
<1>9. ASSUME NEW d \in Devices, LookupMissing(d) PROVE AnswerTrue'
  BY <1>9 DEF LookupMissing, ClaimFails, ClaimDone
<1>10. CASE NothingToPrepare  BY <1>10 DEF NothingToPrepare, ClaimFails, ClaimDone
<1>11. CASE WriteTemp  BY <1>11 DEF WriteTemp
<1>12. CASE SyncTemp  BY <1>12 DEF SyncTemp
<1>13. CASE Rename  BY <1>13 DEF Rename, ClaimDone
<1>14. CASE Reply  BY <1>14 DEF Reply, Outcome
<1>15. ASSUME NEW P \in Pods, CallPrepare(P) PROVE AnswerTrue'
  BY <1>15 DEF CallPrepare, Calls, Idle, Pending
<1>16. ASSUME NEW P \in Pods, CallUnprepare(P) PROVE AnswerTrue'
  BY <1>16 DEF CallUnprepare, Calls, Idle, Pending
<1>17. CASE GCListFails  BY <1>17 DEF GCListFails
<1>18. CASE WriteSpecFails  BY <1>18 DEF WriteSpecFails, ClaimFails, ClaimDone
<1>19. ASSUME NEW c \in Claims, GCRemoveFails(c) PROVE AnswerTrue'
  BY <1>19 DEF GCRemoveFails
<1>20. ASSUME NEW c \in Claims, RemoveSpecFails(c) PROVE AnswerTrue'
  BY <1>20 DEF RemoveSpecFails
<1>21. ASSUME NEW c \in Claims, ClaimDeleted(c) PROVE AnswerTrue'
  BY <1>21 DEF ClaimDeleted
<1>22. ASSUME NEW P \in Pods, PodArrives(P) PROVE AnswerTrue'
  BY <1>22 DEF PodArrives
<1>23. ASSUME NEW P \in Pods, PodDeleted(P) PROVE AnswerTrue'
  BY <1>23 DEF PodDeleted
<1>24. CASE KubeletGivesUp  BY <1>24 DEF KubeletGivesUp
<1>25. CASE KubeletRestart  BY <1>25 DEF KubeletRestart, Reprepares
<1>26. CASE CheckpointLost  BY <1>26 DEF CheckpointLost, Reprepares
<1>27. CASE InventorySet  BY <1>27 DEF InventorySet
<1>28. CASE Crash  BY <1>28 DEF Crash, Working
<1>29. CASE PowerLoss  BY <1>29 DEF PowerLoss, Working, Reprepares, specUIDs
<1>30. CASE UNCHANGED vars  BY <1>30 DEF vars
<1> QED
  BY <1>1, <1>2, <1>3, <1>4, <1>5, <1>6, <1>7, <1>8, <1>9, <1>10, <1>11, <1>12, <1>13, <1>14, <1>15,
     <1>16, <1>17, <1>18, <1>19, <1>20, <1>21, <1>22, <1>23, <1>24, <1>25, <1>26, <1>27, <1>28, <1>29, <1>30
     DEF Next, System, Agent, KubeletCalls, Disturbance

(* A file appears only for a claim the kubelet knows, and goes before the  *)
(* kubelet lets go of the claim.                                           *)
LEMMA StepIdle ==
    ASSUME IndInv, [Next]_vars
    PROVE  IdleHasNoFile'
<1> USE DEF IndInv, TypeOK, AnswerTrue, UsedIsLive, IdleHasNoFile, kubeletVars, fileVars, sweepVars, claimVars, NoCall, NoSpec
<1>1. CASE Boot  BY <1>1 DEF Boot
<1>2. CASE GCGlob  BY <1>2 DEF GCGlob, specUIDs
<1>3. CASE GCList  BY <1>3 DEF GCList
<1>4. CASE GCDone  BY <1>4 DEF GCDone
<1>5. ASSUME NEW c \in Claims, GCRemove(c) PROVE IdleHasNoFile'
  BY <1>5 DEF GCRemove, removeSpec
<1>6. ASSUME NEW c \in Claims, PrepareClaim(c) PROVE IdleHasNoFile'
  BY <1>6 DEF PrepareClaim
<1>7. ASSUME NEW c \in Claims, RemoveSpec(c) PROVE IdleHasNoFile'
  BY <1>7 DEF RemoveSpec, removeSpec
<1>8. ASSUME NEW d \in Devices, Lookup(d) PROVE IdleHasNoFile'
  BY <1>8 DEF Lookup
<1>9. ASSUME NEW d \in Devices, LookupMissing(d) PROVE IdleHasNoFile'
  BY <1>9 DEF LookupMissing, ClaimFails, ClaimDone
<1>10. CASE NothingToPrepare  BY <1>10 DEF NothingToPrepare, ClaimFails, ClaimDone
<1>11. CASE WriteTemp  BY <1>11 DEF WriteTemp
<1>12. CASE SyncTemp  BY <1>12 DEF SyncTemp
<1>13. CASE Rename  BY <1>13 DEF Rename, ClaimDone
<1>14. CASE Reply  BY <1>14 DEF Reply, Outcome
<1>15. ASSUME NEW P \in Pods, CallPrepare(P) PROVE IdleHasNoFile'
  BY <1>15 DEF CallPrepare, Calls, Idle, Pending
<1>16. ASSUME NEW P \in Pods, CallUnprepare(P) PROVE IdleHasNoFile'
  BY <1>16 DEF CallUnprepare, Calls, Idle, Pending
<1>17. CASE GCListFails  BY <1>17 DEF GCListFails
<1>18. CASE WriteSpecFails  BY <1>18 DEF WriteSpecFails, ClaimFails, ClaimDone
<1>19. ASSUME NEW c \in Claims, GCRemoveFails(c) PROVE IdleHasNoFile'
  BY <1>19 DEF GCRemoveFails
<1>20. ASSUME NEW c \in Claims, RemoveSpecFails(c) PROVE IdleHasNoFile'
  BY <1>20 DEF RemoveSpecFails
<1>21. ASSUME NEW c \in Claims, ClaimDeleted(c) PROVE IdleHasNoFile'
  BY <1>21 DEF ClaimDeleted
<1>22. ASSUME NEW P \in Pods, PodArrives(P) PROVE IdleHasNoFile'
  BY <1>22 DEF PodArrives
<1>23. ASSUME NEW P \in Pods, PodDeleted(P) PROVE IdleHasNoFile'
  BY <1>23 DEF PodDeleted
<1>24. CASE KubeletGivesUp  BY <1>24 DEF KubeletGivesUp
<1>25. CASE KubeletRestart  BY <1>25 DEF KubeletRestart, Reprepares
<1>26. CASE CheckpointLost  BY <1>26 DEF CheckpointLost, Reprepares
<1>27. CASE InventorySet  BY <1>27 DEF InventorySet
<1>28. CASE Crash  BY <1>28 DEF Crash, Working
<1>29. CASE PowerLoss  BY <1>29 DEF PowerLoss, Working, Reprepares, specUIDs
<1>30. CASE UNCHANGED vars  BY <1>30 DEF vars
<1> QED
  BY <1>1, <1>2, <1>3, <1>4, <1>5, <1>6, <1>7, <1>8, <1>9, <1>10, <1>11, <1>12, <1>13, <1>14, <1>15,
     <1>16, <1>17, <1>18, <1>19, <1>20, <1>21, <1>22, <1>23, <1>24, <1>25, <1>26, <1>27, <1>28, <1>29, <1>30
     DEF Next, System, Agent, KubeletCalls, Disturbance

(* The sweep looks at every file of a claim that is gone, and no call      *)
(* writes another one for it.                                              *)
LEMMA StepDead ==
    ASSUME IndInv, [Next]_vars
    PROVE  DeadIsSwept'
<1> USE DEF IndInv, TypeOK, UsedIsLive, SweepSafe, DeadIsSwept, kubeletVars, fileVars, sweepVars, claimVars, NoCall, NoSpec
<1>1. CASE Boot  BY <1>1 DEF Boot
<1>2. CASE GCGlob  BY <1>2 DEF GCGlob, specUIDs
<1>3. CASE GCList  BY <1>3 DEF GCList
<1>4. CASE GCDone  BY <1>4 DEF GCDone
<1>5. ASSUME NEW c \in Claims, GCRemove(c) PROVE DeadIsSwept'
  BY <1>5 DEF GCRemove, removeSpec
<1>6. ASSUME NEW c \in Claims, PrepareClaim(c) PROVE DeadIsSwept'
  BY <1>6 DEF PrepareClaim
<1>7. ASSUME NEW c \in Claims, RemoveSpec(c) PROVE DeadIsSwept'
  BY <1>7 DEF RemoveSpec, removeSpec
<1>8. ASSUME NEW d \in Devices, Lookup(d) PROVE DeadIsSwept'
  BY <1>8 DEF Lookup
<1>9. ASSUME NEW d \in Devices, LookupMissing(d) PROVE DeadIsSwept'
  BY <1>9 DEF LookupMissing, ClaimFails, ClaimDone
<1>10. CASE NothingToPrepare  BY <1>10 DEF NothingToPrepare, ClaimFails, ClaimDone
<1>11. CASE WriteTemp  BY <1>11 DEF WriteTemp
<1>12. CASE SyncTemp  BY <1>12 DEF SyncTemp
<1>13. CASE Rename  BY <1>13 DEF Rename, ClaimDone
<1>14. CASE Reply  BY <1>14 DEF Reply, Outcome
<1>15. ASSUME NEW P \in Pods, CallPrepare(P) PROVE DeadIsSwept'
  BY <1>15 DEF CallPrepare, Calls, Idle, Pending
<1>16. ASSUME NEW P \in Pods, CallUnprepare(P) PROVE DeadIsSwept'
  BY <1>16 DEF CallUnprepare, Calls, Idle, Pending
<1>17. CASE GCListFails  BY <1>17 DEF GCListFails
<1>18. CASE WriteSpecFails  BY <1>18 DEF WriteSpecFails, ClaimFails, ClaimDone
<1>19. ASSUME NEW c \in Claims, GCRemoveFails(c) PROVE DeadIsSwept'
  BY <1>19 DEF GCRemoveFails
<1>20. ASSUME NEW c \in Claims, RemoveSpecFails(c) PROVE DeadIsSwept'
  BY <1>20 DEF RemoveSpecFails
<1>21. ASSUME NEW c \in Claims, ClaimDeleted(c) PROVE DeadIsSwept'
  BY <1>21 DEF ClaimDeleted
<1>22. ASSUME NEW P \in Pods, PodArrives(P) PROVE DeadIsSwept'
  BY <1>22 DEF PodArrives
<1>23. ASSUME NEW P \in Pods, PodDeleted(P) PROVE DeadIsSwept'
  BY <1>23 DEF PodDeleted
<1>24. CASE KubeletGivesUp  BY <1>24 DEF KubeletGivesUp
<1>25. CASE KubeletRestart  BY <1>25 DEF KubeletRestart, Reprepares
<1>26. CASE CheckpointLost  BY <1>26 DEF CheckpointLost, Reprepares
<1>27. CASE InventorySet  BY <1>27 DEF InventorySet
<1>28. CASE Crash  BY <1>28 DEF Crash, Working
<1>29. CASE PowerLoss  BY <1>29 DEF PowerLoss, Working, Reprepares, specUIDs
<1>30. CASE UNCHANGED vars  BY <1>30 DEF vars
<1> QED
  BY <1>1, <1>2, <1>3, <1>4, <1>5, <1>6, <1>7, <1>8, <1>9, <1>10, <1>11, <1>12, <1>13, <1>14, <1>15,
     <1>16, <1>17, <1>18, <1>19, <1>20, <1>21, <1>22, <1>23, <1>24, <1>25, <1>26, <1>27, <1>28, <1>29, <1>30
     DEF Next, System, Agent, KubeletCalls, Disturbance

(* The inductive invariant holds of every behaviour.                       *)
THEOREM Invariance == Spec => []IndInv
<1>1. IndInv /\ [Next]_vars => IndInv'
  <2> SUFFICES ASSUME IndInv, [Next]_vars PROVE IndInv'  OBVIOUS
  <2> QED  BY StepType, StepSynced, StepLive, StepPrepared, StepAnswer, StepIdle, StepDead DEF IndInv
<1> QED  BY InitIndInv, <1>1, PTL DEF Spec

(* A claim the kubelet holds for prepared has a complete spec file, for    *)
(* any claims, devices and pods, across crashes, sweeps and power losses.  *)
THEOREM PreparedAlwaysHasSpec == Spec => []PreparedHasSpec
BY Invariance, PTL DEF IndInv

(* plugin.go:283-331: while the plugin serves after a sweep without errors,*)
(* a file without a claim is one the kubelet will have removed, or one it  *)
(* forgot; none is of a claim that was gone when the agent started.        *)
THEOREM OrphansAreOwned == Spec => []NoOrphanWhileServing
<1>1. IndInv => NoOrphanWhileServing
  BY DEF IndInv, TypeOK, UsedIsLive, IdleHasNoFile, DeadIsSwept, NoOrphanWhileServing
<1> QED
  BY Invariance, <1>1, PTL

(* No power loss ever finds a torn spec file.                              *)
THEOREM NeverTorn == Spec => []NoTornSpec
BY Invariance, PTL DEF IndInv

(* The sweep touches no spec file of a claim that exists.                  *)
THEOREM SweepNeverTouchesLive == Spec => SweepSparesLive
<1> DEFINE Step == \A c \in Claims :
              step = "sweep" /\ step' = "sweep" /\ spec[c] # NoSpec /\ spec'[c] = NoSpec
                 => c \notin claims
<1>1. ASSUME IndInv, [Next]_vars PROVE Step
  <2> SUFFICES ASSUME NEW c \in Claims, step = "sweep", step' = "sweep",
                      spec[c] # NoSpec, spec'[c] = NoSpec
               PROVE  c \notin claims
    OBVIOUS
  <2>1. call.op = "none" /\ cur = NoClaim /\ claims \subseteq live
    BY <1>1 DEF IndInv, TypeOK, SweepSafe, NoCall
  <2>2. spec' # spec  OBVIOUS
  <2>3. \E u \in Claims : GCRemove(u)
    BY <1>1, <2>1, <2>2 DEF Next, System, Agent, KubeletCalls, Disturbance, vars, fileVars,
       Boot, GCGlob, GCList, GCDone, PrepareClaim, RemoveSpec, Lookup, LookupMissing,
       NothingToPrepare, WriteTemp, SyncTemp, Rename, Reply, CallPrepare, CallUnprepare, Calls,
       GCListFails, WriteSpecFails, GCRemoveFails, RemoveSpecFails, ClaimDeleted, PodArrives,
       PodDeleted, KubeletGivesUp, KubeletRestart, CheckpointLost, InventorySet, Crash, PowerLoss
  <2>4. PICK u \in Claims : GCRemove(u)  BY <2>3
  <2>5. u = c /\ u \notin live
    BY <1>1, <2>4 DEF GCRemove, removeSpec, fileVars, IndInv, TypeOK
  <2> QED  BY <2>1, <2>5
<1> QED  BY <1>1, Invariance, PTL DEF Spec, SweepSparesLive
(* Every step maps to a step of Preparation, or to a stutter.              *)
LEMMA StepRefines ==
    ASSUME IndInv, [Next]_vars
    PROVE  [Abstract!Next]_(Abstract!vars)
<1> USE DEF kubeletVars, fileVars, sweepVars, claimVars, Abstract!vars
<1>1. ASSUME NEW c \in Claims, GCRemove(c) PROVE [Abstract!Next]_(Abstract!vars)
  <2>1. CASE c \in live  BY <1>1, <2>1 DEF GCRemove
  <2>2. CASE c \notin live
    <3>1. kubelet[c] # "prepared"
      BY <1>1, <2>2 DEF GCRemove, IndInv, SweepSafe, UsedIsLive
    <3>2. Abstract!Disappears(c)
      BY <1>1, <2>2, <3>1 DEF GCRemove, removeSpec, Abstract!Disappears, NoSpec
    <3> QED  BY <3>2 DEF Abstract!Next
  <2> QED  BY <2>1, <2>2
<1>2. ASSUME NEW c \in Claims, RemoveSpec(c) PROVE [Abstract!Next]_(Abstract!vars)
  <2>1. kubelet[c] # "prepared"  BY <1>2 DEF RemoveSpec, IndInv, CallSafe
  <2>2. Abstract!Disappears(c)
    BY <1>2, <2>1 DEF RemoveSpec, removeSpec, Abstract!Disappears, NoSpec
  <2> QED  BY <2>2 DEF Abstract!Next
<1>3. ASSUME Rename PROVE [Abstract!Next]_(Abstract!vars)
  <2>1. cur \in Claims  BY <1>3 DEF Rename, IndInv, TypeOK
  <2>2. Abstract!Appears(cur)  BY <1>3 DEF Rename, Abstract!Appears
  <2> QED  BY <2>1, <2>2 DEF Abstract!Next
<1>4. ASSUME Reply PROVE [Abstract!Next]_(Abstract!vars)
  <2> DEFINE S == {c \in Claims : Outcome(c) # kubelet[c]}
  <2>1. kubelet \in [Claims -> {"idle", "want", "prepared", "release"}]
        /\ kubelet' = [c \in Claims |-> Outcome(c)] /\ spec' = spec
    BY <1>4 DEF Reply, IndInv, TypeOK
  <2>2. CASE call.op = "prepare"
    <3>1. \A c \in S : /\ kubelet[c] = "want" /\ Outcome(c) = "prepared"
                       /\ spec[c] = Alloc[c] /\ Alloc[c] # {}
      BY <2>2 DEF Outcome, IndInv, CallSafe, AnswerTrue
    <3>2. kubelet' = [c \in Claims |-> IF c \in S THEN "prepared" ELSE kubelet[c]]
      BY <2>1, <3>1
    <3>3. Abstract!Moves(S, {"want"}, "prepared")
      BY <2>1, <3>1, <3>2 DEF Abstract!Moves
    <3>4. Abstract!Prepared(S)  BY <3>1, <3>3 DEF Abstract!Prepared
    <3> QED  BY <3>4 DEF Abstract!Next
  <2>3. CASE call.op = "unprepare"
    <3>1. \A c \in S : kubelet[c] = "release" /\ Outcome(c) = "idle" /\ spec[c] = {}
      BY <2>3 DEF Outcome, IndInv, AnswerTrue, NoSpec
    <3>2. kubelet' = [c \in Claims |-> IF c \in S THEN "idle" ELSE kubelet[c]]
      BY <2>1, <3>1
    <3>3. Abstract!Moves(S, {"release"}, "idle")
      BY <2>1, <3>1, <3>2 DEF Abstract!Moves
    <3>4. Abstract!Unprepared(S)  BY <3>1, <3>3 DEF Abstract!Unprepared
    <3> QED  BY <3>4 DEF Abstract!Next
  <2>4. call.op \in {"prepare", "unprepare"}  BY <1>4 DEF Reply, IndInv, TypeOK
  <2> QED  BY <2>2, <2>3, <2>4
<1>5. ASSUME NEW P \in Pods, PodArrives(P) PROVE [Abstract!Next]_(Abstract!vars)
  <2>1. Abstract!Wanted(P)  BY <1>5 DEF PodArrives, Abstract!Wanted, Abstract!Moves
  <2>2. P \in SUBSET Claims  BY NodePluginAssumption
  <2> QED  BY <2>1, <2>2 DEF Abstract!Next
<1>6. ASSUME NEW P \in Pods, PodDeleted(P) PROVE [Abstract!Next]_(Abstract!vars)
  <2> DEFINE S == {c \in Claims : c \in P /\ kubelet[c] # "idle"}
  <2>1. \A c \in S : kubelet[c] \in {"want", "prepared", "release"}
    BY DEF IndInv, TypeOK
  <2>2. kubelet' = [c \in Claims |-> IF c \in S THEN "release" ELSE kubelet[c]] /\ spec' = spec
    BY <1>6 DEF PodDeleted
  <2>3. Abstract!Dropped(S)  BY <2>1, <2>2 DEF Abstract!Dropped, Abstract!Moves
  <2> QED  BY <2>3 DEF Abstract!Next
<1>7. ASSUME KubeletRestart PROVE [Abstract!Next]_(Abstract!vars)
  BY <1>7 DEF KubeletRestart, Reprepares, Abstract!KubeletRestarts, Abstract!AsksAgain, Abstract!Next
<1>8. ASSUME CheckpointLost PROVE [Abstract!Next]_(Abstract!vars)
  BY <1>8 DEF CheckpointLost, Reprepares, Abstract!KubeletRestarts, Abstract!AsksAgain, Abstract!Next
<1>9. ASSUME PowerLoss PROVE [Abstract!Next]_(Abstract!vars)
  <2>1. PICK gone \in SUBSET specUIDs :
              spec' = [c \in Claims |-> IF c \in gone THEN NoSpec ELSE spec[c]]
    BY <1>9 DEF PowerLoss
  <2>2. Abstract!NodeFails(gone)
    BY <1>9, <2>1 DEF PowerLoss, Reprepares, Abstract!NodeFails, Abstract!AsksAgain, NoSpec
  <2>3. gone \in SUBSET Claims  BY <2>1 DEF specUIDs
  <2> QED  BY <2>2, <2>3 DEF Abstract!Next
<1>10. CASE UNCHANGED <<kubelet, spec>>  BY <1>10
<1>11. \/ \E c \in Claims : GCRemove(c) \/ RemoveSpec(c)
       \/ Rename \/ Reply
       \/ \E P \in Pods : PodArrives(P) \/ PodDeleted(P)
       \/ KubeletRestart \/ CheckpointLost \/ PowerLoss
       \/ UNCHANGED <<kubelet, spec>>
  BY DEF Next, System, Agent, KubeletCalls, Disturbance, vars,
     Boot, GCGlob, GCList, GCDone, PrepareClaim, Lookup, LookupMissing,
     NothingToPrepare, WriteTemp, SyncTemp, CallPrepare, CallUnprepare, Calls,
     GCListFails, WriteSpecFails, GCRemoveFails, RemoveSpecFails, ClaimDeleted,
     KubeletGivesUp, InventorySet, Crash
<1> QED
  BY <1>1, <1>2, <1>3, <1>4, <1>5, <1>6, <1>7, <1>8, <1>9, <1>10, <1>11

(* The plugin and its kubelet implement Preparation, for any claims,       *)
(* devices and pods: across crashes, sweeps, late calls and power losses   *)
(* the CDI directory shows only what Preparation allows.                   *)
THEOREM Refinement == Spec => ImplementsPreparation
<1>1. Init => Abstract!Init
  BY DEF Init, NoSpec, Abstract!Init
<1>2. IndInv /\ [Next]_vars => [Abstract!Next]_(Abstract!vars)
  <2> SUFFICES ASSUME IndInv, [Next]_vars PROVE [Abstract!Next]_(Abstract!vars)  OBVIOUS
  <2> QED  BY StepRefines
<1> QED  BY <1>1, <1>2, Invariance, PTL DEF Spec, ImplementsPreparation, Abstract!Spec

(* The types, for any claims, devices and pods.                            *)
THEOREM TypesKept == Spec => []TypeOK
BY Invariance, PTL DEF IndInv
=============================================================================
