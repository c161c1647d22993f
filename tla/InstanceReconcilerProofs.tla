---------------------- MODULE InstanceReconcilerProofs ----------------------
(***************************************************************************)
(* Theorems about InstanceReconciler, for every value of its constants:    *)
(* the type invariant, for any number of instances; and, for an instance   *)
(* that prunes and shares nothing with another one, that a document never  *)
(* outlives the finalizer that guards it.                                  *)
(***************************************************************************)
EXTENDS InstanceReconciler, TLAPS

-----------------------------------------------------------------------------
(* What the operators of the model return.                                 *)

LEMMA ObjectTypes ==
    /\ Absent \in ResourceObject /\ NoInstance \in InstanceObject
    /\ \A l \in Labels : Fresh(l) \in ResourceObject
    /\ \A p \in BOOLEAN, s \in BOOLEAN : NewInstance(p, s) \in InstanceObject
    /\ NothingListed \in [Resources -> ResourceObject]
    /\ FirstStage \in Stage
  BY DEF Absent, ResourceObject, NoInstance, InstanceObject, Fresh, Labels,
         NewInstance, NothingListed, FirstStage, Stage, Kinds, Status

LEMMA PatchedType ==
    ASSUME NEW obj \in ResourceObject, NEW fin \in SUBSET Instances
    PROVE  Patched(obj, fin) \in ResourceObject
  BY ObjectTypes DEF Patched, ResourceObject

LEMMA LandedTypes ==
    ASSUME NEW i \in Instances, NEW m, m.fin \in SUBSET Instances,
           NEW old \in ResourceObject, NEW obj \in ResourceObject
    PROVE  /\ Landed(m, obj, WithFinalizer(i, old)) \in SUBSET Instances
           /\ Landed(m, obj, WithoutFinalizer(i, old)) \in SUBSET Instances
  BY DEF Landed, WithFinalizer, WithoutFinalizer, ResourceObject

LEMMA LatestType ==
    ASSUME TypeOK, NEW r \in Resources, NEW old \in ResourceObject
    PROVE  Latest(r, old) \in ResourceObject
  BY DEF Latest, TypeOK

LEMMA StatusPatchedType ==
    ASSUME NEW obj \in InstanceObject, NEW old \in InstanceObject,
           NEW ready \in {"True", "False"}, NEW cat \in SUBSET Resources
    PROVE  StatusPatched(obj, old, ready, cat) \in InstanceObject
  BY DEF StatusPatched, InstanceObject

-----------------------------------------------------------------------------
(* The type invariant.  That orgsLeft holds organizations needs a second    *)
(* fact: what a pass lists in the stage of organizations is organizations. *)

ListedOrgs ==
    \A i \in Instances, r \in Resources :
        stage[i].kind = "orgs" /\ list[i][r].status # "absent" => r \in Orgs

LEMMA TypeInit == Init => TypeOK
  <1> SUFFICES ASSUME Init PROVE TypeOK
    OBVIOUS
  <1> USE ConstantsAssumption, ObjectTypes
  <1>1. inst \in [Instances -> InstanceObject]
    BY DEF Init
  <1>2. res \in [Resources -> ResourceObject]
    BY DEF Init
  <1>3. /\ cinst \in [Instances -> InstanceObject] /\ cres \in [Resources -> ResourceObject]
        /\ mres \in [Resources -> ResourceObject] /\ reborn \subseteq Resources
        /\ snap \in [Instances -> InstanceObject]
    BY <1>1, <1>2 DEF Init
  <1>4. /\ missing \subseteq Secrets /\ queued \subseteq Instances
        /\ docs \in [Databases -> SUBSET Resources]
    BY DEF Init
  <1>5. /\ pc \in [Instances -> PC] /\ stage \in [Instances -> Stage]
        /\ orgsLeft \in [Instances -> SUBSET Orgs]
    BY DEF Init, PC
  <1>6. /\ list \in [Instances -> [Resources -> ResourceObject]]
        /\ todo \in [Instances -> SUBSET Resources]
        /\ cur \in [Instances -> Resources \cup {None}]
        /\ catalog \in [Instances -> SUBSET Resources]
    BY DEF Init
  <1>7. ops \in 0 .. MaxOps /\ faults \in 0 .. MaxFaults
    BY DEF Init
  <1> QED
    BY <1>1, <1>2, <1>3, <1>4, <1>5, <1>6, <1>7 DEF TypeOK

LEMMA TypeNext == TypeOK /\ ListedOrgs /\ [Next]_vars => TypeOK'
  <1> SUFFICES ASSUME TypeOK, ListedOrgs, [Next]_vars PROVE TypeOK'
    OBVIOUS
  <1> USE ConstantsAssumption, ObjectTypes DEF ToStep, PC, apiVars, cacheVars,
          walkVars, workerVars, budgetVars, controllerVars
  <1>1. ASSUME NEW i \in Instances, SkipPass(i) PROVE TypeOK'
    BY <1>1 DEF SkipPass, TypeOK
  <1>2. ASSUME NEW i \in Instances, BeginPass(i) PROVE TypeOK'
    BY <1>2 DEF BeginPass, TypeOK, InstanceObject
  <1>3. ASSUME NEW i \in Instances, AddInstanceFinalizer(i) PROVE TypeOK'
    <2>1. inst[i] \in InstanceObject /\ snap[i] \in InstanceObject
      BY DEF TypeOK
    <2>2. [inst[i] EXCEPT !.fin = @ \/ ~snap[i].fin] \in InstanceObject
      BY <2>1 DEF InstanceObject
    <2>3. CASE UNCHANGED inst
      BY <1>3, <2>3 DEF AddInstanceFinalizer, TypeOK
    <2>4. CASE inst' = [inst EXCEPT ![i].fin = @ \/ ~snap[i].fin]
      <3>1. inst' \in [Instances -> InstanceObject]
        BY <2>4, <2>2 DEF TypeOK
      <3> QED
        BY <1>3, <3>1 DEF AddInstanceFinalizer, TypeOK
    <2> QED
      BY <1>3, <2>3, <2>4 DEF AddInstanceFinalizer
  <1>4. ASSUME NEW i \in Instances, Connect(i) PROVE TypeOK'
    BY <1>4 DEF Connect, TypeOK
  <1>5. ASSUME NEW i \in Instances, List(i) PROVE TypeOK'
    BY <1>5 DEF List, TypeOK, Selected
  <1>6. ASSUME NEW i \in Instances, EndMark(i) PROVE TypeOK'
    BY <1>6 DEF EndMark, TypeOK, Listed
  <1>7. ASSUME NEW i \in Instances, Release(i) PROVE TypeOK'
    <2> DEFINE r == cur[i]
               fin == Landed(Latest(r, list[i][r]), res[r], WithoutFinalizer(i, list[i][r]))
    <2>1. res' = [res EXCEPT ![r] = Patched(@, fin)]
      BY <1>7 DEF Release
    <2>2. ASSUME r \in Resources PROVE Patched(res[r], fin) \in ResourceObject
      <3>1. /\ res[r] \in ResourceObject /\ list[i][r] \in ResourceObject
            /\ Latest(r, list[i][r]) \in ResourceObject
        BY <2>2, LatestType DEF TypeOK
      <3>2. Latest(r, list[i][r]).fin \in SUBSET Instances
        BY <3>1 DEF ResourceObject
      <3> QED
        BY <3>1, <3>2, PatchedType, LandedTypes
    <2> HIDE DEF fin, r
    <2>3. res' \in [Resources -> ResourceObject]
      <3>1. res \in [Resources -> ResourceObject]
        BY DEF TypeOK
      <3>2. res' = [q \in Resources |-> IF q = r THEN Patched(res[r], fin) ELSE res[q]]
        BY <2>1, <3>1
      <3> QED
        BY <2>2, <3>1, <3>2
    <2> QED
      BY <1>7, <2>3 DEF Release, TypeOK
  <1>8. ASSUME NEW i \in Instances, NextKind(i) PROVE TypeOK'
    <2>1. stage[i] \in Stage
      BY DEF TypeOK
    <2>2. [stage[i] EXCEPT !.kind = IF @ = "users" THEN "orgs" ELSE "clients"] \in Stage
      BY <2>1 DEF Stage, Kinds
    <2>3. stage' \in [Instances -> Stage]
      BY <1>8, <2>2 DEF NextKind, TypeOK
    <2> QED
      BY <1>8, <2>3 DEF NextKind, TypeOK
  <1>9. ASSUME NEW i \in Instances, EndWalk(i) PROVE TypeOK'
    BY <1>9 DEF EndWalk, TypeOK, LeaveWalk
  <1>10. ASSUME NEW i \in Instances, ReleaseInstance(i) PROVE TypeOK'
    <2>1. inst' = [inst EXCEPT ![i] = NoInstance] \/ UNCHANGED inst
      BY <1>10 DEF ReleaseInstance
    <2>2. inst' \in [Instances -> InstanceObject]
      <3>1. inst \in [Instances -> InstanceObject] /\ NoInstance \in InstanceObject
        BY DEF TypeOK
      <3> QED
        BY <2>1, <3>1
    <2>3. snap' \in [Instances -> InstanceObject]
      BY <1>10 DEF ReleaseInstance, EndPass, TypeOK
    <2>4. pc' \in [Instances -> PC] /\ catalog' \in [Instances -> SUBSET Resources]
      BY <1>10 DEF ReleaseInstance, EndPass, TypeOK
    <2>5. UNCHANGED <<res, cinst, cres, mres, reborn, missing, queued, docs, stage,
                      orgsLeft, list, todo, cur, ops, faults>>
      BY <1>10 DEF ReleaseInstance, EndPass
    <2> QED
      BY <2>2, <2>3, <2>4, <2>5 DEF TypeOK
  <1>11. ASSUME NEW i \in Instances, PublishReady(i) PROVE TypeOK'
    BY <1>11, StatusPatchedType DEF PublishReady, TypeOK, PublishStatus, EndPass, Requeue
  <1>12. ASSUME NEW i \in Instances, PublishFailed(i) PROVE TypeOK'
    BY <1>12, StatusPatchedType DEF PublishFailed, TypeOK, PublishStatus, EndPass, Requeue
  <1>13. ASSUME NEW i \in Instances, FailPass(i) PROVE TypeOK'
    BY <1>13 DEF FailPass, TypeOK, RandomFault, LeaveWalk
  <1>14. ASSUME NEW i \in Instances, RefuseInstancePatch(i) PROVE TypeOK'
    BY <1>14 DEF RefuseInstancePatch, TypeOK, RandomFault, EndPass, Requeue
  <1>15. ASSUME NEW i \in Instances, RefusePublish(i) PROVE TypeOK'
    BY <1>15 DEF RefusePublish, TypeOK, RandomFault, EndPass, Requeue
  <1>16. ASSUME NEW i \in Instances, NEW r \in Resources, Mark(i, r) PROVE TypeOK'
    <2>1. res[r] \in ResourceObject /\ list[i][r] \in ResourceObject
      BY DEF TypeOK
    <2> DEFINE fin == Landed(Latest(r, list[i][r]), res[r], WithFinalizer(i, list[i][r]))
    <2>2. Patched(res[r], fin) \in ResourceObject
      <3>1. Latest(r, list[i][r]) \in ResourceObject
        BY <2>1, LatestType
      <3>2. Latest(r, list[i][r]).fin \in SUBSET Instances
        BY <3>1 DEF ResourceObject
      <3> QED
        BY <2>1, <3>2, PatchedType, LandedTypes
    <2>3. CASE UNCHANGED <<res, reborn, catalog>>
      BY <1>16, <2>3 DEF Mark, TypeOK
    <2>4. CASE /\ res' = [res EXCEPT ![r] = Patched(@, fin)]
               /\ reborn' \in {reborn, reborn \ {r}}
               /\ catalog' = [catalog EXCEPT ![i] = @ \cup {r}]
      <3>1. res' \in [Resources -> ResourceObject]
        BY <2>4, <2>2 DEF TypeOK
      <3>2. catalog' \in [Instances -> SUBSET Resources]
        BY <2>4 DEF TypeOK
      <3> HIDE DEF fin
      <3> QED
        BY <1>16, <2>4, <3>1, <3>2 DEF Mark, TypeOK
    <2> QED
      BY <1>16, <2>3, <2>4 DEF Mark
  <1>17. ASSUME NEW i \in Instances, NEW r \in Resources, Sync(i, r) PROVE TypeOK'
    BY <1>17 DEF Sync, TypeOK
  <1>18. ASSUME NEW i \in Instances, NEW r \in Resources, Prune(i, r) PROVE TypeOK'
    BY <1>18 DEF Prune, TypeOK
  <1>19. ASSUME NEW i \in Instances, NEW o \in Orgs, NextOrg(i, o) PROVE TypeOK'
    <2>1. OrgsToVisit(i) \ {o} \in SUBSET Orgs
      <3>1. stage[i].kind \in {"orgs", "clients"}
        BY <1>19 DEF NextOrg
      <3>2. CASE stage[i].kind = "clients"
        BY <3>2 DEF OrgsToVisit, TypeOK
      <3>3. CASE stage[i].kind = "orgs"
        BY <3>3 DEF OrgsToVisit, Listed, ListedOrgs
      <3> QED
        BY <3>1, <3>2, <3>3
    <2>2. [kind |-> "features", org |-> o] \in Stage
      BY DEF Stage, Kinds
    <2> QED
      BY <1>19, <2>1, <2>2 DEF NextOrg, TypeOK
  <1>20. ASSUME NEW i \in Instances, WatchInstance(i) PROVE TypeOK'
    BY <1>20 DEF WatchInstance, TypeOK
  <1>21. ASSUME NEW r \in Resources, WatchResource(r) PROVE TypeOK'
    BY <1>21 DEF WatchResource, TypeOK, Interested
  <1>22. ASSUME Restart PROVE TypeOK'
    BY <1>22 DEF Restart, TypeOK, RandomFault
  <1>23. ASSUME NEW r \in Resources, CreateResource(r) PROVE TypeOK'
    BY <1>23 DEF CreateResource, TypeOK, UserEdit
  <1>24. ASSUME NEW r \in Resources, DeleteResource(r) PROVE TypeOK'
    <2>1. res[r] \in ResourceObject
      BY DEF TypeOK
    <2>2. [res[r] EXCEPT !.status = "deleting"] \in ResourceObject
      BY <2>1 DEF ResourceObject, Status
    <2>3. res' \in [Resources -> ResourceObject]
      BY <1>24, <2>2 DEF DeleteResource, TypeOK
    <2> QED
      BY <1>24, <2>3 DEF DeleteResource, TypeOK, UserEdit
  <1>25. ASSUME NEW r \in Resources, Relabel(r) PROVE TypeOK'
    <2>1. PICK l \in LabelsOf[r] : res' = [res EXCEPT ![r].inst = l.inst, ![r].org = l.org]
      BY <1>25 DEF Relabel
    <2>2. l \in Labels /\ res[r] \in ResourceObject
      BY DEF TypeOK
    <2>3. [res[r] EXCEPT !.inst = l.inst, !.org = l.org] \in ResourceObject
      BY <2>2 DEF ResourceObject, Labels
    <2>4. res' \in [Resources -> ResourceObject]
      BY <2>1, <2>3 DEF TypeOK
    <2> QED
      BY <1>25, <2>4 DEF Relabel, TypeOK, UserEdit
  <1>26. ASSUME NEW i \in Instances, EditInstance(i) PROVE TypeOK'
    <2>1. PICK p \in PruneValues, s \in SuspendValues :
            inst' = [inst EXCEPT ![i].prune = p, ![i].suspend = s, ![i].gen = @ + 1]
      BY <1>26 DEF EditInstance
    <2>2. p \in BOOLEAN /\ s \in BOOLEAN /\ inst[i] \in InstanceObject
      BY DEF TypeOK
    <2>3. [inst[i] EXCEPT !.prune = p, !.suspend = s, !.gen = @ + 1] \in InstanceObject
      <3>1. inst[i].gen + 1 \in Nat
        BY <2>2 DEF InstanceObject
      <3> QED
        BY <2>2, <3>1 DEF InstanceObject
    <2>4. inst' \in [Instances -> InstanceObject]
      BY <2>1, <2>3 DEF TypeOK
    <2> QED
      BY <1>26, <2>4 DEF EditInstance, TypeOK, UserEdit
  <1>27. ASSUME NEW i \in Instances, DeleteInstance(i) PROVE TypeOK'
    <2>1. inst[i] \in InstanceObject
      BY DEF TypeOK
    <2>2. [inst[i] EXCEPT !.status = "deleting", !.gen = @ + 1] \in InstanceObject
      <3>1. inst[i].gen + 1 \in Nat
        BY <2>1 DEF InstanceObject
      <3> QED
        BY <2>1, <3>1 DEF InstanceObject, Status
    <2> DEFINE new == IF inst[i].fin
                       THEN [inst[i] EXCEPT !.status = "deleting", !.gen = @ + 1]
                       ELSE NoInstance
    <2>a. new \in InstanceObject
      BY <2>2
    <2>b. inst' = [inst EXCEPT ![i] = new]
      BY <1>27 DEF DeleteInstance
    <2> HIDE DEF new
    <2>3. inst' \in [Instances -> InstanceObject]
      BY <2>a, <2>b DEF TypeOK
    <2> QED
      BY <1>27, <2>3 DEF DeleteInstance, TypeOK, UserEdit
  <1>28. ASSUME NEW x \in Secrets, ChangeSecret(x) PROVE TypeOK'
    BY <1>28 DEF ChangeSecret, TypeOK, UserEdit
  <1>29. CASE UNCHANGED vars
    BY <1>29 DEF TypeOK, vars
  <1>30. ASSUME NEW r \in Resources, WatchMetadata(r) PROVE TypeOK'
    BY <1>30 DEF WatchMetadata, TypeOK
  <1> QED
    BY <1>1, <1>2, <1>3, <1>4, <1>5, <1>6, <1>7, <1>8, <1>9, <1>10, <1>11, <1>12, <1>13, <1>14, <1>15, <1>16, <1>17, <1>18, <1>19, <1>20, <1>21, <1>22, <1>23, <1>24, <1>25, <1>26, <1>27, <1>28, <1>29, <1>30 DEF Next, Work, UserStep

LEMMA ListedOrgsNext == TypeOK /\ ListedOrgs /\ [Next]_vars => ListedOrgs'
  <1> SUFFICES ASSUME TypeOK, ListedOrgs, [Next]_vars PROVE ListedOrgs'
    OBVIOUS
  <1> USE DEF ToStep, apiVars, cacheVars, walkVars, workerVars, budgetVars, controllerVars
  <1>0. \A r \in Resources : NothingListed[r].status = "absent"
    BY DEF NothingListed, Absent
  <1>1. CASE UNCHANGED <<stage, list>>
    BY <1>1 DEF ListedOrgs
  <1>2. ASSUME NEW i \in Instances, List(i) PROVE ListedOrgs'
    <2>1. ASSUME NEW r \in Resources, stage[i].kind = "orgs", list'[i][r].status # "absent"
          PROVE  r \in Orgs
      BY <1>2, <2>1 DEF List, Selected, TypeOK, Absent
    <2>2. \A j \in Instances \ {i} : list'[j] = list[j]
      BY <1>2 DEF List, TypeOK
    <2> QED
      BY <1>2, <2>1, <2>2 DEF List, ListedOrgs
  <1>3. ASSUME NEW i \in Instances, list' = [list EXCEPT ![i] = NothingListed],
               \A j \in Instances \ {i} : stage'[j] = stage[j]
        PROVE  ListedOrgs'
    BY <1>0, <1>3 DEF ListedOrgs, TypeOK
  <1>4. ASSUME NEW i \in Instances, NextKind(i) \/ EndWalk(i) \/ FailPass(i) PROVE ListedOrgs'
    BY <1>3, <1>4 DEF NextKind, EndWalk, FailPass, LeaveWalk, TypeOK
  <1>5. ASSUME NEW i \in Instances, NEW o \in Orgs, NextOrg(i, o) PROVE ListedOrgs'
    BY <1>3, <1>5 DEF NextOrg, TypeOK
  <1>6. CASE Restart
    BY <1>0, <1>6 DEF Restart, ListedOrgs
  <1>7. ASSUME NEW i \in Instances,
               \/ SkipPass(i) \/ BeginPass(i) \/ AddInstanceFinalizer(i) \/ Connect(i)
               \/ EndMark(i) \/ Release(i) \/ ReleaseInstance(i) \/ PublishReady(i)
               \/ PublishFailed(i) \/ RefuseInstancePatch(i) \/ RefusePublish(i)
               \/ WatchInstance(i) \/ EditInstance(i) \/ DeleteInstance(i)
        PROVE  UNCHANGED <<stage, list>>
    BY <1>7 DEF SkipPass, BeginPass, AddInstanceFinalizer, Connect, EndMark, Release,
                ReleaseInstance, PublishReady, PublishFailed, PublishStatus,
                RefuseInstancePatch, RefusePublish, EndPass, WatchInstance,
                EditInstance, DeleteInstance
  <1>8. ASSUME NEW i \in Instances, NEW r \in Resources, Mark(i, r) \/ Sync(i, r) \/ Prune(i, r)
        PROVE  UNCHANGED <<stage, list>>
    BY <1>8 DEF Mark, Sync, Prune
  <1>9. ASSUME NEW r \in Resources,
               \/ WatchResource(r) \/ WatchMetadata(r)
               \/ CreateResource(r) \/ DeleteResource(r) \/ Relabel(r)
        PROVE  UNCHANGED <<stage, list>>
    BY <1>9 DEF WatchResource, WatchMetadata, CreateResource, DeleteResource, Relabel
  <1>10. ASSUME NEW x \in Secrets, ChangeSecret(x) PROVE UNCHANGED <<stage, list>>
    BY <1>10 DEF ChangeSecret
  <1>11. CASE UNCHANGED vars
    BY <1>1, <1>11 DEF vars
  <1> QED
    BY <1>1, <1>2, <1>4, <1>5, <1>6, <1>7, <1>8, <1>9, <1>10, <1>11
       DEF Next, Work, UserStep

\* Whatever users do and whatever fails, every variable keeps its type: the
\* finalizer lists, the documents and the catalog name objects that exist, and
\* the passes stay at the steps of Reconcile.
THEOREM TypeCorrect == Spec => []TypeOK
  <1>1. Init => TypeOK /\ ListedOrgs
    BY TypeInit DEF Init, ListedOrgs, FirstStage
  <1>2. TypeOK /\ ListedOrgs /\ [Next]_vars => (TypeOK /\ ListedOrgs)'
    BY TypeNext, ListedOrgsNext
  <1> QED
    BY <1>1, <1>2, PTL DEF Spec

-----------------------------------------------------------------------------
(* The inductive invariant behind FinalizerGuardsDocument.  The pass writes *)
(* a document on the strength of a finalizer that the cache showed it or    *)
(* that it has put there, and the cache may be late: what has to be shown   *)
(* is that nobody but this worker takes the finalizer away, and that it     *)
(* never again mistakes an object it has released for one it has marked.    *)

\* The instance may still put finalizers on objects.
Marking(i) == snap[i].status = "live" \/ cinst[i].status = "live"

Carries(i, obj) == obj.status = "live" /\ i \in obj.fin

\* Where a pass is says what it knows.
PassShape ==
    \A i \in Instances :
        /\ pc[i] = "idle" <=> snap[i].status = "absent"
        /\ pc[i] = "mark" => snap[i].status = "live"
        /\ pc[i] \notin {"mark", "apply", "release"} => list[i] = NothingListed
        /\ \A r \in todo[i] : list[i][r].status # "absent"
        /\ pc[i] = "release" => /\ cur[i] \in Resources /\ ~Keeps(i, cur[i])
                               /\ list[i][cur[i]].status # "absent"

\* A deleted instance stays deleted, and the cache and the pass follow.
DeletionIsFinal ==
    \A i \in Instances :
        /\ snap[i].status = "deleting" => cinst[i].status # "live"
        /\ cinst[i].status # "live" => inst[i].status # "live"

\* Every version of the instance prunes.
AlwaysPrunes ==
    \A i \in Instances :
        /\ inst[i].status # "absent" => inst[i].prune
        /\ cinst[i].status # "absent" => cinst[i].prune
        /\ snap[i].status # "absent" => snap[i].prune

\* An object is being deleted as long as it has finalizers.
ObjectShape ==
    \A r \in Resources :
        /\ res[r].status = "absent" => res[r].fin = {}
        /\ res[r].status = "deleting" => res[r].fin # {}

\* What the cache shows marked is marked; what it shows deleted has not come
\* back marked.
CacheTrails ==
    \A i \in Instances, r \in Resources : Marking(i) =>
        /\ Carries(i, cres[r]) => i \in res[r].fin
        /\ cres[r].status = "deleting" => ~Carries(i, res[r])

\* The same for what the pass has listed, which the cache may have overtaken.
ListTrails ==
    \A i \in Instances, r \in Resources : snap[i].status = "live" =>
        /\ Carries(i, list[i][r]) => i \in res[r].fin
        /\ list[i][r].status = "live" /\ cres[r].status = "deleting"
              => res[r].status = "deleting"
        /\ list[i][r].status = "deleting" => ~Carries(i, cres[r]) /\ ~Carries(i, res[r])

\* What the metadata cache shows marked is marked, unless it shows a predecessor.
MetaTrails ==
    ~FreshReads =>
        \A i \in Instances, r \in Resources :
            Marking(i) /\ i \in mres[r].fin /\ res[r].status = "live"
               => i \in res[r].fin \/ r \in reborn

\* An object that was seen being deleted and no longer is has lost its document.
PrunedBefore ==
    \A i \in Instances, r \in Resources :
        \/ cres[r].status = "deleting"
        \/ list[i][r].status = "deleting"
        => res[r].status = "deleting" \/ r \notin docs[DatabaseOf[i]]

\* Objects are marked before they are written, and pruned before released.
WalkOrder ==
    \A i \in Instances, r \in Resources :
        /\ pc[i] = "mark" /\ list[i][r].status = "live" /\ r \notin todo[i]
              => i \in res[r].fin \/ r \in reborn
        /\ pc[i] \in {"apply", "release"} /\ r \in todo[i] /\ Keeps(i, r)
              => i \in res[r].fin \/ r \in reborn
        /\ pc[i] = "release" => cur[i] \notin docs[DatabaseOf[i]]

GuardInv ==
    /\ TypeOK /\ ListedOrgs
    /\ PassShape
    /\ DeletionIsFinal
    /\ AlwaysPrunes
    /\ ObjectShape
    /\ CacheTrails
    /\ ListTrails
    /\ MetaTrails
    /\ PrunedBefore
    /\ WalkOrder
    /\ FinalizerGuardsDocument

-----------------------------------------------------------------------------
(* A pass has its locals to itself, and so has an instance its database.    *)

\* Nothing of the pass changes.
SamePass(i) ==
    /\ pc'[i] = pc[i] /\ snap'[i] = snap[i] /\ stage'[i] = stage[i]
    /\ orgsLeft'[i] = orgsLeft[i] /\ list'[i] = list[i] /\ todo'[i] = todo[i]
    /\ cur'[i] = cur[i] /\ catalog'[i] = catalog[i]

\* No database has two instances.
OwnDatabases == \A i, j \in Instances : DatabaseOf[i] = DatabaseOf[j] => i = j

\* A pass and its database change by its own steps and by a restart.
LEMMA OthersStep ==
    ASSUME TypeOK, [Next]_vars, NEW i \in Instances
    PROVE  \/ Work(i) \/ Restart
           \/ /\ SamePass(i)
              /\ OwnDatabases => docs'[DatabaseOf[i]] = docs[DatabaseOf[i]]
  <1> USE DEF ToStep, apiVars, cacheVars, walkVars, workerVars, budgetVars, controllerVars
  <1> DEFINE Other == /\ SamePass(i)
                      /\ OwnDatabases => docs'[DatabaseOf[i]] = docs[DatabaseOf[i]]
  <1>1. ASSUME UNCHANGED <<workerVars, docs>> PROVE Other
    BY <1>1 DEF SamePass
  <1>2. ASSUME NEW j \in Instances, j # i, Work(j) PROVE Other
    <2>1. ASSUME SkipPass(j) \/ BeginPass(j) \/ AddInstanceFinalizer(j) \/ Connect(j)
                 \/ ReleaseInstance(j) \/ PublishReady(j) \/ PublishFailed(j)
                 \/ RefuseInstancePatch(j) \/ RefusePublish(j)
          PROVE  Other
      BY <1>2, <2>1 DEF SamePass, SkipPass, BeginPass, AddInstanceFinalizer, Connect,
             ReleaseInstance, PublishReady, PublishFailed, PublishStatus, RefuseInstancePatch,
             RefusePublish, EndPass, TypeOK
    <2>2. ASSUME List(j) \/ EndMark(j) \/ Release(j) \/ NextKind(j) \/ EndWalk(j) \/ FailPass(j)
          PROVE  Other
      BY <1>2, <2>2 DEF SamePass, List, EndMark, Release, NextKind, EndWalk, FailPass,
             LeaveWalk, TypeOK
    <2>3. ASSUME NEW r \in Resources, Mark(j, r) PROVE Other
      BY <1>2, <2>3 DEF SamePass, Mark, TypeOK
    <2>4. ASSUME NEW r \in Resources, Sync(j, r) \/ Prune(j, r) PROVE Other
      <3>1. SamePass(i)
        BY <1>2, <2>4 DEF SamePass, Sync, Prune, TypeOK
      <3>2. ASSUME OwnDatabases PROVE docs'[DatabaseOf[i]] = docs[DatabaseOf[i]]
        <4>1. DatabaseOf[i] # DatabaseOf[j]
          BY <1>2, <3>2 DEF OwnDatabases
        <4>2. docs' = docs \/ \E S : docs' = [docs EXCEPT ![DatabaseOf[j]] = S]
          BY <2>4 DEF Sync, Prune
        <4> QED
          BY <4>1, <4>2, ConstantsAssumption DEF TypeOK
      <3> QED
        BY <3>1, <3>2
    <2>5. ASSUME NEW o \in Orgs, NextOrg(j, o) PROVE Other
      BY <1>2, <2>5 DEF SamePass, NextOrg, TypeOK
    <2> QED
      BY <1>2, <2>1, <2>2, <2>3, <2>4, <2>5 DEF Work
  <1>3. ASSUME NEW j \in Instances, WatchInstance(j) PROVE UNCHANGED <<workerVars, docs>>
    BY <1>3 DEF WatchInstance
  <1>4. ASSUME NEW r \in Resources, WatchResource(r) \/ WatchMetadata(r)
        PROVE  UNCHANGED <<workerVars, docs>>
    BY <1>4 DEF WatchResource, WatchMetadata
  <1>5. ASSUME UserStep PROVE UNCHANGED <<workerVars, docs>>
    BY <1>5 DEF UserStep, CreateResource, DeleteResource, Relabel, EditInstance,
                DeleteInstance, ChangeSecret
  <1>6. ASSUME UNCHANGED vars PROVE UNCHANGED <<workerVars, docs>>
    BY <1>6 DEF vars
  <1> QED
    BY <1>1, <1>2, <1>3, <1>4, <1>5, <1>6 DEF Next

\* A pass keeps its shape, whatever other instances do.
LEMMA PassShapeNext ==
    ASSUME TypeOK, PassShape, [Next]_vars PROVE PassShape'
  <1> USE DEF ToStep
  <1> SUFFICES ASSUME NEW i \in Instances
      PROVE  /\ pc'[i] = "idle" <=> snap'[i].status = "absent"
             /\ pc'[i] = "mark" => snap'[i].status = "live"
             /\ pc'[i] \notin {"mark", "apply", "release"} => list'[i] = NothingListed
             /\ \A r \in todo'[i] : list'[i][r].status # "absent"
             /\ pc'[i] = "release" => /\ cur'[i] \in Resources /\ ~Keeps(i, cur[i])'
                                     /\ list'[i][cur'[i]].status # "absent"
    BY DEF PassShape
  <1> DEFINE Shape == /\ pc[i] = "idle" <=> snap[i].status = "absent"
                      /\ pc[i] = "mark" => snap[i].status = "live"
                      /\ pc[i] \notin {"mark", "apply", "release"} => list[i] = NothingListed
                      /\ \A r \in todo[i] : list[i][r].status # "absent"
                      /\ pc[i] = "release" => /\ cur[i] \in Resources /\ ~Keeps(i, cur[i])
                                             /\ list[i][cur[i]].status # "absent"
  <1>0. Shape
    BY DEF PassShape
  <1>n. NoInstance.status = "absent" /\ \A r \in Resources : NothingListed[r].status = "absent"
    BY DEF NoInstance, NothingListed, Absent
  <1>1. ASSUME SamePass(i) PROVE Shape'
    BY <1>0, <1>1 DEF SamePass, Keeps
  <1>2. CASE Restart
    BY <1>2, <1>n DEF Restart, Keeps
  <1>3. ASSUME SkipPass(i) \/ BeginPass(i) \/ AddInstanceFinalizer(i) \/ Connect(i) PROVE Shape'
    BY <1>0, <1>3 DEF SkipPass, BeginPass, AddInstanceFinalizer, Connect, walkVars, workerVars,
           Keeps, TypeOK
  <1>4. ASSUME List(i) PROVE Shape'
    <2>1. /\ pc'[i] = IF snap[i].status = "live" THEN "mark" ELSE "apply"
          /\ snap' = snap /\ todo'[i] = Selected(i) /\ pc[i] = "list"
          /\ \A r \in Resources : list'[i][r] = IF r \in Selected(i) THEN cres[r] ELSE Absent
      BY <1>4 DEF List, TypeOK
    <2>2. \A r \in Selected(i) : r \in Resources /\ cres[r].status # "absent"
      BY DEF Selected
    <2> QED
      BY <1>0, <2>1, <2>2
  <1>5. ASSUME EndMark(i) PROVE Shape'
    BY <1>0, <1>5 DEF EndMark, Listed, TypeOK
  <1>6. ASSUME NEW q \in Resources, Mark(i, q) \/ Sync(i, q) PROVE Shape'
    BY <1>0, <1>6 DEF Mark, Sync, TypeOK
  <1>7. ASSUME NEW q \in Resources, Prune(i, q) PROVE Shape'
    BY <1>0, <1>7 DEF Prune, Keeps, TypeOK
  <1>8. ASSUME Release(i) PROVE Shape'
    BY <1>0, <1>8 DEF Release, TypeOK
  <1>9. ASSUME NextKind(i) \/ \E o \in Orgs : NextOrg(i, o) PROVE Shape'
    <2>1. /\ pc'[i] = "list" /\ snap' = snap /\ list'[i] = NothingListed /\ todo' = todo
          /\ todo[i] = {} /\ pc[i] = "apply"
      BY <1>9 DEF NextKind, NextOrg, TypeOK
    <2> QED
      BY <1>0, <2>1
  <1>10. ASSUME EndWalk(i) \/ FailPass(i) PROVE Shape'
    <2>1. /\ pc'[i] \in {"status", "failed"} /\ snap' = snap /\ list'[i] = NothingListed
          /\ todo'[i] = {} /\ pc[i] # "idle"
      BY <1>10 DEF EndWalk, FailPass, LeaveWalk, TypeOK
    <2> QED
      BY <1>0, <2>1
  <1>11. ASSUME ReleaseInstance(i) \/ PublishReady(i) \/ PublishFailed(i)
                \/ RefuseInstancePatch(i) \/ RefusePublish(i)
         PROVE  Shape'
    <2>1. /\ pc'[i] = "idle" /\ snap'[i] = NoInstance /\ list' = list /\ todo' = todo
          /\ pc[i] \in {"finalizer", "status", "failed"}
      BY <1>11 DEF ReleaseInstance, PublishReady, PublishFailed, PublishStatus, EndPass,
             RefuseInstancePatch, RefusePublish, walkVars, TypeOK
    <2> QED
      BY <1>0, <1>n, <2>1
  <1> QED
    BY <1>1, <1>2, <1>3, <1>4, <1>5, <1>6, <1>7, <1>8, <1>9, <1>10, <1>11, OthersStep DEF Work

\* What a step does to what the pass has read of the instance.
LEMMA SnapEffect ==
    ASSUME TypeOK, [Next]_vars, NEW i \in Instances
    PROVE  \/ BeginPass(i) \/ AddInstanceFinalizer(i) \/ snap'[i] = NoInstance
           \/ snap'[i] = snap[i] /\ (pc[i] = "finalizer" <=> pc'[i] = "finalizer")
  <1> USE DEF ToStep, apiVars, cacheVars, walkVars, workerVars, budgetVars, controllerVars
  <1> DEFINE Same == snap'[i] = snap[i] /\ (pc[i] = "finalizer" <=> pc'[i] = "finalizer")
  <1>1. ASSUME SkipPass(i) \/ Connect(i) \/ List(i) \/ EndMark(i) \/ Release(i) \/ NextKind(i)
               \/ EndWalk(i) \/ FailPass(i)
        PROVE  Same
    BY <1>1 DEF SkipPass, Connect, List, EndMark, Release, NextKind, EndWalk, FailPass, TypeOK
  <1>2. ASSUME NEW r \in Resources, Mark(i, r) \/ Sync(i, r) \/ Prune(i, r) PROVE Same
    BY <1>2 DEF Mark, Sync, Prune, TypeOK
  <1>3. ASSUME NEW o \in Orgs, NextOrg(i, o) PROVE Same
    BY <1>3 DEF NextOrg, TypeOK
  <1>4. ASSUME ReleaseInstance(i) \/ PublishReady(i) \/ PublishFailed(i)
               \/ RefuseInstancePatch(i) \/ RefusePublish(i)
        PROVE  snap'[i] = NoInstance
    BY <1>4 DEF ReleaseInstance, PublishReady, PublishFailed, PublishStatus, EndPass,
                RefuseInstancePatch, RefusePublish, TypeOK
  <1>5. ASSUME Restart PROVE snap'[i] = NoInstance
    BY <1>5 DEF Restart
  <1>6. ASSUME SamePass(i) PROVE Same
    BY <1>6 DEF SamePass
  <1> QED
    BY <1>1, <1>2, <1>3, <1>4, <1>5, <1>6, OthersStep DEF Work

\* The cache takes over the object as it is at the API server.
LEMMA CacheEffect ==
    ASSUME TypeOK, [Next]_vars
    PROVE  \A q \in Resources : cres'[q] \in {cres[q], res[q]}
  <1> USE DEF apiVars, cacheVars, controllerVars
  <1>1. ASSUME NEW r \in Resources, WatchResource(r)
        PROVE  \A q \in Resources : cres'[q] \in {cres[q], res[q]}
    BY <1>1 DEF WatchResource, TypeOK
  <1>6. ASSUME NEW r \in Resources, WatchMetadata(r) PROVE UNCHANGED cres
    BY <1>6 DEF WatchMetadata
  <1>2. ASSUME NEW j \in Instances, Work(j) \/ WatchInstance(j) PROVE UNCHANGED cres
    BY <1>2 DEF Work, SkipPass, BeginPass, AddInstanceFinalizer, Connect, List, EndMark,
           Release, NextKind, EndWalk, ReleaseInstance, PublishReady, PublishFailed,
           PublishStatus, FailPass, RefuseInstancePatch, RefusePublish, Mark, Sync,
           Prune, NextOrg, WatchInstance
  <1>3. CASE Restart
    BY <1>3 DEF Restart
  <1>4. CASE UserStep
    BY <1>4 DEF UserStep, CreateResource, DeleteResource, Relabel, EditInstance,
                DeleteInstance, ChangeSecret
  <1>5. CASE UNCHANGED vars
    BY <1>5 DEF vars
  <1> QED
    BY <1>1, <1>2, <1>3, <1>4, <1>5, <1>6 DEF Next

\* Where the pass is not in the middle of a walk.
Outside == {"idle", "finalizer", "connect", "status", "failed"}

\* What a step does to the walk.
LEMMA WalkEffect ==
    ASSUME TypeOK, [Next]_vars, NEW i \in Instances
    PROVE  \/ /\ stage'[i] = stage[i] /\ orgsLeft'[i] = orgsLeft[i] /\ list'[i] = list[i]
              /\ pc'[i] \in Outside => pc[i] \in Outside
           \/ List(i) \/ NextKind(i) \/ \E o \in Orgs : NextOrg(i, o)
           \/ /\ stage'[i] = FirstStage /\ orgsLeft'[i] = {} /\ list'[i] = NothingListed
              /\ pc'[i] \in Outside
  <1> USE DEF ToStep, apiVars, cacheVars, walkVars, workerVars, budgetVars, controllerVars
  <1> DEFINE Same == /\ stage'[i] = stage[i] /\ orgsLeft'[i] = orgsLeft[i] /\ list'[i] = list[i]
                     /\ pc'[i] \in Outside => pc[i] \in Outside
             Left == /\ stage'[i] = FirstStage /\ orgsLeft'[i] = {} /\ list'[i] = NothingListed
                     /\ pc'[i] \in Outside
  <1>1. ASSUME SkipPass(i) \/ BeginPass(i) \/ AddInstanceFinalizer(i) \/ Connect(i)
               \/ EndMark(i) \/ Release(i) \/ ReleaseInstance(i) \/ PublishReady(i)
               \/ PublishFailed(i) \/ RefuseInstancePatch(i) \/ RefusePublish(i)
        PROVE  Same
    BY <1>1 DEF SkipPass, BeginPass, AddInstanceFinalizer, Connect, EndMark, Release,
                ReleaseInstance, PublishReady, PublishFailed, PublishStatus, EndPass,
                RefuseInstancePatch, RefusePublish, Outside, TypeOK
  <1>2. ASSUME NEW r \in Resources, Mark(i, r) \/ Sync(i, r) \/ Prune(i, r) PROVE Same
    BY <1>2 DEF Mark, Sync, Prune, Outside, TypeOK
  <1>3. ASSUME SamePass(i) PROVE Same
    BY <1>3 DEF SamePass
  <1>4. ASSUME EndWalk(i) \/ FailPass(i) PROVE Left
    BY <1>4 DEF EndWalk, FailPass, LeaveWalk, Outside, TypeOK
  <1>5. ASSUME Restart PROVE Left
    BY <1>5 DEF Restart, Outside
  <1> QED
    BY <1>1, <1>2, <1>3, <1>4, <1>5, OthersStep DEF Work

\* The cache takes over the instance as it is at the API server.
LEMMA InstanceCacheEffect ==
    ASSUME TypeOK, [Next]_vars, NEW i \in Instances
    PROVE  cinst'[i] \in {cinst[i], inst[i]}
  <1> USE DEF apiVars, cacheVars, controllerVars
  <1>1. ASSUME NEW j \in Instances, WatchInstance(j) PROVE cinst'[i] \in {cinst[i], inst[i]}
    BY <1>1 DEF WatchInstance, TypeOK
  <1>2. ASSUME NEW j \in Instances, Work(j) PROVE UNCHANGED cinst
    BY <1>2 DEF Work, SkipPass, BeginPass, AddInstanceFinalizer, Connect, List, EndMark,
           Release, NextKind, EndWalk, ReleaseInstance, PublishReady, PublishFailed,
           PublishStatus, FailPass, RefuseInstancePatch, RefusePublish, Mark, Sync,
           Prune, NextOrg
  <1>3. ASSUME NEW r \in Resources, WatchResource(r) \/ WatchMetadata(r) PROVE UNCHANGED cinst
    BY <1>3 DEF WatchResource, WatchMetadata
  <1>4. CASE Restart
    BY <1>4 DEF Restart
  <1>5. CASE UserStep
    BY <1>5 DEF UserStep, CreateResource, DeleteResource, Relabel, EditInstance,
                DeleteInstance, ChangeSecret
  <1>6. CASE UNCHANGED vars
    BY <1>6 DEF vars
  <1> QED
    BY <1>1, <1>2, <1>3, <1>4, <1>5, <1>6 DEF Next

-----------------------------------------------------------------------------
(* What the steps that write objects do to the finalizer of the instance.  *)

\* With what the patch of a mark leaves on the server's object.
MarkedFin(i, r) ==
    Landed(Latest(r, list[i][r]), res[r], WithFinalizer(i, list[i][r]))

LEMMA MarkLands ==
    ASSUME TypeOK, PassShape, ListTrails, NEW i \in Instances, NEW r \in Resources,
           Mark(i, r), list[i][r].status = "live"
    PROVE  /\ MarkedFin(i, r) \in SUBSET Instances
           /\ Acceptable(res[r], MarkedFin(i, r))
           /\ res' = [res EXCEPT ![r] = Patched(@, MarkedFin(i, r))]
           /\ reborn' = IF i \in MarkedFin(i, r) THEN reborn \ {r} ELSE reborn
           /\ \/ i \in MarkedFin(i, r)
              \/ ~FreshReads /\ i \in mres[r].fin /\ MarkedFin(i, r) = res[r].fin
  <1>1. /\ list[i][r] \in ResourceObject /\ res[r] \in ResourceObject
        /\ snap[i].status = "live"
    BY DEF TypeOK, PassShape, Mark
  <1>2. /\ Acceptable(res[r], MarkedFin(i, r))
        /\ res' = [res EXCEPT ![r] = Patched(@, MarkedFin(i, r))]
        /\ reborn' = IF i \in MarkedFin(i, r) THEN reborn \ {r} ELSE reborn
    BY DEF Mark, MarkedFin
  <1>3. MarkedFin(i, r) \in SUBSET Instances
    <2>1. Latest(r, list[i][r]) \in ResourceObject
      BY <1>1, LatestType
    <2>2. Latest(r, list[i][r]).fin \in SUBSET Instances
      BY <2>1 DEF ResourceObject
    <2> QED
      BY <1>1, <2>2, LandedTypes DEF MarkedFin
  <1>4. CASE FreshReads
    <2>1. Carries(i, list[i][r]) => i \in res[r].fin
      BY <1>1 DEF ListTrails
    <2> QED
      BY <1>2, <1>3, <1>4, <2>1 DEF MarkedFin, Landed, Latest, WithFinalizer, Carries
  <1>5. CASE ~FreshReads
    BY <1>2, <1>3, <1>5 DEF MarkedFin, Landed, Latest, WithFinalizer
  <1> QED
    BY <1>4, <1>5

LEMMA MarkEffect ==
    ASSUME TypeOK, PassShape, ObjectShape, ListTrails,
           NEW i \in Instances, NEW r \in Resources, Mark(i, r)
    PROVE  /\ \A q \in Resources : res'[q].status = res[q].status
           /\ \A q \in Resources : i \in res[q].fin => i \in res'[q].fin
           /\ \A q \in Resources :
                 i \in res'[q].fin => i \in res[q].fin \/ (q = r /\ list[i][r].status = "live")
           /\ reborn' = reborn \/ (reborn' = reborn \ {r} /\ i \in res'[r].fin)
           /\ list[i][r].status = "live" =>
                 \/ i \in res'[r].fin
                 \/ ~FreshReads /\ i \in mres[r].fin /\ res[r].status # "absent"
           /\ ObjectShape'
  <1> DEFINE fin == MarkedFin(i, r)
  <1>1. res \in [Resources -> ResourceObject] /\ res[r] \in ResourceObject
    BY DEF TypeOK
  <1>2. CASE list[i][r].status = "deleting" /\ UNCHANGED <<res, reborn>>
    BY <1>2 DEF ObjectShape
  <1>3. CASE list[i][r].status = "live"
    <2>1. /\ Acceptable(res[r], fin)
          /\ res' = [res EXCEPT ![r] = Patched(@, fin)]
          /\ reborn' = IF i \in fin THEN reborn \ {r} ELSE reborn
          /\ i \in fin \/ (~FreshReads /\ i \in mres[r].fin /\ fin = res[r].fin)
      BY <1>3, MarkLands
    <2> HIDE DEF fin
    <2>2. ~(res[r].status = "deleting" /\ fin = {})
      BY <2>1 DEF ObjectShape
    <2>3. Patched(res[r], fin) = [res[r] EXCEPT !.fin = fin]
      BY <2>2 DEF Patched
    <2>4. res'[r].fin = fin /\ res'[r].status = res[r].status
      BY <1>1, <2>1, <2>3 DEF ResourceObject
    <2>5. \A q \in Resources \ {r} : res'[q] = res[q]
      BY <1>1, <2>1
    <2>6. res[r].status # "absent"
      BY <2>1 DEF Acceptable
    <2>7. i \in res[r].fin => i \in fin
      BY <2>1
    <2> QED
      BY <1>3, <2>1, <2>2, <2>4, <2>5, <2>6, <2>7 DEF ObjectShape
  <1> QED
    BY <1>2, <1>3 DEF Mark

LEMMA ReleaseEffect ==
    ASSUME TypeOK, PassShape, ObjectShape, NEW i \in Instances, Release(i)
    PROVE  /\ cur[i] \in Resources
           /\ \A q \in Resources \ {cur[i]} : res'[q] = res[q]
           /\ i \in res'[cur[i]].fin => i \in res[cur[i]].fin
           /\ res'[cur[i]].status \in {res[cur[i]].status, "absent"}
           /\ ObjectShape'
  <1> DEFINE r == cur[i]
             old == list[i][r]
             fin == Landed(Latest(r, old), res[r], WithoutFinalizer(i, old))
  <1>1. /\ res \in [Resources -> ResourceObject] /\ r \in Resources
        /\ res[r] \in ResourceObject /\ list[i][r] \in ResourceObject
    BY DEF TypeOK, PassShape, Release
  <1>2. Acceptable(res[r], fin) /\ res' = [res EXCEPT ![r] = Patched(@, fin)]
    BY DEF Release
  <1>3. i \in fin => i \in res[r].fin
    BY DEF Landed, WithoutFinalizer
  <1> HIDE DEF fin
  <1>4. res'[r] = Patched(res[r], fin) /\ \A q \in Resources \ {r} : res'[q] = res[q]
    BY <1>1, <1>2
  <1>5. CASE res[r].status = "deleting" /\ fin = {}
    <2>1. res'[r] = Absent
      BY <1>4, <1>5 DEF Patched
    <2> QED
      BY <1>1, <1>4, <2>1 DEF Absent, ObjectShape
  <1>6. CASE ~(res[r].status = "deleting" /\ fin = {})
    <2>1. res'[r] = [res[r] EXCEPT !.fin = fin]
      BY <1>4, <1>6 DEF Patched
    <2>2. res'[r].fin = fin /\ res'[r].status = res[r].status
      BY <1>1, <2>1 DEF ResourceObject
    <2> QED
      BY <1>1, <1>2, <1>3, <1>4, <1>6, <2>2 DEF ObjectShape, Acceptable
  <1> QED
    BY <1>5, <1>6

LEMMA CreateEffect ==
    ASSUME TypeOK, ObjectShape, NEW r \in Resources, CreateResource(r)
    PROVE  /\ \A q \in Resources : res'[q].fin = res[q].fin
           /\ \A q \in Resources : res'[q].status # res[q].status =>
                 res[q].status = "absent" /\ res'[q].status = "live"
           /\ reborn \subseteq reborn'
           /\ ~FreshReads /\ mres[r].fin # {} => r \in reborn'
           /\ \A q \in Resources \ {r} : res'[q] = res[q]
  <1>1. PICK l \in LabelsOf[r] : res' = [res EXCEPT ![r] = Fresh(l)]
    BY DEF CreateResource
  <1>2. /\ \A q \in Resources \ {r} : res'[q] = res[q]
        /\ res'[r].fin = {} /\ res'[r].status = "live" /\ res[r].status = "absent"
    BY <1>1 DEF TypeOK, CreateResource, Fresh
  <1>3. reborn' = IF ~FreshReads /\ mres[r].fin # {} THEN reborn \cup {r} ELSE reborn
    BY DEF CreateResource
  <1> QED
    BY <1>2, <1>3 DEF ObjectShape

LEMMA InitInstances ==
    ASSUME Init, NEW i \in Instances
    PROVE  inst[i].status = "live" /\ inst[i].prune \in PruneValues
  <1>1. inst[i] \in {NewInstance(p, s) : p \in PruneValues, s \in SuspendValues}
    BY DEF Init
  <1>2. PICK p \in PruneValues, s \in SuspendValues : inst[i] = NewInstance(p, s)
    BY <1>1
  <1> QED
    BY <1>2 DEF NewInstance, NoInstance

LEMMA GuardInit ==
    ASSUME NEW a, Instances = {a}, PruneValues = {TRUE}, Init
    PROVE  GuardInv
  <1>1. TypeOK /\ ListedOrgs
    <2>1. ListedOrgs
      BY DEF Init, ListedOrgs, FirstStage
    <2> QED
      BY TypeInit, <2>1
  <1>2. /\ \A i \in Instances : inst[i].status = "live" /\ inst[i].prune
        /\ \A r \in Resources : res[r].fin = {} /\ res[r].status # "deleting"
    <2>1. \A r \in Resources : res[r] = Absent \/ \E l \in Labels : res[r] = Fresh(l)
      BY ConstantsAssumption DEF Init
    <2>2. \A r \in Resources : res[r].fin = {} /\ res[r].status # "deleting"
      <3> SUFFICES ASSUME NEW r \in Resources
                   PROVE  res[r].fin = {} /\ res[r].status # "deleting"
        OBVIOUS
      <3>1. CASE res[r] = Absent
        BY <3>1 DEF Absent
      <3>2. ASSUME NEW l \in Labels, res[r] = Fresh(l)
            PROVE  res[r].fin = {} /\ res[r].status # "deleting"
        BY <3>2 DEF Fresh
      <3> QED
        BY <2>1, <3>1, <3>2
    <2>3. \A i \in Instances : inst[i].status = "live" /\ inst[i].prune
      BY InitInstances
    <2> QED
      BY <2>2, <2>3
  <1>3. /\ \A i \in Instances : pc[i] = "idle" /\ snap[i].status = "absent"
        /\ \A i \in Instances : list[i] = NothingListed /\ todo[i] = {}
        /\ \A i \in Instances : docs[DatabaseOf[i]] = {}
        /\ cinst = inst /\ cres = res /\ mres = res
    BY ConstantsAssumption DEF Init, NoInstance
  <1>4. PassShape /\ DeletionIsFinal /\ AlwaysPrunes
    BY <1>2, <1>3 DEF PassShape, DeletionIsFinal, AlwaysPrunes
  <1>5. ObjectShape /\ CacheTrails /\ ListTrails /\ MetaTrails /\ PrunedBefore
    BY <1>2, <1>3 DEF ObjectShape, CacheTrails, ListTrails, MetaTrails, PrunedBefore, Carries
  <1>6. WalkOrder /\ FinalizerGuardsDocument
    BY <1>3 DEF WalkOrder, FinalizerGuardsDocument
  <1> QED
    BY <1>1, <1>4, <1>5, <1>6 DEF GuardInv

\* The metadata cache shows old versions; a release and a new object leave none
\* of them marked that matters.
LEMMA MetaTrailsNext ==
    ASSUME NEW a, Instances = {a}, GuardInv, [Next]_vars
    PROVE  MetaTrails'
  <1> USE DEF ToStep, apiVars, cacheVars, walkVars, workerVars, budgetVars, controllerVars
  <1>0. /\ TypeOK /\ PassShape /\ DeletionIsFinal /\ ObjectShape /\ ListTrails /\ MetaTrails
    BY DEF GuardInv
  <1>m. \A i \in Instances : Marking(i)' => Marking(i)
    <2> SUFFICES ASSUME NEW i \in Instances PROVE Marking(i)' => Marking(i)
      OBVIOUS
    <2>1. cinst'[i] \in {cinst[i], inst[i]}
      BY <1>0, InstanceCacheEffect
    <2>2. snap'[i].status = "live" => snap[i].status = "live" \/ cinst[i].status = "live"
      BY <1>0, SnapEffect DEF BeginPass, AddInstanceFinalizer, NoInstance, TypeOK
    <2> QED
      BY <1>0, <2>1, <2>2 DEF Marking, DeletionIsFinal
  <1>1. ASSUME UNCHANGED <<res, mres, reborn>> PROVE MetaTrails'
    BY <1>0, <1>m, <1>1 DEF MetaTrails
  <1>2. ASSUME NEW i \in Instances, NEW r \in Resources, Mark(i, r) PROVE MetaTrails'
    <2>1. /\ \A q \in Resources : res'[q].status = res[q].status
          /\ \A q \in Resources : i \in res[q].fin => i \in res'[q].fin
          /\ reborn' = reborn \/ (reborn' = reborn \ {r} /\ i \in res'[r].fin)
          /\ mres' = mres
      BY <1>0, <1>2, MarkEffect DEF Mark
    <2> QED
      BY <1>0, <1>m, <2>1 DEF MetaTrails
  <1>3. ASSUME NEW i \in Instances, Release(i) PROVE MetaTrails'
    <2>1. /\ cur[i] \in Resources
          /\ \A q \in Resources \ {cur[i]} : res'[q] = res[q]
          /\ res'[cur[i]].status \in {res[cur[i]].status, "absent"}
          /\ mres' = mres /\ reborn' = reborn
      BY <1>0, <1>3, ReleaseEffect DEF Release
    <2>2. Marking(i) => snap[i].status = "live" /\ list[i][cur[i]].status = "deleting"
      BY <1>0, <1>3 DEF Release, Marking, PassShape, DeletionIsFinal, Keeps, TypeOK,
                       InstanceObject, ResourceObject, Status
    <2>3. Marking(i) => ~Carries(i, res[cur[i]])
      BY <1>0, <2>1, <2>2 DEF ListTrails
    <2> QED
      BY <1>0, <1>m, <2>1, <2>3 DEF MetaTrails, Carries
  <1>4. ASSUME NEW r \in Resources, CreateResource(r) PROVE MetaTrails'
    <2>1. /\ \A q \in Resources \ {r} : res'[q] = res[q]
          /\ reborn \subseteq reborn' /\ mres' = mres
          /\ ~FreshReads /\ mres[r].fin # {} => r \in reborn'
      BY <1>0, <1>4, CreateEffect DEF CreateResource
    <2> QED
      BY <1>0, <1>m, <2>1 DEF MetaTrails
  <1>5. ASSUME NEW r \in Resources, DeleteResource(r) \/ Relabel(r) PROVE MetaTrails'
    <2>1. \A q \in Resources : res'[q].status = "live" =>
              res[q].status = "live" /\ res'[q].fin = res[q].fin
      <3>1. res \in [Resources -> ResourceObject] /\ res[r] \in ResourceObject
        BY <1>0 DEF TypeOK
      <3>2. CASE DeleteResource(r)
        <4>1. res' = [res EXCEPT ![r] = IF res[r].fin = {} THEN Absent
                                        ELSE [res[r] EXCEPT !.status = "deleting"]]
          BY <3>2 DEF DeleteResource
        <4>2. res'[r].status # "live"
          BY <3>1, <4>1 DEF Absent, ResourceObject
        <4> QED
          BY <3>1, <4>1, <4>2
      <3>3. CASE Relabel(r)
        <4>1. PICK l \in LabelsOf[r] : res' = [res EXCEPT ![r].inst = l.inst, ![r].org = l.org]
          BY <3>3 DEF Relabel
        <4> QED
          BY <3>1, <4>1 DEF ResourceObject
      <3> QED
        BY <1>5, <3>2, <3>3
    <2>2. UNCHANGED <<mres, reborn>>
      BY <1>5 DEF DeleteResource, Relabel
    <2> QED
      BY <1>0, <1>m, <2>1, <2>2 DEF MetaTrails
  <1>6. ASSUME NEW r \in Resources, WatchMetadata(r) PROVE MetaTrails'
    BY <1>0, <1>m, <1>6 DEF WatchMetadata, MetaTrails, TypeOK
  <1>7. CASE Restart
    BY <1>7 DEF Restart, MetaTrails
  <1>8. ASSUME NEW i \in Instances,
               \/ SkipPass(i) \/ BeginPass(i) \/ AddInstanceFinalizer(i) \/ Connect(i)
               \/ List(i) \/ EndMark(i) \/ NextKind(i) \/ EndWalk(i) \/ ReleaseInstance(i)
               \/ PublishReady(i) \/ PublishFailed(i) \/ FailPass(i) \/ RefuseInstancePatch(i)
               \/ RefusePublish(i) \/ WatchInstance(i) \/ EditInstance(i) \/ DeleteInstance(i)
        PROVE  UNCHANGED <<res, mres, reborn>>
    BY <1>8 DEF SkipPass, BeginPass, AddInstanceFinalizer, Connect, List, EndMark, NextKind,
                EndWalk, ReleaseInstance, PublishReady, PublishFailed, PublishStatus, FailPass,
                RefuseInstancePatch, RefusePublish, WatchInstance, EditInstance, DeleteInstance
  <1>9. ASSUME NEW i \in Instances, NEW r \in Resources, Sync(i, r) \/ Prune(i, r)
        PROVE  UNCHANGED <<res, mres, reborn>>
    BY <1>9 DEF Sync, Prune
  <1>10. ASSUME NEW i \in Instances, NEW o \in Orgs, NextOrg(i, o)
         PROVE  UNCHANGED <<res, mres, reborn>>
    BY <1>10 DEF NextOrg
  <1>11. ASSUME NEW r \in Resources, WatchResource(r) PROVE UNCHANGED <<res, mres, reborn>>
    BY <1>11 DEF WatchResource
  <1>12. ASSUME NEW x \in Secrets, ChangeSecret(x) PROVE UNCHANGED <<res, mres, reborn>>
    BY <1>12 DEF ChangeSecret
  <1>13. ASSUME UNCHANGED vars PROVE UNCHANGED <<res, mres, reborn>>
    BY <1>13 DEF vars
  <1> QED
    BY <1>1, <1>2, <1>3, <1>4, <1>5, <1>6, <1>7, <1>8, <1>9, <1>10, <1>11, <1>12, <1>13
       DEF Next, Work, UserStep

\* What is seen being deleted is pruned before it goes, and not written again
\* before it is seen anew.
LEMMA PrunedBeforeNext ==
    ASSUME NEW a, Instances = {a}, GuardInv, [Next]_vars
    PROVE  PrunedBefore'
  <1> USE ConstantsAssumption DEF ToStep, apiVars, cacheVars, walkVars, workerVars,
          budgetVars, controllerVars
  <1>0. /\ TypeOK /\ PassShape /\ ObjectShape /\ ListTrails /\ PrunedBefore /\ WalkOrder
    BY DEF GuardInv
  <1> DEFINE Leaves(q) == res[q].status = "deleting" /\ res'[q].status # "deleting"
  <1>n. \A r \in Resources : NothingListed[r].status = "absent"
    BY DEF NothingListed, Absent
  <1>1. ASSUME UNCHANGED docs, \A q \in Resources : ~Leaves(q) PROVE PrunedBefore'
    <2> SUFFICES ASSUME NEW i \in Instances, NEW r \in Resources,
                        cres'[r].status = "deleting" \/ list'[i][r].status = "deleting"
                 PROVE  res'[r].status = "deleting" \/ r \notin docs[DatabaseOf[i]]
      BY <1>1 DEF PrunedBefore
    <2>1. cres'[r] \in {cres[r], res[r]}
      BY <1>0, CacheEffect
    <2>2. list'[i] = list[i] \/ list'[i] = NothingListed \/ list'[i][r] \in {cres[r], Absent}
      BY <1>0, WalkEffect DEF List, NextKind, NextOrg, TypeOK
    <2> QED
      BY <1>0, <1>1, <1>n, <2>1, <2>2 DEF PrunedBefore, Absent
  <1>2. ASSUME NEW i \in Instances, Release(i) PROVE PrunedBefore'
    <2>1. /\ cur[i] \in Resources /\ cur[i] \notin docs[DatabaseOf[i]]
          /\ \A q \in Resources \ {cur[i]} : res'[q] = res[q]
          /\ UNCHANGED <<docs, cres, list>>
      BY <1>0, <1>2, ReleaseEffect DEF Release, WalkOrder
    <2> QED
      BY <1>0, <2>1 DEF PrunedBefore
  <1>3. ASSUME NEW i \in Instances, NEW r \in Resources, Sync(i, r) PROVE PrunedBefore'
    <2>1. /\ docs'[DatabaseOf[i]] = docs[DatabaseOf[i]] \cup {r}
          /\ list[i][r].status = "live" /\ snap[i].status = "live"
          /\ UNCHANGED <<res, cres, list>>
      BY <1>0, <1>3 DEF Sync, Keeps, TypeOK
    <2>2. cres[r].status = "deleting" => res[r].status = "deleting"
      BY <1>0, <2>1 DEF ListTrails
    <2> QED
      BY <1>0, <2>1, <2>2 DEF PrunedBefore
  <1>4. ASSUME NEW i \in Instances, NEW r \in Resources, Prune(i, r) PROVE PrunedBefore'
    <2>1. docs'[DatabaseOf[i]] \subseteq docs[DatabaseOf[i]] /\ UNCHANGED <<res, cres, list>>
      BY <1>0, <1>4 DEF Prune, TypeOK
    <2> QED
      BY <1>0, <2>1 DEF PrunedBefore
  <1>5. ASSUME NEW i \in Instances, NEW r \in Resources, Mark(i, r) PROVE PrunedBefore'
    <2>1. \A q \in Resources : res'[q].status = res[q].status
      BY <1>0, <1>5, MarkEffect
    <2> QED
      BY <1>1, <1>5, <2>1 DEF Mark
  <1>6. ASSUME NEW r \in Resources, CreateResource(r) PROVE PrunedBefore'
    <2>1. res[r].status = "absent" /\ \A q \in Resources \ {r} : res'[q] = res[q]
      BY <1>0, <1>6, CreateEffect DEF CreateResource
    <2> QED
      BY <1>1, <1>6, <2>1 DEF CreateResource
  <1>7. ASSUME NEW r \in Resources, DeleteResource(r) PROVE PrunedBefore'
    <2>1. res[r].status = "live" /\ \A q \in Resources \ {r} : res'[q] = res[q]
      BY <1>0, <1>7 DEF DeleteResource, TypeOK
    <2> QED
      BY <1>1, <1>7, <2>1 DEF DeleteResource
  <1>8. ASSUME NEW r \in Resources, Relabel(r) PROVE PrunedBefore'
    <2>1. PICK l \in LabelsOf[r] : res' = [res EXCEPT ![r].inst = l.inst, ![r].org = l.org]
      BY <1>8 DEF Relabel
    <2>2. res \in [Resources -> ResourceObject] /\ res[r] \in ResourceObject
      BY <1>0 DEF TypeOK
    <2>3. \A q \in Resources : res'[q].status = res[q].status
      BY <2>1, <2>2 DEF ResourceObject
    <2> QED
      BY <1>1, <1>8, <2>3 DEF Relabel
  <1>9. ASSUME NEW i \in Instances,
               \/ SkipPass(i) \/ BeginPass(i) \/ AddInstanceFinalizer(i) \/ Connect(i)
               \/ List(i) \/ EndMark(i) \/ NextKind(i) \/ EndWalk(i) \/ ReleaseInstance(i)
               \/ PublishReady(i) \/ PublishFailed(i) \/ FailPass(i) \/ RefuseInstancePatch(i)
               \/ RefusePublish(i) \/ WatchInstance(i) \/ EditInstance(i) \/ DeleteInstance(i)
        PROVE  UNCHANGED <<res, docs>>
    BY <1>9 DEF SkipPass, BeginPass, AddInstanceFinalizer, Connect, List, EndMark, NextKind,
                EndWalk, ReleaseInstance, PublishReady, PublishFailed, PublishStatus, FailPass,
                RefuseInstancePatch, RefusePublish, WatchInstance, EditInstance, DeleteInstance
  <1>10. ASSUME NEW i \in Instances, NEW o \in Orgs, NextOrg(i, o) PROVE UNCHANGED <<res, docs>>
    BY <1>10 DEF NextOrg
  <1>11. ASSUME NEW r \in Resources, WatchResource(r) \/ WatchMetadata(r)
         PROVE  UNCHANGED <<res, docs>>
    BY <1>11 DEF WatchResource, WatchMetadata
  <1>12. ASSUME NEW x \in Secrets, ChangeSecret(x) PROVE UNCHANGED <<res, docs>>
    BY <1>12 DEF ChangeSecret
  <1>13. ASSUME Restart \/ UNCHANGED vars PROVE UNCHANGED <<res, docs>>
    BY <1>13 DEF Restart, vars
  <1>14. ASSUME UNCHANGED <<res, docs>> PROVE PrunedBefore'
    BY <1>1, <1>14
  <1> QED
    BY <1>2, <1>3, <1>4, <1>5, <1>6, <1>7, <1>8, <1>9, <1>10, <1>11, <1>12, <1>13, <1>14
       DEF Next, Work, UserStep

LEMMA GuardNext ==
    ASSUME NEW a, Instances = {a}, PruneValues = {TRUE},
           GuardInv, [Next]_vars
    PROVE  GuardInv'
  <1> USE ConstantsAssumption DEF ToStep, apiVars, cacheVars, walkVars, workerVars,
          budgetVars, controllerVars, NoInstance
  <1>0. /\ TypeOK /\ ListedOrgs /\ PassShape /\ DeletionIsFinal /\ AlwaysPrunes
        /\ ObjectShape /\ CacheTrails /\ ListTrails /\ MetaTrails
        /\ PrunedBefore /\ WalkOrder
        /\ FinalizerGuardsDocument
    BY DEF GuardInv
  <1>t. TypeOK' /\ ListedOrgs' /\ PassShape' /\ MetaTrails' /\ PrunedBefore'
    BY <1>0, TypeNext, ListedOrgsNext, PassShapeNext, MetaTrailsNext, PrunedBeforeNext
  <1>n. \A r \in Resources : NothingListed[r].status = "absent"
    BY DEF NothingListed, Absent
  <1>1. ASSUME NEW i \in Instances, SkipPass(i) PROVE GuardInv'
    <2>1. DeletionIsFinal' /\ AlwaysPrunes' /\ ObjectShape' /\ CacheTrails' /\ ListTrails' /\ WalkOrder' /\ FinalizerGuardsDocument'
      BY <1>0, <1>1
         DEF SkipPass, AlwaysPrunes, CacheTrails, Carries, DeletionIsFinal,
             FinalizerGuardsDocument, Keeps, ListTrails, Marking, ObjectShape,
             PassShape, WalkOrder
    <2> QED
      BY <1>t, <2>1 DEF GuardInv
  <1>2. ASSUME NEW i \in Instances, BeginPass(i) PROVE GuardInv'
    <2>1. DeletionIsFinal'
      BY <1>0, <1>2 DEF BeginPass, DeletionIsFinal, TypeOK
    <2>2. AlwaysPrunes'
      BY <1>0, <1>2 DEF BeginPass, AlwaysPrunes, TypeOK
    <2>3. CacheTrails'
      BY <1>0, <1>2 DEF BeginPass, CacheTrails, Marking, Carries, TypeOK
    <2>4. ListTrails'
      BY <1>0, <1>n, <1>2 DEF BeginPass, ListTrails, Carries, PassShape, TypeOK
    <2>5. WalkOrder'
      BY <1>0, <1>2 DEF BeginPass, WalkOrder, Keeps, TypeOK
    <2>6. ObjectShape' /\ FinalizerGuardsDocument'
      BY <1>0, <1>2 DEF BeginPass, FinalizerGuardsDocument, ObjectShape
    <2> QED
      BY <1>t, <2>1, <2>2, <2>3, <2>4, <2>5, <2>6 DEF GuardInv
  <1>3. ASSUME NEW i \in Instances, AddInstanceFinalizer(i) PROVE GuardInv'
    <2>1. DeletionIsFinal'
      <3>1. \A j \in Instances : inst'[j].status = inst[j].status /\ inst'[j].prune = inst[j].prune
        <4>1. inst \in [Instances -> InstanceObject] /\ inst[i] \in InstanceObject
          BY <1>0 DEF TypeOK
        <4>2. CASE UNCHANGED inst
          BY <4>2
        <4>3. CASE inst' = [inst EXCEPT ![i].fin = @ \/ ~snap[i].fin]
          BY <4>1, <4>3 DEF InstanceObject
        <4> QED
          BY <1>3, <4>2, <4>3 DEF AddInstanceFinalizer
      <3> QED
        BY <1>0, <3>1, <1>3 DEF AddInstanceFinalizer, DeletionIsFinal
    <2>2. AlwaysPrunes'
      <3>1. \A j \in Instances : inst'[j].status = inst[j].status /\ inst'[j].prune = inst[j].prune
        <4>1. inst \in [Instances -> InstanceObject] /\ inst[i] \in InstanceObject
          BY <1>0 DEF TypeOK
        <4>2. CASE UNCHANGED inst
          BY <4>2
        <4>3. CASE inst' = [inst EXCEPT ![i].fin = @ \/ ~snap[i].fin]
          BY <4>1, <4>3 DEF InstanceObject
        <4> QED
          BY <1>3, <4>2, <4>3 DEF AddInstanceFinalizer
      <3> QED
        BY <1>0, <3>1, <1>3 DEF AddInstanceFinalizer, AlwaysPrunes
    <2>3. WalkOrder'
      BY <1>0, <1>3 DEF AddInstanceFinalizer, WalkOrder, Keeps, TypeOK
    <2>4. ObjectShape' /\ CacheTrails' /\ ListTrails' /\ FinalizerGuardsDocument'
      BY <1>0, <1>3
         DEF AddInstanceFinalizer, CacheTrails, Carries,
             FinalizerGuardsDocument, ListTrails, Marking, ObjectShape
    <2> QED
      BY <1>t, <2>1, <2>2, <2>3, <2>4 DEF GuardInv
  <1>4. ASSUME NEW i \in Instances, Connect(i) PROVE GuardInv'
    <2>1. WalkOrder'
      BY <1>0, <1>4 DEF Connect, WalkOrder, Keeps, TypeOK
    <2>2. DeletionIsFinal' /\ AlwaysPrunes' /\ ObjectShape' /\ CacheTrails' /\ ListTrails' /\ FinalizerGuardsDocument'
      BY <1>0, <1>4
         DEF Connect, AlwaysPrunes, CacheTrails, Carries, DeletionIsFinal,
             FinalizerGuardsDocument, ListTrails, Marking, ObjectShape
    <2> QED
      BY <1>t, <2>1, <2>2 DEF GuardInv
  <1>5. ASSUME NEW i \in Instances, List(i) PROVE GuardInv'
    <2>1. ListTrails'
      <3>1. \A q \in Resources : list'[i][q] = IF q \in Selected(i) THEN cres[q] ELSE Absent
        BY <1>0, <1>5 DEF List, Selected, TypeOK
      <3> QED
        BY <1>0, <3>1, <1>5 DEF List, ListTrails, CacheTrails, Marking, Carries, Absent
    <2>2. WalkOrder'
      <3>1. \A q \in Resources : list'[i][q] = IF q \in Selected(i) THEN cres[q] ELSE Absent
        BY <1>0, <1>5 DEF List, Selected, TypeOK
      <3>2. todo'[i] = Selected(i)
        BY <1>0, <1>5 DEF List, Selected, TypeOK
      <3> QED
        BY <1>0, <3>1, <3>2, <1>5 DEF List, WalkOrder, Keeps, Absent, TypeOK
    <2>3. DeletionIsFinal' /\ AlwaysPrunes' /\ ObjectShape' /\ CacheTrails' /\ FinalizerGuardsDocument'
      BY <1>0, <1>5
         DEF List, AlwaysPrunes, CacheTrails, Carries, DeletionIsFinal,
             FinalizerGuardsDocument, Marking, ObjectShape
    <2> QED
      BY <1>t, <2>1, <2>2, <2>3 DEF GuardInv
  <1>6. ASSUME NEW i \in Instances, EndMark(i) PROVE GuardInv'
    <2>1. WalkOrder'
      BY <1>0, <1>6 DEF EndMark, Listed, WalkOrder, Keeps, TypeOK
    <2>2. DeletionIsFinal' /\ AlwaysPrunes' /\ ObjectShape' /\ CacheTrails' /\ ListTrails' /\ FinalizerGuardsDocument'
      BY <1>0, <1>6
         DEF EndMark, Listed, AlwaysPrunes, CacheTrails, Carries,
             DeletionIsFinal, FinalizerGuardsDocument, ListTrails, Marking,
             ObjectShape
    <2> QED
      BY <1>t, <2>1, <2>2 DEF GuardInv
  <1>7. ASSUME NEW i \in Instances, Release(i) PROVE GuardInv'
    <2>1. ObjectShape'
      BY <1>0, <1>7, ReleaseEffect
    <2>2. CacheTrails'
      <3>1. Marking(i) => snap[i].status = "live" /\ list[i][cur[i]].status = "deleting"
        BY <1>0, <1>7 DEF Release, Marking, PassShape, DeletionIsFinal, Keeps, TypeOK,
                         InstanceObject, ResourceObject, Status
      <3> QED
        BY <1>0, <3>1, <1>7, ReleaseEffect
           DEF Release, CacheTrails, ListTrails, Marking, Carries
    <2>3. ListTrails'
      <3>1. snap[i].status = "live" => list[i][cur[i]].status = "deleting"
        BY <1>0, <1>7 DEF Release, PassShape, Keeps, TypeOK, ResourceObject, Status
      <3> QED
        BY <1>0, <3>1, <1>7, ReleaseEffect DEF Release, ListTrails, Carries
    <2>4. WalkOrder'
      BY <1>0, <1>7, ReleaseEffect DEF Release, WalkOrder, PassShape, Keeps, TypeOK
    <2>5. FinalizerGuardsDocument'
      BY <1>0, <1>7, ReleaseEffect DEF Release, WalkOrder, FinalizerGuardsDocument
    <2>6. DeletionIsFinal' /\ AlwaysPrunes'
      BY <1>0, <1>7
         DEF Release, AlwaysPrunes, DeletionIsFinal
    <2> QED
      BY <1>t, <2>1, <2>2, <2>3, <2>4, <2>5, <2>6 DEF GuardInv
  <1>8. ASSUME NEW i \in Instances, NextKind(i) PROVE GuardInv'
    <2>1. ListTrails'
      BY <1>0, <1>n, <1>8 DEF NextKind, ListTrails, Carries, TypeOK
    <2>2. WalkOrder'
      BY <1>0, <1>n, <1>8 DEF NextKind, WalkOrder, Keeps, TypeOK
    <2>3. DeletionIsFinal' /\ AlwaysPrunes' /\ ObjectShape' /\ CacheTrails' /\ FinalizerGuardsDocument'
      BY <1>0, <1>8
         DEF NextKind, AlwaysPrunes, CacheTrails, Carries, DeletionIsFinal,
             FinalizerGuardsDocument, Marking, ObjectShape
    <2> QED
      BY <1>t, <2>1, <2>2, <2>3 DEF GuardInv
  <1>9. ASSUME NEW i \in Instances, EndWalk(i) PROVE GuardInv'
    <2>1. ListTrails'
      BY <1>0, <1>n, <1>9 DEF EndWalk, LeaveWalk, ListTrails, Carries, TypeOK
    <2>2. WalkOrder'
      BY <1>0, <1>n, <1>9 DEF EndWalk, LeaveWalk, WalkOrder, Keeps, TypeOK
    <2>3. DeletionIsFinal' /\ AlwaysPrunes' /\ ObjectShape' /\ CacheTrails' /\ FinalizerGuardsDocument'
      BY <1>0, <1>9
         DEF EndWalk, LeaveWalk, AlwaysPrunes, CacheTrails, Carries,
             DeletionIsFinal, FinalizerGuardsDocument, Marking, ObjectShape
    <2> QED
      BY <1>t, <2>1, <2>2, <2>3 DEF GuardInv
  <1>10. ASSUME NEW i \in Instances, ReleaseInstance(i) PROVE GuardInv'
    <2>1. DeletionIsFinal'
      BY <1>0, <1>10 DEF ReleaseInstance, EndPass, DeletionIsFinal, TypeOK
    <2>2. AlwaysPrunes'
      BY <1>0, <1>10 DEF ReleaseInstance, EndPass, AlwaysPrunes, TypeOK
    <2>3. CacheTrails'
      BY <1>0, <1>10 DEF ReleaseInstance, EndPass, CacheTrails, Marking, Carries, TypeOK
    <2>4. ListTrails'
      BY <1>0, <1>10 DEF ReleaseInstance, EndPass, ListTrails, Carries, TypeOK
    <2>5. WalkOrder'
      BY <1>0, <1>10 DEF ReleaseInstance, EndPass, WalkOrder, Keeps, TypeOK
    <2>6. ObjectShape' /\ FinalizerGuardsDocument'
      BY <1>0, <1>10 DEF ReleaseInstance, EndPass, FinalizerGuardsDocument, ObjectShape
    <2> QED
      BY <1>t, <2>1, <2>2, <2>3, <2>4, <2>5, <2>6 DEF GuardInv
  <1>11. ASSUME NEW i \in Instances, PublishReady(i) PROVE GuardInv'
    <2>1. DeletionIsFinal'
      BY <1>0, <1>11
         DEF PublishReady, PublishStatus, StatusPatched, EndPass,
             DeletionIsFinal, TypeOK
    <2>2. AlwaysPrunes'
      BY <1>0, <1>11
         DEF PublishReady, PublishStatus, StatusPatched, EndPass, AlwaysPrunes,
             TypeOK
    <2>3. CacheTrails'
      BY <1>0, <1>11
         DEF PublishReady, PublishStatus, StatusPatched, EndPass, CacheTrails,
             Marking, Carries, TypeOK
    <2>4. ListTrails'
      BY <1>0, <1>11
         DEF PublishReady, PublishStatus, StatusPatched, EndPass, ListTrails,
             Carries, TypeOK
    <2>5. WalkOrder'
      BY <1>0, <1>11
         DEF PublishReady, PublishStatus, StatusPatched, EndPass, WalkOrder,
             Keeps, TypeOK
    <2>6. ObjectShape' /\ FinalizerGuardsDocument'
      BY <1>0, <1>11
         DEF PublishReady, PublishStatus, StatusPatched, EndPass,
             FinalizerGuardsDocument, ObjectShape
    <2> QED
      BY <1>t, <2>1, <2>2, <2>3, <2>4, <2>5, <2>6 DEF GuardInv
  <1>12. ASSUME NEW i \in Instances, PublishFailed(i) PROVE GuardInv'
    <2>1. DeletionIsFinal'
      BY <1>0, <1>12
         DEF PublishFailed, PublishStatus, StatusPatched, EndPass,
             DeletionIsFinal, TypeOK
    <2>2. AlwaysPrunes'
      BY <1>0, <1>12
         DEF PublishFailed, PublishStatus, StatusPatched, EndPass,
             AlwaysPrunes, TypeOK
    <2>3. CacheTrails'
      BY <1>0, <1>12
         DEF PublishFailed, PublishStatus, StatusPatched, EndPass, CacheTrails,
             Marking, Carries, TypeOK
    <2>4. ListTrails'
      BY <1>0, <1>12
         DEF PublishFailed, PublishStatus, StatusPatched, EndPass, ListTrails,
             Carries, TypeOK
    <2>5. WalkOrder'
      BY <1>0, <1>12
         DEF PublishFailed, PublishStatus, StatusPatched, EndPass, WalkOrder,
             Keeps, TypeOK
    <2>6. ObjectShape' /\ FinalizerGuardsDocument'
      BY <1>0, <1>12
         DEF PublishFailed, PublishStatus, StatusPatched, EndPass,
             FinalizerGuardsDocument, ObjectShape
    <2> QED
      BY <1>t, <2>1, <2>2, <2>3, <2>4, <2>5, <2>6 DEF GuardInv
  <1>13. ASSUME NEW i \in Instances, FailPass(i) PROVE GuardInv'
    <2>1. ListTrails'
      BY <1>0, <1>n, <1>13
         DEF FailPass, LeaveWalk, RandomFault, ListTrails, Carries, TypeOK
    <2>2. WalkOrder'
      BY <1>0, <1>n, <1>13
         DEF FailPass, LeaveWalk, RandomFault, WalkOrder, Keeps, TypeOK
    <2>3. DeletionIsFinal' /\ AlwaysPrunes' /\ ObjectShape' /\ CacheTrails' /\ FinalizerGuardsDocument'
      BY <1>0, <1>13
         DEF FailPass, LeaveWalk, RandomFault, AlwaysPrunes, CacheTrails,
             Carries, DeletionIsFinal, FinalizerGuardsDocument, Marking,
             ObjectShape
    <2> QED
      BY <1>t, <2>1, <2>2, <2>3 DEF GuardInv
  <1>14. ASSUME NEW i \in Instances, RefuseInstancePatch(i) PROVE GuardInv'
    <2>1. DeletionIsFinal'
      BY <1>0, <1>14 DEF RefuseInstancePatch, EndPass, DeletionIsFinal, TypeOK
    <2>2. AlwaysPrunes'
      BY <1>0, <1>14 DEF RefuseInstancePatch, EndPass, AlwaysPrunes, TypeOK
    <2>3. CacheTrails'
      BY <1>0, <1>14
         DEF RefuseInstancePatch, EndPass, CacheTrails, Marking, Carries,
             TypeOK
    <2>4. ListTrails'
      BY <1>0, <1>14 DEF RefuseInstancePatch, EndPass, ListTrails, Carries, TypeOK
    <2>5. WalkOrder'
      BY <1>0, <1>14 DEF RefuseInstancePatch, EndPass, WalkOrder, Keeps, TypeOK
    <2>6. ObjectShape' /\ FinalizerGuardsDocument'
      BY <1>0, <1>14
         DEF RefuseInstancePatch, EndPass, FinalizerGuardsDocument, ObjectShape
    <2> QED
      BY <1>t, <2>1, <2>2, <2>3, <2>4, <2>5, <2>6 DEF GuardInv
  <1>15. ASSUME NEW i \in Instances, RefusePublish(i) PROVE GuardInv'
    <2>1. DeletionIsFinal'
      BY <1>0, <1>15 DEF RefusePublish, EndPass, DeletionIsFinal, TypeOK
    <2>2. AlwaysPrunes'
      BY <1>0, <1>15 DEF RefusePublish, EndPass, AlwaysPrunes, TypeOK
    <2>3. CacheTrails'
      BY <1>0, <1>15 DEF RefusePublish, EndPass, CacheTrails, Marking, Carries, TypeOK
    <2>4. ListTrails'
      BY <1>0, <1>15 DEF RefusePublish, EndPass, ListTrails, Carries, TypeOK
    <2>5. WalkOrder'
      BY <1>0, <1>15 DEF RefusePublish, EndPass, WalkOrder, Keeps, TypeOK
    <2>6. ObjectShape' /\ FinalizerGuardsDocument'
      BY <1>0, <1>15 DEF RefusePublish, EndPass, FinalizerGuardsDocument, ObjectShape
    <2> QED
      BY <1>t, <2>1, <2>2, <2>3, <2>4, <2>5, <2>6 DEF GuardInv
  <1>16. ASSUME NEW i \in Instances, NEW r \in Resources, Mark(i, r) PROVE GuardInv'
    <2>a. /\ \A q \in Resources : res'[q].status = res[q].status
          /\ \A q \in Resources : i \in res[q].fin => i \in res'[q].fin
          /\ \A q \in Resources :
                i \in res'[q].fin => i \in res[q].fin \/ (q = r /\ list[i][r].status = "live")
          /\ reborn' = reborn \/ (reborn' = reborn \ {r} /\ i \in res'[r].fin)
      BY <1>0, <1>16, MarkEffect
    <2>b. /\ pc[i] = "mark" /\ snap[i].status = "live" /\ todo' = [todo EXCEPT ![i] = @ \ {r}]
          /\ UNCHANGED <<cres, cinst, snap, list, docs, pc, cur>>
      BY <1>0, <1>16 DEF Mark, PassShape
    <2>c. list[i][r].status = "live" => i \in res'[r].fin \/ r \in reborn'
      <3>1. ASSUME list[i][r].status = "live", i \notin res'[r].fin PROVE r \in reborn'
        <4>1. ~FreshReads /\ i \in mres[r].fin /\ res[r].status # "absent" /\ i \notin res[r].fin
          BY <1>0, <1>16, <2>a, <3>1, MarkEffect
        <4>2. res[r].status # "deleting"
          <5>1. res[r].fin \subseteq {i}
            BY <1>0 DEF TypeOK, ResourceObject
          <5> QED
            BY <1>0, <4>1, <5>1 DEF ObjectShape
        <4>3. res[r].status = "live"
          BY <1>0, <4>1, <4>2 DEF TypeOK, ResourceObject, Status
        <4>4. r \in reborn
          BY <1>0, <2>b, <4>1, <4>3 DEF MetaTrails, Marking
        <4> QED
          BY <2>a, <3>1, <4>4
      <3> QED
        BY <3>1
    <2>1. ObjectShape'
      BY <1>0, <1>16, MarkEffect
    <2>2. CacheTrails'
      BY <1>0, <2>a, <2>b DEF CacheTrails, ListTrails, Marking, Carries
    <2>3. ListTrails'
      BY <1>0, <2>a, <2>b DEF ListTrails, Carries
    <2>4. WalkOrder'
      BY <1>0, <2>a, <2>b, <2>c DEF WalkOrder, Keeps, TypeOK
    <2>5. FinalizerGuardsDocument'
      BY <1>0, <2>a, <2>b DEF FinalizerGuardsDocument
    <2>6. DeletionIsFinal' /\ AlwaysPrunes'
      BY <1>0, <1>16 DEF Mark, AlwaysPrunes, DeletionIsFinal
    <2> QED
      BY <1>t, <2>1, <2>2, <2>3, <2>4, <2>5, <2>6 DEF GuardInv
  <1>17. ASSUME NEW i \in Instances, NEW r \in Resources, Sync(i, r) PROVE GuardInv'
    <2>1. WalkOrder'
      BY <1>0, <1>17 DEF Sync, WalkOrder, Keeps, TypeOK
    <2>2. FinalizerGuardsDocument'
      <3>1. docs'[DatabaseOf[i]] = docs[DatabaseOf[i]] \cup {r}
        BY <1>0, <1>17 DEF Sync, TypeOK
      <3>2. (i \in res[r].fin \/ r \in reborn) /\ UNCHANGED <<res, reborn>>
        BY <1>0, <1>17 DEF Sync, WalkOrder
      <3> QED
        BY <1>0, <3>1, <3>2 DEF FinalizerGuardsDocument
    <2>3. DeletionIsFinal' /\ AlwaysPrunes' /\ ObjectShape' /\ CacheTrails' /\ ListTrails'
      BY <1>0, <1>17
         DEF Sync, AlwaysPrunes, CacheTrails, Carries, DeletionIsFinal,
             ListTrails, Marking, ObjectShape
    <2> QED
      BY <1>t, <2>1, <2>2, <2>3 DEF GuardInv
  <1>18. ASSUME NEW i \in Instances, NEW r \in Resources, Prune(i, r) PROVE GuardInv'
    <2>1. WalkOrder'
      <3>1. snap[i].prune
        BY <1>0, <1>18 DEF Prune, PassShape, AlwaysPrunes
      <3>2. docs'[DatabaseOf[i]] = docs[DatabaseOf[i]] \ {r}
        BY <1>0, <3>1, <1>18 DEF Prune, TypeOK
      <3>3. /\ pc[i] = "apply" /\ pc'[i] = "release" /\ cur'[i] = r
            /\ UNCHANGED <<todo, list, snap, res, reborn>>
        BY <1>0, <1>18 DEF Prune, TypeOK
      <3> QED
        BY <1>0, <3>2, <3>3 DEF WalkOrder, Keeps
    <2>2. FinalizerGuardsDocument'
      BY <1>0, <1>18 DEF Prune, FinalizerGuardsDocument, TypeOK
    <2>3. DeletionIsFinal' /\ AlwaysPrunes' /\ ObjectShape' /\ CacheTrails' /\ ListTrails'
      BY <1>0, <1>18
         DEF Prune, AlwaysPrunes, CacheTrails, Carries, DeletionIsFinal,
             ListTrails, Marking, ObjectShape
    <2> QED
      BY <1>t, <2>1, <2>2, <2>3 DEF GuardInv
  <1>19. ASSUME NEW i \in Instances, NEW o \in Orgs, NextOrg(i, o) PROVE GuardInv'
    <2>1. ListTrails'
      BY <1>0, <1>n, <1>19 DEF NextOrg, ListTrails, Carries, TypeOK
    <2>2. WalkOrder'
      BY <1>0, <1>n, <1>19 DEF NextOrg, WalkOrder, Keeps, TypeOK
    <2>3. DeletionIsFinal' /\ AlwaysPrunes' /\ ObjectShape' /\ CacheTrails' /\ FinalizerGuardsDocument'
      BY <1>0, <1>19
         DEF NextOrg, AlwaysPrunes, CacheTrails, Carries, DeletionIsFinal,
             FinalizerGuardsDocument, Marking, ObjectShape
    <2> QED
      BY <1>t, <2>1, <2>2, <2>3 DEF GuardInv
  <1>20. ASSUME NEW i \in Instances, WatchInstance(i) PROVE GuardInv'
    <2>1. DeletionIsFinal'
      BY <1>0, <1>20 DEF WatchInstance, DeletionIsFinal, TypeOK
    <2>2. AlwaysPrunes'
      BY <1>0, <1>20 DEF WatchInstance, AlwaysPrunes, TypeOK
    <2>3. CacheTrails'
      BY <1>0, <1>20
         DEF WatchInstance, CacheTrails, Marking, Carries, DeletionIsFinal,
             TypeOK
    <2>4. ObjectShape' /\ ListTrails' /\ WalkOrder' /\ FinalizerGuardsDocument'
      BY <1>0, <1>20
         DEF WatchInstance, Carries, FinalizerGuardsDocument, Keeps,
             ListTrails, ObjectShape, PassShape, WalkOrder
    <2> QED
      BY <1>t, <2>1, <2>2, <2>3, <2>4 DEF GuardInv
  <1>21. ASSUME NEW r \in Resources, WatchResource(r) PROVE GuardInv'
    <2>1. CacheTrails'
      BY <1>0, <1>21 DEF WatchResource, CacheTrails, Marking, Carries, TypeOK
    <2>2. ListTrails'
      BY <1>0, <1>21 DEF WatchResource, ListTrails, Carries, TypeOK
    <2>3. DeletionIsFinal' /\ AlwaysPrunes' /\ ObjectShape' /\ WalkOrder' /\ FinalizerGuardsDocument'
      BY <1>0, <1>21
         DEF WatchResource, AlwaysPrunes, DeletionIsFinal,
             FinalizerGuardsDocument, Keeps, ObjectShape, PassShape, WalkOrder
    <2> QED
      BY <1>t, <2>1, <2>2, <2>3 DEF GuardInv
  <1>22. CASE Restart
    <2>1. DeletionIsFinal'
      BY <1>0, <1>22 DEF Restart, DeletionIsFinal, TypeOK
    <2>2. AlwaysPrunes'
      BY <1>0, <1>22 DEF Restart, AlwaysPrunes, TypeOK
    <2>3. CacheTrails'
      BY <1>0, <1>22 DEF Restart, CacheTrails, Marking, Carries, TypeOK
    <2>4. ListTrails'
      BY <1>0, <1>n, <1>22 DEF Restart, ListTrails, Carries, TypeOK
    <2>5. WalkOrder'
      BY <1>0, <1>n, <1>22 DEF Restart, WalkOrder, Keeps, TypeOK
    <2>6. ObjectShape' /\ FinalizerGuardsDocument'
      BY <1>0, <1>22 DEF Restart, FinalizerGuardsDocument, ObjectShape
    <2> QED
      BY <1>t, <2>1, <2>2, <2>3, <2>4, <2>5, <2>6 DEF GuardInv
  <1>23. ASSUME NEW r \in Resources, CreateResource(r) PROVE GuardInv'
    <2>a. /\ \A q \in Resources : res'[q].fin = res[q].fin
          /\ \A q \in Resources : res'[q].status # res[q].status =>
                res[q].status = "absent" /\ res'[q].status = "live"
          /\ reborn \subseteq reborn'
      BY <1>0, <1>23, CreateEffect
    <2>b. /\ \A q \in Resources : res[q].status = "absent" => res[q].fin = {}
          /\ UNCHANGED <<cres, cinst, snap, list, docs, pc, cur, todo>>
      BY <1>0, <1>23 DEF CreateResource, ObjectShape
    <2>1. ObjectShape'
      BY <1>0, <1>23, CreateEffect DEF ObjectShape
    <2>2. CacheTrails'
      BY <1>0, <2>a, <2>b DEF CacheTrails, ListTrails, Marking, Carries
    <2>3. ListTrails'
      BY <1>0, <2>a, <2>b DEF ListTrails, Carries
    <2>4. WalkOrder'
      BY <1>0, <2>a, <2>b DEF WalkOrder, Keeps
    <2>5. FinalizerGuardsDocument'
      BY <1>0, <2>a, <2>b DEF FinalizerGuardsDocument
    <2>6. DeletionIsFinal' /\ AlwaysPrunes'
      BY <1>0, <1>23
         DEF CreateResource, Fresh, AlwaysPrunes, DeletionIsFinal, Keeps,
             PassShape
    <2> QED
      BY <1>t, <2>1, <2>2, <2>3, <2>4, <2>5, <2>6 DEF GuardInv
  <1>24. ASSUME NEW r \in Resources, DeleteResource(r) PROVE GuardInv'
    <2>1. ObjectShape'
      BY <1>0, <1>24 DEF DeleteResource, Absent, ObjectShape, TypeOK
    <2>2. CacheTrails'
      BY <1>0, <1>24 DEF DeleteResource, Absent, CacheTrails, Marking, Carries, TypeOK
    <2>3. ListTrails'
      BY <1>0, <1>24 DEF DeleteResource, Absent, ListTrails, Carries, TypeOK
    <2>4. WalkOrder'
      BY <1>0, <1>24 DEF DeleteResource, Absent, WalkOrder, Keeps, TypeOK
    <2>5. FinalizerGuardsDocument'
      BY <1>0, <1>24 DEF DeleteResource, Absent, FinalizerGuardsDocument, TypeOK
    <2>6. DeletionIsFinal' /\ AlwaysPrunes'
      BY <1>0, <1>24
         DEF DeleteResource, Absent, AlwaysPrunes, DeletionIsFinal, Keeps,
             PassShape
    <2> QED
      BY <1>t, <2>1, <2>2, <2>3, <2>4, <2>5, <2>6 DEF GuardInv
  <1>25. ASSUME NEW r \in Resources, Relabel(r) PROVE GuardInv'
    <2>1. ObjectShape'
      BY <1>0, <1>25 DEF Relabel, ObjectShape, TypeOK
    <2>2. CacheTrails'
      BY <1>0, <1>25 DEF Relabel, CacheTrails, Marking, Carries, TypeOK
    <2>3. ListTrails'
      BY <1>0, <1>25 DEF Relabel, ListTrails, Carries, TypeOK
    <2>4. WalkOrder'
      BY <1>0, <1>25 DEF Relabel, WalkOrder, Keeps, TypeOK
    <2>5. FinalizerGuardsDocument'
      BY <1>0, <1>25 DEF Relabel, FinalizerGuardsDocument, TypeOK
    <2>6. DeletionIsFinal' /\ AlwaysPrunes'
      BY <1>0, <1>25 DEF Relabel, AlwaysPrunes, DeletionIsFinal, Keeps, PassShape
    <2> QED
      BY <1>t, <2>1, <2>2, <2>3, <2>4, <2>5, <2>6 DEF GuardInv
  <1>26. ASSUME NEW i \in Instances, EditInstance(i) PROVE GuardInv'
    <2>1. DeletionIsFinal'
      BY <1>0, <1>26 DEF EditInstance, DeletionIsFinal, TypeOK
    <2>2. AlwaysPrunes'
      BY <1>0, <1>26 DEF EditInstance, AlwaysPrunes, TypeOK
    <2>3. ObjectShape' /\ CacheTrails' /\ ListTrails' /\ WalkOrder' /\ FinalizerGuardsDocument'
      BY <1>0, <1>26
         DEF EditInstance, CacheTrails, Carries, FinalizerGuardsDocument,
             Keeps, ListTrails, Marking, ObjectShape, PassShape, WalkOrder
    <2> QED
      BY <1>t, <2>1, <2>2, <2>3 DEF GuardInv
  <1>27. ASSUME NEW i \in Instances, DeleteInstance(i) PROVE GuardInv'
    <2>1. DeletionIsFinal'
      BY <1>0, <1>27 DEF DeleteInstance, DeletionIsFinal, TypeOK
    <2>2. AlwaysPrunes'
      BY <1>0, <1>27 DEF DeleteInstance, AlwaysPrunes, TypeOK
    <2>3. ObjectShape' /\ CacheTrails' /\ ListTrails' /\ WalkOrder' /\ FinalizerGuardsDocument'
      BY <1>0, <1>27
         DEF DeleteInstance, CacheTrails, Carries, FinalizerGuardsDocument,
             Keeps, ListTrails, Marking, ObjectShape, PassShape, WalkOrder
    <2> QED
      BY <1>t, <2>1, <2>2, <2>3 DEF GuardInv
  <1>28. ASSUME NEW x \in Secrets, ChangeSecret(x) PROVE GuardInv'
    <2>1. DeletionIsFinal' /\ AlwaysPrunes' /\ ObjectShape' /\ CacheTrails' /\ ListTrails' /\ WalkOrder' /\ FinalizerGuardsDocument'
      BY <1>0, <1>28
         DEF ChangeSecret, AlwaysPrunes, CacheTrails, Carries, DeletionIsFinal,
             FinalizerGuardsDocument, Keeps, ListTrails, Marking, ObjectShape,
             PassShape, WalkOrder
    <2> QED
      BY <1>t, <2>1 DEF GuardInv
  <1>29. CASE UNCHANGED vars
    BY <1>0, <1>t, <1>29
       DEF vars, GuardInv, PassShape, Keeps, DeletionIsFinal, AlwaysPrunes,
           ObjectShape, CacheTrails, Marking, Carries, ListTrails, WalkOrder,
           FinalizerGuardsDocument
  <1>30. ASSUME NEW r \in Resources, WatchMetadata(r) PROVE GuardInv'
    <2>1. DeletionIsFinal' /\ AlwaysPrunes' /\ ObjectShape' /\ CacheTrails' /\ ListTrails' /\ WalkOrder' /\ FinalizerGuardsDocument'
      BY <1>0, <1>30
         DEF WatchMetadata, AlwaysPrunes, CacheTrails, Carries, DeletionIsFinal,
             FinalizerGuardsDocument, Keeps, ListTrails, Marking, ObjectShape,
             PassShape, WalkOrder
    <2> QED
      BY <1>t, <2>1 DEF GuardInv
  <1> QED
    BY <1>1, <1>2, <1>3, <1>4, <1>5, <1>6, <1>7, <1>8, <1>9, <1>10, <1>11, <1>12,
       <1>13, <1>14, <1>15, <1>16, <1>17, <1>18, <1>19, <1>20, <1>21, <1>22, <1>23,
       <1>24, <1>25, <1>26, <1>27, <1>28, <1>29, <1>30
       DEF Next, Work, UserStep

\* For an instance that prunes, with resources and a database of its own: an
\* object cannot leave the API server before its document has left the database,
\* for any number of objects, any edits, caches as late as can be, any failing
\* call and any restart, unless it was created anew while the metadata cache
\* still had finalizers of its predecessor.
THEOREM DocumentsGuarded ==
    ASSUME NEW a, Instances = {a}, PruneValues = {TRUE}
    PROVE  Spec => []FinalizerGuardsDocument
  <1>1. Init => GuardInv
    BY GuardInit
  <1>2. GuardInv /\ [Next]_vars => GuardInv'
    BY GuardNext
  <1>3. GuardInv => FinalizerGuardsDocument
    BY DEF GuardInv
  <1> QED
    BY <1>1, <1>2, <1>3, PTL DEF Spec

\* The only step that takes a document away is Prune, and what it prunes is no
\* longer live although the pass goes by what it listed some time ago.
LEMMA PruneStep ==
    ASSUME NEW a, Instances = {a}, GuardInv, [Next]_vars,
           NEW i \in Instances, NEW r \in Resources,
           r \in docs[DatabaseOf[i]], r \notin docs[DatabaseOf[i]]'
    PROVE  ~Live(r) \/ inst[i].status # "live"
  <1> USE ConstantsAssumption DEF ToStep, apiVars, cacheVars, walkVars, workerVars,
          budgetVars, controllerVars
  <1>1. PICK q \in Resources : Prune(i, q)
    <2>1. docs' # docs
      OBVIOUS
    <2>2. \A j \in Instances, q \in Resources : ~Sync(j, q)
      BY DEF Sync, GuardInv, TypeOK
    <2>3. \A j \in Instances :
            ~(\/ SkipPass(j) \/ BeginPass(j) \/ AddInstanceFinalizer(j) \/ Connect(j)
              \/ List(j) \/ EndMark(j) \/ Release(j) \/ NextKind(j) \/ EndWalk(j)
              \/ ReleaseInstance(j) \/ PublishReady(j) \/ PublishFailed(j) \/ FailPass(j)
              \/ RefuseInstancePatch(j) \/ RefusePublish(j) \/ WatchInstance(j)
              \/ EditInstance(j) \/ DeleteInstance(j))
      BY <2>1 DEF SkipPass, BeginPass, AddInstanceFinalizer, Connect, List, EndMark,
                  Release, NextKind, EndWalk, ReleaseInstance, PublishReady,
                  PublishFailed, PublishStatus, FailPass, RefuseInstancePatch,
                  RefusePublish, WatchInstance, EditInstance, DeleteInstance
    <2>4. /\ \A j \in Instances, q \in Resources : ~Mark(j, q)
          /\ \A j \in Instances, o \in Orgs : ~NextOrg(j, o)
      BY <2>1 DEF Mark, NextOrg
    <2>5. /\ ~Restart /\ \A x \in Secrets : ~ChangeSecret(x)
          /\ \A q \in Resources : /\ ~WatchResource(q) /\ ~WatchMetadata(q)
                                  /\ ~CreateResource(q)
                                  /\ ~DeleteResource(q) /\ ~Relabel(q)
      BY <2>1 DEF Restart, ChangeSecret, WatchResource, WatchMetadata, CreateResource,
                  DeleteResource, Relabel
    <2>6. Next
      BY <2>1 DEF vars
    <2>7. Work(i)
      BY <2>3, <2>5, <2>6 DEF Next, UserStep
    <2>8. (\E q \in Resources : Mark(i, q) \/ Sync(i, q) \/ Prune(i, q))
            \/ \E o \in Orgs : NextOrg(i, o)
      BY <2>3, <2>7 DEF Work
    <2> QED
      BY <2>2, <2>4, <2>8
  <1>2. q = r /\ pc[i] = "apply" /\ ~Keeps(i, r) /\ list[i][r].status # "absent"
    BY <1>1 DEF Prune, GuardInv, TypeOK, PassShape
  <1>3. CASE snap[i].status = "live"
    <2>1. list[i][r].status = "deleting"
      BY <1>2, <1>3 DEF Keeps, GuardInv, TypeOK, ResourceObject, Status
    <2> QED
      BY <2>1 DEF GuardInv, PrunedBefore, Live
  <1>4. CASE snap[i].status # "live"
    <2>1. snap[i].status = "deleting"
      BY <1>2, <1>4 DEF GuardInv, PassShape, TypeOK, InstanceObject, Status
    <2> QED
      BY <2>1 DEF GuardInv, DeletionIsFinal
  <1> QED
    BY <1>3, <1>4

\* A pass never takes the document of a live object of a live instance away,
\* although it decides on a version of both that may be out of date.
THEOREM LiveDocumentsKept ==
    ASSUME NEW a, Instances = {a}, PruneValues = {TRUE}
    PROVE  Spec => NoLiveDocumentPruned
  <1>1. Init => GuardInv
    BY GuardInit
  <1>2. GuardInv /\ [Next]_vars => GuardInv'
    BY GuardNext
  <1>3. GuardInv /\ [Next]_vars =>
          [\A i \in Instances, r \in Resources :
             r \in docs[DatabaseOf[i]] /\ r \notin docs[DatabaseOf[i]]'
                => ~Live(r) \/ inst[i].status # "live"]_vars
    BY PruneStep
  <1> QED
    BY <1>1, <1>2, <1>3, PTL DEF Spec, NoLiveDocumentPruned

-----------------------------------------------------------------------------
(* The reconciler implements GuardedDocument.                              *)

\* What a step does to what the abstract specification sees of it: it changes
\* the status of objects, or of instances, or the documents, never two of them.
StatusStep ==
    /\ UNCHANGED <<inst, docs>>
    /\ \A q \in Resources : res'[q].status # res[q].status =>
          \/ res'[q].status = "absent" /\ (q \in reborn' => q \in reborn)
          \/ res[q].status = "absent" /\ res'[q].status = "live"
          \/ res[q].status = "live" /\ res'[q].status = "deleting"

InstanceStep ==
    /\ UNCHANGED <<res, docs>>
    /\ \A j \in Instances : inst'[j].status = "live" => inst[j].status = "live"

LEMMA StepKinds ==
    ASSUME GuardInv, [Next]_vars
    PROVE  StatusStep \/ InstanceStep \/ UNCHANGED <<inst, res, reborn>>
  <1> USE ConstantsAssumption DEF ToStep, apiVars, cacheVars, walkVars, workerVars,
          budgetVars, controllerVars
  <1>0. UNCHANGED <<inst, res, docs>> => InstanceStep
    BY DEF InstanceStep
  <1>t. TypeOK /\ PassShape /\ ObjectShape /\ ListTrails
    BY DEF GuardInv
  <1>1. ASSUME NEW j \in Instances,
               \/ SkipPass(j) \/ BeginPass(j) \/ Connect(j) \/ List(j) \/ EndMark(j)
               \/ NextKind(j) \/ EndWalk(j) \/ FailPass(j) \/ RefuseInstancePatch(j)
               \/ RefusePublish(j) \/ WatchInstance(j)
        PROVE  UNCHANGED <<inst, res, docs>>
    BY <1>1 DEF SkipPass, BeginPass, Connect, List, EndMark, NextKind, EndWalk, FailPass,
                RefuseInstancePatch, RefusePublish, WatchInstance
  <1>2. ASSUME NEW j \in Instances, NEW o \in Orgs, NextOrg(j, o)
        PROVE  UNCHANGED <<inst, res, docs>>
    BY <1>2 DEF NextOrg
  <1>3. ASSUME NEW q \in Resources, WatchResource(q) \/ WatchMetadata(q)
        PROVE  UNCHANGED <<inst, res, docs>>
    BY <1>3 DEF WatchResource, WatchMetadata
  <1>4. ASSUME NEW x \in Secrets, ChangeSecret(x) PROVE UNCHANGED <<inst, res, docs>>
    BY <1>4 DEF ChangeSecret
  <1>5. CASE Restart
    BY <1>0, <1>5 DEF Restart
  <1>6. ASSUME NEW j \in Instances, AddInstanceFinalizer(j) PROVE InstanceStep
    <2>1. inst[j] \in InstanceObject /\ inst \in [Instances -> InstanceObject]
      BY <1>t DEF TypeOK
    <2>2. \A k \in Instances : inst'[k].status = inst[k].status
      <3>1. CASE UNCHANGED inst
        BY <3>1
      <3>2. CASE inst' = [inst EXCEPT ![j].fin = @ \/ ~snap[j].fin]
        BY <2>1, <3>2 DEF InstanceObject
      <3> QED
        BY <1>6, <3>1, <3>2 DEF AddInstanceFinalizer
    <2> QED
      BY <1>6, <2>2 DEF AddInstanceFinalizer, InstanceStep
  <1>7. ASSUME NEW j \in Instances, ReleaseInstance(j) PROVE InstanceStep
    <2>1. inst' = [inst EXCEPT ![j] = NoInstance] \/ UNCHANGED inst
      BY <1>7 DEF ReleaseInstance
    <2>2. NoInstance.status = "absent" /\ inst \in [Instances -> InstanceObject]
      BY <1>t DEF NoInstance, TypeOK
    <2>3. \A k \in Instances : inst'[k].status = "live" => inst[k].status = "live"
      BY <2>1, <2>2
    <2> QED
      BY <1>7, <2>3 DEF ReleaseInstance, InstanceStep
  <1>8. ASSUME NEW j \in Instances, NEW ready \in {"True", "False"}, PublishStatus(j, ready)
        PROVE  InstanceStep
    <2>1. \A k \in Instances \ {j} : inst'[k] = inst[k]
      BY <1>t, <1>8 DEF PublishStatus, TypeOK
    <2>2. inst[j] \in InstanceObject
      BY <1>t DEF TypeOK
    <2>3. inst'[j] = StatusPatched(inst[j], snap[j], ready, catalog[j])
      BY <1>t, <1>8 DEF PublishStatus, TypeOK
    <2>4. inst'[j].status = inst[j].status
      BY <2>2, <2>3 DEF StatusPatched, InstanceObject
    <2> QED
      BY <1>8, <2>1, <2>4 DEF PublishStatus, InstanceStep
  <1>9. ASSUME NEW j \in Instances, PublishReady(j) \/ PublishFailed(j) PROVE InstanceStep
    BY <1>8, <1>9 DEF PublishReady, PublishFailed
  <1>10. ASSUME NEW j \in Instances, EditInstance(j) PROVE InstanceStep
    <2>1. PICK p \in PruneValues, s \in SuspendValues :
            inst' = [inst EXCEPT ![j].prune = p, ![j].suspend = s, ![j].gen = @ + 1]
      BY <1>10, Zenon DEF EditInstance
    <2>2. inst[j] \in InstanceObject /\ inst \in [Instances -> InstanceObject]
      BY <1>t DEF TypeOK
    <2>3. \A k \in Instances : inst'[k].status = inst[k].status
      BY <2>1, <2>2 DEF InstanceObject
    <2> QED
      BY <1>10, <2>3 DEF EditInstance, InstanceStep
  <1>11. ASSUME NEW j \in Instances, DeleteInstance(j) PROVE InstanceStep
    <2>1. \A k \in Instances \ {j} : inst'[k] = inst[k]
      BY <1>t, <1>11 DEF DeleteInstance, TypeOK
    <2> QED
      BY <1>t, <1>11, <2>1 DEF DeleteInstance, InstanceStep
  <1>12. ASSUME NEW j \in Instances, NEW q \in Resources, Mark(j, q) PROVE StatusStep
    BY <1>t, <1>12, MarkEffect DEF StatusStep, Mark
  <1>13. ASSUME NEW j \in Instances, Release(j) PROVE StatusStep
    BY <1>t, <1>13, ReleaseEffect DEF StatusStep, Release
  <1>14. ASSUME NEW q \in Resources, CreateResource(q) PROVE StatusStep
    BY <1>t, <1>14, CreateEffect DEF StatusStep, CreateResource
  <1>15. ASSUME NEW q \in Resources, DeleteResource(q) PROVE StatusStep
    <2>1. \A p \in Resources \ {q} : res'[p] = res[p]
      BY <1>t, <1>15 DEF DeleteResource, TypeOK
    <2>2. res[q] \in ResourceObject /\ res[q].status = "live"
      BY <1>t, <1>15 DEF DeleteResource, TypeOK
    <2>3. res'[q] = IF res[q].fin = {} THEN Absent ELSE [res[q] EXCEPT !.status = "deleting"]
      BY <1>t, <1>15 DEF DeleteResource, TypeOK
    <2>4. res'[q].status \in {"absent", "deleting"}
      BY <2>2, <2>3 DEF Absent, ResourceObject
    <2> QED
      BY <1>15, <2>1, <2>2, <2>4 DEF DeleteResource, StatusStep
  <1>16. ASSUME NEW q \in Resources, Relabel(q) PROVE StatusStep
    <2>1. PICK l \in LabelsOf[q] : res' = [res EXCEPT ![q].inst = l.inst, ![q].org = l.org]
      BY <1>16 DEF Relabel
    <2> QED
      BY <1>t, <1>16, <2>1 DEF Relabel, StatusStep, TypeOK, ResourceObject
  <1>17. ASSUME NEW j \in Instances, NEW q \in Resources, Sync(j, q) \/ Prune(j, q)
         PROVE  UNCHANGED <<inst, res, reborn>>
    BY <1>17 DEF Sync, Prune
  <1>18. CASE UNCHANGED vars
    BY <1>0, <1>18 DEF vars
  <1> QED
    BY <1>0, <1>1, <1>2, <1>3, <1>4, <1>5, <1>6, <1>7, <1>9, <1>10, <1>11, <1>12, <1>13,
       <1>14, <1>15, <1>16, <1>17, <1>18 DEF Next, Work, UserStep

LEMMA GuardedStep ==
    ASSUME NEW a, Instances = {a}, GuardInv, GuardInv', [Next]_vars,
           NEW i \in Instances, NEW r \in Resources, r \notin reborn
    PROVE  Guarded(i, r)!Next \/ UNCHANGED Guarded(i, r)!vars
  <1> DEFINE present == r \in docs[DatabaseOf[i]]
             kept == inst[i].status = "live"
  <1>1. /\ present => res[r].status # "absent" /\ i \in res[r].fin
        /\ present' /\ r \notin reborn' => res'[r].status # "absent"
    BY DEF GuardInv, FinalizerGuardsDocument, ObjectShape
  <1>2. res[r].status \in {"absent", "live", "deleting"}
    BY DEF GuardInv, TypeOK, ResourceObject, Status
  <1>3. CASE StatusStep
    <2>1. kept' = kept /\ present' = present
      BY <1>3 DEF StatusStep
    <2>2. CASE res'[r].status = res[r].status
      BY <2>1, <2>2 DEF Guarded!vars
    <2>3. CASE /\ res'[r].status = "absent" /\ res[r].status # "absent"
               /\ r \notin reborn'
      <3>1. Guarded(i, r)!Leave
        BY <1>1, <2>1, <2>3 DEF Guarded!Leave
      <3> QED
        BY <3>1 DEF Guarded!Next
    <2>4. CASE res[r].status = "absent" /\ res'[r].status = "live"
      <3>1. Guarded(i, r)!Create
        BY <2>1, <2>4 DEF Guarded!Create
      <3> QED
        BY <3>1 DEF Guarded!Next
    <2>5. CASE res[r].status = "live" /\ res'[r].status = "deleting"
      <3>1. Guarded(i, r)!Delete
        BY <2>1, <2>5 DEF Guarded!Delete
      <3> QED
        BY <3>1 DEF Guarded!Next
    <2> QED
      BY <1>3, <2>2, <2>3, <2>4, <2>5 DEF StatusStep
  <1>4. CASE InstanceStep
    <2>1. res'[r].status = res[r].status /\ present' = present /\ (kept' => kept)
      BY <1>4 DEF InstanceStep
    <2>2. CASE kept' = kept
      BY <2>1, <2>2 DEF Guarded!vars
    <2>3. CASE kept /\ ~kept'
      <3>1. Guarded(i, r)!Abandon
        BY <2>1, <2>3 DEF Guarded!Abandon
      <3> QED
        BY <3>1 DEF Guarded!Next
    <2> QED
      BY <2>1, <2>2, <2>3
  <1>5. CASE UNCHANGED <<inst, res, reborn>>
    <2>1. res'[r].status = res[r].status /\ kept' = kept /\ r \notin reborn'
      BY <1>5
    <2>2. CASE present' = present
      BY <2>1, <2>2 DEF Guarded!vars
    <2>3. CASE present' /\ ~present
      <3>1. Guarded(i, r)!Write
        BY <1>1, <2>1, <2>3 DEF Guarded!Write
      <3> QED
        BY <3>1 DEF Guarded!Next
    <2>4. CASE present /\ ~present'
      <3>1. ~Live(r) \/ inst[i].status # "live"
        BY <2>4, PruneStep
      <3>2. Guarded(i, r)!Remove
        BY <1>1, <1>2, <2>1, <2>4, <3>1 DEF Guarded!Remove, Live
      <3> QED
        BY <3>2 DEF Guarded!Next
    <2> QED
      BY <2>2, <2>3, <2>4
  <1> QED
    BY <1>3, <1>4, <1>5, StepKinds

\* The finalizers, the cache and the two loops of a pass amount to the promise
\* of GuardedDocument, for every object of an instance that prunes and shares
\* nothing with another one, unless the object was created anew behind the
\* metadata cache.
THEOREM ReconcilerImplementsGuardedDocument ==
    ASSUME NEW a, Instances = {a}, PruneValues = {TRUE}
    PROVE  Spec => ImplementsGuardedDocument
  <1>1. Init => GuardInv
    BY GuardInit
  <1>2. GuardInv /\ [Next]_vars => GuardInv'
    BY GuardNext
  <1>3. ASSUME Init, NEW i \in Instances, NEW r \in Resources PROVE Guarded(i, r)!Init
    <2>1. inst[i].status = "live"
      BY <1>3, InitInstances
    <2>2. r \notin docs[DatabaseOf[i]]
      BY <1>3, ConstantsAssumption DEF Init
    <2>3. res[r].status \in {"absent", "live"}
      BY <1>3, ConstantsAssumption DEF Init, Absent, Fresh
    <2> QED
      BY <2>1, <2>2, <2>3 DEF Guarded!Init
  <1>4. GuardInv /\ GuardInv' /\ [Next]_vars =>
          [\A i \in Instances, r \in Resources :
             r \in reborn \/ Guarded(i, r)!Next \/ UNCHANGED Guarded(i, r)!vars]_vars
    BY GuardedStep
  <1>5. Init => \A i \in Instances, r \in Resources : Guarded(i, r)!Init
    BY <1>3
  <1> QED
    BY <1>1, <1>2, <1>4, <1>5, PTL DEF Spec, ImplementsGuardedDocument

-----------------------------------------------------------------------------
(* Labels, the cache, and where a walk is: what the modules that build on  *)
(* this one have in common.                                                *)

LabelsOfObject(obj) == [inst |-> obj.inst, org |-> obj.org]

\* Objects have labels that users may give to them.
KnownLabels ==
    \A r \in Resources :
        /\ res[r].status # "absent" => LabelsOfObject(res[r]) \in LabelsOf[r]
        /\ cres[r].status # "absent" => LabelsOfObject(cres[r]) \in LabelsOf[r]
        /\ \A i \in Instances :
              list[i][r].status # "absent" => LabelsOfObject(list[i][r]) \in LabelsOf[r]

\* A patch leaves the labels.
LEMMA PatchedLabels ==
    ASSUME NEW obj \in ResourceObject, NEW fin, Patched(obj, fin).status # "absent"
    PROVE  Patched(obj, fin).inst = obj.inst /\ Patched(obj, fin).org = obj.org
  BY DEF Patched, Absent, ResourceObject

LEMMA LabelsInit ==
    ASSUME Init
    PROVE  KnownLabels /\ \A r \in Resources : res[r].fin = {} /\ res[r].status # "deleting"
  <1>1. cres = res /\ \A i \in Instances : list[i] = NothingListed
    BY DEF Init
  <1>2. \A r \in Resources : res[r] = Absent \/ \E l \in LabelsOf[r] : res[r] = Fresh(l)
    <2>1. \A r \in Resources : res[r] \in {Absent} \cup {Fresh(l) : l \in LabelsOf[r]}
      BY DEF Init
    <2> QED
      BY <2>1
  <1>3. ASSUME NEW r \in Resources
        PROVE  /\ res[r].fin = {} /\ res[r].status # "deleting"
               /\ res[r].status # "absent" => LabelsOfObject(res[r]) \in LabelsOf[r]
    <2>1. CASE res[r] = Absent
      BY <2>1 DEF Absent
    <2>2. ASSUME NEW l \in LabelsOf[r], res[r] = Fresh(l)
          PROVE  /\ res[r].fin = {} /\ res[r].status # "deleting"
                 /\ LabelsOfObject(res[r]) \in LabelsOf[r]
      <3>1. l \in Labels
        BY ConstantsAssumption
      <3>2. LabelsOfObject(Fresh(l)) = l
        BY <3>1 DEF LabelsOfObject, Fresh, Labels
      <3> QED
        BY <2>2, <3>2 DEF Fresh
    <2> QED
      BY <1>2, <2>1, <2>2
  <1>n. \A r \in Resources : NothingListed[r].status = "absent"
    BY DEF NothingListed, Absent
  <1> QED
    BY <1>1, <1>3, <1>n DEF KnownLabels

\* A step gives an object no other labels than users may give to it.
LEMMA LabelEffect ==
    ASSUME TypeOK, PassShape, KnownLabels, [Next]_vars,
           NEW q \in Resources, res'[q].status # "absent"
    PROVE  LabelsOfObject(res'[q]) \in LabelsOf[q]
  <1> USE ConstantsAssumption DEF apiVars, controllerVars
  <1>t. res \in [Resources -> ResourceObject] /\ res[q] \in ResourceObject
    BY DEF TypeOK
  <1>0. ASSUME res'[q].inst = res[q].inst, res'[q].org = res[q].org, res[q].status # "absent"
        PROVE  LabelsOfObject(res'[q]) \in LabelsOf[q]
    BY <1>0 DEF KnownLabels, LabelsOfObject
  <1>1. ASSUME NEW r \in Resources, NEW fin, Acceptable(res[r], fin),
               res' = [res EXCEPT ![r] = Patched(@, fin)]
        PROVE  LabelsOfObject(res'[q]) \in LabelsOf[q]
    <2>1. CASE r = q
      <3>1. res'[q] = Patched(res[q], fin)
        BY <1>t, <1>1, <2>1
      <3>2. res[q].status # "absent"
        BY <1>1, <2>1 DEF Acceptable
      <3> QED
        BY <1>0, <1>t, <3>1, <3>2, PatchedLabels
    <2>2. CASE r # q
      BY <1>0, <1>t, <1>1, <2>2
    <2> QED
      BY <2>1, <2>2
  <1>2. ASSUME UNCHANGED res PROVE LabelsOfObject(res'[q]) \in LabelsOf[q]
    BY <1>0, <1>2
  <1>3. ASSUME NEW j \in Instances, NEW r \in Resources, Mark(j, r)
        PROVE  LabelsOfObject(res'[q]) \in LabelsOf[q]
    BY <1>1, <1>2, <1>3 DEF Mark
  <1>4. ASSUME NEW j \in Instances, Release(j) PROVE LabelsOfObject(res'[q]) \in LabelsOf[q]
    <2> DEFINE r == cur[j]
               fin == Landed(Latest(r, list[j][r]), res[r], WithoutFinalizer(j, list[j][r]))
    <2>1. r \in Resources
      BY <1>4 DEF Release, PassShape
    <2>2. Acceptable(res[r], fin) /\ res' = [res EXCEPT ![r] = Patched(@, fin)]
      BY <1>4 DEF Release
    <2> QED
      BY <1>1, <2>1, <2>2
  <1>5. ASSUME NEW r \in Resources, CreateResource(r) PROVE LabelsOfObject(res'[q]) \in LabelsOf[q]
    <2>1. PICK l \in LabelsOf[r] : res' = [res EXCEPT ![r] = Fresh(l)]
      BY <1>5 DEF CreateResource
    <2>2. l \in Labels
      OBVIOUS
    <2>3. LabelsOfObject(Fresh(l)) = l
      BY <2>2 DEF LabelsOfObject, Fresh, Labels
    <2> QED
      BY <1>t, <1>0, <2>1, <2>3
  <1>6. ASSUME NEW r \in Resources, DeleteResource(r) PROVE LabelsOfObject(res'[q]) \in LabelsOf[q]
    <2>1. CASE r = q
      <3>1. /\ res[q].status = "live"
            /\ res'[q] = IF res[q].fin = {} THEN Absent ELSE [res[q] EXCEPT !.status = "deleting"]
        BY <1>t, <1>6, <2>1 DEF DeleteResource
      <3>2. res'[q].inst = res[q].inst /\ res'[q].org = res[q].org
        BY <1>t, <3>1 DEF Absent, ResourceObject
      <3> QED
        BY <1>0, <3>1, <3>2
    <2>2. CASE r # q
      BY <1>0, <1>t, <1>6, <2>2 DEF DeleteResource
    <2> QED
      BY <2>1, <2>2
  <1>7. ASSUME NEW r \in Resources, Relabel(r) PROVE LabelsOfObject(res'[q]) \in LabelsOf[q]
    <2>1. PICK l \in LabelsOf[r] : res' = [res EXCEPT ![r].inst = l.inst, ![r].org = l.org]
      BY <1>7 DEF Relabel
    <2>2. l \in Labels
      OBVIOUS
    <2>3. CASE r = q
      <3>1. res'[q].inst = l.inst /\ res'[q].org = l.org
        BY <1>t, <2>1, <2>3 DEF ResourceObject
      <3>2. LabelsOfObject(res'[q]) = l
        BY <2>2, <3>1 DEF LabelsOfObject, Labels
      <3> QED
        BY <2>3, <3>2
    <2>4. CASE r # q
      BY <1>0, <1>t, <2>1, <2>4
    <2> QED
      BY <2>3, <2>4
  <1>8. ASSUME NEW j \in Instances,
               \/ SkipPass(j) \/ BeginPass(j) \/ AddInstanceFinalizer(j) \/ Connect(j)
               \/ List(j) \/ EndMark(j) \/ NextKind(j) \/ EndWalk(j) \/ ReleaseInstance(j)
               \/ PublishReady(j) \/ PublishFailed(j) \/ FailPass(j) \/ RefuseInstancePatch(j)
               \/ RefusePublish(j) \/ WatchInstance(j) \/ EditInstance(j) \/ DeleteInstance(j)
        PROVE  UNCHANGED res
    BY <1>8 DEF SkipPass, BeginPass, AddInstanceFinalizer, Connect, List, EndMark, NextKind,
                EndWalk, ReleaseInstance, PublishReady, PublishFailed, PublishStatus, FailPass,
                RefuseInstancePatch, RefusePublish, WatchInstance, EditInstance, DeleteInstance
  <1>9. ASSUME NEW j \in Instances, NEW r \in Resources, Sync(j, r) \/ Prune(j, r)
        PROVE  UNCHANGED res
    BY <1>9 DEF Sync, Prune
  <1>10. ASSUME NEW j \in Instances, NEW o \in Orgs, NextOrg(j, o) PROVE UNCHANGED res
    BY <1>10 DEF NextOrg
  <1>11. ASSUME NEW r \in Resources, WatchResource(r) \/ WatchMetadata(r) PROVE UNCHANGED res
    BY <1>11 DEF WatchResource, WatchMetadata
  <1>12. ASSUME NEW x \in Secrets, ChangeSecret(x) PROVE UNCHANGED res
    BY <1>12 DEF ChangeSecret
  <1>13. ASSUME Restart \/ UNCHANGED vars PROVE UNCHANGED res
    BY <1>13 DEF Restart, vars
  <1> QED
    BY <1>2, <1>3, <1>4, <1>5, <1>6, <1>7, <1>8, <1>9, <1>10, <1>11, <1>12, <1>13
       DEF Next, Work, UserStep

LEMMA KnownLabelsNext ==
    ASSUME TypeOK, PassShape, KnownLabels, [Next]_vars
    PROVE  KnownLabels'
  <1>1. ASSUME NEW r \in Resources, res'[r].status # "absent"
        PROVE  LabelsOfObject(res'[r]) \in LabelsOf[r]
    BY <1>1, LabelEffect
  <1>2. ASSUME NEW r \in Resources, cres'[r].status # "absent"
        PROVE  LabelsOfObject(cres'[r]) \in LabelsOf[r]
    <2>1. cres'[r] = cres[r] \/ cres'[r] = res[r]
      BY CacheEffect
    <2> QED
      BY <1>2, <2>1 DEF KnownLabels
  <1>3. ASSUME NEW i \in Instances, NEW r \in Resources, list'[i][r].status # "absent"
        PROVE  LabelsOfObject(list'[i][r]) \in LabelsOf[r]
    <2>1. CASE list'[i] = list[i]
      BY <1>3, <2>1 DEF KnownLabels
    <2>2. CASE List(i)
      <3>1. list'[i][r] = cres[r]
        BY <1>3, <2>2 DEF List, TypeOK, Absent
      <3> QED
        BY <1>3, <3>1 DEF KnownLabels
    <2>3. CASE list'[i] = NothingListed
      BY <1>3, <2>3 DEF NothingListed, Absent
    <2>4. ASSUME NextKind(i) \/ \E o \in Orgs : NextOrg(i, o) PROVE list'[i] = NothingListed
      BY <2>4 DEF NextKind, NextOrg, TypeOK
    <2> QED
      BY <2>1, <2>2, <2>3, <2>4, WalkEffect
  <1> QED
    BY <1>1, <1>2, <1>3 DEF KnownLabels

=============================================================================
