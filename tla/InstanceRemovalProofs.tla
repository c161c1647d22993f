------------------------- MODULE InstanceRemovalProofs ------------------------
(***************************************************************************)
(* Theorems about InstanceReconciler: what is left of an instance that is  *)
(* gone.  They are about an instance that prunes and shares nothing with   *)
(* another one, whose passes read from a cache that has caught up, while   *)
(* users may delete the instance and all objects but organizations, and    *)
(* labels stay as they are.  The runs org_deleted_first and finalizer_race *)
(* show what happens otherwise.                                            *)
(***************************************************************************)
EXTENDS InstanceReconcilerProofs

\* Fresh reads, organizations that stay, labels that nobody changes.
Undisturbed ==
    /\ FreshReads
    /\ Orgs \cap Deletable = {}
    /\ \A r \in Resources : \A l, m \in LabelsOf[r] : l = m

-----------------------------------------------------------------------------
(* The inductive invariant.                                                *)

\* An organization that was seen is there to stay.
OrgsStay ==
    \A o \in Orgs :
        /\ res[o].status # "deleting"
        /\ cres[o].status # "absent" => res[o].status = "live"
        /\ \A i \in Instances : list[i][o].status # "absent" => res[o].status = "live"

\* An organization by which a pass reaches features and clients.
Way(i, o) == o \in Orgs /\ res[o].status = "live" /\ i \in res[o].inst

\* An object of these labels is one that a pass comes to.
InReach(i, r, obj) ==
    \/ r \in Users \cup Orgs /\ i \in obj.inst
    \/ r \in Features \cup Clients /\ \E o \in obj.org : Way(i, o)

\* The object is one of the present stage.
OfStage(i, r, obj) ==
    \/ stage[i].kind = "users" /\ r \in Users /\ i \in obj.inst
    \/ stage[i].kind = "orgs" /\ r \in Orgs /\ i \in obj.inst
    \/ stage[i].kind = "features" /\ r \in Features /\ stage[i].org \in obj.org
    \/ stage[i].kind = "clients" /\ r \in Clients /\ stage[i].org \in obj.org

\* The walk starts with users, comes to organizations that lead on, and lists what is
\* in its reach.
WalkInReach ==
    \A i \in Instances :
        /\ pc[i] \in {"idle", "finalizer", "connect", "status", "failed"} => stage[i] = FirstStage
        /\ stage[i].kind \in {"features", "clients"} => Way(i, stage[i].org)
        /\ \A o \in orgsLeft[i] : Way(i, o)
        /\ \A r \in Resources : list[i][r].status # "absent" => OfStage(i, r, list[i][r])

\* What carries the finalizer is in reach.
HeldInReach ==
    \A i \in Instances, r \in Resources : i \in res[r].fin => InReach(i, r, res[r])

\* A finalizer on any object means one on the instance; and a pass of a live instance
\* sees to it that there is one.
InstanceFinalizer ==
    \A i \in Instances :
        /\ inst[i].status = "absent" => ~inst[i].fin
        /\ \A r \in Resources : i \in res[r].fin => inst[i].fin
        /\ snap[i].status = "live" /\ (pc[i] = "finalizer" => snap[i].fin) => inst[i].fin

\* The walk is still to list the object, or to come to an organization that leads to it.
Later(i, r) ==
    LET k == stage[i].kind
    IN  \/ k = "users" /\ r \notin Users
        \/ k = "orgs" /\ r \in Features \cup Clients
              /\ (pc[i] = "list" \/ \E o \in res[r].org : o \in Listed(i))
        \/ k \in {"features", "clients"} /\ r \in Features \cup Clients
              /\ \E o \in res[r].org : o \in orgsLeft[i]
        \/ k = "features" /\ r \in Clients /\ stage[i].org \in res[r].org

\* The walk is to list the object next, or has listed it with its finalizer and is
\* still to release it.
Current(i, r) ==
    IF pc[i] = "list" THEN OfStage(i, r, res[r])
    ELSE r \in todo[i] /\ i \in list[i][r].fin

\* The pass of a deleted instance is still to come to all objects that carry the
\* finalizer; once its walk is over there are none.
StillToRelease ==
    \A i \in Instances : snap[i].status = "deleting" =>
        \A r \in Resources : i \in res[r].fin =>
            /\ pc[i] # "status"
            /\ pc[i] \in {"list", "apply", "release"} => Current(i, r) \/ Later(i, r)

\* No metadata cache shows the predecessor of an object.
NoneReborn == reborn = {}

RemovalInv ==
    /\ NoneReborn
    /\ KnownLabels
    /\ OrgsStay
    /\ WalkInReach
    /\ HeldInReach
    /\ InstanceFinalizer
    /\ StillToRelease

-----------------------------------------------------------------------------
(* What a step does to objects, to the cache, to what is listed and to the *)
(* finalizer of the instance.                                              *)

LEMMA SameLabels ==
    ASSUME Undisturbed, NEW r \in Resources, NEW x, NEW y,
           LabelsOfObject(x) \in LabelsOf[r], LabelsOfObject(y) \in LabelsOf[r]
    PROVE  x.inst = y.inst /\ x.org = y.org
  <1>1. LabelsOfObject(x) = LabelsOfObject(y)
    BY DEF Undisturbed
  <1>2. LabelsOfObject(x).inst = LabelsOfObject(y).inst /\ LabelsOfObject(x).org = LabelsOfObject(y).org
    BY <1>1
  <1> QED
    BY <1>2 DEF LabelsOfObject

\* What a step may do to objects: keep the labels of an object that is there, create
\* one without finalizers, leave organizations live, and add a finalizer to the object
\* that a pass marks.
ObjectStep ==
    \A q \in Resources :
        /\ res[q].status # "absent" /\ res'[q].status # "absent" =>
              res'[q].inst = res[q].inst /\ res'[q].org = res[q].org
        /\ res[q].status = "absent" /\ res'[q].status # "absent" =>
              LabelsOfObject(res'[q]) \in LabelsOf[q] /\ res'[q].fin = {}
        /\ q \in Orgs => /\ res[q].status = "live" => res'[q].status = "live"
                         /\ res'[q].status # "deleting"
        /\ \A i \in Instances : i \in res'[q].fin /\ i \notin res[q].fin =>
              Mark(i, q) /\ list[i][q].status = "live"

\* With what the patch of a release leaves on the server's object.
ReleasedFin(i) ==
    LET r   == cur[i]
        old == list[i][r]
    IN  Landed(Latest(r, old), res[r], WithoutFinalizer(i, old))

LEMMA ObjectEffect ==
    ASSUME NEW a, Instances = {a}, Undisturbed, GuardInv, KnownLabels, OrgsStay, [Next]_vars
    PROVE  ObjectStep
  <1> USE ConstantsAssumption DEF ToStep, apiVars, cacheVars, walkVars, workerVars,
          budgetVars, controllerVars
  <1>t. TypeOK /\ PassShape /\ ObjectShape /\ ListTrails
    BY DEF GuardInv
  <1>0. ASSUME UNCHANGED res PROVE ObjectStep
    BY <1>0 DEF ObjectStep, OrgsStay
  <1>1. ASSUME NEW j \in Instances, NEW r \in Resources, Mark(j, r) PROVE ObjectStep
    <2>1. \A q \in Resources : res'[q].status # "absent" =>
             res'[q].inst = res[q].inst /\ res'[q].org = res[q].org
      <3>1. UNCHANGED res \/ res' = [res EXCEPT ![r] = Patched(@, MarkedFin(j, r))]
        BY <1>1 DEF Mark, MarkedFin
      <3> QED
        BY <1>t, <3>1, PatchedLabels DEF TypeOK
    <2>2. \A i \in Instances : i = j
      OBVIOUS
    <2> QED
      BY <1>t, <1>1, <2>1, <2>2, MarkEffect DEF ObjectStep, OrgsStay
  <1>2. ASSUME NEW j \in Instances, Release(j) PROVE ObjectStep
    <2>1. \A q \in Resources : res'[q].status # "absent" =>
             res'[q].inst = res[q].inst /\ res'[q].org = res[q].org
      <3>1. res' = [res EXCEPT ![cur[j]] = Patched(@, ReleasedFin(j))]
        BY <1>2 DEF Release, ReleasedFin
      <3> QED
        BY <1>t, <3>1, PatchedLabels DEF TypeOK
    <2>2. \A i \in Instances : i = j
      OBVIOUS
    <2>3. cur[j] \in Orgs => res'[cur[j]].status = res[cur[j]].status
      <3>1. cur[j] \in Resources /\ ~Keeps(j, cur[j]) /\ list[j][cur[j]].status # "absent"
        BY <1>t, <1>2 DEF Release, PassShape
      <3>2. res' = [res EXCEPT ![cur[j]] = Patched(@, ReleasedFin(j))]
        BY <1>2 DEF Release, ReleasedFin
      <3>3. CASE cur[j] \in Orgs
        <4>1. res[cur[j]].status = "live" /\ res[cur[j]] \in ResourceObject
          BY <1>t, <3>1, <3>3 DEF OrgsStay, TypeOK
        <4> QED
          BY <1>t, <3>1, <3>2, <4>1 DEF Patched, ResourceObject, TypeOK
      <3> QED
        BY <3>3
    <2> QED
      BY <1>t, <1>2, <2>1, <2>2, <2>3, ReleaseEffect DEF ObjectStep, OrgsStay
  <1>3. ASSUME NEW r \in Resources, CreateResource(r) PROVE ObjectStep
    <2>1. PICK l \in LabelsOf[r] : res' = [res EXCEPT ![r] = Fresh(l)]
      BY <1>3 DEF CreateResource
    <2>2. l \in Labels
      OBVIOUS
    <2>3. LabelsOfObject(Fresh(l)) = l
      BY <2>2 DEF LabelsOfObject, Fresh, Labels
    <2>4. /\ \A q \in Resources \ {r} : res'[q] = res[q]
          /\ res'[r] = Fresh(l) /\ res[r].status = "absent"
      BY <1>t, <1>3, <2>1 DEF CreateResource, TypeOK
    <2>5. res'[r].status = "live" /\ res'[r].fin = {}
      BY <2>4 DEF Fresh
    <2> QED
      BY <2>3, <2>4, <2>5 DEF ObjectStep, OrgsStay
  <1>4. ASSUME NEW r \in Resources, DeleteResource(r) PROVE ObjectStep
    <2>1. \A q \in Resources \ {r} : res'[q] = res[q]
      BY <1>t, <1>4 DEF DeleteResource, TypeOK
    <2>2. r \notin Orgs /\ res[r] \in ResourceObject /\ res[r].status = "live"
      BY <1>t, <1>4 DEF DeleteResource, TypeOK, Undisturbed
    <2>3. res'[r] = IF res[r].fin = {} THEN Absent ELSE [res[r] EXCEPT !.status = "deleting"]
      BY <1>t, <1>4 DEF DeleteResource, TypeOK
    <2>4. /\ res'[r].status # "absent" => res'[r].inst = res[r].inst /\ res'[r].org = res[r].org
          /\ \A i \in res'[r].fin : i \in res[r].fin
      BY <2>2, <2>3 DEF Absent, ResourceObject
    <2> QED
      BY <2>1, <2>2, <2>4 DEF ObjectStep, OrgsStay
  <1>5. ASSUME NEW r \in Resources, Relabel(r) PROVE FALSE
    <2>1. PICK l \in LabelsOf[r] : <<l.inst, l.org>> # <<res[r].inst, res[r].org>>
      BY <1>5 DEF Relabel
    <2>2. l = LabelsOfObject(res[r])
      BY <1>5 DEF Relabel, Undisturbed, KnownLabels
    <2> QED
      BY <2>1, <2>2 DEF LabelsOfObject
  <1>6. ASSUME NEW j \in Instances,
               \/ SkipPass(j) \/ BeginPass(j) \/ AddInstanceFinalizer(j) \/ Connect(j)
               \/ List(j) \/ EndMark(j) \/ NextKind(j) \/ EndWalk(j) \/ ReleaseInstance(j)
               \/ PublishReady(j) \/ PublishFailed(j) \/ FailPass(j) \/ RefuseInstancePatch(j)
               \/ RefusePublish(j) \/ WatchInstance(j) \/ EditInstance(j) \/ DeleteInstance(j)
        PROVE  UNCHANGED res
    BY <1>6 DEF SkipPass, BeginPass, AddInstanceFinalizer, Connect, List, EndMark, NextKind,
                EndWalk, ReleaseInstance, PublishReady, PublishFailed, PublishStatus, FailPass,
                RefuseInstancePatch, RefusePublish, WatchInstance, EditInstance, DeleteInstance
  <1>7. ASSUME NEW j \in Instances, NEW q \in Resources, Sync(j, q) \/ Prune(j, q)
        PROVE  UNCHANGED res
    BY <1>7 DEF Sync, Prune
  <1>8. ASSUME NEW j \in Instances, NEW o \in Orgs, NextOrg(j, o) PROVE UNCHANGED res
    BY <1>8 DEF NextOrg
  <1>9. ASSUME NEW q \in Resources, WatchResource(q) \/ WatchMetadata(q) PROVE UNCHANGED res
    BY <1>9 DEF WatchResource, WatchMetadata
  <1>10. ASSUME NEW x \in Secrets, ChangeSecret(x) PROVE UNCHANGED res
    BY <1>10 DEF ChangeSecret
  <1>11. CASE Restart
    BY <1>0, <1>11 DEF Restart
  <1>12. CASE UNCHANGED vars
    BY <1>0, <1>12 DEF vars
  <1> QED
    BY <1>0, <1>1, <1>2, <1>3, <1>4, <1>5, <1>6, <1>7, <1>8, <1>9, <1>10, <1>11, <1>12
    DEF Next, Work, UserStep

\* What a step does to the finalizer of the instance.
LEMMA InstanceEffect ==
    ASSUME NEW a, Instances = {a}, FreshReads, TypeOK, [Next]_vars, NEW i \in Instances
    PROVE  \/ inst'[i].fin = inst[i].fin /\ inst'[i].status = inst[i].status
           \/ /\ AddInstanceFinalizer(i) /\ inst[i].status # "absent"
              /\ snap[i].status = "live" /\ inst'[i].status = inst[i].status
              /\ inst'[i].fin <=> (inst[i].fin \/ ~snap[i].fin)
           \/ ReleaseInstance(i) /\ inst'[i] = NoInstance /\ UNCHANGED res
           \/ /\ inst[i].status = "live" /\ UNCHANGED <<res, pc, snap>>
              /\ inst[i].fin => inst'[i].fin /\ inst'[i].status = "deleting"
              /\ ~inst[i].fin => inst'[i] = NoInstance
  <1> USE DEF ToStep, apiVars, cacheVars, walkVars, workerVars, budgetVars, controllerVars
  <1> DEFINE Same == inst'[i].fin = inst[i].fin /\ inst'[i].status = inst[i].status
  <1>0. \A j \in Instances : j = i
    OBVIOUS
  <1>t. inst \in [Instances -> InstanceObject] /\ inst[i] \in InstanceObject
    BY DEF TypeOK
  <1>1. ASSUME SkipPass(i) \/ BeginPass(i) \/ Connect(i) \/ List(i) \/ EndMark(i) \/ Release(i)
               \/ NextKind(i) \/ EndWalk(i) \/ FailPass(i) \/ RefuseInstancePatch(i)
               \/ RefusePublish(i) \/ WatchInstance(i)
        PROVE  Same
    BY <1>1 DEF SkipPass, BeginPass, Connect, List, EndMark, Release, NextKind, EndWalk,
                FailPass, RefuseInstancePatch, RefusePublish, WatchInstance
  <1>2. ASSUME NEW r \in Resources, Mark(i, r) \/ Sync(i, r) \/ Prune(i, r) PROVE Same
    BY <1>2 DEF Mark, Sync, Prune
  <1>3. ASSUME NEW r \in Resources,
               \/ WatchResource(r) \/ WatchMetadata(r)
               \/ CreateResource(r) \/ DeleteResource(r) \/ Relabel(r)
        PROVE  Same
    BY <1>3 DEF WatchResource, WatchMetadata, CreateResource, DeleteResource, Relabel
  <1>4. ASSUME NEW x \in Secrets, ChangeSecret(x) PROVE Same
    BY <1>4 DEF ChangeSecret
  <1>5. ASSUME NEW o \in Orgs, NextOrg(i, o) PROVE Same
    BY <1>5 DEF NextOrg
  <1>6. ASSUME Restart \/ UNCHANGED vars PROVE Same
    BY <1>6 DEF Restart, vars
  <1>7. ASSUME NEW ready \in {"True", "False"}, PublishStatus(i, ready) PROVE Same
    <2>1. inst'[i] = StatusPatched(inst[i], snap[i], ready, catalog[i])
      BY <1>t, <1>7 DEF PublishStatus
    <2> QED
      BY <1>t, <2>1 DEF StatusPatched, InstanceObject
  <1>8. ASSUME PublishReady(i) \/ PublishFailed(i) PROVE Same
    BY <1>7, <1>8 DEF PublishReady, PublishFailed
  <1>9. ASSUME EditInstance(i) PROVE Same
    <2>1. PICK p \in PruneValues, s \in SuspendValues :
            inst' = [inst EXCEPT ![i].prune = p, ![i].suspend = s, ![i].gen = @ + 1]
      BY <1>9, Zenon DEF EditInstance
    <2> QED
      BY <1>t, <2>1 DEF InstanceObject
  <1>10. ASSUME AddInstanceFinalizer(i)
         PROVE  \/ Same
                \/ /\ inst[i].status # "absent" /\ snap[i].status = "live"
                   /\ inst'[i].status = inst[i].status
                   /\ inst'[i].fin <=> (inst[i].fin \/ ~snap[i].fin)
    <2>1. CASE UNCHANGED inst
      BY <2>1
    <2>2. CASE /\ inst[i].status # "absent" /\ snap[i].status = "live"
               /\ inst' = [inst EXCEPT ![i].fin = @ \/ ~snap[i].fin]
      <3>1. /\ inst'[i].status = inst[i].status
            /\ inst'[i].fin = (inst[i].fin \/ ~snap[i].fin)
        BY <1>t, <2>2 DEF InstanceObject
      <3> QED
        BY <2>2, <3>1
    <2> QED
      BY <1>10, <2>1, <2>2 DEF AddInstanceFinalizer
  <1>11. ASSUME ReleaseInstance(i) PROVE inst'[i] = NoInstance /\ UNCHANGED res
    BY <1>t, <1>11 DEF ReleaseInstance
  <1>12. ASSUME DeleteInstance(i)
         PROVE  /\ inst[i].status = "live" /\ UNCHANGED <<res, pc, snap>>
                /\ inst[i].fin => inst'[i].fin /\ inst'[i].status = "deleting"
                /\ ~inst[i].fin => inst'[i] = NoInstance
    <2> DEFINE new == [inst[i] EXCEPT !.status = "deleting", !.gen = @ + 1]
    <2>1. new.status = "deleting" /\ new.fin = inst[i].fin
      BY <1>t DEF InstanceObject
    <2>2. inst' = [inst EXCEPT ![i] = IF inst[i].fin THEN new ELSE NoInstance]
      BY <1>12 DEF DeleteInstance
    <2> HIDE DEF new
    <2>3. /\ inst[i].fin => inst'[i] = new
          /\ ~inst[i].fin => inst'[i] = NoInstance
      BY <1>t, <2>2
    <2> QED
      BY <1>12, <2>1, <2>3 DEF DeleteInstance
  <1> QED
    BY <1>0, <1>1, <1>2, <1>3, <1>4, <1>5, <1>6, <1>8, <1>9, <1>10, <1>11, <1>12
    DEF Next, Work, UserStep

-----------------------------------------------------------------------------
(* The conjuncts of the invariant, one by one.                             *)

LEMMA OrgsStayNext ==
    ASSUME NEW a, Instances = {a}, Undisturbed, GuardInv, KnownLabels, OrgsStay, [Next]_vars
    PROVE  OrgsStay'
  <1>t. TypeOK
    BY DEF GuardInv
  <1>0. ASSUME NEW o \in Orgs PROVE o \in Resources /\ res[o].status \in {"absent", "live"}
    BY <1>t DEF OrgsStay, TypeOK, ResourceObject, Status, Resources
  <1>1. ASSUME NEW o \in Orgs
        PROVE  /\ res'[o].status # "deleting"
               /\ res[o].status = "live" => res'[o].status = "live"
    BY <1>0, ObjectEffect DEF ObjectStep
  <1>2. ASSUME NEW o \in Orgs, cres'[o].status # "absent" PROVE res'[o].status = "live"
    <2>1. cres'[o] = cres[o] \/ cres'[o] = res[o]
      BY <1>t, <1>0, CacheEffect
    <2>2. res[o].status = "live"
      BY <1>0, <1>2, <2>1 DEF OrgsStay
    <2> QED
      BY <1>1, <2>2
  <1>3. ASSUME NEW i \in Instances, NEW o \in Orgs, list'[i][o].status # "absent"
        PROVE  res'[o].status = "live"
    <2>0. o \in Resources
      BY <1>0
    <2>1. CASE list'[i] = list[i]
      BY <1>1, <1>3, <2>1 DEF OrgsStay
    <2>2. CASE List(i)
      <3>1. list'[i][o] = cres[o]
        BY <1>t, <1>3, <2>0, <2>2 DEF List, TypeOK, Absent
      <3> QED
        BY <1>1, <1>3, <3>1 DEF OrgsStay
    <2>3. CASE list'[i] = NothingListed
      BY <1>3, <2>0, <2>3 DEF NothingListed, Absent
    <2>4. ASSUME NextKind(i) \/ \E p \in Orgs : NextOrg(i, p) PROVE list'[i] = NothingListed
      BY <1>t, <2>4 DEF NextKind, NextOrg, TypeOK
    <2> QED
      BY <1>t, <2>1, <2>2, <2>3, <2>4, WalkEffect
  <1> QED
    BY <1>1, <1>2, <1>3 DEF OrgsStay

\* Where a pass has come to features and clients, it still can.
LEMMA WayStays ==
    ASSUME NEW a, Instances = {a}, Undisturbed, GuardInv, KnownLabels, OrgsStay, [Next]_vars,
           NEW i \in Instances, NEW o, Way(i, o)
    PROVE  Way(i, o)'
  <1>1. o \in Orgs /\ o \in Resources /\ res[o].status = "live"
    BY DEF Way, Resources
  <1>2. res'[o].status = "live"
    BY <1>1, ObjectEffect DEF ObjectStep
  <1>3. res'[o].inst = res[o].inst
    BY <1>1, <1>2, ObjectEffect DEF ObjectStep
  <1> QED
    BY <1>1, <1>2, <1>3 DEF Way

LEMMA WalkInReachNext ==
    ASSUME NEW a, Instances = {a}, Undisturbed, GuardInv, KnownLabels, OrgsStay, WalkInReach,
           [Next]_vars
    PROVE  WalkInReach'
  <1> USE DEF ToStep
  <1>t. TypeOK /\ ListedOrgs
    BY DEF GuardInv
  <1> SUFFICES ASSUME NEW i \in Instances
      PROVE  /\ pc'[i] \in Outside => stage'[i] = FirstStage
             /\ stage'[i].kind \in {"features", "clients"} => Way(i, stage[i].org)'
             /\ \A o \in orgsLeft'[i] : Way(i, o)'
             /\ \A r \in Resources : list'[i][r].status # "absent" => OfStage(i, r, list[i][r])'
    BY DEF WalkInReach, Outside
  <1>0. /\ pc[i] \in Outside => stage[i] = FirstStage
        /\ stage[i].kind \in {"features", "clients"} => Way(i, stage[i].org)
        /\ \A o \in orgsLeft[i] : Way(i, o)
        /\ \A r \in Resources : list[i][r].status # "absent" => OfStage(i, r, list[i][r])
    BY DEF WalkInReach, Outside
  <1>w. \A o : Way(i, o) => Way(i, o)'
    BY WayStays
  <1>1. CASE /\ stage'[i] = stage[i] /\ orgsLeft'[i] = orgsLeft[i] /\ list'[i] = list[i]
             /\ pc'[i] \in Outside => pc[i] \in Outside
    <2>1. \A r \in Resources : OfStage(i, r, list[i][r]) => OfStage(i, r, list[i][r])'
      BY <1>1 DEF OfStage
    <2> QED
      BY <1>0, <1>1, <1>w, <2>1
  <1>2. CASE List(i)
    <2>1. /\ UNCHANGED <<stage, orgsLeft>> /\ pc'[i] \in {"mark", "apply"}
          /\ \A r \in Resources : list'[i][r] = IF r \in Selected(i) THEN cres[r] ELSE Absent
      BY <1>t, <1>2 DEF List, TypeOK
    <2>2. ASSUME NEW r \in Resources, list'[i][r].status # "absent" PROVE OfStage(i, r, list[i][r])'
      <3>1. r \in Selected(i) /\ list'[i][r] = cres[r]
        BY <2>1, <2>2 DEF Absent
      <3> QED
        BY <2>1, <3>1 DEF Selected, OfStage
    <2> QED
      BY <1>0, <1>w, <2>1, <2>2 DEF Outside
  <1>3. CASE NextKind(i)
    <2>1. /\ UNCHANGED orgsLeft /\ pc'[i] = "list" /\ list'[i] = NothingListed
          /\ stage'[i].org = stage[i].org
          /\ stage[i].kind = "users" => stage'[i].kind = "orgs"
          /\ stage[i].kind \in {"users", "features"}
      <3>1. stage[i] \in Stage /\ stage \in [Instances -> Stage]
        BY <1>t DEF TypeOK
      <3>2. stage'[i] = [stage[i] EXCEPT !.kind = IF @ = "users" THEN "orgs" ELSE "clients"]
        BY <1>3, <3>1 DEF NextKind
      <3>3. /\ stage'[i].org = stage[i].org
            /\ stage[i].kind = "users" => stage'[i].kind = "orgs"
        BY <3>1, <3>2 DEF Stage
      <3>4. UNCHANGED orgsLeft /\ stage[i].kind \in {"users", "features"}
        BY <1>3 DEF NextKind
      <3>5. list'[i] = NothingListed /\ pc'[i] = "list"
        <4>1. list' = [list EXCEPT ![i] = NothingListed] /\ pc' = [pc EXCEPT ![i] = "list"]
          BY <1>3 DEF NextKind
        <4>2. i \in DOMAIN list /\ i \in DOMAIN pc
          BY <1>t DEF TypeOK
        <4> QED
          BY <4>1, <4>2
      <3> QED
        BY <3>3, <3>4, <3>5
    <2>2. stage'[i].kind \in {"features", "clients"} => stage[i].kind = "features"
      BY <2>1
    <2> QED
      BY <1>0, <1>w, <2>1, <2>2 DEF Outside, NothingListed, Absent
  <1>4. ASSUME NEW o \in Orgs, NextOrg(i, o)
        PROVE  /\ pc'[i] \in Outside => stage'[i] = FirstStage
               /\ stage'[i].kind \in {"features", "clients"} => Way(i, stage[i].org)'
               /\ \A p \in orgsLeft'[i] : Way(i, p)'
               /\ \A r \in Resources : list'[i][r].status # "absent" => OfStage(i, r, list[i][r])'
    <2>1. /\ pc'[i] = "list" /\ list'[i] = NothingListed /\ o \in OrgsToVisit(i)
          /\ stage'[i].org = o /\ stage[i].kind \in {"orgs", "clients"}
          /\ orgsLeft'[i] = OrgsToVisit(i) \ {o}
      BY <1>t, <1>4 DEF NextOrg, TypeOK
    <2>2. ASSUME NEW p \in OrgsToVisit(i) PROVE Way(i, p)
      <3>1. CASE stage[i].kind = "orgs"
        <4>1. p \in Resources /\ list[i][p].status # "absent"
          BY <2>2, <3>1 DEF OrgsToVisit, Listed
        <4>2. p \in Orgs /\ i \in list[i][p].inst
          BY <1>0, <3>1, <4>1 DEF OfStage
        <4>3. res[p].status = "live"
          BY <4>1, <4>2 DEF OrgsStay
        <4>4. res[p].inst = list[i][p].inst
          BY <4>1, <4>3, SameLabels DEF KnownLabels
        <4> QED
          BY <4>2, <4>3, <4>4 DEF Way
      <3>2. CASE stage[i].kind = "clients"
        BY <1>0, <2>2, <3>2 DEF OrgsToVisit
      <3> QED
        BY <2>1, <3>1, <3>2
    <2>3. \A p \in OrgsToVisit(i) : Way(i, p)'
      BY <2>2, <1>w
    <2>4. Way(i, stage[i].org)'
      BY <2>1, <2>3
    <2> QED
      BY <2>1, <2>3, <2>4 DEF Outside, NothingListed, Absent
  <1>5. CASE /\ stage'[i] = FirstStage /\ orgsLeft'[i] = {} /\ list'[i] = NothingListed
             /\ pc'[i] \in Outside
    BY <1>5 DEF FirstStage, NothingListed, Absent
  <1> QED
    BY <1>t, <1>1, <1>2, <1>3, <1>4, <1>5, WalkEffect

LEMMA HeldInReachNext ==
    ASSUME NEW a, Instances = {a}, Undisturbed, GuardInv, GuardInv', KnownLabels, OrgsStay,
           WalkInReach, HeldInReach, [Next]_vars
    PROVE  HeldInReach'
  <1> SUFFICES ASSUME NEW i \in Instances, NEW r \in Resources, i \in res'[r].fin
      PROVE  InReach(i, r, res[r])'
    BY DEF HeldInReach
  <1>1. res'[r].status # "absent" /\ res[r].status # "absent"
    BY ObjectEffect DEF ObjectStep, GuardInv, ObjectShape
  <1>2. res'[r].inst = res[r].inst /\ res'[r].org = res[r].org
    BY <1>1, ObjectEffect DEF ObjectStep
  <1>3. InReach(i, r, res[r])
    <2>1. CASE i \in res[r].fin
      BY <2>1 DEF HeldInReach
    <2>2. CASE i \notin res[r].fin
      <3>1. list[i][r].status = "live"
        BY <2>2, ObjectEffect DEF ObjectStep
      <3>2. OfStage(i, r, list[i][r]) /\ (stage[i].kind \in {"features", "clients"} => Way(i, stage[i].org))
        BY <3>1 DEF WalkInReach
      <3>3. list[i][r].inst = res[r].inst /\ list[i][r].org = res[r].org
        BY <1>1, <3>1, SameLabels DEF KnownLabels
      <3> QED
        BY <3>2, <3>3 DEF OfStage, InReach
    <2> QED
      BY <2>1, <2>2
  <1> QED
    BY <1>2, <1>3, WayStays DEF InReach

LEMMA InstanceFinalizerNext ==
    ASSUME NEW a, Instances = {a}, Undisturbed, GuardInv, RemovalInv, [Next]_vars
    PROVE  InstanceFinalizer'
  <1>t. /\ TypeOK /\ PassShape
        /\ FreshReads
        /\ KnownLabels /\ OrgsStay /\ InstanceFinalizer /\ StillToRelease
    BY DEF GuardInv, Undisturbed, RemovalInv
  <1>n. NoInstance.status = "absent" /\ ~NoInstance.fin
    BY DEF NoInstance
  <1> SUFFICES ASSUME NEW i \in Instances
      PROVE  /\ inst'[i].status = "absent" => ~inst'[i].fin
             /\ \A r \in Resources : i \in res'[r].fin => inst'[i].fin
             /\ snap'[i].status = "live" /\ (pc'[i] = "finalizer" => snap'[i].fin) => inst'[i].fin
    BY DEF InstanceFinalizer
  <1>0. /\ inst[i].status = "absent" => ~inst[i].fin
        /\ \A r \in Resources : i \in res[r].fin => inst[i].fin
        /\ snap[i].status = "live" /\ (pc[i] = "finalizer" => snap[i].fin) => inst[i].fin
    BY <1>t DEF InstanceFinalizer
  \* An object that gets the finalizer gets it in a pass whose instance has one.
  <1>m. ASSUME NEW r \in Resources, i \in res'[r].fin PROVE inst[i].fin
    <2>1. i \in res[r].fin \/ pc[i] = "mark"
      <3>1. ObjectStep
        BY <1>t, ObjectEffect
      <3>2. i \in res[r].fin \/ Mark(i, r)
        BY <1>m, <3>1 DEF ObjectStep
      <3> QED
        BY <3>2 DEF Mark
    <2>2. pc[i] = "mark" => snap[i].status = "live"
      BY <1>t DEF PassShape
    <2> QED
      BY <1>0, <2>1, <2>2
  <1>s. \/ BeginPass(i) \/ AddInstanceFinalizer(i) \/ snap'[i] = NoInstance
        \/ snap'[i] = snap[i] /\ (pc[i] = "finalizer" <=> pc'[i] = "finalizer")
    BY <1>t, SnapEffect
  <1>b. ASSUME BeginPass(i) PROVE snap'[i] = inst[i] /\ pc'[i] = "finalizer" /\ UNCHANGED inst
    BY <1>t, <1>b DEF BeginPass, TypeOK, ToStep, apiVars
  <1>a. ASSUME AddInstanceFinalizer(i) PROVE snap'[i] = snap[i] /\ pc[i] = "finalizer"
    BY <1>a DEF AddInstanceFinalizer
  <1>1. CASE inst'[i].fin = inst[i].fin /\ inst'[i].status = inst[i].status
    <2>1. snap'[i].status = "live" /\ (pc'[i] = "finalizer" => snap'[i].fin) => inst'[i].fin
      <3>1. CASE BeginPass(i)
        BY <1>b, <3>1
      <3>2. CASE AddInstanceFinalizer(i)
        <4>1. CASE UNCHANGED inst /\ snap[i].status = "deleting"
          BY <1>a, <3>2, <4>1
        <4>2. CASE /\ snap[i].status = "live"
                   /\ inst' = [inst EXCEPT ![i].fin = @ \/ ~snap[i].fin]
          <5>1. inst'[i].fin = (inst[i].fin \/ ~snap[i].fin)
            BY <1>t, <4>2 DEF TypeOK, InstanceObject
          <5> QED
            BY <1>0, <4>2, <5>1
        <4> QED
          BY <3>2, <4>1, <4>2 DEF AddInstanceFinalizer
      <3> QED
        BY <1>0, <1>1, <1>n, <1>s, <3>1, <3>2
    <2> QED
      BY <1>0, <1>1, <1>m, <2>1
  <1>2. CASE /\ AddInstanceFinalizer(i) /\ inst[i].status # "absent"
             /\ snap[i].status = "live" /\ inst'[i].status = inst[i].status
             /\ inst'[i].fin <=> (inst[i].fin \/ ~snap[i].fin)
    BY <1>0, <1>2, <1>m
  <1>3. CASE ReleaseInstance(i) /\ inst'[i] = NoInstance /\ UNCHANGED res
    <2>1. /\ pc[i] = "status" /\ snap[i].status = "deleting" /\ snap'[i] = NoInstance
      BY <1>t, <1>3 DEF ReleaseInstance, EndPass, TypeOK
    <2>2. \A r \in Resources : i \notin res[r].fin
      BY <1>t, <2>1 DEF StillToRelease
    <2> QED
      BY <1>3, <1>n, <2>1, <2>2
  <1>4. CASE /\ inst[i].status = "live" /\ UNCHANGED <<res, pc, snap>>
             /\ inst[i].fin => inst'[i].fin /\ inst'[i].status = "deleting"
             /\ ~inst[i].fin => inst'[i] = NoInstance
    BY <1>0, <1>4, <1>n
  <1> QED
    BY <1>t, <1>1, <1>2, <1>3, <1>4, InstanceEffect

\* What a walk is still to come to stays so as long as the walk stands still.
LEMMA WalkStands ==
    ASSUME NEW i \in Instances, NEW r \in Resources,
           pc'[i] = pc[i], stage'[i] = stage[i], orgsLeft'[i] = orgsLeft[i],
           list'[i] = list[i], todo'[i] = todo[i],
           res'[r].inst = res[r].inst, res'[r].org = res[r].org,
           Current(i, r) \/ Later(i, r)
    PROVE  Current(i, r)' \/ Later(i, r)'
  <1>1. Listed(i)' = Listed(i)
    BY DEF Listed
  <1>2. OfStage(i, r, res[r])' <=> OfStage(i, r, res[r])
    BY DEF OfStage
  <1>3. Current(i, r) => Current(i, r)'
    BY <1>2 DEF Current
  <1>4. Later(i, r) => Later(i, r)'
    BY <1>1 DEF Later
  <1> QED
    BY <1>3, <1>4

\* An object is released when the walk comes to it.
LEMMA Released ==
    ASSUME TypeOK, PassShape, FreshReads, NEW i \in Instances, Release(i),
           i \in list[i][cur[i]].fin
    PROVE  i \notin res'[cur[i]].fin
  <1> DEFINE r == cur[i]
             fin == ReleasedFin(i)
  <1>1. r \in Resources /\ res[r] \in ResourceObject
    BY DEF TypeOK, PassShape, Release
  <1>2. res' = [res EXCEPT ![r] = Patched(@, fin)]
    BY DEF Release, ReleasedFin
  <1>3. res'[r] = Patched(res[r], fin)
    BY <1>1, <1>2 DEF TypeOK
  <1>4. i \notin fin
    BY DEF ReleasedFin, Landed, Latest, WithoutFinalizer
  <1> HIDE DEF fin
  <1> QED
    BY <1>1, <1>3, <1>4 DEF Patched, Absent, ResourceObject

\* The steps of the walk itself, for an object that carries the finalizer before and
\* after the step.
LEMMA WalkReleases ==
    ASSUME NEW a, Instances = {a}, Undisturbed, GuardInv, RemovalInv, [Next]_vars,
           NEW i \in Instances, snap[i].status = "deleting",
           NEW r \in Resources, i \in res[r].fin, i \in res'[r].fin,
           res'[r].inst = res[r].inst, res'[r].org = res[r].org,
           \/ Connect(i) \/ List(i) \/ Release(i) \/ NextKind(i) \/ EndWalk(i)
           \/ \E q \in Resources : Prune(i, q)
           \/ \E o \in Orgs : NextOrg(i, o)
    PROVE  /\ pc'[i] # "status"
           /\ pc'[i] \in {"list", "apply", "release"} => Current(i, r)' \/ Later(i, r)'
  <1> USE DEF ToStep
  <1>t. /\ TypeOK /\ PassShape /\ ObjectShape /\ FreshReads
        /\ KnownLabels /\ OrgsStay /\ WalkInReach /\ HeldInReach /\ StillToRelease
    BY DEF GuardInv, Undisturbed, RemovalInv
  <1>s. /\ stage[i] \in Stage /\ stage \in [Instances -> Stage]
        /\ pc \in [Instances -> PC] /\ list \in [Instances -> [Resources -> ResourceObject]]
        /\ todo \in [Instances -> SUBSET Resources]
        /\ orgsLeft \in [Instances -> SUBSET Orgs]
    BY <1>t DEF TypeOK
  <1>h. InReach(i, r, res[r])
    BY <1>t DEF HeldInReach
  <1>c. pc[i] \in {"list", "apply", "release"} => Current(i, r) \/ Later(i, r)
    BY <1>t DEF StillToRelease
  <1>r. r \in Users \/ r \in Orgs \/ r \in Features \/ r \in Clients
    BY DEF Resources
  <1>k. /\ Users \cap Orgs = {} /\ Users \cap Features = {} /\ Users \cap Clients = {}
        /\ Orgs \cap Features = {} /\ Orgs \cap Clients = {} /\ Features \cap Clients = {}
    BY ConstantsAssumption
  <1>1. CASE Connect(i)
    <2>1. stage[i] = FirstStage /\ stage'[i] = FirstStage /\ pc'[i] = "list" /\ res' = res
      BY <1>t, <1>s, <1>1 DEF Connect, WalkInReach, apiVars, walkVars
    <2>2. stage'[i].kind = "users"
      BY <2>1 DEF FirstStage
    <2>3. CASE r \in Users
      <3>1. OfStage(i, r, res[r])'
        BY <1>h, <1>k, <2>1, <2>2, <2>3 DEF OfStage, InReach
      <3> QED
        BY <2>1, <3>1 DEF Current
    <2>4. CASE r \notin Users
      BY <2>1, <2>2, <2>4 DEF Later
    <2> QED
      BY <2>3, <2>4
  <1>2. CASE List(i)
    <2>1. /\ pc[i] = "list" /\ pc'[i] = "apply" /\ cres = res /\ res' = res
          /\ UNCHANGED <<stage, orgsLeft>> /\ todo'[i] = Selected(i)
          /\ list'[i] = [q \in Resources |-> IF q \in Selected(i) THEN cres[q] ELSE Absent]
      BY <1>t, <1>s, <1>2 DEF List, apiVars
    <2>2. res[r].status # "absent"
      BY <1>t DEF ObjectShape
    <2>3. CASE OfStage(i, r, res[r])
      <3>1. r \in Selected(i)
        BY <2>1, <2>2, <2>3 DEF OfStage, Selected
      <3>2. r \in todo'[i] /\ list'[i][r] = res[r]
        BY <2>1, <3>1
      <3> QED
        BY <2>1, <3>2 DEF Current
    <2>4. CASE Later(i, r)
      <3>1. CASE stage[i].kind = "orgs"
        <4>1. r \in Features \cup Clients
          BY <2>4, <3>1 DEF Later
        <4>2. PICK o \in res[r].org : Way(i, o)
          BY <1>h, <1>k, <4>1 DEF InReach
        <4>3. o \in Resources /\ o \in Selected(i)
          BY <2>1, <3>1, <4>2 DEF Way, Selected, Resources
        <4>4. list'[i][o] = cres[o] /\ cres[o].status = "live"
          BY <2>1, <4>2, <4>3 DEF Way
        <4>5. o \in Listed(i)'
          BY <4>3, <4>4 DEF Listed
        <4> QED
          BY <2>1, <3>1, <4>1, <4>2, <4>5 DEF Later
      <3>2. CASE stage[i].kind # "orgs"
        BY <2>1, <2>4, <3>2 DEF Later
      <3> QED
        BY <3>1, <3>2
    <2> QED
      BY <1>c, <2>1, <2>3, <2>4 DEF Current
  <1>3. CASE Release(i)
    <2>1. /\ pc[i] = "release" /\ pc'[i] = "apply" /\ UNCHANGED <<stage, orgsLeft, list>>
          /\ todo'[i] = todo[i] \ {cur[i]}
      BY <1>s, <1>3 DEF Release
    <2>2. CASE Current(i, r)
      <3>1. r \in todo[i] /\ i \in list[i][r].fin
        BY <2>1, <2>2 DEF Current
      <3>2. r # cur[i]
        BY <1>t, <1>3, <3>1, Released
      <3> QED
        BY <2>1, <3>1, <3>2 DEF Current
    <2>3. CASE Later(i, r)
      <3>1. Listed(i)' = Listed(i)
        BY <2>1 DEF Listed
      <3> QED
        BY <2>1, <2>3, <3>1 DEF Later
    <2> QED
      BY <1>c, <2>1, <2>2, <2>3
  <1>4. CASE NextKind(i)
    <2>1. /\ pc[i] = "apply" /\ todo[i] = {} /\ pc'[i] = "list" /\ orgsLeft' = orgsLeft
          /\ stage[i].kind \in {"users", "features"}
      BY <1>s, <1>4 DEF NextKind
    <2>2. stage'[i] = [stage[i] EXCEPT !.kind = IF @ = "users" THEN "orgs" ELSE "clients"]
      BY <1>s, <1>4 DEF NextKind
    <2>3. /\ stage'[i].org = stage[i].org
          /\ stage[i].kind = "users" => stage'[i].kind = "orgs"
          /\ stage[i].kind = "features" => stage'[i].kind = "clients"
      BY <1>s, <2>2 DEF Stage
    <2>4. Later(i, r)
      BY <1>c, <2>1 DEF Current
    <2>5. CASE stage[i].kind = "users"
      <3>1. CASE r \in Orgs
        <4>1. OfStage(i, r, res[r])'
          BY <1>h, <1>k, <2>3, <2>5, <3>1 DEF OfStage, InReach
        <4> QED
          BY <2>1, <4>1 DEF Current
      <3>2. CASE r \in Features \cup Clients
        BY <2>1, <2>3, <2>5, <3>2 DEF Later
      <3> QED
        BY <1>r, <2>4, <2>5, <3>1, <3>2 DEF Later
    <2>6. CASE stage[i].kind = "features"
      <3>1. r \in Features \cup Clients
        BY <2>4, <2>6 DEF Later
      <3>2. CASE \E o \in res[r].org : o \in orgsLeft[i]
        BY <2>1, <2>3, <2>6, <3>1, <3>2 DEF Later
      <3>3. CASE r \in Clients /\ stage[i].org \in res[r].org
        <4>1. OfStage(i, r, res[r])'
          BY <2>3, <2>6, <3>3 DEF OfStage
        <4> QED
          BY <2>1, <4>1 DEF Current
      <3> QED
        BY <2>4, <2>6, <3>2, <3>3 DEF Later
    <2> QED
      BY <2>1, <2>5, <2>6
  <1>5. CASE EndWalk(i)
    <2>1. /\ pc[i] = "apply" /\ todo[i] = {} /\ stage[i].kind \in {"orgs", "clients"}
          /\ OrgsToVisit(i) = {}
      BY <1>5 DEF EndWalk
    <2>2. Later(i, r)
      BY <1>c, <2>1 DEF Current
    <2> QED
      BY <2>1, <2>2 DEF Later, OrgsToVisit
  <1>6. ASSUME NEW q \in Resources, Prune(i, q)
        PROVE  /\ pc'[i] # "status"
               /\ pc'[i] \in {"list", "apply", "release"} => Current(i, r)' \/ Later(i, r)'
    <2>1. /\ pc[i] = "apply" /\ pc'[i] = "release" /\ UNCHANGED <<stage, orgsLeft, list, todo>>
      BY <1>s, <1>6 DEF Prune
    <2>2. Listed(i)' = Listed(i)
      BY <2>1 DEF Listed
    <2>3. Current(i, r) => Current(i, r)'
      BY <2>1 DEF Current
    <2>4. Later(i, r) => Later(i, r)'
      BY <2>1, <2>2 DEF Later
    <2> QED
      BY <1>c, <2>1, <2>3, <2>4
  <1>7. ASSUME NEW o \in Orgs, NextOrg(i, o)
        PROVE  /\ pc'[i] # "status"
               /\ pc'[i] \in {"list", "apply", "release"} => Current(i, r)' \/ Later(i, r)'
    <2>1. /\ pc[i] = "apply" /\ todo[i] = {} /\ pc'[i] = "list"
          /\ stage'[i] = [kind |-> "features", org |-> o]
          /\ orgsLeft'[i] = OrgsToVisit(i) \ {o}
          /\ stage[i].kind \in {"orgs", "clients"}
      BY <1>s, <1>7 DEF NextOrg
    <2>2. stage'[i].kind = "features" /\ stage'[i].org = o
      BY <2>1
    <2>3. Later(i, r)
      BY <1>c, <2>1 DEF Current
    <2>4. r \in Features \cup Clients /\ \E p \in res[r].org : p \in OrgsToVisit(i)
      BY <2>1, <2>3 DEF Later, OrgsToVisit
    <2>5. PICK p \in res[r].org : p \in OrgsToVisit(i)
      BY <2>4
    <2>6. CASE p # o
      <3>1. p \in orgsLeft'[i] /\ p \in res'[r].org
        BY <2>1, <2>5, <2>6
      <3> QED
        BY <2>1, <2>2, <2>4, <3>1 DEF Later
    <2>7. CASE p = o /\ r \in Features
      <3>1. OfStage(i, r, res[r])'
        BY <2>2, <2>5, <2>7 DEF OfStage
      <3> QED
        BY <2>1, <3>1 DEF Current
    <2>8. CASE p = o /\ r \in Clients
      BY <2>1, <2>2, <2>5, <2>8 DEF Later
    <2> QED
      BY <2>4, <2>6, <2>7, <2>8
  <1> QED
    BY <1>1, <1>2, <1>3, <1>4, <1>5, <1>6, <1>7

LEMMA StillToReleaseNext ==
    ASSUME NEW a, Instances = {a}, Undisturbed, GuardInv, GuardInv', RemovalInv, [Next]_vars
    PROVE  StillToRelease'
  <1> USE DEF ToStep, apiVars, cacheVars, walkVars, workerVars, budgetVars, controllerVars
  <1>t. /\ TypeOK /\ PassShape /\ ObjectShape /\ ObjectShape'
        /\ KnownLabels /\ OrgsStay /\ StillToRelease
    BY DEF GuardInv, RemovalInv
  <1>o. ObjectStep
    BY <1>t, ObjectEffect
  <1> SUFFICES ASSUME NEW i \in Instances, snap'[i].status = "deleting",
                      NEW r \in Resources, i \in res'[r].fin
      PROVE  /\ pc'[i] # "status"
             /\ pc'[i] \in {"list", "apply", "release"} => Current(i, r)' \/ Later(i, r)'
    BY DEF StillToRelease
  <1> DEFINE Goal == /\ pc'[i] # "status"
                     /\ pc'[i] \in {"list", "apply", "release"} => Current(i, r)' \/ Later(i, r)'
  <1>0. \A j \in Instances : j = i
    OBVIOUS
  <1>1. CASE BeginPass(i)
    BY <1>t, <1>1 DEF BeginPass, TypeOK
  <1>2. CASE AddInstanceFinalizer(i)
    BY <1>t, <1>2 DEF AddInstanceFinalizer, TypeOK
  <1>3. CASE ~BeginPass(i) /\ ~AddInstanceFinalizer(i)
    <2>1. snap'[i] = snap[i] /\ snap[i].status = "deleting"
      <3>1. NoInstance.status # "deleting"
        BY DEF NoInstance
      <3> QED
        BY <1>t, <1>3, <3>1, SnapEffect
    <2>2. pc[i] # "mark"
      BY <1>t, <2>1 DEF PassShape
    <2>3. i \in res[r].fin
      <3>1. i \notin res[r].fin => Mark(i, r)
        BY <1>o DEF ObjectStep
      <3> QED
        BY <2>2, <3>1 DEF Mark
    <2>4. res'[r].inst = res[r].inst /\ res'[r].org = res[r].org
      <3>1. res[r].status # "absent" /\ res'[r].status # "absent"
        BY <1>t, <2>3 DEF ObjectShape
      <3> QED
        BY <1>o, <3>1 DEF ObjectStep
    <2>5. /\ pc[i] # "status"
          /\ pc[i] \in {"list", "apply", "release"} => Current(i, r) \/ Later(i, r)
      BY <1>t, <2>1, <2>3 DEF StillToRelease
    <2>6. ASSUME pc'[i] = pc[i], stage'[i] = stage[i], orgsLeft'[i] = orgsLeft[i],
                 list'[i] = list[i], todo'[i] = todo[i]
          PROVE  Goal
      BY <2>4, <2>5, <2>6, WalkStands
    <2>7. CASE \/ Connect(i) \/ List(i) \/ Release(i) \/ NextKind(i) \/ EndWalk(i)
               \/ \E q \in Resources : Prune(i, q)
               \/ \E o \in Orgs : NextOrg(i, o)
      BY <2>1, <2>3, <2>4, <2>7, WalkReleases
    <2>8. CASE \/ SkipPass(i) \/ WatchInstance(i) \/ EditInstance(i) \/ DeleteInstance(i)
               \/ UNCHANGED vars
      BY <2>6, <2>8 DEF SkipPass, WatchInstance, EditInstance, DeleteInstance, vars
    <2>9. CASE \/ ReleaseInstance(i) \/ PublishReady(i) \/ PublishFailed(i)
               \/ RefuseInstancePatch(i) \/ RefusePublish(i) \/ FailPass(i) \/ Restart
      BY <1>t, <2>9 DEF ReleaseInstance, PublishReady, PublishFailed, PublishStatus,
             RefuseInstancePatch, RefusePublish, FailPass, EndPass, Restart, TypeOK
    <2>10. ASSUME NEW q \in Resources,
                  \/ WatchResource(q) \/ WatchMetadata(q)
                  \/ CreateResource(q) \/ DeleteResource(q) \/ Relabel(q)
           PROVE  Goal
      BY <2>6, <2>10 DEF WatchResource, WatchMetadata, CreateResource, DeleteResource, Relabel
    <2>11. ASSUME NEW x \in Secrets, ChangeSecret(x) PROVE Goal
      BY <2>6, <2>11 DEF ChangeSecret
    \* A pass of a deleted instance marks and writes nothing.
    <2>12. /\ ~EndMark(i) /\ \A q \in Resources : ~Mark(i, q) /\ ~Sync(i, q)
      BY <2>1, <2>2 DEF EndMark, Mark, Sync, Keeps
    <2> QED
      BY <1>0, <1>3, <2>7, <2>8, <2>9, <2>10, <2>11, <2>12 DEF Next, Work, UserStep
  <1> QED
    BY <1>1, <1>2, <1>3

LEMMA NoneRebornNext ==
    ASSUME FreshReads, NoneReborn, [Next]_vars
    PROVE  NoneReborn'
  <1> USE DEF NoneReborn, cacheVars, controllerVars
  <1>1. ASSUME NEW i \in Instances, NEW r \in Resources, Mark(i, r) PROVE NoneReborn'
    BY <1>1, Zenon DEF Mark
  <1>2. ASSUME NEW r \in Resources, CreateResource(r) PROVE NoneReborn'
    BY <1>2 DEF CreateResource
  <1>3. ASSUME NEW i \in Instances,
               \/ SkipPass(i) \/ BeginPass(i) \/ AddInstanceFinalizer(i) \/ Connect(i)
               \/ List(i) \/ EndMark(i) \/ Release(i) \/ NextKind(i) \/ EndWalk(i)
               \/ ReleaseInstance(i) \/ PublishReady(i) \/ PublishFailed(i) \/ FailPass(i)
               \/ RefuseInstancePatch(i) \/ RefusePublish(i) \/ WatchInstance(i)
               \/ EditInstance(i) \/ DeleteInstance(i)
        PROVE  NoneReborn'
    BY <1>3 DEF SkipPass, BeginPass, AddInstanceFinalizer, Connect, List, EndMark, Release,
                NextKind, EndWalk, ReleaseInstance, PublishReady, PublishFailed, PublishStatus,
                FailPass, RefuseInstancePatch, RefusePublish, WatchInstance, EditInstance,
                DeleteInstance
  <1>4. ASSUME NEW i \in Instances, NEW r \in Resources, Sync(i, r) \/ Prune(i, r)
        PROVE  NoneReborn'
    BY <1>4 DEF Sync, Prune
  <1>5. ASSUME NEW r \in Resources,
               WatchResource(r) \/ WatchMetadata(r) \/ DeleteResource(r) \/ Relabel(r)
        PROVE  NoneReborn'
    BY <1>5 DEF WatchResource, WatchMetadata, DeleteResource, Relabel
  <1>6. ASSUME NEW i \in Instances, NEW o \in Orgs, NextOrg(i, o) PROVE NoneReborn'
    BY <1>6 DEF NextOrg
  <1>7. ASSUME NEW x \in Secrets, ChangeSecret(x) PROVE NoneReborn'
    BY <1>7 DEF ChangeSecret
  <1>8. CASE Restart \/ UNCHANGED vars
    BY <1>8 DEF Restart, vars
  <1> QED
    BY <1>1, <1>2, <1>3, <1>4, <1>5, <1>6, <1>7, <1>8 DEF Next, Work, UserStep

LEMMA RemovalInit ==
    ASSUME Init, GuardInv
    PROVE  RemovalInv
  <1>1. /\ \A i \in Instances : /\ pc[i] = "idle" /\ snap[i].status = "absent"
                                /\ list[i] = NothingListed /\ stage[i] = FirstStage
                                /\ orgsLeft[i] = {} /\ inst[i].status = "live"
        /\ cres = res
    BY InitInstances DEF Init, NoInstance
  <1>2. KnownLabels /\ \A r \in Resources : res[r].fin = {} /\ res[r].status # "deleting"
    BY LabelsInit
  <1>n. \A r \in Resources : NothingListed[r].status = "absent"
    BY DEF NothingListed, Absent
  <1>3. \A o \in Orgs : o \in Resources /\ res[o].status \in {"absent", "live"}
    BY <1>2 DEF Resources, GuardInv, TypeOK, ResourceObject, Status
  <1>4. OrgsStay
    BY <1>1, <1>n, <1>3 DEF OrgsStay
  <1>5. WalkInReach
    <2>1. FirstStage.kind \notin {"features", "clients"}
      BY DEF FirstStage
    <2> QED
      BY <1>1, <1>n, <2>1 DEF WalkInReach
  <1>6. HeldInReach /\ InstanceFinalizer /\ StillToRelease
    BY <1>1, <1>2 DEF HeldInReach, InstanceFinalizer, StillToRelease
  <1>7. NoneReborn
    BY DEF Init, NoneReborn
  <1> QED
    BY <1>2, <1>4, <1>5, <1>6, <1>7 DEF RemovalInv

LEMMA RemovalNext ==
    ASSUME NEW a, Instances = {a}, Undisturbed, GuardInv, GuardInv', RemovalInv, [Next]_vars
    PROVE  RemovalInv'
  <1>1. KnownLabels' /\ OrgsStay'
    BY KnownLabelsNext, OrgsStayNext DEF RemovalInv, GuardInv
  <1>2. WalkInReach' /\ HeldInReach'
    BY WalkInReachNext, HeldInReachNext DEF RemovalInv
  <1>3. InstanceFinalizer' /\ StillToRelease'
    BY InstanceFinalizerNext, StillToReleaseNext
  <1>4. NoneReborn'
    BY NoneRebornNext DEF RemovalInv, Undisturbed
  <1> QED
    BY <1>1, <1>2, <1>3, <1>4 DEF RemovalInv

-----------------------------------------------------------------------------

\* An instance leaves the API server only after its finalizer has left every object,
\* although failures and restarts interrupt the passes, users create and delete objects
\* while it is being deleted, and a pass reaches features and clients only by way of
\* the organizations it has listed before.
THEOREM GoneInstanceHasReleased ==
    ASSUME NEW a, Instances = {a}, PruneValues = {TRUE}, Undisturbed
    PROVE  Spec => []GoneInstanceHoldsNothing
  <1>1. Init => GuardInv /\ RemovalInv
    BY GuardInit, RemovalInit
  <1>2. GuardInv /\ RemovalInv /\ [Next]_vars => (GuardInv /\ RemovalInv)'
    BY GuardNext, RemovalNext
  <1>3. RemovalInv => GoneInstanceHoldsNothing
    BY DEF RemovalInv, InstanceFinalizer, GoneInstanceHoldsNothing
  <1> QED
    BY <1>1, <1>2, <1>3, PTL DEF Spec

\* And no document of it is left behind in the database.
THEOREM GoneInstanceHasPruned ==
    ASSUME NEW a, Instances = {a}, PruneValues = {TRUE}, Undisturbed
    PROVE  Spec => []PrunedWithInstance
  <1>1. Init => GuardInv /\ RemovalInv
    BY GuardInit, RemovalInit
  <1>2. GuardInv /\ RemovalInv /\ [Next]_vars => (GuardInv /\ RemovalInv)'
    BY GuardNext, RemovalNext
  <1>3. GuardInv /\ RemovalInv => PrunedWithInstance
    <2> SUFFICES ASSUME GuardInv, RemovalInv, NEW i \in Instances, inst[i].status = "absent",
                        NEW r \in docs[DatabaseOf[i]]
        PROVE  FALSE
      BY DEF PrunedWithInstance
    <2>1. r \in Resources
      BY ConstantsAssumption DEF GuardInv, TypeOK
    <2>2. i \in res[r].fin
      BY <2>1 DEF GuardInv, FinalizerGuardsDocument, RemovalInv, NoneReborn
    <2> QED
      BY <2>1, <2>2 DEF RemovalInv, InstanceFinalizer
  <1> QED
    BY <1>1, <1>2, <1>3, PTL DEF Spec

=============================================================================
