------------------------- MODULE InstanceStatusProofs -------------------------
(***************************************************************************)
(* Theorems about what a pass of InstanceReconciler publishes in the       *)
(* status of its instance.                                                 *)
(***************************************************************************)
EXTENDS InstanceReconcilerProofs

-----------------------------------------------------------------------------
(* The catalog, for any number of instances and with reads that are fresh  *)
(* when a pass begins.                                                     *)

\* Nobody but the pass changes the status that it has read.
StatusHeld ==
    \A i \in Instances : pc[i] # "idle" /\ inst[i].status # "absent" =>
        inst[i].ready = snap[i].ready /\ inst[i].catalog = snap[i].catalog

\* What the steps do to the status of instances.
LEMMA StatusEffect ==
    ASSUME TypeOK, NEW j \in Instances,
           AddInstanceFinalizer(j) \/ EditInstance(j) \/ DeleteInstance(j)
    PROVE  /\ \A i \in Instances \ {j} : inst'[i] = inst[i]
           /\ inst'[j].status = "absent" \/ inst[j].status # "absent"
           /\ inst'[j].status # "absent" =>
                 inst'[j].ready = inst[j].ready /\ inst'[j].catalog = inst[j].catalog
  <1>1. inst \in [Instances -> InstanceObject] /\ inst[j] \in InstanceObject
    BY DEF TypeOK
  <1>2. CASE AddInstanceFinalizer(j)
    <2>1. CASE UNCHANGED inst
      BY <2>1
    <2>2. CASE inst[j].status # "absent" /\ inst' = [inst EXCEPT ![j].fin = @ \/ ~snap[j].fin]
      BY <1>1, <2>2 DEF InstanceObject
    <2> QED
      BY <1>2, <2>1, <2>2 DEF AddInstanceFinalizer
  <1>3. CASE EditInstance(j)
    <2>1. PICK p \in PruneValues, s \in SuspendValues :
            inst' = [inst EXCEPT ![j].prune = p, ![j].suspend = s, ![j].gen = @ + 1]
      BY <1>3, Zenon DEF EditInstance
    <2>2. inst[j].status # "absent"
      BY <1>3 DEF EditInstance
    <2> QED
      BY <1>1, <2>1, <2>2 DEF InstanceObject
  <1>4. CASE DeleteInstance(j)
    <2> DEFINE new == IF inst[j].fin
                       THEN [inst[j] EXCEPT !.status = "deleting", !.gen = @ + 1]
                       ELSE NoInstance
    <2>1. inst' = [inst EXCEPT ![j] = new] /\ inst[j].status = "live"
      BY <1>4 DEF DeleteInstance
    <2>2. new.status = "absent" \/ (new.ready = inst[j].ready /\ new.catalog = inst[j].catalog)
      BY <1>1 DEF InstanceObject, NoInstance
    <2> HIDE DEF new
    <2> QED
      BY <1>1, <2>1, <2>2
  <1> QED
    BY <1>2, <1>3, <1>4

LEMMA StatusHeldNext ==
    ASSUME FreshReads, TypeOK, StatusHeld, [Next]_vars
    PROVE  StatusHeld'
  <1> USE DEF ToStep, apiVars, cacheVars, walkVars, workerVars, budgetVars, controllerVars
  <1>1. ASSUME NEW j \in Instances, BeginPass(j) PROVE StatusHeld'
    BY <1>1 DEF BeginPass, StatusHeld, TypeOK
  <1>2. ASSUME NEW j \in Instances,
               AddInstanceFinalizer(j) \/ EditInstance(j) \/ DeleteInstance(j)
        PROVE  StatusHeld'
    <2>1. snap' = snap /\ \A i \in Instances : pc'[i] = "idle" <=> pc[i] = "idle"
      BY <1>2 DEF AddInstanceFinalizer, EditInstance, DeleteInstance, TypeOK
    <2> QED
      BY <1>2, <2>1, StatusEffect DEF StatusHeld
  <1>3. ASSUME NEW j \in Instances, pc'[j] = "idle",
               \A i \in Instances \ {j} : pc'[i] = pc[i] /\ snap'[i] = snap[i] /\ inst'[i] = inst[i]
        PROVE  StatusHeld'
    BY <1>3 DEF StatusHeld
  <1>4. ASSUME NEW j \in Instances,
               \/ ReleaseInstance(j) \/ PublishReady(j) \/ PublishFailed(j)
               \/ RefuseInstancePatch(j) \/ RefusePublish(j)
        PROVE  StatusHeld'
    <2>1. EndPass(j) /\ \A i \in Instances \ {j} : inst'[i] = inst[i]
      BY <1>4 DEF ReleaseInstance, PublishReady, PublishFailed, PublishStatus,
                  RefuseInstancePatch, RefusePublish, TypeOK
    <2> QED
      BY <1>3, <2>1 DEF EndPass, TypeOK
  <1>5. ASSUME UNCHANGED <<inst, snap>>, \A i \in Instances : pc'[i] # "idle" => pc[i] # "idle"
        PROVE  StatusHeld'
    BY <1>5 DEF StatusHeld
  <1>6. ASSUME NEW j \in Instances,
               \/ SkipPass(j) \/ Connect(j) \/ List(j) \/ EndMark(j) \/ Release(j) \/ NextKind(j)
               \/ EndWalk(j) \/ FailPass(j) \/ WatchInstance(j)
        PROVE  StatusHeld'
    BY <1>5, <1>6 DEF SkipPass, Connect, List, EndMark, Release, NextKind, EndWalk, FailPass,
                      WatchInstance, TypeOK
  <1>7. ASSUME NEW j \in Instances, NEW r \in Resources, Mark(j, r) \/ Sync(j, r) \/ Prune(j, r)
        PROVE  StatusHeld'
    BY <1>5, <1>7 DEF Mark, Sync, Prune, TypeOK
  <1>8. ASSUME NEW j \in Instances, NEW o \in Orgs, NextOrg(j, o) PROVE StatusHeld'
    BY <1>5, <1>8 DEF NextOrg, TypeOK
  <1>9. ASSUME NEW r \in Resources,
               \/ WatchResource(r) \/ WatchMetadata(r)
               \/ CreateResource(r) \/ DeleteResource(r) \/ Relabel(r)
        PROVE  StatusHeld'
    BY <1>5, <1>9 DEF WatchResource, WatchMetadata, CreateResource, DeleteResource, Relabel
  <1>10. ASSUME NEW x \in Secrets, ChangeSecret(x) PROVE StatusHeld'
    BY <1>5, <1>10 DEF ChangeSecret
  <1>11. CASE Restart
    BY <1>11 DEF Restart, StatusHeld
  <1>12. CASE UNCHANGED vars
    BY <1>5, <1>12 DEF vars
  <1> QED
    BY <1>1, <1>2, <1>4, <1>6, <1>7, <1>8, <1>9, <1>10, <1>11, <1>12 DEF Next, Work, UserStep

\* A pass of a live instance that ends, without asking for another one, has published.
LEMMA EndIsPublished ==
    ASSUME TypeOK, [Next]_vars, NEW i \in Instances, pc[i] = "status", snap[i].status = "live",
           pc'[i] = "idle", i \notin queued', inst'[i].status # "absent"
    PROVE  PublishReady(i)
  <1> USE DEF ToStep, apiVars, cacheVars, walkVars, workerVars, budgetVars, controllerVars
  <1>1. pc' # pc
    OBVIOUS
  <1>2. ASSUME NEW j \in Instances, Work(j), j # i PROVE FALSE
    <2>1. pc'[i] = pc[i]
      BY <1>2 DEF Work, SkipPass, BeginPass, AddInstanceFinalizer, Connect, List, EndMark,
             Release, NextKind, EndWalk, ReleaseInstance, PublishReady, PublishFailed,
             PublishStatus, FailPass, RefuseInstancePatch, RefusePublish, EndPass, Mark, Sync,
             Prune, NextOrg, TypeOK
    <2> QED
      BY <2>1
  <1>3. CASE Work(i)
    BY <1>3 DEF Work, SkipPass, BeginPass, AddInstanceFinalizer, Connect, List, EndMark,
           Release, NextKind, EndWalk, ReleaseInstance, PublishFailed,
           FailPass, RefuseInstancePatch, RefusePublish, Requeue, Mark, Sync, Prune, NextOrg
  <1>4. CASE Restart
    BY <1>4 DEF Restart
  <1>5. ASSUME NEW j \in Instances, WatchInstance(j) PROVE FALSE
    BY <1>1, <1>5 DEF WatchInstance
  <1>6. ASSUME NEW r \in Resources, WatchResource(r) \/ WatchMetadata(r) PROVE FALSE
    BY <1>1, <1>6 DEF WatchResource, WatchMetadata
  <1>7. CASE UserStep
    BY <1>1, <1>7 DEF UserStep, CreateResource, DeleteResource, Relabel, EditInstance,
                     DeleteInstance, ChangeSecret
  <1> QED
    BY <1>1, <1>2, <1>3, <1>4, <1>5, <1>6, <1>7 DEF Next, vars

LEMMA PublishedStep ==
    ASSUME TypeOK, StatusHeld, [Next]_vars, NEW i \in Instances,
           pc[i] = "status", snap[i].status = "live", pc'[i] = "idle",
           i \notin queued', inst'[i].status # "absent"
    PROVE  inst'[i].ready = "True" /\ inst'[i].catalog = catalog[i]
  <1>1. PublishStatus(i, "True")
    BY EndIsPublished DEF PublishReady
  <1>2. inst[i].ready = snap[i].ready /\ inst[i].catalog = snap[i].catalog
    BY <1>1 DEF PublishStatus, StatusHeld
  <1>3. inst'[i] = StatusPatched(inst[i], snap[i], "True", catalog[i]) /\ inst[i] \in InstanceObject
    BY <1>1 DEF PublishStatus, TypeOK
  <1> QED
    BY <1>2, <1>3 DEF StatusPatched, InstanceObject

\* However many instances there are: when a pass ends and leaves no other one due, its
\* instance is published as ready, with the catalog that this pass has found, although
\* only the differences to what the pass has read are sent.
THEOREM CatalogIsPublished ==
    ASSUME FreshReads PROVE Spec => PublishedCatalogIsFound
  <1>1. Init => TypeOK /\ ListedOrgs /\ StatusHeld
    BY TypeInit DEF Init, ListedOrgs, FirstStage, StatusHeld
  <1>2. TypeOK /\ ListedOrgs /\ StatusHeld /\ [Next]_vars => (TypeOK /\ ListedOrgs /\ StatusHeld)'
    BY TypeNext, ListedOrgsNext, StatusHeldNext
  <1>3. TypeOK /\ StatusHeld /\ [Next]_vars =>
          [\A i \in Instances :
             /\ pc[i] = "status" /\ snap[i].status = "live" /\ pc'[i] = "idle"
             /\ i \notin queued' /\ inst'[i].status # "absent"
             => inst'[i].ready = "True" /\ inst'[i].catalog = catalog[i]]_vars
    BY PublishedStep
  <1> QED
    BY <1>1, <1>2, <1>3, PTL DEF Spec, PublishedCatalogIsFound

-----------------------------------------------------------------------------
(* The condition, for any number of instances with databases of their own, *)
(* with a cache as late as can be.  What is in the catalog has its         *)
(* document, or is in the list with its document still to come; and it is  *)
(* not listed a second time, when it could be pruned.                      *)

\* The organizations that may ever select the object.
OrgsOf(r) == {o \in Orgs : \E l \in LabelsOf[r] : o \in l.org}

\* One organization at most selects a feature or a client.
OneOrg == \A r \in Features \cup Clients : \A o, p \in OrgsOf(r) : o = p

Walking(i) == pc[i] \in {"list", "mark", "apply", "release"}

\* The walk lists the kind of the object next, or later.
ToList(i, r) ==
    LET k == stage[i].kind
        listing == pc[i] = "list"
        visiting == k \in {"features", "clients"}
    IN  \/ r \in Users /\ k = "users" /\ listing
        \/ r \in Orgs /\ (k = "users" \/ (k = "orgs" /\ listing))
        \/ r \in Features /\ \/ ~visiting
                             \/ \E o \in OrgsOf(r) : o \in orgsLeft[i]
                             \/ k = "features" /\ listing /\ stage[i].org \in OrgsOf(r)
        \/ r \in Clients /\ \/ ~visiting
                            \/ \E o \in OrgsOf(r) : o \in orgsLeft[i]
                            \/ (k = "features" \/ listing) /\ stage[i].org \in OrgsOf(r)

\* An organization is visited once, and so is what the catalog names.
ListedOnce ==
    \A i \in Instances : Walking(i) =>
        /\ stage[i].kind \in {"features", "clients"} => stage[i].org \notin orgsLeft[i]
        /\ \A r \in Resources : list[i][r].status # "absent" => ~ToList(i, r)
        /\ \A r \in catalog[i] : ~ToList(i, r)

\* The document of the object is still to be written.
ToWrite(i, r) ==
    /\ pc[i] \in {"mark", "apply", "release"} /\ list[i][r].status = "live"
    /\ pc[i] = "mark" \/ r \in todo[i]

CatalogHeld ==
    \A i \in Instances : Walking(i) \/ pc[i] = "status" =>
        \A r \in catalog[i] :
            /\ snap[i].status = "live"
            /\ list[i][r].status # "deleting"
            /\ r \in docs[DatabaseOf[i]] \/ ToWrite(i, r)

\* The walk lists the objects that its stage is about.
ListedKinds ==
    \A i \in Instances, r \in Resources : list[i][r].status # "absent" =>
        \/ stage[i].kind = "users" /\ r \in Users
        \/ stage[i].kind = "orgs" /\ r \in Orgs
        \/ stage[i].kind = "features" /\ r \in Features /\ stage[i].org \in OrgsOf(r)
        \/ stage[i].kind = "clients" /\ r \in Clients /\ stage[i].org \in OrgsOf(r)

\* Outside a walk nothing of it is left.
WalkStarts == \A i \in Instances : pc[i] \in Outside => stage[i] = FirstStage

HonestInv ==
    /\ TypeOK /\ ListedOrgs
    /\ PassShape
    /\ KnownLabels
    /\ WalkStarts
    /\ ListedKinds
    /\ ListedOnce
    /\ CatalogHeld

LEMMA WalkStartsNext ==
    ASSUME TypeOK, WalkStarts, [Next]_vars
    PROVE  WalkStarts'
  <1> SUFFICES ASSUME NEW i \in Instances, pc'[i] \in Outside PROVE stage'[i] = FirstStage
    BY DEF WalkStarts
  <1>1. ~List(i) /\ ~NextKind(i) /\ \A o \in Orgs : ~NextOrg(i, o)
    BY DEF List, NextKind, NextOrg, ToStep, TypeOK, Outside
  <1> QED
    BY <1>1, WalkEffect DEF WalkStarts

LEMMA ListedKindsNext ==
    ASSUME TypeOK, KnownLabels, ListedKinds, [Next]_vars
    PROVE  ListedKinds'
  <1> SUFFICES ASSUME NEW i \in Instances, NEW r \in Resources, list'[i][r].status # "absent"
      PROVE  \/ stage'[i].kind = "users" /\ r \in Users
             \/ stage'[i].kind = "orgs" /\ r \in Orgs
             \/ stage'[i].kind = "features" /\ r \in Features /\ stage'[i].org \in OrgsOf(r)
             \/ stage'[i].kind = "clients" /\ r \in Clients /\ stage'[i].org \in OrgsOf(r)
    BY DEF ListedKinds, OrgsOf
  <1>1. CASE stage'[i] = stage[i] /\ list'[i] = list[i]
    BY <1>1 DEF ListedKinds
  <1>2. CASE List(i)
    <2>1. stage' = stage /\ list'[i][r] = IF r \in Selected(i) THEN cres[r] ELSE Absent
      BY <1>2 DEF List, TypeOK
    <2>2. r \in Selected(i) /\ cres[r].status # "absent"
      BY <2>1 DEF Absent
    <2>3. cres[r].org \subseteq OrgsOf(r)
      <3>1. LabelsOfObject(cres[r]) \in LabelsOf[r] /\ LabelsOf[r] \subseteq Labels
        BY <2>2, ConstantsAssumption DEF KnownLabels
      <3>2. LabelsOfObject(cres[r]).org = cres[r].org /\ cres[r].org \subseteq Orgs
        BY DEF LabelsOfObject, TypeOK, ResourceObject
      <3> QED
        BY <3>1, <3>2 DEF OrgsOf
    <2> QED
      BY <2>1, <2>2, <2>3 DEF Selected
  <1>3. CASE list'[i] = NothingListed
    BY <1>3 DEF NothingListed, Absent
  <1>4. ASSUME NextKind(i) \/ \E o \in Orgs : NextOrg(i, o) PROVE list'[i] = NothingListed
    BY <1>4 DEF NextKind, NextOrg, TypeOK
  <1> QED
    BY <1>1, <1>2, <1>3, <1>4, WalkEffect

\* The walk moves on: what it is not to list any more stays so.
LEMMA ToListShrinks ==
    ASSUME TypeOK, [Next]_vars,
           NEW i \in Instances, Walking(i), Walking(i)', NEW r \in Resources, ToList(i, r)'
    PROVE  ToList(i, r)
  <1> USE DEF ToStep
  <1>s. /\ stage[i] \in Stage /\ stage \in [Instances -> Stage] /\ pc \in [Instances -> PC]
        /\ orgsLeft \in [Instances -> SUBSET Orgs]
    BY DEF TypeOK
  <1>1. CASE /\ stage'[i] = stage[i] /\ orgsLeft'[i] = orgsLeft[i]
             /\ pc'[i] = "list" => pc[i] = "list"
    BY <1>1 DEF ToList, OrgsOf
  <1>2. CASE List(i)
    <2>1. pc[i] = "list" /\ UNCHANGED <<stage, orgsLeft>>
      BY <1>2 DEF List
    <2> QED
      BY <2>1 DEF ToList, OrgsOf
  <1>3. CASE NextKind(i)
    <2>1. orgsLeft' = orgsLeft /\ stage[i].kind \in {"users", "features"} /\ pc'[i] = "list"
      BY <1>s, <1>3 DEF NextKind
    <2>2. stage'[i] = [stage[i] EXCEPT !.kind = IF @ = "users" THEN "orgs" ELSE "clients"]
      BY <1>s, <1>3 DEF NextKind
    <2>3. /\ stage'[i].org = stage[i].org
          /\ stage[i].kind = "users" => stage'[i].kind = "orgs"
          /\ stage[i].kind = "features" => stage'[i].kind = "clients"
      BY <1>s, <2>2 DEF Stage
    <2>4. CASE stage[i].kind = "users"
      BY <2>1, <2>3, <2>4 DEF ToList, OrgsOf
    <2>5. CASE stage[i].kind = "features"
      BY <2>1, <2>3, <2>5 DEF ToList, OrgsOf
    <2> QED
      BY <2>1, <2>4, <2>5
  <1>4. ASSUME NEW o \in Orgs, NextOrg(i, o) PROVE ToList(i, r)
    <2>1. /\ stage'[i] = [kind |-> "features", org |-> o]
          /\ orgsLeft'[i] = OrgsToVisit(i) \ {o} /\ o \in OrgsToVisit(i)
          /\ stage[i].kind \in {"orgs", "clients"}
      BY <1>s, <1>4 DEF NextOrg
    <2>2. stage'[i].kind = "features" /\ stage'[i].org = o
      BY <2>1
    <2>3. r \in Features \cup Clients /\ \E p \in OrgsOf(r) : p \in OrgsToVisit(i)
      BY <2>1, <2>2 DEF ToList, OrgsOf
    <2> QED
      BY <2>1, <2>3 DEF ToList, OrgsToVisit
  <1>5. CASE pc'[i] \in Outside
    BY <1>5 DEF Outside, Walking
  <1>6. pc'[i] = "list" => pc[i] = "list" \/ NextKind(i) \/ \E o \in Orgs : NextOrg(i, o)
    <2>1. ASSUME pc'[i] = "list", pc[i] # "list"
          PROVE  NextKind(i) \/ \E o \in Orgs : NextOrg(i, o)
      <3> USE DEF workerVars
      <3>1. ~SamePass(i) /\ ~Restart
        BY <2>1 DEF SamePass, Restart
      <3> QED
        BY <1>s, <2>1, <3>1, OthersStep DEF Walking, Work, SkipPass, BeginPass,
           AddInstanceFinalizer, Connect, List, EndMark, Release, EndWalk, ReleaseInstance,
           PublishReady, PublishFailed, PublishStatus, FailPass, RefuseInstancePatch,
           RefusePublish, EndPass, Mark, Sync, Prune
    <2> QED
      BY <2>1
  <1> QED
    BY <1>1, <1>2, <1>3, <1>4, <1>5, <1>6, WalkEffect

\* A walk begins with an empty catalog.
LEMMA WalkBegins ==
    ASSUME TypeOK, [Next]_vars, NEW i \in Instances, Walking(i)' \/ pc'[i] = "status"
    PROVE  \/ Walking(i)
           \/ pc[i] = "status" /\ pc'[i] = "status"
           \/ Connect(i) /\ catalog'[i] = {}
  <1> USE DEF ToStep, walkVars, workerVars
  <1> SUFFICES ASSUME ~Walking(i), ~(pc[i] = "status" /\ pc'[i] = "status")
      PROVE  Connect(i) /\ catalog'[i] = {}
    OBVIOUS
  <1>1. ~SamePass(i) /\ ~Restart
    BY DEF SamePass, Restart, Walking
  <1>2. Connect(i)
    BY <1>1, OthersStep DEF Work, SkipPass, BeginPass, AddInstanceFinalizer, List, EndMark,
       Release, NextKind, EndWalk, ReleaseInstance, PublishReady, PublishFailed,
       PublishStatus, FailPass, RefuseInstancePatch, RefusePublish, EndPass, Mark, Sync,
       Prune, NextOrg, Walking, TypeOK
  <1> QED
    BY <1>2 DEF Connect, TypeOK

\* What a step adds to the catalog of a walk that goes on is what it marks.
LEMMA CatalogEffect ==
    ASSUME TypeOK, [Next]_vars,
           NEW i \in Instances, Walking(i)' \/ pc'[i] = "status",
           NEW r \in catalog'[i], r \notin catalog[i]
    PROVE  Mark(i, r) /\ list[i][r].status = "live"
  <1> USE DEF ToStep, walkVars, workerVars
  <1>1. catalog' # catalog
    OBVIOUS
  <1>2. ~SamePass(i) /\ ~Restart
    BY DEF SamePass, Restart, Walking
  <1>3. Work(i)
    BY <1>2, OthersStep
  <1>4. ~BeginPass(i) /\ ~Connect(i)
    BY DEF BeginPass, Connect, TypeOK, Walking
  <1>5. ~(ReleaseInstance(i) \/ PublishReady(i) \/ PublishFailed(i) \/ RefuseInstancePatch(i)
          \/ RefusePublish(i))
    BY DEF ReleaseInstance, PublishReady, PublishFailed, PublishStatus, RefuseInstancePatch,
           RefusePublish, EndPass, TypeOK, Walking
  <1>6. ~(SkipPass(i) \/ AddInstanceFinalizer(i) \/ List(i) \/ EndMark(i) \/ Release(i)
          \/ NextKind(i) \/ EndWalk(i) \/ FailPass(i))
    BY <1>1 DEF SkipPass, AddInstanceFinalizer, List, EndMark, Release, NextKind, EndWalk, FailPass
  <1>7. /\ \A q \in Resources : ~Sync(i, q) /\ ~Prune(i, q)
        /\ \A o \in Orgs : ~NextOrg(i, o)
    BY <1>1 DEF Sync, Prune, NextOrg
  <1>8. PICK q \in Resources : Mark(i, q)
    BY <1>3, <1>4, <1>5, <1>6, <1>7 DEF Work
  <1>9. list[i][q].status = "live" /\ catalog' = [catalog EXCEPT ![i] = @ \cup {q}]
    BY <1>1, <1>8 DEF Mark
  <1>10. q = r
    BY <1>9 DEF TypeOK
  <1> QED
    BY <1>8, <1>9, <1>10

LEMMA ListedOnceNext ==
    ASSUME OneOrg, HonestInv, ListedKinds', [Next]_vars
    PROVE  ListedOnce'
  <1> USE DEF ToStep
  <1>t. TypeOK /\ PassShape /\ KnownLabels /\ WalkStarts /\ ListedOnce
    BY DEF HonestInv
  <1> SUFFICES ASSUME NEW i \in Instances, Walking(i)'
      PROVE  /\ stage'[i].kind \in {"features", "clients"} => stage'[i].org \notin orgsLeft'[i]
             /\ \A r \in Resources : list'[i][r].status # "absent" => ~ToList(i, r)'
             /\ \A r \in catalog'[i] : ~ToList(i, r)'
    BY DEF ListedOnce
  <1>n. \A r \in Resources : NothingListed[r].status = "absent"
    BY DEF NothingListed, Absent
  <1>f. FirstStage.kind = "users"
    BY DEF FirstStage
  <1>1. CASE ~Walking(i)
    <2>1. pc[i] \in Outside /\ pc'[i] \notin Outside
      BY <1>t, <1>1 DEF Walking, Outside, TypeOK, PC
    <2>2. stage'[i] = stage[i] /\ list'[i] = list[i]
      BY <1>t, <2>1, WalkEffect DEF Outside, List, NextKind, NextOrg
    <2>3. stage'[i].kind = "users" /\ list'[i] = NothingListed
      BY <1>t, <1>f, <2>1, <2>2 DEF WalkStarts, PassShape, Outside
    <2>4. catalog'[i] = {}
      BY <1>t, <1>1, WalkBegins DEF Walking
    <2> QED
      BY <1>n, <2>3, <2>4
  <1>2. CASE Walking(i)
    <2>0. /\ stage[i].kind \in {"features", "clients"} => stage[i].org \notin orgsLeft[i]
          /\ \A r \in Resources : list[i][r].status # "absent" => ~ToList(i, r)
          /\ \A r \in catalog[i] : ~ToList(i, r)
      BY <1>t, <1>2 DEF ListedOnce
    <2>s. \A r \in Resources : ToList(i, r)' => ToList(i, r)
      BY <1>t, <1>2, ToListShrinks
    <2>1. \A r \in catalog'[i] : ~ToList(i, r)'
      <3>1. \A r \in catalog'[i] \ catalog[i] : r \in Resources /\ list[i][r].status # "absent"
        <4>1. TypeOK'
          BY TypeNext DEF HonestInv
        <4>2. \A r \in catalog'[i] : r \in Resources
          BY <4>1 DEF TypeOK
        <4> QED
          BY <1>t, <4>2, CatalogEffect
      <3>2. \A r \in catalog[i] : r \in Resources
        BY <1>t DEF TypeOK
      <3> QED
        BY <2>0, <2>s, <3>1, <3>2
    <2>2. CASE stage'[i] = stage[i] /\ orgsLeft'[i] = orgsLeft[i] /\ list'[i] = list[i]
      BY <2>0, <2>1, <2>2, <2>s
    <2>3. CASE List(i)
      <3>1. pc'[i] # "list" /\ UNCHANGED <<stage, orgsLeft>>
        BY <1>t, <2>3 DEF List, TypeOK
      <3>2. ASSUME NEW r \in Resources, list'[i][r].status # "absent" PROVE ~ToList(i, r)'
        <4>1. \/ stage'[i].kind = "users" /\ r \in Users
              \/ stage'[i].kind = "orgs" /\ r \in Orgs
              \/ stage'[i].kind = "features" /\ r \in Features /\ stage'[i].org \in OrgsOf(r)
              \/ stage'[i].kind = "clients" /\ r \in Clients /\ stage'[i].org \in OrgsOf(r)
          BY <3>2 DEF ListedKinds, OrgsOf
        <4>2. /\ Users \cap Orgs = {} /\ Users \cap Features = {} /\ Users \cap Clients = {}
              /\ Orgs \cap Features = {} /\ Orgs \cap Clients = {} /\ Features \cap Clients = {}
          BY ConstantsAssumption
        <4>3. CASE stage'[i].kind = "users" /\ r \in Users
          BY <3>1, <4>2, <4>3 DEF ToList
        <4>4. CASE stage'[i].kind = "orgs" /\ r \in Orgs
          BY <3>1, <4>2, <4>4 DEF ToList
        <4>5. CASE /\ stage'[i].kind \in {"features", "clients"} /\ stage'[i].org \in OrgsOf(r)
                   /\ r \in Features \cup Clients
                   /\ stage'[i].kind = "features" <=> r \in Features
          <5>1. \A o \in OrgsOf(r) : o \notin orgsLeft'[i]
            BY <2>0, <3>1, <4>5 DEF OneOrg
          <5>2. \A o \in OrgsOf(r)' : o \notin orgsLeft'[i]
            BY <5>1 DEF OrgsOf
          <5> QED
            BY <3>1, <4>2, <4>5, <5>2 DEF ToList
        <4> QED
          BY <4>1, <4>2, <4>3, <4>4, <4>5
      <3> QED
        BY <2>0, <2>1, <3>1, <3>2
    <2>4. CASE NextKind(i)
      <3>1. list'[i] = NothingListed /\ orgsLeft' = orgsLeft
        BY <1>t, <2>4 DEF NextKind, TypeOK
      <3>2. /\ stage[i] \in Stage
            /\ stage'[i] = [stage[i] EXCEPT !.kind = IF @ = "users" THEN "orgs" ELSE "clients"]
            /\ stage[i].kind \in {"users", "features"}
        BY <1>t, <2>4 DEF NextKind, TypeOK
      <3>3. /\ stage'[i].org = stage[i].org
            /\ stage[i].kind = "users" => stage'[i].kind = "orgs"
        BY <3>2 DEF Stage
      <3> QED
        BY <1>n, <2>0, <2>1, <3>1, <3>2, <3>3
    <2>5. ASSUME NEW o \in Orgs, NextOrg(i, o)
          PROVE  /\ list'[i] = NothingListed
                 /\ stage'[i].org \notin orgsLeft'[i]
      BY <1>t, <2>5 DEF NextOrg, TypeOK
    <2>6. pc'[i] \notin Outside
      BY DEF Walking, Outside
    <2> QED
      BY <1>t, <1>n, <2>1, <2>2, <2>3, <2>4, <2>5, <2>6, WalkEffect
  <1> QED
    BY <1>1, <1>2

\* What the pass of a live instance has not listed as being deleted keeps its document
\* for as long as the pass goes on.
LEMMA WrittenStays ==
    ASSUME OwnDatabases, TypeOK, PassShape, [Next]_vars, NEW i \in Instances,
           snap[i].status = "live",
           NEW r \in Resources, list[i][r].status # "deleting", r \in docs[DatabaseOf[i]]
    PROVE  r \in docs'[DatabaseOf[i]]
  <1> USE ConstantsAssumption
  <1>t. docs \in [Databases -> SUBSET Resources] /\ list[i] \in [Resources -> ResourceObject]
    BY DEF TypeOK
  <1>1. ASSUME NEW q \in Resources, Sync(i, q) PROVE r \in docs'[DatabaseOf[i]]
    BY <1>t, <1>1 DEF Sync
  <1>2. ASSUME NEW q \in Resources, Prune(i, q) PROVE r \in docs'[DatabaseOf[i]]
    <2>1. list[i][q].status # "absent" /\ ~Keeps(i, q)
      BY <1>2 DEF PassShape, Prune
    <2>2. q # r
      BY <1>t, <2>1 DEF Keeps, ResourceObject, Status
    <2> QED
      BY <1>t, <1>2, <2>2 DEF Prune
  <1>3. ASSUME SkipPass(i) \/ BeginPass(i) \/ AddInstanceFinalizer(i) \/ Connect(i)
               \/ List(i) \/ EndMark(i) \/ Release(i) \/ NextKind(i) \/ EndWalk(i)
               \/ ReleaseInstance(i) \/ PublishReady(i) \/ PublishFailed(i) \/ FailPass(i)
               \/ RefuseInstancePatch(i) \/ RefusePublish(i) \/ Restart
        PROVE  docs' = docs
    BY <1>3 DEF SkipPass, BeginPass, AddInstanceFinalizer, Connect, List, EndMark, Release,
           NextKind, EndWalk, ReleaseInstance, PublishReady, PublishFailed, PublishStatus,
           FailPass, RefuseInstancePatch, RefusePublish, Restart
  <1>4. ASSUME NEW q \in Resources, Mark(i, q) PROVE docs' = docs
    BY <1>4 DEF Mark
  <1>5. ASSUME NEW o \in Orgs, NextOrg(i, o) PROVE docs' = docs
    BY <1>5 DEF NextOrg
  <1> QED
    BY <1>1, <1>2, <1>3, <1>4, <1>5, OthersStep DEF Work

\* What the walk has in hand: an object whose document is still to be written is
\* written, or stays to be written; and what it lists anew is not in the catalog.
LEMMA WriteStep ==
    ASSUME TypeOK, PassShape, ListedOnce, ListedKinds', [Next]_vars,
           NEW i \in Instances, Walking(i) \/ pc[i] = "status", snap[i].status = "live",
           Walking(i)' \/ pc'[i] = "status",
           NEW r \in catalog[i], r \in Resources, list[i][r].status # "deleting"
    PROVE  /\ snap'[i] = snap[i]
           /\ list'[i][r].status # "deleting"
           /\ ToWrite(i, r) => ToWrite(i, r)' \/ r \in docs'[DatabaseOf[i]]
  <1> USE ConstantsAssumption DEF ToStep, walkVars, workerVars
  <1> DEFINE Goal == /\ snap'[i] = snap[i]
                     /\ list'[i][r].status # "deleting"
                     /\ ToWrite(i, r) => ToWrite(i, r)' \/ r \in docs'[DatabaseOf[i]]
  <1>t. list[i][r] \in ResourceObject /\ NothingListed[r].status = "absent"
    BY DEF TypeOK, NothingListed, Absent
  <1>1. ASSUME SamePass(i) PROVE Goal
    BY <1>1 DEF SamePass, ToWrite
  <1>2. ASSUME List(i) PROVE Goal
    <2>1. pc[i] = "list" /\ stage' = stage /\ snap' = snap
      BY <1>2 DEF List
    <2>2. ~ToList(i, r)
      BY <2>1 DEF ListedOnce, Walking
    <2>3. list'[i][r].status = "absent"
      <3>1. ASSUME list'[i][r].status # "absent" PROVE ToList(i, r)
        <4>1. \/ stage[i].kind = "users" /\ r \in Users
              \/ stage[i].kind = "orgs" /\ r \in Orgs
              \/ stage[i].kind = "features" /\ r \in Features /\ stage[i].org \in OrgsOf(r)
              \/ stage[i].kind = "clients" /\ r \in Clients /\ stage[i].org \in OrgsOf(r)
          BY <2>1, <3>1 DEF ListedKinds, OrgsOf
        <4> QED
          BY <2>1, <4>1 DEF ToList
      <3> QED
        BY <2>2, <3>1
    <2> QED
      BY <2>1, <2>3 DEF ToWrite
  <1>3. ASSUME NEW q \in Resources, Mark(i, q) PROVE Goal
    BY <1>3 DEF Mark, ToWrite
  <1>4. ASSUME EndMark(i) PROVE Goal
    <2>1. list' = list /\ snap' = snap /\ pc'[i] = "apply" /\ todo'[i] = Listed(i)
      BY <1>t, <1>4 DEF EndMark, TypeOK
    <2> QED
      BY <2>1 DEF ToWrite, Listed
  <1>5. ASSUME NEW q \in Resources, Sync(i, q) PROVE Goal
    BY <1>t, <1>5 DEF Sync, ToWrite, TypeOK
  <1>6. ASSUME NEW q \in Resources, Prune(i, q) PROVE Goal
    BY <1>t, <1>6 DEF Prune, ToWrite, TypeOK
  <1>7. ASSUME Release(i) PROVE Goal
    <2>1. ~Keeps(i, cur[i]) /\ pc[i] = "release" /\ pc'[i] = "apply" /\ list' = list
          /\ snap' = snap /\ todo'[i] = todo[i] \ {cur[i]}
      BY <1>t, <1>7 DEF PassShape, Release, TypeOK
    <2> QED
      BY <2>1 DEF ToWrite, Keeps
  <1>8. ASSUME NextKind(i) \/ EndWalk(i) \/ \E o \in Orgs : NextOrg(i, o) PROVE Goal
    <2>1. pc[i] = "apply" /\ todo[i] = {} /\ list'[i] = NothingListed /\ snap' = snap
      BY <1>t, <1>8 DEF NextKind, EndWalk, NextOrg, LeaveWalk, TypeOK
    <2> QED
      BY <1>t, <2>1 DEF ToWrite
  <1>9. ~(SkipPass(i) \/ BeginPass(i) \/ AddInstanceFinalizer(i) \/ Connect(i))
    BY DEF SkipPass, BeginPass, AddInstanceFinalizer, Connect, Walking
  <1>10. ~(ReleaseInstance(i) \/ PublishReady(i) \/ PublishFailed(i) \/ FailPass(i)
           \/ RefuseInstancePatch(i) \/ RefusePublish(i) \/ Restart)
    BY DEF ReleaseInstance, PublishReady, PublishFailed, PublishStatus, FailPass,
           RefuseInstancePatch, RefusePublish, EndPass, Restart, Walking, TypeOK
  <1> QED
    BY <1>1, <1>2, <1>3, <1>4, <1>5, <1>6, <1>7, <1>8, <1>9, <1>10, OthersStep DEF Work

LEMMA CatalogHeldNext ==
    ASSUME OwnDatabases, HonestInv, TypeOK', ListedKinds', [Next]_vars
    PROVE  CatalogHeld'
  <1>t. TypeOK /\ PassShape /\ CatalogHeld /\ ListedOnce
    BY DEF HonestInv
  <1> SUFFICES ASSUME NEW i \in Instances, Walking(i)' \/ pc'[i] = "status", NEW r \in catalog'[i]
      PROVE  /\ snap'[i].status = "live"
             /\ list'[i][r].status # "deleting"
             /\ r \in docs'[DatabaseOf[i]] \/ ToWrite(i, r)'
    BY DEF CatalogHeld
  <1>r. r \in Resources
    BY DEF TypeOK
  <1>1. CASE r \in catalog[i]
    <2>1. Walking(i) \/ pc[i] = "status"
      BY <1>t, WalkBegins
    <2>2. /\ snap[i].status = "live"
          /\ list[i][r].status # "deleting"
          /\ r \in docs[DatabaseOf[i]] \/ ToWrite(i, r)
      BY <1>t, <1>1, <2>1 DEF CatalogHeld
    <2>3. r \in docs[DatabaseOf[i]] => r \in docs'[DatabaseOf[i]]
      BY <1>t, <1>r, <2>2, WrittenStays
    <2>4. /\ snap'[i] = snap[i]
          /\ list'[i][r].status # "deleting"
          /\ ToWrite(i, r) => ToWrite(i, r)' \/ r \in docs'[DatabaseOf[i]]
      BY <1>t, <1>1, <1>r, <2>1, <2>2, WriteStep
    <2> QED
      BY <2>2, <2>3, <2>4
  <1>2. CASE r \notin catalog[i]
    <2>1. Mark(i, r) /\ list[i][r].status = "live"
      BY <1>t, <1>2, CatalogEffect
    <2>2. pc[i] = "mark" /\ snap[i].status = "live" /\ UNCHANGED <<pc, snap, list>>
      BY <1>t, <2>1 DEF Mark, PassShape
    <2> QED
      BY <2>1, <2>2 DEF ToWrite
  <1> QED
    BY <1>1, <1>2

LEMMA HonestInit ==
    ASSUME Init PROVE HonestInv
  <1>1. \A i \in Instances : /\ pc[i] = "idle" /\ stage[i] = FirstStage
                             /\ list[i] = NothingListed
                             /\ todo[i] = {} /\ snap[i].status = "absent"
    BY DEF Init, NoInstance
  <1>n. \A r \in Resources : NothingListed[r].status = "absent"
    BY DEF NothingListed, Absent
  <1>2. PassShape /\ WalkStarts /\ ListedKinds /\ ListedOnce /\ CatalogHeld
    BY <1>1, <1>n DEF PassShape, WalkStarts, ListedKinds, ListedOnce, CatalogHeld, Walking
  <1>3. ListedOrgs
    BY <1>1 DEF ListedOrgs, FirstStage
  <1> QED
    BY <1>2, <1>3, TypeInit, LabelsInit DEF HonestInv

LEMMA HonestNext ==
    ASSUME OwnDatabases, OneOrg, HonestInv, [Next]_vars
    PROVE  HonestInv'
  <1>1. TypeOK /\ ListedOrgs /\ PassShape /\ KnownLabels /\ WalkStarts /\ ListedKinds
    BY DEF HonestInv
  <1>2. TypeOK' /\ ListedOrgs' /\ PassShape' /\ KnownLabels' /\ WalkStarts' /\ ListedKinds'
    BY <1>1, TypeNext, ListedOrgsNext, PassShapeNext, KnownLabelsNext, WalkStartsNext,
       ListedKindsNext
  <1>3. ListedOnce' /\ CatalogHeld'
    BY <1>2, ListedOnceNext, CatalogHeldNext
  <1> QED
    BY <1>2, <1>3 DEF HonestInv

\* However many instances there are, each with its own database: none is published as
\* ready with an object in its catalog that has no document, although the cache may be
\* late, and although users delete, create and relabel objects, finalizers get lost to
\* other instances, and the process restarts in the middle of the pass.  For objects
\* that one organization at most selects.
THEOREM ReadyTellsTheTruth ==
    ASSUME OwnDatabases, OneOrg
    PROVE  Spec => ReadyIsHonest
  <1>1. HonestInv /\ [Next]_vars => HonestInv'
    BY HonestNext
  <1>2. HonestInv /\ [Next]_vars =>
          [\A i \in Instances :
             pc[i] = "status" /\ pc'[i] = "idle" /\ inst'[i].ready = "True"
                => catalog[i] \subseteq docs[DatabaseOf[i]]]_vars
    <2>1. HonestInv =>
            \A i \in Instances : pc[i] = "status" => catalog[i] \subseteq docs[DatabaseOf[i]]
      BY DEF HonestInv, CatalogHeld, ToWrite
    <2> QED
      BY <2>1
  <1> QED
    BY HonestInit, <1>1, <1>2, PTL DEF Spec, ReadyIsHonest

=============================================================================
