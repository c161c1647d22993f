------------------------- MODULE InstanceReconciler -------------------------
(***************************************************************************)
(* The reconciler of GrowthbookInstance objects                            *)
(* (internal/controllers/instance_controller.go) between the two stores it *)
(* keeps in step: the Kubernetes API server, which it reads through an     *)
(* informer cache that lags, and the MongoDB database of a growthbook      *)
(* installation.                                                           *)
(*                                                                         *)
(* One worker per instance walks a pass: read the instance, put a          *)
(* finalizer on it, connect, then for the users, for the organizations,    *)
(* and for the features and the clients of every organization listed: list *)
(* the matching objects, put a finalizer on each, write or prune each      *)
(* document; and publish the status.  Every call to the API server or to   *)
(* the database is a step of its own, so cluster users, the cache, the     *)
(* other workers, failures and restarts come between any two of them.      *)
(*                                                                         *)
(* A document is identified with its object (GetID); what it holds is left *)
(* to the modules about the growthbook package.  Labels are known by the   *)
(* selectors that match them.                                              *)
(***************************************************************************)
EXTENDS Naturals

CONSTANTS
    Instances,      \* GrowthbookInstance objects; one worker each
    Users, Orgs, Features, Clients,  \* the objects of the other four kinds
    Databases,      \* MongoDB databases
    DatabaseOf,     \* the database spec.mongodb of an instance points to
    None,           \* no organization, no object
    LabelsOf,       \* the labels users may give to a resource
    PruneValues,    \* the values users may give to spec.prune
    SuspendValues,  \* the values users may give to spec.suspend
    Interval,       \* the instances with a spec.interval
    Deletable,      \* the objects users may delete
    Secrets,        \* the objects whose referenced secret may go missing
    FreshReads,     \* TRUE: a read waits until the caches have caught up
    MaxOps,         \* bound on the edits users make
    MaxFaults       \* bound on failing calls and restarts

Resources == Users \cup Orgs \cup Features \cup Clients

\* Labels, as the instances and the organizations whose selector matches.
Labels == [inst : SUBSET Instances, org : SUBSET Orgs]

ASSUME ConstantsAssumption ==
    /\ Users \cap Orgs = {} /\ Users \cap Features = {} /\ Users \cap Clients = {}
    /\ Orgs \cap Features = {} /\ Orgs \cap Clients = {}
    /\ Features \cap Clients = {} /\ Resources \cap Instances = {}
    /\ None \notin Resources
    /\ DatabaseOf \in [Instances -> Databases]
    /\ LabelsOf \in [Resources -> SUBSET Labels]
    /\ PruneValues \subseteq BOOLEAN /\ SuspendValues \subseteq BOOLEAN
    /\ Interval \subseteq Instances
    /\ Deletable \subseteq Instances \cup Resources
    /\ Secrets \subseteq Instances \cup Users \cup Clients
    /\ FreshReads \in BOOLEAN
    /\ MaxOps \in Nat /\ MaxFaults \in Nat

VARIABLES
    inst,     \* the GrowthbookInstance objects at the API server
    res,      \* the other objects at the API server
    cinst,    \* the informer cache's copy of inst
    cres,     \* the informer cache's copy of res
    mres,     \* the copy in the metadata cache, an informer of its own
    reborn,   \* history: objects made while mres had finalizers of the last one
    missing,  \* the objects whose secret does not exist
    queued,   \* the work queue: instances waiting for a pass
    docs,     \* the documents in each database
    pc,       \* where the worker of each instance is in its pass
    snap,     \* the instance as the worker read it
    stage,    \* the kind, and the organization, being reconciled
    orgsLeft, \* organizations whose features and clients are to come
    list,     \* the objects as the worker listed them
    todo,     \* the listed objects the present loop has not reached
    cur,      \* the object whose finalizer is to be removed next
    catalog,  \* status.subResourceCatalog as the pass builds it
    ops,      \* edits made by users so far
    faults    \* failing calls and restarts so far

apiVars    == <<inst, res>>
cacheVars  == <<cinst, cres, mres, reborn>>
walkVars   == <<stage, orgsLeft, list, todo, cur>>
workerVars == <<pc, snap, walkVars, catalog>>
budgetVars == <<ops, faults>>
vars == <<apiVars, cacheVars, missing, queued, docs, workerVars, budgetVars>>

-----------------------------------------------------------------------------
(* The objects.                                                            *)

Status == {"absent", "live", "deleting"}  \* deleting: deletionTimestamp is set

ResourceObject ==
    [status : Status, fin : SUBSET Instances,
     inst : SUBSET Instances, org : SUBSET Orgs]

InstanceObject ==
    [status : Status, fin : BOOLEAN, prune : BOOLEAN, suspend : BOOLEAN,
     gen : Nat, ready : {"Unknown", "True", "False"}, observed : Nat,
     catalog : SUBSET Resources]

Absent == [status |-> "absent", fin |-> {}, inst |-> {}, org |-> {}]
NothingListed == [r \in Resources |-> Absent]
Fresh(l) == [status |-> "live", fin |-> {}, inst |-> l.inst, org |-> l.org]

NoInstance ==
    [status |-> "absent", fin |-> FALSE, prune |-> FALSE, suspend |-> FALSE,
     gen |-> 0, ready |-> "Unknown", observed |-> 0, catalog |-> {}]
NewInstance(p, s) ==
    [NoInstance EXCEPT !.status = "live", !.prune = p, !.suspend = s, !.gen = 1]

Kinds == {"users", "orgs", "features", "clients"}
Stage == [kind : Kinds, org : Orgs \cup {None}]
FirstStage == [kind |-> "users", org |-> None]
PC == {"idle", "finalizer", "connect", "list", "mark", "apply", "release",
       "status", "failed"}

TypeOK ==
    /\ inst \in [Instances -> InstanceObject]
    /\ res \in [Resources -> ResourceObject]
    /\ cinst \in [Instances -> InstanceObject]
    /\ cres \in [Resources -> ResourceObject]
    /\ mres \in [Resources -> ResourceObject]
    /\ reborn \subseteq Resources
    /\ missing \subseteq Secrets
    /\ queued \subseteq Instances
    /\ docs \in [Databases -> SUBSET Resources]
    /\ pc \in [Instances -> PC]
    /\ snap \in [Instances -> InstanceObject]
    /\ stage \in [Instances -> Stage]
    /\ orgsLeft \in [Instances -> SUBSET Orgs]
    /\ list \in [Instances -> [Resources -> ResourceObject]]
    /\ todo \in [Instances -> SUBSET Resources]
    /\ cur \in [Instances -> Resources \cup {None}]
    /\ catalog \in [Instances -> SUBSET Resources]
    /\ ops \in 0 .. MaxOps
    /\ faults \in 0 .. MaxFaults

Init ==
    /\ inst \in [Instances -> {NewInstance(p, s) : p \in PruneValues, s \in SuspendValues}]
    /\ res \in {f \in [Resources -> {Absent} \cup {Fresh(l) : l \in Labels}] :
                  \A r \in Resources :
                     f[r] \in {Absent} \cup {Fresh(l) : l \in LabelsOf[r]}}
    /\ cinst = inst
    /\ cres = res
    /\ mres = res
    /\ reborn = {}
    /\ missing = {}
    /\ queued = Instances
    /\ docs = [d \in Databases |-> {}]
    /\ pc = [i \in Instances |-> "idle"]
    /\ snap = [i \in Instances |-> NoInstance]
    /\ stage = [i \in Instances |-> FirstStage]
    /\ orgsLeft = [i \in Instances |-> {}]
    /\ list = [i \in Instances |-> NothingListed]
    /\ todo = [i \in Instances |-> {}]
    /\ cur = [i \in Instances |-> None]
    /\ catalog = [i \in Instances |-> {}]
    /\ ops = 0
    /\ faults = 0

-----------------------------------------------------------------------------
(* A metadata patch.  patch() gets the latest metadata from a cache of its *)
(* own and sends its difference to the object as it was listed plus or     *)
(* minus one finalizer.  When both caches saw the same version, the        *)
(* difference carries no resourceVersion: it overwrites what others wrote  *)
(* since, also on an object of this name that was created anew.  When they *)
(* saw different versions it carries the listed resourceVersion, and a     *)
(* server that has moved on answers with a conflict (see Refused).         *)

\* What Get returns for listed object old.  A cache that has caught up returns
\* the listed version, or one that makes the server refuse the patch.
Latest(r, old) == IF FreshReads THEN old ELSE mres[r]

\* The difference to metadata m is not refused for the version of the object.
Lands(m, old, obj) == m.status # "absent" /\ (m = old \/ old = obj)

\* The finalizers of the server's object then: a list that does not differ is
\* not sent, whatever the server has.
Landed(m, obj, wanted) == IF wanted = m.fin THEN obj.fin ELSE wanted

\* The server refuses new finalizers on an object that is being deleted.
Acceptable(obj, fin) ==
    /\ obj.status # "absent"
    /\ obj.status = "deleting" => fin \subseteq obj.fin

\* An object being deleted goes with its last finalizer.
Patched(obj, fin) ==
    IF obj.status = "deleting" /\ fin = {} THEN Absent ELSE [obj EXCEPT !.fin = fin]

\* Mutant: the name of the finalizer is built without the instance.
Mutant_WithFinalizer(i, old) == old.fin \cup {None}

WithFinalizer(i, old) == old.fin \cup {i}
WithoutFinalizer(i, old) == old.fin \ {i}

\* Mutant: the catalog is only sent along with a change of the condition.
Mutant_StatusPatched(obj, old, ready, cat) ==
    IF ready = old.ready THEN [obj EXCEPT !.observed = old.gen]
    ELSE [obj EXCEPT !.ready = ready, !.observed = old.gen, !.catalog = cat]

\* patchStatus: the fields that differ between the cached instance, which is
\* the one the pass has read, and the one it computed.
StatusPatched(obj, old, ready, cat) ==
    [obj EXCEPT !.ready    = IF ready = old.ready THEN @ ELSE ready,
                !.observed = IF old.gen = old.observed THEN @ ELSE old.gen,
                !.catalog  = IF cat = old.catalog THEN @ ELSE cat]

-----------------------------------------------------------------------------
(* The pass.                                                               *)

ToStep(i, p) == pc' = [pc EXCEPT ![i] = p]

\* The walk over the objects is over: its locals go away.
LeaveWalk(i) ==
    /\ stage' = [stage EXCEPT ![i] = FirstStage]
    /\ orgsLeft' = [orgsLeft EXCEPT ![i] = {}]
    /\ list' = [list EXCEPT ![i] = NothingListed]
    /\ todo' = [todo EXCEPT ![i] = {}]
    /\ cur' = [cur EXCEPT ![i] = None]

\* The pass is over.
EndPass(i) ==
    /\ ToStep(i, "idle")
    /\ snap' = [snap EXCEPT ![i] = NoInstance]
    /\ catalog' = [catalog EXCEPT ![i] = {}]
    /\ UNCHANGED walkVars

Requeue(i) == queued' = queued \cup {i}

\* The instance is gone or suspended: the request is dropped.
SkipPass(i) ==
    /\ pc[i] = "idle" /\ i \in queued
    /\ FreshReads => cinst[i] = inst[i]
    /\ cinst[i].status = "absent" \/ cinst[i].suspend
    /\ queued' = queued \ {i}
    /\ UNCHANGED <<apiVars, cacheVars, missing, docs, workerVars, budgetVars>>

BeginPass(i) ==
    /\ pc[i] = "idle" /\ i \in queued
    /\ FreshReads => cinst[i] = inst[i]
    /\ cinst[i].status # "absent" /\ ~cinst[i].suspend
    /\ queued' = queued \ {i}
    /\ snap' = [snap EXCEPT ![i] = cinst[i]]
    /\ catalog' = [catalog EXCEPT ![i] = cinst[i].catalog]
    /\ ToStep(i, "finalizer")
    /\ UNCHANGED <<apiVars, cacheVars, missing, docs, walkVars, budgetVars>>

\* addFinalizer on the instance itself; nothing is sent once it is deleted.
AddInstanceFinalizer(i) ==
    /\ pc[i] = "finalizer"
    /\ \/ snap[i].status = "deleting" /\ UNCHANGED inst
       \/ /\ snap[i].status = "live"
          /\ inst[i].status # "absent"
          /\ snap[i].fin \/ inst[i].status = "live" \/ inst[i].fin
          /\ inst' = [inst EXCEPT ![i].fin = @ \/ ~snap[i].fin]
    /\ ToStep(i, "connect")
    /\ UNCHANGED <<res, cacheVars, missing, queued, docs, snap, walkVars,
                   catalog, budgetVars>>

\* The credentials are read, the database is opened, the catalog is reset.
Connect(i) ==
    /\ pc[i] = "connect"
    /\ i \notin missing
    /\ catalog' = [catalog EXCEPT ![i] = {}]
    /\ ToStep(i, "list")
    /\ UNCHANGED <<apiVars, cacheVars, missing, queued, docs, snap, walkVars,
                   budgetVars>>

\* The cached objects of the present stage.  Users and organizations are
\* selected by the instance, features and clients by the organization alone:
\* the requirements of the instance's selector are handed to selector.Add,
\* whose result is dropped.
Selected(i) ==
    LET k == stage[i].kind
        visited == stage[i].org
    IN  {r \in Resources : cres[r].status # "absent" /\
           \/ k = "users"    /\ r \in Users    /\ i \in cres[r].inst
           \/ k = "orgs"     /\ r \in Orgs     /\ i \in cres[r].inst
           \/ k = "features" /\ r \in Features /\ visited \in cres[r].org
           \/ k = "clients"  /\ r \in Clients  /\ visited \in cres[r].org}

Listed(i) == {r \in Resources : list[i][r].status # "absent"}

\* Mutant: the objects are written without having got the finalizer first.
Mutant_List(i) ==
    /\ pc[i] = "list"
    /\ FreshReads => cres = res
    /\ LET sel == Selected(i)
       IN  /\ list' = [list EXCEPT ![i] =
                         [r \in Resources |-> IF r \in sel THEN cres[r] ELSE Absent]]
           /\ todo' = [todo EXCEPT ![i] = sel]
    /\ ToStep(i, "apply")
    /\ UNCHANGED <<apiVars, cacheVars, missing, queued, docs, snap, stage,
                   orgsLeft, cur, catalog, budgetVars>>

List(i) ==
    /\ pc[i] = "list"
    /\ FreshReads => cres = res
    /\ LET sel == Selected(i)
       IN  /\ list' = [list EXCEPT ![i] =
                         [r \in Resources |-> IF r \in sel THEN cres[r] ELSE Absent]]
           /\ todo' = [todo EXCEPT ![i] = sel]
    /\ ToStep(i, IF snap[i].status = "live" THEN "mark" ELSE "apply")
    /\ UNCHANGED <<apiVars, cacheVars, missing, queued, docs, snap, stage,
                   orgsLeft, cur, catalog, budgetVars>>

\* First loop: the finalizer of this instance goes on every listed object
\* that is not being deleted, and the object into the catalog.
Mark(i, r) ==
    /\ pc[i] = "mark" /\ r \in todo[i]
    /\ \/ /\ list[i][r].status = "deleting"
          /\ UNCHANGED <<res, reborn, catalog>>
       \/ LET old == list[i][r]
              m   == Latest(r, old)
              fin == Landed(m, res[r], WithFinalizer(i, old))
          IN  /\ old.status = "live"
              /\ Lands(m, old, res[r]) /\ Acceptable(res[r], fin)
              /\ res' = [res EXCEPT ![r] = Patched(@, fin)]
              /\ reborn' = IF i \in fin THEN reborn \ {r} ELSE reborn
              /\ catalog' = [catalog EXCEPT ![i] = @ \cup {r}]
    /\ todo' = [todo EXCEPT ![i] = @ \ {r}]
    /\ UNCHANGED <<inst, cinst, cres, mres, missing, queued, docs, pc, snap,
                   stage, orgsLeft, list, cur, budgetVars>>

EndMark(i) ==
    /\ pc[i] = "mark" /\ todo[i] = {}
    /\ todo' = [todo EXCEPT ![i] = Listed(i)]
    /\ ToStep(i, "apply")
    /\ UNCHANGED <<apiVars, cacheVars, missing, queued, docs, snap, stage,
                   orgsLeft, list, cur, catalog, budgetVars>>

\* Mutants: an object whose secret is missing is taken for removed; the deletion
\* of the instance is not looked at.
Mutant_KeepsComplete(i, r) ==
    list[i][r].status = "live" /\ snap[i].status = "live" /\ r \notin missing
Mutant_KeepsLive(i, r) == list[i][r].status = "live"

\* Second loop: neither the object nor the instance was being deleted when read.
Keeps(i, r) == list[i][r].status = "live" /\ snap[i].status = "live"

\* Mutant: an object whose secret is missing is passed over.
Mutant_Sync(i, r) ==
    /\ pc[i] = "apply" /\ r \in todo[i]
    /\ Keeps(i, r)
    /\ docs' = IF r \in missing THEN docs
               ELSE [docs EXCEPT ![DatabaseOf[i]] = @ \cup {r}]
    /\ todo' = [todo EXCEPT ![i] = @ \ {r}]
    /\ UNCHANGED <<apiVars, cacheVars, missing, queued, pc, snap, stage,
                   orgsLeft, list, cur, catalog, budgetVars>>

\* The document is created or updated; a user and a client need their secret.
Sync(i, r) ==
    /\ pc[i] = "apply" /\ r \in todo[i]
    /\ Keeps(i, r) /\ r \notin missing
    /\ docs' = [docs EXCEPT ![DatabaseOf[i]] = @ \cup {r}]
    /\ todo' = [todo EXCEPT ![i] = @ \ {r}]
    /\ UNCHANGED <<apiVars, cacheVars, missing, queued, pc, snap, stage,
                   orgsLeft, list, cur, catalog, budgetVars>>

\* Mutant: the finalizer goes, the document stays.
Mutant_Prune(i, r) ==
    /\ pc[i] = "apply" /\ r \in todo[i]
    /\ ~Keeps(i, r)
    /\ cur' = [cur EXCEPT ![i] = r]
    /\ ToStep(i, "release")
    /\ UNCHANGED <<apiVars, cacheVars, missing, queued, docs, snap, stage, orgsLeft,
                   list, todo, catalog, budgetVars>>

\* The document is deleted when the instance prunes, then the finalizer goes.
Prune(i, r) ==
    /\ pc[i] = "apply" /\ r \in todo[i]
    /\ ~Keeps(i, r)
    /\ docs' = IF snap[i].prune
               THEN [docs EXCEPT ![DatabaseOf[i]] = @ \ {r}]
               ELSE docs
    /\ cur' = [cur EXCEPT ![i] = r]
    /\ ToStep(i, "release")
    /\ UNCHANGED <<apiVars, cacheVars, missing, queued, snap, stage, orgsLeft,
                   list, todo, catalog, budgetVars>>

\* If the metadata cache still shows the object without the finalizer, there is
\* no difference to send: it stays although the call succeeds.
Release(i) ==
    /\ pc[i] = "release"
    /\ LET r   == cur[i]
           old == list[i][r]
           m   == Latest(r, old)
           fin == Landed(m, res[r], WithoutFinalizer(i, old))
       IN  /\ Lands(m, old, res[r]) /\ Acceptable(res[r], fin)
           /\ res' = [res EXCEPT ![r] = Patched(@, fin)]
           /\ todo' = [todo EXCEPT ![i] = @ \ {r}]
    /\ cur' = [cur EXCEPT ![i] = None]
    /\ ToStep(i, "apply")
    /\ UNCHANGED <<inst, cacheVars, missing, queued, docs, snap, stage, orgsLeft,
                   list, catalog, budgetVars>>

\* Mutant: an organization that is being released is not visited.
Mutant_OrgsToVisit(i) ==
    IF stage[i].kind = "orgs" THEN {o \in Listed(i) : Keeps(i, o)} ELSE orgsLeft[i]

\* The organizations whose features and clients the pass still has to visit:
\* all that were listed, those being deleted included.
OrgsToVisit(i) == IF stage[i].kind = "orgs" THEN Listed(i) ELSE orgsLeft[i]

\* Mutant: the second loop ends early.
Mutant_NextKind(i) ==
    /\ pc[i] = "apply"
    /\ stage[i].kind \in {"users", "features"}
    /\ stage' = [stage EXCEPT ![i].kind = IF @ = "users" THEN "orgs" ELSE "clients"]
    /\ list' = [list EXCEPT ![i] = NothingListed]
    /\ ToStep(i, "list")
    /\ UNCHANGED <<apiVars, cacheVars, missing, queued, docs, snap, orgsLeft,
                   todo, cur, catalog, budgetVars>>

\* From users to organizations, and from the features of an organization to
\* its clients.
NextKind(i) ==
    /\ pc[i] = "apply" /\ todo[i] = {}
    /\ stage[i].kind \in {"users", "features"}
    /\ stage' = [stage EXCEPT ![i].kind = IF @ = "users" THEN "orgs" ELSE "clients"]
    /\ list' = [list EXCEPT ![i] = NothingListed]
    /\ ToStep(i, "list")
    /\ UNCHANGED <<apiVars, cacheVars, missing, queued, docs, snap, orgsLeft,
                   todo, cur, catalog, budgetVars>>

NextOrg(i, o) ==
    /\ pc[i] = "apply" /\ todo[i] = {}
    /\ stage[i].kind \in {"orgs", "clients"}
    /\ o \in OrgsToVisit(i)
    /\ stage' = [stage EXCEPT ![i] = [kind |-> "features", org |-> o]]
    /\ orgsLeft' = [orgsLeft EXCEPT ![i] = OrgsToVisit(i) \ {o}]
    /\ list' = [list EXCEPT ![i] = NothingListed]
    /\ ToStep(i, "list")
    /\ UNCHANGED <<apiVars, cacheVars, missing, queued, docs, snap, todo,
                   cur, catalog, budgetVars>>

EndWalk(i) ==
    /\ pc[i] = "apply" /\ todo[i] = {}
    /\ stage[i].kind \in {"orgs", "clients"} /\ OrgsToVisit(i) = {}
    /\ LeaveWalk(i)
    /\ ToStep(i, "status")
    /\ UNCHANGED <<apiVars, cacheVars, missing, queued, docs, snap, catalog,
                   budgetVars>>

\* Mutant: the finalizer of the instance goes even if the pass has failed.
Mutant_ReleaseInstance(i) ==
    /\ pc[i] \in {"status", "failed"} /\ snap[i].status = "deleting"
    /\ inst[i].status # "absent"
    /\ inst' = [inst EXCEPT ![i] = NoInstance]
    /\ EndPass(i)
    /\ UNCHANGED <<res, cacheVars, missing, queued, docs, budgetVars>>

\* A deleted instance whose pass succeeded loses its finalizer, and goes; or
\* stays, when the metadata cache still shows it without one, as in Release.
ReleaseInstance(i) ==
    /\ pc[i] = "status" /\ snap[i].status = "deleting"
    /\ inst[i].status # "absent"
    /\ \/ inst' = [inst EXCEPT ![i] = NoInstance]
       \/ ~FreshReads /\ snap[i] = inst[i] /\ UNCHANGED inst
    /\ EndPass(i)
    /\ UNCHANGED <<res, cacheVars, missing, queued, docs, budgetVars>>

\* patchStatus: the cache must still hold the version the pass has read, or
\* the patch carries an old resourceVersion and is refused (RefusePublish).
PublishStatus(i, ready) ==
    /\ inst[i].status # "absent" /\ cinst[i] = snap[i]
    /\ inst' = [inst EXCEPT ![i] = StatusPatched(@, snap[i], ready, catalog[i])]
    /\ EndPass(i)
    /\ UNCHANGED <<res, cacheVars, missing, docs, budgetVars>>

PublishReady(i) ==
    /\ pc[i] = "status" /\ snap[i].status = "live"
    /\ PublishStatus(i, "True")
    /\ IF i \in Interval THEN Requeue(i) ELSE UNCHANGED queued

\* Mutant: a failed pass is not tried again.
Mutant_PublishFailed(i) ==
    /\ pc[i] = "failed"
    /\ PublishStatus(i, "False")
    /\ UNCHANGED queued

PublishFailed(i) ==
    /\ pc[i] = "failed"
    /\ PublishStatus(i, "False")
    /\ Requeue(i)

-----------------------------------------------------------------------------
(* Failures.  A call fails at random (the network, the deadline of         *)
(* spec.timeout), or because it must.  A call that took effect although it *)
(* returned an error is a call that succeeded followed by a failure.       *)

RandomFault == faults < MaxFaults /\ faults' = faults + 1 /\ UNCHANGED ops

Unpatchable(r, old) == old # res[r] \/ Latest(r, old).status = "absent"

\* The call at hand is refused: the secret does not exist, or the object is
\* no longer the version the worker has read, or not yet in the metadata cache.
Refused(i) ==
    \/ pc[i] = "connect" /\ i \in missing
    \/ pc[i] = "mark" /\ \E r \in todo[i] :
          list[i][r].status = "live" /\ Unpatchable(r, list[i][r])
    \/ pc[i] = "apply" /\ \E r \in todo[i] : Keeps(i, r) /\ r \in missing
    \/ pc[i] = "release" /\ Unpatchable(cur[i], list[i][cur[i]])

\* reconcile() returns an error: the rest of the walk is abandoned.
FailPass(i) ==
    /\ pc[i] \in {"connect", "list", "mark", "apply", "release"}
    /\ \/ Refused(i) /\ UNCHANGED budgetVars
       \/ RandomFault
    /\ LeaveWalk(i)
    /\ ToStep(i, "failed")
    /\ UNCHANGED <<apiVars, cacheVars, missing, queued, docs, snap, catalog>>

\* The patch of the instance itself fails: no status, only another try.
RefuseInstancePatch(i) ==
    /\ \/ pc[i] = "finalizer" /\ snap[i].status = "live"
       \/ pc[i] = "status" /\ snap[i].status = "deleting"
    /\ \/ snap[i] # inst[i] /\ UNCHANGED budgetVars
       \/ RandomFault
    /\ EndPass(i)
    /\ Requeue(i)
    /\ UNCHANGED <<apiVars, cacheVars, missing, docs>>

\* Mutant: a pass whose status could not be written is not tried again.
Mutant_RefusePublish(i) ==
    /\ pc[i] = "failed" \/ (pc[i] = "status" /\ snap[i].status = "live")
    /\ \/ (cinst[i] # snap[i] \/ inst[i].status = "absent") /\ UNCHANGED budgetVars
       \/ RandomFault
    /\ EndPass(i)
    /\ UNCHANGED <<apiVars, cacheVars, missing, queued, docs>>

RefusePublish(i) ==
    /\ pc[i] = "failed" \/ (pc[i] = "status" /\ snap[i].status = "live")
    /\ \/ (cinst[i] # snap[i] \/ inst[i].status = "absent") /\ UNCHANGED budgetVars
       \/ RandomFault
    /\ EndPass(i)
    /\ Requeue(i)
    /\ UNCHANGED <<apiVars, cacheVars, missing, docs>>

\* The process dies.  The next one lists everything anew, and the initial
\* events of its watches enqueue every instance.
Restart ==
    /\ RandomFault
    /\ cinst' = inst /\ cres' = res /\ mres' = res
    /\ queued' = {i \in Instances : inst[i].status # "absent"}
    /\ pc' = [i \in Instances |-> "idle"]
    /\ snap' = [i \in Instances |-> NoInstance]
    /\ stage' = [i \in Instances |-> FirstStage]
    /\ orgsLeft' = [i \in Instances |-> {}]
    /\ list' = [i \in Instances |-> NothingListed]
    /\ todo' = [i \in Instances |-> {}]
    /\ cur' = [i \in Instances |-> None]
    /\ catalog' = [i \in Instances |-> {}]
    /\ UNCHANGED <<apiVars, reborn, missing, docs>>

-----------------------------------------------------------------------------
(* The informer cache and the watches.                                     *)

\* requestsForChangeBySelector: the handler sees the old and the new object.
Interested(obj) ==
    {i \in Instances : cinst[i].status # "absent" /\ obj.status # "absent" /\ i \in obj.inst}

\* Mutant: only new objects are events.
Mutant_WatchResource(r) ==
    /\ cres[r] # res[r]
    /\ cres' = [cres EXCEPT ![r] = res[r]]
    /\ queued' = IF cres[r].status = "absent" THEN queued \cup Interested(res[r]) ELSE queued
    /\ UNCHANGED <<apiVars, cinst, mres, reborn, missing, docs, workerVars, budgetVars>>

WatchResource(r) ==
    /\ cres[r] # res[r]
    /\ cres' = [cres EXCEPT ![r] = res[r]]
    /\ queued' = queued \cup Interested(cres[r]) \cup Interested(res[r])
    /\ UNCHANGED <<apiVars, cinst, mres, reborn, missing, docs, workerVars, budgetVars>>

\* Mutant: a deletion timestamp is no event.
Mutant_WatchInstance(i) ==
    /\ cinst[i] # inst[i]
    /\ cinst' = [cinst EXCEPT ![i] = inst[i]]
    /\ queued' = IF inst[i].status # "deleting" /\ cinst[i].gen # inst[i].gen
                 THEN queued \cup {i} ELSE queued
    /\ UNCHANGED <<apiVars, cres, mres, reborn, missing, docs, workerVars, budgetVars>>

\* GenerationChangedPredicate: a change of metadata or status is no event.
WatchInstance(i) ==
    /\ cinst[i] # inst[i]
    /\ cinst' = [cinst EXCEPT ![i] = inst[i]]
    /\ queued' = IF inst[i].status = "absent" \/ cinst[i].gen # inst[i].gen
                 THEN queued \cup {i} ELSE queued
    /\ UNCHANGED <<apiVars, cres, mres, reborn, missing, docs, workerVars, budgetVars>>

\* No controller watches metadata: there is no event.
WatchMetadata(r) ==
    /\ ~FreshReads /\ mres[r] # res[r]
    /\ mres' = [mres EXCEPT ![r] = res[r]]
    /\ UNCHANGED <<apiVars, cinst, cres, reborn, missing, queued, docs, workerVars,
                   budgetVars>>

-----------------------------------------------------------------------------
(* What users do to the cluster.                                           *)

UserEdit == ops < MaxOps /\ ops' = ops + 1 /\ UNCHANGED faults
controllerVars == <<cacheVars, queued, docs, workerVars>>

CreateResource(r) ==
    /\ UserEdit /\ res[r].status = "absent"
    /\ \E l \in LabelsOf[r] : res' = [res EXCEPT ![r] = Fresh(l)]
    /\ reborn' = IF ~FreshReads /\ mres[r].fin # {} THEN reborn \cup {r} ELSE reborn
    /\ UNCHANGED <<inst, cinst, cres, mres, missing, queued, docs, workerVars>>

DeleteResource(r) ==
    /\ UserEdit /\ r \in Deletable /\ res[r].status = "live"
    /\ res' = [res EXCEPT ![r] =
                 IF res[r].fin = {} THEN Absent ELSE [res[r] EXCEPT !.status = "deleting"]]
    /\ UNCHANGED <<inst, missing, controllerVars>>

Relabel(r) ==
    /\ UserEdit /\ res[r].status # "absent"
    /\ \E l \in LabelsOf[r] :
          /\ <<l.inst, l.org>> # <<res[r].inst, res[r].org>>
          /\ res' = [res EXCEPT ![r].inst = l.inst, ![r].org = l.org]
    /\ UNCHANGED <<inst, missing, controllerVars>>

EditInstance(i) ==
    /\ UserEdit /\ inst[i].status # "absent"
    /\ \E p \in PruneValues, s \in SuspendValues :
          /\ <<p, s>> # <<inst[i].prune, inst[i].suspend>>
          /\ inst' = [inst EXCEPT ![i].prune = p, ![i].suspend = s, ![i].gen = @ + 1]
    /\ UNCHANGED <<res, missing, controllerVars>>

DeleteInstance(i) ==
    /\ UserEdit /\ i \in Deletable /\ inst[i].status = "live"
    /\ inst' = [inst EXCEPT ![i] =
                  IF inst[i].fin THEN [inst[i] EXCEPT !.status = "deleting", !.gen = @ + 1]
                  ELSE NoInstance]
    /\ UNCHANGED <<res, missing, controllerVars>>

\* A secret goes or comes back.  The field index that maps it to instances is
\* computed when an instance changes: it knows the instance's own secret, and
\* those of users and clients only as they were labelled at that time.
ChangeSecret(x) ==
    /\ UserEdit
    /\ missing' = IF x \in missing THEN missing \ {x} ELSE missing \cup {x}
    /\ \E woken \in SUBSET {i \in Instances : cinst[i].status # "absent"} :
          /\ x \in Instances => woken = {x} \cap {i \in Instances : cinst[i].status # "absent"}
          /\ queued' = queued \cup woken
    /\ UNCHANGED <<apiVars, cacheVars, docs, workerVars>>

-----------------------------------------------------------------------------

\* The steps of a pass that nothing but the controller has to take.
Work(i) ==
    \/ SkipPass(i) \/ BeginPass(i) \/ AddInstanceFinalizer(i) \/ Connect(i)
    \/ List(i) \/ EndMark(i) \/ Release(i) \/ NextKind(i) \/ EndWalk(i)
    \/ ReleaseInstance(i) \/ PublishReady(i) \/ PublishFailed(i)
    \/ FailPass(i) \/ RefuseInstancePatch(i) \/ RefusePublish(i)
    \/ \E r \in Resources : Mark(i, r) \/ Sync(i, r) \/ Prune(i, r)
    \/ \E o \in Orgs : NextOrg(i, o)

UserStep ==
    \/ \E r \in Resources : CreateResource(r) \/ DeleteResource(r) \/ Relabel(r)
    \/ \E i \in Instances : EditInstance(i) \/ DeleteInstance(i)
    \/ \E x \in Secrets : ChangeSecret(x)

Next ==
    \/ \E i \in Instances : Work(i) \/ WatchInstance(i)
    \/ \E r \in Resources : WatchResource(r) \/ WatchMetadata(r)
    \/ Restart
    \/ UserStep

Spec == Init /\ [][Next]_vars

\* The workers and the informers keep running; users do what they like, and
\* nothing has to fail or to restart.
Fairness ==
    /\ \A i \in Instances : WF_vars(Work(i)) /\ WF_vars(WatchInstance(i))
    /\ \A r \in Resources : WF_vars(WatchResource(r)) /\ WF_vars(WatchMetadata(r))

FairSpec == Spec /\ Fairness

-----------------------------------------------------------------------------
(* Safety.                                                                 *)

Live(r) == res[r].status = "live"

\* A document of the database has an object that carries the finalizer of the
\* instance: the object cannot leave the API server before the document has
\* left the database.  Except for an object that was created anew while the
\* metadata cache still had finalizers of its predecessor, until it is marked in
\* earnest: patch() may find that the finalizer is there already.  For an
\* instance that prunes and shares neither its database nor its resources.
FinalizerGuardsDocument ==
    \A i \in Instances, r \in Resources :
        r \in docs[DatabaseOf[i]] => i \in res[r].fin \/ r \in reborn

\* Without that exception: once an object is gone, its document is gone.
DocumentHasObject ==
    \A i \in Instances, r \in Resources :
        r \in docs[DatabaseOf[i]] => res[r].status # "absent"

\* No step takes the document of an object that is not being deleted out of
\* the database of an instance that is not being deleted.
NoLiveDocumentPruned ==
    [][\A i \in Instances, r \in Resources :
          r \in docs[DatabaseOf[i]] /\ r \notin docs[DatabaseOf[i]]'
             => ~Live(r) \/ inst[i].status # "live"]_vars

\* When a pass publishes that the instance is synchronized, every object of the
\* catalog that it publishes has its document, also one that users delete, relabel
\* or create anew during the pass.  For instances with databases of their own, and
\* objects that one organization at most selects: one that a pass lists twice can
\* be pruned the second time.
ReadyIsHonest ==
    [][\A i \in Instances :
          pc[i] = "status" /\ pc'[i] = "idle" /\ inst'[i].ready = "True"
             => catalog[i] \subseteq docs[DatabaseOf[i]]]_vars

\* When a pass ends and leaves no other one due, the instance is published as
\* ready with the catalog that this pass has found.
PublishedCatalogIsFound ==
    [][\A i \in Instances :
          /\ pc[i] = "status" /\ snap[i].status = "live" /\ pc'[i] = "idle"
          /\ i \notin queued' /\ inst'[i].status # "absent"
          => inst'[i].ready = "True" /\ inst'[i].catalog = catalog[i]]_vars

\* Once an instance that prunes is gone, none of its documents is left.
PrunedWithInstance ==
    \A i \in Instances : inst[i].status = "absent" => docs[DatabaseOf[i]] = {}

\* Once an instance is gone, no object carries its finalizer: nobody else
\* removes it, and the object could never be deleted.
GoneInstanceHoldsNothing ==
    \A i \in Instances, r \in Resources :
        inst[i].status = "absent" => i \notin res[r].fin

\* The finalizers, the cache and the loops of a pass do their part of a simpler
\* promise.  What an object and its document go through is what GuardedDocument
\* allows, except for the objects that FinalizerGuardsDocument excepts, and for an
\* instance that prunes and shares neither its database nor its resources.
Guarded(i, r) ==
    INSTANCE GuardedDocument WITH
        status  <- res[r].status,
        kept    <- inst[i].status = "live",
        present <- r \in docs[DatabaseOf[i]]

ImplementsGuardedDocument ==
    /\ \A i \in Instances, r \in Resources : Guarded(i, r)!Init
    /\ [][\A i \in Instances, r \in Resources :
             r \in reborn \/ Guarded(i, r)!Next \/ UNCHANGED Guarded(i, r)!vars]_vars

-----------------------------------------------------------------------------
(* Liveness, when users in the end leave every secret in place and no      *)
(* instance suspended.  A pass that sends nothing, because it has read an  *)
(* old version, may be the last one: what depends on that says below       *)
(* whether it assumes FreshReads, or an interval after which passes go on. *)

InOrderAtLast == <>[](missing = {} /\ \A i \in Instances : ~inst[i].suspend)

\* The instance is to keep a document for the object: both exist, the selectors
\* match, and a feature or a client has an organization that the instance keeps.
Selects(i, r) ==
    /\ inst[i].status = "live" /\ Live(r) /\ i \in res[r].inst
    /\ r \in Features \cup Clients =>
          \E o \in res[r].org : Live(o) /\ i \in res[o].inst

\* An object that users delete goes from the API server: its deletion wakes the
\* instance that holds a finalizer on it, and the passes that follow reach it.
\* With fresh reads or an interval: the release may find no difference to send.
DeletedResourceGoes ==
    \A r \in Resources :
        InOrderAtLast => (res[r].status = "deleting" ~> res[r].status # "deleting")

\* An instance that users delete goes from the API server; one that was deleted
\* while it was suspended, after it is resumed.  With fresh reads: the removal of
\* its finalizer may find no difference to send, and no pass follows it.
DeletedInstanceGoes ==
    \A i \in Instances :
        InOrderAtLast => (inst[i].status = "deleting" ~> inst[i].status = "absent")

\* An object that stays selected gets its document and keeps it, whatever was
\* created, deleted and failed before, and in whichever order.
SelectedResourceSynced ==
    \A i \in Instances, r \in Resources :
        InOrderAtLast /\ <>[]Selects(i, r) => <>[](r \in docs[DatabaseOf[i]])

\* An object that stays selected by an instance carries its finalizer in the
\* end: another instance may overwrite it, but that is an event that puts it back.
\* With fresh reads: the metadata cache may still show the one overwritten.
FinalizerRestored ==
    \A i \in Instances, r \in Resources :
        InOrderAtLast /\ <>[]Selects(i, r) => <>[](i \in res[r].fin)

\* The status of an instance that stays live ends up ready at the generation of
\* its spec, although a pass may have failed.  With fresh reads or an interval:
\* the status is a difference to what the pass has read, and what is equal to an
\* old version is not sent.
StatusSettles ==
    \A i \in Instances :
        InOrderAtLast /\ <>[](inst[i].status = "live")
            => <>[](inst[i].ready = "True" /\ inst[i].observed = inst[i].gen)

=============================================================================
