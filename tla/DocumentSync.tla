---------------------------- MODULE DocumentSync ----------------------------
(***************************************************************************)
(* The document that one object of the cluster has in the database         *)
(* (internal/growthbook): what InstanceReconciler takes for one step when  *)
(* it synchronizes or prunes is a sequence of calls to MongoDB, between    *)
(* which growthbook itself reads and writes the same documents, the object *)
(* is edited, a call fails or the process dies.                            *)
(*                                                                         *)
(* UpdateUser, UpdateOrganization, UpdateFeature and UpdateSDKConnection   *)
(* share one protocol: FindOne, then InsertOne if it failed for whatever   *)
(* reason, or UpdateOne of the whole document if a managed field differs;  *)
(* a written SDK connection then has the cached payloads of its            *)
(* environment cleared.  They differ in the fields they manage (Merged).   *)
(***************************************************************************)
EXTENDS Naturals, FiniteSets, Sequences

CONSTANTS
    Kinds,       \* the kinds of objects, a subset of AllKinds
    Specs,       \* what users may write into the spec of the object
    Secrets,     \* the passwords or tokens users may put into its secret
    Users,       \* the users an organization may select as its members
    None,        \* nothing: no secret, no payload
    MaxOps,      \* bound on the edits made by users
    MaxFaults    \* bound on failing calls and restarts

AllKinds == {"users", "orgs", "features", "clients"}

\* A spec: the environments it names (one for a client), and the rest.
Contents == {s.content : s \in Specs}
Envs == UNION {s.envs : s \in Specs}

ASSUME ConstantsAssumption ==
    /\ Kinds \subseteq AllKinds
    /\ \A s \in Specs : s = [content |-> s.content, envs |-> s.envs]
    /\ \A s \in Specs : IsFiniteSet(s.envs)
    /\ None \notin Secrets /\ None \notin Contents
    /\ MaxOps \in Nat /\ MaxFaults \in Nat

VARIABLES
    kind,     \* the kind of the object
    indexed,  \* growthbook has put its unique index on the id
    object,   \* the object, as the informer cache shows it
    col,      \* the documents of the collection with the id of the object
    payload,  \* sdkpayloads: what growthbook has cached for an environment
    queued,   \* a pass over the object is due
    pc,       \* the call that the pass makes next
    desired,  \* the document as the pass has built it from the object
    existing, \* the document as FindOne has returned it
    nextKey,  \* generateKey: the next pair of keys
    ops,      \* edits made by users so far
    faults,   \* failing calls and restarts so far
    misreads  \* history: reads that failed on a document, without the index

setting == <<kind, indexed>>
passVars == <<pc, desired, existing>>
dbVars == <<col, payload>>
faultVars == <<faults, misreads>>
vars == <<setting, object, dbVars, queued, passVars, nextKey, ops, faultVars>>

-----------------------------------------------------------------------------
(* Objects and documents.                                                  *)

Object ==
    [status : {"absent", "live", "deleting"}, spec : Specs, secret : Secrets,
     members : SUBSET Users]

\* content, envs: as in the spec.  secret: the password hash of a user
\* or the key of a client.  rules: the environments to which growthbook's users
\* have added a rule of their own, one with an id.  made: the keys made at the
\* insertion, and its date.
Document ==
    [content : Contents, envs : {s.envs : s \in Specs}, secret : Secrets,
     members : SUBSET Users, rules : SUBSET Envs, made : Nat]

PC == {"idle", "find", "insert", "update", "clear", "done", "delete", "release"}

TypeOK ==
    /\ kind \in Kinds
    /\ indexed \in BOOLEAN
    /\ object \in Object
    /\ col \in Seq(Document)
    /\ payload \in [Envs -> Contents \cup {None}]
    /\ queued \in BOOLEAN
    /\ pc \in PC
    /\ desired \in Document
    /\ existing \in Document
    /\ nextKey \in Nat
    /\ ops \in 0 .. MaxOps
    /\ faults \in 0 .. MaxFaults
    /\ misreads \in 0 .. faults /\ (indexed => misreads = 0)

\* Mutant: the secret of the object is not read.
Mutant_Desired(obj) ==
    [content |-> obj.spec.content, envs |-> obj.spec.envs,
     secret |-> None, members |-> obj.members, rules |-> {}, made |-> 0]

\* FromV1beta1, and what the reconciler adds: the token of a client, the
\* password of a user, the members of an organization.
Desired(obj) ==
    [content |-> obj.spec.content, envs |-> obj.spec.envs,
     secret |-> obj.secret, members |-> obj.members, rules |-> {}, made |-> 0]

\* A client has one environment.
Fitting == {s \in Specs : kind = "clients" => Cardinality(s.envs) = 1}

Init ==
    /\ kind \in Kinds
    /\ indexed \in BOOLEAN
    /\ \E s \in Fitting, x \in Secrets :
          object = [status |-> "live", spec |-> s, secret |-> x, members |-> {}]
    /\ col = <<>>
    /\ payload = [e \in Envs |-> None]
    /\ queued = TRUE
    /\ pc = "idle"
    /\ desired = Desired(object)
    /\ existing = Desired(object)
    /\ nextKey = 1
    /\ ops = 0
    /\ faults = 0
    /\ misreads = 0

\* Mutants: the keys are taken from the object; the rules of a feature are replaced.
Mutant_MergedKeys(old, new) == [new EXCEPT !.rules = old.rules]
Mutant_MergedRules(old, new) ==
    [old EXCEPT !.content = new.content, !.envs = new.envs, !.rules = {}]

\* The document with its managed fields replaced.  A user's password hash is not among
\* them.  Members are managed once there is one.  mergeRules keeps the rules that have an id, in the
\* environments that the feature still names.
Merged(old, new) ==
    [old EXCEPT !.content = new.content,
                !.envs    = new.envs,
                !.secret  = IF kind = "clients" THEN new.secret ELSE @,
                !.members = IF new.members = {} THEN @ ELSE new.members,
                !.rules   = @ \cap new.envs]

\* The marshalled documents are compared byte by byte.  The environments of a
\* feature are a map: with more than one, their order differs at random.
MayDiffer(old, new) ==
    Merged(old, new) # old \/ (kind = "features" /\ Cardinality(old.envs) > 1)
MayEqual(old, new) == Merged(old, new) = old

-----------------------------------------------------------------------------
(* The pass.                                                               *)

\* The object is read, its document built.
Begin ==
    /\ pc = "idle" /\ queued /\ object.status # "absent"
    /\ queued' = FALSE
    /\ desired' = Desired(object)
    /\ pc' = IF object.status = "live" THEN "find" ELSE "delete"
    /\ UNCHANGED <<setting, object, dbVars, existing, nextKey, ops, faultVars>>

\* Mutant: insert and update are not told apart.
Mutant_FindOne ==
    /\ pc = "find"
    /\ pc' = "insert"
    /\ UNCHANGED <<setting, object, dbVars, queued, desired, existing, nextKey, ops, faultVars>>

\* A call fails, which the bound allows.
Fault == faults < MaxFaults /\ faults' = faults + 1

\* Any error of FindOne is taken for the absence of the document.
FindOne ==
    /\ pc = "find"
    /\ \/ /\ col = <<>>
          /\ pc' = "insert"
          /\ UNCHANGED <<existing, faultVars>>
       \/ /\ col # <<>> /\ Fault
          /\ misreads' = IF indexed THEN misreads ELSE misreads + 1
          /\ pc' = "insert"
          /\ UNCHANGED existing
       \/ /\ col # <<>>
          /\ existing' = Head(col)
          /\ \/ MayDiffer(Head(col), desired) /\ pc' = "update"
             \/ MayEqual(Head(col), desired) /\ pc' = "done"
          /\ UNCHANGED faultVars
    /\ UNCHANGED <<setting, object, dbVars, queued, desired, nextKey, ops>>

\* Mutant: a connection that is inserted needs nothing cleared.
Mutant_AfterWrite == IF kind = "clients" /\ pc = "update" THEN "clear" ELSE "done"

AfterWrite == IF kind = "clients" THEN "clear" ELSE "done"

InsertOne ==
    /\ pc = "insert" /\ (indexed => col = <<>>)
    /\ col' = Append(col, [desired EXCEPT !.made = nextKey])
    /\ nextKey' = nextKey + 1
    /\ existing' = desired
    /\ pc' = AfterWrite
    /\ UNCHANGED <<setting, object, payload, queued, desired, ops, faultVars>>

\* Mutant: the error of InsertOne is dropped.
Mutant_RefuseInsert ==
    /\ pc = "insert" /\ indexed /\ col # <<>>
    /\ pc' = AfterWrite
    /\ UNCHANGED <<setting, object, dbVars, queued, desired, existing, nextKey, ops, faultVars>>

\* A duplicate key is refused: the pass starts over.
RefuseInsert ==
    /\ pc = "insert" /\ indexed /\ col # <<>>
    /\ pc' = "idle"
    /\ queued' = TRUE
    /\ UNCHANGED <<setting, object, dbVars, desired, existing, nextKey, ops, faultVars>>

\* $set of the whole document, the fields that are not managed as FindOne has
\* returned them.
UpdateOne ==
    /\ pc = "update"
    /\ col' = [col EXCEPT ![1] = Merged(existing, desired)]
    /\ pc' = AfterWrite
    /\ UNCHANGED <<setting, object, payload, queued, desired, existing, nextKey, ops, faultVars>>

ClearPayloadCache ==
    /\ pc = "clear"
    /\ payload' = [e \in Envs |-> IF e \in desired.envs THEN None ELSE payload[e]]
    /\ pc' = "done"
    /\ UNCHANGED <<setting, object, col, queued, desired, existing, nextKey, ops, faultVars>>

\* The update has returned without an error.
Done ==
    /\ pc = "done"
    /\ pc' = "idle"
    /\ UNCHANGED <<setting, object, dbVars, queued, desired, existing, nextKey, ops, faultVars>>

\* Mutant: nothing is deleted.
Mutant_DeleteOne ==
    /\ pc = "delete"
    /\ pc' = "release"
    /\ UNCHANGED <<setting, object, dbVars, queued, desired, existing, nextKey, ops, faultVars>>

DeleteOne ==
    /\ pc = "delete"
    /\ col' = IF col = <<>> THEN col ELSE Tail(col)
    /\ pc' = "release"
    /\ UNCHANGED <<setting, object, payload, queued, desired, existing, nextKey, ops, faultVars>>

\* The finalizer goes, and the object with it.
Release ==
    /\ pc = "release"
    /\ object' = [object EXCEPT !.status = "absent"]
    /\ pc' = "idle"
    /\ UNCHANGED <<setting, dbVars, queued, desired, existing, nextKey, ops, faultVars>>

\* Mutant: a failed pass is not tried again.
Mutant_Fail ==
    /\ pc \notin {"idle", "done"} /\ Fault
    /\ pc' = "idle"
    /\ UNCHANGED <<setting, object, dbVars, queued, desired, existing, nextKey, ops, misreads>>

\* The call at hand fails, or the process dies before it: the pass starts over.
\* A call that took effect and failed is one that succeeded, followed by this.
Fail ==
    /\ pc \notin {"idle", "done"} /\ Fault
    /\ pc' = "idle"
    /\ queued' = TRUE
    /\ UNCHANGED <<setting, object, dbVars, desired, existing, nextKey, ops, misreads>>

Pass ==
    \/ Begin \/ FindOne \/ InsertOne \/ RefuseInsert \/ UpdateOne \/ ClearPayloadCache \/ Done
    \/ DeleteOne \/ Release

-----------------------------------------------------------------------------
(* What users do to the cluster, and growthbook to the database.           *)

UserEdit == ops < MaxOps /\ ops' = ops + 1

\* The spec, the secret or the selected users change: a watch queues a pass.
EditObject ==
    /\ UserEdit /\ object.status = "live"
    /\ \E s \in Fitting, x \in Secrets, m \in SUBSET Users :
          /\ kind \notin {"users", "clients"} => x = object.secret
          /\ kind # "orgs" => m = object.members
          /\ object' = [object EXCEPT !.spec = s, !.secret = x, !.members = m]
    /\ object' # object
    /\ queued' = TRUE
    /\ UNCHANGED <<setting, dbVars, passVars, nextKey, faultVars>>

DeleteObject ==
    /\ UserEdit /\ object.status = "live"
    /\ object' = [object EXCEPT !.status = "deleting"]
    /\ queued' = TRUE
    /\ UNCHANGED <<setting, dbVars, passVars, nextKey, faultVars>>

CreateObject ==
    /\ UserEdit /\ object.status = "absent"
    /\ object' = [object EXCEPT !.status = "live"]
    /\ queued' = TRUE
    /\ UNCHANGED <<setting, dbVars, passVars, nextKey, faultVars>>

\* A user of growthbook adds a rule to an environment of the feature.
AddRule ==
    /\ UserEdit /\ kind = "features" /\ col # <<>>
    /\ \E e \in Head(col).envs \ Head(col).rules :
          col' = [col EXCEPT ![1].rules = @ \cup {e}]
    /\ UNCHANGED <<setting, object, payload, queued, passVars, nextKey, faultVars>>

\* growthbook serves a client and caches the payload of its environment.
Serve ==
    /\ kind = "clients" /\ col # <<>>
    /\ \E e \in Head(col).envs :
          /\ payload[e] = None
          /\ payload' = [payload EXCEPT ![e] = Head(col).content]
    /\ UNCHANGED <<setting, object, col, queued, passVars, nextKey, ops, faultVars>>

Next ==
    \/ Pass \/ Fail
    \/ EditObject \/ DeleteObject \/ CreateObject
    \/ AddRule \/ Serve

Spec == Init /\ [][Next]_vars

\* The controller keeps running; nothing has to fail, to be edited or served.
FairSpec == Spec /\ WF_vars(Pass)

-----------------------------------------------------------------------------
(* Properties.                                                             *)

\* An object has at most one document, although every retry begins with a decision
\* between an insert and an update; and one more for every read that failed on an
\* existing document of a collection without growthbook's unique index.
OneDocument == Len(col) <= IF indexed THEN 1 ELSE 1 + misreads

\* The document says what the object said when the pass read it, as far as the
\* field is a managed one.
SaysManaged(doc, new) ==
    /\ doc.content = new.content /\ doc.envs = new.envs
    /\ kind = "clients" => doc.secret = new.secret
    /\ new.members # {} => doc.members = new.members

\* An update that returns without an error has left such a document, whatever
\* an earlier pass that was cut short has left behind.
Says(new) == \E n \in DOMAIN col : SaysManaged(col[n], new)
SyncedDocument == pc = "done" => Says(desired)

\* The keys made at the insertion of a document stay for as long as the
\* document does: clients decrypt with them.
KeysKept ==
    [][col # <<>> /\ Len(col') >= Len(col) => Head(col').made = Head(col).made]_vars

\* After a written connection growthbook serves no payload computed before.
PayloadFresh ==
    pc = "done" /\ kind = "clients" =>
        \A e \in desired.envs : payload[e] \in {None, desired.content}

\* Without failures no payload survives the update, also when the client has
\* changed its environment and come back, or was deleted and created anew.
PayloadFreshWithoutFaults == faults = 0 => PayloadFresh

\* An object that stays gets its document, with all managed fields.
Converges ==
    <>[](object.status = "live") => <>[]Says(Desired(object))

\* No document outlives an object that is gone for good, but for those that such
\* misreads have left beside the one that is deleted.
PrunedInTheEnd == <>[](object.status # "live") => <>[](Len(col) <= misreads)

\* The calls to the database amount to what GuardedDocument allows, for an instance
\* that is not deleted, until such a misread.
Guarded ==
    INSTANCE GuardedDocument WITH
        status  <- object.status,
        kept    <- TRUE,
        present <- col # <<>>

ImplementsGuardedDocument ==
    /\ Guarded!Init
    /\ [][misreads > 0 \/ Guarded!Next \/ UNCHANGED Guarded!vars]_vars

\* A rule that a user of growthbook has added to an environment which the
\* feature still names is not taken away, unless it was added after the pass had
\* read the document: what was read is written back.
KnownRulesKept ==
    [][\A e \in Envs :
          col # <<>> /\ Len(col') >= Len(col) /\ e \in Head(col).rules
          /\ (pc = "update" => e \in existing.rules)
             => e \in Head(col').rules \/ e \notin desired.envs]_vars

=============================================================================
