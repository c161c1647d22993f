----------------------------- MODULE Membership ------------------------------
(***************************************************************************)
(* Users and the members of organizations (reconcileUsers and              *)
(* reconcileOrganizations of internal/controllers/instance_controller.go,  *)
(* user.go and organization.go of internal/growthbook), for one instance   *)
(* and its database.                                                       *)
(*                                                                         *)
(* The instance selects users, and each organization binds users to a      *)
(* role, with a selector of its own: the two need not agree.  A document   *)
(* is found by the id of a user, which the object may change and two       *)
(* objects may share.                                                      *)
(*                                                                         *)
(* The organizations of this module stay as they are, as does the          *)
(* instance: InstanceReconciler has their changes, and those of finalizers *)
(* in detail.  A document that is not found although it exists is left to  *)
(* DocumentSync.                                                           *)
(***************************************************************************)
EXTENDS Naturals

CONSTANTS
    Users, Orgs,
    Groups,   \* what the labels of a user say to the selectors of bindings
    Labels,   \* that, and whether the instance selects the user
    Roles,
    Bindings, \* spec.users of the organizations
    Ids,      \* ids of users
    Guest,    \* the id of a member whom someone has guests in Growthbook
    None,     \* no document, no organization
    MaxOps,   \* bound on the changes made by users
    MaxFaults \* bound on failing calls

ASSUME ConstantsAssumption ==
    /\ Labels \subseteq Groups \X BOOLEAN
    /\ Bindings \in [Orgs -> SUBSET (Groups \X Roles)]
    /\ Guest \notin Ids
    /\ None \notin Users \cup Orgs \cup Ids
    /\ \A ms \in SUBSET ((Ids \cup {Guest}) \X Roles) : ms # None
    /\ MaxOps \in Nat /\ MaxFaults \in Nat

VARIABLES
    user,    \* the GrowthbookUser objects at the API server
    cuser,   \* the informer cache's copy
    relics,  \* users of whom the metadata cache still shows one that has gone
    prune,   \* spec.prune of the instance
    queued,  \* the instance waits for a pass
    pc,      \* where the pass is
    list,    \* the users as the pass has listed them
    usersLeft, orgsLeft,  \* the listed objects that the pass has not come to
    org,     \* the organization whose members have been listed
    found,   \* its bound users
    docs,    \* the documents of users: the object that was written last
    members, \* the documents of organizations: their members
    missed,  \* history: ids of bound users whose change started no pass
    given,   \* history: ids that no finalizer guards (EditUser, BeginPass)
    guests,  \* history: organizations with a guest, and no bound user since
    ops, faults

edits == <<user, relics, ops>>
pass  == <<pc, list, usersLeft, orgsLeft, org, found>>
growthbook == <<docs, members>>
vars == <<user, cuser, relics, prune, queued, pass, growthbook, missed, given, guests, ops, faults>>

-----------------------------------------------------------------------------
(* Objects.                                                                *)

\* fresh: not yet seen by a pass, without finalizer; live: with one.
User == {x \in [status : {"fresh", "live", "deleting"}, id : Ids, group : Groups,
                selected : BOOLEAN] : <<x.group, x.selected>> \in Labels}
Absent == [status |-> "absent", id |-> None, group |-> None, selected |-> FALSE]

\* Mutant: all users are listed.
Mutant_Listed(us) == {u \in Users : us[u] # Absent}

Listed(us) == {u \in Users : us[u].selected}

Nobody == [u \in Users |-> Absent]

\* The members that the bindings of an organization give it.
Bound(us, o) ==
    {m \in Ids \X Roles : \E u \in Users :
        us[u].id = m[1] /\ <<us[u].group, m[2]>> \in Bindings[o]}

Members == (Ids \cup {Guest}) \X Roles

TypeOK ==
    /\ user \in [Users -> User \cup {Absent}] /\ cuser \in [Users -> User \cup {Absent}]
    /\ relics \subseteq Users
    /\ prune \in BOOLEAN /\ queued \in BOOLEAN
    /\ pc \in {"idle", "users", "orgs"}
    /\ list \in [Users -> User \cup {Absent}]
    /\ \A u \in usersLeft : u \in Users /\ list[u].selected /\ pc = "users"
    /\ orgsLeft \subseteq Orgs /\ (orgsLeft # {} => pc = "orgs")
    /\ org \in Orgs \cup {None} /\ found \subseteq Ids \X Roles
    /\ docs \in [Ids -> Users \cup {None}]
    /\ members \in [Orgs -> (SUBSET Members) \cup {None}]
    /\ missed \subseteq Ids /\ given \subseteq Ids /\ guests \subseteq Orgs
    /\ ops \in 0 .. MaxOps /\ faults \in 0 .. MaxFaults

Init ==
    /\ user \in [Users -> {x \in User : x.status = "fresh"} \cup {Absent}]
    /\ cuser = user /\ relics = {}
    /\ prune \in BOOLEAN
    /\ queued = TRUE
    /\ pc = "idle" /\ list = Nobody /\ usersLeft = {} /\ orgsLeft = {} /\ org = None /\ found = {}
    /\ docs = [i \in Ids |-> None]
    /\ members = [o \in Orgs |-> None]
    /\ missed = {} /\ given = {} /\ guests = {}
    /\ ops = 0 /\ faults = 0

-----------------------------------------------------------------------------
(* The pass.                                                               *)

EndPass ==
    /\ pc' = "idle"
    /\ list' = Nobody /\ usersLeft' = {} /\ orgsLeft' = {} /\ org' = None /\ found' = {}

\* Mutant: a failed pass is not tried again.
Mutant_Failed == EndPass /\ UNCHANGED queued

Failed == EndPass /\ queued' = TRUE

\* Mutant: the finalizers are not added.
Mutant_Marked(new) == user

Marked(new) ==
    [u \in Users |-> IF u \in new /\ user[u].status = "fresh" THEN [user[u] EXCEPT !.status = "live"]
                     ELSE user[u]]

\* The selected users are listed, and those without a finalizer get it.  The patch
\* is the difference to what the metadata cache shows.  If that is the listed
\* version, the finalizer lands on the object that is there now, edited or created
\* anew.  If it is another one, the API server refuses the patch, unless the object
\* is the listed one; and of one that has gone the finalizer is not sent at all.  A
\* user that the metadata cache does not have yet is an error, too.
\* The ids then read are not those of objects with a finalizer.
BeginPass ==
    LET kept  == {u \in Listed(cuser) : cuser[u].status # "deleting"}
        new   == {u \in kept \ relics : cuser[u].status = "fresh"}
        moved == {u \in kept : user[u] # cuser[u]}
        loose == {u \in kept : u \in relics \/ user[u].id # cuser[u].id}
    IN  /\ pc = "idle" /\ queued
        /\ missed' = {}
        /\ \/ /\ \A u \in moved : user[u] # Absent /\ u \notin relics
              /\ user' = Marked(new)
              /\ given' = given \cup {cuser[u].id : u \in loose}
              /\ queued' = FALSE
              /\ pc' = "users" /\ list' = cuser /\ usersLeft' = Listed(cuser)
              /\ UNCHANGED <<orgsLeft, org, found>>
           \/ /\ moved \cup new # {} /\ Failed
              /\ \E some \in SUBSET new : user' = Marked(some)
              /\ UNCHANGED given
        /\ UNCHANGED <<cuser, relics, prune, growthbook, guests, ops, faults>>

\* UpdateUser inserts the document or updates it, by the id.
UpdateUser(u) ==
    /\ u \in usersLeft /\ list[u].status # "deleting"
    /\ docs' = [docs EXCEPT ![list[u].id] = u]
    /\ usersLeft' = usersLeft \ {u}
    /\ UNCHANGED <<edits, cuser, prune, queued, pc, list, orgsLeft, org, found, members,
                   missed, given, guests, faults>>

Pruned(u) == IF prune THEN [docs EXCEPT ![list[u].id] = None] ELSE docs

\* Without its finalizer an object that is being deleted is gone.
Released(x) == IF x.status = "deleting" THEN Absent ELSE [x EXCEPT !.status = "fresh"]

\* DeleteUser, by the id, then the finalizer is removed: from the object that is there
\* now, or not at all, if the metadata cache does not show it yet; or the patch is
\* refused, as in BeginPass.
DeleteUser(u) ==
    /\ u \in usersLeft /\ list[u].status = "deleting"
    /\ docs' = Pruned(u)
    /\ \/ /\ user[u] # Absent
          /\ \E x \in {Released(user[u])} \cup ({user[u]} \cap {list[u]}) :
                user' = [user EXCEPT ![u] = x]
          /\ usersLeft' = usersLeft \ {u}
          /\ UNCHANGED <<queued, pc, list, orgsLeft, org, found>>
       \/ user[u] # list[u] /\ Failed /\ UNCHANGED user
    /\ relics' = IF user'[u] = user[u] THEN relics ELSE relics \cup {u}
    /\ UNCHANGED <<cuser, prune, members, missed, given, guests, ops, faults>>

EndUsers ==
    /\ pc = "users" /\ usersLeft = {}
    /\ pc' = "orgs" /\ list' = Nobody /\ orgsLeft' = Orgs
    /\ UNCHANGED <<edits, cuser, prune, queued, usersLeft, org, found, growthbook,
                   missed, given, guests, faults>>

\* The users that an organization binds are listed, whether the instance selects
\* them or not, also those that are being deleted.
ListMembers(o) ==
    /\ o \in orgsLeft /\ org = None
    /\ org' = o /\ found' = Bound(cuser, o)
    /\ orgsLeft' = orgsLeft \ {o}
    /\ UNCHANGED <<edits, cuser, prune, queued, pc, list, usersLeft, growthbook,
                   missed, given, guests, faults>>

\* Mutant: the members are always those that were found.
Mutant_Managed(existing) == found

\* The members are left alone if there is no bound user.
Managed(existing) == IF existing = None \/ found # {} THEN found ELSE existing

UpdateOrganization ==
    /\ org # None
    /\ members' = [members EXCEPT ![org] = Managed(@)]
    /\ org' = None /\ found' = {}
    /\ UNCHANGED <<edits, cuser, prune, queued, pc, list, usersLeft, orgsLeft, docs,
                   missed, given, guests, faults>>

FinishPass ==
    /\ pc = "orgs" /\ orgsLeft = {} /\ org = None
    /\ EndPass
    /\ UNCHANGED <<edits, cuser, prune, queued, growthbook, missed, given, guests, faults>>

\* A call fails, perhaps after a document has been deleted.
FailPass ==
    /\ faults < MaxFaults /\ faults' = faults + 1
    /\ pc # "idle"
    /\ Failed
    /\ \/ UNCHANGED docs
       \/ \E u \in usersLeft : list[u].status = "deleting" /\ docs' = Pruned(u)
    /\ UNCHANGED <<edits, cuser, prune, members, missed, given, guests>>

-----------------------------------------------------------------------------
(* The watch, and the users of the cluster and of Growthbook.              *)

\* Mutant: only the new version is looked at.
Mutant_Event(old, new) == new.selected

\* requestsForChangeBySelector: the selector of the instance, not those of bindings.
Event(old, new) == old.selected \/ new.selected

WatchUser(u) ==
    /\ cuser[u] # user[u]
    /\ cuser' = [cuser EXCEPT ![u] = user[u]]
    /\ queued' = (queued \/ Event(cuser[u], user[u]))
    /\ missed' = IF cuser[u].selected \/ user[u].selected THEN missed
                 ELSE missed \cup ({cuser[u].id, user[u].id} \ {None})
    /\ UNCHANGED <<user, relics, prune, pass, growthbook, given, guests, ops, faults>>

WatchMetadata(u) ==
    /\ u \in relics
    /\ relics' = relics \ {u}
    /\ UNCHANGED <<user, cuser, prune, queued, pass, growthbook, missed, given, guests, ops, faults>>

Change == ops < MaxOps /\ ops' = ops + 1

\* The organizations that bind a user.
Binding == {o \in Orgs : Bound(user', o) # {}}

CreateUser(u) ==
    /\ Change /\ user[u] = Absent
    /\ \E x \in User : x.status = "fresh" /\ user' = [user EXCEPT ![u] = x]
    /\ guests' = guests \ Binding
    /\ UNCHANGED <<cuser, relics, prune, queued, pass, growthbook, missed, given, faults>>

\* A user gets another id or other labels.
EditUser(u) ==
    /\ Change /\ user[u] # Absent
    /\ \E x \in User \ {user[u]} :
          /\ x.status = user[u].status
          /\ user' = [user EXCEPT ![u] = x]
          /\ given' = IF x.id # user[u].id THEN given \cup {user[u].id} ELSE given
    /\ guests' = guests \ Binding
    /\ UNCHANGED <<cuser, relics, prune, queued, pass, growthbook, missed, faults>>

\* Without a finalizer the object is gone at once.
RemoveUser(u) ==
    /\ Change /\ user[u].status \in {"fresh", "live"}
    /\ user' = [user EXCEPT ![u] = IF @.status = "fresh" THEN Absent
                                   ELSE [@ EXCEPT !.status = "deleting"]]
    /\ UNCHANGED <<cuser, relics, prune, queued, pass, growthbook, missed, given, guests, faults>>

\* Someone invites a member in Growthbook.
Invite(o) ==
    /\ Change /\ members[o] # None
    /\ \E r \in Roles : members' = [members EXCEPT ![o] = @ \cup {<<Guest, r>>}]
    /\ guests' = IF Bound(user, o) \cup Bound(cuser, o) = {} /\ (org = o => found = {})
                 THEN guests \cup {o} ELSE guests
    /\ UNCHANGED <<user, cuser, relics, prune, queued, pass, docs, missed, given, faults>>

-----------------------------------------------------------------------------

Work ==
    \/ BeginPass \/ EndUsers \/ UpdateOrganization \/ FinishPass
    \/ \E u \in Users : UpdateUser(u) \/ DeleteUser(u)
    \/ \E o \in Orgs : ListMembers(o)

Next ==
    \/ Work \/ FailPass
    \/ \E u \in Users : WatchUser(u) \/ WatchMetadata(u)
    \/ \E u \in Users : CreateUser(u) \/ EditUser(u) \/ RemoveUser(u)
    \/ \E o \in Orgs : Invite(o)

Spec == Init /\ [][Next]_vars

-----------------------------------------------------------------------------
(* Properties.                                                             *)

\* No pass is under way or wanted, and the cache has seen everything.
Quiet == ~queued /\ pc = "idle" /\ cuser = user

\* In quiet the members of an organization, guests and the ids of unnoticed
\* changes apart, are the bound users, unless the pass found none: then the
\* members that there were stay.
MembersFollowBindings ==
    Quiet => \A o \in Orgs :
        /\ members[o] # None
        /\ LET Known(ms) == {m \in ms : m[1] \notin missed \cup {Guest}}
           IN  Known(Bound(user, o)) # {} => Known(members[o]) = Known(Bound(user, o))

\* In quiet every selected user has a document, and a selected user with the
\* document's id wrote it: one that another object with this id took with it
\* has been made again.  Unless that object is still there: the removal of its
\* finalizer had no effect, and nothing tells the instance to write again.
SelectedUsersHaveDocuments ==
    Quiet => \A u \in Users :
        user[u].status \in {"fresh", "live"} /\ user[u].selected =>
            \E v \in Users :
                /\ user[v].selected /\ user[v].id = user[u].id
                /\ \/ docs[user[u].id] = v /\ user[v].status \in {"fresh", "live"}
                   \/ user[v].status = "deleting"

\* An instance that prunes leaves no document behind without an object that has
\* its id, at any time, but for ids that an object gave up or that were read where
\* the finalizer did not land.  An object that is taken out of the selection keeps
\* its finalizer, and with it its document.
OrphansOnlyFromEdits ==
    prune => \A i \in Ids \ given :
        docs[i] # None => \E u \in Users : user[u].id = i

\* A guest stays a member until some user is bound
\* (internal/growthbook/organization.go:76).
GuestsKept ==
    \A o \in guests : \E r \in Roles : <<Guest, r>> \in members[o]

=============================================================================
