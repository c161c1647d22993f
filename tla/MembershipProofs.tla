-------------------------- MODULE MembershipProofs ---------------------------
(***************************************************************************)
(* Theorems about Membership, for every value of its constants: any number *)
(* of users and organizations, any labels, roles and bindings, any number  *)
(* of changes and failures, and any lag of the cache.                      *)
(***************************************************************************)
EXTENDS Membership, TLAPS

AnyUser == User \cup {Absent}

-----------------------------------------------------------------------------
(* What the operators of the model return.                                 *)

LEMMA UserFields ==
    ASSUME NEW x \in AnyUser
    PROVE  /\ x.status \in {"absent", "fresh", "live", "deleting"}
           /\ x.selected \in BOOLEAN
           /\ x.status = "absent" <=> x = Absent
           /\ x # Absent => x \in User /\ x.id \in Ids
           /\ x.selected => x # Absent
           /\ x = Absent => x.id = None
  <1>1. CASE x = Absent
    BY <1>1 DEF Absent
  <1>2. CASE x \in User
    <2>1. x.status # "absent" /\ x.selected \in BOOLEAN /\ x.id \in Ids
      BY <1>2 DEF User
    <2>2. x # Absent
      BY <2>1 DEF Absent
    <2>3. x.status \in {"absent", "fresh", "live", "deleting"}
      BY <1>2 DEF User
    <2> QED
      BY <1>2, <2>1, <2>2, <2>3
  <1> QED
    BY <1>1, <1>2 DEF AnyUser

\* A user keeps the other fields when its status changes.
LEMMA StatusChange ==
    ASSUME NEW x \in User, NEW st \in {"fresh", "live", "deleting"}
    PROVE  /\ [x EXCEPT !.status = st] \in User
           /\ [x EXCEPT !.status = st].status = st
           /\ [x EXCEPT !.status = st].id = x.id
           /\ [x EXCEPT !.status = st].group = x.group
           /\ [x EXCEPT !.status = st].selected = x.selected
  BY DEF User

-----------------------------------------------------------------------------
(* The type invariant.                                                     *)

LEMMA TypeInit == Init => TypeOK
  BY ConstantsAssumption DEF Init, TypeOK, Nobody

LEMMA EndPassType ==
    ASSUME EndPass
    PROVE  /\ pc' = "idle" /\ list' \in [Users -> AnyUser] /\ usersLeft' = {} /\ orgsLeft' = {}
           /\ org' \in Orgs \cup {None} /\ found' = {}
  BY DEF EndPass, Nobody, AnyUser

LEMMA PrunedType ==
    ASSUME TypeOK, NEW u \in usersLeft
    PROVE  Pruned(u) \in [Ids -> Users \cup {None}]
  BY DEF TypeOK, Pruned

LEMMA MarkedType ==
    ASSUME TypeOK, NEW new
    PROVE  Marked(new) \in [Users -> User \cup {Absent}]
  <1>1. ASSUME NEW u \in Users, user[u].status = "fresh"
        PROVE  [user[u] EXCEPT !.status = "live"] \in User
    BY <1>1, UserFields, StatusChange DEF TypeOK, AnyUser
  <1> QED
    BY <1>1 DEF Marked, TypeOK

LEMMA ReleasedType ==
    ASSUME NEW x \in AnyUser, x # Absent
    PROVE  /\ Released(x) \in User \cup {Absent}
           /\ Released(x).status \in {"absent", "fresh"}
           /\ Released(x) = Absent \/ (Released(x).id = x.id /\ Released(x).group = x.group)
  <1>1. x \in User
    BY UserFields
  <1>2. CASE x.status = "deleting"
    BY <1>2 DEF Released, Absent
  <1>3. CASE x.status # "deleting"
    BY <1>1, <1>3, StatusChange DEF Released
  <1> QED
    BY <1>2, <1>3

LEMMA TypeNext == TypeOK /\ [Next]_vars => TypeOK'
  <1> SUFFICES ASSUME TypeOK, [Next]_vars PROVE TypeOK'
    OBVIOUS
  <1> USE ConstantsAssumption DEF edits, pass, growthbook, AnyUser
  <1>1. CASE BeginPass
    <2>1. user' \in [Users -> User \cup {Absent}]
      BY <1>1, MarkedType DEF BeginPass
    <2>2. CASE Failed
      BY <1>1, <2>1, <2>2, EndPassType DEF BeginPass, Failed, TypeOK
    <2>3. CASE ~Failed
      <3>1. \A u \in Listed(cuser) : u \in Users /\ cuser[u].id \in Ids
        BY UserFields DEF TypeOK, Listed
      <3>2. given' \subseteq Ids
        BY <1>1, <2>3, <3>1 DEF BeginPass, TypeOK
      <3> QED
        BY <1>1, <2>1, <2>3, <3>2 DEF BeginPass, TypeOK, Listed
    <2> QED
      BY <2>2, <2>3
  <1>2. ASSUME NEW u \in Users, UpdateUser(u) PROVE TypeOK'
    BY <1>2 DEF UpdateUser, TypeOK
  <1>3. ASSUME NEW u \in Users, DeleteUser(u) PROVE TypeOK'
    <2>1. docs' \in [Ids -> Users \cup {None}]
      BY <1>3, PrunedType DEF DeleteUser
    <2>2. user' \in [Users -> User \cup {Absent}]
      BY <1>3, ReleasedType DEF DeleteUser, TypeOK
    <2>3. relics' \subseteq Users
      BY <1>3 DEF DeleteUser, TypeOK
    <2>4. CASE Failed
      BY <1>3, <2>1, <2>2, <2>3, <2>4, EndPassType DEF DeleteUser, Failed, TypeOK
    <2>5. CASE ~Failed
      BY <1>3, <2>1, <2>2, <2>3, <2>5 DEF DeleteUser, TypeOK
    <2> QED
      BY <2>4, <2>5
  <1>4. CASE EndUsers
    BY <1>4 DEF EndUsers, TypeOK, Nobody
  <1>5. ASSUME NEW o \in Orgs, ListMembers(o) PROVE TypeOK'
    <2>1. found' \subseteq Ids \X Roles
      BY <1>5, ConstantsAssumption DEF Bound, ListMembers, TypeOK
    <2> QED
      BY <1>5, <2>1 DEF ListMembers, TypeOK
  <1>6. CASE UpdateOrganization
    <2>1. org \in Orgs /\ Managed(members[org]) \in (SUBSET Members) \cup {None}
      BY <1>6 DEF UpdateOrganization, TypeOK, Managed, Members
    <2> QED
      BY <1>6, <2>1 DEF UpdateOrganization, TypeOK
  <1>7. CASE FinishPass
    BY <1>7, EndPassType DEF FinishPass, TypeOK
  <1>8. CASE FailPass
    <2>1. docs' \in [Ids -> Users \cup {None}]
      BY <1>8, PrunedType DEF FailPass, TypeOK
    <2> QED
      BY <1>8, <2>1, EndPassType DEF FailPass, Failed, TypeOK
  <1>9. ASSUME NEW u \in Users, WatchUser(u) PROVE TypeOK'
    <2>1. Event(cuser[u], user[u]) \in BOOLEAN
      BY UserFields DEF Event, TypeOK
    <2>2. {cuser[u].id, user[u].id} \ {None} \subseteq Ids
      BY UserFields DEF TypeOK
    <2> QED
      BY <1>9, <2>1, <2>2 DEF WatchUser, TypeOK
  <1>10. ASSUME NEW u \in Users, CreateUser(u) PROVE TypeOK'
    BY <1>10 DEF CreateUser, Change, TypeOK
  <1>11. ASSUME NEW u \in Users, EditUser(u) PROVE TypeOK'
    <2>1. user[u].id \in Ids
      BY <1>11, UserFields DEF EditUser, TypeOK
    <2>2. given' \subseteq Ids /\ user' \in [Users -> User \cup {Absent}]
      BY <1>11, <2>1 DEF EditUser, TypeOK
    <2> QED
      BY <1>11, <2>2 DEF EditUser, Change, TypeOK
  <1>12. ASSUME NEW u \in Users, RemoveUser(u) PROVE TypeOK'
    <2>1. user[u] \in User
      BY <1>12, UserFields DEF RemoveUser, TypeOK
    <2>2. user' \in [Users -> User \cup {Absent}]
      BY <1>12, <2>1, StatusChange DEF RemoveUser, TypeOK
    <2> QED
      BY <1>12, <2>2 DEF RemoveUser, Change, TypeOK
  <1>13. ASSUME NEW o \in Orgs, Invite(o) PROVE TypeOK'
    <2>1. PICK r \in Roles : members' = [members EXCEPT ![o] = @ \cup {<<Guest, r>>}]
      BY <1>13 DEF Invite
    <2>2. members[o] \subseteq Members
      BY <1>13 DEF Invite, TypeOK
    <2>3. members' \in [Orgs -> (SUBSET Members) \cup {None}]
      BY <2>1, <2>2 DEF TypeOK, Members
    <2> QED
      BY <1>13, <2>3 DEF Invite, Change, TypeOK
  <1>14. ASSUME NEW u \in Users, WatchMetadata(u) PROVE TypeOK'
    BY <1>14 DEF WatchMetadata, TypeOK
  <1>15. CASE UNCHANGED vars
    BY <1>15 DEF vars, TypeOK
  <1> QED
    BY <1>1, <1>2, <1>3, <1>4, <1>5, <1>6, <1>7, <1>8, <1>9, <1>10, <1>11, <1>12,
       <1>13, <1>14, <1>15 DEF Next, Work

\* Every variable keeps its type; what is listed for members is ids of users
\* that are there, and what is left of a pass belongs to its stage.
THEOREM MembershipTypeCorrect == Spec => []TypeOK
  BY TypeInit, TypeNext, PTL DEF Spec

-----------------------------------------------------------------------------
(* The inductive invariants.  Three of them stand on their own, about       *)
(* guests, about documents and about what has been done since the last     *)
(* event.                                                                  *)

\* While an organization has a guest and no bound user, none is found for it.
GuestInv ==
    \A o \in guests :
        /\ members[o] # None /\ \E r \in Roles : <<Guest, r>> \in members[o]
        /\ Bound(user, o) = {} /\ Bound(cuser, o) = {}
        /\ org = o => found = {}

\* What an older copy x of a user with a finalizer says: the object is there, with
\* a finalizer, and with that id, unless it has given it up.
Stays(x, u) ==
    /\ user[u].status \in {"live", "deleting"}
    /\ x.id = user[u].id \/ x.id \in given

\* The cache and the list trail the API server: a user that they show marked has
\* not gone, and one that they show deleted has not come back marked.  A user that
\* was listed to be kept has a finalizer and the id that was read, unless that id
\* was given up, or read where the finalizer did not land.
TrailInv ==
    /\ \A u \in Users :
          /\ cuser[u].status = "live" => Stays(cuser[u], u)
          /\ cuser[u].status = "deleting" => user[u].status # "live"
    /\ \A u \in usersLeft :
          /\ list[u].status # "deleting" /\ list[u].id \notin given =>
                Stays(list[u], u) /\ cuser[u].id = list[u].id
          /\ list[u].status = "deleting" => cuser[u].status # "live" /\ user[u].status # "live"

\* What holds of the writer w of a document with id i: it has a finalizer, and
\* the id, at the API server and in what the pass reads, and is to be released
\* by that id.
Owner(w, i) ==
    /\ user[w].id = i /\ user[w].status \in {"live", "deleting"}
    /\ cuser[w].id = i
    /\ w \in usersLeft => list[w].id = i

\* The writer of a document with an id that was not given up is its owner.
OwnerInv ==
    prune => \A i \in Ids \ given : docs[i] # None => Owner(docs[i], i)

\* Until an event queues the next pass, the selected users in the cache are those
\* of the list.
FreezeInv ==
    ~queued /\ pc = "users" =>
        \A u \in Users : list[u].selected \/ cuser[u].selected => list[u] = cuser[u]

\* A selected user with this id is being deleted, as far as the cache shows.
Remains(id) ==
    \E w \in Users : cuser[w].selected /\ cuser[w].status = "deleting" /\ cuser[w].id = id

\* The kept users that the pass has come to have documents, of kept users that it
\* has come to, unless it has released one with that id since.
Kept(u) == cuser[u].selected /\ cuser[u].status # "deleting"
Written(u) == Kept(u) /\ u \notin usersLeft
Writer(v, id) == docs[id] = v /\ Written(v) /\ cuser[v].id = id
WriteInv ==
    ~queued =>
        \A u \in Users : Written(u) =>
            (\E v \in Users : Writer(v, cuser[u].id)) \/ Remains(cuser[u].id)

\* The organizations that the pass has come to.
Visited(o) == pc = "idle" \/ (pc = "orgs" /\ o \notin orgsLeft /\ org # o)
Known(ms) == {m \in ms : m[1] \notin missed \cup {Guest}}
Follows(ms, bound) == Known(bound) # {} => Known(ms) = Known(bound)

\* Until an event queues the next pass, what a visited organization has and what
\* was found for the next one is what the cache shows, ids in missed apart.
StageInv == org # None => pc = "orgs"
MemberInv ==
    ~queued => \A o \in Orgs :
        /\ org = o => Known(found) = Known(Bound(cuser, o))
        /\ Visited(o) => members[o] # None /\ Follows(members[o], Bound(cuser, o))

-----------------------------------------------------------------------------
(* What the steps do to users.                                             *)

\* Users that are bound are bound by id and group alone.
LEMMA BoundBy ==
    ASSUME NEW us, NEW vs, NEW o \in Orgs,
           \A u \in Users : vs[u].id \in Ids =>
               vs[u].id = us[u].id /\ vs[u].group = us[u].group
    PROVE  Bound(vs, o) \subseteq Bound(us, o)
  BY DEF Bound

\* Marking changes the status of the new users, and nothing else.
LEMMA MarkedEffect ==
    ASSUME TypeOK, NEW new, NEW u \in Users
    PROVE  /\ Marked(new)[u].id = user[u].id /\ Marked(new)[u].group = user[u].group
           /\ Marked(new)[u].status = IF u \in new /\ user[u].status = "fresh" THEN "live"
                                      ELSE user[u].status
           /\ Marked(new)[u].selected = user[u].selected
  <1>1. CASE u \in new /\ user[u].status = "fresh"
    <2>1. user[u] \in User
      BY <1>1, UserFields DEF TypeOK, AnyUser
    <2> QED
      BY <1>1, <2>1, StatusChange DEF Marked
  <1>2. CASE ~(u \in new /\ user[u].status = "fresh")
    BY <1>2 DEF Marked
  <1> QED
    BY <1>1, <1>2

\* A pass begins on what the cache shows, or fails; it marks users of which the
\* cache shows no finalizer.  The ones to keep then have finalizers and the ids
\* that were read, unless given has these.
LEMMA BeginEffect ==
    ASSUME TypeOK, BeginPass
    PROVE  /\ \A u \in Users :
                 /\ user'[u].id = user[u].id /\ user'[u].group = user[u].group
                 /\ \/ user'[u].status = user[u].status
                    \/ user[u].status = "fresh" /\ user'[u].status = "live" /\ cuser[u].status = "fresh"
           /\ given \subseteq given'
           /\ \/ Failed
              \/ /\ pc' = "users" /\ list' = cuser /\ usersLeft' = Listed(cuser) /\ queued' = FALSE
                 /\ UNCHANGED org
                 /\ \A u \in Listed(cuser) :
                       cuser[u].status = "fresh" /\ cuser[u].id \notin given' =>
                          user'[u].id = cuser[u].id /\ user'[u].status \in {"live", "deleting"}
  <1> DEFINE kept  == {u \in Listed(cuser) : cuser[u].status # "deleting"}
             new   == {u \in kept \ relics : cuser[u].status = "fresh"}
             moved == {u \in kept : user[u] # cuser[u]}
             loose == {u \in kept : u \in relics \/ user[u].id # cuser[u].id}
  <1>1. PICK some \in SUBSET new :
           /\ user' = Marked(some)
           /\ \/ Failed /\ UNCHANGED given
              \/ /\ \A u \in moved : user[u] # Absent /\ u \notin relics
                 /\ some = new
                 /\ given' = given \cup {cuser[u].id : u \in loose}
                 /\ queued' = FALSE
                 /\ pc' = "users" /\ list' = cuser /\ usersLeft' = Listed(cuser)
                 /\ UNCHANGED org
    BY DEF BeginPass
  <1>2. ASSUME NEW u \in Users
        PROVE  /\ user'[u].id = user[u].id /\ user'[u].group = user[u].group
               /\ user'[u].status = IF u \in some /\ user[u].status = "fresh" THEN "live"
                                    ELSE user[u].status
    BY <1>1, MarkedEffect
  <1>3. \A u \in some : u \in Users /\ cuser[u].status = "fresh"
    BY DEF Listed
  <1>4. given \subseteq given'
    BY <1>1
  <1>5. ASSUME ~Failed, NEW u \in Listed(cuser), cuser[u].status = "fresh", cuser[u].id \notin given'
        PROVE  user'[u].id = cuser[u].id /\ user'[u].status \in {"live", "deleting"}
    <2>1. u \in kept /\ u \notin loose
      BY <1>1, <1>5
    <2>2. u \in new /\ some = new /\ user[u].id = cuser[u].id /\ u \in Users
      BY <1>1, <1>5, <2>1 DEF Listed
    <2>3. user[u] # Absent
      BY <1>1, <1>5, <2>1, UserFields DEF TypeOK, AnyUser, Absent
    <2>4. user[u].status \in {"fresh", "live", "deleting"}
      BY <2>2, <2>3, UserFields DEF TypeOK, AnyUser
    <2> QED
      BY <1>2, <2>2, <2>4
  <1>6. \/ Failed
        \/ /\ pc' = "users" /\ list' = cuser /\ usersLeft' = Listed(cuser) /\ queued' = FALSE
           /\ UNCHANGED org
    BY <1>1
  <1>7. \A u \in Users :
           /\ user'[u].id = user[u].id /\ user'[u].group = user[u].group
           /\ \/ user'[u].status = user[u].status
              \/ user[u].status = "fresh" /\ user'[u].status = "live" /\ cuser[u].status = "fresh"
    BY <1>2, <1>3
  <1> QED
    BY <1>4, <1>5, <1>6, <1>7

\* A user is removed at once, or marked as deleted.
LEMMA RemoveEffect ==
    ASSUME TypeOK, NEW u \in Users, RemoveUser(u)
    PROVE  /\ \A v \in Users \ {u} : user'[v] = user[v]
           /\ \/ user[u].status = "fresh" /\ user'[u] = Absent
              \/ /\ user[u].status = "live" /\ user'[u].status = "deleting"
                 /\ user'[u].id = user[u].id /\ user'[u].group = user[u].group
                 /\ user'[u].selected = user[u].selected
  <1>1. user[u] \in User
    BY UserFields DEF RemoveUser, TypeOK, AnyUser
  <1>2. \A v \in Users \ {u} : user'[v] = user[v]
    BY DEF RemoveUser, TypeOK
  <1>3. CASE user[u].status = "fresh"
    BY <1>2, <1>3 DEF RemoveUser, TypeOK
  <1>4. CASE user[u].status = "live"
    <2>1. user'[u] = [user[u] EXCEPT !.status = "deleting"]
      BY <1>4 DEF RemoveUser, TypeOK
    <2> QED
      BY <1>1, <1>2, <1>4, <2>1, StatusChange
  <1> QED
    BY <1>3, <1>4 DEF RemoveUser

\* A release takes the finalizer, if there is one, from the object that is there, or
\* has no effect.
LEMMA ReleaseEffect ==
    ASSUME TypeOK, NEW u \in Users, DeleteUser(u)
    PROVE  /\ \A v \in Users \ {u} : user'[v] = user[v]
           /\ \/ user'[u] = user[u] \/ user'[u] = Absent
              \/ /\ user'[u].status = "fresh"
                 /\ user'[u].id = user[u].id /\ user'[u].group = user[u].group
           /\ \/ usersLeft' = usersLeft \ {u} /\ UNCHANGED <<queued, pc, list, orgsLeft, org, found>>
              \/ Failed
           /\ docs' = Pruned(u) /\ u \in usersLeft /\ list[u].status = "deleting"
           /\ UNCHANGED <<cuser, prune, members, missed, given, guests>>
  <1>1. CASE UNCHANGED user
    BY <1>1 DEF DeleteUser
  <1>2. CASE user' # user
    <2>1. /\ user[u] # Absent
          /\ \E x \in {Released(user[u])} \cup ({user[u]} \cap {list[u]}) :
                user' = [user EXCEPT ![u] = x]
          /\ usersLeft' = usersLeft \ {u}
          /\ UNCHANGED <<queued, pc, list, orgsLeft, org, found>>
      BY <1>2 DEF DeleteUser
    <2>2. PICK x \in {Released(user[u])} \cup {user[u]} : user' = [user EXCEPT ![u] = x]
      BY <2>1
    <2>3. user'[u] = x /\ \A v \in Users \ {u} : user'[v] = user[v]
      BY <2>2 DEF TypeOK
    <2>4. \/ Released(user[u]) = Absent
          \/ /\ Released(user[u]).status = "fresh"
             /\ Released(user[u]).id = user[u].id /\ Released(user[u]).group = user[u].group
      <3>1. Released(user[u]) \in AnyUser
        BY <2>1, ReleasedType DEF TypeOK, AnyUser
      <3> QED
        BY <2>1, <3>1, ReleasedType, UserFields DEF TypeOK, AnyUser
    <2> QED
      BY <2>1, <2>2, <2>3, <2>4 DEF DeleteUser
  <1> QED
    BY <1>1, <1>2

-----------------------------------------------------------------------------
(* Guests.                                                                 *)

LEMMA GuestNext == TypeOK /\ GuestInv /\ [Next]_vars => GuestInv'
  <1> SUFFICES ASSUME TypeOK, GuestInv, [Next]_vars PROVE GuestInv'
    OBVIOUS
  <1> USE DEF edits, pass, growthbook, AnyUser
  <1>1. CASE BeginPass
    <2>1. \A u \in Users : user'[u].id = user[u].id /\ user'[u].group = user[u].group
      BY <1>1, BeginEffect
    <2>2. \A o \in Orgs : Bound(user', o) \subseteq Bound(user, o)
      BY <2>1, BoundBy
    <2>3. org' = org \/ org' = None
      BY <1>1 DEF BeginPass, Failed, EndPass
    <2>4. UNCHANGED <<cuser, members, guests>> /\ (org' = org => found' = found \/ found' = {})
      BY <1>1 DEF BeginPass, Failed, EndPass
    <2> QED
      BY <2>2, <2>3, <2>4, ConstantsAssumption DEF GuestInv, TypeOK
  <1>2. ASSUME NEW u \in Users, UpdateUser(u) PROVE GuestInv'
    BY <1>2 DEF UpdateUser, GuestInv
  <1>3. ASSUME NEW u \in Users, DeleteUser(u) PROVE GuestInv'
    <2>1. \A v \in Users : user'[v].id \in Ids =>
             user'[v].id = user[v].id /\ user'[v].group = user[v].group
      BY <1>3, ReleaseEffect, ConstantsAssumption DEF Absent
    <2>2. \A o \in Orgs : Bound(user', o) \subseteq Bound(user, o)
      BY <2>1, BoundBy
    <2>3. UNCHANGED <<cuser, members, guests>> /\ (UNCHANGED <<org, found>> \/ org' = None)
      BY <1>3 DEF DeleteUser, Failed, EndPass
    <2> QED
      BY <2>2, <2>3, ConstantsAssumption DEF GuestInv, TypeOK
  <1>4. CASE EndUsers
    BY <1>4 DEF EndUsers, GuestInv
  <1>5. ASSUME NEW o \in Orgs, ListMembers(o) PROVE GuestInv'
    BY <1>5 DEF ListMembers, GuestInv
  <1>6. CASE UpdateOrganization
    <2>1. \A o \in guests : members'[o] = members[o]
      BY <1>6 DEF UpdateOrganization, Managed, GuestInv, TypeOK
    <2> QED
      BY <1>6, <2>1 DEF UpdateOrganization, GuestInv
  <1>7. CASE FinishPass
    BY <1>7, ConstantsAssumption DEF FinishPass, EndPass, GuestInv, TypeOK
  <1>8. CASE FailPass
    BY <1>8, ConstantsAssumption DEF FailPass, Failed, EndPass, GuestInv, TypeOK
  <1>9. ASSUME NEW u \in Users, WatchUser(u) PROVE GuestInv'
    <2>1. \A o \in Orgs : Bound(cuser', o) \subseteq Bound(cuser, o) \cup Bound(user, o)
      BY <1>9 DEF WatchUser, Bound, TypeOK
    <2> QED
      BY <1>9, <2>1 DEF WatchUser, GuestInv, TypeOK
  <1>10. ASSUME NEW u \in Users, CreateUser(u) PROVE GuestInv'
    BY <1>10 DEF CreateUser, Binding, GuestInv, TypeOK
  <1>11. ASSUME NEW u \in Users, EditUser(u) PROVE GuestInv'
    BY <1>11 DEF EditUser, Binding, GuestInv, TypeOK
  <1>12. ASSUME NEW u \in Users, RemoveUser(u) PROVE GuestInv'
    <2>1. \A v \in Users : user'[v].id \in Ids =>
             user'[v].id = user[v].id /\ user'[v].group = user[v].group
      BY <1>12, RemoveEffect, ConstantsAssumption DEF Absent
    <2>2. \A o \in Orgs : Bound(user', o) \subseteq Bound(user, o)
      BY <2>1, BoundBy
    <2> QED
      BY <1>12, <2>2 DEF RemoveUser, GuestInv, TypeOK
  <1>13. ASSUME NEW o \in Orgs, Invite(o) PROVE GuestInv'
    <2>1. PICK r \in Roles : members' = [members EXCEPT ![o] = @ \cup {<<Guest, r>>}]
      BY <1>13 DEF Invite
    <2>2. members'[o] = members[o] \cup {<<Guest, r>>} /\ \A p \in Orgs \ {o} : members'[p] = members[p]
      BY <2>1 DEF TypeOK
    <2>3. \A p \in guests' : members'[p] # None /\ \E q \in Roles : <<Guest, q>> \in members'[p]
      <3>1. members'[o] # None
        BY <1>13, <2>2, ConstantsAssumption DEF Invite, TypeOK, Members
      <3> QED
        BY <1>13, <2>2, <3>1 DEF Invite, GuestInv, TypeOK
    <2> QED
      BY <1>13, <2>3 DEF Invite, GuestInv, TypeOK
  <1>14. CASE (\E u \in Users : WatchMetadata(u)) \/ UNCHANGED vars
    BY <1>14 DEF WatchMetadata, vars, GuestInv
  <1> QED
    BY <1>1, <1>2, <1>3, <1>4, <1>5, <1>6, <1>7, <1>8, <1>9, <1>10, <1>11, <1>12,
       <1>13, <1>14 DEF Next, Work

\* A guest whom someone has invited in Growthbook stays a member until some user
\* is bound, whatever passes do in between.
THEOREM GuestsStay == Spec => []GuestsKept
  <1>1. Init => GuestInv
    BY DEF Init, GuestInv
  <1>2. GuestInv => GuestsKept
    BY DEF GuestInv, GuestsKept
  <1> QED
    BY <1>1, <1>2, TypeInit, TypeNext, GuestNext, PTL DEF Spec

-----------------------------------------------------------------------------
(* Documents that are left behind.                                         *)

\* An edit keeps the status, and the id, unless it is given up.
LEMMA EditEffect ==
    ASSUME TypeOK, NEW u \in Users, EditUser(u)
    PROVE  /\ \A v \in Users \ {u} : user'[v] = user[v]
           /\ user[u] # Absent /\ user'[u] # Absent
           /\ user'[u].status = user[u].status
           /\ user'[u].id = user[u].id \/ user[u].id \in given'
           /\ given \subseteq given'
  <1>1. PICK x \in User \ {user[u]} :
           /\ x.status = user[u].status
           /\ user' = [user EXCEPT ![u] = x]
           /\ given' = IF x.id # user[u].id THEN given \cup {user[u].id} ELSE given
    BY DEF EditUser
  <1>2. user[u] # Absent /\ x # Absent
    BY UserFields DEF EditUser, User, Absent
  <1> QED
    BY <1>1, <1>2 DEF TypeOK

\* The inductive invariants that follow are about what a pass does to the users
\* it has listed.
LEMMA TrailNext == TypeOK /\ TrailInv /\ [Next]_vars => TrailInv'
  <1> SUFFICES ASSUME TypeOK, TrailInv, [Next]_vars PROVE TrailInv'
    OBVIOUS
  <1> USE DEF edits, pass, growthbook, AnyUser
  <1>0. usersLeft \subseteq Users
    BY DEF TypeOK
  <1>1. CASE BeginPass
    <2>1. UNCHANGED cuser /\ given \subseteq given'
      BY <1>1, BeginEffect DEF BeginPass
    <2>2. ASSUME NEW u \in Users
          PROVE  /\ cuser[u].status = "live" => Stays(cuser[u], u)'
                 /\ cuser[u].status = "deleting" => user'[u].status # "live"
      BY <1>1, <2>1, BeginEffect DEF TrailInv, Stays
    <2>3. CASE Failed
      BY <2>1, <2>2, <2>3 DEF Failed, EndPass, TrailInv
    <2>4. CASE ~Failed
      <3>1. list' = cuser /\ usersLeft' = Listed(cuser)
        BY <1>1, <2>4, BeginEffect
      <3>2. ASSUME NEW u \in Listed(cuser), cuser[u].status # "deleting", cuser[u].id \notin given'
            PROVE  user'[u].status \in {"live", "deleting"} /\ user'[u].id = cuser[u].id
        <4>1. cuser[u].status \in {"fresh", "live"} /\ u \in Users
          BY <3>2, UserFields DEF TypeOK, Listed
        <4>2. CASE cuser[u].status = "fresh"
          BY <1>1, <2>4, <3>2, <4>2, BeginEffect
        <4>3. CASE cuser[u].status = "live"
          BY <2>2, <3>2, <4>1, <4>3, <2>1 DEF Stays
        <4> QED
          BY <4>1, <4>2, <4>3
      <3>3. ASSUME NEW u \in Listed(cuser), cuser[u].status = "deleting"
            PROVE  user'[u].status # "live"
        BY <2>2, <3>3 DEF Listed
      <3> QED
        BY <2>1, <2>2, <3>1, <3>2, <3>3 DEF TrailInv, Stays
    <2> QED
      BY <2>3, <2>4
  <1>2. ASSUME NEW u \in Users, UpdateUser(u) PROVE TrailInv'
    BY <1>2 DEF UpdateUser, TrailInv, Stays
  <1>3. ASSUME NEW u \in Users, DeleteUser(u) PROVE TrailInv'
    <2>1. UNCHANGED <<cuser, given>> /\ cuser[u].status # "live"
      BY <1>3, ReleaseEffect DEF TrailInv
    <2>2. \A v \in Users \ {u} : user'[v] = user[v]
      BY <1>3, ReleaseEffect
    <2>3. user[u].status # "live" /\ user'[u].status # "live" /\ list[u].status = "deleting"
      BY <1>3, ReleaseEffect DEF TrailInv, Absent
    <2>4. UNCHANGED list \/ usersLeft' = {}
      BY <1>3, ReleaseEffect DEF Failed, EndPass
    <2>5. usersLeft' \subseteq usersLeft
      BY <1>3, ReleaseEffect DEF Failed, EndPass
    <2> QED
      BY <1>0, <2>1, <2>2, <2>3, <2>4, <2>5 DEF TrailInv, Stays
  <1>4. CASE EndUsers
    BY <1>4 DEF EndUsers, TrailInv, Stays
  <1>5. ASSUME NEW o \in Orgs, ListMembers(o) PROVE TrailInv'
    BY <1>5 DEF ListMembers, TrailInv, Stays
  <1>6. CASE UpdateOrganization
    BY <1>6 DEF UpdateOrganization, TrailInv, Stays
  <1>7. CASE FinishPass
    BY <1>7 DEF FinishPass, EndPass, TrailInv, Stays
  <1>8. CASE FailPass
    BY <1>8 DEF FailPass, Failed, EndPass, TrailInv, Stays
  <1>9. ASSUME NEW u \in Users, WatchUser(u) PROVE TrailInv'
    <2>1. cuser'[u] = user[u] /\ \A v \in Users \ {u} : cuser'[v] = cuser[v]
      BY <1>9 DEF WatchUser, TypeOK
    <2> QED
      BY <1>0, <1>9, <2>1 DEF WatchUser, TrailInv, Stays
  <1>10. ASSUME NEW u \in Users, CreateUser(u) PROVE TrailInv'
    <2>1. PICK x \in User : x.status = "fresh" /\ user' = [user EXCEPT ![u] = x]
      BY <1>10 DEF CreateUser
    <2>2. user[u].status = "absent" /\ user'[u].status = "fresh"
      BY <1>10, <2>1 DEF CreateUser, Absent, TypeOK
    <2>3. \A v \in Users \ {u} : user'[v] = user[v]
      BY <2>1 DEF TypeOK
    <2> QED
      BY <1>0, <1>10, <2>2, <2>3 DEF CreateUser, TrailInv, Stays
  <1>11. ASSUME NEW u \in Users, EditUser(u) PROVE TrailInv'
    BY <1>0, <1>11, EditEffect DEF EditUser, TrailInv, Stays
  <1>12. ASSUME NEW u \in Users, RemoveUser(u) PROVE TrailInv'
    BY <1>0, <1>12, RemoveEffect DEF RemoveUser, TrailInv, Stays, Absent
  <1>13. ASSUME NEW o \in Orgs, Invite(o) PROVE TrailInv'
    BY <1>13 DEF Invite, TrailInv, Stays
  <1>14. CASE (\E u \in Users : WatchMetadata(u)) \/ UNCHANGED vars
    BY <1>14 DEF WatchMetadata, vars, TrailInv, Stays
  <1> QED
    BY <1>1, <1>2, <1>3, <1>4, <1>5, <1>6, <1>7, <1>8, <1>9, <1>10, <1>11, <1>12,
       <1>13, <1>14 DEF Next, Work

\* Pruning a document leaves the others.
LEMMA PrunedEffect ==
    ASSUME TypeOK, NEW u \in usersLeft, NEW i \in Ids, Pruned(u)[i] # None
    PROVE  Pruned(u)[i] = docs[i] /\ (prune => i # list[u].id)
  <1>1. list[u].id \in Ids
    BY UserFields DEF TypeOK, AnyUser
  <1> QED
    BY <1>1 DEF Pruned, TypeOK

LEMMA OwnerNext == TypeOK /\ TrailInv /\ OwnerInv /\ [Next]_vars => OwnerInv'
  <1> SUFFICES ASSUME TypeOK, TrailInv, OwnerInv, [Next]_vars, prune',
                      NEW i \in Ids, i \notin given', docs'[i] # None
               PROVE  Owner(docs[i], i)'
    BY DEF OwnerInv
  <1> USE DEF edits, pass, growthbook, AnyUser
  <1>0. prune /\ i \notin given
    BY BeginEffect DEF Next, Work, BeginPass, EndUsers, UpdateOrganization, FinishPass,
       UpdateUser, DeleteUser, ListMembers, FailPass, WatchUser, WatchMetadata, CreateUser,
       EditUser, RemoveUser, Invite, vars
  <1>1. docs[i] # None => docs[i] \in Users /\ Owner(docs[i], i)
    BY <1>0 DEF OwnerInv, TypeOK
  <1>2. ASSUME UNCHANGED <<user, cuser, docs>>, usersLeft' = {} \/ UNCHANGED <<usersLeft, list>>
        PROVE  Owner(docs[i], i)'
    BY <1>1, <1>2 DEF Owner
  <1>3. CASE BeginPass
    <2>1. UNCHANGED <<cuser, docs>>
      BY <1>3 DEF BeginPass
    <2>2. usersLeft' = {} \/ list' = cuser
      BY <1>3, BeginEffect DEF Failed, EndPass
    <2> QED
      BY <1>1, <1>3, <2>1, <2>2, BeginEffect DEF Owner
  <1>4. ASSUME NEW u \in Users, UpdateUser(u) PROVE Owner(docs[i], i)'
    <2>1. UNCHANGED <<user, cuser, list>> /\ usersLeft' = usersLeft \ {u} /\ list[u].status # "deleting"
      BY <1>4 DEF UpdateUser
    <2>2. CASE i = list[u].id
      <3>1. Stays(list[u], u) /\ cuser[u].id = list[u].id
        BY <1>0, <1>4, <2>1, <2>2 DEF UpdateUser, TrailInv
      <3>2. docs'[i] = u
        BY <1>4, <2>2 DEF UpdateUser, TypeOK
      <3> QED
        BY <1>0, <2>1, <2>2, <3>1, <3>2 DEF Owner, Stays
    <2>3. CASE i # list[u].id
      <3>1. docs'[i] = docs[i]
        BY <1>4, <2>3 DEF UpdateUser, TypeOK
      <3> QED
        BY <1>1, <2>1, <3>1 DEF Owner
    <2> QED
      BY <2>2, <2>3
  <1>5. ASSUME NEW u \in Users, DeleteUser(u) PROVE Owner(docs[i], i)'
    <2>1. docs[i] # None /\ docs'[i] = docs[i] /\ i # list[u].id /\ u \in usersLeft
      BY <1>0, <1>5, PrunedEffect, ReleaseEffect
    <2>2. docs[i] \in Users \ {u} /\ Owner(docs[i], i)
      BY <1>1, <2>1 DEF Owner
    <2>3. user'[docs[i]] = user[docs[i]] /\ UNCHANGED cuser
      BY <1>5, <2>2, ReleaseEffect
    <2>4. usersLeft' = {} \/ (usersLeft' = usersLeft \ {u} /\ UNCHANGED list)
      BY <1>5, ReleaseEffect DEF Failed, EndPass
    <2> QED
      BY <2>1, <2>2, <2>3, <2>4 DEF Owner
  <1>6. CASE FailPass
    <2>1. docs[i] # None /\ docs'[i] = docs[i]
      BY <1>6, PrunedEffect DEF FailPass
    <2>2. UNCHANGED <<user, cuser>> /\ usersLeft' = {}
      BY <1>6 DEF FailPass, Failed, EndPass
    <2> QED
      BY <1>1, <2>1, <2>2 DEF Owner
  <1>7. ASSUME NEW u \in Users, CreateUser(u) PROVE Owner(docs[i], i)'
    <2>1. \A v \in Users \ {u} : user'[v] = user[v]
      BY <1>7 DEF CreateUser, TypeOK
    <2>2. user[u].status = "absent" /\ UNCHANGED <<cuser, docs, list, usersLeft>>
      BY <1>7 DEF CreateUser, Absent
    <2> QED
      BY <1>1, <2>1, <2>2 DEF Owner
  <1>8. ASSUME NEW u \in Users, EditUser(u) PROVE Owner(docs[i], i)'
    <2>1. UNCHANGED <<cuser, docs, list, usersLeft>>
      BY <1>8 DEF EditUser
    <2> QED
      BY <1>1, <1>8, <2>1, EditEffect DEF Owner
  <1>9. ASSUME NEW u \in Users, RemoveUser(u) PROVE Owner(docs[i], i)'
    <2>1. UNCHANGED <<cuser, docs, list, usersLeft>>
      BY <1>9 DEF RemoveUser
    <2> QED
      BY <1>1, <1>9, <2>1, RemoveEffect DEF Owner
  <1>10. ASSUME NEW u \in Users, WatchUser(u) PROVE Owner(docs[i], i)'
    <2>1. UNCHANGED <<user, docs, list, usersLeft>>
      BY <1>10 DEF WatchUser
    <2>2. \A v \in Users : cuser'[v] = cuser[v] \/ cuser'[v] = user[v]
      BY <1>10 DEF WatchUser, TypeOK
    <2> QED
      BY <1>1, <2>1, <2>2 DEF Owner
  <1>11. CASE \/ EndUsers \/ UpdateOrganization \/ FinishPass
              \/ \E o \in Orgs : ListMembers(o) \/ Invite(o)
              \/ \E u \in Users : WatchMetadata(u)
              \/ UNCHANGED vars
    <2>1. UNCHANGED <<user, cuser, docs>> /\ (usersLeft' = {} \/ UNCHANGED <<usersLeft, list>>)
      BY <1>11 DEF EndUsers, UpdateOrganization, FinishPass, EndPass, ListMembers, Invite,
         WatchMetadata, vars
    <2> QED
      BY <1>2, <2>1
  <1> QED
    BY <1>3, <1>4, <1>5, <1>6, <1>7, <1>8, <1>9, <1>10, <1>11 DEF Next, Work

LEMMA OwnerInit == Init => TrailInv /\ OwnerInv
  <1> SUFFICES ASSUME Init PROVE TrailInv /\ OwnerInv
    OBVIOUS
  <1>1. \A u \in Users : cuser[u].status \notin {"live", "deleting"}
    BY DEF Init, Absent
  <1> QED
    BY <1>1 DEF Init, TrailInv, OwnerInv

\* In an instance that prunes every document is that of a user which is there,
\* however many users share its id and however far the caches lag, but for ids that
\* a user gave up and ids that were read where the finalizer did not land: of
\* another object with that name than the one read, or of one for which the
\* metadata cache still showed its predecessor.
THEOREM NoOrphans == Spec => []OrphansOnlyFromEdits
  <1>1. TypeOK /\ OwnerInv => OrphansOnlyFromEdits
    BY DEF TypeOK, OwnerInv, Owner, OrphansOnlyFromEdits
  <1> QED
    BY <1>1, OwnerInit, TypeInit, TypeNext, TrailNext, OwnerNext, PTL DEF Spec

-----------------------------------------------------------------------------
(* Documents of the selected users.                                        *)

\* An event that starts no pass is of a user that is not selected, before and after.
LEMMA UnnoticedEffect ==
    ASSUME TypeOK, NEW u \in Users, WatchUser(u), ~queued'
    PROVE  /\ ~queued /\ ~cuser[u].selected /\ ~cuser'[u].selected
           /\ \A v \in Users \ {u} : cuser'[v] = cuser[v]
           /\ cuser'[u] = user[u]
           /\ missed' = missed \cup ({cuser[u].id, user[u].id} \ {None})
  BY UserFields DEF WatchUser, Event, TypeOK, AnyUser

LEMMA FreezeNext == TypeOK /\ FreezeInv /\ [Next]_vars => FreezeInv'
  <1> SUFFICES ASSUME TypeOK, FreezeInv, [Next]_vars, ~queued', pc' = "users" PROVE FreezeInv'
    BY DEF FreezeInv
  <1> USE DEF edits, pass, growthbook, AnyUser
  <1>1. CASE BeginPass
    BY <1>1, BeginEffect DEF BeginPass, Failed, FreezeInv
  <1>2. ASSUME NEW u \in Users, WatchUser(u) PROVE FreezeInv'
    <2>1. UNCHANGED <<pc, list>>
      BY <1>2 DEF WatchUser
    <2>2. ~list[u].selected
      BY <1>2, <2>1, UnnoticedEffect DEF FreezeInv
    <2> QED
      BY <1>2, <2>1, <2>2, UnnoticedEffect DEF FreezeInv
  <1>3. CASE \E u \in Users : \/ UpdateUser(u) \/ DeleteUser(u) \/ WatchMetadata(u)
                             \/ CreateUser(u) \/ EditUser(u) \/ RemoveUser(u)
    <2>1. UNCHANGED <<queued, pc, list, cuser>>
      BY <1>3 DEF UpdateUser, DeleteUser, Failed, WatchMetadata, CreateUser, EditUser, RemoveUser
    <2> QED
      BY <2>1 DEF FreezeInv
  <1>4. CASE \/ EndUsers \/ UpdateOrganization \/ FinishPass
             \/ \E o \in Orgs : ListMembers(o) \/ Invite(o)
             \/ UNCHANGED vars
    <2>1. UNCHANGED <<queued, cuser, pc, list>>
      BY <1>4 DEF EndUsers, UpdateOrganization, FinishPass, EndPass, ListMembers, Invite, vars
    <2> QED
      BY <2>1 DEF FreezeInv
  <1>5. CASE FailPass
    BY <1>5 DEF FailPass, Failed
  <1> QED
    BY <1>1, <1>2, <1>3, <1>4, <1>5 DEF Next, Work

LEMMA WriteNext == TypeOK /\ FreezeInv /\ WriteInv /\ [Next]_vars => WriteInv'
  <1> SUFFICES ASSUME TypeOK, FreezeInv, WriteInv, [Next]_vars, ~queued', NEW w \in Users, Written(w)'
               PROVE  (\E v \in Users : Writer(v, cuser[w].id)') \/ Remains(cuser[w].id)'
    BY DEF WriteInv
  <1> USE DEF edits, pass, growthbook, AnyUser
  <1>1. CASE BeginPass
    <2>1. UNCHANGED cuser /\ usersLeft' = Listed(cuser)
      BY <1>1, BeginEffect DEF BeginPass, Failed
    <2> QED
      BY <2>1 DEF Written, Kept, Listed
  <1>2. ASSUME NEW u \in Users, UpdateUser(u)
        PROVE  (\E v \in Users : Writer(v, cuser[w].id)') \/ Remains(cuser[w].id)'
    <2>1. UNCHANGED <<queued, cuser>> /\ usersLeft' = usersLeft \ {u}
      BY <1>2 DEF UpdateUser
    <2>2. pc = "users" /\ list[u].selected /\ list[u].status # "deleting"
      BY <1>2 DEF UpdateUser, TypeOK
    <2>3. list[u] = cuser[u] /\ Written(u)'
      BY <2>1, <2>2 DEF FreezeInv, Written, Kept
    <2>4. cuser[u].id \in Ids
      BY <2>2, <2>3, UserFields DEF TypeOK
    <2>5. docs'[cuser[u].id] = u /\ \A i \in Ids : i # cuser[u].id => docs'[i] = docs[i]
      BY <1>2, <2>3, <2>4 DEF UpdateUser, TypeOK
    <2>6. CASE cuser[w].id = cuser[u].id
      BY <2>1, <2>3, <2>5, <2>6 DEF Writer
    <2>7. CASE cuser[w].id # cuser[u].id
      <3>1. Written(w) /\ cuser[w].id \in Ids
        BY <2>1, <2>3, <2>7, UserFields DEF Written, Kept, TypeOK
      <3>2. CASE Remains(cuser[w].id)
        BY <2>1, <3>2 DEF Remains
      <3>3. CASE \E v \in Users : Writer(v, cuser[w].id)
        BY <2>1, <2>5, <2>7, <3>1, <3>3 DEF Writer, Written, Kept
      <3> QED
        BY <2>1, <3>1, <3>2, <3>3 DEF WriteInv
    <2> QED
      BY <2>6, <2>7
  <1>3. ASSUME NEW u \in Users, DeleteUser(u)
        PROVE  (\E v \in Users : Writer(v, cuser[w].id)') \/ Remains(cuser[w].id)'
    <2>1. UNCHANGED <<cuser, queued>> /\ usersLeft' = usersLeft \ {u} /\ docs' = Pruned(u)
      BY <1>3, ReleaseEffect DEF Failed
    <2>2. pc = "users" /\ list[u].selected /\ list[u].status = "deleting"
      BY <1>3 DEF DeleteUser, TypeOK
    <2>3. list[u] = cuser[u]
      BY <2>1, <2>2 DEF FreezeInv
    <2>4. Written(w)
      BY <2>1, <2>2, <2>3 DEF Written, Kept
    <2>5. CASE cuser[w].id = cuser[u].id
      BY <2>1, <2>2, <2>3, <2>5 DEF Remains
    <2>6. CASE cuser[w].id # cuser[u].id
      <3>1. docs'[cuser[w].id] = docs[cuser[w].id]
        BY <2>1, <2>3, <2>6 DEF Pruned
      <3>2. CASE Remains(cuser[w].id)
        BY <2>1, <3>2 DEF Remains
      <3>3. CASE \E v \in Users : Writer(v, cuser[w].id)
        BY <2>1, <3>1, <3>3 DEF Writer, Written, Kept
      <3> QED
        BY <2>1, <2>4, <3>2, <3>3 DEF WriteInv
    <2> QED
      BY <2>5, <2>6
  <1>4. ASSUME NEW u \in Users, WatchUser(u)
        PROVE  (\E v \in Users : Writer(v, cuser[w].id)') \/ Remains(cuser[w].id)'
    <2>1. UNCHANGED <<docs, usersLeft>> /\ ~queued
      BY <1>4, UnnoticedEffect DEF WatchUser
    <2>2. \A v \in Users : cuser[v].selected \/ cuser'[v].selected => cuser'[v] = cuser[v]
      BY <1>4, UnnoticedEffect
    <2>3. Written(w) /\ cuser'[w] = cuser[w]
      BY <2>1, <2>2 DEF Written, Kept
    <2>4. CASE Remains(cuser[w].id)
      BY <2>2, <2>3, <2>4 DEF Remains
    <2>5. CASE \E v \in Users : Writer(v, cuser[w].id)
      BY <2>1, <2>2, <2>3, <2>5 DEF Writer, Written, Kept
    <2> QED
      BY <2>1, <2>3, <2>4, <2>5 DEF WriteInv
  <1>5. CASE \/ EndUsers \/ UpdateOrganization \/ FinishPass
             \/ \E o \in Orgs : ListMembers(o) \/ Invite(o)
             \/ \E u \in Users : \/ WatchMetadata(u)
                               \/ CreateUser(u) \/ EditUser(u) \/ RemoveUser(u)
             \/ UNCHANGED vars
    <2>1. UNCHANGED <<queued, docs, cuser, usersLeft>>
      BY <1>5 DEF EndUsers, UpdateOrganization, FinishPass, EndPass, ListMembers, Invite,
         WatchMetadata, CreateUser, EditUser, RemoveUser, vars, TypeOK
    <2> QED
      BY <2>1 DEF WriteInv, Writer, Written, Kept, Remains
  <1>6. CASE FailPass
    BY <1>6 DEF FailPass, Failed
  <1> QED
    BY <1>1, <1>2, <1>3, <1>4, <1>5, <1>6 DEF Next, Work

\* When nothing is left to do and the cache has seen everything, every selected user
\* has a document, which a selected user with this id wrote, even if another user
\* took a document with this id along; unless that one is there still, because the
\* removal of its finalizer had no effect.
THEOREM SelectedUsersAreWritten == Spec => []SelectedUsersHaveDocuments
  <1>1. Init => FreezeInv /\ WriteInv
    BY DEF Init, FreezeInv, WriteInv
  <1>2. TypeOK /\ WriteInv => SelectedUsersHaveDocuments
    <2> SUFFICES ASSUME TypeOK, WriteInv, Quiet, NEW u \in Users,
                        user[u].status \in {"fresh", "live"}, user[u].selected
                 PROVE  \E v \in Users :
                           /\ user[v].selected /\ user[v].id = user[u].id
                           /\ \/ docs[user[u].id] = v /\ user[v].status \in {"fresh", "live"}
                              \/ user[v].status = "deleting"
      BY DEF SelectedUsersHaveDocuments
    <2>1. ~queued /\ cuser = user /\ usersLeft = {}
      BY DEF Quiet, TypeOK
    <2>2. Written(u)
      BY <2>1 DEF Written, Kept
    <2>3. CASE Remains(user[u].id)
      BY <2>1, <2>3 DEF Remains
    <2>4. CASE \E v \in Users : Writer(v, user[u].id)
      <3>1. PICK v \in Users : Writer(v, user[u].id)
        BY <2>4
      <3>2. user[v].selected /\ user[v].status # "deleting"
        BY <2>1, <3>1 DEF Writer, Written, Kept
      <3>3. user[v].status \in {"fresh", "live"}
        BY <3>2, UserFields DEF TypeOK, AnyUser
      <3> QED
        BY <2>1, <3>1, <3>2, <3>3 DEF Writer
    <2> QED
      BY <2>1, <2>2, <2>3, <2>4 DEF WriteInv
  <1> QED
    BY <1>1, <1>2, TypeInit, TypeNext, FreezeNext, WriteNext, PTL DEF Spec

-----------------------------------------------------------------------------
(* Members.                                                                *)

LEMMA StageNext == TypeOK /\ StageInv /\ [Next]_vars => StageInv'
  BY DEF StageInv, TypeOK, Next, Work, BeginPass, EndUsers, UpdateOrganization, FinishPass,
     UpdateUser, DeleteUser, ListMembers, FailPass, Failed, EndPass, WatchUser, CreateUser,
     EditUser, RemoveUser, WatchMetadata, Invite, vars, pass

\* An unnoticed change leaves the bound users, its ids apart, as they were.
LEMMA UnnoticedBound ==
    ASSUME TypeOK, NEW u \in Users, WatchUser(u), ~queued', NEW o \in Orgs
    PROVE  Known(Bound(cuser, o))' = {m \in Known(Bound(cuser, o)) : m[1] \notin missed'}
  <1>1. ASSUME NEW m \in Ids \X Roles, m[1] \notin missed', NEW w \in Users
        PROVE  cuser[w].id = m[1] \/ cuser'[w].id = m[1] => cuser'[w] = cuser[w]
    <2>1. m[1] # None
      BY ConstantsAssumption
    <2>2. cuser[u].id # m[1] /\ cuser'[u].id # m[1]
      BY <1>1, <2>1, UnnoticedEffect
    <2> QED
      BY <2>2, UnnoticedEffect
  <1>2. ASSUME NEW m \in Ids \X Roles, m[1] \notin missed'
        PROVE  m \in Bound(cuser, o)' <=> m \in Bound(cuser, o)
    <2>1. ASSUME NEW w \in Users
          PROVE  cuser'[w].id = m[1] /\ <<cuser'[w].group, m[2]>> \in Bindings[o]
                    <=> cuser[w].id = m[1] /\ <<cuser[w].group, m[2]>> \in Bindings[o]
      BY <1>1, <1>2
    <2>2. m \in Bound(cuser, o) <=>
             \E w \in Users : cuser[w].id = m[1] /\ <<cuser[w].group, m[2]>> \in Bindings[o]
      BY DEF Bound
    <2>3. m \in Bound(cuser, o)' <=>
             \E w \in Users : cuser'[w].id = m[1] /\ <<cuser'[w].group, m[2]>> \in Bindings[o]
      BY DEF Bound
    <2> QED
      BY <2>1, <2>2, <2>3
  <1>3. missed \subseteq missed'
    BY UnnoticedEffect
  <1>4. Bound(cuser, o) \subseteq Ids \X Roles /\ Bound(cuser, o)' \subseteq Ids \X Roles
    BY DEF Bound
  <1> QED
    BY <1>2, <1>3, <1>4 DEF Known

LEMMA MemberNext == TypeOK /\ StageInv /\ MemberInv /\ [Next]_vars => MemberInv'
  <1> SUFFICES ASSUME TypeOK, StageInv, MemberInv, [Next]_vars, ~queued' PROVE MemberInv'
    BY DEF MemberInv
  <1> USE DEF edits, pass, growthbook, AnyUser
  <1>1. CASE BeginPass
    <2>1. pc' = "users" /\ org' = org /\ pc = "idle"
      BY <1>1, BeginEffect DEF BeginPass, Failed
    <2> QED
      BY <2>1, ConstantsAssumption DEF MemberInv, Visited, StageInv
  <1>2. ASSUME NEW u \in Users, WatchUser(u) PROVE MemberInv'
    <2>1. UNCHANGED <<pc, orgsLeft, org, found, members>> /\ ~queued /\ missed \subseteq missed'
      BY <1>2, UnnoticedEffect DEF WatchUser
    <2>2. ASSUME NEW o \in Orgs, org = o PROVE Known(found)' = Known(Bound(cuser, o))'
      <3>1. Known(found) = Known(Bound(cuser, o))
        BY <2>1, <2>2 DEF MemberInv
      <3>2. Known(found)' = {m \in Known(found) : m[1] \notin missed'}
        BY <2>1 DEF Known
      <3> QED
        BY <1>2, <3>1, <3>2, UnnoticedBound
    <2>3. ASSUME NEW o \in Orgs, Visited(o)
          PROVE  members'[o] # None /\ Follows(members[o], Bound(cuser, o))'
      <3>1. members[o] # None /\ Follows(members[o], Bound(cuser, o))
        BY <2>1, <2>3 DEF MemberInv
      <3>2. Known(members[o])' = {m \in Known(members[o]) : m[1] \notin missed'}
        BY <2>1 DEF Known
      <3>3. Known(Bound(cuser, o))' = {m \in Known(Bound(cuser, o)) : m[1] \notin missed'}
        BY <1>2, UnnoticedBound
      <3> QED
        BY <2>1, <3>1, <3>2, <3>3 DEF Follows
    <2> QED
      BY <2>1, <2>2, <2>3 DEF MemberInv, Visited
  <1>3. ASSUME NEW o \in Orgs, ListMembers(o) PROVE MemberInv'
    <2>1. pc = "orgs" /\ org = None /\ org' = o /\ found' = Bound(cuser, o)
      BY <1>3 DEF ListMembers, TypeOK
    <2>2. UNCHANGED <<queued, pc, cuser, members, missed>> /\ orgsLeft' = orgsLeft \ {o}
      BY <1>3 DEF ListMembers
    <2>3. \A p \in Orgs : Visited(p)' => Visited(p)
      BY <2>1, <2>2, ConstantsAssumption DEF Visited
    <2> QED
      BY <2>1, <2>2, <2>3 DEF MemberInv, Known, Follows, Bound
  <1>4. CASE UpdateOrganization
    <2>1. pc = "orgs" /\ org \in Orgs /\ org' = None
      BY <1>4 DEF UpdateOrganization, StageInv, TypeOK
    <2>2. UNCHANGED <<queued, pc, cuser, missed, orgsLeft>>
      BY <1>4 DEF UpdateOrganization
    <2>3. Known(found) = Known(Bound(cuser, org))
      BY <2>1, <2>2 DEF MemberInv
    <2>4. members'[org] = Managed(members[org]) /\ \A p \in Orgs \ {org} : members'[p] = members[p]
      BY <1>4, <2>1 DEF UpdateOrganization, TypeOK
    <2>5. members'[org] # None /\ Follows(members'[org], Bound(cuser, org))
      <3>1. found # None
        BY ConstantsAssumption DEF TypeOK
      <3>2. CASE members[org] = None \/ found # {}
        BY <2>3, <2>4, <3>1, <3>2 DEF Managed, Follows
      <3>3. CASE members[org] # None /\ found = {}
        BY <2>3, <2>4, <3>3 DEF Managed, Follows, Known
      <3> QED
        BY <3>2, <3>3
    <2>6. ASSUME NEW p \in Orgs, Visited(p)', p # org
          PROVE  members'[p] # None /\ Follows(members'[p], Bound(cuser, p))
      <3>1. Visited(p)
        BY <2>1, <2>2, <2>6 DEF Visited
      <3> QED
        BY <2>2, <2>4, <2>6, <3>1 DEF MemberInv
    <2>7. \A p \in Orgs : Follows(members[p], Bound(cuser, p))' <=> Follows(members'[p], Bound(cuser, p))
      BY <2>2 DEF Follows, Known, Bound
    <2> QED
      BY <2>1, <2>5, <2>6, <2>7, ConstantsAssumption DEF MemberInv
  <1>5. ASSUME NEW o \in Orgs, Invite(o) PROVE MemberInv'
    <2>1. PICK r \in Roles : members' = [members EXCEPT ![o] = @ \cup {<<Guest, r>>}]
      BY <1>5 DEF Invite
    <2>2. members'[o] = members[o] \cup {<<Guest, r>>} /\ \A p \in Orgs \ {o} : members'[p] = members[p]
      BY <2>1 DEF TypeOK
    <2>3. members'[o] # None
      BY <1>5, <2>2, ConstantsAssumption DEF Invite, TypeOK, Members
    <2>4. UNCHANGED <<queued, pc, cuser, missed, orgsLeft, org, found>>
      BY <1>5 DEF Invite
    <2>5. \A p \in Orgs : Known(members[p])' = Known(members[p])
      BY <2>2, <2>4 DEF Known
    <2>6. \A p \in Orgs : Known(Bound(cuser, p))' = Known(Bound(cuser, p))
      BY <2>4 DEF Known, Bound
    <2> QED
      BY <2>2, <2>3, <2>4, <2>5, <2>6 DEF MemberInv, Visited, Follows, Known
  <1>6. CASE EndUsers
    BY <1>6, ConstantsAssumption DEF EndUsers, MemberInv, Visited, StageInv, TypeOK
  <1>7. CASE FinishPass
    <2>1. pc = "orgs" /\ orgsLeft = {} /\ org = None /\ org' = None
      BY <1>7 DEF FinishPass, EndPass
    <2>2. UNCHANGED <<queued, cuser, missed, members>>
      BY <1>7 DEF FinishPass
    <2>3. \A o \in Orgs : Visited(o) /\ org' # o
      BY <2>1, ConstantsAssumption DEF Visited
    <2> QED
      BY <2>2, <2>3 DEF MemberInv, Follows, Known, Bound
  <1>8. CASE \E u \in Users : \/ UpdateUser(u) \/ DeleteUser(u) \/ WatchMetadata(u)
                             \/ CreateUser(u) \/ EditUser(u) \/ RemoveUser(u)
    <2>1. UNCHANGED <<queued, pc, cuser, missed, orgsLeft, org, found, members>>
      BY <1>8 DEF UpdateUser, DeleteUser, Failed, WatchMetadata, CreateUser, EditUser, RemoveUser
    <2> QED
      BY <2>1 DEF MemberInv, Visited, Follows, Known, Bound
  <1>9. CASE FailPass
    BY <1>9 DEF FailPass, Failed
  <1>10. CASE UNCHANGED vars
    BY <1>10 DEF vars, MemberInv, Visited, Follows, Known, Bound
  <1> QED
    BY <1>1, <1>2, <1>3, <1>4, <1>5, <1>6, <1>7, <1>8, <1>9, <1>10 DEF Next, Work

\* When nothing is left to do and the cache has seen everything, an organization has
\* the members that its bindings select, but for guests, for ids whose change no
\* event told the instance of, and for an organization without bound users.
THEOREM MembersAreBound == Spec => []MembersFollowBindings
  <1>1. Init => StageInv /\ MemberInv
    BY DEF Init, StageInv, MemberInv
  <1>2. MemberInv => MembersFollowBindings
    BY DEF MemberInv, MembersFollowBindings, Quiet, Visited, Follows, Known, Bound
  <1> QED
    BY <1>1, <1>2, TypeInit, TypeNext, StageNext, MemberNext, PTL DEF Spec

=============================================================================
