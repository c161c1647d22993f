----------------------------- MODULE SecretWatch -----------------------------
(***************************************************************************)
(* How the change of a secret, of an object or of an instance comes to     *)
(* start a pass (SetupWithManager and the map functions of                 *)
(* internal/controllers/instance_controller.go), and which content of a    *)
(* secret a pass reads.                                                    *)
(*                                                                         *)
(* Secrets do not say who refers to them.  An index of the instance        *)
(* informer does, from secrets to instances; but its function reads users  *)
(* and clients, while the informer calls it only when an instance changes. *)
(* What keeps it up to date is that every pass ends in a patch of the      *)
(* status, and that is a change of the instance.                           *)
(*                                                                         *)
(* Finalizers, pruning and organizations are left to InstanceReconciler:   *)
(* an organization selects what its instance selects.                      *)
(***************************************************************************)
EXTENDS Naturals

CONSTANTS
    Instances, Users, Clients, Secrets,
    Selectors,  \* the kinds of selectors instances may have
    Labellings, \* the sets of instances whose selectors the labels of an object may satisfy
    Tokens,     \* contents of a secret that can be used
    AtFirst,    \* those of them that the secrets may have at first
    Short,      \* a content of less than four bytes
    None,       \* no secret, no document
    RootSecret, \* the secret with the credentials of an instance's database, or None
    Interval,   \* the instances with a spec.interval
    MaxOps      \* bound on the edits made by users, on failing calls and restarts

Objects == Users \cup Clients
Contents == Tokens \cup {Short, None}

ASSUME ConstantsAssumption ==
    /\ Users \cap Clients = {}
    /\ Selectors \subseteq {"labels", "expressions", "nil"}
    /\ Labellings \subseteq SUBSET Instances
    /\ AtFirst \subseteq Tokens
    /\ None \notin Secrets \cup Tokens /\ Short \notin Tokens \cup {None}
    /\ RootSecret \in [Instances -> Secrets \cup {None}]
    /\ Interval \subseteq Instances
    /\ MaxOps \in Nat

VARIABLES
    inst,    \* the GrowthbookInstance objects at the API server
    news,    \* what the informer cache has not seen of them: a new status or spec
    obj,     \* the GrowthbookUser and GrowthbookClient objects
    secret,  \* the contents of the secrets
    cinst, cobj, csecret,  \* the informer cache's copies
    index,   \* for each secret the instances it is indexed under
    queued,  \* the work queue
    walking, \* the instances whose pass is under way
    todo,    \* the listed objects, with their secrets, that the pass has still to write
    docs,    \* the content that was written into the document of an object
    missed,  \* history: clients whose secret changed while the index was behind
    ops      \* edits, failing calls and restarts so far

apiVars    == <<inst, obj, secret>>
cacheVars  == <<cinst, cobj, csecret, index>>
passVars   == <<walking, todo, docs>>
vars == <<apiVars, news, cacheVars, queued, passVars, missed, ops>>

-----------------------------------------------------------------------------
(* Selectors.                                                              *)

\* The selector is by labels, by expressions over labels, or there is none.
Instance == [live : BOOLEAN, selector : Selectors]
\* selected: the instances whose selector, if they have one, holds of the labels.
Object == [live : BOOLEAN, selected : Labellings, ref : Secrets]

\* LabelSelectorAsSelector: without a selector nothing is listed.
Picks(x, i, o) == o.live /\ x.live /\ x.selector # "nil" /\ i \in o.selected

\* matches: without a selector everything is an event; expressions are not looked at.
matches(x, i, o) == o.live /\ x.live /\ (x.selector = "labels" => i \in o.selected)

\* Mutant: the secrets of clients are not indexed.
Mutant_IndexKeys(x, i, os) ==
    ({RootSecret[i]} \cup {os[r].ref : r \in {q \in Users : Picks(x, i, os[q])}}) \ {None}

\* The function of the index secretIndexKey.
IndexKeys(x, i, os) ==
    ({RootSecret[i]} \cup {os[r].ref : r \in {q \in Objects : Picks(x, i, os[q])}}) \ {None}

\* Types; and no connection ever has a token that is too short.
TypeOK ==
    /\ inst \in [Instances -> Instance] /\ cinst \in [Instances -> Instance]
    /\ news \in [Instances -> {"none", "status", "spec"}]
    /\ obj \in [Objects -> Object] /\ cobj \in [Objects -> Object]
    /\ secret \in [Secrets -> Contents] /\ csecret \in [Secrets -> Contents]
    /\ index \in [Secrets -> SUBSET Instances]
    /\ queued \subseteq Instances /\ walking \subseteq Instances
    /\ todo \in [Instances -> SUBSET (Objects \X Secrets)]
    /\ docs \in [Instances -> [Objects -> Contents]]
    /\ \A i \in Instances, c \in Clients : docs[i][c] # Short
    /\ missed \subseteq Instances \X Clients
    /\ ops \in 0 .. MaxOps

Init ==
    /\ \E x \in Selectors : inst = [i \in Instances |-> [live |-> TRUE, selector |-> x]]
    /\ \E s \in Secrets, l \in Labellings, present \in BOOLEAN :
          obj = [r \in Objects |-> [live |-> present, selected |-> l, ref |-> s]]
    /\ secret \in [Secrets -> AtFirst]
    /\ cinst = inst /\ cobj = obj /\ csecret = secret
    /\ index = [s \in Secrets |-> {i \in Instances : s \in IndexKeys(inst[i], i, obj)}]
    /\ queued = Instances
    /\ news = [i \in Instances |-> "none"]
    /\ walking = {} /\ todo = [i \in Instances |-> {}]
    /\ docs = [i \in Instances |-> [r \in Objects |-> None]]
    /\ missed = {}
    /\ ops = 0

\* What nobody has to do, and happens so often only.
Disturbance == ops < MaxOps /\ ops' = ops + 1

-----------------------------------------------------------------------------
(* The pass.                                                               *)

SkipPass(i) ==
    /\ i \in queued \ walking /\ ~cinst[i].live
    /\ queued' = queued \ {i}
    /\ UNCHANGED <<apiVars, news, cacheVars, passVars, missed, ops>>

\* getUsernamePassword: the instance's own secret is read before the rest.
Connected(i) == RootSecret[i] # None => csecret[RootSecret[i]] # None

\* The users and the clients are listed; clients in the code only when the users and
\* the organizations are done.
BeginPass(i) ==
    /\ i \in queued \ walking /\ cinst[i].live /\ Connected(i)
    /\ queued' = queued \ {i}
    /\ walking' = walking \cup {i}
    /\ todo' = [todo EXCEPT ![i] =
                  {<<r, cobj[r].ref>> : r \in {q \in Objects : Picks(cinst[i], i, cobj[q])}}]
    /\ UNCHANGED <<apiVars, news, cacheVars, docs, missed, ops>>

\* The objects whose turn it is, users first.
Turn(i) ==
    LET users == {x \in todo[i] : x[1] \in Users}
    IN  IF users = {} THEN todo[i] ELSE users

\* Mutant: a short token is taken as it is.
Mutant_Accepted(r) == Tokens \cup {Short}

\* What can be written: the beginning of a token is sliced, a password is hashed.
Accepted(r) == IF r \in Clients THEN Tokens ELSE Tokens \cup {Short}

\* Mutant: the token is not among the fields that an update copies.
Mutant_Written(r, old, content) == IF old # None THEN old ELSE content

\* UpdateSDKConnection copies the token, UpdateUser leaves the password.
Written(r, old, content) == IF r \in Users /\ old # None THEN old ELSE content

\* A document gets the content that the secret has by now, not at the list.
Write(i, x) ==
    /\ i \in walking /\ x \in Turn(i)
    /\ LET r == x[1]
           content == csecret[x[2]]
       IN  /\ content \in Accepted(r)
           /\ docs' = [docs EXCEPT ![i][r] = Written(r, @, content)]
    /\ missed' = missed \ {<<i, x[1]>>}
    /\ todo' = [todo EXCEPT ![i] = @ \ {x}]
    /\ UNCHANGED <<apiVars, news, cacheVars, queued, walking, ops>>

EndPass(i) ==
    /\ walking' = walking \ {i}
    /\ todo' = [todo EXCEPT ![i] = {}]
    /\ UNCHANGED docs

\* The patch of the status, which always says how long the pass took.
Published(i) == IF inst[i].live /\ news[i] = "none" THEN [news EXCEPT ![i] = "status"] ELSE news

\* Mutant: the interval is not looked at.
Mutant_Again(i) == ~inst[i].live

\* The pass is to be repeated: after the interval, or as there is nothing to patch.
Again(i) == i \in Interval \/ ~inst[i].live

FinishPass(i) ==
    /\ i \in walking /\ todo[i] = {}
    /\ EndPass(i)
    /\ news' = Published(i)
    /\ queued' = IF Again(i) THEN queued \cup {i} ELSE queued
    /\ UNCHANGED <<apiVars, cacheVars, missed, ops>>

\* Without the credentials the pass ends before anything is listed.
FailToConnect(i) ==
    /\ i \in queued \ walking /\ cinst[i].live /\ ~Connected(i)
    /\ news' = Published(i)
    /\ UNCHANGED <<apiVars, cacheVars, queued, passVars, missed, ops>>

Missing(i) == \E x \in Turn(i) : csecret[x[2]] = None

\* A secret that does not exist ends the pass, as any failing call does.
FailPass(i) ==
    /\ i \in walking
    /\ \/ Missing(i) /\ UNCHANGED ops
       \/ Disturbance
    /\ EndPass(i)
    /\ news' = Published(i)
    /\ queued' = queued \cup {i}
    /\ UNCHANGED <<apiVars, cacheVars, missed>>

\* A token of less than four bytes is sliced beyond its end.  controller-runtime
\* recovers and tries the pass again; there is no status.
Panic(i) ==
    /\ i \in walking
    /\ \E x \in Turn(i) : x[1] \in Clients /\ csecret[x[2]] = Short
    /\ EndPass(i)
    /\ queued' = queued \cup {i}
    /\ UNCHANGED <<apiVars, news, cacheVars, missed, ops>>

\* The process dies, and a new one starts: to it every instance is an event.
Restart ==
    /\ Disturbance
    /\ cinst' = inst /\ cobj' = obj /\ csecret' = secret
    /\ index' = [s \in Secrets |->
                    {i \in Instances : inst[i].live /\ s \in IndexKeys(inst[i], i, obj)}]
    /\ news' = [i \in Instances |-> "none"]
    /\ queued' = {i \in Instances : inst[i].live}
    /\ walking' = {} /\ todo' = [i \in Instances |-> {}]
    /\ missed' = {}
    /\ UNCHANGED <<apiVars, docs>>

-----------------------------------------------------------------------------
(* The informers and the watches.                                          *)

\* The store takes an instance out of the index under the keys that the function
\* returns for its old version now, which need not be those it went in under.
Reindexed(i, old, new) ==
    LET was == IndexKeys(old, i, cobj)
        is  == IF new.live THEN IndexKeys(new, i, cobj) ELSE {}
    IN  [s \in Secrets |-> (index[s] \ (IF s \in was THEN {i} ELSE {}))
                             \cup (IF s \in is THEN {i} ELSE {})]

\* Mutant: a change of the status is an event.
Mutant_WatchInstance(i) ==
    /\ news[i] # "none"
    /\ cinst' = [cinst EXCEPT ![i] = inst[i]]
    /\ index' = Reindexed(i, cinst[i], inst[i])
    /\ news' = [news EXCEPT ![i] = "none"]
    /\ queued' = queued \cup {i}
    /\ UNCHANGED <<apiVars, cobj, csecret, passVars, missed, ops>>

\* GenerationChangedPredicate: a change of the status is no event.
WatchInstance(i) ==
    /\ news[i] # "none"
    /\ cinst' = [cinst EXCEPT ![i] = inst[i]]
    /\ index' = Reindexed(i, cinst[i], inst[i])
    /\ news' = [news EXCEPT ![i] = "none"]
    /\ queued' = IF news[i] = "spec" THEN queued \cup {i} ELSE queued
    /\ UNCHANGED <<apiVars, cobj, csecret, passVars, missed, ops>>

\* requestsForChangeBySelector, for the old and the new version.
WatchObject(r) ==
    /\ cobj[r] # obj[r]
    /\ cobj' = [cobj EXCEPT ![r] = obj[r]]
    /\ queued' = queued \cup {i \in Instances : matches(cinst[i], i, cobj[r]) \/ matches(cinst[i], i, obj[r])}
    /\ UNCHANGED <<apiVars, news, cinst, csecret, index, passVars, missed, ops>>

\* An entry that an instance has left behind in the index leads to no object, and
\* the list that comes upon it fails for all instances.
Broken(s) == \E i \in index[s] : ~cinst[i].live

\* requestsForChangeByField
Woken(s) == IF Broken(s) THEN {} ELSE index[s]

\* The index is behind if a pass of the instance, or the last change of it, is
\* still to be seen by its informer.
Behind(i) == i \in walking \/ news[i] # "none"

WatchSecret(s) ==
    /\ csecret[s] # secret[s]
    /\ csecret' = [csecret EXCEPT ![s] = secret[s]]
    /\ queued' = queued \cup Woken(s)
    /\ missed' = missed \cup {m \in (Instances \ Woken(s)) \X Clients :
                                 cobj[m[2]].ref = s /\ (Behind(m[1]) \/ Broken(s))}
    /\ UNCHANGED <<apiVars, news, cinst, cobj, index, passVars, ops>>

-----------------------------------------------------------------------------
(* The users of the cluster.                                               *)

controllerVars == <<cacheVars, queued, passVars, missed>>

\* An object is created, relabelled, given another secret, or goes.
EditObject(r) ==
    /\ Disturbance
    /\ \E o \in Object :
          /\ ~o.live => o = [obj[r] EXCEPT !.live = FALSE]
          /\ o # obj[r]
          /\ obj' = [obj EXCEPT ![r] = o]
    /\ UNCHANGED <<inst, secret, news, controllerVars>>

EditSecret(s) ==
    /\ Disturbance
    /\ \E x \in Contents \ {secret[s]} : secret' = [secret EXCEPT ![s] = x]
    /\ UNCHANGED <<inst, obj, news, controllerVars>>

EditSelector(i) ==
    /\ Disturbance /\ inst[i].live
    /\ \E x \in Selectors \ {inst[i].selector} : inst' = [inst EXCEPT ![i].selector = x]
    /\ news' = [news EXCEPT ![i] = "spec"]
    /\ UNCHANGED <<obj, secret, controllerVars>>

\* The instance goes, once its last pass is over.
DeleteInstance(i) ==
    /\ Disturbance /\ inst[i].live /\ i \notin walking
    /\ inst' = [inst EXCEPT ![i].live = FALSE]
    /\ news' = [news EXCEPT ![i] = "spec"]
    /\ UNCHANGED <<obj, secret, controllerVars>>

-----------------------------------------------------------------------------

Work(i) ==
    \/ SkipPass(i) \/ BeginPass(i) \/ FailToConnect(i)
    \/ FinishPass(i) \/ FailPass(i) \/ Panic(i)
    \/ \E x \in todo[i] : Write(i, x)

Next ==
    \/ \E i \in Instances : Work(i) \/ WatchInstance(i) \/ EditSelector(i) \/ DeleteInstance(i)
    \/ \E r \in Objects : WatchObject(r) \/ EditObject(r)
    \/ \E s \in Secrets : WatchSecret(s) \/ EditSecret(s)
    \/ Restart

Spec == Init /\ [][Next]_vars

Fairness ==
    /\ \A i \in Instances : WF_vars(Work(i)) /\ WF_vars(WatchInstance(i))
    /\ \A r \in Objects : WF_vars(WatchObject(r))
    /\ \A s \in Secrets : WF_vars(WatchSecret(s))

FairSpec == Spec /\ Fairness

-----------------------------------------------------------------------------
(* Properties.                                                             *)

\* Nothing about an instance is under way: what holds now holds until a user
\* changes something.
Quiet(i) ==
    /\ i \notin queued /\ ~Behind(i)
    /\ cobj = obj /\ csecret = secret

\* In quiet the index knows every secret that the next pass would read.
QuietIsIndexed ==
    \A i \in Instances : Quiet(i) /\ inst[i].live =>
        /\ RootSecret[i] # None => i \in index[RootSecret[i]]
        /\ \A r \in Objects : Picks(inst[i], i, obj[r]) => i \in index[obj[r].ref]

\* In quiet the connection of every selected client has the token that its secret
\* has now: no change of the secret, of the client or of the selector went
\* unnoticed, and no failed pass was forgotten; except for a change of a secret
\* that came while the index was behind, or after an instance went and left an
\* entry for that secret.
QuietIsSynced ==
    \A i \in Instances, c \in Clients :
        Quiet(i) /\ Picks(inst[i], i, obj[c]) /\ <<i, c>> \notin missed
            => docs[i][c] = secret[obj[c].ref]

\* Every secret that the instance needs can be used.
Usable(i) ==
    /\ RootSecret[i] # None => secret[RootSecret[i]] # None
    /\ \A r \in Objects : Picks(inst[i], i, obj[r]) => secret[obj[r].ref] \in Accepted(r)

\* Passes come to an end, although each changes the instance that it is about,
\* once all secrets can be used; without an interval.
PassesEnd ==
    \A i \in Instances \ Interval : <>[]Usable(i) => <>[]Quiet(i)

\* With an interval no change of a token is missed for good, once all secrets
\* can be used.
TokenArrives ==
    \A i \in Interval, c \in Clients :
        <>[](Usable(i) /\ Picks(inst[i], i, obj[c]))
            => <>[](docs[i][c] = secret[obj[c].ref])

=============================================================================
