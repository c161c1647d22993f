-------------------------- MODULE SecretWatchProofs --------------------------
(***************************************************************************)
(* Theorems about SecretWatch, for every value of its constants: any       *)
(* number of instances, users, clients and secrets, whatever selects them, *)
(* and any number of edits, failures and restarts.                         *)
(***************************************************************************)
EXTENDS SecretWatch, TLAPS

-----------------------------------------------------------------------------
(* The inductive invariants.                                               *)

\* Without a new spec the cache shows the instance as it is.  What a pass has still
\* to write is of a pass that is under way.
SeenInv ==
    /\ \A i \in Instances : news[i] # "spec" => cinst[i] = inst[i]
    /\ \A i \in Instances : i \notin walking => todo[i] = {}

\* An instance that no pass is wanted for, and whose last pass its informer has
\* seen, is indexed under all secrets that the cached objects refer to.
IndexInv ==
    \A i \in Instances :
        i \notin queued /\ ~Behind(i) /\ cinst[i].live =>
            \A s \in IndexKeys(cinst[i], i, cobj) : i \in index[s]

\* As long as no other pass is wanted, a pass has objects still to write that are as
\* the cache shows them.
TodoInv ==
    \A i \in Instances : i \notin queued =>
        \A x \in todo[i] : Picks(cinst[i], i, cobj[x[1]]) /\ x[2] = cobj[x[1]].ref

\* Then every selected client in the cache has the token in the cache, or is still
\* to be written, or its secret has changed unnoticed.
SyncInv ==
    \A i \in Instances, c \in Clients :
        i \notin queued /\ Picks(cinst[i], i, cobj[c]) /\ <<i, c>> \notin missed =>
            \/ docs[i][c] = csecret[cobj[c].ref]
            \/ <<c, cobj[c].ref>> \in todo[i]

-----------------------------------------------------------------------------
(* The type invariant.                                                     *)

LEMMA PickedIsMatched ==
    ASSUME NEW x \in Instance, NEW i, NEW o, Picks(x, i, o)
    PROVE  matches(x, i, o)
  BY DEF Picks, matches

LEMMA InstanceEdits ==
    ASSUME NEW x \in Instance
    PROVE  /\ [x EXCEPT !.live = FALSE] \in Instance
           /\ \A y \in Selectors : [x EXCEPT !.selector = y] \in Instance
  BY DEF Instance

LEMMA IndexKeysType ==
    ASSUME NEW x, NEW i \in Instances, NEW os \in [Objects -> Object]
    PROVE  IndexKeys(x, i, os) \subseteq Secrets
  BY ConstantsAssumption DEF IndexKeys, Object

LEMMA TypeInit == Init => TypeOK
  <1> SUFFICES ASSUME Init PROVE TypeOK
    OBVIOUS
  <1> USE ConstantsAssumption
  <1>1. inst \in [Instances -> Instance]
    BY DEF Init, Instance
  <1>2. obj \in [Objects -> Object]
    BY DEF Init, Object
  <1>3. secret \in [Secrets -> Contents]
    BY DEF Init, Contents
  <1>4. index \in [Secrets -> SUBSET Instances]
    BY DEF Init
  <1>5. docs \in [Instances -> [Objects -> Contents]] /\ \A i \in Instances, c \in Clients : docs[i][c] # Short
    BY DEF Init, Contents, Objects
  <1>6. cinst = inst /\ cobj = obj /\ csecret = secret
    BY DEF Init
  <1>7. /\ news \in [Instances -> {"none", "status", "spec"}]
        /\ queued \subseteq Instances /\ walking \subseteq Instances
        /\ todo \in [Instances -> SUBSET (Objects \X Secrets)]
        /\ missed \subseteq Instances \X Clients
        /\ ops \in 0 .. MaxOps
    BY DEF Init
  <1> QED
    BY <1>1, <1>2, <1>3, <1>4, <1>5, <1>6, <1>7 DEF TypeOK

LEMMA TypeNext == TypeOK /\ [Next]_vars => TypeOK'
  <1> SUFFICES ASSUME TypeOK, [Next]_vars PROVE TypeOK'
    OBVIOUS
  <1> USE ConstantsAssumption DEF apiVars, cacheVars, passVars, controllerVars
  <1>1. ASSUME NEW i \in Instances, SkipPass(i) PROVE TypeOK'
    BY <1>1 DEF SkipPass, TypeOK
  <1>2. ASSUME NEW i \in Instances, BeginPass(i) PROVE TypeOK'
    <2>1. {<<r, cobj[r].ref>> : r \in {q \in Objects : Picks(cinst[i], i, cobj[q])}}
             \subseteq Objects \X Secrets
      BY DEF TypeOK, Object
    <2>2. todo' \in [Instances -> SUBSET (Objects \X Secrets)]
      BY <1>2, <2>1 DEF BeginPass, TypeOK
    <2> QED
      BY <1>2, <2>2 DEF BeginPass, TypeOK
  <1>3. ASSUME NEW i \in Instances, NEW x \in todo[i], Write(i, x) PROVE TypeOK'
    <2> DEFINE r == x[1]
               content == csecret[x[2]]
    <2>1. x \in Objects \X Secrets
      BY DEF TypeOK
    <2>2. r \in Objects /\ content \in Contents /\ (r \in Clients => content # Short)
      BY <1>3, <2>1 DEF Write, Accepted, TypeOK, Contents
    <2>3. docs' = [docs EXCEPT ![i][r] = Written(r, @, content)]
      BY <1>3 DEF Write
    <2>4. Written(r, docs[i][r], content) \in Contents
      BY <2>2 DEF Written, TypeOK
    <2>5. r \in Clients => Written(r, docs[i][r], content) # Short
      BY <2>2 DEF Written, TypeOK
    <2> HIDE DEF r, content
    <2>6. docs' \in [Instances -> [Objects -> Contents]]
      BY <2>2, <2>3, <2>4 DEF TypeOK
    <2>7. ASSUME NEW j \in Instances, NEW c \in Clients PROVE docs'[j][c] # Short
      <3>1. c \in Objects /\ docs[j][c] # Short
        BY DEF Objects, TypeOK
      <3>2. docs'[j][c] = IF j = i /\ c = r THEN Written(r, docs[i][r], content) ELSE docs[j][c]
        BY <2>3, <3>1 DEF TypeOK
      <3> QED
        BY <2>5, <3>1, <3>2
    <2> QED
      BY <1>3, <2>6, <2>7 DEF Write, TypeOK
  <1>4. ASSUME NEW i \in Instances PROVE Published(i) \in [Instances -> {"none", "status", "spec"}]
    BY DEF Published, TypeOK
  <1>5. ASSUME NEW i \in Instances, FinishPass(i) PROVE TypeOK'
    BY <1>4, <1>5 DEF FinishPass, EndPass, TypeOK
  <1>6. ASSUME NEW i \in Instances, FailPass(i) PROVE TypeOK'
    BY <1>4, <1>6 DEF FailPass, EndPass, Disturbance, TypeOK
  <1>7. ASSUME NEW i \in Instances, Panic(i) PROVE TypeOK'
    BY <1>7 DEF Panic, EndPass, TypeOK
  <1>8. ASSUME NEW i \in Instances, WatchInstance(i) PROVE TypeOK'
    <2>1. Reindexed(i, cinst[i], inst[i]) \in [Secrets -> SUBSET Instances]
      BY DEF Reindexed, TypeOK
    <2> QED
      BY <1>8, <2>1 DEF WatchInstance, TypeOK
  <1>9. ASSUME NEW i \in Instances, EditSelector(i) PROVE TypeOK'
    <2>1. PICK x \in Selectors : inst' = [inst EXCEPT ![i].selector = x]
      BY <1>9 DEF EditSelector
    <2>2. [inst[i] EXCEPT !.selector = x] \in Instance
      BY <2>1, InstanceEdits DEF TypeOK
    <2>3. inst' \in [Instances -> Instance]
      BY <2>1, <2>2 DEF TypeOK
    <2>4. Disturbance /\ UNCHANGED <<obj, secret, controllerVars>>
      BY <1>9 DEF EditSelector
    <2>5. news' \in [Instances -> {"none", "status", "spec"}]
      BY <1>9 DEF EditSelector, TypeOK
    <2> QED
      BY <2>3, <2>4, <2>5 DEF Disturbance, TypeOK
  <1>10. ASSUME NEW i \in Instances, DeleteInstance(i) PROVE TypeOK'
    <2>1. [inst[i] EXCEPT !.live = FALSE] \in Instance
      BY InstanceEdits DEF TypeOK
    <2>2. inst' \in [Instances -> Instance]
      BY <1>10, <2>1 DEF DeleteInstance, TypeOK
    <2>3. Disturbance /\ UNCHANGED <<obj, secret, controllerVars>>
      BY <1>10 DEF DeleteInstance
    <2>4. news' \in [Instances -> {"none", "status", "spec"}]
      BY <1>10 DEF DeleteInstance, TypeOK
    <2> QED
      BY <2>2, <2>3, <2>4 DEF Disturbance, TypeOK
  <1>11. ASSUME NEW r \in Objects, WatchObject(r) PROVE TypeOK'
    BY <1>11 DEF WatchObject, TypeOK
  <1>12. ASSUME NEW r \in Objects, EditObject(r) PROVE TypeOK'
    BY <1>12 DEF EditObject, Disturbance, TypeOK
  <1>13. ASSUME NEW s \in Secrets, WatchSecret(s) PROVE TypeOK'
    <2>1. Woken(s) \subseteq Instances
      BY DEF Woken, TypeOK
    <2> QED
      BY <1>13, <2>1 DEF WatchSecret, TypeOK
  <1>14. ASSUME NEW s \in Secrets, EditSecret(s) PROVE TypeOK'
    BY <1>14 DEF EditSecret, Disturbance, TypeOK
  <1>15. CASE Restart
    BY <1>15 DEF Restart, Disturbance, TypeOK
  <1>16. ASSUME NEW i \in Instances, FailToConnect(i) PROVE TypeOK'
    BY <1>4, <1>16 DEF FailToConnect, TypeOK
  <1>17. CASE UNCHANGED vars
    BY <1>17 DEF vars, TypeOK
  <1> QED
    BY <1>1, <1>2, <1>3, <1>5, <1>6, <1>7, <1>8, <1>9, <1>10, <1>11, <1>12, <1>13, <1>14,
       <1>15, <1>16, <1>17 DEF Next, Work

\* Every variable keeps its type, and no connection is ever written with a token
\* that is too short.
THEOREM SecretTypeCorrect == Spec => []TypeOK
  BY TypeInit, TypeNext, PTL DEF Spec

-----------------------------------------------------------------------------
(* The index.                                                              *)

LEMMA SeenNext == TypeOK /\ SeenInv /\ [Next]_vars => SeenInv'
  <1> SUFFICES ASSUME TypeOK, SeenInv, [Next]_vars PROVE SeenInv'
    OBVIOUS
  <1> USE DEF apiVars, cacheVars, passVars, controllerVars
  <1>1. ASSUME NEW i \in Instances, SkipPass(i) \/ BeginPass(i) PROVE SeenInv'
    BY <1>1 DEF SkipPass, BeginPass, SeenInv, TypeOK
  <1>2. ASSUME NEW i \in Instances, NEW x \in todo[i], Write(i, x) PROVE SeenInv'
    BY <1>2 DEF Write, SeenInv, TypeOK
  <1>3. ASSUME NEW i \in Instances, FinishPass(i) \/ FailPass(i) \/ Panic(i) PROVE SeenInv'
    <2>1. UNCHANGED <<inst, cinst>> /\ EndPass(i)
      BY <1>3 DEF FinishPass, FailPass, Panic
    <2>2. \A j \in Instances : news'[j] # "spec" => news[j] # "spec"
      BY <1>3 DEF FinishPass, FailPass, Panic, Published, TypeOK
    <2> QED
      BY <2>1, <2>2 DEF EndPass, SeenInv, TypeOK
  <1>4. ASSUME NEW i \in Instances, WatchInstance(i) PROVE SeenInv'
    BY <1>4 DEF WatchInstance, SeenInv, TypeOK
  <1>5. ASSUME NEW i \in Instances, EditSelector(i) \/ DeleteInstance(i) PROVE SeenInv'
    <2>1. news' = [news EXCEPT ![i] = "spec"] /\ UNCHANGED <<cinst, walking, todo>>
      BY <1>5 DEF EditSelector, DeleteInstance
    <2>2. \A j \in Instances \ {i} : inst'[j] = inst[j]
      BY <1>5 DEF EditSelector, DeleteInstance, TypeOK
    <2> QED
      BY <2>1, <2>2 DEF SeenInv, TypeOK
  <1>6. CASE \/ \E r \in Objects : WatchObject(r) \/ EditObject(r)
             \/ \E s \in Secrets : WatchSecret(s) \/ EditSecret(s)
             \/ UNCHANGED vars
    <2>1. UNCHANGED <<inst, cinst, news, walking, todo>>
      BY <1>6 DEF WatchObject, EditObject, WatchSecret, EditSecret, vars
    <2> QED
      BY <2>1 DEF SeenInv
  <1>7. CASE Restart
    BY <1>7 DEF Restart, SeenInv
  <1>8. ASSUME NEW i \in Instances, FailToConnect(i) PROVE SeenInv'
    <2>1. \A j \in Instances : news'[j] # "spec" => news[j] # "spec"
      BY <1>8 DEF FailToConnect, Published, TypeOK
    <2> QED
      BY <1>8, <2>1 DEF FailToConnect, SeenInv
  <1> QED
    BY <1>1, <1>2, <1>3, <1>4, <1>5, <1>6, <1>7, <1>8 DEF Next, Work

\* A change of an object that starts no pass of an instance is of one that the
\* instance does not pick, before and after.
LEMMA UnmatchedEffect ==
    ASSUME TypeOK, NEW r \in Objects, WatchObject(r), NEW i \in Instances, i \notin queued'
    PROVE  /\ i \notin queued
           /\ ~Picks(cinst[i], i, cobj[r]) /\ ~Picks(cinst[i], i, cobj'[r])
           /\ \A q \in Objects \ {r} : cobj'[q] = cobj[q]
  <1>1. i \notin queued /\ ~matches(cinst[i], i, cobj[r]) /\ ~matches(cinst[i], i, obj[r])
    BY DEF WatchObject
  <1>2. cobj'[r] = obj[r] /\ \A q \in Objects \ {r} : cobj'[q] = cobj[q]
    BY DEF WatchObject, TypeOK
  <1> QED
    BY <1>1, <1>2, PickedIsMatched DEF TypeOK

LEMMA UnmatchedKeys ==
    ASSUME TypeOK, NEW r \in Objects, WatchObject(r), NEW i \in Instances, i \notin queued'
    PROVE  IndexKeys(cinst[i], i, cobj') = IndexKeys(cinst[i], i, cobj)
  <1>1. \A q \in Objects : Picks(cinst[i], i, cobj'[q]) => cobj'[q] = cobj[q]
    BY UnmatchedEffect
  <1>2. \A q \in Objects : Picks(cinst[i], i, cobj[q]) => cobj'[q] = cobj[q]
    BY UnmatchedEffect
  <1> QED
    BY <1>1, <1>2 DEF IndexKeys

LEMMA IndexNext == TypeOK /\ SeenInv /\ IndexInv /\ [Next]_vars => IndexInv'
  <1> SUFFICES ASSUME TypeOK, SeenInv, IndexInv, [Next]_vars,
                      NEW i \in Instances, i \notin queued', ~Behind(i)', cinst'[i].live,
                      NEW s \in IndexKeys(cinst'[i], i, cobj')
               PROVE  i \in index'[s]
    BY DEF IndexInv
  <1> USE DEF apiVars, cacheVars, passVars, controllerVars
  <1>1. ASSUME NEW j \in Instances, SkipPass(j) PROVE i \in index'[s]
    BY <1>1 DEF SkipPass, IndexInv, Behind
  <1>2. ASSUME NEW j \in Instances, BeginPass(j) PROVE i \in index'[s]
    BY <1>2 DEF BeginPass, IndexInv, Behind
  <1>3. ASSUME NEW j \in Instances, NEW x \in todo[j], Write(j, x) PROVE i \in index'[s]
    BY <1>3 DEF Write, IndexInv, Behind
  <1>4. ASSUME NEW j \in Instances, FinishPass(j) \/ FailPass(j) \/ Panic(j) PROVE i \in index'[s]
    <2>1. UNCHANGED <<inst, cinst, cobj, index>> /\ (i # j => (i \in walking' <=> i \in walking))
      BY <1>4 DEF FinishPass, FailPass, Panic, EndPass
    <2>2. i \notin queued /\ news[i] = "none"
      BY <1>4 DEF FinishPass, FailPass, Panic, Published, Behind, TypeOK
    <2>3. i # j
      BY <1>4, <2>1, <2>2 DEF FinishPass, FailPass, Panic, Published, Again, Behind, SeenInv, TypeOK
    <2> QED
      BY <2>1, <2>2, <2>3 DEF IndexInv, Behind
  <1>5. ASSUME NEW j \in Instances, WatchInstance(j) PROVE i \in index'[s]
    <2>1. s \in Secrets
      BY <1>5, IndexKeysType DEF WatchInstance, TypeOK
    <2>2. CASE i = j
      BY <1>5, <2>1, <2>2 DEF WatchInstance, Reindexed, TypeOK
    <2>3. CASE i # j
      <3>1. i \in index[s]
        BY <1>5, <2>3 DEF WatchInstance, IndexInv, Behind, TypeOK
      <3> QED
        BY <1>5, <2>1, <2>3, <3>1 DEF WatchInstance, Reindexed
    <2> QED
      BY <2>2, <2>3
  <1>6. ASSUME NEW j \in Instances, EditSelector(j) \/ DeleteInstance(j) PROVE i \in index'[s]
    BY <1>6 DEF EditSelector, DeleteInstance, IndexInv, Behind, TypeOK
  <1>7. ASSUME NEW r \in Objects, WatchObject(r) PROVE i \in index'[s]
    <2>1. UNCHANGED <<cinst, news, walking, index>>
      BY <1>7 DEF WatchObject
    <2> QED
      BY <1>7, <2>1, UnmatchedEffect, UnmatchedKeys DEF IndexInv, Behind
  <1>8. ASSUME NEW t \in Secrets, WatchSecret(t) PROVE i \in index'[s]
    BY <1>8 DEF WatchSecret, IndexInv, Behind
  <1>9. CASE Restart
    BY <1>9 DEF Restart
  <1>10. CASE \/ \E r \in Objects : EditObject(r)
              \/ \E t \in Secrets : EditSecret(t)
              \/ UNCHANGED vars
    BY <1>10 DEF EditObject, EditSecret, vars, IndexInv, Behind
  <1>11. ASSUME NEW j \in Instances, FailToConnect(j) PROVE i \in index'[s]
    <2>1. i # j
      BY <1>11 DEF FailToConnect
    <2> QED
      BY <1>11, <2>1 DEF FailToConnect, Published, IndexInv, Behind, TypeOK
  <1> QED
    BY <1>1, <1>2, <1>3, <1>4, <1>5, <1>6, <1>7, <1>8, <1>9, <1>10, <1>11 DEF Next, Work

LEMMA IndexInit == Init => SeenInv /\ IndexInv
  BY DEF Init, SeenInv, IndexInv

\* In quiet the index knows every secret that the next pass would read, although its
\* function reads objects whose changes do not reach it.
THEOREM IndexCatchesUp == Spec => []QuietIsIndexed
  <1>1. TypeOK /\ SeenInv /\ IndexInv => QuietIsIndexed
    <2> SUFFICES ASSUME TypeOK, SeenInv, IndexInv, NEW i \in Instances, Quiet(i), inst[i].live
                 PROVE  /\ RootSecret[i] # None => i \in index[RootSecret[i]]
                        /\ \A r \in Objects : Picks(inst[i], i, obj[r]) => i \in index[obj[r].ref]
      BY DEF QuietIsIndexed
    <2>1. cinst[i] = inst[i] /\ cobj = obj
      BY DEF Quiet, Behind, SeenInv
    <2>2. \A s \in IndexKeys(inst[i], i, obj) : i \in index[s]
      BY <2>1 DEF IndexInv, Quiet
    <2>3. \A r \in Objects : obj[r].ref # None
      BY ConstantsAssumption DEF TypeOK, Object
    <2> QED
      BY <2>2, <2>3 DEF IndexKeys
  <1> QED
    BY <1>1, IndexInit, TypeInit, TypeNext, SeenNext, IndexNext, PTL DEF Spec

-----------------------------------------------------------------------------
(* The tokens of clients.                                                  *)

LEMMA TodoNext == TypeOK /\ SeenInv /\ TodoInv /\ [Next]_vars => TodoInv'
  <1> SUFFICES ASSUME TypeOK, SeenInv, TodoInv, [Next]_vars,
                      NEW i \in Instances, i \notin queued', NEW x \in todo'[i]
               PROVE  (Picks(cinst[i], i, cobj[x[1]]) /\ x[2] = cobj[x[1]].ref)'
    BY DEF TodoInv
  <1> DEFINE Current == Picks(cinst[i], i, cobj[x[1]]) /\ x[2] = cobj[x[1]].ref
  <1> USE DEF apiVars, cacheVars, passVars, controllerVars
  <1>0. ASSUME UNCHANGED <<cinst, cobj>>, i \notin queued, x \in todo[i] PROVE Current'
    BY <1>0 DEF TodoInv
  <1>1. ASSUME NEW j \in Instances, SkipPass(j) PROVE Current'
    <2>1. i # j
      BY <1>1 DEF SkipPass, SeenInv
    <2> QED
      BY <1>0, <1>1, <2>1 DEF SkipPass
  <1>2. ASSUME NEW j \in Instances, BeginPass(j) PROVE Current'
    <2>1. CASE i = j
      <3>1. x \in {<<r, cobj[r].ref>> : r \in {q \in Objects : Picks(cinst[i], i, cobj[q])}}
        BY <1>2, <2>1 DEF BeginPass, TypeOK
      <3>2. UNCHANGED <<cinst, cobj>>
        BY <1>2 DEF BeginPass
      <3> QED
        BY <3>1, <3>2
    <2>2. CASE i # j
      <3>1. UNCHANGED <<cinst, cobj>> /\ i \notin queued /\ x \in todo[i]
        BY <1>2, <2>2 DEF BeginPass, TypeOK
      <3> QED
        BY <1>0, <3>1
    <2> QED
      BY <2>1, <2>2
  <1>3. ASSUME NEW j \in Instances, NEW y \in todo[j], Write(j, y) PROVE Current'
    <2>1. UNCHANGED <<cinst, cobj>> /\ i \notin queued /\ x \in todo[i]
      BY <1>3 DEF Write, TypeOK
    <2> QED
      BY <1>0, <2>1
  <1>4. ASSUME NEW j \in Instances, FinishPass(j) \/ FailPass(j) \/ Panic(j) PROVE Current'
    <2>1. UNCHANGED <<cinst, cobj>> /\ i \notin queued /\ x \in todo[i]
      BY <1>4 DEF FinishPass, FailPass, Panic, EndPass, TypeOK
    <2> QED
      BY <1>0, <2>1
  <1>5. ASSUME NEW j \in Instances, WatchInstance(j) PROVE Current'
    <2>1. i \notin queued /\ UNCHANGED <<cobj, todo>>
      BY <1>5 DEF WatchInstance
    <2>2. cinst'[i] = cinst[i]
      BY <1>5 DEF WatchInstance, SeenInv, TypeOK
    <2> QED
      BY <2>1, <2>2 DEF TodoInv
  <1>6. ASSUME NEW r \in Objects, WatchObject(r) PROVE Current'
    <2>1. UNCHANGED <<cinst, todo>>
      BY <1>6 DEF WatchObject
    <2>2. i \notin queued /\ x[1] \in Objects
      BY <1>6, <2>1, UnmatchedEffect DEF TypeOK
    <2>3. Picks(cinst[i], i, cobj[x[1]]) /\ x[2] = cobj[x[1]].ref
      BY <2>1, <2>2 DEF TodoInv
    <2>4. cobj'[x[1]] = cobj[x[1]]
      BY <1>6, <2>2, <2>3, UnmatchedEffect
    <2> QED
      BY <2>1, <2>3, <2>4
  <1>7. CASE \/ \E j \in Instances : EditSelector(j) \/ DeleteInstance(j) \/ FailToConnect(j)
             \/ \E r \in Objects : EditObject(r)
             \/ \E t \in Secrets : WatchSecret(t) \/ EditSecret(t)
             \/ UNCHANGED vars
    <2>1. UNCHANGED <<cinst, cobj, todo>> /\ i \notin queued
      BY <1>7 DEF EditSelector, DeleteInstance, FailToConnect, EditObject, WatchSecret,
         EditSecret, vars
    <2> QED
      BY <1>0, <2>1
  <1>8. CASE Restart
    BY <1>8 DEF Restart
  <1> QED
    BY <1>1, <1>2, <1>3, <1>4, <1>5, <1>6, <1>7, <1>8 DEF Next, Work

\* A write changes the document of its client, to the token in the cache.
LEMMA WriteEffect ==
    ASSUME TypeOK, NEW j \in Instances, NEW x \in todo[j], Write(j, x),
           NEW i \in Instances, NEW c \in Clients
    PROVE  docs'[i][c] = IF i = j /\ c = x[1] THEN csecret[x[2]] ELSE docs[i][c]
  <1> DEFINE r == x[1]
  <1>1. r \in Objects /\ c \in Objects
    BY DEF TypeOK, Objects
  <1>2. docs' = [docs EXCEPT ![j][r] = Written(r, @, csecret[x[2]])]
    BY DEF Write
  <1>3. c \notin Users
    BY ConstantsAssumption
  <1> HIDE DEF r
  <1>4. docs'[i][c] = IF i = j /\ c = r THEN Written(r, docs[j][r], csecret[x[2]]) ELSE docs[i][c]
    BY <1>1, <1>2 DEF TypeOK
  <1>5. c = r => Written(r, docs[j][r], csecret[x[2]]) = csecret[x[2]]
    BY <1>3 DEF Written
  <1> QED
    BY <1>4, <1>5 DEF r

\* A secret that changes unnoticed is one that the instance was not indexed under.
LEMMA MissedEffect ==
    ASSUME TypeOK, IndexInv, NEW s \in Secrets, WatchSecret(s),
           NEW i \in Instances, i \notin queued', NEW c \in Clients,
           Picks(cinst[i], i, cobj[c]), cobj[c].ref = s
    PROVE  <<i, c>> \in missed'
  <1>1. i \notin queued /\ i \notin Woken(s)
    BY DEF WatchSecret
  <1>2. CASE Behind(i) \/ Broken(s)
    BY <1>1, <1>2 DEF WatchSecret
  <1>3. CASE ~Behind(i) /\ ~Broken(s)
    <2>1. i \notin index[s]
      BY <1>1, <1>3 DEF Woken
    <2>2. cinst[i].live /\ c \in Objects
      BY DEF Picks, Objects
    <2>3. s \in IndexKeys(cinst[i], i, cobj)
      BY <2>2, ConstantsAssumption DEF IndexKeys
    <2> QED
      BY <1>1, <1>3, <2>1, <2>2, <2>3 DEF IndexInv
  <1> QED
    BY <1>2, <1>3

LEMMA SyncNext ==
    TypeOK /\ SeenInv /\ IndexInv /\ TodoInv /\ SyncInv /\ [Next]_vars => SyncInv'
  <1> DEFINE Synced(i, c) == \/ docs[i][c] = csecret[cobj[c].ref]
                             \/ <<c, cobj[c].ref>> \in todo[i]
  <1> SUFFICES ASSUME TypeOK, SeenInv, IndexInv, TodoInv, SyncInv, [Next]_vars,
                      NEW i \in Instances, NEW c \in Clients,
                      i \notin queued', Picks(cinst'[i], i, cobj'[c]), <<i, c>> \notin missed'
               PROVE  Synced(i, c)'
    BY DEF SyncInv
  <1> USE DEF apiVars, cacheVars, passVars, controllerVars
  <1>0. c \in Objects
    BY DEF Objects
  <1>1. ASSUME i \notin queued, cinst'[i] = cinst[i], cobj'[c] = cobj[c], <<i, c>> \notin missed
        PROVE  Synced(i, c)
    BY <1>1 DEF SyncInv
  <1>2. ASSUME NEW j \in Instances, SkipPass(j) PROVE Synced(i, c)'
    <2>1. i # j
      BY <1>2 DEF SkipPass, Picks
    <2> QED
      BY <1>1, <1>2, <2>1 DEF SkipPass
  <1>3. ASSUME NEW j \in Instances, BeginPass(j) PROVE Synced(i, c)'
    <2>1. CASE i = j
      <3>1. todo'[i] = {<<r, cobj[r].ref>> : r \in {q \in Objects : Picks(cinst[i], i, cobj[q])}}
        BY <1>3, <2>1 DEF BeginPass, TypeOK
      <3>2. UNCHANGED <<cinst, cobj>>
        BY <1>3 DEF BeginPass
      <3> QED
        BY <1>0, <3>1, <3>2
    <2>2. CASE i # j
      <3>1. UNCHANGED <<cinst, cobj, csecret, docs, missed>> /\ i \notin queued /\ todo'[i] = todo[i]
        BY <1>3, <2>2 DEF BeginPass, TypeOK
      <3> QED
        BY <1>1, <3>1
    <2> QED
      BY <2>1, <2>2
  <1>4. ASSUME NEW j \in Instances, NEW x \in todo[j], Write(j, x) PROVE Synced(i, c)'
    <2>1. UNCHANGED <<cinst, cobj, csecret, queued>> /\ todo' = [todo EXCEPT ![j] = @ \ {x}]
      BY <1>4 DEF Write
    <2>2. CASE i = j /\ c = x[1]
      <3>1. x[2] = cobj[c].ref
        BY <2>1, <2>2 DEF TodoInv
      <3> QED
        BY <1>4, <2>1, <2>2, <3>1, WriteEffect
    <2>3. CASE ~(i = j /\ c = x[1])
      <3>1. docs'[i][c] = docs[i][c]
        BY <1>4, <2>3, WriteEffect
      <3>2. <<i, c>> \notin missed
        BY <1>4, <2>3 DEF Write
      <3>3. <<c, cobj[c].ref>> \in todo[i] => <<c, cobj[c].ref>> \in todo'[i]
        BY <2>1, <2>3 DEF TypeOK
      <3> QED
        BY <1>1, <2>1, <3>1, <3>2, <3>3
    <2> QED
      BY <2>2, <2>3
  <1>5. ASSUME NEW j \in Instances, FinishPass(j) \/ FailPass(j) \/ Panic(j) PROVE Synced(i, c)'
    <2>1. UNCHANGED <<cinst, cobj, csecret, docs, missed>> /\ i \notin queued
      BY <1>5 DEF FinishPass, FailPass, Panic, EndPass
    <2>2. todo'[i] = todo[i]
      BY <1>5 DEF FinishPass, FailPass, Panic, EndPass, TypeOK
    <2> QED
      BY <1>1, <2>1, <2>2
  <1>6. ASSUME NEW j \in Instances, WatchInstance(j) PROVE Synced(i, c)'
    <2>1. i \notin queued /\ UNCHANGED <<cobj, csecret, todo, docs, missed>>
      BY <1>6 DEF WatchInstance
    <2>2. cinst'[i] = cinst[i]
      BY <1>6 DEF WatchInstance, SeenInv, TypeOK
    <2> QED
      BY <1>1, <2>1, <2>2
  <1>7. ASSUME NEW r \in Objects, WatchObject(r) PROVE Synced(i, c)'
    <2>1. UNCHANGED <<cinst, csecret, todo, docs, missed>>
      BY <1>7 DEF WatchObject
    <2>2. i \notin queued /\ cobj'[c] = cobj[c]
      BY <1>0, <1>7, <2>1, UnmatchedEffect
    <2> QED
      BY <1>1, <2>1, <2>2
  <1>8. ASSUME NEW s \in Secrets, WatchSecret(s) PROVE Synced(i, c)'
    <2>1. UNCHANGED <<cinst, cobj, todo, docs>> /\ i \notin queued /\ <<i, c>> \notin missed
      BY <1>8 DEF WatchSecret
    <2>2. cobj[c].ref # s
      BY <1>8, <2>1, MissedEffect
    <2>3. csecret'[cobj[c].ref] = csecret[cobj[c].ref]
      BY <1>0, <1>8, <2>2 DEF WatchSecret, TypeOK, Object
    <2> QED
      BY <1>1, <2>1, <2>3
  <1>9. CASE \/ \E j \in Instances : EditSelector(j) \/ DeleteInstance(j) \/ FailToConnect(j)
             \/ \E r \in Objects : EditObject(r)
             \/ \E t \in Secrets : EditSecret(t)
             \/ UNCHANGED vars
    <2>1. UNCHANGED <<cinst, cobj, csecret, todo, docs, missed>> /\ i \notin queued
      BY <1>9 DEF EditSelector, DeleteInstance, FailToConnect, EditObject, EditSecret, vars
    <2> QED
      BY <1>1, <2>1
  <1>10. CASE Restart
    BY <1>10 DEF Restart, Picks
  <1> QED
    BY <1>2, <1>3, <1>4, <1>5, <1>6, <1>7, <1>8, <1>9, <1>10 DEF Next, Work

LEMMA SyncInit == Init => TodoInv /\ SyncInv
  BY DEF Init, TodoInv, SyncInv

\* In quiet every selected client has the token that its secret has now, unless that
\* secret changed while the index was behind: no change of a secret, of a client or
\* of a selector, no failure, panic or restart leaves an old token behind.
THEOREM TokensAreSynced == Spec => []QuietIsSynced
  <1>1. TypeOK /\ SeenInv /\ SyncInv => QuietIsSynced
    BY DEF QuietIsSynced, Quiet, Behind, SeenInv, SyncInv
  <1> QED
    BY <1>1, IndexInit, SyncInit, TypeInit, TypeNext, SeenNext, IndexNext, TodoNext, SyncNext, PTL
    DEF Spec

=============================================================================
