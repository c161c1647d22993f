---------------------------- MODULE FeatureRules ----------------------------
(***************************************************************************)
(* The environments of a feature and the rules in them, which two parties  *)
(* write: the controller from the spec of the GrowthbookFeature object     *)
(* (FromV1beta1, UpdateFeature and mergeRules of                           *)
(* internal/growthbook/feature.go), and the users of growthbook, whose     *)
(* rules are told from the controller's by having an id.                   *)
(*                                                                         *)
(* The conversion panics on a rule with a bucketVersion and without a      *)
(* minBucketVersion.  controller-runtime recovers: the pass is one that    *)
(* failed, whether it came to write the feature or to remove it.           *)
(***************************************************************************)
EXTENDS Naturals, FiniteSets, Sequences

CONSTANTS
    Specs,      \* what users may write into spec.environments
    RuleIds,    \* the ids growthbook gives to rules
    None,       \* no id, no experiment
    MaxOps,     \* bound on the edits of both kinds of users
    MaxFaults   \* bound on failing calls and restarts

\* A rule of a spec: its value stands for the fields that are copied, and it
\* may have versions of the buckets and an experiment.
SpecRules == UNION {UNION {{s[k].rules[j] : j \in DOMAIN s[k].rules} : k \in DOMAIN s} : s \in Specs}
Names == UNION {{s[k].name : k \in DOMAIN s} : s \in Specs}
Values == {r.value : r \in SpecRules}

ASSUME ConstantsAssumption ==
    /\ \A s \in Specs : s \in Seq([name : Names, enabled : BOOLEAN, rules : Seq(SpecRules)])
    /\ \A r \in SpecRules :
          r = [value |-> r.value, bucket |-> r.bucket, minBucket |-> r.minBucket,
               experiment |-> r.experiment]
    /\ \A r \in SpecRules : {r.bucket, r.minBucket} \subseteq BOOLEAN
    /\ None \notin RuleIds
    /\ MaxOps \in Nat /\ MaxFaults \in Nat

VARIABLES
    interval,  \* the instance has a spec.interval
    status,    \* the GrowthbookFeature object: absent, live or deleting
    spec,      \* its spec.environments
    stored,    \* there is a document
    settings,  \* environmentSettings of the document
    queued,    \* a pass is due
    pc,        \* what the pass does next
    desired,   \* environmentSettings as built from the spec
    existing,  \* environmentSettings as FindOne has returned them
    ops,       \* edits made by users so far
    faults     \* failing calls and restarts so far

passVars == <<pc, desired, existing>>
vars == <<interval, status, spec, stored, settings, queued, passVars, ops, faults>>

-----------------------------------------------------------------------------
(* Conversion and merge.                                                   *)

\* A stored rule; without an id it is the controller's.
Rule == [id : RuleIds \cup {None}, value : Values \cup {None}, experiment : {None}]
Setting == [enabled : BOOLEAN, rules : Seq(Rule)]
IsSettings(f) == DOMAIN f \subseteq Names /\ f \in [DOMAIN f -> Setting]
NoSettings == [n \in {} |-> {}]

\* Mutant: a rule of the spec gets an id of its own.
Mutant_FromRule(r) == [id |-> r.value, value |-> r.value, experiment |-> None]

\* experimentId and variations are not copied.
FromRule(r) == [id |-> None, value |-> r.value, experiment |-> None]

\* minBucketVersion is dereferenced if bucketVersion is set.
Panics(s) ==
    \E k \in DOMAIN s : \E j \in DOMAIN s[k].rules :
        s[k].rules[j].bucket /\ ~s[k].rules[j].minBucket

\* Mutant: the first entry of a name wins.
Mutant_FromV1beta1(s) ==
    [n \in {s[k].name : k \in DOMAIN s} |->
        LET e == s[CHOOSE k \in DOMAIN s :
                      s[k].name = n /\ \A j \in 1 .. (k - 1) : s[j].name # n]
        IN  [enabled |-> e.enabled, rules |-> [j \in DOMAIN e.rules |-> FromRule(e.rules[j])]]]

\* The spec has a list, the document a map: of two entries with one name the
\* last one stays.
FromV1beta1(s) ==
    [n \in {s[k].name : k \in DOMAIN s} |->
        LET e == s[CHOOSE k \in DOMAIN s :
                      s[k].name = n /\ \A j \in (k + 1) .. Len(s) : s[j].name # n]
        IN  [enabled |-> e.enabled, rules |-> [j \in DOMAIN e.rules |-> FromRule(e.rules[j])]]]

\* The rules with an id in the order they have: the n-th stands behind n - 1 others.
UserPart(rules) ==
    LET users == {k \in DOMAIN rules : rules[k].id # None}
        Nth(n) == CHOOSE k \in users : Cardinality({j \in users : j < k}) = n - 1
    IN  [n \in 1 .. Cardinality(users) |-> rules[Nth(n)]]

\* Mutants: the rules of the last pass are kept as well; the rules of the spec
\* come first, and they replace the users'.
Mutant_MergeAll(old, new) == old \o new
Mutant_MergeNone(old, new) == new

mergeRules(old, new) == UserPart(old) \o new

\* UpdateFeature: the environments of the spec, with what users have added.
Merged(old, new) ==
    [n \in DOMAIN new |->
        IF n \notin DOMAIN old THEN new[n]
        ELSE [enabled |-> new[n].enabled, rules |-> mergeRules(old[n].rules, new[n].rules)]]

\* The documents are compared as bytes, to which a map of more than one
\* environment is marshalled in random order.
MayDiffer(old, new) == Merged(old, new) # old \/ Cardinality(DOMAIN old) > 1
MayEqual(old, new) == Merged(old, new) = old

TypeOK ==
    /\ interval \in BOOLEAN
    /\ status \in {"absent", "live", "deleting"}
    /\ spec \in Specs
    /\ stored \in BOOLEAN
    /\ IsSettings(settings)
    /\ queued \in BOOLEAN
    /\ pc \in {"idle", "convert", "find", "insert", "update", "done", "delete", "release"}
    /\ IsSettings(desired)
    /\ IsSettings(existing)
    /\ ops \in 0 .. MaxOps
    /\ faults \in 0 .. MaxFaults

Init ==
    /\ interval \in BOOLEAN
    /\ status = "live"
    /\ spec \in Specs
    /\ stored = FALSE
    /\ settings = NoSettings
    /\ queued = TRUE
    /\ pc = "idle"
    /\ desired = NoSettings
    /\ existing = NoSettings
    /\ ops = 0
    /\ faults = 0

-----------------------------------------------------------------------------
(* The pass.                                                               *)

EndPass == pc' = "idle" /\ desired' = NoSettings /\ existing' = NoSettings

Begin ==
    /\ pc = "idle" /\ queued /\ status # "absent"
    /\ queued' = FALSE
    /\ pc' = "convert"
    /\ UNCHANGED <<interval, status, spec, stored, settings, desired, existing, ops, faults>>

\* The feature is converted before it is looked at whether it is deleted.
Convert ==
    /\ pc = "convert" /\ ~Panics(spec)
    /\ desired' = FromV1beta1(spec)
    /\ pc' = IF status = "live" THEN "find" ELSE "delete"
    /\ UNCHANGED <<interval, status, spec, stored, settings, queued, existing, ops, faults>>

\* The panic is recovered, and the pass tried again.
Panic ==
    /\ pc = "convert" /\ Panics(spec)
    /\ EndPass
    /\ queued' = TRUE
    /\ UNCHANGED <<interval, status, spec, stored, settings, ops, faults>>

FindOne ==
    /\ pc = "find"
    /\ existing' = settings
    /\ \/ ~stored /\ pc' = "insert"
       \/ stored /\ MayDiffer(settings, desired) /\ pc' = "update"
       \/ stored /\ MayEqual(settings, desired) /\ pc' = "done"
    /\ UNCHANGED <<interval, status, spec, stored, settings, queued, desired, ops, faults>>

InsertOne ==
    /\ pc = "insert"
    /\ stored' = TRUE
    /\ settings' = desired
    /\ pc' = "done"
    /\ UNCHANGED <<interval, status, spec, queued, desired, existing, ops, faults>>

UpdateOne ==
    /\ pc = "update"
    /\ settings' = Merged(existing, desired)
    /\ pc' = "done"
    /\ UNCHANGED <<interval, status, spec, stored, queued, desired, existing, ops, faults>>

\* The pass has succeeded; the next one comes after the interval, if there is one.
Done ==
    /\ pc = "done"
    /\ EndPass
    /\ queued' = (queued \/ interval)
    /\ UNCHANGED <<interval, status, spec, stored, settings, ops, faults>>

DeleteOne ==
    /\ pc = "delete"
    /\ stored' = FALSE
    /\ settings' = NoSettings
    /\ pc' = "release"
    /\ UNCHANGED <<interval, status, spec, queued, desired, existing, ops, faults>>

\* The finalizer goes, and the object with it.
Release ==
    /\ pc = "release"
    /\ status' = "absent"
    /\ EndPass
    /\ UNCHANGED <<interval, spec, stored, settings, queued, ops, faults>>

\* Mutant: a failed pass is not tried again.
Mutant_Fail ==
    /\ pc \notin {"idle", "done"}
    /\ faults < MaxFaults /\ faults' = faults + 1
    /\ EndPass
    /\ UNCHANGED <<interval, status, spec, stored, settings, queued, ops>>

\* The call at hand fails, or the process dies before it.
Fail ==
    /\ pc \notin {"idle", "done"}
    /\ faults < MaxFaults /\ faults' = faults + 1
    /\ EndPass
    /\ queued' = TRUE
    /\ UNCHANGED <<interval, status, spec, stored, settings, ops>>

Pass ==
    \/ Begin \/ Convert \/ Panic \/ FindOne \/ InsertOne \/ UpdateOne \/ Done
    \/ DeleteOne \/ Release

-----------------------------------------------------------------------------
(* The users of the cluster, and those of growthbook.  What Begin has read *)
(* and Convert converts is one version of the object.                      *)

UserEdit == ops < MaxOps /\ ops' = ops + 1

EditSpec ==
    /\ UserEdit /\ pc # "convert" /\ status # "absent"
    /\ \E s \in Specs \ {spec} : spec' = s
    /\ queued' = TRUE
    /\ UNCHANGED <<interval, status, stored, settings, passVars, faults>>

DeleteObject ==
    /\ UserEdit /\ pc # "convert" /\ status = "live"
    /\ status' = "deleting"
    /\ queued' = TRUE
    /\ UNCHANGED <<interval, spec, stored, settings, passVars, faults>>

CreateObject ==
    /\ UserEdit /\ pc # "convert" /\ status = "absent"
    /\ status' = "live"
    /\ queued' = TRUE
    /\ UNCHANGED <<interval, spec, stored, settings, passVars, faults>>

GrowthbookEdit ==
    /\ UserEdit /\ stored
    /\ UNCHANGED <<interval, status, spec, stored, queued, passVars, faults>>

\* A rule with an id is put before the k-th rule of an environment, or last.
AddRule(n, x) ==
    /\ GrowthbookEdit
    /\ \A r \in DOMAIN settings[n].rules : settings[n].rules[r].id # x
    /\ \E k \in 1 .. (Len(settings[n].rules) + 1) :
          settings' = [settings EXCEPT ![n].rules =
              SubSeq(@, 1, k - 1) \o <<[id |-> x, value |-> None, experiment |-> None]>>
                \o SubSeq(@, k, Len(@))]

\* A rule is removed, one of the controller's perhaps.
RemoveRule(n) ==
    /\ GrowthbookEdit
    /\ \E k \in DOMAIN settings[n].rules :
          settings' = [settings EXCEPT ![n].rules = SubSeq(@, 1, k - 1) \o SubSeq(@, k + 1, Len(@))]

\* An environment is switched; for one without settings they are made.
Switch(n) ==
    /\ GrowthbookEdit
    /\ settings' = [m \in DOMAIN settings \cup {n} |->
          IF m # n THEN settings[m]
          ELSE IF n \in DOMAIN settings THEN [settings[n] EXCEPT !.enabled = ~@]
          ELSE [enabled |-> TRUE, rules |-> <<>>]]

Growthbook ==
    \/ \E n \in DOMAIN settings : RemoveRule(n) \/ \E x \in RuleIds : AddRule(n, x)
    \/ \E n \in Names : Switch(n)

Next == Pass \/ Fail \/ EditSpec \/ DeleteObject \/ CreateObject \/ Growthbook

Spec == Init /\ [][Next]_vars

\* The controller keeps running; nobody has to edit and nothing to fail.
FairSpec == Spec /\ WF_vars(Pass)

-----------------------------------------------------------------------------
(* Properties.                                                             *)

\* The document has the environments of the spec, as they are switched there,
\* and in each the rules of the users followed by those of the spec.
Layered(have, want) ==
    /\ DOMAIN have = DOMAIN want
    /\ \A n \in DOMAIN want :
          /\ have[n].enabled = want[n].enabled
          /\ have[n].rules = UserPart(have[n].rules) \o want[n].rules

\* A pass that succeeds has left each rule of the spec once, in the order of the
\* spec and behind the users' rules, however many passes, failed ones included,
\* have written them before, and whatever users have made of them.
WrittenOnce ==
    [][pc # "done" /\ pc' = "done" => Layered(settings', desired)]_vars

\* The rules that users have put into an environment, in their order, outlive
\* every pass that has read them, as long as the spec names the environment.
UserRulesKept ==
    [][Pass /\ pc = "update" /\ settings = existing
          => \A n \in DOMAIN settings \cap DOMAIN desired :
                UserPart(settings'[n].rules) = UserPart(settings[n].rules)]_vars

\* The document says what the spec says, of an entry that no later one replaces:
\* the switch, and the values of the rules that are not the users'.
Says(have, s) ==
    /\ DOMAIN have = {s[k].name : k \in DOMAIN s}
    /\ \A k \in DOMAIN s :
          (\A j \in (k + 1) .. Len(s) : s[j].name # s[k].name)
          => LET own == SelectSeq(have[s[k].name].rules, LAMBDA r : r.id = None)
             IN  /\ have[s[k].name].enabled = s[k].enabled
                 /\ [j \in DOMAIN own |-> own[j].value]
                       = [j \in DOMAIN s[k].rules |-> s[k].rules[j].value]

\* A feature that stays and whose spec is one that can be converted in the end
\* is as its spec says, whatever users have done to it in growthbook.  With an
\* interval: nothing tells the controller of an edit made in growthbook.
FeatureSettles ==
    interval /\ <>[](status = "live" /\ ~Panics(spec))
        => <>[](stored /\ Says(settings, spec))

\* A deleted feature goes, once its spec is one that can be converted.
DeletedFeatureGoes ==
    <>[]~Panics(spec) => (status = "deleting" ~> status = "absent" /\ ~stored)

=============================================================================
