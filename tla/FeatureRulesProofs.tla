------------------------- MODULE FeatureRulesProofs -------------------------
(***************************************************************************)
(* Theorems about FeatureRules, for every set of specs and of ids, with    *)
(* any number of edits, failures and restarts.                             *)
(*                                                                         *)
(* The conversion and the merge come first: what UserPart makes of the     *)
(* rules it has made already, and that of the entries of a spec with one   *)
(* name there is a last one.  Both are inductions over a list, done with   *)
(* the smallest of a set of naturals.                                      *)
(***************************************************************************)
EXTENDS FeatureRules, FiniteSetTheorems, SequenceTheorems, WellFoundedInduction, TLAPS

-----------------------------------------------------------------------------
(* The rules of the users.                                                 *)

LEMMA Smallest ==
    ASSUME NEW T, T \subseteq Nat, T # {}
    PROVE  \E m \in T : \A o \in T : m <= o
  <1> DEFINE R == {p \in Nat \X Nat : p[1] < p[2]}
  <1>1. IsWellFoundedOn(R, Nat)
    BY NatLessThanWellFounded, Zenon DEF OpToRel
  <1>2. \A o, m \in T : o < m => <<o, m>> \in R
    OBVIOUS
  <1> HIDE DEF R
  <1>3. PICK m \in T : \A o \in T : <<o, m>> \notin R
    BY <1>1, WFMin, Zenon
  <1>4. \A o \in T : o \in Nat /\ m \in Nat /\ ~(o < m)
    BY <1>2, <1>3
  <1>5. \A o \in T : m <= o
    BY <1>4
  <1> QED
    BY <1>5, Zenon

Below(S, m) == {j \in S : j < m}

LEMMA Segment == ASSUME NEW L \in Nat PROVE IsFiniteSet(1 .. L) /\ Cardinality(1 .. L) = L
  <1>1. 1 \in Int /\ L \in Int
    OBVIOUS
  <1>2. IsFiniteSet(1 .. L) /\ Cardinality(1 .. L) = IF 1 > L THEN 0 ELSE L - 1 + 1
    BY <1>1, FS_Interval
  <1> QED
    BY <1>2

LEMMA Positions ==
    ASSUME NEW L \in Nat, NEW S, S \subseteq 1 .. L
    PROVE  IsFiniteSet(S) /\ Cardinality(S) \in Nat
  <1>1. IsFiniteSet(S)
    BY Segment, FS_Subset
  <1> QED
    BY <1>1, FS_CardinalityType

\* Of a finite set of positions there is an n-th one.
LEMMA NthExists ==
    ASSUME NEW L \in Nat, NEW S \in SUBSET (1 .. L), NEW n \in 1 .. Cardinality(S)
    PROVE  \E k \in S : Cardinality(Below(S, k)) = n - 1
  <1> DEFINE T == {m \in Nat : n <= Cardinality(Below(S, m))}
  <1>1. IsFiniteSet(S) /\ Cardinality(S) \in Nat
    BY Positions
  <1>s. \A j \in S : j \in Nat /\ 1 <= j /\ j <= L
    OBVIOUS
  <1>2. \A m \in Nat : IsFiniteSet(Below(S, m)) /\ Cardinality(Below(S, m)) \in Nat
    <2> TAKE m \in Nat
    <2>1. Below(S, m) \subseteq 1 .. L
      BY DEF Below
    <2> QED
      BY <2>1, Positions
  <1>3. Below(S, L + 1) = S
    <2>1. \A j \in S : j < L + 1
      BY <1>s
    <2> QED
      BY <2>1, Zenon DEF Below
  <1>4. L + 1 \in T
    BY <1>1, <1>3
  <1>5. T \in SUBSET Nat /\ T # {}
    BY <1>4
  <1> HIDE DEF T
  <1>6. PICK m \in T : \A o \in T : m <= o
    BY <1>5, Smallest
  <1>m. m \in Nat /\ n <= Cardinality(Below(S, m))
    BY <1>6 DEF T
  <1>7. Cardinality(Below(S, 0)) = 0
    <2>1. \A j \in S : ~(j < 0)
      BY <1>s
    <2>2. Below(S, 0) = {}
      BY <2>1, Zenon DEF Below
    <2> QED
      BY <2>2, FS_EmptySet
  <1>8. m # 0
    BY <1>m, <1>1, <1>7
  <1>9. m - 1 \in Nat /\ m - 1 \notin T
    BY <1>m, <1>6, <1>8
  <1>10. Cardinality(Below(S, m - 1)) < n
    BY <1>1, <1>2, <1>9 DEF T
  <1>11. CASE m - 1 \notin S
    <2>1. \A j \in S : j < m <=> j < m - 1
      BY <1>s, <1>m, <1>11
    <2>2. Below(S, m) = Below(S, m - 1)
      BY <2>1, Zenon DEF Below
    <2> QED
      BY <1>1, <1>2, <1>m, <1>9, <1>10, <2>2
  <1>12. CASE m - 1 \in S
    <2>0. \A j \in S : j < m <=> j < m - 1 \/ j = m - 1
      BY <1>s, <1>m
    <2>e. ~(m - 1 < m - 1)
      BY <1>m
    <2>1. Below(S, m) = Below(S, m - 1) \cup {m - 1} /\ m - 1 \notin Below(S, m - 1)
      BY <1>12, <2>0, <2>e, Zenon DEF Below
    <2>2. Cardinality(Below(S, m)) = Cardinality(Below(S, m - 1)) + 1
      BY <1>2, <1>9, <2>1, FS_AddElement
    <2>3. Cardinality(Below(S, m - 1)) = n - 1
      BY <1>1, <1>2, <1>m, <1>9, <1>10, <2>2
    <2> QED
      BY <1>12, <2>3
  <1> QED
    BY <1>11, <1>12

UserPositions(rules) == {k \in DOMAIN rules : rules[k].id # None}
NthPosition(rules, n) ==
    CHOOSE k \in UserPositions(rules) : Cardinality(Below(UserPositions(rules), k)) = n - 1

LEMMA UserPartByPosition ==
    ASSUME NEW rules
    PROVE  UserPart(rules) =
              [n \in 1 .. Cardinality(UserPositions(rules)) |-> rules[NthPosition(rules, n)]]
  BY DEF UserPart, UserPositions, NthPosition, Below

LEMMA NthUser ==
    ASSUME NEW rules \in Seq(Rule), NEW n \in 1 .. Cardinality(UserPositions(rules))
    PROVE  /\ NthPosition(rules, n) \in UserPositions(rules)
           /\ Cardinality(Below(UserPositions(rules), NthPosition(rules, n))) = n - 1
  <1>1. Len(rules) \in Nat /\ UserPositions(rules) \in SUBSET (1 .. Len(rules))
    BY DEF UserPositions
  <1>2. \E k \in UserPositions(rules) : Cardinality(Below(UserPositions(rules), k)) = n - 1
    BY <1>1, NthExists
  <1> QED
    BY <1>2 DEF NthPosition

\* What UserPart keeps is rules, and each of them has an id.
LEMMA UserPartType ==
    ASSUME NEW rules \in Seq(Rule)
    PROVE  /\ UserPart(rules) \in Seq(Rule)
           /\ Len(UserPart(rules)) = Cardinality(UserPositions(rules))
           /\ \A n \in 1 .. Len(UserPart(rules)) : UserPart(rules)[n].id # None
  <1> DEFINE c == Cardinality(UserPositions(rules))
  <1>1. c \in Nat
    <2>1. Len(rules) \in Nat /\ UserPositions(rules) \subseteq 1 .. Len(rules)
      BY DEF UserPositions
    <2> QED
      BY <2>1, Positions
  <1>2. \A n \in 1 .. c : rules[NthPosition(rules, n)] \in Rule
                          /\ rules[NthPosition(rules, n)].id # None
    BY NthUser DEF UserPositions
  <1> HIDE DEF c
  <1>3. UserPart(rules) = [n \in 1 .. c |-> rules[NthPosition(rules, n)]]
    BY UserPartByPosition DEF c
  <1>4. UserPart(rules) \in Seq(Rule)
    BY <1>1, <1>2, <1>3, IsASeq
  <1>5. Len(UserPart(rules)) = c
    BY <1>1, <1>3, <1>4
  <1> QED
    BY <1>2, <1>3, <1>4, <1>5 DEF c

\* Rules of the spec behind those of the users leave UserPart as it is: merging
\* once more keeps what merging has kept.
LEMMA UserPartOfMerge ==
    ASSUME NEW rules \in Seq(Rule), NEW new \in Seq(Rule),
           \A k \in DOMAIN new : new[k].id = None
    PROVE  UserPart(mergeRules(rules, new)) = UserPart(rules)
  <1> DEFINE old == UserPart(rules)
             all == old \o new
             c == Len(old)
  <1>1. /\ old \in Seq(Rule) /\ c \in Nat
        /\ \A n \in 1 .. c : old[n].id # None
    BY UserPartType
  <1>2. /\ all \in Seq(Rule)
        /\ Len(all) = c + Len(new)
        /\ \A n \in 1 .. c : all[n] = old[n]
        /\ \A n \in c + 1 .. c + Len(new) : all[n] = new[n - c]
    BY <1>1, ConcatProperties
  <1>3. UserPositions(all) = 1 .. c
    <2>1. ASSUME NEW k \in 1 .. c PROVE k \in UserPositions(all)
      BY <1>1, <1>2, <2>1 DEF UserPositions
    <2>2. ASSUME NEW k \in UserPositions(all) PROVE k \in 1 .. c
      <3>1. k \in 1 .. c + Len(new) /\ all[k].id # None
        BY <1>2, <2>2 DEF UserPositions
      <3>2. CASE k \in c + 1 .. c + Len(new)
        <4>1. k - c \in DOMAIN new
          BY <1>1, <3>2
        <4> QED
          BY <1>2, <3>1, <3>2, <4>1
      <3> QED
        BY <1>1, <3>1, <3>2
    <2> QED
      BY <2>1, <2>2
  <1>4. Cardinality(UserPositions(all)) = c
    BY <1>1, <1>3, Segment
  <1>5. ASSUME NEW n \in 1 .. c PROVE NthPosition(all, n) = n
    <2> DEFINE k == NthPosition(all, n)
    <2>1. k \in 1 .. c /\ Cardinality(Below(1 .. c, k)) = n - 1
      BY <1>2, <1>3, <1>4, NthUser
    <2>2. Below(1 .. c, k) = 1 .. k - 1
      BY <1>1, <2>1 DEF Below
    <2>3. Cardinality(1 .. k - 1) = k - 1
      <3>1. k - 1 \in Nat
        BY <1>1, <2>1
      <3> QED
        BY <3>1, Segment
    <2> QED
      BY <2>1, <2>2, <2>3
  <1>6. UserPart(all) = [n \in 1 .. c |-> all[NthPosition(all, n)]]
    BY <1>4, UserPartByPosition
  <1>7. UserPart(all) = [n \in 1 .. c |-> old[n]]
    BY <1>2, <1>5, <1>6
  <1> QED
    BY <1>1, <1>7 DEF mergeRules

\* Nothing of the spec's own is kept.
LEMMA UserPartOfSpec ==
    ASSUME NEW new \in Seq(Rule), \A k \in DOMAIN new : new[k].id = None
    PROVE  UserPart(new) = <<>>
  <1>1. UserPositions(new) = {}
    BY DEF UserPositions
  <1>2. Cardinality(UserPositions(new)) = 0
    BY <1>1, FS_EmptySet
  <1> QED
    BY <1>2, UserPartType

-----------------------------------------------------------------------------
(* Conversion and merge.                                                   *)

Entry == [name : Names, enabled : BOOLEAN, rules : Seq(SpecRules)]
LastEntry(s, n) ==
    CHOOSE k \in DOMAIN s : s[k].name = n /\ \A j \in (k + 1) .. Len(s) : s[j].name # n

LEMMA SpecType == ASSUME NEW s \in Specs PROVE s \in Seq(Entry)
  BY ConstantsAssumption DEF Entry

\* Of the entries of a spec with one name there is a last one.
LEMMA LastEntryExists ==
    ASSUME NEW s \in Specs, NEW i \in DOMAIN s
    PROVE  LastEntry(s, s[i].name) \in DOMAIN s /\ s[LastEntry(s, s[i].name)].name = s[i].name
  <1> DEFINE Behind == {m \in Nat : m < Len(s) /\ s[Len(s) - m].name = s[i].name}
  <1>1. Len(s) \in Nat /\ DOMAIN s = 1 .. Len(s)
    BY SpecType
  <1>2. Len(s) - i \in Nat /\ Len(s) - i < Len(s) /\ Len(s) - (Len(s) - i) = i
    BY <1>1
  <1>3. Behind \subseteq Nat /\ Behind # {}
    BY <1>2
  <1> HIDE DEF Behind
  <1>4. PICK m \in Behind : \A o \in Behind : m <= o
    BY <1>3, Smallest
  <1>5. m \in Nat /\ m < Len(s) /\ s[Len(s) - m].name = s[i].name
    BY <1>4 DEF Behind
  <1>6. Len(s) - m \in DOMAIN s
    BY <1>1, <1>5
  <1>7. ASSUME NEW j \in (Len(s) - m + 1) .. Len(s) PROVE s[j].name # s[i].name
    <2>1. Len(s) - j \in Nat /\ Len(s) - j < m /\ Len(s) - j < Len(s) /\ Len(s) - (Len(s) - j) = j
      BY <1>1, <1>5
    <2>2. Len(s) - j \notin Behind
      BY <1>4, <1>5, <2>1
    <2> QED
      BY <2>1, <2>2 DEF Behind
  <1>8. \E k \in DOMAIN s : s[k].name = s[i].name
                            /\ \A j \in (k + 1) .. Len(s) : s[j].name # s[i].name
    BY <1>5, <1>6, <1>7
  <1> QED
    BY <1>8 DEF LastEntry

\* The rules of an environment are the controller's own.
OwnRules(f) == \A n \in DOMAIN f : \A k \in DOMAIN f[n].rules : f[n].rules[k].id = None

\* The conversion makes settings of a spec, and no rule of them has an id.
LEMMA ConversionEffect ==
    ASSUME NEW s \in Specs
    PROVE  IsSettings(FromV1beta1(s)) /\ OwnRules(FromV1beta1(s))
  <1> DEFINE Names1 == {s[k].name : k \in DOMAIN s}
             e(n) == s[LastEntry(s, n)]
             f == [n \in Names1 |-> [enabled |-> e(n).enabled,
                                     rules   |-> [j \in DOMAIN e(n).rules |-> FromRule(e(n).rules[j])]]]
  <1>1. FromV1beta1(s) = f
    BY DEF FromV1beta1, LastEntry
  <1>2. Names1 \subseteq Names
    <2>1. ASSUME NEW k \in DOMAIN s PROVE s[k].name \in Names
      <3>1. s[k] \in Entry
        BY SpecType
      <3> QED
        BY <3>1 DEF Entry
    <2> QED
      BY <2>1
  <1>3. ASSUME NEW n \in Names1
        PROVE  /\ f[n] \in Setting
               /\ \A k \in DOMAIN f[n].rules : f[n].rules[k].id = None
    <2>1. LastEntry(s, n) \in DOMAIN s
      BY LastEntryExists
    <2>2. e(n) \in Entry
      BY <2>1, SpecType
    <2>3. e(n).enabled \in BOOLEAN /\ e(n).rules \in Seq(SpecRules)
      BY <2>2 DEF Entry
    <2> DEFINE r == e(n).rules
               c == [j \in DOMAIN r |-> FromRule(r[j])]
    <2>4. f[n] = [enabled |-> e(n).enabled, rules |-> c]
      OBVIOUS
    <2> HIDE DEF r, f
    <2>5. Len(r) \in Nat /\ DOMAIN r = 1 .. Len(r) /\ \A j \in DOMAIN r : r[j] \in SpecRules
      BY <2>3 DEF r
    <2>6. \A j \in DOMAIN r : FromRule(r[j]) \in Rule /\ FromRule(r[j]).id = None
      BY <2>5 DEF FromRule, Rule, Values
    <2>7. c \in Seq(Rule)
      <3>1. c = [j \in 1 .. Len(r) |-> FromRule(r[j])]
        BY <2>5
      <3> QED
        BY <2>5, <2>6, <3>1, IsASeq
    <2>8. \A j \in DOMAIN c : c[j].id = None
      BY <2>6
    <2> HIDE DEF c
    <2>9. [enabled |-> e(n).enabled, rules |-> c] \in Setting
      BY <2>3, <2>7 DEF Setting
    <2> QED
      BY <2>4, <2>8, <2>9
  <1>4. DOMAIN f = Names1
    OBVIOUS
  <1>5. f \in [Names1 -> Setting]
    BY <1>3
  <1> HIDE DEF f, Names1
  <1>6. IsSettings(f)
    BY <1>2, <1>4, <1>5 DEF IsSettings
  <1>7. OwnRules(f)
    BY <1>3, <1>4 DEF OwnRules
  <1> QED
    BY <1>1, <1>6, <1>7

LEMMA SettingType ==
    ASSUME NEW f, IsSettings(f), NEW n \in DOMAIN f
    PROVE  /\ f[n] \in Setting
           /\ f[n].enabled \in BOOLEAN /\ f[n].rules \in Seq(Rule)
           /\ f[n] = [enabled |-> f[n].enabled, rules |-> f[n].rules]
  BY DEF IsSettings, Setting

\* The merge makes settings, of the environments of the new ones.
LEMMA MergedType ==
    ASSUME NEW old, NEW new, IsSettings(old), IsSettings(new)
    PROVE  IsSettings(Merged(old, new)) /\ DOMAIN Merged(old, new) = DOMAIN new
  <1> DEFINE f == Merged(old, new)
  <1>1. DOMAIN f = DOMAIN new
    BY DEF Merged
  <1>2. ASSUME NEW n \in DOMAIN new PROVE f[n] \in Setting
    <2>1. CASE n \notin DOMAIN old
      BY <2>1, SettingType DEF Merged
    <2>2. CASE n \in DOMAIN old
      <3>1. mergeRules(old[n].rules, new[n].rules) \in Seq(Rule)
        BY <2>2, SettingType, UserPartType, ConcatProperties DEF mergeRules
      <3>2. f[n] = [enabled |-> new[n].enabled, rules |-> mergeRules(old[n].rules, new[n].rules)]
        BY <2>2 DEF Merged
      <3>3. new[n].enabled \in BOOLEAN
        BY SettingType
      <3> QED
        BY <3>1, <3>2, <3>3 DEF Setting
    <2> QED
      BY <2>1, <2>2
  <1>3. f \in [DOMAIN new -> Setting]
    BY <1>1, <1>2 DEF Merged
  <1> QED
    BY <1>1, <1>3 DEF IsSettings

-----------------------------------------------------------------------------
(* Types.                                                                  *)

LEMMA NoSettingsType == IsSettings(NoSettings) /\ OwnRules(NoSettings) /\ DOMAIN NoSettings = {}
  BY DEF IsSettings, OwnRules, NoSettings

LEMMA TypeInit == Init => TypeOK
  <1> SUFFICES ASSUME Init PROVE TypeOK
    OBVIOUS
  <1>1. IsSettings(settings) /\ IsSettings(desired) /\ IsSettings(existing)
    BY NoSettingsType, Zenon DEF Init
  <1>2. ops \in 0 .. MaxOps /\ faults \in 0 .. MaxFaults
    BY ConstantsAssumption DEF Init
  <1>3. /\ status \in {"absent", "live", "deleting"} /\ spec \in Specs
        /\ stored \in BOOLEAN /\ queued \in BOOLEAN /\ interval \in BOOLEAN
        /\ pc \in {"idle", "convert", "find", "insert", "update", "done", "delete", "release"}
    BY Zenon DEF Init
  <1> QED
    BY <1>1, <1>2, <1>3, Zenon DEF TypeOK

\* What growthbook's users do to the rules of an environment leaves settings.
LEMMA EditedType ==
    ASSUME NEW f, IsSettings(f), NEW n \in Names, NEW v \in Setting
    PROVE  /\ IsSettings([f EXCEPT ![n] = v])
           /\ IsSettings([m \in DOMAIN f \cup {n} |-> IF m # n THEN f[m] ELSE v])
  <1>1. /\ DOMAIN f \subseteq Names
        /\ \A m \in DOMAIN f : f[m] \in Setting
    BY SettingType DEF IsSettings
  <1> DEFINE g == [f EXCEPT ![n] = v]
             h == [m \in DOMAIN f \cup {n} |-> IF m # n THEN f[m] ELSE v]
  <1>2. DOMAIN g = DOMAIN f /\ \A m \in DOMAIN f : g[m] \in Setting
    BY <1>1
  <1>3. g = [m \in DOMAIN f |-> g[m]]
    OBVIOUS
  <1>4. DOMAIN h = DOMAIN f \cup {n} /\ \A m \in DOMAIN f \cup {n} : h[m] \in Setting
    BY <1>1
  <1>5. h = [m \in DOMAIN f \cup {n} |-> h[m]]
    OBVIOUS
  <1> HIDE DEF g, h
  <1>6. g \in [DOMAIN g -> Setting]
    BY <1>2, <1>3
  <1>7. h \in [DOMAIN h -> Setting]
    BY <1>4, <1>5
  <1>8. DOMAIN g \subseteq Names /\ DOMAIN h \subseteq Names
    BY <1>1, <1>2, <1>4
  <1>9. IsSettings(g) /\ IsSettings(h)
    BY <1>6, <1>7, <1>8, Zenon DEF IsSettings
  <1> QED
    BY <1>9 DEF g, h

LEMMA AddRuleType ==
    ASSUME TypeOK, NEW n \in DOMAIN settings, NEW x \in RuleIds, AddRule(n, x)
    PROVE  IsSettings(settings')
  <1> DEFINE r == [id |-> x, value |-> None, experiment |-> None]
             old == settings[n].rules
             new(k) == SubSeq(old, 1, k - 1) \o <<r>> \o SubSeq(old, k, Len(old))
  <1>1. PICK k \in 1 .. (Len(old) + 1) : settings' = [settings EXCEPT ![n].rules = new(k)]
    BY Zenon DEF AddRule
  <1>2. settings[n] \in Setting /\ old \in Seq(Rule) /\ n \in Names
    BY SettingType DEF TypeOK, IsSettings
  <1>3. r \in Rule
    BY DEF Rule
  <1>4. Len(old) \in Nat /\ k \in Int /\ k - 1 \in Int /\ 1 <= k /\ k <= Len(old) + 1
    BY <1>2
  <1>5. SubSeq(old, 1, k - 1) \in Seq(Rule) /\ SubSeq(old, k, Len(old)) \in Seq(Rule)
    BY <1>2, <1>4, SubSeqProperties
  <1> HIDE DEF r, old
  <1>6. new(k) \in Seq(Rule)
    BY <1>3, <1>5, ConcatProperties
  <1> HIDE DEF new
  <1>7. [settings[n] EXCEPT !.rules = new(k)] \in Setting
    BY <1>2, <1>6 DEF Setting
  <1>8. settings' = [settings EXCEPT ![n] = [settings[n] EXCEPT !.rules = new(k)]]
    BY <1>1
  <1> QED
    BY <1>2, <1>7, <1>8, EditedType DEF TypeOK

LEMMA RemoveRuleType ==
    ASSUME TypeOK, NEW n \in DOMAIN settings, RemoveRule(n)
    PROVE  IsSettings(settings')
  <1> DEFINE old == settings[n].rules
             new(k) == SubSeq(old, 1, k - 1) \o SubSeq(old, k + 1, Len(old))
  <1>1. PICK k \in DOMAIN old : settings' = [settings EXCEPT ![n].rules = new(k)]
    BY Zenon DEF RemoveRule
  <1>2. settings[n] \in Setting /\ old \in Seq(Rule) /\ n \in Names
    BY SettingType DEF TypeOK, IsSettings
  <1>4. Len(old) \in Nat /\ k + 1 \in Int /\ k - 1 \in Int /\ 1 <= k /\ k <= Len(old)
    BY <1>2
  <1>5. SubSeq(old, 1, k - 1) \in Seq(Rule) /\ SubSeq(old, k + 1, Len(old)) \in Seq(Rule)
    BY <1>2, <1>4, SubSeqProperties
  <1> HIDE DEF old
  <1>6. new(k) \in Seq(Rule)
    BY <1>5, ConcatProperties
  <1> HIDE DEF new
  <1>7. [settings[n] EXCEPT !.rules = new(k)] \in Setting
    BY <1>2, <1>6 DEF Setting
  <1>8. settings' = [settings EXCEPT ![n] = [settings[n] EXCEPT !.rules = new(k)]]
    BY <1>1
  <1> QED
    BY <1>2, <1>7, <1>8, EditedType DEF TypeOK

LEMMA SwitchType ==
    ASSUME TypeOK, NEW n \in Names, Switch(n)
    PROVE  IsSettings(settings')
  <1> DEFINE v == IF n \in DOMAIN settings THEN [settings[n] EXCEPT !.enabled = ~@]
                  ELSE [enabled |-> TRUE, rules |-> <<>>]
  <1>1. v \in Setting
    <2>1. CASE n \in DOMAIN settings
      <3>1. settings[n] \in Setting
        BY <2>1, SettingType DEF TypeOK
      <3>2. [settings[n] EXCEPT !.enabled = ~@] \in Setting
        BY <3>1 DEF Setting
      <3> QED
        BY <2>1, <3>2
    <2>2. CASE n \notin DOMAIN settings
      BY <2>2 DEF Setting
    <2> QED
      BY <2>1, <2>2
  <1>2. settings' = [m \in DOMAIN settings \cup {n} |-> IF m # n THEN settings[m] ELSE v]
    BY DEF Switch
  <1> HIDE DEF v
  <1>3. IsSettings(settings)
    BY DEF TypeOK
  <1>4. IsSettings([m \in DOMAIN settings \cup {n} |-> IF m # n THEN settings[m] ELSE v])
    BY <1>1, <1>3, EditedType
  <1> QED
    BY <1>2, <1>4, Zenon

\* The invariant of the pass: what it writes is the controller's.
RulesInv == TypeOK /\ OwnRules(desired)

LEMMA RulesNext == RulesInv /\ [Next]_vars => RulesInv'
  <1> SUFFICES ASSUME RulesInv, [Next]_vars PROVE RulesInv'
    OBVIOUS
  <1>t. TypeOK /\ OwnRules(desired)
    BY DEF RulesInv
  <1> USE DEF passVars
  <1>e. ASSUME EndPass PROVE IsSettings(desired') /\ IsSettings(existing') /\ OwnRules(desired') /\ pc' = "idle"
    BY <1>e, NoSettingsType DEF EndPass
  <1>1. CASE Begin
    BY <1>t, <1>1 DEF Begin, RulesInv, TypeOK
  <1>2. CASE Convert
    <2>1. IsSettings(desired') /\ OwnRules(desired')
      BY <1>t, <1>2, ConversionEffect DEF Convert, TypeOK
    <2> QED
      BY <1>t, <1>2, <2>1 DEF Convert, RulesInv, TypeOK
  <1>3. CASE Panic
    BY <1>t, <1>3, <1>e DEF Panic, RulesInv, TypeOK
  <1>4. CASE FindOne
    <2>1. IsSettings(existing')
      BY <1>t, <1>4 DEF FindOne, TypeOK
    <2> QED
      BY <1>t, <1>4, <2>1 DEF FindOne, RulesInv, TypeOK
  <1>5. CASE InsertOne
    BY <1>t, <1>5 DEF InsertOne, RulesInv, TypeOK
  <1>6. CASE UpdateOne
    <2>1. IsSettings(settings')
      BY <1>t, <1>6, MergedType DEF UpdateOne, TypeOK
    <2> QED
      BY <1>t, <1>6, <2>1 DEF UpdateOne, RulesInv, TypeOK
  <1>7. CASE Done
    BY <1>t, <1>7, <1>e DEF Done, RulesInv, TypeOK
  <1>8. CASE DeleteOne
    BY <1>t, <1>8, NoSettingsType DEF DeleteOne, RulesInv, TypeOK
  <1>9. CASE Release
    BY <1>t, <1>9, <1>e DEF Release, RulesInv, TypeOK
  <1>10. CASE Fail
    BY <1>t, <1>10, <1>e, ConstantsAssumption DEF Fail, RulesInv, TypeOK
  <1>11. CASE EditSpec \/ DeleteObject \/ CreateObject
    <2>1. spec' \in Specs /\ status' \in {"absent", "live", "deleting"} /\ queued' \in BOOLEAN
      BY <1>t, <1>11 DEF EditSpec, DeleteObject, CreateObject, TypeOK
    <2>2. UserEdit /\ UNCHANGED <<interval, stored, settings, pc, desired, existing, faults>>
      BY <1>11 DEF EditSpec, DeleteObject, CreateObject
    <2>3. ops' \in 0 .. MaxOps
      BY <1>t, <2>2, ConstantsAssumption DEF UserEdit, TypeOK
    <2> QED
      BY <1>t, <2>1, <2>2, <2>3 DEF RulesInv, TypeOK
  <1>12. CASE Growthbook
    <2>1. IsSettings(settings')
      BY <1>t, <1>12, AddRuleType, RemoveRuleType, SwitchType DEF Growthbook
    <2>2. GrowthbookEdit
      BY <1>12 DEF Growthbook, AddRule, RemoveRule, Switch
    <2> QED
      BY <1>t, <2>1, <2>2, ConstantsAssumption DEF GrowthbookEdit, UserEdit, RulesInv, TypeOK
  <1>13. CASE UNCHANGED vars
    <2>1. IsSettings(settings') /\ IsSettings(desired') /\ IsSettings(existing') /\ OwnRules(desired')
      BY <1>t, <1>13, Zenon DEF vars, TypeOK
    <2> QED
      BY <1>t, <1>13, <2>1 DEF vars, RulesInv, TypeOK
  <1> QED
    BY <1>1, <1>2, <1>3, <1>4, <1>5, <1>6, <1>7, <1>8, <1>9, <1>10, <1>11, <1>12, <1>13
    DEF Next, Pass

LEMMA RulesInvariant == Spec => []RulesInv
  <1>1. Init => RulesInv
    BY TypeInit, NoSettingsType DEF Init, RulesInv
  <1> QED
    BY <1>1, RulesNext, PTL DEF Spec

\* Every variable keeps its type: whatever specs say and whatever users of growthbook do
\* to the rules, the settings remain a map from environments to lists of rules.
THEOREM FeatureTypeCorrect == Spec => []TypeOK
  <1>1. RulesInv => TypeOK
    BY DEF RulesInv
  <1> QED
    BY <1>1, RulesInvariant, PTL

-----------------------------------------------------------------------------
(* What a pass leaves.                                                     *)

\* Merging leaves the users' rules and then those of the spec, in the environments
\* of the spec.
LEMMA MergedIsLayered ==
    ASSUME NEW old, NEW new, IsSettings(old), IsSettings(new), OwnRules(new)
    PROVE  Layered(Merged(old, new), new)
  <1> DEFINE f == Merged(old, new)
  <1>1. DOMAIN f = DOMAIN new
    BY MergedType
  <1>2. ASSUME NEW n \in DOMAIN new
        PROVE  f[n].enabled = new[n].enabled /\ f[n].rules = UserPart(f[n].rules) \o new[n].rules
    <2>1. new[n].rules \in Seq(Rule) /\ \A k \in DOMAIN new[n].rules : new[n].rules[k].id = None
      BY SettingType DEF OwnRules
    <2>2. CASE n \notin DOMAIN old
      <3>1. f[n] = new[n]
        BY <2>2 DEF Merged
      <3>2. UserPart(new[n].rules) = <<>>
        BY <2>1, UserPartOfSpec
      <3>3. <<>> \o new[n].rules = new[n].rules
        BY <2>1, ConcatEmptySeq
      <3> QED
        BY <3>1, <3>2, <3>3
    <2>3. CASE n \in DOMAIN old
      <3>1. old[n].rules \in Seq(Rule)
        BY <2>3, SettingType
      <3>2. f[n].enabled = new[n].enabled /\ f[n].rules = mergeRules(old[n].rules, new[n].rules)
        BY <2>3 DEF Merged
      <3>3. UserPart(f[n].rules) = UserPart(old[n].rules)
        BY <2>1, <3>1, <3>2, UserPartOfMerge
      <3> QED
        BY <3>2, <3>3 DEF mergeRules
    <2> QED
      BY <2>2, <2>3
  <1> QED
    BY <1>1, <1>2 DEF Layered

\* Settings as the conversion has made them are layered, without rules of users.
LEMMA OwnIsLayered ==
    ASSUME NEW new, IsSettings(new), OwnRules(new)
    PROVE  Layered(new, new)
  <1>1. ASSUME NEW n \in DOMAIN new PROVE new[n].rules = UserPart(new[n].rules) \o new[n].rules
    <2>1. new[n].rules \in Seq(Rule) /\ \A k \in DOMAIN new[n].rules : new[n].rules[k].id = None
      BY SettingType DEF OwnRules
    <2>2. UserPart(new[n].rules) = <<>>
      BY <2>1, UserPartOfSpec
    <2> QED
      BY <2>1, <2>2, ConcatEmptySeq
  <1> QED
    BY <1>1 DEF Layered

\* However often the spec has been written, with failures in between, and whatever the
\* users of growthbook have added, moved or removed: a pass that succeeds leaves each
\* rule of the spec once, behind the users' rules.
THEOREM RulesWrittenOnce == Spec => WrittenOnce
  <1>1. ASSUME RulesInv, [Next]_vars, pc # "done", pc' = "done"
        PROVE  Layered(settings', desired)
    <2>t. IsSettings(settings) /\ IsSettings(existing) /\ IsSettings(desired) /\ OwnRules(desired)
      BY <1>1 DEF RulesInv, TypeOK
    <2>1. CASE FindOne
      <3>1. Merged(settings, desired) = settings /\ settings' = settings
        BY <1>1, <2>1 DEF FindOne, MayEqual
      <3> QED
        BY <2>t, <3>1, MergedIsLayered
    <2>2. CASE InsertOne
      BY <2>t, <2>2, OwnIsLayered DEF InsertOne
    <2>3. CASE UpdateOne
      BY <2>t, <2>3, MergedIsLayered DEF UpdateOne
    <2>4. FindOne \/ InsertOne \/ UpdateOne
      BY <1>1 DEF Next, Pass, Begin, Convert, Panic, Done, DeleteOne, Release, Fail, EndPass,
         EditSpec, DeleteObject, CreateObject, Growthbook, AddRule, RemoveRule, Switch,
         GrowthbookEdit, passVars, vars
    <2> QED
      BY <2>1, <2>2, <2>3, <2>4
  <1>2. RulesInv /\ [Next]_vars =>
           [pc # "done" /\ pc' = "done" => Layered(settings', desired)]_vars
    BY <1>1
  <1> QED
    BY <1>2, RulesInvariant, PTL DEF Spec, WrittenOnce

\* No update takes away or reorders rules that users have put into an environment of
\* the spec, as long as it has read them.
THEOREM UserRulesStay == Spec => UserRulesKept
  <1>1. ASSUME RulesInv, Pass, pc = "update", settings = existing,
               NEW n \in DOMAIN settings \cap DOMAIN desired
        PROVE  UserPart(settings'[n].rules) = UserPart(settings[n].rules)
    <2>t. IsSettings(settings) /\ IsSettings(existing) /\ IsSettings(desired) /\ OwnRules(desired)
      BY <1>1 DEF RulesInv, TypeOK
    <2>1. settings' = Merged(settings, desired)
      BY <1>1 DEF Pass, Begin, Convert, Panic, FindOne, InsertOne, UpdateOne, Done, DeleteOne,
         Release
    <2>2. settings'[n].rules = mergeRules(settings[n].rules, desired[n].rules)
      BY <2>1 DEF Merged
    <2>3. /\ settings[n].rules \in Seq(Rule) /\ desired[n].rules \in Seq(Rule)
          /\ \A k \in DOMAIN desired[n].rules : desired[n].rules[k].id = None
      BY <2>t, SettingType DEF OwnRules
    <2> QED
      BY <2>2, <2>3, UserPartOfMerge
  <1>2. RulesInv /\ [Next]_vars =>
           [Pass /\ pc = "update" /\ settings = existing
              => \A n \in DOMAIN settings \cap DOMAIN desired :
                    UserPart(settings'[n].rules) = UserPart(settings[n].rules)]_vars
    BY <1>1
  <1> QED
    BY <1>2, RulesInvariant, PTL DEF Spec, UserRulesKept

=============================================================================
