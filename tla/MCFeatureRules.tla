--------------------------- MODULE MCFeatureRules ---------------------------
(***************************************************************************)
(* Instances of FeatureRules that TLC can check: two environments, two     *)
(* rules in a spec, one that panics, one environment named twice.          *)
(***************************************************************************)
EXTENDS FeatureRules

CONSTANTS v, w, dev, prod, x, y, exp

RuleOf(value) == [value |-> value, bucket |-> FALSE, minBucket |-> FALSE, experiment |-> None]
WithExperiment == [value |-> w, bucket |-> TRUE, minBucket |-> TRUE, experiment |-> exp]
WithoutMinimum == [value |-> w, bucket |-> TRUE, minBucket |-> FALSE, experiment |-> None]
Env(name, enabled, rules) == [name |-> name, enabled |-> enabled, rules |-> rules]

SomeSpecs ==
    { <<Env(dev, TRUE, <<RuleOf(v), WithExperiment>>)>>,
      <<Env(dev, TRUE, <<WithExperiment, RuleOf(v)>>), Env(prod, FALSE, <<>>)>>,
      <<Env(prod, TRUE, <<>>), Env(dev, FALSE, <<>>), Env(dev, TRUE, <<RuleOf(v)>>)>>,
      <<Env(dev, TRUE, <<WithoutMinimum>>)>> }
=============================================================================
