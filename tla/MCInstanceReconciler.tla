------------------------ MODULE MCInstanceReconciler ------------------------
(***************************************************************************)
(* Instances of InstanceReconciler that TLC can check: one or two          *)
(* GrowthbookInstance objects, one or two objects of the other kinds.      *)
(***************************************************************************)
EXTENDS InstanceReconciler

CONSTANTS a, b, u, o, f, c, DB1, DB2

\* Every instance has a database of its own.
OwnDatabase == [i \in Instances |-> IF i = a THEN DB1 ELSE DB2]

\* Labels that every instance and every organization selects, and no labels.
Matching  == [inst |-> Instances, org |-> Orgs]
Unlabelled == [inst |-> {}, org |-> {}]
AlwaysMatching == [r \in Resources |-> {Matching}]
AnyLabels      == [r \in Resources |-> {Matching, Unlabelled}]

AllObjects == Instances \cup Resources
AllInstances == Instances
AllResources == Resources
AllButOrgs == AllObjects \ Orgs
=============================================================================
