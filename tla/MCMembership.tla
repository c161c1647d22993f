---------------------------- MODULE MCMembership -----------------------------
(***************************************************************************)
(* Instances of Membership that TLC can check.                             *)
(***************************************************************************)
EXTENDS Membership, TLC

CONSTANTS o, g, u, v, x, y, admin

\* The organization binds the users of group g.
OneGroup == [z \in Orgs |-> {<<g, admin>>}]

\* All users are bound, and the instance selects some of them.
SomeLabels == {<<g, TRUE>>, <<g, FALSE>>}

Symmetry == Permutations(Users) \cup Permutations(Ids)
=============================================================================
