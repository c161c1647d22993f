--------------------------- MODULE MCDocumentSync ---------------------------
(***************************************************************************)
(* Instances of DocumentSync that TLC can check: two environments, two     *)
(* contents, two secrets and one user.                                     *)
(***************************************************************************)
EXTENDS DocumentSync

CONSTANTS v, w, dev, prod, secret, rotated, m

\* The spec changes its content, its environments, or both.
OneOrBothEnvironments ==
    {[content |-> v, envs |-> {dev}], [content |-> w, envs |-> {dev}],
     [content |-> w, envs |-> {prod}], [content |-> w, envs |-> {dev, prod}]}
=============================================================================
