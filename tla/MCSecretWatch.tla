--------------------------- MODULE MCSecretWatch ----------------------------
(***************************************************************************)
(* Instances of SecretWatch that TLC can check.                            *)
(***************************************************************************)
EXTENDS SecretWatch

CONSTANTS a, b, s, c, v, w

\* Instance b reads the credentials of its database from secret s.
OneRootSecret == [i \in Instances |-> IF i = b THEN s ELSE None]

\* The labels of an object satisfy every selector, or that of b only.
AllOrB == {Instances, {b}}
=============================================================================
