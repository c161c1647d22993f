-------------------------- MODULE GuardedDocument --------------------------
(***************************************************************************)
(* What the controller promises about one object of the cluster and its    *)
(* document in the database of one instance that prunes: a document is     *)
(* written only while its object is there, the object leaves only when the *)
(* document is gone, and the document is removed only if the object or the *)
(* instance is being deleted.  InstanceReconciler implements it with a     *)
(* finalizer and a lagging cache, DocumentSync with calls to MongoDB.      *)
(***************************************************************************)

VARIABLES
    status,  \* the object: "absent", "live" or "deleting"
    kept,    \* the instance is not being deleted
    present  \* the document exists

vars == <<status, kept, present>>

Init ==
    /\ status \in {"absent", "live"}
    /\ kept = TRUE
    /\ present = FALSE

Create ==
    /\ status = "absent"
    /\ status' = "live"
    /\ UNCHANGED <<kept, present>>

Delete ==
    /\ status = "live"
    /\ status' = "deleting"
    /\ UNCHANGED <<kept, present>>

Leave ==
    /\ status # "absent" /\ ~present
    /\ status' = "absent"
    /\ UNCHANGED <<kept, present>>

Abandon ==
    /\ kept
    /\ kept' = FALSE
    /\ UNCHANGED <<status, present>>

Write ==
    /\ status # "absent"
    /\ present' = TRUE
    /\ UNCHANGED <<status, kept>>

Remove ==
    /\ status = "deleting" \/ ~kept
    /\ present' = FALSE
    /\ UNCHANGED <<status, kept>>

Next == Create \/ Delete \/ Leave \/ Abandon \/ Write \/ Remove

Spec == Init /\ [][Next]_vars

=============================================================================
