------------------------------ MODULE MCRelease ------------------------------
(* Small instance of ReleaseCertification for TLC. *)
EXTENDS ReleaseCertification, TLC

MCOwner == [s \in AttestationSlots |->
    CASE s = "product_owner" -> "ann" [] s = "security_owner" -> "bob"
      [] s = "operations_owner" -> "cid" [] OTHER -> "pat"]

\* Ann may sign for two roles, and the requester is on one of the lists.
MCPolicies == [p1 |-> [s \in AttestationSlots |->
    CASE s = "product_owner" -> {"ann", "req"} [] s = "security_owner" -> {"bob", "ann"}
      [] s = "operations_owner" -> {"cid"} [] OTHER -> {"pat"}]]

\* Nothing distinguishes one commit from another.
MCSymmetry == Permutations(Revisions)
=============================================================================
