----------------------------- MODULE MCGraduation -----------------------------
(* The roles of policies/rbac_policy.yaml: feedback-service and the admin  *)
(* are coe-admin, alice approves; the librarian may register playbooks but *)
(* not graduate them, which the policy could grant.                        *)
EXTENDS Graduation

CONSTANTS feedback, admin, alice, librarian

MCPermissions ==
  [a \in Actors |-> CASE a = alice -> {"approve", "reject"}
                      [] a = librarian -> {"register"}
                      [] OTHER -> {"register", "graduate"}]
=============================================================================
