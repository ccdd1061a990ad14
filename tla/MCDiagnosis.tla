----------------------------- MODULE MCDiagnosis -----------------------------
(* Constants of Diagnosis that a configuration cannot write.               *)
EXTENDS Diagnosis

MCSigns == [s \in Signatures |-> IF s = "surge" THEN {"latency", "error"} ELSE {}]
MCFits == {-2000, 9900}
MCDeployments ==
  {[embedding |-> FALSE, drop |-> FALSE, skip |-> TRUE, executor |-> "dry_run"],
   [embedding |-> TRUE, drop |-> FALSE, skip |-> TRUE, executor |-> "k8s"],
   [embedding |-> FALSE, drop |-> TRUE, skip |-> FALSE, executor |-> "k8s"]}
Catalogue(f) == [b \in Books |-> IF b \in DOMAIN f THEN f[b] ELSE "hitl"]
MCRegistries ==
  {Catalogue([b \in {"rollback-deploy"} |-> "absent"])}
=============================================================================
