------------------------- MODULE RemediationPromise -------------------------
(***************************************************************************)
(* What action-service promises of one occurrence of a situation when its  *)
(* bus is durable and its idempotency guard survives a restart: the        *)
(* cluster is changed at most once, every occurrence is reported, nothing  *)
(* is executed after the report, and a report that says nothing was        *)
(* changed, or that something was, is true.                                *)
(***************************************************************************)
EXTENDS Naturals

CONSTANT Occurrences

VARIABLES
  ran,      \* [Occurrences -> Nat]: how often a plan was executed
  report    \* [Occurrences -> what was published first]

Reports == {"untouched", "touched", "unknown"}

Init ==
  /\ ran = [o \in Occurrences |-> 0]
  /\ report = [o \in Occurrences |-> "none"]

Run(o) ==
  /\ report[o] = "none"
  /\ ran[o] = 0
  /\ ran' = [ran EXCEPT ![o] = 1]
  /\ UNCHANGED report

Tell(o) ==
  /\ report[o] = "none"
  /\ \E r \in Reports :
       /\ r = "untouched" => ran[o] = 0
       /\ r = "touched" => ran[o] = 1
       /\ report' = [report EXCEPT ![o] = r]
  /\ UNCHANGED ran

Next == \E o \in Occurrences : Run(o) \/ Tell(o)

(* Every occurrence is told of in the end; nobody promises a fix.          *)
Spec ==
  /\ Init
  /\ [][Next]_<<ran, report>>
  /\ \A o \in Occurrences : WF_<<ran, report>>(Tell(o))
=============================================================================
