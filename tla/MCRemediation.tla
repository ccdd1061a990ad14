---------------------------- MODULE MCRemediation ----------------------------
(* Two occurrences of one recurring situation; the first is diagnosed      *)
(* again by a re-emitted event.  One playbook for each gate that objects,  *)
(* and for each way on after the gates.                                    *)
EXTENDS Remediation

CONSTANTS o1, o2

MCIdOf == [o \in Occurrences |-> CHOOSE i \in Ids : TRUE]

MCDiagnoses == <<o1, o2, o1>>
MCTwice == <<o1, o2>>

Playbook(mode, reversible, allowed, safe, rollback) ==
  [mode |-> mode, reversible |-> reversible, allowed |-> allowed,
   safe |-> safe, rollback |-> rollback]

MCPlaybooks ==
  { Playbook("disabled", TRUE, TRUE, TRUE, TRUE),
    Playbook("auto", FALSE, FALSE, TRUE, TRUE),
    Playbook("hitl", TRUE, FALSE, FALSE, TRUE),
    Playbook("auto", TRUE, TRUE, FALSE, TRUE),
    Playbook("auto", TRUE, TRUE, TRUE, FALSE),
    Playbook("hitl", TRUE, TRUE, TRUE, TRUE) }

=============================================================================
