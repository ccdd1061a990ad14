------------------------------ MODULE Graduation ------------------------------
(***************************************************************************)
(* feedback-service closing the loop (services/feedback): the consumer of  *)
(* remediation.outcomes that labels each outcome into the training store,  *)
(* asks governance to graduate a playbook with a clean record and to       *)
(* demote an automatic one that failed; composed with the registry         *)
(* (Registry.tla), the people who use it, and the action service that      *)
(* reads a playbook's mode, runs it and publishes what came of it.         *)
(*                                                                         *)
(* The bus is taken as DeliveryPromise describes it, without a dead letter *)
(* queue.  The answer to a call is never looked at; a call that fails in   *)
(* any way is forgotten.                                                   *)
(***************************************************************************)
EXTENDS Registry, Sequences, Functions

CONSTANTS
  Feedback,        \* the actor feedback-service calls as
  Nobody,          \* serves a call that is not made
  Delivery,        \* bus_delivery: "at_most_once" or "at_least_once"
  GuardMode,       \* bus_idempotency_mode: "off", "memory" or "redis"
  MinSuccesses,    \* graduation_min_successes
  CountSimulated,  \* graduation_count_simulated
  MaxRuns,         \* bound: playbook runs in a behaviour
  MaxActs,         \* bound: requests by people in a behaviour
  MaxFaults        \* bound: faults in a behaviour

ASSUME GraduationAssumption ==
  /\ Feedback \in Actors
  /\ Nobody \notin Threads
  /\ Delivery \in {"at_most_once", "at_least_once"}
  /\ GuardMode \in {"off", "memory", "redis"}
  /\ MinSuccesses \in Nat \ {0}
  /\ CountSimulated \in BOOLEAN
  /\ MaxRuns \in Nat /\ MaxActs \in Nat /\ MaxFaults \in Nat

AtLeastOnce == Delivery = "at_least_once"
FaultKinds == {"lost", "slow", "thread", "process", "governance"}

(* An outcome: the playbook, the mode it was read with, what came of it.   *)
(* "simulated" is a success in dry_run mode, "undecided" an escalation or  *)
(* an interrupted attempt.                                                 *)
Results == {"success", "simulated", "failed", "undecided"}
Outcomes == [book : Books, mode : Modes, result : Results]
NoRun == [mode |-> "none"]

VARIABLES
  running,     \* action: the playbook in execution and its mode as read
  outcomes,    \* the stream remediation.outcomes
  head,        \* the next outcome the bus serves
  pc,          \* consumer thread: the step it is about to take
  cur,         \* consumer thread: the outcome in hand, 0 for none
  server,      \* consumer thread: who serves its call
  graduated,   \* consumer thread: the playbooks it has graduated
  done,        \* guard: the outcomes marked done
  labelled,    \* training store: the outcomes it holds a record of
  successes,   \* training store: what playbook_stats counts for each playbook
  failures,
  acts,        \* how many requests people made
  faults       \* [FaultKinds -> how many happened]

thread == <<pc, cur, server, graduated>>
training == <<labelled, successes, failures>>
bounds == <<acts, faults>>
vars == <<registryVars, running, outcomes, head, thread, done, training, bounds>>

Pcs == {"idle", "label", "judge", "graduate", "demote", "graduating", "demoting",
        "mark", "ack"}
Calling == {"graduating", "demoting"}

GraduationTypeOK ==
  /\ RegistryTypeOK
  /\ running \in [book : Books, mode : Modes] \cup {NoRun}
  /\ outcomes \in Seq(Outcomes)
  /\ head \in 1 .. Len(outcomes) + 1
  /\ pc \in Pcs
  /\ cur \in 0 .. Len(outcomes)
  /\ pc # "idle" => cur # 0 /\ head = IF AtLeastOnce THEN cur ELSE cur + 1
  /\ server \in Threads \cup {Nobody}
  /\ pc \in Calling <=> server # Nobody
  /\ pc \in Calling => /\ serving[server].op = IF pc = "graduating" THEN "graduate"
                                                                     ELSE "demote"
                       /\ serving[server].book = outcomes[cur].book
                       /\ serving[server].actor = Feedback
  /\ graduated \subseteq Books
  /\ done \subseteq 1 .. Len(outcomes)
  /\ labelled \subseteq 1 .. Len(outcomes)
  /\ successes \in [Books -> Nat]
  /\ failures \in [Books -> Nat]
  /\ acts \in Nat
  /\ faults \in [FaultKinds -> Nat]

Init ==
  /\ RegistryInit
  /\ running = NoRun
  /\ outcomes = <<>>
  /\ head = 1
  /\ pc = "idle" /\ cur = 0 /\ server = Nobody /\ graduated = {}
  /\ done = {} /\ labelled = {}
  /\ successes = [b \in Books |-> 0]
  /\ failures = [b \in Books |-> 0]
  /\ acts = 0
  /\ faults = [k \in FaultKinds |-> 0]

------------------------------------------------------------------------------
(* The action service.                                                     *)

(* The mode is read when the playbook is selected, and published with the  *)
(* outcome whatever the registry says by then.                             *)
StartRun(b) ==
  /\ running = NoRun
  /\ registry[b] # Absent
  /\ Len(outcomes) < MaxRuns
  /\ running' = [book |-> b, mode |-> registry[b].mode]
  /\ UNCHANGED <<registryVars, outcomes, head, thread, done, training, bounds>>

(* A disabled playbook is skipped, which is reported as a failure.         *)
EndRun(result) ==
  /\ running # NoRun
  /\ running.mode = "disabled" => result \in {"failed", "undecided"}
  /\ outcomes' = Append(outcomes,
       [book |-> running.book, mode |-> running.mode, result |-> result])
  /\ running' = NoRun
  /\ UNCHANGED <<registryVars, head, thread, done, training, bounds>>

------------------------------------------------------------------------------
(* The consumer thread.                                                    *)

Outcome == outcomes[cur]
Unattended(o) == o.mode = "auto" /\ o.result = "failed"
Counts(o) == o.result = "success" \/ (CountSimulated /\ o.result = "simulated")
ShouldGraduate(b) == successes[b] >= MinSuccesses /\ failures[b] = 0

Goto(next) == pc' = next /\ UNCHANGED <<cur, server, graduated>>

(* iter_models skips an outcome marked done; the consumer one that is no   *)
(* evidence.                                                               *)
TakeOutcome ==
  /\ pc = "idle"
  /\ head <= Len(outcomes)
  /\ cur' = head
  /\ head' = IF AtLeastOnce THEN head ELSE head + 1
  /\ pc' = CASE head \in done -> "ack"
             [] head \notin done /\ outcomes[head].result = "undecided" -> "mark"
             [] OTHER -> "label"
  /\ UNCHANGED <<registryVars, running, outcomes, server, graduated, done, training, bounds>>

LabelCountingSimulated ==
  /\ pc = "label"
  /\ labelled' = labelled \cup {cur}
  /\ successes' = [successes EXCEPT ![Outcome.book] =
                     @ + IF Outcome.result \in {"success", "simulated"} THEN 1 ELSE 0]
  /\ failures' = [failures EXCEPT ![Outcome.book] =
                    @ + IF Outcome.result = "failed" THEN 1 ELSE 0]
  /\ Goto("judge")
  /\ UNCHANGED <<registryVars, running, outcomes, head, done, bounds>>

Label ==
  /\ pc = "label"
  /\ labelled' = labelled \cup {cur}
  /\ successes' = [successes EXCEPT ![Outcome.book] = @ + IF Counts(Outcome) THEN 1 ELSE 0]
  /\ failures' = [failures EXCEPT ![Outcome.book] =
                    @ + IF Outcome.result = "failed" THEN 1 ELSE 0]
  /\ Goto("judge")
  /\ UNCHANGED <<registryVars, running, outcomes, head, done, bounds>>

JudgeSuccessesOnly ==
  /\ pc = "judge"
  /\ Goto(CASE Unattended(Outcome) -> "demote"
            [] ~Unattended(Outcome) /\ Outcome.book \notin graduated
               /\ successes[Outcome.book] >= MinSuccesses -> "graduate"
            [] OTHER -> "mark")
  /\ UNCHANGED <<registryVars, running, outcomes, head, done, training, bounds>>

JudgeWithoutDemotion ==
  /\ pc = "judge"
  /\ Goto(IF Outcome.book \notin graduated /\ ShouldGraduate(Outcome.book)
          THEN "graduate" ELSE "mark")
  /\ UNCHANGED <<registryVars, running, outcomes, head, done, training, bounds>>

(* An unattended failure is answered by a demotion, a clean record by a    *)
(* graduation, once.                                                       *)
Judge ==
  /\ pc = "judge"
  /\ Goto(CASE Unattended(Outcome) -> "demote"
            [] ~Unattended(Outcome) /\ Outcome.book \notin graduated
               /\ ShouldGraduate(Outcome.book) -> "graduate"
            [] OTHER -> "mark")
  /\ UNCHANGED <<registryVars, running, outcomes, head, done, training, bounds>>

(* The call is over, whatever became of it.                                *)
Settle ==
  /\ graduated' = IF pc \in {"demote", "demoting"} THEN graduated \ {Outcome.book}
                                                  ELSE graduated \cup {Outcome.book}
  /\ pc' = "mark"
  /\ server' = Nobody
  /\ UNCHANGED cur

(* Governance takes the call and passes its checks.                        *)
Call(t) ==
  /\ \/ pc = "graduate" /\ BeginGraduate(t, Feedback, Outcome.book) /\ pc' = "graduating"
     \/ pc = "demote" /\ BeginDemote(t, Feedback, Outcome.book) /\ pc' = "demoting"
  /\ server' = t
  /\ UNCHANGED <<running, outcomes, head, cur, graduated, done, training, bounds>>

(* It answers at once: 404, 403, or a playbook that is not automatic.      *)
CallRefused ==
  /\ \/ pc = "graduate" /\ (registry[Outcome.book] = Absent \/ ~May(Feedback, "graduate"))
     \/ pc = "demote" /\ (registry[Outcome.book].mode # "auto" \/ ~May(Feedback, "graduate"))
  /\ Settle
  /\ UNCHANGED <<registryVars, running, outcomes, head, done, training, bounds>>

(* A handler of governance goes on; feedback hears of the end of its own.  *)
Serve(t) ==
  /\ Handle(t)
  /\ IF server = t THEN Settle ELSE UNCHANGED thread
  /\ UNCHANGED <<running, outcomes, head, done, training, bounds>>

MarkDone ==
  /\ pc = "mark"
  /\ done' = IF GuardMode = "off" THEN done ELSE done \cup {cur}
  /\ Goto("ack")
  /\ UNCHANGED <<registryVars, running, outcomes, head, training, bounds>>

Acknowledge ==
  /\ pc = "ack"
  /\ pc' = "idle" /\ cur' = 0
  /\ head' = cur + 1
  /\ UNCHANGED <<registryVars, running, outcomes, server, graduated, done, training, bounds>>

------------------------------------------------------------------------------
(* People.                                                                 *)

People == Actors \ {Feedback}

Act ==
  /\ acts < MaxActs
  /\ acts' = acts + 1
  /\ \/ \E p \in People, b \in Books, mode \in Modes : Register(p, b, mode)
     \/ \E t \in Threads, p \in People, b \in Books :
          BeginGraduate(t, p, b) \/ BeginDemote(t, p, b)
     \/ \E p \in People, d \in Drafts, mode \in Modes : Propose(p, d, mode)
     \/ \E t \in Threads, p \in People, d \in Drafts :
          BeginApprove(t, p, d) \/ BeginReject(t, p, d)
     \/ ResetProposals
  /\ UNCHANGED <<running, outcomes, head, thread, done, training, faults>>

------------------------------------------------------------------------------
(* Faults.                                                                 *)

FaultsSoFar == FoldFunction(+, 0, faults)

Fault(kind) ==
  /\ FaultsSoFar < MaxFaults
  /\ faults' = [faults EXCEPT ![kind] = @ + 1]
  /\ UNCHANGED acts

(* The call never reaches governance.                                      *)
LoseCall ==
  /\ pc \in {"graduate", "demote"}
  /\ Fault("lost")
  /\ Settle
  /\ UNCHANGED <<registryVars, running, outcomes, head, done, training>>

(* Feedback gives up after its five seconds; governance does not.          *)
CallTimesOut ==
  /\ pc \in Calling
  /\ Fault("slow")
  /\ Settle
  /\ UNCHANGED <<registryVars, running, outcomes, head, done, training>>

(* The frame is gone, and run_consumer starts with nothing graduated.      *)
Abandon ==
  /\ pc' = "idle" /\ cur' = 0 /\ server' = Nobody /\ graduated' = {}

(* The store, the guard or the bus raises: the supervisor starts over.  A  *)
(* call cannot raise.                                                      *)
ThreadDies ==
  /\ pc \in {"label", "judge", "mark", "ack"}
  /\ Fault("thread")
  /\ Abandon
  /\ UNCHANGED <<registryVars, running, outcomes, head, done, training>>

ProcessDies ==
  /\ Fault("process")
  /\ Abandon
  /\ done' = IF GuardMode = "memory" THEN {} ELSE done
  /\ UNCHANGED <<registryVars, running, outcomes, head, training>>

GovernanceRestarts ==
  /\ Fault("governance")
  /\ Reseed
  /\ IF pc \in Calling THEN Settle ELSE UNCHANGED thread
  /\ UNCHANGED <<running, outcomes, head, done, training>>

------------------------------------------------------------------------------
Consume ==
  \/ TakeOutcome \/ Label \/ Judge \/ CallRefused \/ MarkDone \/ Acknowledge
  \/ \E t \in Threads : Call(t)

Run == (\E b \in Books : StartRun(b)) \/ (\E result \in Results : EndRun(result))

Next ==
  \/ Consume
  \/ Run
  \/ Act
  \/ \E t \in Threads : Serve(t)
  \/ LoseCall \/ CallTimesOut \/ ThreadDies \/ ProcessDies \/ GovernanceRestarts

Spec ==
  /\ Init /\ [][Next]_vars
  /\ WF_vars(Consume)
  /\ \A t \in Threads : WF_vars(Serve(t))

------------------------------------------------------------------------------
Automatic(b) == registry[b].mode = "auto"
Deaths == faults["thread"] + faults["process"]

(* The outcomes that really speak for a playbook.                          *)
Evidence(b) == {i \in labelled : outcomes[i].book = b /\ Counts(outcomes[i])}

(* A playbook runs unattended only by the word of an actor who may         *)
(* graduate; by feedback's own only after MinSuccesses successes.  At      *)
(* least once, a death of the consumer may count one success twice:        *)
(* consumer.py:45 appends before the outcome is marked done.               *)
AutoIsEarned ==
  \A b \in Books : Automatic(b) =>
    /\ May(registry[b].by, "graduate")
    /\ registry[b].by = Feedback =>
         Cardinality(Evidence(b)) + (IF AtLeastOnce THEN Deaths ELSE 0) >= MinSuccesses

(* Feedback makes no playbook automatic that has a failure on record       *)
(* (graduate.py:45-48), but by a graduation that outlives the consumer's   *)
(* wait for it (app.py:39-48): that one may be written after the failure.  *)
GraduatesOnlyClean ==
  [][\A b \in Books :
       /\ registry'[b] # registry[b]
       /\ registry'[b].mode = "auto"
       /\ registry'[b].by = Feedback
       => failures[b] = 0 \/ server' = server]_vars

(* After an automatic playbook failed unattended it is not automatic by    *)
(* feedback's word again once the consumer has passed that outcome, if     *)
(* every call was answered (consumer.py:46-57).                            *)
UnattendedFailureDemotes ==
  /\ \A k \in {"lost", "slow", "process", "governance"} : faults[k] = 0
  /\ AtLeastOnce \/ faults["thread"] = 0
  => \A i \in labelled :
       /\ Unattended(outcomes[i])
       /\ Automatic(outcomes[i].book)
       /\ registry[outcomes[i].book].by = Feedback
       => i = (IF AtLeastOnce THEN head ELSE cur) /\ pc \notin {"mark", "ack"}

(* An unattended failure ends automation in the end (consumer.py:46-58),   *)
(* through redelivery and late answers, unless a call is lost on the way   *)
(* to governance or in its restart: a lost demotion is not asked for again *)
(* (app.py:26-28).                                                         *)
FailureEndsAutomation ==
  \A b \in Books :
    (\E i \in head .. Len(outcomes) :
        i \notin labelled /\ outcomes[i].book = b /\ Unattended(outcomes[i]))
      ~> \/ ~Automatic(b)
         \/ faults["lost"] + faults["governance"] > 0
         \/ ~AtLeastOnce /\ Deaths > 0

(* graduate.py:3: "A playbook graduates hitl->auto only after a clean      *)
(* track record".  What feedback makes automatic was behind a human.  The  *)
(* code does not keep it (README, section 6).                              *)
GraduatesOnlyFromHitl ==
  [][\A b \in Books :
       registry'[b] # registry[b] /\ registry'[b].mode = "auto" /\ registry'[b].by = Feedback
       => registry[b].mode \in {"hitl", "auto"}]_vars
=============================================================================
