----------------------------- MODULE Remediation -----------------------------
(***************************************************************************)
(* action-service: the consumer of situations.diagnosed                    *)
(* (services/action/consumer.py), the gates a playbook passes before it    *)
(* touches the cluster and what follows its execution                      *)
(* (services/action/remediate.py), and the governance gate it asks for     *)
(* approval (services/action/adapters/governance_gate.py), composed with   *)
(* the approval handlers of governance (Approvals.tla) and the humans who  *)
(* call them.                                                              *)
(*                                                                         *)
(* The bus is taken as DeliveryPromise describes it, without a dead letter *)
(* queue: events are served in order; at least once serves the head again  *)
(* until it is acknowledged, at most once lets go of it as it serves it.   *)
(***************************************************************************)
EXTENDS Approvals, Sequences

CONSTANTS
  Delivery,     \* bus_delivery: "at_most_once" or "at_least_once"
  GuardMode,    \* bus_idempotency_mode: "off", "memory" or "redis"
  Diagnoses,    \* the events of situations.diagnosed: the occurrence of each
  Quiet,        \* the occurrences correlation marked handling = "quiet"
  Playbooks,    \* what the registry may hold when an event is handled
  FaultKinds,   \* the faults that may happen: "audit", "thread", "process"
  MaxFaults     \* bound: faults in a behaviour

(* A playbook: its hitl_mode, whether it is reversible, whether RBAC allows *)
(* it, whether the denylist finds it safe, whether it has rollback steps.  *)
ASSUME RemediationAssumption ==
  /\ Delivery \in {"at_most_once", "at_least_once"}
  /\ GuardMode \in {"off", "memory", "redis"}
  /\ Diagnoses \in Seq(Occurrences)
  /\ Quiet \subseteq Occurrences
  /\ Playbooks \subseteq [mode : {"auto", "hitl", "disabled"},
                          reversible : BOOLEAN, allowed : BOOLEAN,
                          safe : BOOLEAN, rollback : BOOLEAN]
  /\ FaultKinds \subseteq {"audit", "thread", "process"}
  /\ MaxFaults \in Nat

Events == 1 .. Len(Diagnoses)
AtLeastOnce == Delivery = "at_least_once"
Guarded == GuardMode # "off"
NoPlan == [mode |-> "none"]

VARIABLES
  head,        \* the next event the bus serves
  pc,          \* the consumer thread: the call it is about to make
  cur,         \* the consumer thread: the event in hand, 0 for none
  plan,        \* the consumer thread: the selected playbook, or NoPlan
  skip,        \* the consumer thread: the human approval is waived
  verdict,     \* the consumer thread: health_after of the outcome to publish
  eventClaim,  \* guard: iter_models' claim on each event
  execClaim,   \* guard: run_consumer's claim on each occurrence
  cluster,     \* what the remediator did to the occurrence's target
  execs,       \* history: executions begun for each occurrence
  outcomes,    \* history: health_after of the outcomes published for each
  consents,    \* history: who was answered by the approvals written to an id
               \* since its request was last created
  faults       \* history: how many faults happened

thread == <<pc, cur, plan, skip, verdict>>
guard == <<eventClaim, execClaim>>
world == <<cluster, execs, outcomes>>
governance == <<approval, handler, consents>>
vars == <<head, thread, guard, world, governance, faults>>

Admitting == {"execute-failed", "healthy", "unhealthy:no-rollback",
              "unhealthy:rollback-failed", "unhealthy:rolled-back"}
Refusals == {"escalated", "skipped:disabled", "refused:not-reversible",
             "denied:rbac", "denied:unsafe", "preflight-failed",
             "aborted:rejected", "aborted:timeout"}
Interrupted == "interrupted:unknown"
Verdicts == Admitting \cup Refusals \cup {Interrupted}

Pcs == {"idle", "event", "exec", "progress", "select", "gates", "rehearse",
        "quiet", "request", "await", "expire", "execute", "executing",
        "verify", "rollback", "audit", "publish", "execDone", "eventDone", "ack"}

Planned == {"gates", "rehearse", "quiet", "request", "await", "execute",
            "executing", "verify", "rollback"}

Occ == Diagnoses[cur]
Id == IdOf[Occ]

RemediationTypeOK ==
  /\ ApprovalsTypeOK
  /\ head \in 1 .. Len(Diagnoses) + 1
  /\ pc \in Pcs
  /\ cur \in Events \cup {0}
  /\ pc # "idle" => cur \in Events /\ head = IF AtLeastOnce THEN cur ELSE cur + 1
  /\ plan \in Playbooks \cup {NoPlan}
  /\ pc \in Planned => plan \in Playbooks
  /\ skip \in BOOLEAN
  /\ verdict \in Verdicts \cup {"none"}
  /\ pc \in {"expire", "audit", "publish"} => verdict \in Verdicts
  /\ eventClaim \in [Events -> {"none", "claimed", "done"}]
  /\ execClaim \in [Occurrences -> {"none", "claimed", "in_progress", "done"}]
  /\ cluster \in [Occurrences -> {"untouched", "begun", "changed", "restored"}]
  /\ execs \in [Occurrences -> Nat]
  /\ outcomes \in [Occurrences -> Seq(Verdicts)]
  /\ consents \in [Ids -> SUBSET Occurrences]
  /\ faults \in 0 .. MaxFaults

Init ==
  /\ ApprovalsInit
  /\ head = 1
  /\ pc = "idle" /\ cur = 0 /\ plan = NoPlan /\ skip = FALSE /\ verdict = "none"
  /\ eventClaim = [e \in Events |-> "none"]
  /\ execClaim = [o \in Occurrences |-> "none"]
  /\ cluster = [o \in Occurrences |-> "untouched"]
  /\ execs = [o \in Occurrences |-> 0]
  /\ outcomes = [o \in Occurrences |-> <<>>]
  /\ consents = [i \in Ids |-> {}]
  /\ faults = 0

------------------------------------------------------------------------------
(* Taking an event, its two claims and the way back.                       *)

Goto(next) == pc' = next /\ UNCHANGED <<cur, plan, skip, verdict>>
Conclude(v, next) == pc' = next /\ verdict' = v /\ UNCHANGED <<cur, plan, skip>>

LetGo ==
  /\ pc' = "idle"
  /\ cur' = 0
  /\ plan' = NoPlan
  /\ skip' = FALSE
  /\ verdict' = "none"

TakeEvent ==
  /\ pc = "idle"
  /\ head \in Events
  /\ cur' = head
  /\ head' = IF AtLeastOnce THEN head ELSE head + 1
  /\ pc' = IF Guarded THEN "event" ELSE "select"
  /\ UNCHANGED <<plan, skip, verdict, guard, world, governance, faults>>

(* iter_models: an event marked done is skipped, an unfinished one runs.   *)
ClaimEvent ==
  /\ pc = "event"
  /\ IF eventClaim[cur] = "done" THEN Goto("ack") ELSE Goto("exec")
  /\ eventClaim' = [eventClaim EXCEPT ![cur] = IF @ = "none" THEN "claimed" ELSE @]
  /\ UNCHANGED <<head, execClaim, world, governance, faults>>

(* run_consumer: the claim on the occurrence.  Only its first holder goes  *)
(* on; a claim that was left unfinished is reported, never retried.        *)
ClaimExecRetrying ==
  /\ pc = "exec"
  /\ IF execClaim[Occ] = "done" THEN Goto("eventDone") ELSE Goto("progress")
  /\ execClaim' = [execClaim EXCEPT ![Occ] = IF @ = "none" THEN "claimed" ELSE @]
  /\ UNCHANGED <<head, eventClaim, world, governance, faults>>

ClaimExecSilently ==
  /\ pc = "exec"
  /\ IF execClaim[Occ] = "none" THEN Goto("progress") ELSE Goto("eventDone")
  /\ execClaim' = [execClaim EXCEPT ![Occ] = IF @ = "none" THEN "claimed" ELSE @]
  /\ UNCHANGED <<head, eventClaim, world, governance, faults>>

ClaimExec ==
  /\ pc = "exec"
  /\ CASE execClaim[Occ] = "none" -> Goto("progress")
       [] execClaim[Occ] = "done" -> Goto("eventDone")
       [] OTHER -> Conclude(Interrupted, "publish")
  /\ execClaim' = [execClaim EXCEPT ![Occ] = IF @ = "none" THEN "claimed" ELSE @]
  /\ UNCHANGED <<head, eventClaim, world, governance, faults>>

MarkInProgress ==
  /\ pc = "progress"
  /\ execClaim' = [execClaim EXCEPT ![Occ] = "in_progress"]
  /\ Goto("select")
  /\ UNCHANGED <<head, eventClaim, world, governance, faults>>

(* Every branch ends here: an audit row that may raise, the outcome, the   *)
(* two marks and, at least once, the acknowledgement.                      *)
Audit ==
  /\ pc = "audit"
  /\ Goto("publish")
  /\ UNCHANGED <<head, guard, world, governance, faults>>

Publish ==
  /\ pc = "publish"
  /\ outcomes' = [outcomes EXCEPT ![Occ] = Append(@, verdict)]
  /\ Goto(IF Guarded THEN "execDone" ELSE "ack")
  /\ UNCHANGED <<head, guard, cluster, execs, governance, faults>>

MarkExecDone ==
  /\ pc = "execDone"
  /\ execClaim' = [execClaim EXCEPT ![Occ] = "done"]
  /\ Goto("eventDone")
  /\ UNCHANGED <<head, eventClaim, world, governance, faults>>

MarkEventDone ==
  /\ pc = "eventDone"
  /\ eventClaim' = [eventClaim EXCEPT ![cur] = "done"]
  /\ Goto("ack")
  /\ UNCHANGED <<head, execClaim, world, governance, faults>>

Acknowledge ==
  /\ pc = "ack"
  /\ head' = IF AtLeastOnce THEN head + 1 ELSE head
  /\ LetGo
  /\ UNCHANGED <<guard, world, governance, faults>>

------------------------------------------------------------------------------
(* The gates.                                                              *)

(* select_playbook finds nothing: the outcome is an escalation, and its    *)
(* audit row is best effort.                                               *)
Escalate ==
  /\ pc = "select"
  /\ Conclude("escalated", "publish")
  /\ UNCHANGED <<head, guard, world, governance, faults>>

(* ... or a playbook as the registry holds it now.  Of a quiet occurrence, *)
(* _quiet_decision may waive the approval of a HITL playbook: the training *)
(* rows may say either.                                                    *)
Select(p, waived) ==
  /\ pc = "select"
  /\ waived => Occ \in Quiet /\ p.mode = "hitl"
  /\ plan' = p
  /\ skip' = waived
  /\ pc' = "gates"
  /\ UNCHANGED <<head, cur, verdict, guard, world, governance, faults>>

(* Gates 0 to 2.5, in the code's order: the first that objects concludes.  *)
Objections ==
  << <<plan.mode = "disabled", "skipped:disabled">>,
     <<~plan.reversible, "refused:not-reversible">>,
     <<~plan.allowed, "denied:rbac">>,
     <<~plan.safe, "denied:unsafe">> >>

PassGates ==
  /\ pc = "gates"
  /\ IF \E k \in DOMAIN Objections : Objections[k][1]
     THEN \E k \in DOMAIN Objections :
            /\ Objections[k][1]
            /\ \A j \in 1 .. k - 1 : ~Objections[j][1]
            /\ Conclude(Objections[k][2], "audit")
     ELSE Goto("rehearse")
  /\ UNCHANGED <<head, guard, world, governance, faults>>

(* The rehearsal never raises.  Its failure blocks what no human will see; *)
(* otherwise it is advice on the approval request.                         *)
Rehearse(passed) ==
  /\ pc = "rehearse"
  /\ CASE ~passed /\ (plan.mode = "auto" \/ skip) ->
            Conclude("preflight-failed", "audit")
       [] plan.mode = "auto" -> Goto("execute")
       [] plan.mode = "hitl" /\ skip -> Goto("quiet")
       [] OTHER -> Goto("request")
  /\ UNCHANGED <<head, guard, world, governance, faults>>

AuditQuiet ==
  /\ pc = "quiet"
  /\ Goto("execute")
  /\ UNCHANGED <<head, guard, world, governance, faults>>

RequestApproval ==
  /\ pc = "request"
  /\ Create(Occ)
  /\ consents' = [consents EXCEPT ![Id] = {}]
  /\ Goto("await")
  /\ UNCHANGED <<head, guard, world, faults>>

(* await_decision: a poll that reads a decision ends the wait ...          *)
HearDecision ==
  /\ pc = "await"
  /\ approval[Id].status \in Wants
  /\ CASE approval[Id].status = "approved" -> Goto("execute")
       [] approval[Id].status = "rejected" -> Conclude("aborted:rejected", "audit")
       [] OTHER -> Conclude("aborted:timeout", "audit")
  /\ UNCHANGED <<head, guard, world, governance, faults>>

(* ... and so does the deadline, at which the last poll that worked saw    *)
(* the request pending, whatever its row says now.                         *)
StopWaiting ==
  /\ pc = "await"
  /\ Conclude("aborted:timeout", "expire")
  /\ UNCHANGED <<head, guard, world, governance, faults>>

(* _expire_best_effort: the call reaches a thread of governance, which     *)
(* will run it, or it is lost or finds nothing to expire.                  *)
ExpireRequest ==
  /\ pc = "expire"
  /\ Goto("audit")
  /\ \/ \E t \in Threads : BeginExpire(t, Id)
     \/ UNCHANGED <<approval, handler>>
  /\ UNCHANGED <<head, guard, world, consents, faults>>

------------------------------------------------------------------------------
(* Execution, verification and rollback.  None of the three calls raises.  *)

BeginExecute ==
  /\ pc = "execute"
  /\ cluster' = [cluster EXCEPT ![Occ] = "begun"]
  /\ execs' = [execs EXCEPT ![Occ] = @ + 1]
  /\ Goto("executing")
  /\ UNCHANGED <<head, guard, outcomes, governance, faults>>

(* A plan some step of which failed leaves the steps before it done, and   *)
(* is not rolled back.                                                     *)
EndExecute(ok) ==
  /\ pc = "executing"
  /\ IF ok THEN Goto("verify") ELSE Conclude("execute-failed", "audit")
  /\ cluster' = [cluster EXCEPT ![Occ] = IF ok THEN "changed" ELSE @]
  /\ UNCHANGED <<head, guard, execs, outcomes, governance, faults>>

Verify(healthy) ==
  /\ pc = "verify"
  /\ CASE healthy -> Conclude("healthy", "audit")
       [] ~healthy /\ plan.rollback -> Goto("rollback")
       [] OTHER -> Conclude("unhealthy:no-rollback", "audit")
  /\ UNCHANGED <<head, guard, world, governance, faults>>

RollBack(ok) ==
  /\ pc = "rollback"
  /\ Conclude(IF ok THEN "unhealthy:rolled-back" ELSE "unhealthy:rollback-failed",
              "audit")
  /\ cluster' = [cluster EXCEPT ![Occ] = IF ok THEN "restored" ELSE "begun"]
  /\ UNCHANGED <<head, guard, execs, outcomes, governance, faults>>

------------------------------------------------------------------------------
(* Governance and the humans who answer, or reset the store.               *)

AnswerRequest(t) ==
  /\ WriteRow(t)
  /\ consents' = IF handler[t].want = "approved"
                 THEN [consents EXCEPT ![handler[t].id] = @ \cup {handler[t].seen}]
                 ELSE consents

Govern ==
  /\ \/ /\ \E t \in Threads :
             CopyRow(t) \/ \E i \in Ids, want \in Wants : BeginDecide(t, i, want)
        /\ UNCHANGED consents
     \/ \E t \in Threads : AnswerRequest(t)
     \/ ResetApprovals /\ UNCHANGED consents
  /\ UNCHANGED <<head, thread, guard, world, faults>>

------------------------------------------------------------------------------
(* Faults.  Whatever is raised ends the thread, and the supervisor starts  *)
(* it again: the event in hand is gone (at most once) or served again.     *)

Fault(kind) ==
  /\ kind \in FaultKinds
  /\ faults < MaxFaults
  /\ faults' = faults + 1

(* The audit write is a call that propagates its errors.                   *)
AuditRaises ==
  /\ pc \in {"audit", "quiet"}
  /\ Fault("audit")
  /\ LetGo
  /\ UNCHANGED <<head, guard, world, governance>>

(* So are the guard's commands, the registry's read, RBAC, the creation of *)
(* the request and the publication of the outcome.                         *)
ThreadDies ==
  /\ \/ pc \in {"event", "exec", "progress", "execDone", "eventDone"}
     \/ pc \in {"select", "gates", "request", "publish"}
  /\ Fault("thread")
  /\ LetGo
  /\ UNCHANGED <<head, guard, world, governance>>

(* The request was created and the reply was lost.                         *)
LoseCreateReply ==
  /\ pc = "request"
  /\ Fault("thread")
  /\ Create(Occ)
  /\ consents' = [consents EXCEPT ![Id] = {}]
  /\ LetGo
  /\ UNCHANGED <<head, guard, world>>

ProcessDies ==
  /\ pc # "idle"
  /\ Fault("process")
  /\ LetGo
  /\ IF GuardMode = "memory"
     THEN /\ eventClaim' = [e \in Events |-> "none"]
          /\ execClaim' = [o \in Occurrences |-> "none"]
     ELSE UNCHANGED guard
  /\ UNCHANGED <<head, world, governance>>

------------------------------------------------------------------------------
Consume ==
  \/ TakeEvent \/ ClaimEvent \/ ClaimExec \/ MarkInProgress
  \/ Escalate
  \/ \E p \in Playbooks, waived \in BOOLEAN : Select(p, waived)
  \/ PassGates
  \/ \E passed \in BOOLEAN : Rehearse(passed)
  \/ AuditQuiet \/ RequestApproval \/ HearDecision \/ StopWaiting \/ ExpireRequest
  \/ BeginExecute
  \/ \E ok \in BOOLEAN : EndExecute(ok) \/ Verify(ok) \/ RollBack(ok)
  \/ Audit \/ Publish \/ MarkExecDone \/ MarkEventDone \/ Acknowledge

Faulty == AuditRaises \/ ThreadDies \/ LoseCreateReply \/ ProcessDies

Next == Consume \/ Govern \/ Faulty

(* The consumer is a supervised thread, and every wait in it has a         *)
(* deadline.  No human has to answer, and faults are never owed.           *)
Spec == Init /\ [][Next]_vars /\ WF_vars(Consume)

------------------------------------------------------------------------------
(* Properties.                                                             *)

(* With a guard that survives a restart no occurrence is executed twice,   *)
(* whatever is redelivered, re-emitted or interrupted (consumer.py:121).   *)
AtMostOneExecution == \A o \in Occurrences : execs[o] <= 1

(* At most one outcome of an occurrence is a verdict; all that can follow  *)
(* it is the notice of an interruption (consumer.py:133-149).              *)
OneVerdict ==
  \A o \in Occurrences :
    \A k \in 2 .. Len(outcomes[o]) : outcomes[o][k] = Interrupted

(* "Only report ROLLED_BACK when something was actually undone"            *)
(* (remediate.py:299-302), and healthy only of a change that is in place.  *)
VerdictMatchesCluster ==
  \A o \in Occurrences : \A k \in DOMAIN outcomes[o] :
    /\ outcomes[o][k] = "unhealthy:rolled-back" => cluster[o] = "restored"
    /\ outcomes[o][k] = "healthy" => cluster[o] = "changed"

(* A HITL playbook that was not waived executes only after a human's       *)
(* approval was written since this attempt created its request: neither an *)
(* approval left by an earlier occurrence under the same id nor a timeout  *)
(* will do (remediate.py:249-271).                                         *)
NeedsApproval == plan.mode = "hitl" /\ ~skip

ExecutesOnlyApproved ==
  [][BeginExecute /\ NeedsApproval => consents[Id] # {}]_vars

(* "Gate 3: HITL - wait for an explicit human approval" (remediate.py:249) *)
(* taken at its word: the approval answers the request of this occurrence. *)
(* The code does not keep it (README, section 6).                          *)
ExecutesOnlyOwnApproval ==
  [][BeginExecute /\ NeedsApproval => Occ \in consents[Id]]_vars

(* "Every branch produces a RemediationOutcome ... and an audit record"    *)
(* (remediate.py:6-7): between two events, every occurrence taken from the *)
(* stream was told of.                                                     *)
EveryBranchReports ==
  pc = "idle" => \A e \in 1 .. head - 1 : outcomes[Diagnoses[e]] # <<>>

------------------------------------------------------------------------------
(* Refinement of RemediationPromise, for the occurrences of the stream.    *)
Report ==
  [o \in Occurrences |->
     IF outcomes[o] = <<>> THEN "none"
     ELSE IF outcomes[o][1] \in Admitting THEN "touched"
     ELSE IF outcomes[o][1] \in Refusals THEN "untouched"
     ELSE "unknown"]

Promise == INSTANCE RemediationPromise WITH ran <- execs, report <- Report

KeepsPromise == Promise!Spec
=============================================================================
