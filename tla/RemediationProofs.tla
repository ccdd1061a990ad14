-------------------------- MODULE RemediationProofs --------------------------
(***************************************************************************)
(* What action-service promises of every occurrence, for every stream of   *)
(* diagnoses, every registry, every crowd of humans and any number of      *)
(* faults.                                                                 *)
(***************************************************************************)
EXTENDS Remediation, TLAPS

USE ApprovalsAssumption, RemediationAssumption

------------------------------------------------------------------------------
(* Types.                                                                  *)

LEMMA OccType == ASSUME RemediationTypeOK, pc # "idle"
                 PROVE  cur \in Events /\ Occ \in Occurrences /\ Id \in Ids
BY DEF RemediationTypeOK, Occ, Id, Events

LEMMA TypeInit == Init => RemediationTypeOK
<1> SUFFICES ASSUME Init PROVE RemediationTypeOK
    OBVIOUS
<1>1. ApprovalsTypeOK
  BY DEF Init, ApprovalsInit, ApprovalsTypeOK
<1>2. head \in 1 .. Len(Diagnoses) + 1
  <2>1. Len(Diagnoses) \in Nat
    OBVIOUS
  <2>2. QED BY <2>1 DEF Init
<1>3. outcomes \in [Occurrences -> Seq(Verdicts)]
  BY DEF Init
<1>4. faults \in 0 .. MaxFaults
  BY DEF Init
<1>5. /\ eventClaim \in [Events -> {"none", "claimed", "done"}]
      /\ execClaim \in [Occurrences -> {"none", "claimed", "in_progress", "done"}]
      /\ cluster \in [Occurrences -> {"untouched", "begun", "changed", "restored"}]
      /\ execs \in [Occurrences -> Nat]
      /\ consents \in [Ids -> SUBSET Occurrences]
  BY DEF Init
<1>6. /\ pc = "idle" /\ cur \in Events \cup {0} /\ plan \in Playbooks \cup {NoPlan}
      /\ skip \in BOOLEAN /\ verdict \in Verdicts \cup {"none"}
  BY DEF Init
<1>7. QED
  BY <1>1, <1>2, <1>3, <1>4, <1>5, <1>6 DEF RemediationTypeOK, Pcs, Planned

(* The approval handlers keep the types of the store and of their threads, *)
(* whoever calls them.                                                     *)
LEMMA CreateType ==
  ASSUME ApprovalsTypeOK, NEW o \in Occurrences, Create(o)
  PROVE  ApprovalsTypeOK'
<1>1. [occ |-> o, status |-> "pending"] \in Rows /\ IdOf[o] \in Ids
  BY DEF Rows, Statuses
<1>2. QED BY <1>1 DEF ApprovalsTypeOK, Create

LEMMA CheckType ==
  ASSUME ApprovalsTypeOK, NEW t \in Threads, NEW i \in Ids, NEW want \in Wants,
         Check(t, i, want)
  PROVE  ApprovalsTypeOK'
<1>1. approval[i] \in Rows
  BY DEF ApprovalsTypeOK, Check, Absent
<1>2. [at |-> "checked", id |-> i, want |-> want, seen |-> approval[i].occ] \in Checked
  BY <1>1 DEF Rows, Checked
<1>3. QED BY <1>2 DEF ApprovalsTypeOK, Check

LEMMA CopyType ==
  ASSUME ApprovalsTypeOK, NEW t \in Threads, CopyRow(t) PROVE ApprovalsTypeOK'
<1> DEFINE i == handler[t].id
           copied == [at |-> "copied", id |-> i, want |-> handler[t].want,
                      seen |-> handler[t].seen, copy |-> approval[i]]
<1>1. handler[t] \in Checked
  BY DEF ApprovalsTypeOK, CopyRow, Idle, Copied
<1>2. approval[i] # Absent => copied \in Copied
  BY <1>1 DEF ApprovalsTypeOK, Checked, Copied
<1>3. handler' = [handler EXCEPT ![t] = IF approval[i] = Absent THEN Idle ELSE copied]
  BY DEF CopyRow
<1>4. QED
  BY <1>2, <1>3 DEF ApprovalsTypeOK, CopyRow

LEMMA WriteType ==
  ASSUME ApprovalsTypeOK, NEW t \in Threads, WriteRow(t)
  PROVE  ApprovalsTypeOK' /\ handler[t] \in Copied
<1>1. handler[t] \in Copied
  BY DEF ApprovalsTypeOK, WriteRow, Idle, Checked
<1>2. [handler[t].copy EXCEPT !.status = handler[t].want] \in Rows
  BY <1>1 DEF Copied, Rows, Wants, Statuses
<1>3. QED
  BY <1>1, <1>2 DEF ApprovalsTypeOK, WriteRow, Copied

LEMMA TypeStep == RemediationTypeOK /\ [Next]_vars => RemediationTypeOK'
<1> SUFFICES ASSUME RemediationTypeOK, [Next]_vars PROVE RemediationTypeOK'
    OBVIOUS
<1>0. Len(Diagnoses) \in Nat
  OBVIOUS
<1>1. CASE UNCHANGED vars
  BY <1>1
  DEF vars, thread, guard, world, governance, RemediationTypeOK, ApprovalsTypeOK
<1>2. CASE TakeEvent
  BY <1>0, <1>2
  DEF TakeEvent, guard, world, governance, RemediationTypeOK, ApprovalsTypeOK,
      Events, Pcs, Planned
<1>3. CASE ClaimEvent \/ ClaimExec \/ MarkInProgress \/ MarkExecDone \/ MarkEventDone
  <2>1. pc # "idle" /\ pc' # "idle" /\ pc' \in Pcs /\ pc' \notin Planned
        /\ UNCHANGED <<head, cur, plan, skip, world, governance, faults>>
    BY <1>3
    DEF ClaimEvent, ClaimExec, MarkInProgress, MarkExecDone, MarkEventDone, Goto,
        Conclude, Pcs, Planned
  <2>2. eventClaim' \in [Events -> {"none", "claimed", "done"}]
    <3>1. eventClaim \in [Events -> {"none", "claimed", "done"}] /\ cur \in Events
      BY <2>1 DEF RemediationTypeOK
    <3>2. CASE ClaimEvent \/ MarkEventDone
      BY <3>1, <3>2 DEF ClaimEvent, MarkEventDone
    <3>3. CASE ClaimExec \/ MarkInProgress \/ MarkExecDone
      BY <3>1, <3>3 DEF ClaimExec, MarkInProgress, MarkExecDone
    <3>4. QED BY <1>3, <3>2, <3>3
  <2>3. execClaim' \in [Occurrences -> {"none", "claimed", "in_progress", "done"}]
    <3>1. /\ execClaim \in [Occurrences -> {"none", "claimed", "in_progress", "done"}]
          /\ Occ \in Occurrences
      BY <2>1, OccType DEF RemediationTypeOK
    <3>2. CASE ClaimEvent \/ MarkEventDone
      BY <3>1, <3>2 DEF ClaimEvent, MarkEventDone
    <3>3. CASE ClaimExec \/ MarkInProgress \/ MarkExecDone
      BY <3>1, <3>3 DEF ClaimExec, MarkInProgress, MarkExecDone
    <3>4. QED BY <1>3, <3>2, <3>3
  <2>4. verdict' \in Verdicts \cup {"none"} /\ (pc' = "publish" => verdict' \in Verdicts)
        /\ pc' \notin {"expire", "audit"}
    BY <1>3
    DEF ClaimEvent, ClaimExec, MarkInProgress, MarkExecDone, MarkEventDone, Goto,
        Conclude, RemediationTypeOK, Verdicts
  <2>5. QED
    BY <2>1, <2>2, <2>3, <2>4 DEF RemediationTypeOK, ApprovalsTypeOK, world, governance
<1>4. CASE Publish
  <2>1. outcomes' \in [Occurrences -> Seq(Verdicts)]
    <3>1. Append(outcomes[Occ], verdict) \in Seq(Verdicts)
      BY <1>4, OccType DEF Publish, RemediationTypeOK
    <3>2. QED BY <1>4, <3>1 DEF Publish, RemediationTypeOK
  <2>2. QED
    BY <1>4, <2>1
    DEF Publish, Goto, guard, governance, RemediationTypeOK, ApprovalsTypeOK, Pcs,
        Planned
<1>5. CASE Acknowledge
  <2>1. head' \in 1 .. Len(Diagnoses) + 1
    BY <1>0, <1>5 DEF Acknowledge, RemediationTypeOK, Events
  <2>2. QED
    BY <1>5, <2>1
    DEF Acknowledge, LetGo, guard, world, governance, RemediationTypeOK,
        ApprovalsTypeOK, Pcs, Planned
<1>6. ASSUME NEW p \in Playbooks, NEW waived \in BOOLEAN, Select(p, waived)
      PROVE  RemediationTypeOK'
  BY <1>6
  DEF Select, guard, world, governance, RemediationTypeOK, ApprovalsTypeOK, Pcs
<1>7. CASE \/ Escalate \/ PassGates \/ \E passed \in BOOLEAN : Rehearse(passed)
           \/ AuditQuiet \/ HearDecision \/ StopWaiting \/ Audit
           \/ \E healthy \in BOOLEAN : Verify(healthy)
  <2>1. UNCHANGED <<head, cur, plan, skip, guard, world, governance, faults>>
    BY <1>7
    DEF Escalate, PassGates, Rehearse, AuditQuiet, HearDecision, StopWaiting, Audit,
        Verify, Goto, Conclude
  <2>2. /\ pc \in Pcs \ {"idle"} /\ pc' \in Pcs \ {"idle"}
        /\ pc' \in Planned => pc \in Planned
    BY <1>7
    DEF Escalate, PassGates, Rehearse, AuditQuiet, HearDecision, StopWaiting, Audit,
        Verify, Goto, Conclude, Pcs, Planned
  <2>3. /\ verdict' \in Verdicts \cup {"none"}
        /\ pc' \in {"expire", "audit", "publish"} => verdict' \in Verdicts
    <3>1. CASE PassGates
      <4>1. \A k \in DOMAIN Objections : Objections[k][2] \in Refusals
        BY DEF Objections, Refusals
      <4>2. QED
        BY <3>1, <4>1 DEF PassGates, Goto, Conclude, RemediationTypeOK, Verdicts
    <3>2. CASE ~PassGates
      BY <1>7, <3>2
      DEF Escalate, Rehearse, AuditQuiet, HearDecision, StopWaiting, Audit,
          Verify, Goto, Conclude, RemediationTypeOK, Verdicts, Refusals, Admitting
    <3>3. QED BY <3>1, <3>2
  <2>4. QED
    BY <2>1, <2>2, <2>3
    DEF guard, world, governance, RemediationTypeOK, ApprovalsTypeOK
<1>8. CASE RequestApproval \/ LoseCreateReply
  <2>1. ApprovalsTypeOK' /\ consents' \in [Ids -> SUBSET Occurrences]
    BY <1>8, OccType, CreateType DEF RequestApproval, LoseCreateReply, RemediationTypeOK
  <2>2. faults' \in 0 .. MaxFaults
    BY <1>8 DEF RequestApproval, LoseCreateReply, Fault, RemediationTypeOK
  <2>3. QED
    BY <1>8, <2>1, <2>2
    DEF RequestApproval, LoseCreateReply, Goto, LetGo, guard, world,
        RemediationTypeOK, Pcs, Planned
<1>9. CASE ExpireRequest
  <2>1. ApprovalsTypeOK'
    BY <1>9, OccType, CheckType
    DEF ExpireRequest, BeginExpire, Wants, RemediationTypeOK, ApprovalsTypeOK
  <2>2. verdict \in Verdicts
    BY <1>9 DEF ExpireRequest, RemediationTypeOK
  <2>3. QED
    BY <1>9, <2>1, <2>2
    DEF ExpireRequest, Goto, guard, world, RemediationTypeOK, Pcs, Planned
<1>10. CASE BeginExecute
  <2>1. /\ execs' \in [Occurrences -> Nat]
        /\ cluster' \in [Occurrences -> {"untouched", "begun", "changed", "restored"}]
    BY <1>10, OccType DEF BeginExecute, RemediationTypeOK
  <2>2. QED
    BY <1>10, <2>1
    DEF BeginExecute, Goto, guard, governance, RemediationTypeOK, ApprovalsTypeOK,
        Pcs, Planned
<1>11. CASE \E ok \in BOOLEAN : EndExecute(ok) \/ RollBack(ok)
  <2>1. cluster' \in [Occurrences -> {"untouched", "begun", "changed", "restored"}]
    BY <1>11, OccType DEF EndExecute, RollBack, RemediationTypeOK
  <2>2. QED
    BY <1>11, <2>1
    DEF EndExecute, RollBack, Goto, Conclude, guard, governance, RemediationTypeOK,
        ApprovalsTypeOK, Pcs, Planned, Verdicts, Admitting
<1>12. CASE Govern
  <2>1. ApprovalsTypeOK'
    <3>1. ASSUME NEW t \in Threads, NEW i \in Ids, NEW want \in Wants,
                 BeginDecide(t, i, want)
          PROVE  ApprovalsTypeOK'
      BY <3>1, CheckType DEF BeginDecide, RemediationTypeOK
    <3>2. CASE ResetApprovals
      BY <3>2 DEF ResetApprovals, RemediationTypeOK, ApprovalsTypeOK
    <3>3. QED
      BY <1>12, <3>1, <3>2, CopyType, WriteType
      DEF Govern, AnswerRequest, RemediationTypeOK
  <2>2. consents' \in [Ids -> SUBSET Occurrences]
    <3>1. ASSUME NEW t \in Threads, AnswerRequest(t)
          PROVE  consents' \in [Ids -> SUBSET Occurrences]
      <4>1. handler[t].id \in Ids /\ handler[t].seen \in Occurrences
        BY <3>1, WriteType DEF AnswerRequest, RemediationTypeOK, Copied
      <4>2. QED BY <3>1, <4>1 DEF AnswerRequest, RemediationTypeOK
    <3>2. QED BY <1>12, <3>1 DEF Govern, RemediationTypeOK
  <2>3. QED
    BY <1>12, <2>1, <2>2 DEF Govern, thread, guard, world, RemediationTypeOK
<1>13. CASE AuditRaises \/ ThreadDies \/ ProcessDies
  <2>1. faults' \in 0 .. MaxFaults /\ LetGo /\ UNCHANGED <<head, world, governance>>
    BY <1>13 DEF AuditRaises, ThreadDies, ProcessDies, Fault, RemediationTypeOK
  <2>2. /\ eventClaim' \in [Events -> {"none", "claimed", "done"}]
        /\ execClaim' \in [Occurrences -> {"none", "claimed", "in_progress", "done"}]
    BY <1>13 DEF AuditRaises, ThreadDies, ProcessDies, guard, RemediationTypeOK
  <2>3. QED
    BY <2>1, <2>2
    DEF LetGo, world, governance, RemediationTypeOK, ApprovalsTypeOK, Pcs, Planned
<1>14. QED
  BY <1>1, <1>2, <1>3, <1>4, <1>5, <1>6, <1>7, <1>8, <1>9, <1>10, <1>11, <1>12,
     <1>13
  DEF Next, Consume, Faulty

(* Type correctness of the service and of the approval store.              *)
THEOREM TypeCorrect == Spec => []RemediationTypeOK
<1>1. QED BY TypeInit, TypeStep, PTL DEF Spec

------------------------------------------------------------------------------
(* The claim on the occurrence.  Only its first holder gets past it, so    *)
(* whoever is on the way to an execution knows that there was none before  *)
(* and that nothing was published, and every verdict about to be published *)
(* says what was done.                                                     *)
Fresh == {"progress", "select", "gates", "rehearse", "quiet", "request", "await",
          "expire", "execute"}
Running == {"executing", "verify", "rollback"}
Claimed == Fresh \cup Running \cup {"audit", "publish"}

OccurrenceInv(o) ==
  /\ execs[o] \in {0, 1}
  /\ execClaim[o] = "none" => execs[o] = 0 /\ outcomes[o] = <<>>
  /\ \A k \in 2 .. Len(outcomes[o]) : outcomes[o][k] = Interrupted

ThreadInv ==
  /\ pc \in Claimed => execClaim[Occ] # "none"
  /\ pc \in Fresh => execs[Occ] = 0
  /\ pc \in Running => execs[Occ] = 1
  /\ pc \in Fresh \cup Running \cup {"audit"} => outcomes[Occ] = <<>>
  /\ pc \in {"audit", "publish"} /\ verdict \in Refusals => execs[Occ] = 0
  /\ pc \in {"audit", "publish"} /\ verdict \in Admitting => execs[Occ] = 1
  /\ pc = "expire" => verdict \in Refusals
  /\ pc = "publish" => outcomes[Occ] = <<>> \/ verdict = Interrupted

ClaimInv == ThreadInv /\ \A o \in Occurrences : OccurrenceInv(o)

LEMMA ClaimInit == Init => ClaimInv
<1> SUFFICES ASSUME Init PROVE ClaimInv
    OBVIOUS
<1>1. ThreadInv
  BY DEF Init, ThreadInv, Claimed, Fresh, Running
<1>2. ASSUME NEW o \in Occurrences PROVE OccurrenceInv(o)
  BY DEF Init, OccurrenceInv
<1>3. QED BY <1>1, <1>2 DEF ClaimInv

LEMMA ClaimStep ==
  ASSUME GuardMode = "redis", RemediationTypeOK, ClaimInv, [Next]_vars
  PROVE  ClaimInv'
<1> USE DEF Guarded
<1>1. CASE UNCHANGED vars
  BY <1>1
  DEF vars, thread, guard, world, ClaimInv, ThreadInv, OccurrenceInv, Occ
<1>2. CASE TakeEvent
  <2>1. pc' = "event" /\ UNCHANGED <<guard, world>>
    BY <1>2 DEF TakeEvent
  <2>2. QED
    BY <2>1
    DEF guard, world, ClaimInv, ThreadInv, OccurrenceInv, Claimed, Fresh, Running
<1>3. CASE ClaimEvent \/ MarkEventDone
  <2>1. pc' \in {"exec", "ack"} /\ UNCHANGED <<execClaim, world>>
    BY <1>3 DEF ClaimEvent, MarkEventDone, Goto
  <2>2. QED
    BY <2>1 DEF world, ClaimInv, ThreadInv, OccurrenceInv, Claimed, Fresh, Running
<1>4. CASE ClaimExec
  <2>1. Occ \in Occurrences /\ Occ' = Occ
    BY <1>4, OccType DEF ClaimExec, Goto, Conclude, Occ
  <2>2. execClaim' = [execClaim EXCEPT ![Occ] = IF @ = "none" THEN "claimed" ELSE @]
        /\ UNCHANGED <<cluster, execs, outcomes>>
    BY <1>4 DEF ClaimExec, world
  <2>3. execClaim'[Occ] # "none" /\ \A o \in Occurrences :
                                       execClaim'[o] = "none" => execClaim[o] = "none"
    BY <2>1, <2>2 DEF RemediationTypeOK
  <2>4. \A o \in Occurrences : OccurrenceInv(o)'
    BY <2>2, <2>3 DEF ClaimInv, OccurrenceInv
  <2>5. ThreadInv'
    <3>1. CASE execClaim[Occ] = "none"
      <4>1. pc' = "progress" /\ execs[Occ] = 0 /\ outcomes[Occ] = <<>>
        BY <1>4, <2>1, <3>1 DEF ClaimExec, Goto, ClaimInv, OccurrenceInv
      <4>2. QED
        BY <2>1, <2>2, <2>3, <4>1 DEF ThreadInv, Claimed, Fresh, Running
    <3>2. CASE execClaim[Occ] = "done"
      <4>1. pc' = "eventDone"
        BY <1>4, <3>2 DEF ClaimExec, Goto
      <4>2. QED BY <4>1 DEF ThreadInv, Claimed, Fresh, Running
    <3>3. CASE execClaim[Occ] \notin {"none", "done"}
      <4>1. pc' = "publish" /\ verdict' = Interrupted
        BY <1>4, <3>3 DEF ClaimExec, Conclude
      <4>2. QED
        BY <2>1, <2>3, <4>1
        DEF ThreadInv, Claimed, Fresh, Running, Interrupted, Refusals, Admitting
    <3>4. QED BY <3>1, <3>2, <3>3
  <2>6. QED BY <2>4, <2>5 DEF ClaimInv
<1>5. CASE MarkInProgress \/ MarkExecDone
  <2>1. Occ \in Occurrences /\ Occ' = Occ /\ UNCHANGED world
    BY <1>5, OccType DEF MarkInProgress, MarkExecDone, Goto, Occ
  <2>2. execClaim'[Occ] # "none" /\ \A o \in Occurrences :
                                       execClaim'[o] = "none" => execClaim[o] = "none"
    BY <1>5, <2>1 DEF MarkInProgress, MarkExecDone, RemediationTypeOK
  <2>3. \/ pc = "progress" /\ pc' = "select"
        \/ pc' = "eventDone"
    BY <1>5 DEF MarkInProgress, MarkExecDone, Goto
  <2>4. QED
    BY <2>1, <2>2, <2>3
    DEF world, ClaimInv, ThreadInv, OccurrenceInv, Claimed, Fresh, Running
<1>6. CASE Publish
  <2>1. Occ \in Occurrences /\ outcomes[Occ] \in Seq(Verdicts) /\ verdict \in Verdicts
    BY <1>6, OccType DEF Publish, RemediationTypeOK
  <2>2. /\ pc' = "execDone" /\ UNCHANGED <<execClaim, execs>>
        /\ outcomes' = [outcomes EXCEPT ![Occ] = Append(@, verdict)]
    BY <1>6 DEF Publish, Goto, guard
  <2>3. ThreadInv'
    BY <2>2 DEF ThreadInv, Claimed, Fresh, Running
  <2>4. ASSUME NEW o \in Occurrences PROVE OccurrenceInv(o)'
    <3>1. CASE o = Occ
      <4>1. outcomes'[o] = Append(outcomes[o], verdict) /\ execClaim[o] # "none"
        BY <1>6, <2>1, <2>2, <3>1
        DEF Publish, RemediationTypeOK, ClaimInv, ThreadInv, Claimed
      <4>2. outcomes[o] = <<>> \/ verdict = Interrupted
        BY <1>6, <3>1 DEF Publish, ClaimInv, ThreadInv
      <4>3. \A k \in 2 .. Len(outcomes'[o]) : outcomes'[o][k] = Interrupted
        <5>1. CASE outcomes[o] = <<>>
          BY <4>1, <5>1
        <5>2. CASE verdict = Interrupted
          BY <2>1, <3>1, <4>1, <5>2 DEF ClaimInv, OccurrenceInv
        <5>3. QED BY <4>2, <5>1, <5>2
      <4>4. QED BY <2>2, <4>1, <4>3 DEF ClaimInv, OccurrenceInv
    <3>2. CASE o # Occ
      <4>1. outcomes'[o] = outcomes[o]
        BY <2>2, <3>2 DEF RemediationTypeOK
      <4>2. QED BY <2>2, <4>1 DEF ClaimInv, OccurrenceInv
    <3>3. QED BY <3>1, <3>2
  <2>5. QED BY <2>3, <2>4 DEF ClaimInv
<1>7. CASE Acknowledge \/ AuditRaises \/ ThreadDies \/ LoseCreateReply \/ ProcessDies
  <2>1. pc' = "idle" /\ UNCHANGED <<execClaim, world>>
    BY <1>7
    DEF Acknowledge, AuditRaises, ThreadDies, LoseCreateReply, ProcessDies, LetGo, guard
  <2>2. QED
    BY <2>1 DEF world, ClaimInv, ThreadInv, OccurrenceInv, Claimed, Fresh, Running
<1>8. ASSUME UNCHANGED <<cur, execClaim, execs, outcomes>>, pc \in Claimed,
             \/ pc \in Fresh /\ pc' \in Fresh \ {"expire"}
             \/ pc \in Fresh /\ pc' \in {"expire", "audit", "publish"}
                /\ verdict' \in Refusals
             \/ pc \in Running /\ pc' \in Running
             \/ pc \in Running /\ pc' = "audit" /\ verdict' \in Admitting
             \/ pc = "audit" /\ pc' = "publish" /\ verdict' = verdict
      PROVE  ClaimInv'
  <2>1. Occ' = Occ
    BY <1>8 DEF Occ
  <2>2. \A o \in Occurrences : OccurrenceInv(o)'
    BY <1>8 DEF ClaimInv, OccurrenceInv
  <2>3. \A v \in Refusals : v \notin Admitting
    BY DEF Refusals, Admitting
  <2>4. ThreadInv'
    BY <1>8, <2>1, <2>3 DEF ClaimInv, ThreadInv, Claimed, Fresh, Running
  <2>5. QED BY <2>2, <2>4 DEF ClaimInv
<1>9. CASE \/ Escalate \/ \E p \in Playbooks, waived \in BOOLEAN : Select(p, waived)
           \/ \E passed \in BOOLEAN : Rehearse(passed)
           \/ AuditQuiet \/ RequestApproval \/ HearDecision \/ StopWaiting
  BY <1>8, <1>9
  DEF Escalate, Select, Rehearse, AuditQuiet, RequestApproval, HearDecision,
      StopWaiting, Goto, Conclude, guard, world, Claimed, Fresh, Refusals
<1>10. CASE PassGates
  <2>1. \A k \in DOMAIN Objections : Objections[k][2] \in Refusals
    BY DEF Objections, Refusals
  <2>2. QED
    BY <1>8, <1>10, <2>1 DEF PassGates, Goto, Conclude, guard, world, Claimed, Fresh
<1>11. CASE Audit
  BY <1>8, <1>11 DEF Audit, Goto, guard, world, Claimed
<1>12. CASE ExpireRequest
  <2>1. verdict \in Refusals
    BY <1>12 DEF ExpireRequest, ClaimInv, ThreadInv
  <2>2. QED
    BY <1>8, <1>12, <2>1 DEF ExpireRequest, Goto, guard, world, Claimed, Fresh
<1>13. CASE \E ok \in BOOLEAN : EndExecute(ok) \/ Verify(ok) \/ RollBack(ok)
  BY <1>8, <1>13
  DEF EndExecute, Verify, RollBack, Goto, Conclude, guard, world, Claimed, Running,
      Admitting
<1>14. CASE BeginExecute
  <2>1. Occ \in Occurrences /\ Occ' = Occ
    BY <1>14, OccType DEF BeginExecute, Goto, Occ
  <2>2. /\ pc = "execute" /\ pc' = "executing"
        /\ execs' = [execs EXCEPT ![Occ] = @ + 1]
        /\ UNCHANGED <<execClaim, outcomes>>
    BY <1>14 DEF BeginExecute, Goto, guard
  <2>3. execs[Occ] = 0 /\ execClaim[Occ] # "none" /\ outcomes[Occ] = <<>>
    BY <2>2 DEF ClaimInv, ThreadInv, Claimed, Fresh
  <2>4. execs'[Occ] = 1 /\ \A o \in Occurrences \ {Occ} : execs'[o] = execs[o]
    BY <2>1, <2>2, <2>3 DEF RemediationTypeOK
  <2>5. ThreadInv'
    BY <2>1, <2>2, <2>3, <2>4 DEF ThreadInv, Claimed, Fresh, Running
  <2>6. ASSUME NEW o \in Occurrences PROVE OccurrenceInv(o)'
    BY <2>2, <2>3, <2>4 DEF ClaimInv, OccurrenceInv
  <2>7. QED BY <2>5, <2>6 DEF ClaimInv
<1>15. CASE Govern
  BY <1>15
  DEF Govern, thread, guard, world, ClaimInv, ThreadInv, OccurrenceInv, Occ
<1>16. QED
  BY <1>1, <1>2, <1>3, <1>4, <1>5, <1>6, <1>7, <1>9, <1>10, <1>11, <1>12, <1>13,
     <1>14, <1>15
  DEF Next, Consume, Faulty

(* With the redis guard no occurrence is executed twice, whatever is       *)
(* redelivered, re-emitted, interrupted or retried.                        *)
THEOREM AtMostOneExecutionHolds ==
  ASSUME GuardMode = "redis" PROVE Spec => []AtMostOneExecution
<1>1. ClaimInv => AtMostOneExecution
  BY DEF ClaimInv, OccurrenceInv, AtMostOneExecution
<1>2. QED BY TypeInit, TypeStep, ClaimInit, ClaimStep, <1>1, PTL DEF Spec

(* ... and of each occurrence at most one verdict is published, followed   *)
(* by nothing but notices of an interruption.                              *)
THEOREM OneVerdictHolds ==
  ASSUME GuardMode = "redis" PROVE Spec => []OneVerdict
<1>1. ClaimInv => OneVerdict
  BY DEF ClaimInv, OccurrenceInv, OneVerdict
<1>2. QED BY TypeInit, TypeStep, ClaimInit, ClaimStep, <1>1, PTL DEF Spec

------------------------------------------------------------------------------
(* What the thread has done to the target's cluster, up to the verdict it  *)
(* is about to publish.  That a verdict already published still holds      *)
(* rests on the claim: who is on the way to touch the target again         *)
(* published nothing before.                                               *)
DoneInv ==
  /\ pc = "executing" => cluster[Occ] = "begun"
  /\ pc \in {"verify", "rollback"} => cluster[Occ] = "changed"
  /\ pc \in {"audit", "publish"} =>
       /\ verdict = "unhealthy:rolled-back" => cluster[Occ] = "restored"
       /\ verdict = "healthy" => cluster[Occ] = "changed"

VerdictInv == DoneInv /\ VerdictMatchesCluster

(* A touch of the target by a thread that published nothing of it yet.     *)
LEMMA TouchKeepsVerdicts ==
  ASSUME RemediationTypeOK, VerdictMatchesCluster, NEW o \in Occurrences,
         outcomes[o] = <<>>, outcomes' = outcomes,
         \A d \in Occurrences \ {o} : cluster'[d] = cluster[d]
  PROVE  VerdictMatchesCluster'
<1> SUFFICES ASSUME NEW d \in Occurrences, NEW k \in DOMAIN outcomes[d]
             PROVE  /\ outcomes[d][k] = "unhealthy:rolled-back" => cluster'[d] = "restored"
                    /\ outcomes[d][k] = "healthy" => cluster'[d] = "changed"
  BY DEF VerdictMatchesCluster
<1>1. d # o
  BY DEF RemediationTypeOK
<1>2. QED
  BY <1>1 DEF VerdictMatchesCluster

LEMMA VerdictStep ==
  ASSUME GuardMode = "redis", RemediationTypeOK, ClaimInv, VerdictInv, [Next]_vars
  PROVE  VerdictInv'
<1>0. /\ cluster \in [Occurrences -> {"untouched", "begun", "changed", "restored"}]
      /\ outcomes \in [Occurrences -> Seq(Verdicts)]
  BY DEF RemediationTypeOK
<1>1. CASE Publish
  <2>1. Occ \in Occurrences /\ verdict \in Verdicts
    BY <1>1, OccType DEF Publish, RemediationTypeOK
  <2>2. /\ pc = "publish" /\ pc' \notin {"executing", "verify", "rollback", "audit", "publish"}
        /\ outcomes' = [outcomes EXCEPT ![Occ] = Append(@, verdict)] /\ cluster' = cluster
    BY <1>1 DEF Publish, Goto
  <2>3. ASSUME NEW o \in Occurrences, NEW k \in DOMAIN outcomes'[o]
        PROVE  /\ outcomes'[o][k] = "unhealthy:rolled-back" => cluster[o] = "restored"
               /\ outcomes'[o][k] = "healthy" => cluster[o] = "changed"
    <3>1. CASE o = Occ
      <4>1. outcomes[o] \in Seq(Verdicts) /\ outcomes'[o] = Append(outcomes[o], verdict)
        BY <1>0, <2>2, <3>1
      <4>2. \/ outcomes'[o][k] = verdict
            \/ k \in DOMAIN outcomes[o] /\ outcomes'[o][k] = outcomes[o][k]
        BY <2>1, <4>1
      <4>3. QED
        BY <2>2, <3>1, <4>2 DEF VerdictInv, DoneInv, VerdictMatchesCluster
    <3>2. CASE o # Occ
      <4>1. outcomes'[o] = outcomes[o]
        BY <1>0, <2>2, <3>2
      <4>2. QED
        BY <4>1 DEF VerdictInv, VerdictMatchesCluster
    <3>3. QED
      BY <3>1, <3>2
  <2>4. VerdictMatchesCluster'
    BY <2>2, <2>3 DEF VerdictMatchesCluster
  <2>5. QED
    BY <2>2, <2>4 DEF VerdictInv, DoneInv
<1>2. ASSUME NEW v, cluster' = [cluster EXCEPT ![Occ] = v], Occ \in Occurrences, Occ' = Occ,
             pc \in Running \cup {"execute"}, outcomes' = outcomes,
             \/ pc' = "executing" /\ v = "begun"
             \/ pc' = "verify" /\ v = "changed"
             \/ pc' = "audit" /\ verdict' = "execute-failed"
             \/ pc' = "audit" /\ verdict' = "unhealthy:rollback-failed"
             \/ pc' = "audit" /\ verdict' = "unhealthy:rolled-back" /\ v = "restored"
      PROVE  VerdictInv'
  <2>1. outcomes[Occ] = <<>>
    BY <1>2 DEF ClaimInv, ThreadInv, Fresh, Running
  <2>2. cluster'[Occ] = v /\ \A d \in Occurrences \ {Occ} : cluster'[d] = cluster[d]
    BY <1>0, <1>2
  <2>3. VerdictMatchesCluster'
    BY <1>2, <2>1, <2>2, TouchKeepsVerdicts DEF VerdictInv
  <2>4. DoneInv'
    BY <1>2, <2>2 DEF DoneInv
  <2>5. QED
    BY <2>3, <2>4 DEF VerdictInv
<1>3. CASE BeginExecute \/ \E ok \in BOOLEAN : EndExecute(ok) \/ RollBack(ok)
  <2>1. Occ \in Occurrences /\ Occ' = Occ /\ outcomes' = outcomes
    BY <1>3, OccType DEF BeginExecute, EndExecute, RollBack, Goto, Conclude, Occ
  <2>2. CASE BeginExecute
    BY <1>2, <2>1, <2>2 DEF BeginExecute, Goto
  <2>3. ASSUME NEW ok \in BOOLEAN, EndExecute(ok) PROVE VerdictInv'
    <3>1. CASE ok
      BY <1>2, <2>1, <2>3, <3>1 DEF EndExecute, Goto, Running
    <3>2. CASE ~ok
      BY <1>2, <2>1, <2>3, <3>2 DEF EndExecute, Conclude, Running
    <3>3. QED
      BY <3>1, <3>2
  <2>4. ASSUME NEW ok \in BOOLEAN, RollBack(ok) PROVE VerdictInv'
    <3>1. CASE ok
      BY <1>2, <2>1, <2>4, <3>1 DEF RollBack, Conclude, Running
    <3>2. CASE ~ok
      BY <1>2, <2>1, <2>4, <3>2 DEF RollBack, Conclude, Running
    <3>3. QED
      BY <3>1, <3>2
  <2>5. QED
    BY <1>3, <2>2, <2>3, <2>4
(* Every other step leaves targets and outcomes alone.                     *)
<1>4. ASSUME UNCHANGED <<cluster, outcomes>>,
             \/ pc' \notin {"executing", "verify", "rollback", "audit", "publish"}
             \/ pc' \in {"audit", "publish"} /\ verdict' \in Refusals \cup {Interrupted}
             \/ cur' = cur /\ pc' = pc /\ verdict' = verdict
             \/ cur' = cur /\ pc = "audit" /\ pc' = "publish" /\ verdict' = verdict
             \/ cur' = cur /\ pc = "verify" /\ pc' = "rollback"
             \/ cur' = cur /\ pc = "verify" /\ pc' = "audit" /\ verdict' = "healthy"
             \/ pc' = "audit" /\ verdict' = "unhealthy:no-rollback"
      PROVE  VerdictInv'
  <2>1. VerdictMatchesCluster'
    BY <1>4 DEF VerdictInv, VerdictMatchesCluster
  <2>2. \A v \in Refusals \cup {Interrupted} : v \notin {"healthy", "unhealthy:rolled-back"}
    BY DEF Refusals, Interrupted
  <2>3. DoneInv'
    BY <1>4, <2>2 DEF VerdictInv, DoneInv, Occ
  <2>4. QED
    BY <2>1, <2>3 DEF VerdictInv
<1>5. CASE \/ TakeEvent \/ ClaimEvent \/ ClaimExec \/ MarkInProgress \/ MarkExecDone
           \/ MarkEventDone \/ Acknowledge \/ Faulty
  BY <1>4, <1>5
  DEF TakeEvent, ClaimEvent, ClaimExec, MarkInProgress, MarkExecDone, MarkEventDone,
      Acknowledge, Faulty, AuditRaises, ThreadDies, LoseCreateReply, ProcessDies, LetGo,
      Goto, Conclude, world, Guarded
<1>6. CASE PassGates
  <2>1. \A k \in DOMAIN Objections : Objections[k][2] \in Refusals
    BY DEF Objections, Refusals
  <2>2. QED
    BY <1>4, <1>6, <2>1 DEF PassGates, Goto, Conclude, world
<1>7. CASE \/ Escalate \/ \E p \in Playbooks, waived \in BOOLEAN : Select(p, waived)
           \/ \E passed \in BOOLEAN : Rehearse(passed)
           \/ AuditQuiet \/ RequestApproval \/ HearDecision \/ StopWaiting
  BY <1>4, <1>7
  DEF Escalate, Select, Rehearse, AuditQuiet, RequestApproval, HearDecision,
      StopWaiting, Goto, Conclude, world, Refusals
<1>8. CASE ExpireRequest
  <2>1. pc' = "audit" /\ verdict' \in Refusals /\ UNCHANGED <<cluster, outcomes>>
    BY <1>8 DEF ExpireRequest, Goto, world, ClaimInv, ThreadInv
  <2>2. QED
    BY <1>4, <2>1
<1>9. CASE Audit \/ \E healthy \in BOOLEAN : Verify(healthy)
  BY <1>4, <1>9 DEF Audit, Verify, Goto, Conclude, world
<1>10. CASE Govern \/ UNCHANGED vars
  BY <1>4, <1>10 DEF Govern, vars, thread, world
<1>11. QED
  BY <1>1, <1>3, <1>5, <1>6, <1>7, <1>8, <1>9, <1>10 DEF Next, Consume

(* With the redis guard a verdict stays true after it was published: an    *)
(* occurrence reported rolled back is restored, and one reported healthy   *)
(* still has its change in place (remediate.py:299-302).                   *)
THEOREM VerdictMatchesClusterHolds ==
  ASSUME GuardMode = "redis" PROVE Spec => []VerdictMatchesCluster
<1>1. Init => VerdictInv
  BY DEF Init, VerdictInv, DoneInv, VerdictMatchesCluster
<1>2. VerdictInv => VerdictMatchesCluster
  BY DEF VerdictInv
<1>3. QED
  BY TypeInit, TypeStep, ClaimInit, ClaimStep, <1>1, VerdictStep, <1>2, PTL DEF Spec

------------------------------------------------------------------------------
(* The refinement of RemediationPromise, without its liveness: an          *)
(* execution is the promise's Run, the first outcome its Tell, and every   *)
(* other step, of the consumer, of governance or of a fault, a stutter.    *)
LEMMA PromiseInit == Init => Promise!Init
<1> SUFFICES ASSUME Init PROVE Promise!Init
    OBVIOUS
<1>1. \A o \in Occurrences : outcomes[o] = <<>>
  BY DEF Init
<1>2. Report = [o \in Occurrences |-> "none"]
  BY <1>1 DEF Report
<1>3. execs = [o \in Occurrences |-> 0]
  BY DEF Init
<1>4. QED BY <1>2, <1>3 DEF Promise!Init

(* What the first outcome of an occurrence is read as.                     *)
LEMMA FirstOutcome ==
  ASSUME RemediationTypeOK, NEW o \in Occurrences, NEW v \in Verdicts,
         outcomes' = [outcomes EXCEPT ![o] = Append(@, v)]
  PROVE  Report' = IF outcomes[o] # <<>> THEN Report
                   ELSE [Report EXCEPT ![o] = IF v \in Admitting THEN "touched"
                           ELSE IF v \in Refusals THEN "untouched" ELSE "unknown"]
<1>1. \A d \in Occurrences \ {o} : outcomes'[d] = outcomes[d]
  BY DEF RemediationTypeOK
<1>2. outcomes[o] \in Seq(Verdicts) /\ outcomes'[o] = Append(outcomes[o], v)
  BY DEF RemediationTypeOK
<1>3. outcomes'[o] # <<>>
  BY <1>2
<1>4. CASE outcomes[o] = <<>>
  <2>1. outcomes'[o][1] = v
    BY <1>2, <1>4
  <2>2. QED BY <1>1, <1>3, <1>4, <2>1, ZenonT(40) DEF Report
<1>5. CASE outcomes[o] # <<>>
  <2>1. outcomes'[o][1] = outcomes[o][1]
    BY <1>2, <1>5
  <2>2. QED BY <1>1, <1>3, <1>5, <2>1, ZenonT(40) DEF Report
<1>6. QED BY <1>4, <1>5

LEMMA PromiseStep ==
  ASSUME GuardMode = "redis", RemediationTypeOK, ClaimInv, [Next]_vars
  PROVE  [Promise!Next]_<<execs, Report>>
<1>1. CASE Publish
  <2>1. Occ \in Occurrences /\ verdict \in Verdicts
    BY <1>1, OccType DEF Publish, RemediationTypeOK
  <2>2. /\ outcomes' = [outcomes EXCEPT ![Occ] = Append(@, verdict)]
        /\ execs' = execs
    BY <1>1 DEF Publish
  <2>3. CASE outcomes[Occ] = <<>>
    <3>1. PICK r \in {"touched", "untouched", "unknown"} :
            /\ Report' = [Report EXCEPT ![Occ] = r]
            /\ r = "touched" => verdict \in Admitting
            /\ r = "untouched" => verdict \in Refusals
      BY <2>1, <2>2, <2>3, FirstOutcome
    <3>2. Report[Occ] = "none"
      BY <2>1, <2>3 DEF Report
    <3>3. /\ r = "touched" => execs[Occ] = 1
          /\ r = "untouched" => execs[Occ] = 0
      BY <1>1, <3>1 DEF Publish, ClaimInv, ThreadInv
    <3>4. Promise!Tell(Occ)
      BY <2>2, <3>1, <3>2, <3>3 DEF Promise!Tell, Promise!Reports
    <3>5. QED BY <2>1, <3>4 DEF Promise!Next
  <2>4. CASE outcomes[Occ] # <<>>
    BY <2>1, <2>2, <2>4, FirstOutcome
  <2>5. QED BY <2>3, <2>4
<1>2. CASE BeginExecute
  <2>1. Occ \in Occurrences /\ execs[Occ] = 0 /\ outcomes[Occ] = <<>>
    BY <1>2, OccType DEF BeginExecute, ClaimInv, ThreadInv, Fresh
  <2>2. execs' = [execs EXCEPT ![Occ] = 1] /\ UNCHANGED outcomes
    BY <1>2, <2>1 DEF BeginExecute, RemediationTypeOK
  <2>3. Report[Occ] = "none" /\ Report' = Report
    BY <2>1, <2>2 DEF Report
  <2>4. Promise!Run(Occ)
    BY <2>1, <2>2, <2>3 DEF Promise!Run
  <2>5. QED BY <2>1, <2>4 DEF Promise!Next
<1>3. CASE ~Publish /\ ~BeginExecute
  <2>1. UNCHANGED <<execs, outcomes>>
    BY <1>3
    DEF Next, vars, Consume, Faulty, TakeEvent, ClaimEvent, ClaimExec,
        MarkInProgress, Escalate, Select, PassGates, Rehearse, AuditQuiet,
        RequestApproval, HearDecision, StopWaiting, ExpireRequest, EndExecute,
        Verify, RollBack, Audit, MarkExecDone, MarkEventDone, Acknowledge, Govern,
        AuditRaises, ThreadDies, LoseCreateReply, ProcessDies, world
  <2>2. QED BY <2>1 DEF Report
<1>4. QED BY <1>1, <1>2, <1>3

(* Every behaviour of the service with the redis guard is one the promise  *)
(* allows: one execution at most, none after the report, a true report.    *)
THEOREM KeepsPromiseSafely ==
  ASSUME GuardMode = "redis"
  PROVE  Spec => Promise!Init /\ [][Promise!Next]_<<execs, Report>>
<1>1. QED
  BY TypeInit, TypeStep, ClaimInit, ClaimStep, PromiseInit, PromiseStep, PTL DEF Spec

------------------------------------------------------------------------------
(* Approval.  A row says approved only if a human's approval was written   *)
(* since the request was last created, and a thread about to execute what  *)
(* needs approval has seen such a row.                                     *)
ConsentInv ==
  /\ \A i \in Ids : approval[i].status = "approved" => consents[i] # {}
  /\ pc = "quiet" => skip
  /\ pc = "execute" => plan.mode = "auto" \/ skip \/ consents[Id] # {}

LEMMA ConsentInit == Init => ConsentInv
BY DEF Init, ApprovalsInit, Absent, ConsentInv

LEMMA ConsentStep ==
  ASSUME RemediationTypeOK, ConsentInv, [Next]_vars PROVE ConsentInv'
<1>1. CASE UNCHANGED vars
  BY <1>1 DEF vars, thread, governance, ConsentInv, Id, Occ
<1>2. CASE RequestApproval \/ LoseCreateReply
  <2>1. Id \in Ids /\ pc' \notin {"quiet", "execute"}
    BY <1>2, OccType DEF RequestApproval, LoseCreateReply, Goto, LetGo
  <2>2. /\ approval' = [approval EXCEPT ![Id] = [occ |-> Occ, status |-> "pending"]]
        /\ consents' = [consents EXCEPT ![Id] = {}]
    BY <1>2 DEF RequestApproval, LoseCreateReply, Create, Id
  <2>3. \A i \in Ids : approval'[i].status = "approved" => consents'[i] # {}
    BY <2>1, <2>2 DEF ConsentInv, RemediationTypeOK, ApprovalsTypeOK
  <2>4. QED BY <2>1, <2>3 DEF ConsentInv
<1>3. CASE Govern
  <2>1. UNCHANGED thread /\ Id' = Id
    BY <1>3 DEF Govern, thread, Id, Occ
  <2>2. \A i \in Ids : /\ approval'[i].status = "approved" => consents'[i] # {}
                       /\ consents[i] \subseteq consents'[i]
    <3>1. ASSUME NEW t \in Threads, AnswerRequest(t)
          PROVE  \A i \in Ids : /\ approval'[i].status = "approved" => consents'[i] # {}
                                /\ consents[i] \subseteq consents'[i]
      <4>1. handler[t] \in Copied
        BY <3>1, WriteType DEF AnswerRequest, RemediationTypeOK
      <4>2. /\ approval' = [approval EXCEPT ![handler[t].id] =
                              [handler[t].copy EXCEPT !.status = handler[t].want]]
            /\ consents' = IF handler[t].want = "approved"
                           THEN [consents EXCEPT ![handler[t].id] = @ \cup {handler[t].seen}]
                           ELSE consents
        BY <3>1 DEF AnswerRequest, WriteRow
      <4>3. [handler[t].copy EXCEPT !.status = handler[t].want].status = handler[t].want
        BY <4>1 DEF Copied, Rows
      <4>4. QED
        BY <4>1, <4>2, <4>3, ZenonT(40)
        DEF ConsentInv, RemediationTypeOK, ApprovalsTypeOK, Copied
    <3>2. CASE ~\E t \in Threads : AnswerRequest(t)
      <4>1. UNCHANGED consents /\ (UNCHANGED approval \/ ResetApprovals)
        BY <1>3, <3>2 DEF Govern, CopyRow, BeginDecide, Check
      <4>2. QED
        BY <4>1 DEF ResetApprovals, Absent, ConsentInv
    <3>3. QED BY <3>1, <3>2
  <2>3. pc = "execute" => Id \in Ids
    BY OccType
  <2>4. QED BY <2>1, <2>2, <2>3 DEF ConsentInv, thread
<1>4. CASE ExpireRequest
  <2>1. pc' = "audit" /\ UNCHANGED <<approval, consents>>
    BY <1>4 DEF ExpireRequest, BeginExpire, Check, Goto
  <2>2. QED BY <2>1 DEF ConsentInv
<1>5. CASE HearDecision
  <2>1. /\ UNCHANGED <<approval, consents>> /\ Id' = Id /\ Id \in Ids
        /\ pc' \in {"audit", "execute"}
        /\ pc' = "execute" => approval[Id].status = "approved"
    BY <1>5, OccType DEF HearDecision, Goto, Conclude, governance, Id, Occ
  <2>2. QED BY <2>1 DEF ConsentInv
<1>6. CASE (\E passed \in BOOLEAN : Rehearse(passed)) \/ AuditQuiet
  <2>1. /\ UNCHANGED <<approval, consents, plan, skip>>
        /\ pc' = "quiet" => skip
        /\ pc' = "execute" => plan.mode = "auto" \/ skip
    BY <1>6 DEF Rehearse, AuditQuiet, Goto, Conclude, governance, ConsentInv
  <2>2. QED BY <2>1 DEF ConsentInv
<1>7. CASE \/ TakeEvent \/ ClaimEvent \/ ClaimExec \/ MarkInProgress \/ Escalate
           \/ (\E p \in Playbooks, waived \in BOOLEAN : Select(p, waived))
           \/ PassGates \/ StopWaiting \/ BeginExecute
           \/ (\E ok \in BOOLEAN : EndExecute(ok) \/ Verify(ok) \/ RollBack(ok))
           \/ Audit \/ Publish \/ MarkExecDone \/ MarkEventDone \/ Acknowledge
           \/ AuditRaises \/ ThreadDies \/ ProcessDies
  <2>1. pc' \notin {"quiet", "execute"} /\ UNCHANGED <<approval, consents>>
    BY <1>7
    DEF TakeEvent, ClaimEvent, ClaimExec, MarkInProgress, Escalate, Select,
        PassGates, Objections, StopWaiting, BeginExecute, EndExecute, Verify,
        RollBack, Audit, Publish, MarkExecDone, MarkEventDone, Acknowledge,
        AuditRaises, ThreadDies, ProcessDies, Goto, Conclude, LetGo, governance
  <2>2. QED BY <2>1 DEF ConsentInv
<1>8. QED
  BY <1>1, <1>2, <1>3, <1>4, <1>5, <1>6, <1>7 DEF Next, Consume, Faulty

(* Under every delivery mode, guard and fault, a HITL playbook that was    *)
(* not waived is executed only after an approval was written since its     *)
(* request was created.                                                    *)
THEOREM ExecutesOnlyApprovedHolds == Spec => ExecutesOnlyApproved
<1>1. ASSUME ConsentInv
      PROVE  BeginExecute /\ NeedsApproval => consents[Id] # {}
  BY <1>1 DEF BeginExecute, NeedsApproval, ConsentInv
<1>2. QED
  BY TypeInit, TypeStep, ConsentInit, ConsentStep, <1>1, PTL
  DEF Spec, ExecutesOnlyApproved
=============================================================================
