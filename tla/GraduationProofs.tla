---------------------------- MODULE GraduationProofs ----------------------------
(***************************************************************************)
(* Theorems about Graduation: the type invariant, that automation is       *)
(* earned, and that feedback graduates only what has a clean record.       *)
(***************************************************************************)
EXTENDS Graduation, FiniteSetTheorems, TLAPS

USE RegistryAssumption, GraduationAssumption

------------------------------------------------------------------------------
(* Types.  First the handlers of the registry.                             *)

LEMMA RowTypes ==
  /\ Absent \notin Rows
  /\ \A m \in Modes, a \in Actors \cup {Seeder} : [mode |-> m, by |-> a] \in Rows
  /\ Idle \notin Requests
  /\ \A op \in {"graduate", "demote", "approve", "reject", "enter"}, b \in Books, a \in Actors :
       [op |-> op, book |-> b, actor |-> a] \in Requests
BY DEF Absent, Rows, Idle, Requests

LEMMA BeginType ==
  ASSUME RegistryTypeOK, NEW t \in Threads, NEW b \in Books, NEW a \in Actors,
         NEW op \in {"graduate", "demote", "approve", "reject"},
         op \in {"approve", "reject"} => b \in Drafts,
         Begin(t, op, b, a)
  PROVE  RegistryTypeOK'
<1>1. [op |-> op, book |-> b, actor |-> a] \in Requests
  BY RowTypes
<1>2. QED
  BY <1>1 DEF RegistryTypeOK, Begin

LEMMA HandleType ==
  ASSUME RegistryTypeOK, NEW t \in Threads, Handle(t) PROVE RegistryTypeOK'
<1>1. serving[t] \in Requests
  BY DEF RegistryTypeOK, Handle, WriteMode, SetStatus, EnterRegistry, Idle
<1>2. CASE WriteMode(t)
  BY <1>1, <1>2, RowTypes DEF RegistryTypeOK, WriteMode, Requests, Modes, Idle
<1>3. CASE SetStatus(t)
  <2>1. serving[t].book \in Drafts
    BY <1>3 DEF RegistryTypeOK, SetStatus
  <2>2. [serving[t] EXCEPT !.op = "enter"] \in Requests
    BY <1>1 DEF Requests
  <2>3. proposal' \in [Drafts -> [status : Statuses, mode : Modes]]
    BY <1>3, <2>1 DEF RegistryTypeOK, SetStatus, Statuses
  <2>4. serving'[t] \in {[serving[t] EXCEPT !.op = "enter"], Idle}
        /\ serving' = [serving EXCEPT ![t] = serving'[t]]
    BY <1>3 DEF RegistryTypeOK, SetStatus
  <2>5. QED
    BY <1>1, <1>3, <2>1, <2>2, <2>3, <2>4 DEF RegistryTypeOK, SetStatus, Idle, Requests
<1>4. CASE EnterRegistry(t)
  BY <1>1, <1>4, RowTypes DEF RegistryTypeOK, EnterRegistry, Requests, Idle, Books
<1>5. QED BY <1>2, <1>3, <1>4 DEF Handle

LEMMA ReseedType == ASSUME RegistryTypeOK, Reseed PROVE RegistryTypeOK'
BY RowTypes DEF RegistryTypeOK, Reseed, Idle, Modes

LEMMA ActType == ASSUME RegistryTypeOK, Act PROVE RegistryTypeOK'
<1>1. CASE \E p \in People, b \in Books, mode \in Modes : Register(p, b, mode)
  BY <1>1, RowTypes DEF RegistryTypeOK, Register, People
<1>2. ASSUME NEW t \in Threads, NEW p \in People, NEW b \in Books,
             BeginGraduate(t, p, b) \/ BeginDemote(t, p, b)
      PROVE  RegistryTypeOK'
  BY <1>2, BeginType DEF BeginGraduate, BeginDemote, People
<1>3. CASE \E p \in People, d \in Drafts, mode \in Modes : Propose(p, d, mode)
  BY <1>3 DEF RegistryTypeOK, Propose, Statuses, Modes
<1>4. ASSUME NEW t \in Threads, NEW p \in People, NEW d \in Drafts,
             BeginApprove(t, p, d) \/ BeginReject(t, p, d)
      PROVE  RegistryTypeOK'
  BY <1>4, BeginType DEF BeginApprove, BeginReject, People, Books
<1>5. CASE ResetProposals
  BY <1>5 DEF RegistryTypeOK, ResetProposals, Statuses
<1>6. QED
  BY <1>1, <1>2, <1>3, <1>4, <1>5 DEF Act

------------------------------------------------------------------------------
(* Types of the whole.                                                     *)

LEMMA TypeInit == Init => GraduationTypeOK
<1> SUFFICES ASSUME Init PROVE GraduationTypeOK
    OBVIOUS
<1>1. RegistryTypeOK
  BY RowTypes DEF Init, RegistryInit, RegistryTypeOK, Modes, Statuses, Idle, Books
<1>2. /\ outcomes \in Seq(Outcomes) /\ Len(outcomes) = 0
      /\ pc = "idle" /\ server = Nobody
  BY DEF Init
<1>3. QED
  BY <1>1, <1>2 DEF Init, GraduationTypeOK, Pcs, Calling

(* The frame of the consumer, with the call it waits for.                  *)
CallType ==
  /\ server \in Threads \cup {Nobody}
  /\ pc \in Calling <=> server # Nobody
  /\ pc \in Calling => /\ serving[server].op = IF pc = "graduating" THEN "graduate"
                                                                     ELSE "demote"
                       /\ serving[server].book = outcomes[cur].book
                       /\ serving[server].actor = Feedback

(* A request in hand stays what it is until its own handler takes a step.  *)
LEMMA ActKeeps == ASSUME RegistryTypeOK, Act
                  PROVE  \A u \in Threads : serving[u].op # "idle" => serving'[u] = serving[u]
BY DEF RegistryTypeOK, Act, Register, BeginGraduate, BeginDemote, BeginApprove, BeginReject,
       Begin, Propose, ResetProposals, Idle

LEMMA HandleKeeps == ASSUME RegistryTypeOK, NEW t \in Threads, Handle(t)
                     PROVE  \A u \in Threads \ {t} : serving'[u] = serving[u]
BY DEF RegistryTypeOK, Handle, WriteMode, SetStatus, EnterRegistry

(* What the steps on the outcome in hand have in common.                   *)
LEMMA InHand ==
  ASSUME GraduationTypeOK, pc # "idle"
  PROVE  /\ cur \in 1 .. Len(outcomes) /\ Len(outcomes) \in Nat
         /\ Outcome \in Outcomes /\ Outcome.book \in Books
         /\ head = IF AtLeastOnce THEN cur ELSE cur + 1
<1>1. cur \in 1 .. Len(outcomes) /\ Len(outcomes) \in Nat
  BY DEF GraduationTypeOK
<1>2. Outcome \in Outcomes
  BY <1>1 DEF GraduationTypeOK, Outcome
<1>3. QED
  BY <1>1, <1>2 DEF GraduationTypeOK, Outcomes

(* A call that is over leaves no trace in the frame but graduated.         *)
LEMMA SettleType ==
  ASSUME GraduationTypeOK, pc # "idle", Settle,
         UNCHANGED <<running, outcomes, head, done, training, acts>>,
         RegistryTypeOK', faults' \in [FaultKinds -> Nat], acts' \in Nat
  PROVE  GraduationTypeOK'
<1>1. graduated' \subseteq Books
  BY InHand DEF Settle, GraduationTypeOK
<1>2. QED
  BY <1>1 DEF Settle, GraduationTypeOK, training, Pcs, Calling

LEMMA FaultType == ASSUME GraduationTypeOK, NEW kind \in FaultKinds, Fault(kind)
                   PROVE  faults' \in [FaultKinds -> Nat] /\ acts' \in Nat /\ UNCHANGED acts
BY DEF GraduationTypeOK, Fault

LEMMA AbandonType ==
  ASSUME GraduationTypeOK, Abandon,
         UNCHANGED <<registryVars, running, outcomes, head, training, acts>>,
         done' \subseteq 1 .. Len(outcomes), faults' \in [FaultKinds -> Nat]
  PROVE  GraduationTypeOK'
BY DEF GraduationTypeOK, RegistryTypeOK, Abandon, registryVars, training, Pcs, Calling

LEMMA AddAt ==
  ASSUME NEW f \in [Books -> Nat], NEW b \in Books, NEW n \in Nat
  PROVE  [f EXCEPT ![b] = @ + n] \in [Books -> Nat]
OBVIOUS

LEMMA TypeStep == GraduationTypeOK /\ [Next]_vars => GraduationTypeOK'
<1> SUFFICES ASSUME GraduationTypeOK, [Next]_vars PROVE GraduationTypeOK'
    OBVIOUS
<1>a. RegistryTypeOK
  BY DEF GraduationTypeOK
<1>1. CASE UNCHANGED vars
  BY <1>1
  DEF vars, registryVars, thread, training, bounds, GraduationTypeOK, RegistryTypeOK
<1>2. CASE TakeOutcome
  <2>1. Len(outcomes) \in Nat /\ head \in 1 .. Len(outcomes)
    BY <1>2 DEF TakeOutcome, GraduationTypeOK
  <2>2. pc' \in {"ack", "mark", "label"}
    BY <1>2 DEF TakeOutcome
  <2>3. server = Nobody
    BY <1>2 DEF TakeOutcome, GraduationTypeOK, Calling
  <2>4. RegistryTypeOK'
    BY <1>a, <1>2 DEF TakeOutcome, RegistryTypeOK, registryVars
  <2>5. /\ cur' = head /\ head' = IF AtLeastOnce THEN head ELSE head + 1
        /\ UNCHANGED <<running, outcomes, server, graduated, done, training, bounds>>
    BY <1>2 DEF TakeOutcome
  <2>6. QED
    BY <2>1, <2>2, <2>3, <2>4, <2>5
    DEF GraduationTypeOK, training, bounds, Pcs, Calling
<1>3. CASE Label
  <2>1. pc # "idle" /\ pc' = "judge" /\ server = Nobody
    BY <1>3 DEF Label, Goto, GraduationTypeOK, Calling
  <2>2. labelled' \subseteq 1 .. Len(outcomes)
    BY <1>3, <2>1, InHand DEF Label, GraduationTypeOK
  <2>3. successes' \in [Books -> Nat] /\ failures' \in [Books -> Nat]
    <3>1. successes \in [Books -> Nat] /\ failures \in [Books -> Nat]
      BY DEF GraduationTypeOK
    <3>2. successes' \in [Books -> Nat]
      BY <1>3, <2>1, <3>1, AddAt, InHand DEF Label
    <3>3. failures' \in [Books -> Nat]
      BY <1>3, <2>1, <3>1, AddAt, InHand DEF Label
    <3>4. QED BY <3>2, <3>3
  <2>4. RegistryTypeOK'
    BY <1>a, <1>3 DEF Label, RegistryTypeOK, registryVars
  <2>5. UNCHANGED <<running, outcomes, head, cur, server, graduated, done, bounds>>
    BY <1>3 DEF Label, Goto
  <2>6. QED
    BY <2>1, <2>2, <2>3, <2>4, <2>5 DEF GraduationTypeOK, bounds, Pcs, Calling
<1>4. CASE Judge \/ MarkDone
  <2>1. /\ pc # "idle" /\ server = Nobody
        /\ pc' \in {"demote", "graduate", "mark", "ack"}
        /\ UNCHANGED <<registryVars, running, outcomes, head, cur, server, graduated,
                       training, bounds>>
    BY <1>4 DEF Judge, MarkDone, Goto, GraduationTypeOK, Calling
  <2>2. done' \subseteq 1 .. Len(outcomes)
    BY <1>4, <2>1, InHand DEF Judge, MarkDone, GraduationTypeOK
  <2>3. QED
    BY <2>1, <2>2
    DEF GraduationTypeOK, RegistryTypeOK, registryVars, training, bounds, Pcs, Calling
<1>5. CASE CallRefused
  <2>1. pc # "idle" /\ RegistryTypeOK' /\ UNCHANGED bounds
    BY <1>5, <1>a DEF CallRefused, RegistryTypeOK, registryVars
  <2>2. QED
    BY <1>5, <2>1, SettleType DEF CallRefused, bounds, GraduationTypeOK
<1>6. ASSUME NEW t \in Threads, Call(t) PROVE GraduationTypeOK'
  <2> DEFINE verb == IF pc = "graduate" THEN "graduate" ELSE "demote"
  <2>1. pc \in {"graduate", "demote"} /\ Begin(t, verb, Outcome.book, Feedback)
    BY <1>6 DEF Call, BeginGraduate, BeginDemote
  <2>2. Outcome.book \in Books
    BY <2>1, InHand
  <2>3. RegistryTypeOK'
    BY <1>a, <2>1, <2>2, BeginType
  <2>4. serving'[t] = [op |-> verb, book |-> Outcome.book, actor |-> Feedback]
    BY <1>a, <2>1 DEF Begin, RegistryTypeOK
  <2>5. pc' = IF pc = "graduate" THEN "graduating" ELSE "demoting"
    BY <1>6, <2>1 DEF Call
  <2>6. CallType'
    BY <1>6, <2>1, <2>4, <2>5 DEF Call, CallType, Calling, Outcome
  <2>7. QED
    BY <1>6, <2>1, <2>3, <2>5, <2>6
    DEF Call, CallType, GraduationTypeOK, training, bounds, Pcs
<1>7. CASE Acknowledge
  <2>1. cur + 1 \in 1 .. Len(outcomes) + 1 /\ server = Nobody
    BY <1>7, InHand DEF Acknowledge, GraduationTypeOK, Calling
  <2>2. QED
    BY <1>7, <2>1
    DEF Acknowledge, GraduationTypeOK, RegistryTypeOK, registryVars, training, bounds, Pcs,
        Calling
<1>8. ASSUME NEW b \in Books, StartRun(b) PROVE GraduationTypeOK'
  <2>1. registry[b].mode \in Modes
    BY <1>8 DEF StartRun, GraduationTypeOK, RegistryTypeOK, Rows
  <2>2. QED
    BY <1>8, <2>1
    DEF StartRun, GraduationTypeOK, RegistryTypeOK, registryVars, thread, training, bounds
<1>9. ASSUME NEW result \in Results, EndRun(result) PROVE GraduationTypeOK'
  <2> DEFINE o == [book |-> running.book, mode |-> running.mode, result |-> result]
  <2>1. o \in Outcomes
    BY <1>9 DEF EndRun, GraduationTypeOK, Outcomes
  <2>2. /\ outcomes' \in Seq(Outcomes) /\ Len(outcomes) \in Nat
        /\ Len(outcomes') = Len(outcomes) + 1
        /\ \A i \in 1 .. Len(outcomes) : outcomes'[i] = outcomes[i]
    BY <1>9, <2>1 DEF EndRun, GraduationTypeOK
  <2>3. pc # "idle" => outcomes'[cur] = outcomes[cur]
    BY <2>2, InHand
  <2>4. CallType'
    BY <1>9, <2>3 DEF EndRun, CallType, GraduationTypeOK, registryVars, thread, Calling
  <2>5. /\ head \in 1 .. Len(outcomes') + 1 /\ cur \in 0 .. Len(outcomes')
        /\ done \subseteq 1 .. Len(outcomes') /\ labelled \subseteq 1 .. Len(outcomes')
    BY <2>2 DEF GraduationTypeOK
  <2>6. QED
    BY <1>9, <2>2, <2>4, <2>5
    DEF EndRun, CallType, GraduationTypeOK, RegistryTypeOK, registryVars, thread, training,
        bounds
<1>10. CASE Act
  <2>1. RegistryTypeOK'
    BY <1>10, <1>a, ActType
  <2>2. pc \in Calling => serving'[server] = serving[server]
    BY <1>10, <1>a, ActKeeps DEF GraduationTypeOK
  <2>3. UNCHANGED <<running, outcomes, head, thread, done, training, faults>> /\ acts' = acts + 1
    BY <1>10 DEF Act
  <2>4. QED
    BY <2>1, <2>2, <2>3 DEF GraduationTypeOK, thread, training
<1>11. ASSUME NEW t \in Threads, Serve(t) PROVE GraduationTypeOK'
  <2>1. RegistryTypeOK' /\ UNCHANGED <<running, outcomes, head, done, training, bounds>>
    BY <1>11, <1>a, HandleType DEF Serve
  <2>2. CASE server = t
    BY <1>11, <2>1, <2>2, SettleType DEF Serve, GraduationTypeOK, Calling, bounds
  <2>3. CASE server # t
    <3>1. UNCHANGED thread /\ (pc \in Calling => serving'[server] = serving[server])
      BY <1>11, <1>a, <2>3, HandleKeeps DEF Serve, GraduationTypeOK
    <3>2. QED
      BY <2>1, <3>1 DEF GraduationTypeOK, thread, training, bounds
  <2>4. QED BY <2>2, <2>3
<1>12. CASE LoseCall \/ CallTimesOut
  <2>1. /\ pc # "idle" /\ Settle
        /\ Fault("lost") \/ Fault("slow")
        /\ UNCHANGED <<registryVars, running, outcomes, head, done, training>>
    BY <1>12 DEF LoseCall, CallTimesOut, Calling
  <2>2. faults' \in [FaultKinds -> Nat] /\ acts' \in Nat /\ UNCHANGED acts
    BY <2>1, FaultType DEF FaultKinds
  <2>3. RegistryTypeOK'
    BY <1>a, <2>1 DEF RegistryTypeOK, registryVars
  <2>4. QED
    BY <2>1, <2>2, <2>3, SettleType
<1>13. CASE ThreadDies \/ ProcessDies
  <2>1. /\ Abandon
        /\ Fault("thread") \/ Fault("process")
        /\ UNCHANGED <<registryVars, running, outcomes, head, training>>
        /\ done' \in {{}, done}
    BY <1>13 DEF ThreadDies, ProcessDies
  <2>2. faults' \in [FaultKinds -> Nat] /\ UNCHANGED acts
    BY <2>1, FaultType DEF FaultKinds
  <2>3. done' \subseteq 1 .. Len(outcomes)
    BY <2>1 DEF GraduationTypeOK
  <2>4. QED
    BY <2>1, <2>2, <2>3, AbandonType
<1>14. CASE GovernanceRestarts
  <2>1. faults' \in [FaultKinds -> Nat] /\ acts' \in Nat /\ UNCHANGED acts
    BY <1>14, FaultType DEF GovernanceRestarts, FaultKinds
  <2>2. RegistryTypeOK' /\ UNCHANGED <<running, outcomes, head, done, training>>
    BY <1>14, <1>a, ReseedType DEF GovernanceRestarts
  <2>3. CASE pc \in Calling
    BY <1>14, <2>1, <2>2, <2>3, SettleType DEF GovernanceRestarts, Calling
  <2>4. CASE pc \notin Calling
    BY <1>14, <2>1, <2>2, <2>4 DEF GovernanceRestarts, GraduationTypeOK, thread, training
  <2>5. QED BY <2>3, <2>4
<1>15. QED
  BY <1>1, <1>2, <1>3, <1>4, <1>5, <1>6, <1>7, <1>8, <1>9, <1>10, <1>11, <1>12, <1>13,
     <1>14
  DEF Next, Consume, Run

(* The type invariant.                                                     *)
THEOREM TypeCorrect == Spec => []GraduationTypeOK
BY TypeInit, TypeStep, PTL DEF Spec

------------------------------------------------------------------------------
(* Evidence.                                                               *)

(* How often a death may have counted a success again.                     *)
Inflation == IF AtLeastOnce THEN Deaths ELSE 0

Earned(b) == Cardinality(Evidence(b)) + Inflation >= MinSuccesses

(* What is yet to be labelled was not; at least once, but for the outcome  *)
(* that is served again.                                                   *)
LabelledInv ==
  /\ \A i \in labelled : i <= head
  /\ ~AtLeastOnce => /\ \A i \in labelled : i < head
                     /\ pc = "label" => cur \notin labelled

(* The success that will be counted again.                                 *)
Again(b) ==
  IF /\ AtLeastOnce
     /\ pc \in {"idle", "label"}
     /\ head \in Evidence(b)
  THEN 1 ELSE 0

CountInv ==
  \A b \in Books : successes[b] + Again(b) <= Cardinality(Evidence(b)) + Inflation

(* No proposal is stored but behind a human.                               *)
ProposalInv == \A d \in Drafts : proposal[d].mode = "hitl"

(* A graduation under way was permitted and, if feedback asked for it,     *)
(* earned.                                                                 *)
ServingInv ==
  \A t \in Threads :
    /\ serving[t].op = "graduate" => May(serving[t].actor, "graduate")
    /\ serving[t].op = "graduate" /\ serving[t].actor = Feedback => Earned(serving[t].book)

(* Feedback asks for what its record allows.                               *)
AskingInv ==
  pc \in {"graduate", "graduating"} =>
    /\ successes[Outcome.book] >= MinSuccesses
    /\ failures[Outcome.book] = 0

EarnedInv ==
  /\ LabelledInv
  /\ CountInv
  /\ ProposalInv
  /\ ServingInv
  /\ AskingInv
  /\ AutoIsEarned

------------------------------------------------------------------------------
(* Evidence is finite, and never taken back.                               *)

LEMMA FiniteBelow ==
  ASSUME NEW n \in Nat, NEW S, S \subseteq 1 .. n
  PROVE  IsFiniteSet(S) /\ Cardinality(S) \in Nat
<1>1. IsFiniteSet(1 .. n)
  BY FS_Interval
<1>2. IsFiniteSet(S)
  BY <1>1, FS_Subset
<1>3. QED BY <1>2, FS_CardinalityType

LEMMA EvidenceFinite ==
  ASSUME GraduationTypeOK
  PROVE  /\ \A b : IsFiniteSet(Evidence(b)) /\ Cardinality(Evidence(b)) \in Nat
         /\ Inflation \in Nat
<1>1. Len(outcomes) \in Nat /\ labelled \subseteq 1 .. Len(outcomes)
  BY DEF GraduationTypeOK
<1>2. \A b : Evidence(b) \subseteq labelled
  BY DEF Evidence
<1>3. \A b : IsFiniteSet(Evidence(b)) /\ Cardinality(Evidence(b)) \in Nat
  BY <1>1, <1>2, FiniteBelow
<1>4. Inflation \in Nat
  BY DEF Inflation, Deaths, GraduationTypeOK, FaultKinds
<1>5. QED BY <1>3, <1>4

LEMMA EvidenceFiniteNext ==
  ASSUME GraduationTypeOK'
  PROVE  /\ \A b : IsFiniteSet(Evidence(b)') /\ Cardinality(Evidence(b)') \in Nat
         /\ Inflation' \in Nat
<1>1. Len(outcomes') \in Nat /\ labelled' \subseteq 1 .. Len(outcomes')
  BY DEF GraduationTypeOK
<1>2. \A b : Evidence(b)' \subseteq labelled'
  BY DEF Evidence
<1>3. \A b : IsFiniteSet(Evidence(b)') /\ Cardinality(Evidence(b)') \in Nat
  BY <1>1, <1>2, FiniteBelow
<1>4. Inflation' \in Nat
  BY DEF Inflation, Deaths, GraduationTypeOK, FaultKinds
<1>5. QED BY <1>3, <1>4

LEMMA FaultAdds ==
  ASSUME GraduationTypeOK, NEW kind \in FaultKinds, Fault(kind)
  PROVE  Inflation' = Inflation + IF AtLeastOnce /\ kind \in {"thread", "process"}
                                  THEN 1 ELSE 0
BY DEF GraduationTypeOK, Fault, Inflation, Deaths, FaultKinds

LEMMA Grows ==
  ASSUME GraduationTypeOK, [Next]_vars
  PROVE  /\ labelled \subseteq labelled'
         /\ Len(outcomes) <= Len(outcomes')
         /\ \A i \in 1 .. Len(outcomes) : outcomes'[i] = outcomes[i]
         /\ Inflation <= Inflation'
<1>0. Len(outcomes) \in Nat /\ Inflation \in Nat
  BY EvidenceFinite DEF GraduationTypeOK
<1>1. CASE UNCHANGED vars
  BY <1>0, <1>1 DEF vars, training, bounds, Inflation, Deaths
<1>2. CASE Consume \/ Act \/ \E t \in Threads : Serve(t)
  BY <1>0, <1>2
  DEF Consume, TakeOutcome, Label, Judge, CallRefused, MarkDone, Acknowledge, Call, Act,
      Serve, training, bounds, Inflation, Deaths
<1>3. CASE Run
  <2>1. Inflation' = Inflation /\ labelled' = labelled
    BY <1>3 DEF Run, StartRun, EndRun, training, bounds, Inflation, Deaths
  <2>2. CASE \E b \in Books : StartRun(b)
    BY <1>0, <2>1, <2>2 DEF StartRun
  <2>3. CASE \E result \in Results : EndRun(result)
    BY <1>0, <2>1, <2>3 DEF EndRun, GraduationTypeOK, Results, Outcomes
  <2>4. QED BY <1>3, <2>2, <2>3 DEF Run
<1>4. CASE LoseCall \/ CallTimesOut \/ ThreadDies \/ ProcessDies \/ GovernanceRestarts
  <2>1. \E kind \in FaultKinds : Fault(kind)
    BY <1>4
    DEF LoseCall, CallTimesOut, ThreadDies, ProcessDies, GovernanceRestarts, FaultKinds
  <2>2. Inflation <= Inflation'
    BY <1>0, <2>1, FaultAdds
  <2>3. UNCHANGED <<outcomes, labelled>>
    BY <1>4
    DEF LoseCall, CallTimesOut, ThreadDies, ProcessDies, GovernanceRestarts, training
  <2>4. QED BY <1>0, <2>2, <2>3
<1>5. QED
  BY <1>1, <1>2, <1>3, <1>4 DEF Next

LEMMA EarnedStays ==
  ASSUME GraduationTypeOK, GraduationTypeOK', [Next]_vars, NEW b \in Books, Earned(b)
  PROVE  Earned(b)'
<1>1. Evidence(b) \subseteq Evidence(b)'
  BY Grows DEF Evidence, Counts, GraduationTypeOK
<1>2. /\ IsFiniteSet(Evidence(b)')
      /\ Cardinality(Evidence(b)) \in Nat /\ Cardinality(Evidence(b)') \in Nat
      /\ Inflation \in Nat /\ Inflation' \in Nat
  BY EvidenceFinite, EvidenceFiniteNext
<1>3. Cardinality(Evidence(b)) <= Cardinality(Evidence(b)')
  BY <1>1, <1>2, FS_Subset
<1>4. Inflation <= Inflation'
  BY Grows
<1>5. Cardinality(Evidence(b)) + Inflation >= MinSuccesses
  BY DEF Earned
<1>6. Cardinality(Evidence(b)') + Inflation' >= MinSuccesses
  BY <1>2, <1>3, <1>4, <1>5
<1>7. QED
  BY <1>6 DEF Earned

------------------------------------------------------------------------------
(* The record never says more than the evidence.                           *)

LEMMA LabelledStep ==
  ASSUME GraduationTypeOK, LabelledInv, [Next]_vars PROVE LabelledInv'
<1>0. /\ head \in Nat /\ cur \in Nat /\ \A i \in labelled : i \in Nat
      /\ pc # "idle" => head = IF AtLeastOnce THEN cur ELSE cur + 1
  BY DEF GraduationTypeOK
<1>1. CASE TakeOutcome
  BY <1>0, <1>1 DEF TakeOutcome, LabelledInv, training
<1>2. CASE Label
  BY <1>0, <1>2 DEF Label, Goto, LabelledInv
<1>3. CASE Acknowledge
  BY <1>0, <1>3 DEF Acknowledge, LabelledInv, training
<1>4. CASE ~(TakeOutcome \/ Label \/ Acknowledge)
  <2>1. /\ UNCHANGED <<labelled, head>>
        /\ pc' = "label" => pc = "label" /\ cur' = cur
    BY <1>4
    DEF Next, Consume, Run, Judge, CallRefused, MarkDone, Call, StartRun, EndRun, Act,
        Serve, LoseCall, CallTimesOut, ThreadDies, ProcessDies, GovernanceRestarts, Goto,
        Settle, Abandon, thread, training, vars
  <2>2. QED BY <2>1 DEF LabelledInv
<1>5. QED BY <1>1, <1>2, <1>3, <1>4

(* A step that touches neither the store nor the stream.                   *)
LEMMA CountFrame ==
  ASSUME GraduationTypeOK, CountInv, UNCHANGED <<successes, labelled>>,
         \A i \in labelled : outcomes'[i] = outcomes[i],
         Inflation' \in Nat,
         \A b \in Books : Again(b)' + Inflation <= Again(b) + Inflation'
  PROVE  CountInv'
<1> SUFFICES ASSUME NEW b \in Books
             PROVE  successes'[b] + Again(b)' <= Cardinality(Evidence(b)') + Inflation'
    BY DEF CountInv
<1>1. Evidence(b)' = Evidence(b)
  BY DEF Evidence, Counts
<1>2. /\ successes[b] + Again(b) <= Cardinality(Evidence(b)) + Inflation
      /\ successes'[b] = successes[b]
      /\ Again(b)' + Inflation <= Again(b) + Inflation'
  BY DEF CountInv
<1>3. /\ successes[b] \in Nat /\ Cardinality(Evidence(b)) \in Nat /\ Inflation \in Nat
      /\ Again(b) \in Nat /\ Again(b)' \in Nat
  BY EvidenceFinite DEF GraduationTypeOK, Again
<1>4. QED BY <1>1, <1>2, <1>3

LEMMA CountLabel ==
  ASSUME GraduationTypeOK, LabelledInv, CountInv, Label PROVE CountInv'
<1> SUFFICES ASSUME NEW b \in Books
             PROVE  successes'[b] + Again(b)' <= Cardinality(Evidence(b)') + Inflation'
    BY DEF CountInv
<1>1. /\ cur \in 1 .. Len(outcomes) /\ Outcome.book \in Books
      /\ head = IF AtLeastOnce THEN cur ELSE cur + 1
  BY InHand DEF Label
<1>2. Again(b)' = 0 /\ Inflation' = Inflation
  BY DEF Label, Goto, Again, bounds, Inflation, Deaths
<1>3. /\ successes[b] \in Nat /\ IsFiniteSet(Evidence(b))
      /\ Cardinality(Evidence(b)) \in Nat /\ Inflation \in Nat /\ Again(b) \in {0, 1}
      /\ successes[b] + Again(b) <= Cardinality(Evidence(b)) + Inflation
  BY EvidenceFinite DEF GraduationTypeOK, Again, CountInv
<1>4. CASE ~(Outcome.book = b /\ Counts(Outcome))
  <2>1. Evidence(b)' = Evidence(b)
    BY <1>1, <1>4 DEF Label, Evidence, Counts, Outcome
  <2>2. successes'[b] = successes[b]
    BY <1>1, <1>4 DEF Label, GraduationTypeOK
  <2>3. QED BY <1>2, <1>3, <2>1, <2>2
<1>5. CASE Outcome.book = b /\ Counts(Outcome)
  <2>1. Evidence(b)' = Evidence(b) \cup {cur}
    BY <1>1, <1>5 DEF Label, Evidence, Counts, Outcome
  <2>2. successes'[b] = successes[b] + 1
    BY <1>1, <1>5 DEF Label, GraduationTypeOK
  <2>3. CASE cur \in Evidence(b)
    <3>1. AtLeastOnce /\ Again(b) = 1
      BY <1>1, <2>3 DEF Label, LabelledInv, Evidence, Again
    <3>2. Evidence(b)' = Evidence(b)
      BY <2>1, <2>3
    <3>3. QED BY <1>2, <1>3, <2>2, <3>1, <3>2
  <2>4. CASE cur \notin Evidence(b)
    <3>1. Cardinality(Evidence(b)') = Cardinality(Evidence(b)) + 1
      BY <1>3, <2>1, <2>4, FS_AddElement
    <3>2. QED BY <1>2, <1>3, <2>2, <3>1
  <2>5. QED BY <2>3, <2>4
<1>6. QED BY <1>4, <1>5

LEMMA CountStep ==
  ASSUME GraduationTypeOK, GraduationTypeOK', LabelledInv, CountInv, [Next]_vars
  PROVE  CountInv'
<1>0. /\ Inflation \in Nat /\ Inflation' \in Nat /\ Inflation <= Inflation'
      /\ \A b \in Books : Again(b) \in {0, 1} /\ Again(b)' \in {0, 1}
      /\ labelled \subseteq 1 .. Len(outcomes)
      /\ \A i \in labelled : outcomes'[i] = outcomes[i]
  BY EvidenceFinite, EvidenceFiniteNext, Grows DEF Again, GraduationTypeOK
<1>1. CASE Label
  BY <1>1, CountLabel
<1>2. CASE ThreadDies \/ ProcessDies
  <2>1. \/ ~AtLeastOnce
        \/ Inflation' = Inflation + 1
    BY <1>2, FaultAdds DEF ThreadDies, ProcessDies, FaultKinds
  <2>2. \A b \in Books : Again(b)' + Inflation <= Again(b) + Inflation'
    <3>1. CASE AtLeastOnce
      BY <1>0, <2>1, <3>1
    <3>2. CASE ~AtLeastOnce
      <4>1. \A b \in Books : Again(b) = 0 /\ Again(b)' = 0
        BY <3>2 DEF Again
      <4>2. QED BY <1>0, <4>1
    <3>3. QED BY <3>1, <3>2
  <2>3. UNCHANGED <<successes, labelled>>
    BY <1>2 DEF ThreadDies, ProcessDies, training
  <2>4. QED BY <1>0, <2>2, <2>3, CountFrame
<1>3. CASE ~Label /\ ~ThreadDies /\ ~ProcessDies
  <2>1. UNCHANGED <<successes, labelled>>
    BY <1>3
    DEF Next, Consume, Run, TakeOutcome, Acknowledge, Judge, CallRefused, MarkDone, Call,
        StartRun, EndRun, Act, Serve, LoseCall, CallTimesOut, GovernanceRestarts,
        training, vars
  <2>2. CASE Acknowledge
    <3>1. head' \notin labelled'
      <4>1. head' = cur + 1 /\ cur \in Nat /\ head \in Nat
            /\ head = IF AtLeastOnce THEN cur ELSE cur + 1
        BY <2>2, InHand DEF Acknowledge
      <4>2. \A i \in labelled : i \in Nat /\ i <= cur
        <5>1. \A i \in labelled : i \in Nat
          BY <1>0 DEF GraduationTypeOK
        <5>2. QED BY <4>1, <5>1 DEF LabelledInv
      <4>3. QED BY <2>1, <4>1, <4>2
    <3>2. \A b \in Books : Again(b)' = 0
      BY <3>1 DEF Again, Evidence
    <3>3. QED BY <1>0, <2>1, <3>2, CountFrame
  <2>3. CASE ~Acknowledge
    <3>1. AtLeastOnce /\ pc' \in {"idle", "label"} => pc \in {"idle", "label"} /\ head' = head
      BY <1>3, <2>3
      DEF Next, Consume, Run, TakeOutcome, Judge, CallRefused, MarkDone, Call,
          StartRun, EndRun, Act, Serve, LoseCall, CallTimesOut, GovernanceRestarts, Goto,
          Settle, thread, vars
    <3>2. \A b \in Books : Again(b)' <= Again(b)
      <4> SUFFICES ASSUME NEW b \in Books PROVE Again(b)' <= Again(b)
          OBVIOUS
      <4>1. Evidence(b)' = Evidence(b)
        BY <1>0, <2>1 DEF Evidence, Counts
      <4>2. QED BY <1>0, <3>1, <4>1 DEF Again
    <3>3. QED BY <1>0, <2>1, <3>2, CountFrame
  <2>4. QED BY <2>2, <2>3
<1>4. QED BY <1>1, <1>2, <1>3

------------------------------------------------------------------------------
(* Who may write what, and on which grounds.                               *)

LEMMA ProposalStep ==
  ASSUME GraduationTypeOK, ProposalInv, [Next]_vars PROVE ProposalInv'
<1>1. CASE Act
  BY <1>1
  DEF Act, Register, BeginGraduate, BeginDemote, BeginApprove, BeginReject, Begin, Propose,
      ResetProposals, ProposalInv, GraduationTypeOK, RegistryTypeOK
<1>2. ASSUME NEW t \in Threads, Serve(t) PROVE ProposalInv'
  <2>1. \A d \in Drafts : proposal[d] \in [status : Statuses, mode : Modes]
    BY DEF GraduationTypeOK, RegistryTypeOK
  <2>2. CASE SetStatus(t)
    <3>1. \A d \in Drafts : proposal'[d].mode = proposal[d].mode
      BY <2>1, <2>2 DEF SetStatus, GraduationTypeOK, RegistryTypeOK
    <3>2. QED BY <3>1 DEF ProposalInv
  <2>3. CASE WriteMode(t) \/ EnterRegistry(t)
    BY <2>3 DEF WriteMode, EnterRegistry, ProposalInv
  <2>4. QED BY <1>2, <2>2, <2>3 DEF Serve, Handle
<1>3. CASE UNCHANGED proposal
  BY <1>3 DEF ProposalInv
<1>4. CASE ~Act /\ ~\E t \in Threads : Serve(t)
  <2>1. UNCHANGED proposal
    BY <1>4
    DEF Next, Consume, Run, TakeOutcome, Label, Acknowledge, Judge, CallRefused, MarkDone,
        Call, BeginGraduate, BeginDemote, Begin, StartRun, EndRun, LoseCall, CallTimesOut,
        ThreadDies, ProcessDies, GovernanceRestarts, Reseed, registryVars, vars
  <2>2. QED BY <1>3, <2>1
<1>5. QED BY <1>1, <1>2, <1>4

LEMMA AskingStep ==
  ASSUME GraduationTypeOK, AskingInv, [Next]_vars PROVE AskingInv'
<1>1. CASE Judge
  BY <1>1 DEF Judge, Goto, AskingInv, ShouldGraduate, Outcome, training
<1>2. CASE Label
  BY <1>2 DEF Label, Goto, AskingInv
<1>3. CASE ~Judge /\ ~Label
  <2>1. UNCHANGED <<successes, failures>>
    BY <1>3
    DEF Next, Consume, Run, TakeOutcome, Acknowledge, CallRefused, MarkDone, Call,
        StartRun, EndRun, Act, Serve, LoseCall, CallTimesOut, ThreadDies, ProcessDies,
        GovernanceRestarts, training, vars
  <2>2. pc' \in {"graduate", "graduating"} => pc \in {"graduate", "graduating"} /\ cur' = cur
    BY <1>3
    DEF Next, Consume, Run, TakeOutcome, Acknowledge, CallRefused, MarkDone, Call,
        StartRun, EndRun, Act, Serve, LoseCall, CallTimesOut, ThreadDies, ProcessDies,
        GovernanceRestarts, Goto, Settle, Abandon, thread, vars
  <2>3. pc # "idle" => outcomes'[cur] = outcomes[cur]
    BY InHand, Grows
  <2>4. QED BY <2>1, <2>2, <2>3 DEF AskingInv, Outcome
<1>4. QED BY <1>1, <1>2, <1>3

(* Feedback asks only for what is earned.                                  *)
LEMMA AskingEarned ==
  ASSUME GraduationTypeOK, CountInv, AskingInv, pc = "graduate" PROVE Earned(Outcome.book)
<1> DEFINE b == Outcome.book
<1>1. b \in Books
  BY InHand
<1>2. successes[b] >= MinSuccesses /\ successes[b] \in Nat
  BY <1>1 DEF AskingInv, GraduationTypeOK
<1>3. successes[b] + Again(b) <= Cardinality(Evidence(b)) + Inflation
  BY <1>1 DEF CountInv
<1>4. Again(b) \in {0, 1} /\ Cardinality(Evidence(b)) \in Nat /\ Inflation \in Nat
  BY EvidenceFinite DEF Again
<1>5. Cardinality(Evidence(b)) + Inflation >= MinSuccesses
  BY <1>2, <1>3, <1>4
<1>6. QED BY <1>5 DEF Earned

(* A request that was taken in this step has its permission and, from      *)
(* feedback, its grounds.                                                  *)
LEMMA ServingChange ==
  ASSUME GraduationTypeOK, CountInv, AskingInv, [Next]_vars, NEW t \in Threads,
         serving'[t] # serving[t], serving'[t].op = "graduate"
  PROVE  /\ May(serving'[t].actor, "graduate")
         /\ serving'[t].actor = Feedback => Earned(serving'[t].book)
<1>1. ASSUME NEW u \in Threads, Call(u)
      PROVE  /\ May(serving'[t].actor, "graduate")
             /\ serving'[t].actor = Feedback => Earned(serving'[t].book)
  <2>1. t = u /\ pc = "graduate" /\ BeginGraduate(u, Feedback, Outcome.book)
    BY <1>1
    DEF Call, BeginGraduate, BeginDemote, Begin, GraduationTypeOK, RegistryTypeOK
  <2>2. serving'[t] = [op |-> "graduate", book |-> Outcome.book, actor |-> Feedback]
    BY <2>1 DEF BeginGraduate, Begin, GraduationTypeOK, RegistryTypeOK
  <2>3. QED BY <2>1, <2>2, AskingEarned DEF BeginGraduate
<1>2. CASE Act
  <2>1. \E u \in Threads, p \in People, b \in Books : u = t /\ BeginGraduate(u, p, b)
    BY <1>2
    DEF Act, Register, BeginGraduate, BeginDemote, BeginApprove, BeginReject, Begin,
        Propose, ResetProposals, GraduationTypeOK, RegistryTypeOK
  <2>2. PICK p \in People, b \in Books : BeginGraduate(t, p, b)
    BY <2>1
  <2>3. serving'[t] = [op |-> "graduate", book |-> b, actor |-> p]
    BY <2>2 DEF BeginGraduate, Begin, GraduationTypeOK, RegistryTypeOK
  <2>4. QED BY <2>2, <2>3 DEF BeginGraduate, People
<1>3. ASSUME NEW u \in Threads, Serve(u) PROVE FALSE
  <2>1. serving'[t] = Idle \/ serving'[t] = [serving[t] EXCEPT !.op = "enter"]
    BY <1>3
    DEF Serve, Handle, WriteMode, SetStatus, EnterRegistry, GraduationTypeOK,
        RegistryTypeOK
  <2>2. serving[t] \in Requests \cup {Idle}
    BY DEF GraduationTypeOK, RegistryTypeOK
  <2>3. QED BY <2>1, <2>2 DEF Idle, Requests
<1>4. ASSUME GovernanceRestarts PROVE FALSE
  BY <1>4 DEF GovernanceRestarts, Reseed, Idle
<1>5. CASE ~Act /\ ~GovernanceRestarts /\ ~\E u \in Threads : Call(u) \/ Serve(u)
  BY <1>5
  DEF Next, Consume, Run, TakeOutcome, Label, Acknowledge, Judge, CallRefused, MarkDone,
      StartRun, EndRun, LoseCall, CallTimesOut, ThreadDies, ProcessDies, registryVars, vars
<1>6. QED BY <1>1, <1>2, <1>3, <1>4, <1>5

LEMMA ServingStep ==
  ASSUME GraduationTypeOK, GraduationTypeOK', CountInv, AskingInv, ServingInv, [Next]_vars
  PROVE  ServingInv'
<1> SUFFICES ASSUME NEW t \in Threads, serving'[t].op = "graduate"
             PROVE  /\ May(serving'[t].actor, "graduate")
                    /\ serving'[t].actor = Feedback => Earned(serving[t].book)'
    BY DEF ServingInv
<1>1. PICK b \in Books : b = serving'[t].book
  <2>1. serving'[t] \in Requests
    BY DEF GraduationTypeOK, RegistryTypeOK, Idle
  <2>2. serving'[t].book \in Books
    BY <2>1 DEF Requests
  <2>3. QED BY <2>2
<1>2. /\ May(serving'[t].actor, "graduate")
      /\ serving'[t].actor = Feedback => Earned(b)
  <2>1. CASE serving'[t] # serving[t]
    BY <1>1, <2>1, ServingChange
  <2>2. CASE serving'[t] = serving[t]
    BY <1>1, <2>2 DEF ServingInv
  <2>3. QED BY <2>1, <2>2
<1>3. serving'[t].actor = Feedback => Earned(b)'
  BY <1>2, EarnedStays
<1>4. Earned(b)' => Earned(serving[t].book)'
  BY <1>1 DEF Earned, Evidence
<1>5. QED BY <1>2, <1>3, <1>4

(* A row becomes automatic in two ways: a handler writes a graduation it   *)
(* was permitted, or a person who may graduate registers it so.            *)
LEMMA RegistryChange ==
  ASSUME GraduationTypeOK, ProposalInv, [Next]_vars, NEW b \in Books,
         registry'[b] # registry[b], registry'[b].mode = "auto"
  PROVE  \/ \E t \in Threads :
              /\ Serve(t) /\ WriteMode(t)
              /\ serving[t].op = "graduate" /\ serving[t].book = b
              /\ registry'[b].by = serving[t].actor
         \/ registry'[b].by \in People /\ May(registry'[b].by, "graduate")
<1>1. ASSUME NEW t \in Threads, Serve(t)
      PROVE  /\ WriteMode(t)
             /\ serving[t].op = "graduate" /\ serving[t].book = b
             /\ registry'[b].by = serving[t].actor
  <2>1. CASE WriteMode(t)
    BY <2>1 DEF WriteMode, GraduationTypeOK, RegistryTypeOK
  <2>2. CASE SetStatus(t)
    BY <2>2 DEF SetStatus
  <2>3. CASE EnterRegistry(t)
    <3>1. serving[t].book \in Drafts
      BY <2>3 DEF EnterRegistry, GraduationTypeOK, RegistryTypeOK
    <3>2. proposal[serving[t].book].mode = "hitl"
      BY <3>1 DEF ProposalInv
    <3>3. QED BY <2>3, <3>2 DEF EnterRegistry, GraduationTypeOK, RegistryTypeOK
  <2>4. QED BY <1>1, <2>1, <2>2, <2>3 DEF Serve, Handle
<1>2. CASE Act
  <2>1. PICK p \in People, c \in Books, mode \in Modes : Register(p, c, mode)
    BY <1>2
    DEF Act, BeginGraduate, BeginDemote, BeginApprove, BeginReject, Begin, Propose,
        ResetProposals
  <2>2. registry'[b] = [mode |-> mode, by |-> p]
    BY <2>1 DEF Register, GraduationTypeOK, RegistryTypeOK
  <2>3. QED BY <2>1, <2>2 DEF Register
<1>3. ASSUME GovernanceRestarts PROVE FALSE
  BY <1>3 DEF GovernanceRestarts, Reseed
<1>4. CASE ~Act /\ ~GovernanceRestarts /\ ~\E t \in Threads : Serve(t)
  BY <1>4
  DEF Next, Consume, Run, TakeOutcome, Label, Acknowledge, Judge, CallRefused, MarkDone,
      Call, BeginGraduate, BeginDemote, Begin, StartRun, EndRun, LoseCall, CallTimesOut,
      ThreadDies, ProcessDies, registryVars, vars
<1>5. QED BY <1>1, <1>2, <1>3, <1>4

LEMMA AutoStep ==
  ASSUME GraduationTypeOK, GraduationTypeOK', ProposalInv, ServingInv, AutoIsEarned,
         [Next]_vars
  PROVE  AutoIsEarned'
<1> DEFINE Grounds(by, b) == /\ May(by, "graduate")
                             /\ by = Feedback => Earned(b)
<1> SUFFICES ASSUME NEW b \in Books, registry'[b].mode = "auto"
             PROVE  /\ May(registry'[b].by, "graduate")
                    /\ registry'[b].by = Feedback => Earned(b)'
    BY DEF AutoIsEarned, Automatic, Earned, Inflation
<1>1. Grounds(registry'[b].by, b)
  <2>1. CASE registry'[b] = registry[b]
    BY <2>1 DEF AutoIsEarned, Automatic, Earned, Inflation
  <2>2. CASE registry'[b] # registry[b]
    BY <2>2, RegistryChange DEF ServingInv, People
  <2>3. QED BY <2>1, <2>2
<1>2. QED
  BY <1>1, EarnedStays

------------------------------------------------------------------------------
(* The theorems.                                                           *)

LEMMA EarnedInit == Init => EarnedInv
<1> SUFFICES ASSUME Init PROVE EarnedInv
    OBVIOUS
<1>1. LabelledInv /\ ProposalInv /\ AskingInv
  BY DEF Init, RegistryInit, LabelledInv, ProposalInv, AskingInv
<1>2. ServingInv
  BY DEF Init, RegistryInit, ServingInv, Idle
<1>3. AutoIsEarned
  BY DEF Init, RegistryInit, AutoIsEarned, Automatic, Absent
<1>4. CountInv
  <2>1. \A b : Evidence(b) = {}
    BY DEF Init, Evidence
  <2>2. Inflation = 0
    BY DEF Init, Inflation, Deaths, FaultKinds
  <2>3. \A b \in Books : successes[b] = 0 /\ Again(b) = 0
    BY <2>1 DEF Init, Again
  <2>4. QED BY <2>1, <2>2, <2>3, FS_EmptySet DEF CountInv
<1>5. QED BY <1>1, <1>2, <1>3, <1>4 DEF EarnedInv

LEMMA EarnedStep ==
  GraduationTypeOK /\ GraduationTypeOK' /\ EarnedInv /\ [Next]_vars => EarnedInv'
BY LabelledStep, CountStep, ProposalStep, ServingStep, AskingStep, AutoStep DEF EarnedInv

LEMMA EarnedCorrect == Spec => []EarnedInv
BY TypeCorrect, EarnedInit, EarnedStep, PTL DEF Spec

(* No playbook runs unattended but by the word of an actor who may         *)
(* graduate, and feedback's word needs MinSuccesses successes, one less    *)
(* for each death of its consumer under at least once.                     *)
THEOREM AutoIsEarnedHolds == Spec => []AutoIsEarned
BY EarnedCorrect, PTL DEF EarnedInv

(* What feedback makes automatic while it waits has no failure on record.  *)
THEOREM GraduatesOnlyCleanHolds == Spec => GraduatesOnlyClean
<1>1. ASSUME GraduationTypeOK, EarnedInv, [Next]_vars, NEW b \in Books,
             registry'[b] # registry[b], registry'[b].mode = "auto",
             registry'[b].by = Feedback
      PROVE  failures[b] = 0 \/ server' = server
  <2>1. PICK t \in Threads :
          /\ Serve(t)
          /\ serving[t].op = "graduate" /\ serving[t].book = b
    BY <1>1, RegistryChange DEF EarnedInv, People
  <2>2. CASE server = t
    <3>1. pc = "graduating" /\ Outcome.book = b
      BY <1>1, <2>1, <2>2 DEF GraduationTypeOK, Calling, Outcome
    <3>2. QED BY <1>1, <3>1 DEF EarnedInv, AskingInv
  <2>3. CASE server # t
    BY <2>1, <2>3 DEF Serve, thread
  <2>4. QED BY <2>2, <2>3
<1>2. GraduationTypeOK /\ EarnedInv /\ [Next]_vars
      => [\A b \in Books :
            /\ registry'[b] # registry[b]
            /\ registry'[b].mode = "auto"
            /\ registry'[b].by = Feedback
            => failures[b] = 0 \/ server' = server]_vars
  BY <1>1
<1>3. QED
  BY <1>2, TypeCorrect, EarnedCorrect, PTL DEF Spec, GraduatesOnlyClean
------------------------------------------------------------------------------
(* An unattended failure is answered.  While every call is answered,       *)
(* feedback has no request at governance but the one it waits for; and it  *)
(* asks for no graduation of what has a failure on record.  So what it     *)
(* made automatic before the failure stays so only until the consumer has  *)
(* passed that outcome.                                                    *)
Answered ==
  /\ \A k \in {"lost", "slow", "process", "governance"} : faults[k] = 0
  /\ AtLeastOnce \/ faults["thread"] = 0

At == IF AtLeastOnce THEN head ELSE cur
ByFeedback(b) == registry[b].mode = "auto" /\ registry[b].by = Feedback

HandInv ==
  /\ pc = "idle" => cur = 0
  /\ pc \notin {"idle", "mark", "ack"} => cur \notin done

RecordInv ==
  \A i \in labelled : outcomes[i].result = "failed" => failures[outcomes[i].book] > 0

OwnCallInv ==
  Answered => \A t \in Threads :
    serving[t].op = "graduate" /\ serving[t].actor = Feedback => server = t

DemotedInv ==
  Answered => \A i \in labelled :
    /\ Unattended(outcomes[i])
    /\ ByFeedback(outcomes[i].book)
    => i = At /\ i \notin done /\ pc \notin {"mark", "ack"}

FailureInv == HandInv /\ RecordInv /\ OwnCallInv /\ DemotedInv

LEMMA FailureInit == Init => FailureInv
BY DEF Init, RegistryInit, Idle, FailureInv, HandInv, RecordInv, OwnCallInv, DemotedInv

(* A fault that loses an answer is never forgotten.                        *)
LEMMA FaultCounted ==
  ASSUME GraduationTypeOK, NEW kind \in FaultKinds, Fault(kind)
  PROVE  /\ faults'[kind] = faults[kind] + 1
         /\ \A k \in FaultKinds \ {kind} : faults'[k] = faults[k]
         /\ \A k \in FaultKinds : faults[k] \in Nat
BY DEF GraduationTypeOK, Fault

LEMMA AnsweredStep ==
  ASSUME GraduationTypeOK, [Next]_vars, Answered'
  PROVE  /\ Answered
         /\ ~LoseCall /\ ~CallTimesOut /\ ~ProcessDies /\ ~GovernanceRestarts
         /\ ThreadDies => AtLeastOnce
<1>1. ASSUME NEW kind \in {"lost", "slow", "process", "governance"} PROVE ~Fault(kind)
  BY <1>1, FaultCounted DEF Answered, FaultKinds
<1>2. ~LoseCall /\ ~CallTimesOut /\ ~ProcessDies /\ ~GovernanceRestarts
  BY <1>1 DEF LoseCall, CallTimesOut, ProcessDies, GovernanceRestarts
<1>3. CASE ThreadDies
  <2>1. Fault("thread")
    BY <1>3 DEF ThreadDies
  <2>2. /\ faults'["thread"] = faults["thread"] + 1 /\ faults["thread"] \in Nat
        /\ \A k \in {"lost", "slow", "process", "governance"} : faults'[k] = faults[k]
    BY <2>1, FaultCounted DEF FaultKinds
  <2>3. QED
    BY <1>2, <2>2 DEF Answered
<1>4. CASE ~ThreadDies
  <2>1. UNCHANGED faults
    BY <1>2, <1>4
    DEF Next, Consume, Run, TakeOutcome, Label, Judge, CallRefused, MarkDone, Acknowledge,
        Call, StartRun, EndRun, Act, Serve, bounds, vars
  <2>2. QED
    BY <1>2, <1>4, <2>1 DEF Answered
<1>5. QED
  BY <1>3, <1>4

LEMMA HandStep ==
  ASSUME GraduationTypeOK, HandInv, [Next]_vars PROVE HandInv'
<1>1. CASE TakeOutcome
  BY <1>1 DEF TakeOutcome, HandInv
<1>2. CASE MarkDone
  BY <1>2 DEF MarkDone, Goto, HandInv
<1>3. CASE ThreadDies \/ ProcessDies \/ Acknowledge
  BY <1>3 DEF ThreadDies, ProcessDies, Abandon, Acknowledge, HandInv
<1>4. CASE Label \/ Judge \/ CallRefused \/ LoseCall \/ CallTimesOut \/ \E t \in Threads : Call(t)
  BY <1>4
  DEF Label, Judge, CallRefused, LoseCall, CallTimesOut, Call, Goto, Settle, Calling, HandInv
<1>5. CASE GovernanceRestarts \/ \E t \in Threads : Serve(t)
  BY <1>5 DEF GovernanceRestarts, Serve, Settle, thread, HandInv
<1>6. CASE Run \/ Act \/ UNCHANGED vars
  BY <1>6 DEF Run, StartRun, EndRun, Act, thread, vars, HandInv
<1>7. QED
  BY <1>1, <1>2, <1>3, <1>4, <1>5, <1>6 DEF Next, Consume

LEMMA RecordStep ==
  ASSUME GraduationTypeOK, RecordInv, [Next]_vars PROVE RecordInv'
<1>0. /\ labelled \subseteq 1 .. Len(outcomes) /\ failures \in [Books -> Nat]
      /\ \A i \in labelled : outcomes'[i] = outcomes[i] /\ outcomes[i].book \in Books
  <2>1. labelled \subseteq 1 .. Len(outcomes) /\ failures \in [Books -> Nat]
        /\ \A i \in labelled : outcomes[i] \in Outcomes
    BY DEF GraduationTypeOK
  <2>2. QED
    BY <2>1, Grows DEF Outcomes
<1>1. CASE Label
  <2>1. /\ cur \in 1 .. Len(outcomes) /\ Outcome.book \in Books
        /\ labelled' = labelled \cup {cur} /\ outcomes' = outcomes
        /\ failures' = [failures EXCEPT ![Outcome.book] =
                          @ + IF Outcome.result = "failed" THEN 1 ELSE 0]
    BY <1>1, InHand DEF Label
  <2>2. /\ \A b \in Books : failures'[b] >= failures[b] /\ failures[b] \in Nat
        /\ Outcome.result = "failed" => failures'[Outcome.book] > 0
    BY <1>0, <2>1
  <2>3. ASSUME NEW i \in labelled', outcomes[i].result = "failed"
        PROVE  failures'[outcomes[i].book] > 0
    <3>1. CASE i \in labelled
      <4>1. outcomes[i].book \in Books /\ failures[outcomes[i].book] > 0
        BY <1>0, <2>3, <3>1 DEF RecordInv
      <4>2. failures'[outcomes[i].book] \in Nat
        BY <1>0, <2>1, <4>1
      <4>3. QED
        BY <2>2, <4>1, <4>2
    <3>2. CASE i = cur
      BY <2>2, <2>3, <3>2 DEF Outcome
    <3>3. QED
      BY <2>1, <3>1, <3>2
  <2>4. QED
    BY <2>1, <2>3 DEF RecordInv
<1>2. CASE ~Label
  <2>1. UNCHANGED <<labelled, failures>>
    BY <1>2
    DEF Next, Consume, Run, TakeOutcome, Acknowledge, Judge, CallRefused, MarkDone, Call,
        StartRun, EndRun, Act, Serve, LoseCall, CallTimesOut, ThreadDies, ProcessDies,
        GovernanceRestarts, training, vars
  <2>2. QED
    BY <1>0, <2>1 DEF RecordInv
<1>3. QED
  BY <1>1, <1>2

LEMMA OwnCallStep ==
  ASSUME GraduationTypeOK, GraduationTypeOK', OwnCallInv, [Next]_vars PROVE OwnCallInv'
<1> SUFFICES ASSUME Answered', NEW t \in Threads,
                    serving'[t].op = "graduate", serving'[t].actor = Feedback
             PROVE  server' = t
  BY DEF OwnCallInv
<1>0. Answered /\ ~LoseCall /\ ~CallTimesOut /\ ~ProcessDies /\ ~GovernanceRestarts
  BY AnsweredStep
<1>1. server = t => pc \in Calling
  BY DEF GraduationTypeOK
<1>2. CASE serving'[t] = serving[t]
  <2>1. server = t
    BY <1>0, <1>2 DEF OwnCallInv
  <2>2. CASE \E u \in Threads : Serve(u)
    <3>1. PICK u \in Threads : Serve(u)
      BY <2>2
    <3>2. CASE u = t
      <4>1. serving'[t] \in {Idle, [serving[t] EXCEPT !.op = "enter"]}
        BY <3>1, <3>2
        DEF Serve, Handle, WriteMode, SetStatus, EnterRegistry, GraduationTypeOK,
            RegistryTypeOK
      <4>2. serving[t] \in Requests \cup {Idle}
        BY DEF GraduationTypeOK, RegistryTypeOK
      <4>3. QED
        BY <4>1, <4>2 DEF Idle, Requests
    <3>3. CASE u # t
      BY <2>1, <3>1, <3>3 DEF Serve, thread
    <3>4. QED
      BY <3>2, <3>3
  <2>3. CASE ~\E u \in Threads : Serve(u)
    <3>1. server' = server
      BY <1>0, <1>1, <2>1, <2>3
      DEF Next, Consume, Run, TakeOutcome, Label, Acknowledge, Judge, CallRefused, MarkDone,
          Call, StartRun, EndRun, Act, ThreadDies, Goto, Calling, thread, vars
    <3>2. QED
      BY <2>1, <3>1
  <2>4. QED
    BY <2>2, <2>3
<1>3. CASE serving'[t] # serving[t]
  <2>1. CASE Act
    <3>1. PICK p \in People, b \in Books : BeginGraduate(t, p, b)
      BY <1>3, <2>1
      DEF Act, Register, BeginGraduate, BeginDemote, BeginApprove, BeginReject, Begin,
          Propose, ResetProposals, GraduationTypeOK, RegistryTypeOK
    <3>2. serving'[t].actor = p
      BY <3>1 DEF BeginGraduate, Begin, GraduationTypeOK, RegistryTypeOK
    <3>3. QED
      BY <3>2 DEF People
  <2>2. ASSUME NEW u \in Threads, Call(u) PROVE server' = t
    BY <1>3, <2>2
    DEF Call, BeginGraduate, BeginDemote, Begin, GraduationTypeOK, RegistryTypeOK
  <2>3. ASSUME NEW u \in Threads, Serve(u) PROVE FALSE
    <3>1. serving'[t] \in {Idle, [serving[t] EXCEPT !.op = "enter"]}
      BY <1>3, <2>3
      DEF Serve, Handle, WriteMode, SetStatus, EnterRegistry, GraduationTypeOK,
          RegistryTypeOK
    <3>2. serving[t] \in Requests \cup {Idle}
      BY DEF GraduationTypeOK, RegistryTypeOK
    <3>3. QED
      BY <3>1, <3>2 DEF Idle, Requests
  <2>4. CASE ~Act /\ ~\E u \in Threads : Call(u) \/ Serve(u)
    BY <1>0, <1>3, <2>4
    DEF Next, Consume, Run, TakeOutcome, Label, Acknowledge, Judge, CallRefused, MarkDone,
        StartRun, EndRun, ThreadDies, registryVars, vars
  <2>5. QED
    BY <2>1, <2>2, <2>3, <2>4
<1>4. QED
  BY <1>2, <1>3

(* What is automatic by feedback's word and has a failure on record was so *)
(* before.                                                                 *)
LEMMA FeedbackStays ==
  ASSUME GraduationTypeOK, EarnedInv, OwnCallInv, [Next]_vars, Answered',
         NEW b \in Books, failures'[b] > 0, ByFeedback(b)'
  PROVE  ByFeedback(b)
<1>1. CASE registry'[b] = registry[b]
  BY <1>1 DEF ByFeedback
<1>2. CASE registry'[b] # registry[b]
  <2>1. PICK t \in Threads :
          /\ Serve(t)
          /\ serving[t].op = "graduate" /\ serving[t].book = b
          /\ serving[t].actor = Feedback
    BY <1>2, RegistryChange DEF EarnedInv, ByFeedback, People
  <2>2. server = t
    BY <2>1, AnsweredStep DEF OwnCallInv
  <2>3. pc = "graduating" /\ Outcome.book = b
    BY <2>1, <2>2 DEF GraduationTypeOK, Calling, Outcome
  <2>4. failures[b] = 0 /\ failures' = failures
    BY <2>1, <2>3 DEF EarnedInv, AskingInv, Serve, training
  <2>5. QED
    BY <2>4
<1>3. QED
  BY <1>1, <1>2

LEMMA DemotedStep ==
  ASSUME GraduationTypeOK, GraduationTypeOK', EarnedInv, FailureInv, RecordInv', [Next]_vars
  PROVE  DemotedInv'
<1> SUFFICES ASSUME Answered', NEW i \in labelled', Unattended(outcomes'[i]),
                    registry'[outcomes'[i].book].mode = "auto",
                    registry'[outcomes'[i].book].by = Feedback
             PROVE  i = At' /\ i \notin done' /\ pc' \notin {"mark", "ack"}
  BY DEF DemotedInv, Unattended, ByFeedback
<1>0. Answered /\ ~LoseCall /\ ~CallTimesOut /\ ~ProcessDies /\ ~GovernanceRestarts
      /\ (ThreadDies => AtLeastOnce)
  BY AnsweredStep
<1>a. PICK b \in Books : b = outcomes'[i].book
  <2>1. outcomes'[i] \in Outcomes
    BY DEF GraduationTypeOK
  <2>2. outcomes'[i].book \in Books
    BY <2>1 DEF Outcomes
  <2>3. QED
    BY <2>2
<1>1. failures'[b] > 0 /\ outcomes'[i].result = "failed" /\ i \in Nat /\ i >= 1
  <2>1. i \in Nat /\ i >= 1
    BY DEF GraduationTypeOK
  <2>2. QED
    BY <1>a, <2>1 DEF RecordInv, Unattended
<1>2. ByFeedback(b)' /\ ByFeedback(b)
  <2>1. ByFeedback(b)'
    BY <1>a DEF ByFeedback
  <2>2. QED
    BY <1>1, <2>1, FeedbackStays DEF FailureInv
<1>3. CASE i \notin labelled
  <2>1. Label
    BY <1>3
    DEF Next, Consume, Run, TakeOutcome, Acknowledge, Judge, CallRefused, MarkDone, Call,
        StartRun, EndRun, Act, Serve, LoseCall, CallTimesOut, ThreadDies, ProcessDies,
        GovernanceRestarts, training, vars
  <2>2. i = cur /\ pc = "label" /\ pc' = "judge" /\ UNCHANGED <<head, cur, done>>
    BY <1>3, <2>1 DEF Label, Goto
  <2>3. cur \notin done /\ (AtLeastOnce => head = cur)
    BY <2>2, InHand DEF FailureInv, HandInv
  <2>4. QED
    BY <2>2, <2>3 DEF At
<1>4. CASE i \in labelled
  <2>1. outcomes'[i] = outcomes[i]
    BY <1>4, Grows DEF GraduationTypeOK
  <2>2. i = At /\ i \notin done /\ pc \notin {"mark", "ack"}
    BY <1>0, <1>2, <1>4, <1>a, <2>1 DEF FailureInv, DemotedInv
  <2>3. failures[b] > 0
    BY <1>1, <1>4, <1>a, <2>1 DEF FailureInv, RecordInv
  <2>4. pc # "idle" => i = cur /\ Outcome = outcomes[i] /\ Outcome.book = b /\ Unattended(Outcome)
                       /\ pc \notin {"graduate", "graduating"}
    <3>1. pc # "idle" => i = cur
      BY <2>2, InHand DEF At
    <3>2. QED
      BY <1>a, <2>1, <2>3, <3>1 DEF Outcome, EarnedInv, AskingInv
  <2>5. CASE TakeOutcome
    <3>1. /\ pc = "idle" /\ cur' = head
          /\ pc' = CASE head \in done -> "ack"
                     [] head \notin done /\ outcomes[head].result = "undecided" -> "mark"
                     [] OTHER -> "label"
          /\ head' = (IF AtLeastOnce THEN head ELSE head + 1) /\ done' = done
      BY <2>5 DEF TakeOutcome
    <3>2. AtLeastOnce /\ i = head
      BY <1>1, <2>2, <3>1 DEF At, FailureInv, HandInv
    <3>3. pc' = "label"
      BY <1>1, <2>1, <2>2, <3>1, <3>2
    <3>4. QED
      BY <2>2, <3>1, <3>2, <3>3 DEF At
  <2>6. CASE Label
    BY <2>2, <2>6 DEF Label, Goto, At
  <2>7. CASE Judge
    BY <2>2, <2>4, <2>7 DEF Judge, Goto, At
  <2>8. ASSUME CallRefused PROVE FALSE
    <3>1. pc = "demote" /\ ~May(Feedback, "graduate")
      BY <1>2, <2>4, <2>8 DEF CallRefused, ByFeedback
    <3>2. May(registry[b].by, "graduate")
      BY <1>1, <1>2 DEF EarnedInv, AutoIsEarned, Automatic, ByFeedback
    <3>3. QED
      BY <1>2, <3>1, <3>2 DEF ByFeedback
  <2>9. ASSUME NEW t \in Threads, Call(t)
        PROVE  i = At' /\ i \notin done' /\ pc' \notin {"mark", "ack"}
    <3>1. UNCHANGED <<head, cur, done>> /\ pc' \in Calling
      BY <2>9 DEF Call, BeginGraduate, BeginDemote, Calling
    <3>2. QED
      BY <2>2, <3>1 DEF At, Calling
  <2>10. ASSUME NEW t \in Threads, Serve(t)
         PROVE  i = At' /\ i \notin done' /\ pc' \notin {"mark", "ack"}
    <3>1. UNCHANGED <<head, done>>
      BY <2>10 DEF Serve
    <3>2. CASE server # t
      BY <2>2, <2>10, <3>1, <3>2 DEF Serve, thread, At
    <3>3. ASSUME server = t PROVE FALSE
      <4>1. pc = "demoting" /\ serving[t].op = "demote" /\ serving[t].book = b
        BY <2>4, <3>3 DEF GraduationTypeOK, Calling, Outcome
      <4>2. registry' = [registry EXCEPT ![b] = [mode |-> "hitl", by |-> serving[t].actor]]
        BY <2>10, <4>1 DEF Serve, Handle, WriteMode, SetStatus, EnterRegistry
      <4>3. registry'[b].mode = "hitl"
        BY <1>1, <4>2 DEF GraduationTypeOK, RegistryTypeOK
      <4>4. QED
        BY <1>2, <4>3 DEF ByFeedback
    <3>4. QED
      BY <3>2, <3>3
  <2>11. CASE ThreadDies
    BY <1>0, <2>2, <2>11 DEF ThreadDies, Abandon, At
  <2>12. CASE Run \/ Act \/ UNCHANGED vars
    BY <2>2, <2>12 DEF Run, StartRun, EndRun, Act, thread, vars, At
  <2>13. ~MarkDone /\ ~Acknowledge
    BY <2>2 DEF MarkDone, Acknowledge
  <2>14. QED
    BY <1>0, <2>5, <2>6, <2>7, <2>8, <2>9, <2>10, <2>11, <2>12, <2>13 DEF Next, Consume
<1>5. QED
  BY <1>3, <1>4

LEMMA FailureStep ==
  GraduationTypeOK /\ GraduationTypeOK' /\ EarnedInv /\ FailureInv /\ [Next]_vars => FailureInv'
<1> SUFFICES ASSUME GraduationTypeOK, GraduationTypeOK', EarnedInv, FailureInv, [Next]_vars
             PROVE  FailureInv'
  OBVIOUS
<1>1. HandInv' /\ RecordInv' /\ OwnCallInv'
  BY HandStep, RecordStep, OwnCallStep DEF FailureInv
<1>2. QED
  BY <1>1, DemotedStep DEF FailureInv

(* While every call is answered, a playbook that failed unattended is not  *)
(* automatic by feedback's word once the consumer has passed that outcome, *)
(* through redeliveries and deaths of its thread (consumer.py:46-57).      *)
THEOREM UnattendedFailureDemotesHolds == Spec => []UnattendedFailureDemotes
<1>1. FailureInv => UnattendedFailureDemotes
  BY DEF FailureInv, DemotedInv, Answered, UnattendedFailureDemotes, ByFeedback, Automatic, At
<1>2. QED
  BY TypeCorrect, EarnedCorrect, FailureInit, FailureStep, <1>1, PTL DEF Spec
=============================================================================
