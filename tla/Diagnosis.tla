------------------------------ MODULE Diagnosis ------------------------------
(***************************************************************************)
(* The learning loop around a diagnosis: correlation marks what has been   *)
(* fixed reliably (services/correlation/engine.py), rca-service ranks the  *)
(* causes and names a runbook (services/rca/rank.py, consumer.py, app.py), *)
(* action-service decides whether the fix needs a human                    *)
(* (services/action/consumer.py), feedback-service records what became of  *)
(* it, and what is recorded is the evidence (common/evidence.py) for the   *)
(* next time. Three readers keep three views of the records: correlation a *)
(* map by signature and rca a table by runbook, each as old as its last    *)
(* refresh, and action reads them afresh.                                  *)
(*                                                                         *)
(* Queues stand for the topics of the bus, which deliver in order and once *)
(* (EventBus.tla); the gates of a run are its verdict (Remediation.tla);   *)
(* the registry's calls are writes of a playbook's mode (Registry.tla).    *)
(* Confidences and shares are in ten-thousandths.                          *)
(***************************************************************************)
EXTENDS Integers, Sequences, FiniteSets, FiniteSetsExt

CONSTANTS
  Signatures,   \* the signatures of the situations that occur
  Signs,        \* what the names of a signature's events show, by signature
  Books,        \* the playbook ids the registry may hold
  Fits,         \* what a cosine similarity may come to
  NoFit,        \* no similarity: no symptoms, or the model failed
  SelectAt,     \* runbook_selector_threshold
  SuppressAt,   \* reliability_suppress_threshold
  MinSamples,   \* reliability_suppress_min_samples
  Deployments,  \* the settings of the services: see DiagnosisAssumption
  Registries,   \* what the registry may hold at first
  MaxIncidents, \* bound: situations in a behaviour
  MaxChanges,   \* bound: registry writes in a behaviour
  MaxFaults     \* bound: outcomes labelled twice in a behaviour

One == 10000
None == "none"

(* embedding: runbook_selector_mode; drop: suppression_mode;               *)
(* skip: quiet_skip_approval; executor: remediator_mode at first.          *)
Settings == [embedding : BOOLEAN, drop : BOOLEAN, skip : BOOLEAN,
             executor : {"dry_run", "k8s"}]
Modes == {"absent", "hitl", "auto", "disabled"}

ASSUME DiagnosisAssumption ==
  /\ Signs \in [Signatures -> SUBSET {"down", "memory", "saturation", "latency",
                                      "db_pool", "error"}]
  /\ IsFiniteSet(Books)
  /\ {"rollback-deploy", "restart-pod", "scale-service"} \subseteq Books
  /\ None \notin Books
  /\ Fits \subseteq -One .. One /\ NoFit \notin Fits
  /\ SelectAt \in 0 .. One /\ SuppressAt \in 0 .. One
  /\ MinSamples \in Nat
  /\ Deployments \subseteq Settings
  /\ Registries \subseteq [Books -> Modes]
  /\ {MaxIncidents, MaxChanges, MaxFaults} \subseteq Nat

VARIABLES
  settings,   \* how the services are deployed
  registry,   \* the mode each playbook is registered with
  records,    \* the training store: rows and rows that worked, and the same
              \* of real runs only, by signature and playbook
  quieted,    \* correlation: the signatures its reliability map suppresses
  table,      \* rca: the share of rows that worked when it last read them
  detected,   \* the topic situations.detected
  ranking,    \* rca: the hypotheses it has ranked, <<>> between situations
  diagnosed,  \* the topic situations.diagnosed
  hand,       \* action: the situation it works on, and how far it is
  outcomes,   \* the topic remediation.outcomes
  fixed,      \* history: runs on the cluster that worked
  incidents,  \* history: how many situations there were
  changes,    \* history: how many registry writes
  faults      \* history: how many outcomes were labelled twice

topics == <<detected, diagnosed, outcomes>>
stores == <<registry, records>>
views == <<quieted, table>>
history == <<fixed, incidents, changes, faults>>
vars == <<settings, stores, views, topics, ranking, hand, history>>

Hypotheses == [book : Books \cup {None}, confidence : 0 .. One]
Situations == [sig : Signatures, quiet : BOOLEAN]
Diagnoses == [sig : Signatures, quiet : BOOLEAN, book : Books \cup {None}]
Rows == [sig : Signatures, book : Books, real : BOOLEAN, worked : BOOLEAN]
Counts == [all : Nat, good : Nat, real : Nat, worked : Nat]
NoRows == [all |-> 0, good |-> 0, real |-> 0, worked |-> 0]
Idle == [stage |-> "idle"]
Hands == [stage : {"select"}, sig : Signatures, quiet : BOOLEAN, book : Books \cup {None}]
  \cup [stage : {"quiet"}, sig : Signatures, book : Books, mode : Modes]
  \cup [stage : {"run"}, sig : Signatures, book : Books, mode : Modes, waived : BOOLEAN]

DiagnosisTypeOK ==
  /\ settings \in Settings
  /\ registry \in [Books -> Modes]
  /\ records \in [Signatures -> [Books -> Counts]]
  /\ quieted \subseteq Signatures
  /\ table \in [Signatures -> [Books -> 0 .. One]]
  /\ detected \in Seq(Situations)
  /\ diagnosed \in Seq(Diagnoses)
  /\ outcomes \in Seq(Rows)
  /\ ranking \in Seq(Hypotheses)
  /\ ranking # <<>> => detected # <<>>
  /\ hand \in Hands \cup {Idle}
  /\ fixed \in [Signatures -> [Books -> Nat]]
  /\ incidents \in 0 .. MaxIncidents
  /\ changes \in 0 .. MaxChanges
  /\ faults \in 0 .. MaxFaults

Init ==
  /\ settings \in Deployments
  /\ registry \in Registries
  /\ records = [s \in Signatures |-> [b \in Books |-> NoRows]]
  /\ quieted = {}
  /\ table = [s \in Signatures |-> [b \in Books |-> 0]]
  /\ detected = <<>> /\ diagnosed = <<>> /\ outcomes = <<>>
  /\ ranking = <<>>
  /\ hand = Idle
  /\ fixed = [s \in Signatures |-> [b \in Books |-> 0]]
  /\ incidents = 0 /\ changes = 0 /\ faults = 0

------------------------------------------------------------------------------
(* What counts as evidence (common/evidence.py), and who reads it.         *)

(* What the playbooks have together, counted one by one.                   *)
Sum(of) == Cardinality(UNION {{b} \X (1 .. of[b]) : b \in Books})

AtLeast(good, total, share) == good * One >= share * total

(* The record of a signature, of all playbooks or of one: real runs only.  *)
SignatureRecord(sig) ==
  [worked |-> Sum([b \in Books |-> records[sig][b].worked]),
   total |-> Sum([b \in Books |-> records[sig][b].real])]

(* Bug: any playbook's record speaks for this one.                         *)
TrackRecordOfSignature(sig, book) == SignatureRecord(sig)

TrackRecord(sig, book) ==
  [worked |-> records[sig][book].worked, total |-> records[sig][book].real]

QuietEligible(sig, book) ==
  LET evidence == TrackRecord(sig, book)
  IN  /\ evidence.total >= Max({1, MinSamples})
      /\ AtLeast(evidence.worked, evidence.total, SuppressAt)

(* should_suppress: nothing is recorded of a signature at reliability 0.   *)
ShouldSuppress(sig) ==
  LET evidence == SignatureRecord(sig)
  IN  /\ evidence.total >= MinSamples
      /\ IF evidence.total = 0 THEN SuppressAt = 0
                               ELSE AtLeast(evidence.worked, evidence.total, SuppressAt)

(* rca's table does not leave the dry runs out.                            *)
Reliability(sig, book) ==
  LET row == records[sig][book]
  IN  IF row.all = 0 THEN 0 ELSE (row.good * One) \div row.all

(* The flusher's refresh of correlation's map.                             *)
RefreshReliability ==
  /\ quieted' = {s \in Signatures : ShouldSuppress(s)}
  /\ UNCHANGED <<settings, stores, table, topics, ranking, hand, history>>

(* A window collapses: the situation is published, quietly, or dropped.    *)
Emit(sig) ==
  /\ incidents < MaxIncidents
  /\ incidents' = incidents + 1
  /\ detected' = IF sig \in quieted /\ settings.drop
                 THEN detected
                 ELSE Append(detected, [sig |-> sig, quiet |-> sig \in quieted])
  /\ UNCHANGED <<settings, stores, views, diagnosed, outcomes, ranking, hand,
                 fixed, changes, faults>>

------------------------------------------------------------------------------
(* rca-service: rank the causes, then name a runbook.                      *)

(* A rule that fires appends its hypothesis.                               *)
Rule(sign, confidence, book, signs) ==
  IF sign \in signs THEN <<[book |-> book, confidence |-> confidence]>> ELSE <<>>

Fallback == [book |-> None, confidence |-> 2000]

Fired(signs) ==
  LET hits == Rule("deploy", 8000, "rollback-deploy", signs)
              \o Rule("down", 7000, "restart-pod", signs)
              \o Rule("memory", 6500, "restart-pod", signs)
              \o Rule("saturation", 6000, "scale-service", signs)
              \o Rule("latency", 5500, "scale-service", signs)
              \o Rule("db_pool", 6200, "restart-pod", signs)
              \o Rule("error", 5800, "restart-pod", signs)
  IN  IF hits = <<>> THEN <<Fallback>> ELSE hits

Registered(book) == book # None /\ registry[book] # "absent"

(* Bug: a cosine similarity taken as it is.                                *)
ScoredUnclamped(hyps, fit) ==
  [i \in DOMAIN hyps |->
     IF settings.embedding /\ Registered(hyps[i].book) /\ fit[i] # NoFit
     THEN [hyps[i] EXCEPT !.confidence = fit[i]]
     ELSE hyps[i]]

(* The selector's fit replaces a rule's confidence, if there is one.       *)
Scored(hyps, fit) ==
  [i \in DOMAIN hyps |->
     IF settings.embedding /\ Registered(hyps[i].book) /\ fit[i] # NoFit
     THEN [hyps[i] EXCEPT !.confidence = Max({0, fit[i]})]
     ELSE hyps[i]]

(* Bug: the reliability carries its whole weight.                          *)
BoostWhole(hyp, shares) == IF hyp.book = None THEN 0 ELSE shares[hyp.book]

(* _RELIABILITY_WEIGHT is 0.15.                                            *)
Boost(hyp, shares) == IF hyp.book = None THEN 0 ELSE (15 * shares[hyp.book]) \div 100

Score(hyp, shares) == Min({One, hyp.confidence + Boost(hyp, shares)})

(* Best first, by confidence between equal scores, and otherwise in the    *)
(* order they came in: the sort is stable, and there is one such order.    *)
Ranked(hyps, shares) ==
  LET Better(i, j) ==
        LET a == Score(hyps[i], shares)
            b == Score(hyps[j], shares)
        IN  \/ a > b
            \/ a = b /\ hyps[i].confidence > hyps[j].confidence
            \/ a = b /\ hyps[i].confidence = hyps[j].confidence /\ i < j
      orders == {f \in Injection(DOMAIN hyps, DOMAIN hyps) :
                   \A i, j \in DOMAIN hyps : i < j => Better(f[i], f[j])}
  IN  {[i \in DOMAIN hyps |-> hyps[f[i]]] : f \in orders}

(* The table is read again when it is old, if the store answers; the       *)
(* fallback asks for no reliability.                                       *)
RankHypotheses ==
  /\ detected # <<>> /\ ranking = <<>>
  /\ LET sig == Head(detected).sig
     IN  \E deployed \in SUBSET {"deploy"} :
           LET fired == Fired(Signs[sig] \cup deployed)
               fits == [DOMAIN fired -> IF settings.embedding THEN Fits \cup {NoFit}
                                                             ELSE {NoFit}]
           IN  \E hyps \in {Scored(fired, fit) : fit \in fits} :
                 /\ \/ table' = table
                    \/ /\ fired # <<Fallback>>
                       /\ table' = [s \in Signatures |->
                                      [b \in Books |-> Reliability(s, b)]]
                 /\ ranking' \in Ranked(hyps, table'[sig])
  /\ UNCHANGED <<settings, stores, quieted, topics, hand, history>>

(* A semantic match: the best fit at the threshold or above it.            *)
Matches(fit) ==
  {b \in Books : /\ Registered(b) /\ fit[b] # NoFit /\ fit[b] >= SelectAt
                 /\ \A c \in Books : Registered(c) /\ fit[c] # NoFit => fit[c] <= fit[b]}

(* The rules' runbook if it is registered, else a semantic match, else the *)
(* top hypothesis is published as it is.                                   *)
SelectRunbook ==
  /\ ranking # <<>>
  /\ LET top == ranking[1].book
     IN  \E fit \in [Books -> IF settings.embedding /\ ~Registered(top)
                              THEN Fits \cup {NoFit} ELSE {NoFit}] :
           \E book \in IF Matches(fit) = {} THEN {top} ELSE Matches(fit) :
             diagnosed' = Append(diagnosed, [sig |-> Head(detected).sig,
                                             quiet |-> Head(detected).quiet,
                                             book |-> book])
  /\ detected' = Tail(detected)
  /\ ranking' = <<>>
  /\ UNCHANGED <<settings, stores, views, outcomes, hand, history>>

------------------------------------------------------------------------------
(* action-service: the playbook, the human it may do without, the run.     *)

TakeDiagnosis ==
  /\ hand = Idle
  /\ diagnosed # <<>>
  /\ LET d == Head(diagnosed)
     IN  hand' = [stage |-> "select", sig |-> d.sig, quiet |-> d.quiet, book |-> d.book]
  /\ diagnosed' = Tail(diagnosed)
  /\ UNCHANGED <<settings, stores, views, detected, outcomes, ranking, history>>

(* Nothing to run: an escalation, which feedback passes over.              *)
Escalate ==
  /\ hand.stage = "select"
  /\ ~Registered(hand.book)
  /\ hand' = Idle
  /\ UNCHANGED <<settings, stores, views, topics, ranking, history>>

(* Only a playbook that would ask a human has anything to waive.           *)
SelectPlaybook ==
  /\ hand.stage = "select"
  /\ Registered(hand.book)
  /\ LET mode == registry[hand.book]
     IN  hand' = IF hand.quiet /\ mode = "hitl" /\ settings.skip
                 THEN [stage |-> "quiet", sig |-> hand.sig, book |-> hand.book, mode |-> mode]
                 ELSE [stage |-> "run", sig |-> hand.sig, book |-> hand.book, mode |-> mode,
                       waived |-> FALSE]
  /\ UNCHANGED <<settings, stores, views, topics, ranking, history>>

(* The records are read afresh; unreadable, they are no evidence.          *)
QuietDecision ==
  /\ hand.stage = "quiet"
  /\ \E readable \in BOOLEAN :
       hand' = [stage |-> "run", sig |-> hand.sig, book |-> hand.book, mode |-> hand.mode,
                waived |-> readable /\ QuietEligible(hand.sig, hand.book)]
  /\ UNCHANGED <<settings, stores, views, topics, ranking, history>>

Unattended == hand.mode = "auto" \/ hand.waived

Finish(real, worked) ==
  /\ outcomes' = Append(outcomes, [sig |-> hand.sig, book |-> hand.book,
                                   real |-> real, worked |-> worked])
  /\ hand' = Idle
  /\ UNCHANGED <<settings, stores, views, detected, diagnosed, ranking, incidents,
                 changes, faults>>

(* A gate or a human says no: _outcome's default mode is dry_run.          *)
Refuse ==
  /\ hand.stage = "run"
  /\ Finish(FALSE, FALSE)
  /\ UNCHANGED fixed

(* The rehearsal fails and nobody is there to decide: a row in the         *)
(* executor's mode, though nothing ran.                                    *)
Block ==
  /\ hand.stage = "run"
  /\ hand.mode # "disabled" /\ Unattended
  /\ Finish(settings.executor = "k8s", FALSE)
  /\ UNCHANGED fixed

(* A dry run is always healthy.                                            *)
Execute ==
  /\ hand.stage = "run"
  /\ hand.mode # "disabled"
  /\ \E worked \in BOOLEAN :
       /\ settings.executor = "dry_run" => worked
       /\ Finish(settings.executor = "k8s", worked)
       /\ fixed' = IF settings.executor = "k8s" /\ worked
                   THEN [fixed EXCEPT ![hand.sig][hand.book] = @ + 1]
                   ELSE fixed

------------------------------------------------------------------------------
(* feedback-service, and the people who run the platform.                  *)

One01(condition) == IF condition THEN 1 ELSE 0

(* A death between the append and the acknowledgement leaves the outcome   *)
(* on the topic, and it is labelled again.                                 *)
LabelOutcome ==
  /\ outcomes # <<>>
  /\ LET o == Head(outcomes)
     IN  records' = [records EXCEPT ![o.sig][o.book] =
           [all |-> @.all + 1,
            good |-> @.good + One01(o.worked),
            real |-> @.real + One01(o.real),
            worked |-> @.worked + One01(o.real /\ o.worked)]]
  /\ \/ outcomes' = Tail(outcomes) /\ UNCHANGED faults
     \/ /\ faults < MaxFaults
        /\ faults' = faults + 1
        /\ UNCHANGED outcomes
  /\ UNCHANGED <<settings, registry, views, detected, diagnosed, ranking, hand,
                 fixed, incidents, changes>>

(* A playbook is registered, graduated, demoted or disabled.               *)
Govern(book, mode) ==
  /\ changes < MaxChanges
  /\ changes' = changes + 1
  /\ mode # registry[book]
  /\ mode # "absent"
  /\ registry' = [registry EXCEPT ![book] = mode]
  /\ UNCHANGED <<settings, records, views, topics, ranking, hand, fixed, incidents, faults>>

(* The platform is moved from rehearsing to the cluster, between two runs. *)
SwitchExecutor ==
  /\ settings.executor = "dry_run"
  /\ hand = Idle
  /\ settings' = [settings EXCEPT !.executor = "k8s"]
  /\ UNCHANGED <<stores, views, topics, ranking, hand, history>>

Next ==
  \/ RefreshReliability
  \/ \E s \in Signatures : Emit(s)
  \/ RankHypotheses
  \/ SelectRunbook
  \/ TakeDiagnosis
  \/ Escalate
  \/ SelectPlaybook
  \/ QuietDecision
  \/ Refuse
  \/ Block
  \/ Execute
  \/ LabelOutcome
  \/ \E b \in Books, m \in Modes : Govern(b, m)
  \/ SwitchExecutor

Spec == Init /\ [][Next]_vars

------------------------------------------------------------------------------
(* Runs that worked are enough: the samples the settings ask for, at their *)
(* share, but for one repeated row for each fault.                         *)
Enough(worked) == AtLeast(worked + faults, Max({1, MinSamples}), SuppressAt)

(* A human is left out only for a playbook that has really fixed this      *)
(* signature often enough: not on dry runs, not on another playbook's      *)
(* record, not on another signature's (evidence.py:13-16, consumer.py:62). *)
WaivedOnOwnRecord ==
  hand.stage = "run" /\ hand.waived => Enough(fixed[hand.sig][hand.book])

(* A situation is marked quiet, or dropped, only where real runs fixed the *)
(* signature often enough, whatever they were (engine.py:175-184).         *)
QuietOnRealRuns ==
  \A s \in Signatures :
    \/ s \in quieted
    \/ \E i \in DOMAIN detected : detected[i].sig = s /\ detected[i].quiet
    => Enough(Sum(fixed[s]))

(* What the records earn: both views, however old, rest on real successes. *)
UnattendedIsEarned == WaivedOnOwnRecord /\ QuietOnRealRuns

(* A track record may lift a cause over a better one, but never over one   *)
(* ahead by more than its weight (rank.py:26-30): the order of what rca    *)
(* publishes never inverts a large gap, with embedded confidences too.     *)
BoostIsBounded ==
  \A i, j \in DOMAIN ranking :
    i < j => ranking[j].confidence - ranking[i].confidence <= 1500
=============================================================================
