-------------------------------- MODULE Cluster --------------------------------
(***************************************************************************)
(* The adapters through which action-service touches a Kubernetes cluster: *)
(* the rehearsal on a clone (adapters/sandbox.py), the remediator          *)
(* (adapters/k8s_remediator.py), the health check (adapters/k8s_health.py) *)
(* and its recovery predicate (verify.py), driven as execute_remediation   *)
(* drives them, beside the Deployment controller that rolls pods.          *)
(*                                                                         *)
(* The API server and the controller are external: an API call may fail,   *)
(* or take effect and lose its reply; the controller reports the counts it *)
(* saw when it last synced.  A count of zero is absent from the JSON, which*)
(* is why the code reads "ready_replicas or 0".                            *)
(***************************************************************************)
EXTENDS Integers, Sequences, FiniteSets

CONSTANTS
  Plans,        \* the remediation plans: steps and rollback steps
  Metrics,      \* the shapes of the metric that fired
  Values,       \* the values a metric query may return
  ZThreshold,   \* correlation_z_threshold
  Ceiling,      \* detection_latency_ceiling_ms
  RatioCut,     \* detection_ratio_threshold
  MinReplicas,  \* _MIN_REPLICAS
  MaxReplicas,  \* _MAX_REPLICAS
  Originals,    \* the replicas production may start with
  HasRevision,  \* production's history holds the revision a step may name
  MaxFaults     \* bound: failed calls in a behaviour

Actions == {"wait", "template", "scale", "revision"}
Step == [action : Actions, replicas : Int]

(* A metric's kind as detection_policy classifies it ("log" for an event   *)
(* without a value), whether the policy is on, and its baseline; a spread  *)
(* of -1 is no baseline, 0 a flat one.                                     *)
ASSUME ClusterAssumption ==
  /\ Plans \subseteq [steps : Seq(Step), undo : Seq(Step)]
  /\ Metrics \subseteq [kind : {"log", "default", "ratio", "latency"},
                        policy : BOOLEAN, mean : Nat, spread : Nat \cup {-1}]
  /\ Values \subseteq Nat
  /\ ZThreshold \in Nat /\ Ceiling \in Nat /\ RatioCut \in Nat
  /\ MinReplicas \in Nat \ {0} /\ MaxReplicas \in Nat /\ MinReplicas <= MaxReplicas
  /\ Originals \subseteq MinReplicas .. MaxReplicas
  /\ HasRevision \in BOOLEAN
  /\ MaxFaults \in Nat

Prod == "production"
Clone == "sandbox"
Spaces == {Prod, Clone}
NoValue == -1
NoScale == -1

VARIABLES
  plan,       \* the plan in hand
  metric,     \* the metric that fired
  original,   \* history: production's replicas before anything ran
  spec,       \* [Spaces -> the Deployment's replicas and generation, and whether it exists]
  pods,       \* [Spaces -> pods of older templates, of this one starting, and ready]
  status,     \* [Spaces -> the counts, and the generation, of the last sync]
  namespace,  \* the throwaway namespace exists
  revisions,  \* the clone's history was seeded
  pc,         \* the call the action thread is about to make
  todo,       \* the steps it has yet to dispatch
  current,    \* the replicas a scale step read, or NoScale
  preScale,   \* [Spaces -> the replicas recorded before the first scale, or NoScale]
  ready,      \* the pods of the current poll were ready
  verdicts,   \* what each adapter call returned
  seen,       \* history: the status the last ready poll read, and the value accepted
  faults      \* history: failed calls

deployment == <<spec, pods, status>>
thread == <<pc, todo, current, ready>>
vars == <<plan, metric, original, deployment, namespace, revisions, thread,
          preScale, verdicts, seen, faults>>

Rehearsing == {"fetch", "namespace", "create", "seed", "rollout", "apply",
               "rehearse", "teardown"}
Polling == {"rollout", "rehearse", "check"}
Dispatching == {"apply", "execute", "undo"}
Pcs == Rehearsing \cup {"gate", "execute", "check", "undo", "end"}
Calls == {"rehearse", "teardown", "execute", "check", "undo"}
Here == IF pc \in Rehearsing THEN Clone ELSE Prod

Pods == [old : Nat, starting : Nat, ready : Nat]
NoPods == [old |-> 0, starting |-> 0, ready |-> 0]
NoDeployment == [exists |-> FALSE, want |-> MinReplicas, gen |-> 0]
Fresh(replicas) == [exists |-> TRUE, want |-> replicas, gen |-> 1]
NothingSeen == [pods |-> NoPods, gen |-> 0, value |-> NoValue]

ClusterTypeOK ==
  /\ plan \in Plans /\ metric \in Metrics /\ original \in Originals
  /\ spec \in [Spaces -> [exists : BOOLEAN, want : MinReplicas .. MaxReplicas, gen : Nat]]
  /\ pods \in [Spaces -> Pods]
  /\ status \in [Spaces -> [gen : Nat, pods : Pods]]
  /\ \A n \in Spaces : status[n].gen <= spec[n].gen
  /\ namespace \in BOOLEAN /\ revisions \in BOOLEAN
  /\ spec[Clone].exists => namespace
  /\ pc \in Pcs
  /\ todo \in Seq(Step)
  /\ pc \in Polling => todo = <<>>
  /\ current \in MinReplicas .. MaxReplicas \cup {NoScale}
  /\ current # NoScale => pc \in Dispatching /\ todo # <<>> /\ todo[1].action = "scale"
  /\ preScale \in [Spaces -> MinReplicas .. MaxReplicas \cup {NoScale}]
  /\ ready \in BOOLEAN
  /\ ready => pc \in Polling
  /\ verdicts \in [Calls -> {"none", "yes", "no"}]
  /\ seen \in [pods : Pods, gen : Nat, value : Values \cup {NoValue}]
  /\ faults \in 0 .. MaxFaults

Init ==
  /\ plan \in Plans /\ metric \in Metrics /\ original \in Originals
  /\ spec = [n \in Spaces |-> IF n = Prod THEN Fresh(original) ELSE NoDeployment]
  /\ pods = [n \in Spaces |-> IF n = Prod THEN [NoPods EXCEPT !.ready = original] ELSE NoPods]
  /\ status = [n \in Spaces |-> [gen |-> spec[n].gen, pods |-> pods[n]]]
  /\ namespace = FALSE /\ revisions = FALSE
  /\ pc = "fetch" /\ todo = <<>> /\ current = NoScale /\ ready = FALSE
  /\ preScale = [n \in Spaces |-> NoScale]
  /\ verdicts = [c \in Calls |-> "none"]
  /\ seen = NothingSeen /\ faults = 0

------------------------------------------------------------------------------
(* The recovery predicate, and the decision it has to agree with.          *)

Larger(a, b) == IF a >= b THEN a ELSE b
Away(v) == IF v >= metric.mean THEN v - metric.mean ELSE metric.mean - v
FlatStepScore == 6
FlatNormal(v) == 2 * Away(v) <= Larger(metric.mean, 1)

(* RobustCorrelator.detect over a warm window of this median and spread,   *)
(* then DetectionPolicy.is_anomaly: what would open an incident.           *)
DetectScores(v) ==
  IF metric.spread > 0 THEN Away(v) > ZThreshold * metric.spread
  ELSE /\ metric.spread = 0 /\ ~FlatNormal(v)
       /\ \/ FlatStepScore > ZThreshold
          \/ Away(v) > ZThreshold * Larger(metric.mean, 1)
Detected(v) ==
  CASE metric.policy /\ metric.kind = "ratio" -> v > RatioCut
    [] metric.policy /\ metric.kind = "latency" -> DetectScores(v) \/ v > Ceiling
    [] OTHER -> DetectScores(v)

(* verify: _baseline_score, then _recovered.  Scores keep their sign.      *)
HasBaseline == metric.spread >= 0
ScoreAbove(v) ==
  IF metric.spread > 0 THEN v - metric.mean > ZThreshold * metric.spread
  ELSE metric.spread = 0 /\ ~FlatNormal(v) /\ FlatStepScore > ZThreshold
ScoreBelow(v) == metric.spread > 0 /\ metric.mean - v > ZThreshold * metric.spread
ScoreOnly == ~metric.policy \/ metric.kind = "default"
RecoveredSigned(v) ==
  /\ v # NoValue
  /\ IF ScoreOnly THEN HasBaseline /\ ~ScoreAbove(v)
     ELSE ~(IF metric.kind = "ratio" THEN v > RatioCut ELSE ScoreAbove(v) \/ v > Ceiling)
Recovered(v) ==
  /\ v # NoValue
  /\ IF ScoreOnly THEN HasBaseline /\ ~ScoreAbove(v) /\ ~ScoreBelow(v)
     ELSE ~(IF metric.kind = "ratio" THEN v > RatioCut ELSE ScoreAbove(v) \/ v > Ceiling)

(* Nothing to verify when no member event carries a value; the rollout     *)
(* poll of the rehearsal is built without a policy.                        *)
MetricHealthy(v) == pc = "rollout" \/ metric.kind = "log" \/ Recovered(v)

(* _pod_ready: what one read of the Deployment's status says.  An absent   *)
(* updated_replicas (none updated yet) skips its test.                     *)
Total(p) == p.old + p.starting + p.ready
Updated(p) == p.starting + p.ready
PodReadyAnyGeneration(n) ==
  LET p == status[n].pods IN
    /\ Updated(p) # 0 => Updated(p) >= Total(p)
    /\ Total(p) > 0 /\ p.old + p.ready = Total(p)
PodReady(n) ==
  LET p == status[n].pods IN
    /\ status[n].gen >= spec[n].gen
    /\ Updated(p) # 0 => Updated(p) >= Total(p)
    /\ Total(p) > 0 /\ p.old + p.ready = Total(p)

------------------------------------------------------------------------------
(* The Deployment controller and the API server (external).                *)

(* A new template makes every pod old; one not ready yet is thrown away.   *)
NewTemplate(n) ==
  /\ spec' = [spec EXCEPT ![n].gen = @ + 1]
  /\ pods' = [pods EXCEPT ![n] = [NoPods EXCEPT !.old = pods[n].old + pods[n].ready]]
SetReplicas(n, r) ==
  /\ spec' = IF r = spec[n].want THEN spec
             ELSE [spec EXCEPT ![n].want = r, ![n].gen = @ + 1]
  /\ UNCHANGED pods

Sync(n) ==
  /\ spec[n].exists
  /\ status' = [status EXCEPT ![n] = [gen |-> spec[n].gen, pods |-> pods[n]]]
  /\ status' # status
  /\ UNCHANGED <<plan, metric, original, spec, pods, namespace, revisions, thread,
                 preScale, verdicts, seen, faults>>

(* It acts on a spec it has seen: surge by one, and never below the wanted *)
(* number of ready pods.                                                   *)
RollPods(n) ==
  LET p == pods[n]
      w == spec[n].want
      To(q) == pods' = [pods EXCEPT ![n] = q]
  IN
  /\ spec[n].exists /\ status[n].gen = spec[n].gen
  /\ \/ /\ Updated(p) < w /\ Total(p) <= w
        /\ To([p EXCEPT !.starting = @ + 1])
     \/ /\ p.starting > 0
        /\ To([p EXCEPT !.starting = @ - 1, !.ready = @ + 1])
     \/ /\ p.old > 0 /\ p.old + p.ready > w
        /\ To([p EXCEPT !.old = @ - 1])
     \/ /\ p.old = 0 /\ p.ready > w
        /\ To([p EXCEPT !.ready = @ - 1])
  /\ UNCHANGED <<plan, metric, original, spec, status, namespace, revisions, thread,
                 preScale, verdicts, seen, faults>>

Fault == faults < MaxFaults /\ faults' = faults + 1
Fine == UNCHANGED faults

------------------------------------------------------------------------------
(* NamespaceCloneSandbox.rehearse, one action per API call.                *)

Goto(next) == pc' = next /\ UNCHANGED <<todo, current, ready>>
Return(call, verdict, next) ==
  /\ verdicts' = [verdicts EXCEPT ![call] = verdict]
  /\ pc' = next /\ todo' = <<>> /\ current' = NoScale /\ ready' = FALSE
Same == UNCHANGED <<plan, metric, original>>

ReadSource ==
  /\ pc = "fetch"
  /\ \/ Fine /\ Goto("namespace") /\ UNCHANGED verdicts
     \/ Fault /\ Return("rehearse", "no", "teardown")
  /\ Same /\ UNCHANGED <<deployment, namespace, revisions, preScale, seen>>

CreateNamespace ==
  /\ pc = "namespace"
  /\ \/ Fine /\ namespace' = TRUE /\ Goto("create") /\ UNCHANGED verdicts
     \/ /\ Fault /\ namespace' \in {namespace, TRUE}
        /\ Return("rehearse", "no", "teardown")
  /\ Same /\ UNCHANGED <<deployment, revisions, preScale, seen>>

(* The clone wants what production wants at this moment.                   *)
Cloned == [spec EXCEPT ![Clone] = Fresh(spec[Prod].want)]
CreateDeployment ==
  /\ pc = "create"
  /\ \/ Fine /\ spec' = Cloned /\ Goto("seed") /\ UNCHANGED verdicts
     \/ /\ Fault /\ spec' \in {spec, Cloned}
        /\ Return("rehearse", "no", "teardown")
  /\ Same /\ UNCHANGED <<pods, status, namespace, revisions, preScale, seen>>

(* History, Service and ConfigMaps are copied best effort.                 *)
SeedClone ==
  /\ pc = "seed" /\ Goto("rollout")
  /\ \/ Fine /\ revisions' = HasRevision
     \/ Fault /\ UNCHANGED revisions
  /\ Same /\ UNCHANGED <<deployment, namespace, preScale, verdicts, seen>>

(* The finally clause: the namespace goes with all that is in it; a refused*)
(* delete is only logged.                                                  *)
DeleteNamespace ==
  /\ namespace' = FALSE /\ revisions' = FALSE
  /\ spec' = [spec EXCEPT ![Clone] = NoDeployment]
  /\ pods' = [pods EXCEPT ![Clone] = NoPods]
  /\ status' = [status EXCEPT ![Clone] = [gen |-> 0, pods |-> NoPods]]
TornDown(verdict) ==
  /\ verdicts' = [verdicts EXCEPT !["teardown"] = verdict]
  /\ Goto("gate") /\ seen' = NothingSeen /\ Same /\ UNCHANGED preScale
TeardownIfPassed ==
  /\ pc = "teardown" /\ Fine /\ TornDown("yes")
  /\ \/ verdicts["rehearse"] = "yes" /\ DeleteNamespace
     \/ verdicts["rehearse"] = "no" /\ UNCHANGED <<deployment, namespace, revisions>>
Teardown ==
  /\ pc = "teardown"
  /\ \/ Fine /\ DeleteNamespace /\ TornDown("yes")
     \/ Fault /\ TornDown("no") /\ UNCHANGED <<deployment, namespace, revisions>>

(* What comes between: the approval gate lets the plan run, or not.        *)
Gate ==
  /\ pc = "gate"
  /\ \/ /\ pc' = "execute" /\ todo' = plan.steps
        /\ UNCHANGED <<current, ready>>
        /\ preScale' = [preScale EXCEPT ![Prod] = NoScale]
     \/ Goto("end") /\ UNCHANGED preScale
  /\ Same /\ Fine /\ UNCHANGED <<deployment, namespace, revisions, verdicts, seen>>

------------------------------------------------------------------------------
(* KubernetesRemediator: _run dispatches the steps one after another, and  *)
(* the first that raises makes the whole call False.                       *)

Clamped(r) == IF r < MinReplicas THEN MinReplicas
              ELSE IF r > MaxReplicas THEN MaxReplicas ELSE r

(* rollback forgets the recorded count whatever came of it.                *)
Forget == preScale' = IF pc = "undo" THEN [preScale EXCEPT ![Prod] = NoScale] ELSE preScale

NextStep == todo' = Tail(todo) /\ current' = NoScale /\ UNCHANGED <<pc, ready, verdicts, preScale>>

(* A failed call fails the rehearsal; of production, nothing is undone.    *)
StepFailed ==
  /\ CASE pc = "apply" -> Return("rehearse", "no", "teardown")
       [] pc = "execute" -> Return("execute", "no", "end")
       [] pc = "undo" -> Return("undo", "no", "end")
  /\ Forget

StepsDone ==
  /\ pc \in Dispatching /\ todo = <<>>
  /\ CASE pc = "apply" -> Goto("rehearse") /\ UNCHANGED verdicts
       [] pc = "execute" -> Return("execute", "yes", "check")
       [] pc = "undo" -> Return("undo", "yes", "end")
  /\ Forget
  /\ Same /\ Fine /\ UNCHANGED <<deployment, namespace, revisions, seen>>

Facing(action) == pc \in Dispatching /\ todo # <<>> /\ todo[1].action = action
Untouched == Same /\ UNCHANGED <<status, namespace, revisions, seen>>

(* A wait, and a patch that changes nothing, leave the Deployment alone.   *)
DispatchWait ==
  /\ Facing("wait") /\ NextStep
  /\ Fine /\ Untouched /\ UNCHANGED <<spec, pods>>

(* A patch takes effect, or fails, or takes effect and loses its reply.    *)
Patch(Effect) ==
  \/ Fine /\ Effect /\ NextStep
  \/ Fault /\ StepFailed /\ (Effect \/ UNCHANGED <<spec, pods>>)

(* restart, rollback_deploy, patch_resource_limits, patch_probe: each puts *)
(* something new in the pod template.                                      *)
DispatchTemplate == Facing("template") /\ Patch(NewTemplate(Here)) /\ Untouched

(* rollback_to_revision: without the revision it raises.                   *)
RevisionFound == IF Here = Prod THEN HasRevision ELSE revisions
DispatchRevision ==
  /\ Facing("revision")
  /\ \/ RevisionFound /\ Patch(NewTemplate(Here))
     \/ ~RevisionFound /\ Fine /\ StepFailed /\ UNCHANGED <<spec, pods>>
  /\ Untouched

(* scale, the read: not made when the original count is on record.         *)
Recorded == pc = "undo" /\ preScale[Here] # NoScale
RecordLast(n) == [preScale EXCEPT ![n] = spec[n].want]
Record(n) == IF preScale[n] # NoScale THEN preScale ELSE [preScale EXCEPT ![n] = spec[n].want]
ReadScale ==
  /\ Facing("scale") /\ current = NoScale /\ ~Recorded
  /\ \/ /\ Fine /\ current' = spec[Here].want
        /\ preScale' = IF pc = "undo" THEN preScale ELSE Record(Here)
        /\ UNCHANGED <<pc, todo, ready, verdicts>>
     \/ Fault /\ StepFailed
  /\ Untouched /\ UNCHANGED <<spec, pods>>

(* scale, the patch: the recorded count, or the clamped sum.               *)
DesiredUnclamped == IF Recorded THEN preScale[Here] ELSE current + todo[1].replicas
Desired == IF Recorded THEN preScale[Here] ELSE Clamped(current + todo[1].replicas)
PatchScale ==
  /\ Facing("scale") /\ (current # NoScale \/ Recorded)
  /\ Patch(SetReplicas(Here, Desired))
  /\ Untouched

------------------------------------------------------------------------------
(* KubernetesHealthChecker.check: a poll reads the status, then the metric.*)

(* Where a verdict leads: a clone that came up is given the plan's steps;  *)
(* an unhealthy production is rolled back if there is anything to roll back.*)
Conclude(verdict) ==
  CASE pc = "rollout" /\ verdict = "yes" ->
         /\ pc' = "apply" /\ todo' = plan.steps /\ ready' = FALSE
         /\ UNCHANGED <<current, verdicts>>
    [] pc = "check" /\ verdict = "no" /\ plan.undo # <<>> ->
         /\ verdicts' = [verdicts EXCEPT !["check"] = "no"]
         /\ pc' = "undo" /\ todo' = plan.undo /\ ready' = FALSE /\ UNCHANGED current
    [] pc = "check" /\ (verdict = "yes" \/ plan.undo = <<>>) -> Return("check", verdict, "end")
    [] OTHER -> Return("rehearse", verdict, "teardown")

Polled == Same /\ UNCHANGED <<deployment, namespace, revisions, preScale>>

PollPods ==
  /\ pc \in Polling /\ ~ready /\ PodReady(Here)
  /\ ready' = TRUE
  /\ seen' = [pods |-> status[Here].pods, gen |-> status[Here].gen, value |-> NoValue]
  /\ Fine /\ Polled /\ UNCHANGED <<pc, todo, current, verdicts>>

(* Not ready, or the read failed: the deadline decides between another     *)
(* poll, which changes nothing, and giving up.                             *)
PollsRunOut ==
  /\ pc \in Polling /\ ~ready
  /\ (~PodReady(Here) /\ Fine) \/ Fault
  /\ Conclude("no")
  /\ Polled /\ UNCHANGED seen

Answers == IF pc = "rollout" \/ metric.kind = "log" THEN {NoValue} ELSE Values \cup {NoValue}
PollMetric ==
  /\ pc \in Polling /\ ready
  /\ \E v \in Answers :
       \/ MetricHealthy(v) /\ Conclude("yes") /\ seen' = [seen EXCEPT !.value = v]
       \/ ~MetricHealthy(v) /\ Conclude("no") /\ UNCHANGED seen
       \/ /\ ~MetricHealthy(v) /\ ready' = FALSE
          /\ UNCHANGED <<pc, todo, current, verdicts, seen>>
  /\ Fine /\ Polled

Rehearse == ReadSource \/ CreateNamespace \/ CreateDeployment \/ SeedClone \/ Teardown
Remediate == StepsDone \/ DispatchWait \/ DispatchTemplate \/ DispatchRevision
             \/ ReadScale \/ PatchScale
Check == PollPods \/ PollsRunOut \/ PollMetric
Next == Rehearse \/ Gate \/ Remediate \/ Check \/ \E n \in Spaces : Sync(n) \/ RollPods(n)
Spec == Init /\ [][Next]_vars

------------------------------------------------------------------------------
(* Until the plan is let run, production is exactly as it was found; and   *)
(* afterwards no throwaway namespace is left, unless its deletion was      *)
(* refused (sandbox.py:258-372).                                           *)
RehearsalLeavesNoTrace ==
  /\ pc \in Rehearsing \cup {"gate"} => spec[Prod] = Fresh(original)
  /\ (pc \notin Rehearsing /\ namespace) => verdicts["teardown"] = "no"

(* A rollback of a scale that reports success has put back exactly the     *)
(* replicas production had, however the forward steps were clamped and how *)
(* many of them there were (k8s_remediator.py:40-43).                      *)
Scales(steps) == \E i \in 1 .. Len(steps) : steps[i].action = "scale"
RollbackRestores ==
  verdicts["undo"] = "yes" /\ Scales(plan.steps) /\ Scales(plan.undo)
    => spec[Prod].want = original

(* A rollout is accepted as healthy only on counts taken after the         *)
(* controller saw the change, with every pod ready and no mix of pods from *)
(* before and after it (k8s_health.py:90-116).                             *)
Accepted(call) == verdicts[call] = "yes"
NeverHalfRolledOut ==
  /\ (pc = "end" /\ Accepted("check")) => seen.gen = spec[Prod].gen
  /\ (pc = "teardown" /\ Accepted("rehearse")) => seen.gen = spec[Clone].gen
  /\ (pc = "end" /\ Accepted("check")) \/ (pc = "teardown" /\ Accepted("rehearse"))
       => seen.pods.starting = 0 /\ (seen.pods.old = 0 \/ seen.pods.ready = 0)

(* A remediation is not called healthy on a value the detector would still *)
(* have opened an incident on, but for a latency below its baseline:       *)
(* verify.py says the two must ask the same question, and the score it     *)
(* hands the latency rule keeps its sign while the detector's does not.    *)
HealthyIsNormal ==
  pc = "end" /\ Accepted("check") /\ metric.kind # "log" =>
    \/ ~Detected(seen.value)
    \/ metric.kind = "latency" /\ metric.policy /\ seen.value < metric.mean

(* Checking readiness alone could pass on the pods from before the change: *)
(* the comment at k8s_health.py:104-106 says this is ruled out.  The code  *)
(* does not keep it (README, section 6).                                   *)
HealthyMeansReplaced ==
  pc = "end" /\ Accepted("check") => seen.pods.old = 0
==============================================================================
