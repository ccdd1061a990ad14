----------------------------- MODULE ClusterProofs -----------------------------
(***************************************************************************)
(* Theorems about Cluster: its type invariant, and the four promises of    *)
(* the adapters: the rehearsal leaves no trace, a rollback of a scale puts *)
(* the replicas back, no half rolled out Deployment is accepted, and no    *)
(* value is called healthy that the detector would still flag.             *)
(***************************************************************************)
EXTENDS Cluster, TLAPS

(* What the proofs need to know of the constants.                          *)
LEMMA Bounds ==
  /\ MinReplicas \in Nat \ {0} /\ MaxReplicas \in Nat /\ MinReplicas <= MaxReplicas
  /\ Originals \subseteq MinReplicas .. MaxReplicas
  /\ HasRevision \in BOOLEAN /\ MaxFaults \in Nat
BY ClusterAssumption

------------------------------------------------------------------------------
(* The stages of the rehearsal: what exists at each, and that a plan is in *)
(* hand only while its steps are dispatched.                               *)
Staged ==
  /\ pc \in {"fetch", "namespace", "create"} => spec[Clone] = NoDeployment
  /\ pc = "create" => namespace
  /\ pc \notin Dispatching => todo = <<>>

TypeInv == ClusterTypeOK /\ Staged

(* While the forward steps run, production wants what it wanted at first   *)
(* until a scale step has put that number on record; the record outlives   *)
(* the health check; and the first scale of the rollback restores it.      *)
ScaleInv ==
  /\ pc = "execute" =>
       /\ preScale[Prod] \in {NoScale, original}
       /\ preScale[Prod] = NoScale => spec[Prod].want = original /\ current = NoScale
       /\ Scales(plan.steps) => preScale[Prod] = original \/ Scales(todo)
  /\ (pc \in {"check", "undo"} /\ Scales(plan.steps)) => preScale[Prod] = original
  /\ (pc = "undo" /\ Scales(plan.steps) /\ Scales(plan.undo))
       => spec[Prod].want = original \/ Scales(todo)
  /\ verdicts["undo"] = "yes" => pc = "end"
  /\ RollbackRestores

(* A status that is current, with every pod ready, and of one template.    *)
Settled(n) ==
  /\ seen.gen = spec[n].gen /\ seen.pods.starting = 0
  /\ seen.pods.old = 0 \/ seen.pods.ready = 0

(* Between the poll that found the pods ready and the verdict, and from    *)
(* the verdict on, the status read stays the status of what is deployed.   *)
VerdictInv ==
  /\ ready => Settled(Here)
  /\ (pc = "teardown" /\ verdicts["rehearse"] = "yes") => Settled(Clone)
  /\ verdicts["check"] = "yes" =>
       pc = "end" /\ Settled(Prod) /\ (metric.kind = "log" \/ Recovered(seen.value))


------------------------------------------------------------------------------
(* The type invariant.                                                     *)

LEMMA TypeInit == Init => TypeInv
<1> SUFFICES ASSUME Init PROVE TypeInv
  OBVIOUS
<1>1. <<>> \in Seq(Step)
  OBVIOUS
<1>2. original \in MinReplicas .. MaxReplicas /\ original \in Nat /\ MinReplicas \in MinReplicas .. MaxReplicas
      /\ 0 \in 0 .. MaxFaults
  BY Bounds DEF Init
<1>3. spec \in [Spaces -> [exists : BOOLEAN, want : MinReplicas .. MaxReplicas, gen : Nat]]
  BY <1>2 DEF Init, Spaces, Fresh, NoDeployment, Prod, Clone
<1>4. pods \in [Spaces -> Pods] /\ status \in [Spaces -> [gen : Nat, pods : Pods]]
  BY <1>2, <1>3 DEF Init, Spaces, Pods, NoPods
<1>5. \A n \in Spaces : status[n].gen <= spec[n].gen
  BY <1>3 DEF Init, Spaces
<1>6. spec[Clone] = NoDeployment /\ ~spec[Clone].exists
  BY DEF Init, Spaces, NoDeployment, Prod, Clone
<1>7. seen \in [pods : Pods, gen : Nat, value : Values \cup {NoValue}]
  BY DEF Init, NothingSeen, NoPods, Pods
<1>8. verdicts \in [Calls -> {"none", "yes", "no"}] /\ preScale \in [Spaces -> MinReplicas .. MaxReplicas \cup {NoScale}]
  BY DEF Init
<1>9. /\ plan \in Plans /\ metric \in Metrics /\ original \in Originals
      /\ namespace = FALSE /\ revisions = FALSE /\ pc = "fetch" /\ todo = <<>>
      /\ current = NoScale /\ ready = FALSE /\ faults = 0
  BY DEF Init
<1>10. pc \in Pcs /\ pc \notin Dispatching /\ pc # "create"
  BY <1>9 DEF Pcs, Rehearsing, Dispatching
<1>11. Staged
  BY <1>6, <1>9, <1>10 DEF Staged
<1>12. ClusterTypeOK
  <2>1. ready => pc \in Polling
    BY <1>9
  <2>2. spec[Clone].exists => namespace
    BY <1>6
  <2>3. \A n \in Spaces : status[n].gen <= spec[n].gen
    BY <1>5
  <2>4. namespace \in BOOLEAN /\ revisions \in BOOLEAN /\ ready \in BOOLEAN
    BY <1>9
  <2>5. faults \in 0 .. MaxFaults /\ todo \in Seq(Step) /\ todo = <<>> /\ current = NoScale
    BY <1>1, <1>2, <1>9
  <2>6. QED
    BY ONLY <1>3, <1>4, <1>7, <1>8, <1>9, <1>10, <2>1, <2>2, <2>3, <2>4, <2>5, Zenon DEF ClusterTypeOK
<1>13. QED
  BY <1>11, <1>12 DEF TypeInv

(* What the calls of the model return into.                                *)
LEMMA ReturnType ==
  ASSUME TypeInv, NEW c \in Calls, NEW v \in {"yes", "no"}, NEW next \in Pcs,
         Return(c, v, next)
  PROVE  /\ verdicts' \in [Calls -> {"none", "yes", "no"}]
         /\ pc' = next /\ todo' = <<>> /\ current' = NoScale /\ ready' = FALSE
         /\ todo' \in Seq(Step)
<1>1. <<>> \in Seq(Step)
  OBVIOUS
<1>2. QED
  BY <1>1 DEF Return, TypeInv, ClusterTypeOK

(* A call that fails, or a stage that ends, and leaves the cluster alone.  *)
LEMMA ReturnKeepsType ==
  ASSUME TypeInv, NEW c \in Calls, NEW v \in {"yes", "no"},
         NEW next \in {"teardown", "check", "end"},
         Return(c, v, next), Same, faults' \in 0 .. MaxFaults,
         UNCHANGED <<deployment, namespace, revisions, preScale>>,
         seen' \in [pods : Pods, gen : Nat, value : Values \cup {NoValue}]
  PROVE  TypeInv'
<1>1. /\ verdicts' \in [Calls -> {"none", "yes", "no"}]
      /\ pc' = next /\ todo' = <<>> /\ current' = NoScale /\ ready' = FALSE
      /\ todo' \in Seq(Step) /\ next \in Pcs
  BY ReturnType DEF Pcs, Rehearsing
<1>2. QED
  BY <1>1 DEF TypeInv, ClusterTypeOK, Staged, Same, deployment, Dispatching, NoScale

LEMMA TypeSync ==
  ASSUME TypeInv, NEW n \in Spaces, Sync(n) PROVE TypeInv'
<1>1. [gen |-> spec[n].gen, pods |-> pods[n]] \in [gen : Nat, pods : Pods]
  BY DEF TypeInv, ClusterTypeOK
<1>2. status' \in [Spaces -> [gen : Nat, pods : Pods]]
  BY <1>1 DEF Sync, TypeInv, ClusterTypeOK
<1>3. \A m \in Spaces : status'[m].gen <= spec[m].gen
  BY DEF Sync, TypeInv, ClusterTypeOK
<1>4. QED
  BY <1>2, <1>3 DEF Sync, TypeInv, ClusterTypeOK, Staged, thread

(* Counts stay counts whatever pod is started, readied or removed.         *)
LEMMA PodsMove ==
  ASSUME NEW p \in Pods
  PROVE  /\ [p EXCEPT !.starting = @ + 1] \in Pods
         /\ p.starting > 0 => [p EXCEPT !.starting = @ - 1, !.ready = @ + 1] \in Pods
         /\ p.old > 0 => [p EXCEPT !.old = @ - 1] \in Pods
         /\ p.ready > 0 => [p EXCEPT !.ready = @ - 1] \in Pods
         /\ [NoPods EXCEPT !.old = p.old + p.ready] \in Pods
<1>1. /\ p.old \in Nat /\ p.starting \in Nat /\ p.ready \in Nat
      /\ p = [old |-> p.old, starting |-> p.starting, ready |-> p.ready]
  BY DEF Pods
<1>2. [p EXCEPT !.starting = @ + 1] \in Pods
  BY <1>1 DEF Pods
<1>3. ASSUME p.starting > 0
      PROVE  [p EXCEPT !.starting = @ - 1, !.ready = @ + 1] \in Pods
  <2> DEFINE q == [p EXCEPT !.starting = @ - 1]
  <2>1. q \in Pods /\ q.ready = p.ready
    BY <1>1, <1>3 DEF Pods
  <2> HIDE DEF q
  <2>2. [q EXCEPT !.ready = @ + 1] \in Pods
    BY <2>1, <1>1 DEF Pods
  <2>3. [q EXCEPT !.ready = p.ready + 1] \in Pods
    BY <2>1, <2>2
  <2>4. QED
    BY <2>3 DEF q
<1>4. p.old > 0 => [p EXCEPT !.old = @ - 1] \in Pods
  BY <1>1 DEF Pods
<1>5. p.ready > 0 => [p EXCEPT !.ready = @ - 1] \in Pods
  BY <1>1 DEF Pods
<1>6. [NoPods EXCEPT !.old = p.old + p.ready] \in Pods
  BY <1>1 DEF Pods, NoPods
<1>7. QED
  BY <1>2, <1>3, <1>4, <1>5, <1>6

LEMMA TypeRollPods ==
  ASSUME TypeInv, NEW n \in Spaces, RollPods(n) PROVE TypeInv'
<1>1. pods[n] \in Pods
  BY DEF TypeInv, ClusterTypeOK
<1>2. \E q \in Pods : pods' = [pods EXCEPT ![n] = q]
  <2> DEFINE p == pods[n]
             w == spec[n].want
  <2>0. w \in MinReplicas .. MaxReplicas
    BY DEF TypeInv, ClusterTypeOK
  <2>1. w \in Nat /\ p.ready \in Nat /\ (p.ready > w => p.ready > 0)
    BY <1>1, <2>0, Bounds DEF Pods
  <2>2. \/ pods' = [pods EXCEPT ![n] = [p EXCEPT !.starting = @ + 1]]
        \/ p.starting > 0 /\ pods' = [pods EXCEPT ![n] = [p EXCEPT !.starting = @ - 1, !.ready = @ + 1]]
        \/ p.old > 0 /\ pods' = [pods EXCEPT ![n] = [p EXCEPT !.old = @ - 1]]
        \/ p.ready > w /\ pods' = [pods EXCEPT ![n] = [p EXCEPT !.ready = @ - 1]]
    BY DEF RollPods
  <2> HIDE DEF w
  <2>3. QED
    BY <1>1, <2>1, <2>2, PodsMove, Zenon
<1>3. pods' \in [Spaces -> Pods]
  BY <1>2 DEF TypeInv, ClusterTypeOK
<1>4. QED
  BY <1>3 DEF RollPods, TypeInv, ClusterTypeOK, Staged, thread

LEMMA FaultType ==
  ASSUME TypeInv, Fault \/ Fine PROVE faults' \in 0 .. MaxFaults
BY Bounds DEF Fault, Fine, TypeInv, ClusterTypeOK

LEMMA SeenType ==
  ASSUME TypeInv, UNCHANGED seen
  PROVE  seen' \in [pods : Pods, gen : Nat, value : Values \cup {NoValue}]
BY DEF TypeInv, ClusterTypeOK

LEMMA TypeReadSource == ASSUME TypeInv, ReadSource PROVE TypeInv'
<1>1. CASE Fault /\ Return("rehearse", "no", "teardown")
  BY <1>1, FaultType, SeenType, ReturnKeepsType DEF ReadSource, Calls
<1>2. CASE Fine /\ Goto("namespace") /\ UNCHANGED verdicts
  BY <1>2 DEF ReadSource, Fine, Goto, Same, deployment, TypeInv, ClusterTypeOK, Staged,
              Pcs, Rehearsing, Polling, Dispatching
<1>3. QED
  BY <1>1, <1>2 DEF ReadSource

LEMMA TypeCreateNamespace == ASSUME TypeInv, CreateNamespace PROVE TypeInv'
<1>1. namespace' \in BOOLEAN /\ (namespace => namespace')
  <2>1. namespace \in BOOLEAN /\ namespace' \in {namespace, TRUE}
    BY DEF CreateNamespace, TypeInv, ClusterTypeOK
  <2>2. QED
    BY ONLY <2>1, Zenon
<1>2. CASE Fault /\ Return("rehearse", "no", "teardown")
  <2>1. /\ verdicts' \in [Calls -> {"none", "yes", "no"}] /\ faults' \in 0 .. MaxFaults
        /\ pc' = "teardown" /\ todo' = <<>> /\ current' = NoScale /\ ready' = FALSE
        /\ todo' \in Seq(Step)
    BY <1>2, ReturnType, FaultType DEF Calls, Pcs, Rehearsing
  <2>2. QED
    BY <1>1, <2>1 DEF CreateNamespace, Same, deployment, TypeInv, ClusterTypeOK, Staged,
                      Pcs, Rehearsing, Dispatching, NoScale
<1>3. CASE Fine /\ namespace' = TRUE /\ Goto("create") /\ UNCHANGED verdicts
  BY <1>3 DEF CreateNamespace, Fine, Goto, Same, deployment, TypeInv, ClusterTypeOK, Staged,
              Pcs, Rehearsing, Polling, Dispatching
<1>4. QED
  BY <1>2, <1>3 DEF CreateNamespace

LEMMA TypeCreateDeployment == ASSUME TypeInv, CreateDeployment PROVE TypeInv'
<1>1. Cloned \in [Spaces -> [exists : BOOLEAN, want : MinReplicas .. MaxReplicas, gen : Nat]]
  BY DEF TypeInv, ClusterTypeOK, Cloned, Fresh, Spaces
<1>2. Cloned[Clone].gen = 1 /\ \A n \in Spaces : spec[n].gen <= Cloned[n].gen
  BY DEF CreateDeployment, Staged, TypeInv, ClusterTypeOK, Cloned, Fresh, Spaces, NoDeployment
<1>3. namespace
  BY DEF CreateDeployment, TypeInv, Staged
<1>4. spec' \in {spec, Cloned}
  BY DEF CreateDeployment
<1>5. \A n \in Spaces : status[n].gen \in Nat /\ spec[n].gen \in Nat /\ Cloned[n].gen \in Nat
  BY <1>1 DEF TypeInv, ClusterTypeOK
<1>6. spec' \in [Spaces -> [exists : BOOLEAN, want : MinReplicas .. MaxReplicas, gen : Nat]]
      /\ \A n \in Spaces : status[n].gen <= spec'[n].gen
  <2>1. CASE spec' = spec
    BY <2>1 DEF TypeInv, ClusterTypeOK
  <2>2. CASE spec' = Cloned
    <3>1. \A n \in Spaces : status[n].gen <= spec[n].gen
      BY DEF TypeInv, ClusterTypeOK
    <3>2. \A n \in Spaces : status[n].gen <= Cloned[n].gen
      BY <1>2, <1>5, <3>1
    <3>3. QED
      BY <2>2, <1>1, <3>2
  <2>3. QED
    BY <1>4, <2>1, <2>2
<1>7. CASE Fault /\ Return("rehearse", "no", "teardown")
  <2>1. /\ verdicts' \in [Calls -> {"none", "yes", "no"}] /\ faults' \in 0 .. MaxFaults
        /\ pc' = "teardown" /\ todo' = <<>> /\ current' = NoScale /\ ready' = FALSE
        /\ todo' \in Seq(Step)
    BY <1>7, ReturnType, FaultType DEF Calls, Pcs, Rehearsing
  <2>2. QED
    BY <1>3, <1>6, <2>1 DEF CreateDeployment, Same, TypeInv, ClusterTypeOK, Staged,
                      Pcs, Rehearsing, Dispatching, NoScale
<1>8. CASE Fine /\ Goto("seed") /\ UNCHANGED verdicts
  BY <1>3, <1>6, <1>8 DEF CreateDeployment, Fine, Goto, Same, TypeInv, ClusterTypeOK, Staged,
              Pcs, Rehearsing, Polling, Dispatching
<1>9. QED
  BY <1>7, <1>8 DEF CreateDeployment

LEMMA TypeSeedClone == ASSUME TypeInv, SeedClone PROVE TypeInv'
<1>1. revisions' \in BOOLEAN /\ faults' \in 0 .. MaxFaults
  <2>1. revisions \in BOOLEAN /\ HasRevision \in BOOLEAN
        /\ (revisions' = HasRevision \/ revisions' = revisions)
    BY Bounds DEF SeedClone, TypeInv, ClusterTypeOK
  <2>2. Fault \/ Fine
    BY DEF SeedClone
  <2>3. revisions' \in BOOLEAN
    BY ONLY <2>1, Zenon
  <2>4. QED
    BY <2>2, <2>3, FaultType
<1>2. QED
  BY <1>1 DEF SeedClone, Goto, Same, deployment, TypeInv, ClusterTypeOK, Staged,
              Pcs, Rehearsing, Polling, Dispatching

LEMMA TypeTeardown == ASSUME TypeInv, Teardown PROVE TypeInv'
<1> USE DEF Rehearsing, Polling, Dispatching, Pcs, Calls, Goto, Same, deployment, thread
<1>1. /\ verdicts' \in [Calls -> {"none", "yes", "no"}] /\ faults' \in 0 .. MaxFaults
      /\ pc' = "gate" /\ UNCHANGED <<todo, current, ready, plan, metric, original, preScale>>
      /\ seen' \in [pods : Pods, gen : Nat, value : Values \cup {NoValue}]
  <2>1. PICK v \in {"yes", "no"} : TornDown(v)
    BY DEF Teardown
  <2>2. faults' \in 0 .. MaxFaults
    BY FaultType DEF Teardown
  <2>3. NothingSeen \in [pods : Pods, gen : Nat, value : Values \cup {NoValue}]
    BY DEF NothingSeen, NoPods, Pods
  <2>4. QED
    BY <2>1, <2>2, <2>3 DEF TornDown, TypeInv, ClusterTypeOK
<1>2. CASE DeleteNamespace
  <2>1. spec' \in [Spaces -> [exists : BOOLEAN, want : MinReplicas .. MaxReplicas, gen : Nat]]
    BY <1>2, Bounds DEF DeleteNamespace, TypeInv, ClusterTypeOK, NoDeployment, Spaces
  <2>2. pods' \in [Spaces -> Pods] /\ status' \in [Spaces -> [gen : Nat, pods : Pods]]
    BY <1>2 DEF DeleteNamespace, TypeInv, ClusterTypeOK, NoPods, Pods, Spaces
  <2>3. \A n \in Spaces : status'[n].gen <= spec'[n].gen
    BY <1>2 DEF DeleteNamespace, TypeInv, ClusterTypeOK, NoDeployment, Spaces
  <2>4. ~spec'[Clone].exists
    BY <1>2 DEF DeleteNamespace, TypeInv, ClusterTypeOK, NoDeployment, Spaces
  <2>5. QED
    BY <1>1, <1>2, <2>1, <2>2, <2>3, <2>4 DEF DeleteNamespace, Teardown, TypeInv, ClusterTypeOK, Staged
<1>3. CASE UNCHANGED <<deployment, namespace, revisions>>
  BY <1>1, <1>3 DEF Teardown, TypeInv, ClusterTypeOK, Staged
<1>4. QED
  BY <1>2, <1>3 DEF Teardown

LEMMA PlanType == ASSUME TypeInv PROVE plan.steps \in Seq(Step) /\ plan.undo \in Seq(Step)
BY ClusterAssumption DEF TypeInv, ClusterTypeOK

LEMMA TypeGate == ASSUME TypeInv, Gate PROVE TypeInv'
<1>1. plan.steps \in Seq(Step)
  BY PlanType
<1>2. QED
  <2>1. CASE pc' = "execute" /\ todo' = plan.steps /\ UNCHANGED <<current, ready>>
             /\ preScale' = [preScale EXCEPT ![Prod] = NoScale]
    <3>1. preScale' \in [Spaces -> MinReplicas .. MaxReplicas \cup {NoScale}]
      BY <2>1 DEF TypeInv, ClusterTypeOK
    <3>2. current = NoScale
      BY DEF Gate, TypeInv, ClusterTypeOK, Dispatching
    <3>3. ready = FALSE
      BY DEF Gate, TypeInv, ClusterTypeOK, Polling
    <3>4. QED
      BY <1>1, <2>1, <3>1, <3>2, <3>3 DEF Gate, Same, Fine, deployment, TypeInv, ClusterTypeOK, Staged,
              Pcs, Polling, Dispatching
  <2>2. CASE Goto("end") /\ UNCHANGED preScale
    BY <2>2 DEF Gate, Goto, Same, Fine, deployment, TypeInv, ClusterTypeOK, Staged,
              Polling, Dispatching, Pcs
  <2>3. QED
    BY <2>1, <2>2 DEF Gate

(* A step dispatched to the Deployment of this stage leaves the other one  *)
(* alone, and its generation never falls.                                  *)
Reaches ==
  /\ spec' \in [Spaces -> [exists : BOOLEAN, want : MinReplicas .. MaxReplicas, gen : Nat]]
  /\ pods' \in [Spaces -> Pods]
  /\ \A n \in Spaces : spec[n].gen <= spec'[n].gen /\ spec'[n].exists = spec[n].exists
  /\ \A n \in Spaces : n # Here => spec'[n] = spec[n]

LEMMA HereType == Here \in Spaces
BY DEF Here, Spaces

LEMMA StandStill == ASSUME TypeInv, UNCHANGED <<spec, pods>> PROVE Reaches
BY DEF Reaches, TypeInv, ClusterTypeOK

LEMMA TemplateReaches ==
  ASSUME TypeInv, NewTemplate(Here)
  PROVE  Reaches /\ \A n \in Spaces : spec'[n].want = spec[n].want
<1> DEFINE h == Here
           s == [spec[h] EXCEPT !.gen = @ + 1]
<1>1. h \in Spaces /\ spec[h] \in [exists : BOOLEAN, want : MinReplicas .. MaxReplicas, gen : Nat]
      /\ pods[h] \in Pods
  BY HereType DEF TypeInv, ClusterTypeOK
<1>2. /\ s \in [exists : BOOLEAN, want : MinReplicas .. MaxReplicas, gen : Nat]
      /\ s.gen = spec[h].gen + 1 /\ s.exists = spec[h].exists /\ s.want = spec[h].want
  BY <1>1
<1>3. [NoPods EXCEPT !.old = pods[h].old + pods[h].ready] \in Pods
  BY <1>1, PodsMove
<1>4. spec' = [spec EXCEPT ![h] = s]
      /\ pods' = [pods EXCEPT ![h] = [NoPods EXCEPT !.old = pods[h].old + pods[h].ready]]
  BY DEF NewTemplate
<1>5. pods' \in [Spaces -> Pods]
  BY <1>3, <1>4 DEF TypeInv, ClusterTypeOK
<1> HIDE DEF s, h
<1>6. /\ spec' \in [Spaces -> [exists : BOOLEAN, want : MinReplicas .. MaxReplicas, gen : Nat]]
      /\ spec'[h] = s /\ \A n \in Spaces : n # h => spec'[n] = spec[n]
  BY <1>1, <1>2, <1>4 DEF TypeInv, ClusterTypeOK
<1>7. \A n \in Spaces : spec[n].gen \in Nat
  BY DEF TypeInv, ClusterTypeOK
<1>8. \A n \in Spaces : /\ spec[n].gen <= spec'[n].gen
                        /\ spec'[n].exists = spec[n].exists /\ spec'[n].want = spec[n].want
  BY <1>1, <1>2, <1>6, <1>7
<1>9. QED
  BY <1>5, <1>6, <1>8 DEF Reaches, h

LEMMA ReplicasReach ==
  ASSUME TypeInv, NEW r \in MinReplicas .. MaxReplicas, SetReplicas(Here, r)
  PROVE  Reaches /\ spec'[Here].want = r
<1> DEFINE h == Here
           s == [spec[h] EXCEPT !.want = r, !.gen = @ + 1]
<1>1. h \in Spaces /\ spec[h] \in [exists : BOOLEAN, want : MinReplicas .. MaxReplicas, gen : Nat]
  BY HereType DEF TypeInv, ClusterTypeOK
<1>2. CASE r = spec[h].want
  BY <1>1, <1>2, StandStill DEF SetReplicas
<1>3. CASE r # spec[h].want
  <2> DEFINE t == [spec[h] EXCEPT !.want = r]
  <2>1. /\ t \in [exists : BOOLEAN, want : MinReplicas .. MaxReplicas, gen : Nat]
        /\ t.gen = spec[h].gen /\ t.exists = spec[h].exists /\ t.want = r
    BY <1>1
  <2>2. s = [t EXCEPT !.gen = @ + 1]
    BY <1>1
  <2> HIDE DEF t
  <2>3. /\ s \in [exists : BOOLEAN, want : MinReplicas .. MaxReplicas, gen : Nat]
        /\ s.gen = spec[h].gen + 1 /\ s.exists = spec[h].exists /\ s.want = r
    <3> HIDE DEF s
    <3>1. QED
      BY <1>1, <2>1, <2>2
  <2>4. spec' = [spec EXCEPT ![h] = s] /\ pods' = pods
    BY <1>3 DEF SetReplicas
  <2> HIDE DEF s, h
  <2>5. /\ spec' \in [Spaces -> [exists : BOOLEAN, want : MinReplicas .. MaxReplicas, gen : Nat]]
        /\ spec'[h] = s /\ \A n \in Spaces : n # h => spec'[n] = spec[n]
    BY <1>1, <2>3, <2>4 DEF TypeInv, ClusterTypeOK
  <2>6. \A n \in Spaces : spec[n].gen \in Nat
    BY DEF TypeInv, ClusterTypeOK
  <2>7. \A n \in Spaces : spec[n].gen <= spec'[n].gen /\ spec'[n].exists = spec[n].exists
    BY <1>1, <2>3, <2>5, <2>6
  <2>8. QED
    BY <2>3, <2>4, <2>5, <2>7 DEF Reaches, h, TypeInv, ClusterTypeOK
<1>4. QED
  BY <1>2, <1>3

(* The step in hand, and what a scale step asks for.                       *)
LEMMA InHand ==
  ASSUME TypeInv, todo # <<>>
  PROVE  todo[1] \in Step /\ Tail(todo) \in Seq(Step) /\ Len(todo) \in Nat \ {0}
BY DEF TypeInv, ClusterTypeOK

LEMMA DesiredType ==
  ASSUME TypeInv, Facing("scale"), current # NoScale \/ Recorded
  PROVE  Desired \in MinReplicas .. MaxReplicas
<1>1. CASE Recorded
  <2>1. preScale[Here] \in MinReplicas .. MaxReplicas
    BY <1>1, HereType DEF Recorded, TypeInv, ClusterTypeOK
  <2>2. QED
    BY <1>1, <2>1 DEF Desired
<1>2. CASE ~Recorded
  <2>1. current \in MinReplicas .. MaxReplicas
    BY <1>2 DEF TypeInv, ClusterTypeOK
  <2>2. todo[1].replicas \in Int
    BY InHand DEF Facing, Step
  <2>3. current + todo[1].replicas \in Int
    BY <2>1, <2>2, Bounds
  <2>4. Clamped(current + todo[1].replicas) \in MinReplicas .. MaxReplicas
    BY <2>3, Bounds DEF Clamped
  <2>5. QED
    BY <1>2, <2>4 DEF Desired
<1>3. QED
  BY <1>1, <1>2

(* A step that was dispatched is done, or has failed its call.             *)
Stepped ==
  /\ pc \in Dispatching /\ todo # <<>> /\ Reaches /\ Untouched
  /\ \/ Fine /\ NextStep
     \/ (Fine \/ Fault) /\ StepFailed

LEMMA PatchSteps ==
  ASSUME TypeInv, DispatchWait \/ DispatchTemplate \/ DispatchRevision \/ PatchScale
  PROVE  Stepped
<1>1. CASE DispatchWait
  <2>1. Facing("wait") /\ NextStep /\ Fine /\ Untouched /\ UNCHANGED <<spec, pods>>
    BY <1>1, Zenon DEF DispatchWait
  <2>2. QED
    BY <2>1, StandStill, Zenon DEF Stepped, Facing
<1>2. CASE DispatchTemplate
  <2>1. Facing("template") /\ Untouched /\ Patch(NewTemplate(Here))
    BY <1>2, Zenon DEF DispatchTemplate
  <2>2. Reaches
    BY <2>1, StandStill, TemplateReaches, Zenon DEF Patch
  <2>3. QED
    BY <2>1, <2>2, Zenon DEF Stepped, Facing, Patch
<1>3. CASE DispatchRevision
  <2>1. Facing("revision") /\ Untouched
        /\ \/ Patch(NewTemplate(Here))
           \/ Fine /\ StepFailed /\ UNCHANGED <<spec, pods>>
    BY <1>3, Zenon DEF DispatchRevision
  <2>2. Reaches
    BY <2>1, StandStill, TemplateReaches, Zenon DEF Patch
  <2>3. QED
    BY <2>1, <2>2, Zenon DEF Stepped, Facing, Patch
<1>4. CASE PatchScale
  <2>1. Facing("scale") /\ Untouched /\ (current # NoScale \/ Recorded)
        /\ Patch(SetReplicas(Here, Desired))
    BY <1>4, Zenon DEF PatchScale
  <2>2. Desired \in MinReplicas .. MaxReplicas
    BY <2>1, DesiredType, Zenon
  <2>3. Reaches
    BY <2>1, <2>2, StandStill, ReplicasReach, Zenon DEF Patch
  <2>4. QED
    BY <2>1, <2>3, Zenon DEF Stepped, Facing, Patch
<1>5. QED
  BY <1>1, <1>2, <1>3, <1>4

LEMMA StepFailedType ==
  ASSUME TypeInv, pc \in Dispatching, StepFailed
  PROVE  /\ verdicts' \in [Calls -> {"none", "yes", "no"}]
         /\ pc' = (IF pc = "apply" THEN "teardown" ELSE "end")
         /\ todo' = <<>> /\ current' = NoScale /\ ready' = FALSE
         /\ todo' \in Seq(Step)
         /\ preScale' \in [Spaces -> MinReplicas .. MaxReplicas \cup {NoScale}]
<1>1. preScale' \in [Spaces -> MinReplicas .. MaxReplicas \cup {NoScale}]
  BY DEF StepFailed, Forget, TypeInv, ClusterTypeOK
<1>2. CASE pc = "apply"
  BY <1>1, <1>2, ReturnType DEF StepFailed, Calls, Pcs, Rehearsing
<1>3. CASE pc = "execute"
  BY <1>1, <1>3, ReturnType DEF StepFailed, Calls, Pcs, Rehearsing
<1>4. CASE pc = "undo"
  BY <1>1, <1>4, ReturnType DEF StepFailed, Calls, Pcs, Rehearsing
<1>5. QED
  BY <1>2, <1>3, <1>4 DEF Dispatching

LEMMA TypeStepped == ASSUME TypeInv, Stepped PROVE TypeInv'
<1>1. pc \in Dispatching /\ todo # <<>> /\ Untouched /\ Reaches
  BY DEF Stepped, Facing
<1>2. faults' \in 0 .. MaxFaults
  BY FaultType DEF Stepped
<1>3. \A n \in Spaces : /\ status'[n].gen <= spec'[n].gen
                        /\ spec'[n].exists = spec[n].exists
  <2>1. \A n \in Spaces : status[n].gen \in Nat /\ spec[n].gen \in Nat /\ spec'[n].gen \in Nat
                          /\ status[n].gen <= spec[n].gen
    BY <1>1 DEF Reaches, TypeInv, ClusterTypeOK
  <2>2. QED
    BY <1>1, <2>1 DEF Reaches, Untouched
<1>4. Clone \in Spaces
  BY DEF Spaces
<1>5. CASE NextStep
  <2>1. todo' \in Seq(Step)
    BY <1>1, <1>5, InHand DEF NextStep
  <2>2. pc \notin Polling /\ pc \notin {"fetch", "namespace", "create"}
    BY <1>1 DEF Polling, Dispatching
  <2>3. QED
    BY <1>1, <1>2, <1>3, <1>4, <1>5, <2>1, <2>2
    DEF NextStep, Untouched, Same, Reaches, TypeInv, ClusterTypeOK, Staged, NoScale
<1>6. CASE StepFailed
  <2>1. pc' \in {"teardown", "end"} /\ pc' \in Pcs
    BY <1>1, <1>6, StepFailedType DEF Pcs, Rehearsing
  <2>2. QED
    BY <1>1, <1>2, <1>3, <1>4, <1>6, <2>1, StepFailedType
    DEF Untouched, Same, Reaches, TypeInv, ClusterTypeOK, Staged, NoScale, Dispatching
<1>7. QED
  BY <1>5, <1>6 DEF Stepped

LEMMA TypeReadScale == ASSUME TypeInv, ReadScale PROVE TypeInv'
<1>1. pc \in Dispatching /\ todo # <<>> /\ todo[1].action = "scale"
      /\ Untouched /\ UNCHANGED <<spec, pods>>
  BY DEF ReadScale, Facing
<1>2. faults' \in 0 .. MaxFaults
  BY FaultType DEF ReadScale
<1>3. CASE StepFailed
  <2>1. pc' \in {"teardown", "end"} /\ pc' \in Pcs
    BY <1>1, <1>3, StepFailedType DEF Pcs, Rehearsing
  <2>2. QED
    BY <1>1, <1>2, <1>3, <2>1, StepFailedType
    DEF Untouched, Same, TypeInv, ClusterTypeOK, Staged, NoScale, Dispatching
<1>4. CASE ~StepFailed
  <2>1. /\ current' = spec[Here].want /\ UNCHANGED <<pc, todo, ready, verdicts>>
        /\ preScale' = IF pc = "undo" THEN preScale ELSE Record(Here)
    BY <1>4 DEF ReadScale
  <2>2. spec[Here].want \in MinReplicas .. MaxReplicas
    BY HereType DEF TypeInv, ClusterTypeOK
  <2>3. preScale' \in [Spaces -> MinReplicas .. MaxReplicas \cup {NoScale}]
    BY <2>1, <2>2, HereType DEF Record, TypeInv, ClusterTypeOK
  <2>4. QED
    BY <1>1, <1>2, <2>1, <2>2, <2>3 DEF Untouched, Same, TypeInv, ClusterTypeOK, Staged
<1>5. QED
  BY <1>3, <1>4

LEMMA TypeStepsDone == ASSUME TypeInv, StepsDone PROVE TypeInv'
<1>1. preScale' \in [Spaces -> MinReplicas .. MaxReplicas \cup {NoScale}]
  BY DEF StepsDone, Forget, TypeInv, ClusterTypeOK
<1>2. /\ verdicts' \in [Calls -> {"none", "yes", "no"}] /\ pc' \in Pcs
      /\ pc' \in {"rehearse", "check", "end"} /\ ready' = FALSE
      /\ todo' = <<>> /\ current' = NoScale /\ todo' \in Seq(Step)
  <2>0. ready = FALSE
    BY DEF StepsDone, TypeInv, ClusterTypeOK, Polling, Dispatching
  <2>1. CASE pc = "apply"
    BY <2>0, <2>1 DEF StepsDone, Goto, TypeInv, ClusterTypeOK, Pcs, Rehearsing
  <2>2. CASE pc = "execute"
    BY <2>2, ReturnType DEF StepsDone, Calls, Pcs
  <2>3. CASE pc = "undo"
    BY <2>3, ReturnType DEF StepsDone, Calls, Pcs
  <2>4. QED
    BY <2>1, <2>2, <2>3 DEF StepsDone, Dispatching
<1>3. QED
  BY <1>1, <1>2 DEF StepsDone, Same, Fine, deployment, TypeInv, ClusterTypeOK, Staged,
                    NoScale, Polling, Dispatching

(* What a verdict of the health check does to the thread.                  *)
LEMMA TypeConclude ==
  ASSUME TypeInv, NEW v \in {"yes", "no"}, pc \in Polling, Conclude(v), Polled,
         faults' \in 0 .. MaxFaults,
         seen' \in [pods : Pods, gen : Nat, value : Values \cup {NoValue}]
  PROVE  TypeInv'
<1>0. current = NoScale /\ pc \notin Dispatching
  BY DEF Polling, Dispatching, TypeInv, ClusterTypeOK
<1>1. CASE pc = "rollout" /\ v = "yes"
  <2>1. pc' = "apply" /\ todo' = plan.steps /\ ready' = FALSE /\ UNCHANGED <<current, verdicts>>
    BY <1>1 DEF Conclude
  <2>2. QED
    BY <1>0, <1>1, <2>1, PlanType DEF Polled, Same, deployment, TypeInv, ClusterTypeOK, Staged,
       Pcs, Rehearsing, Polling, Dispatching
<1>2. CASE pc = "check" /\ v = "no" /\ plan.undo # <<>>
  <2>1. /\ verdicts' = [verdicts EXCEPT !["check"] = "no"] /\ UNCHANGED current
        /\ pc' = "undo" /\ todo' = plan.undo /\ ready' = FALSE
    BY <1>2 DEF Conclude
  <2>2. verdicts' \in [Calls -> {"none", "yes", "no"}]
    BY <2>1 DEF TypeInv, ClusterTypeOK
  <2>3. QED
    BY <1>0, <1>2, <2>1, <2>2, PlanType DEF Polled, Same, deployment, TypeInv, ClusterTypeOK, Staged,
       Pcs, Rehearsing, Polling, Dispatching
<1>3. CASE pc = "check" /\ (v = "yes" \/ plan.undo = <<>>)
  <2>1. Return("check", v, "end")
    BY <1>3 DEF Conclude
  <2>2. QED
    BY <2>1, ReturnKeepsType DEF Polled, Calls
<1>4. CASE pc = "rehearse" \/ (pc = "rollout" /\ v = "no")
  <2>1. Return("rehearse", v, "teardown")
    BY <1>4 DEF Conclude
  <2>2. QED
    BY <2>1, ReturnKeepsType DEF Polled, Calls
<1>5. QED
  BY <1>1, <1>2, <1>3, <1>4 DEF Polling

LEMMA TypeCheck == ASSUME TypeInv, Check PROVE TypeInv'
<1>1. CASE PollPods
  <2>1. status[Here] \in [gen : Nat, pods : Pods]
    BY HereType DEF TypeInv, ClusterTypeOK
  <2>2. seen' \in [pods : Pods, gen : Nat, value : Values \cup {NoValue}]
    BY <1>1, <2>1 DEF PollPods
  <2>3. QED
    BY <1>1, <2>2 DEF PollPods, Polled, Fine, Same, deployment, TypeInv, ClusterTypeOK, Staged
<1>2. CASE PollsRunOut
  <2>1. pc \in Polling /\ Conclude("no") /\ Polled /\ UNCHANGED seen /\ (Fine \/ Fault)
    BY <1>2, Zenon DEF PollsRunOut
  <2>2. QED
    BY <2>1, FaultType, SeenType, TypeConclude
<1>3. CASE PollMetric
  <2>1. PICK v \in Answers :
          \/ MetricHealthy(v) /\ Conclude("yes") /\ seen' = [seen EXCEPT !.value = v]
          \/ ~MetricHealthy(v) /\ Conclude("no") /\ UNCHANGED seen
          \/ ~MetricHealthy(v) /\ ready' = FALSE /\ UNCHANGED <<pc, todo, current, verdicts, seen>>
    BY <1>3, Zenon DEF PollMetric
  <2>2. pc \in Polling /\ Polled /\ Fine
    BY <1>3, Zenon DEF PollMetric
  <2>3. v \in Values \cup {NoValue}
    BY <2>1 DEF Answers
  <2>4. /\ seen \in [pods : Pods, gen : Nat, value : Values \cup {NoValue}]
        /\ [seen EXCEPT !.value = v] \in [pods : Pods, gen : Nat, value : Values \cup {NoValue}]
    BY <2>3 DEF TypeInv, ClusterTypeOK
  <2>5. CASE Conclude("yes") \/ Conclude("no")
    BY <2>1, <2>2, <2>4, <2>5, FaultType, TypeConclude
  <2>6. CASE ready' = FALSE /\ UNCHANGED <<pc, todo, current, verdicts, seen>>
    BY <2>2, <2>6 DEF Polled, Fine, Same, deployment, TypeInv, ClusterTypeOK, Staged
  <2>7. QED
    BY <2>1, <2>5, <2>6
<1>4. QED
  BY <1>1, <1>2, <1>3 DEF Check

LEMMA TypeStep == TypeInv /\ [Next]_vars => TypeInv'
<1> SUFFICES ASSUME TypeInv, [Next]_vars PROVE TypeInv'
  OBVIOUS
<1>1. CASE Rehearse
  BY <1>1, TypeReadSource, TypeCreateNamespace, TypeCreateDeployment, TypeSeedClone,
     TypeTeardown DEF Rehearse
<1>2. CASE Remediate
  BY <1>2, PatchSteps, TypeStepped, TypeReadScale, TypeStepsDone DEF Remediate
<1>3. CASE UNCHANGED vars
  BY <1>3 DEF vars, deployment, thread, TypeInv, ClusterTypeOK, Staged
<1>4. QED
  BY <1>1, <1>2, <1>3, TypeGate, TypeCheck, TypeSync, TypeRollPods DEF Next

(* The type invariant, and the stages of the rehearsal.                    *)
THEOREM TypeCorrect == Spec => []ClusterTypeOK
<1>1. Spec => []TypeInv
  BY TypeInit, TypeStep, PTL DEF Spec
<1>2. TypeInv => ClusterTypeOK
  BY DEF TypeInv
<1>3. QED
  BY <1>1, <1>2, PTL

------------------------------------------------------------------------------
(* The promises.  They rest on one another only through the stages, so one *)
(* induction carries the three.                                            *)
PromiseInv == RehearsalLeavesNoTrace /\ ScaleInv /\ VerdictInv

LEMMA PromiseInit == Init => PromiseInv
<1> SUFFICES ASSUME Init PROVE PromiseInv
  OBVIOUS
<1>1. /\ pc = "fetch" /\ ready = FALSE /\ namespace = FALSE
      /\ verdicts["undo"] = "none" /\ verdicts["check"] = "none"
      /\ spec[Prod] = Fresh(original)
  BY DEF Init, Calls, Spaces
<1>2. QED
  BY <1>1 DEF PromiseInv, RehearsalLeavesNoTrace, ScaleInv, VerdictInv, RollbackRestores, Rehearsing

LEMMA RecoveredFrame ==
  ASSUME UNCHANGED metric, UNCHANGED seen
  PROVE  Recovered(seen.value)' <=> Recovered(seen.value)
BY DEF Recovered, ScoreOnly, HasBaseline, ScoreAbove, ScoreBelow, FlatNormal, Away, Larger

LEMMA PromiseFrame ==
  ASSUME PromiseInv,
         UNCHANGED <<plan, metric, original, spec, namespace, pc, todo, current, ready,
                     preScale, verdicts, seen>>
  PROVE  PromiseInv'
BY RecoveredFrame DEF PromiseInv, RehearsalLeavesNoTrace, ScaleInv, VerdictInv, RollbackRestores,
   Scales, Settled, Here

LEMMA ReturnVerdicts ==
  ASSUME TypeInv, NEW c \in Calls, NEW v, NEW next, Return(c, v, next)
  PROVE  \A d \in Calls : verdicts'[d] = IF d = c THEN v ELSE verdicts[d]
BY DEF Return, TypeInv, ClusterTypeOK

(* No verdict on production stands before the end.                         *)
LEMMA NoVerdictYet ==
  ASSUME PromiseInv, pc # "end"
  PROVE  verdicts["undo"] # "yes" /\ verdicts["check"] # "yes"
BY DEF PromiseInv, ScaleInv, VerdictInv

(* A stage of the rehearsal that leads to another one.                     *)
LEMMA RehearsalKeepsPromise ==
  ASSUME TypeInv, PromiseInv, pc # "end", pc' \in Rehearsing, spec'[Prod] = Fresh(original)',
         verdicts'["undo"] = verdicts["undo"], verdicts'["check"] = verdicts["check"],
         ready' = FALSE \/ (pc' \in Polling /\ Settled(Clone)'),
         pc' = "teardown" => (verdicts'["rehearse"] = "yes" => Settled(Clone)')
  PROVE  PromiseInv'
<1>1. verdicts'["undo"] # "yes" /\ verdicts'["check"] # "yes"
  BY NoVerdictYet
<1>2. RehearsalLeavesNoTrace'
  BY DEF RehearsalLeavesNoTrace
<1>3. pc' \notin {"execute", "check", "undo"}
  BY DEF Rehearsing
<1>4. ScaleInv'
  BY <1>1, <1>3 DEF ScaleInv, RollbackRestores
<1>5. VerdictInv'
  BY <1>1, <1>3 DEF VerdictInv, Here
<1>6. QED
  BY <1>2, <1>4, <1>5 DEF PromiseInv

LEMMA PromisePrepare ==
  ASSUME TypeInv, PromiseInv, ReadSource \/ CreateNamespace \/ CreateDeployment \/ SeedClone
  PROVE  PromiseInv'
<1>1. /\ pc \in {"fetch", "namespace", "create", "seed"} /\ original' = original
      /\ spec[Prod] = Fresh(original)
  BY DEF ReadSource, CreateNamespace, CreateDeployment, SeedClone, Same, PromiseInv,
         RehearsalLeavesNoTrace, Rehearsing
<1>2. spec'[Prod] = spec[Prod]
  <2>1. spec' \in {spec, Cloned}
    BY DEF ReadSource, CreateNamespace, CreateDeployment, SeedClone, deployment
  <2>2. Cloned[Prod] = spec[Prod]
    BY DEF Cloned, TypeInv, ClusterTypeOK, Spaces, Prod, Clone
  <2>3. QED
    BY <2>1, <2>2
<1>3. ready = FALSE
  BY <1>1 DEF TypeInv, ClusterTypeOK, Polling
<1>4. CASE Return("rehearse", "no", "teardown")
  <2>1. /\ verdicts'["undo"] = verdicts["undo"] /\ verdicts'["check"] = verdicts["check"]
        /\ verdicts'["rehearse"] = "no"
    BY <1>4, ReturnVerdicts DEF Calls
  <2>2. pc' = "teardown" /\ ready' = FALSE
    BY <1>4 DEF Return
  <2>3. QED
    BY <1>1, <1>2, <2>1, <2>2, RehearsalKeepsPromise DEF Rehearsing, Fresh
<1>5. CASE \E next \in {"namespace", "create", "seed", "rollout"} : Goto(next) /\ UNCHANGED verdicts
  <2>1. pc' \in {"namespace", "create", "seed", "rollout"} /\ ready' = FALSE /\ verdicts' = verdicts
    BY <1>3, <1>5 DEF Goto
  <2>2. QED
    BY <1>1, <1>2, <2>1, RehearsalKeepsPromise DEF Rehearsing, Fresh
<1>6. QED
  BY <1>4, <1>5 DEF ReadSource, CreateNamespace, CreateDeployment, SeedClone

LEMMA PromiseTeardown == ASSUME TypeInv, PromiseInv, Teardown PROVE PromiseInv'
<1>1. /\ pc = "teardown" /\ pc' = "gate" /\ ready' = FALSE /\ original' = original
      /\ spec[Prod] = Fresh(original)
  BY DEF Teardown, TornDown, Goto, Same, PromiseInv, RehearsalLeavesNoTrace, Rehearsing, TypeInv,
         ClusterTypeOK, Polling
<1>2. spec'[Prod] = spec[Prod]
  BY DEF Teardown, DeleteNamespace, deployment, TypeInv, ClusterTypeOK, Spaces, Prod, Clone
<1>3. /\ verdicts'["undo"] = verdicts["undo"] /\ verdicts'["check"] = verdicts["check"]
      /\ namespace' => verdicts'["teardown"] = "no"
  BY DEF Teardown, TornDown, DeleteNamespace, TypeInv, ClusterTypeOK, Calls
<1>4. RehearsalLeavesNoTrace'
  BY <1>1, <1>2, <1>3 DEF RehearsalLeavesNoTrace, Fresh
<1>5. verdicts'["undo"] # "yes" /\ verdicts'["check"] # "yes"
  BY <1>1, <1>3, NoVerdictYet
<1>6. QED
  BY <1>1, <1>4, <1>5 DEF PromiseInv, ScaleInv, VerdictInv, RollbackRestores

LEMMA PromiseGate == ASSUME TypeInv, PromiseInv, Gate PROVE PromiseInv'
<1>1. /\ pc = "gate" /\ current = NoScale /\ ready = FALSE /\ UNCHANGED <<spec, namespace, verdicts>>
      /\ UNCHANGED <<plan, original, current, ready>> /\ spec[Prod] = Fresh(original)
      /\ pc' \in {"execute", "end"}
  BY DEF Gate, Goto, Same, deployment, PromiseInv, RehearsalLeavesNoTrace, TypeInv, ClusterTypeOK,
         Polling, Dispatching
<1>2. RehearsalLeavesNoTrace'
  BY <1>1 DEF RehearsalLeavesNoTrace, Rehearsing, PromiseInv
<1>3. verdicts'["undo"] # "yes" /\ verdicts'["check"] # "yes"
  BY <1>1, NoVerdictYet
<1>4. VerdictInv'
  BY <1>1, <1>3 DEF VerdictInv
<1>5. CASE pc' = "execute"
  <2>1. todo' = plan.steps /\ preScale'[Prod] = NoScale /\ spec'[Prod].want = original'
    BY <1>1, <1>5 DEF Gate, Goto, Fresh, TypeInv, ClusterTypeOK, Spaces
  <2>2. Scales(plan.steps)' => Scales(todo)'
    BY <1>1, <2>1 DEF Scales
  <2>3. ScaleInv'
    BY <1>1, <1>3, <1>5, <2>1, <2>2 DEF ScaleInv, RollbackRestores
  <2>4. QED
    BY <1>2, <1>4, <2>3 DEF PromiseInv
<1>6. CASE pc' = "end"
  BY <1>2, <1>3, <1>4, <1>6 DEF PromiseInv, ScaleInv, RollbackRestores
<1>7. QED
  BY <1>1, <1>5, <1>6

(* What a dispatched step leaves behind, whichever it was.                 *)
LEMMA SteppedVerdicts ==
  ASSUME TypeInv, PromiseInv, pc \in Dispatching, StepFailed \/ NextStep
  PROVE  /\ ready' = FALSE
         /\ verdicts'["undo"] # "yes" /\ verdicts'["check"] # "yes"
         /\ verdicts'["teardown"] = verdicts["teardown"]
         /\ pc' = pc \/ (pc' = "teardown" /\ pc = "apply" /\ verdicts'["rehearse"] = "no")
                     \/ (pc' = "end" /\ pc # "apply")
<1>1. verdicts["undo"] # "yes" /\ verdicts["check"] # "yes" /\ ready = FALSE
  BY NoVerdictYet DEF Dispatching, Polling, TypeInv, ClusterTypeOK
<1>2. CASE NextStep
  BY <1>1, <1>2 DEF NextStep
<1>3. CASE StepFailed /\ pc = "apply"
  BY <1>1, <1>3, ReturnVerdicts DEF StepFailed, Calls, Return
<1>4. CASE StepFailed /\ pc = "execute"
  BY <1>1, <1>4, ReturnVerdicts DEF StepFailed, Calls, Return
<1>5. CASE StepFailed /\ pc = "undo"
  BY <1>1, <1>5, ReturnVerdicts DEF StepFailed, Calls, Return
<1>6. QED
  BY <1>2, <1>3, <1>4, <1>5 DEF Dispatching

(* A step on the clone, and what a step on production must establish.      *)
LEMMA StepKeepsPromise ==
  ASSUME TypeInv, PromiseInv, pc \in Dispatching, Reaches, Untouched, StepFailed \/ NextStep,
         pc # "apply" => ScaleInv'
  PROVE  PromiseInv'
<1>1. UNCHANGED <<plan, metric, original, namespace, seen>>
  BY DEF Untouched, Same
<1>2. CASE pc = "apply"
  <2>1. spec'[Prod] = spec[Prod] /\ spec[Prod] = Fresh(original)
    BY <1>2 DEF Reaches, Here, Rehearsing, Spaces, Prod, Clone, PromiseInv, RehearsalLeavesNoTrace
  <2>2. pc' \in {"apply", "teardown"} /\ ready' = FALSE
        /\ (pc' = "teardown" => verdicts'["rehearse"] = "no")
    BY <1>2, SteppedVerdicts
  <2>3. verdicts'["undo"] = verdicts["undo"] /\ verdicts'["check"] = verdicts["check"]
    <3>1. CASE NextStep
      BY <3>1 DEF NextStep
    <3>2. CASE StepFailed
      BY <3>2, <1>2, ReturnVerdicts DEF StepFailed, Calls
    <3>3. QED
      BY <3>1, <3>2
  <2>4. QED
    BY <1>1, <1>2, <2>1, <2>2, <2>3, RehearsalKeepsPromise DEF Rehearsing, Fresh
<1>3. CASE pc # "apply"
  <2>1. pc' \in {"execute", "undo", "end"} /\ pc \notin Rehearsing
    BY <1>3, SteppedVerdicts DEF Dispatching, Rehearsing
  <2>2. RehearsalLeavesNoTrace'
    BY <1>1, <2>1, SteppedVerdicts DEF PromiseInv, RehearsalLeavesNoTrace, Rehearsing
  <2>3. VerdictInv'
    BY <2>1, SteppedVerdicts DEF VerdictInv
  <2>4. QED
    BY <1>3, <2>2, <2>3 DEF PromiseInv
<1>4. QED
  BY <1>2, <1>3

LEMMA FailedScale ==
  ASSUME TypeInv, PromiseInv, pc \in {"execute", "undo"}, StepFailed
  PROVE  ScaleInv'
<1>1. pc' = "end" /\ verdicts'["undo"] # "yes"
  BY SteppedVerdicts, StepFailedType DEF Dispatching
<1>2. QED
  BY <1>1 DEF ScaleInv, RollbackRestores

(* A scale step is either the first of the plan or among the rest.         *)
LEMMA ScalesTail ==
  ASSUME NEW steps \in Seq(Step), steps # <<>>, Scales(steps), steps[1].action # "scale"
  PROVE  Scales(Tail(steps))
<1>1. PICK i \in 1 .. Len(steps) : steps[i].action = "scale"
  BY DEF Scales
<1>2. i # 1 /\ Len(steps) \in Nat
  BY <1>1
<1>3. i - 1 \in 1 .. Len(Tail(steps)) /\ Tail(steps)[i - 1] = steps[i]
  BY <1>1, <1>2
<1>4. QED
  BY <1>1, <1>3 DEF Scales

(* A step that is not a scale wants as many replicas as before.            *)
LEMMA OtherStepScale ==
  ASSUME TypeInv, PromiseInv, pc \in {"execute", "undo"}, todo # <<>>, todo[1].action # "scale",
         NextStep, Untouched, spec'[Prod].want = spec[Prod].want
  PROVE  ScaleInv'
<1>1. /\ UNCHANGED <<plan, original, pc, preScale, verdicts>> /\ current' = NoScale
      /\ todo' = Tail(todo)
  BY DEF NextStep, Untouched, Same
<1>2. Scales(todo) => Scales(todo)'
  <2>1. todo \in Seq(Step)
    BY DEF TypeInv, ClusterTypeOK
  <2>2. Scales(todo) => Scales(Tail(todo))
    BY <2>1, ScalesTail
  <2>3. QED
    BY <1>1, <2>2 DEF Scales
<1>3. /\ Scales(plan.steps)' <=> Scales(plan.steps)
      /\ Scales(plan.undo)' <=> Scales(plan.undo)
  BY <1>1 DEF Scales
<1>4. verdicts["undo"] # "yes"
  BY NoVerdictYet
<1>5. QED
  BY <1>1, <1>2, <1>3, <1>4 DEF PromiseInv, ScaleInv, RollbackRestores

LEMMA PatchScaleScale ==
  ASSUME TypeInv, PromiseInv, pc \in {"execute", "undo"}, PatchScale, NextStep,
         SetReplicas(Here, Desired)
  PROVE  ScaleInv'
<1>1. /\ UNCHANGED <<plan, original, pc, preScale, verdicts>> /\ current' = NoScale
  BY DEF PatchScale, NextStep, Untouched, Same
<1>2. /\ Scales(plan.steps)' <=> Scales(plan.steps)
      /\ Scales(plan.undo)' <=> Scales(plan.undo)
  BY <1>1 DEF Scales
<1>3. verdicts["undo"] # "yes"
  BY NoVerdictYet
<1>4. Here = Prod
  BY DEF Here, Rehearsing
<1>5. CASE pc = "execute"
  <2>1. current # NoScale
    BY <1>5 DEF PatchScale, Recorded
  <2>2. preScale[Prod] = original
    BY <1>5, <2>1 DEF PromiseInv, ScaleInv
  <2>3. original # NoScale
    BY Bounds DEF NoScale, TypeInv, ClusterTypeOK
  <2>4. QED
    BY <1>1, <1>2, <1>3, <1>5, <2>2, <2>3 DEF ScaleInv, RollbackRestores
<1>6. CASE pc = "undo"
  <2>1. ASSUME Scales(plan.steps) PROVE preScale[Prod] = original /\ spec'[Prod].want = original
    <3>1. preScale[Prod] = original
      BY <1>6, <2>1 DEF PromiseInv, ScaleInv
    <3>2. original # NoScale
      BY Bounds DEF NoScale, TypeInv, ClusterTypeOK
    <3>3. Recorded
      BY <1>4, <1>6, <3>1, <3>2 DEF Recorded
    <3>4. Desired = original
      BY <1>4, <3>1, <3>3 DEF Desired
    <3>5. original \in MinReplicas .. MaxReplicas
      BY Bounds DEF TypeInv, ClusterTypeOK
    <3>6. QED
      BY <1>4, <3>1, <3>4, <3>5, ReplicasReach
  <2>2. QED
    BY <1>1, <1>2, <1>3, <1>6, <2>1 DEF ScaleInv, RollbackRestores
<1>7. QED
  BY <1>5, <1>6

LEMMA PromisePatch ==
  ASSUME TypeInv, PromiseInv, DispatchWait \/ DispatchTemplate \/ DispatchRevision \/ PatchScale
  PROVE  PromiseInv'
<1>1. Stepped
  BY PatchSteps
<1>2. /\ pc \in Dispatching /\ todo # <<>> /\ Reaches /\ Untouched
      /\ StepFailed \/ NextStep
  BY <1>1 DEF Stepped
<1>3. ASSUME pc # "apply" PROVE ScaleInv'
  <2>1. pc \in {"execute", "undo"}
    BY <1>2, <1>3 DEF Dispatching
  <2>2. CASE StepFailed
    BY <2>1, <2>2, FailedScale
  <2>3. CASE ~StepFailed /\ PatchScale
    <3>1. NextStep /\ SetReplicas(Here, Desired)
      BY <2>3, Zenon DEF PatchScale, Patch
    <3>2. QED
      BY <2>1, <2>3, <3>1, PatchScaleScale
  <2>4. CASE ~StepFailed /\ ~PatchScale
    <3>1. NextStep /\ todo[1].action # "scale"
          /\ (NewTemplate(Here) \/ UNCHANGED <<spec, pods>>)
      BY <2>4, Zenon DEF DispatchWait, DispatchTemplate, DispatchRevision, Patch, Facing
    <3>2. spec'[Prod].want = spec[Prod].want
      BY <3>1, TemplateReaches DEF Spaces
    <3>3. QED
      BY <1>2, <2>1, <3>1, <3>2, OtherStepScale
  <2>5. QED
    BY <2>2, <2>3, <2>4
<1>4. QED
  BY <1>2, <1>3, StepKeepsPromise

LEMMA PromiseReadScale == ASSUME TypeInv, PromiseInv, ReadScale PROVE PromiseInv'
<1>1. pc \in Dispatching /\ todo # <<>> /\ ~Recorded /\ Untouched /\ UNCHANGED <<spec, pods>>
      /\ todo[1].action = "scale"
  BY DEF ReadScale, Facing
<1>2. Reaches
  BY <1>1, StandStill
<1>3. CASE StepFailed
  <2>1. pc # "apply" => ScaleInv'
    BY <1>1, <1>3, FailedScale DEF Dispatching
  <2>2. QED
    BY <1>1, <1>2, <1>3, <2>1, StepKeepsPromise
<1>4. CASE ~StepFailed
  <2>1. /\ current' = spec[Here].want /\ UNCHANGED <<pc, todo, ready, verdicts>>
        /\ preScale' = IF pc = "undo" THEN preScale ELSE Record(Here)
        /\ UNCHANGED <<plan, metric, original, spec, namespace, seen>>
    BY <1>1, <1>4 DEF ReadScale, Untouched, Same
  <2>2. RehearsalLeavesNoTrace' /\ VerdictInv'
    BY <2>1, RecoveredFrame DEF PromiseInv, RehearsalLeavesNoTrace, VerdictInv, Settled, Here
  <2>3. /\ Scales(plan.steps)' <=> Scales(plan.steps)
        /\ Scales(plan.undo)' <=> Scales(plan.undo)
        /\ Scales(todo)' <=> Scales(todo)
    BY <2>1 DEF Scales
  <2>4. verdicts["undo"] # "yes"
    BY <1>1, NoVerdictYet DEF Dispatching
  <2>5. original # NoScale
    BY Bounds DEF NoScale, TypeInv, ClusterTypeOK
  <2>6. CASE pc = "execute"
    <3>1. Here = Prod /\ preScale' = Record(Prod) /\ Prod \in Spaces
      BY <2>1, <2>6 DEF Here, Rehearsing, Spaces
    <3>2. preScale'[Prod] = original
      BY <2>6, <3>1 DEF PromiseInv, ScaleInv, Record, TypeInv, ClusterTypeOK
    <3>3. ScaleInv'
      BY <2>1, <2>4, <2>5, <2>6, <3>2 DEF ScaleInv, RollbackRestores
    <3>4. QED
      BY <2>2, <3>3 DEF PromiseInv
  <2>7. CASE pc = "undo"
    <3>1. ~Scales(plan.steps)
      BY <1>1, <2>5, <2>7 DEF PromiseInv, ScaleInv, Recorded, Here, Rehearsing
    <3>2. ScaleInv'
      BY <2>1, <2>3, <2>4, <2>7, <3>1 DEF ScaleInv, RollbackRestores
    <3>3. QED
      BY <2>2, <3>2 DEF PromiseInv
  <2>8. CASE pc = "apply"
    BY <2>1, <2>2, <2>4, <2>8 DEF PromiseInv, ScaleInv, RollbackRestores
  <2>9. QED
    BY <1>1, <2>6, <2>7, <2>8 DEF Dispatching
<1>5. QED
  BY <1>3, <1>4

LEMMA PromiseStepsDone == ASSUME TypeInv, PromiseInv, StepsDone PROVE PromiseInv'
<1>1. /\ pc \in Dispatching /\ todo = <<>> /\ ready = FALSE
      /\ UNCHANGED <<plan, metric, original, spec, namespace, seen>>
  BY DEF StepsDone, Same, deployment, TypeInv, ClusterTypeOK, Dispatching, Polling
<1>2. ~Scales(todo) /\ verdicts["undo"] # "yes" /\ verdicts["check"] # "yes"
  BY <1>1, NoVerdictYet DEF Scales, Dispatching
<1>3. CASE pc = "apply"
  <2>1. pc' = "rehearse" /\ ready' = FALSE /\ verdicts' = verdicts /\ spec[Prod] = Fresh(original)
    BY <1>1, <1>3 DEF StepsDone, Goto, PromiseInv, RehearsalLeavesNoTrace, Rehearsing
  <2>2. QED
    BY <1>1, <1>3, <2>1, RehearsalKeepsPromise DEF Rehearsing, Fresh
<1>4. /\ Scales(plan.steps)' <=> Scales(plan.steps)
      /\ Scales(plan.undo)' <=> Scales(plan.undo)
  BY <1>1 DEF Scales
<1>5. CASE pc = "execute"
  <2>1. /\ pc' = "check" /\ ready' = FALSE /\ preScale' = preScale
        /\ \A d \in Calls : verdicts'[d] = IF d = "execute" THEN "yes" ELSE verdicts[d]
    BY <1>5, ReturnVerdicts DEF StepsDone, Forget, Return, Calls
  <2>2. verdicts'["undo"] # "yes" /\ verdicts'["check"] # "yes"
        /\ verdicts'["teardown"] = verdicts["teardown"]
    BY <1>2, <2>1 DEF Calls
  <2>3. RehearsalLeavesNoTrace' /\ VerdictInv'
    BY <1>1, <1>5, <2>1, <2>2 DEF PromiseInv, RehearsalLeavesNoTrace, VerdictInv, Rehearsing
  <2>4. ScaleInv'
    BY <1>1, <1>2, <1>4, <1>5, <2>1, <2>2 DEF PromiseInv, ScaleInv, RollbackRestores
  <2>5. QED
    BY <2>3, <2>4 DEF PromiseInv
<1>6. CASE pc = "undo"
  <2>1. /\ pc' = "end" /\ ready' = FALSE
        /\ \A d \in Calls : verdicts'[d] = IF d = "undo" THEN "yes" ELSE verdicts[d]
    BY <1>6, ReturnVerdicts DEF StepsDone, Return, Calls
  <2>2. verdicts'["check"] # "yes" /\ verdicts'["teardown"] = verdicts["teardown"]
    BY <1>2, <2>1 DEF Calls
  <2>3. RehearsalLeavesNoTrace' /\ VerdictInv'
    BY <1>1, <1>6, <2>1, <2>2 DEF PromiseInv, RehearsalLeavesNoTrace, VerdictInv, Rehearsing
  <2>4. Scales(plan.steps) /\ Scales(plan.undo) => spec[Prod].want = original
    BY <1>2, <1>6 DEF PromiseInv, ScaleInv
  <2>5. ScaleInv'
    BY <1>1, <1>4, <2>1, <2>4 DEF ScaleInv, RollbackRestores
  <2>6. QED
    BY <2>3, <2>5 DEF PromiseInv
<1>7. QED
  BY <1>1, <1>3, <1>5, <1>6 DEF Dispatching

(* What one ready poll has read: the counts of the present generation.     *)
LEMMA ReadyIsSettled ==
  ASSUME TypeInv, PollPods PROVE Settled(Here)'
<1> DEFINE h == Here
           p == status[h].pods
<1>1. /\ pc \in Polling /\ PodReady(h) /\ UNCHANGED <<spec, pc>>
      /\ seen'.pods = p /\ seen'.gen = status[h].gen
  BY DEF PollPods, Polled, deployment
<1>2. /\ h \in Spaces /\ p \in Pods /\ status[h].gen \in Nat /\ spec[h].gen \in Nat
      /\ status[h].gen <= spec[h].gen
  BY HereType DEF TypeInv, ClusterTypeOK
<1>3. status[h].gen = spec[h].gen
  BY <1>1, <1>2 DEF PodReady
<1>4. /\ p.old \in Nat /\ p.starting \in Nat /\ p.ready \in Nat
  BY <1>2 DEF Pods
<1>5. /\ p.starting + p.ready # 0 => p.starting + p.ready >= p.old + p.starting + p.ready
      /\ p.old + p.ready = p.old + p.starting + p.ready
  BY <1>1 DEF PodReady, Total, Updated
<1>6. p.starting = 0 /\ (p.old = 0 \/ p.ready = 0)
  BY <1>4, <1>5
<1>7. Here' = h
  BY <1>1 DEF Here
<1>8. spec'[h] = spec[h]
  BY <1>1
<1>9. QED
  BY <1>1, <1>3, <1>6, <1>7, <1>8 DEF Settled

(* A verdict on the clone, or on production.                               *)
LEMMA PromiseConclude ==
  ASSUME TypeInv, PromiseInv, NEW v \in {"yes", "no"}, pc \in Polling, Conclude(v), Polled,
         v = "yes" => /\ ready /\ seen'.pods = seen.pods /\ seen'.gen = seen.gen
                      /\ pc = "check" => metric.kind = "log" \/ Recovered(seen.value)'
  PROVE  PromiseInv'
<1>1. /\ UNCHANGED <<plan, metric, original, spec, namespace, preScale>>
      /\ current = NoScale /\ verdicts["undo"] # "yes" /\ verdicts["check"] # "yes"
  BY NoVerdictYet DEF Polled, Same, deployment, Polling, Dispatching, TypeInv, ClusterTypeOK
<1>2. /\ Scales(plan.steps)' <=> Scales(plan.steps)
      /\ Scales(plan.undo)' <=> Scales(plan.undo)
  BY <1>1 DEF Scales
<1>3. CASE pc = "rollout" /\ v = "yes"
  <2>1. pc' = "apply" /\ ready' = FALSE /\ verdicts' = verdicts /\ spec[Prod] = Fresh(original)
    BY <1>3 DEF Conclude, PromiseInv, RehearsalLeavesNoTrace, Rehearsing
  <2>2. QED
    BY <1>1, <1>3, <2>1, RehearsalKeepsPromise DEF Rehearsing, Fresh
<1>4. CASE pc = "rehearse" \/ (pc = "rollout" /\ v = "no")
  <2>1. Return("rehearse", v, "teardown")
    BY <1>4 DEF Conclude
  <2>2. /\ pc' = "teardown" /\ ready' = FALSE /\ verdicts'["rehearse"] = v
        /\ verdicts'["undo"] = verdicts["undo"] /\ verdicts'["check"] = verdicts["check"]
    BY <2>1, ReturnVerdicts DEF Return, Calls
  <2>3. spec[Prod] = Fresh(original)
    BY <1>4 DEF PromiseInv, RehearsalLeavesNoTrace, Rehearsing
  <2>4. v = "yes" => Settled(Clone)
    BY <1>4 DEF PromiseInv, VerdictInv, Here, Rehearsing
  <2>5. v = "yes" => Settled(Clone)'
    BY <1>1, <2>4 DEF Settled
  <2>6. QED
    BY <1>1, <1>4, <2>2, <2>3, <2>5, RehearsalKeepsPromise DEF Rehearsing, Fresh
<1>5. CASE pc = "check" /\ v = "no" /\ plan.undo # <<>>
  <2>1. /\ verdicts' = [verdicts EXCEPT !["check"] = "no"] /\ UNCHANGED current
        /\ pc' = "undo" /\ todo' = plan.undo /\ ready' = FALSE
    BY <1>5 DEF Conclude
  <2>2. /\ verdicts'["undo"] # "yes" /\ verdicts'["check"] # "yes"
        /\ verdicts'["teardown"] = verdicts["teardown"]
    BY <1>1, <2>1 DEF TypeInv, ClusterTypeOK, Calls
  <2>3. RehearsalLeavesNoTrace' /\ VerdictInv'
    BY <1>1, <1>5, <2>1, <2>2 DEF PromiseInv, RehearsalLeavesNoTrace, VerdictInv, Rehearsing
  <2>4. Scales(plan.undo)' => Scales(todo)'
    BY <1>1, <2>1 DEF Scales
  <2>5. ScaleInv'
    BY <1>1, <1>2, <1>5, <2>1, <2>2, <2>4 DEF PromiseInv, ScaleInv, RollbackRestores
  <2>6. QED
    BY <2>3, <2>5 DEF PromiseInv
<1>6. CASE pc = "check" /\ (v = "yes" \/ plan.undo = <<>>)
  <2>1. Return("check", v, "end")
    BY <1>6 DEF Conclude
  <2>2. /\ pc' = "end" /\ ready' = FALSE /\ verdicts'["check"] = v
        /\ verdicts'["undo"] # "yes" /\ verdicts'["teardown"] = verdicts["teardown"]
    <3>1. \A d \in Calls : verdicts'[d] = IF d = "check" THEN v ELSE verdicts[d]
      BY <2>1, ReturnVerdicts DEF Calls
    <3>2. verdicts'["undo"] = verdicts["undo"] /\ verdicts'["teardown"] = verdicts["teardown"]
      BY <3>1 DEF Calls
    <3>3. QED
      BY <1>1, <2>1, <3>1, <3>2 DEF Return, Calls
  <2>3. RehearsalLeavesNoTrace'
    BY <1>1, <1>6, <2>2 DEF PromiseInv, RehearsalLeavesNoTrace, Rehearsing
  <2>4. v = "yes" => Settled(Prod)
    BY <1>6 DEF PromiseInv, VerdictInv, Here, Rehearsing
  <2>5. v = "yes" => Settled(Prod)'
    BY <1>1, <2>4 DEF Settled
  <2>6. VerdictInv'
    BY <1>1, <1>6, <2>2, <2>5 DEF VerdictInv
  <2>7. ScaleInv'
    BY <2>2 DEF ScaleInv, RollbackRestores
  <2>8. QED
    BY <2>3, <2>6, <2>7 DEF PromiseInv
<1>7. QED
  BY <1>3, <1>4, <1>5, <1>6 DEF Polling

LEMMA PromiseCheck == ASSUME TypeInv, PromiseInv, Check PROVE PromiseInv'
<1>1. CASE PollPods
  <2>1. /\ pc \in Polling /\ Settled(Here)'
        /\ UNCHANGED <<plan, metric, original, spec, namespace, pc, todo, current, preScale, verdicts>>
    BY <1>1, ReadyIsSettled DEF PollPods, Polled, Same, deployment
  <2>2. pc # "end" /\ pc # "teardown" /\ verdicts["check"] # "yes"
    BY <2>1, NoVerdictYet DEF Polling
  <2>3. VerdictInv'
    BY <2>1, <2>2 DEF VerdictInv
  <2>4. RehearsalLeavesNoTrace' /\ ScaleInv'
    BY <2>1 DEF PromiseInv, RehearsalLeavesNoTrace, ScaleInv, RollbackRestores, Scales
  <2>5. QED
    BY <2>3, <2>4 DEF PromiseInv
<1>2. CASE PollsRunOut
  <2>1. pc \in Polling /\ Conclude("no") /\ Polled
    BY <1>2, Zenon DEF PollsRunOut
  <2>2. QED
    BY <2>1, PromiseConclude
<1>3. CASE PollMetric
  <2>1. pc \in Polling /\ Polled /\ ready
    BY <1>3, Zenon DEF PollMetric
  <2>2. PICK v \in Answers :
          \/ MetricHealthy(v) /\ Conclude("yes") /\ seen' = [seen EXCEPT !.value = v]
          \/ ~MetricHealthy(v) /\ Conclude("no") /\ UNCHANGED seen
          \/ ~MetricHealthy(v) /\ ready' = FALSE /\ UNCHANGED <<pc, todo, current, verdicts, seen>>
    BY <1>3, Zenon DEF PollMetric
  <2>3. CASE MetricHealthy(v) /\ Conclude("yes") /\ seen' = [seen EXCEPT !.value = v]
    <3>1. seen'.pods = seen.pods /\ seen'.gen = seen.gen /\ seen'.value = v
      BY <2>3 DEF TypeInv, ClusterTypeOK
    <3>2. UNCHANGED metric
      BY <2>1 DEF Polled, Same
    <3>3. Recovered(seen.value)' <=> Recovered(v)
      BY <3>1, <3>2 DEF Recovered, ScoreOnly, HasBaseline, ScoreAbove, ScoreBelow, FlatNormal,
                        Away, Larger
    <3>4. pc = "check" => metric.kind = "log" \/ Recovered(v)
      BY <2>3 DEF MetricHealthy
    <3>5. QED
      BY <2>1, <2>3, <3>1, <3>3, <3>4, PromiseConclude
  <2>4. CASE Conclude("no")
    BY <2>1, <2>4, PromiseConclude
  <2>5. CASE ready' = FALSE /\ UNCHANGED <<pc, todo, current, verdicts, seen>>
    <3>1. UNCHANGED <<plan, metric, original, spec, namespace, preScale>>
      BY <2>1 DEF Polled, Same, deployment
    <3>2. pc # "end" /\ pc # "teardown" /\ verdicts["check"] # "yes"
      BY <2>1, NoVerdictYet DEF Polling
    <3>3. VerdictInv'
      BY <2>5, <3>1, <3>2 DEF VerdictInv
    <3>4. RehearsalLeavesNoTrace' /\ ScaleInv'
      BY <2>5, <3>1 DEF PromiseInv, RehearsalLeavesNoTrace, ScaleInv, RollbackRestores, Scales
    <3>5. QED
      BY <3>3, <3>4 DEF PromiseInv
  <2>6. QED
    BY <2>2, <2>3, <2>4, <2>5
<1>4. QED
  BY <1>1, <1>2, <1>3 DEF Check

LEMMA PromiseStep == TypeInv /\ PromiseInv /\ [Next]_vars => PromiseInv'
<1> SUFFICES ASSUME TypeInv, PromiseInv, [Next]_vars PROVE PromiseInv'
  OBVIOUS
<1>1. CASE Rehearse
  BY <1>1, PromisePrepare, PromiseTeardown DEF Rehearse
<1>2. CASE Remediate
  BY <1>2, PromisePatch, PromiseReadScale, PromiseStepsDone DEF Remediate
<1>3. CASE UNCHANGED vars \/ \E n \in Spaces : Sync(n) \/ RollPods(n)
  BY <1>3, PromiseFrame DEF vars, deployment, thread, Sync, RollPods
<1>4. QED
  BY <1>1, <1>2, <1>3, PromiseGate, PromiseCheck DEF Next

LEMMA PromisesKept == Spec => []PromiseInv
<1>1. Spec => []TypeInv
  BY TypeInit, TypeStep, PTL DEF Spec
<1>2. QED
  BY <1>1, PromiseInit, PromiseStep, PTL DEF Spec

(* The rehearsal touches production in nothing, and leaves a namespace     *)
(* behind only where its deletion was refused, for every plan and every    *)
(* run of faults (sandbox.py:258-372).                                     *)
THEOREM RehearsalIsHarmless == Spec => []RehearsalLeavesNoTrace
<1>1. PromiseInv => RehearsalLeavesNoTrace
  BY DEF PromiseInv
<1>2. QED
  BY <1>1, PromisesKept, PTL

(* A rollback that reports success after a scale has restored the replicas *)
(* of production (k8s_remediator.py:40-43).                                *)
THEOREM RollbackIsExact == Spec => []RollbackRestores
<1>1. PromiseInv => RollbackRestores
  BY DEF PromiseInv, ScaleInv
<1>2. QED
  BY <1>1, PromisesKept, PTL

(* No rollout is accepted on counts older than the change, with a pod not  *)
(* ready, or with pods of two templates (k8s_health.py:90-116).            *)
THEOREM RolloutIsWhole == Spec => []NeverHalfRolledOut
<1>1. PromiseInv => NeverHalfRolledOut
  BY DEF PromiseInv, VerdictInv, NeverHalfRolledOut, Accepted, Settled
<1>2. QED
  BY <1>1, PromisesKept, PTL

(* The two rules agree on every value and every baseline, but for a        *)
(* latency below its baseline, as long as a step off a flat baseline       *)
(* scores above the threshold, as verify.py:26-28 takes for granted.       *)
LEMMA RecoveredIsNormal ==
  ASSUME ZThreshold < FlatStepScore, metric \in Metrics, metric.kind # "log", NEW v \in Values,
         Recovered(v)
  PROVE  ~Detected(v) \/ (metric.kind = "latency" /\ metric.policy /\ v < metric.mean)
<1>1. /\ v \in Nat /\ metric.mean \in Nat /\ metric.spread \in Nat \cup {-1}
      /\ ZThreshold \in Nat /\ metric.kind \in {"default", "ratio", "latency"}
      /\ metric.policy \in BOOLEAN
  BY ClusterAssumption
<1> DEFINE cut == ZThreshold * metric.spread
<1>2. cut \in Int
  BY <1>1
<1>3. ASSUME ~ScoreAbove(v), ~ScoreBelow(v), HasBaseline PROVE ~DetectScores(v)
  <2>1. CASE metric.spread > 0
    <3>1. ~(v - metric.mean > cut) /\ ~(metric.mean - v > cut)
      BY <1>3, <2>1 DEF ScoreAbove, ScoreBelow
    <3>2. DetectScores(v) => Away(v) > cut
      BY <2>1 DEF DetectScores
    <3> HIDE DEF cut
    <3>3. QED
      BY <1>1, <1>2, <3>1, <3>2 DEF Away
  <2>2. CASE metric.spread = 0
    BY <1>1, <1>3, <2>2 DEF ScoreAbove, DetectScores, FlatStepScore
  <2>3. QED
    BY <1>1, <1>3, <2>1, <2>2 DEF HasBaseline
<1>4. CASE ScoreOnly
  BY <1>1, <1>3, <1>4 DEF ScoreOnly, Recovered, Detected
<1>5. CASE ~ScoreOnly /\ metric.kind = "ratio"
  BY <1>5 DEF Recovered, Detected, ScoreOnly
<1>6. CASE ~ScoreOnly /\ metric.kind = "latency" /\ v >= metric.mean
  <2>1. ~ScoreAbove(v) /\ ~(v > Ceiling)
    BY <1>6 DEF Recovered, ScoreOnly
  <2>2. CASE metric.spread = -1
    BY <1>6, <2>1, <2>2 DEF Detected, DetectScores, ScoreOnly
  <2>3. CASE metric.spread # -1
    <3>1. HasBaseline
      BY <1>1, <2>3 DEF HasBaseline
    <3>2. ~ScoreBelow(v)
      <4>1. metric.spread > 0 => cut >= 0
        BY <1>1
      <4>2. ScoreBelow(v) => metric.spread > 0 /\ metric.mean - v > cut
        BY DEF ScoreBelow
      <4> HIDE DEF cut
      <4>3. QED
        BY <1>1, <1>2, <1>6, <4>1, <4>2
    <3>3. QED
      BY <1>3, <1>6, <2>1, <3>1, <3>2 DEF Detected, ScoreOnly
  <2>4. QED
    BY <2>2, <2>3
<1>7. QED
  BY <1>1, <1>4, <1>5, <1>6 DEF ScoreOnly

(* Nothing is called healthy that the detector would flag again, for every *)
(* metric, baseline and threshold below the score of a flat step           *)
(* (verify.py:26-60, robust_correlator.py).                                *)
THEOREM HealthAgreesWithDetection ==
  ASSUME ZThreshold < FlatStepScore
  PROVE  Spec => []HealthyIsNormal
<1>1. ClusterTypeOK /\ PromiseInv => HealthyIsNormal
  <2> SUFFICES ASSUME ClusterTypeOK, PromiseInv, verdicts["check"] = "yes", metric.kind # "log"
               PROVE  \/ ~Detected(seen.value)
                      \/ metric.kind = "latency" /\ metric.policy /\ seen.value < metric.mean
    BY DEF HealthyIsNormal, Accepted
  <2>1. Recovered(seen.value)
    BY DEF PromiseInv, VerdictInv
  <2>2. seen.value \in Values /\ metric \in Metrics
    BY <2>1 DEF Recovered, ClusterTypeOK
  <2>3. QED
    BY <2>1, <2>2, RecoveredIsNormal
<1>2. QED
  BY <1>1, TypeCorrect, PromisesKept, PTL

==============================================================================
