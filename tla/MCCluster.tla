------------------------------ MODULE MCCluster ------------------------------
(* Plans of every kind of step, and of two scale steps; metrics of every   *)
(* kind of rule, with a spread, a flat and a missing baseline.             *)
EXTENDS Cluster

Do(a, r) == [action |-> a, replicas |-> r]
Plan(steps, undo) == [steps |-> steps, undo |-> undo]

MCPlans ==
  { Plan(<<Do("scale", 2), Do("wait", 0)>>, <<Do("scale", -2)>>),
    Plan(<<Do("scale", -1), Do("scale", 2)>>, <<Do("scale", -2), Do("template", 0)>>),
    Plan(<<Do("template", 0)>>, <<>>),
    Plan(<<Do("revision", 0)>>, <<Do("scale", 1)>>) }

Metric(kind, policy, mean, spread) ==
  [kind |-> kind, policy |-> policy, mean |-> mean, spread |-> spread]
MCMetrics ==
  { Metric("log", TRUE, 0, -1), Metric("default", TRUE, 5, 1),
    Metric("default", TRUE, 5, 0), Metric("ratio", TRUE, 2, -1),
    Metric("latency", TRUE, 5, 1) }
=============================================================================
