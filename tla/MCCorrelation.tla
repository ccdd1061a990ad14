---------------------------- MODULE MCCorrelation ----------------------------
(* Two services with a series each, and a bucket each.                     *)
EXTENDS Correlation

CONSTANTS cpu, latency

MCBucket == [s \in Series |-> s]
MCProvable == {{cpu}}
=============================================================================
