-------------------------- MODULE MCWorkloadScaling --------------------------
(* Small instances of WorkloadScaling for TLC.                              *)
EXTENDS WorkloadScaling

CONSTANTS w1, w2

TwoStages == [w \in Workloads |-> IF w = w1 THEN 0 ELSE 999]
=============================================================================
