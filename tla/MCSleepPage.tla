------------------------------ MODULE MCSleepPage ------------------------------
(***************************************************************************)
(* Instances of SleepPage: two schedules with a namespace each, reconciled *)
(* by one controller (two ScalingGroups) or by two (a group and a config); *)
(* the second has no routes.                                               *)
(***************************************************************************)
EXTENDS SleepPage

CONSTANTS g, k, groups, configs, r1, r2, n1, n2

TwoSchedules == {g, k}
OneOrTwo == {[s \in Schedules |-> groups],
             [s \in Schedules |-> IF s = k THEN configs ELSE groups]}
OwnNamespace == [s \in Schedules |-> IF s = g THEN {n1} ELSE {n2}]
Places == [r \in Routes |-> n1]

=============================================================================
