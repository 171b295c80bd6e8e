---------------------------- MODULE ReplicaContract ----------------------------
(***************************************************************************)
(* What scheduling promises the owner of a workload, without stages,       *)
(* passes, pods or companions: CostDeck may set a running workload aside,  *)
(* and then owes it the count it had; when it gives it back, the workload  *)
(* has at least that count and nothing is owed any more.  Anyone else may  *)
(* change a count at any time, which settles no debt.                      *)
(***************************************************************************)
EXTENDS Integers

CONSTANTS Workloads, MaxReplicas

VARIABLES
    count,   \* the replicas a workload has
    owed     \* the replicas CostDeck owes it, 0 when it owes nothing

contractVars == <<count, owed>>

Counts == 0..MaxReplicas

Init ==
    /\ count \in [Workloads -> Counts]
    /\ owed = [w \in Workloads |-> 0]

\* CostDeck scales a running workload to zero.
SetAside(w) ==
    /\ count[w] > 0
    /\ count' = [count EXCEPT ![w] = 0]
    /\ owed' = [owed EXCEPT ![w] = count[w]]

\* CostDeck gives it back, never with fewer replicas than it has or is owed.
GiveBack(w) ==
    /\ \E n \in Counts :
        /\ n > 0 /\ n >= count[w] /\ n >= owed[w]
        /\ count' = [count EXCEPT ![w] = n]
    /\ owed' = [owed EXCEPT ![w] = 0]

\* A user, an autoscaler or a GitOps tool sets the count.
Edit(w) ==
    /\ \E n \in Counts : count' = [count EXCEPT ![w] = n]
    /\ owed' = owed

Next == \E w \in Workloads : SetAside(w) \/ GiveBack(w) \/ Edit(w)

Spec == Init /\ [][Next]_contractVars
=============================================================================
