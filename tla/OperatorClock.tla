----------------------------- MODULE OperatorClock -----------------------------
(***************************************************************************)
(* What the leader's background jobs share: the wall clock they compare    *)
(* with what they stored, and the faults the environment may still cause.  *)
(* A fault is one call that fails: a read or write the API server refuses, *)
(* a channel that does not answer, or a crash of the leader between two    *)
(* calls (internal/*/Start: every job logs the error and waits for its     *)
(* next tick, and a new leader starts it from what is stored).             *)
(***************************************************************************)
EXTENDS Integers, Sequences, FiniteSets, SequencesExt

CONSTANTS MaxTime,    \* the clock stops here
          MaxFaults,  \* how many calls fail in one behaviour
          MaxChanges  \* how many changes people and the cluster make in it

VARIABLES now,     \* the time, in ticks
          faults,  \* the faults left
          changes  \* the changes left

clockVars == <<now, faults, changes>>

ASSUME ClockAssumption == MaxTime \in Nat /\ MaxFaults \in Nat /\ MaxChanges \in Nat

\* Stands for an annotation, a timestamp or an entry that is not there.
None == -1

ClockInit == now = 0 /\ faults = MaxFaults /\ changes \in 0..MaxChanges

\* Time passes between any two calls, also in the middle of a run.
Tick == now < MaxTime /\ now' = now + 1 /\ UNCHANGED <<faults, changes>>

\* A call fails.
Fault == faults > 0 /\ faults' = faults - 1 /\ UNCHANGED <<now, changes>>

NoFault == UNCHANGED clockVars

\* Somebody changes a setting, an object or the cluster.
Change == changes > 0 /\ changes' = changes - 1 /\ UNCHANGED <<now, faults>>
=============================================================================
