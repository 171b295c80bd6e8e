------------------------------ MODULE ApiServer ------------------------------
(***************************************************************************)
(* The replicas of the API server (internal/api/server.go, internal/auth)  *)
(* and what people do through them: sign in, manage users and tokens, read *)
(* the right-sizing advice, apply it and take it back, beside the leader's *)
(* guard.  The parts share the clock and nothing else, so a behaviour is   *)
(* about some of them: plan says which, for how long, and how many changes *)
(* and faults happen meanwhile.                                            *)
(***************************************************************************)
EXTENDS SingleSignOn, SizingAdvice, SizingRecords

CONSTANT Plans

VARIABLE plan

access == <<accountVars, signOnVars>>
sizing == <<sizingVars, recordVars>>
vars == <<clockVars, access, sizing, plan>>

Uses(part) == part \in plan.parts

\* Who has signed in already: nobody where the replicas are only starting.
HeldAtFirst ==
    IF Uses("keys") THEN {}
    ELSE {"builtin"} \cup (IF Uses("users") THEN {"user"} ELSE {}) \cup (IF Uses("tokens") THEN {"token"} ELSE {})

\* What is not in use is as some installation has it.
Init ==
    /\ plan \in Plans /\ changes = plan.changes /\ faults = plan.faults /\ now = 0
    /\ AccountInit /\ SignOnInit /\ SizingInit /\ RecordInit
    /\ {c.kind : c \in held} = HeldAtFirst
    /\ ~Uses("sso") => signOn = CHOOSE c \in SignOns : ~c.enabled
    /\ ~Uses("advice") => /\ box = CHOOSE c \in Containers : TRUE
                          /\ demand = CHOOSE d \in Demands : TRUE
                          /\ pressure = CHOOSE p \in Pressures : TRUE
                          /\ policy = CHOOSE p \in Policies : TRUE

Next ==
    \/ now < plan.time /\ Tick /\ UNCHANGED <<access, sizing, plan>>
    \/ Uses("keys") /\ KeyNext /\ UNCHANGED <<signOnVars, sizing, plan>>
    \/ (Uses("users") \/ Uses("tokens")) /\ SessionNext /\ UNCHANGED <<signOnVars, sizing, plan>>
    \/ Uses("users") /\ UserNext /\ UNCHANGED <<signOnVars, sizing, plan>>
    \/ Uses("tokens") /\ TokenNext /\ UNCHANGED <<signOnVars, sizing, plan>>
    \/ Uses("sso") /\ SignOnNext /\ UNCHANGED <<sizing, plan>>
    \/ Uses("advice") /\ SizingNext /\ UNCHANGED <<access, recordVars, plan>>
    \/ Uses("records") /\ RecordNext /\ UNCHANGED <<access, sizingVars, plan>>

Spec == Init /\ [][Next]_vars
=============================================================================
