---------------------------- MODULE ChangeRequests ----------------------------
(***************************************************************************)
(* Everything through which people change a schedule or the settings: the  *)
(* dashboard, the chat space, the assistant and MCP clients, at the same   *)
(* time.  The settings and the schedules share no object, and a plan says  *)
(* which ways are in use, by whom, for how long, with which chat settings  *)
(* and messages, and how many changes and faults there are.                *)
(***************************************************************************)
EXTENDS ChatSpace, Assistant, SettingsSave

CONSTANT Plans

VARIABLE plan

\* What people do through the dashboard has no roles here, what they do through the
\* assistant has: no plan has both.
ASSUME PlanAssumption ==
    \A p \in Plans :
        p.faults \in Nat /\ p.says \subseteq Messages /\ ~({"people", "assistant"} \subseteq p.parts)

vars == <<clockVars, editVars, chatVars, assistantVars, saveVars, plan>>

Uses(part) == part \in plan.parts

\* What is not in use is as some installation has it.
Init ==
    /\ plan \in Plans /\ changes = plan.changes /\ faults = plan.faults /\ now = 0
    /\ EditInit /\ ChatInit /\ AssistantInit /\ SaveInit
    /\ IF Uses("chat") THEN space \in plan.spaces ELSE space = CHOOSE c \in Configs : TRUE
    /\ ~Uses("assistant") => budget = CHOOSE b \in Budgets : TRUE
    /\ ~Uses("people") => obj.legacy = "none" /\ obj.schedule = CHOOSE s \in Schedules : TRUE

Next ==
    \/ now < plan.time /\ Tick /\ UNCHANGED <<editVars, chatVars, assistantVars, saveVars, plan>>
    \/ Uses("people") /\ PeopleNext(plan.people) /\ UNCHANGED <<chatVars, assistantVars, saveVars, plan>>
    \/ EditNext /\ UNCHANGED <<chatVars, assistantVars, saveVars, plan>>
    \/ Uses("chat") /\ Settle /\ UNCHANGED <<chatVars, assistantVars, saveVars, plan>>
    \/ Uses("chat") /\ ChatNext(plan.says, plan.spaces) /\ UNCHANGED <<assistantVars, saveVars, plan>>
    \/ Uses("assistant") /\ AssistantNext /\ UNCHANGED <<chatVars, saveVars, plan>>
    \/ Uses("settings") /\ SaveNext /\ UNCHANGED <<editVars, chatVars, assistantVars, plan>>

\* Time passes, the controllers run, and the monitors have their tickers.
Fairness ==
    /\ WF_vars(now < plan.time /\ Tick /\ UNCHANGED <<editVars, chatVars, assistantVars, saveVars, plan>>)
    /\ WF_vars(Uses("chat") /\ Settle /\ UNCHANGED <<chatVars, assistantVars, saveVars, plan>>)
    /\ WF_vars(Uses("chat") /\ (\E w \in watch : Monitor(w)) /\ UNCHANGED <<assistantVars, saveVars, plan>>)

FairSpec == Init /\ [][Next]_vars /\ Fairness

-----------------------------------------------------------------------------
\* Nobody's change is lost to somebody else's that was read before it and written after:
\* not in a schedule, not in the settings (EditsKeepTheRest, SectionsKept).
NothingOverwritten == [][EditsKeepTheRest /\ SectionsKept]_vars

\* Nothing happens that is not allowed at that moment: commands of the configured space,
\* tools for people whose role is enough, and questions while the budget lasts
\* (OnlyFromTheSpace, RunWithTheRole, BudgetRespected).
OnlyWhatIsAllowed == [][OnlyFromTheSpace /\ RunWithTheRole /\ BudgetRespected]_vars
=============================================================================
