------------------------------- MODULE Assistant -------------------------------
(***************************************************************************)
(* The assistant and the MCP server (internal/ai/agent.go, internal/api/   *)
(* assistant_handlers.go, assistant_tools.go, ai_usage.go, mcp_server.go). *)
(* A question is a loop of model calls.  A tool the model calls reads, or, *)
(* where it would change something, only puts a card before the person,    *)
(* who may confirm it then, later or never, while an admin changes roles.  *)
(* An MCP client calls the same tools.  What the calls used is added to    *)
(* the month's count when the question has ended, and the next question is *)
(* refused once the count has reached the budget.                          *)
(***************************************************************************)
EXTENDS ScheduleEdits

CONSTANTS ToolAsks,    \* the calls of tools that change something
          TokenUses,   \* what one model call may use
          Budgets,     \* the monthly budgets admins set; 0 is none
          MaxSteps,    \* Agent.MaxSteps
          MonthTicks,  \* ticks of a month
          MonthsKept   \* aiUsageMonths

VARIABLES role,    \* person -> role
          talk,    \* person -> the question under way
          cards,   \* person -> confirmation cards in the browser
          usage,   \* the ConfigMap of the usage: version (0 before it exists), month -> tokens
          budget,  \* the monthly token budget
          booked   \* month -> tokens that were recorded, all in all

assistantVars == <<role, talk, cards, usage, budget, booked>>

ASSUME AssistantAssumption ==
    /\ MaxSteps \in Nat \ {0} /\ MonthTicks \in Nat \ {0} /\ MonthsKept \in Nat \ {0}
    /\ TokenUses \subseteq Nat /\ \A a \in ToolAsks : WellAsked(a)

Roles == <<"viewer", "operator", "admin">>
Silent == [pc |-> "idle"]
Month(t) == t \div MonthTicks

AssistantInit ==
    /\ role = [p \in People |-> "admin"]
    /\ talk = [p \in People |-> Silent]
    /\ cards = [p \in People |-> {}]
    /\ usage = [version |-> 0, months |-> <<>>]
    /\ budget \in Budgets
    /\ booked = [m \in 0..Month(MaxTime) |-> 0]

\* Role.Allows.
Allows(r, needed) == \E i, j \in DOMAIN Roles : Roles[i] = r /\ Roles[j] = needed /\ i >= j

\* toolRegistry: overrides are for operators, what changes a schedule is for admins.
Needs(a) == IF a.kind \in {"add", "remove"} THEN "admin" ELSE "operator"
toolAllowed(p, a) == Allows(role[p], Needs(a))
toolsFor(p) == {a \in ToolAsks : toolAllowed(p, a)}

-----------------------------------------------------------------------------
\* aiUsage: what the ConfigMap says of a month.
Tokens(u, m) == IF m \in DOMAIN u.months THEN u.months[m] ELSE 0

\* checkAIBudget.
WithinBudget(t) == budget = 0 \/ Tokens(usage, Month(t)) < budget

\* handleAIChat, handleAIReportGenerate: the budget is checked before the first model
\* call, and one that cannot be checked blocks nobody.
AskAssistant(p) ==
    /\ talk[p].pc = "idle"
    /\ \/ WithinBudget(now) /\ Change
       \/ ~WithinBudget(now) /\ Fault
    /\ talk' = [talk EXCEPT ![p] = [pc |-> "model", offered |-> toolsFor(p), steps |-> 0, used |-> 0]]
    /\ UNCHANGED <<editVars, role, cards, usage, budget, booked>>

\* Agent.Run: a model call uses tokens and ends the answer, or calls a tool: execute
\* refuses one that was not offered and makes a card of one that changes something.  A
\* call that fails ends the question with what was used before.
Step(p) ==
    /\ talk[p].pc = "model"
    /\ \/ /\ Fault
          /\ talk' = [talk EXCEPT ![p] = IF @.steps = 0 THEN Silent ELSE [@ EXCEPT !.pc = "get"]]
          /\ UNCHANGED cards
       \/ \E u \in TokenUses, call \in {{}} \cup {{a} : a \in ToolAsks} :
             /\ NoFault
             /\ cards' = [cards EXCEPT ![p] = @ \cup (call \cap talk[p].offered)]
             /\ LET over == call = {} \/ talk[p].steps + 1 = MaxSteps
                IN talk' = [talk EXCEPT ![p] = [pc |-> IF over THEN "get" ELSE "model", offered |-> @.offered,
                                                steps |-> @.steps + 1, used |-> @.used + u]]
    /\ UNCHANGED <<editVars, role, usage, budget, booked>>

\* addAIUsage: the month's entry as read, with this question's tokens, and without the
\* months before the last MonthsKept.
Added(u, m, tokens) ==
    LET all == DOMAIN u.months \cup {m}
        kept == {k \in all : Cardinality({j \in all : j > k}) < MonthsKept}
    IN [k \in kept |-> Tokens(u, k) + IF k = m THEN tokens ELSE 0]

\* recordAIUsage, in the month the question ended in: read, and written where nobody else
\* has written meanwhile; a ConfigMap somebody else has just created is no conflict to
\* retry, and the count is lost.
RecordGet(p) ==
    /\ talk[p].pc = "get" /\ NoFault
    /\ LET month == IF "month" \in DOMAIN talk[p] THEN talk[p].month ELSE Month(now)
       IN talk' = [talk EXCEPT ![p] = [pc |-> "put", used |-> talk[p].used, month |-> month,
                       seen |-> usage.version, new |-> Added(usage, month, talk[p].used)]]
    /\ UNCHANGED <<editVars, role, cards, usage, budget, booked>>

\* Mutant: the count is written without comparing versions.
RecordOverAll(p) ==
    /\ talk[p].pc = "put" /\ NoFault
    /\ usage' = [version |-> usage.version + 1, months |-> talk[p].new]
    /\ booked' = [booked EXCEPT ![talk[p].month] = @ + talk[p].used]
    /\ talk' = [talk EXCEPT ![p] = Silent]
    /\ UNCHANGED <<editVars, role, cards, budget>>

RecordPut(p) ==
    /\ talk[p].pc = "put"
    /\ LET t == talk[p]
       IN \/ /\ t.seen = usage.version /\ NoFault
             /\ usage' = [version |-> usage.version + 1, months |-> t.new]
             /\ booked' = [booked EXCEPT ![t.month] = @ + t.used]
             /\ talk' = [talk EXCEPT ![p] = Silent]
          \/ /\ t.seen # usage.version /\ NoFault
             /\ talk' = [talk EXCEPT ![p] = IF t.seen = 0 THEN Silent
                                            ELSE [pc |-> "get", used |-> t.used, month |-> t.month]]
             /\ UNCHANGED <<usage, booked>>
          \/ /\ Fault
             /\ talk' = [talk EXCEPT ![p] = Silent]
             /\ UNCHANGED <<usage, booked>>
    /\ UNCHANGED <<editVars, role, cards, budget>>

-----------------------------------------------------------------------------
\* executeMutatingTool: the role is that of the moment, not of the card.
executeMutatingTool(p, a) == toolAllowed(p, a) /\ Ask(p, a)

\* handleAIExecuteTool: the person confirms a card.
Confirm(p, a) ==
    /\ a \in cards[p]
    /\ executeMutatingTool(p, a)
    /\ UNCHANGED assistantVars

\* registerMCPTool: an MCP client calls a tool, for somebody who is at least operator.
CallTool(p, a) ==
    /\ Allows(role[p], "operator")
    /\ executeMutatingTool(p, a)
    /\ UNCHANGED assistantVars

\* An admin gives somebody another role.
SetRole(p, r) ==
    /\ r # role[p] /\ Change
    /\ role' = [role EXCEPT ![p] = r]
    /\ UNCHANGED <<editVars, talk, cards, usage, budget, booked>>

\* applyAISettings: an admin sets another budget.
SetBudget(b) ==
    /\ b # budget /\ Change
    /\ budget' = b
    /\ UNCHANGED <<editVars, role, talk, cards, usage, booked>>

AssistantNext ==
    \/ \E p \in People : AskAssistant(p) \/ Step(p) \/ RecordGet(p) \/ RecordPut(p)
    \/ \E p \in People, a \in ToolAsks : Confirm(p, a) \/ CallTool(p, a)
    \/ \E p \in People, r \in {"viewer", "operator"} : SetRole(p, r)
    \/ \E b \in Budgets : SetBudget(b)

-----------------------------------------------------------------------------
\* Nothing a model asks for happens unless somebody whose role allows it at that moment
\* confirms or calls it: a card of a better time is worth nothing (executeMutatingTool).
RunWithTheRole ==
    \A p \in People : edits[p].pc = "idle" /\ edits'[p].pc = "get" => Allows(role[p], Needs(edits'[p].ask))

\* However questions overlap, none is taken once the month's questions that have ended and
\* were recorded have used the budget up, unless the count cannot be read (checkAIBudget
\* before, recordAIUsage after a question).
BudgetRespected ==
    \A p \in People : talk[p].pc = "idle" /\ talk'[p].pc = "model" =>
        budget = 0 \/ booked[Month(now)] < budget \/ faults' < faults
=============================================================================
