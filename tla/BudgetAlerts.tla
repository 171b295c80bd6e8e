----------------------------- MODULE BudgetAlerts -----------------------------
(***************************************************************************)
(* internal/finops/budgets.go: every few minutes the alerter measures the  *)
(* budgets against the month's share of the ledger, looks for namespaces   *)
(* that cost more than usual, posts what it has not posted yet and stores  *)
(* that it did, together with the events of the feed.                      *)
(***************************************************************************)
EXTENDS CostLedger, AlertFeed

CONSTANTS Budgets,           \* spec.budgets
          MonthDays,         \* days of a month
          FiredRetention,    \* ticks a fired key is remembered
          Anomalies,         \* spec.alerts.anomalies: enabled, percent, minimum
          AnomalyMinBaseline, AnomalyBaselineDays, CompleteDayHours

VARIABLES fired,     \* state.json of costdeck-alerts: key -> when it fired
          alerter    \* the check under way

budgetVars == <<fired, alerter>>

\* The keys of one month outlast it, or an alert would fire again in the same month.
\* No two budgets have the same name, and thresholds are percentages
\* (applyBudgetSettings, and the list's map key in the CRD).
ASSUME BudgetAssumption ==
    /\ MonthDays \in Nat \ {0} /\ FiredRetention \in Nat
    /\ FiredRetention >= MonthDays * DayTicks
    /\ \A b, c \in Budgets : b.name = c.name => b = c
    /\ \A b \in Budgets : b.thresholds \subseteq 1..1000

NoCheck == [pc |-> "idle"]
BudgetInit == fired = <<>> /\ alerter = NoCheck

MonthOf(date) == date \div MonthDays
Month(t) == MonthOf(DateOf(t))

\* Thresholds: the budget's own or the default.
Thresholds(b) == IF b.thresholds = {} THEN {80, 100} ELSE b.thresholds

\* EvaluateBudgets, the month so far: the whole bill, or what the namespaces cost
\* that matcher says the budget covers.
Spent(b, ledger, at) ==
    LET ofMonth == SelectSeq(ledger.days, LAMBDA d : MonthOf(d.date) = Month(at))
        share(d) == IF b.scope = "cluster" THEN d.bill
                    ELSE Sum([n \in b.namespaces |-> d.cost[n]])
    IN FoldSeq(LAMBDA d, sum : share(d) + sum, 0, ofMonth)

\* EvaluateBudgets, the rest of the month at the current rate.
Forecast(b, ledger, s) ==
    LET remaining == (Month(s.at) + 1) * MonthDays * DayTicks - s.at
        hourlyNow == IF b.scope = "cluster" THEN s.bill ELSE Sum([n \in b.namespaces |-> s.cost[n]])
    IN Spent(b, ledger, s.at) + hourlyNow * remaining

Key(kind, of, period, t) == [kind |-> kind, of |-> of, period |-> period, threshold |-> t]

\* budgetAlerts: one alert for the highest threshold reached, which takes the lower
\* ones with it, and one when the forecast goes over the limit first.
budgetAlerts(ledger, s) ==
    LET reached(b) == {t \in Thresholds(b) : Spent(b, ledger, s.at) * 100 >= b.limit * t}
        key(b, t) == Key("budget", b.name, Month(s.at), t)
        highest(b) == CHOOSE t \in reached(b) : \A u \in reached(b) : u <= t
    IN {[key |-> key(b, highest(b)), also |-> {key(b, t) : t \in {u \in Thresholds(b) : u < highest(b)}}]
            : b \in {c \in Budgets : c.limit > 0 /\ reached(c) # {}}}
       \cup
       {[key |-> Key("forecast", b.name, Month(s.at), 0), also |-> {}]
            : b \in {c \in Budgets : /\ c.limit > 0 /\ c.forecast
                                     /\ Spent(c, ledger, s.at) < c.limit
                                     /\ Forecast(c, ledger, s) > c.limit}}

\* The days before today that are complete.
Complete(ledger, s) ==
    SelectSeq(ledger.days, LAMBDA d : d.date < DateOf(s.at) /\ d.hours >= CompleteDayHours)

\* The namespaces that cost more on the last of these days than is usual before it.
Jumped(days) ==
    LET base == SubSeq(days, IF Len(days) > AnomalyBaselineDays + 1 THEN Len(days) - AnomalyBaselineDays ELSE 1,
                       Len(days) - 1)
        usual(n) == FoldSeq(LAMBDA d, sum : d.cost[n] + sum, 0, base)
    IN {n \in Namespaces :
           /\ usual(n) > 0
           /\ Last(days).cost[n] * 100 * Len(base) >= usual(n) * (100 + Anomalies.percent)
           /\ Last(days).cost[n] * Len(base) - usual(n) >= Anomalies.minimum * Len(base)}

\* anomalyAlerts: yesterday, when it is complete, against the complete days before it.
anomalyAlerts(ledger, s) ==
    LET days == Complete(ledger, s)
        yesterday == DateOf(s.at) - 1
    IN IF ~Anomalies.enabled \/ Len(days) < AnomalyMinBaseline + 1 \/ Last(days).date # yesterday THEN {}
       ELSE {[key |-> Key("anomaly", n, yesterday, 0), also |-> {}] : n \in Jumped(days)}
-----------------------------------------------------------------------------
\* Alerter.Check: the snapshot, the ledger and the fired keys, read once.  A check
\* that finds nothing, or nothing that has not fired, changes nothing.
CheckBegins ==
    /\ alerter = NoCheck
    /\ LET pending(s) == {p \in budgetAlerts(history, s) \cup anomalyAlerts(history, s) :
                             p.key \notin DOMAIN fired}
           begin(due) == /\ due # {}
                         /\ alerter' = [pc |-> "post", at |-> now, pending |-> due, fired |-> fired,
                                        fresh |-> <<>>]
       IN begin(pending(Build(now, cluster)))
    /\ NoFault /\ UNCHANGED <<ledgerVars, feedVars, fired>>

\* fire, of one alert: posted (or with no channel to post to), or refused by every
\* channel, which leaves it to the next check.
PostAlert ==
    /\ alerter.pc = "post" /\ alerter.pending # {}
    /\ \E up \in SUBSET DOMAIN AlertChannels :
        LET p == CHOOSE q \in alerter.pending : TRUE
            posted(done, post) ==
                /\ sent' = Told(p.key, alerter.at, post)
                /\ alerter' = IF post.err THEN done
                              ELSE [done EXCEPT !.fired = Marked(@, {p.key} \cup p.also, alerter.at),
                                                !.fresh = Append(@, [key |-> p.key, at |-> alerter.at])]
        IN /\ Answering(up)
           /\ posted([alerter EXCEPT !.pending = @ \ {p}], Post(AlertChannels, "alerts", up))
    /\ UNCHANGED <<ledgerVars, feed, forgotten, fired>>

\* fire, the update: keys past the retention go, and both parts of the ConfigMap are
\* written at once.  With nothing fresh nothing is written.
StoreAlerts ==
    /\ alerter.pc = "post" /\ alerter.pending = {}
    /\ IF alerter.fresh = <<>> THEN UNCHANGED <<feed, fired>>
       ELSE /\ feed' = Fed(feed, alerter.fresh)
            /\ fired' = [k \in {x \in DOMAIN alerter.fired : alerter.at - alerter.fired[x] <= FiredRetention}
                            |-> alerter.fired[k]]
    /\ alerter' = NoCheck
    /\ NoFault /\ UNCHANGED <<ledgerVars, sent, forgotten>>

\* The update is refused or the leader goes down: what was posted is not remembered.
AlertsLost ==
    /\ alerter.pc = "post"
    /\ alerter' = NoCheck
    /\ forgotten' = forgotten \cup {alerter.fresh[i].key : i \in DOMAIN alerter.fresh}
    /\ Fault /\ UNCHANGED <<ledgerVars, feed, sent, fired>>

BudgetNext == CheckBegins \/ PostAlert \/ StoreAlerts \/ AlertsLost

-----------------------------------------------------------------------------
\* A budget pages once per threshold and month, and never for a lower threshold
\* after a higher one: no channel takes such a message unless the key, or the one
\* that went before, could not be stored (budgets.go: "Alerts fire once per
\* threshold per month").
OncePerThreshold ==
    \A x, y \in sent :
        /\ x.no < y.no /\ x.key.kind \in {"budget", "forecast", "anomaly"}
        /\ x.to = y.to
        /\ x.key.kind = y.key.kind /\ x.key.of = y.key.of /\ x.key.period = y.key.period
        /\ y.key.threshold <= x.key.threshold
        => x.key \in forgotten
=============================================================================
