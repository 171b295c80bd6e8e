------------------------------ MODULE LeaderJobs ------------------------------
(***************************************************************************)
(* The jobs the leader runs besides the controllers: the collector of the  *)
(* cost history, the budget and the risk alerter, the digest and the       *)
(* preview cleanup (cmd/main.go adds each to the manager; each has a timer *)
(* of its own).  They share the clock, the notification channels and the   *)
(* ConfigMaps of the alerts and of the cost history.                       *)
(*                                                                         *)
(* jobs is what a deployment has turned on; a job that is off takes no     *)
(* step.  Jobs that share no object need not be on together.               *)
(***************************************************************************)
EXTENDS BudgetAlerts, RiskAlerts, DigestSchedule, PreviewCleanup

CONSTANT Deployments   \* jobs turned on together, and how many changes happen meanwhile

VARIABLE jobs

vars == <<clockVars, ledgerVars, feedVars, budgetVars, riskVars, digestVars, cleanupVars, jobs>>

\* What is off is as it was installed.
Init ==
    /\ \E d \in Deployments : jobs = d.jobs /\ changes = d.changes
    /\ ClockInit /\ FeedInit /\ LedgerInit /\ BudgetInit /\ RiskInit /\ DigestInit /\ CleanupInit
    /\ "digest" \notin jobs => schedule = [enabled |-> FALSE, at |-> CHOOSE s \in Schedules : TRUE]
    /\ "cleanup" \notin jobs => setting = CHOOSE t \in Settings : TRUE

Next ==
    \/ /\ Tick
       /\ UNCHANGED <<ledgerVars, feedVars, budgetVars, riskVars, digestVars, cleanupVars, jobs>>
    \/ /\ "ledger" \in jobs /\ LedgerNext
       /\ UNCHANGED <<feedVars, budgetVars, riskVars, digestVars, cleanupVars, jobs>>
    \/ /\ "budgets" \in jobs /\ BudgetNext
       /\ UNCHANGED <<riskVars, digestVars, cleanupVars, jobs>>
    \/ /\ "risks" \in jobs /\ RiskNext
       /\ UNCHANGED <<ledgerVars, budgetVars, digestVars, cleanupVars, jobs>>
    \/ /\ "digest" \in jobs /\ DigestNext
       /\ UNCHANGED <<ledgerVars, budgetVars, riskVars, cleanupVars, jobs>>
    \/ /\ "cleanup" \in jobs /\ CleanupNext
       /\ UNCHANGED <<ledgerVars, feedVars, budgetVars, riskVars, digestVars, jobs>>

Spec == Init /\ [][Next]_vars

-----------------------------------------------------------------------------
\* No channel is told the same thing twice, whatever fails in between, unless the
\* sender could not store that it had told it: a budget's threshold in a month, a
\* risk in a day, the digest of an occasion (Dispatcher.Send: "a channel that took
\* the message must not get it again because another one was down").
NothingToldTwice == OncePerThreshold /\ OnceADay /\ OncePerOccasion

\* Two alerters write the feed and neither loses what the other wrote: whatever is
\* posted and stored is in the feed, unless newer events have filled it
\* (AppendAlertEvents and Alerter.fire, which update the ConfigMap they read).
FeedKeepsEvery ==
    LET stored == {k \in DOMAIN fired \cup {RiskKey(r) : r \in DOMAIN riskState.fired} :
                      \E m \in sent : m.key = k}
    IN Len(feed) < MaxAlertEvents =>
           stored \ forgotten \subseteq {feed[i].key : i \in DOMAIN feed}

\* Nothing the alerters know gets lost or looks new: not an event another one posted,
\* not since when a risk is open (FeedKeepsEvery, SinceFirstSeen).
NothingForgotten == FeedKeepsEvery /\ SinceFirstSeen
=============================================================================
