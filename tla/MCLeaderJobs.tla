----------------------------- MODULE MCLeaderJobs -----------------------------
(* Small deployments of the leader's jobs.                                  *)
EXTENDS LeaderJobs

CONSTANTS a, b, s,        \* preview namespaces; s is a system namespace
          web, db         \* namespaces with costs and risks

Apart ==
    {[jobs |-> {"cleanup"}, changes |-> 2], [jobs |-> {"ledger", "budgets"}, changes |-> 1],
     [jobs |-> {"budgets", "risks"}, changes |-> 2], [jobs |-> {"digest"}, changes |-> 2]}

\* A webhook, and mail through a server without TLS and without a password.
Hook == [enabled |-> TRUE, events |-> {}, secret |-> TRUE]
Mail(events) == [enabled |-> TRUE, events |-> events, addressed |-> TRUE, user |-> FALSE,
                 secret |-> FALSE, security |-> "none"]
HookOnly == [Slack |-> Hook]
HookAndMail == [Slack |-> Hook, email |-> Mail({"alerts", "digests"})]

Ttl(ttl, warn) == [enabled |-> TRUE, dryRun |-> FALSE, selector |-> TRUE, ttl |-> ttl, warn |-> warn]
TwoSettings == {Ttl(2, 1), Ttl(1, 0)}
SomeLabels == {OffLabel, BadLabel, 1}

\* A budget for everything with a forecast, and one for a namespace.
TwoBudgets ==
    {[name |-> "all", scope |-> "cluster", namespaces |-> {}, limit |-> 3, thresholds |-> {}, forecast |-> TRUE],
     [name |-> "web", scope |-> "namespace", namespaces |-> {web}, limit |-> 4, thresholds |-> {50, 100}, forecast |-> FALSE]}
Unusual == [enabled |-> TRUE, percent |-> 50, minimum |-> 1]
OneRisk == [k \in {"throttled"} |-> web]
=============================================================================
