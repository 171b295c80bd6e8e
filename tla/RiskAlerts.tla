------------------------------ MODULE RiskAlerts ------------------------------
(***************************************************************************)
(* internal/api/risk_alerts.go and internal/finops/risk_alerts.go: every   *)
(* half hour the critical performance risks of all namespaces are compared *)
(* with the stored ones; new ones are announced, at most once a day, and   *)
(* the open ones are stored with when they began, for the digest.          *)
(***************************************************************************)
EXTENDS AlertFeed

CONSTANTS Risks,          \* keys of critical risks that may arise
          RiskNamespace,  \* risk -> its namespace
          RealertAfter,   \* ticks after which a risk may be announced again
          FiredKept       \* ticks a closed risk's announcement is remembered

VARIABLES critical,    \* the risks the namespaces really have
          alertsOn,    \* spec.alerts.performanceRisks
          riskState,   \* the costdeck-risk-alerts ConfigMap
          assessor,    \* the check under way
          checks       \* history: the stored checks, oldest first, since alerts are on

riskVars == <<critical, alertsOn, riskState, assessor, checks>>

ASSUME RiskAssumption ==
    IsFiniteSet(Risks) /\ RealertAfter \in Nat \ {0} /\ FiredKept \in Nat /\ FiredKept >= RealertAfter

NoAssessment == [pc |-> "idle"]
RiskKey(k) == [kind |-> "risk", of |-> k, period |-> 0, threshold |-> 0]

RiskInit ==
    /\ critical = {} /\ alertsOn = TRUE
    /\ riskState = [open |-> <<>>, fired |-> <<>>]
    /\ assessor = NoAssessment
    /\ checks = <<>>

\* Check, turned off: the open risks are forgotten, the announcements are not.
ForgetOpen ==
    /\ assessor = NoAssessment /\ ~alertsOn /\ DOMAIN riskState.open # {}
    /\ riskState' = [riskState EXCEPT !.open = <<>>]
    /\ checks' = <<>>
    /\ NoFault /\ UNCHANGED <<critical, alertsOn, assessor, feedVars>>

\* announceable: seen in this check, and not announced in the last day.
announceable(seen, firedAt, at) ==
    {k \in seen : k \notin DOMAIN firedAt \/ at - firedAt[k] >= RealertAfter}

\* Check, the assessment: a namespace in blind cannot be assessed and keeps what it
\* had open (keepUnseen); what is seen keeps when it began.  The timer allows one
\* stored check in a tick.
AssessBegins ==
    /\ assessor = NoAssessment /\ alertsOn
    /\ \A i \in DOMAIN checks : checks[i].at < now
    /\ \E blind \in SUBSET {RiskNamespace[k] : k \in Risks} :
        /\ IF blind = {} THEN NoFault ELSE Fault
        /\ LET last == riskState.open
               seen == {k \in critical : RiskNamespace[k] \notin blind}
               unseen == {k \in DOMAIN last : RiskNamespace[k] \in blind}
           IN assessor' =
                [pc |-> "post", at |-> now, seen |-> seen, blind |-> blind,
                 open |-> [k \in seen \cup unseen |-> IF k \in DOMAIN last THEN last[k] ELSE now],
                 fired |-> riskState.fired,
                 fresh |-> announceable(seen, riskState.fired, now)]
    /\ UNCHANGED <<critical, alertsOn, riskState, checks, feedVars>>

\* Check, the message: one for all that is fresh.  Refused by every channel it stays
\* unannounced, yet the open risks are stored.
PostRisks ==
    /\ assessor.pc = "post"
    /\ \/ /\ assessor.fresh = {}
          /\ assessor' = [assessor EXCEPT !.pc = "save"]
          /\ NoFault /\ UNCHANGED sent
       \/ /\ assessor.fresh # {}
          /\ \E up \in SUBSET DOMAIN AlertChannels :
              LET post == Post(AlertChannels, "alerts", up)
              IN /\ Answering(up)
                 /\ sent' = sent \cup UNION {Told(RiskKey(k), assessor.at, post) : k \in assessor.fresh}
                 /\ assessor' = IF post.err THEN [assessor EXCEPT !.pc = "save", !.fresh = {}]
                                ELSE [assessor EXCEPT !.pc = "feed",
                                        !.fired = Marked(@, assessor.fresh, assessor.at)]
    /\ UNCHANGED <<critical, alertsOn, riskState, checks, feed, forgotten>>

\* AppendAlertEvents: the events of the announced risks, in the order of their names.
FeedRisks ==
    /\ assessor.pc = "feed"
    /\ LET order == CHOOSE s \in SetToSeqs(assessor.fresh) : TRUE
       IN feed' = Fed(feed, [i \in DOMAIN order |-> [key |-> RiskKey(order[i]), at |-> assessor.at]])
    /\ assessor' = [assessor EXCEPT !.pc = "save"]
    /\ NoFault /\ UNCHANGED <<critical, alertsOn, riskState, checks, sent, forgotten>>

\* SaveRiskState: announcements of risks long closed are dropped first.
SaveRisks ==
    /\ assessor.pc = "save"
    /\ LET kept == {k \in DOMAIN assessor.fired :
                       k \in DOMAIN assessor.open \/ assessor.at - assessor.fired[k] <= FiredKept}
       IN riskState' = [open |-> assessor.open, fired |-> [k \in kept |-> assessor.fired[k]]]
    /\ checks' = Append(checks, [at |-> assessor.at, seen |-> assessor.seen, blind |-> assessor.blind])
    /\ assessor' = NoAssessment
    /\ NoFault /\ UNCHANGED <<critical, alertsOn, feedVars>>

\* The feed or the state cannot be written, or the leader goes down.
AssessLost ==
    /\ assessor.pc \in {"post", "feed", "save"}
    /\ forgotten' = IF assessor.pc = "post" THEN forgotten
                    ELSE forgotten \cup {RiskKey(k) : k \in assessor.fresh}
    /\ assessor' = NoAssessment
    /\ Fault /\ UNCHANGED <<critical, alertsOn, riskState, checks, feed, sent>>

\* Workloads run into risks and out of them; somebody turns the alerts off and on.
RiskChanges ==
    /\ \/ \E k \in Risks :
            /\ critical' = IF k \in critical THEN critical \ {k} ELSE critical \cup {k}
            /\ UNCHANGED alertsOn
       \/ alertsOn' = ~alertsOn /\ UNCHANGED critical
    /\ Change /\ UNCHANGED <<riskState, assessor, checks, feedVars>>

RiskNext ==
    \/ ForgetOpen \/ AssessBegins \/ PostRisks \/ FeedRisks \/ SaveRisks \/ AssessLost \/ RiskChanges

-----------------------------------------------------------------------------
\* A risk that comes and goes is announced at most once a day on every channel: when
\* it is announced earlier again, the announcement before could not be stored
\* (RiskAlerter.Check, "the critical risks not announced in the last day").
OnceADay ==
    \A x, y \in sent :
        x.no < y.no /\ x.key.kind = "risk" /\ x.key = y.key /\ x.to = y.to
        => y.at - x.at >= RealertAfter \/ x.key \in forgotten

\* The open risks are the ones last seen in a check that only blind checks of their
\* namespace followed, and Since is when the row of such checks began: neither a
\* namespace that cannot be assessed nor a check that was lost closes a risk or
\* makes an old one look new (keepUnseen, OpenRisk.Since).
SinceFirstSeen ==
    LET Holds(k, i) == k \in checks[i].seen \/ RiskNamespace[k] \in checks[i].blind
        Rows(k) == {i \in DOMAIN checks : k \in checks[i].seen /\ \A j \in i..Len(checks) : Holds(k, j)}
    IN checks # <<>> =>
          /\ DOMAIN riskState.open = {k \in Risks : Rows(k) # {}}
          /\ \A k \in DOMAIN riskState.open : riskState.open[k] = checks[Min(Rows(k))].at
=============================================================================
