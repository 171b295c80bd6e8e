---------------------------- MODULE DigestSchedule ----------------------------
(***************************************************************************)
(* internal/finops/reports.go, the schedule of digest.go and               *)
(* internal/api/reports_handlers.go: once a minute the leader looks        *)
(* whether the cost digest is due; it posts it, stores it among the        *)
(* reports and marks the moment on the same ConfigMap.  People send the    *)
(* digest and delete reports meanwhile.                                    *)
(***************************************************************************)
EXTENDS AlertFeed

CONSTANTS Week,          \* ticks between two occasions of a schedule
          Schedules,     \* frequency, time and zone: the tick of the week it is due
          DigestRetry,   \* ticks to the next attempt after a failed one
          MaxReports     \* how many reports are kept

VARIABLES schedule,   \* spec.reports.digest
          reports,    \* the costdeck-reports ConfigMap: its index, newest first, and its marks
          digester,   \* the tick under way
          retryAt     \* not before this moment; in memory only

digestVars == <<schedule, reports, digester, retryAt>>

ASSUME DigestAssumption == Week \in Nat \ {0} /\ Schedules \subseteq 0..(Week - 1) /\ MaxReports \in Nat \ {0}

NoTick == [pc |-> "idle"]

DigestInit ==
    /\ schedule \in [enabled : BOOLEAN, at : Schedules]
    /\ reports = [index |-> <<>>, sent |-> None, of |-> None]
    /\ digester = NoTick
    /\ retryAt = 0

\* NextDigest: the first occasion of a schedule after a moment.
NextDigest(at, after) == CHOOSE t \in after + 1..after + Week : t % Week = at

DigestKey(due) == [kind |-> "digest", of |-> "schedule", period |-> due, threshold |-> 0]

\* SaveReport: the newest first, the oldest beyond the limit dropped.
SaveReport(index, entry) ==
    SubSeq(<<entry>> \o index, 1, IF Len(index) < MaxReports THEN Len(index) + 1 ELSE MaxReports)

-----------------------------------------------------------------------------
\* Tick, a schedule that was turned on or changed: only the moment is recorded.
MarkFirst ==
    /\ digester = NoTick /\ schedule.enabled /\ now >= retryAt
    /\ reports.sent = None \/ reports.of # schedule.at
    /\ reports' = [reports EXCEPT !.sent = now, !.of = schedule.at]
    /\ NoFault /\ UNCHANGED <<schedule, digester, retryAt, feedVars>>

\* Tick, when an occasion since the last digest has come.
DigestDue ==
    /\ digester = NoTick /\ schedule.enabled /\ now >= retryAt
    /\ reports.sent # None /\ reports.of = schedule.at
    /\ LET due == NextDigest(schedule.at, reports.sent)
       IN /\ now >= due
          /\ digester' = [pc |-> "post", at |-> now, due |-> due, of |-> schedule.at]
    /\ NoFault /\ UNCHANGED <<schedule, reports, retryAt, feedVars>>

\* Send, the message: no channel, or none that answers, is tried again in an hour.
PostDigest ==
    /\ digester.pc = "post"
    /\ \E up \in SUBSET DOMAIN AlertChannels :
        LET post == Post(AlertChannels, "digests", up)
        IN /\ Answering(up)
           /\ sent' = Told(DigestKey(digester.due), digester.at, post)
           /\ IF post.err \/ post.nowhere
              THEN digester' = NoTick /\ retryAt' = digester.at + DigestRetry
              ELSE digester' = [digester EXCEPT !.pc = "save"] /\ UNCHANGED retryAt
    /\ UNCHANGED <<schedule, reports, feed, forgotten>>

\* Send, the report: what cannot be stored is sent again in an hour.
SaveDigest ==
    /\ digester.pc = "save"
    /\ \/ /\ reports' = [reports EXCEPT !.index = SaveReport(@, [at |-> digester.at, by |-> "schedule"])]
          /\ digester' = [digester EXCEPT !.pc = "mark"]
          /\ NoFault /\ UNCHANGED <<retryAt, forgotten>>
       \/ /\ digester' = NoTick /\ retryAt' = digester.at + DigestRetry
          /\ forgotten' = forgotten \cup {DigestKey(digester.due)}
          /\ Fault /\ UNCHANGED reports
    /\ UNCHANGED <<schedule, feed, sent>>

\* mark: the moment the tick began and the schedule it saw.
MarkSent ==
    /\ digester.pc = "mark"
    /\ reports' = [reports EXCEPT !.sent = digester.at, !.of = digester.of]
    /\ digester' = NoTick
    /\ NoFault /\ UNCHANGED <<schedule, retryAt, feedVars>>

\* The mark fails, or a new leader begins, whose retryAt is zero.
DigestLost ==
    /\ digester.pc \in {"post", "save", "mark"}
    /\ forgotten' = IF digester.pc = "post" THEN forgotten ELSE forgotten \cup {DigestKey(digester.due)}
    /\ digester' = NoTick /\ retryAt' = 0
    /\ Fault /\ UNCHANGED <<schedule, reports, feed, sent>>

\* handleSendDigest: somebody sends the digest now; it is kept among the reports but
\* is not the schedule's.
SendNow ==
    /\ reports' = [reports EXCEPT !.index = SaveReport(@, [at |-> now, by |-> "user"])]
    /\ Change /\ UNCHANGED <<schedule, digester, retryAt, feedVars>>

\* handleDeleteReport.
DeleteReport ==
    /\ \E i \in DOMAIN reports.index : reports' = [reports EXCEPT !.index = RemoveAt(@, i)]
    /\ Change /\ UNCHANGED <<schedule, digester, retryAt, feedVars>>

\* applyReportSettings: the schedule is turned off or on, or moved.
SaveSchedule ==
    /\ \E s \in [enabled : BOOLEAN, at : Schedules] :
        /\ s # schedule /\ schedule' = s
    /\ Change /\ UNCHANGED <<reports, digester, retryAt, feedVars>>

DigestNext ==
    \/ MarkFirst \/ DigestDue \/ PostDigest \/ SaveDigest \/ MarkSent \/ DigestLost
    \/ SendNow \/ DeleteReport \/ SaveSchedule

-----------------------------------------------------------------------------
\* The schedule's digest of one occasion is sent once to every channel, and the
\* occasions are sent in order, unless the sending could not be stored: retries,
\* restarts, edits of the schedule and digests sent by hand do not repeat it
\* (DigestScheduler.Tick).
OncePerOccasion ==
    \A x, y \in sent :
        x.no < y.no /\ x.key.kind = "digest" /\ y.key.kind = "digest" /\ x.to = y.to
        => x.key.period < y.key.period \/ x.key \in forgotten
=============================================================================
