------------------------------- MODULE Timetable -------------------------------
(***************************************************************************)
(* When a schedule wants its namespaces up: internal/scaling's weekly      *)
(* windows, dated exceptions, prewarm, manual overrides and idle sleep,    *)
(* with the search for the next change, driven by a clock.                 *)
(*                                                                         *)
(* Time is counted in half minutes, so that a reconcile can fall between   *)
(* two minutes; week minutes are those of a short week (DaysPerWeek days   *)
(* of MinutesPerDay).  A timezone is a shift in minutes.  None stands for  *)
(* an absent time.                                                         *)
(***************************************************************************)
EXTENDS Integers, Sequences, FiniteSets, SequencesExt

CONSTANTS
    DaysPerWeek, MinutesPerDay,
    Timetables,     \* the timetables to explore
    LastTick,       \* bound on the clock
    Overrides,      \* the manual overrides users may set: [active, for] in ticks
    MaxOverrides(_) \* bound on how many the user of a timetable sets

VARIABLES
    now,        \* the clock
    tt,         \* the timetable: schedules, exceptions, lead, and spec.idleAfter, 0 when off
    override,   \* spec.active and spec.activeUntil
    idleUntil,  \* status.idleUntil
    decision,   \* the decision the last reconcile acted on and put in the status
    upSince,    \* since when the schedule has the namespaces up, for idle sleep
    overrides   \* overrides set so far

vars == <<now, tt, override, idleUntil, decision, upSince, overrides>>

None == -1
Minute == 2
WeekMinutes == DaysPerWeek * MinutesPerDay
isWeekday(d) == d \in 0..(DaysPerWeek - 1)

-----------------------------------------------------------------------------
(* Weekly windows.  A schedule is daily (a set of days and the minutes it   *)
(* starts and ends), a span (start day and minute to end day and minute) or *)
(* unusable (times that do not parse).                                      *)

Daily(days, start, end, zone) ==
    [form |-> "daily", days |-> days, start |-> start, end |-> end, zone |-> zone]
Span(startDay, start, endDay, end, zone) ==
    [form |-> "span", startDay |-> startDay, start |-> start, endDay |-> endDay,
     end |-> end, zone |-> zone]
Unusable == [form |-> "unusable", zone |-> 0]

\* Mutant: an overnight window ends on the day it starts.
parseWindowSameDay(s) ==
    CASE s.form = "span" /\ isWeekday(s.startDay) /\ isWeekday(s.endDay) ->
            {[start |-> s.startDay * MinutesPerDay + s.start,
              end |-> s.endDay * MinutesPerDay + s.end]}
      [] s.form = "daily" ->
            {[start |-> d * MinutesPerDay + s.start,
              end |-> d * MinutesPerDay + s.end] : d \in {x \in s.days : isWeekday(x)}}
      [] OTHER -> {}

\* The windows of a schedule in week minutes, none when it is not usable.
parseWindow(s) ==
    CASE s.form = "span" /\ isWeekday(s.startDay) /\ isWeekday(s.endDay) ->
            {[start |-> s.startDay * MinutesPerDay + s.start,
              end |-> s.endDay * MinutesPerDay + s.end]}
      [] s.form = "daily" ->
            {[start |-> d * MinutesPerDay + s.start,
              end |-> (d * MinutesPerDay + s.end
                       + (IF s.end < s.start THEN MinutesPerDay ELSE 0)) % WeekMinutes]
                : d \in {x \in s.days : isWeekday(x)}}
      [] OTHER -> {}

contains(w, m) ==
    IF w.start <= w.end THEN w.start <= m /\ m <= w.end
                        ELSE w.start <= m \/ m <= w.end

weekMinute(t, zone) == (t \div Minute + zone) % WeekMinutes

hasUsableSchedule(schedules) == \E i \in DOMAIN schedules : parseWindow(schedules[i]) # {}

\* Any matching window activates; without a usable schedule the target stays
\* up.
IsActiveAt(t, schedules) ==
    \/ \E i \in DOMAIN schedules : \E w \in parseWindow(schedules[i]) :
        contains(w, weekMinute(t, schedules[i].zone))
    \/ ~hasUsableSchedule(schedules)

-----------------------------------------------------------------------------
(* Dated exceptions and prewarm.                                            *)

DayTicks == MinutesPerDay * Minute
endOfDay(t) == (t \div DayTicks + 1) * DayTicks

\* A dated exception as it is written: a local start, an end that is absent, a
\* date or a date and time, a state, and a timezone.
Dated(start, endForm, end, state, zone) ==
    [start |-> start, endForm |-> endForm, end |-> end, state |-> state, zone |-> zone]

\* The interval an entry stands for: to the end of its start day without an end,
\* and an end date includes that day.  Nothing when it ends before it starts or
\* names no state.
resolveException(e) ==
    LET to == CASE e.endForm = "none" -> endOfDay(e.start)
                [] e.endForm = "date" -> endOfDay(e.end)
                [] e.endForm = "time" -> e.end
    IN  IF to <= e.start \/ e.state \notin {"Up", "Down"} THEN <<>>
        ELSE <<[from |-> e.start - e.zone * Minute, to |-> to - e.zone * Minute,
                active |-> e.state = "Up"]>>

resolveAll(entries) == FlattenSeq([i \in DOMAIN entries |-> resolveException(entries[i])])

\* The days of the named calendars, then the object's own exceptions.
ResolveExceptions(own, days) == resolveAll(days) \o resolveAll(own)

\* What is written in a schedule: days and times of day that parsed, and a timezone.
TimesOfDay == 0..(MinutesPerDay - 1)
Written ==
    [form : {"daily"}, days : SUBSET Int, start : TimesOfDay, end : TimesOfDay, zone : Int]
    \cup [form : {"span"}, startDay : Int, start : TimesOfDay, endDay : Int, end : TimesOfDay, zone : Int]
    \cup {Unusable}
WrittenException ==
    [start : Int, endForm : {"none", "date", "time"}, end : Int, state : STRING, zone : Int]

\* The lead is in whole minutes (PrewarmLead).
ASSUME TimetableAssumption ==
    /\ DaysPerWeek \in Nat \ {0} /\ MinutesPerDay \in Nat \ {0} /\ LastTick \in Nat \ {0}
    /\ \A x \in Timetables :
        /\ x.schedules \in Seq(Written)
        /\ x.own \in Seq(WrittenException) /\ x.days \in Seq(WrittenException)
        /\ x.exceptions = ResolveExceptions(x.own, x.days)
        /\ x.lead \in Nat /\ x.lead % Minute = 0 /\ x.idleAfter \in Nat
    /\ Overrides \subseteq [active : {"up", "down", "none"}, for : Nat]

\* The exception in force at t: of those covering t the one that began last,
\* the later in the list on equal starts; 0 when there is none.
exceptionAt(x, t) ==
    LET covering == {i \in DOMAIN x.exceptions :
                        x.exceptions[i].from <= t /\ t < x.exceptions[i].to}
    IN  IF covering = {} THEN 0
        ELSE CHOOSE i \in covering : \A j \in covering :
                \/ x.exceptions[j].from < x.exceptions[i].from
                \/ x.exceptions[j].from = x.exceptions[i].from /\ j <= i

activeWithoutLead(x, t) ==
    LET i == exceptionAt(x, t)
    IN  IF i # 0 THEN x.exceptions[i].active ELSE IsActiveAt(t, x.schedules)

ActiveAt(x, t) ==
    activeWithoutLead(x, t) \/ (x.lead > 0 /\ activeWithoutLead(x, t + x.lead))

prewarming(x, t) ==
    x.lead > 0 /\ ~activeWithoutLead(x, t) /\ activeWithoutLead(x, t + x.lead)

exceptionsDecide(x, t) ==
    exceptionAt(x, t) # 0 /\ (x.lead <= 0 \/ exceptionAt(x, t + x.lead) # 0)

\* time.Truncate to the minute.
truncate(t) == (t \div Minute) * Minute

\* The first minute after from, and before until, at which the state differs;
\* wholeWeek when the scan went through scanHorizon minutes without one.
scheduleChangeBefore(x, from, until, current) ==
    LET at(k) == truncate(from) + k * Minute
        before(k) == until = None \/ at(k) < until
        result(flips) == [change |-> IF flips = {} THEN None ELSE at(Min(flips)),
                          wholeWeek |-> flips = {} /\ before(WeekMinutes + 1)]
    IN  result({k \in 1..(WeekMinutes + 1) : before(k) /\ ActiveAt(x, at(k)) # current})

\* Mutant: the boundaries do not know about the lead.
boundariesWithoutLead(x, t) ==
    {b \in UNION {{x.exceptions[i].from, x.exceptions[i].to} : i \in DOMAIN x.exceptions} : b > t}

\* The exception boundaries after t, with and without the lead.
boundaries(x, t) ==
    {b \in UNION {LET e == x.exceptions[i]
                  IN  {e.from, e.to, e.from - x.lead, e.to - x.lead} : i \in DOMAIN x.exceptions}
        : b > t}

\* The first hit of a walk over the stretches that begin at t and at each
\* boundary.  The schedules are scanned in a stretch that exceptions alone do not
\* decide, unless they were seen steady for a whole week already.
changeAfter(x, t, current, bounds) ==
    LET usable == hasUsableSchedule(x.schedules)
        until(f) == LET after == {b \in bounds : b > f}
                    IN  IF after = {} THEN None ELSE Min(after)
        scheduleOnly(f) == /\ exceptionAt(x, f) = 0
                           /\ x.lead <= 0 \/ exceptionAt(x, f + x.lead) = 0
        scan(f) == scheduleChangeBefore(x, f, until(f), current)
        steady(f) == \/ ~usable
                     \/ \E g \in {t} \cup bounds :
                            g < f /\ scheduleOnly(g) /\ scan(g).wholeWeek
        scanned(f) == IF exceptionsDecide(x, f) \/ (scheduleOnly(f) /\ steady(f)) THEN None
                      ELSE scan(f).change
        orBoundary(change, end) ==
            IF change # None THEN change
            ELSE IF end # None /\ ActiveAt(x, end) # current THEN end
            ELSE None
        found(f) == orBoundary(scanned(f), until(f))
        first(hits) == IF hits = {} THEN None ELSE found(Min(hits))
    IN  IF ~usable /\ x.exceptions = <<>> THEN None
        ELSE first({f \in {t} \cup bounds : found(f) # None})

\* The first minute after t at which ActiveAt flips, None if it never does.
NextChange(x, t) == changeAfter(x, t, ActiveAt(x, t), boundaries(x, t))

\* Why the target is in its state at t: an exception by its number, 0 for the
\* schedule, Prewarm for prewarm.
Prewarm == -1
reason(x, t) == IF prewarming(x, t) THEN Prewarm ELSE exceptionAt(x, t)

\* The moments after t and before to at which an exception begins or ends and
\* the reason is another one.
reasonChanges(x, t, to) ==
    {b \in UNION {{x.exceptions[i].from, x.exceptions[i].to} : i \in DOMAIN x.exceptions} :
        t < b /\ b < to /\ reason(x, b) # reason(x, t)}

\* Mutant: an exception's boundary ends the stretch even past the change of state.
endOfIntervalUnordered(x, t, to) ==
    LET state(change) == IF change # None /\ change < to THEN change ELSE to
        first(others) == IF others = {} THEN state(NextChange(x, t)) ELSE Min(others)
    IN  first(reasonChanges(x, t, to))

\* Where the preview's stretch that begins at t ends: at the next change of state,
\* at an exception's boundary with another reason, or when prewarming is over.
endOfInterval(x, t, to) ==
    LET state(change) == IF change # None /\ change < to THEN change ELSE to
        reasoned(end) == Min({end} \cup reasonChanges(x, t, end))
        warmed(end) == {b \in (truncate(t) + Minute)..(end - 1) :
                            b % Minute = 0 /\ b <= t + x.lead /\ ~prewarming(x, b)}
        prewarmed(end) == IF reason(x, t) = Prewarm THEN Min({end} \cup warmed(end)) ELSE end
    IN  prewarmed(reasoned(state(NextChange(x, t))))

\* The stretches of [from, to), for previews.
Intervals(x, from, to) ==
    LET rest[t \in from..to] ==
            IF t = to THEN <<>>
            ELSE LET stretch(end) == <<[from |-> t, to |-> end, active |-> ActiveAt(x, t),
                                         why |-> reason(x, t)]>> \o rest[end]
                 IN  stretch(endOfInterval(x, t, to))
    IN  rest[from]

-----------------------------------------------------------------------------
(* Decisions.                                                               *)

\* The legacy override annotation is an override without a deadline.
NoOverride == [active |-> "none", until |-> None]

\* The override in force at t; one whose deadline has come is absent.
EffectiveOverride(o, t) ==
    IF o.active = "none" \/ (o.until # None /\ t >= o.until) THEN "none" ELSE o.active

\* When a bounded override's state next changes: at its expiry, or later when
\* the timetable then agrees with it.
overrideTransition(x, o) ==
    IF o.until = None THEN None
    ELSE IF ActiveAt(x, o.until) # (o.active = "up") THEN o.until
    ELSE NextChange(x, o.until)

decide(x, o, t) ==
    LET forced == EffectiveOverride(o, t) IN
    IF forced # "none"
    THEN [active |-> forced = "up", mode |-> "Manual", next |-> overrideTransition(x, o)]
    ELSE [active |-> IF exceptionAt(x, t) # 0 /\ ~prewarming(x, t)
                     THEN x.exceptions[exceptionAt(x, t)].active
                     ELSE ActiveAt(x, t),
          mode |-> IF prewarming(x, t) THEN "Prewarm"
                   ELSE IF exceptionAt(x, t) # 0 THEN "Exception"
                   ELSE IF hasUsableSchedule(x.schedules) THEN "Schedule"
                   ELSE "AlwaysOn",
          next |-> NextChange(x, t)]

\* Mutant: the sleep's end is taken for the next start.
ApplyIdleEndOnly(d, until, x, o, t) ==
    IF until = None \/ t >= until \/ d.mode # "Schedule" \/ ~d.active THEN d
    ELSE [active |-> FALSE, mode |-> "Idle", next |-> until]

\* An up decision of the schedule is down while the idle sleep lasts; it comes
\* up when the sleep ends or, if the schedule is down by then, at its next start.
ApplyIdle(d, until, x, o, t) ==
    IF until = None \/ t >= until \/ d.mode # "Schedule" \/ ~d.active THEN d
    ELSE LET asleep(then) == [active |-> FALSE, mode |-> "Idle",
                              next |-> IF then.active THEN until ELSE then.next]
         IN  asleep(decide(x, o, until))

\* What a reconcile at t decides.
DecisionAt(t, o) == ApplyIdle(decide(tt, o, t), idleUntil, tt, o, t)

-----------------------------------------------------------------------------
(* The clock, the users and the idle watch.                                 *)

\* A reconcile acts on decision d: anything but an idle sleep ends the sleep, and
\* the time the namespaces are up is counted from when they were brought up.
Reconcile(d, t) ==
    /\ decision' = d
    /\ idleUntil' = IF d.mode = "Idle" THEN idleUntil ELSE None
    /\ upSince' = IF ~d.active THEN None ELSE IF upSince = None THEN t ELSE upSince

Tick ==
    /\ now < LastTick
    /\ now' = now + 1
    /\ Reconcile(DecisionAt(now + 1, override), now + 1)
    /\ UNCHANGED <<tt, override, overrides>>

\* A user starts or stops the target, for a time or until further notice, or
\* goes back to the schedule.
SetOverride(o) ==
    LET set == IF o.active = "none" THEN NoOverride
               ELSE [active |-> o.active, until |-> IF o.for = 0 THEN None ELSE now + o.for]
    IN  /\ overrides < MaxOverrides(tt)
        /\ overrides' = overrides + 1
        /\ override' = set
        /\ Reconcile(DecisionAt(now, set), now)
        /\ UNCHANGED <<now, tt>>

idleSleepLongest == WeekMinutes * Minute

\* The idle watch finds nobody used the namespaces for the idle period: they
\* sleep until the schedule's next change, at most a week.
FallAsleep ==
    LET capped == now + idleSleepLongest
        until == IF decision.next # None /\ decision.next < capped THEN decision.next ELSE capped
    IN  /\ tt.idleAfter > 0
        /\ decision.mode = "Schedule" /\ decision.active
        /\ upSince # None /\ now - upSince >= tt.idleAfter
        /\ idleUntil' = until
        /\ decision' = ApplyIdle(decision, until, tt, override, now)
        /\ upSince' = None
        /\ UNCHANGED <<now, tt, override, overrides>>

Init ==
    /\ now = 0
    /\ tt \in Timetables
    /\ override = NoOverride
    /\ idleUntil = None
    /\ decision = decide(tt, NoOverride, 0)
    /\ upSince = IF ActiveAt(tt, 0) THEN 0 ELSE None
    /\ overrides = 0

Next ==
    \/ Tick
    \/ \E o \in Overrides : SetOverride(o)
    \/ FallAsleep

Spec == Init /\ [][Next]_vars

-----------------------------------------------------------------------------
(* Properties.                                                              *)

\* The minutes of the calendar a schedule means: a daily window begins on each
\* of its days and lasts from start to end, past midnight when end is earlier;
\* a span runs from its start day on until its end.
Meant(s, m) ==
    LET covers(begin, length) == \E k \in 0..length : (begin + k) % WeekMinutes = m
    IN  CASE s.form = "daily" ->
                \E d \in s.days : /\ isWeekday(d)
                                  /\ covers(d * MinutesPerDay + s.start,
                                            (s.end - s.start) % MinutesPerDay)
          [] s.form = "span" ->
                /\ isWeekday(s.startDay) /\ isWeekday(s.endDay)
                /\ covers(s.startDay * MinutesPerDay + s.start,
                          ((s.endDay - s.startDay) * MinutesPerDay + s.end - s.start) % WeekMinutes)
          [] OTHER -> FALSE

\* The week-minute windows, with overnight and week-wrapping ones, cover exactly
\* the minutes the schedule means (parseWindow, weeklyWindow.contains).
WindowsMeanTheCalendar ==
    \A i \in DOMAIN tt.schedules : \A m \in 0..(WeekMinutes - 1) :
        (\E w \in parseWindow(tt.schedules[i]) : contains(w, m)) <=> Meant(tt.schedules[i], m)

\* The object's own exception outranks a calendar day that begins with it or
\* before it, and covers every moment of the days it names (ResolveExceptions,
\* resolveException, exceptionAt).
OwnExceptionHolds ==
    \A i \in DOMAIN tt.own :
        LET e == tt.own[i]
            local == now + e.zone * Minute
            day == local \div DayTicks
            covers == /\ e.start <= local
                      /\ CASE e.endForm = "none" -> day = e.start \div DayTicks
                           [] e.endForm = "date" -> day <= e.end \div DayTicks
                           [] e.endForm = "time" -> local < e.end
            begins(f) == f.start - f.zone * Minute
            first == \A f \in Range(tt.own) \cup Range(tt.days) :
                        \/ f = e \/ begins(f) < begins(e) \/ f.start > now + f.zone * Minute
                        \/ f \in Range(tt.days) \ Range(tt.own) /\ begins(f) = begins(e)
        IN  e.state \in {"Up", "Down"} /\ covers /\ first
            => activeWithoutLead(tt, now) = (e.state = "Up")

\* A start of the timetable that lasts at least as long as the lead finds the
\* target up for the whole lead before it (ActiveAt, prewarming).
PrewarmedInTime ==
    LET starts(t) == ~activeWithoutLead(tt, t - 1) /\ activeWithoutLead(tt, t)
        lasts(t) == \A k \in 0..tt.lead : activeWithoutLead(tt, t + k)
    IN  now >= tt.lead /\ starts(now) /\ lasts(now)
        => \A k \in 0..tt.lead : ActiveAt(tt, now - k)

\* What is written in a timetable is what happens: its windows cover the minutes of
\* the calendar they name, its own exceptions hold for all of their days, and what
\* must be up in time is warmed up before (IsActiveAt, exceptionAt, ActiveAt).
MeansWhatItSays == WindowsMeanTheCalendar /\ OwnExceptionHolds /\ PrewarmedInTime

\* A decision foretells its own next change: the clock changes the desired state
\* exactly when the last decision said it would, through exceptions, prewarm and
\* overrides that run out (NextChange, decide).  The status shows it, and
\* settledRequeue wakes the reconciler by it.  For idle sleep, which exceptions
\* and prewarm cut short, SleepersWakeInTime says how far it holds.
TransitionsForetold ==
    [][now' # now /\ decision.mode # "Idle" =>
        (decision.active # decision'.active <=> decision.next = now')]_vars

\* A sleeper is up no later than its decision said, and earlier only because an
\* exception or a prewarm took charge; the sleep takes away hours of the schedule
\* itself, never what a user or an exception asked for (ApplyIdle,
\* idleWatch.reconcile).
SleepersWakeInTime ==
    [][/\ now' # now /\ decision.mode = "Idle" =>
            /\ decision.next = now' => decision'.active
            /\ decision'.active =>
                decision.next = now' \/ decision'.mode \in {"Exception", "Prewarm"}
       /\ idleUntil' # None =>
            /\ EffectiveOverride(override', now') = "none" /\ exceptionAt(tt, now') = 0
            /\ \A t \in now'..(idleUntil' - 1) : ActiveAt(tt, t)]_vars

\* The stretches follow one another from from to to, each in one state.
KeepState(ivs, from, to) ==
    /\ ivs[1].from = from /\ ivs[Len(ivs)].to = to
    /\ \A i \in DOMAIN ivs :
        /\ i > 1 => ivs[i].from = ivs[i - 1].to
        /\ \A t \in ivs[i].from..(ivs[i].to - 1) : ActiveAt(tt, t) = ivs[i].active

\* Every stretch of a preview is in one state from its beginning to its end, and
\* the stretches follow one another through the whole period (Intervals, which
\* ActiveShare and the estimates add up).
IntervalsKeepState ==
    now = LastTick => KeepState(Intervals(tt, 1, LastTick + 1), 1, LastTick + 1)

=============================================================================
