----------------------------- MODULE MCTimetable -----------------------------
(* Small calendars for Timetable: weeks of two days of three minutes.       *)
EXTENDS Timetable

Minutes == 0..(MinutesPerDay - 1)
Days == 0..(DaysPerWeek - 1)

\* Every daily and spanning window of the short week, and unusable schedules.
AllSchedules ==
    {Daily(days, s, e, z) : days \in SUBSET (Days \cup {9}), s \in Minutes, e \in Minutes, z \in {0, 1}}
    \cup {Span(sd, s, ed, e, 0) : sd \in Days, s \in Minutes, ed \in Days, e \in Minutes}
    \cup {Span(9, 0, 0, 0, 0), Unusable}

\* A dated exception given by minutes, and one given by its day alone.
Exception(from, to, up) ==
    Dated(from * Minute, "time", to * Minute, IF up THEN "Up" ELSE "Down", 0)
Holiday(day, up) == Dated(day * DayTicks, "none", 0, IF up THEN "Up" ELSE "Down", 0)

Timetable(schedules, own, days, lead) ==
    [schedules |-> schedules, own |-> own, days |-> days,
     exceptions |-> ResolveExceptions(own, days), lead |-> lead * Minute, idleAfter |-> 0]

\* One schedule, no exception.
WindowTimetables == {Timetable(<<s>>, <<>>, <<>>, l) : s \in AllSchedules, l \in {0, 2}}

FewSchedules ==
    {<<>>, <<Unusable>>, <<Daily({0}, 0, 1, 0)>>, <<Daily({0, 1}, 2, 0, 0)>>,
     <<Daily({1}, 1, 1, 0), Span(0, 1, 0, 0, 0)>>}

\* Few schedules, one or two exceptions, with and without a lead.
Spans == {p \in (1..7) \X (2..9) : p[1] < p[2]}
ExceptionTimetables ==
    {Timetable(s, <<Exception(p[1], p[2], up)>>, <<>>, l) :
        s \in FewSchedules, p \in Spans, up \in BOOLEAN, l \in 0..2}
    \cup
    {Timetable(s, <<Exception(p[1], p[2], up), Exception(q[1], q[2], ~up)>>, <<>>, l) :
        s \in FewSchedules, p \in {<<1, 4>>, <<4, 6>>}, q \in Spans, up \in BOOLEAN, l \in {0, 2}}

\* Own exceptions, by date and by time, among the days of a calendar.
CalendarTimetables ==
    {Timetable(s, <<e>>, <<Holiday(d, up), Holiday(1, ~up)>>, l) :
        s \in {<<Daily({0}, 0, 1, 0)>>},
        e \in {Dated(b, f, n, st, z) : b \in {0, 6, 8}, f \in {"none", "date", "time"}, n \in {6, 9, 12},
                                     st \in {"Up", "Down"}, z \in {0, 1}}
              \cup {Dated(6, "none", 0, "?", 0)},
        d \in 0..2, up \in BOOLEAN, l \in {0, 1}}

\* For overrides: schedules with hours, round the clock, and with an exception.
OverriddenTimetables ==
    {Timetable(s, e, <<>>, l) :
        s \in {<<Daily({0}, 0, 2, 0)>>, <<Daily({0, 1}, 1, 2, 0)>>, <<Daily({0, 1}, 2, 0, 0)>>,
               <<Daily({0, 1}, 0, 2, 0)>>},
        e \in {<<>>, <<Exception(3, 5, TRUE)>>, <<Exception(1, 4, FALSE)>>, <<Exception(7, 8, FALSE)>>},
        l \in {0, 1}}

\* The same, and asleep after a minute without use.
IdleTimetables == {[x EXCEPT !.idleAfter = Minute] : x \in OverriddenTimetables}

AllTimetables ==
    WindowTimetables \cup ExceptionTimetables \cup CalendarTimetables
    \cup OverriddenTimetables \cup IdleTimetables

\* Users interfere with the timetables that are meant for it.
FewOverrides(x) ==
    IF x \in OverriddenTimetables THEN 2 ELSE IF x \in IdleTimetables THEN 1 ELSE 0

SomeOverrides ==
    {[active |-> a, for |-> f] : a \in {"up", "down"}, f \in {0, 3, 6}} \cup {[active |-> "none", for |-> 0]}
=============================================================================
