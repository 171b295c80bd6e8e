CONSTANTS
    DaysPerWeek = 2
    MinutesPerDay = 3
    Timetables <- AllTimetables
    LastTick = 20
    Overrides <- SomeOverrides
    MaxOverrides <- FewOverrides
SPECIFICATION Spec
INVARIANTS MeansWhatItSays IntervalsKeepState
PROPERTIES TransitionsForetold SleepersWakeInTime
CHECK_DEADLOCK FALSE
