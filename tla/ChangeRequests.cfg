SPECIFICATION FairSpec
CONSTANTS
    ann = ann bob = bob r1 = r1 r2 = r2 polls = polls ops = ops dev = dev
    MaxTime = 1 MaxFaults = 1 MaxChanges = 3
    Plans <- SomePlans
    Schedules <- Timetables
    Labels = {"release"}
    DayOf <- OneDay
    CalendarDays <- OneCalendar
    MaxExceptions = 1
    Asks <- SomeAsks
    People = {ann, bob}
    Bots = {r1, r2, polls}
    MaxTries = 2
    Rooms = {ops, dev} NoRoom = "" Configs <- SomeConfigs Messages <- AllMessages
    Replicas = {r1, r2} Poller = polls
    Page = 1 RoomsKept = 1 DeliveryWindow = 1 DeliveriesKept = 1 MonitorTimeout = 1
    ToolAsks <- SomeTools
    TokenUses = {1} Budgets = {0, 2} MaxSteps = 2 MonthTicks = 1 MonthsKept = 1
    Admins = {ann, bob}
    Saves <- SomeSaves
    MaxAttempts = 2
CHECK_DEADLOCK FALSE
INVARIANTS AnsweredOnce SavedWhole
PROPERTIES  HoldsEndAsAsked OnlyWhatIsAllowed Reported
