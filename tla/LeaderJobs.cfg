SPECIFICATION Spec
CONSTANTS
    a = a b = b s = s web = web db = db
    MaxTime = 3 MaxFaults = 1 MaxChanges = 2
    Deployments <- Apart
    AlertChannels <- HookAndMail
    MaxAlertEvents = 4
    Namespaces = {web}
    Costs = {1, 3}
    NodeOverhead = 1
    Currencies = {"usd", "eur"}
    DayTicks = 1 RetentionDays = 3 MaxEncodedDays = 2 MaxGap = 2 Unit = 2
    Budgets <- TwoBudgets
    MonthDays = 2 FiredRetention = 2
    Anomalies <- Unusual
    AnomalyMinBaseline = 1 AnomalyBaselineDays = 2 CompleteDayHours = 1
    Risks = {"throttled"}
    RiskNamespace <- OneRisk
    RealertAfter = 2 FiredKept = 2
    Week = 2
    Schedules = {0, 1}
    DigestRetry = 1
    MaxReports = 2
    Names = {a, b, s}
    System = {s}
    Settings <- TwoSettings
    Labels <- SomeLabels
    Extensions = {1}
    Hour = 1 MaxDeletionsAnHour = 1 LogSize = 1 DefaultWarnBefore = 1
    CleanupChannels <- HookOnly
    MaxLives = 2
CHECK_DEADLOCK FALSE
INVARIANTS  NothingToldTwice NothingForgotten HourlyLimitKept
PROPERTY DeletesAsTold
