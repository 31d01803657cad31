\* Fairness of the sync loop, of the backend and of the jobs, which Celery
\* beat starts again and again; bounded faults.
SPECIFICATION ProgressSpec
CONSTANTS
    Parts = {"sync", "webhooks", "alerts", "screenshots"}
    e1 = e1
    NoShift = NoShift
    ShiftIds <- OneShift
    Waiting = {"AVAILABLE"}
    Running = {"WORKING"}
    Terminal = {"COMPLETED"}
    Handlers = {h1, h2}
    BatchSize = 2
    MaxEvents = 2
    MaxFaults = 1
    Hooks = {w1}
    HookEvents = {"shift_started"}
    Deliverers = {r1, r2}
    MaxAttempts = 3
    MaxDeliveries = 1
    MaxCrashes = 1
    Watched = {e1, e2}
    RuleKeys = {"excessive_idle"}
    Thresholded = {"excessive_idle"}
    Rules <- IdleRules
    Levels = {0, 2}
    Evaluations = {r1, r2}
    Decisions = {}
    LastDay = 1
    MaxAlertFaults = 1
    Shots = {s1, s2}
    RetentionDays = {0, 1}
    Purges = {r1, r2}
    LastShotDay = 2
    MaxPurgeCrashes = 1
PROPERTIES
    StreamFairSpec
    QueueDrains
    DeliveryEnds
    OverdueIsAlerted
    RetentionIsKept
CHECK_DEADLOCK FALSE
