\* Safety of the parts around shifts and monitoring events.  Bounded: a part
\* stops when its requests, days or rows are used up.
SPECIFICATION BackOfficeSpec
CONSTANTS
    Parts = {"timer", "timesheets", "webhooks", "alerts", "screenshots", "collectors",
             "devices", "policies", "schedules", "tenancy", "rollups", "payroll"}
    e1 = e1
    e2 = e2
    p1 = p1
    p2 = p2
    t1 = t1
    t2 = t2
    g1 = g1
    g2 = g2
    r1 = r1
    r2 = r2
    Timekeepers = {e1}
    Projects = {p1}
    Tasks = {k1, k2}
    TimerRequests = {r1, r2}
    MaxEntries = 2
    TimerHours = 2
    Periods = {{1}}
    SheetRequests = {r1, r2}
    Copies = 3
    Hours = {0, 8}
    Corrections = {c1}
    MaxSheetOps = 4
    Hooks = {h1}
    HookEvents = {"shift_started"}
    Deliverers = {r1, r2}
    MaxAttempts = 2
    MaxDeliveries = 2
    MaxCrashes = 1
    Watched = {e1}
    RuleKeys = {"excessive_idle"}
    Thresholded = {"excessive_idle"}
    Rules <- IdleRules
    Levels = {0, 1, 2}
    Evaluations = {r1, r2}
    Decisions = {"acknowledged", "resolved"}
    LastDay = 1
    MaxAlertFaults = 1
    Shots = {s1, s2}
    RetentionDays = {0, 1}
    Purges = {r1, r2}
    LastShotDay = 2
    MaxPurgeCrashes = 1
    Apps = {a1, a2}
    Browsers = {a1}
    Configs <- Monitoring
    Minutes = 2
    MaxInput = 1
    MaxRestarts = 1
    Deciders = {r1, r2}
    MaxApprovals = 2
    TokenDays = 1
    LastTokenDay = 2
    PolicyIds = {p1, p2}
    PolicyDefault = PolicyDefault
    Assignable <- AssignedPolicies
    MaxAssignments = 3
    ScheduleIds = {g1, g2}
    Definitions <- ScheduleDefinitions
    SchedAssignable <- AssignedSchedules
    MaxSchedAssignments = 2
    PlanDays <- FourWeeks
    EmployeeZone <- NoZone
    OrgZone <- Spring
    Orgs = {o1, o2}
    NoOrg = NoOrg
    Sessions = {x1, x2}
    RowKeys = {"a"}
    MaxSessions = 2
    MaxAdded = 1
    Staff = {e1, e2}
    Teams = {t1, t2}
    NoTeam = NoTeam
    Subjects = {s1}
    Postings <- StartTeams
    CustomCategories = {"admin"}
    RollupRuns = {r1, r2}
    MaxActivity = 2
    MaxChanges = 1
    Leaves = {l1, l2}
    PayDays = {1, 2}
    Spells <- LeaveSpells
    Attended <- AttendedHours
    MaxRuns = 2
INVARIANTS
    NoTimeTwice
    OneRowPerDay
    DeliveredWasAccepted
    NotGivenUpEarly
    AlertedOnce
    StoredCanBeViewed
    TimeReportedOnce
    RevocationHolds
    OnlyLastSecretWorks
    ResolvedAsDocumented
    WindowsInOrder
    LeaveDayPaidOnce
PROPERTIES
    LockHoldsWithoutOverlap
    SeesItsOrganization
    EachSecondCountedOnce
CONSTRAINT RollupBound
SYMMETRY RequestSymmetry
CHECK_DEADLOCK FALSE
