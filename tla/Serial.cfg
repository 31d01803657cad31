\* One transaction at a time, one employee, one day of schedule.
SPECIFICATION Spec
CONSTANTS
    None = None
    e1 = e1
    k1 = k1  k2 = k2  k3 = k3  k4 = k4  k5 = k5  k6 = k6
    w1 = w1  w2 = w2
    Employees = {e1}
    MaxShifts = 1
    ApiWorkers = {w1}
    JobWorkers = {w1}
    Requests <- Everything
    Policies <- AllPolicies
    MaxTime = 3
    DayLen = 4
    Schedule <- OneDay
    Holidays = {}
    LeaveRequests = {}
    ManualDays = {0}
    MaxCrashes = 0
INVARIANTS
    TypeOK
    LogExplainsState
    OpenBreakIffOnBreak
    WorkedTimeMatchesLog
    AttendanceCurrent
    EndedNoticeIsTrue
PROPERTIES
    ContractSpec
CHECK_DEADLOCK FALSE
