\* Two transactions at a time, requests or jobs, and room for a second shift.
SPECIFICATION Spec
CONSTANTS
    None = None
    e1 = e1
    k1 = k1  k2 = k2  k3 = k3  k4 = k4  k5 = k5  k6 = k6
    w1 = w1  w2 = w2
    Employees = {e1}
    MaxShifts = 2
    ApiWorkers = {w1, w2}
    JobWorkers = {w1, w2}
    Requests <- StartBreakEnd
    Policies <- PunctualOnly
    MaxTime = 1
    DayLen = 4
    Schedule <- Early
    Holidays = {}
    LeaveRequests = {}
    ManualDays = {0}
    MaxCrashes = 0
INVARIANTS
    KeysAppliedOnce
    BreaksAreRecorded
    StateIsLastEvent
SYMMETRY WorkerSymmetry
CHECK_DEADLOCK FALSE
