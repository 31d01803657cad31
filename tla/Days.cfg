\* One transaction at a time, the schedule of two days, leave for the second.
SPECIFICATION Spec
CONSTANTS
    None = None
    e1 = e1
    k1 = k1  k2 = k2  k3 = k3  k4 = k4  k5 = k5  k6 = k6
    w1 = w1  w2 = w2
    Employees = {e1}
    MaxShifts = 2
    ApiWorkers = {w1}
    JobWorkers = {w1}
    Requests <- NextDay
    Policies <- OnePolicy
    MaxTime = 6
    DayLen = 3
    Schedule <- TwoDays
    Holidays = {}
    LeaveRequests <- LeaveOnDay1
    ManualDays = {}
    MaxCrashes = 0
INVARIANTS
    OneShiftPerOccurrence
    AttendanceCurrent
PROPERTIES
    ContractSpec
CHECK_DEADLOCK FALSE
