\* Two requests may be in flight, batches of two, faults of every kind; with
\* an outage over the end of a shift, whose events may meet the next one.
SPECIFICATION Spec
CONSTANTS
    e1 = e1  h1 = h1  h2 = h2
    NoShift = NoShift
    ShiftIds <- TwoShifts
    Waiting = {"AVAILABLE"}
    Running = {"WORKING"}
    Terminal = {"COMPLETED"}
    Handlers = {h1, h2}
    BatchSize = 2
    MaxEvents = 3
    MaxFaults = 3
INVARIANTS
    SyncTypeOK
    NothingLost
    StoredOnce
    NotBoundToEndedShift
CONSTRAINT
    OutageBound
PROPERTIES
    StreamSpec
SYMMETRY HandlerSymmetry
CHECK_DEADLOCK FALSE
