\* What the docstring of the resolver says of inherited values.
SPECIFICATION PolicySpec
CONSTANTS
    p1 = p1
    p2 = p2
    PolicyIds = {p1, p2}
    PolicyDefault = PolicyDefault
    Assignable <- AssignedPolicies
    MaxAssignments = 3
INVARIANT InheritedValueStands
CHECK_DEADLOCK FALSE
