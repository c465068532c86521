SPECIFICATION Spec
CONSTANTS
    Workers = {p1, p2}
    AssignmentIds = {a1}
    Agencies = {g1}
    None = None
    MaxAttempts = 2
    MaxFaults = 0
    MaxRequests = 3
    Ops = {"create", "complete", "autoWait", "dispute", "safetyNet"}
SYMMETRY Symmetry
PROPERTY CreditWithoutDispute
