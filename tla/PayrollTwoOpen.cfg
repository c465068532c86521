SPECIFICATION Spec
CONSTANTS
    Workers = {p1, p2}
    AssignmentIds = {a1, a2}
    Agencies = {g1, g2}
    None = None
    MaxAttempts = 2
    MaxFaults = 0
    MaxRequests = 3
    Ops = {"create", "sla", "complete", "safetyNet"}
SYMMETRY Symmetry
INVARIANT OneOpenAssignment
