SPECIFICATION Spec
CONSTANTS
    Workers = {p1, p2}
    AssignmentIds = {a1, a2}
    Agencies = {g1, g2}
    None = None
    MaxAttempts = 2
    MaxFaults = 0
    MaxRequests = 4
    Ops = {"create", "manualAssign", "sla", "reject", "complete", "payout",
           "takeover", "manualComplete", "autoWait", "autoWindow",
           "dispute", "resolvePaid", "resolveRefund", "favourAgent",
           "favourHost", "reverse", "freeze", "ban", "safetyNet"}
SYMMETRY Symmetry
INVARIANTS TypeOK RowsMatchLedger
PROPERTY AssignAlone
