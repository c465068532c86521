SPECIFICATION FairSpec
CONSTANTS
    Workers = {p1}
    AssignmentIds = {a1, a2}
    Agencies = {g1}
    None = None
    MaxAttempts = 2
    MaxFaults = 1
    MaxRequests = 3
    Ops = {"create", "manualAssign", "sla", "reject", "complete", "payout",
           "takeover", "manualComplete", "autoWait", "autoWindow",
           "dispute", "resolvePaid", "resolveRefund", "favourAgent",
           "favourHost", "reverse", "freeze", "ban", "safetyNet"}
PROPERTIES StuckPendingHealed SlaEnforced WindowSettles WaitingSettles
