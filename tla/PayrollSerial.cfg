SPECIFICATION Spec
CONSTANTS
    Workers = {p1}
    AssignmentIds = {a1, a2}
    Agencies = {g1, g2}
    None = None
    MaxAttempts = 2
    MaxFaults = 1
    MaxRequests = 6
    Ops = {"create", "manualAssign", "sla", "reject", "complete", "payout",
           "takeover", "manualComplete", "proof", "autoWait", "autoWindow",
           "dispute", "resolvePaid", "resolveRefund", "favourAgent",
           "favourHost", "reverse", "freeze", "ban", "safetyNet"}
SYMMETRY Symmetry
INVARIANTS OneOpenAssignment PlatformAlone PointsInOnePlace CountsClosed
PROPERTIES CreditAfterWindow ImplementsSettlement
