SPECIFICATION Spec
CONSTANTS
    ClientIds = {m1, m2}
    Senders = {r1, r2}
    Publishers = {w1, w2}
    SweepBatch = 1
    MaxMsgFaults = 2
    Callers = {r1, r2}
    Threshold = 2
    OpenFor = 2
    HalfOpenFor = 1
    DelRequests = {r1, r2}
    DelJobs = {w1, w2}
    GraceDays = 1
    DeletionDays = 2
    ReminderLead = 1
    DelEnd = 4
    MaxSchedules = 2
    MaxDelFaults = 1
    LiveIds = {s1, s2}
    Webhooks = {r1}
    LiveWorkers = {w1}
    MaxLiveFaults = 1
    Agencies = {a1, a2}
    LeaveApps = {l1}
    AgRequests = {r1}
    AgWorkers = {w1}
    NoAgency = NoAgency
    NoLeave = NoLeave
    MaxMoves = 2
    MaxAgFaults = 1
PROPERTIES
    OutboxDrains
    BreakerRecovers
    DeletionSettles
    SessionCloses
    LeaveSettles
CHECK_DEADLOCK FALSE
