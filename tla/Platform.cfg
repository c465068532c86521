SPECIFICATION Spec
CONSTANTS
    Calls = {c1}
    Ticks = {r1, r2}
    CallCoins = 2
    MaxTopUps = 1
    Buyers = {r1, r2}
    VipKeys = {1, 2}
    VipDays <- MCVipDays
    VipCap = 2
    VipEnd = 2
    MaxVipAsked = 3
    SubRequests = {r1, r2}
    SubWorkers = {w1, w2}
    SubPeriod = 2
    SubGrace = 1
    SubLag = TRUE
    SubEnd = 5
    MaxSubAsked = 3
    MaxSubFaults = 1
    ItemKeys = {i1, i2}
    StoreRequests = {r1, r2}
    ItemDays = 1
    StoreEnd = 1
    NoItem = NoItem
    RareUsers = {u1, u2}
    Leases = {1, 2}
    RareReqs = {r1, r2}
    RareDays = 1
    RareEnd = 2
    MaxRareStalls = 1
    ClientIds = {m1, m2}
    Senders = {r1, r2}
    Publishers = {w1, w2}
    SweepBatch = 1
    MaxMsgFaults = 2
    DelRequests = {r1, r2}
    DelJobs = {w1, w2}
    GraceDays = 1
    DeletionDays = 2
    ReminderLead = 1
    DelEnd = 4
    MaxSchedules = 2
    MaxDelFaults = 1
    Agencies = {a1, a2}
    LeaveApps = {l1}
    AgRequests = {r1, r2}
    AgWorkers = {aw1}
    NoAgency = NoAgency
    NoLeave = NoLeave
    MaxMoves = 2
    MaxAgFaults = 1
    RewardReqs = {r1, r2}
    Ladders <- MCLadders
    FirstLadder <- MCFirstLadder
    NoTier = NoTier
    NoDayTier = NoDayTier
    BasicPoints = 1
    LastDay = 1
    MaxReceived = 1
    MaxHours = 1
SYMMETRY Symmetry
INVARIANTS
    MinutesInOrder
    OneMinuteAfterEnd
    VipNotCutShort
    VipStacks
    BadgeMatchesExpiry
    GrantsArePaid
    RenewalPaidOnce
    AccessIsPaid
    SlotIsApplied
    OneLease
    
    MarkedWasPublished
    OneReminder
    HostsAddUp
    TierNotBelowFloor
    PaidAtFloor
CHECK_DEADLOCK FALSE
