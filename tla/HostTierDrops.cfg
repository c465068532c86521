SPECIFICATION RewardSpec
CONSTANTS
    RewardReqs = {r1}
    Ladders <- MCLadders
    FirstLadder <- MCFirstLadder
    NoTier = NoTier
    NoDayTier = NoDayTier
    BasicPoints = 1
    LastDay = 1
    MaxReceived = 1
    MaxHours = 1
PROPERTY TierNeverDrops
CHECK_DEADLOCK FALSE
