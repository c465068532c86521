SPECIFICATION DelSpec
CONSTANTS
    DelRequests = {r1, r2}
    DelJobs = {w1}
    GraceDays = 1
    DeletionDays = 2
    ReminderLead = 1
    DelEnd = 4
    MaxSchedules = 2
    MaxDelFaults = 0
PROPERTY CancelKeepsAccount
CHECK_DEADLOCK FALSE
