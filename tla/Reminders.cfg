CONSTANTS
    r1 = r1
    r2 = r2
    t1 = t1
    None = None
    Reminders <- MCReminders
    Tasks <- OneTask
    Horizon = 2
    MaxFaults = 1
SPECIFICATION FairSpec
INVARIANTS RowsAgree OncePerDueTime CancelHonest
PROPERTIES OffStaysOff DueIsSettled
CHECK_DEADLOCK FALSE
