SPECIFICATION FairSpec
CONSTANTS
    MaxEntries = 2
    MaxId = 3
    Schedules <- TableSchedules
    DeleteRequests = {5}
    Timezones = {0}
    DefaultTimezone = 0
    MaxInterval = 1
    TicksPerMinute = 2
    MinutesPerDay = 3
    Epoch = 2
    MaxTime = 3
    MaxRestarts = 1
    MaxTorn = 1
    QueueLength = 1
    Never = Never
INVARIANTS TypeOK UniqueIds RamMatchesFlash FiredOnceIsGone
PROPERTIES DueRuns DailyOncePerMinute
