SPECIFICATION Spec
CONSTANTS
    MaxPerHour = 2
    MaxPerDay = 3
    TicksPerHour = 2
    HoursPerDay = 2
    DaysPerYear = 2
    Epoch = 14
    MaxTime = 4
    MaxRestarts = 1
    Unset = Unset
    Backends = {"anthropic"}
    LlmMaxRetries = 3
    RetryBase = 2
    RetryMax = 10
    RetryBudget = 45
    GateWait = 21
    HttpTimes = {20}
INVARIANTS TypeOK DailyLimitOverRestarts HourlyLimit RetryBudgetKept
