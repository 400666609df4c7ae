SPECIFICATION Spec
CONSTANTS
    MinutesPerHour = 2
    HoursPerDay = 2
    WeekLength = 3
    Days <- MCDays
    SearchMinutes = 10
    Certs = {1}
    Stoppers = {s1}
    Starts <- MCDue
    RenewBefore = 2
    Lifetime = 60
    Late = 1
    MaxUpsets = 0
    StopBy = 0
    MaxTime = 13
INVARIANTS
    DueIsTried
CHECK_DEADLOCK FALSE
