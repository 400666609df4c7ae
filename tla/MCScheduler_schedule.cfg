SPECIFICATION Spec
CONSTANTS
    MinutesPerHour = 2
    HoursPerDay = 2
    WeekLength = 3
    Days <- MCDays
    SearchMinutes = 10
    Certs = {1, 2}
    Stoppers = {s1, s2}
    Starts <- MCStarts
    RenewBefore = 2
    Lifetime = 60
    Late = 1
    MaxUpsets = 1
    StopBy = 4
    MaxTime = 13
INVARIANTS
    TypeOK
    ClosedOnce
    StoppedMeansGone
    WakesAsAsked
    WindowNoticed
    TriedInTime
PROPERTIES
    StopReturns
    RenewsOnlyDue
    NotifiesOnlyDue
CHECK_DEADLOCK FALSE
