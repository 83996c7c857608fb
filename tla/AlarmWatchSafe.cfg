SPECIFICATION Spec
CONSTANTS
    NbAlarmes = 2
    Durees <- MCDurees
    DureeMax = 1
    Marge = 0
    Actions = {"stop", "snooze"}
    Autres = {"CA"}
    QueueSize = 1
    WireMax = 1
    InboxMax = 1
INVARIANT TypeOK
INVARIANT WatchCovers
INVARIANT RungIsTracked
INVARIANT ClientsUpToDate
PROPERTY SnoozeHasItsTime
PROPERTY StopGivesIdle
