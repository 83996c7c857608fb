SPECIFICATION FairSpec
CONSTANTS
    NbAlarmes = 1
    Durees <- MCDurees
    DureeMax = 1
    Marge = 1
    Actions = {"stop"}
    Autres = {"EB"}
    QueueSize = 2
    WireMax = 1
    InboxMax = 1
PROPERTY CalmGivesIdle
PROPERTY RingIsShown
