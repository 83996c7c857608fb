SPECIFICATION Spec
CONSTANTS
    NbAlarmes = 1
    Durees <- MCDurees
    DureeMax = 1
    Marge = 0
    Actions = {"stop"}
    Autres = {}
    QueueSize = 2
    WireMax = 2
    InboxMax = 2
PROPERTY StopIsKnown
