SPECIFICATION Spec
CONSTANTS
    c1 = c1
    c2 = c2
    c3 = c3
    aucun = aucun
    Clients <- MCClients
    Aucun <- aucun
    Ordres = {"subscribe"}
    Longueurs = {1, 2}
    MaxClients = 2
    MessageMax = 2
    ReadSize = 2
    PendingMax = 4
    LignesMax = 1
    EvtsMax = 1
SYMMETRY MCSymetrie
INVARIANT NoLineForgotten
PROPERTY Implements
PROPERTY ClosedForCause
CHECK_DEADLOCK FALSE
