SPECIFICATION FairSpec
CONSTANTS
    c1 = c1
    c2 = c2
    c3 = c3
    aucun = aucun
    Clients <- MCSeul
    Aucun <- aucun
    Ordres = {"subscribe", "commande"}
    Longueurs = {0, 2, 3}
    MaxClients = 1
    MessageMax = 3
    ReadSize = 2
    PendingMax = 4
    LignesMax = 3
    EvtsMax = 2
INVARIANT TypeOK
INVARIANT ReceivedIsSound
PROPERTY Implements
PROPERTY AnswerArrives
CHECK_DEADLOCK FALSE
