SPECIFICATION FairSpec
CONSTANTS
    BackoffMin = 1
    BackoffMax = 5
    RefreshInterval = 3
    RefreshRetry = 1
    MaxFailures = 3
    DelaiReponse = 1
    DelaiLong = 2
    DelaiConnexion = 1
    LectureMax = 1
    WireMax = 2
    InboxMax = 2
    EssaisMax = 4
    Commandes <- MCCommandes
INVARIANT TypeOK
INVARIANT BackoffFollowsFailures
INVARIANT SilentLinkEnds
INVARIANT WrongAnswerHasACause
PROPERTY StateIsFresh
