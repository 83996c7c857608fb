SPECIFICATION FairSpec
CONSTANTS
    Jeux <- MCJeux
    Ecarts = {0, 4}
    Delai = 5
    DeriveMax = 2
    FileMax = 2
    Ailleurs = Ailleurs
INVARIANT TypeOK
INVARIANT ClockKnownIsTrue
INVARIANT AckedStays
PROPERTY ClockConverges
