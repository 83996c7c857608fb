SPECIFICATION Spec
CONSTANTS
    s1 = s1
    s2 = s2
    s3 = s3
    s4 = s4
    Services <- MCServices
    Rien = Rien
    Fichier = Fichier
    Orphelin = Orphelin
SYMMETRY MCSymetrie
INVARIANT TypeOK
INVARIANT AloneIsServed
INVARIANT OnlyAKillLeavesASocket
PROPERTY OrdinaryFileKept
PROPERTY NewcomersAreHarmless
CHECK_DEADLOCK FALSE
