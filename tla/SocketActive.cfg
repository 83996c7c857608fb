SPECIFICATION Spec
CONSTANTS
    s1 = s1
    s2 = s2
    s3 = s3
    s4 = s4
    Services <- MCServices
    Rien = Rien
    Fichier = Fichier
    Orphelin = Orphelin
PROPERTY ActiveIsNeverRemoved
CHECK_DEADLOCK FALSE
