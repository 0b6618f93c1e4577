SPECIFICATION Spec
CONSTANTS
    AR_DEBUG_API = TRUE
INVARIANTS
    TypeOK
    PmServed
    UnloadedClean
    FreedOnce
PROPERTIES
    ClientsSafe
