CONSTANTS
    Realms <- MCRealms
    NONE = NONE
SPECIFICATION Spec
INVARIANT FailsOnlyAcrossRoots
