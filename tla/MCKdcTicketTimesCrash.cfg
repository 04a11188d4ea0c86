CONSTANTS
    MaxLife = 3
    MaxRenewableLife = 5
    ClockSkew = 2
    MaxTime = 3
    MaxTickets = 3
    Offsets <- MCOffsets
    None = None
SPECIFICATION Spec
INVARIANT NoKdcCrash
