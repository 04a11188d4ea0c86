CONSTANTS
    dA = dA
    dB = dB
    tA = tA
    g1 = g1
    g2 = g2
    NoGuid = NoGuid
    None = None
    Modifiers = {m1}
    Deleters = {x1}
    Adders = {a1}
    Clients = {c1, c2}
    DNs <- MCDNs
    TombDNs <- MCTombDNs
    Guids <- MCGuids
    InitDir <- MCInitDir
    ModRecs <- MCModRecs
    DelRecs <- MCDelRecs
    AddRecs <- MCAddRecs
SPECIFICATION Spec
PROPERTY DeleteReachesOwnObject
