CONSTANTS
    c1 = c1
    DES = DES
    Realm = REALM
    NoPreauth = NoPreauth
    NoSalt = NoSalt
    NoHint = NoHint
    None = None
    Clients <- MCClients
    Directory <- MCDirectory
    Fold <- MCFold
    Names <- MCNames
    EtypeLists <- MCEtypeLists
    StoredEtypes <- MCStoredEtypes
    MaxFaults = 1
    Realms <- MCRealms
    NONE = NONE
SPECIFICATION ClientSpec
INVARIANT TypeOK
INVARIANT TicketOnlyWithPassword
PROPERTY ClientGetsTicket
PROPERTY ExchangeEnds
PROPERTY ReferralsAlongTree
