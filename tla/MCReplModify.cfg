CONSTANTS
    w1 = w1
    w2 = w2
    o1 = o1
    d1 = d1
    a1 = a1
    alice = alice
    bob = bob
    carol = carol
    NoOne = NoOne
    NoTxn = NoTxn
    Workers <- MCWorker
    Writers <- MCNoThreads
    Deleters <- MCDeleters
    DelRecs <- MCDelRecs
    Adders <- MCAdders
    AddRecs <- MCAddRecs
    InitPresent <- MCPresence
    Recs <- MCRecs
    InitStore <- MCInitStore
    MultiValued <- MCMultiValued
    MAX_DEADLOCK_RETRIES = 2
    SchemaEntry = TRUE
SPECIFICATION Spec
INVARIANT TypeOK
INVARIANT ReleasedOnReturn
PROPERTY CommitInUsnOrder
PROPERTY AllReturn
PROPERTY ChangesCarryCommitUsn
