CONSTANTS
    w1 = w1
    w2 = w2
    o1 = o1
    d1 = d1
    a1 = a1
    alice = alice
    bob = bob
    carol = carol
    NoOne = NoOne
    NoTxn = NoTxn
    Workers <- MCWorkers
    Writers <- MCWriters
    Deleters <- MCNoThreads
    DelRecs <- MCDelRecs
    Adders <- MCNoThreads
    AddRecs <- MCAddRecs
    InitPresent <- MCPresent
    Recs <- MCAttrRecs
    InitStore <- MCInitStore
    MultiValued <- MCMultiValued
    MAX_DEADLOCK_RETRIES = 2
    SchemaEntry = TRUE
SPECIFICATION Spec
PROPERTY ApplySpec
