CONSTANTS
    r1 = r1
    r2 = r2
    alice = alice
    bob = bob
    carol = carol
    Replicas <- OneReplica
    Changes <- ChangesDistinct
    InitStore <- MCInitStore
    MaxDelivery = 6
SPECIFICATION Spec
INVARIANT TypeOK
INVARIANT LastWriterWins
