CONSTANTS
    r1 = r1
    r2 = r2
    alice = alice
    bob = bob
    carol = carol
    Replicas <- TwoReplicas
    Changes <- ChangesTied
    InitStore <- MCInitStore
    MaxDelivery = 3
SYMMETRY MCSymmetry
SPECIFICATION Spec
INVARIANT Convergence
