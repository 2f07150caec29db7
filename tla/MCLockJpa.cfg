\* Three nodes of a cluster over JPA.
SPECIFICATION FairSpec
CONSTANTS
    n1 = n1  n2 = n2  n3 = n3
    r1 = r1  r2 = r2  r3 = r3
    Run = {r1, r2, r3}
    Node = {n1, n2, n3}
    NodeOf <- ThreeNodes
    Strategy = "jpa"
    Isolation = "forUpdate"
    Timeout = 2
    Nobody = Nobody
    NoRow = NoRow
    Forever = Forever
    MaxCrashes = 1
INVARIANTS TypeOK Exclusive
PROPERTY ImplementsExclusiveLock
PROPERTY OwnerKeepsLock
PROPERTY CleaningGoesOn
