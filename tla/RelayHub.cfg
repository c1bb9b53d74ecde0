CONSTANTS
    Ids = {i1}
    Controls = {r1, r2}
    Listens = {l1}
    Clients = {c1, c2}
    None = None
SPECIFICATION FairSpec
INVARIANTS
    LiveOwnerKeepsSlot
PROPERTIES
    ServiceImplemented
    DeadInstanceReleasesWaiters
    PairEndsTogether
    DeadSlotIsFreed
    
