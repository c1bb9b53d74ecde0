CONSTANTS
    Sessions = {s1, s2}
    Peers = {p1}
    PeerOf <- OnePeer
    Impatient = {s1}
    Closers <- ImpatientClosers
    Relay = Relay
    None = None
SPECIFICATION FairSpec
INVARIANTS
    CarrierIsOwn
    
    
PROPERTIES
    UpgradeEnds
    
CHECK_DEADLOCK FALSE
