SPECIFICATION FairSpec
CONSTANTS
    Clients = {c1, c2, c3, c4}
    NoOwner = NoOwner
    MAX_CLIENTS = 3
INVARIANTS TypeOK NobodyWaitsForNobody
PROPERTIES NoOvertaking EveryWaiterServed ImplementsLock
