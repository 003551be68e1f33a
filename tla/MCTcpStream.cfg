\* The peer sends four bytes; reads ask for one byte or for three.
SPECIFICATION FairSpec
CONSTANTS
    Bytes = 4
    Lens = {1, 3}
    Suggested = 2
    MaxOps = 3
    MaxEmpty = 1
    NoData = noData
INVARIANTS
    BufferBounds
    DeliveredStable
    InOrder
    ReadServed
    
    ContinuedWhenDone
    ConnLifetime
PROPERTY
    OpsComplete
CHECK_DEADLOCK FALSE
