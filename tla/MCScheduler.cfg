\* Two workers, main and the loop thread as clients, two state machines.
SPECIFICATION FairSpec
CONSTANTS
    Workers = {w1, w2}
    Main = main
    Loops = {uv}
    Tasks = {s1, s2}
    NoTask = noTask
    NoThread = noThread
    MaxQueue = 3
INVARIANTS
    TypeOK
    LockOwnership
    ShiftSafe
    SleepOnEmpty
    WorkConserving
PROPERTIES
    RefinesTaskQueue
    Drains
