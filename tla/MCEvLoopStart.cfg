SPECIFICATION FairSpec
CONSTANTS
    c1 = c1
    c2 = c2
    j1 = j1
    j2 = j2
    j3 = j3
    Callers = {c1, c2}
    Jobs = {j1, j2, j3}
    Loop = uv
    Main = main
    NoJob = noJob
    NoThread = noThread
PROPERTY
    MainStarts
CHECK_DEADLOCK FALSE
