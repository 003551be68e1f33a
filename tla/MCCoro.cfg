\* One or two worker threads, the event loop and main.
SPECIFICATION MCFairSpec
CONSTANTS
    w1 = w1
    w2 = w2
    f1 = f1
    g1 = g1
    g2 = g2
    h1 = h1
    k1 = k1
    l1 = l1
    x1 = x1
    x2 = x2
    x3 = x3
    c1 = c1
    r1 = r1
    j1 = j1
    Workers = {w1, w2}
    Tasks = {f1, g1, g2, h1, k1, l1, x1, x2, x3, c1, r1, j1}
    NoTask = noTask
    Funs <- MCFuns
    Kind <- MCKind
    Body <- MCBody
    FunOf <- MCFunOf
    Roots = {f1, h1, k1, l1}
    UV = uv
    NoThread = noThread
    Setups <- MCSetups
INVARIANTS
    ResultReady
    ReadyUntilAgain
    NoLostContinuation
    QueuedOnce
    NotAfterReturn
    StatementsOnOneCPU
    ReturnsOnOneCPU
PROPERTY
    CompleteOnOneCPU
CHECK_DEADLOCK FALSE
