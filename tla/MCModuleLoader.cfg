\* An acyclic import graph.
SPECIFICATION FairSpec
CONSTANTS
    runtime = runtime
    main = main
    a = a
    b = b
    c = c
    rt = rt
    m1 = m1
    m2 = m2
    a1 = a1
    b1 = b1
    c1 = c1
    Modules = {runtime, main, a, b, c}
    Files = {rt, m1, m2, a1, b1, c1}
    Mod <- MCMod
    Imports <- Diamond
    Roots <- MCRoots
    NoModule = noModule
    t1 = t1
    t2 = t2
    t3 = t3
    aa = aa
    cc = cc
    nowhere = nowhere
    Types = {t1, t2, t3, aa, cc, nowhere}
    Home <- MCHome
    TypesIn <- MCTypesIn
    RefGraphs <- Programs
INVARIANTS
    EmitOrder
    EmitExclusive
    LoopIsReal
    GlobalsSound
PROPERTY
    Terminates
CHECK_DEADLOCK FALSE
