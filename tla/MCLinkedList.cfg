SPECIFICATION Spec
CONSTANTS
    n1 = n1
    n2 = n2
    n3 = n3
    n4 = n4
    v1 = v1
    v2 = v2
    Nodes = {n1, n2, n3, n4}
    Values = {v1, v2}
    Nil = nil
    NoValue = noValue
INVARIANTS
    WellFormed
PROPERTY
    RefinesDeque
