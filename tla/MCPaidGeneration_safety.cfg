\* Two callers on any of two processes, two keys, one place for generations; cost 3 exceeds the budget.
SPECIFICATION Spec
CONSTANTS
    Callers = {c1, c2}
    Instances = {i1, i2}
    Keys = {k1, k2}
    Actors = {a1}
    Sessions = {s1, s2, s3, s4}
    PoolSize = 2
    Concurrency = 1
    RequestLimit = 2
    UnitLimit = 2
    Costs = {1, 3}
    NoKey = NoKey
    NoSession = NoSession
SYMMETRY Symmetry
INVARIANTS
    TypeOK
    SingleFlight
    LeaseFenced
    ConcurrencyBound
    PoolIntact
PROPERTY FreshAnswersKept
