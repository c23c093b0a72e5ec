SPECIFICATION Spec
CONSTANTS
    e1 = e1
    e2 = e2
    h1 = h1
    h2 = h2
    w1 = w1
    w2 = w2
    None = None
    Events = {e1, e2}
    Hooks = {h1}
    Workers = {w1, w2}
    BatchSize = 2
    MaxFaults = 1
SYMMETRY Symmetry
INVARIANTS TypeOK ClaimIsExclusive
PROPERTY ImplementsQueue
