SPECIFICATION FairSpec
CONSTANTS
    e1 = e1
    e2 = e2
    h1 = h1
    h2 = h2
    w1 = w1
    w2 = w2
    None = None
    Events = {e1}
    Hooks = {h1, h2}
    Workers = {w1, w2}
    BatchSize = 1
    MaxFaults = 2
INVARIANT DispatchedWasOffered
PROPERTY StoredIsDispatched
