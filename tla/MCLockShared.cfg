SPECIFICATION Spec
CONSTANTS
    r1 = r1
    r2 = r2
    r3 = r3
    w1 = w1
    w2 = w2
    h1 = h1
    h2 = h2
    NoneValue = NoneValue
    Runs = {r1, r2, r3}
    Workflows = {w1, w2}
    Of <- MCOf
    Hooks = {h1}
    None = NoneValue
INVARIANT
    ActiveRunSignals
