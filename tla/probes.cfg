CONSTANTS
    m1 = m1
    c1 = c1
    c2 = c2
    w = w
    Probed = {m1}
    Clients = {c1, c2}
    Worker = w
    DebounceCount = 2
    MaxOutages = 1
    MaxAsks = 1
SPECIFICATION ProbesSpec
INVARIANT DebounceHonoured
INVARIANT FlightsOwned
PROPERTY CallersEnd
PROPERTY Recovers
CHECK_DEADLOCK FALSE
