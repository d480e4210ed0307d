SPECIFICATION LimiterSpec
CONSTANTS
    Workers = {w1, w2}
    a = a
    none = none
    local = local
    auth = auth
    other = other
    Arrivals <- MCArrivals
    Categories <- MCCategories
    MaxRequests <- MCMaxRequests
    Window <- MCWindow
    PerSecond = 2
    Skew = 1
    Localhost = local
    NoAddress = none
    LastTick = 8
INVARIANTS
    WindowBudget
    RetryWithinASecond
PROPERTIES
    WindowsApart
CHECK_DEADLOCK FALSE
