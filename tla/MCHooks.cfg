SPECIFICATION Spec
CONSTANTS
    any = any
    absent = absent
    broken = broken
    gone = gone
    c1 = c1
    c2 = c2
    u1 = u1
    u2 = u2
    Requests = {r1}
    Operations = {"create"}
    Collections <- MCCollections
    AnyCollection = any
    Registered <- MCRegistered
    Files = 2
    Sources <- SingleEvent
    Absent = absent
    Broken = broken
    Webhooks = {w1}
    Urls = {u1, u2}
    Gone = gone
    Admins = {a1}
    MaxAttempts = 3
    Starts <- MCStarts
INVARIANTS
    LoadedIsCurrent
    RefusalStops
    LogTellsTheTruth
PROPERTIES
    DeliveriesEnd
    EditsTakeEffect
CHECK_DEADLOCK FALSE
