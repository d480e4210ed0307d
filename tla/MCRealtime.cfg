SPECIFICATION FairSpec
CONSTANTS
    Clients = {"c1"}
    Handlers = 2
    Records = {"r1", "r2"}
    Collection = "posts"
    TopicSets = {{}, {"r1"}, {"posts"}}
    Capacity = 2
    MaxChanges = 3
CHECK_DEADLOCK FALSE
INVARIANTS
    NoChangeMissed
    SentOnceInOrder
    AtMostOneLateEvent
PROPERTIES
    StreamsCatchUp
