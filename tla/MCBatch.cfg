SPECIFICATION BatchSpec
CONSTANTS
    Requests = {"r1"}
    Ids = {"p", "c1", "c2"}
    Collections = {"post", "comment"}
    HomeOf <- MCHomeOf
    Columns = {}
    Values = {0}
    Relations = {"post", "featured", "pinned", "reply"}
    Relation <- MCRelation
    ScanOrder <- MCScanOrder
    MayFail = TRUE
    MaxDepth = 3
    MaxBatchSize = 3
\* The ids run out: every one has been used and all records are deleted.
CHECK_DEADLOCK FALSE
INVARIANTS
    NoDanglingReference
    CascadesAlongReferences
    CreatesAreUndone
PROPERTIES
    DeleteOnlyUnlinks
    BatchesEnd
