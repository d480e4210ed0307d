SPECIFICATION Spec
CONSTANTS
    r1 = r1
    r2 = r2
    Requests <- MCRequests
    Ids = {"p", "c", "t"}
    Collections = {"post", "comment", "tag"}
    HomeOf <- MCHomeOf
    Columns = {}
    Values = {0}
    Relations = {"post", "pinned", "worn", "kept"}
    Relation <- MCRelation
    ScanOrder <- MCScanOrder
    MayFail = TRUE
    MaxDepth = 2
SYMMETRY MCSymmetry
\* The ids run out: every one has been used and all records are deleted.
CHECK_DEADLOCK FALSE
INVARIANTS
    EveryReferenceWasARecord
PROPERTY
    RecordsStayDeleted
