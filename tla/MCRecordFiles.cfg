SPECIFICATION Spec
CONSTANTS
    Requests = {r1}
    Records = {a, b}
    Names = {f1, f2, f3}
    Single = FALSE
    MaxUploads = 2
    MaxClaims = 2
    MayFail = TRUE
SYMMETRY Symmetry
CHECK_DEADLOCK FALSE
INVARIANTS
    NamedFilesAreStored
    PurgedRecordsStayEmpty
PROPERTY
    UpdateLeavesNoOldFile
