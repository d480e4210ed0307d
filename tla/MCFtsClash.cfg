SPECIFICATION Spec
CONSTANTS
    Requests = {r1, r2}
    Definitions <- ClashDefinitions
    Bodies <- ClashBodies
    Imports <- ClashImports
    RowIds = {1, 2}
    Values = {"v"}
    Null = "null"
    EmailName = "email"
    MaxChanges = 4
\* Every change was made.
CHECK_DEADLOCK FALSE
SYMMETRY Handlers
INVARIANT TablesMatchCatalog
