--------------------------- MODULE RecordService ---------------------------
(***************************************************************************)
(* create_record, update_record and delete_record of                       *)
(* crates/zerobase-core/src/services/record_service.rs, run by concurrent  *)
(* requests over the SQL tables of crates/zerobase-db/src/record_repo.rs.  *)
(*                                                                         *)
(* The service holds no lock and opens no transaction: each repository     *)
(* call is one SQL statement, atomic by itself, and is one step here.      *)
(* What a request read stays in the request (`read`, `todo`) and may be    *)
(* stale when it is written.  delete_record calls itself for a Cascade     *)
(* relation: the recursion is a stack of frames.                           *)
(*                                                                         *)
(* Abstractions: the value of a relation field is the set of ids it holds; *)
(* an id belongs to one collection for good (ids are random and never      *)
(* reused); columns without relations are the members of Columns.  The     *)
(* auth collections' password and tokenKey are such columns.               *)
(***************************************************************************)
EXTENDS Naturals, Sequences, FiniteSets

CONSTANTS
    Requests,     \* concurrent calls of the service
    Ids,          \* record ids generate_id can return
    Collections,  \* base and auth collections (views refuse every write)
    HomeOf,       \* HomeOf[i]: the collection whose table record i is in
    Columns,      \* the columns that are not relations
    Values,       \* what such a column can hold
    Relations,    \* the relation fields of all collections
    Relation,     \* Relation[f]: the options of field f
    ScanOrder,    \* the fields in the order of find_referencing_fields
    MayFail,      \* a repository call or a before-hook may return an error
    MaxDepth      \* frames of delete_record the thread's stack has room for

OnDeleteActions == {"Cascade", "SetNull", "Restrict", "NoAction"}

RelationOptions == [owner: Collections, target: Collections,
                    on_delete: OnDeleteActions, max_select: Nat]

ASSUME SchemaAssumption ==
    /\ HomeOf \in [Ids -> Collections]
    /\ Relation \in [Relations -> RelationOptions]
    /\ ScanOrder \in Seq(Relations)
    /\ \A f \in Relations : \E n \in 1 .. Len(ScanOrder) : ScanOrder[n] = f
    /\ MayFail \in BOOLEAN
    /\ MaxDepth \in Nat \ {0}

VARIABLES
    rows,     \* the tables: id -> row, for the ids that have a row
    req,      \* req[r]: where request r stands and what it has read
    ever      \* history: the ids that have had a row

vars == <<rows, req, ever>>

Row == [cell: [Columns -> Values], rel: [Relations -> SUBSET Ids]]

Tables == UNION {[D -> Row] : D \in SUBSET Ids}

(***************************************************************************)
(* A request body: one column, one relation, or one relation modifier      *)
(* (only a multi-relation field accepts modifiers).                        *)
(***************************************************************************)
Multi(f) == Relation[f].max_select # 1

Patch ==
    [set: {"cell"}, name: Columns, to: Values]
    \cup [set: {"rel", "add", "remove"}, name: Relations, to: SUBSET Ids]

(***************************************************************************)
(* A frame of delete_record: the record to delete, how far the scan of     *)
(* ScanOrder is, and the rows referencing the record through the field at  *)
(* `scan`, as they were read, that are still to be processed.              *)
(***************************************************************************)
Frame == [id: Ids, scan: 0 .. Len(ScanOrder), todo: Tables]

Idle == [at |-> "idle"]

ReqState ==
    {Idle}
    \cup [at: {"create"}, id: Ids, row: Row, todo: SUBSET Ids]
    \cup [at: {"update"}, id: Ids, read: Row, patch: Patch, todo: SUBSET Ids]
    \cup [at: {"delete"}, stack: Seq(Frame) \ {<<>>}]

TypeOK ==
    /\ rows \in Tables
    /\ req \in [Requests -> ReqState]
    /\ ever \in SUBSET Ids

Init ==
    /\ rows = [i \in {} |-> 0]
    /\ req = [r \in Requests |-> Idle]
    /\ ever = {}

Goto(r, state) == req' = [req EXCEPT ![r] = state]

----------------------------------------------------------------------------
(* The repository: one SQL statement each.  Each *Bug* operator is a wrong *)
(* variant that shows that a property depends on what follows it.          *)

\* INSERT
Inserted(i, row) == [j \in DOMAIN rows \cup {i} |-> IF j = i THEN row ELSE rows[j]]

\* UPDATE ... WHERE id = i: every column of `row`; no row, no effect.
UpdatedBug(i, row) == Inserted(i, row)

Updated(i, row) == IF i \in DOMAIN rows THEN [rows EXCEPT ![i] = row] ELSE rows

\* DELETE ... WHERE id = i
Deleted(i) == [j \in DOMAIN rows \ {i} |-> rows[j]]

\* find_referencing_records: the rows of f's table whose field f holds i.
ReferencingBug(f, i) ==
    {j \in DOMAIN rows : HomeOf[j] = Relation[f].owner /\ rows[j].rel[f] = {i}}

ReferencingAnyBug(f, i) ==
    {j \in DOMAIN rows : HomeOf[j] = Relation[f].owner /\ rows[j].rel[f] # {}}

Referencing(f, i) ==
    {j \in DOMAIN rows : HomeOf[j] = Relation[f].owner /\ i \in rows[j].rel[f]}

----------------------------------------------------------------------------
(* Helpers                                                                 *)

\* The ids a row references, each of which validate_relation_references looks up.
ReferencesBug(row) == {}

References(row) == UNION {row.rel[f] : f \in Relations}

\* Relation values that can pass the validators for a row of collection c.
WellFormed(c, row) ==
    \A f \in Relations :
        /\ Relation[f].owner # c => row.rel[f] = {}
        /\ \A i \in row.rel[f] : HomeOf[i] = Relation[f].target
        /\ Relation[f].max_select > 0 => Cardinality(row.rel[f]) <= Relation[f].max_select

\* apply_relation_modifiers: "f+" adds ids, "f-" takes ids away.
Modified(current, op, ids) == IF op = "add" THEN current \cup ids ELSE current \ ids

\* The merged row: the existing one overlaid with the patch.
Merged(row, patch) ==
    CASE patch.set = "cell" -> [row EXCEPT !.cell[patch.name] = patch.to]
      [] patch.set = "rel"  -> [row EXCEPT !.rel[patch.name] = patch.to]
      [] OTHER -> [row EXCEPT !.rel[patch.name] = Modified(@, patch.set, patch.to)]

\* The row as it was read, with the deleted id taken out of field f.
NulledBug(row, f, i) == [row EXCEPT !.rel[f] = {}]

Nulled(row, f, i) == [row EXCEPT !.rel[f] = @ \ {i}]

----------------------------------------------------------------------------
(* create_record and update_record                                         *)

\* A random id nobody has had or is about to have, and a body that is accepted.
CreateRecord(r, i, row) ==
    /\ req[r] = Idle
    /\ i \notin ever
    /\ \A s \in Requests : req[s].at = "create" => req[s].id # i
    /\ Goto(r, [at |-> "create", id |-> i, row |-> row, todo |-> References(row)])
    /\ UNCHANGED <<rows, ever>>

\* find_one, the merge and the validators.
UpdateRecord(r, i, patch) ==
    /\ req[r] = Idle
    /\ i \in DOMAIN rows
    /\ patch.set \in {"add", "remove"} => Multi(patch.name)
    /\ LET merged == Merged(rows[i], patch)
       IN  /\ WellFormed(HomeOf[i], merged)
           /\ Goto(r, [at |-> "update", id |-> i, read |-> rows[i], patch |-> patch,
                       todo |-> References(merged)])
    /\ UNCHANGED <<rows, ever>>

\* validate_relation_references, one record_exists: the reference is there ...
CheckReference(r, i) ==
    /\ req[r].at \in {"create", "update"}
    /\ i \in req[r].todo \cap DOMAIN rows
    /\ Goto(r, [req[r] EXCEPT !.todo = @ \ {i}])
    /\ UNCHANGED <<rows, ever>>

\* ... or it is not, and the request is refused.
ReferenceMissing(r) ==
    /\ req[r].at \in {"create", "update"}
    /\ req[r].todo \ DOMAIN rows # {}
    /\ Goto(r, Idle)
    /\ UNCHANGED <<rows, ever>>

Insert(r) ==
    /\ req[r].at = "create"
    /\ req[r].todo = {}
    /\ rows' = Inserted(req[r].id, req[r].row)
    /\ ever' = ever \cup {req[r].id}
    /\ Goto(r, Idle)

\* repo.update with the whole merged row; "not found" when it is gone by now.
Update(r) ==
    /\ req[r].at = "update"
    /\ req[r].todo = {}
    /\ rows' = Updated(req[r].id, Merged(req[r].read, req[r].patch))
    /\ Goto(r, Idle)
    /\ UNCHANGED ever

----------------------------------------------------------------------------
(* delete_record and process_on_delete_actions                             *)

NewFrame(i) == [id |-> i, scan |-> 0, todo |-> [j \in {} |-> 0]]

Top(r) == Head(req[r].stack)

WithTop(r, frame) == [req[r] EXCEPT !.stack = <<frame>> \o Tail(@)]

\* The field the scan of the top frame is at.
Field(r) == ScanOrder[Top(r).scan]

\* delete_record called by a handler: find_one finds the record.
DeleteRecord(r, i) ==
    /\ req[r] = Idle
    /\ i \in DOMAIN rows
    /\ Goto(r, [at |-> "delete", stack |-> <<NewFrame(i)>>])
    /\ UNCHANGED <<rows, ever>>

\* The top frame has processed the rows it read and looks for its next field.
Scanning(r) == req[r].at = "delete" /\ DOMAIN Top(r).todo = {}

\* find_referencing_fields has field n of ScanOrder, and it is no NoAction field.
HasAction(i, n) ==
    /\ Relation[ScanOrder[n]].target = HomeOf[i]
    /\ Relation[ScanOrder[n]].on_delete # "NoAction"

NextField(r, n) ==
    /\ Top(r).scan < n
    /\ HasAction(Top(r).id, n)
    /\ \A m \in 1 .. Len(ScanOrder) : Top(r).scan < m /\ m < n => ~HasAction(Top(r).id, m)

\* Restrict: any reference refuses the request, whatever it deleted before.
Refuse(r, n) ==
    /\ Scanning(r) /\ NextField(r, n)
    /\ Relation[ScanOrder[n]].on_delete = "Restrict"
    /\ Referencing(ScanOrder[n], Top(r).id) # {}
    /\ Goto(r, Idle)
    /\ UNCHANGED <<rows, ever>>

\* Cascade, SetNull, or Restrict without a reference: the rows read are kept.
FindReferencing(r, n) ==
    /\ Scanning(r) /\ NextField(r, n)
    /\ LET found == Referencing(ScanOrder[n], Top(r).id)
       IN  /\ Relation[ScanOrder[n]].on_delete = "Restrict" => found = {}
           /\ Goto(r, WithTop(r, [id |-> Top(r).id, scan |-> n,
                                  todo |-> [j \in found |-> rows[j]]]))
    /\ UNCHANGED <<rows, ever>>

\* The top frame, j taken off its list.
ProcessedBug(r, j) == Top(r)

Processed(r, j) ==
    [Top(r) EXCEPT !.todo = [k \in DOMAIN Top(r).todo \ {j} |-> Top(r).todo[k]]]

\* Cascade: delete_record calls itself; its find_one finds the record ...
Cascade(r, j) ==
    /\ req[r].at = "delete"
    /\ j \in DOMAIN Top(r).todo \cap DOMAIN rows
    /\ Relation[Field(r)].on_delete = "Cascade"
    /\ Len(req[r].stack) < MaxDepth
    /\ Goto(r, [req[r] EXCEPT !.stack = <<NewFrame(j), Processed(r, j)>> \o Tail(@)])
    /\ UNCHANGED <<rows, ever>>

\* ... or not, and the whole request fails.
CascadeMissing(r) ==
    /\ req[r].at = "delete"
    /\ DOMAIN Top(r).todo \ DOMAIN rows # {}
    /\ Relation[Field(r)].on_delete = "Cascade"
    /\ Goto(r, Idle)
    /\ UNCHANGED <<rows, ever>>

\* SetNull: the row as it was read, less the reference; a row gone is no error.
SetNull(r, j) ==
    /\ req[r].at = "delete"
    /\ j \in DOMAIN Top(r).todo
    /\ Relation[Field(r)].on_delete = "SetNull"
    /\ rows' = Updated(j, Nulled(Top(r).todo[j], Field(r), Top(r).id))
    /\ Goto(r, WithTop(r, Processed(r, j)))
    /\ UNCHANGED ever

Removing(r) ==
    /\ Scanning(r)
    /\ \A n \in 1 .. Len(ScanOrder) : ~NextField(r, n)

\* repo.delete: the frame returns to its caller, the last one ends the request.
Remove(r) ==
    /\ Removing(r)
    /\ Top(r).id \in DOMAIN rows
    /\ rows' = Deleted(Top(r).id)
    /\ IF Len(req[r].stack) = 1
       THEN Goto(r, Idle)
       ELSE Goto(r, [req[r] EXCEPT !.stack = Tail(@)])
    /\ UNCHANGED ever

\* Nothing deleted: "not found", and the whole request fails.
RemoveMissing(r) ==
    /\ Removing(r)
    /\ Top(r).id \notin DOMAIN rows
    /\ Goto(r, Idle)
    /\ UNCHANGED <<rows, ever>>

----------------------------------------------------------------------------
(* Failures                                                                *)

\* The repository or a before-hook returns an error, and so does the request.
Fail(r) ==
    /\ MayFail
    /\ req[r] # Idle
    /\ Goto(r, Idle)
    /\ UNCHANGED <<rows, ever>>

\* The recursion runs out of stack: the process is gone, and all requests.
Overflow(r) ==
    /\ req[r].at = "delete"
    /\ Len(req[r].stack) = MaxDepth
    /\ DOMAIN Top(r).todo \cap DOMAIN rows # {}
    /\ Relation[Field(r)].on_delete = "Cascade"
    /\ req' = [s \in Requests |-> Idle]
    /\ UNCHANGED <<rows, ever>>

----------------------------------------------------------------------------

\* The bodies the validators of collection c accept.
Bodies == [c \in Collections |-> {row \in Row : WellFormed(c, row)}]

CreateStep(r) ==
    \E i \in Ids : \E row \in Bodies[HomeOf[i]] : CreateRecord(r, i, row)

UpdateStep(r) == \E i \in Ids, patch \in Patch : UpdateRecord(r, i, patch)

\* A request that has been started goes on.
Step(r) ==
    \/ \E i \in Ids : CheckReference(r, i)
    \/ ReferenceMissing(r)
    \/ Insert(r)
    \/ Update(r)
    \/ \E n \in 1 .. Len(ScanOrder) : Refuse(r, n)
    \/ \E n \in 1 .. Len(ScanOrder) : FindReferencing(r, n)
    \/ \E j \in Ids : Cascade(r, j)
    \/ CascadeMissing(r)
    \/ \E j \in Ids : SetNull(r, j)
    \/ Remove(r)
    \/ RemoveMissing(r)
    \/ Overflow(r)

Next ==
    \E r \in Requests :
        \/ CreateStep(r)
        \/ UpdateStep(r)
        \/ \E i \in Ids : DeleteRecord(r, i)
        \/ Step(r)
        \/ Fail(r)

Spec == Init /\ [][Next]_vars

----------------------------------------------------------------------------
(* Properties                                                              *)

(***************************************************************************)
(* An id in a relation field is the id of a record that exists or once     *)
(* did: validate_relation_references looks the ids up, and neither a merge *)
(* with a stale row nor a stale SetNull write brings in another.           *)
(***************************************************************************)
EveryReferenceWasARecord ==
    \A i \in DOMAIN rows, f \in Relations : rows[i].rel[f] \subseteq ever

(***************************************************************************)
(* No stale write brings a deleted record back, and no id is used twice.   *)
(***************************************************************************)
Lifecycle == INSTANCE RecordLifecycle WITH live <- DOMAIN rows, gone <- ever \ DOMAIN rows

RecordsStayDeleted == Lifecycle!Spec

(***************************************************************************)
(* The invariant behind these two, by parts: a row's id has had a row; ... *)
(***************************************************************************)
RowsWereBorn == DOMAIN rows \subseteq ever

\* ... an id about to be inserted is new, and no other request has it; ...
NewIds ==
    \A r \in Requests : req[r].at = "create" =>
        /\ req[r].id \notin ever
        /\ \A s \in Requests \ {r} : req[s].at = "create" => req[s].id # req[r].id

\* ... and what a request is going to write holds known ids once it is checked.
Known(row) == \A f \in Relations : row.rel[f] \subseteq ever

KnownWrites ==
    \A r \in Requests :
        /\ req[r].at = "create" => References(req[r].row) \subseteq ever \cup req[r].todo
        /\ req[r].at = "update" =>
              References(Merged(req[r].read, req[r].patch)) \subseteq ever \cup req[r].todo
        /\ req[r].at = "delete" =>
              \A n \in 1 .. Len(req[r].stack) :
                  \A j \in DOMAIN req[r].stack[n].todo : Known(req[r].stack[n].todo[j])

IInv == /\ TypeOK
        /\ EveryReferenceWasARecord
        /\ RowsWereBorn
        /\ NewIds
        /\ KnownWrites

(***************************************************************************)
(* One request at a time: when no field says NoAction, no reference        *)
(* dangles, also while a delete is under way and after one that failed     *)
(* anywhere in its cascade.                                                *)
(***************************************************************************)
NoDanglingReference ==
    \A i \in DOMAIN rows, f \in Relations :
        Relation[f].on_delete # "NoAction" => rows[i].rel[f] \subseteq DOMAIN rows

(***************************************************************************)
(* One request at a time: a delete changes nothing of a surviving row but  *)
(* its SetNull references to the record it is deleting.                    *)
(***************************************************************************)
Unlinked(row, new, id) ==
    /\ new.cell = row.cell
    /\ \A f \in Relations :
          \/ new.rel[f] = row.rel[f]
          \/ Relation[f].on_delete = "SetNull" /\ new.rel[f] = row.rel[f] \ {id}

DeleteOnlyUnlinks ==
    [][\A r \in Requests : req[r].at = "delete" =>
          \A j \in DOMAIN rows \cap DOMAIN rows' : Unlinked(rows[j], rows'[j], Top(r).id)]_vars

(***************************************************************************)
(* One request at a time: a cascade only ever deletes records that         *)
(* reference, through a Cascade field, the record deleted below them.      *)
(***************************************************************************)
CascadesAlongReferences ==
    \A r \in Requests : req[r].at = "delete" =>
        LET stack == req[r].stack
        IN  \A n \in 1 .. Len(stack) - 1 :
                LET field == ScanOrder[stack[n + 1].scan]
                IN  /\ Relation[field].on_delete = "Cascade"
                    /\ stack[n].id \in DOMAIN rows
                    /\ stack[n + 1].id \in rows[stack[n].id].rel[field]

============================================================================
