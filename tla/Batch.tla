------------------------------- MODULE Batch -------------------------------
(***************************************************************************)
(* POST /api/batch of crates/zerobase-api/src/handlers/batch.rs: a list of *)
(* creates, updates and deletes, run one after the other by the record     *)
(* service.  The handlers of single records appear as batches of one.      *)
(*                                                                         *)
(* There is no transaction.  When an operation fails the handler goes back *)
(* through those that succeeded and calls delete_record for each record it *)
(* created; updates and deletes are only logged, as is a delete that fails.*)
(*                                                                         *)
(* Abstractions: the operations of a batch are chosen one at a time, where *)
(* the code has them all before it starts (no step depends on a later      *)
(* operation); the access rule of an operation may refuse any (the module  *)
(* Access says when it does).                                              *)
(***************************************************************************)
EXTENDS RecordService

CONSTANT MaxBatchSize  \* MAX_BATCH_SIZE

ASSUME BatchAssumption == MaxBatchSize \in Nat \ {0}

(***************************************************************************)
(* batch[r]: where the batch of request r stands, how many operations it   *)
(* has begun, and the records it created, in order.  As history, whether   *)
(* only creates were called and no call of the rollback failed (`clean`),  *)
(* and the tables when it began, for as long as it is clean.               *)
(***************************************************************************)
VARIABLE batch

batchVars == <<rows, req, ever, batch>>

NoBatch == [at |-> "none"]

BatchInit == Init /\ batch = [r \in Requests |-> NoBatch]

Enter(r, state) == batch' = [batch EXCEPT ![r] = state]

----------------------------------------------------------------------------
(* The operations                                                          *)

\* execute_batch: an accepted list of operations.
Begin(r) ==
    /\ req[r] = Idle
    /\ batch[r] = NoBatch
    /\ Enter(r, [at |-> "next", size |-> 0, created |-> <<>>, clean |-> TRUE, before |-> rows])
    /\ UNCHANGED vars

NoTables == [i \in {} |-> 0]

Soiled(b) == [b EXCEPT !.clean = FALSE, !.before = NoTables]

\* The batch calls the service for its next operation.
Calling(r) == batch[r].at = "next" /\ batch[r].size < MaxBatchSize

Called(r) == [batch[r] EXCEPT !.at = "run", !.size = @ + 1]

\* execute_single_operation, up to the call of the service.
CallCreate(r, i, row) ==
    /\ Calling(r)
    /\ CreateRecord(r, i, row)
    /\ Enter(r, Called(r))

CallUpdate(r, i, patch) ==
    /\ Calling(r)
    /\ UpdateRecord(r, i, patch)
    /\ Enter(r, Soiled(Called(r)))

CallDelete(r, i) ==
    /\ Calling(r)
    /\ DeleteRecord(r, i)
    /\ Enter(r, Soiled(Called(r)))

\* No such record, a rule or a validator says no: the service is not called.
Reject(r) ==
    /\ Calling(r)
    /\ Enter(r, [batch[r] EXCEPT !.at = "undo"])
    /\ UNCHANGED vars

\* The service answers with a record, or without an error.
Answered(r) ==
    \/ Insert(r)
    \/ Update(r) /\ req[r].id \in DOMAIN rows
    \/ Remove(r) /\ Len(req[r].stack) = 1

\* The service answers with an error.
Refused(r) ==
    \/ ReferenceMissing(r)
    \/ Update(r) /\ req[r].id \notin DOMAIN rows
    \/ \E n \in 1 .. Len(ScanOrder) : Refuse(r, n)
    \/ CascadeMissing(r)
    \/ RemoveMissing(r)

\* The service goes on.
Working(r) ==
    \/ \E i \in Ids : CheckReference(r, i)
    \/ \E n \in 1 .. Len(ScanOrder) : FindReferencing(r, n)
    \/ \E j \in Ids : Cascade(r, j)
    \/ \E j \in Ids : SetNull(r, j)
    \/ Remove(r) /\ Len(req[r].stack) > 1

Work(r) ==
    /\ batch[r].at \in {"run", "undoing"}
    /\ Working(r)
    /\ UNCHANGED batch

OperationDone(r) ==
    /\ batch[r].at = "run"
    /\ Answered(r)
    /\ Enter(r, [batch[r] EXCEPT !.at = "next",
                                !.created = IF req[r].at = "create" THEN Append(@, req[r].id) ELSE @])

OperationRefused(r) ==
    /\ batch[r].at = "run"
    /\ Refused(r)
    /\ Enter(r, [batch[r] EXCEPT !.at = "undo"])

OperationFails(r) ==
    /\ batch[r].at = "run"
    /\ Fail(r)
    /\ Enter(r, [batch[r] EXCEPT !.at = "undo"])

\* All operations have succeeded.
Commit(r) ==
    /\ batch[r].at = "next"
    /\ batch[r].size > 0
    /\ Enter(r, NoBatch)
    /\ UNCHANGED vars

----------------------------------------------------------------------------
(* rollback_operations                                                     *)

\* A mistake to guard against: the records are deleted in the order they were made.
LatestBug(created) == Head(created)

\* In reverse order.
Latest(created) == created[Len(created)]

Others(created) == SubSeq(created, 1, Len(created) - 1)

\* A record the batch created is deleted by the service ...
UndoCreate(r) ==
    /\ batch[r].at = "undo"
    /\ batch[r].created # <<>>
    /\ DeleteRecord(r, Latest(batch[r].created))
    /\ Enter(r, [batch[r] EXCEPT !.at = "undoing", !.created = Others(@)])

\* ... if it is still there.
SkipMissing(r) ==
    /\ batch[r].at = "undo"
    /\ batch[r].created # <<>>
    /\ Latest(batch[r].created) \notin DOMAIN rows
    /\ Enter(r, [batch[r] EXCEPT !.created = Others(@)])
    /\ UNCHANGED vars

Undone(r) ==
    /\ batch[r].at = "undoing"
    /\ Answered(r)
    /\ Enter(r, [batch[r] EXCEPT !.at = "undo"])

\* An error of the delete is logged, and the rollback goes on.
UndoRefused(r) ==
    /\ batch[r].at = "undoing"
    /\ Refused(r)
    /\ Enter(r, [batch[r] EXCEPT !.at = "undo"])

UndoFails(r) ==
    /\ batch[r].at = "undoing"
    /\ Fail(r)
    /\ Enter(r, Soiled([batch[r] EXCEPT !.at = "undo"]))

\* Everything that could be undone is: the batch answers with its error.
RolledBack(r) == batch[r].at = "undo" /\ batch[r].created = <<>>

Report(r) ==
    /\ RolledBack(r)
    /\ Enter(r, NoBatch)
    /\ UNCHANGED vars

----------------------------------------------------------------------------

\* The recursion runs out of stack: the process is gone, and all batches with it.
ProcessDies(r) ==
    /\ Overflow(r)
    /\ batch' = [s \in Requests |-> NoBatch]

\* What calls the service.
Start(r) ==
    \/ Begin(r)
    \/ \E i \in Ids : \E row \in Bodies[HomeOf[i]] : CallCreate(r, i, row)
    \/ \E i \in Ids, patch \in Patch : CallUpdate(r, i, patch)
    \/ \E i \in Ids : CallDelete(r, i)

\* What goes on by itself.
GoOn(r) ==
    \/ Work(r) \/ OperationDone(r) \/ OperationRefused(r) \/ Commit(r) \/ Reject(r)
    \/ UndoCreate(r) \/ SkipMissing(r) \/ Undone(r) \/ UndoRefused(r) \/ Report(r)
    \/ ProcessDies(r)

BatchNext == \E r \in Requests : Start(r) \/ GoOn(r) \/ OperationFails(r) \/ UndoFails(r)

\* A handler runs until it answers; nothing has to fail.
BatchSpec == BatchInit /\ [][BatchNext]_batchVars /\ \A r \in Requests : WF_batchVars(GoOn(r))

----------------------------------------------------------------------------
(* Properties                                                              *)

(***************************************************************************)
(* One request at a time: a batch of creates that fails leaves the tables  *)
(* as they were, if no call of the repository fails while it is rolled     *)
(* back: whatever the new records refer to, and whatever is to become of   *)
(* references, they are gone and nothing else has changed.  (Of any other  *)
(* batch that fails, "All operations succeed or the entire batch is rolled *)
(* back", batch.rs:240, is not true: updates and deletes stay, and the     *)
(* delete of a created record takes along what an update hung on it.)      *)
(***************************************************************************)
CreatesAreUndone ==
    \A r \in Requests :
        RolledBack(r) /\ batch[r].clean => rows = batch[r].before

(***************************************************************************)
(* Every batch ends, its rollback included: a cascade comes to an end, if  *)
(* only by running out of stack on a cycle of references.                  *)
(***************************************************************************)
BatchesEnd ==
    \A r \in Requests : batch[r] # NoBatch ~> (batch[r] = NoBatch /\ req[r] = Idle)
============================================================================
