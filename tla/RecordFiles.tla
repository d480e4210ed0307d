---------------------------- MODULE RecordFiles ----------------------------
(***************************************************************************)
(* The files of records: the record handlers                               *)
(* (crates/zerobase-api/src/handlers/records.rs) between the record        *)
(* service, which keeps the names, and FileService over a storage backend  *)
(* (crates/zerobase-files/src), which keeps the objects.                   *)
(*                                                                         *)
(* Nothing ties the two together: a handler awaits one storage call after  *)
(* the other and calls the service in between, and every call may fail.    *)
(*                                                                         *)
(* Abstractions: the collection has one file field; a generated name is    *)
(* used once, and is random: no client has written it before; a thumbnail  *)
(* has one size.  The rest of a body is RecordService's business.          *)
(*                                                                         *)
(* A body may name any file: FileOptions::validate_value asks for non-empty*)
(* and different strings and never for an object in storage.  The variable *)
(* claimed remembers the names clients have put into a row in this way.    *)
(***************************************************************************)
EXTENDS Naturals, FiniteSets

CONSTANTS
    Requests,    \* concurrent requests
    Records,     \* record ids
    Names,       \* names generate_filename can return
    Single,      \* max_select = 1
    MaxUploads,  \* bound on the file parts of one request
    MaxClaims,   \* bound on the file names clients make up
    MayFail      \* a call of the service or of the storage may return an error

ASSUME FileAssumption ==
    /\ Single \in BOOLEAN /\ MayFail \in BOOLEAN
    /\ MaxUploads \in Nat /\ MaxClaims \in Nat

VARIABLES
    rows,    \* record id -> the names in its file field, for the ids with a row
    store,   \* the objects in the storage backend
    req,     \* req[r]: where request r stands and what it has read
    born,    \* history: the ids that have had a row
    used,    \* history: the names generated, or written by a client, so far
    claimed, \* history: <<record, name>> where a body named a file the row had not
    purged   \* history: the records whose DELETE has also removed their files

vars == <<rows, store, req, born, used, claimed, purged>>

\* The keys of file_key and of thumb_key.
Object == [rec: Records, name: Names, thumb: BOOLEAN]

Original(rec, name) == [rec |-> rec, name |-> name, thumb |-> FALSE]
Thumbnail(rec, name) == [rec |-> rec, name |-> name, thumb |-> TRUE]

\* The objects record_file_prefix covers.
Under(rec) == {o \in store : o.rec = rec}

\* The file field of a body: absent, or the names it is set to.
Body == [given: BOOLEAN, names: SUBSET Names]

\* validate_value: one name, or different ones, whatever is in storage.
Valid(body) ==
    /\ body.given \/ body.names = {}
    /\ Single => \A m, n \in body.names : m = n

Idle == [at |-> "idle"]

(***************************************************************************)
(* A create or an update: `old` is what the handler read before (nothing   *)
(* for a create), `left` counts the parts to upload, `read` and `new` are  *)
(* the names update_record read and wrote, `todo` the files to clean up.   *)
(***************************************************************************)
Saving == [at: {"upload", "read", "write", "clean"}, kind: {"create", "multipart", "json"},
           rec: Records, old: SUBSET Names, body: Body, left: 0 .. MaxUploads,
           read: SUBSET Names, new: SUBSET Names, todo: SUBSET Names, failed: SUBSET Names]

ReqState ==
    {Idle} \cup Saving
    \cup [at: {"delete", "purge"}, rec: Records]
    \cup [at: {"thumb"}, rec: Records, name: Names]

TypeOK ==
    /\ DOMAIN rows \in SUBSET Records
    /\ rows \in [DOMAIN rows -> SUBSET Names]
    /\ store \in SUBSET Object
    /\ req \in [Requests -> ReqState]
    /\ born \in SUBSET Records
    /\ used \in SUBSET Names
    /\ claimed \in SUBSET (Records \X Names)
    /\ purged \in SUBSET Records

Init ==
    /\ rows = [rec \in {} |-> {}]
    /\ store = {}
    /\ req = [r \in Requests |-> Idle]
    /\ born = {}
    /\ used = {}
    /\ claimed = {}
    /\ purged = {}

Goto(r, state) == req' = [req EXCEPT ![r] = state]

----------------------------------------------------------------------------
(* Helpers.  Each *Bug* operator is a faulty variant that shows that a     *)
(* property depends on the definition that follows it.                     *)

\* A body without file parts goes straight to the service's update.
Save(kind, rec, old, body, left) ==
    [at |-> IF left = 0 THEN "read" ELSE "upload", kind |-> kind, rec |-> rec, old |-> old,
     body |-> body, left |-> left, read |-> {}, new |-> {}, todo |-> {}, failed |-> {}]

\* merge_file_names, one name: appended to the body's, or in its place.
WithName(body, name) ==
    [given |-> TRUE, names |-> IF Single THEN {name} ELSE body.names \cup {name}]

\* The names of the merged row: the body's, or the ones update_record read.
Merged(r) == IF req[r].body.given THEN req[r].body.names ELSE req[r].read

\* The files cleaned up after an update: the old names the new row has not.
ObsoleteBug(old, new) == old

ObsoleteNothingBug(old, new) == {}

Obsolete(old, new) == old \ new

\* delete_prefix: what is left of the store.
PurgedBug(rec) == store \ {o \in Under(rec) : ~o.thumb}

Purged(rec) == store \ Under(rec)

----------------------------------------------------------------------------
(* Create and update                                                       *)

\* The body of a request that found the names `has` in the row.
Claim(rec, body, has) ==
    /\ used' = used \cup body.names
    /\ claimed' = claimed \cup ({rec} \X (body.names \ has))
    /\ Cardinality(claimed') <= MaxClaims

\* The row goes in first, with what the body itself says of the field; the same
\* body comes back with the names of the uploads.
CreateRecord(r, rec, body, left) ==
    /\ req[r] = Idle
    /\ rec \notin born
    /\ Valid(body)
    /\ rows' = [q \in DOMAIN rows \cup {rec} |-> IF q = rec THEN body.names ELSE rows[q]]
    /\ born' = born \cup {rec}
    /\ Claim(rec, body, {})
    /\ Goto(r, IF left = 0 THEN Idle ELSE Save("create", rec, {}, body, left))
    /\ UNCHANGED <<store, purged>>

\* get_record, and a body with `left` file parts or a JSON one.
UpdateRecord(r, rec, body, left) ==
    /\ req[r] = Idle
    /\ rec \in DOMAIN rows
    /\ Valid(body)
    /\ Claim(rec, body, rows[rec])
    /\ Goto(r, Save(IF left = 0 THEN "json" ELSE "multipart", rec, rows[rec], body, left))
    /\ UNCHANGED <<rows, store, born, purged>>

\* process_uploads, one file: stored under a new name ...
Upload(r, name) ==
    /\ req[r].at = "upload"
    /\ name \notin used
    /\ store' = store \cup {Original(req[r].rec, name)}
    /\ used' = used \cup {name}
    /\ Goto(r, [req[r] EXCEPT !.left = @ - 1,
                              !.at = IF req[r].left = 1 THEN "read" ELSE "upload",
                              !.body = WithName(@, name)])
    /\ UNCHANGED <<rows, born, claimed, purged>>

\* ... or refused or failed, perhaps half written; what went before stays.
UploadFails(r, name) ==
    /\ MayFail
    /\ req[r].at = "upload"
    /\ name \notin used
    /\ store' \in {store, store \cup {Original(req[r].rec, name)}}
    /\ used' = used \cup {name}
    /\ Goto(r, Idle)
    /\ UNCHANGED <<rows, born, claimed, purged>>

\* service.update_record: find_one ...
ReadRow(r) ==
    /\ req[r].at = "read"
    /\ req[r].rec \in DOMAIN rows
    /\ Goto(r, [req[r] EXCEPT !.at = "write", !.read = rows[req[r].rec]])
    /\ UNCHANGED <<rows, store, born, used, claimed, purged>>

\* ... and the whole merged row.  Only an update with files cleans up.
WriteRow(r) ==
    /\ req[r].at = "write"
    /\ req[r].rec \in DOMAIN rows
    /\ rows' = [rows EXCEPT ![req[r].rec] = Merged(r)]
    /\ Goto(r, IF req[r].kind = "multipart"
               THEN [req[r] EXCEPT !.at = "clean", !.new = Merged(r),
                                   !.todo = Obsolete(req[r].old, Merged(r))]
               ELSE Idle)
    /\ UNCHANGED <<store, born, used, claimed, purged>>

\* Either of them finds no row: the request fails, its uploads stay.
RowMissing(r) ==
    /\ req[r].at \in {"read", "write", "delete"}
    /\ req[r].rec \notin DOMAIN rows
    /\ Goto(r, Idle)
    /\ UNCHANGED <<rows, store, born, used, claimed, purged>>

\* delete_file takes the object but not its thumbnails; an error is logged.
CleanFile(r, name) ==
    /\ req[r].at = "clean"
    /\ name \in req[r].todo
    /\ store' = store \ {Original(req[r].rec, name)}
    /\ Goto(r, [req[r] EXCEPT !.todo = @ \ {name}])
    /\ UNCHANGED <<rows, born, used, claimed, purged>>

CleanFileFails(r, name) ==
    /\ MayFail
    /\ req[r].at = "clean"
    /\ name \in req[r].todo
    /\ Goto(r, [req[r] EXCEPT !.todo = @ \ {name}, !.failed = @ \cup {name}])
    /\ UNCHANGED <<rows, store, born, used, claimed, purged>>

Cleaned(r) ==
    /\ req[r].at = "clean"
    /\ req[r].todo = {}
    /\ Goto(r, Idle)
    /\ UNCHANGED <<rows, store, born, used, claimed, purged>>

----------------------------------------------------------------------------
(* Delete                                                                  *)

\* get_record
DeleteRecord(r, rec) ==
    /\ req[r] = Idle
    /\ rec \in DOMAIN rows
    /\ Goto(r, [at |-> "delete", rec |-> rec])
    /\ UNCHANGED <<rows, store, born, used, claimed, purged>>

\* service.delete_record
DeleteRow(r) ==
    /\ req[r].at = "delete"
    /\ req[r].rec \in DOMAIN rows
    /\ rows' = [q \in DOMAIN rows \ {req[r].rec} |-> rows[q]]
    /\ Goto(r, [req[r] EXCEPT !.at = "purge"])
    /\ UNCHANGED <<store, born, used, claimed, purged>>

\* delete_record_files, for the record of the request alone.
PurgeFiles(r) ==
    /\ req[r].at = "purge"
    /\ store' = Purged(req[r].rec)
    /\ purged' = purged \cup {req[r].rec}
    /\ Goto(r, Idle)
    /\ UNCHANGED <<rows, born, used, claimed>>

\* It fails half way; the error is logged.
PurgeFails(r) ==
    /\ MayFail
    /\ req[r].at = "purge"
    /\ \E removed \in SUBSET Under(req[r].rec) : store' = store \ removed
    /\ Goto(r, Idle)
    /\ UNCHANGED <<rows, born, used, claimed, purged>>

\* The cascade of another record's delete, or a batch, takes the row: both go
\* through the service alone, and the files stay.
CascadeRow(rec) ==
    /\ rec \in DOMAIN rows
    /\ rows' = [q \in DOMAIN rows \ {rec} |-> rows[q]]
    /\ UNCHANGED <<store, req, born, used, claimed, purged>>

----------------------------------------------------------------------------
(* GET /api/files/... with ?thumb=                                         *)

\* No cached thumbnail, and the original has been read ...
ReadOriginal(r, rec, name) ==
    /\ req[r] = Idle
    /\ Thumbnail(rec, name) \notin store
    /\ Original(rec, name) \in store
    /\ Goto(r, [at |-> "thumb", rec |-> rec, name |-> name])
    /\ UNCHANGED <<rows, store, born, used, claimed, purged>>

\* ... and the thumbnail is put next to it.
CacheThumbnail(r) ==
    /\ req[r].at = "thumb"
    /\ store' = store \cup {Thumbnail(req[r].rec, req[r].name)}
    /\ Goto(r, Idle)
    /\ UNCHANGED <<rows, born, used, claimed, purged>>

\* Any other call of the service or the storage returns an error.
Fail(r) ==
    /\ MayFail
    /\ req[r].at \in {"read", "write", "delete", "thumb"}
    /\ Goto(r, Idle)
    /\ UNCHANGED <<rows, store, born, used, claimed, purged>>

----------------------------------------------------------------------------

Step(r) ==
    \/ \E name \in Names : Upload(r, name)
    \/ \E name \in Names : UploadFails(r, name)
    \/ ReadRow(r)
    \/ WriteRow(r)
    \/ RowMissing(r)
    \/ \E name \in Names : CleanFile(r, name)
    \/ \E name \in Names : CleanFileFails(r, name)
    \/ Cleaned(r)
    \/ DeleteRow(r)
    \/ PurgeFiles(r)
    \/ PurgeFails(r)
    \/ CacheThumbnail(r)
    \/ Fail(r)

Next ==
    \/ \E r \in Requests, rec \in Records :
          \/ \E body \in Body, left \in 0 .. MaxUploads :
                CreateRecord(r, rec, body, left) \/ UpdateRecord(r, rec, body, left)
          \/ DeleteRecord(r, rec)
          \/ \E name \in Names : ReadOriginal(r, rec, name)
    \/ \E r \in Requests : Step(r)
    \/ \E rec \in Records : CascadeRow(rec)

Spec == Init /\ [][Next]_vars

----------------------------------------------------------------------------
(* Properties                                                              *)

(***************************************************************************)
(* A client may make a row name a file that never existed.  For every other*)
(* name, any call of a request may fail and its row may go in a cascade:   *)
(* as long as no two requests work on one record at a time, the name of an *)
(* upload is in a row only while its object is in storage, because a       *)
(* handler stores a file before the row names it and removes it only after *)
(* the row has dropped it, and a client that repeats a name the row has    *)
(* changes nothing about this.                                             *)
(***************************************************************************)
NamedFilesAreStored ==
    \A rec \in DOMAIN rows : \A name \in rows[rec] :
        Original(rec, name) \in store \/ <<rec, name>> \in claimed

(***************************************************************************)
(* Likewise, nothing is under the prefix of a record whose files a DELETE  *)
(* has removed, thumbnails included.                                       *)
(***************************************************************************)
PurgedRecordsStayEmpty == \A rec \in purged : Under(rec) = {}

(***************************************************************************)
(* However many requests there are, an update with files that has answered *)
(* leaves none of the files the row had before and that it did not write   *)
(* into the row again, unless the storage refused to delete it.            *)
(***************************************************************************)
UpdateLeavesNoOldFile ==
    [][\A r \in Requests : Cleaned(r) =>
          \A name \in req[r].old \ req[r].failed :
              Original(req[r].rec, name) \in store => name \in req[r].new]_vars

=============================================================================
