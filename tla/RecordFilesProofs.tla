------------------------- MODULE RecordFilesProofs -------------------------
(***************************************************************************)
(* RecordFiles for any collection of records, names and requests.  What an *)
(* update leaves behind is proved for any number of requests at a time;    *)
(* that rows and storage agree, for requests on different records: the     *)
(* handlers promise nothing for two requests on one record.                *)
(***************************************************************************)
EXTENDS RecordFiles, TLAPS

\* The steps of a create or an update.
SavingAt == {"upload", "read", "write", "clean"}

\* No two requests work on the same record at the same time.
OnePerRecord ==
    \A r, s \in Requests :
        r # s /\ req[r].at # "idle" /\ req[s].at # "idle" => req[r].rec # req[s].rec

----------------------------------------------------------------------------
(* The inductive invariants                                                *)

\* Rows name generated or written names only, and belong to ids that were created.
RowsKnown ==
    DOMAIN rows \subseteq born /\ \A rec \in DOMAIN rows : rows[rec] \subseteq used

\* So does everything a create or an update has read or prepared.
NamesKnown(r) ==
    req[r].at \in SavingAt =>
        /\ req[r].rec \in born
        /\ req[r].old \subseteq used
        /\ req[r].body.names \subseteq used
        /\ req[r].read \subseteq used

\* A request stays at its uploads as long as there are some left.
UploadsLeft(r) == req[r].at = "upload" => req[r].left # 0

\* An old name is still to be cleaned up, or was written again, or is gone, or
\* the storage refused to delete it.
CleanProgress(r) ==
    req[r].at = "clean" =>
        \A name \in req[r].old \ req[r].failed :
            \/ name \in req[r].todo
            \/ name \in req[r].new
            \/ Original(req[r].rec, name) \notin store

RequestInv(r) == NamesKnown(r) /\ UploadsLeft(r) /\ CleanProgress(r)

IInv == TypeOK /\ RowsKnown /\ \A r \in Requests : RequestInv(r)

(***************************************************************************)
(* With one request per record: what an update is about to name is stored  *)
(* or a name the client made up, what it cleans up is not in the row any   *)
(* more, and a delete removes the files of a row that is gone.             *)
(***************************************************************************)
Accounted(rec, name) == Original(rec, name) \in store \/ <<rec, name>> \in claimed

PreparedIsStored(r) ==
    /\ req[r].at \in {"upload", "read", "write"} =>
          \A name \in req[r].body.names : Accounted(req[r].rec, name)
    /\ req[r].at = "write" =>
          \A name \in req[r].read : Accounted(req[r].rec, name)

CleanedIsDropped(r) ==
    req[r].at = "clean" /\ req[r].rec \in DOMAIN rows =>
        req[r].todo \cap rows[req[r].rec] = {}

PurgeIsLast(r) ==
    /\ req[r].at \in {"delete", "purge"} => req[r].rec \in born
    /\ req[r].at = "purge" => req[r].rec \notin DOMAIN rows
    /\ req[r].at # "idle" => req[r].rec \notin purged

SerialRequest(r) == PreparedIsStored(r) /\ CleanedIsDropped(r) /\ PurgeIsLast(r)

\* What a row names is accounted for, and nothing is left of a purged record.
RecordInv(rec) ==
    /\ rec \in DOMAIN rows => \A name \in rows[rec] : Accounted(rec, name)
    /\ rec \in purged => rec \in born /\ rec \notin DOMAIN rows /\ Under(rec) = {}

SerialInv == /\ \A r \in Requests : SerialRequest(r)
             /\ \A rec \in Records : RecordInv(rec)

----------------------------------------------------------------------------
(* The types                                                               *)

\* A request that is at a step of an update is a well-formed one.
LEMMA SavingTyped ==
  ASSUME TypeOK, NEW r \in Requests
  PROVE  /\ req[r].at \in SavingAt => req[r] \in Saving
         /\ req[r].at \in {"delete", "purge"} => req[r] \in [at: {"delete", "purge"}, rec: Records]
         /\ req[r].at = "thumb" => req[r] \in [at: {"thumb"}, rec: Records, name: Names]
         /\ req[r].at = "idle" => req[r] = Idle
         /\ req[r].at # "idle" => req[r].rec \in Records
  BY DEF TypeOK, ReqState, Saving, SavingAt, Idle

\* The state a new create or update starts from.
LEMMA SaveTyped ==
  ASSUME NEW kind \in {"create", "multipart", "json"}, NEW rec \in Records,
         NEW old \in SUBSET Names, NEW body \in Body, NEW left \in 0 .. MaxUploads
  PROVE  Save(kind, rec, old, body, left) \in Saving
  BY DEF Save, Saving

\* A stored upload counts one part less and adds its name to the body.
LEMMA UploadTyped ==
  ASSUME NEW state \in Saving, state.at = "upload", state.left # 0, NEW name \in Names
  PROVE  [state EXCEPT !.left = @ - 1,
                       !.at = IF state.left = 1 THEN "read" ELSE "upload",
                       !.body = WithName(@, name)] \in Saving
  <1>1. WithName(state.body, name) \in Body
    BY FileAssumption DEF WithName, Body, Saving
  <1>2. state.left - 1 \in 0 .. MaxUploads
    BY FileAssumption DEF Saving
  <1> QED
    BY <1>1, <1>2 DEF Saving

\* Any step keeps every variable in its type.
LEMMA TypeStep ==
  ASSUME IInv, [Next]_vars
  PROVE  TypeOK'
  <1>a. TypeOK /\ \A r \in Requests : RequestInv(r)
    BY DEF IInv
  <1>b. ASSUME NEW r \in Requests, NEW state \in ReqState, Goto(r, state)
        PROVE  req' \in [Requests -> ReqState]
    BY <1>a, <1>b DEF TypeOK, Goto
  <1>c. Idle \in ReqState /\ Saving \subseteq ReqState
    BY DEF ReqState
  <1>d. \A rec \in Records, name \in Names :
           Original(rec, name) \in Object /\ Thumbnail(rec, name) \in Object
    BY DEF Original, Thumbnail, Object
  <1>1. ASSUME NEW r \in Requests, NEW rec \in Records, NEW body \in Body,
               NEW left \in 0 .. MaxUploads, CreateRecord(r, rec, body, left)
        PROVE  TypeOK'
    <2>1. (IF left = 0 THEN Idle ELSE Save("create", rec, {}, body, left)) \in ReqState
      BY <1>c, SaveTyped
    <2>0. used' \in SUBSET Names /\ claimed' \in SUBSET (Records \X Names)
      BY <1>1, <1>a DEF CreateRecord, Claim, Body, TypeOK
    <2>2. req' \in [Requests -> ReqState]
      BY <1>1, <1>b, <2>1 DEF CreateRecord
    <2> QED
      BY <1>1, <1>a, <2>0, <2>2 DEF CreateRecord, Body, TypeOK
  <1>2. ASSUME NEW r \in Requests, NEW rec \in Records, NEW body \in Body,
               NEW left \in 0 .. MaxUploads, UpdateRecord(r, rec, body, left)
        PROVE  TypeOK'
    <2>1. rows[rec] \in SUBSET Names
      BY <1>2, <1>a DEF UpdateRecord, TypeOK
    <2>0. used' \in SUBSET Names /\ claimed' \in SUBSET (Records \X Names)
      BY <1>2, <1>a DEF UpdateRecord, Claim, Body, TypeOK
    <2>2. Save(IF left = 0 THEN "json" ELSE "multipart", rec, rows[rec], body, left)
             \in ReqState
      BY <1>c, <2>1, SaveTyped
    <2>3. req' \in [Requests -> ReqState]
      BY <1>2, <1>b, <2>2 DEF UpdateRecord
    <2> QED
      BY <1>2, <1>a, <2>0, <2>3 DEF UpdateRecord, TypeOK
  <1>3. ASSUME NEW r \in Requests, NEW rec \in Records, DeleteRecord(r, rec) PROVE TypeOK'
    <2>1. req' \in [Requests -> ReqState]
      BY <1>3, <1>b DEF DeleteRecord, ReqState
    <2> QED
      BY <1>3, <1>a, <2>1 DEF DeleteRecord, TypeOK
  <1>4. ASSUME NEW r \in Requests, NEW rec \in Records, NEW name \in Names,
               ReadOriginal(r, rec, name)
        PROVE  TypeOK'
    <2>1. req' \in [Requests -> ReqState]
      BY <1>4, <1>b DEF ReadOriginal, ReqState
    <2> QED
      BY <1>4, <1>a, <2>1 DEF ReadOriginal, TypeOK
  <1>5. ASSUME NEW r \in Requests, NEW name \in Names, Upload(r, name) PROVE TypeOK'
    <2>1. req[r] \in Saving /\ req[r].left # 0
      BY <1>5, <1>a, SavingTyped DEF Upload, SavingAt, RequestInv, UploadsLeft
    <2>2. req' \in [Requests -> ReqState]
      BY <1>5, <1>b, <1>c, <2>1, UploadTyped DEF Upload
    <2>3. store' \in SUBSET Object
      BY <1>5, <1>a, <1>d, SavingTyped DEF Upload, TypeOK
    <2> QED
      BY <1>5, <1>a, <2>2, <2>3 DEF Upload, TypeOK
  <1>6. ASSUME NEW r \in Requests, NEW name \in Names, UploadFails(r, name) PROVE TypeOK'
    <2>1. req' \in [Requests -> ReqState]
      BY <1>6, <1>b, <1>c DEF UploadFails
    <2>2. store' \in SUBSET Object
      BY <1>6, <1>a, <1>d, SavingTyped DEF UploadFails, TypeOK
    <2> QED
      BY <1>6, <1>a, <2>1, <2>2 DEF UploadFails, TypeOK
  <1>7. ASSUME NEW r \in Requests, ReadRow(r) PROVE TypeOK'
    <2>1. req[r] \in Saving /\ rows[req[r].rec] \in SUBSET Names
      BY <1>7, <1>a, SavingTyped DEF ReadRow, SavingAt, TypeOK
    <2>2. [req[r] EXCEPT !.at = "write", !.read = rows[req[r].rec]] \in Saving
      BY <2>1 DEF Saving
    <2>3. req' \in [Requests -> ReqState]
      BY <1>7, <1>b, <1>c, <2>2 DEF ReadRow
    <2> QED
      BY <1>7, <1>a, <2>3 DEF ReadRow, TypeOK
  <1>8. ASSUME NEW r \in Requests, WriteRow(r) PROVE TypeOK'
    <2>1. req[r] \in Saving
      BY <1>8, <1>a, SavingTyped DEF WriteRow, SavingAt
    <2>2. Merged(r) \in SUBSET Names /\ Obsolete(req[r].old, Merged(r)) \in SUBSET Names
      BY <2>1 DEF Merged, Obsolete, Saving, Body
    <2>3. [req[r] EXCEPT !.at = "clean", !.new = Merged(r),
                         !.todo = Obsolete(req[r].old, Merged(r))] \in Saving
      BY <2>1, <2>2 DEF Saving
    <2>4. req' \in [Requests -> ReqState]
      BY <1>8, <1>b, <1>c, <2>3 DEF WriteRow
    <2>5. rows' \in [DOMAIN rows' -> SUBSET Names] /\ DOMAIN rows' = DOMAIN rows
      BY <1>8, <1>a, <2>2 DEF WriteRow, TypeOK
    <2> QED
      BY <1>8, <1>a, <2>4, <2>5 DEF WriteRow, TypeOK
  <1>9. ASSUME NEW r \in Requests, RowMissing(r) \/ Cleaned(r) \/ Fail(r) PROVE TypeOK'
    <2>1. req' \in [Requests -> ReqState]
      BY <1>9, <1>b, <1>c DEF RowMissing, Cleaned, Fail
    <2> QED
      BY <1>9, <1>a, <2>1 DEF RowMissing, Cleaned, Fail, TypeOK
  <1>10. ASSUME NEW r \in Requests, NEW name \in Names,
                CleanFile(r, name) \/ CleanFileFails(r, name)
         PROVE  TypeOK'
    <2>1. req[r] \in Saving
      BY <1>10, <1>a, SavingTyped DEF CleanFile, CleanFileFails, SavingAt
    <2>2. /\ [req[r] EXCEPT !.todo = @ \ {name}] \in Saving
          /\ [req[r] EXCEPT !.todo = @ \ {name}, !.failed = @ \cup {name}] \in Saving
      BY <2>1 DEF Saving
    <2>3. req' \in [Requests -> ReqState]
      BY <1>10, <1>b, <1>c, <2>2 DEF CleanFile, CleanFileFails
    <2> QED
      BY <1>10, <1>a, <2>3 DEF CleanFile, CleanFileFails, TypeOK
  <1>11. ASSUME NEW r \in Requests, DeleteRow(r) PROVE TypeOK'
    <2>1. [req[r] EXCEPT !.at = "purge"] \in ReqState
      BY <1>11, <1>a, SavingTyped DEF DeleteRow, ReqState
    <2>2. req' \in [Requests -> ReqState]
      BY <1>11, <1>b, <2>1 DEF DeleteRow
    <2> QED
      BY <1>11, <1>a, <2>2 DEF DeleteRow, TypeOK
  <1>12. ASSUME NEW r \in Requests, PurgeFiles(r) \/ PurgeFails(r) PROVE TypeOK'
    <2>1. req' \in [Requests -> ReqState]
      BY <1>12, <1>b, <1>c DEF PurgeFiles, PurgeFails
    <2>2. req[r].rec \in Records
      BY <1>12, <1>a, SavingTyped DEF PurgeFiles, PurgeFails
    <2> QED
      BY <1>12, <1>a, <2>1, <2>2 DEF PurgeFiles, PurgeFails, Purged, TypeOK
  <1>13. ASSUME NEW r \in Requests, CacheThumbnail(r) PROVE TypeOK'
    <2>1. req' \in [Requests -> ReqState]
      BY <1>13, <1>b, <1>c DEF CacheThumbnail
    <2>2. store' \in SUBSET Object
      BY <1>13, <1>a, <1>d, SavingTyped DEF CacheThumbnail, TypeOK
    <2> QED
      BY <1>13, <1>a, <2>1, <2>2 DEF CacheThumbnail, TypeOK
  <1>14. ASSUME NEW rec \in Records, CascadeRow(rec) PROVE TypeOK'
    BY <1>14, <1>a DEF CascadeRow, TypeOK
  <1>15. CASE UNCHANGED vars
    BY <1>15, <1>a DEF vars, TypeOK
  <1> QED
    BY <1>1, <1>2, <1>3, <1>4, <1>5, <1>6, <1>7, <1>8, <1>9, <1>10, <1>11, <1>12,
       <1>13, <1>14, <1>15 DEF Next, Step

----------------------------------------------------------------------------
(* What an update leaves behind, for any number of requests                *)

\* A request that starts, and a cascade that takes a row, leave the storage alone
\* and forget nothing.
LEMMA OtherSteps ==
  ASSUME [Next]_vars, \A r \in Requests : ~Step(r)
  PROVE  /\ born \subseteq born' /\ used \subseteq used' /\ claimed \subseteq claimed'
         /\ store' = store
  <1>1. ASSUME NEW r \in Requests, NEW rec \in Records, NEW body \in Body,
               NEW left \in 0 .. MaxUploads,
               CreateRecord(r, rec, body, left) \/ UpdateRecord(r, rec, body, left)
        PROVE  /\ born \subseteq born' /\ used \subseteq used' /\ claimed \subseteq claimed'
               /\ store' = store
    BY <1>1 DEF CreateRecord, UpdateRecord, Claim
  <1>2. CASE \/ \E r \in Requests, rec \in Records :
                 DeleteRecord(r, rec) \/ \E name \in Names : ReadOriginal(r, rec, name)
             \/ \E rec \in Records : CascadeRow(rec)
             \/ UNCHANGED vars
    BY <1>2 DEF DeleteRecord, ReadOriginal, CascadeRow, vars
  <1> QED
    BY <1>1, <1>2 DEF Next

\* Ids, names and claims are only ever added; a file is stored under a new name.
LEMMA Grows ==
  ASSUME IInv, [Next]_vars
  PROVE  /\ born \subseteq born' /\ used \subseteq used' /\ claimed \subseteq claimed'
         /\ \A rec \in Records, name \in used :
               Original(rec, name) \in store' => Original(rec, name) \in store
  <1>1. born \subseteq born' /\ used \subseteq used' /\ claimed \subseteq claimed'
    <2>1. ASSUME NEW r \in Requests, Step(r)
          PROVE  born \subseteq born' /\ used \subseteq used' /\ claimed \subseteq claimed'
      BY <2>1 DEF Step, Upload, UploadFails, ReadRow, WriteRow, RowMissing, CleanFile,
         CleanFileFails, Cleaned, DeleteRow, PurgeFiles, PurgeFails, CacheThumbnail, Fail
    <2>2. CASE ~ \E r \in Requests : Step(r)
      BY <2>2, OtherSteps
    <2> QED
      BY <2>1, <2>2
  <1>2. ASSUME NEW rec \in Records, NEW name \in used, Original(rec, name) \in store'
        PROVE  Original(rec, name) \in store
    <2>1. \A q \in Records, other \in Names \ used :
             Original(rec, name) # Original(q, other)
      BY DEF Original
    <2>2. \A q, other : Original(rec, name) # Thumbnail(q, other)
      BY DEF Original, Thumbnail
    <2>3. \A r \in Requests : req[r].at # "idle" => req[r].rec \in Records
      BY SavingTyped DEF IInv
    <2>4. ASSUME NEW r \in Requests, NEW other \in Names,
                 Upload(r, other) \/ UploadFails(r, other)
          PROVE  Original(rec, name) \in store
      BY <1>2, <2>1, <2>3, <2>4 DEF Upload, UploadFails
    <2>5. ASSUME NEW r \in Requests, CacheThumbnail(r)
          PROVE  Original(rec, name) \in store
      BY <1>2, <2>2, <2>5 DEF CacheThumbnail
    <2>6. ASSUME store' \subseteq store PROVE Original(rec, name) \in store
      BY <1>2, <2>6
    <2>7. ASSUME NEW r \in Requests, Step(r),
                 \A other \in Names : ~Upload(r, other) /\ ~UploadFails(r, other),
                 ~CacheThumbnail(r)
          PROVE  store' \subseteq store
      BY <2>7 DEF Step, ReadRow, WriteRow, RowMissing, CleanFile, CleanFileFails, Cleaned,
                  DeleteRow, PurgeFiles, Purged, PurgeFails, Fail
    <2>8. ASSUME \A r \in Requests : ~Step(r) PROVE store' \subseteq store
      BY <2>8, OtherSteps
    <2> QED
      BY <2>4, <2>5, <2>6, <2>7, <2>8
  <1> QED
    BY <1>1, <1>2

\* A request keeps its part of the invariant in the steps it does not take.
LEMMA RequestKept ==
  ASSUME IInv, [Next]_vars, NEW r \in Requests, req'[r] = req[r]
  PROVE  RequestInv(r)'
  <1>1. NamesKnown(r)'
    BY Grows DEF IInv, RequestInv, NamesKnown
  <1>2. UploadsLeft(r)'
    BY DEF IInv, RequestInv, UploadsLeft
  <1>3. CleanProgress(r)'
    <2> SUFFICES ASSUME req[r].at = "clean", NEW name \in req[r].old \ req[r].failed,
                        name \notin req[r].todo, name \notin req[r].new
                 PROVE  Original(req[r].rec, name) \notin store'
      BY DEF CleanProgress
    <2>1. Original(req[r].rec, name) \notin store
      BY DEF IInv, RequestInv, CleanProgress
    <2>2. name \in used
      BY DEF IInv, RequestInv, NamesKnown, SavingAt
    <2>3. req[r].rec \in Records
      BY SavingTyped DEF IInv
    <2> QED
      BY <2>1, <2>2, <2>3, Grows
  <1> QED
    BY <1>1, <1>2, <1>3 DEF RequestInv

\* A request that is at none of the steps of an update promises nothing.
LEMMA NotSaving ==
  ASSUME NEW r \in Requests, req'[r].at \notin SavingAt
  PROVE  RequestInv(r)'
  BY DEF RequestInv, NamesKnown, UploadsLeft, CleanProgress, SavingAt

\* A new create or update has names of the row and of its body, and no others.
LEMMA StartStep ==
  ASSUME IInv, NEW r \in Requests, NEW rec \in Records,
         \E body \in Body, left \in 0 .. MaxUploads :
            CreateRecord(r, rec, body, left) \/ UpdateRecord(r, rec, body, left)
  PROVE  RequestInv(r)'
  <1> USE DEF IInv, TypeOK, Goto
  <1>1. ASSUME NEW body \in Body, NEW left \in 0 .. MaxUploads,
               CreateRecord(r, rec, body, left)
        PROVE  RequestInv(r)'
    <2>1. req'[r] = IF left = 0 THEN Idle ELSE Save("create", rec, {}, body, left)
      BY <1>1 DEF CreateRecord
    <2>2. rec \in born' /\ body.names \subseteq used'
      BY <1>1 DEF CreateRecord, Claim
    <2> QED
      BY <2>1, <2>2 DEF RequestInv, NamesKnown, UploadsLeft, CleanProgress, Save,
                        Idle, SavingAt
  <1>2. ASSUME NEW body \in Body, NEW left \in 0 .. MaxUploads,
               UpdateRecord(r, rec, body, left)
        PROVE  RequestInv(r)'
    <2>1. req'[r] = Save(IF left = 0 THEN "json" ELSE "multipart", rec, rows[rec], body,
                         left)
      BY <1>2 DEF UpdateRecord
    <2>2. rec \in born' /\ rows[rec] \subseteq used' /\ body.names \subseteq used'
      BY <1>2 DEF UpdateRecord, Claim, RowsKnown
    <2> QED
      BY <2>1, <2>2 DEF RequestInv, NamesKnown, UploadsLeft, CleanProgress, Save, SavingAt
  <1> QED
    BY <1>1, <1>2

\* The steps of an update.
LEMMA UpdateStep ==
  ASSUME IInv, NEW r \in Requests,
         \/ \E name \in Names : Upload(r, name)
         \/ ReadRow(r)
         \/ WriteRow(r)
         \/ \E name \in Names : CleanFile(r, name) \/ CleanFileFails(r, name)
  PROVE  RequestInv(r)'
  <1> USE DEF IInv, TypeOK, Goto, RequestInv
  <1>0. req[r] \in Saving /\ req[r].at \in SavingAt
    BY SavingTyped DEF Upload, ReadRow, WriteRow, CleanFile, CleanFileFails, SavingAt
  <1>1. ASSUME NEW name \in Names, Upload(r, name) PROVE RequestInv(r)'
    <2>1. /\ req'[r].at = IF req[r].left = 1 THEN "read" ELSE "upload"
          /\ req'[r].left = req[r].left - 1
          /\ req'[r].body.names = IF Single THEN {name} ELSE req[r].body.names \cup {name}
          /\ req'[r].rec = req[r].rec /\ req'[r].old = req[r].old
          /\ req'[r].read = req[r].read
      BY <1>0, <1>1 DEF Upload, WithName, Saving
    <2>2. used' = used \cup {name} /\ born' = born
      BY <1>1 DEF Upload
    <2>3. req[r].left \in Nat /\ req[r].left # 0
      <3>1. req[r].left \in 0 .. MaxUploads
        BY <1>0 DEF Saving
      <3>2. req[r].left # 0
        BY <1>1 DEF Upload, UploadsLeft
      <3> QED
        BY <3>1, <3>2, FileAssumption
    <2>4. NamesKnown(r)'
      BY <1>0, <2>1, <2>2 DEF NamesKnown
    <2>5. UploadsLeft(r)' /\ CleanProgress(r)'
      BY <2>1, <2>3 DEF UploadsLeft, CleanProgress
    <2> QED
      BY <2>4, <2>5
  <1>2. CASE ReadRow(r)
    <2>1. /\ req'[r].at = "write" /\ req'[r].read = rows[req[r].rec]
          /\ req'[r].rec = req[r].rec /\ req'[r].old = req[r].old
          /\ req'[r].body = req[r].body
      BY <1>0, <1>2 DEF ReadRow, Saving
    <2>2. rows[req[r].rec] \subseteq used /\ used' = used /\ born' = born
      BY <1>2 DEF ReadRow, RowsKnown
    <2> QED
      BY <1>0, <2>1, <2>2 DEF NamesKnown, UploadsLeft, CleanProgress
  <1>3. CASE WriteRow(r)
    <2>1. CASE req[r].kind = "multipart"
      <3>1. /\ req'[r].at = "clean" /\ req'[r].new = Merged(r)
            /\ req'[r].todo = req[r].old \ Merged(r)
            /\ req'[r].rec = req[r].rec /\ req'[r].old = req[r].old
            /\ req'[r].body = req[r].body /\ req'[r].read = req[r].read
        BY <1>0, <1>3, <2>1 DEF WriteRow, Obsolete, Saving
      <3>2. used' = used /\ born' = born
        BY <1>3 DEF WriteRow
      <3> QED
        BY <1>0, <3>1, <3>2 DEF NamesKnown, UploadsLeft, CleanProgress
    <2>2. CASE req[r].kind # "multipart"
      BY <1>3, <2>2, NotSaving DEF WriteRow, Idle, SavingAt
    <2> QED
      BY <2>1, <2>2
  <1>4. ASSUME NEW name \in Names, CleanFile(r, name) PROVE RequestInv(r)'
    <2>1. /\ req'[r].at = "clean" /\ req'[r].todo = req[r].todo \ {name}
          /\ req'[r].rec = req[r].rec /\ req'[r].old = req[r].old
          /\ req'[r].body = req[r].body /\ req'[r].read = req[r].read
          /\ req'[r].new = req[r].new /\ req'[r].failed = req[r].failed
      BY <1>0, <1>4 DEF CleanFile, Saving
    <2>2. /\ req[r].at = "clean" /\ store' = store \ {Original(req[r].rec, name)}
          /\ used' = used /\ born' = born
      BY <1>4 DEF CleanFile
    <2> QED
      BY <1>0, <2>1, <2>2 DEF NamesKnown, UploadsLeft, CleanProgress
  <1>5. ASSUME NEW name \in Names, CleanFileFails(r, name) PROVE RequestInv(r)'
    <2>1. /\ req'[r].at = "clean" /\ req'[r].todo = req[r].todo \ {name}
          /\ req'[r].rec = req[r].rec /\ req'[r].old = req[r].old
          /\ req'[r].body = req[r].body /\ req'[r].read = req[r].read
          /\ req'[r].new = req[r].new /\ req'[r].failed = req[r].failed \cup {name}
      BY <1>0, <1>5 DEF CleanFileFails, Saving
    <2>2. req[r].at = "clean" /\ store' = store /\ used' = used /\ born' = born
      BY <1>5 DEF CleanFileFails
    <2> QED
      BY <1>0, <2>1, <2>2 DEF NamesKnown, UploadsLeft, CleanProgress
  <1> QED
    BY <1>1, <1>2, <1>3, <1>4, <1>5

\* The other steps of a request leave the update.
LEMMA LeavingStep ==
  ASSUME IInv, NEW r \in Requests,
         \/ \E rec \in Records : DeleteRecord(r, rec)
         \/ \E rec \in Records, name \in Names : ReadOriginal(r, rec, name)
         \/ \E name \in Names : UploadFails(r, name)
         \/ RowMissing(r) \/ Cleaned(r) \/ DeleteRow(r) \/ PurgeFiles(r) \/ PurgeFails(r)
         \/ CacheThumbnail(r) \/ Fail(r)
  PROVE  RequestInv(r)'
  <1>1. CASE DeleteRow(r)
    <2>1. req'[r].at = "purge"
      BY <1>1, SavingTyped DEF DeleteRow, Goto, IInv, TypeOK
    <2> QED
      BY <2>1, NotSaving DEF SavingAt
  <1>2. CASE ~DeleteRow(r)
    <2>1. req'[r].at \in {"idle", "delete", "thumb"}
      BY <1>2 DEF DeleteRecord, ReadOriginal, UploadFails, RowMissing, Cleaned, PurgeFiles,
                  PurgeFails, CacheThumbnail, Fail, Goto, Idle, IInv, TypeOK
    <2> QED
      BY <2>1, NotSaving DEF SavingAt
  <1> QED
    BY <1>1, <1>2

\* A row is created and written with names that are known.
LEMMA RowsStep ==
  ASSUME IInv, [Next]_vars
  PROVE  RowsKnown'
  <1> USE DEF IInv
  <1>1. ASSUME NEW r \in Requests, NEW rec \in Records, NEW body \in Body,
               NEW left \in 0 .. MaxUploads, CreateRecord(r, rec, body, left)
        PROVE  RowsKnown'
    BY <1>1 DEF CreateRecord, Claim, RowsKnown
  <1>2. ASSUME NEW r \in Requests, WriteRow(r) PROVE RowsKnown'
    <2>1. Merged(r) \subseteq used
      BY <1>2 DEF WriteRow, Merged, RequestInv, NamesKnown, SavingAt
    <2> QED
      BY <1>2, <2>1 DEF WriteRow, RowsKnown, TypeOK
  <1>3. ASSUME NEW r \in Requests, DeleteRow(r) PROVE RowsKnown'
    BY <1>3 DEF DeleteRow, RowsKnown
  <1>4. ASSUME NEW rec \in Records, CascadeRow(rec) PROVE RowsKnown'
    BY <1>4 DEF CascadeRow, RowsKnown
  <1>5. ASSUME rows' = rows PROVE RowsKnown'
    BY <1>5, Grows DEF RowsKnown
  <1> QED
    BY <1>1, <1>2, <1>3, <1>4, <1>5 DEF Next, Step, UpdateRecord, DeleteRecord,
       ReadOriginal, Upload, UploadFails, ReadRow, RowMissing, CleanFile, CleanFileFails,
       Cleaned, PurgeFiles, PurgeFails, CacheThumbnail, Fail, vars

\* A step changes the state of the request that takes it and of no other.
LEMMA OneRequestSteps ==
  ASSUME IInv, [Next]_vars, NEW r \in Requests, req'[r] # req[r]
  PROVE  \/ \E rec \in Records :
              \/ \E body \in Body, left \in 0 .. MaxUploads :
                    CreateRecord(r, rec, body, left) \/ UpdateRecord(r, rec, body, left)
              \/ DeleteRecord(r, rec)
              \/ \E name \in Names : ReadOriginal(r, rec, name)
         \/ Step(r)
  <1>1. ASSUME NEW s \in Requests, NEW state, Goto(s, state) PROVE s = r
    BY <1>1 DEF Goto, IInv, TypeOK
  <1>2. ASSUME NEW s \in Requests, Step(s) PROVE s = r
    BY <1>1, <1>2 DEF Step, Upload, UploadFails, ReadRow, WriteRow, RowMissing, CleanFile,
       CleanFileFails, Cleaned, DeleteRow, PurgeFiles, PurgeFails, CacheThumbnail, Fail
  <1>3. ASSUME NEW s \in Requests, NEW rec \in Records,
               \/ \E body \in Body, left \in 0 .. MaxUploads :
                     CreateRecord(s, rec, body, left) \/ UpdateRecord(s, rec, body, left)
               \/ DeleteRecord(s, rec)
               \/ \E name \in Names : ReadOriginal(s, rec, name)
        PROVE  s = r
    BY <1>1, <1>3 DEF CreateRecord, UpdateRecord, DeleteRecord, ReadOriginal
  <1>4. ~(\E rec \in Records : CascadeRow(rec)) /\ ~(UNCHANGED vars)
    BY DEF CascadeRow, vars
  <1> QED
    BY <1>2, <1>3, <1>4 DEF Next

\* The initial state satisfies the invariant: there is no row and no request.
LEMMA InitInv == Init => IInv
  BY DEF Init, IInv, TypeOK, RowsKnown, RequestInv, NamesKnown, UploadsLeft,
         CleanProgress, ReqState, Idle, SavingAt

\* Any step keeps the invariant.
LEMMA InvStep ==
  ASSUME IInv, [Next]_vars
  PROVE  IInv'
  <1>1. ASSUME NEW r \in Requests, req'[r] # req[r] PROVE RequestInv(r)'
    BY <1>1, OneRequestSteps, StartStep, UpdateStep, LeavingStep DEF Step
  <1> QED
    BY <1>1, TypeStep, RowsStep, RequestKept DEF IInv

\* The invariant holds in every reachable state.
LEMMA Invariant == Spec => []IInv
  BY InitInv, InvStep, PTL DEF Spec

\* Every variable keeps its type.
THEOREM FilesTyped == Spec => []TypeOK
  <1>1. IInv => TypeOK
    BY DEF IInv
  <1> QED
    BY <1>1, Invariant, PTL

\* However many requests run next to it, an update that has answered leaves
\* none of the files it was to replace, unless the storage refused.
THEOREM OldFilesGo == Spec => UpdateLeavesNoOldFile
  <1>1. IInv => \A r \in Requests : Cleaned(r) =>
                   \A name \in req[r].old \ req[r].failed :
                      Original(req[r].rec, name) \in store => name \in req[r].new
    BY DEF IInv, RequestInv, CleanProgress, Cleaned
  <1>2. IInv /\ [Next]_vars =>
           [\A r \in Requests : Cleaned(r) =>
               \A name \in req[r].old \ req[r].failed :
                  Original(req[r].rec, name) \in store => name \in req[r].new]_vars
    BY <1>1
  <1> QED
    BY <1>2, Invariant, PTL DEF Spec, UpdateLeavesNoOldFile

----------------------------------------------------------------------------
(* Rows and storage agree, for one request per record                      *)

\* A record outside a step keeps its row, its objects and its history.
LEMMA RecordKept ==
  ASSUME IInv, SerialInv, NEW rec \in Records,
         rec \in DOMAIN rows' => rec \in DOMAIN rows /\ rows'[rec] = rows[rec],
         \A o \in Object : o.rec = rec => (o \in store' <=> o \in store),
         store' \in SUBSET Object,
         rec \in purged' => rec \in purged,
         born \subseteq born', claimed \subseteq claimed'
  PROVE  RecordInv(rec)'
  <1>1. RecordInv(rec) /\ store \in SUBSET Object /\ rows \in [DOMAIN rows -> SUBSET Names]
    BY DEF SerialInv, IInv, TypeOK
  <1>2. \A name \in Names : Original(rec, name) \in Object /\ Original(rec, name).rec = rec
    BY DEF Original, Object
  <1>3. rec \in DOMAIN rows' => \A name \in rows'[rec] : Accounted(rec, name)'
    BY <1>1, <1>2 DEF RecordInv, Accounted
  <1>4. Under(rec) = {} => Under(rec)' = {}
    BY <1>1 DEF Under
  <1> QED
    BY <1>1, <1>3, <1>4 DEF RecordInv

\* A request that does not step keeps its part, when nobody touches its record.
LEMMA SerialKept ==
  ASSUME IInv, SerialInv, NEW r \in Requests, req'[r] = req[r], req[r].at # "idle",
         req[r].at # "thumb" /\ req[r].rec \in DOMAIN rows' =>
             req[r].rec \in DOMAIN rows /\ rows'[req[r].rec] = rows[req[r].rec],
         \A o \in Object : o.rec = req[r].rec => (o \in store' <=> o \in store),
         req[r].rec \in purged' => req[r].rec \in purged,
         born \subseteq born', claimed \subseteq claimed'
  PROVE  SerialRequest(r)'
  <1>1. SerialRequest(r) /\ req[r].rec \in Records
    BY SavingTyped DEF SerialInv, IInv
  <1>2. \A name \in Names :
           Original(req[r].rec, name) \in Object /\ Original(req[r].rec, name).rec = req[r].rec
    BY <1>1 DEF Original, Object
  <1>3. req[r].at \in SavingAt => req[r].body.names \subseteq Names /\ req[r].read \subseteq Names
    BY SavingTyped DEF IInv, Saving, Body
  <1>4. PreparedIsStored(r)'
    BY <1>1, <1>2, <1>3 DEF SerialRequest, PreparedIsStored, Accounted, SavingAt
  <1>5. CleanedIsDropped(r)'
    BY <1>1 DEF SerialRequest, CleanedIsDropped
  <1>6. PurgeIsLast(r)'
    BY <1>1 DEF SerialRequest, PurgeIsLast
  <1> QED
    BY <1>4, <1>5, <1>6 DEF SerialRequest

\* A request that is idle promises nothing.
LEMMA IdleIsSerial ==
  ASSUME NEW r \in Requests, req'[r].at = "idle"
  PROVE  SerialRequest(r)'
  BY DEF SerialRequest, PreparedIsStored, CleanedIsDropped, PurgeIsLast

\* A step of a request touches the row and the objects of its record alone.
LEMMA StepElsewhere ==
  ASSUME IInv, NEW s \in Requests, Step(s), NEW rec \in Records, rec # req[s].rec
  PROVE  /\ rec \in DOMAIN rows' => rec \in DOMAIN rows /\ rows'[rec] = rows[rec]
         /\ \A o \in Object : o.rec = rec => (o \in store' <=> o \in store)
         /\ rec \in purged' => rec \in purged
         /\ born' = born /\ claimed' = claimed
  <1> USE DEF IInv, TypeOK
  <1>1. rec \in DOMAIN rows' => rec \in DOMAIN rows /\ rows'[rec] = rows[rec]
    BY DEF Step, Upload, UploadFails, ReadRow, WriteRow, RowMissing, CleanFile,
           CleanFileFails, Cleaned, DeleteRow, PurgeFiles, PurgeFails, CacheThumbnail, Fail
  <1>2. ASSUME NEW o \in Object, o.rec = rec PROVE o \in store' <=> o \in store
    <2>1. \A name \in Names :
             o # Original(req[s].rec, name) /\ o # Thumbnail(req[s].rec, name)
      BY <1>2 DEF Original, Thumbnail
    <2>2. o \notin Under(req[s].rec)
      BY <1>2 DEF Under
    <2>3. req[s].at = "thumb" => req[s].name \in Names
      BY SavingTyped
    <2> QED
      BY <2>1, <2>2, <2>3
         DEF Step, Upload, UploadFails, ReadRow, WriteRow, RowMissing, CleanFile,
             CleanFileFails, Cleaned, DeleteRow, PurgeFiles, Purged, PurgeFails,
             CacheThumbnail, Fail
  <1>3. (rec \in purged' => rec \in purged) /\ born' = born /\ claimed' = claimed
    BY DEF Step, Upload, UploadFails, ReadRow, WriteRow, RowMissing, CleanFile,
           CleanFileFails, Cleaned, DeleteRow, PurgeFiles, PurgeFails, CacheThumbnail, Fail
  <1> QED
    BY <1>1, <1>2, <1>3

\* What the invariants say of the record of a request that is not idle.
LEMMA OwnRecord ==
  ASSUME IInv, SerialInv, NEW r \in Requests, req[r].at # "idle"
  PROVE  /\ req[r].rec \in Records /\ req[r].rec \notin purged
         /\ RecordInv(req[r].rec) /\ SerialRequest(r) /\ RequestInv(r)
         /\ req[r].at \in SavingAt => req[r] \in Saving
  BY SavingTyped DEF IInv, SerialInv, SerialRequest, PurgeIsLast

\* A step that leaves the row and what is purged, and takes no original the
\* row names, keeps what is said of the record.
LEMMA RowUntouched ==
  ASSUME IInv, SerialInv, NEW rec \in Records, rec \notin purged, purged' = purged,
         rows' = rows, born' = born, claimed' = claimed,
         rec \in DOMAIN rows =>
             \A name \in rows[rec] : Original(rec, name) \in store => Original(rec, name) \in store'
  PROVE  RecordInv(rec)'
  BY DEF SerialInv, RecordInv, Accounted

\* The uploads of a request are stored before it goes on.
LEMMA UploadSerial ==
  ASSUME IInv, SerialInv, NEW r \in Requests, NEW rec \in Records, rec = req[r].rec,
         NEW name \in Names, Upload(r, name)
  PROVE  SerialRequest(r)' /\ RecordInv(rec)'
  <1>1. /\ req[r].at = "upload" /\ req[r] \in Saving /\ req[r].rec \in Records
        /\ req[r].rec \notin purged /\ SerialRequest(r)
    BY OwnRecord DEF Upload, SavingAt
  <1>2. /\ req'[r].at \in {"upload", "read"} /\ req'[r].rec = req[r].rec
        /\ req'[r].body.names = IF Single THEN {name} ELSE req[r].body.names \cup {name}
    BY <1>1 DEF Upload, WithName, Saving, Goto, IInv, TypeOK
  <1>3. /\ store' = store \cup {Original(req[r].rec, name)}
        /\ rows' = rows /\ purged' = purged /\ born' = born /\ claimed' = claimed
    BY DEF Upload
  <1>4. SerialRequest(r)'
    BY <1>1, <1>2, <1>3 DEF SerialRequest, PreparedIsStored, Accounted, CleanedIsDropped,
                            PurgeIsLast
  <1>5. RecordInv(rec)'
    BY <1>1, <1>3, RowUntouched
  <1> QED
    BY <1>4, <1>5

\* Every name of the row that update_record reads is accounted for.
LEMMA ReadSerial ==
  ASSUME IInv, SerialInv, NEW r \in Requests, NEW rec \in Records, rec = req[r].rec,
         ReadRow(r)
  PROVE  SerialRequest(r)' /\ RecordInv(rec)'
  <1>1. /\ req[r].at = "read" /\ req[r] \in Saving /\ req[r].rec \in Records
        /\ req[r].rec \notin purged /\ SerialRequest(r) /\ RecordInv(req[r].rec)
    BY OwnRecord DEF ReadRow, SavingAt
  <1>2. /\ req'[r].at = "write" /\ req'[r].rec = req[r].rec
        /\ req'[r].body = req[r].body /\ req'[r].read = rows[req[r].rec]
        /\ req[r].rec \in DOMAIN rows
    BY <1>1 DEF ReadRow, Saving, Goto, IInv, TypeOK
  <1>3. /\ store' = store /\ rows' = rows /\ purged' = purged /\ born' = born
        /\ claimed' = claimed
    BY DEF ReadRow
  <1>4. SerialRequest(r)'
    BY <1>1, <1>2, <1>3 DEF SerialRequest, PreparedIsStored, Accounted, CleanedIsDropped,
                            PurgeIsLast, RecordInv
  <1>5. RecordInv(rec)'
    BY <1>1, <1>3, RowUntouched
  <1> QED
    BY <1>4, <1>5

\* What is written into the row is accounted for; what it drops is cleaned up.
LEMMA WriteSerial ==
  ASSUME IInv, SerialInv, NEW r \in Requests, NEW rec \in Records, rec = req[r].rec,
         WriteRow(r)
  PROVE  SerialRequest(r)' /\ RecordInv(rec)'
  <1>1. /\ req[r].at = "write" /\ req[r] \in Saving /\ req[r].rec \in Records
        /\ req[r].rec \notin purged /\ SerialRequest(r)
    BY OwnRecord DEF WriteRow, SavingAt
  <1>2. /\ store' = store /\ purged' = purged /\ born' = born /\ claimed' = claimed
        /\ DOMAIN rows' = DOMAIN rows /\ rows'[req[r].rec] = Merged(r)
    BY DEF WriteRow, IInv, TypeOK
  <1>3. \A name \in Merged(r) : Accounted(req[r].rec, name)
    BY <1>1 DEF Merged, SerialRequest, PreparedIsStored
  <1>4. RecordInv(rec)'
    BY <1>1, <1>2, <1>3 DEF RecordInv, Accounted
  <1>5. CASE req[r].kind = "multipart"
    <2>1. /\ req'[r].at = "clean" /\ req'[r].rec = req[r].rec
          /\ req'[r].todo = req[r].old \ Merged(r)
      BY <1>1, <1>5 DEF WriteRow, Obsolete, Saving, Goto, IInv, TypeOK
    <2>2. SerialRequest(r)'
      BY <1>1, <1>2, <2>1 DEF SerialRequest, PreparedIsStored, CleanedIsDropped, PurgeIsLast
    <2> QED
      BY <1>4, <2>2
  <1>6. CASE req[r].kind # "multipart"
    <2>1. req'[r].at = "idle"
      BY <1>6 DEF WriteRow, Idle, Goto, IInv, TypeOK
    <2> QED
      BY <1>4, <2>1, IdleIsSerial
  <1> QED
    BY <1>5, <1>6

\* A file is cleaned up only after the row has dropped its name.
LEMMA CleanSerial ==
  ASSUME IInv, SerialInv, NEW r \in Requests, NEW rec \in Records, rec = req[r].rec,
         NEW name \in Names,
         CleanFile(r, name) \/ CleanFileFails(r, name)
  PROVE  SerialRequest(r)' /\ RecordInv(rec)'
  <1>1. /\ req[r].at = "clean" /\ req[r] \in Saving /\ req[r].rec \in Records
        /\ req[r].rec \notin purged /\ SerialRequest(r)
    BY OwnRecord DEF CleanFile, CleanFileFails, SavingAt
  <1>2. /\ req'[r].at = "clean" /\ req'[r].rec = req[r].rec
        /\ req'[r].todo = req[r].todo \ {name} /\ name \in req[r].todo
    <2>1. CASE CleanFile(r, name)
      BY <1>1, <2>1 DEF CleanFile, Saving, Goto, IInv, TypeOK
    <2>2. CASE CleanFileFails(r, name)
      BY <1>1, <2>2 DEF CleanFileFails, Saving, Goto, IInv, TypeOK
    <2> QED
      BY <2>1, <2>2
  <1>3. /\ rows' = rows /\ purged' = purged /\ born' = born /\ claimed' = claimed
        /\ store' = store \ {Original(req[r].rec, name)} \/ store' = store
    BY DEF CleanFile, CleanFileFails
  <1>4. SerialRequest(r)'
    BY <1>1, <1>2, <1>3 DEF SerialRequest, PreparedIsStored, CleanedIsDropped, PurgeIsLast
  <1>5. \A other : other # name => Original(req[r].rec, other) # Original(req[r].rec, name)
    BY DEF Original
  <1>6. req[r].rec \in DOMAIN rows => name \notin rows[req[r].rec]
    BY <1>1, <1>2 DEF SerialRequest, CleanedIsDropped
  <1>7. RecordInv(rec)'
    BY <1>1, <1>3, <1>5, <1>6, RowUntouched
  <1> QED
    BY <1>4, <1>7

\* A delete takes the row first and then everything under its prefix.
LEMMA DeleteSerial ==
  ASSUME IInv, SerialInv, NEW r \in Requests, NEW rec \in Records, rec = req[r].rec,
         DeleteRow(r) \/ PurgeFiles(r) \/ PurgeFails(r)
  PROVE  SerialRequest(r)' /\ RecordInv(rec)'
  <1>1. /\ req[r].at \in {"delete", "purge"} /\ req[r].rec \in Records
        /\ req[r].rec \notin purged /\ SerialRequest(r) /\ RecordInv(req[r].rec)
    BY OwnRecord DEF DeleteRow, PurgeFiles, PurgeFails
  <1>2. req[r].rec \in born /\ (req[r].at = "purge" => req[r].rec \notin DOMAIN rows)
    BY <1>1 DEF SerialRequest, PurgeIsLast
  <1>3. CASE DeleteRow(r)
    <2>1. req'[r].at = "purge" /\ req'[r].rec = req[r].rec
      BY <1>1, <1>3, SavingTyped DEF DeleteRow, Goto, IInv, TypeOK
    <2>2. /\ req[r].rec \notin DOMAIN rows'
          /\ store' = store /\ purged' = purged /\ born' = born /\ claimed' = claimed
      BY <1>3 DEF DeleteRow
    <2>3. SerialRequest(r)'
      BY <1>1, <1>2, <2>1, <2>2
         DEF SerialRequest, PreparedIsStored, CleanedIsDropped, PurgeIsLast
    <2> QED
      BY <1>1, <2>2, <2>3 DEF RecordInv
  <1>4. CASE PurgeFiles(r)
    <2>1. req'[r].at = "idle" /\ rows' = rows /\ born' = born /\ req[r].at = "purge"
      BY <1>4 DEF PurgeFiles, Idle, Goto, IInv, TypeOK
    <2>2. Under(rec)' = {}
      BY <1>4 DEF PurgeFiles, Purged, Under
    <2> QED
      BY <1>2, <2>1, <2>2, IdleIsSerial DEF RecordInv
  <1>5. CASE PurgeFails(r)
    <2>1. /\ req'[r].at = "idle" /\ rows' = rows /\ born' = born /\ purged' = purged
          /\ req[r].at = "purge"
      BY <1>5 DEF PurgeFails, Idle, Goto, IInv, TypeOK
    <2> QED
      BY <1>1, <1>2, <2>1, IdleIsSerial DEF RecordInv
  <1> QED
    BY <1>3, <1>4, <1>5

\* The steps that end a request, and the caching of a thumbnail, add objects to
\* a record that is not purged, or nothing.
LEMMA EndSerial ==
  ASSUME IInv, SerialInv, NEW r \in Requests, NEW rec \in Records, rec = req[r].rec,
         \/ \E name \in Names : UploadFails(r, name)
         \/ RowMissing(r) \/ Cleaned(r) \/ CacheThumbnail(r) \/ Fail(r)
  PROVE  SerialRequest(r)' /\ RecordInv(rec)'
  <1>1. req[r].at # "idle" /\ req'[r].at = "idle"
    BY DEF UploadFails, RowMissing, Cleaned, CacheThumbnail, Fail, Idle, Goto, IInv, TypeOK
  <1>2. req[r].rec \in Records /\ req[r].rec \notin purged
    BY <1>1, OwnRecord
  <1>3. /\ store \subseteq store' /\ rows' = rows /\ purged' = purged /\ born' = born
        /\ claimed' = claimed
    BY DEF UploadFails, RowMissing, Cleaned, CacheThumbnail, Fail
  <1> QED
    BY <1>1, <1>2, <1>3, IdleIsSerial, RowUntouched

\* Every step of a request on its own record.
LEMMA OwnSerial ==
  ASSUME IInv, SerialInv, NEW r \in Requests, NEW rec \in Records, rec = req[r].rec,
         Step(r)
  PROVE  SerialRequest(r)' /\ RecordInv(rec)'
  BY UploadSerial, ReadSerial, WriteSerial, CleanSerial, DeleteSerial, EndSerial DEF Step

\* A request that starts has read names that are accounted for, and the others
\* in its body are claimed; a record is created once, and a record with a row or
\* an object is not purged.
LEMMA StartSerial ==
  ASSUME IInv, SerialInv, NEW s \in Requests, NEW rec \in Records,
         \/ \E body \in Body, left \in 0 .. MaxUploads :
               CreateRecord(s, rec, body, left) \/ UpdateRecord(s, rec, body, left)
         \/ DeleteRecord(s, rec)
         \/ \E name \in Names : ReadOriginal(s, rec, name)
  PROVE  /\ SerialRequest(s)'
         /\ \A q \in Records : RecordInv(q)'
         /\ store' = store /\ purged' = purged /\ born \subseteq born'
         /\ claimed \subseteq claimed'
         /\ \A q \in born : q \in DOMAIN rows' => q \in DOMAIN rows /\ rows'[q] = rows[q]
  <1> USE DEF IInv, TypeOK, Goto
  <1>1. /\ store' = store /\ purged' = purged /\ born \subseteq born'
        /\ claimed \subseteq claimed'
    BY DEF CreateRecord, UpdateRecord, Claim, DeleteRecord, ReadOriginal
  <1>2. \A q \in born : q \in DOMAIN rows' => q \in DOMAIN rows /\ rows'[q] = rows[q]
    BY DEF CreateRecord, UpdateRecord, DeleteRecord, ReadOriginal
  <1>3. ASSUME NEW q \in Records PROVE RecordInv(q)'
    <2>1. CASE q \in born \/ q # rec
      <3>1. q \in DOMAIN rows' => q \in DOMAIN rows /\ rows'[q] = rows[q]
        BY <2>1 DEF CreateRecord, UpdateRecord, DeleteRecord, ReadOriginal
      <3> QED
        BY <1>1, <3>1, RecordKept
    <2>2. CASE q \notin born /\ q = rec
      <3>1. q \in DOMAIN rows' => \A name \in rows'[q] : <<q, name>> \in claimed'
        BY <2>2 DEF CreateRecord, Claim, UpdateRecord, DeleteRecord, ReadOriginal, RowsKnown
      <3> QED
        BY <1>1, <2>2, <3>1 DEF SerialInv, RecordInv, Accounted
    <2> QED
      BY <2>1, <2>2
  <1>4. SerialRequest(s)'
    <2>0. /\ rec \in DOMAIN rows => rec \in born /\ rec \notin purged
          /\ rec \notin born => rec \notin purged
      BY DEF SerialInv, RecordInv, RowsKnown
    <2>1. ASSUME NEW body \in Body, NEW left \in 0 .. MaxUploads,
                 CreateRecord(s, rec, body, left)
          PROVE  SerialRequest(s)'
      <3>1. req'[s] = IF left = 0 THEN Idle ELSE Save("create", rec, {}, body, left)
        BY <2>1 DEF CreateRecord
      <3>2. rec \notin purged' /\ \A name \in body.names : <<rec, name>> \in claimed'
        BY <1>1, <2>0, <2>1 DEF CreateRecord, Claim
      <3> QED
        BY <3>1, <3>2 DEF Accounted, SerialRequest, PreparedIsStored, CleanedIsDropped, PurgeIsLast,
                          Save, Idle
    <2>2. ASSUME NEW body \in Body, NEW left \in 0 .. MaxUploads,
                 UpdateRecord(s, rec, body, left)
          PROVE  SerialRequest(s)'
      <3>1. req'[s] = Save(IF left = 0 THEN "json" ELSE "multipart", rec, rows[rec], body,
                           left)
        BY <2>2 DEF UpdateRecord
      <3>2. \A name \in body.names : Accounted(rec, name)'
        BY <1>1, <2>2 DEF UpdateRecord, Claim, SerialInv, RecordInv, Accounted
      <3>3. rec \notin purged'
        BY <1>1, <2>0, <2>2 DEF UpdateRecord
      <3> QED
        BY <1>1, <3>1, <3>2, <3>3 DEF SerialRequest, PreparedIsStored, CleanedIsDropped,
                                      PurgeIsLast, Save
    <2>3. CASE DeleteRecord(s, rec)
      <3>1. req'[s] = [at |-> "delete", rec |-> rec] /\ rec \in DOMAIN rows
        BY <2>3 DEF DeleteRecord
      <3> QED
        BY <1>1, <2>0, <3>1 DEF SerialRequest, PreparedIsStored, CleanedIsDropped,
                                PurgeIsLast
    <2>4. ASSUME NEW name \in Names, ReadOriginal(s, rec, name) PROVE SerialRequest(s)'
      <3>1. /\ req'[s] = [at |-> "thumb", rec |-> rec, name |-> name]
            /\ Original(rec, name) \in store
        BY <2>4 DEF ReadOriginal
      <3>2. rec \notin purged
        BY <3>1 DEF SerialInv, RecordInv, Under, Original
      <3> QED
        BY <1>1, <3>1, <3>2 DEF SerialRequest, PreparedIsStored, CleanedIsDropped,
                                PurgeIsLast
    <2> QED
      BY <2>1, <2>2, <2>3, <2>4
  <1> QED
    BY <1>1, <1>2, <1>3, <1>4

\* Any step that starts with one request per record keeps the invariant.
LEMMA SerialStep ==
  ASSUME IInv, SerialInv, OnePerRecord, [Next]_vars
  PROVE  SerialInv'
  <1>1. ASSUME NEW s \in Requests, Step(s) PROVE SerialInv'
    <2>1. req[s].at # "idle" /\ req[s].rec \in Records
      BY <1>1, SavingTyped DEF IInv, Step, Upload, UploadFails, ReadRow, WriteRow, RowMissing,
         CleanFile, CleanFileFails, Cleaned, DeleteRow, PurgeFiles, PurgeFails,
         CacheThumbnail, Fail
    <2>a. SerialRequest(s)' /\ \A rec \in Records : rec = req[s].rec => RecordInv(rec)'
      BY <1>1, <2>1, OwnSerial
    <2>2. store' \in SUBSET Object
      BY InvStep DEF IInv, TypeOK
    <2>3. ASSUME NEW rec \in Records PROVE RecordInv(rec)'
      <3>1. CASE rec = req[s].rec
        BY <2>a, <3>1
      <3>2. CASE rec # req[s].rec
        BY <1>1, <2>2, <3>2, StepElsewhere, RecordKept
      <3> QED
        BY <3>1, <3>2
    <2>4. ASSUME NEW r \in Requests, r # s PROVE SerialRequest(r)'
      <3>1. req'[r] = req[r]
        BY <1>1, <2>4 DEF Step, Upload, UploadFails, ReadRow, WriteRow, RowMissing,
           CleanFile, CleanFileFails, Cleaned, DeleteRow, PurgeFiles, PurgeFails,
           CacheThumbnail, Fail, Goto, IInv, TypeOK
      <3>2. CASE req[r].at = "idle"
        BY <3>1, <3>2, IdleIsSerial
      <3>3. CASE req[r].at # "idle"
        <4>1. req[r].rec # req[s].rec /\ req[r].rec \in Records
          BY <2>1, <2>4, <3>3, OwnRecord DEF OnePerRecord
        <4> QED
          BY <1>1, <3>1, <3>3, <4>1, StepElsewhere, SerialKept
      <3> QED
        BY <3>2, <3>3
    <2> QED
      BY <2>a, <2>3, <2>4 DEF SerialInv
  <1>2. ASSUME NEW s \in Requests, NEW rec \in Records,
               \/ \E body \in Body, left \in 0 .. MaxUploads :
                     CreateRecord(s, rec, body, left) \/ UpdateRecord(s, rec, body, left)
               \/ DeleteRecord(s, rec)
               \/ \E name \in Names : ReadOriginal(s, rec, name)
        PROVE  SerialInv'
    <2>1. ASSUME NEW r \in Requests, r # s PROVE SerialRequest(r)'
      <3>1. req'[r] = req[r]
        BY <1>2, <2>1 DEF CreateRecord, UpdateRecord, DeleteRecord, ReadOriginal, Goto,
                          IInv, TypeOK
      <3>2. CASE req[r].at = "idle"
        BY <3>1, <3>2, IdleIsSerial
      <3>3. CASE req[r].at # "idle"
        <4>1. req[r].at \in SavingAt \cup {"delete", "purge", "thumb"}
          BY <3>3 DEF IInv, TypeOK, ReqState, Saving, SavingAt, Idle
        <4>2. req[r].at # "thumb" => req[r].rec \in born
          BY <3>3, <4>1, OwnRecord DEF RequestInv, NamesKnown, SerialRequest, PurgeIsLast
        <4> QED
          BY <1>2, <3>1, <3>3, <4>2, StartSerial, SerialKept
      <3> QED
        BY <3>2, <3>3
    <2> QED
      BY <1>2, <2>1, StartSerial DEF SerialInv
  <1>3. ASSUME NEW rec \in Records, CascadeRow(rec) PROVE SerialInv'
    <2>1. /\ UNCHANGED <<store, req, born, claimed, purged>>
          /\ \A q : q \in DOMAIN rows' => q \in DOMAIN rows /\ rows'[q] = rows[q]
      BY <1>3 DEF CascadeRow
    <2>2. ASSUME NEW q \in Records PROVE RecordInv(q)'
      BY <2>1, RecordKept DEF IInv, TypeOK
    <2>3. ASSUME NEW r \in Requests PROVE SerialRequest(r)'
      BY <2>1, SerialKept, IdleIsSerial
    <2> QED
      BY <2>2, <2>3 DEF SerialInv
  <1>4. CASE UNCHANGED vars
    BY <1>4 DEF vars, SerialInv, SerialRequest, PreparedIsStored, CleanedIsDropped,
                PurgeIsLast, RecordInv, Accounted, Under
  <1> QED
    BY <1>1, <1>2, <1>3, <1>4 DEF Next

\* One request per record in every state keeps the invariant in every state.
LEMMA SerialInvariant == Spec /\ []OnePerRecord => []SerialInv
  <1>1. Init => SerialInv
    BY DEF Init, SerialInv, SerialRequest, PreparedIsStored, CleanedIsDropped, PurgeIsLast,
           RecordInv, Idle
  <1>2. IInv /\ SerialInv /\ OnePerRecord /\ [Next]_vars => SerialInv'
    BY SerialStep
  <1> QED
    BY <1>1, <1>2, Invariant, PTL DEF Spec

\* When requests on one record do not overlap, every name in a row is the name
\* of a stored file or one that a client made up, whatever fails or goes in a
\* cascade: the handlers never lose a file that a row still names.
THEOREM NamesHaveFiles == Spec /\ []OnePerRecord => []NamedFilesAreStored
  <1>1. IInv /\ SerialInv => NamedFilesAreStored
    BY DEF IInv, TypeOK, SerialInv, RecordInv, Accounted, NamedFilesAreStored
  <1> QED
    BY <1>1, Invariant, SerialInvariant, PTL

\* Under the same condition nothing is left of a record whose files were purged.
THEOREM PurgesAreComplete == Spec /\ []OnePerRecord => []PurgedRecordsStayEmpty
  <1>1. IInv /\ SerialInv => PurgedRecordsStayEmpty
    BY DEF IInv, TypeOK, SerialInv, RecordInv, PurgedRecordsStayEmpty
  <1> QED
    BY <1>1, Invariant, SerialInvariant, PTL

\* A single request at a time, as in the run, meets that condition.
THEOREM OneRequestIsEnough ==
  ASSUME \A r, s \in Requests : r = s
  PROVE  Spec => [](NamedFilesAreStored /\ PurgedRecordsStayEmpty)
  <1>1. OnePerRecord
    BY DEF OnePerRecord
  <1>2. []OnePerRecord
    BY <1>1, PTL
  <1> QED
    BY <1>2, NamesHaveFiles, PurgesAreComplete, PTL
=============================================================================
