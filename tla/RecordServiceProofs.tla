------------------------ MODULE RecordServiceProofs ------------------------
(***************************************************************************)
(* Proofs about RecordService and Batch, for any schema and any number of  *)
(* records.  For any number of requests: references were records once,     *)
(* deleted records stay deleted (the refinement of RecordLifecycle), types,*)
(* and a batch does to records what the service does.  For one request at  *)
(* a time, where no record is changed under a cascade: no reference is     *)
(* left dangling, deletes touch only what they should, and a failed batch  *)
(* of creates leaves nothing behind.                                       *)
(***************************************************************************)
EXTENDS Batch, SequenceTheorems, WellFoundedInduction, TLAPS

----------------------------------------------------------------------------
(* Tables                                                                  *)

\* A table is a function from some of the ids to rows.
LEMMA TableTyped == \A t : t \in Tables <=> DOMAIN t \subseteq Ids /\ t \in [DOMAIN t -> Row]
<1> SUFFICES ASSUME NEW t
             PROVE  t \in Tables <=> DOMAIN t \subseteq Ids /\ t \in [DOMAIN t -> Row]
    OBVIOUS
<1>1. ASSUME t \in Tables PROVE DOMAIN t \subseteq Ids /\ t \in [DOMAIN t -> Row]
  <2>1. PICK D \in SUBSET Ids : t \in [D -> Row]
        BY <1>1 DEF Tables
  <2>2. DOMAIN t = D
        BY <2>1
  <2> QED BY <2>1, <2>2
<1>2. ASSUME DOMAIN t \subseteq Ids, t \in [DOMAIN t -> Row] PROVE t \in Tables
  <2>1. DOMAIN t \in SUBSET Ids
        BY <1>2
  <2> QED BY <1>2, <2>1 DEF Tables
<1> QED BY <1>1, <1>2

\* The SQL statements keep the tables tables.
LEMMA InsertedTyped ==
    ASSUME rows \in Tables, NEW i \in Ids, NEW row \in Row
    PROVE  /\ Inserted(i, row) \in Tables
           /\ DOMAIN Inserted(i, row) = DOMAIN rows \cup {i}
<1> DEFINE t == Inserted(i, row)
<1>1. DOMAIN rows \subseteq Ids /\ rows \in [DOMAIN rows -> Row]
      BY TableTyped
<1>2. DOMAIN t = DOMAIN rows \cup {i}
      BY DEF Inserted
<1>3. \A j \in DOMAIN t : t[j] \in Row
      BY <1>1 DEF Inserted
<1>4. t = [j \in DOMAIN t |-> t[j]]
      BY DEF Inserted
<1>5. t \in [DOMAIN t -> Row]
      BY <1>3, <1>4
<1> QED BY <1>1, <1>2, <1>5, TableTyped

LEMMA UpdatedTyped ==
    ASSUME rows \in Tables, NEW i, NEW row \in Row
    PROVE  /\ Updated(i, row) \in Tables
           /\ DOMAIN Updated(i, row) = DOMAIN rows
           /\ \A j \in DOMAIN rows :
                 Updated(i, row)[j] = rows[j] \/ Updated(i, row)[j] = row
<1>1. DOMAIN rows \subseteq Ids /\ rows \in [DOMAIN rows -> Row]
      BY TableTyped
<1>2. CASE i \in DOMAIN rows
  <2>1. Updated(i, row) = [rows EXCEPT ![i] = row]
        BY <1>2 DEF Updated
  <2>2. [rows EXCEPT ![i] = row] \in [DOMAIN rows -> Row]
        BY <1>1, <1>2
  <2> QED BY <1>1, <2>1, <2>2, TableTyped
<1>3. CASE i \notin DOMAIN rows
      BY <1>3 DEF Updated
<1> QED BY <1>2, <1>3

LEMMA DeletedTyped ==
    ASSUME rows \in Tables, NEW i
    PROVE  /\ Deleted(i) \in Tables
           /\ DOMAIN Deleted(i) = DOMAIN rows \ {i}
           /\ \A j \in DOMAIN rows \ {i} : Deleted(i)[j] = rows[j]
<1>1. DOMAIN rows \subseteq Ids /\ rows \in [DOMAIN rows -> Row]
      BY TableTyped
<1>2. DOMAIN Deleted(i) = DOMAIN rows \ {i}
      BY DEF Deleted
<1>3. \A j \in DOMAIN rows \ {i} : Deleted(i)[j] = rows[j]
      BY DEF Deleted
<1>4. Deleted(i) \in [DOMAIN Deleted(i) -> Row]
      BY <1>1, <1>2, <1>3 DEF Deleted
<1> QED BY <1>1, <1>2, <1>3, <1>4, TableTyped

\* Some of the rows of a table, as a request keeps them, are a table.
LEMMA PartTyped ==
    ASSUME NEW t \in Tables, NEW D \in SUBSET (DOMAIN t)
    PROVE  [j \in D |-> t[j]] \in Tables
<1>1. DOMAIN t \subseteq Ids /\ t \in [DOMAIN t -> Row]
      BY TableTyped
<1>2. [j \in D |-> t[j]] \in [D -> Row]
      BY <1>1
<1>3. DOMAIN [j \in D |-> t[j]] = D
      OBVIOUS
<1> QED BY <1>1, <1>2, <1>3, TableTyped

LEMMA EmptyTyped == [j \in {} |-> 0] \in Tables /\ DOMAIN [j \in {} |-> 0] = {}
<1>1. [j \in {} |-> 0] \in [{} -> Row]
      OBVIOUS
<1>2. {} \in SUBSET Ids
      OBVIOUS
<1> QED BY <1>1, <1>2 DEF Tables

----------------------------------------------------------------------------
(* Rows                                                                    *)

\* Merging and unlinking give rows; unlinking brings in no id.
LEMMA MergedTyped ==
    ASSUME NEW row \in Row, NEW patch \in Patch
    PROVE  Merged(row, patch) \in Row
<1>1. row.cell \in [Columns -> Values] /\ row.rel \in [Relations -> SUBSET Ids]
      BY DEF Row
<1>2. CASE patch \in [set: {"cell"}, name: Columns, to: Values]
  <2>1. patch.set = "cell" /\ patch.name \in Columns /\ patch.to \in Values
        BY <1>2
  <2>2. Merged(row, patch) = [row EXCEPT !.cell[patch.name] = patch.to]
        BY <2>1 DEF Merged
  <2> QED BY <1>1, <2>1, <2>2 DEF Row
<1>3. CASE patch \in [set: {"rel", "add", "remove"}, name: Relations, to: SUBSET Ids]
  <2>1. /\ patch.set \in {"rel", "add", "remove"}
        /\ patch.name \in Relations
        /\ patch.to \in SUBSET Ids
        BY <1>3
  <2>2. CASE patch.set = "rel"
    <3>1. Merged(row, patch) = [row EXCEPT !.rel[patch.name] = patch.to]
          BY <2>2 DEF Merged
    <3> QED BY <1>1, <2>1, <3>1 DEF Row
  <2>3. CASE patch.set # "rel"
    <3> DEFINE new == Modified(row.rel[patch.name], patch.set, patch.to)
    <3>1. new \in SUBSET Ids
          BY <1>1, <2>1 DEF Modified
    <3>2. patch.set # "cell" /\ patch.set # "rel"
          BY <2>1, <2>3
    <3>3. Merged(row, patch) = [row EXCEPT !.rel[patch.name] = new]
          BY <3>2 DEF Merged
    <3> HIDE DEF new
    <3> QED BY <1>1, <2>1, <3>1, <3>3 DEF Row
  <2> QED BY <2>2, <2>3
<1> QED BY <1>2, <1>3 DEF Patch

LEMMA NulledTyped ==
    ASSUME NEW row \in Row, NEW f, NEW i
    PROVE  /\ Nulled(row, f, i) \in Row
           /\ \A g \in Relations : Nulled(row, f, i).rel[g] \subseteq row.rel[g]
<1>1. row.rel \in [Relations -> SUBSET Ids]
      BY DEF Row
<1> QED BY <1>1 DEF Row, Nulled

\* A row whose references are known.
LEMMA ReferencesKnown ==
    ASSUME NEW row, References(row) \subseteq ever
    PROVE  Known(row)
BY DEF Known, References

----------------------------------------------------------------------------
(* Requests                                                                *)

\* What the type invariant says of a request in each of its states.
LEMMA RequestFields ==
    ASSUME TypeOK, NEW r \in Requests
    PROVE  /\ req[r].at = "create" =>
                 /\ req[r].id \in Ids
                 /\ req[r].row \in Row
                 /\ req[r].todo \in SUBSET Ids
                 /\ req[r] \in [at: {"create"}, id: Ids, row: Row, todo: SUBSET Ids]
           /\ req[r].at = "update" =>
                 /\ req[r].id \in Ids
                 /\ req[r].read \in Row
                 /\ req[r].patch \in Patch
                 /\ req[r].todo \in SUBSET Ids
                 /\ req[r] \in [at: {"update"}, id: Ids, read: Row, patch: Patch,
                                todo: SUBSET Ids]
           /\ req[r].at = "delete" =>
                 /\ req[r] \in [at: {"delete"}, stack: Seq(Frame) \ {<<>>}]
                 /\ req[r].stack \in Seq(Frame) \ {<<>>}
BY DEF TypeOK, ReqState, Idle

\* The top frame of a delete, and the frames below it.
LEMMA StackFields ==
    ASSUME TypeOK, NEW r \in Requests, req[r].at = "delete"
    PROVE  /\ Top(r) \in Frame
           /\ Top(r).id \in Ids
           /\ Top(r).todo \in Tables
           /\ Top(r) = req[r].stack[1]
           /\ Tail(req[r].stack) \in Seq(Frame)
           /\ Len(req[r].stack) \in Nat \ {0}
           /\ Len(Tail(req[r].stack)) = Len(req[r].stack) - 1
           /\ \A n \in 1 .. Len(Tail(req[r].stack)) :
                 Tail(req[r].stack)[n] = req[r].stack[n + 1]
<1>1. req[r].stack \in Seq(Frame) /\ req[r].stack # <<>>
      BY RequestFields
<1>2. \A s \in Seq(Frame) : s # <<>> =>
          /\ Head(s) \in Frame
          /\ Head(s) = s[1]
          /\ Tail(s) \in Seq(Frame)
          /\ Len(s) \in Nat \ {0}
          /\ Len(Tail(s)) = Len(s) - 1
          /\ \A n \in 1 .. Len(Tail(s)) : Tail(s)[n] = s[n + 1]
      OBVIOUS
<1>3. \A frame \in Frame : frame.id \in Ids /\ frame.todo \in Tables
      BY DEF Frame
<1> QED BY <1>1, <1>2, <1>3 DEF Top

\* What KnownWrites says of one request in state q.
WritesKnown(q) ==
    /\ q.at = "create" => References(q.row) \subseteq ever \cup q.todo
    /\ q.at = "update" => References(Merged(q.read, q.patch)) \subseteq ever \cup q.todo
    /\ q.at = "delete" =>
          \A n \in 1 .. Len(q.stack) : \A j \in DOMAIN q.stack[n].todo : Known(q.stack[n].todo[j])

(***************************************************************************)
(* Every step but Insert and Overflow is of this form: one request moves   *)
(* to state q, no record appears, and the rows left hold known ids.        *)
(***************************************************************************)
LEMMA MoveStep ==
    ASSUME IInv, NEW r \in Requests, NEW q \in ReqState, Goto(r, q),
           WritesKnown(q),
           q.at = "create" =>
               /\ q.id \notin ever
               /\ \A s \in Requests \ {r} : req[s].at = "create" => req[s].id # q.id,
           rows' \in Tables, DOMAIN rows' \subseteq DOMAIN rows,
           \A i \in DOMAIN rows', f \in Relations : rows'[i].rel[f] \subseteq ever,
           UNCHANGED ever
    PROVE  IInv'
<1>1. /\ req' \in [Requests -> ReqState]
      /\ req'[r] = q
      /\ \A s \in Requests \ {r} : req'[s] = req[s]
      BY DEF IInv, TypeOK, Goto
<1>2. TypeOK'
      BY <1>1 DEF IInv, TypeOK
<1>3. EveryReferenceWasARecord' /\ RowsWereBorn'
      BY DEF IInv, EveryReferenceWasARecord, RowsWereBorn
<1>4. NewIds'
  <2> SUFFICES ASSUME NEW s \in Requests, req'[s].at = "create"
               PROVE  /\ req'[s].id \notin ever
                      /\ \A t \in Requests \ {s} :
                            req'[t].at = "create" => req'[t].id # req'[s].id
      BY DEF NewIds
  <2>1. CASE s = r
        BY <1>1, <2>1
  <2>2. CASE s # r
        BY <1>1, <2>2 DEF IInv, NewIds
  <2> QED BY <2>1, <2>2
<1>5. KnownWrites'
  <2>1. \A s \in Requests : WritesKnown(req[s])
        BY DEF IInv, KnownWrites, WritesKnown
  <2>2. \A s \in Requests : WritesKnown(req'[s])
        BY <1>1, <2>1
  <2> QED BY <2>2 DEF KnownWrites, WritesKnown, Known
<1> QED BY <1>2, <1>3, <1>4, <1>5 DEF IInv

\* A request that answers or fails without changing a row.
LEMMA EndStep ==
    ASSUME IInv, NEW r \in Requests, Goto(r, Idle), UNCHANGED <<rows, ever>>
    PROVE  IInv'
<1>1. Idle \in ReqState /\ WritesKnown(Idle) /\ Idle.at # "create"
      BY DEF ReqState, WritesKnown, Idle
<1> QED BY <1>1, MoveStep DEF IInv, TypeOK, EveryReferenceWasARecord

\* A request that goes on without changing a row.
LEMMA ReadStep ==
    ASSUME IInv, NEW r \in Requests, NEW q \in ReqState, Goto(r, q), WritesKnown(q),
           q.at # "create", UNCHANGED <<rows, ever>>
    PROVE  IInv'
BY MoveStep DEF IInv, TypeOK, EveryReferenceWasARecord

LEMMA CreateRecordStep ==
    ASSUME IInv, NEW r \in Requests, NEW i \in Ids, NEW row \in Row, CreateRecord(r, i, row)
    PROVE  IInv'
<1> DEFINE q == [at |-> "create", id |-> i, row |-> row, todo |-> References(row)]
<1>1. References(row) \in SUBSET Ids
      BY DEF References, Row
<1>2. q \in ReqState
      BY <1>1 DEF ReqState
<1>3. WritesKnown(q)
      BY DEF WritesKnown
<1>4. /\ q.id \notin ever
      /\ \A s \in Requests \ {r} : req[s].at = "create" => req[s].id # q.id
      BY DEF CreateRecord
<1>5. Goto(r, q) /\ UNCHANGED <<rows, ever>>
      BY DEF CreateRecord
<1> HIDE DEF q
<1> QED BY <1>2, <1>3, <1>4, <1>5, MoveStep DEF IInv, TypeOK, EveryReferenceWasARecord

LEMMA UpdateRecordStep ==
    ASSUME IInv, NEW r \in Requests, NEW i \in Ids, NEW patch \in Patch,
           UpdateRecord(r, i, patch)
    PROVE  IInv'
<1> DEFINE merged == Merged(rows[i], patch)
           q == [at |-> "update", id |-> i, read |-> rows[i], patch |-> patch,
                 todo |-> References(merged)]
<1>1. rows[i] \in Row
      BY TableTyped DEF IInv, TypeOK, UpdateRecord
<1>2. merged \in Row
      BY <1>1, MergedTyped
<1>3. References(merged) \in SUBSET Ids
      BY <1>2 DEF References, Row
<1>4. q \in ReqState /\ q.at # "create"
      BY <1>1, <1>3 DEF ReqState
<1>5. WritesKnown(q)
      BY DEF WritesKnown
<1>6. Goto(r, q) /\ UNCHANGED <<rows, ever>>
      BY DEF UpdateRecord
<1> HIDE DEF q
<1> QED BY <1>4, <1>5, <1>6, ReadStep DEF IInv, TypeOK

LEMMA CheckReferenceStep ==
    ASSUME IInv, NEW r \in Requests, NEW i, CheckReference(r, i)
    PROVE  IInv'
<1> DEFINE q == [req[r] EXCEPT !.todo = @ \ {i}]
<1>1. i \in ever
      BY DEF CheckReference, IInv, RowsWereBorn
<1>2. WritesKnown(req[r])
      BY DEF IInv, KnownWrites, WritesKnown
<1>3. Goto(r, q) /\ UNCHANGED <<rows, ever>>
      BY DEF CheckReference
<1>4. CASE req[r].at = "create"
  <2>1. /\ q \in [at: {"create"}, id: Ids, row: Row, todo: SUBSET Ids]
        /\ q.at = "create" /\ q.id = req[r].id /\ q.row = req[r].row
        /\ q.todo = req[r].todo \ {i}
        BY <1>4, RequestFields DEF IInv
  <2>2. q \in ReqState /\ WritesKnown(q)
        BY <1>1, <1>2, <1>4, <2>1 DEF ReqState, WritesKnown
  <2>3. /\ q.id \notin ever
        /\ \A s \in Requests \ {r} : req[s].at = "create" => req[s].id # q.id
        BY <1>4, <2>1 DEF IInv, NewIds
  <2> HIDE DEF q
  <2> QED BY <1>3, <2>2, <2>3, MoveStep DEF IInv, TypeOK, EveryReferenceWasARecord
<1>5. CASE req[r].at = "update"
  <2>1. /\ q \in [at: {"update"}, id: Ids, read: Row, patch: Patch, todo: SUBSET Ids]
        /\ q.at = "update" /\ q.read = req[r].read /\ q.patch = req[r].patch
        /\ q.todo = req[r].todo \ {i}
        BY <1>5, RequestFields DEF IInv
  <2>2. q \in ReqState /\ WritesKnown(q) /\ q.at # "create"
        BY <1>1, <1>2, <1>5, <2>1 DEF ReqState, WritesKnown
  <2> HIDE DEF q
  <2> QED BY <1>3, <2>2, ReadStep DEF IInv, TypeOK
<1> QED BY <1>4, <1>5 DEF CheckReference

\* Insert: the only step that brings an id into the tables.
LEMMA InsertStep ==
    ASSUME IInv, NEW r \in Requests, Insert(r)
    PROVE  IInv'
<1> DEFINE i == req[r].id
           row == req[r].row
<1>1. /\ i \in Ids
      /\ row \in Row
      /\ References(row) \subseteq ever
      /\ i \notin ever
      /\ \A s \in Requests \ {r} : req[s].at = "create" => req[s].id # i
      BY RequestFields DEF IInv, Insert, KnownWrites, NewIds
<1>2. /\ rows' = Inserted(i, row)
      /\ ever' = ever \cup {i}
      BY DEF Insert
<1>3. /\ req' \in [Requests -> ReqState]
      /\ req'[r] = Idle
      /\ \A s \in Requests \ {r} : req'[s] = req[s]
      BY DEF IInv, TypeOK, Insert, Goto, ReqState
<1>4. /\ rows' \in Tables
      /\ DOMAIN rows' = DOMAIN rows \cup {i}
      BY <1>1, <1>2, InsertedTyped DEF IInv, TypeOK
<1> HIDE DEF i, row
<1>5. TypeOK'
      BY <1>1, <1>2, <1>3, <1>4 DEF IInv, TypeOK
<1>6. EveryReferenceWasARecord'
  <2> SUFFICES ASSUME NEW j \in DOMAIN rows', NEW f \in Relations
               PROVE  rows'[j].rel[f] \subseteq ever'
      BY DEF EveryReferenceWasARecord
  <2>1. CASE j = i
    <3>1. Known(row)
          BY <1>1, ReferencesKnown
    <3>2. rows'[j] = row
          BY <1>2, <2>1 DEF Inserted
    <3> QED BY <1>2, <3>1, <3>2 DEF Known
  <2>2. CASE j # i
    <3>1. rows'[j] = rows[j] /\ j \in DOMAIN rows
          BY <1>2, <1>4, <2>2 DEF Inserted
    <3> QED BY <1>2, <3>1 DEF IInv, EveryReferenceWasARecord
  <2> QED BY <2>1, <2>2
<1>7. RowsWereBorn'
      BY <1>2, <1>4 DEF IInv, RowsWereBorn
<1>8. NewIds'
  <2> SUFFICES ASSUME NEW s \in Requests, req'[s].at = "create"
               PROVE  /\ req'[s].id \notin ever'
                      /\ \A t \in Requests \ {s} :
                            req'[t].at = "create" => req'[t].id # req'[s].id
      BY DEF NewIds
  <2>1. s # r /\ req'[s] = req[s]
        BY <1>3 DEF Idle
  <2>2. req[s].id \notin ever /\ req[s].id # i
        BY <1>1, <2>1 DEF IInv, NewIds
  <2>3. ASSUME NEW t \in Requests \ {s}, req'[t].at = "create"
        PROVE  req'[t].id # req'[s].id
    <3>1. req'[t] = req[t]
          BY <1>3, <2>3 DEF Idle
    <3> QED BY <2>1, <2>3, <3>1 DEF IInv, NewIds
  <2> QED BY <1>2, <2>1, <2>2, <2>3
<1>9. KnownWrites'
  <2>1. \A s \in Requests : WritesKnown(req'[s])
    <3>1. WritesKnown(Idle)
          BY DEF WritesKnown, Idle
    <3>2. \A s \in Requests : WritesKnown(req[s])
          BY DEF IInv, KnownWrites, WritesKnown
    <3> QED BY <1>3, <3>1, <3>2
  <2>2. \A s \in Requests : WritesKnown(req[s])'
        BY <2>1, <1>2 DEF WritesKnown, Known
  <2> QED BY <2>2 DEF KnownWrites, WritesKnown
<1> QED BY <1>5, <1>6, <1>7, <1>8, <1>9 DEF IInv

LEMMA UpdateStepInv ==
    ASSUME IInv, NEW r \in Requests, Update(r)
    PROVE  IInv'
<1> DEFINE new == Merged(req[r].read, req[r].patch)
<1>1. new \in Row /\ References(new) \subseteq ever
      BY RequestFields, MergedTyped DEF IInv, Update, KnownWrites
<1>2. rows' = Updated(req[r].id, new) /\ Goto(r, Idle) /\ UNCHANGED ever
      BY DEF Update
<1> HIDE DEF new
<1>3. /\ rows' \in Tables
      /\ DOMAIN rows' = DOMAIN rows
      /\ \A j \in DOMAIN rows : rows'[j] = rows[j] \/ rows'[j] = new
      BY <1>1, <1>2, UpdatedTyped DEF IInv, TypeOK
<1>4. Known(new)
      BY <1>1, ReferencesKnown
<1>5. \A i \in DOMAIN rows', f \in Relations : rows'[i].rel[f] \subseteq ever
      BY <1>3, <1>4 DEF IInv, EveryReferenceWasARecord, Known
<1>6. Idle \in ReqState /\ WritesKnown(Idle) /\ Idle.at # "create"
      BY DEF ReqState, WritesKnown, Idle
<1> QED BY <1>2, <1>3, <1>5, <1>6, MoveStep DEF IInv, TypeOK

----------------------------------------------------------------------------
(* The steps of a delete                                                   *)

\* A delete whose top frame becomes `frame`, or which gets a frame on top.
LEMMA StackTyped ==
    ASSUME IInv, NEW r \in Requests, req[r].at = "delete", NEW s \in Seq(Frame), s # <<>>,
           \A n \in 1 .. Len(s) : \A j \in DOMAIN s[n].todo : Known(s[n].todo[j])
    PROVE  LET q == [req[r] EXCEPT !.stack = s]
           IN  q \in ReqState /\ q.at = "delete" /\ WritesKnown(q)
<1> DEFINE q == [req[r] EXCEPT !.stack = s]
<1>1. /\ q \in [at: {"delete"}, stack: Seq(Frame) \ {<<>>}]
      /\ q.at = "delete"
      /\ q.stack = s
      BY RequestFields DEF IInv
<1>2. q \in ReqState
      BY <1>1 DEF ReqState
<1> HIDE DEF q
<1>3. WritesKnown(q)
      BY <1>1 DEF WritesKnown
<1> QED BY <1>1, <1>2, <1>3 DEF q

\* The stack with another top frame.
LEMMA TopTyped ==
    ASSUME IInv, NEW r \in Requests, req[r].at = "delete", NEW frame \in Frame,
           \A j \in DOMAIN frame.todo : Known(frame.todo[j])
    PROVE  LET s == <<frame>> \o Tail(req[r].stack)
           IN  /\ s \in Seq(Frame) /\ s # <<>>
               /\ \A n \in 1 .. Len(s) : \A j \in DOMAIN s[n].todo : Known(s[n].todo[j])
<1> DEFINE tail == Tail(req[r].stack)
           s == <<frame>> \o tail
<1>1. TypeOK
      BY DEF IInv
<1>2. /\ tail \in Seq(Frame)
      /\ Len(tail) = Len(req[r].stack) - 1
      /\ Len(req[r].stack) \in Nat \ {0}
      /\ \A n \in 1 .. Len(tail) : tail[n] = req[r].stack[n + 1]
      BY <1>1, StackFields
<1>3. \A n \in 1 .. Len(tail) : \A j \in DOMAIN tail[n].todo : Known(tail[n].todo[j])
      BY <1>2 DEF IInv, KnownWrites
<1> HIDE DEF tail
<1>4. /\ s \in Seq(Frame)
      /\ Len(s) = Len(tail) + 1
      /\ s[1] = frame
      /\ \A n \in 2 .. Len(s) : s[n] = tail[n - 1] /\ n - 1 \in 1 .. Len(tail)
      BY <1>2
<1>5. s # <<>>
      BY <1>2, <1>4
<1> HIDE DEF s
<1>6. Len(tail) \in Nat
      BY <1>2
<1>7. ASSUME NEW n \in 1 .. Len(s), NEW j \in DOMAIN s[n].todo PROVE Known(s[n].todo[j])
  <2>1. CASE n = 1
        BY <1>4, <1>7, <2>1
  <2>2. CASE n # 1
    <3>1. n \in 2 .. Len(s)
          BY <1>4, <1>6, <2>2
    <3> QED BY <1>3, <1>4, <1>7, <3>1
  <2> QED BY <2>1, <2>2
<1> QED BY <1>4, <1>5, <1>7 DEF s, tail

\* The frame of a record just found, and a frame with one row processed.
LEMMA FramesTyped ==
    ASSUME IInv, NEW r \in Requests, req[r].at = "delete", NEW j
    PROVE  /\ Processed(r, j) \in Frame
           /\ Processed(r, j).id = Top(r).id
           /\ \A k \in DOMAIN Processed(r, j).todo : Known(Processed(r, j).todo[k])
           /\ \A k \in DOMAIN Top(r).todo : Known(Top(r).todo[k])
           /\ \A i \in Ids : NewFrame(i) \in Frame /\ DOMAIN NewFrame(i).todo = {}
<1>1. TypeOK
      BY DEF IInv
<1>2. /\ Top(r) \in Frame
      /\ Top(r).todo \in Tables
      /\ Top(r) = req[r].stack[1]
      /\ Len(req[r].stack) \in Nat \ {0}
      BY <1>1, StackFields
<1>3. \A k \in DOMAIN Top(r).todo : Known(Top(r).todo[k])
      BY <1>2 DEF IInv, KnownWrites
<1> DEFINE D == DOMAIN Top(r).todo \ {j}
           rest == [k \in D |-> Top(r).todo[k]]
<1>4. D \in SUBSET (DOMAIN Top(r).todo)
      OBVIOUS
<1>5. rest \in Tables
      BY <1>2, <1>4, PartTyped
<1>6. DOMAIN rest = D /\ \A k \in D : rest[k] = Top(r).todo[k]
      OBVIOUS
<1> HIDE DEF rest
<1>7. /\ [Top(r) EXCEPT !.todo = rest] \in Frame
      /\ [Top(r) EXCEPT !.todo = rest].id = Top(r).id
      /\ [Top(r) EXCEPT !.todo = rest].todo = rest
      BY <1>2, <1>5 DEF Frame
<1>8. Processed(r, j) = [Top(r) EXCEPT !.todo = rest]
      BY DEF Processed, rest
<1>9. \A i \in Ids : NewFrame(i) \in Frame /\ DOMAIN NewFrame(i).todo = {}
  <2>1. 0 \in 0 .. Len(ScanOrder)
        BY SchemaAssumption
  <2> QED BY <2>1, EmptyTyped DEF NewFrame, Frame
<1> QED BY <1>3, <1>6, <1>7, <1>8, <1>9

LEMMA DeleteRecordStep ==
    ASSUME IInv, NEW r \in Requests, NEW i \in Ids, DeleteRecord(r, i)
    PROVE  IInv'
<1> DEFINE q == [at |-> "delete", stack |-> <<NewFrame(i)>>]
<1>1. NewFrame(i) \in Frame /\ DOMAIN NewFrame(i).todo = {}
  <2>1. 0 \in 0 .. Len(ScanOrder)
        BY SchemaAssumption
  <2> QED BY <2>1, EmptyTyped DEF NewFrame, Frame
<1>2. q \in ReqState /\ q.at = "delete" /\ WritesKnown(q)
  <2>1. <<NewFrame(i)>> \in Seq(Frame) \ {<<>>}
        BY <1>1
  <2>2. q \in ReqState
        BY <2>1 DEF ReqState
  <2>3. \A n \in 1 .. Len(q.stack) : q.stack[n] = NewFrame(i)
        OBVIOUS
  <2> QED BY <1>1, <2>2, <2>3 DEF WritesKnown
<1>3. Goto(r, q) /\ UNCHANGED <<rows, ever>>
      BY DEF DeleteRecord, IInv, TypeOK
<1> HIDE DEF q
<1> QED BY <1>2, <1>3, ReadStep

LEMMA FindReferencingStep ==
    ASSUME IInv, NEW r \in Requests, NEW n \in 1 .. Len(ScanOrder), FindReferencing(r, n)
    PROVE  IInv'
<1> DEFINE found == Referencing(ScanOrder[n], Top(r).id)
           frame == [id |-> Top(r).id, scan |-> n, todo |-> [j \in found |-> rows[j]]]
           s == <<frame>> \o Tail(req[r].stack)
           q == [req[r] EXCEPT !.stack = s]
<1>1. req[r].at = "delete" /\ Goto(r, q) /\ UNCHANGED <<rows, ever>>
      BY DEF FindReferencing, Scanning, WithTop
<1>2. TypeOK /\ rows \in Tables
      BY DEF IInv, TypeOK
<1>3. found \in SUBSET (DOMAIN rows)
      BY DEF Referencing
<1>4. [j \in found |-> rows[j]] \in Tables
      BY <1>2, <1>3, PartTyped
<1>5. frame \in Frame
  <2>1. n \in 0 .. Len(ScanOrder)
        BY SchemaAssumption
  <2>2. Top(r).id \in Ids
        BY <1>1, <1>2, StackFields
  <2> HIDE DEF found
  <2> QED BY <1>4, <2>1, <2>2 DEF Frame
<1>6. \A j \in DOMAIN frame.todo : Known(frame.todo[j])
      BY <1>3 DEF IInv, EveryReferenceWasARecord, Known
<1> HIDE DEF frame
<1>7. /\ s \in Seq(Frame) /\ s # <<>>
      /\ \A m \in 1 .. Len(s) : \A j \in DOMAIN s[m].todo : Known(s[m].todo[j])
      BY <1>1, <1>5, <1>6, TopTyped
<1> HIDE DEF s
<1>8. q \in ReqState /\ q.at = "delete" /\ WritesKnown(q)
      BY <1>1, <1>7, StackTyped
<1> HIDE DEF q
<1> QED BY <1>1, <1>8, ReadStep DEF IInv, TypeOK

LEMMA CascadeStep ==
    ASSUME IInv, NEW r \in Requests, NEW j \in Ids, Cascade(r, j)
    PROVE  IInv'
<1> DEFINE lower == <<Processed(r, j)>> \o Tail(req[r].stack)
           s == <<NewFrame(j), Processed(r, j)>> \o Tail(req[r].stack)
           q == [req[r] EXCEPT !.stack = s]
<1>1. req[r].at = "delete" /\ Goto(r, q) /\ UNCHANGED <<rows, ever>>
      BY DEF Cascade
<1>2. TypeOK
      BY DEF IInv
<1>3. /\ Processed(r, j) \in Frame
      /\ \A k \in DOMAIN Processed(r, j).todo : Known(Processed(r, j).todo[k])
      /\ NewFrame(j) \in Frame
      /\ DOMAIN NewFrame(j).todo = {}
      BY <1>1, FramesTyped
<1>4. /\ lower \in Seq(Frame)
      /\ \A n \in 1 .. Len(lower) : \A k \in DOMAIN lower[n].todo : Known(lower[n].todo[k])
      BY <1>1, <1>3, TopTyped
<1>5. Tail(req[r].stack) \in Seq(Frame)
      BY <1>1, <1>2, StackFields
<1>6. s = <<NewFrame(j)>> \o lower
      BY <1>3, <1>5
<1> HIDE DEF lower, s
<1>7. /\ s \in Seq(Frame) /\ s # <<>>
      /\ Len(s) = Len(lower) + 1 /\ Len(lower) \in Nat
      /\ s[1] = NewFrame(j)
      /\ \A n \in 2 .. Len(s) : s[n] = lower[n - 1] /\ n - 1 \in 1 .. Len(lower)
      BY <1>3, <1>4, <1>6
<1>8. ASSUME NEW n \in 1 .. Len(s), NEW k \in DOMAIN s[n].todo PROVE Known(s[n].todo[k])
  <2>1. n # 1
        BY <1>3, <1>7, <1>8
  <2>2. n \in 2 .. Len(s)
        BY <1>7, <2>1
  <2> QED BY <1>4, <1>7, <1>8, <2>2
<1>9. q \in ReqState /\ q.at = "delete" /\ WritesKnown(q)
      BY <1>1, <1>7, <1>8, StackTyped
<1> HIDE DEF q
<1> QED BY <1>1, <1>9, ReadStep DEF IInv, TypeOK

LEMMA SetNullStep ==
    ASSUME IInv, NEW r \in Requests, NEW j \in Ids, SetNull(r, j)
    PROVE  IInv'
<1> DEFINE old == Top(r).todo[j]
           new == Nulled(old, Field(r), Top(r).id)
           s == <<Processed(r, j)>> \o Tail(req[r].stack)
           q == [req[r] EXCEPT !.stack = s]
<1>1. /\ req[r].at = "delete" /\ Goto(r, q) /\ rows' = Updated(j, new)
      /\ UNCHANGED ever
      BY DEF SetNull, WithTop, IInv, TypeOK
<1>2. TypeOK /\ rows \in Tables
      BY DEF IInv, TypeOK
<1>3. old \in Row /\ Known(old)
  <2>1. Top(r).todo \in Tables /\ j \in DOMAIN Top(r).todo
        BY <1>1, <1>2, StackFields DEF SetNull
  <2>2. Known(old)
        BY <1>1, <2>1, FramesTyped
  <2> QED BY <2>1, <2>2, TableTyped
<1>4. new \in Row /\ Known(new)
      BY <1>3, NulledTyped DEF Known
<1> HIDE DEF new
<1>5. /\ rows' \in Tables
      /\ DOMAIN rows' = DOMAIN rows
      /\ \A i \in DOMAIN rows : rows'[i] = rows[i] \/ rows'[i] = new
      BY <1>1, <1>2, <1>4, UpdatedTyped
<1>6. \A i \in DOMAIN rows', f \in Relations : rows'[i].rel[f] \subseteq ever
      BY <1>4, <1>5 DEF IInv, EveryReferenceWasARecord, Known
<1>7. /\ Processed(r, j) \in Frame
      /\ \A k \in DOMAIN Processed(r, j).todo : Known(Processed(r, j).todo[k])
      BY <1>1, FramesTyped
<1>8. /\ s \in Seq(Frame) /\ s # <<>>
      /\ \A n \in 1 .. Len(s) : \A k \in DOMAIN s[n].todo : Known(s[n].todo[k])
      BY <1>1, <1>7, TopTyped
<1> HIDE DEF s
<1>9. q \in ReqState /\ q.at = "delete" /\ WritesKnown(q)
      BY <1>1, <1>8, StackTyped
<1> HIDE DEF q
<1> QED BY <1>1, <1>5, <1>6, <1>9, MoveStep

LEMMA RemoveStep ==
    ASSUME IInv, NEW r \in Requests, Remove(r)
    PROVE  IInv'
<1>1. /\ req[r].at = "delete"
      /\ rows' = Deleted(Top(r).id)
      /\ UNCHANGED ever
     
  <2>1. (Len(req[r].stack) > 1) \in BOOLEAN
        OBVIOUS
  <2> QED BY <2>1 DEF Remove, Removing, Scanning, IInv, TypeOK
<1>2. TypeOK /\ rows \in Tables
      BY DEF IInv, TypeOK
<1>3. /\ rows' \in Tables
      /\ DOMAIN rows' \subseteq DOMAIN rows
      /\ \A i \in DOMAIN rows' : rows'[i] = rows[i]
      BY <1>1, <1>2, DeletedTyped
<1>4. \A i \in DOMAIN rows', f \in Relations : rows'[i].rel[f] \subseteq ever
      BY <1>3 DEF IInv, EveryReferenceWasARecord
<1>5. CASE Len(req[r].stack) = 1
  <2>1. Idle \in ReqState /\ WritesKnown(Idle) /\ Idle.at # "create"
        BY DEF ReqState, WritesKnown, Idle
  <2>2. Goto(r, Idle)
        BY <1>5 DEF Remove
  <2> QED BY <1>1, <1>3, <1>4, <2>1, <2>2, MoveStep
<1>6. CASE Len(req[r].stack) # 1
  <2> DEFINE s == Tail(req[r].stack)
             q == [req[r] EXCEPT !.stack = s]
  <2>1. Goto(r, q)
        BY <1>6 DEF Remove
  <2>2. /\ s \in Seq(Frame)
        /\ Len(s) = Len(req[r].stack) - 1
        /\ Len(req[r].stack) \in Nat \ {0}
        /\ \A n \in 1 .. Len(s) : s[n] = req[r].stack[n + 1]
        BY <1>1, <1>2, StackFields
  <2>3. \A n \in 1 .. Len(s) : \A j \in DOMAIN s[n].todo : Known(s[n].todo[j])
        BY <1>1, <2>2 DEF IInv, KnownWrites
  <2> HIDE DEF s
  <2>4. s # <<>>
    <3>1. Len(s) # 0
          BY <1>6, <2>2
    <3> QED BY <3>1
  <2>5. q \in ReqState /\ q.at = "delete" /\ WritesKnown(q)
        BY <1>1, <2>2, <2>3, <2>4, StackTyped
  <2> HIDE DEF q
  <2> QED BY <1>1, <1>3, <1>4, <2>1, <2>5, MoveStep
<1> QED BY <1>5, <1>6

\* The process is gone with all requests; the tables stay as they are.
LEMMA OverflowStep ==
    ASSUME IInv, NEW r \in Requests, Overflow(r)
    PROVE  IInv'
<1>1. /\ req' = [s \in Requests |-> Idle]
      /\ UNCHANGED <<rows, ever>>
      BY DEF Overflow
<1>2. TypeOK'
      BY <1>1 DEF IInv, TypeOK, ReqState
<1>3. EveryReferenceWasARecord' /\ RowsWereBorn'
      BY <1>1 DEF IInv, EveryReferenceWasARecord, RowsWereBorn
<1>4. \A s \in Requests : req'[s] = Idle
      BY <1>1
<1>5. NewIds'
      BY <1>4 DEF NewIds, Idle
<1>6. KnownWrites'
      BY <1>4 DEF KnownWrites, Idle
<1> QED BY <1>2, <1>3, <1>5, <1>6 DEF IInv

----------------------------------------------------------------------------
(* The theorems                                                            *)

LEMMA InitInv == Init => IInv
<1> SUFFICES ASSUME Init PROVE IInv
    OBVIOUS
<1>1. TypeOK
      BY EmptyTyped DEF Init, TypeOK, ReqState
<1>2. EveryReferenceWasARecord /\ RowsWereBorn
      BY EmptyTyped DEF Init, EveryReferenceWasARecord, RowsWereBorn
<1>3. NewIds /\ KnownWrites
      BY DEF Init, NewIds, KnownWrites, Idle
<1> QED BY <1>1, <1>2, <1>3 DEF IInv

\* Every step of a started request keeps the invariant.
LEMMA StepInv ==
    ASSUME IInv, NEW r \in Requests, Step(r)
    PROVE  IInv'
<1>1. ASSUME NEW i \in Ids, CheckReference(r, i) PROVE IInv'
      BY <1>1, CheckReferenceStep
<1>2. ASSUME ReferenceMissing(r) PROVE IInv'
      BY <1>2, EndStep DEF ReferenceMissing, IInv, TypeOK
<1>3. ASSUME Insert(r) PROVE IInv'
      BY <1>3, InsertStep
<1>4. ASSUME Update(r) PROVE IInv'
      BY <1>4, UpdateStepInv
<1>5. ASSUME NEW n \in 1 .. Len(ScanOrder), Refuse(r, n) PROVE IInv'
      BY <1>5, EndStep DEF Refuse, IInv, TypeOK
<1>6. ASSUME NEW n \in 1 .. Len(ScanOrder), FindReferencing(r, n) PROVE IInv'
      BY <1>6, FindReferencingStep
<1>7. ASSUME NEW j \in Ids, Cascade(r, j) PROVE IInv'
      BY <1>7, CascadeStep
<1>8. ASSUME CascadeMissing(r) PROVE IInv'
      BY <1>8, EndStep DEF CascadeMissing, IInv, TypeOK
<1>9. ASSUME NEW j \in Ids, SetNull(r, j) PROVE IInv'
      BY <1>9, SetNullStep
<1>10. ASSUME Remove(r) PROVE IInv'
      BY <1>10, RemoveStep
<1>11. ASSUME RemoveMissing(r) PROVE IInv'
      BY <1>11, EndStep DEF RemoveMissing, IInv, TypeOK
<1>12. ASSUME Overflow(r) PROVE IInv'
      BY <1>12, OverflowStep
<1> QED BY <1>1, <1>2, <1>3, <1>4, <1>5, <1>6, <1>7, <1>8, <1>9, <1>10, <1>11, <1>12 DEF Step

LEMMA InvStep == IInv /\ [Next]_vars => IInv'
<1> SUFFICES ASSUME IInv, [Next]_vars PROVE IInv'
    OBVIOUS
<1>1. ASSUME NEW r \in Requests, CreateStep(r) PROVE IInv'
  <2>1. PICK i \in Ids : \E row \in Bodies[HomeOf[i]] : CreateRecord(r, i, row)
        BY <1>1 DEF CreateStep
  <2>2. PICK row \in Bodies[HomeOf[i]] : CreateRecord(r, i, row)
        BY <2>1
  <2>3. row \in Row
        BY SchemaAssumption DEF Bodies
  <2> QED BY <2>2, <2>3, CreateRecordStep
<1>2. ASSUME NEW r \in Requests, UpdateStep(r) PROVE IInv'
      BY <1>2, UpdateRecordStep DEF UpdateStep
<1>3. ASSUME NEW r \in Requests, NEW i \in Ids, DeleteRecord(r, i) PROVE IInv'
      BY <1>3, DeleteRecordStep
<1>4. ASSUME NEW r \in Requests, Step(r) PROVE IInv'
      BY <1>4, StepInv
<1>5. ASSUME NEW r \in Requests, Fail(r) PROVE IInv'
      BY <1>5, EndStep DEF Fail, IInv, TypeOK
<1>6. ASSUME UNCHANGED vars PROVE IInv'
  <2>1. TypeOK' /\ EveryReferenceWasARecord' /\ RowsWereBorn'
        BY <1>6 DEF vars, IInv, TypeOK, EveryReferenceWasARecord, RowsWereBorn
  <2>2. NewIds'
        BY <1>6 DEF vars, IInv, NewIds
  <2>3. KnownWrites'
        BY <1>6 DEF vars, IInv, KnownWrites, Known
  <2> QED BY <2>1, <2>2, <2>3 DEF IInv
<1> QED BY <1>1, <1>2, <1>3, <1>4, <1>5, <1>6 DEF Next

\* The invariant holds in every reachable state (record_service.rs, all of
\* create_record, update_record and delete_record).
THEOREM Invariance == Spec => []IInv
BY InitInv, InvStep, PTL DEF Spec

\* The tables stay tables of well-formed rows, and every request in flight is
\* in a state its handler has.
THEOREM TypeCorrect == Spec => []TypeOK
<1>1. IInv => TypeOK
      BY DEF IInv
<1> QED BY <1>1, Invariance, PTL

\* Whatever the schema and however requests interleave: a relation field only
\* ever holds ids of records that existed (validate_relation_references).
THEOREM ReferencesWereRecords == Spec => []EveryReferenceWasARecord
<1>1. IInv => EveryReferenceWasARecord
      BY DEF IInv
<1> QED BY <1>1, Invariance, PTL

----------------------------------------------------------------------------
(* The refinement of RecordLifecycle                                       *)

Live == DOMAIN rows
Gone == ever \ DOMAIN rows

\* A step of a started request makes a record appear, makes one disappear, or
\* leaves the set of records as it is.
LEMMA StepRefines ==
    ASSUME IInv, NEW r \in Requests, Step(r)
    PROVE  \/ \E i \in Ids : Lifecycle!Appear(i) \/ Lifecycle!Disappear(i)
           \/ UNCHANGED <<Live, Gone>>
<1> USE DEF Live, Gone
<1>1. TypeOK /\ rows \in Tables /\ RowsWereBorn
      BY DEF IInv, TypeOK
<1>2. CASE Insert(r)
  <2> DEFINE i == req[r].id
  <2>1. /\ i \in Ids /\ i \notin ever
        /\ DOMAIN rows' = DOMAIN rows \cup {i} /\ ever' = ever \cup {i}
        BY <1>1, <1>2, RequestFields, InsertedTyped DEF Insert, IInv, NewIds
  <2> HIDE DEF i
  <2>2. Lifecycle!Appear(i)
        BY <1>1, <2>1 DEF Lifecycle!Appear, RowsWereBorn
  <2> QED BY <2>1, <2>2
<1>3. CASE Remove(r)
  <2> DEFINE i == Top(r).id
  <2>1. i \in Ids
        BY <1>1, <1>3, StackFields DEF Remove, Removing, Scanning
  <2>2. i \in DOMAIN rows /\ DOMAIN rows' = DOMAIN rows \ {i} /\ ever' = ever
        BY <1>1, <1>3, DeletedTyped DEF Remove
  <2> HIDE DEF i
  <2>3. Lifecycle!Disappear(i)
        BY <1>1, <2>2 DEF Lifecycle!Disappear, RowsWereBorn
  <2> QED BY <2>1, <2>3
<1>4. CASE Update(r)
  <2>1. Merged(req[r].read, req[r].patch) \in Row
        BY <1>1, <1>4, RequestFields, MergedTyped DEF Update
  <2> QED BY <1>1, <1>4, <2>1, UpdatedTyped DEF Update
<1>5. ASSUME NEW j \in Ids, SetNull(r, j) PROVE UNCHANGED <<Live, Gone>>
  <2>1. /\ req[r].at = "delete"
        /\ j \in DOMAIN Top(r).todo
        /\ rows' = Updated(j, Nulled(Top(r).todo[j], Field(r), Top(r).id))
        /\ ever' = ever
        BY <1>5 DEF SetNull
  <2>2. Top(r).todo[j] \in Row
        BY <1>1, <2>1, StackFields, TableTyped
  <2>3. Nulled(Top(r).todo[j], Field(r), Top(r).id) \in Row
        BY <2>2, NulledTyped
  <2> QED BY <1>1, <2>1, <2>3, UpdatedTyped
<1>6. ASSUME ~Insert(r), ~Remove(r), ~Update(r), ~\E j \in Ids : SetNull(r, j)
      PROVE  UNCHANGED <<Live, Gone>>
      BY <1>6 DEF Step, CheckReference, ReferenceMissing, Refuse, FindReferencing, Cascade,
                  CascadeMissing, RemoveMissing, Overflow
<1> QED BY <1>2, <1>3, <1>4, <1>5, <1>6

\* RecordService implements RecordLifecycle: no interleaving of creates, stale
\* updates, stale SetNull writes and cascades brings a deleted record back.
THEOREM Refinement == Spec => RecordsStayDeleted
<1>1. Init => Lifecycle!Init
      BY EmptyTyped DEF Init, Lifecycle!Init
<1>2. IInv /\ [Next]_vars => [Lifecycle!Next]_(Lifecycle!vars)
  <2> SUFFICES ASSUME IInv, [Next]_vars
               PROVE  \/ \E i \in Ids : Lifecycle!Appear(i) \/ Lifecycle!Disappear(i)
                      \/ UNCHANGED <<Live, Gone>>
      BY DEF Lifecycle!Next, Lifecycle!vars, Live, Gone
  <2>1. ASSUME NEW r \in Requests, Step(r)
        PROVE  \/ \E i \in Ids : Lifecycle!Appear(i) \/ Lifecycle!Disappear(i)
               \/ UNCHANGED <<Live, Gone>>
        BY <2>1, StepRefines
  <2>2. ASSUME NEW r \in Requests,
               CreateStep(r) \/ UpdateStep(r) \/ (\E i \in Ids : DeleteRecord(r, i)) \/ Fail(r)
        PROVE  UNCHANGED <<rows, ever>>
        BY <2>2 DEF CreateStep, UpdateStep, CreateRecord, UpdateRecord, DeleteRecord, Fail
  <2>3. UNCHANGED <<rows, ever>> => UNCHANGED <<Live, Gone>>
        BY DEF Live, Gone
  <2> QED BY <2>1, <2>2, <2>3 DEF Next, vars
<1>3. Lifecycle!Spec <=> Lifecycle!Init /\ [][Lifecycle!Next]_(Lifecycle!vars)
      BY DEF Lifecycle!Spec
<1> QED BY <1>1, <1>2, <1>3, Invariance, PTL DEF Spec, RecordsStayDeleted

----------------------------------------------------------------------------
(* One request at a time, for any schema.  The invariant: a row a request  *)
(* is about to write refers to rows that are there; and of a delete, every *)
(* frame has dealt with the references to its record through the fields it *)
(* has scanned, but for the rows it still has in hand.                     *)

OneRequest == \A r, s \in Requests : r = s

\* The relations of a row are those of its collection and lead to their targets.
Placed(c, row) ==
    \A f \in Relations :
        /\ Relation[f].owner # c => row.rel[f] = {}
        /\ \A i \in row.rel[f] : HomeOf[i] = Relation[f].target

RowsPlaced == \A i \in DOMAIN rows : Placed(HomeOf[i], rows[i])

\* Row j is on the list of frame n, or being deleted by the frame above it.
InHand(stack, n, j) ==
    \/ j \in DOMAIN stack[n].todo
    \/ n > 1 /\ j = stack[n - 1].id

Cleared(stack) ==
    \A n \in 1 .. Len(stack), m \in 1 .. Len(ScanOrder), j \in DOMAIN rows :
        /\ m <= stack[n].scan
        /\ HasAction(stack[n].id, m)
        /\ stack[n].id \in rows[j].rel[ScanOrder[m]]
        => m = stack[n].scan /\ InHand(stack, n, j)

\* What a frame has read of the rows on its list is still true where it matters.
ListsAreTrue(stack) ==
    \A n \in 1 .. Len(stack) : \A j \in DOMAIN stack[n].todo :
        LET f == ScanOrder[stack[n].scan]
        IN  /\ stack[n].scan > 0
            /\ Relation[f].on_delete = "Cascade" /\ j \in DOMAIN rows
                  => stack[n].id \in rows[j].rel[f]
            /\ Relation[f].on_delete = "SetNull"
                  => j \in DOMAIN rows /\ rows[j] = stack[n].todo[j]

\* CascadesAlongReferences, of one stack.
Chained(stack) ==
    \A n \in 1 .. Len(stack) - 1 :
        LET f == ScanOrder[stack[n + 1].scan]
        IN  /\ stack[n + 1].scan > 0
            /\ Relation[f].on_delete = "Cascade"
            /\ stack[n].id \in DOMAIN rows
            /\ stack[n + 1].id \in rows[stack[n].id].rel[f]

\* Row i, about to be written.
ToWrite(i, row, todo) ==
    /\ Placed(HomeOf[i], row)
    /\ References(row) \subseteq DOMAIN rows \cup todo

StateHolds(q) ==
    /\ q.at = "create" => ToWrite(q.id, q.row, q.todo)
    /\ q.at = "update" => /\ q.id \in DOMAIN rows /\ q.read = rows[q.id]
                          /\ ToWrite(q.id, Merged(q.read, q.patch), q.todo)
    /\ q.at = "delete" => Cleared(q.stack) /\ ListsAreTrue(q.stack) /\ Chained(q.stack)

AloneInv == RowsPlaced /\ NoDanglingReference /\ \A r \in Requests : StateHolds(req[r])

\* Any numbers have a least one.
LEMMA LeastNumber ==
    ASSUME NEW T \in SUBSET Nat, T # {}
    PROVE  \E x \in T : \A y \in T : x <= y
<1>1. PICK x \in T : \A y \in T : ~(<<y, x>> \in OpToRel(<, Nat))
      BY NatLessThanWellFounded, WFMin, Zenon
<1>2. \A y \in T : <<y, x>> \in OpToRel(<, Nat) <=> y < x
      BY DEF OpToRel
<1>3. \A y \in T : ~(y < x)
      BY <1>1, <1>2, Zenon
<1> QED BY <1>3

\* The request moves to state q.
LEMMA AloneMoves ==
    ASSUME OneRequest, TypeOK, NEW r \in Requests, NEW q, req'[r] = q,
           RowsPlaced', NoDanglingReference', StateHolds(q)'
    PROVE  AloneInv'
<1>1. \A s \in Requests : req'[s] = q
      BY DEF OneRequest
<1> QED BY <1>1 DEF AloneInv

\* ... without changing a row.
LEMMA AloneReads ==
    ASSUME OneRequest, TypeOK, AloneInv, NEW r \in Requests, NEW q, Goto(r, q),
           UNCHANGED rows, StateHolds(q)
    PROVE  AloneInv'
<1>1. req'[r] = q
      BY DEF Goto, TypeOK
<1>2. RowsPlaced' /\ NoDanglingReference'
      BY DEF AloneInv, RowsPlaced, NoDanglingReference
<1>3. StateHolds(q)'
      BY DEF StateHolds, ToWrite, Cleared, ListsAreTrue, Chained
<1> QED BY <1>1, <1>2, <1>3, AloneMoves

LEMMA IdleHolds == StateHolds(Idle) /\ StateHolds(Idle)'
BY DEF StateHolds, Idle

\* ... and is over.
LEMMA AloneEnds ==
    ASSUME OneRequest, TypeOK, AloneInv, NEW r \in Requests, Goto(r, Idle), UNCHANGED rows
    PROVE  AloneInv'
BY IdleHolds, AloneReads

LEMMA AloneCreates ==
    ASSUME OneRequest, TypeOK, AloneInv, NEW r \in Requests, NEW i \in Ids,
           NEW row \in Bodies[HomeOf[i]], CreateRecord(r, i, row)
    PROVE  AloneInv'
<1> DEFINE q == [at |-> "create", id |-> i, row |-> row, todo |-> References(row)]
<1>1. WellFormed(HomeOf[i], row)
      BY SchemaAssumption DEF Bodies
<1>2. StateHolds(q)
      BY <1>1 DEF StateHolds, ToWrite, Placed, WellFormed
<1> HIDE DEF q
<1> QED BY <1>2, AloneReads DEF CreateRecord, q

LEMMA AloneUpdates ==
    ASSUME OneRequest, TypeOK, AloneInv, NEW r \in Requests, NEW i \in Ids,
           NEW patch \in Patch, UpdateRecord(r, i, patch)
    PROVE  AloneInv'
<1> DEFINE merged == Merged(rows[i], patch)
           q == [at |-> "update", id |-> i, read |-> rows[i], patch |-> patch,
                 todo |-> References(merged)]
<1>1. i \in DOMAIN rows /\ WellFormed(HomeOf[i], merged) /\ Goto(r, q) /\ UNCHANGED rows
      BY DEF UpdateRecord
<1>2. StateHolds(q)
      BY <1>1 DEF StateHolds, ToWrite, Placed, WellFormed
<1> HIDE DEF q
<1> QED BY <1>1, <1>2, AloneReads

LEMMA AloneChecks ==
    ASSUME OneRequest, TypeOK, AloneInv, NEW r \in Requests, NEW i, CheckReference(r, i)
    PROVE  AloneInv'
<1> DEFINE q == [req[r] EXCEPT !.todo = @ \ {i}]
<1>1. i \in DOMAIN rows /\ Goto(r, q) /\ UNCHANGED rows
      BY DEF CheckReference
<1>2. StateHolds(req[r])
      BY DEF AloneInv
<1>3. CASE req[r].at = "create"
  <2>1. /\ q.at = "create" /\ q.id = req[r].id /\ q.row = req[r].row
        /\ q.todo = req[r].todo \ {i}
        BY <1>3, RequestFields
  <2> HIDE DEF q
  <2>2. StateHolds(q)
        BY <1>1, <1>2, <1>3, <2>1 DEF StateHolds, ToWrite
  <2> QED BY <1>1, <2>2, AloneReads
<1>4. CASE req[r].at = "update"
  <2>1. /\ q.at = "update" /\ q.id = req[r].id /\ q.read = req[r].read
        /\ q.patch = req[r].patch /\ q.todo = req[r].todo \ {i}
        BY <1>4, RequestFields
  <2> HIDE DEF q
  <2>2. StateHolds(q)
        BY <1>1, <1>2, <1>4, <2>1 DEF StateHolds, ToWrite
  <2> QED BY <1>1, <2>2, AloneReads
<1> QED BY <1>3, <1>4 DEF CheckReference

\* Insert and Update: the row refers to rows that are there.
LEMMA AloneWrites ==
    ASSUME OneRequest, TypeOK, AloneInv, NEW r \in Requests, Insert(r) \/ Update(r)
    PROVE  AloneInv'
<1>1. PICK i, row : /\ Placed(HomeOf[i], row)
                    /\ References(row) \subseteq DOMAIN rows
                    /\ DOMAIN rows' = DOMAIN rows \cup {i}
                    /\ rows'[i] = row
                    /\ \A j \in DOMAIN rows \ {i} : rows'[j] = rows[j]
  <2>1. StateHolds(req[r])
        BY DEF AloneInv
  <2>2. CASE Insert(r)
    <3>1. rows' = Inserted(req[r].id, req[r].row)
          BY <2>2 DEF Insert
    <3>2. ToWrite(req[r].id, req[r].row, {})
          BY <2>1, <2>2 DEF Insert, StateHolds
    <3> QED BY <3>1, <3>2 DEF Inserted, ToWrite
  <2>3. CASE Update(r)
    <3> DEFINE new == Merged(req[r].read, req[r].patch)
    <3>1. rows' = Updated(req[r].id, new)
          BY <2>3 DEF Update
    <3>2. req[r].id \in DOMAIN rows /\ ToWrite(req[r].id, new, {})
          BY <2>1, <2>3 DEF Update, StateHolds
    <3> HIDE DEF new
    <3> QED BY <3>1, <3>2 DEF Updated, ToWrite
  <2> QED BY <2>2, <2>3
<1>2. RowsPlaced'
      BY <1>1 DEF AloneInv, RowsPlaced
<1>3. NoDanglingReference'
  <2>1. \A f \in Relations : row.rel[f] \subseteq DOMAIN rows
        BY <1>1 DEF References
  <2> QED BY <1>1, <2>1 DEF AloneInv, NoDanglingReference
<1>4. req'[r] = Idle
      BY DEF Insert, Update, Goto, TypeOK
<1> QED BY <1>2, <1>3, <1>4, IdleHolds, AloneMoves

\* The stacks a delete goes on with, frame by frame.
LEMMA StackOf ==
    ASSUME TypeOK, NEW r \in Requests, req[r].at = "delete"
    PROVE  LET old == req[r].stack
               rest == Tail(old)
           IN  /\ Len(old) \in Nat \ {0} /\ old[1] = Top(r)
               /\ Len(rest) = Len(old) - 1
               /\ \A n \in 1 .. Len(rest) : rest[n] = old[n + 1]
               /\ \A frame \in Frame :
                     LET new == <<frame>> \o rest
                     IN  /\ Len(new) = Len(old) /\ new[1] = frame
                         /\ \A n \in 2 .. Len(new) : new[n] = old[n]
               /\ \A one, two \in Frame :
                     LET new == <<one, two>> \o rest
                     IN  /\ Len(new) = Len(old) + 1 /\ new[1] = one /\ new[2] = two
                         /\ \A n \in 3 .. Len(new) : new[n] = old[n - 1]
<1> DEFINE old == req[r].stack
           rest == Tail(old)
<1>1. /\ Len(old) \in Nat \ {0} /\ Top(r) = old[1] /\ rest \in Seq(Frame)
      /\ Len(rest) = Len(old) - 1
      /\ \A n \in 1 .. Len(rest) : rest[n] = old[n + 1]
      BY StackFields
<1> HIDE DEF old, rest
<1>2. ASSUME NEW frame \in Frame
      PROVE  LET new == <<frame>> \o rest
             IN  /\ Len(new) = Len(old) /\ new[1] = frame
                 /\ \A n \in 2 .. Len(new) : new[n] = old[n]
      BY <1>1
<1>3. ASSUME NEW one \in Frame, NEW two \in Frame
      PROVE  LET new == <<one, two>> \o rest
             IN  /\ Len(new) = Len(old) + 1 /\ new[1] = one /\ new[2] = two
                 /\ \A n \in 3 .. Len(new) : new[n] = old[n - 1]
      BY <1>1
<1> QED BY <1>1, <1>2, <1>3 DEF old, rest

\* A delete goes on with another stack.
LEMMA OtherStack ==
    ASSUME TypeOK, NEW r \in Requests, req[r].at = "delete", NEW s
    PROVE  LET q == [req[r] EXCEPT !.stack = s] IN q.at = "delete" /\ q.stack = s
BY RequestFields

LEMMA AloneDeletes ==
    ASSUME OneRequest, TypeOK, AloneInv, NEW r \in Requests, NEW i \in Ids, DeleteRecord(r, i)
    PROVE  AloneInv'
<1> DEFINE s == <<NewFrame(i)>>
           q == [at |-> "delete", stack |-> s]
<1>1. Len(s) = 1 /\ s[1].scan = 0 /\ DOMAIN s[1].todo = {}
      BY DEF NewFrame
<1>2. q.at = "delete" /\ q.stack = s /\ Goto(r, q) /\ UNCHANGED rows
      BY DEF DeleteRecord
<1> HIDE DEF s, q
<1>3. Cleared(s) /\ ListsAreTrue(s) /\ Chained(s)
      BY <1>1 DEF Cleared, ListsAreTrue, Chained
<1>4. StateHolds(q)
      BY <1>2, <1>3 DEF StateHolds
<1> QED BY <1>2, <1>4, AloneReads

\* A field whose rows refer to a record of its target.
LEMMA PlacedReference ==
    ASSUME AloneInv, NEW j \in DOMAIN rows, NEW f \in Relations, NEW i \in rows[j].rel[f]
    PROVE  HomeOf[j] = Relation[f].owner /\ HomeOf[i] = Relation[f].target
BY DEF AloneInv, RowsPlaced, Placed

LEMMA AloneFinds ==
    ASSUME OneRequest, TypeOK, AloneInv, NEW r \in Requests, NEW n \in 1 .. Len(ScanOrder),
           FindReferencing(r, n)
    PROVE  AloneInv'
<1> DEFINE old == req[r].stack
           f == ScanOrder[n]
           x == Top(r).id
           found == Referencing(f, x)
           frame == [id |-> x, scan |-> n, todo |-> [j \in found |-> rows[j]]]
           s == <<frame>> \o Tail(old)
           q == [req[r] EXCEPT !.stack = s]
<1>1. /\ req[r].at = "delete" /\ DOMAIN Top(r).todo = {} /\ NextField(r, n)
      /\ Goto(r, q) /\ UNCHANGED rows
      BY DEF FindReferencing, Scanning, WithTop
<1>2. q.at = "delete" /\ q.stack = s
      BY <1>1, OtherStack
<1>3. frame \in Frame
  <2>1. rows \in Tables /\ found \in SUBSET DOMAIN rows
        BY DEF TypeOK, Referencing
  <2>2. [j \in found |-> rows[j]] \in Tables
        BY <2>1, PartTyped
  <2>3. n \in 0 .. Len(ScanOrder) /\ x \in Ids
        BY <1>1, StackFields, SchemaAssumption
  <2> QED BY <2>2, <2>3 DEF Frame
<1>4. /\ Len(old) \in Nat \ {0} /\ old[1] = Top(r)
      /\ Len(s) = Len(old) /\ s[1] = frame
      /\ \A k \in 2 .. Len(s) : s[k] = old[k]
      BY <1>1, <1>3, StackOf
<1>5. frame.id = x /\ frame.scan = n /\ DOMAIN frame.todo = found
      /\ \A j \in found : frame.todo[j] = rows[j]
      OBVIOUS
<1>6. \A k \in 1 .. Len(s) : s[k].id = old[k].id
      BY <1>4, <1>5
<1>7. f \in Relations /\ Len(ScanOrder) \in Nat
      BY SchemaAssumption
<1>8. Cleared(old) /\ ListsAreTrue(old) /\ Chained(old)
      BY <1>1 DEF AloneInv, StateHolds
<1>9. \A j \in found : j \in DOMAIN rows /\ x \in rows[j].rel[f]
      BY DEF Referencing
<1>10. \A j \in DOMAIN rows : x \in rows[j].rel[f] => j \in found
      BY <1>7, PlacedReference DEF Referencing
<1> HIDE DEF old, found, frame, s, q, f, x
<1>11. Cleared(s)
  <2>1. ASSUME NEW k \in 1 .. Len(s), NEW m \in 1 .. Len(ScanOrder), NEW j \in DOMAIN rows,
               m <= s[k].scan, HasAction(s[k].id, m), s[k].id \in rows[j].rel[ScanOrder[m]]
        PROVE  m = s[k].scan /\ InHand(s, k, j)
    <3>1. CASE k = 1
      <4>1. m <= n /\ HasAction(x, m) /\ x \in rows[j].rel[ScanOrder[m]]
            BY <1>4, <1>5, <2>1, <3>1
      <4>2. ~(m <= Top(r).scan)
        <5>1. SUFFICES ASSUME m <= Top(r).scan PROVE FALSE
              OBVIOUS
        <5>2. 1 \in 1 .. Len(old) /\ m <= old[1].scan /\ HasAction(old[1].id, m)
              /\ old[1].id \in rows[j].rel[ScanOrder[m]]
              BY <1>4, <4>1, <5>1 DEF x
        <5>3. InHand(old, 1, j)
              BY <1>8, <5>2 DEF Cleared
        <5> QED BY <1>1, <1>4, <5>3 DEF InHand
      <4>3. m = n
        <5>1. Top(r).scan \in Nat
              BY <1>1, StackFields DEF Frame
        <5>2. ~(Top(r).scan < m /\ m < n)
              BY <1>1, <4>1 DEF NextField, x
        <5> QED BY <1>7, <4>1, <4>2, <5>1, <5>2
      <4>4. j \in found
            BY <1>10, <4>1, <4>3 DEF f
      <4> QED BY <1>4, <1>5, <3>1, <4>3, <4>4 DEF InHand
    <3>2. CASE k # 1
      <4>1. k \in 2 .. Len(s) /\ k \in 1 .. Len(old) /\ k - 1 \in 1 .. Len(s) /\ k > 1
            BY <1>4, <2>1, <3>2
      <4>2. s[k] = old[k] /\ s[k - 1].id = old[k - 1].id
            BY <1>4, <1>6, <4>1
      <4>3. m = old[k].scan /\ InHand(old, k, j)
            BY <1>8, <2>1, <4>1, <4>2 DEF Cleared
      <4> QED BY <4>1, <4>2, <4>3 DEF InHand
    <3> QED BY <3>1, <3>2
  <2> QED BY <2>1 DEF Cleared
<1>12. ListsAreTrue(s)
  <2>1. ASSUME NEW k \in 1 .. Len(s), NEW j \in DOMAIN s[k].todo
        PROVE  LET g == ScanOrder[s[k].scan]
               IN  /\ s[k].scan > 0
                   /\ Relation[g].on_delete = "Cascade" /\ j \in DOMAIN rows
                         => s[k].id \in rows[j].rel[g]
                   /\ Relation[g].on_delete = "SetNull"
                         => j \in DOMAIN rows /\ rows[j] = s[k].todo[j]
    <3>1. CASE k = 1
          BY <1>4, <1>5, <1>9, <2>1, <3>1 DEF f
    <3>2. CASE k # 1
      <4>1. s[k] = old[k] /\ k \in 1 .. Len(old)
            BY <1>4, <2>1, <3>2
      <4> QED BY <1>8, <2>1, <4>1 DEF ListsAreTrue
    <3> QED BY <3>1, <3>2
  <2> QED BY <2>1 DEF ListsAreTrue
<1>13. Chained(s)
  <2>1. ASSUME NEW k \in 1 .. Len(s) - 1
        PROVE  k \in 1 .. Len(old) - 1 /\ s[k + 1] = old[k + 1] /\ s[k].id = old[k].id
        BY <1>4, <1>6
  <2> QED BY <1>8, <2>1 DEF Chained
<1>14. StateHolds(q)
      BY <1>2, <1>11, <1>12, <1>13 DEF StateHolds
<1> QED BY <1>1, <1>14, AloneReads

\* A frame without row j on its list.
LEMMA ProcessedFrame ==
    ASSUME TypeOK, NEW r \in Requests, req[r].at = "delete", NEW j
    PROVE  LET frame == Processed(r, j)
           IN  /\ frame \in Frame /\ frame.id = Top(r).id /\ frame.scan = Top(r).scan
               /\ DOMAIN frame.todo = DOMAIN Top(r).todo \ {j}
               /\ \A k \in DOMAIN frame.todo : frame.todo[k] = Top(r).todo[k]
<1> DEFINE D == DOMAIN Top(r).todo \ {j}
           rest == [k \in D |-> Top(r).todo[k]]
<1>1. Top(r) \in Frame /\ Top(r).todo \in Tables
      BY StackFields
<1>2. rest \in Tables
      BY <1>1, PartTyped
<1>3. DOMAIN rest = D /\ \A k \in D : rest[k] = Top(r).todo[k]
      OBVIOUS
<1>4. Processed(r, j) = [Top(r) EXCEPT !.todo = rest]
      BY DEF Processed
<1> HIDE DEF rest
<1>5. /\ [Top(r) EXCEPT !.todo = rest] \in Frame
      /\ [Top(r) EXCEPT !.todo = rest].id = Top(r).id
      /\ [Top(r) EXCEPT !.todo = rest].scan = Top(r).scan
      /\ [Top(r) EXCEPT !.todo = rest].todo = rest
      BY <1>1, <1>2 DEF Frame
<1> QED BY <1>3, <1>4, <1>5

\* Cascade: the record the new frame is to delete is in hand of the one below.
LEMMA AloneCascades ==
    ASSUME OneRequest, TypeOK, AloneInv, NEW r \in Requests, NEW j \in Ids, Cascade(r, j)
    PROVE  AloneInv'
<1> DEFINE old == req[r].stack
           new == NewFrame(j)
           rest == Processed(r, j)
           s == <<new, rest>> \o Tail(old)
           q == [req[r] EXCEPT !.stack = s]
<1>1. /\ req[r].at = "delete" /\ j \in DOMAIN Top(r).todo /\ j \in DOMAIN rows
      /\ Relation[Field(r)].on_delete = "Cascade"
      /\ Goto(r, q) /\ UNCHANGED rows
      BY DEF Cascade
<1>2. q.at = "delete" /\ q.stack = s
      BY <1>1, OtherStack
<1>3. new \in Frame /\ new.id = j /\ new.scan = 0 /\ DOMAIN new.todo = {}
  <2>1. 0 \in 0 .. Len(ScanOrder)
        BY SchemaAssumption
  <2> QED BY <2>1, EmptyTyped DEF NewFrame, Frame
<1>4. /\ rest \in Frame /\ rest.id = Top(r).id /\ rest.scan = Top(r).scan
      /\ DOMAIN rest.todo = DOMAIN Top(r).todo \ {j}
      /\ \A k \in DOMAIN rest.todo : rest.todo[k] = Top(r).todo[k]
      BY <1>1, ProcessedFrame
<1>5. /\ Len(old) \in Nat \ {0} /\ old[1] = Top(r)
      /\ Len(s) = Len(old) + 1 /\ s[1] = new /\ s[2] = rest
      /\ \A k \in 3 .. Len(s) : s[k] = old[k - 1]
      BY <1>1, <1>3, <1>4, StackOf
<1>6. Cleared(old) /\ ListsAreTrue(old) /\ Chained(old)
      BY <1>1 DEF AloneInv, StateHolds
<1> HIDE DEF old, new, rest, s, q
<1>7. \A k \in 2 .. Len(s) : /\ k - 1 \in 1 .. Len(old)
                            /\ s[k].id = old[k - 1].id /\ s[k].scan = old[k - 1].scan
  <2>1. ASSUME NEW k \in 2 .. Len(s)
        PROVE  /\ k - 1 \in 1 .. Len(old)
               /\ s[k].id = old[k - 1].id /\ s[k].scan = old[k - 1].scan
    <3>1. CASE k = 2
          BY <1>4, <1>5, <3>1
    <3>2. CASE k # 2
          BY <1>5, <2>1, <3>2
    <3> QED BY <3>1, <3>2
  <2> QED BY <2>1
<1>8. Cleared(s)
  <2>1. ASSUME NEW k \in 1 .. Len(s), NEW m \in 1 .. Len(ScanOrder), NEW i \in DOMAIN rows,
               m <= s[k].scan, HasAction(s[k].id, m), s[k].id \in rows[i].rel[ScanOrder[m]]
        PROVE  m = s[k].scan /\ InHand(s, k, i)
    <3>1. k # 1
          BY <1>3, <1>5, <2>1
    <3>2. k \in 2 .. Len(s) /\ k > 1
          BY <1>5, <2>1, <3>1
    <3>3. m = s[k].scan /\ InHand(old, k - 1, i)
          BY <1>6, <1>7, <2>1, <3>2 DEF Cleared
    <3>4. CASE k = 2
          BY <1>3, <1>4, <1>5, <3>3, <3>4 DEF InHand
    <3>5. CASE k # 2
      <4>1. k \in 3 .. Len(s) /\ k - 1 \in 2 .. Len(s)
            BY <1>5, <3>2, <3>5
      <4>2. s[k] = old[k - 1] /\ s[k - 1].id = old[(k - 1) - 1].id
            BY <1>5, <1>7, <4>1
      <4> QED BY <3>2, <3>3, <4>2 DEF InHand
    <3> QED BY <3>3, <3>4, <3>5
  <2> QED BY <2>1 DEF Cleared
<1>9. ListsAreTrue(s)
  <2>1. ASSUME NEW k \in 1 .. Len(s), NEW i \in DOMAIN s[k].todo
        PROVE  LET g == ScanOrder[s[k].scan]
               IN  /\ s[k].scan > 0
                   /\ Relation[g].on_delete = "Cascade" /\ i \in DOMAIN rows
                         => s[k].id \in rows[i].rel[g]
                   /\ Relation[g].on_delete = "SetNull"
                         => i \in DOMAIN rows /\ rows[i] = s[k].todo[i]
    <3>1. k # 1
          BY <1>3, <1>5, <2>1
    <3>2. k \in 2 .. Len(s)
          BY <1>5, <2>1, <3>1
    <3>3. i \in DOMAIN old[k - 1].todo /\ s[k].todo[i] = old[k - 1].todo[i]
      <4>1. CASE k = 2
            BY <1>4, <1>5, <2>1, <4>1
      <4>2. CASE k # 2
            BY <1>5, <2>1, <3>2, <4>2
      <4> QED BY <4>1, <4>2
    <3>4. k - 1 \in 1 .. Len(old) /\ s[k].id = old[k - 1].id /\ s[k].scan = old[k - 1].scan
          BY <1>7, <3>2
    <3> QED BY <1>6, <3>3, <3>4 DEF ListsAreTrue
  <2> QED BY <2>1 DEF ListsAreTrue
<1>10. Chained(s)
  <2>1. ASSUME NEW k \in 1 .. Len(s) - 1
        PROVE  LET f == ScanOrder[s[k + 1].scan]
               IN  /\ s[k + 1].scan > 0
                   /\ Relation[f].on_delete = "Cascade"
                   /\ s[k].id \in DOMAIN rows
                   /\ s[k + 1].id \in rows[s[k].id].rel[f]
    <3>1. CASE k = 1
      <4>1. 1 \in 1 .. Len(old) /\ j \in DOMAIN old[1].todo /\ old[1].scan = Top(r).scan
            BY <1>1, <1>5
      <4>2. Top(r).scan > 0 /\ Top(r).id \in rows[j].rel[Field(r)]
            BY <1>1, <1>5, <1>6, <4>1 DEF ListsAreTrue, Field
      <4>3. s[k].id = j /\ s[k + 1].id = Top(r).id /\ s[k + 1].scan = Top(r).scan
            BY <1>3, <1>4, <1>5, <3>1
      <4> QED BY <1>1, <4>2, <4>3 DEF Field
    <3>2. CASE k # 1
      <4>1. /\ k \in 2 .. Len(s) /\ k + 1 \in 2 .. Len(s)
            /\ k - 1 \in 1 .. Len(old) - 1 /\ (k - 1) + 1 = (k + 1) - 1
            BY <1>5, <2>1, <3>2
      <4>2. /\ s[k].id = old[k - 1].id
            /\ s[k + 1].id = old[(k - 1) + 1].id /\ s[k + 1].scan = old[(k - 1) + 1].scan
            BY <1>7, <4>1
      <4> QED BY <1>6, <4>1, <4>2 DEF Chained
    <3> QED BY <3>1, <3>2
  <2> QED BY <2>1 DEF Chained
<1>11. StateHolds(q)
      BY <1>2, <1>8, <1>9, <1>10 DEF StateHolds
<1> QED BY <1>1, <1>11, AloneReads

\* SetNull: of the one row written, a reference to the record is gone, through
\* the field being scanned.
LEMMA AloneUnlinks ==
    ASSUME TypeOK, AloneInv, NEW r \in Requests, NEW j \in Ids, SetNull(r, j)
    PROVE  LET f == Field(r)
               x == Top(r).id
           IN  /\ f \in Relations /\ Relation[f].on_delete = "SetNull"
               /\ j \in DOMAIN rows /\ DOMAIN rows' = DOMAIN rows
               /\ \A i \in DOMAIN rows \ {j} : rows'[i] = rows[i]
               /\ rows'[j].cell = rows[j].cell
               /\ rows'[j].rel[f] = rows[j].rel[f] \ {x}
               /\ \A g \in Relations \ {f} : rows'[j].rel[g] = rows[j].rel[g]
<1> DEFINE f == Field(r)
           x == Top(r).id
<1>1. /\ req[r].at = "delete" /\ j \in DOMAIN Top(r).todo
      /\ Relation[f].on_delete = "SetNull"
      /\ rows' = Updated(j, Nulled(Top(r).todo[j], f, x))
      BY DEF SetNull
<1>2. 1 \in 1 .. Len(req[r].stack) /\ Top(r) = req[r].stack[1] /\ Top(r) \in Frame
      BY <1>1, StackFields
<1>3. ListsAreTrue(req[r].stack)
      BY <1>1 DEF AloneInv, StateHolds
<1>4. Top(r).scan > 0 /\ j \in DOMAIN rows /\ rows[j] = Top(r).todo[j]
      BY <1>1, <1>2, <1>3 DEF ListsAreTrue, Field
<1>5. f \in Relations
      BY <1>2, <1>4, SchemaAssumption DEF Field, Frame
<1>6. rows[j] \in Row /\ rows[j].rel \in [Relations -> SUBSET Ids]
      BY <1>4, TableTyped DEF TypeOK, Row
<1>7. rows' = [rows EXCEPT ![j] = Nulled(rows[j], f, x)]
      BY <1>1, <1>4 DEF Updated
<1>8. /\ DOMAIN rows' = DOMAIN rows
      /\ \A i \in DOMAIN rows \ {j} : rows'[i] = rows[i]
      /\ rows'[j] = Nulled(rows[j], f, x)
      BY <1>4, <1>7
<1>9. /\ Nulled(rows[j], f, x).cell = rows[j].cell
      /\ Nulled(rows[j], f, x).rel[f] = rows[j].rel[f] \ {x}
      /\ \A g \in Relations \ {f} : Nulled(rows[j], f, x).rel[g] = rows[j].rel[g]
      BY <1>5, <1>6 DEF Nulled, Row
<1> QED BY <1>1, <1>4, <1>5, <1>8, <1>9

LEMMA AloneSetsNull ==
    ASSUME OneRequest, TypeOK, AloneInv, NEW r \in Requests, NEW j \in Ids, SetNull(r, j)
    PROVE  AloneInv'
<1> DEFINE old == req[r].stack
           f == Field(r)
           x == Top(r).id
           rest == Processed(r, j)
<1>0. PICK s, q : s = <<rest>> \o Tail(old) /\ q = [req[r] EXCEPT !.stack = s]
      OBVIOUS
<1>1. req[r].at = "delete" /\ Goto(r, q)
      BY <1>0 DEF SetNull, WithTop
<1>2. q.at = "delete" /\ q.stack = s
      BY <1>0, <1>1, OtherStack
<1>3. /\ rest \in Frame /\ rest.id = x /\ rest.scan = Top(r).scan
      /\ DOMAIN rest.todo = DOMAIN Top(r).todo \ {j}
      /\ \A k \in DOMAIN rest.todo : rest.todo[k] = Top(r).todo[k]
      BY <1>1, ProcessedFrame
<1>4. /\ Len(old) \in Nat \ {0} /\ old[1] = Top(r)
      /\ Len(s) = Len(old) /\ s[1] = rest
      /\ \A k \in 2 .. Len(s) : s[k] = old[k]
      BY <1>0, <1>1, <1>3, StackOf
<1>5. Cleared(old) /\ ListsAreTrue(old) /\ Chained(old)
      BY <1>1 DEF AloneInv, StateHolds
<1>6. /\ f \in Relations /\ Relation[f].on_delete = "SetNull" /\ f = ScanOrder[Top(r).scan]
      /\ j \in DOMAIN rows /\ DOMAIN rows' = DOMAIN rows
      /\ \A i \in DOMAIN rows \ {j} : rows'[i] = rows[i]
      /\ rows'[j].rel[f] = rows[j].rel[f] \ {x}
      /\ \A g \in Relations \ {f} : rows'[j].rel[g] = rows[j].rel[g]
      BY AloneUnlinks DEF Field
<1>7. \A i \in DOMAIN rows, g \in Relations :
          /\ rows'[i].rel[g] \subseteq rows[i].rel[g]
          /\ g # f => rows'[i].rel[g] = rows[i].rel[g]
      BY <1>6
<1> HIDE DEF old, rest, f, x
<1>8. \A k \in 1 .. Len(s) : s[k].id = old[k].id /\ s[k].scan = old[k].scan
      BY <1>3, <1>4 DEF x
<1>9. \A n \in 1 .. Len(ScanOrder) : ScanOrder[n] \in Relations
      BY SchemaAssumption
<1>10. RowsPlaced'
  <2>1. ASSUME NEW i \in DOMAIN rows PROVE Placed(HomeOf[i], rows'[i])
        BY <1>7 DEF AloneInv, RowsPlaced, Placed
  <2> QED BY <1>6, <2>1 DEF RowsPlaced, Placed
<1>11. NoDanglingReference'
      BY <1>6, <1>7 DEF AloneInv, NoDanglingReference
<1>12. Cleared(s)'
  <2>1. ASSUME NEW k \in 1 .. Len(s), NEW m \in 1 .. Len(ScanOrder), NEW i \in DOMAIN rows,
               m <= s[k].scan, HasAction(s[k].id, m), s[k].id \in rows'[i].rel[ScanOrder[m]]
        PROVE  m = s[k].scan /\ InHand(s, k, i)
    <3>1. k \in 1 .. Len(old) /\ s[k].id \in rows[i].rel[ScanOrder[m]]
          BY <1>4, <1>7, <1>9, <2>1
    <3>2. m = s[k].scan /\ InHand(old, k, i)
          BY <1>5, <1>8, <2>1, <3>1 DEF Cleared
    <3>3. CASE k = 1
      <4>1. s[k].id = x /\ s[k].scan = Top(r).scan
            BY <1>3, <1>4, <3>3
      <4>2. i # j
            BY <1>6, <2>1, <3>2, <4>1
      <4> QED BY <1>3, <1>4, <3>2, <3>3, <4>2 DEF InHand
    <3>4. CASE k # 1
      <4>1. k \in 2 .. Len(s) /\ k - 1 \in 1 .. Len(s)
            BY <1>4, <2>1, <3>4
      <4> QED BY <1>4, <1>8, <3>2, <4>1 DEF InHand
    <3> QED BY <3>2, <3>3, <3>4
  <2> QED BY <1>6, <2>1 DEF Cleared, InHand
<1>13. \A k \in 2 .. Len(s) :
          LET g == ScanOrder[s[k].scan]
          IN  /\ s[k].scan > 0 /\ Relation[g].on_delete = "Cascade"
              /\ g \in Relations /\ g # f
              /\ s[k - 1].id \in DOMAIN rows /\ s[k].id \in rows[s[k - 1].id].rel[g]
  <2>1. ASSUME NEW k \in 2 .. Len(s)
        PROVE  LET g == ScanOrder[s[k].scan]
               IN  /\ s[k].scan > 0 /\ Relation[g].on_delete = "Cascade"
                   /\ g \in Relations /\ g # f
                   /\ s[k - 1].id \in DOMAIN rows /\ s[k].id \in rows[s[k - 1].id].rel[g]
    <3>1. k - 1 \in 1 .. Len(old) - 1 /\ (k - 1) + 1 = k
          BY <1>4, <2>1
    <3>2. s[k] = old[k] /\ s[k - 1].id = old[k - 1].id
          BY <1>4, <1>8, <2>1
    <3>3. LET g == ScanOrder[s[k].scan]
          IN  /\ s[k].scan > 0 /\ Relation[g].on_delete = "Cascade"
              /\ s[k - 1].id \in DOMAIN rows /\ s[k].id \in rows[s[k - 1].id].rel[g]
          BY <1>5, <3>1, <3>2 DEF Chained
    <3>4. old[k] \in Frame
          BY <1>1, <1>4, <2>1, RequestFields DEF old
    <3>5. ScanOrder[s[k].scan] \in Relations
          BY <1>9, <3>2, <3>3, <3>4 DEF Frame
    <3> QED BY <1>6, <3>3, <3>5
  <2> QED BY <2>1
<1>14. ListsAreTrue(s)'
  <2>1. ASSUME NEW k \in 1 .. Len(s), NEW i \in DOMAIN s[k].todo
        PROVE  LET g == ScanOrder[s[k].scan]
               IN  /\ s[k].scan > 0
                   /\ Relation[g].on_delete = "Cascade" /\ i \in DOMAIN rows
                         => s[k].id \in rows'[i].rel[g]
                   /\ Relation[g].on_delete = "SetNull"
                         => i \in DOMAIN rows /\ rows'[i] = s[k].todo[i]
    <3>1. CASE k = 1
      <4>1. 1 \in 1 .. Len(old) /\ i \in DOMAIN old[1].todo /\ i # j
            BY <1>3, <1>4, <2>1, <3>1
      <4>2. Top(r).scan > 0 /\ i \in DOMAIN rows /\ rows[i] = Top(r).todo[i]
            BY <1>4, <1>5, <1>6, <4>1 DEF ListsAreTrue
      <4>3. s[k].scan = Top(r).scan /\ s[k].todo[i] = Top(r).todo[i]
            BY <1>3, <1>4, <2>1, <3>1
      <4> QED BY <1>6, <4>1, <4>2, <4>3
    <3>2. CASE k # 1
      <4>1. k \in 2 .. Len(s) /\ k \in 1 .. Len(old) /\ s[k] = old[k]
            BY <1>4, <2>1, <3>2
      <4>2. i \in DOMAIN rows => s[k].id \in rows[i].rel[ScanOrder[s[k].scan]]
            BY <1>5, <1>13, <2>1, <4>1 DEF ListsAreTrue
      <4> QED BY <1>7, <1>13, <4>1, <4>2
    <3> QED BY <3>1, <3>2
  <2> QED BY <1>6, <2>1 DEF ListsAreTrue
<1>15. Chained(s)'
  <2>1. ASSUME NEW k \in 1 .. Len(s) - 1
        PROVE  LET g == ScanOrder[s[k + 1].scan]
               IN  /\ s[k + 1].scan > 0 /\ Relation[g].on_delete = "Cascade"
                   /\ s[k].id \in DOMAIN rows
                   /\ s[k + 1].id \in rows'[s[k].id].rel[g]
    <3>1. k + 1 \in 2 .. Len(s) /\ (k + 1) - 1 = k
          BY <1>4, <2>1
    <3> QED BY <1>7, <1>13, <3>1
  <2> QED BY <1>6, <2>1 DEF Chained
<1>16. StateHolds(q)'
      BY <1>2, <1>12, <1>14, <1>15 DEF StateHolds
<1>17. req'[r] = q
      BY <1>1 DEF Goto, TypeOK
<1> QED BY <1>10, <1>11, <1>16, <1>17, AloneMoves

\* When a frame has scanned all fields, no reference to its record is left but
\* those NoAction leaves.
LEMMA NothingRefers ==
    ASSUME TypeOK, AloneInv, NEW r \in Requests, Removing(r),
           NEW j \in DOMAIN rows, NEW f \in Relations, Relation[f].on_delete # "NoAction"
    PROVE  Top(r).id \notin rows[j].rel[f]
<1> DEFINE x == Top(r).id
<1>1. SUFFICES ASSUME x \in rows[j].rel[f] PROVE FALSE
      OBVIOUS
<1>2. req[r].at = "delete" /\ DOMAIN Top(r).todo = {}
      BY DEF Removing, Scanning
<1>3. 1 \in 1 .. Len(req[r].stack) /\ Top(r) = req[r].stack[1] /\ Top(r).scan \in Nat
      BY <1>2, StackFields DEF Frame
<1>4. PICK m \in 1 .. Len(ScanOrder) : ScanOrder[m] = f
      BY SchemaAssumption
<1>5. HasAction(x, m)
      BY <1>1, <1>4, PlacedReference DEF HasAction
<1>6. CASE m <= Top(r).scan
  <2>1. Cleared(req[r].stack)
        BY <1>2 DEF AloneInv, StateHolds
  <2>2. InHand(req[r].stack, 1, j)
        BY <1>1, <1>3, <1>4, <1>5, <1>6, <2>1 DEF Cleared
  <2> QED BY <1>2, <1>3, <2>2 DEF InHand
<1>7. CASE Top(r).scan < m
  <2> DEFINE T == {k \in 1 .. Len(ScanOrder) : Top(r).scan < k /\ HasAction(x, k)}
  <2>1. T \in SUBSET Nat /\ T # {}
    <3>1. m \in T
          BY <1>5, <1>7
    <3>2. T \subseteq 1 .. Len(ScanOrder)
          OBVIOUS
    <3>3. 1 .. Len(ScanOrder) \subseteq Nat
          OBVIOUS
    <3> HIDE DEF T
    <3> QED BY <3>1, <3>2, <3>3
  <2>2. PICK k \in T : \A y \in T : k <= y
        BY <2>1, LeastNumber
  <2>3. NextField(r, k)
        BY <2>1, <2>2 DEF NextField
  <2> QED BY <2>2, <2>3 DEF Removing
<1> QED BY <1>3, <1>4, <1>6, <1>7

\* Remove: the rows left do not refer to the record, and the frame below no
\* longer has it in hand.
LEMMA AloneRemoves ==
    ASSUME OneRequest, TypeOK, AloneInv, NEW r \in Requests, Remove(r)
    PROVE  AloneInv'
<1> DEFINE old == req[r].stack
           x == Top(r).id
<1>1. /\ req[r].at = "delete" /\ Removing(r)
      /\ DOMAIN rows' = DOMAIN rows \ {x}
      /\ \A i \in DOMAIN rows \ {x} : rows'[i] = rows[i]
      BY DeletedTyped DEF Remove, Removing, Scanning, TypeOK
<1>2. \A i \in DOMAIN rows, f \in Relations :
          Relation[f].on_delete # "NoAction" => x \notin rows[i].rel[f]
      BY <1>1, NothingRefers
<1>3. RowsPlaced'
      BY <1>1 DEF AloneInv, RowsPlaced
<1>4. NoDanglingReference'
      BY <1>1, <1>2 DEF AloneInv, NoDanglingReference
<1>5. CASE Len(old) = 1
  <2>1. req'[r] = Idle
        BY <1>5 DEF Remove, Goto, TypeOK
  <2> QED BY <1>3, <1>4, <2>1, IdleHolds, AloneMoves
<1>6. CASE Len(old) # 1
  <2>0. PICK s, q : s = Tail(old) /\ q = [req[r] EXCEPT !.stack = s]
        OBVIOUS
  <2>1. req'[r] = q
        BY <1>6, <2>0 DEF Remove, Goto, TypeOK
  <2>2. q.at = "delete" /\ q.stack = s
        BY <1>1, <2>0, OtherStack
  <2>3. /\ Len(old) \in Nat \ {0} /\ old[1].id = x
        /\ Len(s) = Len(old) - 1
        /\ \A n \in 1 .. Len(s) : s[n] = old[n + 1]
        BY <1>1, <2>0, StackOf
  <2>4. Cleared(old) /\ ListsAreTrue(old) /\ Chained(old)
        BY <1>1 DEF AloneInv, StateHolds
  <2>5. \A n \in 1 .. Len(old) : old[n].scan \in 0 .. Len(ScanOrder)
    <3>1. old \in Seq(Frame)
          BY <1>1, RequestFields
    <3>2. \A n \in 1 .. Len(old) : old[n] \in Frame
          BY <3>1
    <3>3. \A frame \in Frame : frame.scan \in 0 .. Len(ScanOrder)
          BY DEF Frame
    <3> QED BY <3>2, <3>3
  <2> HIDE DEF old, x
  \* What the frames below delete is not the record, which nothing refers to.
  <2>6. \A n \in 1 .. Len(s) :
            LET g == ScanOrder[s[n].scan]
            IN  /\ s[n].scan > 0 /\ Relation[g].on_delete = "Cascade"
                /\ old[n].id \in DOMAIN rows /\ s[n].id \in rows[old[n].id].rel[g]
                /\ s[n].id # x
    <3>1. ASSUME NEW n \in 1 .. Len(s)
          PROVE  LET g == ScanOrder[s[n].scan]
                 IN  /\ s[n].scan > 0 /\ Relation[g].on_delete = "Cascade"
                     /\ old[n].id \in DOMAIN rows /\ s[n].id \in rows[old[n].id].rel[g]
                     /\ s[n].id # x
      <4>1. n \in 1 .. Len(old) - 1 /\ s[n] = old[n + 1] /\ n + 1 \in 1 .. Len(old)
            BY <2>3
      <4>2. LET g == ScanOrder[s[n].scan]
            IN  /\ s[n].scan > 0 /\ Relation[g].on_delete = "Cascade"
                /\ old[n].id \in DOMAIN rows /\ s[n].id \in rows[old[n].id].rel[g]
            BY <2>4, <4>1 DEF Chained
      <4>3. ScanOrder[s[n].scan] \in Relations
        <5>1. s[n].scan \in 1 .. Len(ScanOrder)
              BY <2>5, <4>1, <4>2
        <5> QED BY <5>1, SchemaAssumption
      <4>4. s[n].id # x
        <5>1. PICK g \in Relations : g = ScanOrder[s[n].scan]
              BY <4>3
        <5>2. Relation[g].on_delete # "NoAction"
              BY <4>2, <5>1
        <5>3. x \notin rows[old[n].id].rel[g]
              BY <1>2, <4>2, <5>2
        <5> QED BY <4>2, <5>1, <5>3
      <4> QED BY <4>2, <4>4
    <3> QED BY <3>1
  <2>7. Cleared(s)'
    <3>1. ASSUME NEW k \in 1 .. Len(s), NEW m \in 1 .. Len(ScanOrder), NEW i \in DOMAIN rows',
                 m <= s[k].scan, HasAction(s[k].id, m), s[k].id \in rows'[i].rel[ScanOrder[m]]
          PROVE  m = s[k].scan /\ InHand(s, k, i)
      <4>1. i \in DOMAIN rows /\ i # x /\ rows'[i] = rows[i]
            BY <1>1
      <4>2. k + 1 \in 1 .. Len(old) /\ s[k] = old[k + 1]
            BY <2>3
      <4>3. m = s[k].scan /\ InHand(old, k + 1, i)
            BY <2>4, <3>1, <4>1, <4>2 DEF Cleared
      <4>4. i \in DOMAIN s[k].todo \/ i = old[k].id
            BY <4>2, <4>3 DEF InHand
      <4>5. CASE i = old[k].id
        <5>1. k # 1
              BY <2>3, <4>1, <4>5
        <5>2. k > 1 /\ k - 1 \in 1 .. Len(s) /\ s[k - 1] = old[k]
              BY <2>3, <3>1, <5>1
        <5> QED BY <4>3, <4>5, <5>2 DEF InHand
      <4> QED BY <4>3, <4>4, <4>5 DEF InHand
    <3> QED BY <3>1 DEF Cleared
  <2>8. ListsAreTrue(s)'
    <3>1. ASSUME NEW k \in 1 .. Len(s), NEW i \in DOMAIN s[k].todo
          PROVE  LET g == ScanOrder[s[k].scan]
                 IN  /\ s[k].scan > 0
                     /\ Relation[g].on_delete = "Cascade" /\ i \in DOMAIN rows'
                           => s[k].id \in rows'[i].rel[g]
                     /\ Relation[g].on_delete = "SetNull"
                           => i \in DOMAIN rows' /\ rows'[i] = s[k].todo[i]
      <4>1. k + 1 \in 1 .. Len(old) /\ s[k] = old[k + 1]
            BY <2>3
      <4>2. i \in DOMAIN rows => s[k].id \in rows[i].rel[ScanOrder[s[k].scan]]
            BY <2>4, <2>6, <3>1, <4>1 DEF ListsAreTrue
      <4> QED BY <1>1, <2>6, <4>2
    <3> QED BY <3>1 DEF ListsAreTrue
  <2>9. Chained(s)'
    <3>1. ASSUME NEW k \in 1 .. Len(s) - 1
          PROVE  LET g == ScanOrder[s[k + 1].scan]
                 IN  /\ s[k + 1].scan > 0 /\ Relation[g].on_delete = "Cascade"
                     /\ s[k].id \in DOMAIN rows'
                     /\ s[k + 1].id \in rows'[s[k].id].rel[g]
      <4>1. k \in 1 .. Len(s) /\ k + 1 \in 1 .. Len(s) /\ s[k] = old[k + 1]
            BY <2>3
      <4>2. LET g == ScanOrder[s[k + 1].scan]
            IN  /\ s[k + 1].scan > 0 /\ Relation[g].on_delete = "Cascade"
                /\ s[k].id \in DOMAIN rows /\ s[k + 1].id \in rows[s[k].id].rel[g]
        <5>1. old[k + 1].id = s[k].id
              BY <4>1
        <5> QED BY <2>6, <4>1, <5>1
      <4>3. s[k].id # x
            BY <2>6, <4>1
      <4> QED BY <1>1, <4>2, <4>3
    <3> QED BY <3>1 DEF Chained
  <2>10. StateHolds(q)'
        BY <2>2, <2>7, <2>8, <2>9 DEF StateHolds
  <2> QED BY <1>3, <1>4, <2>1, <2>10, AloneMoves
<1> QED BY <1>5, <1>6

LEMMA AloneSteps ==
    ASSUME OneRequest, TypeOK, AloneInv, NEW r \in Requests, Step(r)
    PROVE  AloneInv'
<1>1. CASE \E i \in Ids : CheckReference(r, i)
      BY <1>1, AloneChecks
<1>2. CASE Insert(r) \/ Update(r)
      BY <1>2, AloneWrites
<1>3. CASE \E n \in 1 .. Len(ScanOrder) : FindReferencing(r, n)
      BY <1>3, AloneFinds
<1>4. CASE \E j \in Ids : Cascade(r, j)
      BY <1>4, AloneCascades
<1>5. CASE \E j \in Ids : SetNull(r, j)
      BY <1>5, AloneSetsNull
<1>6. CASE Remove(r)
      BY <1>6, AloneRemoves
<1>7. CASE \/ ReferenceMissing(r) \/ CascadeMissing(r) \/ RemoveMissing(r)
           \/ \E n \in 1 .. Len(ScanOrder) : Refuse(r, n)
  <2>1. Goto(r, Idle) /\ UNCHANGED rows
        BY <1>7 DEF ReferenceMissing, CascadeMissing, RemoveMissing, Refuse
  <2> QED BY <2>1, AloneEnds
<1>8. CASE Overflow(r)
  <2>1. req'[r] = Idle /\ UNCHANGED rows
        BY <1>8 DEF Overflow
  <2>2. RowsPlaced' /\ NoDanglingReference'
        BY <2>1 DEF AloneInv, RowsPlaced, NoDanglingReference
  <2> QED BY <2>1, <2>2, IdleHolds, AloneMoves
<1> QED BY <1>1, <1>2, <1>3, <1>4, <1>5, <1>6, <1>7, <1>8 DEF Step

LEMMA AloneNext == OneRequest /\ TypeOK /\ AloneInv /\ [Next]_vars => AloneInv'
<1> SUFFICES ASSUME OneRequest, TypeOK, AloneInv, [Next]_vars PROVE AloneInv'
    OBVIOUS
<1>1. ASSUME NEW r \in Requests, CreateStep(r) PROVE AloneInv'
      BY <1>1, AloneCreates DEF CreateStep
<1>2. ASSUME NEW r \in Requests, UpdateStep(r) PROVE AloneInv'
      BY <1>2, AloneUpdates DEF UpdateStep
<1>3. ASSUME NEW r \in Requests, NEW i \in Ids, DeleteRecord(r, i) PROVE AloneInv'
      BY <1>3, AloneDeletes
<1>4. ASSUME NEW r \in Requests, Step(r) PROVE AloneInv'
      BY <1>4, AloneSteps
<1>5. ASSUME NEW r \in Requests, Fail(r) PROVE AloneInv'
      BY <1>5, AloneEnds DEF Fail
<1>6. ASSUME UNCHANGED vars PROVE AloneInv'
  <2>1. rows' = rows /\ req' = req
        BY <1>6 DEF vars
  <2>2. RowsPlaced' /\ NoDanglingReference'
        BY <2>1 DEF AloneInv, RowsPlaced, NoDanglingReference
  <2>3. ASSUME NEW q, StateHolds(q) PROVE StateHolds(q)'
        BY <2>1, <2>3 DEF StateHolds, ToWrite, Cleared, ListsAreTrue, Chained
  <2>4. ASSUME NEW r \in Requests PROVE StateHolds(req[r])'
    <3>1. PICK q : q = req[r]
          OBVIOUS
    <3>2. StateHolds(q)'
          BY <2>3, <3>1 DEF AloneInv
    <3>3. req'[r] = q
          BY <2>1, <3>1
    <3> QED BY <3>2, <3>3
  <2> QED BY <2>2, <2>4 DEF AloneInv
<1> QED BY <1>1, <1>2, <1>3, <1>4, <1>5, <1>6 DEF Next

LEMMA AloneInit == Init => AloneInv
BY IdleHolds DEF Init, AloneInv, RowsPlaced, NoDanglingReference

LEMMA AloneInvariance == OneRequest => (Spec => []AloneInv)
<1> SUFFICES ASSUME OneRequest PROVE Spec => []AloneInv
    OBVIOUS
<1>1. IInv /\ AloneInv /\ [Next]_vars => AloneInv'
      BY AloneNext DEF IInv
<1> QED BY <1>1, Invariance, AloneInit, PTL DEF Spec

(***************************************************************************)
(* A service that works on one request at a time leaves no reference to a  *)
(* record that is gone, whatever the schema, but through NoAction fields,  *)
(* and wherever a cascade fails (process_on_delete_actions).               *)
(***************************************************************************)
THEOREM NothingDangles == OneRequest => (Spec => []NoDanglingReference)
<1> SUFFICES ASSUME OneRequest PROVE Spec => []NoDanglingReference
    OBVIOUS
<1>1. AloneInv => NoDanglingReference
      BY DEF AloneInv
<1>2. Spec => []AloneInv
      BY AloneInvariance
<1> QED BY <1>1, <1>2, PTL

(***************************************************************************)
(* A cascade deletes only what refers to the record deleted below it, to   *)
(* any depth and in any schema (delete_record, called by itself).          *)
(***************************************************************************)
THEOREM CascadesFollowReferences == OneRequest => (Spec => []CascadesAlongReferences)
<1> SUFFICES ASSUME OneRequest PROVE Spec => []CascadesAlongReferences
    OBVIOUS
<1>1. AloneInv => CascadesAlongReferences
      BY DEF AloneInv, StateHolds, Chained, CascadesAlongReferences
<1>2. Spec => []AloneInv
      BY AloneInvariance
<1> QED BY <1>1, <1>2, PTL

(***************************************************************************)
(* A delete changes no row that stays, but for the SetNull references to   *)
(* the record: the row a SetNull writes was read earlier and is still the  *)
(* row as it is (delete_record, find_referencing_records).                 *)
(***************************************************************************)
THEOREM DeletesOnlyUnlink == OneRequest => (Spec => DeleteOnlyUnlinks)
<1> SUFFICES ASSUME OneRequest PROVE Spec => DeleteOnlyUnlinks
    OBVIOUS
<1>1. IInv /\ AloneInv /\ [Next]_vars =>
         [\A r \in Requests : req[r].at = "delete" =>
             \A j \in DOMAIN rows \cap DOMAIN rows' : Unlinked(rows[j], rows'[j], Top(r).id)]_vars
  <2> SUFFICES ASSUME IInv, AloneInv, Next, NEW r \in Requests,
                      req[r].at = "delete", NEW j \in DOMAIN rows \cap DOMAIN rows'
               PROVE  Unlinked(rows[j], rows'[j], Top(r).id)
      OBVIOUS
  <2>0. TypeOK
        BY DEF IInv
  <2>1. rows'[j] = rows[j] => Unlinked(rows[j], rows'[j], Top(r).id)
        BY DEF Unlinked
  <2>2. ~CreateStep(r) /\ ~UpdateStep(r) /\ ~(\E i \in Ids : DeleteRecord(r, i))
    <3>1. req[r] # Idle
          BY DEF Idle
    <3> QED BY <3>1 DEF CreateStep, UpdateStep, CreateRecord, UpdateRecord, DeleteRecord
  <2>3. Step(r) \/ Fail(r)
        BY <2>2 DEF Next, OneRequest
  <2>4. ASSUME NEW i \in Ids, SetNull(r, i) PROVE Unlinked(rows[j], rows'[j], Top(r).id)
        BY <2>0, <2>1, <2>4, AloneUnlinks DEF Unlinked
  <2>5. CASE Remove(r)
        BY <2>0, <2>1, <2>5, DeletedTyped DEF Remove, TypeOK
  <2>6. CASE ~Remove(r) /\ ~\E i \in Ids : SetNull(r, i)
    <3>1. rows' = rows
          BY <2>3, <2>6 DEF Step, Fail, CheckReference, ReferenceMissing, Insert, Update, Refuse,
             FindReferencing, Cascade, CascadeMissing, RemoveMissing, Overflow
    <3> QED BY <2>1, <3>1
  <2> QED BY <2>4, <2>5, <2>6
<1>2. Spec => []AloneInv
      BY AloneInvariance
<1> QED BY <1>1, <1>2, Invariance, PTL DEF Spec, DeleteOnlyUnlinks

----------------------------------------------------------------------------
(* Batches                                                                 *)

\* A batch calls the service, undoes through it, and changes no row otherwise.
LEMMA BatchStepIsServiceStep == TypeOK /\ [BatchNext]_batchVars => [Next]_vars
<1> SUFFICES ASSUME TypeOK, [BatchNext]_batchVars PROVE [Next]_vars
    OBVIOUS
<1>1. ASSUME NEW r \in Requests, Start(r) PROVE [Next]_vars
  <2>1. CASE Begin(r)
        BY <2>1 DEF Begin
  <2>2. ASSUME NEW i \in Ids, NEW row \in Bodies[HomeOf[i]], CallCreate(r, i, row)
        PROVE  Next
        BY <2>2 DEF CallCreate, Next, CreateStep
  <2>3. ASSUME NEW i \in Ids, NEW patch \in Patch, CallUpdate(r, i, patch) PROVE Next
        BY <2>3 DEF CallUpdate, Next, UpdateStep
  <2>4. ASSUME NEW i \in Ids, CallDelete(r, i) PROVE Next
        BY <2>4 DEF CallDelete, Next
  <2> QED BY <1>1, <2>1, <2>2, <2>3, <2>4 DEF Start
<1>2. ASSUME NEW r \in Requests, Answered(r) \/ Refused(r) \/ Working(r) \/ Overflow(r)
      PROVE  Next
  <2>1. Step(r)
        BY <1>2 DEF Answered, Refused, Working, Step
  <2> QED BY <2>1 DEF Next
<1>3. ASSUME NEW r \in Requests, GoOn(r) PROVE [Next]_vars
  <2>1. CASE Work(r) \/ OperationDone(r) \/ OperationRefused(r) \/ Undone(r)
             \/ UndoRefused(r) \/ ProcessDies(r)
        BY <1>2, <2>1 DEF Work, OperationDone, OperationRefused, Undone, UndoRefused,
           ProcessDies
  <2>2. CASE Commit(r) \/ Reject(r) \/ SkipMissing(r) \/ Report(r)
        BY <2>2 DEF Commit, Reject, SkipMissing, Report
  <2>3. CASE UndoCreate(r)
    <3> DEFINE i == Latest(batch[r].created)
    <3>1. DeleteRecord(r, i)
          BY <2>3 DEF UndoCreate
    <3>2. i \in Ids
          BY <3>1, TableTyped DEF DeleteRecord, TypeOK
    <3> QED BY <3>1, <3>2 DEF Next
  <2> QED BY <1>3, <2>1, <2>2, <2>3 DEF GoOn
<1>4. ASSUME NEW r \in Requests, OperationFails(r) \/ UndoFails(r) PROVE Next
      BY <1>4 DEF OperationFails, UndoFails, Next
<1>5. ASSUME UNCHANGED batchVars PROVE UNCHANGED vars
      BY <1>5 DEF batchVars, vars
<1> QED BY <1>1, <1>3, <1>4, <1>5 DEF BatchNext

(***************************************************************************)
(* Whatever holds of the record service holds of it under batches          *)
(* (batch.rs:273-398 calls it like any other caller).                      *)
(***************************************************************************)
THEOREM BatchUsesService == BatchSpec => Spec
<1>1. BatchInit => Init /\ IInv
      BY InitInv DEF BatchInit
<1>2. IInv /\ [BatchNext]_batchVars => IInv' /\ [Next]_vars
      BY BatchStepIsServiceStep, InvStep DEF IInv
<1> QED BY <1>1, <1>2, PTL DEF BatchSpec, Spec

\* The states of a batch.
BatchState ==
    {NoBatch}
    \cup [at: {"next", "run", "undo", "undoing"}, size: Nat, created: Seq(Ids),
          clean: BOOLEAN, before: Tables]

Made(b) == {b.created[k] : k \in 1 .. Len(b.created)}

(***************************************************************************)
(* What a batch of creates has done since it began, the records `doomed`   *)
(* being under deletion: nothing but to make records, and only a later one *)
(* refers to one of them.                                                  *)
(***************************************************************************)
Since(b, doomed) ==
    /\ DOMAIN rows = DOMAIN b.before \cup Made(b) \cup doomed
    /\ DOMAIN b.before \cap (Made(b) \cup doomed) = {} /\ Made(b) \cap doomed = {}
    /\ \A i \in DOMAIN b.before : rows[i] = b.before[i]
    /\ \A k, m \in 1 .. Len(b.created) : b.created[k] = b.created[m] => k = m
    /\ \A k \in 1 .. Len(b.created), j \in DOMAIN rows :
          b.created[k] \in References(rows[j]) =>
              j \in doomed \/ \E m \in 1 .. Len(b.created) : m > k /\ j = b.created[m]

Unreferenced(i) == \A j \in DOMAIN rows : i \notin References(rows[j])

\* A record being undone has nothing to take along.
Undoing(b, q) ==
    LET frame == q.stack[1]
    IN  /\ q.at = "delete" /\ Len(q.stack) = 1 /\ DOMAIN frame.todo = {}
        /\ Unreferenced(frame.id)
        /\ Since(b, {frame.id})

BatchHolds(b, q) ==
    b.at # "none" /\ b.clean =>
        /\ b.at \in {"next", "run", "undo"} => Since(b, {})
        /\ b.at = "run" => q.at = "create"
        /\ b.at = "undoing" => Undoing(b, q)

BatchInv == /\ batch \in [Requests -> BatchState]
            /\ \A r \in Requests : BatchHolds(batch[r], req[r])

LEMMA BatchFields ==
    ASSUME NEW b \in BatchState, b.at # "none"
    PROVE  /\ b \in [at: {"next", "run", "undo", "undoing"}, size: Nat, created: Seq(Ids),
                     clean: BOOLEAN, before: Tables]
           /\ b.size \in Nat /\ b.created \in Seq(Ids) /\ b.clean \in BOOLEAN
           /\ b.before \in Tables
BY DEF BatchState, NoBatch

LEMMA NoBatchHolds == NoBatch \in BatchState /\ \A q : BatchHolds(NoBatch, q)
BY DEF BatchState, BatchHolds, NoBatch

\* The batch moves to state b, the service to state q.
LEMMA BatchMoves ==
    ASSUME OneRequest, BatchInv, NEW r \in Requests, NEW b \in BatchState, NEW q,
           Enter(r, b), req'[r] = q, BatchHolds(b, q)'
    PROVE  BatchInv'
<1>1. batch' \in [Requests -> BatchState] /\ batch'[r] = b
      BY DEF Enter, BatchInv
<1>2. \A s \in Requests : batch'[s] = b /\ req'[s] = q
      BY <1>1 DEF OneRequest
<1> QED BY <1>1, <1>2 DEF BatchInv

\* ... and no row changes.
LEMMA BatchReads ==
    ASSUME OneRequest, BatchInv, NEW r \in Requests, NEW b \in BatchState, NEW q,
           Enter(r, b), req'[r] = q, UNCHANGED rows, BatchHolds(b, q)
    PROVE  BatchInv'
<1>1. BatchHolds(b, q)'
      BY DEF BatchHolds, Undoing, Unreferenced, Since
<1> QED BY <1>1, BatchMoves

\* What is left of a batch once its place, size or honesty changes.
LEMMA BatchMade ==
    ASSUME NEW b, NEW c, c.created = b.created, c.before = b.before, NEW doomed
    PROVE  Since(b, doomed) => Since(c, doomed)
BY DEF Since, Made

\* A batch that is not clean is of no concern.
LEMMA SoiledHolds ==
    ASSUME NEW b \in BatchState, b.at # "none"
    PROVE  /\ Soiled(b) \in BatchState /\ Soiled(b).at = b.at /\ ~Soiled(b).clean
           /\ Soiled(b).created = b.created
<1>1. NoTables \in Tables
      BY EmptyTyped DEF NoTables
<1> QED BY <1>1, BatchFields DEF Soiled, BatchState

LEMMA BatchGoesTo ==
    ASSUME NEW b \in BatchState, b.at # "none", NEW a \in {"next", "run", "undo", "undoing"}
    PROVE  LET c == [b EXCEPT !.at = a]
           IN  /\ c \in BatchState /\ c.at = a /\ c.clean = b.clean
               /\ c.created = b.created /\ c.before = b.before
BY BatchFields DEF BatchState

LEMMA CalledState ==
    ASSUME BatchInv, NEW r \in Requests, Calling(r)
    PROVE  LET b == batch[r]
               c == Called(r)
           IN  /\ b \in BatchState /\ b.at # "none"
               /\ c \in BatchState /\ c.at = "run" /\ c.clean = b.clean
               /\ c.created = b.created /\ c.before = b.before
               /\ b.clean => Since(b, {}) /\ Since(c, {})
<1> DEFINE b == batch[r]
           c == Called(r)
<1>1. b \in BatchState /\ b.at = "next"
      BY DEF BatchInv, Calling
<1>2. /\ c \in BatchState /\ c.at = "run" /\ c.clean = b.clean
      /\ c.created = b.created /\ c.before = b.before
  <2>1. /\ b \in [at: {"next", "run", "undo", "undoing"}, size: Nat, created: Seq(Ids),
                   clean: BOOLEAN, before: Tables]
        /\ b.size + 1 \in Nat
        BY <1>1, BatchFields
  <2>2. c = [[b EXCEPT !.at = "run"] EXCEPT !.size = b.size + 1]
        BY DEF Called
  <2> HIDE DEF b, c
  <2> QED BY <2>1, <2>2 DEF BatchState
<1>3. b.clean => Since(b, {})
      BY <1>1 DEF BatchInv, BatchHolds
<1> HIDE DEF b, c
<1>4. b.clean => Since(c, {})
      BY <1>2, <1>3, BatchMade
<1> QED BY <1>1, <1>2, <1>3, <1>4 DEF b, c

\* The batch begins, or calls the service.
LEMMA BatchStarts ==
    ASSUME OneRequest, TypeOK, BatchInv, NEW r \in Requests, Start(r)
    PROVE  BatchInv'
<1>1. CASE Begin(r)
  <2> DEFINE b == [at |-> "next", size |-> 0, created |-> <<>>, clean |-> TRUE, before |-> rows]
  <2>0. PICK c : c = b
        OBVIOUS
  <2>1. c \in BatchState /\ c.at = "next" /\ c.created = <<>> /\ c.before = rows
        BY <2>0 DEF BatchState, TypeOK
  <2>2. Made(c) = {}
        BY <2>1 DEF Made
  <2>3. Since(c, {})
        BY <2>1, <2>2 DEF Since
  <2>4. BatchHolds(c, req[r])
        BY <2>1, <2>3 DEF BatchHolds
  <2>5. Enter(r, c) /\ req' = req /\ rows' = rows
        BY <1>1, <2>0 DEF Begin, vars
  <2> HIDE DEF b
  <2>6. PICK q : q = req[r]
        OBVIOUS
  <2> QED BY <2>1, <2>4, <2>5, <2>6, BatchReads
<1>2. ASSUME NEW i \in Ids, NEW row \in Bodies[HomeOf[i]], CallCreate(r, i, row)
      PROVE  BatchInv'
  <2>1. PICK q : q.at = "create" /\ Goto(r, q) /\ UNCHANGED rows
        BY <1>2 DEF CallCreate, CreateRecord
  <2>2. PICK c : c = Called(r)
        OBVIOUS
  <2>3. Enter(r, c) /\ c \in BatchState /\ c.at = "run" /\ (c.clean => Since(c, {}))
        BY <1>2, <2>2, CalledState DEF CallCreate
  <2>4. BatchHolds(c, q)
        BY <2>1, <2>3 DEF BatchHolds
  <2>5. req'[r] = q
        BY <2>1 DEF Goto, TypeOK
  <2> QED BY <2>1, <2>3, <2>4, <2>5, BatchReads
<1>3. CASE (\E i \in Ids, patch \in Patch : CallUpdate(r, i, patch)) \/ \E i \in Ids : CallDelete(r, i)
  <2>1. PICK q : Goto(r, q) /\ UNCHANGED rows
        BY <1>3 DEF CallUpdate, CallDelete, UpdateRecord, DeleteRecord
  <2>2. PICK c : c = Soiled(Called(r))
        OBVIOUS
  <2>3. Calling(r) /\ Enter(r, c)
        BY <1>3, <2>2 DEF CallUpdate, CallDelete
  <2>4. Called(r) \in BatchState /\ Called(r).at # "none"
        BY <2>3, CalledState
  <2>5. c \in BatchState /\ ~c.clean
        BY <2>2, <2>4, SoiledHolds
  <2>6. BatchHolds(c, q)
        BY <2>5 DEF BatchHolds
  <2>7. req'[r] = q
        BY <2>1 DEF Goto, TypeOK
  <2> QED BY <2>1, <2>3, <2>5, <2>6, <2>7, BatchReads
<1> QED BY <1>1, <1>2, <1>3 DEF Start

\* The batch ends, skips a record, or the process dies.
LEMMA BatchEnds ==
    ASSUME OneRequest, TypeOK, BatchInv, NEW r \in Requests,
           Commit(r) \/ Report(r) \/ ProcessDies(r)
    PROVE  BatchInv'
<1>1. PICK q : q = req'[r]
      OBVIOUS
<1>2. Enter(r, NoBatch) \/ batch' = [s \in Requests |-> NoBatch]
      BY DEF Commit, Report, ProcessDies
<1>3. batch' = [s \in Requests |-> NoBatch]
  <2>1. \A s \in Requests : s = r
        BY DEF OneRequest
  <2>2. batch \in [Requests -> BatchState]
        BY DEF BatchInv
  <2> QED BY <1>2, <2>1, <2>2 DEF Enter
<1>4. \A s \in Requests : BatchHolds(batch'[s], req'[s])
      BY <1>3, NoBatchHolds
<1>5. batch' \in [Requests -> BatchState]
      BY <1>3, NoBatchHolds
<1>6. \A s \in Requests : batch'[s] = NoBatch
      BY <1>3
<1> QED BY <1>5, <1>6 DEF BatchInv, BatchHolds, NoBatch

\* Of a clean batch that waits for a create, or that undoes.
LEMMA RunningCreates ==
    ASSUME BatchInv, NEW r \in Requests, batch[r].at = "run", batch[r].clean
    PROVE  req[r].at = "create" /\ Since(batch[r], {})
BY DEF BatchInv, BatchHolds

LEMMA UndoingDeletes ==
    ASSUME BatchInv, NEW r \in Requests, batch[r].at = "undoing", batch[r].clean
    PROVE  /\ req[r].at = "delete" /\ Len(req[r].stack) = 1 /\ DOMAIN Top(r).todo = {}
           /\ Unreferenced(Top(r).id) /\ Since(batch[r], {Top(r).id})
           /\ Top(r) = req[r].stack[1]
BY DEF BatchInv, BatchHolds, Undoing, Top

\* The service refuses, or something fails.
LEMMA BatchFails ==
    ASSUME OneRequest, TypeOK, BatchInv, NEW r \in Requests,
           Reject(r) \/ OperationRefused(r) \/ OperationFails(r)
    PROVE  BatchInv'
<1>0. PICK b : b = [batch[r] EXCEPT !.at = "undo"]
      OBVIOUS
<1>1. batch[r] \in BatchState /\ batch[r].at \in {"next", "run"} /\ Enter(r, b)
      BY <1>0 DEF BatchInv, Reject, OperationRefused, OperationFails, Calling
<1>2. /\ b \in BatchState /\ b.at = "undo" /\ b.clean = batch[r].clean
      /\ b.created = batch[r].created /\ b.before = batch[r].before
      BY <1>0, <1>1, BatchGoesTo
<1>3. batch[r].clean => Since(b, {})
  <2>1. batch[r].clean => Since(batch[r], {})
        BY <1>1 DEF BatchInv, BatchHolds
  <2> QED BY <1>2, <2>1, BatchMade
<1>4. batch[r].clean => UNCHANGED rows
  <2>1. CASE Reject(r) \/ OperationFails(r)
        BY <2>1 DEF Reject, OperationFails, Fail, vars
  <2>2. CASE OperationRefused(r)
    <3>1. Refused(r) /\ batch[r].at = "run"
          BY <2>2 DEF OperationRefused
    <3>2. batch[r].clean => ~Update(r)
          BY <3>1, RunningCreates DEF Update
    <3> QED BY <3>1, <3>2 DEF Refused, ReferenceMissing, Refuse, CascadeMissing, RemoveMissing
  <2> QED BY <2>1, <2>2
<1>5. PICK q : q = req'[r]
      OBVIOUS
<1>6. BatchHolds(b, q)'
  <2>1. CASE batch[r].clean
    <3>1. Since(b, {})'
          BY <1>3, <1>4, <2>1 DEF Since
    <3> QED BY <1>2, <3>1 DEF BatchHolds
  <2>2. CASE ~batch[r].clean
        BY <1>2, <2>2 DEF BatchHolds
  <2> QED BY <2>1, <2>2
<1> QED BY <1>1, <1>2, <1>5, <1>6, BatchMoves

\* The service goes on: of a clean batch it looks references up, or finds that
\* nothing refers to a record being undone.
LEMMA BatchWorks ==
    ASSUME OneRequest, TypeOK, BatchInv, NEW r \in Requests, Work(r)
    PROVE  BatchInv'
<1>1. batch' = batch /\ batch[r] \in BatchState /\ batch[r].at \in {"run", "undoing"} /\ Working(r)
      BY DEF Work, BatchInv
<1>2. PICK b, q : b = batch[r] /\ q = req'[r]
      OBVIOUS
<1>3. Enter(r, b)
      BY <1>1, <1>2 DEF Enter, BatchInv
<1>4. CASE ~b.clean
  <2>1. BatchHolds(b, q)'
        BY <1>4 DEF BatchHolds
  <2> QED BY <1>1, <1>2, <1>3, <2>1, BatchMoves
<1>5. CASE b.clean /\ b.at = "run"
  <2>1. req[r].at = "create" /\ Since(b, {})
        BY <1>2, <1>5, RunningCreates
  <2>2. PICK i \in Ids : CheckReference(r, i)
        BY <1>1, <2>1 DEF Working, FindReferencing, Scanning, Cascade, SetNull, Remove, Removing
  <2>3. UNCHANGED rows /\ q = [req[r] EXCEPT !.todo = @ \ {i}]
        BY <1>2, <2>2 DEF CheckReference, Goto, TypeOK
  <2>4. q.at = "create"
        BY <2>1, <2>3, RequestFields
  <2>5. BatchHolds(b, q)
        BY <1>5, <2>1, <2>4 DEF BatchHolds
  <2> QED BY <1>1, <1>2, <1>3, <2>3, <2>5, BatchReads
<1>6. CASE b.clean /\ b.at = "undoing"
  <2>1. /\ req[r].at = "delete" /\ Len(req[r].stack) = 1 /\ DOMAIN Top(r).todo = {}
        /\ Unreferenced(Top(r).id) /\ Since(b, {Top(r).id})
        BY <1>2, <1>6, UndoingDeletes
  <2>2. PICK n \in 1 .. Len(ScanOrder) : FindReferencing(r, n)
        BY <1>1, <2>1 DEF Working, CheckReference, Cascade, SetNull, Remove
  <2> DEFINE found == Referencing(ScanOrder[n], Top(r).id)
             frame == [id |-> Top(r).id, scan |-> n, todo |-> [j \in found |-> rows[j]]]
  <2>3. PICK s : s = <<frame>> \o Tail(req[r].stack)
        OBVIOUS
  <2>4. UNCHANGED rows /\ q = [req[r] EXCEPT !.stack = s]
        BY <1>2, <2>2, <2>3 DEF FindReferencing, WithTop, Goto, TypeOK
  <2>5. ScanOrder[n] \in Relations /\ found = {}
        BY <2>1, SchemaAssumption DEF Referencing, Unreferenced, References
  <2>6. frame.id = Top(r).id /\ DOMAIN frame.todo = {}
        BY <2>5
  <2>7. Tail(req[r].stack) \in Seq(Frame) /\ Len(Tail(req[r].stack)) = 0
        BY <2>1, StackFields
  <2> HIDE DEF frame
  <2>8. Len(s) = 1 /\ s[1] = frame
        BY <2>3, <2>7
  <2>9. q.at = "delete" /\ q.stack = s
        BY <2>1, <2>4, OtherStack
  <2>10. BatchHolds(b, q)
        BY <1>6, <2>1, <2>6, <2>8, <2>9 DEF BatchHolds, Undoing
  <2> QED BY <1>1, <1>2, <1>3, <2>4, <2>10, BatchReads
<1> QED BY <1>1, <1>2, <1>4, <1>5, <1>6

\* A create has succeeded: its record is new, nothing refers to it, and it
\* refers to records that are there.
LEMMA BatchAppends ==
    ASSUME IInv, AloneInv, NEW r \in Requests, NEW b \in BatchState, b.at # "none",
           Since(b, {}), Insert(r), NEW c, c.created = Append(b.created, req[r].id),
           c.before = b.before
    PROVE  Since(c, {})'
<1> DEFINE n == req[r].id
           row == req[r].row
           L == Len(b.created)
<1>1. b.created \in Seq(Ids) /\ b.before \in Tables
      BY BatchFields
<1>2. L \in Nat /\ Len(c.created) = L + 1 /\ c.created[L + 1] = n
      /\ \A k \in 1 .. L : c.created[k] = b.created[k]
      BY <1>1
<1>3. rows' = Inserted(n, row) /\ req[r].at = "create" /\ req[r].todo = {}
      BY DEF Insert
<1>4. n \notin ever /\ DOMAIN rows \subseteq ever
      BY <1>3 DEF IInv, NewIds, RowsWereBorn
<1>5. References(row) \subseteq DOMAIN rows
      BY <1>3 DEF AloneInv, StateHolds, ToWrite
<1>6. \A j \in DOMAIN rows : n \notin References(rows[j])
      BY <1>4 DEF IInv, EveryReferenceWasARecord, References
<1>7. /\ DOMAIN rows' = DOMAIN rows \cup {n} /\ rows'[n] = row
      /\ \A j \in DOMAIN rows : rows'[j] = rows[j]
      BY <1>3, <1>4 DEF Inserted
<1> HIDE DEF n, row, L
<1>8. Made(c) = Made(b) \cup {n}
  <2>1. Made(c) = {c.created[k] : k \in 1 .. L + 1} /\ Made(b) = {b.created[k] : k \in 1 .. L}
        BY <1>2 DEF Made, L
  <2>2. 1 .. L + 1 = 1 .. L \cup {L + 1}
        BY <1>2
  <2> QED BY <1>2, <2>1, <2>2
<1>9. DOMAIN rows = DOMAIN b.before \cup Made(b) /\ DOMAIN b.before \cap Made(b) = {}
      BY DEF Since
<1>10. \A k \in 1 .. L : b.created[k] \in DOMAIN rows
      BY <1>9 DEF Made, L
<1>11. \A k, m \in 1 .. Len(c.created) : c.created[k] = c.created[m] => k = m
  <2>1. ASSUME NEW k \in 1 .. L + 1, NEW m \in 1 .. L + 1, c.created[k] = c.created[m]
        PROVE  k = m
    <3>1. CASE k \in 1 .. L /\ m \in 1 .. L
          BY <1>2, <2>1, <3>1 DEF Since, L
    <3>2. CASE k = L + 1 \/ m = L + 1
          BY <1>2, <1>4, <1>10, <2>1, <3>2
    <3> QED BY <1>2, <3>1, <3>2
  <2> QED BY <1>2, <2>1
<1>12. ASSUME NEW k \in 1 .. L + 1, NEW j \in DOMAIN rows', c.created[k] \in References(rows'[j])
       PROVE  \E m \in 1 .. L + 1 : m > k /\ j = c.created[m]
  <2>1. k # L + 1
    <3>1. n \notin References(rows'[j])
          BY <1>4, <1>5, <1>6, <1>7
    <3> QED BY <1>2, <1>12, <3>1
  <2>2. k \in 1 .. L /\ c.created[k] = b.created[k]
        BY <1>2, <2>1
  <2>3. CASE j = n
        BY <1>2, <2>2, <2>3
  <2>4. CASE j # n
    <3>1. j \in DOMAIN rows /\ b.created[k] \in References(rows[j])
          BY <1>7, <1>12, <2>2, <2>4
    <3>2. PICK m \in 1 .. L : m > k /\ j = b.created[m]
          BY <2>2, <3>1 DEF Since, L
    <3> QED BY <1>2, <3>2
  <2> QED BY <2>3, <2>4
<1>13. \A i \in DOMAIN c.before : rows'[i] = c.before[i]
      BY <1>7, <1>9 DEF Since
<1>14. /\ DOMAIN rows' = DOMAIN c.before \cup Made(c) \cup {}
       /\ DOMAIN c.before \cap (Made(c) \cup {}) = {} /\ Made(c) \cap {} = {}
      BY <1>4, <1>7, <1>8, <1>9
<1>15. \A k \in 1 .. Len(c.created), j \in DOMAIN rows' :
          c.created[k] \in References(rows'[j]) =>
              j \in {} \/ \E m \in 1 .. Len(c.created) : m > k /\ j = c.created[m]
      BY <1>2, <1>12
<1> QED BY <1>11, <1>13, <1>14, <1>15 DEF Since, Made, References

LEMMA BatchAnswers ==
    ASSUME OneRequest, IInv, AloneInv, BatchInv, NEW r \in Requests, OperationDone(r)
    PROVE  BatchInv'
<1> DEFINE made == IF req[r].at = "create" THEN Append(batch[r].created, req[r].id)
                   ELSE batch[r].created
<1>0. TypeOK
      BY DEF IInv
<1>1. PICK b, c : b = batch[r] /\ c = [b EXCEPT !.at = "next", !.created = made]
      OBVIOUS
<1>2. b \in BatchState /\ b.at = "run" /\ Enter(r, c) /\ Answered(r)
      BY <1>1 DEF BatchInv, OperationDone
<1>3. /\ b \in [at: {"next", "run", "undo", "undoing"}, size: Nat, created: Seq(Ids),
                clean: BOOLEAN, before: Tables]
      /\ b.created \in Seq(Ids)
      BY <1>2, BatchFields
<1>4. made \in Seq(Ids)
      BY <1>0, <1>1, <1>3, RequestFields
<1> HIDE DEF made
<1>5. c = [[b EXCEPT !.at = "next"] EXCEPT !.created = made]
      BY <1>1
<1>6. /\ c \in BatchState /\ c.at = "next" /\ c.created = made
      /\ c.clean = b.clean /\ c.before = b.before
      BY <1>3, <1>4, <1>5 DEF BatchState
<1>7. ASSUME b.clean PROVE Since(c, {})'
  <2>1. req[r].at = "create" /\ Since(b, {})
        BY <1>1, <1>2, <1>7, RunningCreates
  <2>2. Insert(r)
        BY <1>2, <2>1 DEF Answered, Update, Remove, Removing, Scanning
  <2>3. c.created = Append(b.created, req[r].id)
        BY <1>1, <1>6, <2>1 DEF made
  <2> QED BY <1>2, <1>6, <2>1, <2>2, <2>3, BatchAppends
<1>8. PICK q : q = req'[r]
      OBVIOUS
<1>9. BatchHolds(c, q)'
      BY <1>6, <1>7 DEF BatchHolds
<1> QED BY <1>2, <1>6, <1>8, <1>9, BatchMoves

LEMMA OthersTyped ==
    ASSUME NEW s \in Seq(Ids), s # <<>>
    PROVE  /\ Others(s) \in Seq(Ids) /\ Len(Others(s)) = Len(s) - 1
           /\ \A k \in 1 .. Len(s) - 1 : Others(s)[k] = s[k]
<1> DEFINE L == Len(s)
<1>1. L \in Nat \ {0} /\ \A k \in 1 .. L - 1 : s[k] \in Ids
      OBVIOUS
<1>2. 1 \in Int /\ L - 1 \in Int
      BY <1>1
<1>3. PICK t : t = SubSeq(s, 1, L - 1)
      OBVIOUS
<1>4. /\ t \in Seq(Ids) /\ Len(t) = IF 1 <= L - 1 THEN L - 1 - 1 + 1 ELSE 0
      /\ \A k \in 1 .. L - 1 - 1 + 1 : t[k] = s[1 + k - 1]
  <2>1. PICK n \in Int : n = L - 1
        BY <1>2
  <2>2. \A k \in 1 .. n : s[k] \in Ids
        BY <1>1, <2>1
  <2>3. t = SubSeq(s, 1, n)
        BY <1>3, <2>1
  <2> HIDE DEF L
  <2>4. /\ SubSeq(s, 1, n) \in Seq(Ids) /\ Len(SubSeq(s, 1, n)) = IF 1 <= n THEN n - 1 + 1 ELSE 0
        /\ \A k \in 1 .. n - 1 + 1 : SubSeq(s, 1, n)[k] = s[1 + k - 1]
        BY <1>2, <2>2, SubSeqProperties
  <2> QED BY <2>1, <2>3, <2>4
<1>5. Others(s) = t
      BY <1>3 DEF Others
<1> HIDE DEF L
<1>6. Len(t) = L - 1 /\ \A k \in 1 .. L - 1 : t[k] = s[k]
  <2>1. L - 1 - 1 + 1 = L - 1
        BY <1>1
  <2>2. ASSUME NEW k \in 1 .. L - 1 PROVE t[k] = s[k]
        BY <1>1, <1>4, <2>1, <2>2
  <2> QED BY <1>1, <1>4, <2>1, <2>2
<1> QED BY <1>4, <1>5, <1>6 DEF L

\* The batch without its latest record.
LEMMA LatestFields ==
    ASSUME NEW b \in BatchState, b.at # "none", b.created # <<>>, NEW a \in {"undo", "undoing"}
    PROVE  LET c == [b EXCEPT !.at = a, !.created = Others(@)]
               L == Len(b.created)
           IN  /\ c \in BatchState /\ c.at = a /\ c.clean = b.clean /\ c.before = b.before
               /\ L \in Nat \ {0} /\ Len(c.created) = L - 1
               /\ \A k \in 1 .. L - 1 : c.created[k] = b.created[k]
               /\ Latest(b.created) = b.created[L]
<1> DEFINE c == [b EXCEPT !.at = a, !.created = Others(@)]
           L == Len(b.created)
           less == Others(b.created)
<1>1. /\ b \in [at: {"next", "run", "undo", "undoing"}, size: Nat, created: Seq(Ids),
                clean: BOOLEAN, before: Tables]
      /\ b.created \in Seq(Ids)
      BY BatchFields
<1>2. L \in Nat \ {0}
      BY <1>1
<1>3. /\ less \in Seq(Ids) /\ Len(less) = L - 1
      /\ \A k \in 1 .. L - 1 : less[k] = b.created[k]
      BY <1>1, OthersTyped
<1>4. c = [[b EXCEPT !.at = a] EXCEPT !.created = less]
      OBVIOUS
<1> HIDE DEF less, c
<1>5. /\ c \in BatchState /\ c.at = a /\ c.created = less
      /\ c.clean = b.clean /\ c.before = b.before
      BY <1>1, <1>3, <1>4 DEF BatchState
<1> QED BY <1>2, <1>3, <1>5 DEF c, Latest

\* The latest record is under deletion: nothing refers to it.
LEMMA BatchTakesBack ==
    ASSUME OneRequest, TypeOK, BatchInv, NEW r \in Requests, UndoCreate(r)
    PROVE  BatchInv'
<1> DEFINE x == Latest(batch[r].created)
<1>1. PICK b, c, q : /\ b = batch[r] /\ c = [b EXCEPT !.at = "undoing", !.created = Others(@)]
                     /\ q = [at |-> "delete", stack |-> <<NewFrame(x)>>]
      OBVIOUS
<1>2. /\ b \in BatchState /\ b.at = "undo" /\ b.created # <<>>
      /\ Enter(r, c) /\ UNCHANGED rows /\ req'[r] = q
      BY <1>1 DEF BatchInv, UndoCreate, DeleteRecord, Goto, TypeOK
<1> DEFINE L == Len(b.created)
<1>3. /\ c \in BatchState /\ c.at = "undoing" /\ c.clean = b.clean /\ c.before = b.before
      /\ L \in Nat \ {0} /\ Len(c.created) = L - 1
      /\ \A k \in 1 .. L - 1 : c.created[k] = b.created[k]
      /\ x = b.created[L]
      BY <1>1, <1>2, LatestFields
<1> HIDE DEF x, L
<1>4. ASSUME b.clean PROVE Since(c, {x}) /\ Unreferenced(x)
  <2>1. Since(b, {})
        BY <1>1, <1>2, <1>4 DEF BatchInv, BatchHolds
  <2>2. Made(b) = Made(c) \cup {x}
    <3>1. Made(b) = {b.created[k] : k \in 1 .. L} /\ Made(c) = {c.created[k] : k \in 1 .. L - 1}
          BY <1>3 DEF Made, L
    <3>2. 1 .. L = 1 .. L - 1 \cup {L}
          BY <1>3
    <3>3. Made(c) = {b.created[k] : k \in 1 .. L - 1}
          BY <1>3, <3>1
    <3> HIDE DEF Made
    <3>4. {b.created[k] : k \in 1 .. L} = {b.created[k] : k \in 1 .. L - 1} \cup {b.created[L]}
          BY <3>2
    <3> QED BY <1>3, <3>1, <3>3, <3>4
  <2>3. x \notin Made(c)
    <3>1. ASSUME NEW k \in 1 .. L - 1, c.created[k] = x PROVE FALSE
          BY <1>3, <2>1, <3>1 DEF Since, L
    <3> QED BY <1>3, <3>1 DEF Made
  <2>4. ASSUME NEW k \in 1 .. L, NEW j \in DOMAIN rows, b.created[k] \in References(rows[j])
        PROVE  \E m \in 1 .. L : m > k /\ j = b.created[m]
        BY <2>1, <2>4 DEF Since, L
  <2>5. Unreferenced(x)
        BY <1>3, <2>4 DEF Unreferenced
  <2>6. ASSUME NEW k \in 1 .. L - 1, NEW j \in DOMAIN rows, c.created[k] \in References(rows[j])
        PROVE  j \in {x} \/ \E m \in 1 .. L - 1 : m > k /\ j = c.created[m]
    <3>1. k \in 1 .. L /\ b.created[k] \in References(rows[j])
          BY <1>3, <2>6
    <3>2. PICK m \in 1 .. L : m > k /\ j = b.created[m]
          BY <2>4, <3>1
    <3>3. CASE m = L
          BY <1>3, <3>2, <3>3
    <3>4. CASE m # L
          BY <1>3, <3>2, <3>4
    <3> QED BY <3>3, <3>4
  <2>7. \A k, m \in 1 .. L - 1 : c.created[k] = c.created[m] => k = m
        BY <1>3, <2>1 DEF Since, L
  <2>8. /\ DOMAIN rows = DOMAIN c.before \cup Made(c) \cup {x}
        /\ DOMAIN c.before \cap (Made(c) \cup {x}) = {} /\ Made(c) \cap {x} = {}
        /\ \A i \in DOMAIN c.before : rows[i] = c.before[i]
        BY <1>3, <2>1, <2>2, <2>3 DEF Since
  <2> QED BY <1>3, <2>5, <2>6, <2>7, <2>8 DEF Since
<1>5. q.at = "delete" /\ Len(q.stack) = 1 /\ q.stack[1].id = x /\ DOMAIN q.stack[1].todo = {}
      BY <1>1 DEF NewFrame
<1>6. BatchHolds(c, q)
      BY <1>3, <1>4, <1>5 DEF BatchHolds, Undoing
<1> QED BY <1>2, <1>3, <1>6, BatchReads

LEMMA BatchSkips ==
    ASSUME OneRequest, TypeOK, BatchInv, NEW r \in Requests, SkipMissing(r)
    PROVE  BatchInv'
<1>1. PICK b, c, q : /\ b = batch[r] /\ c = [b EXCEPT !.at = "undo", !.created = Others(@)]
                     /\ q = req[r]
      OBVIOUS
<1>2. /\ b \in BatchState /\ b.at = "undo" /\ b.created # <<>> /\ b = [b EXCEPT !.at = "undo"]
      /\ UNCHANGED rows /\ req'[r] = q
      BY <1>1, BatchFields DEF BatchInv, SkipMissing, vars
<1>3. Enter(r, c)
  <2>1. [b EXCEPT !.created = Others(@)] = c
    <3>1. b.at # "none"
          BY <1>2
    <3> QED BY <1>1, <1>2, <3>1, BatchFields
  <2> QED BY <1>1, <2>1 DEF SkipMissing
<1>4. /\ c \in BatchState /\ c.clean = b.clean
      /\ Len(b.created) \in Nat \ {0} /\ Latest(b.created) = b.created[Len(b.created)]
      BY <1>1, <1>2, LatestFields
<1>5. ~b.clean
  <2>1. SUFFICES ASSUME b.clean PROVE FALSE
        OBVIOUS
  <2>2. Since(b, {})
        BY <1>1, <1>2, <2>1 DEF BatchInv, BatchHolds
  <2>3. Latest(b.created) \in Made(b)
        BY <1>4 DEF Made
  <2> QED BY <1>1, <2>2, <2>3 DEF Since, SkipMissing
<1>6. BatchHolds(c, q)
      BY <1>4, <1>5 DEF BatchHolds
<1> QED BY <1>2, <1>3, <1>4, <1>6, BatchReads

\* The record is gone: the service answers, or the delete of a clean batch
\* can only have failed in the repository.
LEMMA BatchUndid ==
    ASSUME OneRequest, TypeOK, BatchInv, NEW r \in Requests, Undone(r) \/ UndoRefused(r)
    PROVE  BatchInv'
<1>1. PICK b, c, q : b = batch[r] /\ c = [b EXCEPT !.at = "undo"] /\ q = req'[r]
      OBVIOUS
<1>2. /\ b \in BatchState /\ b.at = "undoing" /\ Enter(r, c) /\ (Answered(r) \/ Refused(r))
      BY <1>1 DEF BatchInv, Undone, UndoRefused
<1>3. /\ c \in BatchState /\ c.at = "undo" /\ c.clean = b.clean
      /\ c.created = b.created /\ c.before = b.before
      BY <1>1, <1>2, BatchGoesTo
<1>4. ASSUME b.clean PROVE Since(c, {})'
  <2>1. PICK x : x = Top(r).id
        OBVIOUS
  <2>2. /\ req[r].at = "delete" /\ DOMAIN Top(r).todo = {}
        /\ Unreferenced(x) /\ Since(b, {x})
        BY <1>1, <1>2, <1>4, <2>1, UndoingDeletes
  <2>3. x \in DOMAIN rows
        BY <2>2 DEF Since
  <2>4. ~\E n \in 1 .. Len(ScanOrder) : Refuse(r, n)
    <3>1. ASSUME NEW n \in 1 .. Len(ScanOrder), Refuse(r, n) PROVE FALSE
      <4>1. ScanOrder[n] \in Relations
            BY SchemaAssumption
      <4>2. PICK j \in DOMAIN rows : x \in rows[j].rel[ScanOrder[n]]
            BY <2>1, <3>1 DEF Refuse, Referencing
      <4> QED BY <2>2, <4>1, <4>2 DEF Unreferenced, References
    <3> QED BY <3>1
  <2>5. ~CascadeMissing(r) /\ ~RemoveMissing(r)
        BY <2>1, <2>2, <2>3 DEF CascadeMissing, RemoveMissing
  <2>6. ~ReferenceMissing(r) /\ ~Update(r) /\ ~Insert(r)
        BY <2>2 DEF ReferenceMissing, Update, Insert
  <2>7. rows' = Deleted(x)
        BY <1>2, <2>1, <2>4, <2>5, <2>6 DEF Answered, Refused, Remove
  <2>8. /\ DOMAIN rows' = DOMAIN rows \ {x}
        /\ \A j \in DOMAIN rows' : rows'[j] = rows[j]
        BY <2>7, DeletedTyped DEF TypeOK
  <2>9. Made(c) = Made(b)
        BY <1>3 DEF Made
  <2>10. /\ DOMAIN rows' = DOMAIN c.before \cup Made(c)
         /\ DOMAIN c.before \cap Made(c) = {}
         /\ \A i \in DOMAIN c.before : rows'[i] = c.before[i]
        BY <1>3, <2>2, <2>8, <2>9 DEF Since
  <2>11. ASSUME NEW k \in 1 .. Len(c.created), NEW j \in DOMAIN rows',
                c.created[k] \in References(rows'[j])
         PROVE  \E m \in 1 .. Len(c.created) : m > k /\ j = c.created[m]
    <3>1. j \in DOMAIN rows /\ j # x /\ b.created[k] \in References(rows[j])
          BY <1>3, <2>8, <2>11
    <3> QED BY <1>3, <2>2, <3>1 DEF Since
  <2>12. \A k, m \in 1 .. Len(c.created) : c.created[k] = c.created[m] => k = m
        BY <1>3, <2>2 DEF Since
  <2> QED BY <2>10, <2>11, <2>12 DEF Since, Made, References
<1>5. BatchHolds(c, q)'
      BY <1>3, <1>4 DEF BatchHolds
<1> QED BY <1>1, <1>2, <1>3, <1>5, BatchMoves

\* The delete fails in the repository: the batch is no longer clean.
LEMMA BatchUndoFails ==
    ASSUME OneRequest, TypeOK, BatchInv, NEW r \in Requests, UndoFails(r)
    PROVE  BatchInv'
<1>1. PICK b, c, d, q : /\ b = batch[r] /\ c = [b EXCEPT !.at = "undo"]
                        /\ d = Soiled(c) /\ q = req'[r]
      OBVIOUS
<1>2. b \in BatchState /\ b.at = "undoing" /\ Enter(r, d)
      BY <1>1 DEF BatchInv, UndoFails
<1>3. c \in BatchState /\ c.at # "none"
      BY <1>1, <1>2, BatchGoesTo
<1>4. d \in BatchState /\ ~d.clean
      BY <1>1, <1>3, SoiledHolds
<1>5. BatchHolds(d, q)'
      BY <1>4 DEF BatchHolds
<1> QED BY <1>1, <1>2, <1>4, <1>5, BatchMoves

LEMMA BatchStep ==
    OneRequest /\ IInv /\ AloneInv /\ BatchInv /\ [BatchNext]_batchVars => BatchInv'
<1> SUFFICES ASSUME OneRequest, IInv, AloneInv, BatchInv, [BatchNext]_batchVars
             PROVE  BatchInv'
    OBVIOUS
<1>0. TypeOK
      BY DEF IInv
<1>1. ASSUME NEW r \in Requests, Start(r) PROVE BatchInv'
      BY <1>0, <1>1, BatchStarts
<1>2. ASSUME NEW r \in Requests, GoOn(r) PROVE BatchInv'
  <2>1. CASE Commit(r) \/ Report(r) \/ ProcessDies(r)
        BY <1>0, <2>1, BatchEnds
  <2>2. CASE Reject(r) \/ OperationRefused(r)
        BY <1>0, <2>2, BatchFails
  <2>3. CASE Work(r)
        BY <1>0, <2>3, BatchWorks
  <2>4. CASE OperationDone(r)
        BY <2>4, BatchAnswers
  <2>5. CASE UndoCreate(r)
        BY <1>0, <2>5, BatchTakesBack
  <2>6. CASE SkipMissing(r)
        BY <1>0, <2>6, BatchSkips
  <2>7. CASE Undone(r) \/ UndoRefused(r)
        BY <1>0, <2>7, BatchUndid
  <2> QED BY <1>2, <2>1, <2>2, <2>3, <2>4, <2>5, <2>6, <2>7 DEF GoOn
<1>3. ASSUME NEW r \in Requests, OperationFails(r) PROVE BatchInv'
      BY <1>0, <1>3, BatchFails
<1>4. ASSUME NEW r \in Requests, UndoFails(r) PROVE BatchInv'
      BY <1>0, <1>4, BatchUndoFails
<1>5. CASE UNCHANGED batchVars
  <2>1. UNCHANGED <<rows, req, batch>>
        BY <1>5 DEF batchVars
  <2>2. ASSUME NEW r \in Requests PROVE BatchHolds(batch[r], req[r])'
    <3>1. PICK b, q : b = batch[r] /\ q = req[r]
          OBVIOUS
    <3>2. BatchHolds(b, q)
          BY <3>1 DEF BatchInv
    <3>3. BatchHolds(b, q)'
          BY <2>1, <3>2 DEF BatchHolds, Undoing, Unreferenced, Since
    <3>4. b = batch'[r] /\ q = req'[r]
          BY <2>1, <3>1
    <3> QED BY <3>3, <3>4
  <2> QED BY <2>1, <2>2 DEF BatchInv
<1> QED BY <1>1, <1>2, <1>3, <1>4, <1>5 DEF BatchNext

\* A clean batch that is rolled back has made nothing.
LEMMA RolledBackIsBefore == IInv /\ BatchInv => CreatesAreUndone
<1> SUFFICES ASSUME IInv, BatchInv, NEW r \in Requests, RolledBack(r), batch[r].clean
             PROVE  rows = batch[r].before
    BY DEF CreatesAreUndone
<1>1. PICK b : b = batch[r]
      OBVIOUS
<1>2. b \in BatchState /\ b.at = "undo" /\ b.created = <<>> /\ Since(b, {})
      BY <1>1 DEF BatchInv, BatchHolds, RolledBack
<1>3. rows \in Tables /\ b.before \in Tables
      BY <1>2, BatchFields DEF IInv, TypeOK
<1>4. Made(b) = {}
      BY <1>2 DEF Made
<1>5. DOMAIN rows = DOMAIN b.before /\ \A i \in DOMAIN b.before : rows[i] = b.before[i]
      BY <1>2, <1>4 DEF Since
<1>6. rows \in [DOMAIN rows -> Row] /\ b.before \in [DOMAIN b.before -> Row]
      BY <1>3, TableTyped
<1> QED BY <1>1, <1>5, <1>6

(***************************************************************************)
(* One request at a time: a batch of creates that fails leaves the tables  *)
(* as they were, unless the repository fails while it is undone, whatever  *)
(* the schema makes of references (rollback_operations): the records go    *)
(* in reverse order, each when nothing refers to it any more.              *)
(***************************************************************************)
THEOREM FailedCreatesLeaveNothing == OneRequest => (BatchSpec => []CreatesAreUndone)
<1> SUFFICES ASSUME OneRequest PROVE BatchSpec => []CreatesAreUndone
    OBVIOUS
<1>1. BatchInit => BatchInv
      BY NoBatchHolds DEF BatchInit, BatchInv
<1>2. IInv /\ AloneInv /\ BatchInv /\ [BatchNext]_batchVars => BatchInv'
      BY BatchStep
<1>3. Spec => []AloneInv
      BY AloneInvariance
<1> QED BY <1>1, <1>2, <1>3, BatchUsesService, Invariance, RolledBackIsBefore, PTL
       DEF BatchSpec
=============================================================================
