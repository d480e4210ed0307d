---------------------------- MODULE Collections ----------------------------
(***************************************************************************)
(* Collections: CollectionService (services/collection_service.rs), its    *)
(* handlers (handlers/collections.rs) and the statements schema_repo.rs    *)
(* and fts.rs run.  A collection is a row of _collections with its rows of *)
(* _fields, a table or a view of SQLite, the indexes of the table, and a   *)
(* full-text table when some column is searchable.  Every write is one     *)
(* transaction of the write connection: it happens whole or not at all.    *)
(* What a handler read before it is from an earlier moment.                *)
(*                                                                         *)
(* Names are sequences of words, those an underscore separates: names of   *)
(* indexes and of full-text tables are made by joining names, and two of   *)
(* them may come out the same.                                             *)
(*                                                                         *)
(* Abstractions: names are legal and none begins with an underscore (the   *)
(* system's collections are tables of migrations, not rows of              *)
(* _collections); a column is whether it is required, unique, searchable;  *)
(* a view shows the id and the times of one table; of the columns an auth  *)
(* table adds there is email, the unique one.                              *)
(***************************************************************************)
EXTENDS SequencesExt

CONSTANTS Requests,     \* handlers at work at one time
          Definitions,  \* the collections clients ask for
          Bodies,       \* the bodies of PATCH: definitions with fields left out
          Imports,      \* the lists of definitions clients import
          RowIds,       \* ids of records, each given once
          Values,       \* what a column may hold
          Null,         \* what it may hold, besides
          EmailName,    \* "email", as a value of a column
          MaxChanges    \* bound of the requests that change collections

\* The definitions that come, and the names collections are given.
Asked == Definitions \cup UNION {ToSet(list) : list \in Imports}
Names == {def.name : def \in Asked}
         \cup {body.name : body \in {b \in Bodies : "name" \in DOMAIN b}}

Words == {"", "zb", "rebuild", "fts"} \cup UNION {ToSet(name) : name \in Names}

ASSUME NamesAssumption ==
    \A name \in Names : name \in Seq(Words) /\ name # <<>> /\ name[1] # ""

ASSUME ImportsAssumption == Imports \subseteq Seq(Asked)

NoSource == <<>>   \* the source of what is no view: no name

Email == <<"email">>
CreatedColumn == <<"created">>
AuthColumns(kind) == IF kind = "auth" THEN {Email} ELSE {}

VARIABLES db,      \* what SQLite holds
          req,     \* [Requests -> the handler's work, or Idle]
          changes  \* how many requests to change collections came

vars == <<db, req, changes>>

Idle == [op |-> "idle"]
Nothing == [x \in {} |-> x]

\* A map with an entry put in, and f with the entries of g it has none for.
With(f, name, value) == [x \in DOMAIN f \cup {name} |-> IF x = name THEN value ELSE f[x]]
Over(f, g) == [x \in DOMAIN f \cup DOMAIN g |-> IF x \in DOMAIN f THEN f[x] ELSE g[x]]

Init ==
    /\ db = [catalog |-> Nothing,   \* name -> kind, columns, source: _collections, _fields
             tables |-> Nothing,    \* name -> columns and rows
             views |-> Nothing,     \* name -> the table it shows
             indexes |-> Nothing,   \* name -> table, columns, unique
             fts |-> Nothing]       \* name -> the searchable columns
    /\ req = [r \in Requests |-> Idle]
    /\ changes = 0

----------------------------------------------------------------------------
(* What SQLite does                                                        *)

Free(d, name) == name \notin DOMAIN d.tables \cup DOMAIN d.views \cup DOMAIN d.fts

\* No two rows agree on the columns, a null agreeing with nothing.
Distinct(rows, columns) ==
    \A i, j \in DOMAIN rows :
        i # j => \E c \in columns : rows[i][c] = Null \/ rows[i][c] # rows[j][c]

MeetsConstraints(table) ==
    \A c \in DOMAIN table.columns :
        /\ table.columns[c].required => \A i \in DOMAIN table.rows : table.rows[i][c] # Null
        /\ table.columns[c].unique => Distinct(table.rows, {c})

MeetsIndexes(d, name) ==
    \A x \in DOMAIN d.indexes :
        d.indexes[x].table = name /\ d.indexes[x].unique
            => Distinct(d.tables[name].rows, ToSet(d.indexes[x].columns))

DropTable(d, name) ==
    [d EXCEPT !.tables = Restrict(@, DOMAIN @ \ {name}),
              !.fts = Restrict(@, DOMAIN @ \ {name}),
              !.indexes = Restrict(@, {x \in DOMAIN @ : @[x].table # name})]

\* ALTER TABLE .. RENAME TO: the indexes follow and keep their names.
RenameTable(d, old, new) ==
    [d EXCEPT !.tables = With(Restrict(@, DOMAIN @ \ {old}), new, @[old]),
              !.indexes = [x \in DOMAIN @ |->
                              [table |-> IF @[x].table = old THEN new ELSE @[x].table,
                               columns |-> @[x].columns, unique |-> @[x].unique]]]

\* A rename is refused while some view shows a table that is not there.
ViewsWhole(d) == \A v \in DOMAIN d.views : d.views[v] \in DOMAIN d.tables

----------------------------------------------------------------------------
(* Indexes and full-text tables                                            *)

\* IndexSpec::generate_name
IndexName(table, columns) == table \o FlattenSeq(columns)

\* CREATE INDEX IF NOT EXISTS for each of the list, in order: where names are
\* the same the first is made.
FirstNamed(table, list, x) ==
    list[Min({i \in DOMAIN list : IndexName(table, list[i].columns) = x})]

CreateIndexes(d, table, list) ==
    LET asked == [x \in {IndexName(table, list[i].columns) : i \in DOMAIN list} |->
                     [table |-> table, columns |-> FirstNamed(table, list, x).columns,
                      unique |-> FirstNamed(table, list, x).unique]]
    IN  [d EXCEPT !.indexes = Over(@, asked)]

SystemIndexes(kind) ==
    <<[columns |-> <<CreatedColumn>>, unique |-> FALSE]>>
    \o (IF kind = "auth" THEN <<[columns |-> <<Email>>, unique |-> TRUE]>> ELSE <<>>)

\* collection_to_schema: an index for each column a rule names, if none has it.
RuleIndexes(def) ==
    LET indexed == UNION {ToSet(def.indexes[i].columns) : i \in DOMAIN def.indexes} IN
    SetToSeq({[columns |-> <<c>>, unique |-> FALSE] :
                  c \in (def.ruled \cap DOMAIN def.columns) \ indexed})

Searchable(def) == {c \in DOMAIN def.columns : def.columns[c].searchable}

FtsName(name) == Append(name, "fts")

\* fts_table_exists asks for a table of that name, whatever it is.
FtsExists(d, name) == FtsName(name) \in DOMAIN d.tables \cup DOMAIN d.fts

DropFts(d, name) == IF FtsExists(d, name) THEN DropTable(d, FtsName(name)) ELSE d

AddFts(d, def) ==
    IF Searchable(def) = {} THEN d
    ELSE [d EXCEPT !.fts = With(@, FtsName(def.name), Searchable(def))]

\* Of another table of that name the rebuild of the index makes a failure.
FtsFits(d, def) == Searchable(def) # {} => Free(d, FtsName(def.name))

----------------------------------------------------------------------------
(* The transactions: the database each leaves, none when it fails          *)

Stored(columns) ==
    [c \in DOMAIN columns |-> [required |-> columns[c].required, unique |-> columns[c].unique]]

\* create_user_table, the columns
Physical(kind, columns) ==
    Over(columns, [c \in AuthColumns(kind) |-> [required |-> TRUE, unique |-> TRUE]])

\* No table has two columns of a name.
Declarable(def) == AuthColumns(def.kind) \cap DOMAIN def.columns = {}

CreateTable(d, name, def) ==
    CreateIndexes(
        [d EXCEPT !.tables = With(@, name, [columns |-> Physical(def.kind, Stored(def.columns)),
                                            rows |-> Nothing])],
        name, SystemIndexes(def.kind))

CatalogRow(def, source) ==
    [kind |-> def.kind, columns |-> Stored(def.columns), source |-> source]

\* create_collection_impl
CreatedView(d, def) ==
    IF def.source \notin DOMAIN d.tables THEN {}
    ELSE {[d EXCEPT !.catalog = With(@, def.name, [kind |-> "view", columns |-> Nothing,
                                                   source |-> def.source]),
                    !.views = With(@, def.name, def.source)]}

CreatedTable(d, def) ==
    LET made == CreateIndexes(CreateTable(d, def.name, def), def.name,
                              def.indexes \o RuleIndexes(def))
    IN  IF ~Declarable(def) \/ ~FtsFits(made, def) THEN {}
        ELSE {[AddFts(made, def) EXCEPT
                  !.catalog = With(@, def.name, CatalogRow(def, def.source))]}

Created(d, def) ==
    IF def.name \in DOMAIN d.catalog \/ ~Free(d, def.name) THEN {}
    ELSE IF def.kind = "view" THEN CreatedView(d, def)
    ELSE CreatedTable(d, def)

Temp(name) == <<"", "zb", "rebuild">> \o name

\* Bug: the system columns are copied between the wrong quotes, as strings.
CopiedBug(row, c, kind, kept) ==
    IF c \in AuthColumns(kind) THEN EmailName ELSE IF c \in kept THEN row[c] ELSE Null

\* What a row has in a column of the rebuilt table.  A quoted name that is no
\* column of the old table is taken for a string: the name itself.
Copied(row, c, kind, kept) ==
    IF c \in AuthColumns(kind) THEN IF c \in DOMAIN row THEN row[c] ELSE EmailName
    ELSE IF c \in kept THEN row[c] ELSE Null

\* alter_user_table: create, copy, drop, rename, index.
Rebuilt(d, name, def) ==
    LET temp == CreateTable(d, Temp(def.name), def)
        kept == DOMAIN d.catalog[name].columns \cap DOMAIN def.columns
        old == d.tables[name].rows
        copy == [i \in DOMAIN old |->
                    [c \in DOMAIN temp.tables[Temp(def.name)].columns |->
                        Copied(old[i], c, def.kind, kept)]]
        full == [temp EXCEPT !.tables[Temp(def.name)].rows = copy]
        dropped == DropTable(full, name)
        renamed == RenameTable(dropped, Temp(def.name), def.name)
        new == CreateIndexes(renamed, def.name,
                             SystemIndexes(def.kind) \o def.indexes \o RuleIndexes(def))
    IN  IF /\ Declarable(def)
           /\ MeetsConstraints(full.tables[Temp(def.name)])
           /\ MeetsIndexes(full, Temp(def.name))
           /\ Free(dropped, def.name)
           /\ ViewsWhole(dropped)
           /\ MeetsIndexes(new, def.name)
        THEN {new} ELSE {}

\* update_collection_impl.  The query of a view is not among what it writes.
Recorded(d, name, def) ==
    [d EXCEPT !.catalog = With(Restrict(@, DOMAIN @ \ {name}), def.name,
                               CatalogRow(def, @[name].source))]

\* Bug: the full-text table of the old name is left behind.
RefilledBug(d, name, def) == AddFts(d, def)

Refilled(d, name, def) == AddFts(DropFts(d, name), def)

Updated(d, name, def) ==
    IF \/ name \notin DOMAIN d.catalog
       \/ def.name # name /\ def.name \in DOMAIN d.catalog
       \/ name \notin DOMAIN d.tables   \* a view is not dropped as a table, and neither is what is gone
    THEN {}
    ELSE {Recorded(Refilled(new, name, def), name, def) :
              new \in {x \in Rebuilt(d, name, def) : FtsFits(DropFts(x, name), def)}}

\* delete_collection_impl
Deleted(d, name) ==
    LET known == [d EXCEPT !.catalog = Restrict(@, DOMAIN @ \ {name})] IN
    IF name \notin DOMAIN d.catalog THEN {}
    ELSE IF d.catalog[name].kind # "view" THEN {DropTable(DropFts(known, name), name)}
    ELSE IF name \in DOMAIN d.tables THEN {}
    ELSE {[known EXCEPT !.views = Restrict(@, DOMAIN @ \ {name})]}

----------------------------------------------------------------------------
(* The service and its handlers                                            *)

\* Collection::validate
Valid(def) ==
    /\ def.kind = "view" => def.source # NoSource
    /\ \A i \in DOMAIN def.indexes :
           def.indexes[i].columns # <<>> /\ ToSet(def.indexes[i].columns) \subseteq DOMAIN def.columns

\* get_collection: what is stored of a collection.  The rules and what makes a
\* column searchable are not, and the indexes are all the table has.
ColumnsOf(d, name) ==
    IF d.catalog[name].kind # "view" THEN d.catalog[name].columns
    ELSE IF name \in DOMAIN d.tables
    THEN [c \in DOMAIN d.tables[name].columns |->
             [required |-> d.tables[name].columns[c].required, unique |-> FALSE]]
    ELSE Nothing

IndexesOf(d, name) ==
    SetToSeq({[columns |-> x.columns, unique |-> x.unique] :
                  x \in {y \in Range(d.indexes) : y.table = name}})

Retrieved(d, name) ==
    [name |-> name, kind |-> d.catalog[name].kind, source |-> d.catalog[name].source,
     columns |-> [c \in DOMAIN ColumnsOf(d, name) |->
                     Over([searchable |-> FALSE], ColumnsOf(d, name)[c])],
     indexes |-> IndexesOf(d, name), ruled |-> {}]

Readable(d, name) ==
    /\ name \in DOMAIN d.catalog
    /\ name \in DOMAIN d.views => d.views[name] \in DOMAIN d.tables

Comes == changes < MaxChanges /\ changes' = changes + 1

\* create_collection
Create(def) ==
    /\ Comes
    /\ Valid(def)
    /\ \E new \in Created(db, def) : db' = new
    /\ UNCHANGED req

\* delete_collection
Delete(name) ==
    /\ Comes
    /\ \E new \in Deleted(db, name) : db' = new
    /\ UNCHANGED req

Start(r, work) ==
    /\ Comes
    /\ req[r] = Idle
    /\ req' = [req EXCEPT ![r] = work]
    /\ UNCHANGED db

\* update_collection: the body over what is stored.
Patch(r, name, body) ==
    /\ Readable(db, name)
    /\ Start(r, [op |-> "update", name |-> name, def |-> Over(body, Retrieved(db, name))])

AddIndex(r, name, index) ==
    /\ Readable(db, name)
    /\ Start(r, [op |-> "update", name |-> name,
                 def |-> [Retrieved(db, name) EXCEPT !.indexes = Append(@, index)]])

RemoveIndex(r, name, i) ==
    /\ Readable(db, name)
    /\ i \in DOMAIN Retrieved(db, name).indexes
    /\ Start(r, [op |-> "update", name |-> name,
                 def |-> [Retrieved(db, name) EXCEPT !.indexes = RemoveAt(@, i)]])

\* Whatever becomes of the transaction, the handler answers and is done.
Outcome(outcomes) == IF outcomes = {} THEN {db} ELSE outcomes

Update(r) ==
    /\ req[r].op = "update"
    /\ \E new \in Outcome(IF Valid(req[r].def) THEN Updated(db, req[r].name, req[r].def) ELSE {}) :
           db' = new
    /\ req' = [req EXCEPT ![r] = Idle]
    /\ UNCHANGED changes

\* import_collections: all are validated, then one after the other applied,
\* each in a transaction of its own.
Import(r, list) ==
    /\ list # <<>>
    /\ \A i \in DOMAIN list : Valid(list[i])
    /\ Start(r, [op |-> "look", todo |-> list])

LookUp(r) ==
    /\ req[r].op = "look"
    /\ req' = [req EXCEPT ![r] = [op |-> "apply", todo |-> @.todo,
                                  exists |-> Head(@.todo).name \in DOMAIN db.catalog]]
    /\ UNCHANGED <<db, changes>>

Applied(work) ==
    LET def == Head(work.todo) IN
    IF work.exists THEN Updated(db, def.name, def) ELSE Created(db, def)

ImportOne(r) ==
    /\ req[r].op = "apply"
    /\ \E new \in Outcome(Applied(req[r])) : db' = new
    /\ req' = [req EXCEPT ![r] = IF Applied(req[r]) = {} \/ Len(@.todo) = 1 THEN Idle
                                 ELSE [op |-> "look", todo |-> Tail(@.todo)]]
    /\ UNCHANGED changes

\* A record is created: INSERT, under the constraints of the table.
Insert(name, i, row) ==
    LET new == [db EXCEPT !.tables[name].rows = With(@, i, row)] IN
    /\ \A n \in DOMAIN db.tables : i \notin DOMAIN db.tables[n].rows
    /\ MeetsConstraints(new.tables[name])
    /\ MeetsIndexes(new, name)
    /\ db' = new
    /\ UNCHANGED <<req, changes>>

\* The indexes clients ask for.
Indexes == UNION {ToSet(def.indexes) : def \in Definitions}

Next ==
    \/ \E def \in Definitions : Create(def)
    \/ \E name \in DOMAIN db.catalog : Delete(name)
    \/ \E r \in Requests :
         \/ \E name \in DOMAIN db.catalog : \E body \in Bodies : Patch(r, name, body)
         \/ \E name \in DOMAIN db.catalog : \E index \in Indexes : AddIndex(r, name, index)
         \/ \E name \in DOMAIN db.catalog : \E i \in 1..Cardinality(DOMAIN db.indexes) :
                RemoveIndex(r, name, i)
         \/ \E list \in Imports : Import(r, list)
         \/ Update(r) \/ LookUp(r) \/ ImportOne(r)
    \/ \E name \in DOMAIN db.tables : \E i \in RowIds :
         \E row \in [DOMAIN db.tables[name].columns -> Values \cup {Null}] : Insert(name, i, row)

Spec == Init /\ [][Next]_vars

----------------------------------------------------------------------------
(* Properties                                                              *)

\* The catalog and the database agree after every transaction: each collection
\* has its table or view and nothing else has one, with the columns _fields
\* lists; a full-text table belongs to a collection and covers columns it has;
\* an index belongs to a table; and the rows meet every constraint.
\* (create_, update_ and delete_collection_impl write _collections and _fields
\* and run the DDL as separate statements.)
Matched(d) ==
    /\ DOMAIN d.catalog = DOMAIN d.tables \cup DOMAIN d.views
    /\ DOMAIN d.tables \cap DOMAIN d.views = {}
    /\ \A n \in DOMAIN d.tables :
           /\ d.tables[n].columns = Physical(d.catalog[n].kind, d.catalog[n].columns)
           /\ MeetsConstraints(d.tables[n])
           /\ MeetsIndexes(d, n)
    /\ \A x \in DOMAIN d.fts :
           \E n \in DOMAIN d.tables :
               x = FtsName(n) /\ d.fts[x] \subseteq DOMAIN d.catalog[n].columns
    /\ \A x \in DOMAIN d.indexes : d.indexes[x].table \in DOMAIN d.tables

TablesMatchCatalog == Matched(db)

\* Changing a collection loses no record: unless its own collection is deleted,
\* a record is still in one table, with what it had in every column the table
\* still has.  (alter_user_table copies the rows to a new table by the names of
\* the columns, drops the old one and renames the new one, and the collection
\* may be renamed, or change its type, on the way.)
Holds(d, i) == {n \in DOMAIN d.tables : i \in DOMAIN d.tables[n].rows}

RowSurvives(i) ==
    \A n \in Holds(db, i) :
        \/ DOMAIN db'.catalog = DOMAIN db.catalog \ {n}
        \/ \E m \in Holds(db', i) :
               \A c \in DOMAIN db.tables[n].rows[i] \cap DOMAIN db'.tables[m].rows[i] :
                   db'.tables[m].rows[i][c] = db.tables[n].rows[i][c]

RowsSurvive == [][\A i \in RowIds : RowSurvives(i)]_vars

----------------------------------------------------------------------------
(* The invariant behind them.  It holds where no collection has the name   *)
(* another's full-text table takes: with such names TablesMatchCatalog is  *)
(* violated.                                                               *)

NoFtsClash == \A m, n \in Names : FtsName(m) # n

\* Each row has the columns of its table.
RowsFit(table) == \A i \in DOMAIN table.rows : DOMAIN table.rows[i] = DOMAIN table.columns

Sound(d) ==
    /\ d = [catalog |-> d.catalog, tables |-> d.tables, views |-> d.views,
            indexes |-> d.indexes, fts |-> d.fts]
    /\ \A n \in DOMAIN d.tables :
           /\ d.tables[n] = [columns |-> d.tables[n].columns, rows |-> d.tables[n].rows]
           /\ RowsFit(d.tables[n])
    /\ DOMAIN d.catalog \subseteq Names
    /\ \A v \in DOMAIN d.views : d.catalog[v].kind = "view"
    /\ Matched(d)

\* A handler works on legal names, and an import under way is not yet done.
Legal(work) ==
    /\ work.op = "update" => work.def.name \in Names
    /\ work.op \in {"look", "apply"} => work.todo \in Seq(Asked) /\ work.todo # <<>>

IInv ==
    /\ Sound(db)
    /\ req = [r \in Requests |-> req[r]]
    /\ \A r \in Requests : Legal(req[r])

\* No field is called email.  Nothing keeps a base collection from one; its
\* values go to the login's column when the collection becomes an auth
\* collection with no such field, and to nowhere on the way back.
NoEmailField ==
    /\ \A def \in Asked : Email \notin DOMAIN def.columns
    /\ \A body \in Bodies : "columns" \in DOMAIN body => Email \notin DOMAIN body.columns

\* Then no collection gets one.
OwnColumns ==
    /\ \A n \in DOMAIN db.catalog : Email \notin DOMAIN db.catalog[n].columns
    /\ \A r \in Requests : req[r].op = "update" => Email \notin DOMAIN req[r].def.columns
=============================================================================
