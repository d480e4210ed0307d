------------------------------- MODULE Access -------------------------------
(***************************************************************************)
(* Record requests over HTTP, from the access rule to the stored row and   *)
(* back: handlers/records.rs over record_service.rs, record_validator.rs   *)
(* and record_repo.rs.  Fields says what becomes of a value, Rules what a  *)
(* rule or filter means, Expand what is added to an answer.                *)
(*                                                                         *)
(* A handler reads a record, checks its rule, takes the body in and only   *)
(* then calls the service, which reads the record again: an update or a    *)
(* delete is two steps.  A refused request changes nothing and is no step. *)
(* References, cascades, auth records and files have modules of their own. *)
(***************************************************************************)
EXTENDS Expand, FiniteSets

CONSTANTS
  Requests,  \* requests that may be in flight together
  Ids,       \* ids of records
  MaxTime,   \* bound of the clock
  Scenes     \* name -> what a run starts from: schema, rows, callers, inputs and queries

VARIABLES
  scene,     \* the name of the scene played; it never changes
  rows,      \* [collection -> [id -> row of SQL values]]
  now,
  req,       \* [Requests -> request in flight]
  left,      \* how many requests may still start
  event,     \* the last change broadcast
  \* history
  seen       \* [Requests -> the states its record was in since it was checked]

vars == <<scene, rows, now, req, left, event, seen>>

----------------------------------------------------------------------------

Given == Scenes[scene]

\* all_fields_for_validation of a base collection.
SystemFields ==
  [ id      |-> [type |-> "text", required |-> TRUE, min |-> 15, max |-> 15, pattern |-> {}],
    created |-> [type |-> "autoDate", required |-> FALSE, onCreate |-> TRUE, onUpdate |-> FALSE],
    updated |-> [type |-> "autoDate", required |-> FALSE, onCreate |-> TRUE, onUpdate |-> TRUE] ]

AllFields(c) == Given.schema[c].fields @@ SystemFields
RulesOf(c)   == Given.schema[c].rules

Idle    == [at |-> "idle"]
NoEvent == [action |-> "none"]
Record(c, id) == ReadBack(rows[c][id])
Exists(c, id) == id \in DOMAIN rows[c]

Init ==
  /\ scene \in DOMAIN Scenes
  /\ rows = Given.rows
  /\ now = 0
  /\ req = [q \in Requests |-> Idle]
  /\ left = Given.requests
  /\ event = NoEvent
  /\ seen = [q \in Requests |-> {}]

\* enforce_rule_on_record
Permitted(c, op, method, who, record) ==
  \/ Manages(RulesOf(c), who, method, record)
  \/ Passes(RulesOf(c)[op], who, method, record)

\* validate_relation_references
ReferencesExist(c, record) ==
  \A n \in DOMAIN Given.schema[c].fields :
    IsRelation(Given.schema, c, n) =>
      ToSet(ExtractIds(At(record, n))) \subseteq DOMAIN rows[Given.schema[c].fields[n].collection]

Accepted(c, record) == ValidRecord(AllFields(c), record) /\ ReferencesExist(c, record)

\* Every open request whose record this is has seen the state the row is in now.
Saw(c, id, row) ==
  [q \in Requests |->
     IF req[q].at # "idle" /\ req[q].c = c /\ req[q].id = id THEN seen[q] \cup {row} ELSE seen[q]]

Write(c, id, record, action) ==
  LET row == Stored(AllFields(c), record) IN
  /\ rows' = [rows EXCEPT ![c] = (id :> row) @@ @]
  /\ event' = [action |-> action, c |-> c, id |-> id, record |-> record]
  /\ seen' = Saw(c, id, row)

----------------------------------------------------------------------------
(* POST: the rule sees the body as it was sent.                            *)

Create(who, c, body, id) ==
  /\ left > 0
  /\ Permitted(c, "create", "POST", who, body)
  /\ ~Exists(c, id)
  /\ LET record == PreparedRecord(AllFields(c), (("id" :> String(id)) @@ body), "create", now)
     IN  /\ Accepted(c, record)
         /\ Write(c, id, record, "create")
  /\ left' = left - 1
  /\ UNCHANGED <<scene, now, req>>

----------------------------------------------------------------------------
(* PATCH and DELETE: the rule sees the record as the handler finds it.     *)

\* A mistake to guard against: the rule sees the record as it is to become.
JudgedBug(c, id, body) == body @@ Record(c, id)

Judged(c, id, body) == Record(c, id)

Begin(q, who, c, id, at, body) ==
  /\ req[q] = Idle
  /\ left > 0
  /\ Exists(c, id)
  /\ req' = [req EXCEPT ![q] = [at |-> at, who |-> who, c |-> c, id |-> id, body |-> body,
                             record |-> Record(c, id)]]
  /\ seen' = [seen EXCEPT ![q] = {rows[c][id]}]
  /\ left' = left - 1
  /\ UNCHANGED <<scene, rows, now, event>>

CheckUpdate(q, who, c, id, body) ==
  /\ Begin(q, who, c, id, "update", body)
  /\ Permitted(c, "update", "PATCH", who, Judged(c, id, body))

CheckDelete(q, who, c, id) ==
  /\ Begin(q, who, c, id, "delete", << >>)
  /\ Permitted(c, "delete", "DELETE", who, Judged(c, id, << >>))

\* The service reads the record again, lays the body over it and writes it whole.
Update(q) ==
  LET c == req[q].c
      id == req[q].id
      record == PreparedRecord(AllFields(c), req[q].body @@ Record(c, id), "update", now)
  IN  /\ req[q].at = "update"
      /\ req' = [req EXCEPT ![q] = Idle]
      /\ IF Exists(c, id) /\ Accepted(c, record)
         THEN Write(c, id, record, "update")
         ELSE UNCHANGED <<rows, event, seen>>
      /\ UNCHANGED <<scene, now, left>>

Without(f, id) == [k \in DOMAIN f \ {id} |-> f[k]]

\* The event carries the record as the handler found it.
Delete(q) ==
  LET c == req[q].c
      id == req[q].id
  IN  /\ req[q].at = "delete"
      /\ req' = [req EXCEPT ![q] = Idle]
      /\ IF Exists(c, id)
         THEN /\ rows' = [rows EXCEPT ![c] = Without(@, id)]
              /\ event' = [action |-> "delete", c |-> c, id |-> id, record |-> req[q].record]
         ELSE UNCHANGED <<rows, event>>
      /\ UNCHANGED <<scene, now, left, seen>>

Tick == now < MaxTime /\ now' = now + 1 /\ UNCHANGED <<scene, rows, req, left, event, seen>>

Next ==
  \/ \E who \in Given.callers, c \in DOMAIN rows, id \in Given.ids :
       \/ \E body \in Given.bodies[c] : Create(who, c, body, id)
       \/ \E q \in Given.inFlight :
            \/ \E body \in Given.patches[c] : CheckUpdate(q, who, c, id, body)
            \/ CheckDelete(q, who, c, id)
  \/ \E q \in Requests : Update(q) \/ Delete(q)
  \/ Tick

Spec == Init /\ [][Next]_vars

----------------------------------------------------------------------------
(* Reading.                                                                *)

NoFilter == << >>

\* find_many, count: the rows the WHERE clause of the filter selects.
Selected(c, filter) ==
  IF filter = NoFilter THEN DOMAIN rows[c]
  ELSE {id \in DOMAIN rows[c] : Where(Parsed("filter", filter), AllFields(c), rows[c][id]) = "true"}

\* check_list_rule judges an empty record: the rule never sees a record.
MayList(c, who) == Permitted(c, "list", "GET", who, << >>)

Listed(c, who, filter) == IF MayList(c, who) THEN Selected(c, filter) ELSE {}

\* expand_records, and the expansion of a record that is viewed.
Expanded(c, who, id, paths) == Expansion(Given.schema, rows, who, c, id, paths, {}, 0)

----------------------------------------------------------------------------
(* Properties.                                                             *)

\* Rows have every column of their collection, requests a record to work on.
TypeOK ==
  /\ \A c \in DOMAIN rows :
       /\ DOMAIN rows[c] \subseteq Ids
       /\ \A id \in DOMAIN rows[c] : DOMAIN rows[c][id] = DOMAIN AllFields(c)
  /\ \A q \in Requests : req[q] # Idle => req[q].at \in {"update", "delete"} /\ seen[q] # {}
  /\ now \in 0..MaxTime
  /\ left \in Nat

\* A text that reads like a JSON array or object comes back as one, and the field
\* that stored it refuses it from then on: a known defect, kept out of what follows.
HoldsArrays(f) ==
  f.type \in {"json", "multiSelect"} \/ (f.type \in {"file", "relation"} /\ f.maxSelect # 1)

Misread(c, id) ==
  \E n \in DOMAIN rows[c][id] :
    /\ ~HoldsArrays(AllFields(c)[n])
    /\ FromSql(rows[c][id][n])[1] \in {"array", "object"}

\* A stored record can always be updated: what the database gives back passes the
\* validation of an update that changes nothing, which leaves every column as it is but
\* the dates an update sets.  update_record validates and writes the whole row, so a field
\* whose value does not survive the way to SQLite and back blocks updates of all others.
RowsStayWritable ==
  \A c \in DOMAIN rows : \A id \in DOMAIN rows[c] :
    ~Misread(c, id) =>
      LET record == PreparedRecord(AllFields(c), Record(c, id), "update", now)
          again  == Stored(AllFields(c), record)
      IN  /\ ValidRecord(AllFields(c), record)
          /\ \A n \in DOMAIN again :
               Injected(AllFields(c)[n], "update") \/ again[n] = rows[c][id][n]

\* The conditions of a rule or filter.
RECURSIVE Conditions(_)
Conditions(tree) ==
  CASE tree[1] \in {"or", "and"} -> Conditions(tree[2]) \cup Conditions(tree[3])
    [] tree[1] \in {"not", "group"} -> Conditions(tree[2])
    [] OTHER -> {tree}

\* The record that is answered and broadcast is not the one the database gives back: a
\* boolean comes back as 0 or 1 and a scalar of a json field as a text.  A condition tells
\* the two apart if it asks for the text of a boolean, for the order of two booleans or for
\* one to contain another, or for anything but presence of a json value.
Steady(c, cond) ==
  \A i \in {2, 4} : cond[i][1] = "field" =>
    LET f == AllFields(c)[cond[i][2][1]]
        v == cond[6 - i]
    IN  CASE f.type = "bool" -> /\ v[1] = "value" /\ ~IsString(v[2])
                                /\ IsBool(v[2]) => BaseOf(cond[3]) \in {"=", "!="}
          [] f.type = "json" -> v[1] = "value" /\ IsNull(v[2]) /\ cond[3] \in {"=", "!="}
          [] OTHER           -> TRUE

\* Apart from those conditions, and from texts that are misread, nobody may see the one
\* record and not the other, whatever the view rule: the realtime hub, which judges the
\* record that is broadcast, and the view handler, which judges the stored one, agree.
VerdictSurvivesStorage ==
  event.action \in {"create", "update"} /\ ~Misread(event.c, event.id) =>
    \A who \in Given.callers, rule \in Given.views[event.c] :
      LET rules == [RulesOf(event.c) EXCEPT !["view"] = <<"rule", rule>>] IN
      (\A cond \in Conditions(Parsed("rule", rule)) : Steady(event.c, cond)) =>
        (CanView(rules, who, event.record) <=> CanView(rules, who, Record(event.c, event.id)))

\* What the author of a rule meant by it.
Means(c, op, method, who, record) ==
  LET rule == RulesOf(c)[op] IN
  CASE rule = Open -> TRUE
    [] rule = Locked -> FALSE
    [] OTHER -> Holds(Given.trees[c][op], [auth |-> who.auth, data |-> << >>, method |-> method], record)

\* Nobody changes or deletes a record unless they are a superuser, or the rule, as it was
\* meant, allowed it in some state the record was in while the request ran.  (Between the
\* check and the write another request may have changed the record.)
OnlyPermittedWrites ==
  [][ \A c \in DOMAIN rows : \A id \in DOMAIN rows[c] :
        ~(id \in DOMAIN rows'[c] /\ rows'[c][id] = rows[c][id]) =>
          \E q \in Requests :
            /\ req[q].at # "idle" /\ req[q].c = c /\ req[q].id = id /\ req'[q] = Idle
            /\ \/ req[q].who.superuser
               \/ \E row \in seen[q] :
                    Means(c, req[q].at, IF req[q].at = "update" THEN "PATCH" ELSE "DELETE",
                          req[q].who, ReadBack(row)) ]_vars

\* A condition of a filter whose literal has the type of what the column holds, and whose
\* operator is for such values.  SQLite and the rule engine convert others differently.
Apt(f, op, v) ==
  CASE IsNull(v)                  -> op \in BaseOps
    [] f.type = "json"            -> FALSE
    [] f.type = "number"          -> IsNumber(v) /\ op \in BaseOps \ {"~", "!~"}
    [] f.type = "bool"            -> IsBool(v) /\ op \in BaseOps \ {"~", "!~"}
    [] HoldsArrays(f)             -> IsString(v) /\ op \in DOMAIN AnyOps
    [] OTHER                      -> IsString(v) /\ op \in BaseOps

\* "!=" between a literal and a column that holds nothing: SQL selects no such row, a rule
\* accepts it.
MeetsNull(op, x, v) == op \in {"!=", "?!="} /\ x = SqlNull /\ ~IsNull(v)

\* "%" and "_" in the literal are wildcards in SQL and stand for themselves in a rule, and
\* only a rule finds a letter beyond ASCII in the other case.
Foreign(s) == \E i \in DOMAIN Spelling[s] : Lower[Spelling[s][i]] # AsciiLower[Spelling[s][i]]

Texts(x) ==
  CASE x[1] = "text" /\ x[2] \in DOMAIN Container ->
         {Container[x[2]][2][i][2] : i \in DOMAIN Container[x[2]][2]}
    [] x[1] = "text" -> {x[2]}
    [] OTHER         -> {}

MeetsPattern(op, x, v) ==
  /\ BaseOf(op) \in {"~", "!~"} /\ IsString(v)
  /\ \/ ToSet(Spelling[v[2]]) \cap {"%", "_"} # {}
     \/ \E s \in Texts(x) \cup {v[2]} : Foreign(s)

Agreed(c, row, cond) ==
  LET n == cond[2][2][1]
      v == cond[4][2]
  IN  /\ Apt(AllFields(c)[n], cond[3], v)
      /\ ~MeetsNull(cond[3], row[n], v)
      /\ ~MeetsPattern(cond[3], row[n], v)

\* The same condition means the same to the two implementations: a filter selects in SQL
\* the rows a rule with its text accepts in memory, as long as each of its conditions is
\* one that means the same to both (Agreed names those that do not).
FilterAgreesWithRule ==
  \A c \in DOMAIN rows : \A filter \in Given.filters[c] :
    LET tree == Parsed("rule", filter) IN
    \A id \in DOMAIN rows[c] :
      ~Misread(c, id) /\ (\A cond \in Conditions(tree) : Agreed(c, rows[c][id], cond)) =>
        (id \in Selected(c, filter)
           <=> Holds(tree, [auth |-> << >>, data |-> << >>, method |-> "GET"], Record(c, id)))

\* The records a chain of steps leads through: each a visible candidate of the one before
\* it, and no record taken twice by the same step.
CollectionAt(c, path, i) ==
  FoldLeft(LAMBDA d, s : TargetOf(Given.schema, d, s), c, SubSeq(path, 1, i - 1))

Leads(c, who, path, chain) ==
  /\ \A i \in DOMAIN path :
       LET d == CollectionAt(c, path, i) IN
       /\ Resolves(Given.schema, d, path[i])
       /\ Exists(d, chain[i])
       /\ chain[i + 1] \in ToSet(Visible(Given.schema, rows, who, d, chain[i], path[i]))
  /\ \A i, j \in DOMAIN path :
       i # j => <<CollectionAt(c, path, i), chain[i], path[i]>>
                  # <<CollectionAt(c, path, j), chain[j], path[j]>>

RECURSIVE Shows(_, _, _)
Shows(tree, path, chain) ==
  path = << >> \/ ( /\ path[1] \in DOMAIN tree
                    /\ \E i \in DOMAIN tree[path[1]] :
                         /\ tree[path[1]][i].id = chain[2]
                         /\ Shows(tree[path[1]][i].expand, Tail(path), Tail(chain)) )

\* An expansion holds every chain of visible records a requested path leads along, and no
\* other, however the paths overlap and whatever cycles the relations form.
ExpansionIsExact ==
  \A c \in DOMAIN rows : \A id \in DOMAIN rows[c], who \in Given.callers :
    \A paths \in Given.expands[c] :
      LET tree == Expanded(c, who, id, paths) IN
      \A path \in paths : \A rest \in [1..Len(path) -> Ids] :
        LET chain == <<id>> \o rest IN
        Leads(c, who, path, chain) <=> Shows(tree, path, chain)

\* The tokens of a tree, with the parentheses it needs: around an operand whose
\* connective binds less tight, or as tight on the right.
Enclosed(yes, q) == IF yes THEN <<<<"(">>>> \o q \o <<<<")">>>> ELSE q

RECURSIVE Tokens(_)
Tokens(tree) ==
  CASE tree[1] = "is"  -> << <<"operand", tree[2]>>, <<"op", tree[3]>>, <<"operand", tree[4]>> >>
    [] tree[1] = "not" -> <<<<"!">>>> \o Enclosed(tree[2][1] \in {"or", "and"}, Tokens(tree[2]))
    [] tree[1] = "and" -> Enclosed(tree[2][1] = "or", Tokens(tree[2])) \o <<<<"&&">>>>
                          \o Enclosed(tree[3][1] \in {"or", "and"}, Tokens(tree[3]))
    [] tree[1] = "or"  -> Tokens(tree[2]) \o <<<<"||">>>>
                          \o Enclosed(tree[3][1] = "or", Tokens(tree[3]))

RECURSIVE Ungrouped(_)
Ungrouped(tree) ==
  CASE tree[1] \in {"or", "and"} -> <<tree[1], Ungrouped(tree[2]), Ungrouped(tree[3])>>
    [] tree[1] = "not"   -> <<"not", Ungrouped(tree[2])>>
    [] tree[1] = "group" -> Ungrouped(tree[2])
    [] OTHER             -> tree

RECURSIVE Filterable(_)
Filterable(tree) ==
  CASE tree[1] \in {"or", "and"} -> Filterable(tree[2]) /\ Filterable(tree[3])
    [] tree[1] = "not" -> FALSE
    [] OTHER -> tree[2][1] = "field" /\ tree[4][1] = "value"

\* Both parsers give "&&" precedence over "||" and "!" over both: written with no more
\* parentheses than that needs, an expression is read as it was meant.  No request has
\* a part in it: it is judged where the scene starts.
ReadsAsMeant ==
  left = Given.requests => \A tree \in Given.expressions :
    /\ Ungrouped(Parsed("rule", Tokens(tree))) = tree
    /\ Filterable(tree) => Ungrouped(Parsed("filter", Tokens(tree))) = tree

=============================================================================
