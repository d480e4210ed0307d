------------------------------- MODULE Expand -------------------------------
(***************************************************************************)
(* The expansion of relations in an answer: services/expand.rs.            *)
(*                                                                         *)
(* A schema maps a collection to its fields and rules.  A back-relation    *)
(* "<collection>_via_<field>" is the step <<collection, field>>, a forward *)
(* relation the step <<field>>.  The expansion of a record is a function   *)
(* from steps to the sequence of the records found there, each with its    *)
(* own expansion; the cap of 100 back-relations is out of reach here.      *)
(***************************************************************************)
EXTENDS Rules

CONSTANT MaxExpandDepth

ASSUME DepthAssumption == MaxExpandDepth \in Nat

\* A rule is open, locked, or <<"rule", tokens>>.
Open   == <<"open">>
Locked == <<"locked">>

IsAuthenticated(who) == "id" \in DOMAIN who.auth

\* evaluate_rule_str, where every error counts as a refusal.
Granted(tree, ctx, record) == tree # <<"error">> /\ Holds(tree, ctx, record)

Passes(rule, who, method, record) ==
  CASE rule = Open   -> TRUE
    [] rule = Locked -> FALSE
    [] OTHER -> Granted(Parsed("rule", rule[2]),
                        [auth |-> who.auth, data |-> <<>>, method |-> method], record)

\* user_has_manage_access; an empty manage rule still asks for an identity.
Manages(rules, who, method, record) ==
  \/ who.superuser
  \/ rules.manage = Open /\ IsAuthenticated(who)
  \/ rules.manage # Open /\ Passes(rules.manage, who, method, record)

\* can_view_expanded_record
CanView(rules, who, record) ==
  Manages(rules, who, "GET", record) \/ Passes(rules.view, who, "GET", record)

----------------------------------------------------------------------------

\* RelationOptions::extract_ids
ExtractIds(v) ==
  CASE IsString(v) /\ Length[v[2]] > 0 -> <<v[2]>>
    [] IsArray(v) -> LET ids == SelectSeq(v[2], Named) IN [i \in DOMAIN ids |-> ids[i][2]]
    [] OTHER -> << >>

IsRelation(schema, c, name) ==
  name \in DOMAIN schema[c].fields /\ schema[c].fields[name].type = "relation"

\* resolve_expand_kind: a step that is no relation of the collection is skipped.
Resolves(schema, c, step) ==
  IF Len(step) = 1 THEN IsRelation(schema, c, step[1])
  ELSE /\ step[1] \in DOMAIN schema
       /\ IsRelation(schema, step[1], step[2])
       /\ schema[step[1]].fields[step[2]].collection = c

TargetOf(schema, c, step) ==
  IF Len(step) = 1 THEN schema[c].fields[step[1]].collection ELSE step[1]

\* find_one on each id, or find_referencing_records_limited in the order of the table.
RefersTo(row, field, id) == id \in ToSet(ExtractIds(FromSql(row[field])))

Candidates(schema, rows, c, id, step) ==
  LET target == TargetOf(schema, c, step) IN
  IF Len(step) = 1
  THEN SelectSeq(ExtractIds(FromSql(rows[c][id][step[1]])), LAMBDA r : r \in DOMAIN rows[target])
  ELSE SetToSortSeq({r \in DOMAIN rows[target] : RefersTo(rows[target][r], step[2], id)},
                    LAMBDA a, b : Rank[a] < Rank[b])

Single(schema, c, step) == Len(step) = 1 /\ schema[c].fields[step[1]].maxSelect = 1

Roots(paths) == {p[1] : p \in paths}
\* group_by_root
ChildPaths(paths, step) == {Tail(p) : p \in {q \in paths : q[1] = step /\ Len(q) > 1}}

\* A mistake to guard against: a field is taken once on the way down, whatever the record.
KeyBug(c, id, step) == <<c, step>>

\* The record visited and the step: expand_record never takes the same one
\* twice on the way down, and forgets it on the way up.  (It forgets no step
\* that found nothing, which would find nothing again.)
Key(c, id, step) == <<c, id, step>>

Kept(single, seen) == IF single /\ seen # << >> THEN <<seen[1]>> ELSE seen

Visible(schema, rows, who, c, id, step) ==
  LET target == TargetOf(schema, c, step) IN
  Kept(Single(schema, c, step),
       SelectSeq(Candidates(schema, rows, c, id, step),
         LAMBDA r : CanView(schema[target].rules, who, ReadBack(rows[target][r]))))

\* expand_record, for a record whose fields were all fetched.
Taken(schema, c, id, paths, visited) ==
  {s \in Roots(paths) : Key(c, id, s) \notin visited /\ Resolves(schema, c, s)}

RECURSIVE Expansion(_, _, _, _, _, _, _, _)
Expansion(schema, rows, who, c, id, paths, visited, depth) ==
  LET Found == [s \in Taken(schema, c, id, paths, visited) |->
                  Visible(schema, rows, who, c, id, s)]
      Below(s, r) == Expansion(schema, rows, who, TargetOf(schema, c, s), r,
                               ChildPaths(paths, s), visited \cup {Key(c, id, s)}, depth + 1)
      Attached(found) == [s \in {t \in DOMAIN found : found[t] # << >>} |->
              [i \in DOMAIN found[s] |->
                 [id |-> found[s][i], expand |-> Below(s, found[s][i])]]]
  IN  IF paths = {} \/ depth > MaxExpandDepth THEN << >> ELSE Attached(Found)

=============================================================================
