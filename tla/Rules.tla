-------------------------------- MODULE Rules --------------------------------
(***************************************************************************)
(* Access rules and filters: the recursive descent parsers of              *)
(* schema/rule_parser.rs and db/filter.rs, the in-memory evaluation of     *)
(* schema/rule_engine.rs, and the WHERE clause filter.rs generates, with   *)
(* what SQLite makes of it.                                                *)
(*                                                                         *)
(* An expression is a sequence of tokens (the tokenizers are left out: a   *)
(* token is a tuple).  A syntax tree is <<"or", a, b>>, <<"and", a, b>>,   *)
(* <<"not", a>>, <<"group", a>> or <<"is", operand, operator, operand>>.   *)
(***************************************************************************)
EXTENDS Fields

CONSTANTS
  Rank,        \* string -> its place in the order of strings
  Spelling,    \* string -> its characters
  Lower,       \* character -> its lower case
  AsciiLower,  \* character -> its lower case, if it is an ASCII letter
  RealText     \* number -> the text SQLite makes of a REAL

----------------------------------------------------------------------------
(* Operators.                                                              *)

BaseOps == {"=", "!=", ">", ">=", "<", "<=", "~", "!~"}

\* any_to_base_op
AnyOps ==
  [ op \in {"?=", "?!=", "?>", "?>=", "?<", "?<=", "?~", "?!~"} |->
      CASE op = "?=" -> "=" [] op = "?!=" -> "!=" [] op = "?>"  -> ">"
        [] op = "?>=" -> ">=" [] op = "?<" -> "<" [] op = "?<=" -> "<="
        [] op = "?~" -> "~" [] op = "?!~" -> "!~" ]

Operators == BaseOps \cup DOMAIN AnyOps

\* What an operator says of a pair, given which comes first and whether they are equal.
Ordered(op, less, equal) ==
  CASE op = "="  -> equal
    [] op = "!=" -> ~equal
    [] op = ">"  -> ~less /\ ~equal
    [] op = ">=" -> ~less
    [] op = "<"  -> less
    [] op = "<=" -> less \/ equal

----------------------------------------------------------------------------
(* Parsing.  A parser takes the tokens and a place, and answers the tree   *)
(* it read with the place after it, or Fail.                               *)

Fail == [tree |-> <<"error">>, next |-> 0]
Read(tree, next) == [tree |-> tree, next |-> next]
Failed(p) == p.next = 0

Token(q, i) == IF i <= Len(q) THEN q[i] ELSE <<"end">>
IsOperator(t) == t[1] = "op"
IsOperand(t)  == t[1] = "operand"

\* rule_parser.rs: any operand on either side.
RuleCondition(q, i) ==
  IF IsOperand(Token(q, i)) /\ IsOperator(Token(q, i + 1)) /\ IsOperand(Token(q, i + 2))
  THEN Read(<<"is", q[i][2], q[i + 1][2], q[i + 2][2]>>, i + 3)
  ELSE Fail

\* filter.rs: a field on the left, a literal on the right.
FilterCondition(q, i) ==
  IF IsOperand(Token(q, i)) /\ q[i][2][1] = "field"
     /\ IsOperand(Token(q, i + 2)) /\ q[i + 2][2][1] = "value"
  THEN RuleCondition(q, i) ELSE Fail

Condition(dialect, q, i) ==
  IF dialect = "rule" THEN RuleCondition(q, i) ELSE FilterCondition(q, i)

RECURSIVE ParseOr(_, _, _), MoreOr(_, _, _), ParseAnd(_, _, _), MoreAnd(_, _, _),
          ParseUnary(_, _, _)

\* What was read between parentheses, after a "!", and on both sides of a connective.
Closed(q, inner) ==
  IF Failed(inner) \/ Token(q, inner.next) # <<")">> THEN Fail
  ELSE Read(<<"group", inner.tree>>, inner.next + 1)

Negated(inner) ==
  IF Failed(inner) THEN Fail ELSE Read(<<"not", inner.tree>>, inner.next)

Joined(word, left, right) ==
  IF Failed(right) THEN Fail ELSE Read(<<word, left.tree, right.tree>>, right.next)

ParsePrimary(dialect, q, i) ==
  IF Token(q, i) = <<"(">> THEN Closed(q, ParseOr(dialect, q, i + 1))
  ELSE Condition(dialect, q, i)

\* Only the rules know negation.
ParseUnary(dialect, q, i) ==
  IF dialect = "rule" /\ Token(q, i) = <<"!">>
  THEN Negated(ParseUnary(dialect, q, i + 1))
  ELSE ParsePrimary(dialect, q, i)

Continues(q, left, signs) == ~Failed(left) /\ Token(q, left.next) \in signs

MoreAnd(dialect, q, left) ==
  IF ~Continues(q, left, {<<"&&">>}) THEN left
  ELSE MoreAnd(dialect, q, Joined("and", left, ParseUnary(dialect, q, left.next + 1)))

ParseAnd(dialect, q, i) == MoreAnd(dialect, q, ParseUnary(dialect, q, i))

\* A mistake to guard against: both connectives read at one level, left to right.
MoreOrBug(dialect, q, left) ==
  IF ~Continues(q, left, {<<"||">>, <<"&&">>}) THEN left
  ELSE MoreOr(dialect, q, Joined(IF Token(q, left.next) = <<"||">> THEN "or" ELSE "and",
                                 left, ParseUnary(dialect, q, left.next + 1)))

MoreOr(dialect, q, left) ==
  IF ~Continues(q, left, {<<"||">>}) THEN left
  ELSE MoreOr(dialect, q, Joined("or", left, ParseAnd(dialect, q, left.next + 1)))

ParseOr(dialect, q, i) == MoreOr(dialect, q, ParseAnd(dialect, q, i))

\* Parser::parse: nothing may be left over.
Whole(q, p) == IF Failed(p) \/ p.next # Len(q) + 1 THEN <<"error">> ELSE p.tree

Parsed(dialect, q) == Whole(q, ParseOr(dialect, q, 1))

----------------------------------------------------------------------------
(* Evaluation in memory.                                                   *)

\* resolve_field_path, resolve_context_field: step into objects.
Inside(v, name) == IF v[1] = "object" /\ name \in DOMAIN v[2] THEN v[2][name] ELSE Null
Along(record, path) == FoldLeft(Inside, At(record, path[1]), Tail(path))

\* json_to_resolved: an object is compared by its text.
Resolved(v) == IF v[1] = "object" THEN String(JsonText[v]) ELSE v

\* ctx is [auth, data, method]; the handlers fill in auth and method only.
Value(operand, ctx, record) ==
  CASE operand[1] = "field"  -> Resolved(Along(record, operand[2]))
    [] operand[1] = "auth"   -> IF DOMAIN ctx.auth = {} THEN String("")
                                ELSE Resolved(Along(ctx.auth, operand[2]))
    [] operand[1] = "data"   -> Resolved(Along(ctx.data, operand[2]))
    [] operand[1] = "method" -> String(ctx.method)
    [] operand[1] = "collection" -> Null
    [] operand[1] = "value"  -> operand[2]

\* to_lowercase().contains(): every character of b stands for itself.
Lowered(s) == [i \in DOMAIN Spelling[s] |-> Lower[Spelling[s][i]]]

Contained(a, b) ==
  \E i \in 0..(Len(Spelling[a]) - Len(Spelling[b])) :
    SubSeq(Lowered(a), i + 1, i + Len(Spelling[b])) = Lowered(b)

CompareStrings(a, op, b) ==
  CASE op = "~"  -> Contained(a, b)
    [] op = "!~" -> ~Contained(a, b)
    [] OTHER     -> Ordered(op, Rank[a] < Rank[b], a = b)

CompareNumbers(a, op, b) ==
  IF op \in {"~", "!~"} THEN CompareStrings(Shown[a], op, Shown[b])
  ELSE Ordered(op, a < b, a = b)

CompareBools(a, op, b) == op \in {"=", "!="} /\ Ordered(op, FALSE, a = b)

AsNumber(v) == IF IsBool(v) THEN (IF v[2] THEN 2 ELSE 0) ELSE v[2]
AsString(v) == CASE IsBool(v) -> (IF v[2] THEN "true" ELSE "false")
                 [] IsNumber(v) -> Shown[v[2]]
                 [] OTHER -> v[2]

\* A mistake to guard against: a boolean is compared with booleans only.
CompareBaseBug(l, op, r) ==
  IF IsBool(l) \/ IsBool(r) THEN IsBool(l) /\ IsBool(r) /\ CompareBools(l[2], op, r[2])
  ELSE CASE IsNull(l) \/ IsNull(r)     -> IF l = r THEN op = "=" ELSE op = "!="
         [] IsArray(l) \/ IsArray(r)   -> FALSE
         [] IsString(l) \/ IsString(r) -> CompareStrings(AsString(l), op, AsString(r))
         [] OTHER                      -> CompareNumbers(AsNumber(l), op, AsNumber(r))

\* compare_values on a base operator.
CompareBase(l, op, r) ==
  CASE IsNull(l) /\ IsNull(r)                   -> op = "="
    [] (IsNull(l) \/ IsNull(r)) /\ ~(IsNull(l) /\ IsNull(r)) -> op = "!="
    [] IsArray(l) \/ IsArray(r)                 -> FALSE
    [] OTHER ->
       CASE IsString(l) /\ IsNumber(r) /\ l[2] \in DOMAIN Numeral
              -> CompareNumbers(Numeral[l[2]], op, r[2])
         [] IsNumber(l) /\ IsString(r) /\ r[2] \in DOMAIN Numeral
              -> CompareNumbers(l[2], op, Numeral[r[2]])
         [] IsBool(l) /\ IsBool(r)       -> CompareBools(l[2], op, r[2])
         [] IsString(l) \/ IsString(r)   -> CompareStrings(AsString(l), op, AsString(r))
         [] OTHER                        -> CompareNumbers(AsNumber(l), op, AsNumber(r))

\* compare_any: some element of the array, or the value itself.
BaseOf(op) == IF op \in DOMAIN AnyOps THEN AnyOps[op] ELSE op

Compare(l, op, r) ==
  \E v \in IF op \in DOMAIN AnyOps /\ IsArray(l)
           THEN {Resolved(x) : x \in ToSet(l[2])} ELSE {l} :
    CompareBase(v, BaseOf(op), r)

RECURSIVE Holds(_, _, _)
Holds(tree, ctx, record) ==
  CASE tree[1] = "or"    -> Holds(tree[2], ctx, record) \/ Holds(tree[3], ctx, record)
    [] tree[1] = "and"   -> Holds(tree[2], ctx, record) /\ Holds(tree[3], ctx, record)
    [] tree[1] = "not"   -> ~Holds(tree[2], ctx, record)
    [] tree[1] = "group" -> Holds(tree[2], ctx, record)
    [] tree[1] = "is"    -> Compare(Value(tree[2], ctx, record), tree[3],
                                    Value(tree[4], ctx, record))

----------------------------------------------------------------------------
(* The WHERE clause of a filter.  A condition is "true", "false", "null"   *)
(* (which selects nothing) or "error" (which fails the whole query).       *)

Truth(b) == IF b THEN "true" ELSE "false"

\* External: SQLite gives the bound value the affinity of the column.
Bound(column, p) ==
  CASE column = "TEXT" /\ p[1] \in {"integer", "real"} -> <<"text", Shown[p[2]]>>
    [] column # "TEXT" /\ p[1] = "text" /\ p[2] \in DOMAIN Numeral -> <<"real", Numeral[p[2]]>>
    [] OTHER -> p

SqlText(x) == IF x[1] = "real" THEN RealText[x[2]]
              ELSE IF x[1] = "integer" THEN Shown[x[2]] ELSE x[2]

\* External: how SQLite compares two values; numbers come before texts.
SqlCompare(x, op, p) ==
  CASE x[1] = "null" \/ p[1] = "null" -> "null"
    [] x[1] = "text" /\ p[1] = "text" -> Truth(Ordered(op, Rank[x[2]] < Rank[p[2]], x = p))
    [] x[1] # "text" /\ p[1] # "text" -> Truth(Ordered(op, x[2] < p[2], x[2] = p[2]))
    [] OTHER                          -> Truth(Ordered(op, p[1] = "text", FALSE))

\* External: LIKE.  "%" is any text, "_" any character, and only ASCII letters are
\* the same in upper and lower case.
RECURSIVE Matches(_, _)
Matches(pattern, text) ==
  CASE pattern = << >>      -> text = << >>
    [] Head(pattern) = "%"  -> \E n \in 0..Len(text) :
                                 Matches(Tail(pattern), SubSeq(text, n + 1, Len(text)))
    [] OTHER -> /\ text # << >>
                /\ Head(pattern) = "_" \/ AsciiLower[Head(pattern)] = AsciiLower[Head(text)]
                /\ Matches(Tail(pattern), Tail(text))

\* A mistake to guard against: the pattern is not wrapped in %.
PatternBug(p) == Spelling[SqlText(p)]

\* A text is wrapped in % as it is, without ESCAPE; any other value is bound as it is.
Pattern(p) ==
  IF p[1] = "text" THEN <<"%">> \o Spelling[p[2]] \o <<"%">> ELSE Spelling[SqlText(p)]

SqlLike(x, op, p) ==
  IF x[1] = "null" \/ p[1] = "null" THEN "null"
  ELSE LET like == Matches(Pattern(p), Spelling[SqlText(x)])
       IN  Truth(IF op = "~" THEN like ELSE ~like)

SqlBase(x, op, p) == IF op \in {"~", "!~"} THEN SqlLike(x, op, p) ELSE SqlCompare(x, op, p)

\* emit_any_condition: EXISTS over json_each, which refuses what is not JSON.
SqlAny(x, op, p) ==
  LET v == FromSql(x) IN
  CASE x[1] = "null" -> "false"
    [] v[1] \in {"array", "object"} ->
         Truth(\E i \in DOMAIN v[2] : SqlBase(ToSql(v[2][i]), AnyOps[op], p) = "true")
    [] IsNumber(v)   -> Truth(SqlBase(x, AnyOps[op], p) = "true")
    [] IsString(v)   -> IF v[2] \in DOMAIN Numeral
                        THEN Truth(SqlBase(<<"real", Numeral[v[2]]>>, AnyOps[op], p) = "true")
                        ELSE "error"

\* standard_sql_op: a null literal meets the operator as it is, without its "any".
SqlCondition(column, x, op, v) ==
  CASE IsNull(v) /\ op = "="   -> Truth(x[1] = "null")
    [] IsNull(v) /\ op = "!="  -> Truth(x[1] # "null")
    [] IsNull(v) /\ op \notin {"=", "!="} -> "null"
    [] op \in DOMAIN AnyOps /\ ~IsNull(v) -> SqlAny(x, op, ToSql(v))
    [] op \in {"~", "!~"} /\ ~IsNull(v)  -> SqlLike(x, op, ToSql(v))
    [] op \in BaseOps \ {"~", "!~"} /\ ~IsNull(v) -> SqlCompare(x, op, Bound(column, ToSql(v)))

SqlAnd(a, b) ==
  CASE "error" \in {a, b} -> "error" [] "false" \in {a, b} -> "false"
    [] {a, b} = {"true"} -> "true" [] OTHER -> "null"
SqlOr(a, b) ==
  CASE "error" \in {a, b} -> "error" [] "true" \in {a, b} -> "true"
    [] {a, b} = {"false"} -> "false" [] OTHER -> "null"

\* The column of a condition must exist: a dotted name is another table's.
RECURSIVE Where(_, _, _)
Where(tree, fields, row) ==
  CASE tree[1] = "or"    -> SqlOr(Where(tree[2], fields, row), Where(tree[3], fields, row))
    [] tree[1] = "and"   -> SqlAnd(Where(tree[2], fields, row), Where(tree[3], fields, row))
    [] tree[1] = "group" -> Where(tree[2], fields, row)
    [] tree[1] = "is"    ->
         LET path == tree[2][2] IN
         IF Len(path) = 1 /\ path[1] \in DOMAIN fields
         THEN SqlCondition(SqlType(fields[path[1]]), row[path[1]], tree[3], tree[4][2])
         ELSE "error"

=============================================================================
