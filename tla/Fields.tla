------------------------------- MODULE Fields -------------------------------
(***************************************************************************)
(* What a field does with a value: the preparation and validation of       *)
(* schema/field.rs, the record validator of schema/record_validator.rs,    *)
(* and the way to SQLite and back of record_repo.rs.                       *)
(*                                                                         *)
(* A JSON value is a tagged pair <<kind, content>>.  A string is a TLA+    *)
(* string whose text matters only through the tables below; a number is    *)
(* counted in halves, so that 2 is the number 1 and 1 is the fraction 0.5. *)
(***************************************************************************)
EXTENDS Integers, Sequences, SequencesExt

CONSTANTS
  Length,      \* string -> its number of characters (and of bytes)
  Blank,       \* the strings that are empty once trimmed
  Numeral,     \* the strings that parse as a finite number -> that number
  Yes, No,     \* the strings that mean true, and false
  Container,   \* the strings that parse as a JSON array or object -> that value
  JsonText,    \* array or object -> its serialization
  Mail,        \* the well-formed e-mail addresses -> their domain
  Link,        \* the well-formed URLs -> [scheme, domain]
  Moment,      \* the strings parse_datetime understands -> the time they name
  Zoned,       \* those among them with a time zone
  Day,         \* those that are a date -> the date as YYYY-MM-DD
  Stamp,       \* time -> "%Y-%m-%d %H:%M:%S" of it
  Clean,       \* HTML -> what the sanitizer leaves of it
  Shown        \* number -> its text

ASSUME TablesAgree ==
  /\ \A s \in DOMAIN Clean : Clean[s] \notin DOMAIN Clean
  /\ \A t \in DOMAIN Stamp : Moment[Stamp[t]] <= t /\ Stamp[t] \notin Zoned
  /\ Yes \cap No = {}
  /\ Zoned \cup DOMAIN Day \subseteq DOMAIN Moment
  /\ \A v \in DOMAIN JsonText : Container[JsonText[v]] = v

----------------------------------------------------------------------------
(* JSON values.                                                            *)

Null       == <<"null">>
Bool(b)    == <<"bool", b>>
Number(n)  == <<"number", n>>
String(s)  == <<"string", s>>
Array(q)   == <<"array", q>>

IsNull(v)   == v[1] = "null"
IsBool(v)   == v[1] = "bool"
IsNumber(v) == v[1] = "number"
IsString(v) == v[1] = "string"
IsArray(v)  == v[1] = "array"

IsTextLike(f) ==
  f.type \in {"text", "email", "url", "dateTime", "select", "editor", "password"}

----------------------------------------------------------------------------
(* FieldType::prepare_value: the value a field would rather store.  Where  *)
(* the code returns None the caller keeps the value as it is.              *)

\* A mistake to guard against: a stored boolean comes back as 0 or 1.
PreparedBoolBug(v) ==
  CASE IsString(v) /\ v[2] \in Blank                 -> Null
    [] IsString(v) /\ v[2] \in Yes \cup No           -> Bool(v[2] \in Yes)
    [] OTHER                                         -> v

PreparedBool(v) ==
  CASE IsNumber(v) /\ v[2] \in {0, 2}                -> Bool(v[2] = 2)
    [] IsString(v) /\ v[2] \in Blank                 -> Null
    [] IsString(v) /\ v[2] \in Yes \cup No           -> Bool(v[2] \in Yes)
    [] OTHER                                         -> v

PreparedNumber(v) ==
  CASE IsString(v) /\ v[2] \in Blank                 -> Null
    [] IsString(v) /\ v[2] \in DOMAIN Numeral        -> Number(Numeral[v[2]])
    [] IsBool(v)                                     -> Number(IF v[2] THEN 2 ELSE 0)
    [] OTHER                                         -> v

PreparedDateTime(f, v) ==
  CASE IsString(v) /\ f.mode = "utcOnly" /\ v[2] \in Zoned
         -> String(Stamp[Moment[v[2]]])
    [] IsString(v) /\ f.mode = "dateOnly" /\ v[2] \in DOMAIN Day
         -> String(Day[v[2]])
    [] OTHER -> v

Sanitized(s) == IF s \in DOMAIN Clean THEN Clean[s] ELSE s

PreparedEditor(v) == IF IsString(v) THEN String(Sanitized(v[2])) ELSE v

Prepared(f, v) ==
  CASE f.type = "bool"     -> PreparedBool(v)
    [] f.type = "number"   -> PreparedNumber(v)
    [] f.type = "dateTime" -> PreparedDateTime(f, v)
    [] f.type = "editor"   -> PreparedEditor(v)
    [] OTHER               -> v

----------------------------------------------------------------------------
(* FieldType::validate_value, one operator per type.                       *)

InLength(f, s) == Length[s] >= f.min /\ (f.max = 0 \/ Length[s] <= f.max)

\* A pattern is the set of the strings it matches; {} is no pattern.
FitsText(f, v) ==
  IsString(v) /\ InLength(f, v[2]) /\ (f.pattern = {} \/ v[2] \in f.pattern)

FitsNumber(f, v) ==
  /\ IsNumber(v)
  /\ f.onlyInt => v[2] % 2 = 0
  /\ v[2] >= f.min /\ v[2] <= f.max

DomainAllowed(f, d) ==
  /\ f.onlyDomains = {} \/ d \in f.onlyDomains
  /\ d \notin f.exceptDomains

FitsEmail(f, v) == IsString(v) /\ v[2] \in DOMAIN Mail /\ DomainAllowed(f, Mail[v[2]])

FitsUrl(f, v) ==
  /\ IsString(v) /\ v[2] \in DOMAIN Link
  /\ f.onlySchemes = {} \/ Link[v[2]].scheme \in f.onlySchemes
  /\ DomainAllowed(f, Link[v[2]].domain)

FitsDateTime(f, v) ==
  /\ IsString(v) /\ v[2] \in DOMAIN Moment
  /\ f.mode = "dateOnly" => v[2] \in DOMAIN Day
  /\ f.mode = "timezoneAware" => v[2] \in Zoned
  /\ Moment[v[2]] >= f.min /\ Moment[v[2]] <= f.max

FitsAutoDate(v) == IsString(v) /\ v[2] \in DOMAIN Moment

FitsSelect(f, v) == IsString(v) /\ v[2] \in f.values

FitsMultiSelect(f, v) ==
  /\ IsArray(v)
  /\ f.maxSelect = 0 \/ Len(v[2]) <= f.maxSelect
  /\ \A i \in DOMAIN v[2] : FitsSelect(f, v[2][i])
  /\ IsInjective(v[2])

Named(v) == IsString(v) /\ Length[v[2]] > 0

FitsFile(f, v) ==
  IF f.maxSelect = 1 THEN Named(v)
  ELSE /\ IsArray(v) /\ Len(v[2]) <= f.maxSelect
       /\ \A i \in DOMAIN v[2] : Named(v[2][i])
       /\ IsInjective(v[2])

FitsRelation(f, v) ==
  IF f.maxSelect = 1 THEN Named(v)
  ELSE /\ IsArray(v) /\ (f.maxSelect = 0 \/ Len(v[2]) <= f.maxSelect)
       /\ \A i \in DOMAIN v[2] : Named(v[2][i])

\* The size limit and the JSON schema of the options are the predicate f.schema.
FitsJson(f, v) == f.schema = {} \/ v[1] \in f.schema

FitsEditor(f, v) ==
  /\ IsString(v)
  /\ f.max = 0 \/ Length[Sanitized(v[2])] <= f.max

Fits(f, v) ==
  CASE f.type \in {"text", "password"} -> FitsText(f, v)
    [] f.type = "number"      -> FitsNumber(f, v)
    [] f.type = "bool"        -> IsBool(v)
    [] f.type = "email"       -> FitsEmail(f, v)
    [] f.type = "url"         -> FitsUrl(f, v)
    [] f.type = "dateTime"    -> FitsDateTime(f, v)
    [] f.type = "autoDate"    -> FitsAutoDate(v)
    [] f.type = "select"      -> FitsSelect(f, v)
    [] f.type = "multiSelect" -> FitsMultiSelect(f, v)
    [] f.type = "file"        -> FitsFile(f, v)
    [] f.type = "relation"    -> FitsRelation(f, v)
    [] f.type = "json"        -> FitsJson(f, v)
    [] f.type = "editor"      -> FitsEditor(f, v)

\* Field::validate_value: null and the empty text are "no value".
Empty(f, v) == IsNull(v) \/ (IsTextLike(f) /\ IsString(v) /\ Length[v[2]] = 0)

Valid(f, v) == IF Empty(f, v) THEN ~f.required ELSE Fits(f, v)

----------------------------------------------------------------------------
(* The record validator.  Fields are a function from names to definitions, *)
(* a record is a function from names to JSON values, and a name a record   *)
(* leaves out reads as null.                                               *)

At(record, name) == IF name \in DOMAIN record THEN record[name] ELSE Null

Injected(f, op) ==
  f.type = "autoDate" /\ (IF op = "create" THEN f.onCreate ELSE f.onUpdate)

\* Names whose value is absent, and that no auto-date fills, stay absent.
PreparedRecord(fields, record, op, now) ==
  LET Dated == {n \in DOMAIN fields : Injected(fields[n], op)} IN
  [n \in DOMAIN record \cup Dated |->
     IF n \in Dated THEN String(Stamp[now])
     ELSE IF n \in DOMAIN fields THEN Prepared(fields[n], record[n])
     ELSE record[n]]

ValidRecord(fields, record) ==
  /\ DOMAIN record \subseteq DOMAIN fields
  /\ \A n \in DOMAIN fields : Valid(fields[n], At(record, n))

----------------------------------------------------------------------------
(* SQLite: the value bound for a JSON value, what the affinity of the      *)
(* column makes of it, and the JSON value read back.                       *)

SqlNull == <<"null">>

SqlType(f) ==
  CASE f.type = "number" -> "REAL"
    [] f.type = "bool"   -> "INTEGER"
    [] OTHER             -> "TEXT"

ToSql(v) ==
  CASE IsNull(v)   -> SqlNull
    [] IsBool(v)   -> <<"integer", IF v[2] THEN 2 ELSE 0>>
    [] IsNumber(v) -> IF v[2] % 2 = 0 THEN <<"integer", v[2]>> ELSE <<"real", v[2]>>
    [] IsString(v) -> <<"text", v[2]>>
    [] OTHER       -> <<"text", JsonText[v]>>

\* External: the column affinities of SQLite.
Coerced(column, x) ==
  CASE column = "TEXT" /\ x[1] \in {"integer", "real"} -> <<"text", Shown[x[2]]>>
    [] column = "REAL" /\ x[1] = "integer"             -> <<"real", x[2]>>
    [] column = "INTEGER" /\ x[1] = "real" /\ x[2] % 2 = 0 -> <<"integer", x[2]>>
    [] OTHER                                           -> x

FromSql(x) ==
  CASE x[1] = "null"              -> Null
    [] x[1] \in {"integer", "real"} -> Number(x[2])
    [] OTHER -> IF x[2] \in DOMAIN Container THEN Container[x[2]] ELSE String(x[2])

Stored(fields, record) ==
  [n \in DOMAIN fields |-> Coerced(SqlType(fields[n]), ToSql(At(record, n)))]

ReadBack(row) == [n \in DOMAIN row |-> FromSql(row[n])]

=============================================================================
