------------------------------ MODULE MCAccess ------------------------------
(* Scenes for Access: one for each type of field, where any input meets any  *)
(* stored value; one of posts under rules, with four callers and concurrent  *)
(* requests; one of records that refer to each other in cycles.              *)
EXTENDS Access

\* Three texts are containers to serde_json, two moments share a second.
Ids3 == {"r1", "r2", "r3"}
Strings == {"", " ", "1", "0.5", "yes", "no", "a", "b", "abc", "[1]", "{}", "[a]", "[b]", "[a,b]",
          "[a,a]", "[]", "s0", "s1", "s4", "z4", "z5", "day", "d", "m@x", "m@y", "http://x", "ftp://y",
          "<i>a", "<x>", "true", "false", "0", "2", "0.0", "1.0", "2.0", "u", "U", "e'", "E'", "u1", "u2",
          "e'1", "%", "_1", "GET", "PATCH"} \cup Ids3

Lengths == "" :> 0 @@ [s \in Ids3 |-> 15] @@ [s \in {"abc", "[1]", "<i>a", "<x>"} |-> 3]
            @@ [s \in Strings |-> 1]
MCBlank == {"", " "}
MCNumeral == [s \in {"0", "1", "0.5", "2"} |->
                CASE s = "0" -> 0 [] s = "0.5" -> 1 [] s = "1" -> 2 [] s = "2" -> 4]
MCYes == {"true", "1", "yes"}
MCNo == {"false", "0", "no"}

Texted(q) == Array([i \in DOMAIN q |-> String(q[i])])
Serialized ==
  Texted(<<"a">>) :> "[a]" @@ Texted(<<"b">>) :> "[b]" @@ Texted(<<"a", "b">>) :> "[a,b]"
  @@ Texted(<<"a", "a">>) :> "[a,a]" @@ Array(<< >>) :> "[]" @@ Array(<<Number(2)>>) :> "[1]"
  @@ <<"object", << >>>> :> "{}"
  @@ Texted(<<"r1">>) :> "[r1]" @@ Texted(<<"r2">>) :> "[r2]" @@ Texted(<<"r3">>) :> "[r3]"
  @@ Texted(<<"r1", "r2">>) :> "[r1,r2]" @@ Texted(<<"r2", "r3">>) :> "[r2,r3]"
Deserialized == [s \in {Serialized[v] : v \in DOMAIN Serialized} |->
                  CHOOSE v \in DOMAIN Serialized : Serialized[v] = s]
MCMail == [s \in {"m@x", "m@y"} |-> IF s = "m@x" THEN "x" ELSE "y"]
MCLink == [s \in {"http://x", "ftp://y"} |->
             IF s = "http://x" THEN [scheme |-> "http", domain |-> "x"]
             ELSE [scheme |-> "ftp", domain |-> "y"]]
MCMoment == [s \in {"s0", "s1", "s4", "z4", "z5", "d", "day"} |->
               CASE s \in {"s0", "d", "day"} -> 0 [] s = "s1" -> 1 [] s \in {"s4", "z4"} -> 4 [] s = "z5" -> 5]
MCZoned == {"z4", "z5"}
MCDay == [s \in {"d", "day"} |-> "day"]
MCStamp == 0 :> "s0" @@ 1 :> "s1" @@ 4 :> "s4" @@ 5 :> "s4"
MCClean == [s \in {"<i>a", "<x>"} |-> IF s = "<x>" THEN "" ELSE "a"]
MCShown == [n \in {0, 1, 2, 4} |-> CASE n = 0 -> "0" [] n = 1 -> "0.5" [] n = 2 -> "1" [] n = 4 -> "2"]
MCRealText == [n \in {0, 1, 2, 4} |-> CASE n = 0 -> "0.0" [] n = 1 -> "0.5" [] n = 2 -> "1.0" [] n = 4 -> "2.0"]
InOrder == <<"", " ", "%", "0", "0.0", "0.5", "1", "1.0", "2", "2.0", "<i>a", "<x>", "E'", "GET", "PATCH", "U", "[]",
             "[1]", "[a,a]", "[a,b]", "[a]", "[b]", "_1", "a", "abc", "b", "d", "day", "false", "ftp://y", "http://x", "m@x",
             "m@y", "no", "r1", "r2", "r3", "s0", "s1", "s4", "true", "u", "u1", "u2", "yes", "z4", "z5", "{}", "e'", "e'1">>
Ranks == [s \in ToSet(InOrder) |-> CHOOSE i \in DOMAIN InOrder : InOrder[i] = s]

\* The texts "~" is about are spelled out (e' and E' are a letter beyond ASCII), the others
\* are a character of their own.
Spelled == "" :> << >> @@ "abc" :> <<"a", "b", "c">> @@ "u1" :> <<"u", "1">> @@ "u2" :> <<"u", "2">>
           @@ "e'1" :> <<"e'", "1">> @@ "_1" :> <<"_", "1">>
           @@ [s \in Strings |-> <<s>>]
MCSpelling == Spelled
Characters == Strings \cup {"_", "c"}
MCLower == [c \in Characters |-> CASE c = "U" -> "u" [] c = "E'" -> "e'" [] OTHER -> c]
MCAsciiLower == [c \in Characters |-> IF c = "U" THEN "u" ELSE c]

----------------------------------------------------------------------------

Root == [superuser |-> TRUE, auth |-> << >>]
Guest == [superuser |-> FALSE, auth |-> << >>]
User(u) == [superuser |-> FALSE, auth |-> [id |-> String(u)]]

NoRules == [op \in {"list", "view", "create", "update", "delete", "manage"} |-> Locked]

Inputs ==
  {Null, Bool(TRUE), Bool(FALSE), Number(0), Number(1), Number(2), Number(4),
   Texted(<<"a">>), Texted(<<"a", "b">>), Texted(<<"a", "a">>), Array(<< >>), <<"object", << >>>>}
  \cup {String(s) : s \in {"", " ", "1", "0.5", "yes", "no", "a", "abc", "[1]", "{}", "s0", "z4", "z5",
                           "d", "m@x", "m@y", "http://x", "ftp://y", "<i>a", "<x>", "true"}}

Definitions ==
  <<[type |-> "text", required |-> TRUE, min |-> 1, max |-> 3, pattern |-> {}],
    [type |-> "text", required |-> FALSE, min |-> 0, max |-> 0, pattern |-> {"abc", "1"}],
    [type |-> "password", required |-> FALSE, min |-> 3, max |-> 0, pattern |-> {}],
    [type |-> "number", required |-> TRUE, onlyInt |-> TRUE, min |-> 0, max |-> 2],
    [type |-> "number", required |-> FALSE, onlyInt |-> FALSE, min |-> 1, max |-> 100],
    [type |-> "bool", required |-> TRUE], [type |-> "bool", required |-> FALSE],
    [type |-> "email", required |-> FALSE, onlyDomains |-> {}, exceptDomains |-> {"y"}],
    [type |-> "url", required |-> FALSE, onlySchemes |-> {"http"}, onlyDomains |-> {}, exceptDomains |-> {}],
    [type |-> "dateTime", required |-> TRUE, mode |-> "utcOnly", min |-> 0, max |-> 4],
    [type |-> "dateTime", required |-> FALSE, mode |-> "dateOnly", min |-> 0, max |-> 9],
    [type |-> "dateTime", required |-> FALSE, mode |-> "timezoneAware", min |-> 5, max |-> 9],
    [type |-> "autoDate", required |-> FALSE, onCreate |-> FALSE, onUpdate |-> TRUE],
    [type |-> "select", required |-> TRUE, values |-> {"a", "1"}],
    [type |-> "multiSelect", required |-> FALSE, values |-> {"a", "b"}, maxSelect |-> 2],
    [type |-> "file", required |-> FALSE, maxSelect |-> 1],
    [type |-> "file", required |-> FALSE, maxSelect |-> 2],
    [type |-> "json", required |-> TRUE, schema |-> {}],
    [type |-> "json", required |-> FALSE, schema |-> {"array", "object"}],
    [type |-> "editor", required |-> FALSE, max |-> 1]>>

Field(n) == <<"field", <<n>>>>
Literal(v) == <<"value", v>>

\* Literals of every type against every field; most do not fit, which the properties must know.
ValueConditions ==
  {Tokens(<<"is", Field("v"), op, Literal(v)>>) :
     op \in {"=", "<", "~", "?="}, v \in {Null, Bool(TRUE), Number(2), String("1"), String("a")}}

NoTrees == [op \in {"update", "delete"} |-> << >>]

ValueScene(f) ==
  [schema |-> [c |-> [fields |-> [v |-> f, w |-> [type |-> "number", required |-> FALSE,
                                                 onlyInt |-> FALSE, min |-> 0, max |-> 100]],
                      rules |-> NoRules]],
   rows |-> [c |-> << >>], callers |-> {Root, User("u1")}, requests |-> 2, ids |-> {"r1"}, inFlight |-> {"q1"},
   bodies |-> [c |-> {[v |-> x] : x \in Inputs}],
   patches |-> [c |-> {[v |-> x] : x \in Inputs}
                      \cup {[w |-> Number(2), updated |-> String("z4")], [created |-> String("z4")]}],
   trees |-> [c |-> NoTrees], filters |-> [c |-> ValueConditions],
   views |-> [c |-> ValueConditions], expands |-> [c |-> {}], expressions |-> {}]

----------------------------------------------------------------------------

AuthId == <<"auth", <<"id">>>>

Mine == <<"is", Field("author"), "=", AuthId>>
Public == <<"is", Field("public"), "=", Literal(Bool(TRUE))>>
Ranked == <<"is", Field("rank"), ">", Literal(Number(1))>>
Tagged == <<"is", Field("tags"), "?=", Literal(String("a"))>>
Untagged == <<"is", Field("tags"), "?!=", Literal(String("a"))>>
Called(s) == <<"is", Field("author"), "~", Literal(String(s))>>
NotCalled == <<"is", Field("author"), "!=", Literal(String("u1"))>>
NoRank == <<"is", Field("rank"), "=", Literal(Null)>>

OfTwo(S) == {<<w, a, b>> : w \in {"and", "or"}, a \in S, b \in S}
Simple == {Mine, Public, Ranked}
Expressions == LET one == Simple \cup {<<"not", a>> : a \in {Mine, Public}}
                   two == OfTwo(one)
               IN  two \cup {<<"not", t>> : t \in two}
                   \cup {<<w, a, t>> : w \in {"and", "or"}, a \in {Public, <<"not", Public>>}, t \in OfTwo(Simple)}
                   \cup {<<w, t, a>> : w \in {"and", "or"}, a \in {Public, Ranked}, t \in OfTwo(Simple)}

PostTrees == [view |-> <<"or", Mine, <<"and", Public, Ranked>>>>,
              update |-> <<"or", Mine, <<"and", Public, <<"not", Ranked>>>>>>,
              delete |-> <<"and", <<"or", Mine, Ranked>>, Public>>]

PostRow(author, public, rank) ==
  [author |-> <<"text", author>>, public |-> <<"integer", public>>, rank |-> rank,
   tags |-> <<"text", "[a]">>, created |-> <<"text", "s0">>, updated |-> <<"text", "s0">>]

Posts ==
  [schema |->
     [posts |->
        [fields |-> [author |-> [type |-> "text", required |-> TRUE, min |-> 0, max |-> 0, pattern |-> {}],
                     public |-> [type |-> "bool", required |-> FALSE],
                     rank   |-> [type |-> "number", required |-> FALSE, onlyInt |-> FALSE, min |-> 0, max |-> 4],
                     tags   |-> [type |-> "multiSelect", required |-> FALSE, values |-> {"a", "b"}, maxSelect |-> 0]],
         rules |-> [op \in {"list", "view", "create", "update", "delete", "manage"} |->
                      CASE op \in {"list", "create"} -> Open
                        [] op = "manage" -> Locked
                        [] OTHER -> <<"rule", Tokens(PostTrees[op])>>]]],
   rows |-> [posts |-> "r1" :> (PostRow("u1", 0, SqlNull) @@ [id |-> <<"text", "r1">>])],
   callers |-> {Guest, User("u1"), User("u2"), Root}, requests |-> 3, ids |-> {"r1", "r2"}, inFlight |-> {"q1", "q2"},
   bodies |-> [posts |-> {[author |-> String("e'1"), public |-> String("yes"), rank |-> Number(1)],
                          [author |-> String("u1"), tags |-> Texted(<<"b">>)]}],
   patches |-> [posts |-> {[author |-> String("u2")], [public |-> Number(2), rank |-> String("1")],
                           [tags |-> Array(<< >>), rank |-> Null]}],
   trees |-> [posts |-> PostTrees],
   filters |-> [posts |-> {Tokens(t) : t \in {Public, Ranked, Tagged, Untagged, NotCalled, NoRank}
                                            \cup {Called(s) : s \in {"u", "U", "E'", "_1", "%"}}
                                            \cup OfTwo({Tagged, NotCalled})}],
   views |-> [posts |-> {Tokens(t) : t \in {PostTrees["view"], Mine, Ranked, Tagged, NoRank, Called("E'"), <<"not", Public>>,
                                           <<"is", Field("public"), "=", Literal(String("true"))>>,
                                           <<"is", AuthId, "=", Field("public")>>}}],
   expands |-> [posts |-> {}], expressions |-> Expressions]

----------------------------------------------------------------------------

NodeRow(id, open, parent, links) ==
  [id |-> <<"text", id>>, open |-> <<"integer", open>>, parent |-> parent, links |-> links,
   created |-> <<"text", "s0">>, updated |-> <<"text", "s0">>]

Relation(n) == [type |-> "relation", required |-> FALSE, collection |-> "nodes", maxSelect |-> n]

P == <<"parent">>
L == <<"links">>
Children == <<"nodes", "parent">>

Nodes ==
  [schema |->
     [nodes |->
        [fields |-> [open |-> [type |-> "bool", required |-> FALSE], parent |-> Relation(1), links |-> Relation(0)],
         rules |-> [NoRules EXCEPT !["view"] = <<"rule", Tokens(<<"is", Field("open"), "=", Literal(Bool(TRUE))>>)>>]]],
   rows |-> [nodes |-> "r1" :> NodeRow("r1", 2, SqlNull, <<"text", "[r1,r2]">>)
                    @@ "r2" :> NodeRow("r2", 2, <<"text", "r1">>, <<"text", "[r2,r3]">>)
                    @@ "r3" :> NodeRow("r3", 0, <<"text", "r2">>, SqlNull)],
   callers |-> {Root, Guest}, requests |-> 2, ids |-> Ids3, inFlight |-> {"q1"}, bodies |-> [nodes |-> {}],
   patches |-> [nodes |-> {[parent |-> String(r)] : r \in Ids3} \cup {[open |-> Bool(TRUE)], [links |-> Texted(<<"r3">>)]}],
   trees |-> [nodes |-> NoTrees], filters |-> [nodes |-> {}],
   views |-> [nodes |-> {Tokens(<<"is", Field("open"), "=", Literal(Bool(TRUE))>>)}],
   expands |-> [nodes |-> {{<<P, P, P>>}, {<<L, P>>, <<L, L, Children>>}, {<<Children, L>>, <<P>>, <<P, Children, P>>},
                           {<<<<"open">>, P>>, <<<<"nodes", "links">>, L>>}}],
   expressions |-> {}]

\* The scene of every definition of a field, and the two others.
AllScenes == [i \in DOMAIN Definitions |-> ValueScene(Definitions[i])] \o <<Posts, Nodes>>
\* TLC keeps the value of a definition, but not of one that stands for a constant.
MCScenes == AllScenes
MCLength == Lengths
MCRank == Ranks
MCJsonText == Serialized
MCContainer == Deserialized
MCRequests == {"q1", "q2"}
MCIds == {"r1", "r2", "r3"}
=============================================================================
