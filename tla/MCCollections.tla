--------------------------- MODULE MCCollections ---------------------------
(* Two collections, of two columns, two records, two handlers at a time.    *)
EXTENDS Collections

Handlers == Permutations(Requests)

A == <<"a">>
B == <<"b">>
X == <<"x">>
Y == <<"y">>

Plain == [required |-> FALSE, unique |-> FALSE, searchable |-> FALSE]
Strict == [required |-> TRUE, unique |-> TRUE, searchable |-> FALSE]
Text == [required |-> FALSE, unique |-> FALSE, searchable |-> TRUE]

OnX(unique) == [columns |-> <<X>>, unique |-> unique]

Base(name, columns, indexes, ruled) ==
    [name |-> name, kind |-> "base", columns |-> columns, indexes |-> indexes,
     ruled |-> ruled, source |-> NoSource]

Notes == Base(A, X :> Text, <<>>, {X})
Tags == Base(A, (X :> Strict) @@ (Y :> Plain), <<OnX(TRUE)>>, {})
Users == [Base(B, X :> Plain, <<>>, {}) EXCEPT !.kind = "auth"]
Show == [Base(B, <<>>, <<>>, {}) EXCEPT !.kind = "view", !.source = A]

MCDefinitions == {Notes, Tags, Users, Show}
MCBodies == {[name |-> B, indexes |-> <<>>],
             [columns |-> (X :> Text) @@ (Y :> Plain), indexes |-> <<OnX(FALSE), OnX(TRUE)>>],
             [kind |-> "auth", indexes |-> <<>>],
             [kind |-> "view", source |-> A, indexes |-> <<>>],
             [name |-> B]}
MCImports == {<<Tags, Users>>, <<Users, Notes>>}

\* For the clash of names: a collection and another called after it.
Fts == FtsName(A)
ClashDefinitions == {Notes, [Notes EXCEPT !.name = Fts]}
ClashBodies == {[columns |-> X :> Text, indexes |-> <<>>]}
ClashImports == {<<Tags>>}
=============================================================================
