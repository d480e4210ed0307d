------------------------- MODULE CollectionsProofs -------------------------
(* The catalog, the tables and the indexes agree, and no change of a         *)
(* collection loses a record, for every set of definitions, bodies, imports  *)
(* and records, wherever no name is another's full-text table.               *)
EXTENDS Collections, SequenceTheorems, TLAPS

Database(d) ==
    d = [catalog |-> d.catalog, tables |-> d.tables, views |-> d.views,
         indexes |-> d.indexes, fts |-> d.fts]

TableShape(t) == t = [columns |-> t.columns, rows |-> t.rows]

-----------------------------------------------------------------------------
(* What each operation does to the five maps                                 *)

LEMMA SetMap ==
    ASSUME NEW d, NEW new, Database(d)
    PROVE  /\ [d EXCEPT !.catalog = new]
              = [catalog |-> new, tables |-> d.tables, views |-> d.views,
                 indexes |-> d.indexes, fts |-> d.fts]
           /\ [d EXCEPT !.tables = new]
              = [catalog |-> d.catalog, tables |-> new, views |-> d.views,
                 indexes |-> d.indexes, fts |-> d.fts]
           /\ [d EXCEPT !.views = new]
              = [catalog |-> d.catalog, tables |-> d.tables, views |-> new,
                 indexes |-> d.indexes, fts |-> d.fts]
           /\ [d EXCEPT !.indexes = new]
              = [catalog |-> d.catalog, tables |-> d.tables, views |-> d.views,
                 indexes |-> new, fts |-> d.fts]
           /\ [d EXCEPT !.fts = new]
              = [catalog |-> d.catalog, tables |-> d.tables, views |-> d.views,
                 indexes |-> d.indexes, fts |-> new]
  BY DEF Database

LEMMA SetTwoMaps ==
    ASSUME NEW d, NEW x, NEW y, Database(d)
    PROVE  /\ [d EXCEPT !.tables = x, !.indexes = y]
              = [catalog |-> d.catalog, tables |-> x, views |-> d.views,
                 indexes |-> y, fts |-> d.fts]
           /\ [d EXCEPT !.tables = x, !.fts = y]
              = [catalog |-> d.catalog, tables |-> x, views |-> d.views,
                 indexes |-> d.indexes, fts |-> y]
<1>1. PICK e : e = [d EXCEPT !.tables = x]
  OBVIOUS
<1>2. e = [catalog |-> d.catalog, tables |-> x, views |-> d.views,
           indexes |-> d.indexes, fts |-> d.fts]
  BY <1>1, SetMap
<1>3. Database(e)
  BY <1>2 DEF Database
<1>4. PICK g, h : g = [e EXCEPT !.indexes = y] /\ h = [e EXCEPT !.fts = y]
  OBVIOUS
<1>5. /\ g = [catalog |-> e.catalog, tables |-> e.tables, views |-> e.views,
              indexes |-> y, fts |-> e.fts]
      /\ h = [catalog |-> e.catalog, tables |-> e.tables, views |-> e.views,
              indexes |-> e.indexes, fts |-> y]
  BY <1>3, <1>4, SetMap
<1> QED BY <1>1, <1>2, <1>4, <1>5

LEMMA SetThreeMaps ==
    ASSUME NEW d, NEW x, NEW y, NEW z, Database(d)
    PROVE  [d EXCEPT !.tables = x, !.fts = y, !.indexes = z]
           = [catalog |-> d.catalog, tables |-> x, views |-> d.views, indexes |-> z, fts |-> y]
<1>1. PICK e : e = [d EXCEPT !.tables = x, !.fts = y]
  OBVIOUS
<1>2. e = [catalog |-> d.catalog, tables |-> x, views |-> d.views,
           indexes |-> d.indexes, fts |-> y]
  BY <1>1, SetTwoMaps
<1>3. Database(e)
  BY <1>2 DEF Database
<1>4. PICK g : g = [e EXCEPT !.indexes = z]
  OBVIOUS
<1>5. g = [catalog |-> e.catalog, tables |-> e.tables, views |-> e.views,
           indexes |-> z, fts |-> e.fts]
  BY <1>3, <1>4, SetMap
<1> QED BY <1>1, <1>2, <1>4, <1>5

LEMMA DropTableIs ==
    ASSUME NEW d, NEW name, Database(d)
    PROVE  LET e == DropTable(d, name) IN
           /\ Database(e)
           /\ e.catalog = d.catalog
           /\ e.views = d.views
           /\ DOMAIN e.tables = DOMAIN d.tables \ {name}
           /\ \A n \in DOMAIN e.tables : e.tables[n] = d.tables[n]
           /\ DOMAIN e.fts = DOMAIN d.fts \ {name}
           /\ \A x \in DOMAIN e.fts : e.fts[x] = d.fts[x]
           /\ DOMAIN e.indexes = {x \in DOMAIN d.indexes : d.indexes[x].table # name}
           /\ \A x \in DOMAIN e.indexes : e.indexes[x] = d.indexes[x]
<1> DEFINE kept == {x \in DOMAIN d.indexes : d.indexes[x].table # name}
<1> DEFINE tables == Restrict(d.tables, DOMAIN d.tables \ {name})
           fts == Restrict(d.fts, DOMAIN d.fts \ {name})
           indexes == Restrict(d.indexes, kept)
<1>1. DropTable(d, name) = [d EXCEPT !.tables = tables, !.fts = fts, !.indexes = indexes]
  BY DEF DropTable
<1>2. /\ tables = [n \in DOMAIN d.tables \ {name} |-> d.tables[n]]
      /\ fts = [x \in DOMAIN d.fts \ {name} |-> d.fts[x]]
      /\ indexes = [x \in kept |-> d.indexes[x]]
  BY DEF Restrict
<1> HIDE DEF tables, fts, indexes
<1>3. DropTable(d, name) = [catalog |-> d.catalog, tables |-> tables, views |-> d.views,
                            indexes |-> indexes, fts |-> fts]
  BY <1>1, SetThreeMaps
<1> QED BY <1>2, <1>3 DEF Database

LEMMA RenameTableIs ==
    ASSUME NEW d, NEW old, NEW new, Database(d), old \in DOMAIN d.tables
    PROVE  LET e == RenameTable(d, old, new) IN
           /\ Database(e)
           /\ e.catalog = d.catalog
           /\ e.views = d.views
           /\ e.fts = d.fts
           /\ DOMAIN e.tables = (DOMAIN d.tables \ {old}) \cup {new}
           /\ \A n \in DOMAIN e.tables : n # new => e.tables[n] = d.tables[n]
           /\ e.tables[new] = d.tables[old]
           /\ DOMAIN e.indexes = DOMAIN d.indexes
           /\ \A x \in DOMAIN e.indexes :
                  /\ e.indexes[x].table = IF d.indexes[x].table = old THEN new
                                          ELSE d.indexes[x].table
                  /\ e.indexes[x].columns = d.indexes[x].columns
                  /\ e.indexes[x].unique = d.indexes[x].unique
<1> DEFINE tables == With(Restrict(d.tables, DOMAIN d.tables \ {old}), new, d.tables[old])
           indexes == [x \in DOMAIN d.indexes |->
                         [table |-> IF d.indexes[x].table = old THEN new ELSE d.indexes[x].table,
                          columns |-> d.indexes[x].columns, unique |-> d.indexes[x].unique]]
<1>1. RenameTable(d, old, new) = [d EXCEPT !.tables = tables, !.indexes = indexes]
  BY DEF RenameTable
<1>2. tables = [n \in (DOMAIN d.tables \ {old}) \cup {new} |->
                    IF n = new THEN d.tables[old] ELSE d.tables[n]]
  BY DEF With, Restrict
<1>3. /\ DOMAIN indexes = DOMAIN d.indexes
      /\ \A x \in DOMAIN d.indexes :
             /\ indexes[x].table = IF d.indexes[x].table = old THEN new
                                   ELSE d.indexes[x].table
             /\ indexes[x].columns = d.indexes[x].columns
             /\ indexes[x].unique = d.indexes[x].unique
  OBVIOUS
<1> HIDE DEF tables, indexes
<1>4. RenameTable(d, old, new) = [catalog |-> d.catalog, tables |-> tables, views |-> d.views,
                                  indexes |-> indexes, fts |-> d.fts]
  BY <1>1, SetTwoMaps
<1> QED BY <1>2, <1>3, <1>4 DEF Database

LEMMA CreateIndexesIs ==
    ASSUME NEW d, NEW name, NEW list, Database(d)
    PROVE  LET e == CreateIndexes(d, name, list) IN
           /\ Database(e)
           /\ e.catalog = d.catalog
           /\ e.tables = d.tables
           /\ e.views = d.views
           /\ e.fts = d.fts
           /\ DOMAIN d.indexes \subseteq DOMAIN e.indexes
           /\ \A x \in DOMAIN d.indexes : e.indexes[x] = d.indexes[x]
           /\ \A x \in DOMAIN e.indexes \ DOMAIN d.indexes : e.indexes[x].table = name
<1> DEFINE names == {IndexName(name, list[i].columns) : i \in DOMAIN list}
           asked == [x \in names |-> [table |-> name,
                                      columns |-> FirstNamed(name, list, x).columns,
                                      unique |-> FirstNamed(name, list, x).unique]]
           indexes == Over(d.indexes, asked)
<1>1. CreateIndexes(d, name, list) = [d EXCEPT !.indexes = indexes]
  BY DEF CreateIndexes
<1>2. indexes = [x \in DOMAIN d.indexes \cup names |->
                     IF x \in DOMAIN d.indexes THEN d.indexes[x] ELSE asked[x]]
  BY DEF Over
<1>3. \A x \in names : asked[x].table = name
  <2> HIDE DEF names
  <2> QED OBVIOUS
<1> HIDE DEF names, asked, indexes
<1>4. CreateIndexes(d, name, list) = [catalog |-> d.catalog, tables |-> d.tables,
                                      views |-> d.views, indexes |-> indexes, fts |-> d.fts]
  BY <1>1, SetMap
<1> QED BY <1>2, <1>3, <1>4 DEF Database

LEMMA CreateTableIs ==
    ASSUME NEW d, NEW name, NEW def, Database(d)
    PROVE  LET e == CreateTable(d, name, def) IN
           /\ Database(e)
           /\ e.catalog = d.catalog
           /\ e.views = d.views
           /\ e.fts = d.fts
           /\ DOMAIN e.tables = DOMAIN d.tables \cup {name}
           /\ \A n \in DOMAIN d.tables : n # name => e.tables[n] = d.tables[n]
           /\ e.tables[name] = [columns |-> Physical(def.kind, Stored(def.columns)),
                                rows |-> Nothing]
           /\ DOMAIN d.indexes \subseteq DOMAIN e.indexes
           /\ \A x \in DOMAIN d.indexes : e.indexes[x] = d.indexes[x]
           /\ \A x \in DOMAIN e.indexes \ DOMAIN d.indexes : e.indexes[x].table = name
<1> DEFINE table == [columns |-> Physical(def.kind, Stored(def.columns)), rows |-> Nothing]
           tables == With(d.tables, name, table)
<1>1. PICK f : f = [d EXCEPT !.tables = tables]
  OBVIOUS
<1>2. tables = [n \in DOMAIN d.tables \cup {name} |-> IF n = name THEN table ELSE d.tables[n]]
  BY DEF With
<1>3. CreateTable(d, name, def) = CreateIndexes(f, name, SystemIndexes(def.kind))
  BY <1>1 DEF CreateTable
<1> HIDE DEF tables
<1>4. f = [catalog |-> d.catalog, tables |-> tables, views |-> d.views,
           indexes |-> d.indexes, fts |-> d.fts]
  BY <1>1, SetMap
<1>5. Database(f)
  BY <1>4 DEF Database
<1>6. PICK e : e = CreateIndexes(f, name, SystemIndexes(def.kind))
  OBVIOUS
<1>7. /\ Database(e)
      /\ e.catalog = f.catalog
      /\ e.tables = f.tables
      /\ e.views = f.views
      /\ e.fts = f.fts
      /\ DOMAIN f.indexes \subseteq DOMAIN e.indexes
      /\ \A x \in DOMAIN f.indexes : e.indexes[x] = f.indexes[x]
      /\ \A x \in DOMAIN e.indexes \ DOMAIN f.indexes : e.indexes[x].table = name
  BY <1>5, <1>6, CreateIndexesIs
<1> HIDE DEF table
<1>8. /\ e.tables = [n \in DOMAIN d.tables \cup {name} |-> IF n = name THEN table ELSE d.tables[n]]
      /\ e.catalog = d.catalog /\ e.views = d.views /\ e.fts = d.fts
      /\ f.indexes = d.indexes
  BY <1>2, <1>4, <1>7
<1> QED BY <1>3, <1>6, <1>7, <1>8 DEF table

(* Where no table has the name a full-text table would take.                 *)
LEMMA DropFtsIs ==
    ASSUME NEW d, NEW name, Database(d), FtsName(name) \notin DOMAIN d.tables,
           \A x \in DOMAIN d.indexes : d.indexes[x].table \in DOMAIN d.tables
    PROVE  LET e == DropFts(d, name) IN
           /\ Database(e)
           /\ e.catalog = d.catalog
           /\ e.views = d.views
           /\ DOMAIN e.tables = DOMAIN d.tables
           /\ \A n \in DOMAIN e.tables : e.tables[n] = d.tables[n]
           /\ DOMAIN e.fts = DOMAIN d.fts \ {FtsName(name)}
           /\ \A x \in DOMAIN e.fts : e.fts[x] = d.fts[x]
           /\ DOMAIN e.indexes = DOMAIN d.indexes
           /\ \A x \in DOMAIN e.indexes : e.indexes[x] = d.indexes[x]
<1>1. CASE FtsExists(d, name)
  <2>1. DropFts(d, name) = DropTable(d, FtsName(name))
    BY <1>1 DEF DropFts
  <2>2. \A x \in DOMAIN d.indexes : d.indexes[x].table # FtsName(name)
    OBVIOUS
  <2>3. PICK e : e = DropTable(d, FtsName(name))
    OBVIOUS
  <2>4. /\ Database(e)
        /\ e.catalog = d.catalog
        /\ e.views = d.views
        /\ DOMAIN e.tables = DOMAIN d.tables \ {FtsName(name)}
        /\ \A n \in DOMAIN e.tables : e.tables[n] = d.tables[n]
        /\ DOMAIN e.fts = DOMAIN d.fts \ {FtsName(name)}
        /\ \A x \in DOMAIN e.fts : e.fts[x] = d.fts[x]
        /\ DOMAIN e.indexes = {x \in DOMAIN d.indexes : d.indexes[x].table # FtsName(name)}
        /\ \A x \in DOMAIN e.indexes : e.indexes[x] = d.indexes[x]
    BY <2>3, DropTableIs
  <2> QED BY <2>1, <2>2, <2>3, <2>4
<1>2. CASE ~FtsExists(d, name)
  <2>1. DropFts(d, name) = d
    BY <1>2 DEF DropFts
  <2>2. FtsName(name) \notin DOMAIN d.fts
    BY <1>2 DEF FtsExists
  <2> QED BY <2>1, <2>2
<1> QED BY <1>1, <1>2

LEMMA AddFtsIs ==
    ASSUME NEW d, NEW def, Database(d)
    PROVE  LET e == AddFts(d, def) IN
           /\ Database(e)
           /\ e.catalog = d.catalog
           /\ e.tables = d.tables
           /\ e.views = d.views
           /\ e.indexes = d.indexes
           /\ \A x \in DOMAIN e.fts :
                  \/ x \in DOMAIN d.fts /\ e.fts[x] = d.fts[x]
                  \/ x = FtsName(def.name) /\ e.fts[x] \subseteq DOMAIN def.columns
<1>1. CASE Searchable(def) = {}
  BY <1>1 DEF AddFts
<1>2. CASE Searchable(def) # {}
  <2> DEFINE fts == With(d.fts, FtsName(def.name), Searchable(def))
  <2>1. AddFts(d, def) = [d EXCEPT !.fts = fts]
    BY <1>2 DEF AddFts
  <2>2. fts = [x \in DOMAIN d.fts \cup {FtsName(def.name)} |->
                  IF x = FtsName(def.name) THEN Searchable(def) ELSE d.fts[x]]
    BY DEF With
  <2>3. Searchable(def) \subseteq DOMAIN def.columns
    BY DEF Searchable
  <2> HIDE DEF fts
  <2>4. AddFts(d, def) = [catalog |-> d.catalog, tables |-> d.tables, views |-> d.views,
                          indexes |-> d.indexes, fts |-> fts]
    BY <2>1, SetMap
  <2> QED BY <2>2, <2>3, <2>4 DEF Database
<1> QED BY <1>1, <1>2

-----------------------------------------------------------------------------
(* Names                                                                     *)

LEMMA AppendKeepsFirst ==
    ASSUME NEW S, NEW seq \in Seq(S), NEW elt \in S, seq # <<>>
    PROVE  Append(seq, elt)[1] = seq[1]
  OBVIOUS

LEMMA FtsNameIs ==
    ASSUME NEW name \in Names
    PROVE  /\ FtsName(name)[1] = name[1]
           /\ name[1] # ""
           /\ name \in Seq(Words)
<1>1. name \in Seq(Words) /\ name # <<>> /\ name[1] # ""
  BY NamesAssumption
<1>2. "fts" \in Words
  BY DEF Words
<1>3. Append(name, "fts")[1] = name[1]
  BY <1>1, <1>2, AppendKeepsFirst, Zenon
<1> QED BY <1>1, <1>3 DEF FtsName

(* The table a rebuild makes has the name of no collection and of no         *)
(* full-text table.                                                          *)
LEMMA TempIsOther ==
    ASSUME NEW name \in Names
    PROVE  /\ Temp(name) \notin Names
           /\ \A m \in Names : FtsName(m) # Temp(name)
<1>1. Temp(name)[1] = ""
  <2>1. PICK a, b, c : a = "" /\ b = "zb" /\ c = "rebuild"
    OBVIOUS
  <2>2. a \in Words /\ b \in Words /\ c \in Words
    BY <2>1 DEF Words
  <2>3. Temp(name) = <<a, b, c>> \o name
    BY <2>1, Zenon DEF Temp
  <2>4. name \in Seq(Words)
    BY FtsNameIs
  <2>5. (<<a, b, c>> \o name)[1] = a
    BY <2>2, <2>4
  <2> QED BY <2>1, <2>3, <2>5
<1> QED BY <1>1, FtsNameIs

-----------------------------------------------------------------------------
(* Each transaction keeps the database sound                                 *)

(* A new table has no rows to break a constraint.                            *)
LEMMA EmptyTableMeets ==
    ASSUME NEW t, NEW d, NEW name, t.rows = Nothing, d.tables[name] = t
    PROVE  MeetsConstraints(t) /\ MeetsIndexes(d, name) /\ RowsFit(t)
<1>1. DOMAIN t.rows = {}
  BY DEF Nothing
<1> QED BY <1>1 DEF MeetsConstraints, MeetsIndexes, Distinct, RowsFit

(* What another table's indexes ask is asked as before.                      *)
LEMMA OtherTableMeets ==
    ASSUME NEW d, NEW e, NEW n, MeetsIndexes(d, n), e.tables[n] = d.tables[n],
           \A x \in DOMAIN e.indexes :
               e.indexes[x].table = n =>
                   /\ x \in DOMAIN d.indexes
                   /\ d.indexes[x].table = n
                   /\ e.indexes[x].columns = d.indexes[x].columns
                   /\ e.indexes[x].unique = d.indexes[x].unique
    PROVE  MeetsIndexes(e, n)
  BY DEF MeetsIndexes

LEMMA CreatedTableKeeps ==
    ASSUME Sound(db), NEW def, def.name \in Names, def.name \notin DOMAIN db.catalog,
           Free(db, def.name), NEW e \in CreatedTable(db, def)
    PROVE  /\ Sound(e)
           /\ \A n \in DOMAIN db.tables : n \in DOMAIN e.tables /\ e.tables[n] = db.tables[n]
           /\ \A n \in DOMAIN e.catalog :
                  \/ n \in DOMAIN db.catalog /\ e.catalog[n] = db.catalog[n]
                  \/ DOMAIN e.catalog[n].columns \subseteq DOMAIN def.columns
<1> PICK d : d = db
  OBVIOUS
<1> DEFINE name == def.name
<1>0. /\ Sound(d) /\ Database(d) /\ Matched(d)
      /\ name \notin DOMAIN d.catalog \cup DOMAIN d.tables \cup DOMAIN d.views \cup DOMAIN d.fts
  BY DEF Sound, Database, Free
<1>1. PICK f : f = CreateTable(d, name, def)
  OBVIOUS
<1>2. /\ Database(f)
      /\ f.catalog = d.catalog
      /\ f.views = d.views
      /\ f.fts = d.fts
      /\ DOMAIN f.tables = DOMAIN d.tables \cup {name}
      /\ \A n \in DOMAIN d.tables : n # name => f.tables[n] = d.tables[n]
      /\ f.tables[name] = [columns |-> Physical(def.kind, Stored(def.columns)),
                           rows |-> Nothing]
      /\ DOMAIN d.indexes \subseteq DOMAIN f.indexes
      /\ \A x \in DOMAIN d.indexes : f.indexes[x] = d.indexes[x]
      /\ \A x \in DOMAIN f.indexes \ DOMAIN d.indexes : f.indexes[x].table = name
  BY <1>0, <1>1, CreateTableIs
<1>3. PICK g : g = CreateIndexes(f, name, def.indexes \o RuleIndexes(def))
  OBVIOUS
<1>4. /\ Database(g)
      /\ g.catalog = f.catalog
      /\ g.tables = f.tables
      /\ g.views = f.views
      /\ g.fts = f.fts
      /\ DOMAIN f.indexes \subseteq DOMAIN g.indexes
      /\ \A x \in DOMAIN f.indexes : g.indexes[x] = f.indexes[x]
      /\ \A x \in DOMAIN g.indexes \ DOMAIN f.indexes : g.indexes[x].table = name
  BY <1>2, <1>3, CreateIndexesIs
<1>5. PICK h : h = AddFts(g, def)
  OBVIOUS
<1>6. /\ Database(h)
      /\ h.catalog = g.catalog
      /\ h.tables = g.tables
      /\ h.views = g.views
      /\ h.indexes = g.indexes
      /\ \A x \in DOMAIN h.fts :
             \/ x \in DOMAIN g.fts /\ h.fts[x] = g.fts[x]
             \/ x = FtsName(name) /\ h.fts[x] \subseteq DOMAIN def.columns
  BY <1>4, <1>5, AddFtsIs
<1>7. e = [h EXCEPT !.catalog = With(h.catalog, name, CatalogRow(def, def.source))]
  BY <1>1, <1>3, <1>5 DEF CreatedTable
<1>8. PICK catalog : catalog = With(h.catalog, name, CatalogRow(def, def.source))
  OBVIOUS
<1>9. /\ DOMAIN catalog = DOMAIN d.catalog \cup {name}
      /\ catalog[name] = CatalogRow(def, def.source)
      /\ \A n \in DOMAIN d.catalog : n # name => catalog[n] = d.catalog[n]
  BY <1>2, <1>4, <1>6, <1>8 DEF With
<1>10. e = [catalog |-> catalog, tables |-> h.tables, views |-> h.views,
            indexes |-> h.indexes, fts |-> h.fts]
  BY <1>6, <1>7, <1>8, SetMap
<1>11. /\ Database(e)
       /\ e.catalog = catalog
       /\ e.views = d.views
       /\ DOMAIN e.tables = DOMAIN d.tables \cup {name}
       /\ \A n \in DOMAIN d.tables : n # name => e.tables[n] = d.tables[n]
       /\ e.tables[name] = [columns |-> Physical(def.kind, Stored(def.columns)),
                            rows |-> Nothing]
       /\ \A x \in DOMAIN e.indexes :
              \/ x \in DOMAIN d.indexes /\ e.indexes[x] = d.indexes[x]
              \/ e.indexes[x].table = name
       /\ \A x \in DOMAIN e.fts :
              \/ x \in DOMAIN d.fts /\ e.fts[x] = d.fts[x]
              \/ x = FtsName(name) /\ e.fts[x] \subseteq DOMAIN def.columns
  BY <1>2, <1>4, <1>6, <1>10 DEF Database
<1>12. /\ catalog[name].kind = def.kind
       /\ catalog[name].columns = Stored(def.columns)
       /\ DOMAIN catalog[name].columns = DOMAIN def.columns
  BY <1>9 DEF CatalogRow, Stored
<1>13. /\ e.tables[name].rows = Nothing
       /\ e.tables[name].columns = Physical(def.kind, Stored(def.columns))
       /\ TableShape(e.tables[name])
  BY <1>11 DEF TableShape
<1>14. \A n \in DOMAIN e.tables :
           /\ TableShape(e.tables[n])
           /\ RowsFit(e.tables[n])
           /\ e.tables[n].columns = Physical(e.catalog[n].kind, e.catalog[n].columns)
           /\ MeetsConstraints(e.tables[n])
           /\ MeetsIndexes(e, n)
  <2> TAKE n \in DOMAIN e.tables
  <2>1. CASE n = name
    <3>1. MeetsConstraints(e.tables[name]) /\ MeetsIndexes(e, name) /\ RowsFit(e.tables[name])
      BY <1>13, EmptyTableMeets
    <3> QED BY <2>1, <3>1, <1>11, <1>12, <1>13
  <2>2. CASE n # name
    <3>1. n \in DOMAIN d.tables /\ n \in DOMAIN d.catalog
      BY <2>2, <1>0, <1>11 DEF Matched
    <3>2. e.tables[n] = d.tables[n] /\ e.catalog[n] = d.catalog[n]
      BY <2>2, <3>1, <1>9, <1>11
    <3>3. /\ TableShape(d.tables[n])
          /\ RowsFit(d.tables[n])
          /\ d.tables[n].columns = Physical(d.catalog[n].kind, d.catalog[n].columns)
          /\ MeetsConstraints(d.tables[n])
          /\ MeetsIndexes(d, n)
      BY <3>1, <1>0 DEF Sound, Matched, TableShape
    <3>4. MeetsIndexes(e, n)
      BY <2>2, <3>2, <3>3, <1>11, OtherTableMeets
    <3> QED BY <3>2, <3>3, <3>4
  <2> QED BY <2>1, <2>2
<1>15. \A x \in DOMAIN e.fts :
           \E n \in DOMAIN e.tables :
               x = FtsName(n) /\ e.fts[x] \subseteq DOMAIN e.catalog[n].columns
  <2> TAKE x \in DOMAIN e.fts
  <2>1. CASE x \in DOMAIN d.fts /\ e.fts[x] = d.fts[x]
    <3>1. PICK n \in DOMAIN d.tables :
              x = FtsName(n) /\ d.fts[x] \subseteq DOMAIN d.catalog[n].columns
      BY <2>1, <1>0 DEF Matched
    <3>2. n \in DOMAIN d.catalog /\ n # name
      BY <1>0 DEF Matched
    <3> QED BY <2>1, <3>1, <3>2, <1>9, <1>11
  <2>2. CASE x = FtsName(name) /\ e.fts[x] \subseteq DOMAIN def.columns
    BY <2>2, <1>11, <1>12
  <2> QED BY <2>1, <2>2, <1>11
<1>16. \A x \in DOMAIN e.indexes : e.indexes[x].table \in DOMAIN e.tables
  BY <1>0, <1>11 DEF Matched
<1>17. /\ DOMAIN e.catalog = DOMAIN e.tables \cup DOMAIN e.views
       /\ DOMAIN e.tables \cap DOMAIN e.views = {}
       /\ DOMAIN e.catalog \subseteq Names
  BY <1>0, <1>9, <1>11 DEF Matched, Sound
<1>18. \A v \in DOMAIN e.views : e.catalog[v].kind = "view"
  BY <1>0, <1>9, <1>11 DEF Matched, Sound
<1>19. Matched(e)
  BY <1>14, <1>15, <1>16, <1>17 DEF Matched
<1>20. Sound(e)
  BY <1>11, <1>14, <1>17, <1>18, <1>19 DEF Sound, Database, TableShape
<1>21. \A n \in DOMAIN e.catalog :
           \/ n \in DOMAIN d.catalog /\ e.catalog[n] = d.catalog[n]
           \/ DOMAIN e.catalog[n].columns \subseteq DOMAIN def.columns
  BY <1>9, <1>11, <1>12
<1> QED BY <1>0, <1>11, <1>20, <1>21

LEMMA CreatedViewKeeps ==
    ASSUME Sound(db), NEW def, def.name \in Names, def.name \notin DOMAIN db.catalog,
           Free(db, def.name), NEW e \in CreatedView(db, def)
    PROVE  /\ Sound(e)
           /\ e.tables = db.tables
           /\ \A n \in DOMAIN e.catalog :
                  \/ n \in DOMAIN db.catalog /\ e.catalog[n] = db.catalog[n]
                  \/ DOMAIN e.catalog[n].columns \subseteq DOMAIN def.columns
<1> PICK d : d = db
  OBVIOUS
<1> DEFINE name == def.name
<1>0. /\ Sound(d) /\ Database(d) /\ Matched(d)
      /\ name \notin DOMAIN d.catalog \cup DOMAIN d.tables \cup DOMAIN d.views
  BY DEF Sound, Database, Free
<1>1. PICK row : row = [kind |-> "view", columns |-> Nothing, source |-> def.source]
  OBVIOUS
<1>2. PICK catalog, views : catalog = With(d.catalog, name, row)
                            /\ views = With(d.views, name, def.source)
  OBVIOUS
<1>3. e = [d EXCEPT !.catalog = catalog, !.views = views]
  BY <1>1, <1>2 DEF CreatedView
<1>4. /\ DOMAIN catalog = DOMAIN d.catalog \cup {name}
      /\ catalog[name].kind = "view"
      /\ \A n \in DOMAIN d.catalog : n # name => catalog[n] = d.catalog[n]
      /\ DOMAIN views = DOMAIN d.views \cup {name}
  BY <1>1, <1>2 DEF With
<1>5. e = [catalog |-> catalog, tables |-> d.tables, views |-> views,
           indexes |-> d.indexes, fts |-> d.fts]
  <2>1. PICK f : f = [d EXCEPT !.catalog = catalog]
    OBVIOUS
  <2>2. f = [catalog |-> catalog, tables |-> d.tables, views |-> d.views,
             indexes |-> d.indexes, fts |-> d.fts]
    BY <1>0, <2>1, SetMap
  <2>3. Database(f)
    BY <2>2 DEF Database
  <2>4. PICK g : g = [f EXCEPT !.views = views]
    OBVIOUS
  <2>5. g = [catalog |-> f.catalog, tables |-> f.tables, views |-> views,
             indexes |-> f.indexes, fts |-> f.fts]
    BY <2>3, <2>4, SetMap
  <2> QED BY <1>3, <2>1, <2>2, <2>4, <2>5
<1>6. /\ Database(e)
      /\ e.catalog = catalog /\ e.views = views
      /\ e.tables = d.tables /\ e.indexes = d.indexes /\ e.fts = d.fts
  BY <1>5 DEF Database
<1>7. \A n \in DOMAIN e.tables : n \in DOMAIN d.catalog /\ e.catalog[n] = d.catalog[n]
  BY <1>0, <1>4, <1>6 DEF Matched
<1>8. \A n \in DOMAIN e.tables :
          /\ e.tables[n].columns = Physical(e.catalog[n].kind, e.catalog[n].columns)
          /\ MeetsConstraints(e.tables[n])
          /\ MeetsIndexes(e, n)
  BY <1>0, <1>6, <1>7 DEF Matched, MeetsIndexes
<1>9. \A x \in DOMAIN e.fts :
          \E n \in DOMAIN e.tables :
              x = FtsName(n) /\ e.fts[x] \subseteq DOMAIN e.catalog[n].columns
  BY <1>0, <1>6, <1>7 DEF Matched
<1>10. /\ DOMAIN e.catalog = DOMAIN e.tables \cup DOMAIN e.views
       /\ DOMAIN e.tables \cap DOMAIN e.views = {}
       /\ DOMAIN e.catalog \subseteq Names
       /\ \A x \in DOMAIN e.indexes : e.indexes[x].table \in DOMAIN e.tables
  BY <1>0, <1>4, <1>6 DEF Matched, Sound
<1>11. \A v \in DOMAIN e.views : e.catalog[v].kind = "view"
  BY <1>0, <1>4, <1>6 DEF Matched, Sound
<1>12. Matched(e)
  BY <1>8, <1>9, <1>10 DEF Matched
<1>13. \A n \in DOMAIN e.tables : TableShape(e.tables[n]) /\ RowsFit(e.tables[n])
  BY <1>0, <1>6 DEF Sound, TableShape
<1>14. Sound(e)
  BY <1>6, <1>10, <1>11, <1>12, <1>13 DEF Sound, Database, TableShape
<1>15. DOMAIN row.columns = {}
  BY <1>1 DEF Nothing
<1>16. catalog[name] = row
  BY <1>2 DEF With
<1> QED BY <1>4, <1>6, <1>14, <1>15, <1>16

LEMMA CreatedKeeps ==
    ASSUME Sound(db), NEW def, def.name \in Names, NEW e \in Created(db, def)
    PROVE  /\ Sound(e)
           /\ \A n \in DOMAIN db.tables : n \in DOMAIN e.tables /\ e.tables[n] = db.tables[n]
           /\ \A n \in DOMAIN e.catalog :
                  \/ n \in DOMAIN db.catalog /\ e.catalog[n] = db.catalog[n]
                  \/ DOMAIN e.catalog[n].columns \subseteq DOMAIN def.columns
<1>1. def.name \notin DOMAIN db.catalog /\ Free(db, def.name)
  BY DEF Created
<1>2. CASE def.kind = "view"
  <2>1. e \in CreatedView(db, def)
    BY <1>1, <1>2 DEF Created
  <2>2. /\ Sound(e)
        /\ e.tables = db.tables
        /\ \A n \in DOMAIN e.catalog :
               \/ n \in DOMAIN db.catalog /\ e.catalog[n] = db.catalog[n]
               \/ DOMAIN e.catalog[n].columns \subseteq DOMAIN def.columns
    BY <1>1, <2>1, CreatedViewKeeps
  <2> QED BY <2>2
<1>3. CASE def.kind # "view"
  <2>1. e \in CreatedTable(db, def)
    BY <1>1, <1>3 DEF Created
  <2> QED BY <1>1, <2>1, CreatedTableKeeps
<1> QED BY <1>2, <1>3

(* A collection, its table and its full-text table gone, or its view.        *)
LEMMA DeletedKeeps ==
    ASSUME Sound(db), NoFtsClash, NEW name, NEW e \in Deleted(db, name)
    PROVE  /\ Sound(e)
           /\ DOMAIN e.catalog = DOMAIN db.catalog \ {name}
           /\ \A n \in DOMAIN e.catalog : e.catalog[n] = db.catalog[n]
           /\ \A n \in DOMAIN db.tables \ {name} :
                  n \in DOMAIN e.tables /\ e.tables[n] = db.tables[n]
<1> PICK d : d = db
  OBVIOUS
<1>0. /\ Sound(d) /\ Database(d) /\ Matched(d)
      /\ name \in DOMAIN d.catalog
      /\ DOMAIN d.tables \subseteq Names /\ name \in Names
  BY DEF Sound, Matched, Database, Deleted
<1>1. PICK catalog : catalog = Restrict(d.catalog, DOMAIN d.catalog \ {name})
  OBVIOUS
<1>2. /\ DOMAIN catalog = DOMAIN d.catalog \ {name}
      /\ \A n \in DOMAIN catalog : catalog[n] = d.catalog[n]
  BY <1>1 DEF Restrict
<1>3. PICK f : f = [d EXCEPT !.catalog = catalog]
  OBVIOUS
<1>4. f = [catalog |-> catalog, tables |-> d.tables, views |-> d.views,
           indexes |-> d.indexes, fts |-> d.fts]
  BY <1>0, <1>3, SetMap
<1>5. /\ Database(f)
      /\ f.catalog = catalog /\ f.views = d.views
      /\ f.tables = d.tables /\ f.indexes = d.indexes /\ f.fts = d.fts
  BY <1>4 DEF Database
<1>6. \/ /\ d.catalog[name].kind # "view"
         /\ e = DropTable(DropFts(f, name), name)
      \/ /\ name \notin DOMAIN d.tables
         /\ e = [f EXCEPT !.views = Restrict(f.views, DOMAIN f.views \ {name})]
  BY <1>0, <1>1, <1>3 DEF Deleted
<1>7. /\ Database(e)
      /\ e.catalog = catalog
      /\ DOMAIN e.tables = DOMAIN d.tables \ {name}
      /\ \A n \in DOMAIN e.tables : e.tables[n] = d.tables[n]
      /\ DOMAIN e.views = DOMAIN d.views \ {name}
      /\ DOMAIN e.fts \subseteq DOMAIN d.fts
      /\ \A x \in DOMAIN e.fts : e.fts[x] = d.fts[x]
      /\ name \in DOMAIN d.tables => FtsName(name) \notin DOMAIN e.fts
      /\ DOMAIN e.indexes \subseteq DOMAIN d.indexes
      /\ \A x \in DOMAIN e.indexes : e.indexes[x] = d.indexes[x] /\ e.indexes[x].table # name
  <2>1. CASE d.catalog[name].kind # "view" /\ e = DropTable(DropFts(f, name), name)
    <3>1. FtsName(name) \notin DOMAIN f.tables
      BY <1>0, <1>5 DEF NoFtsClash
    <3>2. \A x \in DOMAIN f.indexes : f.indexes[x].table \in DOMAIN f.tables
      BY <1>0, <1>5 DEF Matched
    <3>3. PICK g : g = DropFts(f, name)
      OBVIOUS
    <3>4. /\ Database(g)
          /\ g.catalog = f.catalog
          /\ g.views = f.views
          /\ DOMAIN g.tables = DOMAIN f.tables
          /\ \A n \in DOMAIN g.tables : g.tables[n] = f.tables[n]
          /\ DOMAIN g.fts = DOMAIN f.fts \ {FtsName(name)}
          /\ \A x \in DOMAIN g.fts : g.fts[x] = f.fts[x]
          /\ DOMAIN g.indexes = DOMAIN f.indexes
          /\ \A x \in DOMAIN g.indexes : g.indexes[x] = f.indexes[x]
      BY <1>5, <3>1, <3>2, <3>3, DropFtsIs
    <3>5. e = DropTable(g, name)
      BY <2>1, <3>3
    <3>6. /\ Database(e)
          /\ e.catalog = g.catalog
          /\ e.views = g.views
          /\ DOMAIN e.tables = DOMAIN g.tables \ {name}
          /\ \A n \in DOMAIN e.tables : e.tables[n] = g.tables[n]
          /\ DOMAIN e.fts = DOMAIN g.fts \ {name}
          /\ \A x \in DOMAIN e.fts : e.fts[x] = g.fts[x]
          /\ DOMAIN e.indexes = {x \in DOMAIN g.indexes : g.indexes[x].table # name}
          /\ \A x \in DOMAIN e.indexes : e.indexes[x] = g.indexes[x]
      BY <3>4, <3>5, DropTableIs
    <3>7. name \notin DOMAIN d.views
      BY <2>1, <1>0 DEF Sound
    <3> QED BY <1>5, <3>4, <3>6, <3>7
  <2>2. CASE /\ name \notin DOMAIN d.tables
             /\ e = [f EXCEPT !.views = Restrict(f.views, DOMAIN f.views \ {name})]
    <3>1. PICK views : views = Restrict(f.views, DOMAIN f.views \ {name})
      OBVIOUS
    <3>2. DOMAIN views = DOMAIN d.views \ {name}
      BY <1>5, <3>1 DEF Restrict
    <3>3. e = [catalog |-> f.catalog, tables |-> f.tables, views |-> views,
               indexes |-> f.indexes, fts |-> f.fts]
      BY <1>5, <2>2, <3>1, SetMap
    <3>4. /\ Database(e)
          /\ e.catalog = f.catalog /\ e.views = views
          /\ e.tables = f.tables /\ e.indexes = f.indexes /\ e.fts = f.fts
      BY <3>3 DEF Database
    <3>5. \A x \in DOMAIN d.indexes : d.indexes[x].table # name
      BY <1>0, <2>2 DEF Matched
    <3> QED BY <1>5, <2>2, <3>2, <3>4, <3>5
  <2> QED BY <1>6, <2>1, <2>2
<1>8. \A n \in DOMAIN e.tables :
          /\ n \in DOMAIN d.tables /\ n \in DOMAIN d.catalog /\ n # name
          /\ e.tables[n] = d.tables[n] /\ e.catalog[n] = d.catalog[n]
  BY <1>0, <1>2, <1>7 DEF Matched
<1>9. \A n \in DOMAIN e.tables :
          /\ TableShape(e.tables[n])
          /\ RowsFit(e.tables[n])
          /\ e.tables[n].columns = Physical(e.catalog[n].kind, e.catalog[n].columns)
          /\ MeetsConstraints(e.tables[n])
          /\ MeetsIndexes(e, n)
  <2> TAKE n \in DOMAIN e.tables
  <2>1. /\ TableShape(d.tables[n])
        /\ RowsFit(d.tables[n])
        /\ d.tables[n].columns = Physical(d.catalog[n].kind, d.catalog[n].columns)
        /\ MeetsConstraints(d.tables[n])
        /\ MeetsIndexes(d, n)
    BY <1>0, <1>8 DEF Sound, Matched, TableShape
  <2>2. MeetsIndexes(e, n)
    BY <1>7, <1>8, <2>1, OtherTableMeets
  <2> QED BY <1>8, <2>1, <2>2
<1>10. \A x \in DOMAIN e.fts :
           \E n \in DOMAIN e.tables :
               x = FtsName(n) /\ e.fts[x] \subseteq DOMAIN e.catalog[n].columns
  <2> TAKE x \in DOMAIN e.fts
  <2>1. PICK n \in DOMAIN d.tables :
            x = FtsName(n) /\ d.fts[x] \subseteq DOMAIN d.catalog[n].columns
    BY <1>0, <1>7 DEF Matched
  <2>2. n # name
    BY <1>7, <2>1
  <2> QED BY <1>7, <1>8, <2>1, <2>2
<1>11. /\ DOMAIN e.catalog = DOMAIN e.tables \cup DOMAIN e.views
       /\ DOMAIN e.tables \cap DOMAIN e.views = {}
       /\ DOMAIN e.catalog \subseteq Names
       /\ \A x \in DOMAIN e.indexes : e.indexes[x].table \in DOMAIN e.tables
  BY <1>0, <1>2, <1>7 DEF Matched, Sound
<1>12. \A v \in DOMAIN e.views : e.catalog[v].kind = "view"
  BY <1>0, <1>2, <1>7 DEF Matched, Sound
<1>13. Matched(e)
  BY <1>9, <1>10, <1>11 DEF Matched
<1>14. Sound(e)
  BY <1>7, <1>9, <1>11, <1>12, <1>13 DEF Sound, Database, TableShape
<1> QED BY <1>2, <1>7, <1>14

(* What a table holds is replaced.                                           *)
LEMMA SetRowsIs ==
    ASSUME NEW d, NEW name, NEW rows, Database(d), name \in DOMAIN d.tables,
           TableShape(d.tables[name])
    PROVE  LET e == [d EXCEPT !.tables[name].rows = rows] IN
           /\ Database(e)
           /\ e.catalog = d.catalog
           /\ e.views = d.views
           /\ e.indexes = d.indexes
           /\ e.fts = d.fts
           /\ DOMAIN e.tables = DOMAIN d.tables
           /\ \A n \in DOMAIN d.tables : n # name => e.tables[n] = d.tables[n]
           /\ e.tables[name] = [columns |-> d.tables[name].columns, rows |-> rows]
<1>1. PICK table : table = [d.tables[name] EXCEPT !.rows = rows]
  OBVIOUS
<1>2. table = [columns |-> d.tables[name].columns, rows |-> rows]
  <2>1. PICK t : t = d.tables[name]
    OBVIOUS
  <2>2. t = [columns |-> t.columns, rows |-> t.rows]
    BY <2>1 DEF TableShape
  <2>3. [t EXCEPT !.rows = rows] = [columns |-> t.columns, rows |-> rows]
    BY <2>2
  <2> QED BY <1>1, <2>1, <2>3
<1>3. PICK tables : tables = [d.tables EXCEPT ![name] = table]
  OBVIOUS
<1>4. /\ DOMAIN tables = DOMAIN d.tables
      /\ \A n \in DOMAIN d.tables : n # name => tables[n] = d.tables[n]
      /\ tables[name] = table
  BY <1>3
<1>5. PICK e : e = [d EXCEPT !.tables = tables]
  OBVIOUS
<1>6. e = [catalog |-> d.catalog, tables |-> tables, views |-> d.views,
           indexes |-> d.indexes, fts |-> d.fts]
  BY <1>5, SetMap
<1>7. [d EXCEPT !.tables[name].rows = rows] = e
  BY <1>1, <1>3, <1>5, Zenon
<1> QED BY <1>2, <1>4, <1>6, <1>7 DEF Database

(* What a row of the old table is in the new one.                            *)
CopiedRow(row, def, kept) ==
    [c \in DOMAIN Physical(def.kind, Stored(def.columns)) |-> Copied(row, c, def.kind, kept)]

CopiedRows(d, name, def) ==
    [i \in DOMAIN d.tables[name].rows |->
        CopiedRow(d.tables[name].rows[i], def,
                  DOMAIN d.catalog[name].columns \cap DOMAIN def.columns)]

LEMMA RebuiltIs ==
    ASSUME Sound(db), NoFtsClash, NEW name \in DOMAIN db.tables, NEW def, def.name \in Names,
           NEW e \in Rebuilt(db, name, def)
    PROVE  /\ Database(e)
           /\ e.catalog = db.catalog
           /\ e.views = db.views
           /\ DOMAIN e.fts = DOMAIN db.fts
           /\ \A x \in DOMAIN e.fts : e.fts[x] = db.fts[x]
           /\ DOMAIN e.tables = (DOMAIN db.tables \ {name}) \cup {def.name}
           /\ \A n \in DOMAIN e.tables : n # def.name => e.tables[n] = db.tables[n]
           /\ e.tables[def.name] = [columns |-> Physical(def.kind, Stored(def.columns)),
                                    rows |-> CopiedRows(db, name, def)]
           /\ MeetsConstraints(e.tables[def.name])
           /\ MeetsIndexes(e, def.name)
           /\ \A x \in DOMAIN e.indexes :
                  \/ e.indexes[x].table = def.name
                  \/ /\ x \in DOMAIN db.indexes
                     /\ db.indexes[x].table # name
                     /\ e.indexes[x].table = db.indexes[x].table
                     /\ e.indexes[x].columns = db.indexes[x].columns
                     /\ e.indexes[x].unique = db.indexes[x].unique
           /\ def.name \notin DOMAIN db.tables \ {name}
           /\ def.name \notin DOMAIN db.views
           /\ Declarable(def)
<1> PICK d, temp, T : d = db /\ T = Temp(def.name) /\ temp = CreateTable(d, T, def)
  OBVIOUS
<1>0. /\ Sound(d) /\ Database(d) /\ Matched(d)
      /\ name \in DOMAIN d.tables /\ DOMAIN d.tables \subseteq Names
      /\ T \notin Names /\ T # name /\ T # def.name
      /\ T \notin DOMAIN d.tables
      /\ T \notin DOMAIN d.fts /\ name \notin DOMAIN d.fts
  <2>1. Sound(d) /\ Database(d) /\ Matched(d) /\ DOMAIN d.tables \subseteq Names
    BY DEF Sound, Matched, Database
  <2>2. T \notin Names /\ \A m \in Names : FtsName(m) # T
    BY TempIsOther
  <2>3. T \notin DOMAIN d.fts /\ name \notin DOMAIN d.fts
    BY <2>1, <2>2 DEF Matched, NoFtsClash
  <2> QED BY <2>1, <2>2, <2>3
<1>1. /\ Database(temp)
      /\ temp.catalog = d.catalog
      /\ temp.views = d.views
      /\ temp.fts = d.fts
      /\ DOMAIN temp.tables = DOMAIN d.tables \cup {T}
      /\ \A n \in DOMAIN d.tables : n # T => temp.tables[n] = d.tables[n]
      /\ temp.tables[T] = [columns |-> Physical(def.kind, Stored(def.columns)),
                           rows |-> Nothing]
      /\ DOMAIN d.indexes \subseteq DOMAIN temp.indexes
      /\ \A x \in DOMAIN d.indexes : temp.indexes[x] = d.indexes[x]
      /\ \A x \in DOMAIN temp.indexes \ DOMAIN d.indexes : temp.indexes[x].table = T
  BY <1>0, CreateTableIs
<1>2. PICK copy : copy = CopiedRows(d, name, def)
  OBVIOUS
<1>3. PICK full : full = [temp EXCEPT !.tables[T].rows = copy]
  OBVIOUS
<1>4. PICK dropped : dropped = DropTable(full, name)
  OBVIOUS
<1>5. PICK renamed : renamed = RenameTable(dropped, T, def.name)
  OBVIOUS
<1>6. temp.tables[T].columns = Physical(def.kind, Stored(def.columns))
  BY <1>1
<1>7. /\ e = CreateIndexes(renamed, def.name,
                           SystemIndexes(def.kind) \o def.indexes \o RuleIndexes(def))
      /\ Declarable(def)
      /\ MeetsConstraints(full.tables[T])
      /\ Free(dropped, def.name)
      /\ MeetsIndexes(e, def.name)
  <2>1. full = [temp EXCEPT !.tables[T].rows =
                   [i \in DOMAIN d.tables[name].rows |->
                       [c \in DOMAIN temp.tables[T].columns |->
                           Copied(d.tables[name].rows[i], c, def.kind,
                                  DOMAIN d.catalog[name].columns \cap DOMAIN def.columns)]]]
    BY <1>2, <1>3, <1>6, Zenon DEF CopiedRows, CopiedRow
  <2> QED BY <1>4, <1>5, <2>1, Zenon DEF Rebuilt
<1>8. /\ Database(full)
      /\ full.catalog = temp.catalog
      /\ full.views = temp.views
      /\ full.indexes = temp.indexes
      /\ full.fts = temp.fts
      /\ DOMAIN full.tables = DOMAIN temp.tables
      /\ \A n \in DOMAIN temp.tables : n # T => full.tables[n] = temp.tables[n]
      /\ full.tables[T] = [columns |-> temp.tables[T].columns, rows |-> copy]
  <2>1. T \in DOMAIN temp.tables /\ TableShape(temp.tables[T])
    BY <1>1 DEF TableShape
  <2> QED BY <1>1, <1>3, <2>1, SetRowsIs
<1>9. /\ Database(dropped)
      /\ dropped.catalog = full.catalog
      /\ dropped.views = full.views
      /\ DOMAIN dropped.tables = DOMAIN full.tables \ {name}
      /\ \A n \in DOMAIN dropped.tables : dropped.tables[n] = full.tables[n]
      /\ DOMAIN dropped.fts = DOMAIN full.fts \ {name}
      /\ \A x \in DOMAIN dropped.fts : dropped.fts[x] = full.fts[x]
      /\ DOMAIN dropped.indexes = {x \in DOMAIN full.indexes : full.indexes[x].table # name}
      /\ \A x \in DOMAIN dropped.indexes : dropped.indexes[x] = full.indexes[x]
  BY <1>4, <1>8, DropTableIs
<1>10. T \in DOMAIN dropped.tables
  BY <1>0, <1>1, <1>8, <1>9
<1>11. /\ Database(renamed)
       /\ renamed.catalog = dropped.catalog
       /\ renamed.views = dropped.views
       /\ renamed.fts = dropped.fts
       /\ DOMAIN renamed.tables = (DOMAIN dropped.tables \ {T}) \cup {def.name}
       /\ \A n \in DOMAIN renamed.tables : n # def.name => renamed.tables[n] = dropped.tables[n]
       /\ renamed.tables[def.name] = dropped.tables[T]
       /\ DOMAIN renamed.indexes = DOMAIN dropped.indexes
       /\ \A x \in DOMAIN renamed.indexes :
              /\ renamed.indexes[x].table = IF dropped.indexes[x].table = T THEN def.name
                                            ELSE dropped.indexes[x].table
              /\ renamed.indexes[x].columns = dropped.indexes[x].columns
              /\ renamed.indexes[x].unique = dropped.indexes[x].unique
  BY <1>5, <1>9, <1>10, RenameTableIs
<1>12. /\ Database(e)
       /\ e.catalog = renamed.catalog
       /\ e.tables = renamed.tables
       /\ e.views = renamed.views
       /\ e.fts = renamed.fts
       /\ DOMAIN renamed.indexes \subseteq DOMAIN e.indexes
       /\ \A x \in DOMAIN renamed.indexes : e.indexes[x] = renamed.indexes[x]
       /\ \A x \in DOMAIN e.indexes \ DOMAIN renamed.indexes : e.indexes[x].table = def.name
  BY <1>7, <1>11, CreateIndexesIs
<1>13. /\ e.catalog = d.catalog
       /\ e.views = d.views
       /\ DOMAIN e.fts = DOMAIN d.fts
       /\ \A x \in DOMAIN e.fts : e.fts[x] = d.fts[x]
  <2>1. full.fts = d.fts /\ e.fts = dropped.fts
    BY <1>1, <1>8, <1>11, <1>12
  <2>2. full.catalog = d.catalog /\ full.views = d.views
    BY <1>1, <1>8
  <2>3. e.catalog = full.catalog /\ e.views = full.views
    BY <1>9, <1>11, <1>12
  <2> QED BY <1>0, <1>9, <2>1, <2>2, <2>3
<1>14. /\ DOMAIN e.tables = (DOMAIN d.tables \ {name}) \cup {def.name}
       /\ \A n \in DOMAIN e.tables : n # def.name => e.tables[n] = d.tables[n]
  <2>1. /\ DOMAIN full.tables = DOMAIN d.tables \cup {T}
        /\ \A n \in DOMAIN d.tables : full.tables[n] = d.tables[n]
    BY <1>0, <1>1, <1>8
  <2>2. /\ DOMAIN e.tables = (DOMAIN full.tables \ {name, T}) \cup {def.name}
        /\ \A n \in DOMAIN e.tables : n # def.name => e.tables[n] = full.tables[n]
    BY <1>9, <1>11, <1>12
  <2>3. DOMAIN e.tables = (DOMAIN d.tables \ {name}) \cup {def.name}
    BY <1>0, <2>1, <2>2
  <2> QED BY <2>1, <2>2, <2>3
<1>15. e.tables[def.name] = full.tables[T]
  BY <1>9, <1>10, <1>11, <1>12
<1>16. e.tables[def.name] = [columns |-> Physical(def.kind, Stored(def.columns)), rows |-> copy]
  BY <1>6, <1>8, <1>15
<1>17. \A x \in DOMAIN e.indexes :
           \/ e.indexes[x].table = def.name
           \/ /\ x \in DOMAIN d.indexes
              /\ d.indexes[x].table # name
              /\ e.indexes[x].table = d.indexes[x].table
              /\ e.indexes[x].columns = d.indexes[x].columns
              /\ e.indexes[x].unique = d.indexes[x].unique
  <2> SUFFICES ASSUME NEW x \in DOMAIN e.indexes, e.indexes[x].table # def.name
               PROVE  /\ x \in DOMAIN d.indexes
                      /\ d.indexes[x].table # name
                      /\ e.indexes[x].table = d.indexes[x].table
                      /\ e.indexes[x].columns = d.indexes[x].columns
                      /\ e.indexes[x].unique = d.indexes[x].unique
    OBVIOUS
  <2>1. x \in DOMAIN renamed.indexes /\ e.indexes[x] = renamed.indexes[x]
    BY <1>12
  <2>2. /\ x \in DOMAIN dropped.indexes
        /\ dropped.indexes[x].table # T
        /\ renamed.indexes[x].table = dropped.indexes[x].table
        /\ renamed.indexes[x].columns = dropped.indexes[x].columns
        /\ renamed.indexes[x].unique = dropped.indexes[x].unique
    BY <1>11, <2>1
  <2>3. /\ x \in DOMAIN temp.indexes
        /\ dropped.indexes[x] = temp.indexes[x]
        /\ temp.indexes[x].table # name
    BY <1>8, <1>9, <2>2
  <2>4. x \in DOMAIN d.indexes /\ temp.indexes[x] = d.indexes[x]
    BY <1>1, <2>2, <2>3
  <2> QED BY <2>1, <2>2, <2>3, <2>4
<1>18. def.name \notin DOMAIN d.tables \ {name} /\ def.name \notin DOMAIN d.views
  BY <1>0, <1>1, <1>7, <1>8, <1>9 DEF Free
<1> QED BY <1>2, <1>7, <1>12, <1>13, <1>14, <1>15, <1>16, <1>17, <1>18

LEMMA UpdatedKeeps ==
    ASSUME Sound(db), NoFtsClash, NEW name, NEW def, def.name \in Names,
           NEW e \in Updated(db, name, def)
    PROVE  /\ Sound(e)
           /\ name \in DOMAIN db.tables
           /\ def.name \in DOMAIN e.tables
           /\ e.tables[def.name].rows = CopiedRows(db, name, def)
           /\ \A n \in DOMAIN db.tables \ {name} :
                  n \in DOMAIN e.tables /\ e.tables[n] = db.tables[n]
           /\ DOMAIN e.catalog = (DOMAIN db.catalog \ {name}) \cup {def.name}
           /\ e.catalog[def.name].columns = Stored(def.columns)
           /\ \A n \in DOMAIN e.catalog \ {def.name} : e.catalog[n] = db.catalog[n]
<1> PICK d : d = db
  OBVIOUS
<1>0. /\ Sound(d) /\ Database(d) /\ Matched(d)
      /\ name \in DOMAIN d.catalog /\ name \in DOMAIN d.tables
      /\ def.name # name => def.name \notin DOMAIN d.catalog
      /\ DOMAIN d.catalog \subseteq Names /\ name \in Names
      /\ DOMAIN d.tables \subseteq DOMAIN d.catalog
  BY DEF Sound, Matched, Database, Updated
<1>1. PICK b \in Rebuilt(d, name, def) : e = Recorded(Refilled(b, name, def), name, def)
  BY DEF Updated
<1>2. /\ Database(b)
      /\ b.catalog = d.catalog
      /\ b.views = d.views
      /\ DOMAIN b.fts = DOMAIN d.fts
      /\ \A x \in DOMAIN b.fts : b.fts[x] = d.fts[x]
      /\ DOMAIN b.tables = (DOMAIN d.tables \ {name}) \cup {def.name}
      /\ \A n \in DOMAIN b.tables : n # def.name => b.tables[n] = d.tables[n]
      /\ b.tables[def.name] = [columns |-> Physical(def.kind, Stored(def.columns)),
                               rows |-> CopiedRows(d, name, def)]
      /\ MeetsConstraints(b.tables[def.name])
      /\ MeetsIndexes(b, def.name)
      /\ \A x \in DOMAIN b.indexes :
             \/ b.indexes[x].table = def.name
             \/ /\ x \in DOMAIN d.indexes
                /\ d.indexes[x].table # name
                /\ b.indexes[x].table = d.indexes[x].table
                /\ b.indexes[x].columns = d.indexes[x].columns
                /\ b.indexes[x].unique = d.indexes[x].unique
      /\ def.name \notin DOMAIN d.tables \ {name}
      /\ def.name \notin DOMAIN d.views
  BY <1>0, RebuiltIs
<1>3. FtsName(name) \notin DOMAIN b.tables
  BY <1>0, <1>2 DEF NoFtsClash
<1>4. \A x \in DOMAIN b.indexes : b.indexes[x].table \in DOMAIN b.tables
  BY <1>0, <1>2 DEF Matched
<1>5. PICK f : f = DropFts(b, name)
  OBVIOUS
<1>6. /\ Database(f)
      /\ f.catalog = b.catalog
      /\ f.views = b.views
      /\ DOMAIN f.tables = DOMAIN b.tables
      /\ \A n \in DOMAIN f.tables : f.tables[n] = b.tables[n]
      /\ DOMAIN f.fts = DOMAIN b.fts \ {FtsName(name)}
      /\ \A x \in DOMAIN f.fts : f.fts[x] = b.fts[x]
      /\ DOMAIN f.indexes = DOMAIN b.indexes
      /\ \A x \in DOMAIN f.indexes : f.indexes[x] = b.indexes[x]
  BY <1>2, <1>3, <1>4, <1>5, DropFtsIs
<1>7. PICK g : g = AddFts(f, def)
  OBVIOUS
<1>8. /\ Database(g)
      /\ g.catalog = f.catalog
      /\ g.tables = f.tables
      /\ g.views = f.views
      /\ g.indexes = f.indexes
      /\ \A x \in DOMAIN g.fts :
             \/ x \in DOMAIN f.fts /\ g.fts[x] = f.fts[x]
             \/ x = FtsName(def.name) /\ g.fts[x] \subseteq DOMAIN def.columns
  BY <1>6, <1>7, AddFtsIs
<1>9. PICK row : row = CatalogRow(def, g.catalog[name].source)
  OBVIOUS
<1>10. PICK catalog :
           catalog = With(Restrict(g.catalog, DOMAIN g.catalog \ {name}), def.name, row)
  OBVIOUS
<1>11. /\ DOMAIN catalog = (DOMAIN d.catalog \ {name}) \cup {def.name}
       /\ catalog[def.name] = row
       /\ \A n \in DOMAIN catalog : n # def.name => catalog[n] = d.catalog[n]
  <2>1. g.catalog = d.catalog
    BY <1>2, <1>6, <1>8
  <2> QED BY <1>10, <2>1 DEF With, Restrict
<1>12. e = [g EXCEPT !.catalog = catalog]
  BY <1>1, <1>5, <1>7, <1>9, <1>10 DEF Recorded, Refilled
<1>13. e = [catalog |-> catalog, tables |-> g.tables, views |-> g.views,
            indexes |-> g.indexes, fts |-> g.fts]
  BY <1>8, <1>12, SetMap
<1>14. /\ Database(e)
       /\ e.catalog = catalog
       /\ e.tables = g.tables
       /\ e.views = g.views
       /\ e.indexes = g.indexes
       /\ e.fts = g.fts
  BY <1>13 DEF Database
<1>15. /\ e.views = d.views
       /\ DOMAIN e.tables = (DOMAIN d.tables \ {name}) \cup {def.name}
       /\ \A n \in DOMAIN e.tables : e.tables[n] = b.tables[n]
       /\ \A n \in DOMAIN e.tables : n # def.name => e.tables[n] = d.tables[n]
       /\ DOMAIN e.indexes = DOMAIN b.indexes
       /\ \A x \in DOMAIN e.indexes : e.indexes[x] = b.indexes[x]
  BY <1>2, <1>6, <1>8, <1>14
<1>16. \A x \in DOMAIN e.fts :
           \/ x \in DOMAIN d.fts \ {FtsName(name)} /\ e.fts[x] = d.fts[x]
           \/ x = FtsName(def.name) /\ e.fts[x] \subseteq DOMAIN def.columns
  BY <1>2, <1>6, <1>8, <1>14
<1>17. /\ catalog[def.name].kind = def.kind
       /\ catalog[def.name].columns = Stored(def.columns)
       /\ DOMAIN catalog[def.name].columns = DOMAIN def.columns
  BY <1>9, <1>11 DEF CatalogRow, Stored
<1>18. /\ e.tables[def.name].columns = Physical(def.kind, Stored(def.columns))
       /\ e.tables[def.name].rows = CopiedRows(d, name, def)
       /\ TableShape(e.tables[def.name])
       /\ RowsFit(e.tables[def.name])
       /\ MeetsConstraints(e.tables[def.name])
       /\ MeetsIndexes(e, def.name)
  <2>1. e.tables[def.name] = b.tables[def.name]
    BY <1>15
  <2>2. /\ e.tables[def.name].columns = Physical(def.kind, Stored(def.columns))
        /\ e.tables[def.name].rows = CopiedRows(d, name, def)
        /\ TableShape(e.tables[def.name])
        /\ MeetsConstraints(e.tables[def.name])
    BY <1>2, <2>1 DEF TableShape
  <2>3. \A i \in DOMAIN CopiedRows(d, name, def) :
            DOMAIN CopiedRows(d, name, def)[i] = DOMAIN Physical(def.kind, Stored(def.columns))
    BY DEF CopiedRows, CopiedRow
  <2>4. RowsFit(e.tables[def.name])
    BY <2>2, <2>3 DEF RowsFit
  <2>5. MeetsIndexes(e, def.name)
    BY <1>2, <1>15, <2>1, OtherTableMeets
  <2> QED BY <2>2, <2>4, <2>5
<1>19. \A n \in DOMAIN e.tables :
           /\ TableShape(e.tables[n])
           /\ RowsFit(e.tables[n])
           /\ e.tables[n].columns = Physical(e.catalog[n].kind, e.catalog[n].columns)
           /\ MeetsConstraints(e.tables[n])
           /\ MeetsIndexes(e, n)
  <2> TAKE n \in DOMAIN e.tables
  <2>1. CASE n = def.name
    BY <2>1, <1>14, <1>17, <1>18
  <2>2. CASE n # def.name
    <3>1. n \in DOMAIN d.tables /\ n # name /\ n \in DOMAIN catalog
      BY <2>2, <1>0, <1>11, <1>15
    <3>2. e.tables[n] = d.tables[n] /\ e.catalog[n] = d.catalog[n]
      BY <2>2, <3>1, <1>11, <1>14, <1>15
    <3>3. /\ TableShape(d.tables[n])
          /\ RowsFit(d.tables[n])
          /\ d.tables[n].columns = Physical(d.catalog[n].kind, d.catalog[n].columns)
          /\ MeetsConstraints(d.tables[n])
          /\ MeetsIndexes(d, n)
      BY <3>1, <1>0 DEF Sound, Matched, TableShape
    <3>4. \A x \in DOMAIN e.indexes :
              e.indexes[x].table = n =>
                  /\ x \in DOMAIN d.indexes
                  /\ d.indexes[x].table = n
                  /\ e.indexes[x].columns = d.indexes[x].columns
                  /\ e.indexes[x].unique = d.indexes[x].unique
      BY <2>2, <1>2, <1>15
    <3>5. MeetsIndexes(e, n)
      BY <3>2, <3>3, <3>4, OtherTableMeets
    <3> QED BY <3>2, <3>3, <3>5
  <2> QED BY <2>1, <2>2
<1>20. \A x \in DOMAIN e.fts :
           \E n \in DOMAIN e.tables :
               x = FtsName(n) /\ e.fts[x] \subseteq DOMAIN e.catalog[n].columns
  <2> TAKE x \in DOMAIN e.fts
  <2>1. CASE x \in DOMAIN d.fts \ {FtsName(name)} /\ e.fts[x] = d.fts[x]
    <3>1. PICK n \in DOMAIN d.tables :
              x = FtsName(n) /\ d.fts[x] \subseteq DOMAIN d.catalog[n].columns
      BY <2>1, <1>0 DEF Matched
    <3>2. n # name /\ n # def.name /\ n \in DOMAIN e.tables /\ n \in DOMAIN catalog
      BY <2>1, <3>1, <1>0, <1>2, <1>11, <1>15
    <3> QED BY <2>1, <3>1, <3>2, <1>11, <1>14
  <2>2. CASE x = FtsName(def.name) /\ e.fts[x] \subseteq DOMAIN def.columns
    BY <2>2, <1>14, <1>15, <1>17
  <2> QED BY <2>1, <2>2, <1>16
<1>21. \A x \in DOMAIN e.indexes : e.indexes[x].table \in DOMAIN e.tables
  BY <1>2, <1>4, <1>15
<1>22. /\ DOMAIN e.catalog = DOMAIN e.tables \cup DOMAIN e.views
       /\ DOMAIN e.tables \cap DOMAIN e.views = {}
       /\ DOMAIN e.catalog \subseteq Names
  BY <1>0, <1>2, <1>11, <1>14, <1>15 DEF Matched
<1>23. \A v \in DOMAIN e.views : e.catalog[v].kind = "view"
  <2> TAKE v \in DOMAIN e.views
  <2>1. v \in DOMAIN d.views /\ v # def.name /\ v # name /\ v \in DOMAIN catalog
    BY <1>0, <1>2, <1>11, <1>15 DEF Matched
  <2> QED BY <2>1, <1>0, <1>11, <1>14 DEF Sound
<1>24. Matched(e)
  BY <1>19, <1>20, <1>21, <1>22 DEF Matched
<1>25. Sound(e)
  BY <1>14, <1>19, <1>22, <1>23, <1>24 DEF Sound, Database, TableShape
<1>26. \A n \in DOMAIN d.tables \ {name} : n \in DOMAIN e.tables /\ e.tables[n] = d.tables[n]
  BY <1>2, <1>15
<1> QED BY <1>0, <1>11, <1>14, <1>15, <1>17, <1>18, <1>25, <1>26

(* A row more, under the constraints of its table.                           *)
LEMMA InsertKeeps ==
    ASSUME Sound(db), NEW name \in DOMAIN db.tables, NEW i,
           NEW row \in [DOMAIN db.tables[name].columns -> Values \cup {Null}],
           Insert(name, i, row)
    PROVE  /\ Sound(db')
           /\ db'.catalog = db.catalog
           /\ DOMAIN db'.tables = DOMAIN db.tables
           /\ \A n \in DOMAIN db.tables :
                  /\ n # name => db'.tables[n] = db.tables[n]
                  /\ DOMAIN db.tables[n].rows \subseteq DOMAIN db'.tables[n].rows
                  /\ \A j \in DOMAIN db.tables[n].rows :
                         db'.tables[n].rows[j] = db.tables[n].rows[j]
<1> PICK d, e, rows : d = db /\ e = db' /\ rows = With(d.tables[name].rows, i, row)
  OBVIOUS
<1>0. /\ Sound(d) /\ Database(d) /\ Matched(d)
      /\ name \in DOMAIN d.tables
      /\ TableShape(d.tables[name])
  BY DEF Sound, Database, TableShape
<1>1. /\ e = [d EXCEPT !.tables[name].rows = rows]
      /\ \A n \in DOMAIN d.tables : i \notin DOMAIN d.tables[n].rows
      /\ MeetsConstraints(e.tables[name])
      /\ MeetsIndexes(e, name)
  BY DEF Insert
<1>2. /\ Database(e)
      /\ e.catalog = d.catalog
      /\ e.views = d.views
      /\ e.indexes = d.indexes
      /\ e.fts = d.fts
      /\ DOMAIN e.tables = DOMAIN d.tables
      /\ \A n \in DOMAIN d.tables : n # name => e.tables[n] = d.tables[n]
      /\ e.tables[name] = [columns |-> d.tables[name].columns, rows |-> rows]
  BY <1>0, <1>1, SetRowsIs
<1>3. rows = [j \in DOMAIN d.tables[name].rows \cup {i} |->
                  IF j = i THEN row ELSE d.tables[name].rows[j]]
  BY DEF With
<1>4. /\ e.tables[name].rows = rows
      /\ e.tables[name].columns = d.tables[name].columns
      /\ TableShape(e.tables[name])
  BY <1>2 DEF TableShape
<1>5. \A n \in DOMAIN d.tables :
          /\ DOMAIN d.tables[n].rows \subseteq DOMAIN e.tables[n].rows
          /\ \A j \in DOMAIN d.tables[n].rows : e.tables[n].rows[j] = d.tables[n].rows[j]
  <2> TAKE n \in DOMAIN d.tables
  <2>1. CASE n = name
    <3>1. /\ DOMAIN rows = DOMAIN d.tables[name].rows \cup {i}
          /\ \A j \in DOMAIN d.tables[name].rows : j # i => rows[j] = d.tables[name].rows[j]
      BY <1>3
    <3>2. i \notin DOMAIN d.tables[name].rows
      BY <1>0, <1>1
    <3> QED BY <2>1, <3>1, <3>2, <1>4
  <2>2. CASE n # name
    BY <2>2, <1>2
  <2> QED BY <2>1, <2>2
<1>6. RowsFit(e.tables[name])
  <2>1. RowsFit(d.tables[name]) /\ DOMAIN row = DOMAIN d.tables[name].columns
    BY <1>0 DEF Sound
  <2> QED BY <1>3, <1>4, <2>1 DEF RowsFit
<1>7. \A n \in DOMAIN e.tables :
          /\ TableShape(e.tables[n])
          /\ RowsFit(e.tables[n])
          /\ e.tables[n].columns = Physical(e.catalog[n].kind, e.catalog[n].columns)
          /\ MeetsConstraints(e.tables[n])
          /\ MeetsIndexes(e, n)
  <2> TAKE n \in DOMAIN e.tables
  <2>1. /\ TableShape(d.tables[n])
        /\ RowsFit(d.tables[n])
        /\ d.tables[n].columns = Physical(d.catalog[n].kind, d.catalog[n].columns)
        /\ MeetsConstraints(d.tables[n])
        /\ MeetsIndexes(d, n)
    BY <1>0, <1>2 DEF Sound, Matched, TableShape
  <2>2. CASE n = name
    BY <2>1, <2>2, <1>1, <1>2, <1>4, <1>6
  <2>3. CASE n # name
    <3>1. e.tables[n] = d.tables[n]
      BY <2>3, <1>2
    <3>2. MeetsIndexes(e, n)
      BY <2>1, <3>1, <1>2, OtherTableMeets
    <3> QED BY <2>1, <3>1, <3>2, <1>2
  <2> QED BY <2>2, <2>3
<1>8. Matched(e)
  BY <1>0, <1>2, <1>7 DEF Matched
<1>9. Sound(e)
  BY <1>0, <1>2, <1>7, <1>8 DEF Sound, Database, TableShape
<1> QED BY <1>2, <1>5, <1>9

-----------------------------------------------------------------------------
(* Every step                                                                *)

LEMMA AskedIs ==
    ASSUME NEW def \in Asked
    PROVE  def.name \in Names
  BY DEF Names

LEMMA RetrievedName ==
    ASSUME NEW d, NEW name
    PROVE  /\ Retrieved(d, name).name = name
           /\ DOMAIN Retrieved(d, name)
                = {"name", "kind", "source", "columns", "indexes", "ruled"}
           /\ DOMAIN Retrieved(d, name).columns = DOMAIN ColumnsOf(d, name)
  BY DEF Retrieved

(* The name a PATCH ends in.                                                 *)
LEMMA PatchedName ==
    ASSUME NEW d, NEW name \in Names, NEW body \in Bodies
    PROVE  Over(body, Retrieved(d, name)).name \in Names
<1>1. PICK stored : stored = Retrieved(d, name)
  OBVIOUS
<1>2. stored.name = name /\ "name" \in DOMAIN stored
  BY <1>1, RetrievedName
<1>3. Over(body, stored).name = IF "name" \in DOMAIN body THEN body.name ELSE stored.name
  BY <1>2 DEF Over
<1>4. "name" \in DOMAIN body => body.name \in Names
  BY DEF Names
<1> QED BY <1>1, <1>2, <1>3, <1>4

Works == /\ req = [r \in Requests |-> req[r]]
         /\ \A r \in Requests : Legal(req[r])

LEMMA WorkSet ==
    ASSUME Works, NEW r \in Requests, NEW work, Legal(work), req' = [req EXCEPT ![r] = work]
    PROVE  Works'
<1>1. \A q \in Requests : req'[q] = IF q = r THEN work ELSE req[q]
  BY DEF Works
<1>2. req' = [q \in Requests |-> req'[q]]
  BY DEF Works
<1>3. \A q \in Requests : Legal(req'[q])
  <2> TAKE q \in Requests
  <2>1. CASE q = r
    BY <2>1, <1>1
  <2>2. CASE q # r
    <3>1. req'[q] = req[q] /\ Legal(req[q])
      BY <2>2, <1>1 DEF Works
    <3> QED BY <3>1
  <2> QED BY <2>1, <2>2
<1>4. (\A q \in Requests : Legal(req[q]))' <=> \A q \in Requests : Legal(req'[q])
  BY DEF Legal
<1> QED BY <1>2, <1>3, <1>4 DEF Works

LEMMA IdleIsLegal == Legal(Idle)
  BY DEF Legal, Idle

LEMMA UpdateIsLegal ==
    ASSUME NEW name, NEW def, def.name \in Names
    PROVE  Legal([op |-> "update", name |-> name, def |-> def])
  BY DEF Legal

(* What handlers have at work stays legal.                                   *)
LEMMA WorksStep ==
    ASSUME Works, DOMAIN db.catalog \subseteq Names, Next
    PROVE  Works'
<1>1. ASSUME UNCHANGED req
      PROVE  Works'
  BY <1>1 DEF Works, Legal
<1>2. ASSUME NEW def \in Definitions, Create(def)
      PROVE  Works'
  BY <1>1, <1>2 DEF Create
<1>3. ASSUME NEW name \in DOMAIN db.catalog, Delete(name)
      PROVE  Works'
  BY <1>1, <1>3 DEF Delete
<1>4. ASSUME NEW r \in Requests, NEW name \in DOMAIN db.catalog, NEW body \in Bodies,
             Patch(r, name, body)
      PROVE  Works'
  <2>1. PICK work : work = [op |-> "update", name |-> name,
                            def |-> Over(body, Retrieved(db, name))]
    OBVIOUS
  <2>2. Legal(work)
    BY <2>1, PatchedName, UpdateIsLegal
  <2>3. req' = [req EXCEPT ![r] = work]
    BY <1>4, <2>1 DEF Patch, Start
  <2> QED BY <2>2, <2>3, WorkSet
<1>5. ASSUME NEW r \in Requests, NEW name \in DOMAIN db.catalog, NEW list,
             Start(r, [op |-> "update", name |-> name,
                       def |-> [Retrieved(db, name) EXCEPT !.indexes = list]])
      PROVE  Works'
  <2>1. PICK stored : stored = Retrieved(db, name)
    OBVIOUS
  <2>2. PICK work : work = [op |-> "update", name |-> name,
                            def |-> [stored EXCEPT !.indexes = list]]
    OBVIOUS
  <2>3. stored.name = name /\ "name" \in DOMAIN stored
    BY <2>1, RetrievedName
  <2>4. [stored EXCEPT !.indexes = list].name = name
    BY <2>3
  <2>5. Legal(work)
    BY <2>2, <2>4, UpdateIsLegal
  <2>6. req' = [req EXCEPT ![r] = work]
    BY <1>5, <2>1, <2>2 DEF Start
  <2> QED BY <2>5, <2>6, WorkSet
<1>6. ASSUME NEW r \in Requests, NEW name \in DOMAIN db.catalog, NEW index \in Indexes,
             AddIndex(r, name, index)
      PROVE  Works'
  BY <1>5, <1>6, Zenon DEF AddIndex
<1>7. ASSUME NEW r \in Requests, NEW name \in DOMAIN db.catalog, NEW i, RemoveIndex(r, name, i)
      PROVE  Works'
  BY <1>5, <1>7, Zenon DEF RemoveIndex
<1>8. ASSUME NEW r \in Requests, NEW list \in Imports, Import(r, list)
      PROVE  Works'
  <2>1. PICK work : work = [op |-> "look", todo |-> list]
    OBVIOUS
  <2>2. list \in Seq(Asked) /\ list # <<>>
    BY <1>8, ImportsAssumption DEF Import
  <2>3. Legal(work)
    BY <2>1, <2>2 DEF Legal
  <2>4. req' = [req EXCEPT ![r] = work]
    BY <1>8, <2>1 DEF Import, Start
  <2> QED BY <2>3, <2>4, WorkSet
<1>9. ASSUME NEW r \in Requests, Update(r)
      PROVE  Works'
  BY <1>9, IdleIsLegal, WorkSet DEF Update
<1>10. ASSUME NEW r \in Requests, LookUp(r)
       PROVE  Works'
  <2>1. PICK work : work = [op |-> "apply", todo |-> req[r].todo,
                            exists |-> Head(req[r].todo).name \in DOMAIN db.catalog]
    OBVIOUS
  <2>2. req[r].todo \in Seq(Asked) /\ req[r].todo # <<>>
    BY <1>10 DEF LookUp, Works, Legal
  <2>3. Legal(work)
    BY <2>1, <2>2 DEF Legal
  <2>4. req' = [req EXCEPT ![r] = work]
    BY <1>10, <2>1 DEF LookUp
  <2> QED BY <2>3, <2>4, WorkSet
<1>11. ASSUME NEW r \in Requests, ImportOne(r)
       PROVE  Works'
  <2>1. PICK work : work = IF Applied(req[r]) = {} \/ Len(req[r].todo) = 1 THEN Idle
                           ELSE [op |-> "look", todo |-> Tail(req[r].todo)]
    OBVIOUS
  <2>2. req[r].todo \in Seq(Asked) /\ req[r].todo # <<>>
    BY <1>11 DEF ImportOne, Works, Legal
  <2>3. CASE work = Idle
    BY <1>11, <2>1, <2>3, IdleIsLegal, WorkSet DEF ImportOne
  <2>4. CASE work # Idle
    <3>1. PICK rest : rest = Tail(req[r].todo)
      OBVIOUS
    <3>2. Len(req[r].todo) # 1 /\ work = [op |-> "look", todo |-> rest]
      BY <2>1, <2>4, <3>1
    <3>3. rest \in Seq(Asked) /\ rest # <<>>
      <4>1. PICK todo : todo = req[r].todo
        OBVIOUS
      <4>2. todo \in Seq(Asked) /\ todo # <<>> /\ Len(todo) # 1
        BY <2>2, <3>2, <4>1
      <4>3. Len(todo) \in Nat /\ Len(todo) # 0
        BY <4>2, EmptySeq, LenProperties
      <4>4. Tail(todo) \in Seq(Asked) /\ Len(Tail(todo)) = Len(todo) - 1
        BY <4>2, HeadTailProperties
      <4>5. Len(Tail(todo)) # 0
        BY <4>2, <4>3, <4>4
      <4> QED BY <3>1, <4>1, <4>4, <4>5
    <3>4. Legal(work)
      BY <3>2, <3>3 DEF Legal
    <3>5. req' = [req EXCEPT ![r] = work]
      BY <1>11, <2>1 DEF ImportOne
    <3> QED BY <3>4, <3>5, WorkSet
  <2> QED BY <2>3, <2>4
<1>12. ASSUME NEW name, NEW i, NEW row, Insert(name, i, row)
       PROVE  Works'
  BY <1>1, <1>12 DEF Insert
<1> QED BY <1>2, <1>3, <1>4, <1>6, <1>7, <1>8, <1>9, <1>10, <1>11, <1>12, Zenon DEF Next

(* What a step may do to the database.                                       *)
LEMMA DatabaseStep ==
    ASSUME Works, DOMAIN db.catalog \subseteq Names, Next
    PROVE  \/ db' = db
           \/ \E def \in Asked : db' \in Created(db, def)
           \/ \E name : db' \in Deleted(db, name)
           \/ \E name, def :
                  /\ def.name \in Names
                  /\ db' \in Updated(db, name, def)
                  /\ \/ def \in Asked
                     \/ \E r \in Requests : req[r].op = "update" /\ def = req[r].def
           \/ \E name \in DOMAIN db.tables, i \in RowIds :
                  \E row \in [DOMAIN db.tables[name].columns -> Values \cup {Null}] :
                      Insert(name, i, row)
<1>1. ASSUME NEW def \in Definitions, Create(def)
      PROVE  \E d \in Asked : db' \in Created(db, d)
  <2>1. def \in Asked
    BY DEF Asked
  <2>2. db' \in Created(db, def)
    BY <1>1 DEF Create
  <2> QED BY <2>1, <2>2
<1>2. ASSUME NEW name \in DOMAIN db.catalog, Delete(name)
      PROVE  \E n : db' \in Deleted(db, n)
  BY <1>2 DEF Delete
<1>3. ASSUME NEW r \in Requests, Update(r)
      PROVE  \/ db' = db
             \/ \E name, def :
                    /\ def.name \in Names
                    /\ db' \in Updated(db, name, def)
                    /\ \E q \in Requests : req[q].op = "update" /\ def = req[q].def
  <2>1. req[r].op = "update" /\ req[r].def.name \in Names
    BY <1>3 DEF Update, Works, Legal
  <2>2. db' = db \/ db' \in Updated(db, req[r].name, req[r].def)
    BY <1>3 DEF Update, Outcome
  <2> QED BY <2>1, <2>2
<1>4. ASSUME NEW r \in Requests, ImportOne(r)
      PROVE  \/ db' = db
             \/ \E def \in Asked : db' \in Created(db, def)
             \/ \E name, def :
                    def.name \in Names /\ db' \in Updated(db, name, def) /\ def \in Asked
  <2>1. req[r].todo \in Seq(Asked) /\ req[r].todo # <<>>
    BY <1>4 DEF ImportOne, Works, Legal
  <2>2. PICK def : def = Head(req[r].todo)
    OBVIOUS
  <2>3. def \in Asked
    BY <2>1, <2>2, HeadTailProperties
  <2>4. db' = db \/ db' \in Applied(req[r])
    BY <1>4 DEF ImportOne, Outcome
  <2>5. Applied(req[r]) = IF req[r].exists THEN Updated(db, def.name, def) ELSE Created(db, def)
    BY <2>2 DEF Applied
  <2> QED BY <2>3, <2>4, <2>5, AskedIs
<1>5. ASSUME NEW r \in Requests,
             \/ \E name \in DOMAIN db.catalog : \E body \in Bodies : Patch(r, name, body)
             \/ \E name \in DOMAIN db.catalog : \E index \in Indexes : AddIndex(r, name, index)
             \/ \E name \in DOMAIN db.catalog : \E i \in 1..Cardinality(DOMAIN db.indexes) :
                    RemoveIndex(r, name, i)
             \/ \E list \in Imports : Import(r, list)
             \/ LookUp(r)
      PROVE  db' = db
  BY <1>5 DEF Patch, AddIndex, RemoveIndex, Import, LookUp, Start
<1>6. CASE \E r \in Requests :
             \/ \E name \in DOMAIN db.catalog : \E body \in Bodies : Patch(r, name, body)
             \/ \E name \in DOMAIN db.catalog : \E index \in Indexes : AddIndex(r, name, index)
             \/ \E name \in DOMAIN db.catalog : \E i \in 1..Cardinality(DOMAIN db.indexes) :
                    RemoveIndex(r, name, i)
             \/ \E list \in Imports : Import(r, list)
             \/ Update(r) \/ LookUp(r) \/ ImportOne(r)
  BY <1>3, <1>4, <1>5, <1>6, Zenon
<1> QED BY <1>1, <1>2, <1>6, Zenon DEF Next

LEMMA InitInv == Init => IInv
<1> SUFFICES ASSUME Init
             PROVE  IInv
  OBVIOUS
<1>1. /\ Database(db)
      /\ db.catalog = Nothing /\ db.tables = Nothing /\ db.views = Nothing
      /\ db.indexes = Nothing /\ db.fts = Nothing
  BY DEF Init, Database
<1>2. DOMAIN Nothing = {}
  BY DEF Nothing
<1>3. Sound(db)
  BY <1>1, <1>2 DEF Sound, Matched, Database
<1>4. Works
  BY IdleIsLegal DEF Init, Works
<1> QED BY <1>3, <1>4 DEF IInv, Works

LEMMA InvStep ==
    ASSUME NoFtsClash, IInv, [Next]_vars
    PROVE  IInv'
<1>0. Sound(db) /\ Works /\ DOMAIN db.catalog \subseteq Names
  BY DEF IInv, Works, Sound
<1>1. CASE UNCHANGED vars
  <2>1. db' = db /\ req' = req
    BY <1>1 DEF vars
  <2>2. Sound(db')
    BY <1>0, <2>1
  <2>3. Works'
    BY <1>0, <2>1 DEF Works, Legal
  <2> QED BY <2>2, <2>3 DEF IInv, Works
<1>2. CASE Next
  <2>1. Works'
    BY <1>0, <1>2, WorksStep
  <2>2. ASSUME NEW def \in Asked, db' \in Created(db, def)
        PROVE  Sound(db')
    <3>1. PICK e : e = db'
      OBVIOUS
    <3>2. Sound(e)
      BY <1>0, <2>2, <3>1, AskedIs, CreatedKeeps
    <3> QED BY <3>1, <3>2
  <2>3. ASSUME NEW name, db' \in Deleted(db, name)
        PROVE  Sound(db')
    <3>1. PICK e : e = db'
      OBVIOUS
    <3>2. Sound(e)
      BY <1>0, <2>3, <3>1, DeletedKeeps
    <3> QED BY <3>1, <3>2
  <2>4. ASSUME NEW name, NEW def, def.name \in Names, db' \in Updated(db, name, def)
        PROVE  Sound(db')
    <3>1. PICK e : e = db'
      OBVIOUS
    <3>2. Sound(e)
      BY <1>0, <2>4, <3>1, UpdatedKeeps
    <3> QED BY <3>1, <3>2
  <2>5. ASSUME NEW name \in DOMAIN db.tables, NEW i \in RowIds,
               NEW row \in [DOMAIN db.tables[name].columns -> Values \cup {Null}],
               Insert(name, i, row)
        PROVE  Sound(db')
    BY <1>0, <2>5, InsertKeeps
  <2>6. db' = db => Sound(db')
    BY <1>0
  <2>7. Sound(db')
    BY <1>0, <1>2, <2>2, <2>3, <2>4, <2>5, <2>6, DatabaseStep
  <2> QED BY <2>1, <2>7 DEF IInv, Works
<1> QED BY <1>1, <1>2

LEMMA Invariant == NoFtsClash => (Spec => []IInv)
<1> SUFFICES ASSUME NoFtsClash
             PROVE  Spec => []IInv
  OBVIOUS
<1>1. IInv /\ [Next]_vars => IInv'
  BY InvStep
<1> QED BY <1>1, InitInv, PTL DEF Spec

-----------------------------------------------------------------------------
(* No column of a collection is one an auth table has of its own             *)

LEMMA PhysicalColumns ==
    ASSUME NEW kind, NEW columns
    PROVE  DOMAIN Physical(kind, columns) = DOMAIN columns \cup AuthColumns(kind)
  BY DEF Physical, Over

LEMMA ColumnsOfOwn ==
    ASSUME Sound(db), NEW name \in DOMAIN db.catalog
    PROVE  DOMAIN ColumnsOf(db, name) \subseteq DOMAIN db.catalog[name].columns
<1>1. CASE db.catalog[name].kind # "view"
  BY <1>1 DEF ColumnsOf
<1>2. CASE db.catalog[name].kind = "view" /\ name \in DOMAIN db.tables
  <2>1. db.tables[name].columns = Physical("view", db.catalog[name].columns)
    BY <1>2 DEF Sound, Matched
  <2>2. PICK kind : kind = "view"
    OBVIOUS
  <2>3. AuthColumns(kind) = {}
    BY <2>2 DEF AuthColumns
  <2>4. DOMAIN Physical(kind, db.catalog[name].columns) = DOMAIN db.catalog[name].columns
    BY <2>3, PhysicalColumns
  <2>5. DOMAIN db.tables[name].columns = DOMAIN db.catalog[name].columns
    BY <2>1, <2>2, <2>4
  <2>6. DOMAIN ColumnsOf(db, name) = DOMAIN db.tables[name].columns
    BY <1>2 DEF ColumnsOf
  <2> QED BY <2>5, <2>6
<1>3. CASE db.catalog[name].kind = "view" /\ name \notin DOMAIN db.tables
  BY <1>3 DEF ColumnsOf, Nothing
<1> QED BY <1>1, <1>2, <1>3

OwnWork(work) == work.op = "update" => Email \notin DOMAIN work.def.columns

OwnCatalog(d) == \A n \in DOMAIN d.catalog : Email \notin DOMAIN d.catalog[n].columns

LEMMA OwnWorkSet ==
    ASSUME Works, OwnColumns, NEW r \in Requests, NEW work, OwnWork(work),
           req' = [req EXCEPT ![r] = work]
    PROVE  \A q \in Requests : OwnWork(req'[q])
<1> TAKE q \in Requests
<1>1. CASE q = r
  <2>1. req'[q] = work
    BY <1>1 DEF Works
  <2> QED BY <2>1
<1>2. CASE q # r
  <2>1. req'[q] = req[q]
    BY <1>2 DEF Works
  <2> QED BY <2>1 DEF OwnColumns, OwnWork
<1> QED BY <1>1, <1>2

LEMMA OwnWorkStep ==
    ASSUME IInv, NoEmailField, OwnColumns, Next
    PROVE  \A q \in Requests : OwnWork(req'[q])
<1>0. Works /\ Sound(db)
  BY DEF IInv, Works
<1>1. ASSUME UNCHANGED req
      PROVE  \A q \in Requests : OwnWork(req'[q])
  BY <1>1 DEF OwnColumns, OwnWork
<1>2. ASSUME NEW work, work.op # "update"
      PROVE  OwnWork(work)
  BY <1>2 DEF OwnWork
<1>3. ASSUME NEW name \in DOMAIN db.catalog
      PROVE  Email \notin DOMAIN Retrieved(db, name).columns
  BY <1>0, ColumnsOfOwn, RetrievedName DEF OwnColumns
<1>4. ASSUME NEW r \in Requests, NEW name \in DOMAIN db.catalog, NEW body \in Bodies,
             Patch(r, name, body)
      PROVE  \A q \in Requests : OwnWork(req'[q])
  <2>1. PICK stored : stored = Retrieved(db, name)
    OBVIOUS
  <2>2. PICK def : def = Over(body, stored)
    OBVIOUS
  <2>3. "columns" \in DOMAIN stored /\ Email \notin DOMAIN stored.columns
    BY <1>3, <2>1, RetrievedName
  <2>4. def.columns = IF "columns" \in DOMAIN body THEN body.columns ELSE stored.columns
    BY <2>2, <2>3 DEF Over
  <2>5. Email \notin DOMAIN def.columns
    BY <2>3, <2>4 DEF NoEmailField
  <2>6. PICK work : work = [op |-> "update", name |-> name, def |-> def]
    OBVIOUS
  <2>7. OwnWork(work)
    BY <2>5, <2>6 DEF OwnWork
  <2>8. req' = [req EXCEPT ![r] = work]
    BY <1>4, <2>1, <2>2, <2>6 DEF Patch, Start
  <2> QED BY <1>0, <2>7, <2>8, OwnWorkSet
<1>5. ASSUME NEW r \in Requests, NEW name \in DOMAIN db.catalog, NEW list,
             Start(r, [op |-> "update", name |-> name,
                       def |-> [Retrieved(db, name) EXCEPT !.indexes = list]])
      PROVE  \A q \in Requests : OwnWork(req'[q])
  <2>1. PICK stored : stored = Retrieved(db, name)
    OBVIOUS
  <2>2. PICK def : def = [stored EXCEPT !.indexes = list]
    OBVIOUS
  <2>3. "columns" \in DOMAIN stored /\ Email \notin DOMAIN stored.columns
    BY <1>3, <2>1, RetrievedName
  <2>4. def.columns = stored.columns
    BY <2>2, <2>3
  <2>5. PICK work : work = [op |-> "update", name |-> name, def |-> def]
    OBVIOUS
  <2>6. OwnWork(work)
    BY <2>3, <2>4, <2>5 DEF OwnWork
  <2>7. req' = [req EXCEPT ![r] = work]
    BY <1>5, <2>1, <2>2, <2>5 DEF Start
  <2> QED BY <1>0, <2>6, <2>7, OwnWorkSet
<1>6. ASSUME NEW r \in Requests, NEW name \in DOMAIN db.catalog, NEW index \in Indexes,
             AddIndex(r, name, index)
      PROVE  \A q \in Requests : OwnWork(req'[q])
  BY <1>5, <1>6, Zenon DEF AddIndex
<1>7. ASSUME NEW r \in Requests, NEW name \in DOMAIN db.catalog, NEW i, RemoveIndex(r, name, i)
      PROVE  \A q \in Requests : OwnWork(req'[q])
  BY <1>5, <1>7, Zenon DEF RemoveIndex
<1>8. ASSUME NEW r \in Requests, NEW list \in Imports, Import(r, list)
      PROVE  \A q \in Requests : OwnWork(req'[q])
  <2>1. PICK work : work = [op |-> "look", todo |-> list]
    OBVIOUS
  <2>2. req' = [req EXCEPT ![r] = work] /\ work.op # "update"
    BY <1>8, <2>1 DEF Import, Start
  <2> QED BY <1>0, <1>2, <2>2, OwnWorkSet
<1>9. ASSUME NEW r \in Requests, Update(r) \/ LookUp(r) \/ ImportOne(r)
      PROVE  \A q \in Requests : OwnWork(req'[q])
  <2>1. Idle.op # "update"
    BY DEF Idle
  <2>2. PICK look, apply :
            /\ look = [op |-> "look", todo |-> Tail(req[r].todo)]
            /\ apply = [op |-> "apply", todo |-> req[r].todo,
                        exists |-> Head(req[r].todo).name \in DOMAIN db.catalog]
    OBVIOUS
  <2>3. look.op # "update" /\ apply.op # "update"
    BY <2>2
  <2>4. \/ req' = [req EXCEPT ![r] = Idle]
        \/ req' = [req EXCEPT ![r] = look]
        \/ req' = [req EXCEPT ![r] = apply]
    BY <1>9, <2>2 DEF Update, LookUp, ImportOne
  <2> QED BY <1>0, <1>2, <2>1, <2>3, <2>4, OwnWorkSet
<1>10. ASSUME NEW def, Create(def)
       PROVE  \A q \in Requests : OwnWork(req'[q])
  BY <1>1, <1>10 DEF Create
<1>11. ASSUME NEW name, Delete(name)
       PROVE  \A q \in Requests : OwnWork(req'[q])
  BY <1>1, <1>11 DEF Delete
<1>12. ASSUME NEW name, NEW i, NEW row, Insert(name, i, row)
       PROVE  \A q \in Requests : OwnWork(req'[q])
  BY <1>1, <1>12 DEF Insert
<1> QED BY <1>4, <1>6, <1>7, <1>8, <1>9, <1>10, <1>11, <1>12, Zenon DEF Next


LEMMA InitOwn == Init => OwnColumns
  BY DEF Init, Nothing, OwnColumns, Idle

LEMMA OwnCatalogStep ==
    ASSUME NoFtsClash, NoEmailField, IInv, OwnColumns, Next
    PROVE  OwnCatalog(db')
<1>0. Sound(db) /\ Works /\ DOMAIN db.catalog \subseteq Names
  BY DEF IInv, Works, Sound
<1>1. OwnCatalog(db)
  BY DEF OwnColumns, OwnCatalog
<1>2. PICK e : e = db'
  OBVIOUS
<1>3. ASSUME NEW def \in Asked, e \in Created(db, def)
      PROVE  OwnCatalog(e)
  <2>1. \A n \in DOMAIN e.catalog :
            \/ n \in DOMAIN db.catalog /\ e.catalog[n] = db.catalog[n]
            \/ DOMAIN e.catalog[n].columns \subseteq DOMAIN def.columns
    BY <1>0, <1>3, AskedIs, CreatedKeeps
  <2> QED BY <1>1, <2>1 DEF OwnCatalog, NoEmailField
<1>4. ASSUME NEW name, e \in Deleted(db, name)
      PROVE  OwnCatalog(e)
  <2>1. /\ DOMAIN e.catalog = DOMAIN db.catalog \ {name}
        /\ \A n \in DOMAIN e.catalog : e.catalog[n] = db.catalog[n]
    BY <1>0, <1>4, DeletedKeeps
  <2> QED BY <1>1, <2>1 DEF OwnCatalog
<1>5. ASSUME NEW name, NEW def, def.name \in Names, e \in Updated(db, name, def),
             Email \notin DOMAIN def.columns
      PROVE  OwnCatalog(e)
  <2>1. /\ DOMAIN e.catalog = (DOMAIN db.catalog \ {name}) \cup {def.name}
        /\ e.catalog[def.name].columns = Stored(def.columns)
        /\ \A n \in DOMAIN e.catalog \ {def.name} : e.catalog[n] = db.catalog[n]
    BY <1>0, <1>5, UpdatedKeeps
  <2>2. DOMAIN Stored(def.columns) = DOMAIN def.columns
    BY DEF Stored
  <2>3. ASSUME NEW n \in DOMAIN e.catalog
        PROVE  Email \notin DOMAIN e.catalog[n].columns
    <3>1. CASE n = def.name
      BY <3>1, <1>5, <2>1, <2>2
    <3>2. CASE n # def.name
      BY <3>2, <1>1, <2>1 DEF OwnCatalog
    <3> QED BY <3>1, <3>2
  <2> QED BY <2>3 DEF OwnCatalog
<1>6. ASSUME NEW name \in DOMAIN db.tables, NEW i \in RowIds,
             NEW row \in [DOMAIN db.tables[name].columns -> Values \cup {Null}],
             Insert(name, i, row)
      PROVE  OwnCatalog(e)
  <2>1. e.catalog = db.catalog
    BY <1>0, <1>2, <1>6, InsertKeeps
  <2> QED BY <1>1, <2>1 DEF OwnCatalog
<1>7. \A def \in Asked : Email \notin DOMAIN def.columns
  BY DEF NoEmailField
<1>8. \A r \in Requests : req[r].op = "update" => Email \notin DOMAIN req[r].def.columns
  BY DEF OwnColumns
<1>9. OwnCatalog(e)
  BY <1>0, <1>1, <1>2, <1>3, <1>4, <1>5, <1>6, <1>7, <1>8, DatabaseStep
<1> QED BY <1>2, <1>9

LEMMA OwnStep ==
    ASSUME NoFtsClash, NoEmailField, IInv, OwnColumns, [Next]_vars
    PROVE  OwnColumns'
<1>1. CASE UNCHANGED vars
  BY <1>1 DEF vars, OwnColumns
<1>2. CASE Next
  <2>1. PICK e : e = db'
    OBVIOUS
  <2>2. OwnCatalog(e)
    BY <1>2, <2>1, OwnCatalogStep
  <2>3. \A q \in Requests : OwnWork(req'[q])
    BY <1>2, OwnWorkStep
  <2>4. \A n \in DOMAIN db'.catalog : Email \notin DOMAIN db'.catalog[n].columns
    BY <2>1, <2>2 DEF OwnCatalog
  <2>5. \A q \in Requests : req'[q].op = "update" => Email \notin DOMAIN req'[q].def.columns
    BY <2>3 DEF OwnWork
  <2> QED BY <2>4, <2>5 DEF OwnColumns
<1> QED BY <1>1, <1>2

-----------------------------------------------------------------------------
(* No record is lost                                                         *)

\* A record of table n is in table m of e, with what it had in every column
\* the two have.
Kept(e, i, n, m) ==
    /\ m \in DOMAIN e.tables
    /\ i \in DOMAIN e.tables[m].rows
    /\ \A c \in DOMAIN db.tables[n].rows[i] \cap DOMAIN e.tables[m].rows[i] :
           e.tables[m].rows[i][c] = db.tables[n].rows[i][c]

LEMMA SameTableKept ==
    ASSUME NEW e, NEW n \in DOMAIN db.tables, NEW i \in DOMAIN db.tables[n].rows,
           n \in DOMAIN e.tables, e.tables[n] = db.tables[n]
    PROVE  Kept(e, i, n, n)
  BY DEF Kept

LEMMA RebuiltTableKept ==
    ASSUME NoFtsClash, Sound(db), OwnColumns,
           NEW name \in DOMAIN db.tables, NEW i \in DOMAIN db.tables[name].rows,
           NEW def, def.name \in Names, Email \notin DOMAIN def.columns,
           NEW e \in Updated(db, name, def)
    PROVE  Kept(e, i, name, def.name)
<1> DEFINE old == db.tables[name].rows[i]
           kept == DOMAIN db.catalog[name].columns \cap DOMAIN def.columns
           new == e.tables[def.name].rows[i]
<1>1. /\ def.name \in DOMAIN e.tables
      /\ e.tables[def.name].rows = CopiedRows(db, name, def)
  BY UpdatedKeeps
<1>2. /\ i \in DOMAIN e.tables[def.name].rows
      /\ new = CopiedRow(old, def, kept)
  BY <1>1 DEF CopiedRows
<1>3. /\ DOMAIN new = DOMAIN Physical(def.kind, Stored(def.columns))
      /\ \A c \in DOMAIN new : new[c] = Copied(old, c, def.kind, kept)
  BY <1>2 DEF CopiedRow
<1>4. DOMAIN new = DOMAIN def.columns \cup AuthColumns(def.kind)
  <2>1. DOMAIN Stored(def.columns) = DOMAIN def.columns
    BY DEF Stored
  <2> QED BY <1>3, <2>1, PhysicalColumns
<1>5. DOMAIN old = DOMAIN db.catalog[name].columns \cup AuthColumns(db.catalog[name].kind)
  <2>1. DOMAIN old = DOMAIN db.tables[name].columns
    BY DEF Sound, RowsFit
  <2>2. db.tables[name].columns = Physical(db.catalog[name].kind, db.catalog[name].columns)
    BY DEF Sound, Matched
  <2> QED BY <2>1, <2>2, PhysicalColumns
<1>6. ASSUME NEW c \in DOMAIN old \cap DOMAIN new
      PROVE  new[c] = old[c]
  <2>1. new[c] = Copied(old, c, def.kind, kept)
    BY <1>3
  <2>2. CASE c \in AuthColumns(def.kind)
    BY <2>1, <2>2 DEF Copied
  <2>3. CASE c \notin AuthColumns(def.kind)
    <3>1. c \in DOMAIN def.columns /\ c # Email
      BY <2>3, <1>4
    <3>2. c \notin AuthColumns(db.catalog[name].kind)
      BY <3>1 DEF AuthColumns
    <3>3. c \in kept
      BY <3>1, <3>2, <1>5
    <3> QED BY <2>1, <2>3, <3>3 DEF Copied
  <2> QED BY <2>2, <2>3
<1> QED BY <1>1, <1>2, <1>6 DEF Kept

LEMMA RowsStep ==
    ASSUME NoFtsClash, NoEmailField, IInv, OwnColumns, Next, NEW i \in RowIds
    PROVE  RowSurvives(i)
<1>0. Sound(db) /\ Works /\ DOMAIN db.catalog \subseteq Names
  BY DEF IInv, Works, Sound
<1>1. PICK e : e = db'
  OBVIOUS
<1>2. ASSUME NEW n \in DOMAIN db.tables, i \in DOMAIN db.tables[n].rows
      PROVE  DOMAIN e.catalog = DOMAIN db.catalog \ {n} \/ \E m : Kept(e, i, n, m)
  <2>1. CASE e = db
    BY <2>1, <1>2, SameTableKept
  <2>2. ASSUME NEW def \in Asked, e \in Created(db, def)
        PROVE  \E m : Kept(e, i, n, m)
    <3>1. n \in DOMAIN e.tables /\ e.tables[n] = db.tables[n]
      BY <1>0, <2>2, AskedIs, CreatedKeeps
    <3> QED BY <1>2, <3>1, SameTableKept
  <2>3. ASSUME NEW name, e \in Deleted(db, name)
        PROVE  DOMAIN e.catalog = DOMAIN db.catalog \ {n} \/ \E m : Kept(e, i, n, m)
    <3>1. DOMAIN e.catalog = DOMAIN db.catalog \ {name}
      BY <1>0, <2>3, DeletedKeeps
    <3>2. CASE n # name
      <4>1. n \in DOMAIN e.tables /\ e.tables[n] = db.tables[n]
        BY <1>0, <2>3, <3>2, DeletedKeeps
      <4> QED BY <1>2, <4>1, SameTableKept
    <3> QED BY <3>1, <3>2
  <2>4. ASSUME NEW name, NEW def, def.name \in Names, e \in Updated(db, name, def),
               Email \notin DOMAIN def.columns
        PROVE  \E m : Kept(e, i, n, m)
    <3>1. CASE n = name
      BY <1>0, <1>2, <2>4, <3>1, RebuiltTableKept
    <3>2. CASE n # name
      <4>1. n \in DOMAIN e.tables /\ e.tables[n] = db.tables[n]
        BY <1>0, <2>4, <3>2, UpdatedKeeps
      <4> QED BY <1>2, <4>1, SameTableKept
    <3> QED BY <3>1, <3>2
  <2>5. ASSUME NEW name \in DOMAIN db.tables, NEW j \in RowIds,
               NEW row \in [DOMAIN db.tables[name].columns -> Values \cup {Null}],
               Insert(name, j, row)
        PROVE  \E m : Kept(e, i, n, m)
    <3>1. /\ n \in DOMAIN e.tables
          /\ DOMAIN db.tables[n].rows \subseteq DOMAIN e.tables[n].rows
          /\ \A k \in DOMAIN db.tables[n].rows :
                 e.tables[n].rows[k] = db.tables[n].rows[k]
      BY <1>0, <1>1, <2>5, InsertKeeps
    <3> QED BY <1>2, <3>1 DEF Kept
  <2>6. \A def \in Asked : Email \notin DOMAIN def.columns
    BY DEF NoEmailField
  <2>7. \A r \in Requests : req[r].op = "update" => Email \notin DOMAIN req[r].def.columns
    BY DEF OwnColumns
  <2> QED BY <1>0, <1>1, <2>1, <2>2, <2>3, <2>4, <2>5, <2>6, <2>7, DatabaseStep
<1>3. \A n \in Holds(db, i) :
          \/ DOMAIN db'.catalog = DOMAIN db.catalog \ {n}
          \/ \E m : Kept(e, i, n, m)
  BY <1>1, <1>2 DEF Holds
<1>4. \A m \in Holds(e, i) : m \in DOMAIN e.tables /\ i \in DOMAIN e.tables[m].rows
  BY DEF Holds
<1>5. \A n \in Holds(db, i) :
          \/ DOMAIN db'.catalog = DOMAIN db.catalog \ {n}
          \/ \E m \in Holds(e, i) :
                 \A c \in DOMAIN db.tables[n].rows[i] \cap DOMAIN e.tables[m].rows[i] :
                     e.tables[m].rows[i][c] = db.tables[n].rows[i][c]
  BY <1>3 DEF Kept, Holds
<1> QED BY <1>1, <1>5 DEF RowSurvives

(* Where no collection has the name another's full-text table takes, the     *)
(* catalog and the database agree after every transaction: the rows of       *)
(* _collections and _fields, the tables and views with their columns, the    *)
(* full-text tables and the indexes, and the rows under every constraint;    *)
(* whatever handlers and imports are under way, and whatever they read.      *)
THEOREM CatalogAlwaysMatches == NoFtsClash => (Spec => []TablesMatchCatalog)
<1> SUFFICES ASSUME NoFtsClash
             PROVE  Spec => []TablesMatchCatalog
  OBVIOUS
<1>1. IInv => TablesMatchCatalog
  BY DEF IInv, Sound, TablesMatchCatalog
<1>2. Spec => []IInv
  BY Invariant
<1> QED BY <1>1, <1>2, PTL

(* Where, besides, no field is called email, no change of a collection loses *)
(* a record or a value of one: not alter_user_table's copy to the new table, *)
(* not a rename, nor a collection that becomes one of users or ceases to be. *)
THEOREM RecordsSurvive == NoFtsClash /\ NoEmailField => (Spec => RowsSurvive)
<1> SUFFICES ASSUME NoFtsClash, NoEmailField
             PROVE  Spec => RowsSurvive
  OBVIOUS
<1>1. IInv /\ OwnColumns /\ [Next]_vars => OwnColumns'
  BY OwnStep
<1>2. IInv /\ OwnColumns /\ [Next]_vars => [\A i \in RowIds : RowSurvives(i)]_vars
  BY RowsStep
<1>3. Spec => []IInv
  BY Invariant
<1> QED BY <1>1, <1>2, <1>3, InitOwn, PTL DEF Spec, RowsSurvive

=============================================================================
