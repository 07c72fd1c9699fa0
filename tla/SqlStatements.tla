----------------------------- MODULE SqlStatements -----------------------------
(***************************************************************************)
(* What SqlClassifier is compared with.  The classifier of                 *)
(* src/tidb/model/sql.ts scans for keywords; here the same subset of SQL   *)
(* is a grammar that a whole statement must derive from, and a plan is     *)
(* judged by the rows it reads, whatever the literals in the statement     *)
(* are.  A statement is edited, a phrase put in or tokens left out, so     *)
(* most states hold a text that is almost, but not quite, in the subset.   *)
(***************************************************************************)
EXTENDS SqlClassifier

CONSTANTS Seeds,     \* statements to begin with
          Phrases,   \* what an edit may insert
          MaxEdits,  \* how many edits
          Values     \* what columns and literals range over: 0..n

VARIABLES tokens, edits

-----------------------------------------------------------------------------
(* Splitting a text.                                                       *)
Cuts(ts, word) ==
  {<<SubSeq(ts, 1, i - 1), From(ts, i + 1)>> : i \in {k \in DOMAIN ts : ts[k] = word}}

Optionally(ts, word) == {<<ts, None>>} \cup Cuts(ts, word)

Items(ts) ==
  LET ends == SetToSortSeq({i \in DOMAIN ts : ts[i] = ","} \cup {0, Len(ts) + 1}, <)
  IN  [k \in 1..(Len(ends) - 1) |-> SubSeq(ts, ends[k] + 1, ends[k + 1] - 1)]

Wrapped(ts) == Len(ts) >= 2 /\ ts[1] = "(" /\ Last(ts) = ")"
Inside(ts) == SubSeq(ts, 2, Len(ts) - 1)

-----------------------------------------------------------------------------
(* Names and literals.                                                     *)
\* a.b.c as <<"a", "b", "c">>; empty if the tokens are no such name.
Path(ts) ==
  LET parts == [k \in 1..((Len(ts) + 1) \div 2) |-> IdentifierValue(ts[2 * k - 1])]
  IN  IF /\ Len(ts) % 2 = 1 /\ None \notin ToSet(parts)
         /\ \A i \in DOMAIN ts : i % 2 = 0 => ts[i] = "."
      THEN parts ELSE <<>>

\* An optional new name at the end of a text.
Renamed(ts) ==
  {<<ts, None>>}
    \cup {<<SubSeq(ts, 1, n), IdentifierValue(Last(ts))>> :
            n \in {k \in {Len(ts) - 1, Len(ts) - 2} :
                     /\ k > 0 /\ IdentifierValue(Last(ts)) # None
                     /\ k = Len(ts) - 2 => ts[k + 1] = "as"}}

Sources(ts) ==
  {[table |-> Last(Path(r[1])), alias |-> r[2],
    database |-> IF Len(Path(r[1])) = 2 THEN Path(r[1])[1] ELSE None] :
     r \in {q \in Renamed(ts) :
              \E t \in DOMAIN DemoTables : Path(q[1]) \in {<<t>>, <<"demo", t>>}}}

Scopes(s) ==
  {<<>>, <<IF s.alias = None THEN s.table ELSE s.alias>>}
    \cup {p \in {<<s.database, s.table>>} : s.alias = None /\ s.database # None}

ColumnsNamed(ts, s) == {Last(p) : p \in {q \in {Path(ts)} : q # <<>> /\ Front(q) \in Scopes(s)}}

Numbers == {"?i", "?imin", "?n"}
Literals ==
  {<<t>> : t \in Numbers \cup {"?s", "?h", "?b", "true", "false"}}
    \cup {<<sign, t>> : sign \in {"+", "-"}, t \in Numbers}

\* The literals that are a value of the table's key as they stand.
KeyLiterals(table) ==
  IF DemoTables[table].type = "string" THEN {<<"?s">>}
  ELSE {<<"?i">>, <<"+", "?i">>, <<"-", "?i">>, <<"-", "?imin">>}

-----------------------------------------------------------------------------
(* Conditions: comparisons joined by AND, in parentheses or not.           *)
Mirror == [op \in Comparators |->
  CASE op = "<" -> ">" [] op = ">" -> "<" [] op = "<=" -> ">=" [] op = ">=" -> "<=" [] OTHER -> op]

Atoms(ts, s) ==
  UNION {LET left == SubSeq(ts, 1, i - 1)
             right == From(ts, i + 1)
         IN  {[column |-> c, operator |-> ts[i], literal |-> right] :
                c \in IF right \in Literals THEN ColumnsNamed(left, s) ELSE {}}
               \cup {[column |-> c, operator |-> Mirror[ts[i]], literal |-> left] :
                       c \in IF left \in Literals THEN ColumnsNamed(right, s) ELSE {}} :
           i \in {k \in DOMAIN ts : ts[k] \in Comparators}}

RECURSIVE Conditions(_, _, _)
Conditions(ts, s, nesting) ==
  {<<a>> : a \in Atoms(ts, s)}
    \cup (IF Wrapped(ts) /\ nesting < MaxNesting
          THEN Conditions(Inside(ts), s, nesting + 1) ELSE {})
    \cup UNION {{left \o right : left \in Conditions(c[1], s, nesting),
                                 right \in Conditions(c[2], s, nesting)} :
                  c \in Cuts(ts, "and")}

\* A key column is compared once, with a literal of its own type.
Predicates(ts, s) ==
  IF ts = None THEN {<<>>}
  ELSE {p \in Conditions(ts, s, 0) :
          \A i \in DOMAIN p :
            p[i].column \in KeyColumns(s.table) =>
              /\ p[i].literal \in KeyLiterals(s.table)
              /\ \A j \in DOMAIN p : p[j].column = p[i].column => j = i}

-----------------------------------------------------------------------------
(* What a predicate selects, for every value its literals may have.        *)
Holds(x, op, y) ==
  CASE op = "=" -> x = y [] op = "<" -> x < y [] op = ">" -> x > y
    [] op = "<=" -> x <= y [] op = ">=" -> x >= y [] OTHER -> x # y

Rows(p, table) == [ColumnsOf(p) \cup KeyColumns(table) -> Values]
Valuations(p) == [DOMAIN p -> Values]
Matches(row, p, v) == \A i \in DOMAIN p : Holds(row[p[i].column], p[i].operator, v[i])

\* The place of a row's key in the order of all keys.
Place(row, table) ==
  FoldLeft(LAMBDA n, c : n * Cardinality(Values) + row[c], 0, DemoTables[table].key)

Selected(p, table, v) == {Place(row, table) : row \in {r \in Rows(p, table) : Matches(r, p, v)}}

AtMostOneKey(p, table) == \A v \in Valuations(p) : Cardinality(Selected(p, table, v)) <= 1

\* Reading one range of keys, or two around a hole, reads the right rows.
RangesSuffice(p, table) ==
  /\ ColumnsOf(p) \subseteq KeyColumns(table)
  /\ \A v \in Valuations(p) :
       Cardinality({n \in Selected(p, table, v) : n + 1 \notin Selected(p, table, v)}) <= 2

\* Which key can match is confined by its first column.
Confined(p, table) ==
  LET Firsts(v) == {row[DemoTables[table].key[1]] : row \in {r \in Rows(p, table) : Matches(r, p, v)}}
  IN  \E v \in Valuations(p) : Firsts(v) \notin {{}, Values}

-----------------------------------------------------------------------------
(* Statements.  A meaning says what is to be done to which rows.           *)
Meaning(kind, s, aggregate, p) ==
  [kind |-> kind, table |-> s.table, aggregate |-> aggregate, where |-> p]

IsStar(ts, s) ==
  \/ ts = <<"*">>
  \/ /\ Len(ts) > 2 /\ Last(ts) = "*" /\ ts[Len(ts) - 1] = "."
     /\ Path(SubSeq(ts, 1, Len(ts) - 2)) \in Scopes(s) \ {<<>>}

IsCall(ts, s) ==
  /\ At(ts, 1) \in Aggregates /\ Wrapped(Tail(ts))
  /\ \/ Inside(Tail(ts)) = <<"*">> /\ ts[1] = "count"
     \/ ColumnsNamed(Inside(Tail(ts)), s) # {}

IsColumn(ts, s, columns) ==
  \E r \in Renamed(ts) : \E c \in ColumnsNamed(r[1], s) : c \in columns

\* The columns of a GROUP BY; empty if one of its items is none.
GroupColumns(ts, s) ==
  LET named == [i \in DOMAIN Items(ts) |-> ColumnsNamed(Items(ts)[i], s)]
  IN  IF {} \in ToSet(named) THEN {} ELSE UNION ToSet(named)

\* Every item of a projection is computed from what the rows of a group share.
Computed(projection, columns, s) ==
  \A i \in DOMAIN Items(projection) :
    \/ \E r \in Renamed(Items(projection)[i]) : IsCall(r[1], s)
    \/ \E r \in Renamed(Items(projection)[i]) : ColumnsNamed(r[1], s) \cap columns # {}

Listed(projection, s) ==
  /\ At(projection, 1) \notin SelectOptions
  /\ \A i \in DOMAIN Items(projection) :
       \/ IsStar(Items(projection)[i], s)
       \/ \E r \in Renamed(Items(projection)[i]) : ColumnsNamed(r[1], s) # {}

Shapes(projection, group, s) ==
  {a \in {None, "scalar", "grouped"} :
     CASE a = None -> group = None /\ Listed(projection, s)
       [] a = "scalar" -> group = None /\ Computed(projection, {}, s)
       [] a = "grouped" /\ group # None ->
            /\ At(group, 1) = "by" /\ GroupColumns(Tail(group), s) # {}
            /\ Computed(projection, GroupColumns(Tail(group), s), s)
       [] OTHER -> FALSE}

\* SELECT projection FROM source [WHERE where] [GROUP group]
Selects(projection, source, where, group) ==
  UNION {{Meaning("select", s, a, p) : p \in Predicates(where, s),
                                       a \in Shapes(projection, group, s)} : s \in Sources(source)}

RECURSIVE IsValue(_, _, _)
IsValue(ts, s, nesting) ==
  \/ ts \in Literals \cup {<<"null">>, <<"default">>}
  \/ ColumnsNamed(ts, s) # {}
  \/ Wrapped(ts) /\ nesting < MaxNesting /\ IsValue(Inside(ts), s, nesting + 1)

IsExpression(ts, s) ==
  \/ IsValue(ts, s, 0)
  \/ "default" \notin ToSet(ts)
     /\ \E op \in Arithmetic : \E c \in Cuts(ts, op) : IsValue(c[1], s, 0) /\ IsValue(c[2], s, 0)

\* Each assignment is to a column of its own, outside the key.
Assigns(ts, s) ==
  LET cuts == [i \in DOMAIN Items(ts) |-> Cuts(Items(ts)[i], "=") \cup Cuts(Items(ts)[i], ":=")]
      targets == [i \in DOMAIN cuts |-> UNION {ColumnsNamed(c[1], s) : c \in cuts[i]}]
  IN  /\ \A i \in DOMAIN cuts :
           /\ \E c \in cuts[i] : ColumnsNamed(c[1], s) # {} /\ IsExpression(c[2], s)
           /\ targets[i] \cap KeyColumns(s.table) = {}
           /\ \A j \in DOMAIN cuts : j # i => targets[i] \cap targets[j] = {}

\* A write is in the subset when it cannot touch a second key.
Writes(kind, s, where) ==
  {Meaning(kind, s, None, p) : p \in {q \in Predicates(where, s) : AtMostOneKey(q, s.table)}}

\* DELETE FROM source [WHERE where]
Deletes(source, where) == UNION {Writes("delete", s, where) : s \in Sources(source)}

\* UPDATE source SET assignments [WHERE where]
Updates(source, assignments, where) ==
  UNION {Writes("update", s, where) : s \in {t \in Sources(source) : Assigns(assignments, t)}}

\* The row to insert gives each named column one value, and the key its own.
FitsTable(names, row, table) ==
  LET Name(i) == Path(names[i])[1]
  IN  /\ Len(names) = Len(row)
      /\ \A i \in DOMAIN names :
           /\ Len(Path(names[i])) = 1
           /\ row[i] \in Literals \cup {<<"null">>, <<"default">>}
           /\ \A j \in 1..(i - 1) : Name(j) # Name(i)
           /\ Name(i) \in KeyColumns(table) => row[i] \in KeyLiterals(table)
      /\ KeyColumns(table) \subseteq {Name(i) : i \in DOMAIN names}

\* INSERT INTO source ( names ) VALUES ( row )
Inserts(source, names, row) ==
  {Meaning("insert", s, None, <<>>) :
     s \in {t \in Sources(source) : t.alias = None /\ FitsTable(Items(names), Items(row), t.table)}}

StatementMeanings(ts) ==
  CASE At(ts, 1) = "select" ->
         UNION {UNION {UNION {Selects(from[1], where[1], where[2], group[2]) :
                                where \in Optionally(group[1], "where")} :
                         group \in Optionally(from[2], "group")} :
                  from \in Cuts(Tail(ts), "from")}
    [] At(ts, 1) = "delete" /\ At(ts, 2) = "from" ->
         UNION {Deletes(where[1], where[2]) : where \in Optionally(From(ts, 3), "where")}
    [] At(ts, 1) = "update" ->
         UNION {UNION {Updates(set[1], set[2], where[2]) : set \in Cuts(where[1], "set")} :
                  where \in Optionally(Tail(ts), "where")}
    [] At(ts, 1) = "insert" /\ At(ts, 2) = "into" ->
         UNION {UNION {Inserts(open[1], Front(open[2]), Inside(values[2])) :
                         open \in {c \in Cuts(values[1], "(") : c[2] # <<>> /\ Last(c[2]) = ")"}} :
                  values \in {c \in Cuts(From(ts, 3), "values") : Wrapped(c[2])}}
    [] OTHER -> {}

IsExplain(ts) == At(ts, 1) = "explain"
Meanings(ts) == StatementMeanings(IF IsExplain(ts) THEN Tail(Ended(ts)) ELSE Ended(ts))

-----------------------------------------------------------------------------
Insert(i, phrase) == tokens' = SubSeq(tokens, 1, i) \o phrase \o From(tokens, i + 1)
Drop(i) == tokens' = SubSeq(tokens, 1, i - 1) \o From(tokens, i + 1)

Edit ==
  /\ edits < MaxEdits
  /\ edits' = edits + 1
  /\ \/ edits = 0 /\ \E i \in 0..Len(tokens), phrase \in Phrases : Insert(i, phrase)
     \/ \E i \in DOMAIN tokens : Drop(i)

-----------------------------------------------------------------------------
KindOf(m) ==
  CASE m.kind # "select" -> m.kind
    [] m.aggregate # None /\ m.kind = "select" -> "aggregate"
    [] OTHER -> IF AtMostOneKey(m.where, m.table) THEN "point_read" ELSE "range_read"

\* The operator that reads the table finds the right keys and no fewer.
ReadsRightKeys(leaf, m) ==
  leaf = CASE KindOf(m) = "aggregate" /\ DemoTables[m.table].tiflash -> "TableFullScan"
           [] KindOf(m) = "point_read" -> "Point_Get"
           [] OTHER -> IF Confined(m.where, m.table) THEN "TableRangeScan" ELSE "TableFullScan"

\* Rows the ranges alone would let through are filtered, and no others.
FiltersTheRest(plan, m) ==
  LET whole == IF Last(plan) = "TableFullScan" THEN m.where = <<>> ELSE RangesSuffice(m.where, m.table)
  IN  Contains(plan, "Selection") <=> ~whole

\* Groups are brought together by exchange exactly when there are groups
\* and the data is on several nodes.
ExchangesGroups(plan, m) ==
  Contains(plan, "ExchangeSender(HashPartition)")
    <=> (m.aggregate = "grouped" /\ DemoTables[m.table].tiflash)

RoutedAs(r, m) ==
  /\ r.statementKind = KindOf(m) /\ r.table = m.table /\ r.aggregateShape = m.aggregate
  /\ r.kind = (IF IsExplain(tokens) THEN "explain" ELSE KindOf(m))
  /\ r.readOnly = (IsExplain(tokens) \/ m.kind = "select")
  /\ (r.accessPath = "point_get") = (KindOf(m) = "point_read")
  /\ m.kind = "select" =>
       ReadsRightKeys(Last(r.plan), m) /\ FiltersTheRest(r.plan, m) /\ ExchangesGroups(r.plan, m)

Agrees(r, meanings) ==
  IF r.status = "supported" THEN meanings # {} /\ \A m \in meanings : RoutedAs(r, m)
  ELSE meanings = {}

(* analyzeSql supports exactly the statements of the modelled subset, and  *)
(* routes each by what it means: a point read when, and only when, its     *)
(* predicate admits at most one key whatever the literals are, a scan of   *)
(* the ranges the predicate confines, a Selection exactly when these       *)
(* ranges hold rows that do not match, and no write that could reach a     *)
(* second key.  Nothing it scans past changes what the statement says.     *)
ClassifierIsExact == Agrees(AnalyzeSql(tokens), Meanings(tokens))
=============================================================================
