----------------------------- MODULE SqlClassifier -----------------------------
(***************************************************************************)
(* analyzeSql of src/tidb/model/sql.ts: which statements the engine routes *)
(* and how.  A statement is a sequence of tokens as its lexer leaves them: *)
(* words in lower case, literals reduced to their kind ("?i" an integer,   *)
(* "?s" a string, ...), quoted names marked.  The lexer itself, and with   *)
(* it the byte limit and comments, is left out.                            *)
(*                                                                         *)
(* The code scans for keywords from the front and slices between them; so  *)
(* do the operators here.  null is None, a null list the empty sequence.   *)
(* Explanations are wording; a rejection keeps its status only.            *)
(***************************************************************************)
EXTENDS Integers, Sequences, FiniteSets, SequencesExt

CONSTANTS Names,       \* words that are no reserved keyword and no bare builtin
          Quoted,      \* function: a quoted or protected token -> the name in it
          MaxNesting,  \* 64
          None         \* JavaScript's null

ASSUME SqlAssumption == MaxNesting \in Nat

\* DEMO_TABLES: every primary key is a clustered row handle.
Table(key, type, replica) == [key |-> key, type |-> type, tiflash |-> replica]

DemoTables ==
  [accounts    |-> Table(<<"id">>, "integer", FALSE),
   orders      |-> Table(<<"id">>, "integer", FALSE),
   order_items |-> Table(<<"order_id", "item_id">>, "integer", FALSE),
   events      |-> Table(<<"id">>, "integer", TRUE),
   inventory   |-> Table(<<"sku">>, "string", FALSE)]

Aggregates == {"count", "sum", "avg", "min", "max"}
ComplexSelect == {"join", "union", "intersect", "except", "window", "over"}
Clauses == {"where", "group", "having", "order", "limit", "for"}
\* SELECT_OPTIONS, those that can be met here.
SelectOptions == {"all", "distinct", "high_priority", "sql_no_cache", "straight_join"}
Verbs == {"select", "insert", "update", "delete"}
Comparators == {"=", "<", ">", "<=", ">=", "<>", "!="}
Arithmetic == {"+", "-", "*", "/", "%"}

-----------------------------------------------------------------------------
(* Tokens.                                                                 *)
At(ts, i) == IF i \in DOMAIN ts THEN ts[i] ELSE None
From(ts, i) == SubSeq(ts, i, Len(ts))
Find(ts, words) == SelectInSeq(ts, LAMBDA t : t \in words)
FindAfter(ts, i, words) == SelectInSubSeq(ts, i + 1, Len(ts), LAMBDA t : t \in words)
Count(ts, word) == Cardinality({i \in DOMAIN ts : ts[i] = word})
Mentions(ts, words) == \E i \in DOMAIN ts : ts[i] \in words
KeyColumns(table) == ToSet(DemoTables[table].key)

\* A column that stands for the "*" of a qualified wildcard.
ModelColumn == "_model_column"

IdentifierValue(t) ==
  IF t \in DOMAIN Quoted THEN Quoted[t]
  ELSE IF t \in Names \cup {ModelColumn} THEN t ELSE None

IsLiteral(ts) ==
  \/ Len(ts) = 1 /\ ts[1] \in {"?s", "?i", "?imin", "?n", "?h", "?b", "true", "false"}
  \/ Len(ts) = 2 /\ ts[1] \in {"+", "-"} /\ ts[2] \in {"?i", "?imin", "?n"}

Depth(ts, i) == Count(SubSeq(ts, 1, i), "(") - Count(SubSeq(ts, 1, i), ")")

MatchingClose(ts, open) ==
  SelectInSeq([i \in DOMAIN ts |-> i],
              LAMBDA i : i > open /\ ts[i] = ")" /\ Depth(ts, i) = Depth(ts, open - 1))

CommaExpressions(ts) ==
  LET cuts == SetToSortSeq({i \in DOMAIN ts : ts[i] = "," /\ Depth(ts, i) = 0}
                             \cup {0, Len(ts) + 1}, <)
      parts == [k \in 1..(Len(cuts) - 1) |-> SubSeq(ts, cuts[k] + 1, cuts[k + 1] - 1)]
  IN  IF /\ \A i \in DOMAIN ts : Depth(ts, i) >= 0
         /\ Depth(ts, Len(ts)) = 0
         /\ \A k \in DOMAIN parts : parts[k] # <<>>
      THEN parts ELSE <<>>

-----------------------------------------------------------------------------
(* Tables, columns and predicates.                                         *)
TableReference(ts, keyword, terminators) ==
  LET at == Find(ts, {keyword})
      dotted == At(ts, at + 2) = "."
      name == IF dotted THEN at + 3 ELSE at + 1
      as == At(ts, name + 1) = "as"
      aliased == At(ts, name + 1) \notin terminators \cup {None}
      alias == IF as THEN name + 2 ELSE name + 1
      end == IF aliased THEN alias + 1 ELSE name + 1
      value(i) == IdentifierValue(At(ts, i))
  IN  IF /\ at > 0 /\ value(at + 1) # None /\ value(name) # None
         /\ aliased => value(alias) # None
         /\ At(ts, end) \in terminators \cup {None}
      THEN [table |-> value(name), database |-> IF dotted THEN value(at + 1) ELSE None,
            alias |-> IF aliased THEN value(alias) ELSE None, end |-> end]
      ELSE None

KnownTable(ref) == ref.database \in {None, "demo"} /\ ref.table \in DOMAIN DemoTables

BoundColumn(ts, ref) ==
  LET value(i) == IdentifierValue(ts[i])
      dots(n) == Len(ts) = n /\ \A i \in 1..n : i % 2 = 0 => ts[i] = "."
  IN  CASE dots(1) -> value(1)
        [] dots(3) /\ value(1) = (IF ref.alias = None THEN ref.table ELSE ref.alias) -> value(3)
        [] /\ dots(5) /\ ref.alias = None /\ ref.database # None
           /\ value(1) = ref.database /\ value(3) = ref.table -> value(5)
        [] OTHER -> None

\* name.name...: the longest runs of tokens joined by dots.
DottedNames(ts) ==
  {SubSeq(ts, i, j) : <<i, j>> \in
     {p \in (DOMAIN ts) \X (DOMAIN ts) :
        /\ p[1] < p[2] /\ (p[2] - p[1]) % 2 = 0
        /\ \A k \in (p[1] + 1)..p[2] : (k - p[1]) % 2 = 1 => ts[k] = "."
        /\ At(ts, p[1] - 1) # "." /\ At(ts, p[2] + 1) # "."}}

WildcardOf(ts) == Append(Front(ts), ModelColumn)

HasBoundQualifiers(ts, ref) ==
  \A name \in DottedNames(ts) :
    BoundColumn(IF Last(name) = "*" THEN WildcardOf(name) ELSE name, ref) # None

\* One comparison of a column with a literal, in either order.
Comparison(atom, ref) ==
  LET at == Find(atom, Comparators)
      left == SubSeq(atom, 1, at - 1)
      right == From(atom, at + 1)
      literal == IF IsLiteral(right) THEN right ELSE left
      column == BoundColumn(IF IsLiteral(right) THEN left ELSE right, ref)
  IN  IF at > 0 /\ IsLiteral(literal) /\ column # None
      THEN [column |-> column, operator |-> atom[at], literal |-> literal] ELSE None

(* predicateComparisons, a descent over nested parentheses: what was found *)
(* from token i, and where it ended.                                       *)
Unread == [found |-> <<>>, next |-> 0]

\* The group that ends where inner does, if a parenthesis closes it.
Closed(ts, inner) ==
  IF inner # Unread /\ At(ts, inner.next) = ")" THEN [inner EXCEPT !.next = @ + 1] ELSE Unread

Read(comparison, next) ==
  IF comparison = None THEN Unread ELSE [found |-> <<comparison>>, next |-> next]

\* The comparison that ends before the first of these words, or with the text.
ReadTo(ts, i, end, ref) == Read(Comparison(SubSeq(ts, i, end - 1), ref), end)

Before(ts, end) == IF end = 0 THEN Len(ts) + 1 ELSE end

Joined(first, rest) ==
  IF rest = Unread THEN Unread ELSE [rest EXCEPT !.found = first.found \o @]

RECURSIVE Conjunction(_, _, _, _)

ReadComparison(ts, i, nesting, ref) ==
  IF At(ts, i) # "(" THEN ReadTo(ts, i, Before(ts, FindAfter(ts, i - 1, {"and", ")"})), ref)
  ELSE IF nesting < MaxNesting THEN Closed(ts, Conjunction(ts, i + 1, nesting + 1, ref))
  ELSE Unread

Continued(ts, first, nesting, ref) ==
  IF first = Unread \/ At(ts, first.next) # "and" THEN first
  ELSE Joined(first, Conjunction(ts, first.next + 1, nesting, ref))

Conjunction(ts, i, nesting, ref) == Continued(ts, ReadComparison(ts, i, nesting, ref), nesting, ref)

Whole(ts, read) == IF read.next = Len(ts) + 1 THEN read.found ELSE <<>>
PredicateComparisons(ts, ref) == Whole(ts, Conjunction(ts, 1, 0, ref))

\* The predicate's tokens; None without a WHERE.
WhereTokens(ts) ==
  LET where == Find(ts, {"where"})
      end == FindAfter(ts, where, Clauses)
  IN  IF where = 0 THEN None ELSE SubSeq(ts, where + 1, IF end = 0 THEN Len(ts) ELSE end - 1)

ColumnsOf(comparisons) == {comparisons[i].column : i \in DOMAIN comparisons}

HasCompletePrimaryKeyEquality(comparisons, table) ==
  \A c \in KeyColumns(table) :
    \E i \in DOMAIN comparisons : comparisons[i].column = c /\ comparisons[i].operator = "="

RepeatedPrimaryKey(comparisons, table) ==
  \E i, j \in DOMAIN comparisons :
    i # j /\ comparisons[i].column = comparisons[j].column
          /\ comparisons[i].column \in KeyColumns(table)

CompatiblePrimaryKeyLiteral(literal, table) ==
  IF DemoTables[table].type = "string" THEN literal = <<"?s">>
  ELSE literal \in {<<"?i">>, <<"+", "?i">>, <<"-", "?i">>, <<"-", "?imin">>}

CompatibleKeyComparisons(comparisons, table) ==
  \A i \in DOMAIN comparisons :
    comparisons[i].column \in KeyColumns(table) =>
      CompatiblePrimaryKeyLiteral(comparisons[i].literal, table)

\* Leading equalities of the key, then at most one ranged column.
AccessColumns(comparisons, table) ==
  LET key == DemoTables[table].key
      On(c) == SelectInSeq(comparisons, LAMBDA p : p.column = c)
      Pins(c) == On(c) > 0 /\ comparisons[On(c)].operator = "="
  IN  {key[i] : i \in {n \in DOMAIN key : On(key[n]) > 0 /\ \A m \in 1..(n - 1) : Pins(key[m])}}

PredicateShape(comparisons, table) ==
  LET access == AccessColumns(comparisons, table)
  IN  CASE comparisons = <<>> -> "none"
        [] HasCompletePrimaryKeyEquality(comparisons, table) /\ comparisons # <<>> ->
             IF ColumnsOf(comparisons) \subseteq KeyColumns(table)
             THEN "primary_key_equality" ELSE "primary_key_with_residual"
        [] access = {} /\ comparisons # <<>> -> "scan_predicate"
        [] OTHER -> IF ColumnsOf(comparisons) \subseteq access
                    THEN "primary_range" ELSE "primary_range_with_residual"

-----------------------------------------------------------------------------
(* plan: every node has one child, so a plan is its operators from the     *)
(* root to the leaf.                                                       *)
Residual == {"scan_predicate", "primary_range_with_residual", "primary_key_with_residual"}
PrimaryRange == {"primary_range", "primary_range_with_residual", "primary_key_equality",
                 "primary_key_with_residual"}

Filter(needed) == IF needed THEN <<"Selection">> ELSE <<>>
TikvScan(shape) == IF shape \in PrimaryRange THEN "TableRangeScan" ELSE "TableFullScan"

Plan(kind, path, aggregate, shape) ==
  CASE kind = "aggregate" /\ path # "tiflash_mpp" ->
         <<"HashAgg">> \o Filter(shape \in Residual) \o <<TikvScan(shape)>>
    [] kind = "aggregate" /\ path = "tiflash_mpp" ->
         (IF aggregate = "scalar"
          THEN <<"HashAgg(Final)", "MPPGather", "ExchangeSender(PassThrough)", "HashAgg(Partial)">>
          ELSE <<"MPPGather", "ExchangeSender(PassThrough)", "HashAgg(Final)",
                 "ExchangeReceiver(HashPartition)", "ExchangeSender(HashPartition)",
                 "HashAgg(Partial)">>)
           \o Filter(shape # "none") \o <<"TableFullScan">>
    [] kind \in {"point_read", "range_read"} ->
         <<"Projection">> \o Filter(shape \in Residual)
           \o <<IF path = "point_get" THEN "Point_Get" ELSE TikvScan(shape)>>
    [] OTHER -> <<kind, "KVWrite">>

Rejected(status) ==
  [status |-> status, kind |-> "unknown", statementKind |-> "unknown", table |-> None,
   accessPath |-> "none", aggregateShape |-> None, predicateShape |-> "none",
   readOnly |-> TRUE, plan |-> <<>>]

Supported(kind, table, path, aggregate, shape) ==
  [status |-> "supported", kind |-> kind, statementKind |-> kind, table |-> table,
   accessPath |-> path, aggregateShape |-> aggregate, predicateShape |-> shape,
   readOnly |-> kind \in {"point_read", "range_read", "aggregate"},
   plan |-> Plan(kind, path, aggregate, shape)]

-----------------------------------------------------------------------------
(* Projections, GROUP BY, assignments and VALUES.                          *)
WithoutProjectionAlias(ts) ==
  LET n == Len(ts)
      named == IdentifierValue(At(ts, n)) # None
  IN  CASE n >= 3 /\ named /\ At(ts, n - 1) = "as" -> SubSeq(ts, 1, n - 2)
        [] /\ n >= 2 /\ named /\ ts[n - 1] \notin {".", "as"}
           /\ ts[n - 1] = ")" \/ n - 1 \in {1, 3, 5} -> Front(ts)
        [] OTHER -> ts

IsAggregateCall(ts, ref) ==
  LET argument == SubSeq(ts, 3, Len(ts) - 1)
  IN  /\ At(ts, 1) \in Aggregates /\ At(ts, 2) = "(" /\ MatchingClose(ts, 2) = Len(ts)
      /\ \/ argument = <<"*">> /\ ts[1] = "count"
         \/ BoundColumn(argument, ref) # None

GroupExpressions(ts) ==
  LET group == Find(ts, {"group"})
      end == FindAfter(ts, group, Clauses)
  IN  IF At(ts, group + 1) # "by" THEN <<>>
      ELSE CommaExpressions(SubSeq(ts, group + 2, IF end = 0 THEN Len(ts) ELSE end - 1))

AggregateShape(ts, ref) ==
  LET projections == CommaExpressions(SubSeq(ts, 2, Find(ts, {"from"}) - 1))
      grouping == Contains(ts, "group")
      groups == IF grouping THEN GroupExpressions(ts) ELSE <<>>
      columns == {BoundColumn(groups[i], ref) : i \in DOMAIN groups}
      Computed(p) == LET e == WithoutProjectionAlias(p)
                     IN  IsAggregateCall(e, ref) \/ BoundColumn(e, ref) \in columns
  IN  IF /\ ~Mentions(ts, {"distinct", "having"}) /\ projections # <<>>
         /\ grouping => groups # <<>>
         /\ None \notin columns
         /\ \A i \in DOMAIN projections : Computed(projections[i])
      THEN IF grouping THEN "grouped" ELSE "scalar"
      ELSE None

SupportedProjection(ts, ref) ==
  LET Wildcard(e) == e = <<"*">> \/ (Last(e) = "*" /\ BoundColumn(WildcardOf(e), ref) # None)
      es == CommaExpressions(ts)
  IN  /\ es # <<>>
      /\ \A i \in DOMAIN es :
           Wildcard(es[i]) \/ BoundColumn(WithoutProjectionAlias(es[i]), ref) # None

RECURSIVE SimpleValue(_, _, _)
SimpleValue(ts, ref, nesting) ==
  IF At(ts, 1) = "(" /\ MatchingClose(ts, 1) = Len(ts)
  THEN nesting < MaxNesting /\ SimpleValue(SubSeq(ts, 2, Len(ts) - 1), ref, nesting + 1)
  ELSE IsLiteral(ts) \/ BoundColumn(ts, ref) # None \/ ts \in {<<"null">>, <<"default">>}

\* A simple value, or one operation on two of them.
SupportedValue(ts, ref) ==
  LET binary == {i \in (DOMAIN ts) \ {1} :
                   /\ ts[i] \in Arithmetic /\ Depth(ts, i) = 0
                   /\ ts[i - 1] \notin Arithmetic \cup {"("}}
  IN  \/ SimpleValue(ts, ref, 0)
      \/ /\ Cardinality(binary) = 1 /\ ~Contains(ts, "default")
         /\ \A i \in binary : SimpleValue(SubSeq(ts, 1, i - 1), ref, 0)
                              /\ SimpleValue(From(ts, i + 1), ref, 0)

SupportedAssignments(ts, ref) ==
  LET es == CommaExpressions(ts)
      Equals(i) == Find(es[i], {"=", ":="})
      Target(i) == BoundColumn(SubSeq(es[i], 1, Equals(i) - 1), ref)
  IN  /\ es # <<>>
      /\ \A i \in DOMAIN es :
           /\ Equals(i) > 0 /\ Target(i) \notin KeyColumns(ref.table) \cup {None}
           /\ \A j \in 1..(i - 1) : Target(j) # Target(i)
           /\ SupportedValue(From(es[i], Equals(i) + 1), ref)

IdentifierList(ts) ==
  LET columns == [k \in 1..((Len(ts) + 1) \div 2) |-> IdentifierValue(ts[2 * k - 1])]
  IN  IF /\ Len(ts) % 2 = 1 /\ None \notin ToSet(columns)
         /\ \A i \in DOMAIN ts : i % 2 = 0 => ts[i] = ","
         /\ Cardinality(ToSet(columns)) = Len(columns)
      THEN columns ELSE <<>>

ValuesRow(ts) ==
  LET es == CommaExpressions(ts)
  IN  IF \A i \in DOMAIN es : IsLiteral(es[i]) \/ es[i] \in {<<"null">>, <<"default">>}
      THEN es ELSE <<>>

SingleRowInsert(ts, table) ==
  LET values == Find(ts, {"values"})
      open == FindAfter(ts, 2, {"("})
      columns == IdentifierList(SubSeq(ts, open + 1, values - 2))
      close == MatchingClose(ts, values + 1)
      row == ValuesRow(SubSeq(ts, values + 2, Len(ts) - 1))
      Value(c) == row[SelectInSeq(columns, LAMBDA d : d = c)]
  IN  /\ values > 0
      /\ open = (IF At(ts, 4) = "." THEN 6 ELSE 4) /\ MatchingClose(ts, open) = values - 1
      /\ KeyColumns(table) \subseteq ToSet(columns)
      /\ At(ts, values + 1) = "(" /\ close = Len(ts)
      /\ row # <<>> /\ Len(row) = Len(columns)
      /\ \A c \in KeyColumns(table) : CompatiblePrimaryKeyLiteral(Value(c), table)

-----------------------------------------------------------------------------
(* classifyBase and analyzeSql.                                            *)
HasExtraClauses(ts, allowed) ==
  Mentions(ts, Clauses \ allowed) \/ \E clause \in allowed : Count(ts, clause) > 1

\* A WHERE that is not a plain conjunction over the key's own type.
\* Mutant: a key may be compared with a literal of any type.
PredicateRefusedUntyped(ts, comparisons, table) ==
  /\ WhereTokens(ts) # None
  /\ comparisons = <<>> \/ RepeatedPrimaryKey(comparisons, table)

PredicateRefused(ts, comparisons, table) ==
  /\ WhereTokens(ts) # None
  /\ \/ comparisons = <<>> \/ RepeatedPrimaryKey(comparisons, table)
     \/ ~CompatibleKeyComparisons(comparisons, table)

ComparisonsIn(ts, ref) ==
  IF WhereTokens(ts) = None THEN <<>> ELSE PredicateComparisons(WhereTokens(ts), ref)

\* The SELECT has a FROM, one known table and well-placed clauses.
RouteRead(ts, ref, comparisons) ==
  LET projection == SubSeq(ts, 2, Find(ts, {"from"}) - 1)
      shape == PredicateShape(comparisons, ref.table)
      aggregate == \/ Contains(ts, "group")
                   \/ \E i \in DOMAIN projection :
                        projection[i] \in Aggregates /\ At(projection, i + 1) = "("
      grouping == AggregateShape(ts, ref)
  IN  CASE PredicateRefused(ts, comparisons, ref.table) -> Rejected("unsupported")
        [] aggregate /\ ~PredicateRefused(ts, comparisons, ref.table) ->
             IF grouping = None THEN Rejected("unsupported")
             ELSE Supported("aggregate", ref.table,
                            IF DemoTables[ref.table].tiflash THEN "tiflash_mpp" ELSE "table_scan",
                            grouping, shape)
        [] OTHER ->
             IF Mentions(ts, {"distinct", "having"}) \/ ~SupportedProjection(projection, ref)
             THEN Rejected("unsupported")
             ELSE IF HasCompletePrimaryKeyEquality(comparisons, ref.table)
             THEN Supported("point_read", ref.table, "point_get", None, shape)
             ELSE Supported("range_read", ref.table,
                            IF Contains(ts, "where") THEN "range_scan" ELSE "table_scan", None, shape)

SelectFrom(ts, ref) ==
  LET from == Find(ts, {"from"})
      where == Find(ts, {"where"})
      group == Find(ts, {"group"})
  IN  IF \/ Mentions(ts, ComplexSelect \cup {"not", "or", "for", "lock", "into"})
         \/ HasExtraClauses(ts, {"where", "group"})
      THEN Rejected("unsupported")
      ELSE IF from = 0 THEN Rejected("invalid")
      ELSE IF ref = None \/ Count(ts, "from") # 1 THEN Rejected("unsupported")
      ELSE IF ~KnownTable(ref) \/ At(ts, 2) \in SelectOptions THEN Rejected("unsupported")
      ELSE IF from = 2 THEN Rejected("invalid")
      ELSE IF ~HasBoundQualifiers(SubSeq(ts, 2, from - 1), ref)
              \/ ~HasBoundQualifiers(From(ts, ref.end), ref)
      THEN Rejected("unsupported")
      ELSE IF 0 < group /\ group < where THEN Rejected("invalid")
      ELSE RouteRead(ts, ref, ComparisonsIn(ts, ref))

ClassifySelect(ts) == SelectFrom(ts, TableReference(ts, "from", Clauses))

ClassifyInsert(ts) ==
  LET ref == TableReference(ts, "into", {"("})
  IN  IF /\ At(ts, 2) = "into" /\ ref # None /\ KnownTable(ref)
         /\ SingleRowInsert(ts, ref.table)
      THEN Supported("insert", ref.table, "kv_write", None, "none") ELSE Rejected("unsupported")

RouteWrite(ts, ref, comparisons) ==
  IF /\ ~PredicateRefused(ts, comparisons, ref.table)
     /\ HasCompletePrimaryKeyEquality(comparisons, ref.table)
  THEN Supported(ts[1], ref.table, "kv_write", None, PredicateShape(comparisons, ref.table))
  ELSE Rejected("unsupported")

WriteTo(ts, ref) ==
  LET set == Find(ts, {"set"})
      where == Find(ts, {"where"})
      assignments == SubSeq(ts, set + 1, IF where = 0 THEN Len(ts) ELSE where - 1)
  IN  IF \/ HasExtraClauses(ts, {"where"})
         \/ ts[1] = "delete" /\ At(ts, 2) # "from"
         \/ ref = None
      THEN Rejected("unsupported")
      ELSE IF ~KnownTable(ref) \/ ~HasBoundQualifiers(From(ts, ref.end), ref)
      THEN Rejected("unsupported")
      ELSE IF ts[1] = "update" /\ (Count(ts, "set") # 1 \/ (where > 0 /\ set > where))
      THEN Rejected("invalid")
      ELSE IF ts[1] = "update" /\ ~SupportedAssignments(assignments, ref)
      THEN Rejected("unsupported")
      ELSE RouteWrite(ts, ref, ComparisonsIn(ts, ref))

ClassifyWrite(ts) ==
  WriteTo(ts, IF ts[1] = "update" THEN TableReference(ts, "update", {"set"})
              ELSE TableReference(ts, "from", Clauses))

ClassifyBase(ts) ==
  CASE At(ts, 1) \notin Verbs \/ Mentions(Tail(ts), Verbs) -> Rejected("unsupported")
    [] At(ts, 1) = "select" /\ ~Mentions(Tail(ts), Verbs) -> ClassifySelect(ts)
    [] At(ts, 1) = "insert" /\ ~Mentions(Tail(ts), Verbs) -> ClassifyInsert(ts)
    [] OTHER -> ClassifyWrite(ts)

\* What EXPLAIN reports of a statement; its own kind stays beside it.
Explained(analysis) ==
  IF analysis.status = "supported"
  THEN [analysis EXCEPT !.kind = "explain", !.readOnly = TRUE] ELSE analysis

Reported(explain, analysis) == IF explain THEN Explained(analysis) ELSE analysis

Route(ts, explain) ==
  IF explain /\ (Contains(SubSeq(ts, 2, 5), "analyze") \/ At(ts, 2) \notin Verbs)
  THEN Rejected("unsupported")
  ELSE Reported(explain, ClassifyBase(IF explain THEN Tail(ts) ELSE ts))

\* A statement may end in a semicolon, and holds no other.
Ended(ts) == IF At(ts, Len(ts)) = ";" THEN Front(ts) ELSE ts

AnalyzeSql(tokens) ==
  IF Ended(tokens) = <<>> \/ Contains(Ended(tokens), ";") THEN Rejected("invalid")
  ELSE Route(Ended(tokens), At(tokens, 1) = "explain")
=============================================================================
