--------------------------- MODULE MCAlgorithms ---------------------------
(* The pure algorithms of the model, each against its definition: the      *)
(* deadlock detector on every wait-for graph of four transactions, the     *)
(* bisection of the Region array on every key, and the SQL classifier on   *)
(* texts a few edits away from a supported statement.  A behaviour is      *)
(* about one of the three.                                                 *)
EXTENDS WaitForCycle, RegionLookup, SqlStatements

MCNames == {"id", "sku", "order_id", "item_id", "balance", "accounts", "orders", "order_items",
            "events", "inventory", "demo", "a", "count", "sum"}
MCQuoted == [x \in {"quoted-id"} |-> "id"]

MCSeeds == {
  <<"select", "id", "from", "accounts", "where", "(", "(", "id", "=", "?i", ")", ")">>,
  <<"select", "a", ".", "*", ",", "quoted-id", "balance", "from", "demo", ".", "accounts", "as", "a", "where", "balance", ">", "?s", "and", "a", ".", "id", "=", "-", "?imin">>,
  <<"select", "item_id", "from", "order_items", "where", "order_id", "=", "?i", "and", "item_id", ">", "+", "?i", ";">>,
  <<"select", "*", "from", "order_items", "where", "?i", "<", "order_id", "and", "item_id", "=", "?i", "and", "balance", "=", "?n">>,
  <<"select", "count", "(", "*", ")", ",", "sum", "(", "a", ".", "balance", ")", "as", "id", "from", "events", "a", "where", "id", ">=", "?i">>,
  <<"select", "count", "(", "id", ")", ",", "sku", ",", "demo", ".", "events", ".", "id", "from", "demo", ".", "events", "where", "sku", "=", "?s", "group", "by", "sku", ",", "id">>,
  <<"explain", "select", "sku", "as", "count", "from", "inventory", "where", "inventory", ".", "sku", "=", "?s">>,
  <<"select", "sku", ",", "count", "(", "*", ")", "a", "from", "inventory", "group", "by", "sku">>,
  <<"explain", "update", "accounts", "a", "set", "a", ".", "balance", "=", "(", "balance", ")", "+", "?i", ",", "sku", ":=", "default", "where", "a", ".", "id", "=", "?i">>,
  <<"delete", "from", "order_items", "where", "(", "item_id", "=", "?i", ")", "and", "order_id", "=", "-", "?i", "and", "balance", "<>", "true">>,
  <<"insert", "into", "demo", ".", "order_items", "(", "item_id", ",", "balance", ",", "order_id", ")", "values", "(", "?i", ",", "null", ",", "-", "?i", ")", ";">>}

MCPhrases == {
  <<",", "id">>, <<"a">>, <<".", "id">>, <<".", "*">>, <<"=", "?i">>,
  <<"?s">>, <<"and", "id", "=", "?i">>, <<"and", "balance", "<", "?b">>, <<"where", "id", "=", "?i">>, <<"group", "by", "id">>,
  <<"(">>, <<")">>, <<"(", "*", ")">>, <<"as", "a">>, <<"-", "?i">>,
  <<"distinct">>, <<"values">>, <<"from">>, <<"set">>, <<"null">>,
  <<"quoted-id">>, <<";">>, <<"explain">>, <<"order", "by", "id">>, <<"into">>}

NoText == tokens = <<>> /\ edits = 0

MCInit ==
  \/ DetectorInit /\ LookupInit /\ NoText
  \/ DetectorInit /\ LookupInit /\ tokens \in Seeds /\ edits = 0

Texts == <<tokens, edits>>

\* A behaviour that has begun with one of them stays with it.
MCNext ==
  \/ tokens = <<>> /\ LookupInit /\ DetectorNext /\ UNCHANGED <<lookup, Texts>>
  \/ tokens = <<>> /\ DetectorInit /\ LookupNext /\ UNCHANGED <<detector, Texts>>
  \/ tokens # <<>> /\ Edit /\ UNCHANGED <<detector, lookup>>

MCSpec == MCInit /\ [][MCNext]_<<detector, lookup, Texts>>
=============================================================================
