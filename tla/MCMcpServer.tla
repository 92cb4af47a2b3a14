---------------------------- MODULE MCMcpServer -----------------------------
EXTENDS McpServer

Key(name, owner, ownerCols, ref, refCols) ==
    [name |-> name, owner |-> owner, ownerCols |-> ownerCols, ref |-> ref, refCols |-> refCols]

\* Two ways from table 1 to table 5, of two and of three keys; a composite key.
k12 == Key(1, 1, <<"a">>, 2, <<"b">>)
k31 == Key(1, 3, <<"b">>, 1, <<"a">>)
k35 == Key(2, 3, <<"b">>, 5, <<"a">>)
k42 == Key(1, 4, <<"a", "b">>, 2, <<"a", "b">>)
k45 == Key(2, 4, <<"b">>, 5, <<"b">>)
MCKeys == {k12, k31, k35, k42, k45}

Join(name, source, sourceCols, target, targetCols) ==
    [name |-> name, source |-> source, sourceCols |-> sourceCols,
     target |-> target, targetCols |-> targetCols]
billing == Join("billing", "e1", <<"a">>, "e2", <<"b">>)
shipping == Join("shipping", "e2", <<"a">>, "e1", <<"b">>)
MCJoins == {billing, shipping}

MCVersions == {[table |-> 1, cols |-> {"a", "b"}, fks |-> {}],
               [table |-> 1, cols |-> {"a"}, fks |-> {k12}],
               [table |-> 3, cols |-> {"a", "b"}, fks |-> {k35}]}

Store(c, f, b, e, j) == [cols |-> c, fks |-> f, blocked |-> b, bound |-> e, joins |-> j]
full == [t \in Tables |-> {"a", "b"}]
MCStores == {
    \* everything indexed and curated, columns of two tables blocked
    Store(full, MCKeys, {<<2, "b">>, <<4, "a">>}, [e1 |-> 1, e2 |-> 2], {billing}),
    \* two joins between the entities, both ends of the composite key blocked
    Store(full, {k12, k42}, {<<4, "a">>, <<2, "a">>, <<1, "a">>}, [e1 |-> 2, e2 |-> 1], MCJoins),
    \* one table only, nothing tagged or curated
    Store([t \in Tables |-> IF t = 1 THEN {"a", "b"} ELSE {}], {k12}, {},
          [e1 |-> Absent, e2 |-> Absent], {})}

MCCalls ==
    [tool : {"describe_table"}, table : {2, 3, 4}, args : {"ok"}]
    \cup [tool : {"describe_table"}, table : {1}, args : {"extra", "invalid", "malformed"}]
    \cup [tool : {"describe_column"}, table : {1, 2, 4}, column : {"a", "c"}, args : {"ok"}]
    \cup [tool : {"describe_column"}, table : {2}, column : {"b"}, args : {"quoted"}]
    \cup [tool : {"describe_table"}, table : {4}, args : {"quoted"}]
    \cup [tool : {"suggest_joins"}, tables : {<<1, 5>>}, args : {"quoted"}]
    \cup [tool : {"describe_entity", "get_metric"}, entity : Entities, args : {"ok"}]
    \cup [tool : {"find_relevant_tables", "find_relevant_entities", "list"}, args : {"ok"}]
    \cup [tool : {"resolve_join"}, a : {"e1"}, b : {"e2"}, name : {Absent, "shipping"}, args : {"ok"}]
    \cup [tool : {"suggest_joins"}, tables : {<<1, 1>>, <<1, 5>>, <<4, 3, 1>>}, args : {"ok"}]
=============================================================================
