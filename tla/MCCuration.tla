----------------------------- MODULE MCCuration -----------------------------
(* One source with two tables, a foreign key between them and one within.  *)
EXTENDS Curation, TLC

CONSTANTS p1, p2, s1, t1, t2, e1, e2, m1, j1, j2

col(type, null) == [type |-> type, nullable |-> null]
MCTables == {<<s1, t1>>, <<s1, t2>>}
MCEntities == {<<s1, e1>>, <<s1, e2>>}
MCMetrics == {<<s1, m1>>}
T1 == <<s1, t1>>
T2 == <<s1, t2>>
E1 == <<s1, e1>>
E2 == <<s1, e2>>
M1 == <<s1, m1>>
J1 == <<s1, j1>>
ref == {<<"ref", "id">>}
LogKeys == {<<s1, [src |-> E1, tgt |-> E2, on |-> x]>> : x \in {{<<"id", "ref">>}, ref}}
MCJoins == {J1, <<s1, j2>>} \cup LogKeys
MCRank == [x \in MCTables \cup MCEntities \cup MCJoins \cup {s1} |->
              CASE x = T1 -> 1 [] x = T2 -> 2 [] x = E1 -> 1 [] x = E2 -> 2 [] x = J1 -> 1 [] OTHER -> 3]

Full == [c \in {"id", "ref"} |-> col("int", FALSE)]
Loose == [c \in {"id"} |-> col("int", TRUE)]
MCShapes == {Full, Loose}
MCSchemas == {[t \in MCTables |-> Full]}
MCFks == {[name |-> J1, from |-> T1, to |-> T2, on |-> ref],
          [name |-> <<s1, j2>>, from |-> T1, to |-> T1, on |-> ref]}
Stmt(ons) == [aliases |-> [a |-> T2, b |-> T1], joins |-> ons]
\* b.ref = a.id, written the other way round in the first; the second also compares a
\* column with a value and has a clause over an unknown alias.
MCStatements == {Stmt({<<<<<<"a", "ref">>, <<"b", "id">>>>>>}),
                 Stmt({<<<<<<"b", "ref">>, <<"a", "id">>>>, <<<<"b", "id">>, Bad>>>>,
                       <<<<<<"b", "id">>, <<"c", "id">>>>>>})}

ent(t, o) == [version |-> 1, binding |-> t, identity |-> "id", origin |-> o]
met(e) == [version |-> 1, entity |-> e, measure |-> [agg |-> "sum", column |-> "ref"],
           time_dimension |-> <<e, "id">>, time_grains |-> <<1, 2>>]
flag(d, w) == d @@ [description |-> w]
jn == [version |-> 1, source_entity |-> E1, target_entity |-> E2, on |-> ref]
NoFile(K) == [k \in K |-> Absent]
Tree(ents, mets, jns) == [entities |-> ents @@ NoFile(MCEntities), metrics |-> mets @@ NoFile(MCMetrics),
                          joins |-> jns @@ NoFile(MCJoins)]
FlaggedTree == Tree(E1 :> ent(T1, "manual"), M1 :> flag(met(E1), "flagged"), <<>>)
MCTrees ==
    {Tree(<<>>, <<>>, <<>>),
     Tree(E1 :> ent(T1, "manual") @@ E2 :> (ent(T2, "dbt_import") @@ [group |-> "billing"]), M1 :> met(E1), J1 :> jn),
     Tree(E1 :> ent(T1, "manual") @@ E2 :> Broken, M1 :> (met(E1) @@ [origin |-> "dbt_import"]),
          J1 :> [jn EXCEPT !.on = Bad]),
     FlaggedTree}

cand(t) == [binding |-> t, identity |-> "id", confidence |-> "high"]
MCEntityAnswers == {{[name |-> E1, doc |-> cand(T1)], [name |-> E2, doc |-> cand(T2)]},
                    {[name |-> E1, doc |-> cand(Bad)]}}
metcand(e, td) == [entity |-> e, measure |-> [agg |-> "sum", expression |-> {"id", "ref"}],
                   time_dimension |-> <<td, "id">>, time_grains |-> <<1>>, confidence |-> "low"]
MCMetricAnswers == {{[name |-> M1, doc |-> metcand(E2, E2)]},
                    {[name |-> M1, doc |-> flag(metcand(E1, E1), "flagged")]}}

model(e, t, cols) == [type |-> "model", key |-> e, table |-> t, valid |-> TRUE, columns |-> cols]
test(n, e, c) == [type |-> "test", test |-> n, node |-> e, column |-> c, to |-> None, field |-> None]
Project ==
    [version |-> 11, complete |-> TRUE,
     nodes |-> {model(E1, T1, [id |-> {"primary_key"}, ref |-> {"unique", "not_null"}]),
                model(E2, T2, [id |-> {}]), test("unique", E2, "id"), test("not_null", E2, "id"),
                [test("relationships", E1, "ref") EXCEPT !.to = E2, !.field = "id"]},
     metrics |-> {[key |-> M1, type |-> "simple", measure |-> "total", description |-> "flagged"]},
     semantic_models |-> <<[measures |-> [total |-> [agg |-> "sum", expr |-> "ref"]], primary |-> E1,
                            dims |-> <<[name |-> "id", grains |-> {2, 1}]>>]>>]
MCManifests == {Project, [Project EXCEPT !.version = 10], Broken}
MCRelName == <<E1, "ref">> :> J1
MCSymmetry == Permutations(Procs)

\* The store as an earlier `apply` of the flagged metric and its entity left it.
Applied ==
    /\ live \in Schemas /\ tables = live
    /\ tree = FlaggedTree
    /\ entities = [EmptyRows(Entities) EXCEPT ![E1] = parse_entity_yaml(tree.entities[E1])]
    /\ metrics = [EmptyRows(Metrics) EXCEPT ![M1] = parse_metric_yaml(tree.metrics[M1])]
    /\ joins = EmptyRows(Joins) /\ nodes = {E1} /\ edges = EmptyRows(Joins) /\ log = NoLog
    /\ job = [p \in Procs |-> Idle] /\ last = Rc("none", 0)
    /\ commands = 0 /\ ddl = 0 /\ deaths = 0

MCSpec == (Init \/ Applied) /\ [][Next]_vars
=============================================================================
