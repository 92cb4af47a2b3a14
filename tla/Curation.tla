------------------------------ MODULE Curation ------------------------------
(***************************************************************************)
(* The semantic layer: entities, metrics and canonical joins in the local  *)
(* store, the project tree of YAML files, and the commands that move       *)
(* definitions between them: apply, suggest, import dbt, metrics audit,    *)
(* export, diff, check and mine-queries.  A command is a job of a process; *)
(* every store call commits on its own, so jobs of two processes           *)
(* interleave between any two calls and can die between them.              *)
(*                                                                         *)
(* A file is a document of SemanticYaml, filed under the name it defines.  *)
(* A job's items are written in any order: which name comes first is up to *)
(* the file names, the candidates' ranking or the manifest.                *)
(***************************************************************************)
EXTENDS JoinSuggester, DbtImport

CONSTANTS
    Procs, Tables, Entities, Metrics, Joins,  \* processes; <<source, name>> keys
    Cols,                   \* names of columns
    Shapes,                 \* shapes a table of the user's database takes
    Schemas,                \* the user's database when it is first indexed
    EntityAnswers, MetricAnswers,         \* what the language model may answer
    Trees,                  \* project trees the operator may have on disk
    Manifests,              \* dbt manifests
    Fks, Statements,        \* declared foreign keys; statements of pg_stat_statements
    MaxCommands, MaxDdl, MaxDeaths, MaxCalls   \* bounds

Src(k) == k[1]

\* The rows of the store, and the ends of an edge.
EntityRows == [table : Tables, identity : Cols, origin : Origins, group : Groups]
Measures == [agg : Aggregations, column : Cols] \cup [agg : Aggregations, expression : SUBSET Cols]
MetricRows == [entity : Entities, measure : Measures, time : {None} \cup (Entities \X Cols),
               grains : Seq(Grains), origin : Origins, description : {"", "flagged"}]
JoinRows == [src : Entities, tgt : Entities, on : SUBSET (Cols \X Cols), origin : Origins,
             card : Cardinalities \cup {None}]
Ends == [src : Entities, tgt : Entities]

\* The marks Absent, Bad and None are not values of the program; keys of different kinds
\* differ; a column's shape is its type and nullability; a foreign key has columns and
\* joins tables of one database, and so does what a statement joins.
ASSUME CurationAssumption ==
    /\ {MaxCommands, MaxDdl, MaxDeaths, MaxCalls} \subseteq Nat
    /\ Absent \notin Shapes \cup EntityRows \cup MetricRows \cup JoinRows \cup Ends
    /\ Bad \notin Tables \cup Entities \cup Cols
    /\ \A on \in SUBSET (Cols \X Cols) : on # Bad
    /\ None \notin [nodes : SUBSET Entities, edges : UNION {[S -> Ends] : S \in SUBSET Joins}]
    /\ Entities \cap Metrics = {} /\ Entities \cap Joins = {} /\ Metrics \cap Joins = {}
    /\ Schemas \subseteq [Tables -> Shapes]
    /\ \A s \in Shapes : \A c \in DOMAIN s : s[c] = [type |-> s[c].type, nullable |-> s[c].nullable]
    /\ \A e \in Entities : Rank[e] \in Nat
    /\ \A f \in Fks : /\ {f.from, f.to} \subseteq Tables /\ Rank[f.name] \in Nat
                      /\ Src(f.from) = Src(f.name) /\ Src(f.to) = Src(f.name)
                      /\ f.on \in (SUBSET (Cols \X Cols)) \ {{}}
    /\ \A st \in Statements : \A q \in extract_join_predicates(st) :
           Src(q.a) = Src(q.b) /\ q.on \in (SUBSET (Cols \X Cols)) \ {{}}

VARIABLES
    live, tables,             \* shapes in the user's database and in the index
    entities, metrics, joins, \* rows of the store
    nodes, edges,             \* the graph projection
    log,                      \* example_queries: <<table, statement>> -> count, 0 for no row
    tree,                     \* the project tree on disk
    job,                      \* the command each process is running
    last,                     \* the last command to finish, or a change from outside
    commands, ddl, deaths     \* counters behind the bounds

layer == <<entities, metrics, joins>>
graph == <<nodes, edges>>
store == <<tables, layer, graph, log>>
bounds == <<commands, ddl, deaths>>
vars == <<live, store, tree, job, last, bounds>>

Idle == [cmd |-> "idle"]
Rc(c, n) == [cmd |-> c, rc |-> n]
Running(p) == job[p].cmd # "idle"

\* A job: what is left to write, the item whose guard has passed and (ghost) the row that
\* guard saw, what a refresh has read, and what the exit code will need.
Job(c, s, items) ==
    [cmd |-> c, src |-> s, todo |-> items, wrote |-> FALSE, failed |-> FALSE,
     passed |-> {}, saw |-> None, snap |-> None, graphed |-> FALSE, next |-> <<>>,
     alone |-> TRUE, manifest |-> None, rc |-> 0]

EmptyRows(K) == [k \in K |-> Absent]
NoLog == [r \in Tables \X Statements |-> 0]

Init ==
    /\ live \in Schemas /\ tables = live
    /\ entities = EmptyRows(Entities) /\ metrics = EmptyRows(Metrics)
    /\ joins = EmptyRows(Joins)
    /\ nodes = {} /\ edges = EmptyRows(Joins)
    /\ log = NoLog
    /\ tree \in Trees
    /\ job = [p \in Procs |-> Idle] /\ last = Rc("none", 0)
    /\ commands = 0 /\ ddl = 0 /\ deaths = 0

-----------------------------------------------------------------------------
(* Rows and their foreign keys *)

\* Fault: a suggested or manual metric replaces a dbt-owned one.
metric_write_refused_never(k, row) == FALSE

\* The ownership guards.  write_canonical_join has none.
entity_write_refused(k, row) ==
    entities[k] # Absent /\ entities[k].origin = "dbt_import" /\ row.origin # "dbt_import"
metric_write_refused(k, row) ==
    metrics[k] # Absent /\ metrics[k].origin = "dbt_import" /\ row.origin # "dbt_import"

\* The UPSERT of a metric leaves the anchor of an existing row as it is.
upsert_metric(k, row) ==
    IF metrics[k] = Absent THEN row ELSE [row EXCEPT !.entity = metrics[k].entity]

\* SQLite's foreign keys at an INSERT or UPDATE.
ForeignKeyHolds(i) ==
    CASE i.kind = "entity" -> tables[i.row.table] # Absent
      [] i.kind = "metric" -> entities[upsert_metric(i.key, i.row).entity] # Absent
      [] i.kind = "join" -> entities[i.row.src] # Absent /\ entities[i.row.tgt] # Absent
      [] OTHER -> TRUE

delete_metric_refused(k) == metrics[k] # Absent /\ metrics[k].origin = "dbt_import"

OwnerRefuses(i) ==
    \/ i.kind = "entity" /\ entity_write_refused(i.key, i.row)
    \/ i.kind = "metric" /\ metric_write_refused(i.key, i.row)
    \/ i.kind = "drop" /\ delete_metric_refused(i.key)

\* What the guard reads matters to a delete and to a write that is not dbt's own.
Guarded(i) == i.kind = "drop" \/ (i.kind \in {"entity", "metric"} /\ i.row.origin # "dbt_import")
RowOf(i) == IF i.kind = "entity" THEN entities[i.key] ELSE metrics[i.key]

\* ON DELETE CASCADE, from a set of entities that disappear: joins, metrics, nodes and
\* edges follow.
CascadeEntities(gone) ==
    LET deadJoins == {k \in Present(joins) : joins[k].src \in gone \/ joins[k].tgt \in gone}
    IN  /\ entities' = [k \in Entities |-> IF k \in gone THEN Absent ELSE entities[k]]
        /\ metrics' = [k \in Metrics |->
               IF metrics[k] # Absent /\ metrics[k].entity \in gone THEN Absent ELSE metrics[k]]
        /\ joins' = [k \in Joins |-> IF k \in deadJoins THEN Absent ELSE joins[k]]
        /\ nodes' = nodes \ gone
        /\ edges' = [k \in Joins |->
               IF \/ k \in deadJoins
                  \/ edges[k] # Absent /\ (edges[k].src \in gone \/ edges[k].tgt \in gone)
               THEN Absent ELSE edges[k]]

\* The other processes' jobs lose the claim that nothing came in between.
Interfere(p) == [q \in Procs |->
    IF q # p /\ Running(q) THEN [job[q] EXCEPT !.alone = FALSE] ELSE job[q]]

-----------------------------------------------------------------------------
(* The user's database and `index` *)

Ddl(t) ==
    /\ ddl < MaxDdl /\ ddl' = ddl + 1
    /\ \E s \in Shapes \cup {Absent} : s # live[t] /\ live' = [live EXCEPT ![t] = s]
    /\ job' = [q \in Procs |-> IF Running(q) THEN [job[q] EXCEPT !.alone = FALSE] ELSE job[q]]
    /\ last' = Rc("ddl", 0)
    /\ UNCHANGED <<store, tree, commands, deaths>>

\* `index` brings one table up to date (Indexer has the run in detail): a changed or
\* vanished table is deleted first, and everything bound to it goes along.
IndexTable(t) ==
    /\ live[t] # tables[t]
    /\ tables' = [tables EXCEPT ![t] = live[t]]
    /\ CascadeEntities({k \in Present(entities) : entities[k].table = t})
    /\ log' = [r \in DOMAIN log |-> IF r[1] = t THEN 0 ELSE log[r]]
    /\ job' = [q \in Procs |-> IF Running(q) THEN [job[q] EXCEPT !.alone = FALSE] ELSE job[q]]
    /\ last' = Rc("index", 0)
    /\ UNCHANGED <<live, tree, bounds>>

\* A statement is filed under each indexed table it touches ...
mine_queries(seen, s) ==
    {r \in DOMAIN log : /\ r[2] \in seen /\ r[1] \in {r[2].aliases[x] : x \in DOMAIN r[2].aliases}
                        /\ tables[r[1]] # Absent /\ Src(r[1]) = s}

\* ... with the larger of the old and the new count, one batch, all rows or none.
write_example_queries(rows, calls) ==
    [r \in DOMAIN log |-> IF r \in rows /\ log[r] < calls THEN calls ELSE log[r]]

MineQueries(s) ==
    /\ commands < MaxCommands /\ commands' = commands + 1
    /\ \E calls \in 1..MaxCalls : \E seen \in SUBSET Statements :
          log' = write_example_queries(mine_queries(seen, s), calls)
    /\ last' = Rc("mine", 0)
    /\ UNCHANGED <<live, tables, layer, graph, tree, job, ddl, deaths>>

-----------------------------------------------------------------------------
(* Starting a command: what it reads before its first write *)

CanStart(p) == ~Running(p) /\ commands < MaxCommands

Start(p, j) ==
    /\ CanStart(p) /\ commands' = commands + 1
    /\ job' = [job EXCEPT ![p] = j]
    /\ UNCHANGED <<live, store, tree, last, ddl, deaths>>

\* A command that ends without touching the store.
Report(p, r) ==
    /\ CanStart(p) /\ commands' = commands + 1
    /\ last' = r
    /\ UNCHANGED <<live, store, job, ddl, deaths>>

Item(kind, k, row) == [kind |-> kind, key |-> k, row |-> row]
Files(kind, s) == {k \in Present(tree[kind]) : Src(k) = s}

Parse(kind, doc) == CASE kind = "entities" -> parse_entity_yaml(doc)
                      [] kind = "metrics" -> parse_metric_yaml(doc)
                      [] OTHER -> parse_canonical_join_yaml(doc)
Parsed(kind, s) == {k \in Files(kind, s) : Parse(kind, tree[kind][k]) # Refused}

\* The rows that may be filed under k: a name in a file or a proposal carries no source,
\* so that it is one of the row's own.
Typed(kind, k) ==
    CASE kind = "entities" -> {r \in EntityRows : Src(r.table) = Src(k)}
      [] kind = "metrics" -> {r \in MetricRows : Src(r.entity) = Src(k)}
      [] OTHER -> {r \in JoinRows : Src(r.src) = Src(k) /\ Src(r.tgt) = Src(k)}

\* What the operator's files and the language model's proposals parse to are rows, and
\* None is not written into a document.
ASSUME DocumentsAssumption ==
    /\ \A tr \in Trees :
           /\ DOMAIN tr = {"entities", "metrics", "joins"}
           /\ DOMAIN tr.entities = Entities /\ DOMAIN tr.metrics = Metrics /\ DOMAIN tr.joins = Joins
           /\ \A kind \in DOMAIN tr : \A k \in Present(tr[kind]) :
                  Parse(kind, tr[kind][k]) \in {Refused} \cup Typed(kind, k)
           /\ \A k \in Present(tr.metrics) : Field(tr.metrics[k], "time_dimension", Bad) # None
    /\ \A a \in EntityAnswers : entity_parse_suggestions(a) # Refused =>
           \A x \in entity_parse_suggestions(a) :
               x.key \in Entities /\ x.row \in Typed("entities", x.key)
    /\ \A a \in MetricAnswers : metric_parse_suggestions(a) # Refused =>
           /\ \A x \in metric_parse_suggestions(a) :
                  x.key \in Metrics /\ x.row \in Typed("metrics", x.key)
           /\ \A c \in a : Field(c.doc, "time_dimension", Bad) # None

\* entities apply keeps the file's origin, dbt_import included; metrics apply and joins
\* apply make it manual.  A file that does not parse is an error of the run and the
\* others are still written.
apply_files(cmd, kind, s) ==
    LET row(k) == Parse(kind, tree[kind][k])
        one == [k \in Parsed(kind, s) |->
                   IF kind = "entities" THEN row(k) ELSE [row(k) EXCEPT !.origin = "manual"]]
        item == CASE kind = "entities" -> "entity" [] kind = "metrics" -> "metric" [] OTHER -> "join"
    IN  [Job(cmd, s, {Item(item, k, one[k]) : k \in DOMAIN one})
         EXCEPT !.failed = Files(kind, s) # Parsed(kind, s)]

entities_apply(s) == apply_files("entities_apply", "entities", s)
metrics_apply(s) == apply_files("metrics_apply", "metrics", s)
joins_apply(s) == apply_files("joins_apply", "joins", s)

EntitiesApply(p, s) == Files("entities", s) # {} /\ Start(p, entities_apply(s))
MetricsApply(p, s) == Files("metrics", s) # {} /\ Start(p, metrics_apply(s))
JoinsApply(p, s) == Files("joins", s) # {} /\ Start(p, joins_apply(s))

\* `apply DIR`: the three in the order of their references, each read when its turn
\* comes; the exit code is the worst of the three.
ApplyProject(p, s) ==
    Start(p, [entities_apply(s) EXCEPT !.next = <<"metrics", "joins">>])

\* A missing URL or key, a store that cannot be opened, --dry-run, nothing to propose
\* from: an exit code and no write.
NothingDone(p) == \E rc \in 0..2 : Report(p, Rc("nothing", rc)) /\ UNCHANGED tree

\* The cost guard refuses the call to the language model, or the call or its answer
\* fails: nothing is proposed.
CostCeilingExceeded(p) == Report(p, Rc("nothing", 1)) /\ UNCHANGED tree

\* The candidates of an answer that parses: at most top_k, names distinct.
entity_candidates(answer) ==
    LET c == entity_parse_suggestions(answer) IN IF c = Refused THEN {} ELSE (SUBSET c) \ {{}}
metric_candidates(answer) ==
    LET c == metric_parse_suggestions(answer) IN IF c = Refused THEN {} ELSE (SUBSET c) \ {{}}

\* suggest --out-dir for entities and metrics: all files or, if one of them is there
\* already, none.
out_dir(p, kind, files) ==
    IF \E k \in DOMAIN files : tree[kind][k] # Absent
    THEN Report(p, Rc("suggest", 1)) /\ UNCHANGED tree
    ELSE /\ Report(p, Rc("suggest", 0))
         /\ tree' = [tree EXCEPT ![kind] = [k \in DOMAIN @ |->
                IF k \in DOMAIN files THEN files[k] ELSE @[k]]]

entities_to_out_dir(p, s) ==
    \E a \in EntityAnswers : \E c \in entity_candidates(a) :
        /\ \A x, y \in c : Src(x.key) = s /\ (x.key = y.key => x = y)
        /\ out_dir(p, "entities", [k \in {x.key : x \in c} |->
                       entity_to_yaml((CHOOSE x \in c : x.key = k).row)])

metrics_to_out_dir(p, s) ==
    \E a \in MetricAnswers : \E c \in metric_candidates(a) :
        /\ \E k \in Present(entities) : Src(k) = s
        /\ \A x, y \in c : Src(x.key) = s /\ (x.key = y.key => x = y)
        /\ out_dir(p, "metrics", [k \in {x.key : x \in c} |->
                       metric_to_yaml((CHOOSE x \in c : x.key = k).row)])

\* suggest --apply: every table of the source goes into the prompt.
EntitiesSuggest(p, s) ==
    /\ \E t \in Present(tables) : Src(t) = s
    /\ \E a \in EntityAnswers : \E c \in entity_candidates(a) :
          /\ \A x, y \in c : Src(x.key) = s /\ (x.key = y.key => x = y)
          /\ Start(p, Job("entities_suggest", s, {Item("entity", x.key, x.row) : x \in c}))

MetricsSuggest(p, s) ==
    /\ \E k \in Present(entities) : Src(k) = s
    /\ \E a \in MetricAnswers : \E c \in metric_candidates(a) :
          /\ \A x, y \in c : Src(x.key) = s /\ (x.key = y.key => x = y)
          /\ Start(p, Job("metrics_suggest", s, {Item("metric", x.key, x.row) : x \in c}))

\* joins suggest --apply: the candidates of the store as it is.  joins suggest --out-dir
\* overwrites what is there.
IndexedFks == {f \in Fks : /\ tables[f.from] # Absent
                           /\ \A on \in f.on : on[1] \in DOMAIN tables[f.from]}
JoinsOf(s) == {c \in suggest_canonical_joins(entities, IndexedFks, log) : Src(c.src) = s}

to_canonical_join(c) == [src |-> c.src, tgt |-> c.tgt, on |-> c.on, origin |-> "suggested",
                         card |-> c.cardinality]

JoinsSuggest(p, s) ==
    /\ JoinsOf(s) # {}
    /\ Start(p, Job("joins_suggest", s,
                    {Item("join", c.name, to_canonical_join(c)) : c \in JoinsOf(s)}))

joins_to_out_dir(p, s) ==
    /\ JoinsOf(s) # {}
    /\ Report(p, Rc("suggest", 0))
    /\ tree' = [tree EXCEPT !.joins = [k \in Joins |->
           IF \E c \in JoinsOf(s) : c.name = k
           THEN canonical_join_to_yaml(to_canonical_join(CHOOSE c \in JoinsOf(s) : c.name = k))
           ELSE tree.joins[k]]]

-----------------------------------------------------------------------------
(* import dbt *)

\* A manifest is of one source: its models, metrics and measures name tables, columns
\* and models of that source.
ASSUME ManifestsAssumption ==
    \A raw \in Manifests : manifest_accepted(raw) =>
        LET models == {n \in raw.nodes : n.type = "model"}
            sem == raw.semantic_models
        IN  /\ \A n \in models : /\ n.key \in Entities /\ n.table \in Tables
                                  /\ Src(n.table) = Src(n.key) /\ DOMAIN n.columns \subseteq Cols
            /\ \A r \in aggregate_relationships(raw.nodes) :
                   /\ {r.from_column, r.to_column} \subseteq Cols
                   /\ r.from \in {n.key : n \in models} =>
                         /\ RelName[<<r.from, r.from_column>>] \in Joins
                         /\ Src(RelName[<<r.from, r.from_column>>]) = Src(r.from)
            /\ \A m \in raw.metrics : m.key \in Metrics /\ m.description \in {"", "flagged"}
            /\ Len(sem) \in Nat /\ DOMAIN sem = 1..Len(sem)
            /\ \A i \in DOMAIN sem :
                   /\ Len(sem[i].dims) \in Nat /\ DOMAIN sem[i].dims = 1..Len(sem[i].dims)
                   /\ \A x \in DOMAIN sem[i].measures :
                          /\ sem[i].measures[x].agg \in Aggregations \cup {Bad}
                          /\ sem[i].measures[x].expr \in Cols \cup {Bad}
                   /\ sem[i].primary \in Entities \cup {None}
                   /\ \A m \in raw.metrics : sem[i].primary # None => Src(m.key) = Src(sem[i].primary)
                   /\ \A d \in DOMAIN sem[i].dims : /\ sem[i].dims[d].name \in Cols \cup {Bad}
                                                   /\ sem[i].dims[d].grains \subseteq Grains

\* The metrics the import will write, after the entities and joins; a manifest too old
\* for them makes the command fail, with the rest written.
apply_dbt_metrics(raw, planned) ==
    {Item("metric", m.key, m.row) :
        m \in IF parse_dbt_metrics(raw, planned) = Refused THEN {} ELSE parse_dbt_metrics(raw, planned)}

\* The plan's entities and joins, in the order of Ready.
apply_dbt_import_plan(plan, planned) ==
    {Item("entity", k, plan.rows[k]) : k \in planned} \cup {Item("join", j.key, j.row) : j \in plan.joins}

ImportDbt(p, s) ==
    /\ \E t \in Present(tables) : Src(t) = s
    /\ \E raw \in Manifests, withMetrics \in BOOLEAN :
          LET man == parse_dbt_manifest(raw)
              plan == plan_dbt_import(man, entities, live)
              planned == plan.to_add \cup plan.to_update \cup plan.to_take_ownership
          IN  IF man = Refused THEN Report(p, Rc("nothing", 1)) /\ UNCHANGED tree
              ELSE /\ \A k \in Models(man) : Src(k) = s
                   /\ Start(p, [Job("import", s, apply_dbt_import_plan(plan, planned)
                                     \cup IF withMetrics THEN apply_dbt_metrics(raw, planned) ELSE {})
                                EXCEPT !.manifest = man,
                                       !.failed = withMetrics /\ parse_dbt_metrics(raw, planned) = Refused])

-----------------------------------------------------------------------------
(* metrics audit, export, diff, check *)

Sources == {Src(k) : k \in Tables}

\* Without a source the finding is filed under the first source that has a metric of
\* that name, whichever metric was flagged.
finding_source(k, scope) ==
    IF scope # None THEN scope
    ELSE LET have == {s \in Sources : <<s, k[2]>> \in Present(metrics)}
         IN  CHOOSE s \in have : \A t \in have : Rank[s] <= Rank[t]

find_anti_pattern_metrics(scope) ==
    {k \in Present(metrics) : metrics[k].description = "flagged" /\ (scope = None \/ Src(k) = scope)}

MetricsAudit(p) ==
    \E scope \in Sources \cup {None}, fix \in BOOLEAN :
        LET found == find_anti_pattern_metrics(scope)
        IN  IF found = {} \/ ~fix
            THEN Report(p, Rc("audit", IF found = {} THEN 0 ELSE 1)) /\ UNCHANGED tree
            ELSE Start(p, Job("audit_fix", scope,
                   {Item("drop", <<finding_source(k, scope), k[2]>>, None) :
                       k \in {f \in found : metrics[f].origin # "dbt_import"}}))

\* init --emit-yaml-dir: export-all of entities, metrics and joins, one store read each.
EmitYamlProjection(p, s) ==
    Start(p, [Job("export", s, {}) EXCEPT !.next = <<"entities", "metrics", "joins">>])

Rows(kind) == CASE kind = "entities" -> entities [] kind = "metrics" -> metrics
                [] OTHER -> joins

ToYaml(kind, row) == CASE kind = "entities" -> entity_to_yaml(row)
                       [] kind = "metrics" -> metric_to_yaml(row)
                       [] OTHER -> canonical_join_to_yaml(row)

RowsOf(kind, s) == {k \in Present(Rows(kind)) : Src(k) = s}

\* export NAME: one definition to one file, which is overwritten.  Without a source, a
\* name that several sources have is refused.
export_one(p, kind, k) ==
    \E scope \in {Src(k), None} :
        IF scope = None /\ \E q \in Present(Rows(kind)) : q # k /\ q[2] = k[2]
        THEN Report(p, Rc("nothing", 2)) /\ UNCHANGED tree
        ELSE IF Rows(kind)[k] = Absent THEN Report(p, Rc("nothing", 1)) /\ UNCHANGED tree
        ELSE /\ Report(p, Rc("suggest", 0))
             /\ tree' = [tree EXCEPT ![kind][k] = ToYaml(kind, Rows(kind)[k])]

EntitiesExport(p) == \E k \in Entities : export_one(p, "entities", k)
MetricsExport(p) == \E k \in Metrics : export_one(p, "metrics", k)
JoinsExport(p) == \E k \in Joins : export_one(p, "joins", k)

\* _diff_resource_dir: a file that does not parse, a name on one side only, two bodies
\* that differ.
diff_resource_dir(kind, s) ==
    LET disk == Parsed(kind, s)
    IN  Cardinality(Files(kind, s) \ disk)
        + Cardinality(disk \ RowsOf(kind, s)) + Cardinality(RowsOf(kind, s) \ disk)
        + Cardinality({k \in disk \cap RowsOf(kind, s) : Parse(kind, tree[kind][k]) # Rows(kind)[k]})

diff_project(s) ==
    diff_resource_dir("entities", s) + diff_resource_dir("metrics", s)
    + diff_resource_dir("joins", s)

DiffProject(p, s) ==
    Report(p, Rc("diff", IF diff_project(s) = 0 THEN 0 ELSE 1)) /\ UNCHANGED tree

\* The rows of one source, as check_drift lists them.
Only(rows, s) == [k \in DOMAIN rows |-> IF Src(k) = s THEN rows[k] ELSE Absent]

checked(s) == check_drift(Only(entities, s), Only(metrics, s), Only(joins, s), live, tables)

Check(p, s) ==
    /\ Report(p, Rc("check", IF checked(s).crash THEN 2 ELSE IF checked(s).drifts # {} THEN 1 ELSE 0))
    /\ UNCHANGED tree

-----------------------------------------------------------------------------
(* Steps of a running command *)

KindRank(kind) == CASE kind = "entity" -> 0 [] kind = "join" -> 1 [] OTHER -> 2
Ready(j) == {i \in j.todo : \A x \in j.todo : KindRank(i.kind) <= KindRank(x.kind)}

StopsAtFailure(c) == c \in {"entities_suggest", "metrics_suggest"}

\* The exit: what is reported, and the process free again.
Exit(p, n) ==
    /\ last' = [job[p] EXCEPT !.todo = {}, !.passed = {}, !.saw = None, !.rc = n]
    /\ job' = [job EXCEPT ![p] = Idle]

\* An item is through, whatever came of it.
Drops(j, i) == [j EXCEPT !.todo = @ \ {i}, !.passed = {}, !.saw = None]

\* A store call raises.  A failed dbt metric is printed and does not count; a refused
\* delete leaves the command by its traceback.
StoreCallFails(p, i) ==
    IF i.kind = "drop" THEN Exit(p, 2)
    ELSE IF StopsAtFailure(job[p].cmd) THEN Exit(p, 1)
    ELSE /\ job' = [job EXCEPT ![p] =
                [Drops(job[p], i) EXCEPT !.failed = @ \/ ~(job[p].cmd = "import" /\ i.kind = "metric")]]
         /\ UNCHANGED last

\* The guard of a store call is a SELECT ahead of the transaction that the write begins:
\* other processes may commit between the two.  A delete of nothing ends here.
CheckOwner(p) ==
    /\ job[p].passed = {}
    /\ \E i \in Ready(job[p]) :
          /\ Guarded(i)
          /\ \/ OwnerRefuses(i) /\ StoreCallFails(p, i)
             \/ /\ ~OwnerRefuses(i)
                /\ job' = [job EXCEPT ![p] =
                       IF i.kind = "drop" /\ metrics[i.key] = Absent THEN Drops(@, i)
                       ELSE [@ EXCEPT !.passed = {i}, !.saw = RowOf(i)]]
                /\ UNCHANGED last
    /\ UNCHANGED <<live, store, tree, bounds>>

\* What may be written now: the item whose guard has passed, or one without a guard.
Writable(j) == {i \in Ready(j) : IF Guarded(i) THEN i \in j.passed ELSE j.passed = {}}

\* The write fails on a foreign key.
WriteRefused(p) ==
    /\ \E i \in Writable(job[p]) : ~ForeignKeyHolds(i) /\ StoreCallFails(p, i)
    /\ UNCHANGED <<live, store, tree, bounds>>

\* One store call that commits, over whatever row is there by now.
WriteOne(p) ==
    \E i \in Writable(job[p]) :
        /\ i.kind # "drop" /\ ForeignKeyHolds(i)
        /\ entities' = IF i.kind = "entity" THEN [entities EXCEPT ![i.key] = i.row] ELSE entities
        /\ metrics' = IF i.kind = "metric"
                      THEN [metrics EXCEPT ![i.key] = upsert_metric(i.key, i.row)] ELSE metrics
        /\ joins' = IF i.kind = "join" THEN [joins EXCEPT ![i.key] = i.row] ELSE joins
        /\ job' = [Interfere(p) EXCEPT ![p] = [Drops(@, i) EXCEPT !.wrote = TRUE]]
        /\ UNCHANGED <<live, tables, graph, log, tree, last, bounds>>

\* delete_metric's DELETE.
DropOne(p) ==
    \E i \in Writable(job[p]) :
        /\ i.kind = "drop"
        /\ metrics' = [metrics EXCEPT ![i.key] = Absent]
        /\ job' = [Interfere(p) EXCEPT ![p] = Drops(@, i)]
        /\ UNCHANGED <<live, tables, entities, joins, graph, log, tree, last, bounds>>

\* Fault: the projection is refreshed only after a run without failures.
NeedsGraphIfClean(j) == j.cmd \in {"entities_apply", "joins_apply"} /\ j.wrote /\ ~j.failed

\* entities apply and joins apply end with a refresh when something was written.
NeedsGraph(j) == j.cmd \in {"entities_apply", "joins_apply"} /\ j.wrote

\* rebuild_graph_projection: the reads ...
RefreshRead(p) ==
    /\ job[p].todo = {} /\ NeedsGraph(job[p])
    /\ ~job[p].graphed /\ job[p].snap = None
    /\ LET s == job[p].src IN
       job' = [job EXCEPT ![p].snap =
           [nodes |-> RowsOf("entities", s),
            edges |-> [k \in RowsOf("joins", s) |-> [src |-> joins[k].src, tgt |-> joins[k].tgt]]]]
    /\ UNCHANGED <<live, store, tree, last, bounds>>

\* ... and write_graph_projection: one transaction that replaces the source's rows, or
\* fails on a row that has gone since.
RefreshWrite(p) ==
    /\ job[p].snap # None
    /\ LET s == job[p].src
           g == job[p].snap
           fk == /\ g.nodes \subseteq Present(entities)
                 /\ \A k \in DOMAIN g.edges :
                       /\ joins[k] # Absent
                       /\ {g.edges[k].src, g.edges[k].tgt} \subseteq Present(entities)
       IN  IF fk
           THEN /\ nodes' = {k \in nodes : Src(k) # s} \cup g.nodes
                /\ edges' = [k \in Joins |-> IF Src(k) # s THEN edges[k]
                                ELSE IF k \in DOMAIN g.edges THEN g.edges[k] ELSE Absent]
                /\ job' = [Interfere(p) EXCEPT ![p].graphed = TRUE, ![p].snap = None]
                /\ UNCHANGED last
           ELSE Exit(p, 2) /\ UNCHANGED graph
    /\ UNCHANGED <<live, tables, layer, log, tree, bounds>>

\* export-all of one kind: refuses when any target file exists.
ExportOne(p) ==
    /\ job[p].cmd = "export" /\ job[p].next # <<>>
    /\ LET kind == Head(job[p].next)
           s == job[p].src
       IN  IF \E k \in RowsOf(kind, s) : tree[kind][k] # Absent
           THEN Exit(p, 2) /\ UNCHANGED tree
           ELSE /\ tree' = [tree EXCEPT ![kind] = [k \in DOMAIN @ |->
                       IF k \in RowsOf(kind, s) THEN ToYaml(kind, Rows(kind)[k]) ELSE @[k]]]
                /\ job' = [job EXCEPT ![p].next = Tail(@)]
                /\ UNCHANGED last
    /\ UNCHANGED <<live, store, bounds>>

\* The next part of `apply DIR`, which reads its files now.
NextPart(p) ==
    /\ job[p].cmd # "export" /\ job[p].next # <<>> /\ job[p].todo = {}
    /\ NeedsGraph(job[p]) => job[p].graphed
    /\ LET s == job[p].src
           j == IF Head(job[p].next) = "metrics" THEN metrics_apply(s) ELSE joins_apply(s)
       IN  job' = [job EXCEPT ![p] = [j EXCEPT !.next = Tail(job[p].next),
                                               !.failed = @ \/ job[p].failed,
                                               !.alone = job[p].alone]]
    /\ UNCHANGED <<live, store, tree, last, bounds>>

Done(p) ==
    /\ job[p].todo = {} /\ job[p].next = <<>>
    /\ NeedsGraph(job[p]) => job[p].graphed
    /\ Exit(p, IF job[p].failed THEN 1 ELSE 0)
    /\ UNCHANGED <<live, store, tree, bounds>>

\* The process is killed, or a store call raises what its loop does not handle.
Die(p) ==
    /\ deaths < MaxDeaths /\ deaths' = deaths + 1
    /\ Exit(p, 2)
    /\ UNCHANGED <<live, store, tree, commands, ddl>>

Command(p, s) ==
    /\ CanStart(p)
    /\ \/ EntitiesApply(p, s) \/ MetricsApply(p, s) \/ JoinsApply(p, s) \/ ApplyProject(p, s)
       \/ EntitiesSuggest(p, s) \/ MetricsSuggest(p, s) \/ JoinsSuggest(p, s)
       \/ entities_to_out_dir(p, s) \/ metrics_to_out_dir(p, s) \/ joins_to_out_dir(p, s)
       \/ ImportDbt(p, s) \/ EmitYamlProjection(p, s) \/ DiffProject(p, s) \/ Check(p, s)

StoreCommand(p) ==
    /\ CanStart(p)
    /\ \/ NothingDone(p) \/ CostCeilingExceeded(p) \/ MetricsAudit(p)
       \/ EntitiesExport(p) \/ MetricsExport(p) \/ JoinsExport(p)

Step(p) ==
    /\ Running(p)
    /\ \/ CheckOwner(p) \/ WriteRefused(p) \/ WriteOne(p) \/ DropOne(p)
       \/ RefreshRead(p) \/ RefreshWrite(p) \/ ExportOne(p) \/ NextPart(p) \/ Done(p) \/ Die(p)

Next ==
    \/ \E t \in Tables : Ddl(t) \/ IndexTable(t)
    \/ \E s \in Sources : MineQueries(s)
    \/ \E p \in Procs : (\E s \in Sources : Command(p, s)) \/ StoreCommand(p) \/ Step(p)

Spec == Init /\ [][Next]_vars

-----------------------------------------------------------------------------
(* Properties *)

\* The store's rows have their types, and every reference between tables of the store
\* resolves, whatever `index` deleted in between: an entity's table, a metric's anchor,
\* a join's endpoints, a node's entity, an edge's join and endpoints.
TypeOK ==
    /\ tables \in [Tables -> Shapes \cup {Absent}] /\ live \in [Tables -> Shapes \cup {Absent}]
    /\ log \in [Tables \X Statements -> 0..MaxCalls]
    /\ DOMAIN entities = Entities /\ DOMAIN metrics = Metrics /\ DOMAIN joins = Joins
    /\ \A k \in Present(entities) : tables[entities[k].table] # Absent
    /\ \A k \in Present(metrics) : metrics[k].entity \in Present(entities)
    /\ \A k \in Present(joins) : {joins[k].src, joins[k].tgt} \subseteq Present(entities)
    /\ nodes \subseteq Present(entities)
    /\ \A k \in Present(edges) : /\ k \in Present(joins)
                                 /\ {edges[k].src, edges[k].tgt} \subseteq Present(entities)

Quiet == \A p \in Procs : ~Running(p)
EndedAlone(c) == Quiet /\ last.cmd \in c /\ last.rc = 0 /\ last.alone

\* A write or delete of k, past its guard, takes away a row that the guard never read:
\* another process stored it in between.
Overtaken(k, row) ==
    \E p \in Procs : /\ Running(p) /\ job[p].saw # row
                     /\ \E i \in job[p].passed : i.key = k /\ i \notin job'[p].todo

\* What dbt owns stays dbt's: no apply, suggestion or audit of any process, in whatever
\* order their calls land, takes an entity or a metric over or removes it, unless the
\* call was overtaken between its guard and its write.  Otherwise an entity goes only
\* with its table and a metric only with the entity it is anchored on.
DbtRowsStayDbt ==
    [][/\ \A k \in Present(entities) :
             entities[k].origin = "dbt_import" =>
                 \/ entities'[k] # Absent /\ entities'[k].origin = "dbt_import"
                 \/ tables'[entities[k].table] # tables[entities[k].table]
                 \/ Overtaken(k, entities[k])
       /\ \A k \in Present(metrics) :
             metrics[k].origin = "dbt_import" =>
                 \/ metrics'[k] # Absent /\ metrics'[k].origin = "dbt_import"
                 \/ entities'[metrics[k].entity] = Absent
                 \/ Overtaken(k, metrics[k])]_vars

\* entities apply and joins apply that wrote something leave the graph projection equal
\* to the layer they finished on, partial failures of single files included, when no
\* other process wrote meanwhile.
ApplyLeavesGraphCurrent ==
    Quiet /\ last.cmd \in {"entities_apply", "joins_apply"} /\ last.rc < 2
          /\ last.alone /\ last.wrote =>
        /\ {k \in nodes : Src(k) = last.src} = RowsOf("entities", last.src)
        /\ {k \in Present(edges) : Src(k) = last.src} = RowsOf("joins", last.src)
        /\ \A k \in RowsOf("joins", last.src) :
              edges[k].src = joins[k].src /\ edges[k].tgt = joins[k].tgt

\* What a definition needs of the live schema, stated without the engine's order: the
\* columns it names exist, with the shape they had when the table was indexed.
ColumnHolds(t, c) == /\ live[t] # Absent /\ c \in DOMAIN live[t]
                     /\ tables[t] # Absent /\ c \in DOMAIN tables[t] => tables[t][c] = live[t][c]
EntityHolds(e) == ColumnHolds(e.table, e.identity)
MetricHolds(m) == \A c \in measure_columns(m.measure) \cup (IF m.time = None THEN {} ELSE {m.time[2]}) :
                      ColumnHolds(entities[m.entity].table, c)
JoinHolds(j) == \A on \in j.on : /\ ColumnHolds(entities[j.src].table, on[1])
                                 /\ ColumnHolds(entities[j.tgt].table, on[2])

\* check is exact: unless it crashes it calls a source clean exactly when every
\* definition holds, it calls healthy only what holds, and a definition it says nothing
\* about hangs on an entity it reports.
CheckIsExact ==
    \A s \in Sources : ~checked(s).crash =>
        LET told == {d[1] : d \in checked(s).drifts}
            healthy == checked(s).healthy
        IN  /\ healthy \cap told = {}
            /\ \A k \in RowsOf("entities", s) : (k \in healthy) = EntityHolds(entities[k])
            /\ \A k \in RowsOf("metrics", s) :
                  /\ k \in healthy => MetricHolds(metrics[k])
                  /\ k \notin healthy \cup told => metrics[k].entity \in told
                  /\ k \in told => ~MetricHolds(metrics[k])
            /\ \A k \in RowsOf("joins", s) :
                  /\ k \in healthy => JoinHolds(joins[k])
                  /\ k \notin healthy \cup told => {joins[k].src, joins[k].tgt} \cap told # {}
                  /\ k \in told => ~JoinHolds(joins[k])

\* An import that reports success and was not disturbed has landed: every model whose
\* strongest declared key is a single column the database agrees with is stored as
\* dbt's, and so is every relationship between two models that are in the store, unless
\* another one makes the same join name.
CleanImportLands ==
    EndedAlone({"import"}) =>
        LET man == last.manifest
            With(cols, kind, cs) == {c \in DOMAIN cols : cs \subseteq cols[c][kind]}
            Key(m) == LET pk == With(m.columns, "constraints", {"primary_key"})
                          un == With(m.columns, "constraints", {"unique", "not_null"})
                      IN  IF pk # {} THEN pk ELSE IF un # {} THEN un
                          ELSE With(m.columns, "tests", {"unique", "not_null"})
        IN  /\ \A k \in Models(man) : \A c \in Key(man.models[k]) :
                  /\ Key(man.models[k]) = {c} /\ man.models[k].valid
                  /\ verify_against_live_schema(man.models[k], c, live)
                  => /\ entities[k].table = man.models[k].table
                     /\ entities[k].identity = c /\ entities[k].origin = "dbt_import"
            /\ \A r \in man.rels :
                  /\ {r.from, r.to} \subseteq Present(entities) \cap Models(man) /\ r.from # r.to
                  /\ \A q \in man.rels : {q.from, q.to} \subseteq Models(man) /\ q.from # q.to /\ r # q
                        => RelName[<<r.from, r.from_column>>] # RelName[<<q.from, q.from_column>>]
                  => LET j == RelName[<<r.from, r.from_column>>]
                     IN  joins[j] # Absent /\ joins[j].src = r.from /\ joins[j].tgt = r.to

\* A definition that dbt does not own survives the way to a file and back: what export
\* writes for it, apply's parser reads as the same definition.
ExportedFilesParse ==
    \A kind \in {"entities", "metrics", "joins"} : \A k \in Present(Rows(kind)) :
        kind = "entities" \/ Rows(kind)[k].origin # "dbt_import" =>
            Parse(kind, ToYaml(kind, Rows(kind)[k])) = Rows(kind)[k]

=============================================================================
