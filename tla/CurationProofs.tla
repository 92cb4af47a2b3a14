--------------------------- MODULE CurationProofs ---------------------------
(***************************************************************************)
(* Proofs about Curation: the references of the store, the round trip      *)
(* through files, drift check, dbt's rows, the graph projection and the    *)
(* dbt import.                                                             *)
(***************************************************************************)
EXTENDS Curation, FiniteSetTheorems, SequenceTheorems, TLAPS

(* What may be stored under a key *)

GoodEntity(k) == {r \in EntityRows : Src(r.table) = Src(k)}

\* What Metric.__post_init__ and the grammar leave of a metric that dbt does not own.
WellFormed(r) ==
    /\ parse_measure(r.measure) /\ valid_metric(r.grains)
    /\ r.time = None => r.grains = <<>>
    /\ r.time # None => r.time # Bad /\ r.grains # Bad /\ r.grains # <<>>

GoodMetric(k) == {r \in MetricRows : /\ Src(r.entity) = Src(k)
                                     /\ r.origin = "dbt_import" \/ WellFormed(r)}

GoodJoin(k) == {r \in JoinRows : /\ Src(r.src) = Src(k) /\ Src(r.tgt) = Src(k)
                                 /\ r.src # r.tgt /\ r.on # {}}

-----------------------------------------------------------------------------
(* The inductive invariant: the store *)

\* The rows are good and what they refer to is there.
LayerInv ==
    /\ live \in [Tables -> Shapes \cup {Absent}] /\ tables \in [Tables -> Shapes \cup {Absent}]
    /\ log \in [Tables \X Statements -> 0..MaxCalls]
    /\ DOMAIN entities = Entities /\ DOMAIN metrics = Metrics /\ DOMAIN joins = Joins
    /\ \A k \in Entities : entities[k] # Absent =>
           entities[k] \in GoodEntity(k) /\ tables[entities[k].table] # Absent
    /\ \A k \in Metrics : metrics[k] # Absent =>
           metrics[k] \in GoodMetric(k) /\ entities[metrics[k].entity] # Absent
    /\ \A k \in Joins : joins[k] # Absent =>
           /\ joins[k] \in GoodJoin(k)
           /\ entities[joins[k].src] # Absent /\ entities[joins[k].tgt] # Absent

GraphInv ==
    /\ nodes \subseteq {k \in Entities : entities[k] # Absent}
    /\ DOMAIN edges = Joins
    /\ \A k \in Joins : edges[k] # Absent =>
           /\ joins[k] # Absent /\ edges[k] \in Ends
           /\ entities[edges[k].src] # Absent /\ entities[edges[k].tgt] # Absent

\* A file parses to a good row, or not at all.
TreeInv ==
    /\ DOMAIN tree = {"entities", "metrics", "joins"}
    /\ DOMAIN tree.entities = Entities /\ DOMAIN tree.metrics = Metrics /\ DOMAIN tree.joins = Joins
    /\ \A k \in Entities : tree.entities[k] # Absent =>
           parse_entity_yaml(tree.entities[k]) \in {Refused} \cup GoodEntity(k)
    /\ \A k \in Metrics : tree.metrics[k] # Absent =>
           parse_metric_yaml(tree.metrics[k]) \in {Refused} \cup GoodMetric(k)
    /\ \A k \in Joins : tree.joins[k] # Absent =>
           parse_canonical_join_yaml(tree.joins[k]) \in {Refused} \cup GoodJoin(k)

-----------------------------------------------------------------------------
(* The inductive invariant: the jobs *)

GoodItem(i) ==
    /\ i = Item(i.kind, i.key, i.row)
    /\ \/ i.kind = "entity" /\ i.key \in Entities /\ i.row \in GoodEntity(i.key)
       \/ i.kind = "metric" /\ i.key \in Metrics /\ i.row \in GoodMetric(i.key)
       \/ i.kind = "join" /\ i.row \in GoodJoin(i.key)
       \/ i.kind = "drop"

GoodItems(items) == \A i \in items : GoodItem(i)

Appliers == {"entities_apply", "joins_apply"}
Commands == Appliers \cup {"metrics_apply", "entities_suggest", "metrics_suggest",
                           "joins_suggest", "import", "audit_fix", "export"}
Projections == [nodes : SUBSET Entities, edges : UNION {[S -> Ends] : S \in SUBSET Joins}]
JobFields == {"cmd", "src", "todo", "wrote", "failed", "passed", "saw", "snap", "graphed",
              "next", "alone", "manifest", "rc"}

\* What has passed a guard is still to be done, and the guard saw no row of dbt's.
PassedGuard(j) ==
    /\ j.passed \subseteq j.todo
    /\ j.passed # {} => j.saw = Absent \/ j.saw.origin # "dbt_import"

IsJob(j) ==
    /\ DOMAIN j = JobFields /\ j.cmd \in Commands
    /\ GoodItems(j.todo) /\ PassedGuard(j)
    /\ j.wrote \in BOOLEAN /\ j.failed \in BOOLEAN /\ j.graphed \in BOOLEAN /\ j.alone \in BOOLEAN
    /\ j.snap \in {None} \cup Projections
    /\ j.next \in Seq({"entities", "metrics", "joins"})
    /\ j.cmd = "import" => \E raw \in Manifests :
           manifest_accepted(raw) /\ j.manifest = parse_dbt_manifest(raw)

JobsInv == DOMAIN job = Procs /\ \A p \in Procs : job[p] = Idle \/ IsJob(job[p])

\* The graph projection of a source equals its layer.
GraphCurrent(s) ==
    /\ {k \in nodes : Src(k) = s} = RowsOf("entities", s)
    /\ {k \in Present(edges) : Src(k) = s} = RowsOf("joins", s)
    /\ \A k \in RowsOf("joins", s) : edges[k].src = joins[k].src /\ edges[k].tgt = joins[k].tgt

\* What a refresh has read is still so.
SnapCurrent(g, s) ==
    /\ g.nodes = RowsOf("entities", s) /\ DOMAIN g.edges = RowsOf("joins", s)
    /\ \A k \in RowsOf("joins", s) : g.edges[k] = [src |-> joins[k].src, tgt |-> joins[k].tgt]

\* A refresh begins when everything is written, and while nobody interferes neither
\* what it read nor what it wrote goes stale.
Refreshing(p) ==
    /\ job[p].snap # None \/ job[p].graphed => job[p].todo = {} /\ job[p].cmd \in Appliers
    /\ job[p].snap # None /\ job[p].alone => SnapCurrent(job[p].snap, job[p].src)
    /\ job[p].graphed /\ job[p].alone => GraphCurrent(job[p].src)

RefreshInv == \A p \in Procs : Running(p) => Refreshing(p)

\* The relationships that become joins, and the ones whose join name is theirs alone.
Links(man) == {r \in man.rels : {r.from, r.to} \subseteq Models(man) /\ r.from # r.to}
LinkName(r) == RelName[<<r.from, r.from_column>>]
LinkRow(r) == [src |-> r.from, tgt |-> r.to, on |-> {<<r.from_column, r.to_column>>},
               origin |-> "dbt_import", card |-> None]
Unshared(man, r) == \A q \in Links(man) : r # q => LinkName(r) # LinkName(q)

\* Everything the manifest calls for is there or still to be written, and nothing still
\* to be written contradicts it.
Lands(man, todo) ==
    LET e == entities_to_write(man, live)
    IN  /\ \A k \in DOMAIN e : entities[k] = e[k] \/ Item("entity", k, e[k]) \in todo
        /\ \A i \in todo : i.kind = "entity" => i.key \in DOMAIN e /\ i.row = e[i.key]
        /\ \A i \in todo : i.kind = "join" =>
               \E r \in Links(man) : i.key = LinkName(r) /\ i.row = LinkRow(r)
        /\ \A r \in Links(man) :
               /\ {r.from, r.to} \subseteq Present(entities) \cup DOMAIN e
               /\ Unshared(man, r)
               => joins[LinkName(r)] = LinkRow(r) \/ Item("join", LinkName(r), LinkRow(r)) \in todo

Importing(p) ==
    job[p].cmd = "import" /\ job[p].alone /\ ~job[p].failed => Lands(job[p].manifest, job[p].todo)

ImportInv == \A p \in Procs : Running(p) => Importing(p)

\* The same of an import that was the last job to end, while nothing has happened since.
Landed ==
    Quiet /\ last.cmd = "import" /\ last.rc = 0 /\ last.alone =>
        /\ \E raw \in Manifests : manifest_accepted(raw) /\ last.manifest = parse_dbt_manifest(raw)
        /\ Lands(last.manifest, {})

-----------------------------------------------------------------------------
(* The way to a file and back *)

LEMMA EntityFields ==
    ASSUME NEW r \in EntityRows
    PROVE  /\ r.table \in Tables /\ r.identity \in Cols /\ r.origin \in Origins /\ r.group \in Groups
           /\ r = [table |-> r.table, identity |-> r.identity, origin |-> r.origin, group |-> r.group]
BY DEF EntityRows

LEMMA EntityRoundTrip ==
    ASSUME NEW r \in EntityRows
    PROVE  parse_entity_yaml(entity_to_yaml(r)) = r
<1> DEFINE doc == entity_to_yaml(r)
           F == {"version", "binding", "identity", "origin"}
                \cup (IF r.group = "other" THEN {} ELSE {"group"})
<1>1. /\ DOMAIN doc = F /\ doc["version"] = 1 /\ doc["binding"] = r.table
      /\ doc["identity"] = r.identity /\ doc["origin"] = r.origin
      /\ r.group # "other" => doc["group"] = r.group
  BY DEF entity_to_yaml
<1>2. doc # Broken
  <2>1. "version" \in DOMAIN doc
    BY <1>1
  <2>2. DOMAIN Broken = {}
    BY DEF Broken
  <2>3. QED
    BY <2>1, <2>2
<1> HIDE DEF doc
<1>3. r.table # Bad /\ r.identity # Bad
  BY EntityFields, CurationAssumption
<1>4. Field(doc, "origin", "manual") = r.origin /\ Field(doc, "group", "other") = r.group
  BY <1>1 DEF Field
<1>5. check_keys(doc, {"version", "binding", "identity"}, {"description", "origin", "group"})
  BY <1>1 DEF check_keys
<1>6. parse_entity_yaml(doc) =
         [table |-> r.table, identity |-> r.identity, origin |-> r.origin, group |-> r.group]
  BY <1>1, <1>2, <1>3, <1>4, <1>5, EntityFields DEF parse_entity_yaml
<1>7. QED
  BY <1>6, EntityFields DEF doc

LEMMA MetricFields ==
    ASSUME NEW r \in MetricRows
    PROVE  /\ r.entity \in Entities /\ r.measure \in Measures /\ r.grains \in Seq(Grains)
           /\ r.time \in {None} \cup (Entities \X Cols)
           /\ r.origin \in Origins /\ r.description \in {"", "flagged"}
           /\ r = [entity |-> r.entity, measure |-> r.measure, time |-> r.time,
                   grains |-> r.grains, origin |-> r.origin, description |-> r.description]
BY DEF MetricRows

LEMMA MetricRoundTrip ==
    ASSUME NEW r \in MetricRows
    PROVE  /\ r.origin # "dbt_import" /\ WellFormed(r) => parse_metric_yaml(metric_to_yaml(r)) = r
           /\ r.origin = "dbt_import" => parse_metric_yaml(metric_to_yaml(r)) = Refused
<1> DEFINE doc == metric_to_yaml(r)
           F == {"version", "entity", "measure", "origin"}
                \cup (IF r.time = None THEN {} ELSE {"time_dimension", "time_grains"})
                \cup (IF r.description = "" THEN {} ELSE {"description"})
<1>1. /\ DOMAIN doc = F /\ doc["version"] = 1 /\ doc["entity"] = r.entity
      /\ doc["measure"] = r.measure /\ doc["origin"] = r.origin
      /\ r.time # None => doc["time_dimension"] = r.time /\ doc["time_grains"] = r.grains
      /\ r.description # "" => doc["description"] = r.description
  BY DEF metric_to_yaml
<1> HIDE DEF doc
<1>2. doc # Broken
  <2>1. "version" \in DOMAIN doc
    <3>1. "version" \in F
      OBVIOUS
    <3>2. QED
      BY <1>1, <3>1
  <2>2. DOMAIN Broken = {}
    BY DEF Broken
  <2>3. QED
    BY <2>1, <2>2
<1>3. r.entity # Bad
  <2>1. r.entity \in Entities
    BY MetricFields
  <2>2. Bad \notin Entities
    BY CurationAssumption
  <2>3. QED
    BY <2>1, <2>2
<1>4. /\ Field(doc, "origin", "manual") = r.origin
      /\ Field(doc, "description", "") = r.description
      /\ Field(doc, "time_dimension", None) = r.time
  BY <1>1 DEF Field
<1>5. r.origin = "dbt_import" => parse_metric_yaml(doc) = Refused
  BY <1>2, <1>4 DEF parse_metric_yaml
<1>6. ASSUME r.origin # "dbt_import", WellFormed(r) PROVE parse_metric_yaml(doc) = r
  <2>1. Field(doc, "time_grains", <<>>) = r.grains
    BY <1>1, <1>6 DEF Field, WellFormed
  <2>2. check_keys(doc, {"version", "entity", "measure"}, metric_optional)
    BY <1>1 DEF check_keys, metric_optional
  <2>3. parse_time(doc)
    <3>1. ("time_dimension" \in DOMAIN doc) <=> r.time # None
      BY <1>1
    <3>2. ("time_grains" \in DOMAIN doc) <=> r.time # None
      BY <1>1
    <3>3. ("time_dimension" \in DOMAIN doc) = ("time_grains" \in DOMAIN doc)
      BY <3>1, <3>2
    <3>4. r.time # None => doc["time_dimension"] # Bad /\ doc["time_grains"] # Bad /\ doc["time_grains"] # <<>>
      BY <1>1, <1>6 DEF WellFormed
    <3>5. QED
      BY <3>1, <3>3, <3>4 DEF parse_time
  <2>4. parse_measure(doc.measure) /\ valid_metric(Field(doc, "time_grains", <<>>))
    BY <1>1, <1>6, <2>1 DEF WellFormed
  <2>5. r.origin \in Origins \ {"dbt_import"}
    BY <1>6, MetricFields
  <2>6. parse_metric_yaml(doc) = MetricOf(doc, r.origin)
    BY <1>1, <1>2, <1>3, <1>4, <2>2, <2>3, <2>4, <2>5 DEF parse_metric_yaml
  <2>7. MetricOf(doc, r.origin) =
           [entity |-> r.entity, measure |-> r.measure, time |-> r.time,
            grains |-> r.grains, origin |-> r.origin, description |-> r.description]
    BY <1>1, <1>4, <2>1 DEF MetricOf
  <2>8. QED
    BY <2>6, <2>7, MetricFields
<1>7. QED
  BY <1>5, <1>6 DEF doc

LEMMA JoinFields ==
    ASSUME NEW r \in JoinRows
    PROVE  /\ r.src \in Entities /\ r.tgt \in Entities /\ r.on \in SUBSET (Cols \X Cols)
           /\ r.origin \in Origins /\ r.card \in Cardinalities \cup {None}
           /\ r = [src |-> r.src, tgt |-> r.tgt, on |-> r.on, origin |-> r.origin, card |-> r.card]
BY DEF JoinRows

LEMMA JoinRoundTrip ==
    ASSUME NEW r \in JoinRows, r.src # r.tgt, r.on # {}
    PROVE  /\ r.origin # "dbt_import" => parse_canonical_join_yaml(canonical_join_to_yaml(r)) = r
           /\ r.origin = "dbt_import" => parse_canonical_join_yaml(canonical_join_to_yaml(r)) = Refused
<1> DEFINE doc == canonical_join_to_yaml(r)
           F == {"version", "source_entity", "target_entity", "on", "origin"}
                \cup (IF r.card = None THEN {} ELSE {"cardinality"})
<1>1. /\ DOMAIN doc = F /\ doc["version"] = 1 /\ doc["source_entity"] = r.src
      /\ doc["target_entity"] = r.tgt /\ doc["on"] = r.on /\ doc["origin"] = r.origin
      /\ r.card # None => doc["cardinality"] = r.card
  BY DEF canonical_join_to_yaml
<1>2. doc # Broken
  <2>1. "version" \in DOMAIN doc
    BY <1>1
  <2>2. DOMAIN Broken = {}
    BY DEF Broken
  <2>3. QED
    BY <2>1, <2>2
<1> HIDE DEF doc
<1>3. r.src # Bad /\ r.tgt # Bad /\ r.on # Bad
  BY JoinFields, CurationAssumption
<1>4. Field(doc, "origin", "manual") = r.origin /\ Field(doc, "cardinality", None) = r.card
  BY <1>1 DEF Field
<1>5. check_keys(doc, {"version", "source_entity", "target_entity", "on"},
                 {"description", "origin", "cardinality"})
  BY <1>1 DEF check_keys
<1>6. r.origin = "dbt_import" => parse_canonical_join_yaml(doc) = Refused
  BY <1>2, <1>4 DEF parse_canonical_join_yaml
<1>7. ASSUME r.origin # "dbt_import" PROVE parse_canonical_join_yaml(doc) = r
  <2>1. r.origin \in Origins \ {"dbt_import"} /\ r.card \in Cardinalities \cup {None}
    BY <1>7, JoinFields
  <2>2. parse_canonical_join_yaml(doc) =
           [src |-> r.src, tgt |-> r.tgt, on |-> r.on, origin |-> r.origin, card |-> r.card]
    BY <1>1, <1>2, <1>3, <1>4, <1>5, <2>1 DEF parse_canonical_join_yaml, valid_join
  <2>3. QED
    BY <2>2, JoinFields
<1>8. QED
  BY <1>6, <1>7 DEF doc


LEMMA ExportsParse ==
    ASSUME LayerInv
    PROVE  ExportedFilesParse
<1>1. ASSUME NEW k \in Entities, entities[k] # Absent
      PROVE  parse_entity_yaml(entity_to_yaml(entities[k])) = entities[k]
  <2>1. entities[k] \in EntityRows
    BY <1>1 DEF LayerInv, GoodEntity
  <2>2. QED
    BY <2>1, EntityRoundTrip
<1>2. ASSUME NEW k \in Metrics, metrics[k] # Absent, metrics[k].origin # "dbt_import"
      PROVE  parse_metric_yaml(metric_to_yaml(metrics[k])) = metrics[k]
  <2>1. metrics[k] \in MetricRows /\ WellFormed(metrics[k])
    BY <1>2 DEF LayerInv, GoodMetric
  <2>2. QED
    BY <1>2, <2>1, MetricRoundTrip
<1>3. ASSUME NEW k \in Joins, joins[k] # Absent, joins[k].origin # "dbt_import"
      PROVE  parse_canonical_join_yaml(canonical_join_to_yaml(joins[k])) = joins[k]
  <2>1. joins[k] \in JoinRows /\ joins[k].src # joins[k].tgt /\ joins[k].on # {}
    BY <1>3 DEF LayerInv, GoodJoin
  <2>2. QED
    BY <1>3, <2>1, JoinRoundTrip
<1>4. DOMAIN entities = Entities /\ DOMAIN metrics = Metrics /\ DOMAIN joins = Joins
  BY DEF LayerInv
<1>5. SUFFICES ASSUME NEW kind \in {"entities", "metrics", "joins"}, NEW k \in Present(Rows(kind)),
                      kind = "entities" \/ Rows(kind)[k].origin # "dbt_import"
               PROVE  Parse(kind, ToYaml(kind, Rows(kind)[k])) = Rows(kind)[k]
  BY DEF ExportedFilesParse
<1>6. CASE kind = "entities"
  <2>1. Rows(kind) = entities
    BY <1>6 DEF Rows
  <2>2. k \in Entities /\ entities[k] # Absent
    BY <1>4, <2>1 DEF Present
  <2>3. Parse(kind, ToYaml(kind, Rows(kind)[k])) = parse_entity_yaml(entity_to_yaml(entities[k]))
    BY <1>6, <2>1 DEF Parse, ToYaml
  <2>4. QED
    BY <1>1, <2>1, <2>2, <2>3
<1>7. CASE kind = "metrics"
  <2>1. Rows(kind) = metrics
    BY <1>7 DEF Rows
  <2>2. k \in Metrics /\ metrics[k] # Absent /\ metrics[k].origin # "dbt_import"
    BY <1>4, <1>5, <1>7, <2>1 DEF Present
  <2>3. Parse(kind, ToYaml(kind, Rows(kind)[k])) = parse_metric_yaml(metric_to_yaml(metrics[k]))
    BY <1>7, <2>1 DEF Parse, ToYaml
  <2>4. QED
    BY <1>2, <2>1, <2>2, <2>3
<1>8. CASE kind = "joins"
  <2>1. Rows(kind) = joins
    BY <1>8 DEF Rows
  <2>2. k \in Joins /\ joins[k] # Absent /\ joins[k].origin # "dbt_import"
    BY <1>4, <1>5, <1>8, <2>1 DEF Present
  <2>3. Parse(kind, ToYaml(kind, Rows(kind)[k])) = parse_canonical_join_yaml(canonical_join_to_yaml(joins[k]))
    BY <1>8, <2>1 DEF Parse, ToYaml
  <2>4. QED
    BY <1>3, <2>1, <2>2, <2>3
<1>9. QED
  BY <1>6, <1>7, <1>8

-----------------------------------------------------------------------------
(* Drift check *)

\* A column that is there is reported exactly when its shape differs from the index.
LEMMA ColumnFacts ==
    ASSUME LayerInv, NEW t \in Tables, NEW c, live[t] # Absent, c \in DOMAIN live[t]
    PROVE  column_shape_drifts(tables[t], live[t], c) = {} <=> ColumnHolds(t, c)
<1>1. CASE tables[t] = Absent \/ c \notin DOMAIN tables[t]
  BY <1>1 DEF column_shape_drifts, ColumnHolds
<1>2. CASE tables[t] # Absent /\ c \in DOMAIN tables[t]
  <2>1. live[t] \in Shapes /\ tables[t] \in Shapes
    BY <1>2 DEF LayerInv
  <2>2. /\ live[t][c] = [type |-> live[t][c].type, nullable |-> live[t][c].nullable]
        /\ tables[t][c] = [type |-> tables[t][c].type, nullable |-> tables[t][c].nullable]
    BY <1>2, <2>1, CurationAssumption
  <2>3. tables[t][c] = live[t][c] <=>
           tables[t][c].type = live[t][c].type /\ tables[t][c].nullable = live[t][c].nullable
    BY <2>2
  <2>4. column_shape_drifts(tables[t], live[t], c) = {} <=>
           tables[t][c].type = live[t][c].type /\ tables[t][c].nullable = live[t][c].nullable
    BY <1>2 DEF column_shape_drifts
  <2>5. QED
    BY <1>2, <2>3, <2>4 DEF ColumnHolds
<1>3. QED
  BY <1>1, <1>2

LEMMA EntityDrift ==
    ASSUME LayerInv, NEW k \in Entities, entities[k] # Absent
    PROVE  /\ entity_drifts(entities[k], live, tables) = {} <=> EntityHolds(entities[k])
           /\ entity_drifts(entities[k], live, tables)
                  \cap {"table_missing", "identity_column_missing"} = {}
              <=> /\ live[entities[k].table] # Absent
                  /\ entities[k].identity \in DOMAIN live[entities[k].table]
<1> DEFINE t == entities[k].table
           c == entities[k].identity
<1>1. t \in Tables
  BY EntityFields DEF LayerInv, GoodEntity
<1> HIDE DEF t, c
<1>2. CASE live[t] = Absent
  BY <1>2 DEF entity_drifts, EntityHolds, ColumnHolds, t, c
<1>3. CASE live[t] # Absent /\ c \notin DOMAIN live[t]
  BY <1>3 DEF entity_drifts, EntityHolds, ColumnHolds, t, c
<1>4. CASE live[t] # Absent /\ c \in DOMAIN live[t]
  <2>1. column_shape_drifts(tables[t], live[t], c) = {} <=> ColumnHolds(t, c)
    BY <1>1, <1>4, ColumnFacts
  <2>2. entity_drifts(entities[k], live, tables) = column_shape_drifts(tables[t], live[t], c)
    BY <1>4 DEF entity_drifts, t, c
  <2>3. column_shape_drifts(tables[t], live[t], c)
            \cap {"table_missing", "identity_column_missing"} = {}
    BY DEF column_shape_drifts
  <2>4. QED
    BY <1>4, <2>1, <2>2, <2>3 DEF EntityHolds, t, c
<1>5. QED
  BY <1>2, <1>3, <1>4

\* The report lists what drifted and what was looked at without a drift.
Told(rep) == {d[1] : d \in rep.drifts}
Drifting(ents, mets, jns, lv, base, k) ==
    \/ k \in Present(ents) /\ entity_drifts(ents[k], lv, base) # {}
    \/ /\ k \in reached_metrics(ents, mets, lv, base)
       /\ metric_drifts(mets[k], ents, lv, base) # {}
    \/ /\ k \in reached_joins(ents, jns, lv, base)
       /\ join_drifts(jns[k], ents, lv, base) # {}
Healthy(ents, mets, jns, lv, base, k) ==
    \/ k \in Present(ents) /\ entity_drifts(ents[k], lv, base) = {}
    \/ /\ k \in reached_metrics(ents, mets, lv, base)
       /\ metric_drifts(mets[k], ents, lv, base) = {}
    \/ /\ k \in reached_joins(ents, jns, lv, base)
       /\ join_drifts(jns[k], ents, lv, base) = {}

LEMMA ReportFacts ==
    ASSUME NEW ents, NEW mets, NEW jns, NEW lv, NEW base, NEW k
    PROVE  /\ k \in Told(check_drift(ents, mets, jns, lv, base))
                 <=> Drifting(ents, mets, jns, lv, base, k)
           /\ k \in check_drift(ents, mets, jns, lv, base).healthy
                 <=> Healthy(ents, mets, jns, lv, base, k)
<1> DEFINE rep == check_drift(ents, mets, jns, lv, base)
<1> DEFINE ms == reached_metrics(ents, mets, lv, base)
           js == reached_joins(ents, jns, lv, base)
           es == Present(ents)
           ed == [x \in es |-> entity_drifts(ents[x], lv, base)]
           md == [x \in ms |-> metric_drifts(mets[x], ents, lv, base)]
           jd == [x \in js |-> join_drifts(jns[x], ents, lv, base)]
<1>1. /\ rep.drifts = (UNION {{x} \X ed[x] : x \in DOMAIN ed})
                      \cup (UNION {{x} \X md[x] : x \in ms})
                      \cup (UNION {{x} \X jd[x] : x \in js})
      /\ rep.healthy = {x \in DOMAIN ed : ed[x] = {}} \cup {x \in ms : md[x] = {}}
                       \cup {x \in js : jd[x] = {}}
  BY DEF check_drift
<1>2. DOMAIN ed = es
  OBVIOUS
<1>3. /\ \A x \in es : ed[x] = entity_drifts(ents[x], lv, base)
      /\ \A x \in ms : md[x] = metric_drifts(mets[x], ents, lv, base)
      /\ \A x \in js : jd[x] = join_drifts(jns[x], ents, lv, base)
  OBVIOUS
<1> HIDE DEF rep, ed, md, jd, ms, js, es
<1>4. k \in {d[1] : d \in rep.drifts} <=>
          \/ k \in es /\ ed[k] # {}
          \/ k \in ms /\ md[k] # {}
          \/ k \in js /\ jd[k] # {}
  <2>1. ASSUME NEW S, NEW f PROVE k \in {d[1] : d \in UNION {{x} \X f[x] : x \in S}} <=> k \in S /\ f[k] # {}
    <3>1. ASSUME k \in S, f[k] # {} PROVE k \in {d[1] : d \in UNION {{x} \X f[x] : x \in S}}
      <4>1. PICK y \in f[k] : TRUE
        BY <3>1
      <4>2. <<k, y>> \in UNION {{x} \X f[x] : x \in S}
        BY <3>1, <4>1
      <4>3. <<k, y>>[1] = k
        OBVIOUS
      <4>4. QED
        BY <4>2, <4>3
    <3>2. ASSUME k \in {d[1] : d \in UNION {{x} \X f[x] : x \in S}} PROVE k \in S /\ f[k] # {}
      <4>1. PICK d \in UNION {{x} \X f[x] : x \in S} : k = d[1]
        BY <3>2
      <4>2. PICK x \in S : d \in {x} \X f[x]
        BY <4>1
      <4>3. QED
        BY <4>1, <4>2
    <3>3. QED
      BY <3>1, <3>2
  <2>2. k \in {d[1] : d \in rep.drifts} <=>
           \/ k \in {d[1] : d \in UNION {{x} \X ed[x] : x \in es}}
           \/ k \in {d[1] : d \in UNION {{x} \X md[x] : x \in ms}}
           \/ k \in {d[1] : d \in UNION {{x} \X jd[x] : x \in js}}
    <3> DEFINE A == UNION {{x} \X ed[x] : x \in es}
               B == UNION {{x} \X md[x] : x \in ms}
               C == UNION {{x} \X jd[x] : x \in js}
    <3>1. rep.drifts = A \cup B \cup C
      BY <1>1, <1>2
    <3> HIDE DEF A, B, C
    <3>2. k \in {d[1] : d \in rep.drifts} <=>
            \/ k \in {d[1] : d \in A} \/ k \in {d[1] : d \in B} \/ k \in {d[1] : d \in C}
      BY <3>1
    <3>3. QED
      BY <3>2 DEF A, B, C
  <2>3. QED
    BY <2>1, <2>2
<1>5. k \in rep.healthy <=> \/ k \in es /\ ed[k] = {}
                            \/ k \in ms /\ md[k] = {}
                            \/ k \in js /\ jd[k] = {}
  BY <1>1, <1>2
<1>6. k \in Told(rep) <=> Drifting(ents, mets, jns, lv, base, k)
  BY <1>3, <1>4 DEF ms, js, es, Told, Drifting
<1>7. k \in rep.healthy <=> Healthy(ents, mets, jns, lv, base, k)
  BY <1>3, <1>5 DEF ms, js, es, Healthy
<1>8. QED
  BY <1>6, <1>7 DEF rep


LEMMA MetricDrift ==
    ASSUME LayerInv, NEW m, NEW e \in Entities, entities[e] # Absent, m.entity = e,
           live[entities[e].table] # Absent
    PROVE  metric_drifts(m, entities, live, tables) = {} <=> MetricHolds(m)
<1> DEFINE t == entities[e].table
           cols == measure_columns(m.measure)
           td == m.time[2]
<1>1. t \in Tables /\ live[t] # Absent
  BY EntityFields DEF LayerInv, GoodEntity
<1> HIDE DEF t, cols, td
<1>2. /\ metric_drifts(m, entities, live, tables) =
            IF ~(cols \subseteq DOMAIN live[t]) THEN {"measure_column_missing"}
            ELSE (UNION {column_shape_drifts(tables[t], live[t], c) : c \in cols})
                 \cup (IF m.time = None THEN {}
                       ELSE IF td \notin DOMAIN live[t] THEN {"time_dimension_column_missing"}
                       ELSE column_shape_drifts(tables[t], live[t], td))
      /\ MetricHolds(m) <=>
            \A c \in cols \cup (IF m.time = None THEN {} ELSE {td}) : ColumnHolds(t, c)
  BY DEF metric_drifts, MetricHolds, t, cols, td
<1>3. \A c : ColumnHolds(t, c) => c \in DOMAIN live[t]
  BY DEF ColumnHolds
<1>4. \A c \in DOMAIN live[t] : column_shape_drifts(tables[t], live[t], c) = {} <=> ColumnHolds(t, c)
  BY <1>1, ColumnFacts
<1>5. CASE ~(cols \subseteq DOMAIN live[t])
  BY <1>2, <1>3, <1>5
<1>6. CASE cols \subseteq DOMAIN live[t]
  <2>1. UNION {column_shape_drifts(tables[t], live[t], c) : c \in cols} = {}
           <=> \A c \in cols : ColumnHolds(t, c)
    BY <1>4, <1>6
  <2>2. CASE m.time = None
    BY <1>2, <1>6, <2>1, <2>2
  <2>3. CASE m.time # None /\ td \notin DOMAIN live[t]
    BY <1>2, <1>3, <1>6, <2>3
  <2>4. CASE m.time # None /\ td \in DOMAIN live[t]
    BY <1>2, <1>4, <1>6, <2>1, <2>4
  <2>5. QED
    BY <2>2, <2>3, <2>4
<1>7. QED
  BY <1>5, <1>6

LEMMA JoinDrift ==
    ASSUME LayerInv, NEW j, NEW a \in Entities, NEW b \in Entities, j.src = a, j.tgt = b,
           entities[a] # Absent, entities[b] # Absent,
           live[entities[a].table] # Absent, live[entities[b].table] # Absent
    PROVE  join_drifts(j, entities, live, tables) = {} <=> JoinHolds(j)
<1> DEFINE s == entities[a].table
           t == entities[b].table
<1>1. s \in Tables /\ t \in Tables /\ live[s] # Absent /\ live[t] # Absent
  BY EntityFields DEF LayerInv, GoodEntity
<1> HIDE DEF s, t
<1>2. /\ join_drifts(j, entities, live, tables) =
            IF \E on \in j.on : on[1] \notin DOMAIN live[s] \/ on[2] \notin DOMAIN live[t]
            THEN {"join_column_missing"}
            ELSE UNION {column_shape_drifts(tables[s], live[s], on[1])
                        \cup column_shape_drifts(tables[t], live[t], on[2]) : on \in j.on}
      /\ JoinHolds(j) <=> \A on \in j.on : ColumnHolds(s, on[1]) /\ ColumnHolds(t, on[2])
  BY DEF join_drifts, JoinHolds, s, t
<1>3. /\ \A c : ColumnHolds(t, c) => c \in DOMAIN live[t]
      /\ \A c : ColumnHolds(s, c) => c \in DOMAIN live[s]
  BY DEF ColumnHolds
<1>4. /\ \A c \in DOMAIN live[t] : column_shape_drifts(tables[t], live[t], c) = {} <=> ColumnHolds(t, c)
      /\ \A c \in DOMAIN live[s] : column_shape_drifts(tables[s], live[s], c) = {} <=> ColumnHolds(s, c)
  BY <1>1, ColumnFacts
<1>5. CASE \E on \in j.on : on[1] \notin DOMAIN live[s] \/ on[2] \notin DOMAIN live[t]
  BY <1>2, <1>3, <1>5
<1>6. CASE \A on \in j.on : on[1] \in DOMAIN live[s] /\ on[2] \in DOMAIN live[t]
  <2> DEFINE D(on) == column_shape_drifts(tables[s], live[s], on[1])
                      \cup column_shape_drifts(tables[t], live[t], on[2])
  <2>1. \A on \in j.on : D(on) = {} <=> ColumnHolds(s, on[1]) /\ ColumnHolds(t, on[2])
    BY <1>4, <1>6
  <2>2. join_drifts(j, entities, live, tables) = UNION {D(on) : on \in j.on}
    BY <1>2, <1>6
  <2> HIDE DEF D
  <2>3. UNION {D(on) : on \in j.on} = {} <=> \A on \in j.on : D(on) = {}
    OBVIOUS
  <2>4. QED
    BY <1>2, <2>1, <2>2, <2>3
<1>7. QED
  BY <1>5, <1>6

LEMMA ChecksAreExact ==
    ASSUME LayerInv
    PROVE  CheckIsExact
<1>1. SUFFICES ASSUME NEW s \in Sources
               PROVE  LET told == {d[1] : d \in checked(s).drifts}
                          healthy == checked(s).healthy
                      IN  /\ healthy \cap told = {}
                          /\ \A k \in RowsOf("entities", s) : (k \in healthy) = EntityHolds(entities[k])
                          /\ \A k \in RowsOf("metrics", s) :
                                /\ k \in healthy => MetricHolds(metrics[k])
                                /\ k \notin healthy \cup told => metrics[k].entity \in told
                                /\ k \in told => ~MetricHolds(metrics[k])
                          /\ \A k \in RowsOf("joins", s) :
                                /\ k \in healthy => JoinHolds(joins[k])
                                /\ k \notin healthy \cup told => {joins[k].src, joins[k].tgt} \cap told # {}
                                /\ k \in told => ~JoinHolds(joins[k])
  BY DEF CheckIsExact
<1> DEFINE E == Only(entities, s)
           M == Only(metrics, s)
           J == Only(joins, s)
           rep == checked(s)
           told == {d[1] : d \in rep.drifts}
           healthy == rep.healthy
           bad == drifted_entity_names(E, live, tables)
           ms == reached_metrics(E, M, live, tables)
           js == reached_joins(E, J, live, tables)
<1>2. /\ RowsOf("entities", s) = {k \in Entities : entities[k] # Absent /\ Src(k) = s}
      /\ RowsOf("metrics", s) = {k \in Metrics : metrics[k] # Absent /\ Src(k) = s}
      /\ RowsOf("joins", s) = {k \in Joins : joins[k] # Absent /\ Src(k) = s}
  BY DEF RowsOf, Rows, Present, LayerInv
<1>3. /\ Present(E) = RowsOf("entities", s) /\ Present(M) = RowsOf("metrics", s)
      /\ Present(J) = RowsOf("joins", s)
  BY <1>2 DEF Present, Only, LayerInv
<1>4. /\ \A k \in RowsOf("entities", s) : E[k] = entities[k]
      /\ \A k \in RowsOf("metrics", s) : M[k] = metrics[k]
      /\ \A k \in RowsOf("joins", s) : J[k] = joins[k]
  BY <1>2 DEF Only, LayerInv
<1>5. rep = check_drift(E, M, J, live, tables)
  BY DEF checked
<1>6. \A k : /\ k \in told <=>
                   \/ k \in RowsOf("entities", s) /\ entity_drifts(E[k], live, tables) # {}
                   \/ k \in ms /\ metric_drifts(M[k], E, live, tables) # {}
                   \/ k \in js /\ join_drifts(J[k], E, live, tables) # {}
             /\ k \in healthy <=>
                   \/ k \in RowsOf("entities", s) /\ entity_drifts(E[k], live, tables) = {}
                   \/ k \in ms /\ metric_drifts(M[k], E, live, tables) = {}
                   \/ k \in js /\ join_drifts(J[k], E, live, tables) = {}
  <2> HIDE DEF E, M, J, rep
  <2>1. TAKE k
  <2>2. /\ k \in {d[1] : d \in rep.drifts} <=>
              \/ k \in Present(E) /\ entity_drifts(E[k], live, tables) # {}
              \/ k \in ms /\ metric_drifts(M[k], E, live, tables) # {}
              \/ k \in js /\ join_drifts(J[k], E, live, tables) # {}
        /\ k \in rep.healthy <=>
              \/ k \in Present(E) /\ entity_drifts(E[k], live, tables) = {}
              \/ k \in ms /\ metric_drifts(M[k], E, live, tables) = {}
              \/ k \in js /\ join_drifts(J[k], E, live, tables) = {}
    <3>1. /\ k \in Told(rep) <=> Drifting(E, M, J, live, tables, k)
          /\ k \in rep.healthy <=> Healthy(E, M, J, live, tables, k)
      BY <1>5, ReportFacts
    <3>2. QED
      BY <3>1 DEF Told, Drifting, Healthy
  <2>3. Present(E) = RowsOf("entities", s)
    BY <1>3
  <2> HIDE DEF ms, js
  <2>4. QED
    BY <2>2, <2>3
<1>7. \A k \in bad : k \in RowsOf("entities", s) /\ entity_drifts(entities[k], live, tables) # {}
  BY <1>3, <1>4 DEF drifted_entity_names
<1>8. \A k \in RowsOf("entities", s) : k \notin bad =>
          /\ live[entities[k].table] # Absent
          /\ entities[k].identity \in DOMAIN live[entities[k].table]
  <2>1. SUFFICES ASSUME NEW k \in RowsOf("entities", s), k \notin bad
                 PROVE  entity_drifts(entities[k], live, tables)
                            \cap {"table_missing", "identity_column_missing"} = {}
    BY <1>2, EntityDrift
  <2>2. QED
    BY <1>3, <1>4, <2>1 DEF drifted_entity_names
<1>9. ms = {k \in RowsOf("metrics", s) : metrics[k].entity \notin bad}
  <2>1. ms = {k \in Present(M) : M[k].entity \notin bad}
    BY DEF reached_metrics
  <2>2. QED
    BY <1>3, <1>4, <2>1
<1>10. js = {k \in RowsOf("joins", s) : joins[k].src \notin bad /\ joins[k].tgt \notin bad}
  <2>1. js = {k \in Present(J) : J[k].src \notin bad /\ J[k].tgt \notin bad}
    BY DEF reached_joins
  <2>2. QED
    BY <1>3, <1>4, <2>1
<1>11. \A k \in RowsOf("metrics", s) : metrics[k].entity \in RowsOf("entities", s)
  <2>1. SUFFICES ASSUME NEW k \in Metrics, metrics[k] # Absent, Src(k) = s
                 PROVE  metrics[k].entity \in RowsOf("entities", s)
    BY <1>2
  <2>2. /\ metrics[k] \in MetricRows /\ Src(metrics[k].entity) = Src(k)
        /\ entities[metrics[k].entity] # Absent
    BY <2>1 DEF LayerInv, GoodMetric
  <2>3. QED
    BY <1>2, <2>1, <2>2, MetricFields
<1>12. \A k \in RowsOf("joins", s) :
           joins[k].src \in RowsOf("entities", s) /\ joins[k].tgt \in RowsOf("entities", s)
  <2>1. SUFFICES ASSUME NEW k \in Joins, joins[k] # Absent, Src(k) = s
                 PROVE  joins[k].src \in RowsOf("entities", s) /\ joins[k].tgt \in RowsOf("entities", s)
    BY <1>2
  <2>2. /\ joins[k] \in JoinRows /\ Src(joins[k].src) = Src(k) /\ Src(joins[k].tgt) = Src(k)
        /\ entities[joins[k].src] # Absent /\ entities[joins[k].tgt] # Absent
    BY <2>1 DEF LayerInv, GoodJoin
  <2>3. QED
    BY <1>2, <2>1, <2>2, JoinFields
<1>13. \A k \in ms : metric_drifts(M[k], E, live, tables) = {} <=> MetricHolds(metrics[k])
  <2>1. SUFFICES ASSUME NEW k \in ms
                 PROVE  metric_drifts(M[k], E, live, tables) = {} <=> MetricHolds(metrics[k])
    OBVIOUS
  <2>2. /\ k \in RowsOf("metrics", s) /\ M[k] = metrics[k]
        /\ metrics[k].entity \in RowsOf("entities", s) /\ metrics[k].entity \notin bad
    BY <1>4, <1>9, <1>11
  <2>3. live[entities[metrics[k].entity].table] # Absent
    BY <1>8, <2>2
  <2>4. E[metrics[k].entity] = entities[metrics[k].entity]
    BY <1>4, <2>2
  <2>5. metric_drifts(metrics[k], E, live, tables) = metric_drifts(metrics[k], entities, live, tables)
    BY <2>4 DEF metric_drifts
  <2>6. QED
    BY <1>2, <2>2, <2>3, <2>5, MetricDrift
<1>14. \A k \in js : join_drifts(J[k], E, live, tables) = {} <=> JoinHolds(joins[k])
  <2>1. SUFFICES ASSUME NEW k \in js
                 PROVE  join_drifts(J[k], E, live, tables) = {} <=> JoinHolds(joins[k])
    OBVIOUS
  <2>2. /\ k \in RowsOf("joins", s) /\ J[k] = joins[k]
        /\ joins[k].src \in RowsOf("entities", s) /\ joins[k].src \notin bad
        /\ joins[k].tgt \in RowsOf("entities", s) /\ joins[k].tgt \notin bad
    BY <1>4, <1>10, <1>12
  <2>3. live[entities[joins[k].src].table] # Absent /\ live[entities[joins[k].tgt].table] # Absent
    BY <1>8, <2>2
  <2>4. /\ E[joins[k].src] = entities[joins[k].src] /\ E[joins[k].tgt] = entities[joins[k].tgt]
    BY <1>4, <2>2
  <2>5. join_drifts(joins[k], E, live, tables) = join_drifts(joins[k], entities, live, tables)
    BY <2>4 DEF join_drifts
  <2>6. QED
    BY <1>2, <2>2, <2>3, <2>5, JoinDrift
<1>15. \A k \in RowsOf("entities", s) :
           entity_drifts(E[k], live, tables) = {} <=> EntityHolds(entities[k])
  BY <1>2, <1>4, EntityDrift
<1>16. /\ \A k \in RowsOf("entities", s) : k \notin ms /\ k \notin js
       /\ \A k \in ms : k \notin js
  BY <1>2, <1>9, <1>10, CurationAssumption
<1>17. \A k \in RowsOf("metrics", s) : k \notin RowsOf("entities", s) /\ k \notin js
  BY <1>2, <1>10, CurationAssumption
<1>18. \A k \in RowsOf("joins", s) : k \notin RowsOf("entities", s) /\ k \notin ms
  BY <1>2, <1>9, CurationAssumption
<1>19. \A k \in bad : k \in told
  BY <1>4, <1>6, <1>7
<1> HIDE DEF E, M, J, rep, told, healthy, bad, ms, js
<1>20. healthy \cap told = {}
  BY <1>6, <1>16
<1>21. \A k \in RowsOf("entities", s) : (k \in healthy) = EntityHolds(entities[k])
  <2>1. \A k \in RowsOf("entities", s) : k \in healthy <=> EntityHolds(entities[k])
    BY <1>6, <1>15, <1>16
  <2>2. \A e : EntityHolds(e) \in BOOLEAN
    BY DEF EntityHolds, ColumnHolds
  <2>3. QED
    BY <2>1, <2>2
<1>22. \A k \in RowsOf("metrics", s) :
           /\ k \in healthy => MetricHolds(metrics[k])
           /\ k \notin healthy \cup told => metrics[k].entity \in told
           /\ k \in told => ~MetricHolds(metrics[k])
  BY <1>6, <1>9, <1>13, <1>17, <1>19
<1>23. \A k \in RowsOf("joins", s) :
           /\ k \in healthy => JoinHolds(joins[k])
           /\ k \notin healthy \cup told => {joins[k].src, joins[k].tgt} \cap told # {}
           /\ k \in told => ~JoinHolds(joins[k])
  BY <1>6, <1>10, <1>14, <1>18, <1>19
<1>24. QED
  BY <1>20, <1>21, <1>22, <1>23 DEF told, healthy, rep


-----------------------------------------------------------------------------
(* What commands read from files and proposals *)

LEMMA MetricOfFacts ==
    ASSUME NEW doc, NEW origin, parse_measure(doc.measure), parse_time(doc),
           valid_metric(Field(doc, "time_grains", <<>>)), Field(doc, "time_dimension", Bad) # None
    PROVE  WellFormed(MetricOf(doc, origin)) /\ MetricOf(doc, origin).origin = origin
<1> DEFINE r == MetricOf(doc, origin)
<1>1. /\ r.measure = doc.measure /\ r.time = Field(doc, "time_dimension", None)
      /\ r.grains = Field(doc, "time_grains", <<>>) /\ r.origin = origin
  BY DEF MetricOf
<1> HIDE DEF r
<1>2. CASE "time_dimension" \in DOMAIN doc
  <2>1. "time_grains" \in DOMAIN doc
    BY <1>2 DEF parse_time
  <2>2. r.time = doc["time_dimension"] /\ r.grains = doc["time_grains"] /\ r.time # None
    BY <1>1, <1>2, <2>1 DEF Field
  <2>3. r.time # Bad /\ r.grains # Bad /\ r.grains # <<>>
    BY <1>2, <2>2 DEF parse_time
  <2>4. QED
    BY <1>1, <2>2, <2>3 DEF WellFormed, r
<1>3. CASE "time_dimension" \notin DOMAIN doc
  <2>1. "time_grains" \notin DOMAIN doc
    BY <1>3 DEF parse_time
  <2>2. r.time = None /\ r.grains = <<>>
    BY <1>1, <1>3, <2>1 DEF Field
  <2>3. QED
    BY <1>1, <2>2 DEF WellFormed, r
<1>4. QED
  BY <1>2, <1>3

\* Initially the operator's files parse to good rows.
LEMMA TreesAreGood ==
    ASSUME tree \in Trees
    PROVE  TreeInv
<1>1. /\ DOMAIN tree = {"entities", "metrics", "joins"}
      /\ DOMAIN tree.entities = Entities /\ DOMAIN tree.metrics = Metrics /\ DOMAIN tree.joins = Joins
  BY DocumentsAssumption
<1>2. \A kind \in DOMAIN tree : \A k \in Present(tree[kind]) :
          Parse(kind, tree[kind][k]) \in {Refused} \cup Typed(kind, k)
  BY DocumentsAssumption
<1>3. \A k \in Present(tree.metrics) : Field(tree.metrics[k], "time_dimension", Bad) # None
  BY DocumentsAssumption
<1>4. ASSUME NEW k \in Entities, tree.entities[k] # Absent
      PROVE  parse_entity_yaml(tree.entities[k]) \in {Refused} \cup GoodEntity(k)
  <2>1. "entities" \in DOMAIN tree /\ k \in Present(tree["entities"])
    BY <1>1, <1>4 DEF Present
  <2>2. Parse("entities", tree["entities"][k]) \in {Refused} \cup Typed("entities", k)
    BY <1>2, <2>1
  <2>3. QED
    BY <2>2 DEF Parse, Typed, GoodEntity
<1>5. ASSUME NEW k \in Metrics, tree.metrics[k] # Absent
      PROVE  parse_metric_yaml(tree.metrics[k]) \in {Refused} \cup GoodMetric(k)
  <2> DEFINE doc == tree.metrics[k]
             r == parse_metric_yaml(doc)
  <2>1. "metrics" \in DOMAIN tree /\ k \in Present(tree["metrics"])
    BY <1>1, <1>5 DEF Present
  <2>2. Parse("metrics", tree["metrics"][k]) \in {Refused} \cup Typed("metrics", k)
    BY <1>2, <2>1
  <2>3. r = Refused \/ (r \in MetricRows /\ Src(r.entity) = Src(k))
    BY <2>2 DEF Parse, Typed
  <2>4. Field(doc, "time_dimension", Bad) # None
    BY <1>3, <2>1
  <2> HIDE DEF doc
  <2>5. ASSUME r # Refused PROVE WellFormed(r)
    <3>1. /\ parse_measure(doc.measure) /\ parse_time(doc)
          /\ valid_metric(Field(doc, "time_grains", <<>>))
          /\ r = MetricOf(doc, Field(doc, "origin", "manual"))
      BY <2>5 DEF parse_metric_yaml
    <3>2. QED
      BY <2>4, <3>1, MetricOfFacts
  <2> HIDE DEF r
  <2>6. r \in {Refused} \cup GoodMetric(k)
    BY <2>3, <2>5 DEF GoodMetric
  <2>7. QED
    BY <2>6 DEF r, doc
<1>6. ASSUME NEW k \in Joins, tree.joins[k] # Absent
      PROVE  parse_canonical_join_yaml(tree.joins[k]) \in {Refused} \cup GoodJoin(k)
  <2> DEFINE doc == tree.joins[k]
             r == parse_canonical_join_yaml(doc)
  <2>1. "joins" \in DOMAIN tree /\ k \in Present(tree["joins"])
    BY <1>1, <1>6 DEF Present
  <2>2. Parse("joins", tree["joins"][k]) \in {Refused} \cup Typed("joins", k)
    BY <1>2, <2>1
  <2>3. r = Refused \/ (r \in JoinRows /\ Src(r.src) = Src(k) /\ Src(r.tgt) = Src(k))
    BY <2>2 DEF Parse, Typed
  <2> HIDE DEF doc
  <2>4. r # Refused => r.src # r.tgt /\ r.on # {}
    BY DEF parse_canonical_join_yaml, valid_join
  <2> HIDE DEF r
  <2>5. r \in {Refused} \cup GoodJoin(k)
    BY <2>3, <2>4 DEF GoodJoin
  <2>6. QED
    BY <2>5 DEF r, doc
<1>7. QED
  BY <1>1, <1>4, <1>5, <1>6 DEF TreeInv

\* A new job has nothing but its items.
LEMMA JobFacts ==
    ASSUME NEW c \in Commands, c # "import", NEW s, NEW items, GoodItems(items),
           NEW j, j = Job(c, s, items)
    PROVE  /\ IsJob(j) /\ j.cmd = c /\ j.src = s /\ j.todo = items /\ ~j.failed
           /\ j.next = <<>> /\ j.snap = None /\ ~j.graphed /\ j.alone
<1>1. <<>> \in Seq({"entities", "metrics", "joins"})
  OBVIOUS
<1>2. DOMAIN j = JobFields
  BY DEF Job, JobFields
<1>3. /\ j.cmd = c /\ j.src = s /\ j.todo = items /\ j.failed = FALSE
      /\ j.next = <<>> /\ j.snap = None /\ j.graphed = FALSE /\ j.alone = TRUE /\ j.wrote = FALSE
      /\ j.passed = {}
  BY DEF Job
<1>4. /\ j.wrote \in BOOLEAN /\ j.failed \in BOOLEAN /\ j.graphed \in BOOLEAN /\ j.alone \in BOOLEAN
      /\ ~j.failed /\ ~j.graphed /\ j.alone
  BY <1>3
<1>5. IsJob(j)
  BY <1>1, <1>2, <1>3, <1>4 DEF IsJob, PassedGuard
<1>6. QED
  BY <1>3, <1>4, <1>5

\* q is j but for the fields F, and those still have their types.
Differ(q, j, F) ==
    /\ DOMAIN q = JobFields /\ F \subseteq JobFields \ {"cmd", "src", "manifest", "rc"}
    /\ \A y \in JobFields \ F : q[y] = j[y]
    /\ "todo" \in F => GoodItems(q.todo)
    /\ F \cap {"todo", "passed", "saw"} # {} => PassedGuard(q)
    /\ "snap" \in F => q.snap \in {None} \cup Projections
    /\ "next" \in F => q.next \in Seq({"entities", "metrics", "joins"})
    /\ \A y \in F \cap {"wrote", "failed", "graphed", "alone"} : q[y] \in BOOLEAN

LEMMA StillJob ==
    ASSUME NEW j, IsJob(j), NEW q, NEW F, Differ(q, j, F)
    PROVE  IsJob(q) /\ q.cmd = j.cmd /\ q.src = j.src /\ q.manifest = j.manifest
<1>1. q.cmd = j.cmd /\ q.src = j.src /\ q.manifest = j.manifest
  BY DEF Differ, JobFields
<1>2. DOMAIN q = JobFields
  BY DEF Differ
<1>3. GoodItems(q.todo)
  BY DEF Differ, JobFields, IsJob
<1>4. q.snap \in {None} \cup Projections
  BY DEF Differ, JobFields, IsJob
<1>5. q.next \in Seq({"entities", "metrics", "joins"})
  BY DEF Differ, JobFields, IsJob
<1>6. q["wrote"] \in BOOLEAN /\ q["failed"] \in BOOLEAN /\ q["graphed"] \in BOOLEAN /\ q["alone"] \in BOOLEAN
  BY DEF Differ, JobFields, IsJob
<1>7. PassedGuard(q)
  <2>1. CASE F \cap {"todo", "passed", "saw"} # {}
    BY <2>1 DEF Differ
  <2>2. CASE F \cap {"todo", "passed", "saw"} = {}
    <3>1. \A y \in {"todo", "passed", "saw"} : q[y] = j[y]
      BY <2>2 DEF Differ, JobFields
    <3>2. PassedGuard(j)
      BY DEF IsJob
    <3>3. QED
      BY <3>1, <3>2 DEF PassedGuard
  <2>3. QED
    BY <2>1, <2>2
<1>8. QED
  BY <1>1, <1>2, <1>3, <1>4, <1>5, <1>6, <1>7 DEF IsJob

LEMMA Kept ==
    ASSUME NEW j, NEW q, NEW F, Differ(q, j, F)
    PROVE  /\ q.cmd = j.cmd /\ q.src = j.src /\ q.manifest = j.manifest
           /\ ("todo" \notin F => q.todo = j.todo) /\ ("snap" \notin F => q.snap = j.snap)
           /\ ("next" \notin F => q.next = j.next)
           /\ ("wrote" \notin F => (q.wrote <=> j.wrote)) /\ ("failed" \notin F => (q.failed <=> j.failed))
           /\ ("graphed" \notin F => (q.graphed <=> j.graphed)) /\ ("alone" \notin F => (q.alone <=> j.alone))
<1>1. \A y \in JobFields : y \notin F => q[y] = j[y]
  BY DEF Differ
<1>2. \A y \in {"cmd", "src", "manifest"} : y \notin F
  BY DEF Differ
<1>3. QED
  BY <1>1, <1>2 DEF JobFields

LEMMA PartFacts ==
    ASSUME NEW c \in Commands, c # "import", NEW s, NEW items, GoodItems(items),
           NEW a, Differ(a, Job(c, s, items), {"failed"}), NEW b, Differ(b, a, {"next"})
    PROVE  /\ IsJob(a) /\ a.cmd = c /\ a.src = s /\ a.todo = items
           /\ a.snap = None /\ ~a.graphed /\ a.alone
           /\ IsJob(b) /\ b.cmd = c /\ b.src = s /\ b.todo = items
           /\ b.snap = None /\ ~b.graphed /\ b.alone
<1> DEFINE new == Job(c, s, items)
<1>1. /\ IsJob(new) /\ new.cmd = c /\ new.src = s /\ new.todo = items
      /\ new.snap = None /\ ~new.graphed /\ new.alone
  BY JobFacts
<1>2. Differ(a, new, {"failed"})
  OBVIOUS
<1> HIDE DEF new
<1>3. IsJob(a)
  BY <1>1, <1>2, StillJob
<1>4. /\ a.cmd = c /\ a.src = s /\ a.todo = items
      /\ a.snap = None /\ ~a.graphed /\ a.alone
  BY <1>1, <1>2, Kept
<1>5. IsJob(b)
  BY <1>3, StillJob
<1>6. /\ b.cmd = c /\ b.src = s /\ b.todo = items
      /\ b.snap = None /\ ~b.graphed /\ b.alone
  BY <1>4, Kept
<1>7. QED
  BY <1>3, <1>4, <1>5, <1>6

LEMMA ApplyFacts ==
    ASSUME TreeInv, NEW s,
           NEW cmd, NEW kind, <<cmd, kind>> \in {<<"entities_apply", "entities">>,
                                 <<"metrics_apply", "metrics">>, <<"joins_apply", "joins">>},
           NEW j, \/ j = apply_files(cmd, kind, s)
                  \/ j = [apply_files(cmd, kind, s) EXCEPT !.next = <<"metrics", "joins">>]
    PROVE  /\ IsJob(j) /\ j.cmd = cmd /\ j.src = s
           /\ j.snap = None /\ ~j.graphed /\ j.alone
<1> DEFINE item == CASE kind = "entities" -> "entity" [] kind = "metrics" -> "metric" [] OTHER -> "join"
           row(k) == Parse(kind, tree[kind][k])
           one == [k \in Parsed(kind, s) |->
                      IF kind = "entities" THEN row(k) ELSE [row(k) EXCEPT !.origin = "manual"]]
           items == {Item(item, k, one[k]) : k \in DOMAIN one}
           f == (Files(kind, s) # Parsed(kind, s))
<1>1. apply_files(cmd, kind, s) = [Job(cmd, s, items) EXCEPT !.failed = f]
  BY DEF apply_files
<1>2. \A k \in Parsed(kind, s) : Item(item, k, one[k]) = [kind |-> item, key |-> k, row |-> one[k]]
  BY DEF Item
<1>3. ASSUME NEW k \in Parsed(kind, s) PROVE GoodItem(Item(item, k, one[k]))
  <2>1. k \in DOMAIN tree[kind] /\ tree[kind][k] # Absent /\ row(k) # Refused
    BY DEF Parsed, Files, Present
  <2>2. one[k] = IF kind = "entities" THEN row(k) ELSE [row(k) EXCEPT !.origin = "manual"]
    OBVIOUS
  <2>3. CASE kind = "entities"
    <3>1. k \in Entities /\ row(k) \in GoodEntity(k) /\ item = "entity"
      BY <2>1, <2>3 DEF TreeInv, Parse
    <3>2. QED
      BY <2>2, <2>3, <3>1 DEF GoodItem, Item
  <2>4. CASE kind = "metrics"
    <3>1. k \in Metrics /\ row(k) \in GoodMetric(k) /\ item = "metric"
      BY <2>1, <2>4 DEF TreeInv, Parse
    <3>2. row(k).origin # "dbt_import"
      BY <2>1, <2>4 DEF Parse, parse_metric_yaml, MetricOf
    <3> DEFINE r == row(k)
    <3> HIDE DEF r
    <3>3. r \in MetricRows /\ Src(r.entity) = Src(k) /\ WellFormed(r)
      BY <3>1, <3>2 DEF GoodMetric, r
    <3>4. [r EXCEPT !.origin = "manual"] \in GoodMetric(k)
      <4> DEFINE q == [r EXCEPT !.origin = "manual"]
      <4>1. q \in MetricRows
        BY <3>3 DEF MetricRows, Origins
      <4>2. q.entity = r.entity /\ q.measure = r.measure /\ q.time = r.time /\ q.grains = r.grains
        BY <3>3 DEF MetricRows
      <4> HIDE DEF q
      <4>3. WellFormed(q)
        BY <3>3, <4>2 DEF WellFormed
      <4>4. q \in GoodMetric(k)
        BY <3>3, <4>1, <4>2, <4>3 DEF GoodMetric
      <4>5. QED
        BY <4>4 DEF q
    <3>5. one[k] = [r EXCEPT !.origin = "manual"]
      BY <2>2, <2>4 DEF r
    <3> HIDE DEF one, item
    <3>6. QED
      BY <3>1, <3>4, <3>5 DEF GoodItem, Item
  <2>5. CASE kind = "joins"
    <3>1. k \in Joins /\ row(k) \in GoodJoin(k) /\ item = "join"
      BY <2>1, <2>5 DEF TreeInv, Parse
    <3> DEFINE r == row(k)
    <3> HIDE DEF r
    <3>2. r \in GoodJoin(k)
      BY <3>1 DEF r
    <3>3. [r EXCEPT !.origin = "manual"] \in GoodJoin(k)
      BY <3>2 DEF GoodJoin, JoinRows, Origins
    <3>4. one[k] = [r EXCEPT !.origin = "manual"]
      BY <2>2, <2>5 DEF r
    <3> HIDE DEF one, item
    <3>5. QED
      BY <3>1, <3>3, <3>4 DEF GoodItem, Item
  <2>6. QED
    BY <2>3, <2>4, <2>5
<1>4. GoodItems(items)
  BY <1>3 DEF GoodItems
<1> HIDE DEF items, f
<1>5. cmd \in Commands /\ cmd # "import" /\ f \in BOOLEAN
  BY DEF Commands, Appliers, f
<1>6. <<"metrics", "joins">> \in Seq({"entities", "metrics", "joins"})
      /\ <<>> \in Seq({"entities", "metrics", "joins"})
  OBVIOUS
<1> DEFINE n == <<"metrics", "joins">>
           a == [Job(cmd, s, items) EXCEPT !.failed = f]
           b == [a EXCEPT !.next = n]
<1>7. n \in Seq({"entities", "metrics", "joins"})
  BY <1>6
<1>8. Differ(a, Job(cmd, s, items), {"failed"}) /\ Differ(b, a, {"next"})
  <2>1. DOMAIN Job(cmd, s, items) = JobFields
    BY DEF Job, JobFields
  <2>2. Differ(a, Job(cmd, s, items), {"failed"})
    BY <1>5, <2>1 DEF Differ, JobFields
  <2> HIDE DEF a, n
  <2>3. Differ(b, a, {"next"})
    BY <1>7, <2>2 DEF Differ, JobFields
  <2>4. QED
    BY <2>2, <2>3
<1>9. j = a \/ j = b
  BY <1>1
<1> HIDE DEF n, a, b, item, one
<1>10. /\ IsJob(a) /\ a.cmd = cmd /\ a.src = s /\ a.snap = None /\ ~a.graphed /\ a.alone
       /\ IsJob(b) /\ b.cmd = cmd /\ b.src = s /\ b.snap = None /\ ~b.graphed /\ b.alone
  BY <1>4, <1>5, <1>7, <1>8, PartFacts
<1>11. QED
  BY <1>9, <1>10


-----------------------------------------------------------------------------
(* What commands read from proposals *)

LEMMA EntityCandidates ==
    ASSUME NEW a \in EntityAnswers, NEW c \in entity_candidates(a)
    PROVE  \A x \in c : x.key \in Entities /\ x.row \in GoodEntity(x.key)
<1>1. entity_parse_suggestions(a) # Refused /\ c \subseteq entity_parse_suggestions(a)
  BY DEF entity_candidates
<1>2. \A x \in entity_parse_suggestions(a) : x.key \in Entities /\ x.row \in Typed("entities", x.key)
  BY <1>1, DocumentsAssumption
<1>3. QED
  BY <1>1, <1>2 DEF Typed, GoodEntity

LEMMA MetricCandidates ==
    ASSUME NEW a \in MetricAnswers, NEW c \in metric_candidates(a)
    PROVE  \A x \in c : /\ x.key \in Metrics /\ x.row \in GoodMetric(x.key)
                        /\ x.row.origin # "dbt_import"
<1>1. metric_parse_suggestions(a) # Refused /\ c \subseteq metric_parse_suggestions(a)
  BY DEF metric_candidates
<1>2. /\ \A x \in metric_parse_suggestions(a) : x.key \in Metrics /\ x.row \in Typed("metrics", x.key)
      /\ \A d \in a : Field(d.doc, "time_dimension", Bad) # None
  BY <1>1, DocumentsAssumption
<1>3. SUFFICES ASSUME NEW x \in c
               PROVE  /\ x.key \in Metrics /\ x.row \in GoodMetric(x.key)
                      /\ x.row.origin # "dbt_import"
  OBVIOUS
<1>4. x \in metric_parse_suggestions(a)
  BY <1>1
<1>5. \A d \in a : metric_candidate_ok(d.doc)
  BY <1>1 DEF metric_parse_suggestions
<1>6. PICK d \in a : x = [key |-> d.name, row |-> MetricOf(d.doc, "suggested")]
  BY <1>4, <1>5 DEF metric_parse_suggestions
<1>7. x.row = MetricOf(d.doc, "suggested")
  BY <1>6
<1>8. WellFormed(x.row) /\ x.row.origin = "suggested"
  <2>1. /\ parse_measure(d.doc.measure) /\ parse_time(d.doc)
        /\ valid_metric(Field(d.doc, "time_grains", <<>>))
    BY <1>5 DEF metric_candidate_ok
  <2>2. Field(d.doc, "time_dimension", Bad) # None
    BY <1>2
  <2>3. QED
    BY <1>7, <2>1, <2>2, MetricOfFacts
<1>9. x.key \in Metrics /\ x.row \in Typed("metrics", x.key)
  BY <1>2, <1>4
<1>10. QED
  BY <1>8, <1>9 DEF Typed, GoodMetric


LEMMA LeastNatural ==
    ASSUME NEW S, S \subseteq Nat, S # {}
    PROVE  \E n \in S : \A m \in S : n <= m
<1> DEFINE R == {pair \in Nat \X Nat : pair[1] < pair[2]}
<1>1. IsWellFoundedOn(R, Nat)
  BY NatLessThanWellFounded DEF OpToRel
<1>2. \A x, y \in Nat : <<x, y>> \in R <=> x < y
  OBVIOUS
<1> HIDE DEF R
<1>3. PICK x \in S : \A y \in S : <<y, x>> \notin R
  BY <1>1, WFMin
<1>4. \A y \in S : y \in Nat /\ x \in Nat /\ ~(y < x)
  BY <1>2, <1>3
<1>5. QED
  BY <1>4

\* The alphabetically first of some entities or foreign-key names.
LEMMA LeastIsIn ==
    ASSUME NEW S, S # {}, \A x \in S : Rank[x] \in Nat
    PROVE  Least(S) \in S
<1> DEFINE N == {Rank[x] : x \in S}
<1>1. N \subseteq Nat /\ N # {}
  OBVIOUS
<1>2. PICK n \in N : \A m \in N : n <= m
  BY <1>1, LeastNatural
<1>3. \E x \in S : \A y \in S : Rank[x] <= Rank[y]
  BY <1>2
<1>4. QED
  BY <1>3 DEF Least

\* The entity a table is bound to is one of the table's own, of the table's source.
LEMMA BoundEntity ==
    ASSUME LayerInv, NEW t \in DOMAIN table_to_entity(entities)
    PROVE  /\ table_to_entity(entities)[t] \in Entities
           /\ Src(table_to_entity(entities)[t]) = Src(t)
<1> DEFINE S == {k \in Present(entities) : entities[k].table = t}
<1>1. t \in {entities[k].table : k \in Present(entities)}
  BY DEF table_to_entity
<1>2. table_to_entity(entities)[t] = Least(S)
  BY <1>1 DEF table_to_entity
<1>3. \A k \in S : k \in Entities /\ entities[k] \in GoodEntity(k)
  BY DEF LayerInv, Present
<1>4. S # {}
  BY <1>1
<1> HIDE DEF S
<1>5. Least(S) \in S
  BY <1>3, <1>4, LeastIsIn, CurationAssumption
<1>6. Least(S) \in Entities /\ entities[Least(S)] \in GoodEntity(Least(S))
  BY <1>3, <1>5
<1>7. entities[Least(S)].table = t
  BY <1>5 DEF S
<1>8. QED
  BY <1>2, <1>6, <1>7 DEF GoodEntity

LEMMA SeedsAreGood ==
    ASSUME LayerInv, NEW x \in fk_seeds(IndexedFks, entities)
    PROVE  /\ x.fk \in Fks /\ x.src \in Entities /\ x.tgt \in Entities /\ x.src # x.tgt
           /\ Src(x.src) = Src(x.fk.name) /\ Src(x.tgt) = Src(x.fk.name)
           /\ x.fk.on \in (SUBSET (Cols \X Cols)) \ {{}} /\ Rank[x.fk.name] \in Nat
<1> DEFINE te == table_to_entity(entities)
<1> HIDE DEF te
<1>1. PICK f \in IndexedFks : /\ {f.from, f.to} \subseteq DOMAIN te /\ te[f.from] # te[f.to]
                              /\ x = [fk |-> f, src |-> te[f.from], tgt |-> te[f.to]]
  BY DEF fk_seeds, te
<1>2. f \in Fks
  BY DEF IndexedFks
<1>3. /\ te[f.from] \in Entities /\ Src(te[f.from]) = Src(f.from)
      /\ te[f.to] \in Entities /\ Src(te[f.to]) = Src(f.to)
  BY <1>1, BoundEntity DEF te
<1>4. /\ Src(f.from) = Src(f.name) /\ Src(f.to) = Src(f.name)
      /\ f.on \in (SUBSET (Cols \X Cols)) \ {{}} /\ Rank[f.name] \in Nat
  BY <1>2, CurationAssumption
<1>5. QED
  BY <1>1, <1>2, <1>3, <1>4

LEMMA EvidenceIsGood ==
    ASSUME LayerInv, NEW x \in query_log_evidence(log, entities)
    PROVE  /\ x.src \in Entities /\ x.tgt \in Entities /\ x.src # x.tgt /\ Src(x.src) = Src(x.tgt)
           /\ x.on \in (SUBSET (Cols \X Cols)) \ {{}}
<1> DEFINE te == table_to_entity(entities)
           seen == {r[2] : r \in {y \in DOMAIN log : log[y] > 0}}
<1>1. seen \subseteq Statements
  BY DEF LayerInv
<1> HIDE DEF te, seen
<1>2. PICK q \in UNION {extract_join_predicates(st) : st \in seen} :
          /\ {q.a, q.b} \subseteq DOMAIN te /\ te[q.a] # te[q.b]
          /\ x.src = te[q.a] /\ x.tgt = te[q.b] /\ x.on = q.on
  <2> DEFINE preds == {p \in UNION {extract_join_predicates(st) : st \in seen} :
                          {p.a, p.b} \subseteq DOMAIN te /\ te[p.a] # te[p.b]}
             freq == aggregate_join_predicates(log, preds)
  <2>1. query_log_evidence(log, entities) =
           {[src |-> te[p.a], tgt |-> te[p.b], on |-> p.on, freq |-> freq[p]] : p \in preds}
    BY DEF query_log_evidence, te, seen
  <2> HIDE DEF freq
  <2>2. PICK p \in preds : x = [src |-> te[p.a], tgt |-> te[p.b], on |-> p.on, freq |-> freq[p]]
    BY <2>1
  <2>3. QED
    BY <2>2
<1>3. PICK st \in Statements : q \in extract_join_predicates(st)
  BY <1>1
<1>4. Src(q.a) = Src(q.b) /\ q.on \in (SUBSET (Cols \X Cols)) \ {{}}
  BY <1>3, CurationAssumption
<1>5. /\ te[q.a] \in Entities /\ Src(te[q.a]) = Src(q.a)
      /\ te[q.b] \in Entities /\ Src(te[q.b]) = Src(q.b)
  BY <1>2, BoundEntity DEF te
<1>6. QED
  BY <1>2, <1>4, <1>5


LEMMA SuggestedJoins ==
    ASSUME LayerInv, NEW s, NEW c \in JoinsOf(s)
    PROVE  to_canonical_join(c) \in GoodJoin(c.name) /\ to_canonical_join(c).origin = "suggested"
<1> DEFINE seeds == fk_seeds(IndexedFks, entities)
           evidence == query_log_evidence(log, entities)
           fkKeys == {[src |-> x.src, tgt |-> x.tgt, on |-> x.fk.on] : x \in seeds}
           logKeys == {[src |-> v.src, tgt |-> v.tgt, on |-> v.on] : v \in evidence}
           Seeds(k) == {x \in seeds : x.src = k.src /\ x.tgt = k.tgt /\ x.fk.on = k.on}
           Freq(k) == IF k \in logKeys
                      THEN (CHOOSE v \in evidence :
                               v.src = k.src /\ v.tgt = k.tgt /\ v.on = k.on).freq
                      ELSE 0
           Seed(k) == CHOOSE x \in Seeds(k) : x.fk.name = Least({y.fk.name : y \in Seeds(k)})
           good(r, n) == /\ r.src \in Entities /\ r.tgt \in Entities /\ r.src # r.tgt
                         /\ Src(r.src) = Src(n) /\ Src(r.tgt) = Src(n)
                         /\ r.on \in (SUBSET (Cols \X Cols)) \ {{}}
<1>1. c \in merge_evidence_sources(seeds, evidence)
  BY DEF JoinsOf, suggest_canonical_joins
<1>2. \/ \E k \in fkKeys : c = [name |-> Seed(k).fk.name, src |-> k.src, tgt |-> k.tgt, on |-> k.on,
                                confidence |-> "high", frequency |-> Freq(k),
                                cardinality |-> infer_fk_cardinality(Seed(k).fk)]
      \/ \E k \in logKeys : c = [name |-> <<k.src[1], k>>, src |-> k.src, tgt |-> k.tgt, on |-> k.on,
                                 confidence |-> confidence_for_frequency(Freq(k)), frequency |-> Freq(k),
                                 cardinality |-> None]
  BY <1>1 DEF merge_evidence_sources
<1>3. \A f : infer_fk_cardinality(f) \in Cardinalities \cup {None}
  BY DEF infer_fk_cardinality, Cardinalities
<1>4. ASSUME NEW k \in fkKeys
      PROVE  Seed(k) \in Seeds(k)
  <2> DEFINE N == {y.fk.name : y \in Seeds(k)}
  <2>1. N # {}
    OBVIOUS
  <2>2. \A n \in N : Rank[n] \in Nat
    BY SeedsAreGood
  <2> HIDE DEF N
  <2>3. Least(N) \in N
    BY <2>1, <2>2, LeastIsIn
  <2>4. \E x \in Seeds(k) : x.fk.name = Least(N)
    BY <2>3 DEF N
  <2>5. QED
    BY <2>4 DEF N
<1>5. ASSUME NEW k \in fkKeys
      PROVE  good(k, Seed(k).fk.name)
  <2>1. Seed(k) \in Seeds(k)
    BY <1>4
  <2> DEFINE x == Seed(k)
  <2> HIDE DEF x
  <2>2. x \in seeds /\ x.src = k.src /\ x.tgt = k.tgt /\ x.fk.on = k.on
    BY <2>1 DEF x
  <2> HIDE DEF seeds
  <2>3. good(k, x.fk.name)
    BY <2>2, SeedsAreGood DEF seeds
  <2>4. QED
    BY <2>3 DEF x
<1>6. ASSUME NEW k \in logKeys
      PROVE  good(k, <<k.src[1], k>>)
  BY EvidenceIsGood DEF Src
<1> HIDE DEF fkKeys, logKeys, Freq, Seed
<1>7. good(c, c.name) /\ c.cardinality \in Cardinalities \cup {None}
  <2>1. CASE \E k \in fkKeys : c = [name |-> Seed(k).fk.name, src |-> k.src, tgt |-> k.tgt, on |-> k.on,
                                confidence |-> "high", frequency |-> Freq(k),
                                cardinality |-> infer_fk_cardinality(Seed(k).fk)]
    BY <1>3, <1>5, <2>1
  <2>2. CASE \E k \in logKeys : c = [name |-> <<k.src[1], k>>, src |-> k.src, tgt |-> k.tgt, on |-> k.on,
                                 confidence |-> confidence_for_frequency(Freq(k)), frequency |-> Freq(k),
                                 cardinality |-> None]
    BY <1>6, <2>2
  <2>3. QED
    BY <1>2, <2>1, <2>2
<1>8. QED
  BY <1>7 DEF to_canonical_join, GoodJoin, JoinRows, Origins


-----------------------------------------------------------------------------
(* What the dbt import reads from a manifest *)

LEMMA ManifestFacts ==
    ASSUME NEW raw \in Manifests, manifest_accepted(raw), NEW man, man = parse_dbt_manifest(raw)
    PROVE  /\ \A k \in Models(man) :
                  /\ k \in Entities /\ man.models[k].table \in Tables
                  /\ Src(man.models[k].table) = Src(k) /\ DOMAIN man.models[k].columns \subseteq Cols
           /\ \A r \in Links(man) :
                  /\ r.from \in Models(man) /\ r.to \in Models(man) /\ r.from # r.to
                  /\ r.from_column \in Cols /\ r.to_column \in Cols
                  /\ LinkName(r) \in Joins /\ Src(LinkName(r)) = Src(r.from)
<1> DEFINE N == {n \in raw.nodes : n.type = "model"}
           Node(k) == CHOOSE n \in raw.nodes : n.type = "model" /\ n.key = k
           models == parse_nodes(raw.nodes)
<1>1. man.models = models /\ man.rels = aggregate_relationships(raw.nodes)
  BY DEF parse_dbt_manifest
<1>2. /\ DOMAIN models = {n.key : n \in N}
      /\ \A k \in DOMAIN models :
             /\ models[k].table = Node(k).table /\ DOMAIN models[k].columns = DOMAIN Node(k).columns
  BY DEF parse_nodes
<1>3. \A k \in DOMAIN models : Node(k) \in N /\ Node(k).key = k
  <2>1. SUFFICES ASSUME NEW k \in DOMAIN models PROVE Node(k) \in N /\ Node(k).key = k
    OBVIOUS
  <2>2. \E n \in raw.nodes : n.type = "model" /\ n.key = k
    BY <1>2
  <2>3. QED
    BY <2>2
<1>4. \A n \in N : /\ n.key \in Entities /\ n.table \in Tables
                   /\ Src(n.table) = Src(n.key) /\ DOMAIN n.columns \subseteq Cols
  BY ManifestsAssumption
<1>5. \A r \in aggregate_relationships(raw.nodes) :
          /\ {r.from_column, r.to_column} \subseteq Cols
          /\ r.from \in {n.key : n \in N} =>
                 /\ RelName[<<r.from, r.from_column>>] \in Joins
                 /\ Src(RelName[<<r.from, r.from_column>>]) = Src(r.from)
  BY ManifestsAssumption
<1>6. Models(man) = DOMAIN models
  BY <1>1 DEF Models
<1> HIDE DEF models, Node
<1>7. ASSUME NEW k \in Models(man)
      PROVE  /\ k \in Entities /\ man.models[k].table \in Tables
             /\ Src(man.models[k].table) = Src(k) /\ DOMAIN man.models[k].columns \subseteq Cols
  <2>1. Node(k) \in N /\ Node(k).key = k /\ man.models[k].table = Node(k).table
        /\ DOMAIN man.models[k].columns = DOMAIN Node(k).columns
    BY <1>1, <1>2, <1>3, <1>6, <1>7
  <2>2. QED
    BY <1>4, <2>1
<1>8. ASSUME NEW r \in Links(man)
      PROVE  /\ r.from \in Models(man) /\ r.to \in Models(man) /\ r.from # r.to
             /\ r.from_column \in Cols /\ r.to_column \in Cols
             /\ LinkName(r) \in Joins /\ Src(LinkName(r)) = Src(r.from)
  <2>1. r \in aggregate_relationships(raw.nodes)
        /\ r.from \in Models(man) /\ r.to \in Models(man) /\ r.from # r.to
    BY <1>1 DEF Links
  <2>2. QED
    BY <1>2, <1>5, <1>6, <2>1 DEF LinkName
<1>9. QED
  BY <1>7, <1>8

\* The identity dbt declares: the columns of the strongest tier that has any.
Tier(model, n) ==
    LET cols == model.columns
    IN  CASE n = 1 -> {c \in DOMAIN cols : "primary_key" \in cols[c].constraints}
          [] n = 2 -> {c \in DOMAIN cols : {"unique", "not_null"} \subseteq cols[c].constraints}
          [] OTHER -> {c \in DOMAIN cols : {"unique", "not_null"} \subseteq cols[c].tests}

LEMMA Identity ==
    ASSUME NEW model
    PROVE  /\ resolve_dbt_identity(model) =
                  IF Tier(model, 1) # {} THEN Tier(model, 1)
                  ELSE IF Tier(model, 2) # {} THEN Tier(model, 2) ELSE Tier(model, 3)
           /\ resolve_dbt_identity(model) \subseteq DOMAIN model.columns
<1> DEFINE t1 == Tier(model, 1)
           t2 == Tier(model, 2)
           t3 == Tier(model, 3)
           tier == <<t1, t2, t3>>
           hit == {n \in 1..3 : tier[n] # {}}
           best == CHOOSE n \in hit : \A k \in hit : n <= k
<1>1. resolve_dbt_identity(model) = IF hit = {} THEN {} ELSE tier[best]
  BY DEF resolve_dbt_identity, Tier
<1>2. t1 \subseteq DOMAIN model.columns /\ t2 \subseteq DOMAIN model.columns
      /\ t3 \subseteq DOMAIN model.columns
  BY DEF Tier
<1> HIDE DEF t1, t2, t3
<1>3. CASE t1 # {}
  <2>1. 1 \in hit /\ \A k \in hit : 1 <= k
    BY <1>3
  <2>2. \A n \in hit : (\A k \in hit : n <= k) => n = 1
    BY <2>1
  <2>3. best = 1
    BY <2>1, <2>2
  <2>4. tier[best] = t1 /\ hit # {}
    BY <2>1, <2>3
  <2> HIDE DEF tier, hit, best
  <2>5. QED
    BY <1>1, <1>2, <1>3, <2>4 DEF t1, t2, t3
<1>4. CASE t1 = {} /\ t2 # {}
  <2>1. 2 \in hit /\ \A k \in hit : 2 <= k
    BY <1>4
  <2>2. \A n \in hit : (\A k \in hit : n <= k) => n = 2
    BY <2>1
  <2>3. best = 2
    BY <2>1, <2>2
  <2>4. tier[best] = t2 /\ hit # {}
    BY <2>1, <2>3
  <2> HIDE DEF tier, hit, best
  <2>5. QED
    BY <1>1, <1>2, <1>4, <2>4 DEF t1, t2, t3
<1>5. CASE t1 = {} /\ t2 = {} /\ t3 # {}
  <2>1. 3 \in hit /\ \A k \in hit : 3 <= k
    BY <1>5
  <2>2. \A n \in hit : (\A k \in hit : n <= k) => n = 3
    BY <2>1
  <2>3. best = 3
    BY <2>1, <2>2
  <2>4. tier[best] = t3 /\ hit # {}
    BY <2>1, <2>3
  <2> HIDE DEF tier, hit, best
  <2>5. QED
    BY <1>1, <1>2, <1>5, <2>4 DEF t1, t2, t3
<1>6. CASE t1 = {} /\ t2 = {} /\ t3 = {}
  <2>1. hit = {}
    BY <1>6
  <2> HIDE DEF tier, hit, best
  <2>2. QED
    BY <1>1, <1>2, <1>6, <2>1 DEF t1, t2, t3
<1>7. QED
  BY <1>3, <1>4, <1>5, <1>6


LEMMA PlannedEntities ==
    ASSUME NEW raw \in Manifests, manifest_accepted(raw), NEW man, man = parse_dbt_manifest(raw),
           NEW k \in DOMAIN entities_to_write(man, live)
    PROVE  /\ k \in Models(man) /\ k \in Entities
           /\ entities_to_write(man, live)[k] \in GoodEntity(k)
           /\ entities_to_write(man, live)[k].origin = "dbt_import"
<1> DEFINE row == [x \in Models(man) |-> dbt_model_to_entity(man.models[x])]
           model == man.models[k]
           id == resolve_dbt_identity(model)
<1>1. /\ k \in Models(man) /\ ~Skipped(row[k]) /\ entities_to_write(man, live)[k] = row[k]
  BY DEF entities_to_write
<1>2. row[k] = dbt_model_to_entity(model)
  BY <1>1
<1> HIDE DEF row
<1>3. /\ k \in Entities /\ model.table \in Tables
      /\ Src(model.table) = Src(k) /\ DOMAIN model.columns \subseteq Cols
  BY <1>1, ManifestFacts
<1> HIDE DEF model, id
<1>4. id \subseteq DOMAIN model.columns
  BY Identity DEF id
<1>5. dbt_model_to_entity(model) =
         IF Cardinality(id) # 1 THEN Skip("identity_resolution")
         ELSE IF ~model.valid THEN Skip("mapping")
         ELSE [table |-> model.table, identity |-> CHOOSE c \in id : TRUE,
               origin |-> "dbt_import", group |-> "other"]
  BY DEF dbt_model_to_entity, id
<1>6. \A x : Skipped(Skip(x))
  BY DEF Skipped, Skip
<1>7. Cardinality(id) = 1
  BY <1>1, <1>2, <1>5, <1>6
<1>8. /\ row[k].table = model.table /\ row[k].identity = CHOOSE c \in id : TRUE
      /\ row[k] = [table |-> model.table, identity |-> CHOOSE c \in id : TRUE,
               origin |-> "dbt_import", group |-> "other"]
  BY <1>1, <1>2, <1>5, <1>6
<1>9. id # {}
  BY <1>7, FS_EmptySet
<1>10. (CHOOSE c \in id : TRUE) \in Cols
  BY <1>3, <1>4, <1>9
<1>11. row[k] \in EntityRows /\ row[k].origin = "dbt_import"
  BY <1>3, <1>8, <1>10 DEF EntityRows, Origins, Groups
<1>12. QED
  BY <1>1, <1>3, <1>8, <1>11 DEF GoodEntity

LEMMA PlannedJoins ==
    ASSUME NEW raw \in Manifests, manifest_accepted(raw), NEW man, man = parse_dbt_manifest(raw),
           NEW s, \A k \in Models(man) : Src(k) = s
    PROVE  /\ dbt_relationships_to_joins(man) =
                  {[key |-> LinkName(r), row |-> LinkRow(r)] : r \in Links(man)}
           /\ \A r \in Links(man) : LinkRow(r) \in GoodJoin(LinkName(r)) /\ LinkName(r) \in Joins
<1>1. dbt_relationships_to_joins(man) = {[key |-> LinkName(r), row |-> LinkRow(r)] : r \in Links(man)}
  BY DEF dbt_relationships_to_joins, LinkName, LinkRow, Links
<1>2. SUFFICES ASSUME NEW r \in Links(man)
               PROVE  LinkRow(r) \in GoodJoin(LinkName(r)) /\ LinkName(r) \in Joins
  BY <1>1
<1>3. /\ r.from \in Models(man) /\ r.to \in Models(man) /\ r.from # r.to
      /\ r.from_column \in Cols /\ r.to_column \in Cols
      /\ LinkName(r) \in Joins /\ Src(LinkName(r)) = Src(r.from)
  BY ManifestFacts
<1>4. r.from \in Entities /\ r.to \in Entities /\ Src(r.from) = s /\ Src(r.to) = s
  BY <1>3, ManifestFacts
<1>5. LinkRow(r) \in JoinRows
  BY <1>3, <1>4 DEF LinkRow, JoinRows, Origins
<1>6. QED
  BY <1>3, <1>4, <1>5 DEF GoodJoin, LinkRow

\* The n-th least of some grains.
LEMMA RankedGrain ==
    ASSUME NEW S, S \subseteq Grains, NEW n \in 1..Cardinality(S)
    PROVE  \E g \in S : Cardinality({h \in S : h < g}) = n - 1
<1> DEFINE below(k) == {h \in S : h < k}
           c(k) == Cardinality(below(k))
           K == {k \in 1..6 : c(k) >= n}
<1>0. \A h \in S : h \in 1..5
  BY DEF Grains
<1>1. IsFiniteSet(S)
  <2>0. 1 \in Int /\ 5 \in Int
    OBVIOUS
  <2>1. IsFiniteSet(1..5)
    BY <2>0, FS_Interval
  <2>2. QED
    BY <2>1, FS_Subset DEF Grains
<1>2. \A k : IsFiniteSet(below(k)) /\ c(k) \in Nat
  <2>1. SUFFICES ASSUME NEW k PROVE IsFiniteSet(below(k)) /\ c(k) \in Nat
    OBVIOUS
  <2>2. below(k) \in SUBSET S
    OBVIOUS
  <2> HIDE DEF below
  <2>3. IsFiniteSet(below(k))
    BY <1>1, <2>2, FS_Subset
  <2>4. QED
    BY <2>3, FS_CardinalityType
<1>3. below(1) = {} /\ below(6) = S
  BY <1>0
<1>4. \A k \in 1..5 : c(k + 1) = IF k \in S THEN c(k) + 1 ELSE c(k)
  <2>1. SUFFICES ASSUME NEW k \in 1..5 PROVE c(k + 1) = IF k \in S THEN c(k) + 1 ELSE c(k)
    OBVIOUS
  <2>2. CASE k \in S
    <3>1. below(k + 1) = below(k) \cup {k} /\ k \notin below(k)
      <4>1. \A h \in S : h < k + 1 <=> h < k \/ h = k
        BY <1>0
      <4>2. ~(k < k)
        OBVIOUS
      <4>3. QED
        BY <2>2, <4>1, <4>2
    <3> HIDE DEF below
    <3>2. Cardinality(below(k) \cup {k}) = Cardinality(below(k)) + 1
      BY <1>2, <3>1, FS_AddElement
    <3>3. QED
      BY <2>2, <3>1, <3>2
  <2>3. CASE k \notin S
    <3>1. below(k + 1) = below(k)
      BY <1>0, <2>3
    <3>2. QED
      BY <2>3, <3>1
  <2>4. QED
    BY <2>2, <2>3
<1>5. c(1) = 0 /\ c(6) = Cardinality(S) /\ Cardinality(S) \in Nat
  BY <1>1, <1>3, FS_EmptySet, FS_CardinalityType
<1> HIDE DEF c
<1>6. 6 \in K /\ n \in Nat /\ n >= 1
  BY <1>5
<1>7. PICK k \in K : \A m \in K : k <= m
  <2>1. K \subseteq Nat
    OBVIOUS
  <2> HIDE DEF K
  <2>2. QED
    BY <1>6, <2>1, LeastNatural
<1>8. k # 1
  BY <1>5
<1>9. PICK m \in 1..5 : m = k - 1 /\ m + 1 = k
  BY <1>8
<1>9a. m \notin K /\ m \in 1..6
  BY <1>7, <1>9
<1>10. c(m) < n
  <2>1. ~(c(m) >= n)
    BY <1>9a
  <2>2. c(m) \in Nat /\ n \in Nat
    BY <1>2, <1>6
  <2> HIDE DEF K
  <2>3. QED
    BY <2>1, <2>2
<1>11. c(k) = IF m \in S THEN c(m) + 1 ELSE c(m)
  BY <1>4, <1>9
<1>12. m \in S /\ c(m) = n - 1
  <2>1. c(k) >= n /\ c(k) \in Nat /\ c(m) \in Nat
    BY <1>2
  <2>2. QED
    BY <1>6, <1>10, <1>11, <2>1
<1>13. QED
  BY <1>12 DEF c


LEMMA ExtractedTime ==
    ASSUME NEW dims, Len(dims) \in Nat, DOMAIN dims = 1..Len(dims), NEW anchor \in Entities,
           \A d \in DOMAIN dims : dims[d].name \in Cols \cup {Bad} /\ dims[d].grains \subseteq Grains
    PROVE  /\ extract_time(dims, anchor).time \in {None} \cup (Entities \X Cols)
           /\ extract_time(dims, anchor).grains \in Seq(Grains)
<1> DEFINE hit == {i \in DOMAIN dims : dims[i].name # Bad /\ dims[i].grains # {}}
           first == CHOOSE i \in hit : \A j \in hit : i <= j
           S == dims[first].grains
           sorted == [n \in 1..Cardinality(S) |->
                         CHOOSE g \in S : Cardinality({h \in S : h < g}) = n - 1]
<1>1. extract_time(dims, anchor) =
         IF hit = {} THEN [time |-> None, grains |-> <<>>]
         ELSE [time |-> <<anchor, dims[first].name>>, grains |-> sorted]
  BY DEF extract_time
<1>2. hit \subseteq Nat
  OBVIOUS
<1>3. ASSUME hit # {} PROVE first \in hit
  <2> HIDE DEF hit
  <2>1. \E i \in hit : \A j \in hit : i <= j
    BY <1>2, <1>3, LeastNatural
  <2>2. QED
    BY <2>1
<1>4. ASSUME hit # {} PROVE dims[first].name \in Cols /\ S \subseteq Grains
  BY <1>3, <1>4
<1>5. ASSUME hit # {} PROVE sorted \in Seq(Grains)
  <2>1. Cardinality(S) \in Nat
    <3>0. 1 \in Int /\ 5 \in Int
      OBVIOUS
    <3>1. IsFiniteSet(1..5)
      BY <3>0, FS_Interval
    <3>2. IsFiniteSet(S)
      BY <1>4, <1>5, <3>1, FS_Subset DEF Grains
    <3>3. QED
      BY <3>2, FS_CardinalityType
  <2>2. ASSUME NEW n \in 1..Cardinality(S)
        PROVE  (CHOOSE g \in S : Cardinality({h \in S : h < g}) = n - 1) \in Grains
    <3> HIDE DEF S
    <3>1. \E g \in S : Cardinality({h \in S : h < g}) = n - 1
      BY <1>4, <1>5, RankedGrain
    <3>2. QED
      BY <1>4, <1>5, <3>1
  <2> HIDE DEF S
  <2>3. sorted \in [1..Cardinality(S) -> Grains]
    BY <2>2
  <2> HIDE DEF sorted
  <2>4. QED
    BY <2>1, <2>3, SeqDef
<1> HIDE DEF hit, first, sorted
<1>6. CASE hit = {}
  BY <1>1, <1>6
<1>7. CASE hit # {}
  BY <1>1, <1>4, <1>5, <1>7
<1>8. QED
  BY <1>6, <1>7

\* The last semantic model that has a measure.
LEMMA LastModel ==
    ASSUME NEW sem, Len(sem) \in Nat, DOMAIN sem = 1..Len(sem), NEW m,
           NEW W, W = {i \in DOMAIN sem : m \in DOMAIN sem[i].measures}, W # {}
    PROVE  (CHOOSE i \in W : \A j \in W : j <= i) \in W
<1> DEFINE D == {Len(sem) - i : i \in W}
<1>1. D \subseteq Nat /\ D # {}
  OBVIOUS
<1>2. PICK d \in D : \A e \in D : d <= e
  BY <1>1, LeastNatural
<1>3. PICK i \in W : d = Len(sem) - i
  BY <1>2
<1>4. \A j \in W : Len(sem) - i <= Len(sem) - j
  BY <1>2, <1>3
<1>5. \A j \in W : j <= i
  BY <1>4
<1>6. QED
  BY <1>5


LEMMA PlannedMetrics ==
    ASSUME NEW raw \in Manifests, manifest_accepted(raw), NEW imported, imported \subseteq Entities,
           parse_dbt_metrics(raw, imported) # Refused, NEW x \in parse_dbt_metrics(raw, imported)
    PROVE  x.key \in Metrics /\ x.row \in GoodMetric(x.key)
<1> DEFINE sem == raw.semantic_models
           index == build_measure_index(sem)
           W(m) == {i \in DOMAIN sem : m \in DOMAIN sem[i].measures}
           last_(m) == CHOOSE i \in W(m) : \A j \in W(m) : j <= i
<1>1. parse_dbt_metrics(raw, imported) =
         {[key |-> m.key, row |-> map_one_metric(m, index, imported)] :
             m \in {y \in raw.metrics : ~Skipped(map_one_metric(y, index, imported))}}
  BY SMTT(30) DEF parse_dbt_metrics
<1>2. /\ DOMAIN index = UNION {DOMAIN sem[i].measures : i \in DOMAIN sem}
      /\ \A m \in DOMAIN index :
             index[m] = [agg |-> sem[last_(m)].measures[m].agg, expr |-> sem[last_(m)].measures[m].expr,
                         primary |-> sem[last_(m)].primary, dims |-> sem[last_(m)].dims]
  BY DEF build_measure_index
<1>3. /\ Len(sem) \in Nat /\ DOMAIN sem = 1..Len(sem)
      /\ \A m \in raw.metrics : m.key \in Metrics /\ m.description \in {"", "flagged"}
  BY ManifestsAssumption
<1>4. \A i \in DOMAIN sem :
         /\ Len(sem[i].dims) \in Nat /\ DOMAIN sem[i].dims = 1..Len(sem[i].dims)
         /\ \A y \in DOMAIN sem[i].measures : /\ sem[i].measures[y].agg \in Aggregations \cup {Bad}
                                              /\ sem[i].measures[y].expr \in Cols \cup {Bad}
         /\ sem[i].primary \in Entities \cup {None}
         /\ \A m \in raw.metrics : sem[i].primary # None => Src(m.key) = Src(sem[i].primary)
         /\ \A d \in DOMAIN sem[i].dims : /\ sem[i].dims[d].name \in Cols \cup {Bad}
                                          /\ sem[i].dims[d].grains \subseteq Grains
  BY ManifestsAssumption
<1> HIDE DEF sem, index
<1>5. PICK m \in raw.metrics : /\ ~Skipped(map_one_metric(m, index, imported))
                               /\ x = [key |-> m.key, row |-> map_one_metric(m, index, imported)]
  BY <1>1
<1> DEFINE mm == m.measure
           b == index[mm]
           t == extract_time(b.dims, b.primary)
<1>6. \A y : Skipped(Skip(y))
  BY DEF Skipped, Skip
<1>7. /\ mm \in DOMAIN index /\ b.agg # Bad /\ b.expr # Bad /\ b.primary # None /\ b.primary \in imported
      /\ map_one_metric(m, index, imported) =
             [entity |-> b.primary, measure |-> [agg |-> b.agg, column |-> b.expr],
              time |-> t.time, grains |-> t.grains, origin |-> "dbt_import",
              description |-> m.description]
  BY <1>5, <1>6 DEF map_one_metric
<1> HIDE DEF mm, b, t
<1>8. last_(mm) \in W(mm)
  <2> DEFINE V == W(mm)
  <2>1. V = {i \in DOMAIN sem : mm \in DOMAIN sem[i].measures} /\ V # {}
    BY <1>2, <1>7
  <2> HIDE DEF V
  <2>2. (CHOOSE i \in V : \A j \in V : j <= i) \in V
    BY <1>3, <2>1, LastModel
  <2>3. QED
    BY <2>2 DEF V
<1> DEFINE i == last_(mm)
<1>9. i \in DOMAIN sem /\ mm \in DOMAIN sem[i].measures
  BY <1>8
<1>10. b = [agg |-> sem[i].measures[mm].agg, expr |-> sem[i].measures[mm].expr,
            primary |-> sem[i].primary, dims |-> sem[i].dims]
  BY <1>2, <1>7 DEF b
<1> HIDE DEF i
<1>11. /\ b.agg \in Aggregations /\ b.expr \in Cols /\ b.primary \in Entities
       /\ Src(m.key) = Src(b.primary)
  BY <1>4, <1>7, <1>9, <1>10
<1>12. /\ Len(b.dims) \in Nat /\ DOMAIN b.dims = 1..Len(b.dims)
       /\ \A d \in DOMAIN b.dims : b.dims[d].name \in Cols \cup {Bad} /\ b.dims[d].grains \subseteq Grains
  <2>1. b.dims = sem[i].dims
    BY <1>10
  <2>2. QED
    BY <1>4, <1>9, <2>1
<1>13. t.time \in {None} \cup (Entities \X Cols) /\ t.grains \in Seq(Grains)
  BY <1>11, <1>12, ExtractedTime DEF t
<1>14. [agg |-> b.agg, column |-> b.expr] \in Measures
  BY <1>11 DEF Measures
<1> DEFINE ms == [agg |-> b.agg, column |-> b.expr]
           r == map_one_metric(m, index, imported)
<1>15. ms \in Measures
  BY <1>14
<1>16. r = [entity |-> b.primary, measure |-> ms, time |-> t.time, grains |-> t.grains,
            origin |-> "dbt_import", description |-> m.description]
  BY <1>7
<1> HIDE DEF ms, r
<1>17. r \in MetricRows
  BY <1>3, <1>11, <1>13, <1>15, <1>16 DEF MetricRows, Origins
<1>18. r.entity = b.primary /\ r.origin = "dbt_import"
  BY <1>16
<1>19. x.key = m.key /\ x.row = r
  BY <1>5 DEF r
<1>20. QED
  BY <1>3, <1>11, <1>17, <1>18, <1>19 DEF GoodMetric


-----------------------------------------------------------------------------
(* Files that commands write *)

GoodRows(kind, k) == CASE kind = "entities" -> GoodEntity(k) [] kind = "metrics" -> GoodMetric(k)
                       [] OTHER -> GoodJoin(k)
Kinds == {"entities", "metrics", "joins"}

LEMMA TreeUpdate ==
    ASSUME TreeInv, NEW kind \in Kinds,
           DOMAIN tree' = DOMAIN tree, DOMAIN tree'[kind] = DOMAIN tree[kind],
           \A x \in DOMAIN tree : x # kind => tree'[x] = tree[x],
           \A k \in DOMAIN tree[kind] :
               \/ tree'[kind][k] = tree[kind][k]
               \/ Parse(kind, tree'[kind][k]) \in {Refused} \cup GoodRows(kind, k)
    PROVE  TreeInv'
<1>1. CASE kind = "entities"
  <2>1. tree'.metrics = tree.metrics /\ tree'.joins = tree.joins
    BY <1>1 DEF TreeInv
  <2>2. \A k \in Entities : tree'.entities[k] = tree.entities[k]
            \/ parse_entity_yaml(tree'.entities[k]) \in {Refused} \cup GoodEntity(k)
    BY <1>1 DEF TreeInv, Parse, GoodRows
  <2>3. QED
    BY <1>1, <2>1, <2>2 DEF TreeInv
<1>2. CASE kind = "metrics"
  <2>1. tree'.entities = tree.entities /\ tree'.joins = tree.joins
    BY <1>2 DEF TreeInv
  <2>2. \A k \in Metrics : tree'.metrics[k] = tree.metrics[k]
            \/ parse_metric_yaml(tree'.metrics[k]) \in {Refused} \cup GoodMetric(k)
    BY <1>2 DEF TreeInv, Parse, GoodRows
  <2>3. QED
    BY <1>2, <2>1, <2>2 DEF TreeInv
<1>3. CASE kind = "joins"
  <2>1. tree'.entities = tree.entities /\ tree'.metrics = tree.metrics
    BY <1>3 DEF TreeInv
  <2>2. \A k \in Joins : tree'.joins[k] = tree.joins[k]
            \/ parse_canonical_join_yaml(tree'.joins[k]) \in {Refused} \cup GoodJoin(k)
    BY <1>3 DEF TreeInv, Parse, GoodRows
  <2>3. QED
    BY <1>3, <2>1, <2>2 DEF TreeInv
<1>4. QED
  BY <1>1, <1>2, <1>3 DEF Kinds

\* What is written for a good row reads as a good row, or is refused.
LEMMA FileOfRow ==
    ASSUME NEW kind \in Kinds, NEW k, NEW r \in GoodRows(kind, k)
    PROVE  Parse(kind, ToYaml(kind, r)) \in {Refused} \cup GoodRows(kind, k)
<1>1. CASE kind = "entities"
  <2>1. r \in GoodEntity(k) /\ r \in EntityRows
    BY <1>1 DEF GoodRows, GoodEntity
  <2>2. parse_entity_yaml(entity_to_yaml(r)) = r
    BY <2>1, EntityRoundTrip
  <2>3. QED
    BY <1>1, <2>1, <2>2 DEF Parse, ToYaml, GoodRows
<1>2. CASE kind = "metrics"
  <2>1. r \in GoodMetric(k) /\ r \in MetricRows /\ (r.origin = "dbt_import" \/ WellFormed(r))
    BY <1>2 DEF GoodRows, GoodMetric
  <2>2. parse_metric_yaml(metric_to_yaml(r)) \in {Refused, r}
    BY <2>1, MetricRoundTrip
  <2>3. QED
    BY <1>2, <2>1, <2>2 DEF Parse, ToYaml, GoodRows
<1>3. CASE kind = "joins"
  <2>1. r \in GoodJoin(k) /\ r \in JoinRows /\ r.src # r.tgt /\ r.on # {}
    BY <1>3 DEF GoodRows, GoodJoin
  <2>2. parse_canonical_join_yaml(canonical_join_to_yaml(r)) \in {Refused, r}
    BY <2>1, JoinRoundTrip
  <2>3. QED
    BY <1>3, <2>1, <2>2 DEF Parse, ToYaml, GoodRows
<1>4. QED
  BY <1>1, <1>2, <1>3 DEF Kinds

LEMMA StoredRows ==
    ASSUME LayerInv, NEW kind \in Kinds, NEW k \in Present(Rows(kind))
    PROVE  Rows(kind)[k] \in GoodRows(kind, k)
<1>1. CASE kind = "entities"
  BY <1>1 DEF LayerInv, Rows, Present, GoodRows
<1>2. CASE kind = "metrics"
  BY <1>2 DEF LayerInv, Rows, Present, GoodRows
<1>3. CASE kind = "joins"
  BY <1>3 DEF LayerInv, Rows, Present, GoodRows
<1>4. QED
  BY <1>1, <1>2, <1>3 DEF Kinds

\* suggest --out-dir for entities and metrics, given what the files hold.
LEMMA OutDirTree ==
    ASSUME TreeInv, NEW p, NEW kind \in {"entities", "metrics"}, NEW files, out_dir(p, kind, files),
           \A k \in DOMAIN files : Parse(kind, files[k]) \in {Refused} \cup GoodRows(kind, k)
    PROVE  TreeInv' /\ \E r : Report(p, r) /\ r.cmd = "suggest"
<1>1. \E r : Report(p, r) /\ r.cmd = "suggest"
  <2>1. Rc("suggest", 0).cmd = "suggest" /\ Rc("suggest", 1).cmd = "suggest"
    BY DEF Rc
  <2>2. Report(p, Rc("suggest", 0)) \/ Report(p, Rc("suggest", 1))
    BY DEF out_dir
  <2>3. QED
    BY <2>1, <2>2
<1>2. CASE UNCHANGED tree
  BY <1>1, <1>2 DEF TreeInv
<1>3. CASE tree' = [tree EXCEPT ![kind] = [k \in DOMAIN tree[kind] |->
                       IF k \in DOMAIN files THEN files[k] ELSE tree[kind][k]]]
  <2>1. kind \in Kinds /\ kind \in DOMAIN tree
    BY DEF Kinds, TreeInv
  <2>2. DOMAIN tree' = DOMAIN tree /\ DOMAIN tree'[kind] = DOMAIN tree[kind]
        /\ \A x \in DOMAIN tree : x # kind => tree'[x] = tree[x]
    BY <1>3, <2>1
  <2>3. \A k \in DOMAIN tree[kind] : tree'[kind][k] = IF k \in DOMAIN files THEN files[k] ELSE tree[kind][k]
    BY <1>3, <2>1
  <2>4. \A k \in DOMAIN tree[kind] :
            \/ tree'[kind][k] = tree[kind][k]
            \/ Parse(kind, tree'[kind][k]) \in {Refused} \cup GoodRows(kind, k)
    BY <2>3
  <2>5. TreeInv'
    BY <2>1, <2>2, <2>4, TreeUpdate
  <2>6. QED
    BY <1>1, <2>5
<1>4. UNCHANGED tree \/ tree' = [tree EXCEPT ![kind] = [k \in DOMAIN tree[kind] |->
                       IF k \in DOMAIN files THEN files[k] ELSE tree[kind][k]]]
  BY DEF out_dir
<1>5. QED
  BY <1>1, <1>2, <1>3, <1>4


\* A job as it starts, and a command that ends at once.
Fresh(j) == /\ IsJob(j) /\ j.snap = None /\ ~j.graphed
            /\ j.cmd = "import" => Lands(j.manifest, j.todo)
Begins(p) == \E j : Start(p, j) /\ Fresh(j)
Reports(p) == TreeInv' /\ \E r : Report(p, r) /\ r.cmd \notin Appliers \cup {"import"}

LEMMA EntitiesToOutDir ==
    ASSUME TreeInv, NEW p, NEW s, entities_to_out_dir(p, s)
    PROVE  Reports(p)
<1>0. PICK a \in EntityAnswers : \E c \in entity_candidates(a) :
          /\ \A x, y \in c : Src(x.key) = s /\ (x.key = y.key => x = y)
          /\ out_dir(p, "entities", [q \in {x.key : x \in c} |->
                         entity_to_yaml((CHOOSE x \in c : x.key = q).row)])
  BY DEF entities_to_out_dir
<1>1. PICK c \in entity_candidates(a) :
          /\ \A x, y \in c : Src(x.key) = s /\ (x.key = y.key => x = y)
          /\ out_dir(p, "entities", [k \in {x.key : x \in c} |->
                         entity_to_yaml((CHOOSE x \in c : x.key = k).row)])
  BY <1>0
<1> DEFINE files == [k \in {x.key : x \in c} |-> entity_to_yaml((CHOOSE x \in c : x.key = k).row)]
<1>2. ASSUME NEW k \in DOMAIN files
      PROVE  Parse("entities", files[k]) \in {Refused} \cup GoodRows("entities", k)
  <2> DEFINE x == CHOOSE x \in c : x.key = k
  <2>1. x \in c /\ x.key = k
    BY <1>2
  <2>2. files[k] = entity_to_yaml(x.row)
    BY <1>2
  <2> HIDE DEF x, files
  <2>3. x.row \in GoodRows("entities", k)
    BY <2>1, EntityCandidates DEF GoodRows
  <2>4. files[k] = ToYaml("entities", x.row)
    BY <2>2 DEF ToYaml
  <2>5. QED
    BY <2>3, <2>4, FileOfRow DEF Kinds
<1>3. out_dir(p, "entities", files)
  BY <1>1
<1> HIDE DEF files
<1>4. TreeInv' /\ \E r : Report(p, r) /\ r.cmd = "suggest"
  BY <1>2, <1>3, OutDirTree
<1>5. QED
  BY <1>4 DEF Reports, Appliers

LEMMA MetricsToOutDir ==
    ASSUME TreeInv, NEW p, NEW s, metrics_to_out_dir(p, s)
    PROVE  Reports(p)
<1>0. PICK a \in MetricAnswers : \E c \in metric_candidates(a) :
          /\ \A x, y \in c : Src(x.key) = s /\ (x.key = y.key => x = y)
          /\ out_dir(p, "metrics", [q \in {x.key : x \in c} |->
                         metric_to_yaml((CHOOSE x \in c : x.key = q).row)])
  BY DEF metrics_to_out_dir
<1>1. PICK c \in metric_candidates(a) :
          /\ \A x, y \in c : Src(x.key) = s /\ (x.key = y.key => x = y)
          /\ out_dir(p, "metrics", [k \in {x.key : x \in c} |->
                         metric_to_yaml((CHOOSE x \in c : x.key = k).row)])
  BY <1>0
<1> DEFINE files == [k \in {x.key : x \in c} |-> metric_to_yaml((CHOOSE x \in c : x.key = k).row)]
<1>2. ASSUME NEW k \in DOMAIN files
      PROVE  Parse("metrics", files[k]) \in {Refused} \cup GoodRows("metrics", k)
  <2> DEFINE x == CHOOSE x \in c : x.key = k
  <2>1. x \in c /\ x.key = k
    BY <1>2
  <2>2. files[k] = metric_to_yaml(x.row)
    BY <1>2
  <2> HIDE DEF x, files
  <2>3. x.row \in GoodRows("metrics", k)
    BY <2>1, MetricCandidates DEF GoodRows
  <2>4. files[k] = ToYaml("metrics", x.row)
    BY <2>2 DEF ToYaml
  <2>5. QED
    BY <2>3, <2>4, FileOfRow DEF Kinds
<1>3. out_dir(p, "metrics", files)
  BY <1>1
<1> HIDE DEF files
<1>4. TreeInv' /\ \E r : Report(p, r) /\ r.cmd = "suggest"
  BY <1>2, <1>3, OutDirTree
<1>5. QED
  BY <1>4 DEF Reports, Appliers

LEMMA JoinsToOutDir ==
    ASSUME LayerInv, TreeInv, NEW p, NEW s, joins_to_out_dir(p, s)
    PROVE  Reports(p)
<1>1. Report(p, Rc("suggest", 0)) /\ Rc("suggest", 0).cmd = "suggest"
  BY DEF joins_to_out_dir, Rc
<1>2. tree' = [tree EXCEPT !.joins = [k \in Joins |->
           IF \E c \in JoinsOf(s) : c.name = k
           THEN canonical_join_to_yaml(to_canonical_join(CHOOSE c \in JoinsOf(s) : c.name = k))
           ELSE tree.joins[k]]]
  BY DEF joins_to_out_dir
<1>3. "joins" \in Kinds /\ "joins" \in DOMAIN tree /\ DOMAIN tree["joins"] = Joins
  BY DEF Kinds, TreeInv
<1>4. DOMAIN tree' = DOMAIN tree /\ DOMAIN tree'["joins"] = DOMAIN tree["joins"]
      /\ \A x \in DOMAIN tree : x # "joins" => tree'[x] = tree[x]
  BY <1>2, <1>3
<1>5. ASSUME NEW k \in DOMAIN tree["joins"]
      PROVE  \/ tree'["joins"][k] = tree["joins"][k]
             \/ Parse("joins", tree'["joins"][k]) \in {Refused} \cup GoodRows("joins", k)
  <2>1. CASE \E c \in JoinsOf(s) : c.name = k
    <3> DEFINE c == CHOOSE c \in JoinsOf(s) : c.name = k
    <3>1. c \in JoinsOf(s) /\ c.name = k
      BY <2>1
    <3>2. tree'["joins"][k] = canonical_join_to_yaml(to_canonical_join(c))
      BY <1>2, <1>3, <1>5, <2>1
    <3> HIDE DEF c
    <3>3. to_canonical_join(c) \in GoodRows("joins", k)
      BY <3>1, SuggestedJoins DEF GoodRows
    <3>4. tree'["joins"][k] = ToYaml("joins", to_canonical_join(c))
      BY <3>2 DEF ToYaml
    <3>5. QED
      BY <1>3, <3>3, <3>4, FileOfRow
  <2>2. CASE ~\E c \in JoinsOf(s) : c.name = k
    BY <1>2, <1>3, <1>5, <2>2
  <2>3. QED
    BY <2>1, <2>2
<1>6. TreeInv'
  BY <1>3, <1>4, <1>5, TreeUpdate
<1>7. QED
  BY <1>1, <1>6 DEF Reports, Appliers

LEMMA ExportOneFile ==
    ASSUME LayerInv, TreeInv, NEW p, NEW kind \in Kinds, NEW k, k \in DOMAIN Rows(kind),
           export_one(p, kind, k)
    PROVE  Reports(p)
<1>1. Rc("nothing", 1).cmd = "nothing" /\ Rc("nothing", 2).cmd = "nothing" /\ Rc("suggest", 0).cmd = "suggest"
  BY DEF Rc
<1>2. CASE (Report(p, Rc("nothing", 2)) \/ Report(p, Rc("nothing", 1))) /\ UNCHANGED tree
  <2>1. TreeInv'
    BY <1>2 DEF TreeInv
  <2>2. QED
    BY <1>1, <1>2, <2>1 DEF Reports, Appliers
<1>3. CASE /\ Rows(kind)[k] # Absent /\ Report(p, Rc("suggest", 0))
           /\ tree' = [tree EXCEPT ![kind][k] = ToYaml(kind, Rows(kind)[k])]
  <2>1. kind \in DOMAIN tree
    BY DEF Kinds, TreeInv
  <2>2. DOMAIN tree' = DOMAIN tree /\ DOMAIN tree'[kind] = DOMAIN tree[kind]
        /\ \A x \in DOMAIN tree : x # kind => tree'[x] = tree[x]
    BY <1>3, <2>1
  <2>3. \A q \in DOMAIN tree[kind] :
            tree'[kind][q] = IF q = k THEN ToYaml(kind, Rows(kind)[k]) ELSE tree[kind][q]
    BY <1>3, <2>1
  <2>4. Rows(kind)[k] \in GoodRows(kind, k)
    BY <1>3, StoredRows DEF Present
  <2>5. Parse(kind, ToYaml(kind, Rows(kind)[k])) \in {Refused} \cup GoodRows(kind, k)
    BY <2>4, FileOfRow
  <2>6. \A q \in DOMAIN tree[kind] :
            \/ tree'[kind][q] = tree[kind][q]
            \/ Parse(kind, tree'[kind][q]) \in {Refused} \cup GoodRows(kind, q)
    BY <2>3, <2>5
  <2>7. TreeInv'
    BY <2>2, <2>6, TreeUpdate
  <2>8. QED
    BY <1>1, <1>3, <2>7 DEF Reports, Appliers
<1>4. QED
  BY <1>2, <1>3 DEF export_one


-----------------------------------------------------------------------------
(* Commands that start a job *)

LEMMA GoodItemOf ==
    ASSUME NEW kind, NEW k, NEW row,
           \/ kind = "entity" /\ k \in Entities /\ row \in GoodEntity(k)
           \/ kind = "metric" /\ k \in Metrics /\ row \in GoodMetric(k)
           \/ kind = "join" /\ row \in GoodJoin(k)
           \/ kind = "drop"
    PROVE  /\ GoodItem(Item(kind, k, row))
           /\ Item(kind, k, row).kind = kind /\ Item(kind, k, row).key = k /\ Item(kind, k, row).row = row
BY DEF GoodItem, Item

LEMMA FreshJob ==
    ASSUME NEW c \in Commands, c # "import", NEW s, NEW items, GoodItems(items)
    PROVE  Fresh(Job(c, s, items))
<1> DEFINE j == Job(c, s, items)
<1>1. IsJob(j) /\ j.cmd = c /\ j.snap = None /\ ~j.graphed
  BY JobFacts
<1> HIDE DEF j
<1>2. Fresh(j)
  BY <1>1 DEF Fresh
<1>3. QED
  BY <1>2 DEF j

LEMMA AppliesBegin ==
    ASSUME TreeInv, NEW p, NEW s,
           EntitiesApply(p, s) \/ MetricsApply(p, s) \/ JoinsApply(p, s) \/ ApplyProject(p, s)
    PROVE  Begins(p)
<1> DEFINE pairs == {<<"entities_apply", "entities">>, <<"metrics_apply", "metrics">>,
                     <<"joins_apply", "joins">>}
<1>1. ASSUME NEW cmd, NEW kind, <<cmd, kind>> \in pairs, NEW j,
             \/ j = apply_files(cmd, kind, s)
             \/ j = [apply_files(cmd, kind, s) EXCEPT !.next = <<"metrics", "joins">>]
      PROVE  Fresh(j)
  <2>1. IsJob(j) /\ j.cmd = cmd /\ j.snap = None /\ ~j.graphed
    BY <1>1, ApplyFacts
  <2>2. cmd # "import"
    BY <1>1
  <2>3. QED
    BY <2>1, <2>2 DEF Fresh
<1>2. CASE EntitiesApply(p, s)
  <2>1. Fresh(entities_apply(s))
    BY <1>1 DEF entities_apply
  <2>2. QED
    BY <1>2, <2>1 DEF EntitiesApply, Begins
<1>3. CASE MetricsApply(p, s)
  <2>1. Fresh(metrics_apply(s))
    BY <1>1 DEF metrics_apply
  <2>2. QED
    BY <1>3, <2>1 DEF MetricsApply, Begins
<1>4. CASE JoinsApply(p, s)
  <2>1. Fresh(joins_apply(s))
    BY <1>1 DEF joins_apply
  <2>2. QED
    BY <1>4, <2>1 DEF JoinsApply, Begins
<1>5. CASE ApplyProject(p, s)
  <2>1. Fresh([entities_apply(s) EXCEPT !.next = <<"metrics", "joins">>])
    BY <1>1 DEF entities_apply
  <2>2. QED
    BY <1>5, <2>1 DEF ApplyProject, Begins
<1>6. QED
  BY <1>2, <1>3, <1>4, <1>5

LEMMA SuggestsBegin ==
    ASSUME LayerInv, NEW p, NEW s,
           EntitiesSuggest(p, s) \/ MetricsSuggest(p, s) \/ JoinsSuggest(p, s)
    PROVE  Begins(p)
<1>1. CASE EntitiesSuggest(p, s)
  <2>1. PICK a \in EntityAnswers : \E c \in entity_candidates(a) :
            Start(p, Job("entities_suggest", s, {Item("entity", x.key, x.row) : x \in c}))
    BY <1>1 DEF EntitiesSuggest
  <2>2. PICK c \in entity_candidates(a) :
            Start(p, Job("entities_suggest", s, {Item("entity", x.key, x.row) : x \in c}))
    BY <2>1
  <2> DEFINE items == {Item("entity", x.key, x.row) : x \in c}
  <2>3. GoodItems(items)
    BY EntityCandidates, GoodItemOf DEF GoodItems
  <2>4. Start(p, Job("entities_suggest", s, items))
    BY <2>2
  <2> HIDE DEF items
  <2>5. Fresh(Job("entities_suggest", s, items))
    BY <2>3, FreshJob DEF Commands, Appliers
  <2>6. QED
    BY <2>4, <2>5 DEF Begins
<1>2. CASE MetricsSuggest(p, s)
  <2>1. PICK a \in MetricAnswers : \E c \in metric_candidates(a) :
            Start(p, Job("metrics_suggest", s, {Item("metric", x.key, x.row) : x \in c}))
    BY <1>2 DEF MetricsSuggest
  <2>2. PICK c \in metric_candidates(a) :
            Start(p, Job("metrics_suggest", s, {Item("metric", x.key, x.row) : x \in c}))
    BY <2>1
  <2> DEFINE items == {Item("metric", x.key, x.row) : x \in c}
  <2>3. GoodItems(items)
    BY MetricCandidates, GoodItemOf DEF GoodItems
  <2>4. Start(p, Job("metrics_suggest", s, items))
    BY <2>2
  <2> HIDE DEF items
  <2>5. Fresh(Job("metrics_suggest", s, items))
    BY <2>3, FreshJob DEF Commands, Appliers
  <2>6. QED
    BY <2>4, <2>5 DEF Begins
<1>3. CASE JoinsSuggest(p, s)
  <2> DEFINE items == {Item("join", c.name, to_canonical_join(c)) : c \in JoinsOf(s)}
  <2>1. Start(p, Job("joins_suggest", s, items))
    BY <1>3 DEF JoinsSuggest
  <2>2. GoodItems(items)
    BY SuggestedJoins, GoodItemOf DEF GoodItems
  <2> HIDE DEF items
  <2>3. Fresh(Job("joins_suggest", s, items))
    BY <2>2, FreshJob DEF Commands, Appliers
  <2>4. QED
    BY <2>1, <2>3 DEF Begins
<1>4. QED
  BY <1>1, <1>2, <1>3

LEMMA AuditBegins ==
    ASSUME TreeInv, NEW p, MetricsAudit(p)
    PROVE  Begins(p) \/ Reports(p)
<1>1. PICK scope : \E fix \in BOOLEAN :
        LET found == find_anti_pattern_metrics(scope)
        IN  IF found = {} \/ ~fix
            THEN Report(p, Rc("audit", IF found = {} THEN 0 ELSE 1)) /\ UNCHANGED tree
            ELSE Start(p, Job("audit_fix", scope,
                   {Item("drop", <<finding_source(k, scope), k[2]>>, None) :
                       k \in {f \in found : metrics[f].origin # "dbt_import"}}))
  BY DEF MetricsAudit
<1> DEFINE F == {f \in find_anti_pattern_metrics(scope) : metrics[f].origin # "dbt_import"}
           items == {Item("drop", <<finding_source(k, scope), k[2]>>, None) : k \in F}
<1>2. CASE Start(p, Job("audit_fix", scope, items))
  <2>1. GoodItems(items)
    <3>1. \A k : GoodItem(Item("drop", k, None))
      BY GoodItemOf
    <3>2. QED
      BY <3>1 DEF GoodItems
  <2> HIDE DEF items
  <2>2. Fresh(Job("audit_fix", scope, items))
    BY <2>1, FreshJob DEF Commands, Appliers
  <2>3. QED
    BY <1>2, <2>2 DEF Begins
<1>3. CASE (\E n : Report(p, Rc("audit", n))) /\ UNCHANGED tree
  <2>1. TreeInv'
    BY <1>3 DEF TreeInv
  <2>2. \A n : Rc("audit", n).cmd = "audit"
    BY DEF Rc
  <2>3. QED
    BY <1>3, <2>1, <2>2 DEF Reports, Appliers
<1>4. QED
  BY <1>1, <1>2, <1>3

LEMMA EmitBegins ==
    ASSUME NEW p, NEW s, EmitYamlProjection(p, s)
    PROVE  Begins(p)
<1> DEFINE n == <<"entities", "metrics", "joins">>
           a == Job("export", s, {})
           b == [a EXCEPT !.next = n]
<1>1. Start(p, b)
  BY DEF EmitYamlProjection
<1>2. n \in Seq({"entities", "metrics", "joins"})
  OBVIOUS
<1>3. GoodItems({})
  BY DEF GoodItems
<1> HIDE DEF n
<1>4. IsJob(a) /\ a.cmd = "export" /\ a.snap = None /\ ~a.graphed
  BY <1>3, JobFacts DEF Commands
<1> HIDE DEF a
<1>5. Differ(b, a, {"next"})
  BY <1>2, <1>4 DEF Differ, IsJob, JobFields
<1> HIDE DEF b
<1>6. IsJob(b)
  BY <1>4, <1>5, StillJob
<1>7. b.cmd = "export" /\ b.snap = None /\ ~b.graphed
  BY <1>4, <1>5, Kept
<1>8. QED
  BY <1>1, <1>6, <1>7 DEF Begins, Fresh


\* The import's plan covers everything the manifest calls for.
LEMMA PlanLands ==
    ASSUME NEW raw \in Manifests, manifest_accepted(raw), NEW man, man = parse_dbt_manifest(raw),
           NEW s, \A k \in Models(man) : Src(k) = s,
           NEW plan, plan = plan_dbt_import(man, entities, live),
           NEW planned, planned = plan.to_add \cup plan.to_update \cup plan.to_take_ownership,
           NEW more, \A i \in more : i.kind = "metric" /\ GoodItem(i),
           NEW items, items = apply_dbt_import_plan(plan, planned) \cup more
    PROVE  planned \subseteq Entities /\ GoodItems(items) /\ Lands(man, items)
<1> DEFINE e == entities_to_write(man, live)
<1> HIDE DEF e
<1>1. plan.rows = e /\ plan.joins = joins_to_write(man, entities, live)
  BY DEF plan_dbt_import, e
<1>2. planned = DOMAIN e
  BY DEF plan_dbt_import, e
<1>3. \A k \in DOMAIN e : k \in Entities /\ e[k] \in GoodEntity(k)
  BY PlannedEntities DEF e
<1>4. plan.joins = {j \in {[key |-> LinkName(r), row |-> LinkRow(r)] : r \in Links(man)} :
                        {j.row.src, j.row.tgt} \subseteq Present(entities) \cup DOMAIN e}
  BY <1>1, PlannedJoins DEF joins_to_write, e
<1>5. \A r \in Links(man) : LinkRow(r) \in GoodJoin(LinkName(r))
                            /\ LinkRow(r).src = r.from /\ LinkRow(r).tgt = r.to
  BY PlannedJoins DEF LinkRow
<1> DEFINE EI == {Item("entity", k, e[k]) : k \in DOMAIN e}
           JI == {Item("join", j.key, j.row) : j \in plan.joins}
<1>6. items = EI \cup JI \cup more
  BY <1>1, <1>2 DEF apply_dbt_import_plan
<1>7. \A i \in EI : /\ GoodItem(i) /\ i.kind = "entity" /\ i.key \in DOMAIN e /\ i.row = e[i.key]
  BY <1>3, GoodItemOf
<1>8. \A i \in JI : /\ GoodItem(i) /\ i.kind = "join"
                    /\ \E r \in Links(man) : i.key = LinkName(r) /\ i.row = LinkRow(r)
  <2>1. SUFFICES ASSUME NEW j \in plan.joins
                 PROVE  LET i == Item("join", j.key, j.row)
                        IN  /\ GoodItem(i) /\ i.kind = "join"
                            /\ \E r \in Links(man) : i.key = LinkName(r) /\ i.row = LinkRow(r)
    OBVIOUS
  <2>2. PICK r \in Links(man) : j = [key |-> LinkName(r), row |-> LinkRow(r)]
    BY <1>4
  <2>3. j.key = LinkName(r) /\ j.row = LinkRow(r)
    BY <2>2
  <2>4. QED
    BY <1>5, <2>3, GoodItemOf
<1>9. \A k \in DOMAIN e : Item("entity", k, e[k]) \in items
  BY <1>6
<1>10. ASSUME NEW r \in Links(man), {r.from, r.to} \subseteq Present(entities) \cup DOMAIN e
       PROVE  Item("join", LinkName(r), LinkRow(r)) \in items
  <2> DEFINE j == [key |-> LinkName(r), row |-> LinkRow(r)]
  <2>1. j.key = LinkName(r) /\ j.row = LinkRow(r)
    OBVIOUS
  <2>2. j \in {[key |-> LinkName(q), row |-> LinkRow(q)] : q \in Links(man)}
    OBVIOUS
  <2> HIDE DEF j
  <2>3. j \in plan.joins
    BY <1>4, <1>5, <1>10, <2>1, <2>2
  <2>4. QED
    BY <1>6, <2>1, <2>3
<1> HIDE DEF EI, JI
<1>11. GoodItems(items)
  BY <1>6, <1>7, <1>8 DEF GoodItems
<1>12. /\ \A i \in items : i.kind = "entity" => i.key \in DOMAIN e /\ i.row = e[i.key]
       /\ \A i \in items : i.kind = "join" =>
              \E r \in Links(man) : i.key = LinkName(r) /\ i.row = LinkRow(r)
  BY <1>6, <1>7, <1>8
<1>13. Lands(man, items)
  BY <1>9, <1>10, <1>12 DEF Lands, e
<1>14. QED
  BY <1>2, <1>3, <1>11, <1>13

LEMMA ImportBegins ==
    ASSUME LayerInv, TreeInv, NEW p, NEW s, ImportDbt(p, s)
    PROVE  Begins(p) \/ Reports(p)
<1>1. PICK raw \in Manifests : \E withMetrics \in BOOLEAN :
          LET man == parse_dbt_manifest(raw)
              plan == plan_dbt_import(man, entities, live)
              planned == plan.to_add \cup plan.to_update \cup plan.to_take_ownership
          IN  IF man = Refused THEN Report(p, Rc("nothing", 1)) /\ UNCHANGED tree
              ELSE /\ \A k \in Models(man) : Src(k) = s
                   /\ Start(p, [Job("import", s, apply_dbt_import_plan(plan, planned)
                                     \cup IF withMetrics THEN apply_dbt_metrics(raw, planned) ELSE {})
                                EXCEPT !.manifest = man,
                                       !.failed = withMetrics /\ parse_dbt_metrics(raw, planned) = Refused])
  BY DEF ImportDbt
<1> DEFINE man == parse_dbt_manifest(raw)
           plan == plan_dbt_import(man, entities, live)
           planned == plan.to_add \cup plan.to_update \cup plan.to_take_ownership
<1>2. CASE man = Refused
  <2>1. Report(p, Rc("nothing", 1)) /\ UNCHANGED tree
    BY <1>1, <1>2
  <2>2. TreeInv'
    BY <2>1 DEF TreeInv
  <2>3. Rc("nothing", 1).cmd = "nothing"
    BY DEF Rc
  <2>4. QED
    BY <2>1, <2>2, <2>3 DEF Reports, Appliers
<1>3. CASE man # Refused
  <2>1. PICK w \in BOOLEAN :
           /\ \A k \in Models(man) : Src(k) = s
           /\ Start(p, [Job("import", s, apply_dbt_import_plan(plan, planned)
                                     \cup IF w THEN apply_dbt_metrics(raw, planned) ELSE {})
                                EXCEPT !.manifest = man,
                                       !.failed = w /\ parse_dbt_metrics(raw, planned) = Refused])
    BY <1>1, <1>3
  <2> DEFINE more == IF w THEN apply_dbt_metrics(raw, planned) ELSE {}
             items == apply_dbt_import_plan(plan, planned) \cup more
             f == w /\ parse_dbt_metrics(raw, planned) = Refused
             j == [Job("import", s, items) EXCEPT !.manifest = man, !.failed = f]
  <2>2. Start(p, j)
    BY <2>1
  <2>3. manifest_accepted(raw) /\ man = parse_dbt_manifest(raw)
    BY <1>3 DEF parse_dbt_manifest
  <2> HIDE DEF man
  <2>4. plan = plan_dbt_import(man, entities, live)
        /\ planned = plan.to_add \cup plan.to_update \cup plan.to_take_ownership
    OBVIOUS
  <2> HIDE DEF plan, planned
  <2>5. planned \subseteq Entities
    <3> DEFINE none == {}
               only == apply_dbt_import_plan(plan, planned) \cup none
    <3>1. \A i \in none : i.kind = "metric" /\ GoodItem(i)
      OBVIOUS
    <3>2. only = apply_dbt_import_plan(plan, planned) \cup none
      OBVIOUS
    <3> HIDE DEF none, only
    <3>3. QED
      BY <2>1, <2>3, <2>4, <3>1, <3>2, PlanLands
  <2>6. \A i \in more : i.kind = "metric" /\ GoodItem(i)
    <3>1. \A x \in parse_dbt_metrics(raw, planned) : parse_dbt_metrics(raw, planned) # Refused =>
              x.key \in Metrics /\ x.row \in GoodMetric(x.key)
      BY <2>3, <2>5, PlannedMetrics
    <3>2. more = {} \/ (/\ parse_dbt_metrics(raw, planned) # Refused
                        /\ more = {Item("metric", m.key, m.row) : m \in parse_dbt_metrics(raw, planned)})
      BY DEF apply_dbt_metrics
    <3> HIDE DEF more
    <3>3. QED
      BY <3>1, <3>2, GoodItemOf
  <2>7. items = apply_dbt_import_plan(plan, planned) \cup more
    OBVIOUS
  <2> HIDE DEF more, items
  <2>8. GoodItems(items) /\ Lands(man, items)
    BY <2>1, <2>3, <2>4, <2>6, <2>7, PlanLands
  <2>9. f \in BOOLEAN
    OBVIOUS
  <2> HIDE DEF f
  <2>10. /\ DOMAIN j = JobFields /\ j.cmd = "import" /\ j.todo = items /\ j.snap = None
         /\ j.next = <<>> /\ j.manifest = man /\ j.passed = {}
    BY DEF Job, JobFields
  <2>11. /\ ~j.graphed /\ j.graphed \in BOOLEAN /\ j.wrote \in BOOLEAN /\ j.alone \in BOOLEAN
    BY DEF Job
  <2>12. j.failed \in BOOLEAN
    BY <2>9 DEF Job
  <2>13. <<>> \in Seq({"entities", "metrics", "joins"})
    OBVIOUS
  <2> HIDE DEF j
  <2>14. IsJob(j)
    BY <2>3, <2>8, <2>10, <2>11, <2>12, <2>13 DEF IsJob, PassedGuard, Commands
  <2>15. QED
    BY <2>2, <2>8, <2>10, <2>11, <2>14 DEF Begins, Fresh
<1>4. QED
  BY <1>2, <1>3


LEMMA CommandsBegin ==
    ASSUME LayerInv, TreeInv, NEW p, (\E s \in Sources : Command(p, s)) \/ StoreCommand(p)
    PROVE  Begins(p) \/ Reports(p)
<1>1. ASSUME UNCHANGED tree, NEW c, c \notin Appliers \cup {"import"}, NEW n, Report(p, Rc(c, n))
      PROVE  Reports(p)
  <2>1. TreeInv'
    BY <1>1 DEF TreeInv
  <2>2. Rc(c, n).cmd = c
    BY DEF Rc
  <2>3. QED
    BY <1>1, <2>1, <2>2 DEF Reports
<1>2. ASSUME NEW s, Command(p, s)
      PROVE  Begins(p) \/ Reports(p)
  <2>1. CASE EntitiesApply(p, s) \/ MetricsApply(p, s) \/ JoinsApply(p, s) \/ ApplyProject(p, s)
    BY <2>1, AppliesBegin
  <2>2. CASE EntitiesSuggest(p, s) \/ MetricsSuggest(p, s) \/ JoinsSuggest(p, s)
    BY <2>2, SuggestsBegin
  <2>3. CASE entities_to_out_dir(p, s)
    BY <2>3, EntitiesToOutDir
  <2>4. CASE metrics_to_out_dir(p, s)
    BY <2>4, MetricsToOutDir
  <2>5. CASE joins_to_out_dir(p, s)
    BY <2>5, JoinsToOutDir
  <2>6. CASE ImportDbt(p, s)
    BY <2>6, ImportBegins
  <2>7. CASE EmitYamlProjection(p, s)
    BY <2>7, EmitBegins
  <2>8. CASE DiffProject(p, s)
    BY <1>1, <2>8 DEF DiffProject, Appliers
  <2>9. CASE Check(p, s)
    BY <1>1, <2>9 DEF Check, Appliers
  <2>10. QED
    BY <1>2, <2>1, <2>2, <2>3, <2>4, <2>5, <2>6, <2>7, <2>8, <2>9 DEF Command
<1>3. ASSUME StoreCommand(p)
      PROVE  Begins(p) \/ Reports(p)
  <2>1. CASE NothingDone(p)
    BY <1>1, <2>1 DEF NothingDone, Appliers
  <2>2. CASE CostCeilingExceeded(p)
    BY <1>1, <2>2 DEF CostCeilingExceeded, Appliers
  <2>3. CASE MetricsAudit(p)
    BY <2>3, AuditBegins
  <2>4. /\ "entities" \in Kinds /\ "metrics" \in Kinds /\ "joins" \in Kinds
        /\ DOMAIN Rows("entities") = Entities /\ DOMAIN Rows("metrics") = Metrics
        /\ DOMAIN Rows("joins") = Joins
    BY DEF Kinds, Rows, LayerInv
  <2>5. CASE EntitiesExport(p)
    BY <2>4, <2>5, ExportOneFile DEF EntitiesExport
  <2>6. CASE MetricsExport(p)
    BY <2>4, <2>6, ExportOneFile DEF MetricsExport
  <2>7. CASE JoinsExport(p)
    BY <2>4, <2>7, ExportOneFile DEF JoinsExport
  <2>8. QED
    BY <1>3, <2>1, <2>2, <2>3, <2>5, <2>6, <2>7 DEF StoreCommand
<1>4. QED
  BY <1>2, <1>3


-----------------------------------------------------------------------------
(* What a step does to the jobs *)

\* The jobs of the processes outside S are as they were ...
Others(S) == DOMAIN job' = Procs /\ \A q \in Procs \ S : job'[q] = job[q]

\* ... or have lost the claim that nothing came in between.
Disturbed(S) ==
    /\ DOMAIN job' = Procs
    /\ \A q \in Procs \ S : /\ Running(q) => Differ(job'[q], job[q], {"alone"}) /\ ~job'[q].alone
                            /\ ~Running(q) => job'[q] = job[q]

LEMMA RunningJob ==
    ASSUME JobsInv, NEW p \in Procs
    PROVE  /\ Running(p) => IsJob(job[p]) /\ DOMAIN job[p] = JobFields
           /\ ~Running(p) => job[p] = Idle
<1>1. Idle.cmd = "idle"
  BY DEF Idle
<1>2. "idle" \notin Commands
  BY DEF Commands, Appliers
<1>3. QED
  BY <1>1, <1>2 DEF JobsInv, IsJob, Running

LEMMA Lonely ==
    ASSUME JobsInv, NEW q \in Procs, Running(q), NEW x, x = [job[q] EXCEPT !.alone = FALSE]
    PROVE  Differ(x, job[q], {"alone"}) /\ ~x.alone
<1>1. DOMAIN job[q] = JobFields
  BY RunningJob
<1>2. DOMAIN x = JobFields /\ (\A y \in JobFields \ {"alone"} : x[y] = job[q][y]) /\ x["alone"] = FALSE
  BY <1>1 DEF JobFields
<1>3. "alone" \in JobFields \ {"cmd", "src", "manifest", "rc"}
  BY DEF JobFields
<1>4. QED
  BY <1>2, <1>3 DEF Differ

LEMMA OutsideDisturbs ==
    ASSUME JobsInv,
           job' = [q \in Procs |-> IF Running(q) THEN [job[q] EXCEPT !.alone = FALSE] ELSE job[q]]
    PROVE  Disturbed({})
<1>1. ASSUME NEW q \in Procs, Running(q)
      PROVE  Differ(job'[q], job[q], {"alone"}) /\ ~job'[q].alone
  <2>1. job'[q] = [job[q] EXCEPT !.alone = FALSE]
    BY <1>1
  <2>2. QED
    BY <1>1, <2>1, Lonely
<1>2. ASSUME NEW q \in Procs, ~Running(q)
      PROVE  job'[q] = job[q]
  BY <1>2
<1>3. DOMAIN job' = Procs
  OBVIOUS
<1>4. QED
  BY <1>1, <1>2, <1>3 DEF Disturbed

LEMMA WriterDisturbs ==
    ASSUME JobsInv, NEW p \in Procs, NEW v, job' = [Interfere(p) EXCEPT ![p] = v]
    PROVE  Disturbed({p}) /\ job'[p] = v
<1> DEFINE f == Interfere(p)
<1>1. f = [q \in Procs |-> IF q # p /\ Running(q) THEN [job[q] EXCEPT !.alone = FALSE] ELSE job[q]]
  BY DEF Interfere
<1>2. DOMAIN f = Procs
  BY <1>1
<1>3. \A q \in Procs : q # p => job'[q] = IF Running(q) THEN [job[q] EXCEPT !.alone = FALSE] ELSE job[q]
  BY <1>1
<1>4. job'[p] = v /\ DOMAIN job' = Procs
  BY <1>2
<1>5. ASSUME NEW q \in Procs \ {p}, Running(q)
      PROVE  Differ(job'[q], job[q], {"alone"}) /\ ~job'[q].alone
  <2>1. job'[q] = [job[q] EXCEPT !.alone = FALSE]
    BY <1>3, <1>5
  <2>2. QED
    BY <1>5, <2>1, Lonely
<1>6. ASSUME NEW q \in Procs \ {p}, ~Running(q)
      PROVE  job'[q] = job[q]
  BY <1>3, <1>6
<1>7. QED
  BY <1>4, <1>5, <1>6 DEF Disturbed

\* The job of p, where only p's own fields change.
LEMMA JobsKept ==
    ASSUME JobsInv, NEW S, Others(S) \/ Disturbed(S),
           \A p \in Procs \cap S : job'[p] = Idle \/ IsJob(job'[p])
    PROVE  JobsInv'
<1>1. DOMAIN job' = Procs
  BY DEF Others, Disturbed
<1>2. SUFFICES ASSUME NEW q \in Procs \ S PROVE job'[q] = Idle \/ IsJob(job'[q])
  BY <1>1 DEF JobsInv
<1>3. CASE job'[q] = job[q]
  BY <1>3 DEF JobsInv
<1>4. CASE Running(q) /\ Differ(job'[q], job[q], {"alone"})
  BY <1>4, RunningJob, StillJob
<1>5. QED
  BY <1>3, <1>4 DEF Others, Disturbed

\* What the last job to end leaves behind.
LEMMA ExitFacts ==
    ASSUME JobsInv, NEW p \in Procs, Running(p), NEW n, Exit(p, n)
    PROVE  /\ Others({p}) /\ job'[p] = Idle
           /\ last'.cmd = job[p].cmd /\ last'.src = job[p].src /\ last'.manifest = job[p].manifest
           /\ last'.rc = n /\ (last'.alone <=> job[p].alone) /\ (last'.wrote <=> job[p].wrote)
<1>1. DOMAIN job[p] = JobFields
  BY RunningJob
<1>2. /\ last' = [job[p] EXCEPT !.todo = {}, !.passed = {}, !.saw = None, !.rc = n]
      /\ job' = [job EXCEPT ![p] = Idle]
  BY DEF Exit
<1>3. \A y \in JobFields \ {"todo", "passed", "saw", "rc"} : last'[y] = job[p][y]
  BY <1>1, <1>2 DEF JobFields
<1>4. last'["rc"] = n
  BY <1>1, <1>2 DEF JobFields
<1>5. Others({p}) /\ job'[p] = Idle
  BY <1>2 DEF Others, JobsInv
<1>6. QED
  BY <1>3, <1>4, <1>5 DEF JobFields


\* A job with an item less.
LEMMA DropsFacts ==
    ASSUME NEW j, IsJob(j), NEW i \in j.todo
    PROVE  /\ GoodItem(i) /\ Differ(Drops(j, i), j, {"todo", "passed", "saw"})
           /\ Drops(j, i).todo = j.todo \ {i}
           /\ \A f \in BOOLEAN : \A q : q = [Drops(j, i) EXCEPT !.failed = f] =>
                 /\ Differ(q, j, {"todo", "passed", "saw", "failed"})
                 /\ q.todo = j.todo \ {i} /\ (q.failed <=> f)
           /\ \A q : q = [Drops(j, i) EXCEPT !.wrote = TRUE] =>
                 Differ(q, j, {"todo", "passed", "saw", "wrote"}) /\ q.todo = j.todo \ {i}
<1> DEFINE T == j.todo \ {i}
           d == Drops(j, i)
<1>1. DOMAIN j = JobFields /\ GoodItems(T) /\ GoodItem(i)
  BY DEF IsJob, GoodItems
<1>2. d = [j EXCEPT !.todo = T, !.passed = {}, !.saw = None]
  BY DEF Drops
<1> HIDE DEF T, d
<1>3. /\ DOMAIN d = JobFields /\ d["todo"] = T /\ d["passed"] = {}
      /\ \A y \in JobFields \ {"todo", "passed", "saw"} : d[y] = j[y]
  BY <1>1, <1>2 DEF JobFields
<1>4. Differ(d, j, {"todo", "passed", "saw"})
  BY <1>1, <1>3 DEF Differ, PassedGuard, JobFields
<1>5. ASSUME NEW f \in BOOLEAN, NEW q, q = [d EXCEPT !.failed = f]
      PROVE  Differ(q, j, {"todo", "passed", "saw", "failed"}) /\ q.todo = T /\ (q.failed <=> f)
  <2>1. /\ DOMAIN q = JobFields /\ q["todo"] = T /\ q["passed"] = {} /\ q["failed"] = f
        /\ \A y \in JobFields \ {"todo", "passed", "saw", "failed"} : q[y] = j[y]
    BY <1>3, <1>5 DEF JobFields
  <2>2. Differ(q, j, {"todo", "passed", "saw", "failed"})
    BY <1>1, <2>1 DEF Differ, PassedGuard, JobFields
  <2>3. QED
    BY <2>1, <2>2
<1>6. ASSUME NEW q, q = [d EXCEPT !.wrote = TRUE]
      PROVE  Differ(q, j, {"todo", "passed", "saw", "wrote"}) /\ q.todo = T
  <2>1. /\ DOMAIN q = JobFields /\ q["todo"] = T /\ q["passed"] = {} /\ q["wrote"] = TRUE
        /\ \A y \in JobFields \ {"todo", "passed", "saw", "wrote"} : q[y] = j[y]
    BY <1>3, <1>6 DEF JobFields
  <2>2. Differ(q, j, {"todo", "passed", "saw", "wrote"})
    BY <1>1, <2>1 DEF Differ, PassedGuard, JobFields
  <2>3. QED
    BY <2>1, <2>2
<1>7. QED
  BY <1>1, <1>3, <1>4, <1>5, <1>6 DEF T, d

\* What a guard or a failed write does to a job that goes on: nothing is written, and an
\* item that is given up is a failure of the run, unless it is a metric of an import.
Skips(p) ==
    /\ UNCHANGED last /\ Others({p}) /\ job[p].todo # {}
    /\ Differ(job'[p], job[p], {"todo", "passed", "saw", "failed"})
    /\ ~job'[p].failed => ~job[p].failed
    /\ \/ job'[p].todo = job[p].todo
       \/ \E i \in job[p].todo :
             /\ job'[p].todo = job[p].todo \ {i}
             /\ job[p].cmd = "import" /\ ~job'[p].failed => i.kind \notin {"entity", "join"}

LEMMA FailedFacts ==
    ASSUME JobsInv, NEW p \in Procs, Running(p), NEW i \in job[p].todo, StoreCallFails(p, i)
    PROVE  Exit(p, 2) \/ (Exit(p, 1) /\ job[p].cmd \notin Appliers) \/ Skips(p)
<1>1. CASE i.kind = "drop" \/ StopsAtFailure(job[p].cmd)
  BY <1>1 DEF StoreCallFails, StopsAtFailure, Appliers
<1>2. CASE i.kind # "drop" /\ ~StopsAtFailure(job[p].cmd)
  <2> DEFINE f == job[p].failed \/ ~(job[p].cmd = "import" /\ i.kind = "metric")
             q == [Drops(job[p], i) EXCEPT !.failed = f]
  <2>1. DOMAIN job = Procs /\ IsJob(job[p])
    BY RunningJob DEF JobsInv
  <2>2. DOMAIN Drops(job[p], i) = JobFields /\ Drops(job[p], i).failed = job[p].failed
    <3>1. Differ(Drops(job[p], i), job[p], {"todo", "passed", "saw"})
      BY <2>1, DropsFacts
    <3>2. QED
      BY <3>1 DEF Differ, JobFields
  <2>3. job' = [job EXCEPT ![p] = q] /\ UNCHANGED last
    <3> DEFINE d == Drops(job[p], i)
    <3>1. /\ job' = [job EXCEPT ![p] =
                 [d EXCEPT !.failed = d.failed \/ ~(job[p].cmd = "import" /\ i.kind = "metric")]]
          /\ UNCHANGED last
      BY <1>2, <2>1 DEF StoreCallFails
    <3>2. d.failed = job[p].failed
      BY <2>2
    <3> HIDE DEF d
    <3>3. q = [d EXCEPT !.failed = d.failed \/ ~(job[p].cmd = "import" /\ i.kind = "metric")]
      BY <3>2 DEF d
    <3>4. QED
      BY <3>1, <3>3
  <2>4. f \in BOOLEAN /\ (~f => ~job[p].failed /\ (job[p].cmd = "import" => i.kind = "metric"))
    OBVIOUS
  <2> HIDE DEF f
  <2>5. /\ Differ(q, job[p], {"todo", "passed", "saw", "failed"})
        /\ q.todo = job[p].todo \ {i} /\ (q.failed <=> f)
    BY <2>1, <2>4, DropsFacts
  <2> HIDE DEF q
  <2>6. Others({p}) /\ job'[p] = q
    BY <2>1, <2>3 DEF Others
  <2>7. QED
    BY <2>3, <2>4, <2>5, <2>6 DEF Skips
<1>3. QED
  BY <1>1, <1>2

\* The steps of a running job: what changes in it, and what it leaves alone.
LEMMA CheckedFacts ==
    ASSUME JobsInv, NEW p \in Procs, Running(p), CheckOwner(p)
    PROVE  /\ UNCHANGED <<live, store, tree, bounds>>
           /\ Exit(p, 2) \/ (Exit(p, 1) /\ job[p].cmd \notin Appliers) \/ Skips(p)
<1>1. UNCHANGED <<live, store, tree, bounds>>
  BY DEF CheckOwner
<1>2. PICK i \in Ready(job[p]) :
        /\ Guarded(i)
        /\ \/ OwnerRefuses(i) /\ StoreCallFails(p, i)
           \/ /\ ~OwnerRefuses(i)
              /\ job' = [job EXCEPT ![p] =
                     IF i.kind = "drop" /\ metrics[i.key] = Absent THEN Drops(job[p], i)
                     ELSE [job[p] EXCEPT !.passed = {i}, !.saw = RowOf(i)]]
              /\ UNCHANGED last
  BY DEF CheckOwner
<1>3. i \in job[p].todo /\ DOMAIN job = Procs /\ IsJob(job[p]) /\ DOMAIN job[p] = JobFields
  BY RunningJob DEF Ready, JobsInv
<1>4. CASE OwnerRefuses(i) /\ StoreCallFails(p, i)
  BY <1>1, <1>3, <1>4, FailedFacts
<1>5. CASE /\ i.kind = "drop" /\ metrics[i.key] = Absent
           /\ job' = [job EXCEPT ![p] = Drops(job[p], i)] /\ UNCHANGED last
  <2> DEFINE q == Drops(job[p], i)
  <2>1. Differ(q, job[p], {"todo", "passed", "saw"}) /\ q.todo = job[p].todo \ {i}
    BY <1>3, DropsFacts
  <2>2. Others({p}) /\ job'[p] = q
    BY <1>3, <1>5 DEF Others
  <2> HIDE DEF q
  <2>3. q.failed = job[p].failed /\ q.failed \in BOOLEAN
    BY <1>3, <2>1 DEF Differ, IsJob, JobFields
  <2>4. Differ(q, job[p], {"todo", "passed", "saw", "failed"})
    BY <2>1, <2>3 DEF Differ, JobFields
  <2>5. QED
    BY <1>1, <1>3, <1>5, <2>1, <2>2, <2>3, <2>4 DEF Skips
<1>6. CASE /\ ~OwnerRefuses(i) /\ ~(i.kind = "drop" /\ metrics[i.key] = Absent)
           /\ job' = [job EXCEPT ![p] = [job[p] EXCEPT !.passed = {i}, !.saw = RowOf(i)]]
           /\ UNCHANGED last
  <2> DEFINE w == RowOf(i)
             q == [job[p] EXCEPT !.passed = {i}, !.saw = w]
  <2>1. w = Absent \/ w.origin # "dbt_import"
    BY <1>2, <1>6 DEF RowOf, OwnerRefuses, Guarded, entity_write_refused, metric_write_refused,
                      delete_metric_refused
  <2>2. Others({p}) /\ job'[p] = q
    BY <1>3, <1>6 DEF Others
  <2> HIDE DEF w
  <2>3. /\ DOMAIN q = JobFields /\ q["passed"] = {i} /\ q["saw"] = w
        /\ \A y \in JobFields \ {"passed", "saw"} : q[y] = job[p][y]
    BY <1>3 DEF JobFields
  <2> HIDE DEF q
  <2>4. q.todo = job[p].todo /\ q.failed = job[p].failed
    BY <2>3 DEF JobFields
  <2>5. PassedGuard(q) /\ GoodItems(q.todo) /\ q.failed \in BOOLEAN
    BY <1>3, <2>1, <2>3, <2>4 DEF PassedGuard, IsJob
  <2>6. Differ(q, job[p], {"todo", "passed", "saw", "failed"})
    BY <2>3, <2>5 DEF Differ, JobFields
  <2>7. QED
    BY <1>1, <1>3, <1>6, <2>2, <2>4, <2>6 DEF Skips
<1>7. QED
  BY <1>2, <1>4, <1>5, <1>6

LEMMA RefusedFacts ==
    ASSUME JobsInv, NEW p \in Procs, Running(p), CheckOwner(p) \/ WriteRefused(p)
    PROVE  /\ UNCHANGED <<live, store, tree, bounds>>
           /\ Exit(p, 2) \/ (Exit(p, 1) /\ job[p].cmd \notin Appliers) \/ Skips(p)
<1>1. CASE CheckOwner(p)
  BY <1>1, CheckedFacts
<1>2. CASE WriteRefused(p)
  <2>1. PICK i \in Writable(job[p]) : StoreCallFails(p, i)
    BY <1>2 DEF WriteRefused
  <2>2. i \in job[p].todo
    BY DEF Writable, Ready
  <2>3. QED
    BY <1>2, <2>1, <2>2, FailedFacts DEF WriteRefused
<1>3. QED
  BY <1>1, <1>2

LEMMA WroteFacts ==
    ASSUME JobsInv, NEW p \in Procs, Running(p), WriteOne(p)
    PROVE  /\ UNCHANGED <<live, tables, graph, log, tree, last, bounds>>
           /\ Disturbed({p}) /\ Differ(job'[p], job[p], {"todo", "passed", "saw", "wrote"})
           /\ \E i \in job[p].todo :
                 /\ GoodItem(i) /\ i.kind # "drop" /\ ForeignKeyHolds(i)
                 /\ Guarded(i) => i \in job[p].passed
                 /\ job'[p].todo = job[p].todo \ {i}
                 /\ entities' = IF i.kind = "entity" THEN [entities EXCEPT ![i.key] = i.row] ELSE entities
                 /\ metrics' = IF i.kind = "metric"
                               THEN [metrics EXCEPT ![i.key] = upsert_metric(i.key, i.row)] ELSE metrics
                 /\ joins' = IF i.kind = "join" THEN [joins EXCEPT ![i.key] = i.row] ELSE joins
<1>1. PICK i \in Writable(job[p]) :
        /\ i.kind # "drop" /\ ForeignKeyHolds(i)
        /\ entities' = IF i.kind = "entity" THEN [entities EXCEPT ![i.key] = i.row] ELSE entities
        /\ metrics' = IF i.kind = "metric"
                      THEN [metrics EXCEPT ![i.key] = upsert_metric(i.key, i.row)] ELSE metrics
        /\ joins' = IF i.kind = "join" THEN [joins EXCEPT ![i.key] = i.row] ELSE joins
        /\ job' = [Interfere(p) EXCEPT ![p] = [Drops(Interfere(p)[p], i) EXCEPT !.wrote = TRUE]]
        /\ UNCHANGED <<live, tables, graph, log, tree, last, bounds>>
  BY DEF WriteOne
<1>2. IsJob(job[p])
  BY RunningJob
<1>3. i \in job[p].todo /\ (Guarded(i) => i \in job[p].passed)
  BY DEF Writable, Ready
<1> DEFINE v == [Drops(job[p], i) EXCEPT !.wrote = TRUE]
<1>4. GoodItem(i) /\ Differ(v, job[p], {"todo", "passed", "saw", "wrote"}) /\ v.todo = job[p].todo \ {i}
  BY <1>2, <1>3, DropsFacts
<1>5. Interfere(p)[p] = job[p]
  BY DEF Interfere
<1>6. job' = [Interfere(p) EXCEPT ![p] = v]
  BY <1>1, <1>5
<1> HIDE DEF v
<1>7. Disturbed({p}) /\ job'[p] = v
  BY <1>6, WriterDisturbs
<1>8. QED
  BY <1>1, <1>3, <1>4, <1>7

LEMMA DroppedFacts ==
    ASSUME JobsInv, NEW p \in Procs, Running(p), DropOne(p)
    PROVE  /\ UNCHANGED <<live, tables, entities, joins, graph, log, tree, last, bounds>>
           /\ Disturbed({p}) /\ Differ(job'[p], job[p], {"todo", "passed", "saw"})
           /\ \E i \in job[p].todo :
                 /\ i.kind = "drop" /\ i \in job[p].passed /\ job'[p].todo = job[p].todo \ {i}
                 /\ metrics' = [metrics EXCEPT ![i.key] = Absent]
<1>1. PICK i \in Writable(job[p]) :
        /\ i.kind = "drop"
        /\ metrics' = [metrics EXCEPT ![i.key] = Absent]
        /\ job' = [Interfere(p) EXCEPT ![p] = Drops(Interfere(p)[p], i)]
        /\ UNCHANGED <<live, tables, entities, joins, graph, log, tree, last, bounds>>
  BY DEF DropOne
<1>2. IsJob(job[p])
  BY RunningJob
<1>3. i \in job[p].todo /\ i \in job[p].passed
  BY <1>1 DEF Writable, Ready, Guarded
<1> DEFINE v == Drops(job[p], i)
<1>4. Differ(v, job[p], {"todo", "passed", "saw"}) /\ v.todo = job[p].todo \ {i}
  BY <1>2, <1>3, DropsFacts
<1>5. Interfere(p)[p] = job[p]
  BY DEF Interfere
<1>6. job' = [Interfere(p) EXCEPT ![p] = v]
  BY <1>1, <1>5
<1> HIDE DEF v
<1>7. Disturbed({p}) /\ job'[p] = v
  BY <1>6, WriterDisturbs
<1>8. QED
  BY <1>1, <1>3, <1>4, <1>7


LEMMA ReadFacts ==
    ASSUME LayerInv, JobsInv, NEW p \in Procs, Running(p), RefreshRead(p)
    PROVE  /\ UNCHANGED <<live, store, tree, last, bounds>>
           /\ Others({p}) /\ Differ(job'[p], job[p], {"snap"})
           /\ job[p].todo = {} /\ job[p].cmd \in Appliers
           /\ SnapCurrent(job'[p].snap, job[p].src)
<1> DEFINE s == job[p].src
           g == [nodes |-> RowsOf("entities", s),
                 edges |-> [k \in RowsOf("joins", s) |-> [src |-> joins[k].src, tgt |-> joins[k].tgt]]]
<1>1. /\ job[p].todo = {} /\ NeedsGraph(job[p])
      /\ job' = [job EXCEPT ![p].snap = g]
      /\ UNCHANGED <<live, store, tree, last, bounds>>
  BY DEF RefreshRead
<1>2. DOMAIN job = Procs /\ DOMAIN job[p] = JobFields /\ IsJob(job[p])
  BY RunningJob DEF JobsInv
<1>3. job[p].cmd \in Appliers
  BY <1>1 DEF NeedsGraph, Appliers
<1>4. RowsOf("entities", s) \subseteq Entities /\ RowsOf("joins", s) \subseteq Joins
  BY DEF RowsOf, Rows, Present, LayerInv
<1>5. ASSUME NEW k \in RowsOf("joins", s)
      PROVE  [src |-> joins[k].src, tgt |-> joins[k].tgt] \in Ends
  <2>1. joins[k] \in JoinRows
    BY <1>4 DEF RowsOf, Rows, Present, LayerInv, GoodJoin
  <2>2. QED
    BY <2>1, JoinFields DEF Ends
<1>6. g.edges \in [RowsOf("joins", s) -> Ends]
  BY <1>5
<1>7. g.edges \in UNION {[S -> Ends] : S \in SUBSET Joins}
  BY <1>4, <1>6
<1>8. g \in Projections
  <2> DEFINE E == g.edges
             N == RowsOf("entities", s)
  <2>1. g = [nodes |-> N, edges |-> E] /\ N \in SUBSET Entities
    BY <1>4
  <2>2. E \in UNION {[S -> Ends] : S \in SUBSET Joins}
    BY <1>7
  <2> HIDE DEF E, N, g
  <2>3. QED
    BY <2>1, <2>2 DEF Projections
<1>9. SnapCurrent(g, s)
  BY DEF SnapCurrent
<1> HIDE DEF g
<1>10. Others({p}) /\ job'[p] = [job[p] EXCEPT !.snap = g]
  BY <1>1, <1>2 DEF Others
<1>11. DOMAIN job'[p] = JobFields /\ job'[p]["snap"] = g
       /\ \A y \in JobFields \ {"snap"} : job'[p][y] = job[p][y]
  BY <1>2, <1>10 DEF JobFields
<1>12. Differ(job'[p], job[p], {"snap"})
  BY <1>8, <1>11 DEF Differ, JobFields
<1>13. QED
  BY <1>1, <1>3, <1>9, <1>10, <1>11, <1>12

\* The set of rows that a refresh finds gone.
SnapHolds(g) ==
    /\ g.nodes \subseteq Present(entities)
    /\ \A k \in DOMAIN g.edges :
          joins[k] # Absent /\ {g.edges[k].src, g.edges[k].tgt} \subseteq Present(entities)

LEMMA RefreshedFacts ==
    ASSUME JobsInv, NEW p \in Procs, Running(p), RefreshWrite(p)
    PROVE  /\ UNCHANGED <<live, tables, layer, log, tree, bounds>>
           /\ job[p].snap # None
           /\ \/ Exit(p, 2) /\ UNCHANGED graph
              \/ /\ UNCHANGED last /\ Disturbed({p}) /\ Differ(job'[p], job[p], {"graphed", "snap"})
                 /\ job'[p].snap = None /\ job'[p].graphed /\ SnapHolds(job[p].snap)
                 /\ nodes' = {k \in nodes : Src(k) # job[p].src} \cup job[p].snap.nodes
                 /\ edges' = [k \in Joins |-> IF Src(k) # job[p].src THEN edges[k]
                                 ELSE IF k \in DOMAIN job[p].snap.edges THEN job[p].snap.edges[k] ELSE Absent]
<1> DEFINE s == job[p].src
           g == job[p].snap
           v == [job[p] EXCEPT !.graphed = TRUE, !.snap = None]
<1>1. /\ job[p].snap # None
      /\ IF SnapHolds(g)
           THEN /\ nodes' = {k \in nodes : Src(k) # s} \cup g.nodes
                /\ edges' = [k \in Joins |-> IF Src(k) # s THEN edges[k]
                                ELSE IF k \in DOMAIN g.edges THEN g.edges[k] ELSE Absent]
                /\ job' = [Interfere(p) EXCEPT ![p].graphed = TRUE, ![p].snap = None]
                /\ UNCHANGED last
           ELSE Exit(p, 2) /\ UNCHANGED graph
      /\ UNCHANGED <<live, tables, layer, log, tree, bounds>>
  BY DEF RefreshWrite, SnapHolds
<1>2. DOMAIN job = Procs /\ DOMAIN job[p] = JobFields /\ IsJob(job[p])
  BY RunningJob DEF JobsInv
<1>3. Interfere(p)[p] = job[p]
  BY DEF Interfere
<1>4. DOMAIN v = JobFields /\ v["graphed"] = TRUE /\ v["snap"] = None
      /\ \A y \in JobFields \ {"graphed", "snap"} : v[y] = job[p][y]
  BY <1>2 DEF JobFields
<1>5. CASE SnapHolds(g)
  <2>1. job' = [Interfere(p) EXCEPT ![p] = v]
    BY <1>1, <1>3, <1>5
  <2> HIDE DEF v
  <2>2. Disturbed({p}) /\ job'[p] = v
    BY <2>1, WriterDisturbs
  <2>3. Differ(v, job[p], {"graphed", "snap"})
    BY <1>4 DEF Differ, JobFields
  <2>4. v.snap = None /\ v.graphed
    BY <1>4
  <2>5. QED
    BY <1>1, <1>5, <2>2, <2>3, <2>4
<1>6. CASE ~SnapHolds(g)
  BY <1>1, <1>6
<1>7. QED
  BY <1>5, <1>6

LEMMA TailKinds ==
    ASSUME NEW n \in Seq(Kinds), n # <<>>
    PROVE  Head(n) \in Kinds /\ Tail(n) \in Seq(Kinds)
OBVIOUS

LEMMA ExportedFacts ==
    ASSUME LayerInv, TreeInv, JobsInv, NEW p \in Procs, Running(p), ExportOne(p)
    PROVE  /\ UNCHANGED <<live, store, bounds>> /\ TreeInv' /\ job[p].cmd = "export"
           /\ \/ Exit(p, 2)
              \/ UNCHANGED last /\ Others({p}) /\ Differ(job'[p], job[p], {"next"})
<1> DEFINE kind == Head(job[p].next)
           s == job[p].src
<1>1. /\ job[p].cmd = "export" /\ job[p].next # <<>>
      /\ IF \E k \in RowsOf(kind, s) : tree[kind][k] # Absent
           THEN Exit(p, 2) /\ UNCHANGED tree
           ELSE /\ tree' = [tree EXCEPT ![kind] = [k \in DOMAIN tree[kind] |->
                       IF k \in RowsOf(kind, s) THEN ToYaml(kind, Rows(kind)[k]) ELSE tree[kind][k]]]
                /\ job' = [job EXCEPT ![p].next = Tail(job[p].next)]
                /\ UNCHANGED last
      /\ UNCHANGED <<live, store, bounds>>
  BY DEF ExportOne
<1>2. DOMAIN job = Procs /\ DOMAIN job[p] = JobFields /\ IsJob(job[p])
  BY RunningJob DEF JobsInv
<1>3. job[p].next \in Seq(Kinds)
  BY <1>2 DEF IsJob, Kinds
<1>4. kind \in Kinds /\ Tail(job[p].next) \in Seq(Kinds)
  BY <1>1, <1>3, TailKinds
<1> HIDE DEF kind
<1>5. CASE Exit(p, 2) /\ UNCHANGED tree
  <2>1. TreeInv'
    BY <1>5 DEF TreeInv
  <2>2. QED
    BY <1>1, <1>5, <2>1
<1>6. CASE /\ tree' = [tree EXCEPT ![kind] = [k \in DOMAIN tree[kind] |->
                         IF k \in RowsOf(kind, s) THEN ToYaml(kind, Rows(kind)[k]) ELSE tree[kind][k]]]
           /\ job' = [job EXCEPT ![p].next = Tail(job[p].next)]
           /\ UNCHANGED last
  <2>1. kind \in DOMAIN tree
    BY <1>4 DEF Kinds, TreeInv
  <2>2. DOMAIN tree' = DOMAIN tree /\ DOMAIN tree'[kind] = DOMAIN tree[kind]
        /\ \A x \in DOMAIN tree : x # kind => tree'[x] = tree[x]
    BY <1>6, <2>1
  <2>3. \A k \in DOMAIN tree[kind] : tree'[kind][k] =
            IF k \in RowsOf(kind, s) THEN ToYaml(kind, Rows(kind)[k]) ELSE tree[kind][k]
    BY <1>6, <2>1
  <2>4. \A k \in RowsOf(kind, s) : Parse(kind, ToYaml(kind, Rows(kind)[k])) \in {Refused} \cup GoodRows(kind, k)
    BY <1>4, StoredRows, FileOfRow DEF RowsOf
  <2>5. \A k \in DOMAIN tree[kind] :
            \/ tree'[kind][k] = tree[kind][k]
            \/ Parse(kind, tree'[kind][k]) \in {Refused} \cup GoodRows(kind, k)
    BY <2>3, <2>4
  <2>6. TreeInv'
    BY <1>4, <2>2, <2>5, TreeUpdate
  <2> DEFINE n == Tail(job[p].next)
  <2>7. n \in Seq({"entities", "metrics", "joins"})
    BY <1>4 DEF Kinds
  <2>8. job' = [job EXCEPT ![p].next = n]
    BY <1>6
  <2> HIDE DEF n
  <2>9. Others({p}) /\ job'[p] = [job[p] EXCEPT !.next = n]
    BY <1>2, <2>8 DEF Others
  <2>10. DOMAIN job'[p] = JobFields /\ job'[p]["next"] = n
         /\ \A y \in JobFields \ {"next"} : job'[p][y] = job[p][y]
    BY <1>2, <2>9 DEF JobFields
  <2>11. Differ(job'[p], job[p], {"next"})
    BY <2>7, <2>10 DEF Differ, JobFields
  <2>12. QED
    BY <1>1, <1>6, <2>6, <2>9, <2>11
<1>7. QED
  BY <1>1, <1>5, <1>6


LEMMA PartStarts ==
    ASSUME TreeInv, JobsInv, NEW p \in Procs, Running(p), NextPart(p)
    PROVE  /\ UNCHANGED <<live, store, tree, last, bounds>> /\ Others({p})
           /\ IsJob(job'[p]) /\ job'[p].cmd # "import" /\ job'[p].snap = None /\ ~job'[p].graphed
<1> DEFINE s == job[p].src
           j == IF Head(job[p].next) = "metrics" THEN metrics_apply(s) ELSE joins_apply(s)
           n == Tail(job[p].next)
           f == j.failed \/ job[p].failed
           a == job[p].alone
           v == [j EXCEPT !.next = n, !.failed = f, !.alone = a]
<1>1. /\ job[p].next # <<>> /\ job' = [job EXCEPT ![p] = v]
      /\ UNCHANGED <<live, store, tree, last, bounds>>
  BY DEF NextPart
<1>2. DOMAIN job = Procs /\ IsJob(job[p])
  BY RunningJob DEF JobsInv
<1>3. Others({p}) /\ job'[p] = v
  BY <1>1, <1>2 DEF Others
<1>4. n \in Seq({"entities", "metrics", "joins"})
  BY <1>1, <1>2, TailKinds DEF IsJob, Kinds
<1>5. a \in BOOLEAN
  BY <1>2 DEF IsJob
<1>6. f \in BOOLEAN
  OBVIOUS
<1>7. IsJob(j) /\ j.cmd \in {"metrics_apply", "joins_apply"} /\ j.snap = None /\ ~j.graphed
  <2>1. \A x : x = metrics_apply(s) =>
            IsJob(x) /\ x.cmd = "metrics_apply" /\ x.snap = None /\ ~x.graphed
    BY ApplyFacts DEF metrics_apply
  <2>2. \A x : x = joins_apply(s) =>
            IsJob(x) /\ x.cmd = "joins_apply" /\ x.snap = None /\ ~x.graphed
    BY ApplyFacts DEF joins_apply
  <2>3. j = metrics_apply(s) \/ j = joins_apply(s)
    OBVIOUS
  <2> HIDE DEF j
  <2>4. QED
    BY <2>1, <2>2, <2>3
<1> HIDE DEF j, n, f, a
<1>8. DOMAIN j = JobFields
  BY <1>7 DEF IsJob
<1>9. /\ DOMAIN v = JobFields /\ v["next"] = n /\ v["failed"] = f /\ v["alone"] = a
      /\ \A y \in JobFields \ {"next", "failed", "alone"} : v[y] = j[y]
  BY <1>8 DEF JobFields
<1> HIDE DEF v
<1>10. Differ(v, j, {"next", "failed", "alone"})
  BY <1>4, <1>5, <1>6, <1>9 DEF Differ, JobFields
<1>11. IsJob(v)
  BY <1>7, <1>10, StillJob
<1>12. v.cmd = j.cmd /\ v.snap = j.snap /\ (v.graphed <=> j.graphed)
  BY <1>10, Kept
<1>13. QED
  BY <1>1, <1>3, <1>7, <1>11, <1>12

-----------------------------------------------------------------------------
(* The store *)

LEMMA LayerUnchanged ==
    ASSUME LayerInv, UNCHANGED <<live, tables, layer, log>>
    PROVE  LayerInv'
BY DEF LayerInv, layer

LEMMA GraphUnchanged ==
    ASSUME GraphInv, UNCHANGED <<layer, graph>>
    PROVE  GraphInv'
BY DEF GraphInv, layer, graph

LEMMA IndexKeeps ==
    ASSUME LayerInv, GraphInv, NEW t \in Tables, IndexTable(t)
    PROVE  LayerInv' /\ GraphInv'
<1> DEFINE gone == {k \in Present(entities) : entities[k].table = t}
           deadJoins == {k \in Present(joins) : joins[k].src \in gone \/ joins[k].tgt \in gone}
<1>1. /\ tables' = [tables EXCEPT ![t] = live[t]] /\ UNCHANGED live
      /\ log' = [r \in DOMAIN log |-> IF r[1] = t THEN 0 ELSE log[r]]
      /\ CascadeEntities(gone)
  BY DEF IndexTable
<1>2. /\ entities' = [k \in Entities |-> IF k \in gone THEN Absent ELSE entities[k]]
      /\ metrics' = [k \in Metrics |->
             IF metrics[k] # Absent /\ metrics[k].entity \in gone THEN Absent ELSE metrics[k]]
      /\ joins' = [k \in Joins |-> IF k \in deadJoins THEN Absent ELSE joins[k]]
      /\ nodes' = nodes \ gone
      /\ edges' = [k \in Joins |->
             IF \/ k \in deadJoins
                \/ edges[k] # Absent /\ (edges[k].src \in gone \/ edges[k].tgt \in gone)
             THEN Absent ELSE edges[k]]
  BY <1>1 DEF CascadeEntities
<1>3. /\ live \in [Tables -> Shapes \cup {Absent}] /\ tables \in [Tables -> Shapes \cup {Absent}]
      /\ log \in [Tables \X Statements -> 0..MaxCalls]
      /\ DOMAIN entities = Entities /\ DOMAIN metrics = Metrics /\ DOMAIN joins = Joins
  BY DEF LayerInv
<1>4. tables' \in [Tables -> Shapes \cup {Absent}]
  BY <1>1, <1>3
<1>5. log' \in [Tables \X Statements -> 0..MaxCalls]
  <2>1. MaxCalls \in Nat
    BY CurationAssumption
  <2>2. QED
    BY <1>1, <1>3, <2>1
<1>6. ASSUME NEW k \in Entities, entities'[k] # Absent
      PROVE  /\ entities'[k] = entities[k] /\ k \notin gone
             /\ entities'[k] \in GoodEntity(k) /\ tables'[entities'[k].table] # Absent
  <2>1. entities'[k] = entities[k] /\ entities[k] # Absent /\ k \notin gone
    BY <1>2, <1>6
  <2>2. entities[k].table # t
    BY <1>3, <2>1 DEF Present
  <2>3. entities[k] \in GoodEntity(k) /\ tables[entities[k].table] # Absent
    BY <2>1 DEF LayerInv
  <2>4. entities[k].table \in Tables
    BY <2>3, EntityFields DEF GoodEntity
  <2>5. tables'[entities[k].table] = tables[entities[k].table]
    BY <1>1, <1>3, <2>2, <2>4
  <2>6. QED
    BY <2>1, <2>3, <2>5
<1>7. \A k \in Entities : entities[k] # Absent /\ k \notin gone => entities'[k] # Absent
  BY <1>2
<1>8. ASSUME NEW k \in Metrics, metrics'[k] # Absent
      PROVE  metrics'[k] \in GoodMetric(k) /\ entities'[metrics'[k].entity] # Absent
  <2>1. metrics'[k] = metrics[k] /\ metrics[k] # Absent /\ metrics[k].entity \notin gone
    BY <1>2, <1>8
  <2>2. metrics[k] \in GoodMetric(k) /\ entities[metrics[k].entity] # Absent
    BY <2>1 DEF LayerInv
  <2>3. metrics[k].entity \in Entities
    BY <2>2, MetricFields DEF GoodMetric
  <2>4. QED
    BY <1>7, <2>1, <2>2, <2>3
<1>9. ASSUME NEW k \in Joins, joins'[k] # Absent
      PROVE  /\ joins'[k] \in GoodJoin(k)
             /\ entities'[joins'[k].src] # Absent /\ entities'[joins'[k].tgt] # Absent
  <2>1. joins'[k] = joins[k] /\ joins[k] # Absent /\ k \notin deadJoins
    BY <1>2, <1>9
  <2>2. joins[k].src \notin gone /\ joins[k].tgt \notin gone
    BY <1>3, <2>1 DEF Present
  <2>3. joins[k] \in GoodJoin(k) /\ entities[joins[k].src] # Absent /\ entities[joins[k].tgt] # Absent
    BY <2>1 DEF LayerInv
  <2>4. joins[k].src \in Entities /\ joins[k].tgt \in Entities
    BY <2>3, JoinFields DEF GoodJoin
  <2>5. QED
    BY <1>7, <2>1, <2>2, <2>3, <2>4
<1> HIDE DEF gone, deadJoins
<1>10. LayerInv'
  BY <1>1, <1>2, <1>3, <1>4, <1>5, <1>6, <1>8, <1>9 DEF LayerInv
<1>11. nodes' \subseteq {k \in Entities : entities'[k] # Absent}
  BY <1>2, <1>7 DEF GraphInv
<1>12. ASSUME NEW k \in Joins, edges'[k] # Absent
       PROVE  /\ joins'[k] # Absent /\ edges'[k] \in Ends
              /\ entities'[edges'[k].src] # Absent /\ entities'[edges'[k].tgt] # Absent
  <2>1. /\ edges'[k] = edges[k] /\ edges[k] # Absent /\ k \notin deadJoins
        /\ edges[k].src \notin gone /\ edges[k].tgt \notin gone
    BY <1>2, <1>12
  <2>2. /\ joins[k] # Absent /\ edges[k] \in Ends
        /\ entities[edges[k].src] # Absent /\ entities[edges[k].tgt] # Absent
    BY <2>1 DEF GraphInv
  <2>3. edges[k].src \in Entities /\ edges[k].tgt \in Entities
    BY <2>2 DEF Ends
  <2>4. joins'[k] # Absent
    BY <1>2, <2>1, <2>2
  <2>5. QED
    BY <1>7, <2>1, <2>2, <2>3, <2>4
<1>13. GraphInv'
  BY <1>2, <1>11, <1>12 DEF GraphInv
<1>14. QED
  BY <1>10, <1>13


LEMMA WriteKeeps ==
    ASSUME LayerInv, GraphInv, NEW i, GoodItem(i), i.kind # "drop",
           ForeignKeyHolds(i), UNCHANGED <<live, tables, graph, log>>,
           entities' = IF i.kind = "entity" THEN [entities EXCEPT ![i.key] = i.row] ELSE entities,
           metrics' = IF i.kind = "metric"
                      THEN [metrics EXCEPT ![i.key] = upsert_metric(i.key, i.row)] ELSE metrics,
           joins' = IF i.kind = "join" THEN [joins EXCEPT ![i.key] = i.row] ELSE joins
    PROVE  LayerInv' /\ GraphInv'
<1>1. CASE i.kind = "entity"
  <2>1. /\ i.key \in Entities /\ i.row \in GoodEntity(i.key)
        /\ entities' = [entities EXCEPT ![i.key] = i.row] /\ metrics' = metrics /\ joins' = joins
    BY <1>1 DEF GoodItem
  <2>2. i.row \in EntityRows /\ tables[i.row.table] # Absent
    BY <1>1, <2>1 DEF ForeignKeyHolds, GoodEntity
  <2>3. i.row # Absent
    BY <2>2, CurationAssumption
  <2>4. /\ DOMAIN entities' = Entities
        /\ \A k \in Entities : entities'[k] = IF k = i.key THEN i.row ELSE entities[k]
    BY <2>1 DEF LayerInv
  <2>5. \A k \in Entities : entities[k] # Absent => entities'[k] # Absent
    BY <2>3, <2>4
  <2>6. \A k \in Entities : entities'[k] # Absent =>
            entities'[k] \in GoodEntity(k) /\ tables'[entities'[k].table] # Absent
    BY <2>1, <2>2, <2>4 DEF LayerInv
  <2>7. \A k \in Metrics : metrics[k] # Absent =>
            metrics[k] \in GoodMetric(k) /\ entities'[metrics[k].entity] # Absent
    <3>1. \A k \in Metrics : metrics[k] # Absent => metrics[k].entity \in Entities
      BY MetricFields DEF LayerInv, GoodMetric
    <3>2. QED
      BY <2>5, <3>1 DEF LayerInv
  <2>8. \A k \in Joins : joins[k] # Absent =>
            /\ joins[k] \in GoodJoin(k)
            /\ entities'[joins[k].src] # Absent /\ entities'[joins[k].tgt] # Absent
    <3>1. \A k \in Joins : joins[k] # Absent => joins[k].src \in Entities /\ joins[k].tgt \in Entities
      BY JoinFields DEF LayerInv, GoodJoin
    <3>2. QED
      BY <2>5, <3>1 DEF LayerInv
  <2>9. LayerInv'
    BY <2>1, <2>4, <2>6, <2>7, <2>8 DEF LayerInv
  <2>10. GraphInv'
    <3>1. \A k \in Joins : edges[k] # Absent => edges[k].src \in Entities /\ edges[k].tgt \in Entities
      BY DEF GraphInv, Ends
    <3>2. QED
      BY <2>1, <2>5, <3>1 DEF GraphInv, graph
  <2>11. QED
    BY <2>9, <2>10
<1>2. CASE i.kind = "metric"
  <2> DEFINE u == upsert_metric(i.key, i.row)
  <2>1. /\ i.key \in Metrics /\ i.row \in GoodMetric(i.key)
        /\ metrics' = [metrics EXCEPT ![i.key] = u] /\ entities' = entities /\ joins' = joins
    BY <1>2 DEF GoodItem
  <2>2. entities[u.entity] # Absent
    BY <1>2 DEF ForeignKeyHolds
  <2>3. u \in GoodMetric(i.key)
    <3>1. CASE metrics[i.key] = Absent
      BY <2>1, <3>1 DEF upsert_metric
    <3>2. CASE metrics[i.key] # Absent
      <4> DEFINE e == metrics[i.key].entity
                 r == i.row
      <4>1. u = [r EXCEPT !.entity = e]
        BY <3>2 DEF upsert_metric
      <4>2. e \in Entities /\ Src(e) = Src(i.key)
        BY <2>1, <3>2, MetricFields DEF LayerInv, GoodMetric
      <4>3. r \in MetricRows /\ (r.origin = "dbt_import" \/ WellFormed(r))
        BY <2>1 DEF GoodMetric
      <4> HIDE DEF e, r, u
      <4>4. /\ u \in MetricRows /\ u.entity = e /\ u.measure = r.measure /\ u.time = r.time
            /\ u.grains = r.grains /\ u.origin = r.origin
        BY <4>1, <4>2, <4>3 DEF MetricRows
      <4>5. WellFormed(r) => WellFormed(u)
        BY <4>4 DEF WellFormed
      <4>6. QED
        BY <4>2, <4>3, <4>4, <4>5 DEF GoodMetric
    <3>3. QED
      BY <3>1, <3>2
  <2> HIDE DEF u
  <2>4. /\ DOMAIN metrics' = Metrics
        /\ \A k \in Metrics : metrics'[k] = IF k = i.key THEN u ELSE metrics[k]
    BY <2>1 DEF LayerInv
  <2>5. \A k \in Metrics : metrics'[k] # Absent =>
            metrics'[k] \in GoodMetric(k) /\ entities[metrics'[k].entity] # Absent
    BY <2>1, <2>2, <2>3, <2>4 DEF LayerInv
  <2>6. LayerInv'
    BY <2>1, <2>4, <2>5 DEF LayerInv
  <2>7. GraphInv'
    BY <2>1 DEF GraphInv, graph
  <2>8. QED
    BY <2>6, <2>7
<1>3. CASE i.kind = "join"
  <2>1. /\ i.row \in GoodJoin(i.key)
        /\ joins' = [joins EXCEPT ![i.key] = i.row] /\ entities' = entities /\ metrics' = metrics
    BY <1>3 DEF GoodItem
  <2>2. entities[i.row.src] # Absent /\ entities[i.row.tgt] # Absent
    BY <1>3 DEF ForeignKeyHolds
  <2>3. i.row # Absent
    BY <2>1, CurationAssumption DEF GoodJoin
  <2>4. /\ DOMAIN joins' = Joins
        /\ \A k \in Joins : joins'[k] = IF k = i.key THEN i.row ELSE joins[k]
    BY <2>1 DEF LayerInv
  <2>5. \A k \in Joins : joins'[k] # Absent =>
            /\ joins'[k] \in GoodJoin(k)
            /\ entities[joins'[k].src] # Absent /\ entities[joins'[k].tgt] # Absent
    BY <2>1, <2>2, <2>4 DEF LayerInv
  <2>6. LayerInv'
    BY <2>1, <2>4, <2>5 DEF LayerInv
  <2>7. GraphInv'
    BY <2>1, <2>3, <2>4 DEF GraphInv, graph
  <2>8. QED
    BY <2>6, <2>7
<1>4. QED
  BY <1>1, <1>2, <1>3 DEF GoodItem

LEMMA DropKeeps ==
    ASSUME LayerInv, NEW k, metrics' = [metrics EXCEPT ![k] = Absent],
           UNCHANGED <<live, tables, entities, joins, log>>
    PROVE  LayerInv'
<1>1. \A m \in Metrics : metrics'[m] = metrics[m] \/ metrics'[m] = Absent
  BY DEF LayerInv
<1>2. QED
  BY <1>1 DEF LayerInv

LEMMA RefreshKeeps ==
    ASSUME LayerInv, GraphInv, JobsInv, NEW p \in Procs, Running(p), job[p].snap # None,
           SnapHolds(job[p].snap), UNCHANGED layer,
           nodes' = {k \in nodes : Src(k) # job[p].src} \cup job[p].snap.nodes,
           edges' = [k \in Joins |-> IF Src(k) # job[p].src THEN edges[k]
                        ELSE IF k \in DOMAIN job[p].snap.edges THEN job[p].snap.edges[k] ELSE Absent]
    PROVE  GraphInv'
<1> DEFINE g == job[p].snap
<1>1. g \in Projections
  BY RunningJob DEF IsJob
<1>2. g.nodes \subseteq Entities /\ g.edges \in UNION {[S -> Ends] : S \in SUBSET Joins}
  BY <1>1 DEF Projections
<1>3. \A k \in DOMAIN g.edges : g.edges[k] \in Ends
  BY <1>2
<1>4. /\ g.nodes \subseteq Present(entities)
      /\ \A k \in DOMAIN g.edges :
            joins[k] # Absent /\ {g.edges[k].src, g.edges[k].tgt} \subseteq Present(entities)
  BY DEF SnapHolds
<1> HIDE DEF g
<1>5. Present(entities) = {k \in Entities : entities[k] # Absent}
  BY DEF Present, LayerInv
<1>6. nodes' \subseteq {k \in Entities : entities[k] # Absent}
  BY <1>4, <1>5 DEF GraphInv, g
<1>7. ASSUME NEW k \in Joins, edges'[k] # Absent
      PROVE  /\ joins[k] # Absent /\ edges'[k] \in Ends
             /\ entities[edges'[k].src] # Absent /\ entities[edges'[k].tgt] # Absent
  <2>1. CASE edges'[k] = edges[k]
    BY <1>7, <2>1 DEF GraphInv
  <2>2. CASE k \in DOMAIN g.edges /\ edges'[k] = g.edges[k]
    BY <1>3, <1>4, <1>5, <2>2
  <2>3. QED
    BY <1>7, <2>1, <2>2 DEF g
<1>8. QED
  BY <1>6, <1>7 DEF GraphInv, layer


-----------------------------------------------------------------------------
(* The store's invariant *)

StoreInv == LayerInv /\ GraphInv /\ TreeInv /\ JobsInv

CurationInv ==
    StoreInv /\ RefreshInv /\ ImportInv /\ ApplyLeavesGraphCurrent /\ Landed

StepOf(p) ==
    \/ CheckOwner(p) \/ WriteRefused(p) \/ WriteOne(p) \/ DropOne(p)
    \/ RefreshRead(p) \/ RefreshWrite(p) \/ ExportOne(p) \/ NextPart(p) \/ Done(p) \/ Die(p)

\* Every step is one from outside, the start or the report of a command, or one of a job.
LEMMA NextCases ==
    ASSUME StoreInv, Next
    PROVE  \/ \E t \in Tables : Ddl(t) \/ IndexTable(t)
           \/ \E s \in Sources : MineQueries(s)
           \/ \E p \in Procs : Begins(p) \/ Reports(p) \/ (Running(p) /\ StepOf(p))
<1>1. CASE \E p \in Procs : (\E s \in Sources : Command(p, s)) \/ StoreCommand(p)
  BY <1>1, CommandsBegin DEF StoreInv
<1>2. CASE \E p \in Procs : Step(p)
  BY <1>2 DEF Step, StepOf
<1>3. QED
  BY <1>1, <1>2 DEF Next

\* The start and the report of a command leave the store as it is.
LEMMA BeginFacts ==
    ASSUME JobsInv, NEW p \in Procs, Begins(p)
    PROVE  /\ UNCHANGED <<live, store, tree, last>> /\ Others({p}) /\ Fresh(job'[p])
<1>1. PICK j : Start(p, j) /\ Fresh(j)
  BY DEF Begins
<1>2. /\ job' = [job EXCEPT ![p] = j] /\ UNCHANGED <<live, store, tree, last>>
  BY <1>1 DEF Start
<1>3. Others({p}) /\ job'[p] = j
  BY <1>2 DEF Others, JobsInv
<1>4. QED
  BY <1>1, <1>2, <1>3

LEMMA ReportFact ==
    ASSUME JobsInv, NEW p, Reports(p)
    PROVE  /\ UNCHANGED <<live, store, job>> /\ TreeInv'
           /\ last'.cmd \notin Appliers \cup {"import"}
BY DEF Reports, Report

LEMMA ExitKeeps ==
    ASSUME StoreInv, NEW p \in Procs, Running(p), NEW n, Exit(p, n), UNCHANGED <<live, store>>, TreeInv'
    PROVE  StoreInv'
<1>1. LayerInv' /\ GraphInv'
  BY LayerUnchanged, GraphUnchanged DEF StoreInv, store
<1>2. Others({p}) /\ job'[p] = Idle
  BY ExitFacts DEF StoreInv
<1>3. JobsInv'
  BY <1>2, JobsKept DEF StoreInv
<1>4. QED
  BY <1>1, <1>3 DEF StoreInv

\* A job of p goes on as a job, and the tree is as it was.
LEMMA GoesOn ==
    ASSUME StoreInv, NEW p \in Procs, Running(p), Others({p}) \/ Disturbed({p}), IsJob(job'[p])
    PROVE  JobsInv'
BY JobsKept DEF StoreInv

LEMMA StepKeepsStore ==
    ASSUME StoreInv, NEW p \in Procs, Running(p), StepOf(p)
    PROVE  StoreInv'
<1>1. IsJob(job[p])
  BY RunningJob DEF StoreInv
<1>2. \A F : Differ(job'[p], job[p], F) => IsJob(job'[p])
  BY <1>1, StillJob
<1>3. UNCHANGED tree => TreeInv'
  BY DEF StoreInv, TreeInv
<1>4. CASE CheckOwner(p) \/ WriteRefused(p)
  <2>1. UNCHANGED <<live, store, tree>>
    BY <1>4, RefusedFacts DEF StoreInv
  <2>2. CASE Exit(p, 1) \/ Exit(p, 2)
    BY <1>3, <2>1, <2>2, ExitKeeps
  <2>3. CASE Others({p}) /\ IsJob(job'[p])
    BY <1>3, <2>1, <2>3, GoesOn, LayerUnchanged, GraphUnchanged DEF StoreInv, store
  <2>4. QED
    BY <1>2, <1>4, <2>2, <2>3, RefusedFacts DEF StoreInv, Skips
<1>5. CASE WriteOne(p)
  <2>1. UNCHANGED <<live, tables, graph, log, tree>> /\ Disturbed({p}) /\ IsJob(job'[p])
    BY <1>2, <1>5, WroteFacts DEF StoreInv
  <2>2. PICK i \in job[p].todo :
                 /\ GoodItem(i) /\ i.kind # "drop" /\ ForeignKeyHolds(i)
                 /\ job'[p].todo = job[p].todo \ {i}
                 /\ entities' = IF i.kind = "entity" THEN [entities EXCEPT ![i.key] = i.row] ELSE entities
                 /\ metrics' = IF i.kind = "metric"
                               THEN [metrics EXCEPT ![i.key] = upsert_metric(i.key, i.row)] ELSE metrics
                 /\ joins' = IF i.kind = "join" THEN [joins EXCEPT ![i.key] = i.row] ELSE joins
    BY <1>5, WroteFacts DEF StoreInv
  <2>3. LayerInv' /\ GraphInv'
    BY <2>1, <2>2, WriteKeeps DEF StoreInv
  <2>4. QED
    BY <1>3, <2>1, <2>3, GoesOn DEF StoreInv
<1>6. CASE DropOne(p)
  <2>1. UNCHANGED <<live, tables, entities, joins, graph, log, tree>>
    BY <1>6, DroppedFacts DEF StoreInv
  <2>2. Disturbed({p}) /\ IsJob(job'[p]) /\ \E k : metrics' = [metrics EXCEPT ![k] = Absent]
    BY <1>2, <1>6, DroppedFacts DEF StoreInv
  <2>3. LayerInv'
    BY <2>1, <2>2, DropKeeps DEF StoreInv
  <2>4. GraphInv'
    BY <2>1 DEF StoreInv, GraphInv, graph
  <2>5. QED
    BY <1>3, <2>1, <2>2, <2>3, <2>4, GoesOn DEF StoreInv
<1>7. CASE RefreshRead(p)
  <2>1. UNCHANGED <<live, store, tree>> /\ Others({p}) /\ IsJob(job'[p])
    BY <1>2, <1>7, ReadFacts DEF StoreInv
  <2>2. QED
    BY <1>3, <2>1, GoesOn, LayerUnchanged, GraphUnchanged DEF StoreInv, store
<1>8. CASE RefreshWrite(p)
  <2>1. UNCHANGED <<live, tables, layer, log, tree>> /\ job[p].snap # None
    BY <1>8, RefreshedFacts DEF StoreInv
  <2>2. CASE Exit(p, 2) /\ UNCHANGED graph
    BY <1>3, <2>1, <2>2, ExitKeeps DEF store
  <2>3. CASE ~(Exit(p, 2) /\ UNCHANGED graph)
    <3>1. /\ Disturbed({p}) /\ IsJob(job'[p]) /\ SnapHolds(job[p].snap)
          /\ nodes' = {k \in nodes : Src(k) # job[p].src} \cup job[p].snap.nodes
          /\ edges' = [k \in Joins |-> IF Src(k) # job[p].src THEN edges[k]
                          ELSE IF k \in DOMAIN job[p].snap.edges THEN job[p].snap.edges[k] ELSE Absent]
      BY <1>2, <1>8, <2>3, RefreshedFacts DEF StoreInv
    <3>2. LayerInv'
      BY <2>1, LayerUnchanged DEF StoreInv
    <3>3. GraphInv'
      BY <2>1, <3>1, RefreshKeeps DEF StoreInv
    <3>4. QED
      BY <1>3, <2>1, <3>1, <3>2, <3>3, GoesOn DEF StoreInv
  <2>4. QED
    BY <2>2, <2>3
<1>9. CASE ExportOne(p)
  <2>1. UNCHANGED <<live, store>> /\ TreeInv'
    BY <1>9, ExportedFacts DEF StoreInv
  <2>2. CASE Exit(p, 2)
    BY <2>1, <2>2, ExitKeeps
  <2>3. CASE Others({p}) /\ IsJob(job'[p])
    BY <2>1, <2>3, GoesOn, LayerUnchanged, GraphUnchanged DEF StoreInv, store
  <2>4. QED
    BY <1>2, <1>9, <2>2, <2>3, ExportedFacts DEF StoreInv
<1>10. CASE NextPart(p)
  <2>1. UNCHANGED <<live, store, tree>> /\ Others({p}) /\ IsJob(job'[p])
    BY <1>10, PartStarts DEF StoreInv
  <2>2. QED
    BY <1>3, <2>1, GoesOn, LayerUnchanged, GraphUnchanged DEF StoreInv, store
<1>11. CASE Done(p)
  BY <1>3, <1>11, ExitKeeps DEF Done
<1>12. CASE Die(p)
  BY <1>3, <1>12, ExitKeeps DEF Die
<1>13. QED
  BY <1>4, <1>5, <1>6, <1>7, <1>8, <1>9, <1>10, <1>11, <1>12 DEF StepOf

LEMMA MineKeeps ==
    ASSUME LayerInv, NEW s, MineQueries(s)
    PROVE  log' \in [Tables \X Statements -> 0..MaxCalls] /\ UNCHANGED <<live, tables, layer, graph, tree, job>>
           /\ last'.cmd = "mine"
<1>1. PICK calls \in 1..MaxCalls, seen \in SUBSET Statements :
          log' = write_example_queries(mine_queries(seen, s), calls)
  BY DEF MineQueries
<1>2. MaxCalls \in Nat
  BY CurationAssumption
<1>3. log \in [Tables \X Statements -> 0..MaxCalls]
  BY DEF LayerInv
<1> DEFINE rows == mine_queries(seen, s)
<1>4. log' = [r \in DOMAIN log |-> IF r \in rows /\ log[r] < calls THEN calls ELSE log[r]]
  BY <1>1 DEF write_example_queries
<1> HIDE DEF rows
<1>5. log' \in [Tables \X Statements -> 0..MaxCalls]
  BY <1>2, <1>3, <1>4
<1>6. QED
  BY <1>5 DEF MineQueries, Rc

LEMMA InitStore ==
    ASSUME Init
    PROVE  StoreInv
<1>1. TreeInv
  BY TreesAreGood DEF Init
<1>2. MaxCalls \in Nat /\ Schemas \subseteq [Tables -> Shapes]
  BY CurationAssumption
<1>3. live \in [Tables -> Shapes \cup {Absent}] /\ tables \in [Tables -> Shapes \cup {Absent}]
  BY <1>2 DEF Init
<1>4. log \in [Tables \X Statements -> 0..MaxCalls]
  BY <1>2 DEF Init, NoLog
<1>5. LayerInv
  BY <1>3, <1>4 DEF Init, LayerInv, EmptyRows
<1>6. GraphInv
  BY DEF Init, GraphInv, EmptyRows
<1>7. JobsInv
  BY DEF Init, JobsInv
<1>8. QED
  BY <1>1, <1>5, <1>6, <1>7 DEF StoreInv

LEMMA NextStore ==
    ASSUME StoreInv, [Next]_vars
    PROVE  StoreInv'
<1>1. UNCHANGED tree => TreeInv'
  BY DEF StoreInv, TreeInv
<1>2. ASSUME NEW t \in Tables, Ddl(t)
      PROVE  StoreInv'
  <2>1. UNCHANGED <<store, tree>>
    BY <1>2 DEF Ddl
  <2>2. live' \in [Tables -> Shapes \cup {Absent}]
    BY <1>2 DEF Ddl, StoreInv, LayerInv
  <2>3. LayerInv'
    BY <2>1, <2>2 DEF StoreInv, LayerInv, store, layer
  <2>4. Disturbed({})
    BY <1>2, OutsideDisturbs DEF StoreInv, Ddl
  <2>5. JobsInv'
    BY <2>4, JobsKept DEF StoreInv
  <2>6. QED
    BY <1>1, <2>1, <2>3, <2>5, GraphUnchanged DEF StoreInv, store
<1>3. ASSUME NEW t \in Tables, IndexTable(t)
      PROVE  StoreInv'
  <2>1. LayerInv' /\ GraphInv'
    BY <1>3, IndexKeeps DEF StoreInv
  <2>2. Disturbed({})
    BY <1>3, OutsideDisturbs DEF StoreInv, IndexTable
  <2>3. JobsInv'
    BY <2>2, JobsKept DEF StoreInv
  <2>4. QED
    BY <1>1, <1>3, <2>1, <2>3 DEF StoreInv, IndexTable
<1>4. ASSUME NEW s, MineQueries(s)
      PROVE  StoreInv'
  <2>1. /\ log' \in [Tables \X Statements -> 0..MaxCalls]
        /\ UNCHANGED <<live, tables, layer, graph, tree, job>>
    BY <1>4, MineKeeps DEF StoreInv
  <2>2. LayerInv'
    BY <2>1 DEF StoreInv, LayerInv, layer
  <2>3. JobsInv'
    BY <2>1 DEF StoreInv, JobsInv
  <2>4. QED
    BY <1>1, <2>1, <2>2, <2>3, GraphUnchanged DEF StoreInv
<1>5. ASSUME NEW p \in Procs, Begins(p)
      PROVE  StoreInv'
  <2>1. UNCHANGED <<live, store, tree>> /\ Others({p}) /\ IsJob(job'[p])
    BY <1>5, BeginFacts DEF StoreInv, Fresh
  <2>2. JobsInv'
    BY <2>1, JobsKept DEF StoreInv
  <2>3. QED
    BY <1>1, <2>1, <2>2, LayerUnchanged, GraphUnchanged DEF StoreInv, store
<1>6. ASSUME NEW p \in Procs, Reports(p)
      PROVE  StoreInv'
  <2>1. UNCHANGED <<live, store, job>> /\ TreeInv'
    BY <1>6, ReportFact DEF StoreInv
  <2>2. JobsInv'
    BY <2>1 DEF StoreInv, JobsInv
  <2>3. QED
    BY <2>1, <2>2, LayerUnchanged, GraphUnchanged DEF StoreInv, store
<1>7. CASE UNCHANGED vars
  <2>1. UNCHANGED <<live, store, tree, job>>
    BY <1>7 DEF vars
  <2>2. JobsInv'
    BY <2>1 DEF StoreInv, JobsInv
  <2>3. QED
    BY <1>1, <2>1, <2>2, LayerUnchanged, GraphUnchanged DEF StoreInv, store
<1>8. QED
  BY <1>2, <1>3, <1>4, <1>5, <1>6, <1>7, NextCases, StepKeepsStore

LEMMA RowSets ==
    ASSUME LayerInv
    PROVE  /\ Present(entities) = {k \in Entities : entities[k] # Absent}
           /\ Present(metrics) = {k \in Metrics : metrics[k] # Absent}
           /\ Present(joins) = {k \in Joins : joins[k] # Absent}
BY DEF Present, LayerInv

\* Whatever the commands of several processes, the user's own changes of the database and
\* `index` do in between, the rows of the store are well formed and what they refer to is
\* there, a file in the project tree parses to a row that may be stored under its name or
\* is refused, and a running command only has such rows left to write.
THEOREM StoreInvariant == Spec => []StoreInv
<1>1. Init => StoreInv
  BY InitStore
<1>2. StoreInv /\ [Next]_vars => StoreInv'
  BY NextStore
<1>3. QED
  BY <1>1, <1>2, PTL DEF Spec

\* Every reference between tables of the store resolves in every state: the deletions of
\* `index` take along what hangs on a table, and SQLite's foreign keys refuse the rest.
THEOREM CurationTypes == Spec => []TypeOK
<1>1. ASSUME StoreInv PROVE TypeOK
  <2>1. /\ Present(entities) = {k \in Entities : entities[k] # Absent}
        /\ Present(metrics) = {k \in Metrics : metrics[k] # Absent}
        /\ Present(joins) = {k \in Joins : joins[k] # Absent}
    BY <1>1, RowSets DEF StoreInv
  <2>2. Present(edges) = {k \in Joins : edges[k] # Absent}
    BY <1>1 DEF Present, StoreInv, GraphInv
  <2>3. \A k \in Present(entities) : tables[entities[k].table] # Absent
    BY <1>1, <2>1 DEF StoreInv, LayerInv
  <2>4. \A k \in Present(metrics) : metrics[k].entity \in Present(entities)
    <3>1. \A k \in Metrics : metrics[k] # Absent => metrics[k].entity \in Entities
      BY <1>1, MetricFields DEF StoreInv, LayerInv, GoodMetric
    <3>2. QED
      BY <1>1, <2>1, <3>1 DEF StoreInv, LayerInv
  <2>5. \A k \in Present(joins) : {joins[k].src, joins[k].tgt} \subseteq Present(entities)
    <3>1. \A k \in Joins : joins[k] # Absent => joins[k].src \in Entities /\ joins[k].tgt \in Entities
      BY <1>1, JoinFields DEF StoreInv, LayerInv, GoodJoin
    <3>2. QED
      BY <1>1, <2>1, <3>1 DEF StoreInv, LayerInv
  <2>6. \A k \in Present(edges) : /\ k \in Present(joins)
                                  /\ {edges[k].src, edges[k].tgt} \subseteq Present(entities)
    <3>1. \A k \in Joins : edges[k] # Absent => edges[k].src \in Entities /\ edges[k].tgt \in Entities
      BY <1>1 DEF StoreInv, GraphInv, Ends
    <3>2. QED
      BY <1>1, <2>1, <2>2, <3>1 DEF StoreInv, GraphInv
  <2>7. QED
    BY <1>1, <2>1, <2>3, <2>4, <2>5, <2>6 DEF TypeOK, StoreInv, LayerInv, GraphInv
<1>2. StoreInv => TypeOK
  BY <1>1
<1>3. QED
  BY <1>2, StoreInvariant, PTL

\* What export writes for a stored definition that dbt does not own, or for any entity,
\* apply's parser reads as that definition: the two directions of core/yaml agree on every
\* row the store can hold.
THEOREM CurationRoundTrip == Spec => []ExportedFilesParse
<1>1. StoreInv => ExportedFilesParse
  BY ExportsParse DEF StoreInv
<1>2. QED
  BY <1>1, StoreInvariant, PTL

\* `check` calls a source clean exactly when every definition in it holds against the live
\* schema, whichever of its definitions hide others.
THEOREM CurationCheck == Spec => []CheckIsExact
<1>1. StoreInv => CheckIsExact
  BY ChecksAreExact DEF StoreInv
<1>2. QED
  BY <1>1, StoreInvariant, PTL

-----------------------------------------------------------------------------
(* dbt's rows *)

LEMMA IndexKeepsDbt ==
    ASSUME LayerInv, NEW t \in Tables, IndexTable(t)
    PROVE  /\ \A k \in Entities : entities[k] # Absent =>
                 \/ entities'[k] = entities[k]
                 \/ tables'[entities[k].table] # tables[entities[k].table]
           /\ \A k \in Metrics : metrics[k] # Absent =>
                 metrics'[k] = metrics[k] \/ entities'[metrics[k].entity] = Absent
<1> DEFINE gone == {e \in Present(entities) : entities[e].table = t}
<1>1. CascadeEntities(gone) /\ tables'[t] # tables[t]
  <2>1. CascadeEntities(gone) /\ live[t] # tables[t] /\ tables' = [tables EXCEPT ![t] = live[t]]
    BY DEF IndexTable
  <2>2. QED
    BY <2>1 DEF LayerInv
<1>2. gone \subseteq Entities /\ \A k \in gone : entities[k].table = t
  BY RowSets
<1> HIDE DEF gone
<1>3. /\ entities' = [e \in Entities |-> IF e \in gone THEN Absent ELSE entities[e]]
      /\ metrics' = [m \in Metrics |->
             IF metrics[m] # Absent /\ metrics[m].entity \in gone THEN Absent ELSE metrics[m]]
  BY <1>1 DEF CascadeEntities
<1>4. QED
  BY <1>1, <1>2, <1>3

\* An item that dbt does not own replaces or removes only what its guard has seen.
LEMMA GuardedItem ==
    ASSUME JobsInv, NEW p \in Procs, Running(p), NEW i \in job[p].passed,
           job'[p].todo = job[p].todo \ {i}, NEW row, row # Absent, row.origin = "dbt_import"
    PROVE  Overtaken(i.key, row)
<1>1. PassedGuard(job[p])
  BY RunningJob DEF IsJob
<1>2. job[p].saw # row
  BY <1>1 DEF PassedGuard
<1>3. i \notin job'[p].todo
  OBVIOUS
<1>4. QED
  BY <1>2, <1>3 DEF Overtaken

LEMMA WriteKeepsDbt ==
    ASSUME StoreInv, NEW p \in Procs, Running(p), NEW i \in job[p].todo, GoodItem(i),
           Guarded(i) => i \in job[p].passed, job'[p].todo = job[p].todo \ {i},
           entities' = IF i.kind = "entity" THEN [entities EXCEPT ![i.key] = i.row] ELSE entities,
           metrics' = IF i.kind = "metric"
                      THEN [metrics EXCEPT ![i.key] = upsert_metric(i.key, i.row)] ELSE metrics
    PROVE  /\ \A k \in Entities : entities[k] # Absent /\ entities[k].origin = "dbt_import" =>
                 \/ entities'[k] # Absent /\ entities'[k].origin = "dbt_import"
                 \/ Overtaken(k, entities[k])
           /\ \A k \in Metrics : metrics[k] # Absent /\ metrics[k].origin = "dbt_import" =>
                 \/ metrics'[k] # Absent /\ metrics'[k].origin = "dbt_import"
                 \/ Overtaken(k, metrics[k])
<1>1. JobsInv /\ LayerInv
  BY DEF StoreInv
<1>2. i.kind \in {"entity", "metric"} /\ i.row.origin # "dbt_import" =>
          \A row : row # Absent /\ row.origin = "dbt_import" => Overtaken(i.key, row)
  BY <1>1, GuardedItem DEF Guarded
<1>3. ASSUME NEW k \in Entities, entities[k] # Absent, entities[k].origin = "dbt_import"
      PROVE  \/ entities'[k] # Absent /\ entities'[k].origin = "dbt_import"
             \/ Overtaken(k, entities[k])
  <2>1. CASE i.kind # "entity" \/ k # i.key
    BY <1>3, <2>1
  <2>2. CASE i.kind = "entity" /\ k = i.key
    <3>1. i.row \in EntityRows /\ entities'[k] = i.row
      BY <1>1, <2>2 DEF GoodItem, GoodEntity, LayerInv
    <3>2. i.row # Absent
      BY <3>1, CurationAssumption
    <3>3. QED
      BY <1>2, <1>3, <2>2, <3>1, <3>2
  <2>3. QED
    BY <2>1, <2>2
<1>4. ASSUME NEW k \in Metrics, metrics[k] # Absent, metrics[k].origin = "dbt_import"
      PROVE  \/ metrics'[k] # Absent /\ metrics'[k].origin = "dbt_import"
             \/ Overtaken(k, metrics[k])
  <2>1. CASE i.kind # "metric" \/ k # i.key
    BY <1>4, <2>1
  <2>2. CASE i.kind = "metric" /\ k = i.key
    <3> DEFINE e == metrics[i.key].entity
               r == i.row
               u == [r EXCEPT !.entity = e]
    <3>1. metrics'[k] = u
      BY <1>1, <1>4, <2>2 DEF upsert_metric, LayerInv
    <3>2. r \in MetricRows
      BY <2>2 DEF GoodItem, GoodMetric
    <3>3. e \in Entities
      BY <1>1, <1>4, <2>2, MetricFields DEF LayerInv, GoodMetric
    <3>4. r.origin # "dbt_import" => Overtaken(k, metrics[k])
      BY <1>2, <1>4, <2>2
    <3> HIDE DEF e, r
    <3>5. u \in MetricRows /\ u.origin = r.origin
      BY <3>2, <3>3 DEF MetricRows
    <3> HIDE DEF u
    <3>6. u # Absent
      BY <3>5, CurationAssumption
    <3>7. QED
      BY <3>1, <3>4, <3>5, <3>6
  <2>3. QED
    BY <2>1, <2>2
<1>5. QED
  BY <1>3, <1>4

\* The two halves of the property, with the rows that are gone for a reason.
EntityStays(k) ==
    \/ entities'[k] # Absent /\ entities'[k].origin = "dbt_import"
    \/ tables'[entities[k].table] # tables[entities[k].table]
    \/ Overtaken(k, entities[k])
MetricStays(k) ==
    \/ metrics'[k] # Absent /\ metrics'[k].origin = "dbt_import"
    \/ entities'[metrics[k].entity] = Absent
    \/ Overtaken(k, metrics[k])
RowsStay ==
    /\ \A k \in Entities : entities[k] # Absent /\ entities[k].origin = "dbt_import" => EntityStays(k)
    /\ \A k \in Metrics : metrics[k] # Absent /\ metrics[k].origin = "dbt_import" => MetricStays(k)

LEMMA StepKeepsDbt ==
    ASSUME StoreInv, NEW p \in Procs, Running(p), StepOf(p)
    PROVE  RowsStay
<1>1. UNCHANGED <<entities, metrics>> => RowsStay
  BY DEF RowsStay, EntityStays, MetricStays
<1>2. CASE WriteOne(p)
  <2>1. PICK i \in job[p].todo :
                 /\ GoodItem(i) /\ i.kind # "drop"
                 /\ Guarded(i) => i \in job[p].passed
                 /\ job'[p].todo = job[p].todo \ {i}
                 /\ entities' = IF i.kind = "entity" THEN [entities EXCEPT ![i.key] = i.row] ELSE entities
                 /\ metrics' = IF i.kind = "metric"
                               THEN [metrics EXCEPT ![i.key] = upsert_metric(i.key, i.row)] ELSE metrics
    BY <1>2, WroteFacts DEF StoreInv
  <2>2. QED
    BY <2>1, WriteKeepsDbt DEF RowsStay, EntityStays, MetricStays
<1>3. CASE DropOne(p)
  <2>1. PICK i \in job[p].todo :
            /\ i \in job[p].passed /\ job'[p].todo = job[p].todo \ {i}
            /\ metrics' = [metrics EXCEPT ![i.key] = Absent]
    BY <1>3, DroppedFacts DEF StoreInv
  <2>2. entities' = entities
    BY <1>3 DEF DropOne
  <2>3. ASSUME NEW k \in Metrics, metrics[k] # Absent, metrics[k].origin = "dbt_import"
        PROVE  MetricStays(k)
    <3>1. CASE k # i.key
      BY <2>1, <2>3, <3>1 DEF MetricStays
    <3>2. CASE k = i.key
      BY <2>1, <2>3, <3>2, GuardedItem DEF MetricStays, StoreInv
    <3>3. QED
      BY <3>1, <3>2
  <2>4. QED
    BY <2>2, <2>3 DEF RowsStay, EntityStays
<1>4. CASE CheckOwner(p) \/ WriteRefused(p) \/ RefreshRead(p) \/ ExportOne(p) \/ NextPart(p) \/ Done(p) \/ Die(p)
  BY <1>1, <1>4 DEF CheckOwner, WriteRefused, RefreshRead, ExportOne, NextPart, Done, Die, store, layer
<1>5. CASE RefreshWrite(p)
  BY <1>1, <1>5, RefreshedFacts DEF StoreInv, layer
<1>6. QED
  BY <1>2, <1>3, <1>4, <1>5 DEF StepOf

LEMMA NextKeepsDbt ==
    ASSUME StoreInv, [Next]_vars
    PROVE  RowsStay
<1>1. UNCHANGED <<entities, metrics>> => RowsStay
  BY DEF RowsStay, EntityStays, MetricStays
<1>2. ASSUME NEW t \in Tables, Ddl(t) PROVE RowsStay
  BY <1>1, <1>2 DEF Ddl, store, layer
<1>3. ASSUME NEW t \in Tables, IndexTable(t) PROVE RowsStay
  BY <1>3, IndexKeepsDbt DEF StoreInv, RowsStay, EntityStays, MetricStays
<1>4. ASSUME NEW s, MineQueries(s) PROVE RowsStay
  BY <1>1, <1>4 DEF MineQueries, layer
<1>5. ASSUME NEW p \in Procs, Begins(p) \/ Reports(p) PROVE RowsStay
  BY <1>1, <1>5, BeginFacts, ReportFact DEF StoreInv, store, layer
<1>6. CASE UNCHANGED vars
  BY <1>1, <1>6 DEF vars, store, layer
<1>7. CASE Next
  BY <1>2, <1>3, <1>4, <1>5, <1>7, NextCases, StepKeepsDbt
<1>8. QED
  BY <1>6, <1>7

\* An entity or metric that dbt owns is taken over or dropped by an apply, a suggestion
\* or an audit only past a guard that read another row, before dbt's import came in.
\* Every other loss is the work of `index`: an entity goes with its table, a metric with
\* its entity.
THEOREM CurationDbtRows == Spec => DbtRowsStayDbt
<1> DEFINE Stays ==
        /\ \A k \in Present(entities) :
             entities[k].origin = "dbt_import" =>
                 \/ entities'[k] # Absent /\ entities'[k].origin = "dbt_import"
                 \/ tables'[entities[k].table] # tables[entities[k].table]
                 \/ Overtaken(k, entities[k])
        /\ \A k \in Present(metrics) :
             metrics[k].origin = "dbt_import" =>
                 \/ metrics'[k] # Absent /\ metrics'[k].origin = "dbt_import"
                 \/ entities'[metrics[k].entity] = Absent
                 \/ Overtaken(k, metrics[k])
<1>1. ASSUME StoreInv, [Next]_vars
      PROVE  Stays
  <2>1. RowsStay
    BY <1>1, NextKeepsDbt
  <2>2. Present(entities) = {k \in Entities : entities[k] # Absent}
        /\ Present(metrics) = {k \in Metrics : metrics[k] # Absent}
    BY <1>1, RowSets DEF StoreInv
  <2>3. QED
    BY <2>1, <2>2 DEF RowsStay, EntityStays, MetricStays
<1>2. StoreInv /\ [Next]_vars => [Stays]_vars
  BY <1>1
<1>3. QED
  BY <1>2, StoreInvariant, PTL DEF Spec, DbtRowsStayDbt

-----------------------------------------------------------------------------
(* The graph projection and the import *)

\* A step of a job ends it by Done, or with an exit code that promises nothing, or the
\* job goes on.
LEMMA StepEnds ==
    ASSUME StoreInv, NEW p \in Procs, Running(p), StepOf(p)
    PROVE  \/ Running(p)'
           \/ Exit(p, 2)
           \/ Exit(p, 1) /\ job[p].cmd \notin Appliers
           \/ Done(p)
<1>1. IsJob(job[p])
  BY RunningJob DEF StoreInv
<1>2. \A q : IsJob(q) => q.cmd # "idle"
  BY DEF IsJob, Commands, Appliers
<1>3. \A F : Differ(job'[p], job[p], F) => Running(p)'
  BY <1>1, <1>2, StillJob DEF Running
<1>4. CASE CheckOwner(p) \/ WriteRefused(p)
  BY <1>3, <1>4, RefusedFacts DEF StoreInv, Skips
<1>5. CASE WriteOne(p)
  BY <1>3, <1>5, WroteFacts DEF StoreInv
<1>6. CASE DropOne(p)
  BY <1>3, <1>6, DroppedFacts DEF StoreInv
<1>7. CASE RefreshRead(p)
  BY <1>3, <1>7, ReadFacts DEF StoreInv
<1>8. CASE RefreshWrite(p)
  BY <1>3, <1>8, RefreshedFacts DEF StoreInv
<1>9. CASE ExportOne(p)
  BY <1>3, <1>9, ExportedFacts DEF StoreInv
<1>10. CASE NextPart(p)
  BY <1>2, <1>10, PartStarts DEF StoreInv, Running
<1>11. CASE Done(p)
  BY <1>11
<1>12. CASE Die(p)
  BY <1>12 DEF Die
<1>13. QED
  BY <1>4, <1>5, <1>6, <1>7, <1>8, <1>9, <1>10, <1>11, <1>12 DEF StepOf

\* Nobody else's job is concerned: it is as it was, and so are the layer and the graph,
\* or it has been disturbed.
LEMMA OthersRefreshing ==
    ASSUME JobsInv, RefreshInv, NEW S,
           Disturbed(S) \/ (Others(S) /\ UNCHANGED <<layer, graph>>),
           \A p \in Procs \cap S : Running(p)' => Refreshing(p)'
    PROVE  RefreshInv'
<1>1. SUFFICES ASSUME NEW q \in Procs \ S, Running(q)' PROVE Refreshing(q)'
  BY DEF RefreshInv
<1>2. CASE job'[q] = job[q] /\ UNCHANGED <<layer, graph>>
  <2>1. Running(q)
    BY <1>1, <1>2 DEF Running
  <2>2. Refreshing(q)
    BY <2>1 DEF RefreshInv
  <2>3. QED
    BY <1>2, <2>2 DEF Refreshing, SnapCurrent, GraphCurrent, RowsOf, Rows, Present, layer, graph
<1>3. CASE Running(q) /\ Differ(job'[q], job[q], {"alone"}) /\ ~job'[q].alone
  <2>1. Refreshing(q)
    BY <1>3 DEF RefreshInv
  <2>2. /\ job'[q].cmd = job[q].cmd /\ job'[q].todo = job[q].todo /\ job'[q].snap = job[q].snap
        /\ job'[q].graphed <=> job[q].graphed
    BY <1>3, Kept
  <2>3. QED
    BY <1>3, <2>1, <2>2 DEF Refreshing
<1>4. CASE job'[q] = job[q] /\ ~Running(q)
  BY <1>1, <1>4 DEF Running
<1>5. QED
  BY <1>2, <1>3, <1>4 DEF Others, Disturbed

LEMMA OthersImporting ==
    ASSUME JobsInv, ImportInv, NEW S,
           Disturbed(S) \/ (Others(S) /\ UNCHANGED <<live, layer>>),
           \A p \in Procs \cap S : Running(p)' => Importing(p)'
    PROVE  ImportInv'
<1>1. SUFFICES ASSUME NEW q \in Procs \ S, Running(q)' PROVE Importing(q)'
  BY DEF ImportInv
<1>2. CASE job'[q] = job[q] /\ UNCHANGED <<live, layer>>
  <2>1. Running(q)
    BY <1>1, <1>2 DEF Running
  <2>2. Importing(q)
    BY <2>1 DEF ImportInv
  <2>3. QED
    BY <1>2, <2>2 DEF Importing, Lands, Present, layer
<1>3. CASE Running(q) /\ Differ(job'[q], job[q], {"alone"}) /\ ~job'[q].alone
  BY <1>3 DEF Importing
<1>4. CASE job'[q] = job[q] /\ ~Running(q)
  BY <1>1, <1>4 DEF Running
<1>5. QED
  BY <1>2, <1>3, <1>4 DEF Others, Disturbed

\* A refresh whose reads are current makes the graph current.
LEMMA RefreshCatchesUp ==
    ASSUME LayerInv, NEW s, NEW g, g \in Projections, SnapCurrent(g, s), UNCHANGED layer,
           nodes \subseteq Entities, DOMAIN edges = Joins,
           nodes' = {k \in nodes : Src(k) # s} \cup g.nodes,
           edges' = [k \in Joins |-> IF Src(k) # s THEN edges[k]
                        ELSE IF k \in DOMAIN g.edges THEN g.edges[k] ELSE Absent]
    PROVE  GraphCurrent(s)'
<1> DEFINE E == RowsOf("entities", s)
           J == RowsOf("joins", s)
<1>1. g.nodes = E /\ DOMAIN g.edges = J
      /\ \A k \in J : g.edges[k] = [src |-> joins[k].src, tgt |-> joins[k].tgt]
  BY DEF SnapCurrent
<1>2. \A k \in E : Src(k) = s
  BY DEF RowsOf
<1>3. \A k \in J : Src(k) = s /\ k \in Joins
  BY RowSets DEF RowsOf, Rows
<1>4. \A k \in J : g.edges[k] \in Ends
  BY <1>1 DEF Projections
<1>5. \A k \in J : g.edges[k] # Absent
  BY <1>4, CurationAssumption
<1>6. RowsOf("entities", s)' = E /\ RowsOf("joins", s)' = J
  BY DEF RowsOf, Rows, Present, layer
<1> HIDE DEF E, J
<1>7. {k \in nodes' : Src(k) = s} = E
  BY <1>1, <1>2
<1>8. Present(edges') = {k \in Joins : edges'[k] # Absent}
  BY DEF Present
<1>9. {k \in Present(edges') : Src(k) = s} = J
  BY <1>1, <1>3, <1>5, <1>8
<1>10. \A k \in J : edges'[k] = g.edges[k]
  BY <1>1, <1>3
<1>11. ASSUME NEW k \in J
       PROVE  edges'[k].src = joins[k].src /\ edges'[k].tgt = joins[k].tgt
  <2>1. edges'[k] = [src |-> joins[k].src, tgt |-> joins[k].tgt]
    BY <1>1, <1>10
  <2>2. QED
    BY <2>1
<1>12. QED
  BY <1>6, <1>7, <1>9, <1>11 DEF GraphCurrent, layer

LEMMA StepKeepsRefresh ==
    ASSUME StoreInv, RefreshInv, NEW p \in Procs, Running(p), StepOf(p)
    PROVE  RefreshInv'
<1>1. JobsInv /\ LayerInv /\ GraphInv /\ TreeInv /\ IsJob(job[p]) /\ Refreshing(p)
  BY RunningJob DEF StoreInv, RefreshInv
<1>2. \A n : Exit(p, n) /\ UNCHANGED <<layer, graph>> => RefreshInv'
  <2>1. ~(Idle.cmd # "idle")
    BY DEF Idle
  <2>2. ASSUME NEW n, Exit(p, n), UNCHANGED <<layer, graph>> PROVE RefreshInv'
    <3>1. Others({p}) /\ job'[p] = Idle
      BY <1>1, <2>2, ExitFacts
    <3>2. ~Running(p)'
      BY <2>1, <3>1 DEF Running
    <3>3. QED
      BY <1>1, <2>2, <3>1, <3>2, OthersRefreshing
  <2>3. QED
    BY <2>2
<1>3. ASSUME Disturbed({p}) \/ (Others({p}) /\ UNCHANGED <<layer, graph>>), Refreshing(p)'
      PROVE  RefreshInv'
  BY <1>1, <1>3, OthersRefreshing
<1>4. ASSUME NEW F, Differ(job'[p], job[p], F), {"snap", "graphed"} \cap F = {},
             job[p].todo # {} \/ job[p].cmd \notin Appliers
      PROVE  Refreshing(p)'
  <2>1. job[p].snap = None /\ ~job[p].graphed
    BY <1>1, <1>4 DEF Refreshing
  <2>2. job'[p].snap = None /\ ~job'[p].graphed
    BY <1>4, <2>1, Kept
  <2>3. QED
    BY <2>2 DEF Refreshing
<1>5. CASE CheckOwner(p) \/ WriteRefused(p)
  <2>1. UNCHANGED <<layer, graph>>
    BY <1>1, <1>5, RefusedFacts DEF store
  <2>2. CASE Exit(p, 1) \/ Exit(p, 2)
    BY <1>2, <2>1, <2>2
  <2>3. CASE Skips(p)
    BY <1>3, <1>4, <2>1, <2>3 DEF Skips
  <2>4. QED
    BY <1>1, <1>5, <2>2, <2>3, RefusedFacts
<1>6. CASE WriteOne(p)
  <2>1. Disturbed({p}) /\ Differ(job'[p], job[p], {"todo", "passed", "saw", "wrote"}) /\ job[p].todo # {}
    BY <1>1, <1>6, WroteFacts
  <2>2. QED
    BY <1>3, <1>4, <2>1
<1>7. CASE DropOne(p)
  <2>1. Disturbed({p}) /\ Differ(job'[p], job[p], {"todo", "passed", "saw"}) /\ job[p].todo # {}
    BY <1>1, <1>7, DroppedFacts
  <2>2. QED
    BY <1>3, <1>4, <2>1
<1>8. CASE RefreshRead(p)
  <2>1. /\ UNCHANGED <<layer, graph>> /\ Others({p}) /\ Differ(job'[p], job[p], {"snap"})
        /\ job[p].todo = {} /\ job[p].cmd \in Appliers
        /\ SnapCurrent(job'[p].snap, job[p].src)
    BY <1>1, <1>8, ReadFacts DEF store
  <2>2. ~job[p].graphed
    BY <1>8 DEF RefreshRead
  <2>3. /\ job'[p].cmd = job[p].cmd /\ job'[p].src = job[p].src /\ job'[p].todo = job[p].todo
        /\ ~job'[p].graphed
    BY <2>1, <2>2, Kept
  <2>4. SnapCurrent(job[p].snap, job[p].src)'
    BY <2>1, <2>3 DEF SnapCurrent, RowsOf, Rows, Present, layer
  <2>5. Refreshing(p)'
    BY <2>1, <2>3, <2>4 DEF Refreshing
  <2>6. QED
    BY <1>3, <2>1, <2>5
<1>9. CASE RefreshWrite(p)
  <2>1. UNCHANGED layer /\ job[p].snap # None
    BY <1>1, <1>9, RefreshedFacts
  <2>2. CASE Exit(p, 2) /\ UNCHANGED graph
    BY <1>2, <2>1, <2>2
  <2>3. CASE ~(Exit(p, 2) /\ UNCHANGED graph)
    <3> DEFINE g == job[p].snap
               s == job[p].src
    <3>1. /\ Disturbed({p}) /\ Differ(job'[p], job[p], {"graphed", "snap"})
          /\ job'[p].snap = None /\ job'[p].graphed
          /\ nodes' = {k \in nodes : Src(k) # s} \cup g.nodes
          /\ edges' = [k \in Joins |-> IF Src(k) # s THEN edges[k]
                          ELSE IF k \in DOMAIN g.edges THEN g.edges[k] ELSE Absent]
      BY <1>1, <1>9, <2>3, RefreshedFacts
    <3>2. /\ job'[p].cmd = job[p].cmd /\ job'[p].src = s /\ job'[p].todo = job[p].todo
          /\ job'[p].alone <=> job[p].alone
      BY <3>1, Kept
    <3>3. job[p].todo = {} /\ job[p].cmd \in Appliers
      BY <1>1, <2>1 DEF Refreshing
    <3>4. ASSUME NEW read, read = g, NEW src, src = s, job[p].alone PROVE GraphCurrent(src)'
      <4>1. read \in Projections
        BY <1>1, <2>1, <3>4 DEF IsJob
      <4>2. nodes \subseteq Entities /\ DOMAIN edges = Joins
        BY <1>1 DEF GraphInv
      <4>3. SnapCurrent(read, src)
        BY <1>1, <2>1, <3>4 DEF Refreshing
      <4>4. /\ nodes' = {k \in nodes : Src(k) # src} \cup read.nodes
            /\ edges' = [k \in Joins |-> IF Src(k) # src THEN edges[k]
                            ELSE IF k \in DOMAIN read.edges THEN read.edges[k] ELSE Absent]
        BY <3>1, <3>4
      <4>5. QED
        BY <1>1, <2>1, <4>1, <4>2, <4>3, <4>4, RefreshCatchesUp
    <3>5. job[p].alone => GraphCurrent(job[p].src)'
      <4>1. \A src : src = s /\ job[p].alone => GraphCurrent(src)'
        BY <3>4
      <4>2. QED
        BY <3>2, <4>1 DEF GraphCurrent
    <3>6. Refreshing(p)'
      BY <3>1, <3>2, <3>3, <3>5 DEF Refreshing
    <3>7. QED
      BY <1>3, <3>1, <3>6
  <2>4. QED
    BY <2>2, <2>3
<1>10. CASE ExportOne(p)
  <2>1. UNCHANGED <<layer, graph>> /\ job[p].cmd \notin Appliers
    BY <1>1, <1>10, ExportedFacts DEF store, Appliers
  <2>2. CASE Exit(p, 2)
    BY <1>2, <2>1, <2>2
  <2>3. CASE Others({p}) /\ Differ(job'[p], job[p], {"next"})
    BY <1>3, <1>4, <2>1, <2>3
  <2>4. QED
    BY <1>1, <1>10, <2>2, <2>3, ExportedFacts
<1>11. CASE NextPart(p)
  <2>1. UNCHANGED <<layer, graph>> /\ Others({p}) /\ job'[p].snap = None /\ ~job'[p].graphed
    BY <1>1, <1>11, PartStarts DEF store
  <2>2. Refreshing(p)'
    BY <2>1 DEF Refreshing
  <2>3. QED
    BY <1>3, <2>1, <2>2
<1>12. CASE Done(p)
  BY <1>2, <1>12 DEF Done, store
<1>13. CASE Die(p)
  BY <1>2, <1>13 DEF Die, store
<1>14. QED
  BY <1>5, <1>6, <1>7, <1>8, <1>9, <1>10, <1>11, <1>12, <1>13 DEF StepOf

LEMMA NextRefresh ==
    ASSUME StoreInv, RefreshInv, [Next]_vars
    PROVE  RefreshInv'
<1>1. JobsInv
  BY DEF StoreInv
<1>2. \A S : Disturbed(S) /\ S = {} => RefreshInv'
  BY <1>1, OthersRefreshing
<1>3. ASSUME UNCHANGED <<layer, graph, job>> PROVE RefreshInv'
  <2>1. Others({})
    BY <1>1, <1>3 DEF Others, JobsInv
  <2>2. QED
    BY <1>1, <1>3, <2>1, OthersRefreshing
<1>4. ASSUME NEW t \in Tables, Ddl(t) \/ IndexTable(t) PROVE RefreshInv'
  BY <1>1, <1>2, <1>4, OutsideDisturbs DEF Ddl, IndexTable
<1>5. ASSUME NEW s, MineQueries(s) PROVE RefreshInv'
  BY <1>3, <1>5 DEF MineQueries
<1>6. ASSUME NEW p \in Procs, Begins(p) PROVE RefreshInv'
  <2>1. UNCHANGED <<layer, graph>> /\ Others({p}) /\ Fresh(job'[p])
    BY <1>1, <1>6, BeginFacts DEF store
  <2>2. Refreshing(p)'
    BY <2>1 DEF Refreshing, Fresh
  <2>3. QED
    BY <1>1, <2>1, <2>2, OthersRefreshing
<1>7. ASSUME NEW p \in Procs, Reports(p) PROVE RefreshInv'
  BY <1>1, <1>3, <1>7, ReportFact DEF store
<1>8. CASE UNCHANGED vars
  BY <1>3, <1>8 DEF vars, store
<1>9. QED
  BY <1>4, <1>5, <1>6, <1>7, <1>8, NextCases, StepKeepsRefresh

\* The state after the end of an apply, and every state in which nothing else has ended.
LEMMA NextLeavesGraphCurrent ==
    ASSUME StoreInv, RefreshInv, ApplyLeavesGraphCurrent, [Next]_vars
    PROVE  ApplyLeavesGraphCurrent'
<1>1. JobsInv
  BY DEF StoreInv
<1>2. ApplyLeavesGraphCurrent <=>
          (Quiet /\ last.cmd \in Appliers /\ last.rc < 2 /\ last.alone /\ last.wrote => GraphCurrent(last.src))
  BY DEF ApplyLeavesGraphCurrent, GraphCurrent, Appliers
<1>3. SUFFICES ASSUME Quiet', last'.cmd \in Appliers, last'.rc < 2, last'.alone, last'.wrote
               PROVE  GraphCurrent(last.src)'
  BY DEF ApplyLeavesGraphCurrent, GraphCurrent, Appliers
<1>4. ASSUME NEW t \in Tables, Ddl(t) \/ IndexTable(t) PROVE FALSE
  <2>1. last'.cmd \in {"ddl", "index"}
    BY <1>4 DEF Ddl, IndexTable, Rc
  <2>2. QED
    BY <1>3, <2>1 DEF Appliers
<1>5. ASSUME NEW s, MineQueries(s) PROVE FALSE
  <2>1. last'.cmd = "mine"
    BY <1>5 DEF MineQueries, Rc
  <2>2. QED
    BY <1>3, <2>1 DEF Appliers
<1>6. ASSUME NEW p \in Procs, Begins(p) PROVE FALSE
  <2>1. IsJob(job'[p])
    BY <1>1, <1>6, BeginFacts DEF Fresh
  <2>2. job'[p].cmd # "idle"
    BY <2>1 DEF IsJob, Commands, Appliers
  <2>3. QED
    BY <1>3, <2>2 DEF Quiet, Running
<1>7. ASSUME NEW p \in Procs, Reports(p) PROVE FALSE
  BY <1>1, <1>3, <1>7, ReportFact
<1>8. ASSUME NEW p \in Procs, Running(p), StepOf(p) PROVE GraphCurrent(last.src)'
  <2>1. ~Running(p)'
    BY <1>3, <1>8 DEF Quiet
  <2>2. \A n : Exit(p, n) => /\ last'.cmd = job[p].cmd /\ last'.src = job[p].src /\ last'.rc = n
                             /\ (last'.alone <=> job[p].alone) /\ (last'.wrote <=> job[p].wrote)
    BY <1>1, <1>8, ExitFacts
  <2>3. ~Exit(p, 2) /\ ~(Exit(p, 1) /\ job[p].cmd \notin Appliers)
    BY <1>3, <2>2
  <2>4. Done(p)
    BY <1>8, <2>1, <2>3, StepEnds
  <2>5. /\ UNCHANGED <<layer, graph>> /\ NeedsGraph(job[p]) => job[p].graphed
        /\ \E n : Exit(p, n)
    BY <2>4 DEF Done, store
  <2>6. /\ job[p].cmd \in Appliers /\ job[p].wrote /\ job[p].alone /\ last'.src = job[p].src
    BY <1>3, <2>2, <2>5
  <2>7. job[p].graphed
    BY <2>4, <2>6 DEF NeedsGraph, Appliers, Done
  <2>8. GraphCurrent(job[p].src)
    BY <1>8, <2>6, <2>7 DEF RefreshInv, Refreshing
  <2>9. UNCHANGED <<layer, graph>>
    BY <2>4 DEF Done, store
  <2>10. QED
    BY <2>6, <2>8, <2>9 DEF GraphCurrent, RowsOf, Rows, Present, layer, graph
<1>9. CASE UNCHANGED vars
  <2>1. /\ last' = last /\ UNCHANGED <<layer, graph>> /\ job' = job
    BY <1>9 DEF vars, store
  <2>2. Quiet
    BY <1>3, <2>1 DEF Quiet, Running
  <2>3. GraphCurrent(last.src)
    BY <1>2, <1>3, <2>1, <2>2
  <2>4. QED
    BY <2>1, <2>3 DEF GraphCurrent, RowsOf, Rows, Present, layer, graph
<1>10. QED
  BY <1>4, <1>5, <1>6, <1>7, <1>8, <1>9, NextCases

\* A write of an import takes an item off the list and puts it where the plan wants it.
LEMMA WriteLands ==
    ASSUME LayerInv, NEW raw \in Manifests, manifest_accepted(raw), NEW man, man = parse_dbt_manifest(raw),
           NEW todo, Lands(man, todo), NEW i \in todo, GoodItem(i), UNCHANGED live,
           entities' = IF i.kind = "entity" THEN [entities EXCEPT ![i.key] = i.row] ELSE entities,
           joins' = IF i.kind = "join" THEN [joins EXCEPT ![i.key] = i.row] ELSE joins
    PROVE  Lands(man, todo \ {i})'
<1> DEFINE e == entities_to_write(man, live)
           T == todo \ {i}
<1>1. entities_to_write(man, live)' = e
  OBVIOUS
<1>2. \A k \in DOMAIN e : k \in Entities
  BY PlannedEntities
<1>3. \A r \in Links(man) : LinkName(r) \in Joins
  BY ManifestFacts
<1> HIDE DEF e
<1>4. /\ \A k \in DOMAIN e : entities[k] = e[k] \/ Item("entity", k, e[k]) \in todo
      /\ \A x \in todo : x.kind = "entity" => x.key \in DOMAIN e /\ x.row = e[x.key]
      /\ \A x \in todo : x.kind = "join" =>
             \E r \in Links(man) : x.key = LinkName(r) /\ x.row = LinkRow(r)
      /\ \A r \in Links(man) :
             {r.from, r.to} \subseteq Present(entities) \cup DOMAIN e /\ Unshared(man, r)
             => joins[LinkName(r)] = LinkRow(r) \/ Item("join", LinkName(r), LinkRow(r)) \in todo
  BY DEF Lands, e
<1>5. \A kind, k, row : /\ Item(kind, k, row).kind = kind /\ Item(kind, k, row).key = k
                        /\ Item(kind, k, row).row = row
  BY DEF Item
<1>6. DOMAIN entities = Entities /\ DOMAIN joins = Joins
  BY DEF LayerInv
<1>7. /\ \A x \in T : x.kind = "entity" => x.key \in DOMAIN e /\ x.row = e[x.key]
      /\ \A x \in T : x.kind = "join" =>
             \E r \in Links(man) : x.key = LinkName(r) /\ x.row = LinkRow(r)
  BY <1>4
<1>8. ASSUME NEW k \in DOMAIN e
      PROVE  entities'[k] = e[k] \/ Item("entity", k, e[k]) \in T
  <2>1. CASE i.kind = "entity" /\ i.key = k
    BY <1>2, <1>4, <1>6, <2>1
  <2>2. CASE i.kind = "entity" /\ i.key # k
    BY <1>4, <1>5, <2>2
  <2>3. CASE i.kind # "entity"
    BY <1>4, <1>5, <2>3
  <2>4. QED
    BY <2>1, <2>2, <2>3
<1>9. Present(entities') \subseteq Present(entities) \cup DOMAIN e
  BY <1>4 DEF Present
<1>10. ASSUME NEW r \in Links(man), {r.from, r.to} \subseteq Present(entities') \cup DOMAIN e,
              Unshared(man, r)
       PROVE  joins'[LinkName(r)] = LinkRow(r) \/ Item("join", LinkName(r), LinkRow(r)) \in T
  <2>1. joins[LinkName(r)] = LinkRow(r) \/ Item("join", LinkName(r), LinkRow(r)) \in todo
    BY <1>4, <1>9, <1>10
  <2>2. CASE i.kind = "join" /\ i.key = LinkName(r)
    <3>1. PICK q \in Links(man) : i.key = LinkName(q) /\ i.row = LinkRow(q)
      BY <1>4, <2>2
    <3>2. q = r
      BY <1>10, <2>2, <3>1 DEF Unshared
    <3>3. joins' = [joins EXCEPT ![LinkName(r)] = LinkRow(r)]
      BY <2>2, <3>1, <3>2
    <3>4. QED
      BY <1>3, <1>6, <3>3
  <2>3. CASE i.kind = "join" /\ i.key # LinkName(r)
    <3>1. joins'[LinkName(r)] = joins[LinkName(r)]
      BY <1>3, <1>6, <2>3
    <3>2. Item("join", LinkName(r), LinkRow(r)) # i
      BY <1>5, <2>3
    <3>3. QED
      BY <2>1, <3>1, <3>2
  <2>4. CASE i.kind # "join"
    <3>1. Item("join", LinkName(r), LinkRow(r)) # i
      BY <1>5, <2>4
    <3>2. QED
      BY <2>1, <2>4, <3>1
  <2>5. QED
    BY <2>2, <2>3, <2>4
<1> HIDE DEF T
<1>11. Lands(man, T)'
  BY <1>1, <1>7, <1>8, <1>9, <1>10 DEF Lands, Present, T
<1>12. QED
  BY <1>11 DEF T

\* What is left to write changes only by a metric.
LEMMA MetricLands ==
    ASSUME NEW man, NEW todo, Lands(man, todo), NEW i \in todo, i.kind \notin {"entity", "join"},
           UNCHANGED <<live, entities, joins>>
    PROVE  Lands(man, todo \ {i})'
<1> DEFINE e == entities_to_write(man, live)
           T == todo \ {i}
<1>1. entities_to_write(man, live)' = e
  OBVIOUS
<1> HIDE DEF e
<1>2. \A kind, k, row : Item(kind, k, row).kind = kind
  BY DEF Item
<1>3. \A k, row : /\ Item("entity", k, row) \in todo => Item("entity", k, row) \in T
                  /\ Item("join", k, row) \in todo => Item("join", k, row) \in T
  BY <1>2
<1>4. T \subseteq todo
  OBVIOUS
<1>5. Lands(man, todo) <=>
        /\ \A k \in DOMAIN e : entities[k] = e[k] \/ Item("entity", k, e[k]) \in todo
        /\ \A x \in todo : x.kind = "entity" => x.key \in DOMAIN e /\ x.row = e[x.key]
        /\ \A x \in todo : x.kind = "join" =>
               \E r \in Links(man) : x.key = LinkName(r) /\ x.row = LinkRow(r)
        /\ \A r \in Links(man) :
               {r.from, r.to} \subseteq Present(entities) \cup DOMAIN e /\ Unshared(man, r)
               => joins[LinkName(r)] = LinkRow(r) \/ Item("join", LinkName(r), LinkRow(r)) \in todo
  BY DEF Lands, e
<1> HIDE DEF T
<1>6. Lands(man, T)'
  BY <1>1, <1>3, <1>4, <1>5 DEF Lands, Present
<1>7. QED
  BY <1>6 DEF T

LEMMA StepKeepsImport ==
    ASSUME StoreInv, ImportInv, NEW p \in Procs, Running(p), StepOf(p)
    PROVE  ImportInv'
<1>1. JobsInv /\ LayerInv /\ GraphInv /\ TreeInv /\ IsJob(job[p]) /\ Importing(p)
  BY RunningJob DEF StoreInv, ImportInv
<1>2. ASSUME NEW n, Exit(p, n), UNCHANGED <<live, layer>> PROVE ImportInv'
  <2>1. Others({p}) /\ job'[p] = Idle
    BY <1>1, <1>2, ExitFacts
  <2>2. ~Running(p)'
    BY <2>1 DEF Running, Idle
  <2>3. QED
    BY <1>1, <1>2, <2>1, <2>2, OthersImporting
<1>3. ASSUME Disturbed({p}) \/ (Others({p}) /\ UNCHANGED <<live, layer>>), Importing(p)'
      PROVE  ImportInv'
  BY <1>1, <1>3, OthersImporting
<1>4. ASSUME NEW F, Differ(job'[p], job[p], F), {"todo", "alone", "failed"} \cap F = {},
             UNCHANGED <<live, layer>>
      PROVE  Importing(p)'
  <2>1. /\ job'[p].cmd = job[p].cmd /\ job'[p].manifest = job[p].manifest
        /\ job'[p].todo = job[p].todo /\ (job'[p].alone <=> job[p].alone)
        /\ (job'[p].failed <=> job[p].failed)
    BY <1>4, Kept
  <2>2. QED
    BY <1>1, <1>4, <2>1 DEF Importing, Lands, Present, layer
\* An item less, and the rest of the promise kept.
<1>5. ASSUME NEW F, Differ(job'[p], job[p], F), "alone" \notin F, "failed" \notin F \/ (~job'[p].failed => ~job[p].failed),
             NEW i \in job[p].todo, job'[p].todo = job[p].todo \ {i},
             \A man, todo : man = job[p].manifest /\ todo = job[p].todo /\ Lands(man, todo)
                               /\ job[p].cmd = "import" /\ ~job'[p].failed
                            => Lands(man, todo \ {i})'
      PROVE  Importing(p)'
  <2>1. /\ job'[p].cmd = job[p].cmd /\ job'[p].manifest = job[p].manifest
        /\ (job'[p].alone <=> job[p].alone) /\ (~job'[p].failed => ~job[p].failed)
    BY <1>5, Kept
  <2>2. SUFFICES ASSUME job[p].cmd = "import", job[p].alone, ~job'[p].failed
                 PROVE  Lands(job[p].manifest, job[p].todo)'
    BY <2>1 DEF Importing
  <2>3. Lands(job[p].manifest, job[p].todo)
    BY <1>1, <2>1, <2>2 DEF Importing
  <2>4. \A man, todo : man = job[p].manifest /\ todo = job[p].todo => Lands(man, todo \ {i})'
    BY <1>5, <2>2, <2>3
  <2>5. QED
    BY <1>5, <2>1, <2>4 DEF Lands
<1>6. CASE CheckOwner(p) \/ WriteRefused(p)
  <2>1. UNCHANGED <<live, layer, store>>
    BY <1>1, <1>6, RefusedFacts DEF store
  <2>2. CASE Exit(p, 1) \/ Exit(p, 2)
    BY <1>2, <2>1, <2>2
  <2>3. CASE Skips(p)
    <3>1. /\ Others({p}) /\ Differ(job'[p], job[p], {"todo", "passed", "saw", "failed"})
          /\ ~job'[p].failed => ~job[p].failed
      BY <2>3 DEF Skips
    <3>2. CASE job'[p].todo = job[p].todo
      <4>1. /\ job'[p].cmd = job[p].cmd /\ job'[p].manifest = job[p].manifest
            /\ (job'[p].alone <=> job[p].alone)
        BY <3>1, Kept
      <4>2. Importing(p)'
        BY <1>1, <2>1, <3>1, <3>2, <4>1 DEF Importing, Lands, Present, layer
      <4>3. QED
        BY <1>3, <2>1, <3>1, <4>2
    <3>3. CASE job'[p].todo # job[p].todo
      <4>1. PICK i \in job[p].todo :
                /\ job'[p].todo = job[p].todo \ {i}
                /\ job[p].cmd = "import" /\ ~job'[p].failed => i.kind \notin {"entity", "join"}
        BY <2>3, <3>3 DEF Skips
      <4>2. ASSUME NEW man, NEW todo, todo = job[p].todo, Lands(man, todo), job[p].cmd = "import", ~job'[p].failed
            PROVE  Lands(man, todo \ {i})'
        BY <2>1, <4>1, <4>2, MetricLands DEF layer
      <4>3. Importing(p)'
        BY <1>5, <3>1, <4>1, <4>2
      <4>4. QED
        BY <1>3, <2>1, <3>1, <4>3
    <3>4. QED
      BY <3>2, <3>3
  <2>4. QED
    BY <1>1, <1>6, <2>2, <2>3, RefusedFacts
<1>7. CASE WriteOne(p)
  <2>1. /\ UNCHANGED live /\ Disturbed({p}) /\ Differ(job'[p], job[p], {"todo", "passed", "saw", "wrote"})
    BY <1>1, <1>7, WroteFacts
  <2>2. PICK i \in job[p].todo :
           /\ GoodItem(i) /\ job'[p].todo = job[p].todo \ {i}
           /\ entities' = IF i.kind = "entity" THEN [entities EXCEPT ![i.key] = i.row] ELSE entities
           /\ joins' = IF i.kind = "join" THEN [joins EXCEPT ![i.key] = i.row] ELSE joins
    BY <1>1, <1>7, WroteFacts
  <2>3. ASSUME NEW man, man = job[p].manifest, NEW todo, todo = job[p].todo, Lands(man, todo),
               job[p].cmd = "import"
        PROVE  Lands(man, todo \ {i})'
    <3>1. PICK raw \in Manifests : manifest_accepted(raw) /\ man = parse_dbt_manifest(raw)
      BY <1>1, <2>3 DEF IsJob
    <3>2. QED
      BY <1>1, <2>1, <2>2, <2>3, <3>1, WriteLands
  <2>4. Importing(p)'
    BY <1>5, <2>1, <2>2, <2>3
  <2>5. QED
    BY <1>3, <2>1, <2>4
<1>8. CASE DropOne(p)
  <2>1. UNCHANGED <<live, entities, joins>>
    BY <1>1, <1>8, DroppedFacts
  <2>2. PICK i \in job[p].todo : i.kind = "drop" /\ job'[p].todo = job[p].todo \ {i}
    BY <1>1, <1>8, DroppedFacts
  <2>3. Disturbed({p}) /\ Differ(job'[p], job[p], {"todo", "passed", "saw"})
    BY <1>1, <1>8, DroppedFacts
  <2>4. ASSUME NEW man, NEW todo, todo = job[p].todo, Lands(man, todo)
        PROVE  Lands(man, todo \ {i})'
    BY <2>1, <2>2, <2>4, MetricLands
  <2>5. Importing(p)'
    BY <1>5, <2>2, <2>3, <2>4
  <2>6. QED
    BY <1>3, <2>3, <2>5
<1>9. CASE RefreshRead(p)
  <2>1. UNCHANGED <<live, layer>> /\ Others({p}) /\ Differ(job'[p], job[p], {"snap"})
    BY <1>1, <1>9, ReadFacts DEF store
  <2>2. Importing(p)'
    BY <1>4, <2>1
  <2>3. QED
    BY <1>3, <2>1, <2>2
<1>10. CASE RefreshWrite(p)
  <2>1. UNCHANGED <<live, layer>>
    BY <1>1, <1>10, RefreshedFacts
  <2>2. CASE Exit(p, 2)
    BY <1>2, <2>1, <2>2
  <2>3. CASE Disturbed({p}) /\ Differ(job'[p], job[p], {"graphed", "snap"})
    BY <1>3, <1>4, <2>1, <2>3
  <2>4. QED
    BY <1>1, <1>10, <2>2, <2>3, RefreshedFacts
<1>11. CASE ExportOne(p)
  <2>1. UNCHANGED <<live, layer>>
    BY <1>1, <1>11, ExportedFacts DEF store
  <2>2. CASE Exit(p, 2)
    BY <1>2, <2>1, <2>2
  <2>3. CASE Others({p}) /\ Differ(job'[p], job[p], {"next"})
    BY <1>3, <1>4, <2>1, <2>3
  <2>4. QED
    BY <1>1, <1>11, <2>2, <2>3, ExportedFacts
<1>12. CASE NextPart(p)
  <2>1. UNCHANGED <<live, layer>> /\ Others({p}) /\ job'[p].cmd # "import"
    BY <1>1, <1>12, PartStarts DEF store
  <2>2. Importing(p)'
    BY <2>1 DEF Importing
  <2>3. QED
    BY <1>3, <2>1, <2>2
<1>13. CASE Done(p)
  BY <1>2, <1>13 DEF Done, store
<1>14. CASE Die(p)
  BY <1>2, <1>14 DEF Die, store
<1>15. QED
  BY <1>6, <1>7, <1>8, <1>9, <1>10, <1>11, <1>12, <1>13, <1>14 DEF StepOf

LEMMA NextImport ==
    ASSUME StoreInv, ImportInv, [Next]_vars
    PROVE  ImportInv'
<1>1. JobsInv
  BY DEF StoreInv
<1>2. \A S : Disturbed(S) /\ S = {} => ImportInv'
  BY <1>1, OthersImporting
<1>3. ASSUME UNCHANGED <<live, layer, job>> PROVE ImportInv'
  <2>1. Others({})
    BY <1>1, <1>3 DEF Others, JobsInv
  <2>2. QED
    BY <1>1, <1>3, <2>1, OthersImporting
<1>4. ASSUME NEW t \in Tables, Ddl(t) \/ IndexTable(t) PROVE ImportInv'
  BY <1>1, <1>2, <1>4, OutsideDisturbs DEF Ddl, IndexTable
<1>5. ASSUME NEW s, MineQueries(s) PROVE ImportInv'
  BY <1>3, <1>5 DEF MineQueries
<1>6. ASSUME NEW p \in Procs, Begins(p) PROVE ImportInv'
  <2>1. UNCHANGED <<live, layer>> /\ Others({p}) /\ Fresh(job'[p])
    BY <1>1, <1>6, BeginFacts DEF store
  <2>2. Importing(p)'
    BY <2>1 DEF Importing, Fresh, Lands, Present, layer
  <2>3. QED
    BY <1>1, <2>1, <2>2, OthersImporting
<1>7. ASSUME NEW p \in Procs, Reports(p) PROVE ImportInv'
  BY <1>1, <1>3, <1>7, ReportFact DEF store
<1>8. CASE UNCHANGED vars
  BY <1>3, <1>8 DEF vars, store
<1>9. QED
  BY <1>4, <1>5, <1>6, <1>7, <1>8, NextCases, StepKeepsImport

\* The state after the end of an import, and every state in which nothing else has ended.
LEMMA NextLands ==
    ASSUME StoreInv, ImportInv, Landed, [Next]_vars
    PROVE  Landed'
<1>1. JobsInv
  BY DEF StoreInv
<1> DEFINE Read(man) == \E raw \in Manifests : manifest_accepted(raw) /\ man = parse_dbt_manifest(raw)
<1>2. SUFFICES ASSUME Quiet', last'.cmd = "import", last'.rc = 0, last'.alone
               PROVE  Read(last.manifest)' /\ Lands(last.manifest, {})'
  BY DEF Landed
<1>3. ASSUME NEW t \in Tables, Ddl(t) \/ IndexTable(t) PROVE FALSE
  <2>1. last'.cmd \in {"ddl", "index"}
    BY <1>3 DEF Ddl, IndexTable, Rc
  <2>2. QED
    BY <1>2, <2>1
<1>4. ASSUME NEW s, MineQueries(s) PROVE FALSE
  <2>1. last'.cmd = "mine"
    BY <1>4 DEF MineQueries, Rc
  <2>2. QED
    BY <1>2, <2>1
<1>5. ASSUME NEW p \in Procs, Begins(p) PROVE FALSE
  <2>1. IsJob(job'[p])
    BY <1>1, <1>5, BeginFacts DEF Fresh
  <2>2. job'[p].cmd # "idle"
    BY <2>1 DEF IsJob, Commands, Appliers
  <2>3. QED
    BY <1>2, <2>2 DEF Quiet, Running
<1>6. ASSUME NEW p \in Procs, Reports(p) PROVE FALSE
  BY <1>1, <1>2, <1>6, ReportFact
<1>7. ASSUME NEW p \in Procs, Running(p), StepOf(p)
      PROVE  Read(last.manifest)' /\ Lands(last.manifest, {})'
  <2>1. ~Running(p)'
    BY <1>2, <1>7 DEF Quiet
  <2>2. \A n : Exit(p, n) => /\ last'.cmd = job[p].cmd /\ last'.manifest = job[p].manifest /\ last'.rc = n
                             /\ (last'.alone <=> job[p].alone)
    BY <1>1, <1>7, ExitFacts
  <2>3. ~Exit(p, 2) /\ ~Exit(p, 1)
    BY <1>2, <2>2
  <2>4. Done(p)
    BY <1>7, <2>1, <2>3, StepEnds
  <2>5. /\ job[p].todo = {} /\ Exit(p, IF job[p].failed THEN 1 ELSE 0)
        /\ UNCHANGED <<live, layer>>
    BY <2>4 DEF Done, store
  <2>6. ~job[p].failed
    BY <2>3, <2>5
  <2>7. job[p].cmd = "import" /\ job[p].alone /\ last'.manifest = job[p].manifest
    BY <1>2, <2>2, <2>5
  <2>8. Lands(job[p].manifest, {})
    BY <1>7, <2>5, <2>6, <2>7 DEF ImportInv, Importing
  <2>9. Lands(last.manifest, {})'
    BY <2>5, <2>7, <2>8 DEF Lands, Present, layer
  <2>10. Read(job[p].manifest)
    BY <1>1, <1>7, <2>7, RunningJob DEF IsJob
  <2>11. QED
    BY <2>7, <2>9, <2>10
<1>8. CASE UNCHANGED vars
  <2>1. last' = last /\ UNCHANGED <<live, layer>> /\ job' = job
    BY <1>8 DEF vars, store
  <2>2. Quiet
    BY <1>2, <2>1 DEF Quiet, Running
  <2>3. Read(last.manifest) /\ Lands(last.manifest, {})
    BY <1>2, <2>1, <2>2 DEF Landed
  <2>4. Lands(last.manifest, {})'
    BY <2>1, <2>3 DEF Lands, Present, layer
  <2>5. QED
    BY <2>1, <2>3, <2>4
<1>9. QED
  BY <1>3, <1>4, <1>5, <1>6, <1>7, <1>8, NextCases

\* A model with one column in its strongest tier is planned, when the database agrees.
LEMMA PlannedModel ==
    ASSUME NEW man, NEW k \in Models(man), NEW c, resolve_dbt_identity(man.models[k]) = {c},
           man.models[k].valid, verify_against_live_schema(man.models[k], c, live)
    PROVE  LET e == entities_to_write(man, live)
           IN  /\ k \in DOMAIN e /\ e[k].table = man.models[k].table
               /\ e[k].identity = c /\ e[k].origin = "dbt_import"
<1> DEFINE model == man.models[k]
           r == [table |-> model.table, identity |-> c, origin |-> "dbt_import", group |-> "other"]
           row == [x \in Models(man) |-> dbt_model_to_entity(man.models[x])]
<1>1. Cardinality({c}) = 1
  BY FS_Singleton
<1>2. (CHOOSE x \in {c} : TRUE) = c
  OBVIOUS
<1>3. dbt_model_to_entity(model) = r
  BY <1>1, <1>2 DEF dbt_model_to_entity
<1>4. /\ r.table = model.table /\ r.identity = c /\ r.origin = "dbt_import"
      /\ DOMAIN r = {"table", "identity", "origin", "group"}
  OBVIOUS
<1> HIDE DEF r
<1>5. row[k] = r
  BY <1>3
<1>6. ~Skipped(row[k])
  BY <1>4, <1>5 DEF Skipped
<1>7. entities_to_write(man, live) =
          [x \in {y \in Models(man) : ~Skipped(row[y]) /\ verify_against_live_schema(man.models[y], row[y].identity, live)}
             |-> row[x]]
  BY SMTT(30) DEF entities_to_write
<1> HIDE DEF row
<1>8. QED
  BY <1>4, <1>5, <1>6, <1>7

LEMMA LandedImport ==
    ASSUME Landed
    PROVE  CleanImportLands
<1>1. SUFFICES ASSUME EndedAlone({"import"}) PROVE CleanImportLands
  BY DEF CleanImportLands
<1> DEFINE man == last.manifest
           With(cols, kind, cs) == {c \in DOMAIN cols : cs \subseteq cols[c][kind]}
           Key(m) == LET pk == With(m.columns, "constraints", {"primary_key"})
                         un == With(m.columns, "constraints", {"unique", "not_null"})
                     IN  IF pk # {} THEN pk ELSE IF un # {} THEN un
                         ELSE With(m.columns, "tests", {"unique", "not_null"})
           e == entities_to_write(man, live)
<1>2. Lands(man, {})
  BY <1>1 DEF Landed, EndedAlone
<1>0. PICK raw \in Manifests : manifest_accepted(raw) /\ man = parse_dbt_manifest(raw)
  BY <1>1 DEF Landed, EndedAlone
<1>3. \A m : Key(m) = resolve_dbt_identity(m)
  <2>1. SUFFICES ASSUME NEW m PROVE Key(m) = resolve_dbt_identity(m)
    OBVIOUS
  <2>2. /\ Tier(m, 1) = With(m.columns, "constraints", {"primary_key"})
        /\ Tier(m, 2) = With(m.columns, "constraints", {"unique", "not_null"})
        /\ Tier(m, 3) = With(m.columns, "tests", {"unique", "not_null"})
    BY DEF Tier
  <2>3. resolve_dbt_identity(m) =
                  IF Tier(m, 1) # {} THEN Tier(m, 1)
                  ELSE IF Tier(m, 2) # {} THEN Tier(m, 2) ELSE Tier(m, 3)
    BY Identity
  <2> HIDE DEF With
  <2>4. QED
    BY <2>2, <2>3
<1>4. ASSUME NEW k \in Models(man), NEW c \in Key(man.models[k]),
             Key(man.models[k]) = {c}, man.models[k].valid,
             verify_against_live_schema(man.models[k], c, live)
      PROVE  /\ entities[k].table = man.models[k].table
             /\ entities[k].identity = c /\ entities[k].origin = "dbt_import"
  <2>1. resolve_dbt_identity(man.models[k]) = {c}
    BY <1>3, <1>4
  <2> HIDE DEF Key, man
  <2>2. /\ k \in DOMAIN e /\ e[k].table = man.models[k].table
        /\ e[k].identity = c /\ e[k].origin = "dbt_import"
    BY <1>4, <2>1, PlannedModel
  <2>3. entities[k] = e[k]
    BY <1>2, <2>2 DEF Lands
  <2>4. QED
    BY <2>2, <2>3
<1>5. ASSUME NEW r \in man.rels, {r.from, r.to} \subseteq Present(entities) \cap Models(man), r.from # r.to,
             \A q \in man.rels : {q.from, q.to} \subseteq Models(man) /\ q.from # q.to /\ r # q
                => RelName[<<r.from, r.from_column>>] # RelName[<<q.from, q.from_column>>]
      PROVE  LET j == RelName[<<r.from, r.from_column>>]
             IN  joins[j] # Absent /\ joins[j].src = r.from /\ joins[j].tgt = r.to
  <2>1. r \in Links(man) /\ Unshared(man, r) /\ {r.from, r.to} \subseteq Present(entities) \cup DOMAIN e
    BY <1>5 DEF Links, Unshared, LinkName
  <2>2. joins[LinkName(r)] = LinkRow(r)
    BY <1>2, <2>1 DEF Lands
  <2>3. LinkRow(r).src = r.from /\ LinkRow(r).tgt = r.to
    BY DEF LinkRow
  <2>4. LinkRow(r) # Absent
    <3>1. LinkRow(r) \in JoinRows
      <4> HIDE DEF man
      <4>1. /\ r.from \in Entities /\ r.to \in Entities
            /\ r.from_column \in Cols /\ r.to_column \in Cols
        BY <1>0, <2>1, ManifestFacts
      <4>2. QED
        BY <4>1 DEF LinkRow, JoinRows, Origins
    <3>2. QED
      BY <3>1, CurationAssumption
  <2>5. QED
    BY <2>2, <2>3, <2>4 DEF LinkName
<1>6. QED
  BY <1>4, <1>5, ZenonT(40) DEF CleanImportLands

LEMMA InitCuration ==
    ASSUME Init
    PROVE  CurationInv
<1>1. StoreInv
  BY InitStore
<1>2. \A p \in Procs : ~Running(p)
  BY DEF Init, Running, Idle
<1>3. last.cmd = "none"
  BY DEF Init, Rc
<1>4. QED
  BY <1>1, <1>2, <1>3 DEF CurationInv, RefreshInv, ImportInv, ApplyLeavesGraphCurrent, Landed

\* On top of the store's invariant: what a refresh has read stays current until it is
\* written, and what an import still has to write is what is missing, while no other
\* process, no schema change and no `index` comes in between.
THEOREM CurationInvariant == Spec => []CurationInv
<1>1. Init => CurationInv
  BY InitCuration
<1>2. CurationInv /\ [Next]_vars => CurationInv'
  BY NextStore, NextRefresh, NextImport, NextLeavesGraphCurrent, NextLands DEF CurationInv
<1>3. QED
  BY <1>1, <1>2, PTL DEF Spec

\* An entities apply or joins apply that wrote something leaves the graph projection equal
\* to the layer, files that failed included, unless another process came in between: the
\* refresh is keyed on what was written, not on whether everything succeeded.
THEOREM CurationGraph == Spec => []ApplyLeavesGraphCurrent
<1>1. CurationInv => ApplyLeavesGraphCurrent
  BY DEF CurationInv
<1>2. QED
  BY <1>1, CurationInvariant, PTL

\* A dbt import that reports success and was not disturbed has stored every model it could
\* map and every relationship between stored models whose join name is its own.
THEOREM CurationImport == Spec => []CleanImportLands
<1>1. CurationInv => CleanImportLands
  BY LandedImport DEF CurationInv
<1>2. QED
  BY <1>1, CurationInvariant, PTL
=============================================================================
