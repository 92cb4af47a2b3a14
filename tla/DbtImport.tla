------------------------------ MODULE DbtImport ------------------------------
(***************************************************************************)
(* `import dbt`: from manifest.json to the entities, joins and metrics it  *)
(* becomes.  The file is Broken, or a record of                            *)
(*   version, complete   the schema version; whether the required keys are *)
(*             there                                                       *)
(*   nodes     [type |-> "model", key, table, columns, valid], columns a   *)
(*             function to sets of constraints, `valid` when the names fit *)
(*             the entity grammar, or [type |-> "test", test, node,        *)
(*             column, to, field] with None for what a test does not say;  *)
(*             a `to` that is not a ref() is Bad                           *)
(*   metrics   [key, type, measure, description]                           *)
(*   semantic_models  a sequence of [measures, primary, dims], measures a  *)
(*             function to [agg, expr], dims a sequence of [name, grains]  *)
(* The unique id of a model and its name are one key.                      *)
(***************************************************************************)
EXTENDS DriftCheck

CONSTANTS
    RelName,                          \* the join name made of a model and its column
    MinManifest, MinMetricManifest    \* _MIN_MANIFEST_VERSION, _MINIMUM_MANIFEST_VERSION

-----------------------------------------------------------------------------
(* parse_dbt_manifest *)

\* unique and not_null tests by model and column; a test on no model or no column is
\* dropped.
aggregate_column_tests(nodes, k, c) ==
    {n.test : n \in {x \in nodes : /\ x.type = "test" /\ x.test \in {"unique", "not_null"}
                                  /\ x.node = k /\ x.column = c}}

\* Relationships tests with both ends given and a ref() as their target.
aggregate_relationships(nodes) ==
    {[from |-> n.node, from_column |-> n.column, to |-> n.to, to_column |-> n.field] :
        n \in {x \in nodes : /\ x.type = "test" /\ x.test = "relationships" /\ x.to # Bad
                             /\ None \notin {x.node, x.column, x.to, x.field}}}

\* The models, each column with its constraints and its tests.
parse_nodes(nodes) ==
    LET Node(k) == CHOOSE n \in nodes : n.type = "model" /\ n.key = k
    IN  [k \in {n.key : n \in {x \in nodes : x.type = "model"}} |->
            [table |-> Node(k).table, valid |-> Node(k).valid,
             columns |-> [c \in DOMAIN Node(k).columns |->
                             [constraints |-> Node(k).columns[c],
                              tests |-> aggregate_column_tests(nodes, k, c)]]]]

manifest_accepted(raw) == raw # Broken /\ raw.complete /\ raw.version >= MinManifest

parse_dbt_manifest(raw) ==
    IF ~manifest_accepted(raw) THEN Refused
    ELSE [models |-> parse_nodes(raw.nodes), rels |-> aggregate_relationships(raw.nodes)]

Models(man) == DOMAIN man.models

-----------------------------------------------------------------------------
(* Entities and joins *)

\* A model or a metric that is left out, with the reason.
Skip(reason) == [skip |-> reason]
Skipped(x) == "skip" \in DOMAIN x

\* The columns of the first tier that has any: primary_key constraint, unique and
\* not_null constraints, unique and not_null tests.
resolve_dbt_identity(model) ==
    LET cols == model.columns
        tier == <<{c \in DOMAIN cols : "primary_key" \in cols[c].constraints},
                  {c \in DOMAIN cols : {"unique", "not_null"} \subseteq cols[c].constraints},
                  {c \in DOMAIN cols : {"unique", "not_null"} \subseteq cols[c].tests}>>
        hit == {n \in 1..3 : tier[n] # {}}
    IN  IF hit = {} THEN {} ELSE tier[CHOOSE n \in hit : \A k \in hit : n <= k]

\* Only a single column is an identity; two are an ambiguity, none is no match.
dbt_model_to_entity(model) ==
    LET id == resolve_dbt_identity(model)
    IN  IF Cardinality(id) # 1 THEN Skip("identity_resolution")
        ELSE IF ~model.valid THEN Skip("mapping")
        ELSE [table |-> model.table, identity |-> CHOOSE c \in id : TRUE,
              origin |-> "dbt_import", group |-> "other"]

\* Every column dbt declares exists, and the identity is there and NOT NULL.
verify_against_live_schema(model, identity, live) ==
    /\ live[model.table] # Absent
    /\ DOMAIN model.columns \cup {identity} \subseteq DOMAIN live[model.table]
    /\ ~live[model.table][identity].nullable

\* Both models in the manifest, and two different ones; `valid_join` by construction.
dbt_relationships_to_joins(man) ==
    {[key |-> RelName[<<r.from, r.from_column>>],
      row |-> [src |-> r.from, tgt |-> r.to, on |-> {<<r.from_column, r.to_column>>},
               origin |-> "dbt_import", card |-> None]] :
        r \in {x \in man.rels : {x.from, x.to} \subseteq Models(man) /\ x.from # x.to}}

\* The entities of the plan, by name: mapped and in agreement with the live schema.
entities_to_write(man, live) ==
    LET row == [k \in Models(man) |-> dbt_model_to_entity(man.models[k])]
        ok == {k \in Models(man) :
                  /\ ~Skipped(row[k])
                  /\ verify_against_live_schema(man.models[k], row[k].identity, live)}
    IN  [k \in ok |-> row[k]]

\* Fault: only entities the store had before can be an endpoint.
joins_to_write_existing(man, ents, live) ==
    {j \in dbt_relationships_to_joins(man) :
        {j.row.src, j.row.tgt} \subseteq Present(ents)}

\* A join is planned when both its entities are in the store or will be written.
joins_to_write(man, ents, live) ==
    LET will_exist == Present(ents) \cup DOMAIN entities_to_write(man, live)
    IN  {j \in dbt_relationships_to_joins(man) : {j.row.src, j.row.tgt} \subseteq will_exist}

\* plan_dbt_import: new, dbt's already, or taken over from another origin; entities of
\* dbt's that the manifest no longer has are reported and left.
plan_dbt_import(man, ents, live) ==
    LET e == entities_to_write(man, live)
        have == Present(ents)
    IN  [rows |-> e,
         to_add |-> DOMAIN e \ have,
         to_update |-> {k \in DOMAIN e \cap have : ents[k].origin = "dbt_import"},
         to_take_ownership |-> {k \in DOMAIN e \cap have : ents[k].origin # "dbt_import"},
         orphans |-> {k \in have \ Models(man) : ents[k].origin = "dbt_import"},
         skipped |-> Models(man) \ DOMAIN e,
         joins |-> joins_to_write(man, ents, live)]

-----------------------------------------------------------------------------
(* Metrics of the semantic layer, --include-metrics *)

\* Measures by name; a later semantic model replaces an earlier one's.
build_measure_index(models) ==
    LET With(m) == {i \in DOMAIN models : m \in DOMAIN models[i].measures}
        Last(m) == CHOOSE i \in With(m) : \A j \in With(m) : j <= i
    IN  [m \in UNION {DOMAIN models[i].measures : i \in DOMAIN models} |->
            [agg |-> models[Last(m)].measures[m].agg, expr |-> models[Last(m)].measures[m].expr,
             primary |-> models[Last(m)].primary, dims |-> models[Last(m)].dims]]

\* The first time dimension with a grain the store knows, its grains sorted.
extract_time(dims, anchor) ==
    LET hit == {i \in DOMAIN dims : dims[i].name # Bad /\ dims[i].grains # {}}
        d == dims[CHOOSE i \in hit : \A j \in hit : i <= j]
        sorted == [n \in 1..Cardinality(d.grains) |->
                      CHOOSE g \in d.grains : Cardinality({h \in d.grains : h < g}) = n - 1]
    IN  IF hit = {} THEN [time |-> None, grains |-> <<>>]
        ELSE [time |-> <<anchor, d.name>>, grains |-> sorted]

\* A simple metric over a known measure with a supported aggregation and a bare column,
\* anchored on an imported entity.
map_one_metric(m, index, imported) ==
    LET b == index[m.measure]
        t == extract_time(b.dims, b.primary)
    IN  IF m.type # "simple" THEN Skip("non_simple_type")
        ELSE IF m.measure \notin DOMAIN index THEN Skip("measure_not_found")
        ELSE IF b.agg = Bad THEN Skip("unsupported_agg")
        ELSE IF b.expr = Bad THEN Skip("non_column_expr")
        ELSE IF b.primary = None THEN Skip("no_primary_entity")
        ELSE IF b.primary \notin imported THEN Skip("anchor_entity_not_imported")
        ELSE [entity |-> b.primary, measure |-> [agg |-> b.agg, column |-> b.expr],
              time |-> t.time, grains |-> t.grains, origin |-> "dbt_import",
              description |-> m.description]

\* Refused when the manifest is older than metric import wants.  The anchor is looked
\* up among the entities of the plan, not the writes that succeeded.
parse_dbt_metrics(raw, imported) ==
    LET index == build_measure_index(raw.semantic_models)
    IN  IF raw.version < MinMetricManifest THEN Refused
        ELSE {[key |-> m.key, row |-> map_one_metric(m, index, imported)] :
                 m \in {x \in raw.metrics : ~Skipped(map_one_metric(x, index, imported))}}
=============================================================================
