---------------------------- MODULE SemanticYaml ----------------------------
(***************************************************************************)
(* The three YAML grammars and the parsers of the language model's         *)
(* proposals, as operators.  A document is a function from the keys it has *)
(* to values; Broken, the one without keys, stands for every file that is  *)
(* not a YAML mapping or is empty, which are refused alike; Bad a value of *)
(* the wrong type or outside its set, Refused a parser's answer.  The name *)
(* of a definition is the key it is filed under.  A description is ""      *)
(* (left out), or "flagged" when it holds an anti-pattern phrase; grains   *)
(* are their ranks in the canonical order.                                 *)
(***************************************************************************)
EXTENDS Naturals, Sequences

CONSTANTS Bad, Refused, None

Broken == <<>>

Origins == {"manual", "suggested", "dbt_import"}
Groups == {"identity", "billing", "activity", "other"}
Cardinalities == {"one_to_one", "one_to_many", "many_to_one", "many_to_many"}
Aggregations == {"sum", "count", "count_distinct", "avg", "min", "max"}
Grains == 1..5

check_keys(doc, required, optional) ==
    required \subseteq DOMAIN doc /\ DOMAIN doc \subseteq required \cup optional

Field(doc, f, default) == IF f \in DOMAIN doc THEN doc[f] ELSE default

-----------------------------------------------------------------------------
(* Entities *)

parse_entity_yaml(doc) ==
    LET origin == Field(doc, "origin", "manual")
        group == Field(doc, "group", "other")
    IN  IF doc = Broken THEN Refused
        ELSE IF /\ check_keys(doc, {"version", "binding", "identity"},
                              {"description", "origin", "group"})
                /\ doc.version = 1 /\ doc.binding # Bad /\ doc.identity # Bad
                /\ origin \in Origins /\ group \in Groups
        THEN [table |-> doc.binding, identity |-> doc.identity, origin |-> origin,
              group |-> group]
        ELSE Refused

\* Fault: the origin is left out of the file.
entity_to_yaml_no_origin(e) ==
    [f \in {"version", "binding", "identity"} \cup (IF e.group = "other" THEN {} ELSE {"group"}) |->
        CASE f = "version" -> 1 [] f = "binding" -> e.table [] f = "identity" -> e.identity
          [] OTHER -> e.group]

\* The group is written only when it is not the default.
entity_to_yaml(e) ==
    [f \in {"version", "binding", "identity", "origin"}
           \cup (IF e.group = "other" THEN {} ELSE {"group"}) |->
        CASE f = "version" -> 1 [] f = "binding" -> e.table [] f = "identity" -> e.identity
          [] f = "origin" -> e.origin [] OTHER -> e.group]

-----------------------------------------------------------------------------
(* Metrics *)

\* MetricMeasure: one column, or an expression over several.
measure_columns(m) == IF "column" \in DOMAIN m THEN {m.column} ELSE m.expression

parse_measure(raw) ==
    /\ raw # Bad /\ check_keys(raw, {"agg"}, {"column", "expression"}) /\ raw.agg # Bad
    /\ ("column" \in DOMAIN raw) # ("expression" \in DOMAIN raw)
    /\ ("column" \in DOMAIN raw => raw.column # Bad)
    /\ ("expression" \in DOMAIN raw => raw.expression # Bad)

\* The time dimension and its grains come together, the grains not empty.
parse_time(doc) ==
    /\ ("time_dimension" \in DOMAIN doc) = ("time_grains" \in DOMAIN doc)
    /\ "time_dimension" \in DOMAIN doc =>
          doc.time_dimension # Bad /\ doc.time_grains # Bad /\ doc.time_grains # <<>>

\* Metric.__post_init__: grains in canonical order without repetition.  Nothing ties the
\* entity of the time dimension to the metric's own.
valid_metric(grains) == \A i, j \in DOMAIN grains : i < j => grains[i] < grains[j]

MetricOf(doc, origin) ==
    [entity |-> doc.entity, measure |-> doc.measure,
     time |-> Field(doc, "time_dimension", None), grains |-> Field(doc, "time_grains", <<>>),
     origin |-> origin, description |-> Field(doc, "description", "")]

metric_optional == {"description", "time_dimension", "time_grains", "origin"}

\* Origin dbt_import is reserved for the importer.
parse_metric_yaml(doc) ==
    LET origin == Field(doc, "origin", "manual")
    IN  IF doc = Broken THEN Refused
        ELSE IF /\ check_keys(doc, {"version", "entity", "measure"}, metric_optional)
                /\ doc.version = 1 /\ doc.entity # Bad
                /\ parse_measure(doc.measure) /\ parse_time(doc)
                /\ origin \in Origins \ {"dbt_import"}
                /\ valid_metric(Field(doc, "time_grains", <<>>))
        THEN MetricOf(doc, origin) ELSE Refused

metric_to_yaml(m) ==
    [f \in {"version", "entity", "measure", "origin"}
           \cup (IF m.time = None THEN {} ELSE {"time_dimension", "time_grains"})
           \cup (IF m.description = "" THEN {} ELSE {"description"}) |->
        CASE f = "version" -> 1 [] f = "entity" -> m.entity [] f = "measure" -> m.measure
          [] f = "origin" -> m.origin [] f = "time_dimension" -> m.time
          [] f = "time_grains" -> m.grains [] OTHER -> m.description]

-----------------------------------------------------------------------------
(* Canonical joins *)

\* CanonicalJoin.__post_init__
valid_join(src, tgt, on) == src # tgt /\ on # {}

parse_canonical_join_yaml(doc) ==
    LET origin == Field(doc, "origin", "manual")
        card == Field(doc, "cardinality", None)
    IN  IF doc = Broken THEN Refused
        ELSE IF /\ check_keys(doc, {"version", "source_entity", "target_entity", "on"},
                              {"description", "origin", "cardinality"})
                /\ doc.version = 1 /\ doc.source_entity # Bad /\ doc.target_entity # Bad
                /\ doc.on # Bad /\ valid_join(doc.source_entity, doc.target_entity, doc.on)
                /\ origin \in Origins \ {"dbt_import"} /\ card \in Cardinalities \cup {None}
        THEN [src |-> doc.source_entity, tgt |-> doc.target_entity, on |-> doc.on,
              origin |-> origin, card |-> card]
        ELSE Refused

canonical_join_to_yaml(j) ==
    [f \in {"version", "source_entity", "target_entity", "on", "origin"}
           \cup (IF j.card = None THEN {} ELSE {"cardinality"}) |->
        CASE f = "version" -> 1 [] f = "source_entity" -> j.src [] f = "target_entity" -> j.tgt
          [] f = "on" -> j.on [] f = "origin" -> j.origin [] OTHER -> j.card]

-----------------------------------------------------------------------------
(* What the language model answers: a set of [name, doc]; one bad candidate refuses   *)
(* the whole answer.  At most top_k are kept, which the caller models as a subset.    *)

entity_candidate_ok(doc) ==
    /\ check_keys(doc, {"binding", "identity", "confidence"},
                  {"description", "rationale", "pii_hints"})
    /\ doc.binding # Bad /\ doc.identity # Bad /\ doc.confidence \in {"high", "medium", "low"}
    /\ Field(doc, "pii_hints", {}) # Bad

to_persisted_entity(doc) == [table |-> doc.binding, identity |-> doc.identity,
                             origin |-> "suggested", group |-> "other"]

entity_parse_suggestions(answer) ==
    IF \E c \in answer : ~entity_candidate_ok(c.doc) THEN Refused
    ELSE {[key |-> c.name, row |-> to_persisted_entity(c.doc)] : c \in answer}

\* A description with an anti-pattern phrase is a bad candidate.
metric_candidate_ok(doc) ==
    /\ check_keys(doc, {"entity", "measure", "confidence"},
                  {"description", "rationale", "time_dimension", "time_grains"})
    /\ doc.entity # Bad /\ doc.confidence \in {"high", "medium", "low"}
    /\ parse_measure(doc.measure) /\ parse_time(doc)
    /\ Field(doc, "description", "") # "flagged"
    /\ valid_metric(Field(doc, "time_grains", <<>>))

metric_parse_suggestions(answer) ==
    IF \E c \in answer : ~metric_candidate_ok(c.doc) THEN Refused
    ELSE {[key |-> c.name, row |-> MetricOf(c.doc, "suggested")] : c \in answer}
=============================================================================
