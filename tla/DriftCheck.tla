----------------------------- MODULE DriftCheck -----------------------------
(***************************************************************************)
(* check_drift(): the persisted definitions against the live schema, with  *)
(* the indexed snapshot of each table as the baseline for column shapes.   *)
(*                                                                         *)
(* A table is a function from its columns to [type, nullable], or Absent.  *)
(* Definitions are the records of SemanticYaml; a time dimension is None   *)
(* or <<entity, column>>, `on` a set of <<source column, target column>>.  *)
(***************************************************************************)
EXTENDS SemanticYaml, FiniteSets

CONSTANT Absent

Present(rows) == {k \in DOMAIN rows : rows[k] # Absent}

\* Fault: a flipped NOT NULL goes unnoticed.
column_shape_drifts_type_only(stored, live, c) ==
    IF stored = Absent \/ c \notin DOMAIN stored THEN {}
    ELSE {d \in {"type_mismatch"} : stored[c].type # live[c].type}

\* A live column against its indexed baseline; without a baseline nothing is said.
column_shape_drifts(stored, live, c) ==
    IF stored = Absent \/ c \notin DOMAIN stored THEN {}
    ELSE {d \in {"type_mismatch", "nullability_change"} :
             \/ d = "type_mismatch" /\ stored[c].type # live[c].type
             \/ d = "nullability_change" /\ stored[c].nullable # live[c].nullable}

\* The first loop.  A missing table or identity hides the shape comparison.
entity_drifts(e, live, base) ==
    LET lt == live[e.table]
    IN  IF lt = Absent THEN {"table_missing"}
        ELSE IF e.identity \notin DOMAIN lt THEN {"identity_column_missing"}
        ELSE column_shape_drifts(base[e.table], lt, e.identity)

\* The entities whose metrics and joins are suppressed as downstream noise.
drifted_entity_names(ents, live, base) ==
    {k \in Present(ents) :
        entity_drifts(ents[k], live, base)
            \cap {"table_missing", "identity_column_missing"} # {}}

\* The second loop, for a metric whose anchor is not suppressed.
metric_drifts(m, ents, live, base) ==
    LET t == ents[m.entity].table
        cols == measure_columns(m.measure)
        td == m.time[2]
    IN  IF ~(cols \subseteq DOMAIN live[t]) THEN {"measure_column_missing"}
        ELSE (UNION {column_shape_drifts(base[t], live[t], c) : c \in cols})
             \cup (IF m.time = None THEN {}
                   ELSE IF td \notin DOMAIN live[t] THEN {"time_dimension_column_missing"}
                   ELSE column_shape_drifts(base[t], live[t], td))

\* The third loop: structure first, shapes only when every `on` column is there.
join_drifts(j, ents, live, base) ==
    LET s == ents[j.src].table
        t == ents[j.tgt].table
    IN  IF \E on \in j.on : on[1] \notin DOMAIN live[s] \/ on[2] \notin DOMAIN live[t]
        THEN {"join_column_missing"}
        ELSE UNION {column_shape_drifts(base[s], live[s], on[1])
                    \cup column_shape_drifts(base[t], live[t], on[2]) : on \in j.on}

\* The metrics the engine gets to: the assertion on the time dimension's entity
\* fires for one of them only when its measure columns are all present.
reached_metrics(ents, mets, live, base) ==
    {k \in Present(mets) : mets[k].entity \notin drifted_entity_names(ents, live, base)}

assertion_fails(ents, mets, live, base) ==
    \E k \in reached_metrics(ents, mets, live, base) :
        /\ mets[k].time # None /\ mets[k].time[1] # mets[k].entity
        /\ measure_columns(mets[k].measure) \subseteq DOMAIN live[ents[mets[k].entity].table]

reached_joins(ents, jns, live, base) ==
    LET bad == drifted_entity_names(ents, live, base)
    IN  {k \in Present(jns) : jns[k].src \notin bad /\ jns[k].tgt \notin bad}

\* The report: every drift with the definition it is about, and what is healthy.
check_drift(ents, mets, jns, live, base) ==
    LET ms == reached_metrics(ents, mets, live, base)
        js == reached_joins(ents, jns, live, base)
        ed == [k \in Present(ents) |-> entity_drifts(ents[k], live, base)]
        md == [k \in ms |-> metric_drifts(mets[k], ents, live, base)]
        jd == [k \in js |-> join_drifts(jns[k], ents, live, base)]
    IN  [crash |-> assertion_fails(ents, mets, live, base),
         drifts |-> (UNION {{k} \X ed[k] : k \in DOMAIN ed})
                    \cup (UNION {{k} \X md[k] : k \in ms})
                    \cup (UNION {{k} \X jd[k] : k \in js}),
         healthy |-> {k \in DOMAIN ed : ed[k] = {}} \cup {k \in ms : md[k] = {}}
                     \cup {k \in js : jd[k] = {}}]
=============================================================================
