------------------------------ MODULE Indexer -------------------------------
(***************************************************************************)
(* index(): diff the source against cached fingerprints, enrich what       *)
(* changed, persist it, and classify it for PII.  Every store call is a    *)
(* transaction of its own, so the process can die, or a call can raise,    *)
(* between any two of them.  Operators override PII tags beside it.        *)
(*                                                                         *)
(* A table's shape is a function from its columns to what their structural *)
(* fingerprint covers; a fingerprint is as good as the shape it hashes.    *)
(* Categories are reduced to what the store tells apart: "floor" (one of   *)
(* CATASTROPHIC_LEAK_CATEGORIES) and "other" (none of them).               *)
(***************************************************************************)
EXTENDS Naturals, FiniteSets

CONSTANTS
    Tables, Cols, Kinds,  \* tables of the source; column names; column structures
    FloorCols,            \* <<column, structure>> pairs the classifier finds catastrophic
    Absent,               \* no such table, row or tag
    RunOptions,           \* the options index() is called with
    MaxDdl, MaxFailures, MaxOps  \* bounds: schema changes, deaths and raises, overrides

ASSUME IndexerAssumption ==
    /\ FloorCols \subseteq Cols \X Kinds
    /\ RunOptions \subseteq [pipeline : BOOLEAN, embedder : BOOLEAN, noPii : BOOLEAN]
    /\ Absent \notin Tables
    /\ {MaxDdl, MaxFailures, MaxOps} \subseteq Nat

Shapes == UNION {[S -> Kinds] : S \in (SUBSET Cols) \ {{}}}
MaybeShape == Shapes \cup {Absent}
Rows == [category : {"floor", "other"}, origin : {"heuristic", "operator"}]
Overrides == [table : Tables, column : Cols, category : {"floor", "other"},
              saw : Rows \cup {Absent}]

ASSUME AbsentAssumption == Absent \notin Shapes \cup Rows \cup Overrides

VARIABLES
    source,                     \* shape of every table in the user's database
    tables, fps, descs, embs,   \* store: table row, fingerprints, descriptions and
                                \* embeddings, each with the shape it was written for
    tags,                       \* column_pii_tags
    pc, removing, todo,         \* the running index(): step, tables to drop, tables to visit
    cur, shape,                 \* the table in hand and its shape as get_table saw it
    opts,                       \* pipeline / embedder supplied, --no-pii-classify
    ddl, failures, ops,         \* counters behind the bounds
    pending, forced,            \* an override checked and not yet written; --force of the last one
    entities,                   \* tables with an entity the operator curated
    quiet,                      \* history: no schema change since the run began
    untagged                    \* history: columns whose tag the last write or a clear left out

storeVars == <<tables, fps, descs, embs, tags>>
runVars == <<pc, removing, todo, cur, shape, opts>>
countVars == <<ddl, failures, ops>>
opVars == <<pending, forced, entities>>
histVars == <<quiet, untagged>>
vars == <<source, storeVars, runVars, countVars, opVars, histVars>>

NoRows == [c \in Cols |-> Absent]
NoOpts == [pipeline |-> FALSE, embedder |-> FALSE, noPii |-> FALSE]

Init ==
    /\ source \in [Tables -> Shapes \cup {Absent}]
    /\ tables = [t \in Tables |-> Absent] /\ fps = tables /\ descs = tables /\ embs = tables
    /\ tags = [t \in Tables |-> NoRows]
    /\ pc = "idle" /\ removing = {} /\ todo = {} /\ cur = Absent /\ shape = Absent
    /\ opts = NoOpts
    /\ ddl = 0 /\ failures = 0 /\ ops = 0
    /\ quiet = FALSE /\ untagged = {} /\ pending = Absent /\ forced = FALSE
    /\ entities = {}

-----------------------------------------------------------------------------
\* The user's database changes at any moment, also in the middle of a run.
Ddl(t) ==
    /\ ddl < MaxDdl /\ ddl' = ddl + 1
    /\ \E s \in (Shapes \cup {Absent}) \ {source[t]} : source' = [source EXCEPT ![t] = s]
    /\ quiet' = FALSE
    /\ UNCHANGED <<opVars, storeVars, runVars, failures, ops, untagged>>

\* list_tables on both sides.
IndexStart ==
    /\ pc = "idle"
    /\ opts' \in RunOptions
    /\ todo' = {t \in Tables : source[t] # Absent}
    /\ removing' = {t \in Tables : tables[t] # Absent /\ source[t] = Absent}
    /\ pc' = "remove" /\ quiet' = TRUE
    /\ UNCHANGED <<opVars, source, storeVars, cur, shape, countVars, untagged>>

\* delete_table: the cascade takes fingerprints, descriptions, embeddings and the
\* entities bound to the table (with their joins and metrics) along.
DeleteTable(t) ==
    /\ pc = "remove" /\ cur = Absent /\ t \in removing
    /\ tables' = [tables EXCEPT ![t] = Absent] /\ fps' = [fps EXCEPT ![t] = Absent]
    /\ descs' = [descs EXCEPT ![t] = Absent] /\ embs' = [embs EXCEPT ![t] = Absent]
    /\ entities' = entities \ {t}
    /\ cur' = t
    /\ UNCHANGED <<pending, forced, source, tags, pc, removing, todo, shape, opts, countVars,
                   histVars>>

\* Fault: write_column_pii_tags drops every row of the table.
write_column_pii_tags_all(t, new) ==
    tags' = [tags EXCEPT ![t] = [c \in Cols |-> IF c \in DOMAIN new THEN new[c] ELSE Absent]]

\* write_column_pii_tags: heuristic rows are replaced by `new`; an operator's row
\* stays and keeps a new one out.
write_column_pii_tags(t, new) ==
    tags' = [tags EXCEPT ![t] = [c \in Cols |->
        IF tags[t][c] # Absent /\ tags[t][c].origin = "operator" THEN tags[t][c]
        ELSE IF c \in DOMAIN new THEN new[c] ELSE Absent]]

\* The second transaction of a removal.
WipeRemoved ==
    /\ pc = "remove" /\ cur # Absent
    /\ write_column_pii_tags(cur, <<>>)
    /\ removing' = removing \ {cur} /\ cur' = Absent
    /\ UNCHANGED <<opVars, source, tables, fps, descs, embs, pc, todo, shape, opts,
                   countVars, histVars>>

RemovalsDone ==
    /\ pc = "remove" /\ removing = {} /\ cur = Absent
    /\ pc' = "visit"
    /\ UNCHANGED <<opVars, source, storeVars, removing, todo, cur, shape, opts, countVars,
                   histVars>>

-----------------------------------------------------------------------------
\* Fault: only the set of column names is compared.
UnchangedByName(t) == fps[t] # Absent /\ DOMAIN fps[t] = DOMAIN source[t]

\* No column added, removed or changed with respect to the cached fingerprints.
Unchanged(t) == fps[t] = source[t]

\* get_table and the diff.  An unchanged table is left alone.
Visit(t) ==
    /\ pc = "visit" /\ t \in todo /\ source[t] # Absent
    /\ todo' = todo \ {t}
    /\ IF Unchanged(t) THEN UNCHANGED <<pc, cur, shape>>
                       ELSE pc' = "enrich" /\ cur' = t /\ shape' = source[t]
    /\ UNCHANGED <<opVars, source, storeVars, removing, opts, countVars, histVars>>

\* profile_table, enrich_columns_async and the embedder: nothing is persisted.
Enrich ==
    /\ pc = "enrich"
    /\ pc' = "write_table"
    /\ UNCHANGED <<opVars, source, storeVars, removing, todo, cur, shape, opts, countVars,
                   histVars>>

\* Fault: an upsert that keeps the child rows.
WriteTableKeepingChildren ==
    /\ pc = "write_table"
    /\ tables' = [tables EXCEPT ![cur] = shape]
    /\ pc' = "write_fps"
    /\ UNCHANGED <<opVars, source, fps, descs, embs, tags, removing, todo, cur, shape, opts,
                   countVars, histVars>>

\* write_table is a DELETE and an INSERT: the cascade empties the child tables, the
\* entities bound to the table among them.
WriteTable ==
    /\ pc = "write_table"
    /\ tables' = [tables EXCEPT ![cur] = shape] /\ fps' = [fps EXCEPT ![cur] = Absent]
    /\ descs' = [descs EXCEPT ![cur] = Absent] /\ embs' = [embs EXCEPT ![cur] = Absent]
    /\ entities' = entities \ {cur}
    /\ pc' = "write_fps"
    /\ UNCHANGED <<pending, forced, source, tags, removing, todo, cur, shape, opts,
                   countVars, histVars>>

WriteFingerprints ==
    /\ pc = "write_fps"
    /\ fps' = [fps EXCEPT ![cur] = shape]
    /\ untagged' = untagged \cup ({cur} \X Cols)
    /\ pc' = IF opts.pipeline THEN "write_descs" ELSE "write_tags"
    /\ UNCHANGED <<opVars, source, tables, descs, embs, tags, removing, todo, cur, shape,
                   opts, countVars, quiet>>

WriteDescriptions ==
    /\ pc = "write_descs"
    /\ descs' = [descs EXCEPT ![cur] = shape]
    /\ pc' = IF opts.embedder THEN "write_embs" ELSE "write_tags"
    /\ UNCHANGED <<opVars, source, tables, fps, embs, tags, removing, todo, cur, shape, opts,
                   countVars, histVars>>

WriteEmbeddings ==
    /\ pc = "write_embs"
    /\ embs' = [embs EXCEPT ![cur] = shape]
    /\ pc' = "write_tags"
    /\ UNCHANGED <<opVars, source, tables, fps, descs, tags, removing, todo, cur, shape,
                   opts, countVars, histVars>>

\* classify_column for every column of the table.
classify(s) == [c \in DOMAIN s |->
    [category |-> IF <<c, s[c]>> \in FloorCols THEN "floor" ELSE "other", origin |-> "heuristic"]]

\* Fault: only the columns that carried no tag yet are classified.
WriteTagsForNew ==
    /\ pc = "write_tags"
    /\ LET new == classify(shape)
       IN  tags' = [tags EXCEPT ![cur] = [c \in Cols |->
               IF tags[cur][c] = Absent /\ c \in DOMAIN shape THEN new[c] ELSE tags[cur][c]]]
    /\ untagged' = untagged \ ({cur} \X Cols)
    /\ pc' = "visit" /\ cur' = Absent /\ shape' = Absent
    /\ UNCHANGED <<opVars, source, tables, fps, descs, embs, removing, todo, opts, countVars,
                   quiet>>

WriteTags ==
    /\ pc = "write_tags"
    /\ write_column_pii_tags(cur, IF opts.noPii THEN <<>> ELSE classify(shape))
    /\ untagged' = IF opts.noPii THEN untagged ELSE untagged \ ({cur} \X Cols)
    /\ pc' = "visit" /\ cur' = Absent /\ shape' = Absent
    /\ UNCHANGED <<opVars, source, tables, fps, descs, embs, removing, todo, opts, countVars,
                   quiet>>

Finish ==
    /\ pc = "visit" /\ todo = {}
    /\ pc' = "idle" /\ opts' = NoOpts
    /\ UNCHANGED <<opVars, source, storeVars, removing, todo, cur, shape, countVars, histVars>>

\* Fault: the interrupted table is still in hand.
FailMidTable ==
    /\ pc # "idle" /\ failures < MaxFailures
    /\ failures' = failures + 1
    /\ pc' = "idle"
    /\ UNCHANGED <<opVars, source, storeVars, removing, todo, cur, shape, opts, ddl, ops,
                   quiet, untagged>>

\* The run ends early: killed, or an exception out of the source (a table that is
\* gone since list_tables), the profiler, enrichment (cost cap, network), the
\* embedder or SQLite.  Nothing is undone.
Fail ==
    /\ pc # "idle" /\ failures < MaxFailures
    /\ failures' = failures + 1
    /\ pc' = "idle" /\ removing' = {} /\ todo' = {} /\ cur' = Absent /\ shape' = Absent
    /\ opts' = NoOpts
    /\ quiet' = FALSE
    /\ UNCHANGED <<opVars, source, storeVars, ddl, ops, untagged>>

\* get_table finds the listed table gone: the run raises.
VisitGone(t) ==
    /\ pc = "visit" /\ t \in todo /\ source[t] = Absent
    /\ pc' = "idle" /\ removing' = {} /\ todo' = {} /\ cur' = Absent /\ shape' = Absent
    /\ opts' = NoOpts
    /\ UNCHANGED <<opVars, source, storeVars, countVars, histVars>>

-----------------------------------------------------------------------------
Floor(row) == row # Absent /\ row.category = "floor"

\* upsert_column_pii_tag_override reads the stored row outside the transaction that
\* writes, and refuses to take a catastrophic tag away unless forced.
CheckOverride(t, c, category, force) ==
    /\ pending = Absent /\ ops < MaxOps /\ ops' = ops + 1
    /\ force \/ category = "floor" \/ ~Floor(tags[t][c])
    /\ pending' = [table |-> t, column |-> c, category |-> category, saw |-> tags[t][c]]
    /\ forced' = force
    /\ UNCHANGED <<source, storeVars, runVars, ddl, failures, quiet, untagged, entities>>

WriteOverride ==
    /\ pending # Absent
    /\ tags' = [tags EXCEPT ![pending.table][pending.column] =
                    [category |-> pending.category, origin |-> "operator"]]
    /\ pending' = Absent
    /\ UNCHANGED <<source, tables, fps, descs, embs, runVars, countVars, quiet, untagged,
                   forced, entities>>

\* delete_column_pii_tag_override: the operator's row goes, nothing takes its place.
\* Only the operator changes such a row, so its check and its DELETE are one step.
ClearOverride(t, c, force) ==
    /\ pending = Absent /\ ops < MaxOps /\ ops' = ops + 1
    /\ tags[t][c] # Absent /\ tags[t][c].origin = "operator"
    /\ force \/ ~Floor(tags[t][c])
    /\ tags' = [tags EXCEPT ![t][c] = Absent]
    /\ untagged' = untagged \cup {<<t, c>>}
    /\ forced' = force
    /\ UNCHANGED <<source, tables, fps, descs, embs, runVars, ddl, failures, quiet, pending,
                   entities>>

\* write_entity: an entity is bound to an indexed table.
ApplyEntity(t) ==
    /\ ops < MaxOps /\ ops' = ops + 1
    /\ tables[t] # Absent
    /\ entities' = entities \cup {t}
    /\ UNCHANGED <<source, storeVars, runVars, ddl, failures, histVars, pending, forced>>

Operator ==
    \/ WriteOverride
    \/ \E t \in Tables : ApplyEntity(t)
    \/ \E t \in Tables, c \in Cols, force \in BOOLEAN :
        \/ \E category \in {"floor", "other"} :
               (force => category = "other") /\ CheckOverride(t, c, category, force)
        \/ ClearOverride(t, c, force)

-----------------------------------------------------------------------------
RunStep ==
    \/ IndexStart \/ WipeRemoved \/ RemovalsDone \/ Enrich \/ WriteTable \/ WriteFingerprints
    \/ WriteDescriptions \/ WriteEmbeddings \/ WriteTags \/ Finish
    \/ \E t \in Tables : DeleteTable(t) \/ Visit(t) \/ VisitGone(t)

Next == RunStep \/ Fail \/ Operator \/ \E t \in Tables : Ddl(t)

\* The operator keeps re-running `schemabrain index`; a run takes its next step.
Spec == Init /\ [][Next]_vars /\ WF_vars(RunStep)

-----------------------------------------------------------------------------
(* Properties *)

\* The store's tables and the fields of a run have their types.
TypeOK ==
    /\ source \in [Tables -> MaybeShape] /\ tables \in [Tables -> MaybeShape]
    /\ fps \in [Tables -> MaybeShape] /\ descs \in [Tables -> MaybeShape]
    /\ embs \in [Tables -> MaybeShape]
    /\ tags \in [Tables -> [Cols -> Rows \cup {Absent}]]
    /\ pc \in {"idle", "remove", "visit", "enrich", "write_table", "write_fps", "write_descs",
               "write_embs", "write_tags"}
    /\ removing \subseteq Tables /\ todo \subseteq Tables
    /\ cur \in Tables \cup {Absent} /\ shape \in MaybeShape
    /\ shape # Absent <=> pc \notin {"idle", "remove", "visit"}
    /\ shape # Absent => cur \in Tables
    /\ quiet \in BOOLEAN /\ forced \in BOOLEAN
    /\ entities \subseteq {t \in Tables : tables[t] # Absent}
    /\ ops \in Nat /\ pending \in Overrides \cup {Absent}

\* Whatever died when: cached fingerprints, descriptions and embeddings belong to the
\* shape in the table row, so a fingerprint hit never hides a stale table and no
\* description outlives the column it describes.
CacheMatchesTable ==
    \A t \in Tables :
        /\ fps[t] \in {Absent, tables[t]} /\ descs[t] \in {Absent, fps[t]}
        /\ embs[t] \in {Absent, descs[t]}

\* A run that ends normally, with no schema change under it, leaves the store's
\* tables equal to the source's, removals included.
FinishedRunMirrorsSource == [][Finish /\ quiet => tables = source]_vars

\* Apart from what a run that died, --no-pii-classify or a cleared override left out,
\* every column of a table that counts as unchanged is tagged, and its heuristic tag
\* is the classifier's verdict on the stored structure.  Nothing else is tagged so.
TagsMatchTable ==
    \A t \in Tables, c \in Cols : fps[t] # Absent /\ <<t, c>> \notin untagged =>
        /\ c \in DOMAIN fps[t] => tags[t][c] # Absent
        /\ tags[t][c] # Absent /\ tags[t][c].origin = "heuristic" =>
               c \in DOMAIN fps[t] /\ tags[t][c] = classify(fps[t])[c]

\* Only the operator touches an operator's row; and without --force the operator takes
\* no catastrophic tag away, unless a run rewrote the row between the check and the
\* write.
OperatorRowsAreTheOperators ==
    [][\A t \in Tables, c \in Cols : tags[t][c] # Absent /\ tags'[t][c] # tags[t][c] =>
        IF ops' = ops /\ pending' = pending
          THEN tags[t][c].origin = "heuristic"
          ELSE Floor(tags[t][c]) /\ ~Floor(tags'[t][c]) =>
                  forced' \/ (pending # Absent /\ pending.saw # tags[t][c])]_vars

\* Once the schema rests and runs stop failing, the store catches up for good.
StoreCatchesUp == <>[](tables = source)

\* indexer.py: "write_table cascades to delete any stale fingerprints / descriptions /
\* embeddings; the writes that follow repopulate them": what the cascade deletes is
\* what the run writes again, so an operator's entity survives a re-index.
ReindexKeepsCuration == [][WriteTable => entities \subseteq entities']_vars
=============================================================================
