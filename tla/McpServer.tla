----------------------------- MODULE McpServer ------------------------------
(***************************************************************************)
(* `schemabrain serve`: one agent calls the tools of the MCP server, one   *)
(* call at a time (a tool is a plain function on the event loop).  A tool  *)
(* answers from several SELECTs on the store, no transaction around them;  *)
(* `index`, `apply` and `pii` run in other processes and write between any *)
(* two of them.  Every column name that leaves the server is looked up in  *)
(* column_pii_tags first and masked when its categories meet the block set.*)
(*                                                                         *)
(* A tag is reduced to whether it meets the block set; a reply to the      *)
(* column names it shows, the ones it masks, its status and its paths.     *)
(* get_metric's own decisions are the subject of module GetMetric.         *)
(***************************************************************************)
EXTENDS FkPaths

CONSTANTS
    Tables, Cols, Entities,  \* tables are numbers: the code sorts by their names
    Keys, Joins,             \* foreign keys and canonical joins that may be stored
    Versions,                \* what index may write: a table with its columns and keys
    Stores,                  \* the stores a server may be started on
    Calls,                   \* the calls an agent may make
    Absent,                  \* no such table, no such name
    MaxHops, Limit,          \* max_hops of suggest_joins, limit of the find tools
    MaxCalls, MaxChanges, MaxFaults  \* bounds: calls, writes of others, raising reads

\* The primary key of canonical_joins: one join of a name.
OneOfAName(S) == \A j, k \in S : j.name = k.name => j = k

\* Names and columns are of the sets above.  A table has one key of a name: that is the
\* primary key of foreign_keys.  The entities of a store have tables, and its joins
\* entities: those are its foreign keys.
ASSUME ServerAssumption ==
    /\ Tables \subseteq Nat /\ Absent \notin Tables
    /\ {MaxHops, Limit, MaxCalls, MaxChanges, MaxFaults} \subseteq Nat
    /\ \A fk \in Keys : /\ fk.name \in Nat /\ {fk.owner, fk.ref} \subseteq Tables
                        /\ {fk.ownerCols, fk.refCols} \subseteq Seq(Cols)
    /\ \A j \in Joins : /\ {j.source, j.target} \subseteq Entities
                        /\ {j.sourceCols, j.targetCols} \subseteq Seq(Cols)
    /\ \A v \in Versions : /\ v.table \in Tables /\ v.cols \in (SUBSET Cols) \ {{}}
                           /\ v.fks \subseteq Keys /\ IsFiniteSet(v.fks) /\ OnePerName(v.fks)
                           /\ \A fk \in v.fks : fk.owner = v.table
    /\ \A s \in Stores :
           /\ s.cols \in [Tables -> SUBSET Cols] /\ s.blocked \subseteq Tables \X Cols
           /\ s.fks \subseteq Keys /\ IsFiniteSet(s.fks) /\ OnePerName(s.fks)
           /\ \A fk \in s.fks : s.cols[fk.owner] # {}
           /\ s.bound \in [Entities -> Tables \cup {Absent}]
           /\ s.joins \subseteq Joins /\ IsFiniteSet(s.joins) /\ OneOfAName(s.joins)
           /\ \A e \in Entities : s.bound[e] # Absent => s.cols[s.bound[e]] # {}
           /\ \A j \in s.joins : Absent \notin {s.bound[j.source], s.bound[j.target]}
    /\ \A c \in Calls :
           /\ c.tool \in {"describe_table", "describe_column"} => c.table \in Tables
           /\ c.tool \in {"describe_entity", "get_metric"} => c.entity \in Entities
           /\ c.tool = "resolve_join" => {c.a, c.b} \subseteq Entities
           /\ c.tool = "suggest_joins" => c.tables \in Seq(Tables)

VARIABLES
    cols, fks, blocked, bound, joins,  \* the store: columns and keys of the tables, columns
                                       \* with a blocked tag, tables of entities, joins
    pc, call,                          \* where the call is, and what was asked
    got,                               \* what the tool has read so far
    todo, next,                        \* tag lookups still to make, and where they lead
    status, shown, masked, paths,      \* the reply being built
    row, fp,                           \* the call's audit row; its fingerprint is in the reply
    clear, hot, quiet,                 \* history of the call: columns seen without and with a
                                       \* blocked tag; nobody wrote to the store
    calls, changes, faults             \* counters behind the bounds

store == <<cols, fks, blocked, bound, joins>>
reply == <<status, shown, masked, paths>>
sinks == <<row, fp>>
history == <<clear, hot, quiet>>
vars == <<store, pc, call, got, todo, next, reply, sinks, history, calls, changes, faults>>

AllColumns == Tables \X Cols
Nothing == [at |-> Absent, to |-> Absent, cols |-> {}, fks |-> {}, join |-> Absent, tables |-> {}]
NoCall == [tool |-> "none", args |-> "ok"]

Init ==
    /\ \E s \in Stores : /\ cols = s.cols /\ fks = s.fks /\ blocked = s.blocked
                         /\ bound = s.bound /\ joins = s.joins
    /\ pc = "idle" /\ call = NoCall /\ got = Nothing /\ todo = <<>> /\ next = "idle"
    /\ status = "none" /\ shown = {} /\ masked = {} /\ paths = <<>>
    /\ row = "none" /\ fp = FALSE
    /\ clear = {} /\ hot = {} /\ quiet = TRUE
    /\ calls = 0 /\ changes = 0 /\ faults = 0

-----------------------------------------------------------------------------
(* Dispatch *)

Arrive(c) ==
    /\ pc = "idle" /\ calls < MaxCalls /\ calls' = calls + 1
    /\ pc' = "dispatch" /\ call' = c
    /\ clear' = AllColumns \ blocked /\ hot' = blocked /\ quiet' = TRUE
    /\ UNCHANGED <<store, got, todo, next, reply, sinks, changes, faults>>

\* The call is over, and with it everything the tool held.
Over ==
    /\ pc' = "idle" /\ call' = NoCall /\ got' = Nothing /\ todo' = <<>> /\ next' = "idle"
    /\ status' = "none" /\ shown' = {} /\ masked' = {} /\ paths' = <<>>
    /\ row' = "none" /\ fp' = FALSE
    /\ clear' = {} /\ hot' = {} /\ quiet' = TRUE

\* The tool has its answer; instrument() takes over.
Finish(s) ==
    /\ status' = s /\ pc' = "record"
    /\ UNCHANGED <<todo, next>>

\* _StrictArgsFastMCP.call_tool: unknown arguments are recorded and never reach the tool;
\* an unknown tool or an argument of the wrong type is the framework's and leaves no trace.
Dispatch ==
    /\ pc = "dispatch"
    /\ \/ call.args \in {"ok", "quoted", "malformed"} /\ pc' = "begin"
          /\ UNCHANGED <<call, got, todo, next, reply, sinks, history>>
       \/ call.args = "extra" /\ Finish("error")
          /\ UNCHANGED <<call, got, shown, masked, paths, sinks, history>>
       \/ call.args = "invalid" /\ Over
    /\ UNCHANGED <<store, calls, changes, faults>>

\* Every read of a tool leaves the store, the sinks and the history alone.
Reading == UNCHANGED <<store, call, sinks, history, calls, changes, faults>>

\* A name that does not parse: ValueError, malformed_name.
MalformedName ==
    /\ pc = "begin" /\ call.args = "malformed" /\ Finish("error")
    /\ Reading /\ UNCHANGED <<got, shown, masked, paths>>

\* A quoted name parses to the same table as the plain one.
Begin(tool) == pc = "begin" /\ call.args \in {"ok", "quoted"} /\ call.tool = tool

-----------------------------------------------------------------------------
(* Tag lookups *)

\* A lookup of columns of the table `of` in the tags of the table `on`.
Look(t, names) == [of |-> t, on |-> t, cols |-> ToSet(names)]

\* Fault: the columns of the other table are looked up on this one.
key_lookups_on_owner(fk) ==
    <<Look(fk.owner, fk.ownerCols), [Look(fk.ref, fk.refCols) EXCEPT !.on = fk.owner]>>

\* redact_blocked_fk_columns on both ends of a key, each on its own table.
key_lookups(fk) == <<Look(fk.owner, fk.ownerCols), Look(fk.ref, fk.refCols)>>

\* Both ends of every key, the keys in the order of the store's rows.
LookupsOf(S) == LET keys == KeySeq(S)
                IN  FlattenSeq([i \in DOMAIN keys |-> key_lookups(keys[i])])

\* describe_table passes the name on as the caller spelled it, and no tag is stored
\* under a quoted name.
AsSpelled(lookups) ==
    IF call.args # "quoted" THEN lookups
    ELSE [i \in DOMAIN lookups |->
             IF lookups[i].on = got.at THEN [lookups[i] EXCEPT !.on = Absent] ELSE lookups[i]]

\* Make these lookups, then go on at `after`.
Plan(lookups, after) ==
    /\ todo' = lookups /\ next' = after
    /\ pc' = IF lookups = <<>> THEN after ELSE "lookup"

\* get_column_pii_tags, one SELECT: a column without a tag counts as public.
Lookup ==
    /\ pc = "lookup"
    /\ LET hidden == {c \in todo[1].cols : <<todo[1].on, c>> \in blocked}
       IN  /\ shown' = shown \cup ({todo[1].of} \X (todo[1].cols \ hidden))
           /\ masked' = masked \cup ({todo[1].of} \X hidden)
    /\ todo' = Tail(todo) /\ pc' = IF Len(todo) = 1 THEN next ELSE "lookup"
    /\ Reading /\ UNCHANGED <<got, next, status, paths>>

\* All lookups made: the answer is complete.
Complete ==
    /\ pc = "complete" /\ Finish("success")
    /\ Reading /\ UNCHANGED <<got, shown, masked, paths>>

-----------------------------------------------------------------------------
(* describe_table, describe_column, describe_entity *)

DescribeTable ==
    /\ Begin("describe_table") \/ Begin("describe_column")
    /\ got' = [got EXCEPT !.at = call.table] /\ pc' = "present"
    /\ Reading /\ UNCHANGED <<todo, next, reply>>

DescribeEntity ==
    /\ Begin("describe_entity")
    /\ IF bound[call.entity] = Absent
         THEN Finish("error") /\ got' = got
         ELSE got' = [got EXCEPT !.at = bound[call.entity]] /\ pc' = "present"
              /\ UNCHANGED <<todo, next, status>>
    /\ Reading /\ UNCHANGED <<shown, masked, paths>>

\* get_table, first SELECT.  A missing table is unknown_name; under an entity it is
\* taken for a broken foreign key and becomes internal_error.
ReadPresent ==
    /\ pc = "present"
    /\ IF cols[got.at] = {}
         THEN Finish(IF call.tool = "describe_entity" THEN "internal" ELSE "error")
         ELSE pc' = "columns" /\ UNCHANGED <<todo, next, status>>
    /\ Reading /\ UNCHANGED <<got, shown, masked, paths>>

\* get_table, second SELECT.
ReadColumns ==
    /\ pc = "columns"
    /\ got' = [got EXCEPT !.cols = cols[got.at]] /\ pc' = "keys"
    /\ Reading /\ UNCHANGED <<todo, next, reply>>

\* get_table, third SELECT, and what each tool looks up with it.
ReadKeys ==
    /\ pc = "keys"
    /\ LET own == {fk \in fks : fk.owner = got.at}
           list == <<[of |-> got.at, on |-> got.at, cols |-> got.cols]>>
       IN  /\ got' = [got EXCEPT !.fks = own]
           /\ \/ call.tool = "describe_table"
                 /\ Plan(AsSpelled(list \o LookupsOf(own)), "complete")
              \/ call.tool = "describe_entity" /\ Plan(list, "complete")
              \/ call.tool = "describe_column" /\ pc' = "gate" /\ UNCHANGED <<todo, next>>
    /\ Reading /\ UNCHANGED reply

\* describe_column, the tags of the whole table: an unknown column is answered with at
\* most one similar name that is not blocked, a blocked one is refused.
Gate ==
    /\ pc = "gate"
    /\ LET safe == {c \in got.cols : <<got.at, c>> \notin blocked}
           outgoing == {fk \in got.fks : call.column \in ToSet(fk.ownerCols)}
       IN  \/ /\ call.column \notin got.cols /\ Finish("error")
              /\ \E names \in {{}} \cup {{c} : c \in safe} : shown' = {got.at} \X names
           \/ /\ call.column \in got.cols \ safe /\ Finish("refused")
              /\ shown' = shown
           \/ /\ call.column \in safe /\ Plan(LookupsOf(outgoing), "incoming")
              /\ shown' = {<<got.at, call.column>>} /\ status' = status
    /\ Reading /\ UNCHANGED <<got, masked, paths>>

\* get_foreign_keys_targeting.
ReadIncoming ==
    /\ pc = "incoming"
    /\ Plan(LookupsOf({fk \in fks : fk.ref = got.at /\ call.column \in ToSet(fk.refCols)}),
            "complete")
    /\ Reading /\ UNCHANGED <<got, reply>>

-----------------------------------------------------------------------------
(* find_relevant_tables, find_relevant_entities *)

\* The ranking is the embedder's: up to `limit` tables, each with one of its columns.
Hits(S) ==
    UNION {{h \in [T -> Cols] : \A t \in T : h[t] \in cols[t]} :
               T \in {U \in SUBSET S : IsFiniteSet(U) /\ Cardinality(U) <= Limit}}
HitLookups(h) == LET seq == Ascending(DOMAIN h)
                 IN  [i \in DOMAIN seq |-> Look(seq[i], <<h[seq[i]]>>)]

FindRelevantTables ==
    /\ Begin("find_relevant_tables")
    /\ \/ \E h \in Hits({t \in Tables : cols[t] # {}}) :
              IF DOMAIN h = {} THEN Finish("empty")
              ELSE Plan(HitLookups(h), "complete") /\ status' = status
       \/ Finish("error")   \* EmbeddingUnavailableError
    /\ Reading /\ UNCHANGED <<got, shown, masked, paths>>

\* list_entities: without entities the embedder is not asked.
FindRelevantEntities ==
    /\ Begin("find_relevant_entities")
    /\ LET tables == {bound[e] : e \in Entities} \ {Absent}
       IN  got' = [got EXCEPT !.tables = tables]
           /\ pc' = IF tables = {} THEN "probe" ELSE "search"
    /\ Reading /\ UNCHANGED <<todo, next, reply>>

\* search_embeddings_topk; a hit on an entity's own description names no column.
SearchEntities ==
    /\ pc = "search"
    /\ \/ \E h \in Hits({t \in got.tables : cols[t] # {}}), described \in BOOLEAN :
              IF DOMAIN h # {} \/ described
                THEN Plan(HitLookups(h), "complete") /\ status' = status
                ELSE pc' = "probe" /\ UNCHANGED <<todo, next, status>>
       \/ Finish("error")
    /\ Reading /\ UNCHANGED <<got, shown, masked, paths>>

\* The second list_entities chooses the hints of an empty answer.
Probe ==
    /\ pc = "probe" /\ Finish("empty")
    /\ Reading /\ UNCHANGED <<got, shown, masked, paths>>

-----------------------------------------------------------------------------
(* resolve_join *)

ReadEntityA ==
    /\ Begin("resolve_join")
    /\ IF bound[call.a] = Absent THEN Finish("error")
       ELSE pc' = "entity_b" /\ UNCHANGED <<todo, next, status>>
    /\ Reading /\ UNCHANGED <<got, shown, masked, paths>>

ReadEntityB ==
    /\ pc = "entity_b"
    /\ IF bound[call.b] = Absent THEN Finish("error")
       ELSE pc' = "joins" /\ UNCHANGED <<todo, next, status>>
    /\ Reading /\ UNCHANGED <<got, shown, masked, paths>>

\* resolve_canonical_joins, in either direction.
Matching(a, b) == {j \in joins : {j.source, j.target} = {a, b}}

\* Fault: the first match, whatever the name.
_select_join_any(matches, name) == matches

\* _select_join: the name decides; without one, only a single join will do.
_select_join(matches, name) ==
    {j \in matches : IF name = Absent THEN matches = {j} ELSE j.name = name}

ReadJoins ==
    /\ pc = "joins"
    /\ LET chosen == _select_join(Matching(call.a, call.b), call.name)
       IN  \/ /\ chosen = {} /\ Finish("error") /\ got' = got
           \/ /\ \E j \in chosen : got' = [got EXCEPT !.join = j]
              /\ pc' = "source" /\ UNCHANGED <<todo, next, status>>
    /\ Reading /\ UNCHANGED <<shown, masked, paths>>

\* _lookup_entity reads the ends again; one that is gone by now is an internal_error.
ReadSource ==
    /\ pc = "source"
    /\ IF bound[got.join.source] = Absent
         THEN Finish("internal") /\ got' = got
         ELSE got' = [got EXCEPT !.at = bound[got.join.source]] /\ pc' = "target"
              /\ UNCHANGED <<todo, next, status>>
    /\ Reading /\ UNCHANGED <<shown, masked, paths>>

ReadTarget ==
    /\ pc = "target"
    /\ IF bound[got.join.target] = Absent
         THEN Finish("internal") /\ got' = got
         ELSE LET to == bound[got.join.target]
              IN  /\ got' = [got EXCEPT !.to = to]
                  /\ Plan(<<Look(got.at, got.join.sourceCols), Look(to, got.join.targetCols)>>,
                          "complete")
                  /\ status' = status
    /\ Reading /\ UNCHANGED <<shown, masked, paths>>

-----------------------------------------------------------------------------
(* suggest_joins *)

\* Two distinct tables at least, all of them indexed; the list of indexed names has no
\* quotes, so a quoted one is unknown.
SuggestJoins ==
    /\ Begin("suggest_joins")
    /\ LET asked == ToSet(call.tables)
       IN  IF /\ Cardinality(asked) >= 2
                /\ call.args # "quoted" /\ \A t \in asked : cols[t] # {}
             THEN pc' = "graph" /\ UNCHANGED <<todo, next, status>>
             ELSE Finish("error")
    /\ Reading /\ UNCHANGED <<got, shown, masked, paths>>

\* Every unordered pair, in the order the caller listed the tables.
Pairs(tables) == {<<tables[i], tables[j]>> : i, j \in DOMAIN tables}
AskedPairs(tables) == {p \in Pairs(tables) : \E i, j \in DOMAIN tables :
                           i < j /\ p = <<tables[i], tables[j]>> /\ p[1] # p[2]}
EdgeLookups(edges) == FlattenSeq([i \in DOMAIN edges |->
    <<Look(edges[i].left, edges[i].leftCols), Look(edges[i].right, edges[i].rightCols)>>])

\* list_all_foreign_keys, the search per pair, and both sides of every edge to look up.
ReadGraph ==
    /\ pc = "graph"
    /\ got' = [got EXCEPT !.fks = fks]
    /\ paths' = [p \in AskedPairs(call.tables) |-> _bfs_shortest_path(fks, p[1], p[2], MaxHops)]
    /\ LET order == SetToSeq(DOMAIN paths')
       IN  Plan(FlattenSeq([i \in DOMAIN order |-> EdgeLookups(paths'[order[i]])]), "complete")
    /\ Reading /\ UNCHANGED <<status, shown, masked>>

-----------------------------------------------------------------------------
(* get_metric and the list tools *)

\* An unknown column is answered with the columns the metric may use.
GetMetric ==
    /\ Begin("get_metric")
    /\ \/ \E s \in {"success", "refused", "error", "internal"} : Finish(s) /\ got' = got
       \/ /\ bound[call.entity] # Absent /\ pc' = "hint_entity"
          /\ got' = [got EXCEPT !.cols = cols[bound[call.entity]]]
          /\ UNCHANGED <<todo, next, status>>
    /\ Reading /\ UNCHANGED <<shown, masked, paths>>

\* visible_allowed_columns: the entity is read again, and without it no name is given.
ReadHintEntity ==
    /\ pc = "hint_entity"
    /\ IF bound[call.entity] = Absent
         THEN Finish("error") /\ got' = got
         ELSE got' = [got EXCEPT !.at = bound[call.entity]] /\ pc' = "hint"
              /\ UNCHANGED <<todo, next, status>>
    /\ Reading /\ UNCHANGED <<shown, masked, paths>>

ReadHint ==
    /\ pc = "hint" /\ Finish("error")
    /\ shown' = {got.at} \X {c \in got.cols : <<got.at, c>> \notin blocked}
    /\ Reading /\ UNCHANGED <<got, masked, paths>>

\* list_entities, list_metrics, list_joins and get_example_queries.  What they name was
\* chosen by the operator (identities, measures, recorded SQL) and is not masked, so it
\* is no part of `shown`.  The last one knows missing tables.
ListTool ==
    /\ Begin("list")
    /\ \E s \in {"success", "empty", "error"} : Finish(s)
    /\ Reading /\ UNCHANGED <<got, shown, masked, paths>>

-----------------------------------------------------------------------------
(* instrument() *)

\* A read raises.  Inside a tool's try block that is internal_error without data;
\* outside of it the exception leaves through instrument(), which then records nothing.
StoreRaises ==
    /\ pc \notin {"idle", "dispatch", "record", "reply", "complete"}
    /\ faults < MaxFaults /\ faults' = faults + 1
    /\ IF pc \in {"probe", "hint_entity", "hint"} THEN Over
       ELSE /\ status' = "internal" /\ pc' = "record"
            /\ shown' = {} /\ masked' = {} /\ paths' = <<>> /\ todo' = <<>>
            /\ UNCHANGED <<call, got, next, sinks, history>>
    /\ UNCHANGED <<store, calls, changes>>

\* _safe_audit_write and _safe_emit: a failing audit write or bus is swallowed, and only
\* a written row's fingerprint is put into a metric's answer.
Record ==
    /\ pc = "record" /\ pc' = "reply"
    /\ row' \in {"written", "dropped"}
    /\ fp' = (row' = "written" /\ call.tool = "get_metric" /\ status = "success")
    /\ UNCHANGED <<store, call, got, todo, next, reply, history, calls, changes, faults>>

Reply == pc = "reply" /\ Over /\ UNCHANGED <<store, calls, changes, faults>>

-----------------------------------------------------------------------------
(* The other processes *)

Change ==
    /\ changes < MaxChanges /\ changes' = changes + 1
    /\ IF pc = "idle" THEN UNCHANGED history
       ELSE /\ clear' = clear \cup (AllColumns \ blocked') /\ hot' = hot \cup blocked'
            /\ quiet' = FALSE
    /\ UNCHANGED <<pc, call, got, todo, next, reply, sinks, calls, faults>>

\* The cascade from a table to its entities and their joins.
Cascade(t) ==
    /\ bound' = [e \in Entities |-> IF bound[e] = t THEN Absent ELSE bound[e]]
    /\ joins' = {j \in joins : t \notin {bound[j.source], bound[j.target]}}

IndexWritesTable(v) ==
    /\ cols' = [cols EXCEPT ![v.table] = v.cols]
    /\ fks' = {fk \in fks : fk.owner # v.table} \cup v.fks
    /\ Cascade(v.table) /\ UNCHANGED blocked /\ Change

IndexDeletesTable(t) ==
    /\ cols[t] # {}
    /\ cols' = [cols EXCEPT ![t] = {}] /\ fks' = {fk \in fks : fk.owner # t}
    /\ Cascade(t) /\ UNCHANGED blocked /\ Change

\* write_column_pii_tags, or an operator's override.
Tagged(t, S) ==
    /\ blocked' = {b \in blocked : b[1] # t} \cup ({t} \X S) /\ blocked' # blocked
    /\ UNCHANGED <<cols, fks, bound, joins>> /\ Change

EntityApplied(e, t) ==
    /\ cols[t] # {} /\ bound[e] # t
    /\ bound' = [bound EXCEPT ![e] = t] /\ UNCHANGED <<cols, fks, blocked, joins>> /\ Change

\* write_canonical_join replaces the join of that name, whatever it joined.
JoinApplied(j) ==
    /\ j \notin joins /\ Absent \notin {bound[j.source], bound[j.target]}
    /\ joins' = {k \in joins : k.name # j.name} \cup {j}
    /\ UNCHANGED <<cols, fks, blocked, bound>> /\ Change

-----------------------------------------------------------------------------
ToolStep ==
    \/ Dispatch \/ MalformedName \/ Lookup \/ Complete
    \/ DescribeTable \/ DescribeEntity \/ ReadPresent \/ ReadColumns \/ ReadKeys \/ Gate
    \/ ReadIncoming \/ FindRelevantTables \/ FindRelevantEntities \/ SearchEntities \/ Probe
    \/ ReadEntityA \/ ReadEntityB \/ ReadJoins \/ ReadSource \/ ReadTarget
    \/ SuggestJoins \/ ReadGraph \/ GetMetric \/ ReadHintEntity \/ ReadHint \/ ListTool
    \/ Record \/ Reply

OtherProcesses ==
    \/ \E v \in Versions : IndexWritesTable(v)
    \/ \E t \in Tables : IndexDeletesTable(t) \/ \E S \in SUBSET Cols : Tagged(t, S)
    \/ \E e \in Entities, t \in Tables : EntityApplied(e, t)
    \/ \E j \in Joins : JoinApplied(j)

Next == (\E c \in Calls : Arrive(c)) \/ ToolStep \/ StoreRaises \/ OtherProcesses

Spec == Init /\ [][Next]_vars

-----------------------------------------------------------------------------
(* Properties *)

\* The store keeps its foreign keys (an entity's table and a join's entities exist) and
\* the fields of a call have their types; a reply's fingerprint is a written row's.
TypeOK ==
    /\ cols \in [Tables -> SUBSET Cols] /\ fks \subseteq Keys /\ blocked \subseteq AllColumns
    /\ \A fk \in fks : cols[fk.owner] # {}
    /\ bound \in [Entities -> Tables \cup {Absent}] /\ joins \subseteq Joins
    /\ \A e \in Entities : bound[e] # Absent => cols[bound[e]] # {}
    /\ \A j \in joins : Absent \notin {bound[j.source], bound[j.target]}
    /\ status \in {"none", "success", "empty", "error", "refused", "internal"}
    /\ shown \subseteq AllColumns /\ masked \subseteq AllColumns
    /\ row \in {"none", "written", "dropped"} /\ fp \in BOOLEAN /\ (fp => row = "written")
    /\ pc = "lookup" <=> todo # <<>>
    /\ pc \in {"record", "reply"} <=> status # "none"

\* Whatever other processes write meanwhile: a name leaves the server only if at some
\* moment of the call it carried no blocked tag, and is masked only if at some moment it
\* did.  This holds on every surface: column lists, both ends of keys, joins and paths,
\* hits, and the names offered in errors.  Excepted is describe_table by a quoted name,
\* whose lookups on its own table find no tag.
MaskingFollowsTags ==
    /\ masked \subseteq hot
    /\ call.tool # "describe_table" \/ call.args # "quoted" => shown \subseteq clear

\* Every pair suggest_joins was asked about gets a shortest walk over the keys it read,
\* with each key's columns on the side of their table, or none within the bound.
PathsAreShortest ==
    \A p \in DOMAIN paths : IsShortestPath(got.fks, p[1], p[2], MaxHops, paths[p])

KeyColumns(fk) == ({fk.owner} \X ToSet(fk.ownerCols)) \cup ({fk.ref} \X ToSet(fk.refCols))

\* What the store as it is says about a call: the status, and the names it involves.
Expected(c) ==
    CASE c.tool = "describe_table" ->
           [status |-> IF cols[c.table] = {} THEN "error" ELSE "success",
            names |-> ({c.table} \X cols[c.table]) \cup
                      UNION {KeyColumns(fk) : fk \in {k \in fks : k.owner = c.table}}]
      [] c.tool = "describe_column" ->
           [status |-> IF c.column \notin cols[c.table] THEN "error"
                       ELSE IF <<c.table, c.column>> \in blocked THEN "refused" ELSE "success",
            names |-> {<<c.table, c.column>>} \cup
                      UNION {KeyColumns(fk) : fk \in {k \in fks :
                          \/ k.owner = c.table /\ c.column \in ToSet(k.ownerCols)
                          \/ k.ref = c.table /\ c.column \in ToSet(k.refCols)}}]
      [] c.tool = "describe_entity" ->
           [status |-> IF bound[c.entity] = Absent THEN "error" ELSE "success",
            names |-> IF bound[c.entity] = Absent THEN {}
                      ELSE {bound[c.entity]} \X cols[bound[c.entity]]]
      [] c.tool = "resolve_join" ->
           LET named == {j \in Matching(c.a, c.b) : c.name \in {Absent, j.name}}
           IN  [status |-> IF Cardinality(named) = 1 THEN "success" ELSE "error",
                names |-> UNION {({bound[j.source]} \X ToSet(j.sourceCols)) \cup
                                 ({bound[j.target]} \X ToSet(j.targetCols)) : j \in named}]
      [] c.tool = "suggest_joins" ->
           LET ok == Cardinality(ToSet(c.tables)) > 1 /\ \A t \in ToSet(c.tables) : cols[t] # {}
           IN  [status |-> IF ok THEN "success" ELSE "error", names |-> shown \cup masked]

\* A call during which nobody wrote to the store and no read raised is answered as if it
\* had read everything at once: the right status, every name it involves, blocked ones
\* masked and the others shown.  An error offers at most one name.
QuietReplyIsExact ==
    /\ pc = "reply" /\ quiet /\ status # "internal" /\ call.args \in {"ok", "quoted"}
    /\ call.args = "ok" \/ call.tool = "describe_column"
    /\ call.tool \in {"describe_table", "describe_column", "describe_entity", "resolve_join",
                      "suggest_joins"}
    => LET e == Expected(call)
       IN  /\ status = e.status
           /\ IF status = "success"
                THEN shown = e.names \ blocked /\ masked = e.names \cap blocked
                ELSE masked = {} /\ Cardinality(shown) <= 1
=============================================================================
