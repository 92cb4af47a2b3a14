----------------------------- MODULE GetMetric ------------------------------
(***************************************************************************)
(* One get_metric call: resolve_metric_plan joins in the entities the      *)
(* request refers to, _resolve_pii_categories decides whether the plan may *)
(* run, emit_sql and the executor run it.                                  *)
(*                                                                         *)
(* An entity is bound to one table; a column is <<entity, name>>.  The     *)
(* names are "m" (the measure), "g" (an attribute), "key" (both ends of    *)
(* every ON clause) and "ts" (a timestamp, on some entities only).         *)
(***************************************************************************)
EXTENDS JoinResolver

CONSTANTS
    Entity, Anchor,    \* entities, and the one the metric is defined on
    TimeEntities,      \* entities whose table has a timestamp column
    NoRow,             \* no column_pii_tags row / no argument
    Categories, FloorCategories,  \* PII_CATEGORIES, CATASTROPHIC_LEAK_CATEGORIES
    Cases              \* what to try: canonical joins, column_pii_tags rows, --pii-block
                       \* policy and call

ColumnNames == {"m", "g", "key", "ts"}
Columns == {c \in Entity \X ColumnNames : c[2] = "ts" => c[1] \in TimeEntities}
AnyColumn == Entity \X ColumnNames  \* what a request may name

ASSUME GetMetricAssumption ==
    /\ Anchor \in Entity /\ TimeEntities \subseteq Entity /\ FloorCategories \subseteq Categories
    /\ \A x \in Cases :
        /\ IsFiniteSet(x.joins)
        /\ \A j \in x.joins : {j.source, j.target} \subseteq Entity /\ j.card \in Cardinalities
        /\ x.req.groupBy \in Seq(AnyColumn) /\ x.req.filters \in Seq(AnyColumn)
        /\ DOMAIN x.tags = Columns /\ x.block \subseteq Categories

VARIABLES
    joins, tags, block, req,  \* store contents, server policy and request: fixed
    pc,
    refs,        \* column references still to resolve
    resolved,    \* resolved_joins, in insertion order
    bucket,      \* column of the time bucket, or NoRow
    inherited,   \* whether the bucket was inherited over joins
    looked,      \* columns whose tags the gate propagated
    outcome      \* "none", an error kind, "pii_blocked" or "released"

inputs == <<joins, tags, block, req>>
vars == <<inputs, pc, refs, resolved, bucket, inherited, looked, outcome>>

Init ==
    /\ \E x \in Cases : joins = x.joins /\ tags = x.tags /\ block = x.block /\ req = x.req
    /\ pc = "start" /\ refs = <<>> /\ resolved = <<>>
    /\ bucket = NoRow /\ inherited = FALSE /\ looked = {} /\ outcome = "none"

Refuse(kind) == pc' = "done" /\ outcome' = kind

-----------------------------------------------------------------------------
\* The metric is looked up and the grain checked against the known grains and, for a
\* metric with its own time dimension, against the metric's.
Begin ==
    /\ pc = "start"
    /\ refs' = req.groupBy \o req.filters
    /\ IF req.grain = "bad" THEN Refuse("invalid_time_grain")
                            ELSE pc' = "resolve" /\ UNCHANGED outcome
    /\ UNCHANGED <<inputs, resolved, bucket, inherited, looked>>

\* The keys of the plan under construction.
Targets(plan) == {plan[i].target : i \in 1 .. Len(plan)}

Joined == Targets(resolved) \cup {Anchor}

\* Fault: every hop of the chain is appended, met before or not.
ExtendAlways(chain) == resolved \o chain

\* Fault: only the hop that reaches the entity is appended.
ExtendLastHop(chain) == Append(resolved, Last(chain))

\* Hop by hop, the ones that lead to an entity not joined yet are appended.
Extend(chain) ==
    LET plan[i \in 0 .. Len(chain)] ==
            IF i = 0 THEN resolved
            ELSE IF chain[i].target \in Targets(plan[i - 1]) THEN plan[i - 1]
            ELSE Append(plan[i - 1], chain[i])
    IN  plan[Len(chain)]

\* _resolve: an entity already in the plan is taken as it is; any other is reached by
\* a chain from the anchor.  The column must exist on the table.
_resolve(column, after) ==
    LET search == _find_canonical_chain(joins, Anchor, column[1], req.via)
    IN  IF column[1] \notin Joined /\ search.error # "none"
          THEN Refuse(search.error) /\ UNCHANGED resolved
          ELSE /\ resolved' = IF column[1] \in Joined THEN resolved ELSE Extend(search.chain)
               /\ IF column \in Columns THEN pc' = after /\ UNCHANGED outcome
                                        ELSE Refuse("unknown_column")

ResolveReference ==
    /\ pc = "resolve" /\ refs # <<>>
    /\ _resolve(Head(refs), "resolve")
    /\ refs' = Tail(refs)
    /\ UNCHANGED <<inputs, bucket, inherited, looked>>

\* Time-dimension inheritance.  A requested time_dimension narrows the candidates
\* when it names exactly one of them.
ResolveTime ==
    LET candidates == {<<e, "ts">> : e \in InheritableEntities(joins, Anchor) \cap TimeEntities}
        narrowed == IF req.timeDimension \in candidates THEN {req.timeDimension} ELSE candidates
    IN  /\ pc = "resolve" /\ refs = <<>>
        /\ IF req.grain = "none" \/ req.localTime
             THEN /\ bucket' = IF req.grain = "none" THEN NoRow ELSE <<Anchor, "ts">>
                  /\ pc' = "gate" /\ UNCHANGED <<resolved, inherited, outcome>>
           ELSE IF Cardinality(narrowed) > 1
             THEN Refuse("ambiguous_time_dimension") /\ UNCHANGED <<resolved, bucket, inherited>>
           ELSE IF narrowed = {}
             THEN pc' = "gate" /\ UNCHANGED <<resolved, bucket, inherited, outcome>>
           ELSE \E column \in narrowed :
                   /\ _resolve(column, "gate")
                   /\ bucket' = column /\ inherited' = TRUE
        /\ UNCHANGED <<inputs, refs, looked>>

-----------------------------------------------------------------------------
GroupBy == Range(req.groupBy)
Measure == {<<Anchor, "m">>}
OnColumns == UNION {{<<resolved[i].source, "key">>, <<resolved[i].target, "key">>} : i \in 1 .. Len(resolved)}

CategoriesOf(S) == UNION {IF tags[c] = NoRow THEN {} ELSE tags[c] : c \in S}

\* Columns whose values, not aggregates of them, reach the result rows.
Sampled == GroupBy \cup (IF req.agg \in {"min", "max"} THEN Measure ELSE {})

\* Fault: the columns of the ON clauses are left out.
TouchedButJoins ==
    Measure \cup GroupBy \cup Range(req.filters)
        \cup (IF req.localTime THEN {<<Anchor, "ts">>} ELSE {})

\* by_table of _resolve_pii_categories.
Touched ==
    Measure \cup GroupBy \cup Range(req.filters) \cup OnColumns
        \cup (IF req.localTime THEN {<<Anchor, "ts">>} ELSE {})

\* propagated & (pii_block | CATASTROPHIC_LEAK_CATEGORIES)
Blocked(S) == CategoriesOf(S) \cap (block \cup FloorCategories)

\* _resolve_pii_categories: no sampled column carries a category, some touched column
\* has a row when a policy is set, and no touched category is blocked.
Gate ==
    /\ pc = "gate"
    /\ looked' = Touched
    /\ IF \/ CategoriesOf(Sampled) # {}
          \/ block # {} /\ \A c \in Touched : tags[c] = NoRow
          \/ Blocked(Touched) # {}
         THEN Refuse("pii_blocked")
         ELSE pc' = "execute" /\ UNCHANGED outcome
    /\ UNCHANGED <<inputs, refs, resolved, bucket, inherited>>

\* emit_sql and executor.execute; a database failure surfaces as internal_error.
Execute ==
    /\ pc = "execute"
    /\ pc' = "done" /\ outcome' \in {"released", "internal_error"}
    /\ UNCHANGED <<inputs, refs, resolved, bucket, inherited, looked>>

\* The columns of the SQL text emit_sql builds.
SqlColumns == Measure \cup GroupBy \cup Range(req.filters) \cup OnColumns \cup ({bucket} \ {NoRow})

Next == Begin \/ ResolveReference \/ ResolveTime \/ Gate \/ Execute

Spec == Init /\ [][Next]_vars

-----------------------------------------------------------------------------
(* Properties *)

\* The plan under construction and the outcome have their types.
TypeOK ==
    /\ pc \in {"start", "resolve", "gate", "execute", "done"}
    /\ \A i \in 1 .. Len(resolved) : resolved[i].card \in Cardinalities /\ resolved[i].source \in Entity
    /\ bucket \in Columns \cup {NoRow} /\ inherited \in BOOLEAN /\ looked \subseteq AnyColumn
    /\ pc = "done" <=> outcome # "none"

\* The RuntimeError emit_sql raises never happens: every join starts from the anchor
\* or from an entity joined before it, and no entity is joined twice.
JoinsAreTopological ==
    \A i \in 1 .. Len(resolved) :
        /\ resolved[i].source \in {Anchor} \cup {resolved[k].target : k \in 1 .. i - 1}
        /\ resolved[i].target \notin {Anchor} \cup {resolved[k].target : k \in 1 .. i - 1}

\* Without `via`, a plan is made only where the graph leaves no choice: one shortest
\* path to each entity and one join on each of its hops.
NoGuessedJoin ==
    pc = "gate" /\ req.via = {} => \A i \in 1 .. Len(resolved) :
        /\ Cardinality(Between(joins, resolved[i].source, resolved[i].target)) = 1
        /\ Cardinality(ShortestPaths(joins, Anchor, resolved[i].target)) = 1

\* Without `via`, the plan is the union of the chains to the entities it refers to,
\* whatever the order of group_by and filters: an entity met on the way to another one
\* is joined as it would be on its own.
Referenced == {c[1] : c \in GroupBy \cup Range(req.filters) \cup (IF inherited THEN {bucket} ELSE {})} \ {Anchor}

PlanIsUnionOfChains ==
    pc = "gate" /\ req.via = {} =>
        Range(resolved) = UNION {Range(_find_canonical_chain(joins, Anchor, e, {}).chain) : e \in Referenced}

\* A released result samples no tagged column, and no column of the SQL (an inherited
\* time bucket apart) carries a category of the policy or of the floor; and under a
\* policy, nothing is released from a source nobody classified.
ReleasedIsClean ==
    outcome = "released" =>
        /\ CategoriesOf(Sampled) = {}
        /\ CategoriesOf(SqlColumns \ (IF inherited THEN {bucket} ELSE {}))
               \cap (block \cup FloorCategories) = {}
        /\ block # {} => \E c \in looked : tags[c] # NoRow

\* _find_inherited_time_dimension: the joins to an inherited time dimension are
\* "NON-fan-out joins, so bucketing on the target's timestamp won't inflate aggregates".
InheritanceKeepsRowCount ==
    outcome = "released" /\ inherited /\ req.groupBy = <<>> /\ req.filters = <<>> =>
        \A i \in 1 .. Len(resolved) : ~FansOut(resolved[i])
=============================================================================
