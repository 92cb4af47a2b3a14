---------------------------- MODULE JoinSuggester ----------------------------
(***************************************************************************)
(* suggest_canonical_joins(): join candidates from the foreign keys and    *)
(* the mined query log of a source.                                        *)
(*                                                                         *)
(* A foreign key is [name, from, to, on].  A statement of the query log is *)
(* [aliases, joins]: aliases names its tables, joins is the set of its ON  *)
(* clauses, each the sequence of the equalities it ANDs (empty for CROSS   *)
(* JOIN, USING and OR), an equality a pair of <<alias, column>> or Bad     *)
(* (not a qualified column).  `on` is a set of column pairs, so the order  *)
(* in which the code sorts composite pairs is abstracted: it can make the  *)
(* code miss a merge, never make it merge more.                            *)
(***************************************************************************)
EXTENDS DriftCheck

CONSTANTS
    Rank,          \* alphabetical rank of a table, entity or foreign-key name
    FkPrimary,     \* foreign keys whose target columns are the target's primary key
    FkOwnKey,      \* foreign keys whose source columns are the source's primary key
    MediumFrequency  \* _MEDIUM_CONFIDENCE_FREQUENCY

Least(S) == CHOOSE x \in S : \A y \in S : Rank[x] <= Rank[y]

\* Two entities on one table: the alphabetically first is kept.
table_to_entity(ents) ==
    [t \in {ents[k].table : k \in Present(ents)} |->
        Least({k \in Present(ents) : ents[k].table = t})]

\* _build_fk_seeds: both tables bound, and not to one and the same entity.
fk_seeds(fks, ents) ==
    LET te == table_to_entity(ents)
    IN  {[fk |-> f, src |-> te[f.from], tgt |-> te[f.to]] :
            f \in {g \in fks : /\ {g.from, g.to} \subseteq DOMAIN te
                               /\ te[g.from] # te[g.to]}}

infer_fk_cardinality(f) ==
    CASE f \in FkPrimary /\ f \in FkOwnKey -> "one_to_one"
      [] f \in FkPrimary /\ f \notin FkOwnKey -> "many_to_one"
      [] f \notin FkPrimary /\ f \in FkOwnKey -> "one_to_many"
      [] OTHER -> None

\* ExtractedJoin.__post_init__: the lesser table first, the pairs turned with it.
ExtractedJoin(l, r, pairs) ==
    IF Rank[l] <= Rank[r] THEN [a |-> l, b |-> r, on |-> pairs]
    ELSE [a |-> r, b |-> l, on |-> {<<q[2], q[1]>> : q \in pairs}]

\* One ON clause: the equalities between columns of known tables, provided they all
\* join the same two.
extract_from_join_node(on, alias_map) ==
    LET usable(e) == /\ Bad \notin {e[1], e[2]} /\ {e[1][1], e[2][1]} \subseteq DOMAIN alias_map
        eqs == SelectSeq(on, usable)
        Tab(i, side) == alias_map[eqs[i][side][1]]
        l == Tab(1, 1)
        r == Tab(1, 2)
    IN  IF eqs = <<>> \/ \E i \in DOMAIN eqs : {Tab(i, 1), Tab(i, 2)} # {l, r} THEN {}
        ELSE {ExtractedJoin(l, r, {IF Tab(i, 1) = l THEN <<eqs[i][1][2], eqs[i][2][2]>>
                                   ELSE <<eqs[i][2][2], eqs[i][1][2]>> : i \in DOMAIN eqs})}

extract_join_predicates(st) == UNION {extract_from_join_node(on, st.aliases) : on \in st.joins}

\* One count per statement, however many tables it touches.  The rows of a statement
\* carry the same count, so the code's "first row seen" is any of them.
statement_count(log, st) ==
    LET rows == {r \in DOMAIN log : r[2] = st /\ log[r] > 0}
    IN  IF rows = {} THEN 0 ELSE log[CHOOSE r \in rows : \A q \in rows : Rank[r[1]] <= Rank[q[1]]]

\* aggregate_join_predicates, as a sum over the statements with the same predicate.
aggregate_join_predicates(log, preds) ==
    LET f[S \in SUBSET {r[2] : r \in DOMAIN log}] ==
            IF S = {} THEN 0
            ELSE LET st == CHOOSE s \in S : TRUE
                 IN  statement_count(log, st) + f[S \ {st}]
    IN  [q \in preds |-> f[{s \in {r[2] : r \in DOMAIN log} : q \in extract_join_predicates(s)}]]

\* Evidence whose two tables are bound to two entities.
query_log_evidence(log, ents) ==
    LET te == table_to_entity(ents)
        seen == {r[2] : r \in {x \in DOMAIN log : log[x] > 0}}
        preds == {p \in UNION {extract_join_predicates(s) : s \in seen} :
                     /\ {p.a, p.b} \subseteq DOMAIN te /\ te[p.a] # te[p.b]}
        freq == aggregate_join_predicates(log, preds)
    IN  {[src |-> te[p.a], tgt |-> te[p.b], on |-> p.on, freq |-> freq[p]] : p \in preds}

confidence_for_frequency(n) == IF n >= MediumFrequency THEN "medium" ELSE "low"

\* One candidate per directed (source, target, on).  A foreign key names its candidate,
\* the least name when two constraints agree; what only the log knows is named after
\* its key, as the code does with the two entities and a counter.
merge_evidence_sources(seeds, evidence) ==
    LET fkKeys == {[src |-> s.src, tgt |-> s.tgt, on |-> s.fk.on] : s \in seeds}
        logKeys == {[src |-> v.src, tgt |-> v.tgt, on |-> v.on] : v \in evidence}
        Seeds(k) == {s \in seeds : s.src = k.src /\ s.tgt = k.tgt /\ s.fk.on = k.on}
        Freq(k) == IF k \in logKeys
                   THEN (CHOOSE v \in evidence :
                            v.src = k.src /\ v.tgt = k.tgt /\ v.on = k.on).freq
                   ELSE 0
        Seed(k) == CHOOSE s \in Seeds(k) : s.fk.name = Least({x.fk.name : x \in Seeds(k)})
    IN  {[name |-> Seed(k).fk.name, src |-> k.src, tgt |-> k.tgt, on |-> k.on,
          confidence |-> "high", frequency |-> Freq(k),
          cardinality |-> infer_fk_cardinality(Seed(k).fk)] : k \in fkKeys}
        \cup {[name |-> <<k.src[1], k>>, src |-> k.src, tgt |-> k.tgt, on |-> k.on,
               confidence |-> confidence_for_frequency(Freq(k)), frequency |-> Freq(k),
               cardinality |-> None] : k \in logKeys \ fkKeys}

suggest_canonical_joins(ents, fks, log) ==
    merge_evidence_sources(fk_seeds(fks, ents), query_log_evidence(log, ents))
=============================================================================
