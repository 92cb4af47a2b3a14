---------------------------- MODULE JoinResolver ----------------------------
(***************************************************************************)
(* The search over the canonical-join graph behind get_metric: shortest    *)
(* structural paths, their narrowing by `via`, the choice of one join per  *)
(* hop, and the fan-out-free walk of time-dimension inheritance.           *)
(*                                                                         *)
(* A canonical join is a record [name, source, target, card]; a path is a  *)
(* sequence of entities.  Neighbours are visited in sorted order by the    *)
(* code, which fixes the order of the paths found and not their set.       *)
(***************************************************************************)
EXTENDS Naturals, Sequences, FiniteSets, SequencesExt

CONSTANT MaxHops  \* max_hops of _structural_shortest_paths, 6 in the code

ASSUME MaxHopsAssumption == MaxHops \in Nat

Cardinalities == {"one_to_one", "one_to_many", "many_to_one", "many_to_many", "unknown"}

flip_cardinality(card) ==
    CASE card = "one_to_many" -> "many_to_one"
      [] card = "many_to_one" -> "one_to_many"
      [] OTHER -> card

\* The canonical joins between two entities, whichever way they are stored.
Between(joins, a, b) == {j \in joins : {j.source, j.target} = {a, b}}

\* _build_join_graph: every join is an edge in both directions.
Neighbors(joins, e) == {x \in UNION {{j.source, j.target} : j \in joins} : Between(joins, e, x) # {} /\ x # e}
Entities(joins) == UNION {{j.source, j.target} : j \in joins}

\* Fault: an entity first reached in this layer is not reached again, so only one of
\* several equally short paths survives.
NextLayerOnce(joins, layer) ==
    LET grown == UNION {{Append(p, n) : n \in Neighbors(joins, Last(p)) \ layer.visited} : p \in layer.frontier}
        one == {p \in grown : p = CHOOSE q \in grown : Last(q) = Last(p)}
    IN  [frontier |-> one, visited |-> layer.visited \cup {Last(p) : p \in one}]

\* One hop of the BFS: every frontier path grows by each neighbour not met in an
\* earlier layer.
NextLayer(joins, layer) ==
    LET grown == UNION {{Append(p, n) : n \in Neighbors(joins, Last(p)) \ layer.visited} : p \in layer.frontier}
    IN  [frontier |-> grown, visited |-> layer.visited \cup {Last(p) : p \in grown}]

Layers(joins, anchor) ==
    LET layer[h \in 0 .. MaxHops] ==
            IF h = 0 THEN [frontier |-> {<<anchor>>}, visited |-> {anchor}]
                     ELSE NextLayer(joins, layer[h - 1])
    IN  layer

\* _structural_shortest_paths: the first layer that meets the target.
_structural_shortest_paths(joins, anchor, target) ==
    LET layer == Layers(joins, anchor)
        found(h) == {p \in layer[h].frontier : Last(p) = target}
        hits == {h \in 1 .. MaxHops : found(h) # {}}
    IN  IF hits = {} THEN {} ELSE found(CHOOSE h \in hits : \A k \in hits : h <= k)

Hops(p) == {<<p[i], p[i + 1]>> : i \in 1 .. Len(p) - 1}

_canonicals_on_structural_path(joins, p) ==
    UNION {Between(joins, hop[1], hop[2]) : hop \in Hops(p)}

_filter_structural_paths_by_via(joins, paths, via) ==
    {p \in paths : via \subseteq {j.name : j \in _canonicals_on_structural_path(joins, p)}}

\* Pass 2, one hop: the only join, or the only one `via` names.
HopChoice(joins, a, b, via) ==
    LET candidates == Between(joins, a, b)
    IN  IF Cardinality(candidates) = 1 THEN candidates ELSE {j \in candidates : j.name \in via}

\* _find_canonical_chain: an error kind, or the chain as a sequence of resolved joins.
_find_canonical_chain(joins, anchor, target, via) ==
    LET structural == _structural_shortest_paths(joins, anchor, target)
        feasible == _filter_structural_paths_by_via(joins, structural, via)
        path == CHOOSE p \in feasible : TRUE
        choice(i) == HopChoice(joins, path[i], path[i + 1], via)
        step(i) == LET j == CHOOSE j \in choice(i) : TRUE
                   IN  [name |-> j.name, source |-> path[i], target |-> path[i + 1],
                        card |-> IF j.source = path[i] THEN j.card ELSE flip_cardinality(j.card)]
    IN  IF {anchor, target} \subseteq Entities(joins) /\ structural # {}
          THEN IF feasible = {} THEN [error |-> "unknown_via_join", chain |-> <<>>]
               ELSE IF Cardinality(feasible) > 1 THEN [error |-> "ambiguous_path", chain |-> <<>>]
               ELSE IF \E i \in 1 .. Len(path) - 1 : Cardinality(choice(i)) # 1
                 THEN [error |-> "ambiguous_join", chain |-> <<>>]
               ELSE [error |-> "none", chain |-> [i \in 1 .. Len(path) - 1 |-> step(i)]]
          ELSE [error |-> "unreachable_entity", chain |-> <<>>]

\* The edges _find_inherited_time_dimension follows: those that keep the anchor's
\* row count in the direction walked.
FollowsFrom(joins, e) ==
    {n \in Neighbors(joins, e) : \E j \in Between(joins, e, n) :
        (IF j.source = e THEN j.card ELSE flip_cardinality(j.card)) \in {"many_to_one", "one_to_one"}}

\* _find_inherited_time_dimension: what a walk over such edges reaches.
InheritableEntities(joins, anchor) ==
    LET n == Cardinality(Entities(joins))
        reached[h \in 0 .. n] ==
            IF h = 0 THEN {anchor} ELSE reached[h - 1] \cup UNION {FollowsFrom(joins, e) : e \in reached[h - 1]}
    IN  reached[n] \ {anchor}

\* MetricPlan.fan_out_join_names
FansOut(step) == step.card \in {"one_to_many", "many_to_many", "unknown"}

-----------------------------------------------------------------------------
(* What the search is meant to compute. *)

\* Every simple path of the graph that starts at `anchor`, by its number of hops.
SimpleFrom(joins, anchor) ==
    LET from[h \in 0 .. Cardinality(Entities(joins))] ==
            IF h = 0 THEN {<<anchor>>}
            ELSE UNION {{Append(p, n) : n \in Neighbors(joins, Last(p)) \ ToSet(p)} : p \in from[h - 1]}
    IN  from

SimplePaths(joins, anchor) == UNION {SimpleFrom(joins, anchor)[h] : h \in 0 .. Cardinality(Entities(joins))}

ShortestPaths(joins, anchor, target) ==
    LET all == {p \in SimplePaths(joins, anchor) : Last(p) = target /\ Len(p) > 1}
    IN  {p \in all : Len(p) <= MaxHops + 1 /\ \A q \in all : Len(p) <= Len(q)}
=============================================================================
