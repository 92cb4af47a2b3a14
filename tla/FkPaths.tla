------------------------------ MODULE FkPaths -------------------------------
(***************************************************************************)
(* suggest_joins: one shortest path through the undirected graph of the    *)
(* stored foreign keys.  Tables and key names are numbers, so that they    *)
(* have the order the code sorts by.  A key is a record of its name, the   *)
(* owner table with its columns and the referenced table with its columns. *)
(***************************************************************************)
EXTENDS Naturals, Sequences, FiniteSets, SequencesExt

NoPath == <<>>

\* A key seen from the table `n`, and the table at its other end.
Touching(fks, n) == {fk \in fks : n \in {fk.owner, fk.ref}}
OtherEnd(fk, n) == IF fk.owner = n THEN fk.ref ELSE fk.owner
Neighbours(fks, n) == {OtherEnd(fk, n) : fk \in Touching(fks, n)}

\* The elements of S in the order given by the pairs `before`.
InOrder(S, before) ==
    CHOOSE s \in [1..Cardinality(S) -> S] :
        \A i, j \in DOMAIN s : i < j => <<s[i], s[j]>> \in before

Ascending(S) == InOrder(S, {p \in S \X S : p[1] < p[2]})

Before(f, g) == f.name < g.name \/ (f.name = g.name /\ f.owner < g.owner)
KeySeq(S) == InOrder(S, {p \in S \X S : Before(p[1], p[2])})

\* The primary key of the stored keys: a table has one key of a name.
OnePerName(S) == \A f, g \in S : f.name = g.name /\ f.owner = g.owner => f = g

\* The adjacency list of n is sorted by neighbour, then by key name; the rows came in
\* by owner.  The first entry for m is the one the search uses.
FirstKey(fks, n, m) ==
    LET keys == {fk \in Touching(fks, n) : OtherEnd(fk, n) = m}
    IN  CHOOSE fk \in keys : \A other \in keys \ {fk} : Before(fk, other)

\* The edge as the path walks it, `left` first.
_edge_from_seed(fk, left) ==
    IF left = fk.owner
      THEN [fk |-> fk.name, left |-> fk.owner, leftCols |-> fk.ownerCols,
            right |-> fk.ref, rightCols |-> fk.refCols]
      ELSE [fk |-> fk.name, left |-> fk.ref, leftCols |-> fk.refCols,
            right |-> fk.owner, rightCols |-> fk.ownerCols]

\* The tables found so far by the edges from the start to each: the search keeps a
\* table's parent and the key to it, which are never set again, so that the walk back at
\* the end finds these edges; their number is the table's depth.
Extended(fks, route, n, new) ==
    [m \in DOMAIN route \cup new |->
        IF m \in new THEN Append(route[n], _edge_from_seed(FirstKey(fks, n, m), n))
        ELSE route[m]]

\* Fault: the new tables go to the front of the frontier (depth first).
PopDepthFirst(fks, maxHops, st) ==
    LET n == Head(st.frontier)
        new == IF Len(st.route[n]) >= maxHops THEN {} ELSE Neighbours(fks, n) \ DOMAIN st.route
    IN  [frontier |-> Ascending(new) \o Tail(st.frontier),
         route |-> Extended(fks, st.route, n, new)]

\* One turn of the loop: pop a table and append its unvisited neighbours in order.  The
\* early return on `end` is left out: what was found stays found.
Pop(fks, maxHops, st) ==
    LET n == Head(st.frontier)
        new == IF Len(st.route[n]) >= maxHops THEN {} ELSE Neighbours(fks, n) \ DOMAIN st.route
    IN  [frontier |-> Tail(st.frontier) \o Ascending(new),
         route |-> Extended(fks, st.route, n, new)]

\* The search from `start` over the keys; every table is popped once at most.
_bfs_shortest_path(fks, start, end, maxHops) ==
    LET tables == {start} \cup UNION {{fk.owner, fk.ref} : fk \in fks}
        search[k \in 0..Cardinality(tables)] ==
            IF k = 0 THEN [frontier |-> <<start>>, route |-> [m \in {start} |-> <<>>]]
            ELSE LET st == search[k - 1]
                 IN  IF st.frontier = <<>> THEN st ELSE Pop(fks, maxHops, st)
        found == search[Cardinality(tables)]
    IN  IF end \in DOMAIN found.route THEN found.route[end] ELSE NoPath

-----------------------------------------------------------------------------
\* Reference: the tables within k hops.
Ball(fks, start, k) ==
    LET ball[i \in 0..k] == IF i = 0 THEN {start}
                            ELSE LET inner == ball[i - 1]
                                 IN  inner \cup UNION {Neighbours(fks, n) : n \in inner}
    IN  ball[k]

\* A walk over stored keys from start to end, each with its columns on their own side.
IsWalk(fks, start, end, edges) ==
    /\ edges[1].left = start /\ edges[Len(edges)].right = end
    /\ \A i \in 1..(Len(edges) - 1) : edges[i].right = edges[i + 1].left
    /\ \A i \in DOMAIN edges : \E fk \in fks :
           /\ edges[i].fk = fk.name
           /\ \/ /\ edges[i].left = fk.owner /\ edges[i].leftCols = fk.ownerCols
                 /\ edges[i].right = fk.ref /\ edges[i].rightCols = fk.refCols
              \/ /\ edges[i].left = fk.ref /\ edges[i].leftCols = fk.refCols
                 /\ edges[i].right = fk.owner /\ edges[i].rightCols = fk.ownerCols

IsShortestPath(fks, start, end, maxHops, edges) ==
    IF edges = NoPath THEN end \notin Ball(fks, start, maxHops)
    ELSE /\ IsWalk(fks, start, end, edges) /\ Len(edges) <= maxHops
         /\ end \notin Ball(fks, start, Len(edges) - 1)
=============================================================================
