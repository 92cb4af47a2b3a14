---------------------------- MODULE MCGetMetric -----------------------------
EXTENDS GetMetric

MCEntity == {"a", "b", "c", "d"}
Rank == [e \in MCEntity |-> CASE e = "a" -> 1 [] e = "b" -> 2 [] e = "c" -> 3 [] e = "d" -> 4]
Pairs == {p \in MCEntity \X MCEntity : Rank[p[1]] < Rank[p[2]]}
Join(name, p, card) == [name |-> name, source |-> p[1], target |-> p[2], card |-> card]

\* Every graph with at most four joins among four entities, parallel joins included,
\* up to a renaming of j2, j3 and j4, which no call names.
Slots == Pairs \cup {<<>>}
Order(p) == IF p = <<>> THEN 0 ELSE 4 * Rank[p[1]] + Rank[p[2]]
AllGraphs ==
    LET join(n, p) == IF p = <<>> THEN {} ELSE {Join(n, p, "many_to_one")}
        three == {f \in [1 .. 3 -> Slots] : Order(f[1]) <= Order(f[2]) /\ Order(f[2]) <= Order(f[3])}
    IN  {join("j1", p) \cup join("j2", f[1]) \cup join("j3", f[2]) \cup join("j4", f[3]) :
            p \in Slots, f \in three}

Call(agg, groupBy, filters, grain, localTime, timeDimension, via) ==
    [agg |-> agg, groupBy |-> groupBy, filters |-> filters, grain |-> grain,
     localTime |-> localTime, timeDimension |-> timeDimension, via |-> via]

G(e) == <<e, "g">>
Others == {"b", "c", "d"}
ReferenceCalls ==
    {Call("sum", g, f, "none", FALSE, NoRow, via) :
        g \in {<<>>} \cup {<<G(e)>> : e \in Others}, f \in {<<>>} \cup {<<G(e)>> : e \in Others},
        via \in {{}, {"j1"}}}

\* a -> b -> c, with a timestamp on a and on c.
ChainGraph == {{Join("ab", <<"a", "b">>, "many_to_one"), Join("bc", <<"b", "c">>, "many_to_one")}}
PiiCalls ==
    {Call(agg, g, f, grain, local, NoRow, {}) :
        agg \in {"sum", "max"}, g \in {<<>>, <<G("a")>>, <<G("c")>>},
        f \in {<<>>, <<G("b")>>, <<<<"b", "ts">>>>}, grain \in {"none", "day", "bad"}, local \in BOOLEAN}

Public == {[c \in Columns |-> {}]}
\* One column stands out from a source that is clean, or that nobody classified.
OneTagged ==
    {[c \in Columns |-> IF c = x THEN v ELSE rest] :
        x \in Columns, v \in {NoRow, {"contact"}, {"credential"}}, rest \in {NoRow, {}}}
MCCategories == {"contact", "credential"}
MCFloor == {"credential"}
NoBlock == {{}}
SomeBlocks == {{}, {"contact"}, {"credential"}}

\* a -> b -> c, and c <- a directly with the opposite cardinality.
ShortcutGraph == {(UNION ChainGraph) \cup {Join("ac", <<"a", "c">>, "one_to_many")}}
TimeCalls == {Call("sum", <<>>, <<>>, "day", FALSE, NoRow, {})}

CasesOf(graphs, rows, blocks, calls) ==
    [joins : graphs, tags : rows, block : blocks, req : calls]
JoinCases == CasesOf(AllGraphs, Public, NoBlock, ReferenceCalls)
PiiCases == CasesOf(ChainGraph, OneTagged, SomeBlocks, PiiCalls)
AllCases == JoinCases \cup PiiCases
FanOutCases == CasesOf(ShortcutGraph, Public, NoBlock, TimeCalls)
=============================================================================
