----------------------------- MODULE MCIndexer ------------------------------
EXTENDS Indexer

FullOptions == {[pipeline |-> TRUE, embedder |-> TRUE, noPii |-> FALSE]}
TwoOptions == FullOptions \cup {[pipeline |-> FALSE, embedder |-> FALSE, noPii |-> TRUE]}
\* Column c1 is catastrophic with one of its structures only.
MCFloorCols == {<<"c1", "k1">>}
=============================================================================
