--------------------------- MODULE IndexerProofs ----------------------------
(***************************************************************************)
(* Proofs about Indexer, for any tables, columns, structures, run options, *)
(* and any number of schema changes, deaths and overrides.                 *)
(***************************************************************************)
EXTENDS Indexer, TLAPS

\* How far the transactions of the table in hand have come.
TableInHand ==
    /\ pc \in {"idle", "visit"} => cur = Absent
    /\ pc = "remove" /\ cur # Absent => tables[cur] = Absent
    /\ pc = "write_fps" => tables[cur] = shape /\ fps[cur] = Absent
    /\ pc \in {"write_descs", "write_embs", "write_tags"} =>
           tables[cur] = shape /\ fps[cur] = shape /\ {cur} \X Cols \subseteq untagged
    /\ pc \in {"write_fps", "write_descs"} => descs[cur] = Absent
    /\ pc = "write_embs" => descs[cur] = shape
    /\ pc \in {"write_fps", "write_descs", "write_embs"} => embs[cur] = Absent

\* With the schema at rest: every table has been mirrored, is in hand, or is still to do.
RunMirrors ==
    quiet =>
        /\ pc = "remove" =>
               /\ todo = {t \in Tables : source[t] # Absent}
               /\ {t \in Tables : tables[t] # Absent /\ source[t] = Absent} \subseteq removing
        /\ pc \notin {"idle", "remove"} =>
               \A t \in Tables : t \in todo \/ t = cur \/ tables[t] = source[t]
        /\ pc \notin {"idle", "remove", "visit"} => shape = source[cur]

\* The guard of an override held on the row it saw.
OverrideChecked ==
    pending # Absent => forced \/ pending.category = "floor" \/ ~Floor(pending.saw)

\* The inductive invariant.
IndexInv ==
    TypeOK /\ CacheMatchesTable /\ TableInHand /\ TagsMatchTable /\ RunMirrors /\ OverrideChecked
-----------------------------------------------------------------------------
\* The classifier gives every column of a shape a heuristic row.
LEMMA ClassifyType ==
    ASSUME NEW s \in Shapes
    PROVE  /\ DOMAIN classify(s) = DOMAIN s /\ DOMAIN s \subseteq Cols
           /\ \A c \in DOMAIN s : classify(s)[c] \in Rows /\ classify(s)[c].origin = "heuristic"
<1>1. PICK S \in SUBSET Cols : s \in [S -> Kinds]
    BY DEF Shapes
<1>2. DOMAIN s = S
    BY <1>1
<1> QED BY <1>2 DEF classify, Rows

\* Initially the store is empty and no run is under way.
LEMMA InitInv == Init => IndexInv
<1> SUFFICES ASSUME Init PROVE IndexInv
    OBVIOUS
<1>1. TypeOK
    BY AbsentAssumption, IndexerAssumption DEF Init, TypeOK, MaybeShape, NoRows
<1> QED BY <1>1, AbsentAssumption DEF Init, IndexInv, CacheMatchesTable, TableInHand,
           TagsMatchTable, RunMirrors, OverrideChecked

\* Rewriting a table's tags keeps the type of the tags, whatever the shape.
LEMMA TagWriteType ==
    ASSUME TypeOK, NEW t \in Tables, NEW new, write_column_pii_tags(t, new),
           \A c \in Cols \cap DOMAIN new : new[c] \in Rows
    PROVE  /\ tags' \in [Tables -> [Cols -> Rows \cup {Absent}]]
           /\ \A u \in Tables : u # t => tags'[u] = tags[u]
           /\ \A c \in Cols : tags'[t][c] =
                  IF tags[t][c] # Absent /\ tags[t][c].origin = "operator" THEN tags[t][c]
                  ELSE IF c \in DOMAIN new THEN new[c] ELSE Absent
<1> DEFINE row == [c \in Cols |->
               IF tags[t][c] # Absent /\ tags[t][c].origin = "operator" THEN tags[t][c]
               ELSE IF c \in DOMAIN new THEN new[c] ELSE Absent]
<1>1. row \in [Cols -> Rows \cup {Absent}]
    BY DEF TypeOK
<1>2. tags' = [tags EXCEPT ![t] = row]
    BY DEF write_column_pii_tags
<1> HIDE DEF row
<1>3. tags'[t] = row /\ \A u \in Tables : u # t => tags'[u] = tags[u]
    BY <1>2 DEF TypeOK
<1> QED BY <1>1, <1>2, <1>3 DEF TypeOK, row

\* No step of a run, of an operator or of the source breaks the invariant.
LEMMA StepInv == IndexInv /\ [Next]_vars => IndexInv'
<1> SUFFICES ASSUME IndexInv, [Next]_vars PROVE IndexInv'
    OBVIOUS
<1> USE DEF IndexInv
<1>1. ASSUME IndexStart PROVE IndexInv'
    <2>1. TypeOK'
        BY <1>1 DEF IndexStart, TypeOK, storeVars, countVars, opVars
    <2>2. CacheMatchesTable'
        BY <1>1 DEF IndexStart, CacheMatchesTable, storeVars
    <2>3. TableInHand'
        BY <1>1 DEF IndexStart, TableInHand
    <2>4. TagsMatchTable'
        BY <1>1 DEF IndexStart, TagsMatchTable, storeVars
    <2>5. RunMirrors'
        BY <1>1 DEF IndexStart, RunMirrors, storeVars
    <2>6. OverrideChecked'
        BY <1>1 DEF IndexStart, OverrideChecked, opVars
    <2> QED BY <2>1, <2>2, <2>3, <2>4, <2>5, <2>6
<1>2. ASSUME NEW t \in Tables, DeleteTable(t) PROVE IndexInv'
    <2>1. TypeOK'
        BY <1>2 DEF DeleteTable, TypeOK, countVars, opVars, histVars
    <2>2. CacheMatchesTable'
        BY <1>2 DEF DeleteTable, CacheMatchesTable, TypeOK
    <2>3. TableInHand'
        BY <1>2 DEF DeleteTable, TableInHand, TypeOK
    <2>4. TagsMatchTable'
        BY <1>2 DEF DeleteTable, TagsMatchTable, histVars
    <2>5. RunMirrors'
        BY <1>2 DEF DeleteTable, RunMirrors, histVars
    <2>6. OverrideChecked'
        BY <1>2 DEF DeleteTable, OverrideChecked, opVars
    <2> QED BY <2>1, <2>2, <2>3, <2>4, <2>5, <2>6
<1>3. ASSUME WipeRemoved PROVE IndexInv'
    <2>0. /\ cur \in Tables /\ tables[cur] = Absent /\ fps[cur] = Absent
          /\ tags' \in [Tables -> [Cols -> Rows \cup {Absent}]]
          /\ \A u \in Tables : u # cur => tags'[u] = tags[u]
        BY <1>3, TagWriteType, AbsentAssumption DEF WipeRemoved, TypeOK, TableInHand,
           CacheMatchesTable
    <2>1. TypeOK'
        BY <1>3, <2>0 DEF WipeRemoved, TypeOK, storeVars, runVars, countVars, opVars, histVars
    <2>2. CacheMatchesTable'
        BY <1>3 DEF WipeRemoved, CacheMatchesTable
    <2>3. TableInHand'
        BY <1>3 DEF WipeRemoved, TableInHand
    <2>4. TagsMatchTable'
        BY <1>3, <2>0 DEF WipeRemoved, TagsMatchTable, histVars
    <2>5. RunMirrors'
        BY <1>3 DEF WipeRemoved, RunMirrors, TableInHand, histVars
    <2>6. OverrideChecked'
        BY <1>3 DEF WipeRemoved, OverrideChecked, opVars
    <2> QED BY <2>1, <2>2, <2>3, <2>4, <2>5, <2>6
<1>4. ASSUME RemovalsDone PROVE IndexInv'
    <2>1. TypeOK'
        BY <1>4 DEF RemovalsDone, TypeOK, storeVars, countVars, opVars, histVars
    <2>2. CacheMatchesTable'
        BY <1>4 DEF RemovalsDone, CacheMatchesTable, storeVars
    <2>3. TableInHand'
        BY <1>4 DEF RemovalsDone, TableInHand
    <2>4. TagsMatchTable'
        BY <1>4 DEF RemovalsDone, TagsMatchTable, storeVars, histVars
    <2>5. RunMirrors'
        BY <1>4 DEF RemovalsDone, RunMirrors, storeVars, histVars
    <2>6. OverrideChecked'
        BY <1>4 DEF RemovalsDone, OverrideChecked, opVars
    <2> QED BY <2>1, <2>2, <2>3, <2>4, <2>5, <2>6
<1>5. ASSUME NEW t \in Tables, Visit(t) PROVE IndexInv'
    <2>1. TypeOK'
        BY <1>5 DEF Visit, TypeOK, storeVars, countVars, opVars, histVars
    <2>2. CacheMatchesTable'
        BY <1>5 DEF Visit, CacheMatchesTable, storeVars
    <2>3. TableInHand'
        BY <1>5 DEF Visit, TableInHand
    <2>4. TagsMatchTable'
        BY <1>5 DEF Visit, TagsMatchTable, storeVars, histVars
    <2>5. RunMirrors'
        <3>1. CASE Unchanged(t)
            <4>1. tables[t] = source[t]
                BY <1>5, <3>1, AbsentAssumption DEF Visit, Unchanged, CacheMatchesTable
            <4> QED BY <1>5, <3>1, <4>1 DEF Visit, RunMirrors, storeVars, histVars
        <3>2. CASE ~Unchanged(t)
            BY <1>5, <3>2, IndexerAssumption DEF Visit, RunMirrors, TableInHand, storeVars, histVars
        <3> QED BY <3>1, <3>2
    <2>6. OverrideChecked'
        BY <1>5 DEF Visit, OverrideChecked, opVars
    <2> QED BY <2>1, <2>2, <2>3, <2>4, <2>5, <2>6
<1>6. ASSUME NEW t \in Tables, VisitGone(t) PROVE IndexInv'
    <2>1. TypeOK'
        BY <1>6 DEF VisitGone, TypeOK, storeVars, countVars, opVars, histVars
    <2>2. CacheMatchesTable'
        BY <1>6 DEF VisitGone, CacheMatchesTable, storeVars
    <2>3. TableInHand'
        BY <1>6 DEF VisitGone, TableInHand
    <2>4. TagsMatchTable'
        BY <1>6 DEF VisitGone, TagsMatchTable, storeVars, histVars
    <2>5. RunMirrors'
        BY <1>6 DEF VisitGone, RunMirrors
    <2>6. OverrideChecked'
        BY <1>6 DEF VisitGone, OverrideChecked, opVars
    <2> QED BY <2>1, <2>2, <2>3, <2>4, <2>5, <2>6
<1>7. ASSUME Enrich PROVE IndexInv'
    <2>1. TypeOK'
        BY <1>7 DEF Enrich, TypeOK, storeVars, countVars, opVars, histVars
    <2>2. CacheMatchesTable'
        BY <1>7 DEF Enrich, CacheMatchesTable, storeVars
    <2>3. TableInHand'
        BY <1>7 DEF Enrich, TableInHand
    <2>4. TagsMatchTable'
        BY <1>7 DEF Enrich, TagsMatchTable, storeVars, histVars
    <2>5. RunMirrors'
        BY <1>7 DEF Enrich, RunMirrors, storeVars, histVars
    <2>6. OverrideChecked'
        BY <1>7 DEF Enrich, OverrideChecked, opVars
    <2> QED BY <2>1, <2>2, <2>3, <2>4, <2>5, <2>6
<1>8. ASSUME WriteTable PROVE IndexInv'
    <2>1. TypeOK'
        BY <1>8 DEF WriteTable, TypeOK, MaybeShape, countVars, opVars, histVars
    <2>2. CacheMatchesTable'
        BY <1>8 DEF WriteTable, CacheMatchesTable, TypeOK
    <2>3. TableInHand'
        BY <1>8 DEF WriteTable, TableInHand, TypeOK
    <2>4. TagsMatchTable'
        BY <1>8 DEF WriteTable, TagsMatchTable, histVars
    <2>5. RunMirrors'
        BY <1>8 DEF WriteTable, RunMirrors, histVars
    <2>6. OverrideChecked'
        BY <1>8 DEF WriteTable, OverrideChecked, opVars
    <2> QED BY <2>1, <2>2, <2>3, <2>4, <2>5, <2>6
<1>9. ASSUME WriteFingerprints PROVE IndexInv'
    <2>1. TypeOK'
        BY <1>9 DEF WriteFingerprints, TypeOK, countVars, opVars
    <2>2. CacheMatchesTable'
        BY <1>9 DEF WriteFingerprints, CacheMatchesTable, TableInHand
    <2>3. TableInHand'
        BY <1>9 DEF WriteFingerprints, TableInHand, TypeOK
    <2>4. TagsMatchTable'
        BY <1>9 DEF WriteFingerprints, TagsMatchTable
    <2>5. RunMirrors'
        BY <1>9 DEF WriteFingerprints, RunMirrors
    <2>6. OverrideChecked'
        BY <1>9 DEF WriteFingerprints, OverrideChecked, opVars
    <2> QED BY <2>1, <2>2, <2>3, <2>4, <2>5, <2>6
<1>10. ASSUME WriteDescriptions PROVE IndexInv'
    <2>1. TypeOK'
        BY <1>10 DEF WriteDescriptions, TypeOK, countVars, opVars, histVars
    <2>2. CacheMatchesTable'
        BY <1>10 DEF WriteDescriptions, CacheMatchesTable, TableInHand
    <2>3. TableInHand'
        BY <1>10 DEF WriteDescriptions, TableInHand, TypeOK, histVars
    <2>4. TagsMatchTable'
        BY <1>10 DEF WriteDescriptions, TagsMatchTable, histVars
    <2>5. RunMirrors'
        BY <1>10 DEF WriteDescriptions, RunMirrors, histVars
    <2>6. OverrideChecked'
        BY <1>10 DEF WriteDescriptions, OverrideChecked, opVars
    <2> QED BY <2>1, <2>2, <2>3, <2>4, <2>5, <2>6
<1>11. ASSUME WriteEmbeddings PROVE IndexInv'
    <2>1. TypeOK'
        BY <1>11 DEF WriteEmbeddings, TypeOK, countVars, opVars, histVars
    <2>2. CacheMatchesTable'
        BY <1>11 DEF WriteEmbeddings, CacheMatchesTable, TableInHand
    <2>3. TableInHand'
        BY <1>11 DEF WriteEmbeddings, TableInHand, histVars
    <2>4. TagsMatchTable'
        BY <1>11 DEF WriteEmbeddings, TagsMatchTable, histVars
    <2>5. RunMirrors'
        BY <1>11 DEF WriteEmbeddings, RunMirrors, histVars
    <2>6. OverrideChecked'
        BY <1>11 DEF WriteEmbeddings, OverrideChecked, opVars
    <2> QED BY <2>1, <2>2, <2>3, <2>4, <2>5, <2>6
<1>12. ASSUME WriteTags PROVE IndexInv'
    <2> DEFINE new == IF opts.noPii THEN <<>> ELSE classify(shape)
    <2>0. /\ cur \in Tables /\ shape \in Shapes /\ fps[cur] = shape
          /\ write_column_pii_tags(cur, new)
          /\ \A c \in Cols \cap DOMAIN new : new[c] \in Rows
        BY <1>12, ClassifyType DEF WriteTags, TypeOK, MaybeShape, TableInHand
    <2> HIDE DEF new
    <2>a. /\ tags' \in [Tables -> [Cols -> Rows \cup {Absent}]]
          /\ \A u \in Tables : u # cur => tags'[u] = tags[u]
          /\ \A c \in Cols : tags'[cur][c] =
                 IF tags[cur][c] # Absent /\ tags[cur][c].origin = "operator" THEN tags[cur][c]
                 ELSE IF c \in DOMAIN new THEN new[c] ELSE Absent
        BY <2>0, TagWriteType
    <2>1. TypeOK'
        BY <1>12, <2>a DEF WriteTags, TypeOK, MaybeShape, storeVars, runVars, countVars,
           opVars, histVars
    <2>2. CacheMatchesTable'
        BY <1>12 DEF WriteTags, CacheMatchesTable
    <2>3. TableInHand'
        BY <1>12 DEF WriteTags, TableInHand
    <2>4. TagsMatchTable'
        <3> SUFFICES ASSUME NEW t \in Tables, NEW c \in Cols,
                            fps[t] # Absent, <<t, c>> \notin untagged'
                     PROVE  /\ c \in DOMAIN fps[t] => tags'[t][c] # Absent
                            /\ tags'[t][c] # Absent /\ tags'[t][c].origin = "heuristic" =>
                                   c \in DOMAIN fps[t] /\ tags'[t][c] = classify(fps[t])[c]
            BY <1>12 DEF WriteTags, TagsMatchTable
        <3>1. CASE t # cur
            BY <1>12, <2>0, <2>a, <3>1 DEF WriteTags, TagsMatchTable
        <3>2. CASE t = cur
            <4>1. ~opts.noPii
                BY <1>12, <3>2 DEF WriteTags, TableInHand
            <4>2. new = classify(shape) /\ DOMAIN new = DOMAIN shape
                BY <2>0, <4>1, ClassifyType DEF new
            <4>3. \A d \in DOMAIN shape : classify(shape)[d] # Absent
                BY <2>0, ClassifyType, AbsentAssumption
            <4> QED BY <2>0, <2>a, <3>2, <4>2, <4>3
        <3> QED BY <3>1, <3>2
    <2>5. RunMirrors'
        BY <1>12 DEF WriteTags, RunMirrors, TableInHand
    <2>6. OverrideChecked'
        BY <1>12 DEF WriteTags, OverrideChecked, opVars
    <2> QED BY <2>1, <2>2, <2>3, <2>4, <2>5, <2>6
<1>13. ASSUME Finish PROVE IndexInv'
    <2>1. TypeOK'
        BY <1>13 DEF Finish, TypeOK, storeVars, countVars, opVars, histVars
    <2>2. CacheMatchesTable'
        BY <1>13 DEF Finish, CacheMatchesTable, storeVars
    <2>3. TableInHand'
        BY <1>13 DEF Finish, TableInHand
    <2>4. TagsMatchTable'
        BY <1>13 DEF Finish, TagsMatchTable, storeVars, histVars
    <2>5. RunMirrors'
        BY <1>13 DEF Finish, RunMirrors
    <2>6. OverrideChecked'
        BY <1>13 DEF Finish, OverrideChecked, opVars
    <2> QED BY <2>1, <2>2, <2>3, <2>4, <2>5, <2>6
<1>14. ASSUME Fail PROVE IndexInv'
    <2>1. TypeOK'
        BY <1>14, AbsentAssumption, IndexerAssumption DEF Fail, TypeOK, MaybeShape, storeVars,
           runVars, countVars, opVars, histVars
    <2>2. CacheMatchesTable'
        BY <1>14 DEF Fail, CacheMatchesTable, storeVars
    <2>3. TableInHand'
        BY <1>14 DEF Fail, TableInHand
    <2>4. TagsMatchTable'
        BY <1>14 DEF Fail, TagsMatchTable, storeVars
    <2>5. RunMirrors'
        BY <1>14 DEF Fail, RunMirrors
    <2>6. OverrideChecked'
        BY <1>14 DEF Fail, OverrideChecked, opVars
    <2> QED BY <2>1, <2>2, <2>3, <2>4, <2>5, <2>6
<1>15. ASSUME NEW t \in Tables, Ddl(t) PROVE IndexInv'
    <2>1. TypeOK'
        <3>1. PICK s \in MaybeShape : source' = [source EXCEPT ![t] = s]
            BY <1>15 DEF Ddl, MaybeShape
        <3> QED BY <1>15, <3>1 DEF Ddl, TypeOK, storeVars, runVars, countVars, opVars, histVars
    <2>2. CacheMatchesTable'
        BY <1>15 DEF Ddl, CacheMatchesTable, storeVars
    <2>3. TableInHand'
        BY <1>15 DEF Ddl, TableInHand, storeVars, runVars
    <2>4. TagsMatchTable'
        BY <1>15 DEF Ddl, TagsMatchTable, storeVars
    <2>5. RunMirrors'
        BY <1>15 DEF Ddl, RunMirrors
    <2>6. OverrideChecked'
        BY <1>15 DEF Ddl, OverrideChecked, opVars
    <2> QED BY <2>1, <2>2, <2>3, <2>4, <2>5, <2>6
<1>16. ASSUME NEW t \in Tables, NEW c \in Cols, NEW category \in {"floor", "other"},
              NEW force \in BOOLEAN, CheckOverride(t, c, category, force) PROVE IndexInv'
    <2>1. TypeOK'
        <3>1. pending' \in Overrides
            BY <1>16 DEF CheckOverride, TypeOK, Overrides
        <3> QED BY <1>16, <3>1 DEF CheckOverride, TypeOK, storeVars, runVars, countVars,
                   opVars, histVars
    <2>2. CacheMatchesTable'
        BY <1>16 DEF CheckOverride, CacheMatchesTable, storeVars
    <2>3. TableInHand'
        BY <1>16 DEF CheckOverride, TableInHand, storeVars, runVars
    <2>4. TagsMatchTable'
        BY <1>16 DEF CheckOverride, TagsMatchTable, storeVars
    <2>5. RunMirrors'
        BY <1>16 DEF CheckOverride, RunMirrors, storeVars, runVars
    <2>6. OverrideChecked'
        BY <1>16 DEF CheckOverride, OverrideChecked
    <2> QED BY <2>1, <2>2, <2>3, <2>4, <2>5, <2>6
<1>17. ASSUME WriteOverride PROVE IndexInv'
    <2> DEFINE new == [category |-> pending.category, origin |-> "operator"]
    <2>0. /\ pending \in Overrides /\ pending.table \in Tables /\ pending.column \in Cols
          /\ new \in Rows /\ new.origin = "operator"
          /\ tags' = [tags EXCEPT ![pending.table][pending.column] = new]
        BY <1>17 DEF WriteOverride, TypeOK, Overrides, Rows
    <2> HIDE DEF new
    <2>1. TypeOK'
        BY <1>17, <2>0 DEF WriteOverride, TypeOK, storeVars, runVars, countVars, opVars, histVars
    <2>2. CacheMatchesTable'
        BY <1>17 DEF WriteOverride, CacheMatchesTable
    <2>3. TableInHand'
        BY <1>17 DEF WriteOverride, TableInHand, runVars
    <2>4. TagsMatchTable'
        <3> SUFFICES ASSUME NEW t \in Tables, NEW c \in Cols,
                            fps[t] # Absent, <<t, c>> \notin untagged
                     PROVE  /\ c \in DOMAIN fps[t] => tags'[t][c] # Absent
                            /\ tags'[t][c] # Absent /\ tags'[t][c].origin = "heuristic" =>
                                   c \in DOMAIN fps[t] /\ tags'[t][c] = classify(fps[t])[c]
            BY <1>17 DEF WriteOverride, TagsMatchTable
        <3>1. CASE t = pending.table /\ c = pending.column
            BY <2>0, <3>1, AbsentAssumption DEF TypeOK
        <3>2. CASE ~(t = pending.table /\ c = pending.column)
            <4>1. tags'[t][c] = tags[t][c]
                BY <2>0, <3>2 DEF TypeOK
            <4> QED BY <4>1 DEF TagsMatchTable
        <3> QED BY <3>1, <3>2
    <2>5. RunMirrors'
        BY <1>17 DEF WriteOverride, RunMirrors, runVars
    <2>6. OverrideChecked'
        BY <1>17 DEF WriteOverride, OverrideChecked
    <2> QED BY <2>1, <2>2, <2>3, <2>4, <2>5, <2>6
<1>18. ASSUME NEW t \in Tables, NEW c \in Cols, NEW force \in BOOLEAN, ClearOverride(t, c,
              force) PROVE IndexInv'
    <2>1. TypeOK'
        BY <1>18 DEF ClearOverride, TypeOK, runVars
    <2>2. CacheMatchesTable'
        BY <1>18 DEF ClearOverride, CacheMatchesTable
    <2>3. TableInHand'
        BY <1>18 DEF ClearOverride, TableInHand, runVars
    <2>4. TagsMatchTable'
        BY <1>18 DEF ClearOverride, TagsMatchTable
    <2>5. RunMirrors'
        BY <1>18 DEF ClearOverride, RunMirrors, runVars
    <2>6. OverrideChecked'
        BY <1>18 DEF ClearOverride, OverrideChecked
    <2> QED BY <2>1, <2>2, <2>3, <2>4, <2>5, <2>6
<1>19. ASSUME NEW t \in Tables, ApplyEntity(t) PROVE IndexInv'
    <2>1. TypeOK'
        BY <1>19 DEF ApplyEntity, TypeOK, storeVars, runVars, histVars
    <2>2. CacheMatchesTable'
        BY <1>19 DEF ApplyEntity, CacheMatchesTable, storeVars
    <2>3. TableInHand'
        BY <1>19 DEF ApplyEntity, TableInHand, storeVars, runVars, histVars
    <2>4. TagsMatchTable'
        BY <1>19 DEF ApplyEntity, TagsMatchTable, storeVars, histVars
    <2>5. RunMirrors'
        BY <1>19 DEF ApplyEntity, RunMirrors, storeVars, runVars, histVars
    <2>6. OverrideChecked'
        BY <1>19 DEF ApplyEntity, OverrideChecked
    <2> QED BY <2>1, <2>2, <2>3, <2>4, <2>5, <2>6
<1>20. CASE UNCHANGED vars
    BY <1>20 DEF vars, storeVars, runVars, countVars, opVars, histVars, TypeOK,
       CacheMatchesTable, TableInHand, TagsMatchTable, RunMirrors,
       OverrideChecked, Floor
<1> QED BY <1>1, <1>2, <1>3, <1>4, <1>5, <1>6, <1>7, <1>8, <1>9, <1>10, <1>11, <1>12, <1>13,
           <1>14, <1>15, <1>16, <1>17, <1>18, <1>19, <1>20 DEF Next, RunStep, Operator

\* The store and the fields of a run keep their types: index(), the override commands
\* and the schema changes around them, whatever their number.
THEOREM TypeCorrect == Spec => []TypeOK
<1>1. IndexInv => TypeOK
    BY DEF IndexInv
<1> QED BY InitInv, StepInv, <1>1, PTL DEF Spec

\* Whatever died when, in whatever run: fingerprints, descriptions and embeddings belong
\* to the shape in the table row (the five transactions of indexer.py:376-466).
THEOREM CacheConsistent == Spec => []CacheMatchesTable
<1>1. IndexInv => CacheMatchesTable
    BY DEF IndexInv
<1> QED BY InitInv, StepInv, <1>1, PTL DEF Spec

\* The tags of a table that counts as unchanged are the classifier's verdict on its stored
\* structure or an operator's, but for what a dead run or --no-pii-classify left out.
THEOREM TagsConsistent == Spec => []TagsMatchTable
<1>1. IndexInv => TagsMatchTable
    BY DEF IndexInv
<1> QED BY InitInv, StepInv, <1>1, PTL DEF Spec

\* A run of index() that ends normally, the schema having rested, mirrors the source.
THEOREM FinishedMirrors == Spec => FinishedRunMirrorsSource
<1>1. IndexInv /\ [Next]_vars => [Finish /\ quiet => tables = source]_vars
    <2> SUFFICES ASSUME IndexInv, Finish, quiet PROVE tables = source
        OBVIOUS
    <2>1. \A t \in Tables : tables[t] = source[t]
        BY IndexerAssumption DEF IndexInv, Finish, RunMirrors, TableInHand
    <2> QED BY <2>1 DEF IndexInv, TypeOK
<1> QED BY InitInv, StepInv, <1>1, PTL DEF Spec, FinishedRunMirrorsSource

\* Only the operator touches an operator's row, and without --force takes no catastrophic
\* tag away that the command's own check could have seen.
THEOREM OperatorRows == Spec => OperatorRowsAreTheOperators
<1> DEFINE Kept == \A t \in Tables, c \in Cols : tags[t][c] # Absent /\ tags'[t][c] # tags[t][c] =>
                     IF ops' = ops /\ pending' = pending
                       THEN tags[t][c].origin = "heuristic"
                       ELSE Floor(tags[t][c]) /\ ~Floor(tags'[t][c]) =>
                               forced' \/ (pending # Absent /\ pending.saw # tags[t][c])
<1>1. IndexInv /\ [Next]_vars => [Kept]_vars
    <2> SUFFICES ASSUME IndexInv, Next PROVE Kept
        OBVIOUS
    <2> USE DEF IndexInv
    <2>1. CASE UNCHANGED tags
        BY <2>1
    <2>2. ASSUME NEW t \in Tables, NEW new, write_column_pii_tags(t, new), UNCHANGED <<ops,
                 pending>>
          PROVE  Kept
        BY <2>2 DEF write_column_pii_tags, TypeOK, Rows
    <2>3. CASE WipeRemoved
        BY <2>2, <2>3 DEF WipeRemoved, TypeOK, opVars, countVars
    <2>4. CASE WriteTags
        BY <2>2, <2>4 DEF WriteTags, TypeOK, opVars, countVars
    <2>5. CASE WriteOverride
        <3>1. /\ pending \in Overrides /\ pending' # pending /\ forced' = forced
              /\ tags' = [tags EXCEPT ![pending.table][pending.column] =
                             [category |-> pending.category, origin |-> "operator"]]
            BY <2>5, AbsentAssumption DEF WriteOverride, TypeOK
        <3> SUFFICES ASSUME NEW t \in Tables, NEW c \in Cols, tags'[t][c] # tags[t][c],
                            Floor(tags[t][c]), ~Floor(tags'[t][c]), ~forced
                     PROVE  pending # Absent /\ pending.saw # tags[t][c]
            BY <3>1
        <3>2. t = pending.table /\ c = pending.column
            BY <3>1 DEF TypeOK, Overrides
        <3>3. tags'[t][c] = [category |-> pending.category, origin |-> "operator"]
            BY <3>1, <3>2 DEF TypeOK
        <3>4. pending.category # "floor" \/ tags'[t][c] = Absent
            BY <3>3 DEF Floor
        <3>5. [category |-> pending.category, origin |-> "operator"] \in Rows
            BY <3>1 DEF Overrides, Rows
        <3>6. ~Floor(pending.saw)
            BY <2>5, <3>3, <3>4, <3>5, AbsentAssumption DEF WriteOverride, OverrideChecked
        <3> QED BY <2>5, <3>6 DEF WriteOverride
    <2>6. ASSUME NEW t \in Tables, NEW c \in Cols, NEW force \in BOOLEAN, ClearOverride(t, c, force)
          PROVE  Kept
        BY <2>6 DEF ClearOverride, Floor, TypeOK
    <2> QED BY <2>1, <2>3, <2>4, <2>5, <2>6
            DEF Next, RunStep, Operator, IndexStart, DeleteTable, RemovalsDone, Visit,
            VisitGone, Enrich,
                WriteTable, WriteFingerprints, WriteDescriptions, WriteEmbeddings, Finish,
                Fail, Ddl,
                CheckOverride, ApplyEntity, storeVars
<1> QED BY InitInv, StepInv, <1>1, PTL DEF Spec, OperatorRowsAreTheOperators
=============================================================================
