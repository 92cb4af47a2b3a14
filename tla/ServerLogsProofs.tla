-------------------------- MODULE ServerLogsProofs --------------------------
(***************************************************************************)
(* Proofs about the two logs a server writes: the audit chain, for any     *)
(* number of processes, threads, row contents and rows, and the event file *)
(* with its reader, for any number of servers, inodes and events, any      *)
(* rotation size and whether or not inode numbers are reused.              *)
(***************************************************************************)
EXTENDS AuditChain, EventTail, SequenceTheorems, WellFoundedInduction, TLAPS

\* A canonical row appended to a hash is a hash.
LEMMA HashGrows ==
    ASSUME NEW h \in Hashes, NEW id \in Nat, NEW time \in Nat, NEW c \in Contents
    PROVE  compute_chain_hash(h, <<id, time, c>>) \in Hashes
BY DEF compute_chain_hash, Hashes, Canonicals

\* The last stored hash has the type of a stored hash.
LEMMA StoredTailType ==
    ASSUME TypeOK
    PROVE  StoredTail \in Hash32OrBad
<1>1. CASE rows = <<>>
    BY <1>1 DEF StoredTail, GENESIS_CHAIN_HASH, Hash32OrBad, Hashes
<1>2. CASE rows # <<>>
    <2>1. rows[Len(rows)] \in Rows
        BY <1>2 DEF TypeOK
    <2> QED BY <1>2, <2>1 DEF StoredTail, Rows
<1> QED BY <1>1, <1>2

\* Cutting the table and its history at the same place keeps them aligned.
LEMMA PrefixType ==
    ASSUME TypeOK, NEW n \in 0 .. Len(rows)
    PROVE  /\ SubSeq(rows, 1, n) \in Seq(Rows)
           /\ SubSeq(written, 1, n) \in Seq(Inserted)
           /\ Len(SubSeq(rows, 1, n)) = n
           /\ Len(SubSeq(written, 1, n)) = n
           /\ \A i \in 1 .. n : SubSeq(rows, 1, n)[i] = rows[i]
           /\ \A i \in 1 .. n : SubSeq(written, 1, n)[i] = written[i]
<1>1. /\ n \in Nat
      /\ \A i \in 1 .. n : rows[i] \in Rows /\ written[i] \in Inserted
    BY DEF TypeOK
<1>2. /\ SubSeq(rows, 1, n) \in Seq(Rows)
      /\ Len(SubSeq(rows, 1, n)) = IF 1 <= n THEN n - 1 + 1 ELSE 0
      /\ \A i \in 1 .. n - 1 + 1 : SubSeq(rows, 1, n)[i] = rows[1 + i - 1]
    BY <1>1, SubSeqProperties DEF TypeOK
<1> QED BY <1>1, <1>2

\* Initially nothing is stored and nobody writes.
LEMMA SharedInit == Init => SharedInv
BY DEF Init, SharedInv, TypeOK, WritersHoldTheLock, CommittedIsWritten,
       AckedRowsAreDurable, GENESIS_CHAIN_HASH, Hashes, Workers

\* No step of any process, of the store or of the machine breaks SharedInv.
LEMMA SharedStep == SharedInv /\ [Next]_vars => SharedInv'
<1> SUFFICES ASSUME SharedInv, [Next]_vars PROVE SharedInv'
    OBVIOUS
<1> USE DEF SharedInv
<1>1. ASSUME NEW p \in Procs, Start(p) PROVE SharedInv'
    <2>1. TypeOK'
        BY <1>1, StoredTailType DEF TypeOK, Start, Hash32OrBad
    <2>2. WritersHoldTheLock'
        BY <1>1 DEF WritersHoldTheLock, Start, TypeOK, Workers
    <2> QED BY <1>1, <2>1, <2>2 DEF Start, CommittedIsWritten, AckedRowsAreDurable
<1>2. ASSUME NEW p \in Procs, Stop(p) PROVE SharedInv'
    <2>1. TypeOK'
        BY <1>2 DEF TypeOK, Stop, Forget
    <2>2. WritersHoldTheLock'
        BY <1>2 DEF WritersHoldTheLock, Stop, Forget, TypeOK, Workers
    <2> QED BY <1>2, <2>1, <2>2 DEF Stop, Forget, CommittedIsWritten, AckedRowsAreDurable
<1>3. ASSUME NEW p \in Procs, NEW t \in Threads, NEW c \in Contents, Prepare(p, t, c)
      PROVE  SharedInv'
    <2> DEFINE r == [id |-> Len(rows) + 1, time |-> now, content |-> c,
                     chain |-> compute_chain_hash(tail[p], <<Len(rows) + 1, now, c>>)]
    <2>1. r \in Pending
        <3>1. Len(rows) + 1 \in Nat \ {0} /\ now \in Nat /\ tail[p] \in Hashes
            BY DEF TypeOK
        <3> QED BY <3>1, HashGrows DEF Pending
    <2>2. /\ pend' = [pend EXCEPT ![<<p, t>>] = r]
          /\ pc' = [pc EXCEPT ![<<p, t>>] = "insert"]
          /\ lock' = [lock EXCEPT ![p] = t]
          /\ lock[p] = NoThread /\ audit[p] = "on" /\ pc[<<p, t>>] = "idle"
          /\ UNCHANGED <<rows, synced, now, audit, tail, acked, written>>
        BY <1>3 DEF Prepare, canonical_audit_row
    <2> HIDE DEF r
    <2>3. <<p, t>> \in Workers
        BY DEF Workers
    <2>4. TypeOK'
        BY <2>1, <2>2, <2>3 DEF TypeOK
    <2>5. WritersHoldTheLock'
        BY <2>1, <2>2, <2>3, AuditChainAssumption DEF WritersHoldTheLock, TypeOK, Workers
    <2>6. CommittedIsWritten'
        BY <2>2, <2>3 DEF CommittedIsWritten, TypeOK
    <2> QED BY <2>2, <2>4, <2>5, <2>6 DEF AckedRowsAreDurable
<1>4. ASSUME NEW p \in Procs, NEW t \in Threads, Commit(p, t) PROVE SharedInv'
    <2> DEFINE r == pend[<<p, t>>]
    <2>1. <<p, t>> \in Workers /\ r \in Pending /\ pc[<<p, t>>] = "insert"
        BY <1>4 DEF Commit, WritersHoldTheLock, Workers
    <2>2. StoredRow(r) \in Rows /\ [row |-> StoredRow(r), by |-> p] \in Inserted
        BY <2>1 DEF StoredRow, Rows, Inserted, Pending, Hash32OrBad
    <2>3. /\ rows' = Append(rows, StoredRow(r))
          /\ written' = Append(written, [row |-> StoredRow(r), by |-> p])
          /\ r.id = Len(rows) + 1
          /\ pc' = [pc EXCEPT ![<<p, t>>] = "committed"]
          /\ UNCHANGED <<synced, now, audit, tail, lock, pend, acked>>
        BY <1>4 DEF Commit
    <2>4. TypeOK'
        BY <2>1, <2>2, <2>3 DEF TypeOK
    <2>5. WritersHoldTheLock'
        BY <2>1, <2>3 DEF WritersHoldTheLock, TypeOK
    <2>6. /\ Len(written') = Len(written) + 1 /\ Len(written) \in Nat
          /\ written'[Len(written) + 1].row = StoredRow(r)
          /\ \A i \in 1 .. Len(written) : written'[i] = written[i]
        BY <2>2, <2>3 DEF TypeOK
    <2>7. CommittedIsWritten'
        <3> SUFFICES ASSUME NEW w \in Workers, pc'[w] = "committed"
                     PROVE  pend[w].id <= Len(written') /\ written'[pend[w].id].row = StoredRow(pend[w])
            BY <2>3 DEF CommittedIsWritten
        <3>1. CASE w = <<p, t>>
            BY <3>1, <2>3, <2>6 DEF TypeOK
        <3>2. CASE w # <<p, t>>
            <4>1. pc[w] = "committed" /\ pend[w] \in Pending
                BY <3>2, <2>1, <2>3 DEF TypeOK, WritersHoldTheLock
            <4>2. pend[w].id \in 1 .. Len(written) /\ written[pend[w].id].row = StoredRow(pend[w])
                BY <4>1, <2>6 DEF CommittedIsWritten, Pending
            <4> QED BY <4>2, <2>6
        <3> QED BY <3>1, <3>2
    <2>8. AckedRowsAreDurable'
        <3> SUFFICES ASSUME NEW a \in acked
                     PROVE  a.id <= Len(written') /\ written'[a.id].row = StoredRow(a)
            BY <2>3 DEF AckedRowsAreDurable
        <3>1. a.id \in 1 .. Len(written) /\ written[a.id].row = StoredRow(a)
            BY <2>6 DEF AckedRowsAreDurable, TypeOK, Pending
        <3> QED BY <3>1, <2>6
    <2> QED BY <2>4, <2>5, <2>7, <2>8
<1>5. ASSUME NEW p \in Procs, NEW t \in Threads, InsertFails(p, t) PROVE SharedInv'
    <2>1. <<p, t>> \in Workers
        BY DEF Workers
    <2>2. TypeOK'
        BY <1>5, <2>1 DEF InsertFails, Release, TypeOK
    <2>3. WritersHoldTheLock'
        BY <1>5, <2>1 DEF InsertFails, Release, TypeOK, WritersHoldTheLock, Workers
    <2>4. CommittedIsWritten'
        BY <1>5, <2>1 DEF InsertFails, Release, TypeOK, CommittedIsWritten
    <2> QED BY <1>5, <2>2, <2>3, <2>4 DEF InsertFails, AckedRowsAreDurable
<1>6. ASSUME NEW p \in Procs, NEW t \in Threads, Return(p, t) PROVE SharedInv'
    <2>1. <<p, t>> \in Workers /\ pend[<<p, t>>] \in Pending /\ pc[<<p, t>>] = "committed"
        BY <1>6 DEF Return, WritersHoldTheLock, Workers
    <2>2. TypeOK'
        BY <1>6, <2>1 DEF Return, Release, TypeOK, Pending
    <2>3. WritersHoldTheLock'
        BY <1>6, <2>1 DEF Return, Release, TypeOK, WritersHoldTheLock, Workers
    <2>4. CommittedIsWritten'
        BY <1>6, <2>1 DEF Return, Release, TypeOK, CommittedIsWritten
    <2>5. AckedRowsAreDurable'
        BY <1>6, <2>1 DEF Return, CommittedIsWritten, AckedRowsAreDurable
    <2> QED BY <2>2, <2>3, <2>4, <2>5
<1>7. CASE Checkpoint
    BY <1>7 DEF Checkpoint, TypeOK, WritersHoldTheLock, CommittedIsWritten, AckedRowsAreDurable
<1>8. CASE PowerLoss
    <2> PICK n \in synced .. Len(rows) :
            /\ rows' = SubSeq(rows, 1, n)
            /\ written' = SubSeq(written, 1, n)
            /\ acked' = {r \in acked : r.id <= n}
        BY <1>8 DEF PowerLoss
    <2>1. n \in 0 .. Len(rows)
        BY DEF TypeOK
    <2>2. TypeOK'
        BY <1>8, <2>1, PrefixType DEF PowerLoss, Forget, TypeOK
    <2>3. \A w \in Workers : pc'[w] = "idle"
        BY <1>8 DEF PowerLoss, Forget, Workers
    <2>4. AckedRowsAreDurable'
        <3> SUFFICES ASSUME NEW a \in acked, a.id <= n
                     PROVE  a.id <= Len(written') /\ written'[a.id].row = StoredRow(a)
            BY DEF AckedRowsAreDurable
        <3>1. a.id \in 1 .. n
            BY <2>1 DEF TypeOK, Pending
        <3> QED BY <3>1, <2>1, PrefixType DEF AckedRowsAreDurable
    <2> QED BY <2>2, <2>3, <2>4 DEF WritersHoldTheLock, CommittedIsWritten
<1>9. CASE Tick \/ StepBack
    BY <1>9 DEF Tick, StepBack, TypeOK, WritersHoldTheLock, CommittedIsWritten, AckedRowsAreDurable
<1>10. CASE Alter
    <2>1. rows' \in Seq(Rows) /\ Len(rows') = Len(rows)
        <3> PICK i \in 1 .. Len(rows) :
                \/ \E c \in Contents : rows' = [rows EXCEPT ![i].content = c]
                \/ rows' = [rows EXCEPT ![i].content = BadShape]
                \/ rows' = [rows EXCEPT ![i].chain = BadHash]
            BY <1>10 DEF Alter
        <3>1. rows[i] \in Rows
            BY DEF TypeOK
        <3>2. PICK e \in Rows : rows' = [rows EXCEPT ![i] = e]
            <4>1. \A c \in Contents \cup {BadShape} : [rows[i] EXCEPT !.content = c] \in Rows
                BY <3>1 DEF Rows
            <4>2. [rows[i] EXCEPT !.chain = BadHash] \in Rows
                BY <3>1 DEF Rows, Hash32OrBad
            <4> QED BY <4>1, <4>2
        <3> QED BY <3>2, ExceptSeq DEF TypeOK
    <2>2. TypeOK'
        BY <1>10, <2>1 DEF Alter, TypeOK
    <2> QED BY <1>10, <2>2 DEF Alter, WritersHoldTheLock, CommittedIsWritten, AckedRowsAreDurable
<1>11. CASE UNCHANGED vars
    BY <1>11 DEF vars, TypeOK, WritersHoldTheLock, CommittedIsWritten, AckedRowsAreDurable
<1> QED BY <1>1, <1>2, <1>3, <1>4, <1>5, <1>6, <1>7, <1>8, <1>9, <1>10, <1>11 DEF Next

\* The combined invariant holds in every reachable state of any number of serve
\* processes on one store.
THEOREM SharedCorrect == Spec => []SharedInv
BY SharedInit, SharedStep, PTL DEF Spec

\* Every reachable state of the writers and the table is well typed.
THEOREM TypeCorrect == Spec => []TypeOK
<1>1. SharedInv => TypeOK
    BY DEF SharedInv
<1> QED BY <1>1, SharedCorrect, PTL

\* A row that write() returned is in the table as returned, however many
\* processes share the store and whatever crashed since.
THEOREM AckedDurable == Spec => []AckedRowsAreDurable
<1>1. SharedInv => AckedRowsAreDurable
    BY DEF SharedInv
<1> QED BY <1>1, SharedCorrect, PTL

-----------------------------------------------------------------------------
(* One serve process per store, as the operations guide asks. *)

\* Appending the canonical form of row n+1 to the history of n rows is the
\* history of n+1 rows.
LEMMA HistoryGrows ==
    ASSUME NEW n \in Nat, NEW f \in [1 .. n -> Canonicals], NEW c \in Canonicals
    PROVE  Append(f, c) = [j \in 1 .. n + 1 |-> IF j = n + 1 THEN c ELSE f[j]]
<1>1. f \in Seq(Canonicals) /\ Len(f) = n
    BY SeqDef
<1>2. Append(f, c) \in Seq(Canonicals) /\ Len(Append(f, c)) = n + 1
    BY <1>1
<1>3. Append(f, c) \in [1 .. n + 1 -> Canonicals]
    BY <1>2, LenProperties
<1>4. \A j \in 1 .. n + 1 : Append(f, c)[j] = IF j = n + 1 THEN c ELSE f[j]
    BY <1>1
<1> QED BY <1>3, <1>4

\* The canonical form of an inserted row.
LEMMA WrittenCanonical ==
    ASSUME TypeOK, NEW i \in 1 .. Len(written)
    PROVE  canonical_audit_row(i, written[i].row) \in Canonicals
<1>1. written[i] \in Inserted /\ i \in Nat
    BY DEF TypeOK
<1> QED BY <1>1 DEF Inserted, canonical_audit_row, Canonicals

\* The last inserted hash commits to the whole history.
LEMMA LastHash ==
    ASSUME TypeOK, Chained
    PROVE  WrittenHash(Len(written)) =
             [j \in 1 .. Len(written) |-> canonical_audit_row(j, written[j].row)]
<1>1. Len(written) \in Nat
    BY DEF TypeOK
<1>2. CASE Len(written) = 0
    BY <1>2 DEF WrittenHash, GENESIS_CHAIN_HASH
<1>3. CASE Len(written) # 0
    BY <1>1, <1>3 DEF WrittenHash, Chained
<1> QED BY <1>2, <1>3

\* The stored tail is the last inserted hash.
LEMMA StoredIsWritten ==
    ASSUME TypeOK, HashesKept
    PROVE  StoredTail = WrittenHash(Len(written))
<1>1. Len(rows) \in Nat /\ Len(written) = Len(rows) /\ (rows = <<>> <=> Len(rows) = 0)
    BY DEF TypeOK
<1>2. CASE Len(rows) = 0
    BY <1>1, <1>2 DEF StoredTail, WrittenHash
<1>3. CASE Len(rows) # 0
    BY <1>1, <1>3 DEF StoredTail, WrittenHash, HashesKept
<1> QED BY <1>2, <1>3

\* Initially the chain is empty and no writer has a tail.
LEMMA SoloInit == Init => SoloInv
BY SharedInit DEF Init, SoloInv, Chained, HashesKept, TailCurrent, CommittedIsLast, PendingExtendsTail

\* A step of the only serve process, of the store or of the machine keeps the
\* chain whole and the cached tail current.
LEMMA SoloStep ==
    ASSUME \A p, q \in Procs : p = q, "hash" \notin Damage, SoloInv, [Next]_vars
    PROVE  SoloInv'
<1> USE DEF SoloInv, SharedInv
<1>0. SharedInv'
    BY SharedStep
<1>1. ASSUME NEW p \in Procs, Start(p) PROVE SoloInv'
    <2>1. UNCHANGED <<rows, written, pc, pend>>
        BY <1>1 DEF Start
    <2>2. \A w \in Workers : pc[w] # "insert"
        BY <1>1 DEF Start, WritersHoldTheLock, Workers
    <2>3. TailCurrent'
        BY <1>1, <2>1, StoredIsWritten DEF Start, TailCurrent, WrittenHash, TypeOK
    <2> QED BY <1>0, <2>1, <2>2, <2>3 DEF Chained, HashesKept, CommittedIsLast, PendingExtendsTail
<1>2. ASSUME NEW p \in Procs, Stop(p) PROVE SoloInv'
    BY <1>0, <1>2 DEF Stop, Forget, Chained, HashesKept, TailCurrent, CommittedIsLast,
                      PendingExtendsTail, Workers, WrittenHash
<1>3. ASSUME NEW p \in Procs, NEW t \in Threads, NEW c \in Contents, Prepare(p, t, c)
      PROVE  SoloInv'
    <2>1. <<p, t>> \in Workers
        BY DEF Workers
    <2>2. \A u \in Threads : pc[<<p, u>>] = "idle"
        BY <1>3, AuditChainAssumption DEF Prepare, WritersHoldTheLock, Workers
    <2>3. tail[p] = WrittenHash(Len(written))
        BY <1>3, <2>2 DEF Prepare, TailCurrent
    <2>4. TailCurrent'
        BY <1>3, <2>3 DEF Prepare, TailCurrent, WrittenHash
    <2>5. PendingExtendsTail'
        <3> SUFFICES ASSUME NEW w \in Workers, pc'[w] = "insert"
                     PROVE  /\ tail[w[1]] = WrittenHash(Len(written))
                            /\ pend'[w].id = Len(written) + 1
                            /\ pend'[w].chain = compute_chain_hash(tail[w[1]],
                                   canonical_audit_row(pend'[w].id, pend'[w]))
            BY <1>3 DEF Prepare, PendingExtendsTail, WrittenHash
        <3>1. w = <<p, t>>
            BY <1>3, <2>1, <2>2 DEF Prepare, TypeOK, Workers
        <3> QED BY <1>3, <2>1, <2>3, <3>1 DEF Prepare, TypeOK, canonical_audit_row
    <2>6. CommittedIsLast'
        BY <1>3, <2>1 DEF Prepare, TypeOK, CommittedIsLast
    <2> QED BY <1>0, <1>3, <2>4, <2>5, <2>6 DEF Prepare, Chained, HashesKept
<1>4. ASSUME NEW p \in Procs, NEW t \in Threads, Commit(p, t) PROVE SoloInv'
    <2> DEFINE r == pend[<<p, t>>]
               n == Len(written)
               h(k) == [j \in 1 .. k |-> canonical_audit_row(j, written[j].row)]
    <2>1. /\ <<p, t>> \in Workers /\ r \in Pending
          /\ n \in Nat /\ Len(rows) = n /\ lock[p] = t
        BY <1>4 DEF Commit, WritersHoldTheLock, Workers, TypeOK
    <2>2. /\ rows' = Append(rows, StoredRow(r))
          /\ written' = Append(written, [row |-> StoredRow(r), by |-> p])
          /\ r.id = n + 1 /\ pc[<<p, t>>] = "insert"
          /\ pc' = [pc EXCEPT ![<<p, t>>] = "committed"]
          /\ UNCHANGED <<audit, tail, lock, pend>>
        BY <1>4, <2>1 DEF Commit
    <2>3. /\ Len(written') = n + 1 /\ Len(rows') = n + 1
          /\ written'[n + 1].row = StoredRow(r) /\ rows'[n + 1] = StoredRow(r)
          /\ \A i \in 1 .. n : written'[i] = written[i] /\ rows'[i] = rows[i]
        BY <2>1, <2>2 DEF TypeOK
    <2>4. r.chain = Append(h(n), canonical_audit_row(n + 1, StoredRow(r)))
        BY <2>1, <2>2, LastHash DEF PendingExtendsTail, compute_chain_hash, canonical_audit_row, StoredRow
    <2>5. r.chain = [j \in 1 .. n + 1 |-> canonical_audit_row(j, written'[j].row)]
        <3>1. h(n) \in [1 .. n -> Canonicals]
            BY WrittenCanonical
        <3>2. canonical_audit_row(n + 1, StoredRow(r)) \in Canonicals
            BY <2>1 DEF canonical_audit_row, StoredRow, Canonicals, Pending
        <3>3. r.chain = [j \in 1 .. n + 1 |-> IF j = n + 1 THEN canonical_audit_row(n + 1, StoredRow(r))
                                                         ELSE h(n)[j]]
            BY <2>1, <2>4, <3>1, <3>2, HistoryGrows
        <3>4. \A j \in 1 .. n + 1 :
                canonical_audit_row(j, written'[j].row) =
                    IF j = n + 1 THEN canonical_audit_row(n + 1, StoredRow(r)) ELSE h(n)[j]
            BY <2>1, <2>3
        <3> QED BY <3>3, <3>4
    <2>6. Chained'
        <3> SUFFICES ASSUME NEW i \in 1 .. n + 1
                     PROVE  written'[i].row.chain =
                              [j \in 1 .. i |-> canonical_audit_row(j, written'[j].row)]
            BY <2>3 DEF Chained, canonical_audit_row
        <3>1. CASE i = n + 1
            BY <3>1, <2>3, <2>5 DEF StoredRow
        <3>2. CASE i \in 1 .. n
            <4>1. written'[i].row.chain = [j \in 1 .. i |-> canonical_audit_row(j, written[j].row)]
                BY <3>2, <2>3 DEF Chained
            <4>2. \A j \in 1 .. i : written'[j] = written[j]
                BY <3>2, <2>1, <2>3
            <4> QED BY <4>1, <4>2
        <3> QED BY <3>1, <3>2, <2>1
    <2>7. HashesKept'
        BY <2>1, <2>3 DEF HashesKept, StoredRow
    <2>8. TailCurrent'
        <3>1. \A q \in Procs : q = p
            OBVIOUS
        <3>2. pc'[<<p, t>>] = "committed"
            BY <2>1, <2>2 DEF TypeOK
        <3> QED BY <3>1, <3>2 DEF TailCurrent
    <2>9. PendingExtendsTail' /\ CommittedIsLast'
        <3>1. \A w \in Workers : w # <<p, t>> => pc[w] = "idle"
            BY <2>1 DEF WritersHoldTheLock, Workers
        <3>2. \A w \in Workers : pc'[w] # "insert"
            BY <2>1, <2>2, <3>1 DEF TypeOK
        <3>3. CommittedIsLast'
            BY <2>1, <2>2, <2>3, <3>1 DEF TypeOK, CommittedIsLast
        <3> QED BY <3>2, <3>3 DEF PendingExtendsTail
    <2> QED BY <1>0, <2>6, <2>7, <2>8, <2>9
<1>5. ASSUME NEW p \in Procs, NEW t \in Threads, InsertFails(p, t) PROVE SoloInv'
    <2>1. <<p, t>> \in Workers
        BY DEF Workers
    <2>2. tail[p] = WrittenHash(Len(written))
        BY <1>5, <2>1 DEF InsertFails, PendingExtendsTail
    <2>3. TailCurrent'
        BY <1>5, <2>2 DEF InsertFails, Release, TailCurrent, WrittenHash
    <2>4. PendingExtendsTail'
        BY <1>5, <2>1 DEF InsertFails, Release, TypeOK, PendingExtendsTail, WrittenHash
    <2>5. CommittedIsLast'
        BY <1>5, <2>1 DEF InsertFails, Release, TypeOK, CommittedIsLast
    <2> QED BY <1>0, <1>5, <2>3, <2>4, <2>5 DEF InsertFails, Chained, HashesKept
<1>6. ASSUME NEW p \in Procs, NEW t \in Threads, Return(p, t) PROVE SoloInv'
    <2>1. <<p, t>> \in Workers /\ pend[<<p, t>>] \in Pending /\ pc[<<p, t>>] = "committed" /\ lock[p] = t
        BY <1>6 DEF Return, WritersHoldTheLock, Workers
    <2>2. \A w \in Workers : w # <<p, t>> => pc[w] = "idle"
        BY <2>1 DEF WritersHoldTheLock, Workers
    <2>3. tail'[p] = WrittenHash(Len(written)) /\ UNCHANGED <<rows, written, audit>>
        <3>1. pend[<<p, t>>].id = Len(written) /\ Len(written) # 0
            BY <2>1 DEF CommittedIsLast, Pending, TypeOK
        <3>2. WrittenHash(Len(written)) = pend[<<p, t>>].chain
            <4>1. written[Len(written)].row = StoredRow(pend[<<p, t>>])
                BY <2>1, <3>1 DEF CommittedIsWritten
            <4> QED BY <3>1, <4>1 DEF WrittenHash, StoredRow
        <3> QED BY <1>6, <3>2 DEF Return, TypeOK
    <2>4. TailCurrent'
        BY <2>3 DEF TailCurrent, WrittenHash
    <2>5. \A w \in Workers : pc'[w] = "idle"
        BY <1>6, <2>1, <2>2 DEF Return, Release, TypeOK
    <2> QED BY <1>0, <2>3, <2>4, <2>5 DEF Chained, HashesKept, CommittedIsLast, PendingExtendsTail
<1>7. CASE Checkpoint \/ Tick \/ StepBack
    BY <1>0, <1>7 DEF Checkpoint, Tick, StepBack, Chained, HashesKept, TailCurrent,
                      CommittedIsLast, PendingExtendsTail, WrittenHash
<1>8. CASE PowerLoss
    <2> PICK n \in synced .. Len(rows) :
            rows' = SubSeq(rows, 1, n) /\ written' = SubSeq(written, 1, n)
        BY <1>8 DEF PowerLoss
    <2>1. n \in 0 .. Len(rows) /\ Len(written) = Len(rows)
        BY DEF TypeOK
    <2>2. /\ Len(rows') = n /\ Len(written') = n
          /\ \A i \in 1 .. n : rows'[i] = rows[i] /\ written'[i] = written[i]
        BY <2>1, PrefixType
    <2>3. /\ \A w \in Workers : pc'[w] = "idle"
          /\ \A p \in Procs : audit'[p] = "down"
        BY <1>8 DEF PowerLoss, Forget, Workers
    <2>4. Chained'
        <3> SUFFICES ASSUME NEW i \in 1 .. n
                     PROVE  written'[i].row.chain =
                              [j \in 1 .. i |-> canonical_audit_row(j, written'[j].row)]
            BY <2>2 DEF Chained, canonical_audit_row
        <3>1. i \in 1 .. Len(written) /\ \A j \in 1 .. i : j \in 1 .. n
            BY <2>1
        <3>2. written'[i].row.chain = [j \in 1 .. i |-> canonical_audit_row(j, written[j].row)]
            BY <2>2, <3>1 DEF Chained
        <3> QED BY <2>2, <3>1, <3>2
    <2>5. HashesKept'
        BY <2>1, <2>2 DEF HashesKept
    <2> QED BY <1>0, <2>3, <2>4, <2>5 DEF TailCurrent, CommittedIsLast, PendingExtendsTail
<1>9. CASE Alter
    <2>1. /\ Len(rows') = Len(rows)
          /\ \A i \in 1 .. Len(rows) : rows'[i].chain = rows[i].chain /\ rows'[i].time = rows[i].time
        <3> PICK i \in 1 .. Len(rows), c \in Contents \cup {BadShape} :
                rows' = [rows EXCEPT ![i].content = c]
            BY <1>9 DEF Alter
        <3>1. rows[i] \in Rows
            BY DEF TypeOK
        <3>2. PICK e \in Rows : /\ rows' = [rows EXCEPT ![i] = e]
                                /\ e.chain = rows[i].chain /\ e.time = rows[i].time
            <4> DEFINE e == [rows[i] EXCEPT !.content = c]
            <4>1. e \in Rows /\ e.chain = rows[i].chain /\ e.time = rows[i].time
                BY <3>1 DEF Rows
            <4>2. rows' = [rows EXCEPT ![i] = e]
                OBVIOUS
            <4> QED BY <4>1, <4>2
        <3> QED BY <3>2, ExceptSeq DEF TypeOK
    <2> QED BY <1>0, <1>9, <2>1 DEF Alter, Chained, HashesKept, TailCurrent, CommittedIsLast,
                                    PendingExtendsTail, WrittenHash
<1>10. CASE UNCHANGED vars
    BY <1>0, <1>10 DEF vars, Chained, HashesKept, TailCurrent, CommittedIsLast, PendingExtendsTail, WrittenHash
<1> QED BY <1>1, <1>2, <1>3, <1>4, <1>5, <1>6, <1>7, <1>8, <1>9, <1>10 DEF Next

\* In a whole chain a row fails its check exactly when its fields were altered.
LEMMA MismatchIsDamage ==
    ASSUME SoloInv, NEW i \in 1 .. Len(rows)
    PROVE  Mismatch(i) <=> i \in Damaged
<1> USE DEF SoloInv, SharedInv
<1> DEFINE h(k) == [j \in 1 .. k |-> canonical_audit_row(j, written[j].row)]
<1>1. /\ i \in 1 .. Len(written) /\ i \in Nat \ {0}
      /\ rows[i] \in Rows /\ written[i] \in Inserted
    BY DEF TypeOK
<1>2. rows[i].chain = h(i) /\ rows[i].time = written[i].row.time
    BY <1>1 DEF HashesKept, Chained
<1>3. PrevHash(i) = h(i - 1)
    <2>1. CASE i = 1
        BY <2>1 DEF PrevHash, GENESIS_CHAIN_HASH
    <2>2. CASE i # 1
        <3>1. i - 1 \in 1 .. Len(written) /\ i - 1 \in 1 .. Len(rows)
            BY <1>1, <2>2
        <3> QED BY <2>2, <3>1 DEF PrevHash, HashesKept, Chained
    <2> QED BY <2>1, <2>2
<1>4. h(i - 1) \in [1 .. i - 1 -> Canonicals] /\ h(i - 1) \in Hashes /\ i - 1 \in Nat
    <2>1. \A j \in 1 .. i - 1 : canonical_audit_row(j, written[j].row) \in Canonicals
        BY <1>1, WrittenCanonical
    <2> QED BY <1>1, <2>1, SeqDef DEF Hashes
<1>5. h(i) = Append(h(i - 1), canonical_audit_row(i, written[i].row))
    <2>1. canonical_audit_row(i, written[i].row) \in Canonicals
        BY <1>1, WrittenCanonical
    <2>2. Append(h(i - 1), canonical_audit_row(i, written[i].row)) =
            [j \in 1 .. i - 1 + 1 |-> IF j = i - 1 + 1 THEN canonical_audit_row(i, written[i].row)
                                                      ELSE h(i - 1)[j]]
        BY <1>4, <2>1, HistoryGrows
    <2>3. \A j \in 1 .. i : h(i)[j] = IF j = i - 1 + 1 THEN canonical_audit_row(i, written[i].row)
                                                       ELSE h(i - 1)[j]
        BY <1>1
    <2> QED BY <1>1, <2>2, <2>3
<1>6. i \notin Damaged <=> rows[i].content = written[i].row.content
    BY <1>1, <1>2, SMTT(30) DEF Damaged, Rows, Inserted, HashesKept
<1>7. CASE rows[i].content = BadShape
    BY <1>1, <1>6, <1>7, AuditChainAssumption DEF Mismatch, Inserted
<1>8. CASE rows[i].content # BadShape
    <2>1. canonical_audit_row(i, rows[i]) \in Canonicals /\ canonical_audit_row(i, written[i].row) \in Canonicals
        BY <1>1, <1>8, WrittenCanonical DEF Rows, canonical_audit_row, Canonicals
    <2>2. h(i - 1) # BadHash
        BY <1>4, AuditChainAssumption
    <2>3. Mismatch(i) <=> Append(h(i - 1), canonical_audit_row(i, written[i].row))
                            # Append(h(i - 1), canonical_audit_row(i, rows[i]))
        BY <1>2, <1>3, <1>5, <1>8, <2>2 DEF Mismatch, compute_chain_hash
    <2>4. Mismatch(i) <=> canonical_audit_row(i, written[i].row) # canonical_audit_row(i, rows[i])
        BY <2>1, <2>3, <1>4 DEF Hashes
    <2> QED BY <1>2, <1>6, <2>4 DEF canonical_audit_row
<1> QED BY <1>7, <1>8

\* With one serve process per store and stored hashes left alone, a full
\* `audit verify` reports exactly the altered rows, in every reachable state.
THEOREM SoloWalkIsExact ==
    ASSUME \A p, q \in Procs : p = q, "hash" \notin Damage
    PROVE  Spec => []FullWalkIsExact
<1>1. SoloInv => FullWalkIsExact
    BY MismatchIsDamage DEF FullWalkIsExact, walk_chain, Damaged
<1>2. SoloInv /\ [Next]_vars => SoloInv'
    BY SoloStep
<1> QED BY <1>1, <1>2, SoloInit, PTL DEF Spec

\* Every non-empty set of numbers has a least element, and a bounded one a greatest.
LEMMA LeastNatural ==
    ASSUME NEW S, S \subseteq Nat, S # {}
    PROVE  \E n \in S : \A m \in S : n <= m
<1> DEFINE R == {pair \in Nat \X Nat : pair[1] < pair[2]}
<1>1. IsWellFoundedOn(R, Nat)
    BY NatLessThanWellFounded DEF OpToRel
<1>2. \A x, y \in Nat : <<x, y>> \in R <=> x < y
    OBVIOUS
<1> HIDE DEF R
<1>3. PICK x \in S : \A y \in S : <<y, x>> \notin R
    BY <1>1, WFMin
<1>4. \A y \in S : y \in Nat /\ x \in Nat /\ ~(y < x)
    BY <1>2, <1>3
<1>5. \A y \in S : x <= y
    BY <1>4
<1> QED BY <1>5

LEMMA GreatestNatural ==
    ASSUME NEW N \in Nat, NEW S, S \subseteq 0 .. N, S # {}
    PROVE  (CHOOSE n \in S : \A m \in S : m <= n) \in S
<1> DEFINE D == {N - m : m \in S}
<1>1. D \subseteq Nat /\ D # {}
    <2>1. \A m \in S : m \in 0 .. N /\ N - m \in Nat
        OBVIOUS
    <2> QED BY <2>1
<1>2. PICK d \in D : \A e \in D : d <= e
    BY <1>1, LeastNatural
<1>3. PICK n \in S : d = N - n
    BY <1>2
<1>4. \A m \in S : N - n <= N - m
    BY <1>2, <1>3
<1>5. \A m \in S : m \in 0 .. N /\ n \in 0 .. N
    OBVIOUS
<1>6. \A m \in S : m <= n
    BY <1>4, <1>5
<1> QED BY <1>6

\* With one serve process per store and stored hashes left alone, an incremental
\* `audit verify --since` whose threshold resolves to a row reports every altered
\* row recorded since, as long as the clock did not step back between two rows.
THEOREM SoloSinceWalk ==
    ASSUME \A p, q \in Procs : p = q, "hash" \notin Damage
    PROVE  Spec => []SinceWalkCoversThreshold
<1>1. SoloInv => SinceWalkCoversThreshold
    <2> SUFFICES ASSUME SoloInv,
                        \A i, j \in 1 .. Len(rows) : i <= j => rows[i].time <= rows[j].time,
                        NEW threshold \in 0 .. MaxTime,
                        resolve_since_cursor(threshold) # 0,
                        NEW i \in Damaged, rows[i].time >= threshold
                 PROVE  i \in walk_chain(TRUE, resolve_since_cursor(threshold))
        BY DEF SinceWalkCoversThreshold
    <2> DEFINE before == {k \in 1 .. Len(rows) : rows[k].time < threshold}
               cursor == resolve_since_cursor(threshold)
    <2>1. Len(rows) \in Nat /\ i \in 1 .. Len(rows) /\ Mismatch(i)
        BY MismatchIsDamage DEF SoloInv, SharedInv, TypeOK, Damaged
    <2>2. before # {} /\ cursor = CHOOSE k \in before : \A j \in before : j <= k
        BY DEF resolve_since_cursor
    <2>3. cursor \in before
        <3>1. before \subseteq 0 .. Len(rows)
            BY <2>1
        <3> HIDE DEF before, cursor
        <3> QED BY <2>1, <2>2, <3>1, GreatestNatural
    <2>4. cursor < i
        <3>1. cursor \in 1 .. Len(rows) /\ rows[cursor].time < threshold
            BY <2>3
        <3>2. rows[cursor].time \in Nat /\ rows[i].time \in Nat /\ threshold \in Nat
            <4>1. rows[cursor] \in Rows /\ rows[i] \in Rows
                BY <2>1, <3>1 DEF SoloInv, SharedInv, TypeOK
            <4> QED BY <4>1, AuditChainAssumption DEF Rows
        <3> HIDE DEF cursor
        <3>3. CASE i <= cursor
            <4>1. rows[i].time <= rows[cursor].time
                BY <2>1, <3>1, <3>3
            <4> QED BY <3>1, <3>2, <4>1
        <3> QED BY <2>1, <3>1, <3>3
    <2>5. i \in cursor + 1 .. Len(rows)
        BY <2>1, <2>3, <2>4
    <2> QED BY <2>1, <2>5 DEF walk_chain
<1>2. SoloInv /\ [Next]_vars => SoloInv'
    BY SoloStep
<1> QED BY <1>1, <1>2, SoloInit, PTL DEF Spec

-----------------------------------------------------------------------------
(* Any number of serve processes on one store. *)

\* The hash a starting process recovers is the last inserted one.
LEMMA RecoveredTail ==
    ASSUME TypeOK, HashesKeptOrBad, StoredTail # BadHash
    PROVE  StoredTail = WrittenHash(Len(written))
<1>1. Len(rows) \in Nat /\ Len(written) = Len(rows) /\ (rows = <<>> <=> Len(rows) = 0)
    BY DEF TypeOK
<1>2. CASE Len(rows) = 0
    BY <1>1, <1>2 DEF StoredTail, WrittenHash
<1>3. CASE Len(rows) # 0
    BY <1>1, <1>3 DEF StoredTail, WrittenHash, HashesKeptOrBad
<1> QED BY <1>2, <1>3

\* Initially there is no row to link.
LEMMA ForkInit == Init => ForkInv
BY SharedInit DEF Init, ForkInv, OwnRowsLinked, OwnTailCurrent, OwnCommitIsLast, PendingHashesTail,
                  HashesKeptOrBad, Undisturbed, WrittenHash

\* No step links a process's row to anything but the row the process wrote before it,
\* unless another process wrote in between.
LEMMA ForkStep == ForkInv /\ [Next]_vars => ForkInv'
<1> SUFFICES ASSUME ForkInv, [Next]_vars PROVE ForkInv'
    OBVIOUS
<1> USE DEF ForkInv, SharedInv
<1>0. SharedInv'
    BY SharedStep
<1>1. ASSUME NEW p \in Procs, Start(p) PROVE ForkInv'
    <2>1. UNCHANGED <<rows, written, pc, pend>>
        BY <1>1 DEF Start
    <2>2. \A w \in Workers : pc[w] # "idle" => tail'[w[1]] = tail[w[1]]
        BY <1>1 DEF Start, WritersHoldTheLock, Workers, TypeOK
    <2>3. OwnTailCurrent'
        BY <1>1, <2>1, RecoveredTail DEF Start, OwnTailCurrent, Undisturbed, WrittenHash, TypeOK
    <2>4. PendingHashesTail'
        BY <2>1, <2>2 DEF PendingHashesTail
    <2> QED BY <1>0, <2>1, <2>3, <2>4 DEF OwnRowsLinked, OwnCommitIsLast, HashesKeptOrBad,
                                         Undisturbed, WrittenHash
<1>2. ASSUME NEW p \in Procs, Stop(p) PROVE ForkInv'
    BY <1>0, <1>2 DEF Stop, Forget, OwnRowsLinked, OwnTailCurrent, OwnCommitIsLast,
                      PendingHashesTail, HashesKeptOrBad, Undisturbed, Workers, WrittenHash
<1>3. ASSUME NEW p \in Procs, NEW t \in Threads, NEW c \in Contents, Prepare(p, t, c)
      PROVE  ForkInv'
    <2>1. <<p, t>> \in Workers
        BY DEF Workers
    <2>2. /\ pc' = [pc EXCEPT ![<<p, t>>] = "insert"]
          /\ pc[<<p, t>>] = "idle"
          /\ UNCHANGED <<rows, written, audit, tail>>
        BY <1>3 DEF Prepare
    <2>3. PendingHashesTail'
        <3> SUFFICES ASSUME NEW w \in Workers, pc'[w] = "insert"
                     PROVE  pend'[w].chain = compute_chain_hash(tail[w[1]],
                                canonical_audit_row(pend'[w].id, pend'[w]))
            BY <2>2 DEF PendingHashesTail
        <3>1. CASE w = <<p, t>>
            BY <1>3, <2>1, <3>1 DEF Prepare, TypeOK, canonical_audit_row
        <3>2. CASE w # <<p, t>>
            BY <1>3, <2>1, <3>2 DEF Prepare, TypeOK, PendingHashesTail
        <3> QED BY <3>1, <3>2
    <2>4. \A w \in Workers : pc'[w] = "committed" => pc[w] = "committed" /\ pend'[w] = pend[w]
        BY <1>3, <2>1 DEF Prepare, TypeOK
    <2>5. OwnTailCurrent'
        <3>1. \A q \in Procs, u \in Threads : pc[<<q, u>>] = "committed" => pc'[<<q, u>>] = "committed"
            BY <2>2 DEF TypeOK, Workers
        <3> QED BY <2>2, <3>1 DEF OwnTailCurrent, Undisturbed, WrittenHash
    <2> QED BY <1>0, <2>2, <2>3, <2>4, <2>5 DEF OwnRowsLinked, OwnCommitIsLast, HashesKeptOrBad,
                                               Undisturbed, WrittenHash
<1>4. ASSUME NEW p \in Procs, NEW t \in Threads, Commit(p, t) PROVE ForkInv'
    <2> DEFINE r == pend[<<p, t>>]
               n == Len(written)
    <2>1. /\ <<p, t>> \in Workers /\ r \in Pending
          /\ n \in Nat /\ Len(rows) = n /\ lock[p] = t /\ audit[p] = "on"
        BY <1>4 DEF Commit, WritersHoldTheLock, Workers, TypeOK
    <2>2. /\ rows' = Append(rows, StoredRow(r))
          /\ written' = Append(written, [row |-> StoredRow(r), by |-> p])
          /\ r.id = n + 1 /\ pc[<<p, t>>] = "insert"
          /\ pc' = [pc EXCEPT ![<<p, t>>] = "committed"]
          /\ UNCHANGED <<audit, tail, lock, pend>>
        BY <1>4, <2>1 DEF Commit
    <2>3. /\ Len(written') = n + 1 /\ Len(rows') = n + 1
          /\ written'[n + 1] = [row |-> StoredRow(r), by |-> p] /\ rows'[n + 1] = StoredRow(r)
          /\ \A i \in 1 .. n : written'[i] = written[i] /\ rows'[i] = rows[i]
        BY <2>1, <2>2 DEF TypeOK
    <2>4. \A u \in Threads : u # t => pc[<<p, u>>] = "idle"
        BY <2>1 DEF WritersHoldTheLock, Workers
    <2>5. \A i \in 0 .. n : WrittenHash(i)' = WrittenHash(i)
        BY <2>1, <2>3 DEF WrittenHash
    <2>6. OwnRowsLinked'
        <3> SUFFICES ASSUME NEW i \in 1 .. n + 1,
                            i > 1 => written'[i].by = written'[i - 1].by
                     PROVE  written'[i].row.chain = compute_chain_hash(WrittenHash(i - 1)',
                                canonical_audit_row(i, written'[i].row))
            BY <2>3 DEF OwnRowsLinked
        <3>1. CASE i \in 1 .. n
            <4>1. i > 1 => i - 1 \in 1 .. n
                BY <3>1, <2>1
            <4>2. i - 1 \in 0 .. n /\ written'[i] = written[i]
                BY <3>1, <2>1, <2>3
            <4>3. i > 1 => written[i].by = written[i - 1].by
                BY <2>3, <4>1, <4>2
            <4> QED BY <3>1, <2>5, <4>2, <4>3 DEF OwnRowsLinked
        <3>2. CASE i = n + 1
            <4>1. Undisturbed(p)
                BY <3>2, <2>1, <2>3 DEF Undisturbed
            <4>2. \A u \in Threads : pc[<<p, u>>] # "committed"
                BY <2>2, <2>4
            <4>3. tail[p] = WrittenHash(n)
                BY <2>1, <4>1, <4>2 DEF OwnTailCurrent
            <4>4. r.chain = compute_chain_hash(tail[p], canonical_audit_row(r.id, r))
                BY <2>1, <2>2 DEF PendingHashesTail
            <4>5. WrittenHash(i - 1)' = WrittenHash(n)
                BY <3>2, <2>1, <2>5
            <4> QED BY <3>2, <2>2, <2>3, <4>3, <4>4, <4>5 DEF canonical_audit_row, StoredRow
        <3> QED BY <3>1, <3>2, <2>1
    <2>7. OwnTailCurrent'
        <3>1. \A q \in Procs : Undisturbed(q)' => q = p
            BY <2>1, <2>3 DEF Undisturbed
        <3>2. pc'[<<p, t>>] = "committed"
            BY <2>1, <2>2 DEF TypeOK
        <3> QED BY <3>1, <3>2 DEF OwnTailCurrent
    <2>8. OwnCommitIsLast'
        <3> SUFFICES ASSUME NEW w \in Workers, pc'[w] = "committed", Undisturbed(w[1])'
                     PROVE  pend[w].id = n + 1
            BY <2>2, <2>3 DEF OwnCommitIsLast
        <3>1. w[1] = p
            BY <2>1, <2>3 DEF Undisturbed
        <3>2. w = <<p, t>>
            BY <2>1, <2>2, <2>4, <3>1 DEF Workers, TypeOK
        <3> QED BY <2>2, <3>2
    <2>9. PendingHashesTail' /\ HashesKeptOrBad'
        <3>1. PendingHashesTail'
            BY <2>1, <2>2 DEF TypeOK, PendingHashesTail
        <3>2. HashesKeptOrBad'
            BY <2>1, <2>3 DEF HashesKeptOrBad
        <3> QED BY <3>1, <3>2
    <2> QED BY <1>0, <2>6, <2>7, <2>8, <2>9
<1>5. ASSUME NEW p \in Procs, NEW t \in Threads, InsertFails(p, t) PROVE ForkInv'
    <2>1. <<p, t>> \in Workers /\ pc[<<p, t>>] = "insert"
        BY <1>5 DEF Workers, InsertFails
    <2>2. \A w \in Workers : pc'[w] # "idle" => pc'[w] = pc[w] /\ pend'[w] = pend[w]
        BY <1>5, <2>1 DEF InsertFails, Release, TypeOK
    <2>3. \A w \in Workers : pc[w] = "committed" => pc'[w] = "committed"
        BY <1>5, <2>1 DEF InsertFails, Release, TypeOK
    <2>4. UNCHANGED <<rows, written, audit, tail>>
        BY <1>5 DEF InsertFails
    <2>5. OwnTailCurrent'
        BY <2>3, <2>4 DEF OwnTailCurrent, Undisturbed, WrittenHash, Workers
    <2> QED BY <1>0, <2>2, <2>4, <2>5 DEF OwnRowsLinked, OwnCommitIsLast, PendingHashesTail,
                                         HashesKeptOrBad, Undisturbed, WrittenHash
<1>6. ASSUME NEW p \in Procs, NEW t \in Threads, Return(p, t) PROVE ForkInv'
    <2>1. <<p, t>> \in Workers /\ pend[<<p, t>>] \in Pending /\ pc[<<p, t>>] = "committed" /\ lock[p] = t
        BY <1>6 DEF Return, WritersHoldTheLock, Workers
    <2>2. \A u \in Threads : u # t => pc[<<p, u>>] = "idle"
        BY <2>1 DEF WritersHoldTheLock, Workers
    <2>3. /\ UNCHANGED <<rows, written, audit>>
          /\ tail' = [tail EXCEPT ![p] = pend[<<p, t>>].chain]
          /\ pc' = [pc EXCEPT ![<<p, t>>] = "idle"]
          /\ pend' = [pend EXCEPT ![<<p, t>>] = <<>>]
        BY <1>6 DEF Return, Release
    <2>4. \A w \in Workers : pc'[w] # "idle" =>
              w[1] # p /\ pc'[w] = pc[w] /\ pend'[w] = pend[w] /\ tail'[w[1]] = tail[w[1]]
        BY <2>1, <2>2, <2>3 DEF TypeOK, Workers
    <2>5. Undisturbed(p) => tail'[p] = WrittenHash(Len(written))
        <3> SUFFICES ASSUME Undisturbed(p) PROVE tail'[p] = WrittenHash(Len(written))
            OBVIOUS
        <3>1. pend[<<p, t>>].id = Len(written) /\ Len(written) # 0
            BY <2>1 DEF OwnCommitIsLast, Pending, TypeOK, Workers
        <3>2. written[Len(written)].row = StoredRow(pend[<<p, t>>])
            BY <2>1, <3>1 DEF CommittedIsWritten
        <3> QED BY <2>3, <3>1, <3>2 DEF WrittenHash, StoredRow, TypeOK
    <2>6. OwnTailCurrent'
        <3>1. \A q \in Procs, u \in Threads :
                q # p => pc'[<<q, u>>] = pc[<<q, u>>] /\ tail'[q] = tail[q]
            BY <2>3 DEF TypeOK, Workers
        <3>2. UNCHANGED WrittenHash(Len(written)) /\ \A q \in Procs : Undisturbed(q)' <=> Undisturbed(q)
            BY <2>3 DEF WrittenHash, Undisturbed
        <3> SUFFICES ASSUME NEW q \in Procs, audit[q] = "on", Undisturbed(q),
                            \A u \in Threads : pc'[<<q, u>>] # "committed"
                     PROVE  tail'[q] = WrittenHash(Len(written))
            BY <2>3, <3>2 DEF OwnTailCurrent
        <3>3. CASE q = p
            BY <2>5, <3>3
        <3>4. CASE q # p
            <4>1. tail'[q] = tail[q]
                BY <2>3, <3>4 DEF TypeOK
            <4>2. \A u \in Threads : pc[<<q, u>>] # "committed"
                BY <3>1, <3>4
            <4> QED BY <4>1, <4>2 DEF OwnTailCurrent
        <3> QED BY <3>3, <3>4
    <2>7. PendingHashesTail'
        BY <2>4 DEF PendingHashesTail
    <2>8. OwnCommitIsLast'
        BY <2>3, <2>4 DEF OwnCommitIsLast, Undisturbed
    <2> QED BY <1>0, <2>3, <2>6, <2>7, <2>8 DEF OwnRowsLinked, HashesKeptOrBad, WrittenHash
<1>7. CASE Checkpoint \/ Tick \/ StepBack
    BY <1>0, <1>7 DEF Checkpoint, Tick, StepBack, OwnRowsLinked, OwnTailCurrent, OwnCommitIsLast,
                      PendingHashesTail, HashesKeptOrBad, Undisturbed, WrittenHash
<1>8. CASE PowerLoss
    <2> PICK n \in synced .. Len(rows) :
            rows' = SubSeq(rows, 1, n) /\ written' = SubSeq(written, 1, n)
        BY <1>8 DEF PowerLoss
    <2>1. n \in 0 .. Len(rows) /\ n \in Nat /\ Len(written) = Len(rows)
        BY DEF TypeOK
    <2>2. /\ Len(rows') = n /\ Len(written') = n
          /\ \A i \in 1 .. n : rows'[i] = rows[i] /\ written'[i] = written[i]
        BY <2>1, PrefixType
    <2>3. /\ \A w \in Workers : pc'[w] = "idle"
          /\ \A p \in Procs : audit'[p] = "down"
        BY <1>8 DEF PowerLoss, Forget, Workers
    <2>4. OwnRowsLinked'
        <3> SUFFICES ASSUME NEW i \in 1 .. n,
                            i > 1 => written'[i].by = written'[i - 1].by
                     PROVE  written'[i].row.chain = compute_chain_hash(WrittenHash(i - 1)',
                                canonical_audit_row(i, written'[i].row))
            BY <2>2 DEF OwnRowsLinked
        <3>1. i \in 1 .. Len(written) /\ (i > 1 => i - 1 \in 1 .. n) /\ (i # 1 => i > 1)
            BY <2>1
        <3>2. WrittenHash(i - 1)' = WrittenHash(i - 1)
            BY <2>2, <3>1 DEF WrittenHash
        <3>3. i > 1 => written[i].by = written[i - 1].by
            BY <2>2, <3>1
        <3> QED BY <2>2, <3>1, <3>2, <3>3 DEF OwnRowsLinked
    <2>5. HashesKeptOrBad'
        BY <2>1, <2>2 DEF HashesKeptOrBad
    <2> QED BY <1>0, <2>3, <2>4, <2>5 DEF OwnTailCurrent, OwnCommitIsLast, PendingHashesTail
<1>9. CASE Alter
    <2>1. /\ Len(rows') = Len(rows)
          /\ \A i \in 1 .. Len(rows) : rows'[i].chain \in {rows[i].chain, BadHash}
        <3> PICK i \in 1 .. Len(rows) :
                \/ \E c \in Contents : rows' = [rows EXCEPT ![i].content = c]
                \/ rows' = [rows EXCEPT ![i].content = BadShape]
                \/ rows' = [rows EXCEPT ![i].chain = BadHash]
            BY <1>9 DEF Alter
        <3>1. rows[i] \in Rows
            BY DEF TypeOK
        <3>2. PICK e \in Rows : /\ rows' = [rows EXCEPT ![i] = e]
                                /\ e.chain \in {rows[i].chain, BadHash}
            <4>1. \A c \in Contents \cup {BadShape} :
                    LET e == [rows[i] EXCEPT !.content = c]
                    IN  e \in Rows /\ e.chain = rows[i].chain
                BY <3>1 DEF Rows
            <4>2. LET e == [rows[i] EXCEPT !.chain = BadHash]
                  IN  e \in Rows /\ e.chain = BadHash
                BY <3>1 DEF Rows, Hash32OrBad
            <4>3. CASE \E c \in Contents \cup {BadShape} : rows' = [rows EXCEPT ![i].content = c]
                BY <4>1, <4>3
            <4>4. CASE rows' = [rows EXCEPT ![i].chain = BadHash]
                BY <4>2, <4>4
            <4> QED BY <4>3, <4>4
        <3> QED BY <3>2, ExceptSeq DEF TypeOK
    <2>2. HashesKeptOrBad'
        BY <1>9, <2>1 DEF Alter, HashesKeptOrBad
    <2> QED BY <1>0, <1>9, <2>2 DEF Alter, OwnRowsLinked, OwnTailCurrent, OwnCommitIsLast,
                                    PendingHashesTail, Undisturbed, WrittenHash
<1>10. CASE UNCHANGED vars
    BY <1>0, <1>10 DEF vars, OwnRowsLinked, OwnTailCurrent, OwnCommitIsLast, PendingHashesTail,
                       HashesKeptOrBad, Undisturbed, WrittenHash
<1> QED BY <1>1, <1>2, <1>3, <1>4, <1>5, <1>6, <1>7, <1>8, <1>9, <1>10 DEF Next

\* However many processes share the store and whatever is done to the file, `audit
\* verify` blames an undamaged row that follows an undamaged row only where two
\* processes wrote one after the other.
THEOREM ForksBetweenProcesses == Spec => []ForksOnlyBetweenProcesses
<1>1. ForkInv => ForksOnlyBetweenProcesses
    <2> SUFFICES ASSUME ForkInv, NEW i \in walk_chain(TRUE, 0), {i - 1, i} \cap Damaged = {}
                 PROVE  i > 1 /\ written[i].by # written[i - 1].by
        BY DEF ForksOnlyBetweenProcesses
    <2> USE DEF ForkInv, SharedInv
    <2>1. /\ i \in 1 .. Len(rows) /\ Mismatch(i) /\ Len(rows) \in Nat /\ Len(written) = Len(rows)
          /\ rows[i] = written[i].row /\ written[i] \in Inserted
        BY DEF walk_chain, Damaged, TypeOK
    <2>2. i > 1 => rows[i - 1] = written[i - 1].row
        BY <2>1 DEF Damaged
    <2>3. PrevHash(i) = WrittenHash(i - 1)
        BY <2>1, <2>2 DEF PrevHash, WrittenHash
    <2>4. rows[i].content # BadShape
        BY <2>1, AuditChainAssumption DEF Inserted
    <2>5. written[i].row.chain #
            compute_chain_hash(WrittenHash(i - 1), canonical_audit_row(i, written[i].row))
        BY <2>1, <2>3, <2>4 DEF Mismatch
    <2> QED BY <2>1, <2>5 DEF OwnRowsLinked
<1> QED BY <1>1, ForkInit, ForkStep, PTL DEF Spec

-----------------------------------------------------------------------------
(* The table implements the append-only log of AuditLog. *)

\* Cutting a history of canonical rows gives the shorter history.
LEMMA HistoryCut ==
    ASSUME NEW m \in Nat, NEW f \in [1 .. m -> Canonicals], NEW n \in 0 .. m
    PROVE  SubSeq(f, 1, n) = [j \in 1 .. n |-> f[j]]
<1>1. f \in Seq(Canonicals) /\ Len(f) = m
    BY SeqDef
<1>2. n \in Nat /\ \A i \in 1 .. n : f[i] \in Canonicals
    OBVIOUS
<1>3. /\ SubSeq(f, 1, n) \in Seq(Canonicals)
      /\ Len(SubSeq(f, 1, n)) = n
      /\ \A i \in 1 .. n : SubSeq(f, 1, n)[i] = f[i]
    BY <1>1, <1>2, SubSeqProperties
<1> QED BY <1>2, <1>3, LenProperties

\* The clock's bound holds initially and after every step.
LEMMA ClockInit == Init => ClockBounded
BY AuditChainAssumption DEF Init, ClockBounded

LEMMA ClockStep == TypeOK /\ ClockBounded /\ [Next]_vars => ClockBounded'
<1> SUFFICES ASSUME TypeOK, ClockBounded, [Next]_vars PROVE ClockBounded'
    OBVIOUS
<1> USE AuditChainAssumption DEF TypeOK, ClockBounded
<1>1. ASSUME NEW p \in Procs, NEW t \in Threads, NEW c \in Contents, Prepare(p, t, c)
      PROVE  ClockBounded'
    BY <1>1 DEF Prepare, Workers
<1>2. ASSUME NEW p \in Procs, NEW t \in Threads, Commit(p, t) PROVE ClockBounded'
    BY <1>2 DEF Commit, Workers
<1>3. ASSUME NEW p \in Procs, NEW t \in Threads, InsertFails(p, t) \/ Return(p, t)
      PROVE  ClockBounded'
    BY <1>3 DEF InsertFails, Return, Release, Workers
<1>4. ASSUME NEW p \in Procs, Start(p) PROVE ClockBounded'
    BY <1>4 DEF Start
<1>5. ASSUME NEW p \in Procs, Stop(p) PROVE ClockBounded'
    BY <1>5 DEF Stop, Forget, Workers
<1>6. CASE PowerLoss
    BY <1>6 DEF PowerLoss, Forget, Workers
<1>7. CASE Checkpoint \/ Tick \/ StepBack \/ Alter \/ UNCHANGED vars
    BY <1>7 DEF Checkpoint, Tick, StepBack, Alter, vars
<1> QED BY <1>1, <1>2, <1>3, <1>4, <1>5, <1>6, <1>7 DEF Next

\* The stored tail commits to every inserted row.
HeadIsHistory ==
    StoredTail = [j \in 1 .. Len(written) |-> canonical_audit_row(j, written[j].row)]

LEMMA SoloHead == SoloInv => HeadIsHistory
BY StoredIsWritten, LastHash DEF SoloInv, SharedInv, HeadIsHistory

\* With one serve process and stored hashes left alone, the table is an append-only
\* log: a commit appends one entry with the next id and a hash over the whole log, a
\* power failure cuts a suffix, and no other step of a writer, of the clock or of an
\* edit of row contents shows.
THEOREM SoloImplementsLog ==
    ASSUME \A p, q \in Procs : p = q, "hash" \notin Damage
    PROVE  Spec => ImplementsLog
<1> DEFINE h == [j \in 1 .. Len(written) |-> canonical_audit_row(j, written[j].row)]
           LogInv == SoloInv /\ ClockBounded
<1>1. Init => Log!Init
    BY DEF Init, Log!Init, StoredTail, GENESIS_CHAIN_HASH
<1>2. ASSUME SoloInv PROVE StoredTail = h /\ h \in [1 .. Len(written) -> Canonicals] /\ Len(written) \in Nat
    BY <1>2, StoredIsWritten, LastHash, WrittenCanonical DEF SoloInv, SharedInv, TypeOK
<1>3. ASSUME LogInv, [Next]_vars PROVE [Log!Next]_(Log!vars)
    <2>1. SoloInv'
        BY <1>3, SoloStep
    <2>2. StoredTail' = h' /\ StoredTail = h
        <3>1. HeadIsHistory'
            BY <2>1, SoloHead, PTL
        <3> QED BY <1>2, <1>3, <3>1 DEF HeadIsHistory
    <2>3. ASSUME NEW p \in Procs, NEW t \in Threads, Commit(p, t) PROVE Log!Next
        <3> DEFINE r == pend[<<p, t>>]
                   n == Len(written)
                   c == <<n + 1, r.time, r.content>>
        <3>1. /\ r \in Pending /\ r.time <= MaxTime /\ n \in Nat /\ Len(rows) = n
            BY <1>3, <2>3 DEF Commit, SoloInv, SharedInv, TypeOK, WritersHoldTheLock, ClockBounded, Workers
        <3>2. /\ Len(written') = n + 1
              /\ written'[n + 1].row = StoredRow(r)
              /\ \A i \in 1 .. n : written'[i] = written[i]
            BY <1>3, <2>3, <3>1 DEF Commit, SoloInv, SharedInv, TypeOK
        <3>3. c \in Canonicals
            BY <3>1 DEF Canonicals, Pending
        <3>4. Append(h, c) = [j \in 1 .. n + 1 |-> IF j = n + 1 THEN c ELSE h[j]]
            <4> HIDE DEF c, h, n
            <4> QED BY <1>2, <1>3, <3>1, <3>3, HistoryGrows DEF n
        <3>5. \A j \in 1 .. n + 1 : canonical_audit_row(j, written'[j].row) = IF j = n + 1 THEN c ELSE h[j]
            BY <3>1, <3>2 DEF canonical_audit_row, StoredRow
        <3>6. h' = Append(h, c)
            BY <3>2, <3>4, <3>5
        <3>7. Len(h) = n
            BY <3>1
        <3>8. <<r.time, r.content>> \in (0 .. MaxTime) \X Contents
            BY <3>1, AuditChainAssumption DEF Pending
        <3>9. Log!Record(<<r.time, r.content>>)
            BY <2>2, <3>6, <3>7 DEF Log!Record
        <3> QED BY <3>8, <3>9 DEF Log!Next
    <2>4. CASE PowerLoss
        <3> PICK n \in synced .. Len(rows) :
                rows' = SubSeq(rows, 1, n) /\ written' = SubSeq(written, 1, n)
            BY <2>4 DEF PowerLoss
        <3>1. n \in 0 .. Len(written) /\ n \in 0 .. Len(rows)
            BY <1>3 DEF SoloInv, SharedInv, TypeOK
        <3>2. Len(written') = n /\ \A i \in 1 .. n : written'[i] = written[i]
            BY <1>3, <3>1, PrefixType DEF SoloInv, SharedInv
        <3>3. h' = [j \in 1 .. n |-> h[j]]
            BY <3>1, <3>2
        <3>4. SubSeq(h, 1, n) = h' /\ Len(h) = Len(written)
            <4> HIDE DEF h
            <4> QED BY <1>2, <1>3, <3>1, <3>3, HistoryCut
        <3>5. Log!LoseSuffix
            BY <2>2, <3>1, <3>4 DEF Log!LoseSuffix
        <3> QED BY <3>5 DEF Log!Next
    <2>5. CASE written' = written
        BY <2>2, <2>5 DEF Log!vars
    <2>6. ASSUME NEW p \in Procs, NEW t \in Threads, NEW c \in Contents, Prepare(p, t, c)
          PROVE  written' = written
        BY <2>6 DEF Prepare
    <2> QED BY <1>3, <2>3, <2>4, <2>5, <2>6
            DEF Next, Start, Stop, InsertFails, Return, Checkpoint, Tick, StepBack, Alter, vars
<1>4. LogInv /\ [Next]_vars => LogInv'
    BY SoloStep, ClockStep DEF SoloInv, SharedInv
<1>5. Init => LogInv
    BY SoloInit, ClockInit
<1> HIDE DEF LogInv
<1> QED BY <1>1, <1>3, <1>4, <1>5, PTL DEF Spec, ImplementsLog, Log!Spec

-----------------------------------------------------------------------------
(* EventTail: parsing *)

\* What holds of 0 and of n + 1 when it holds of n holds up to N.
LEMMA UpTo ==
    ASSUME NEW N \in Nat, NEW S, 0 \in S,
           \A n \in 0 .. N - 1 : n \in S => n + 1 \in S
    PROVE  \A n \in 0 .. N : n \in S
<1> DEFINE Bad == {n \in 0 .. N : n \notin S}
<1>1. SUFFICES ASSUME Bad # {} PROVE FALSE
    OBVIOUS
<1>2. PICK n \in Bad : \A m \in Bad : n <= m
    <2>1. Bad \subseteq Nat
        OBVIOUS
    <2> HIDE DEF Bad
    <2> QED BY <1>1, <2>1, LeastNatural
<1>3. n # 0 /\ n \in 0 .. N
    BY <1>2
<1>4. n - 1 \in 0 .. N - 1 /\ n - 1 \notin Bad
    BY <1>2, <1>3
<1>5. n - 1 \in S
    BY <1>4
<1> QED BY <1>2, <1>3, <1>4, <1>5

\* Position n of s yields an event.
Yields(s, n, since) == EndsWholeLine(s, n) /\ s[n][1] >= since

\* f holds what was parsed of s, by the number of tokens read, up to N.
AreParsed(f, s, N, since) ==
    f = [n \in 0 .. N |->
            IF n = 0 THEN <<>>
            ELSE IF EndsWholeLine(s, n) /\ s[n][1] >= since
            THEN Append(f[n - 1], s[n][1])
            ELSE f[n - 1]]

Parsed(s, since) == CHOOSE f : AreParsed(f, s, Len(s), since)

LEMMA ParseIsLast ==
    ASSUME NEW s, NEW since
    PROVE  Parse(s, since) = Parsed(s, since)[Len(s)]
BY DEF Parse, Parsed, AreParsed

LEMMA ParsedExist ==
    ASSUME NEW s, NEW since, NEW N \in Nat
    PROVE  \E f : AreParsed(f, s, N, since)
<1> DEFINE S == {n \in Nat : \E f : AreParsed(f, s, n, since)}
<1>1. 0 \in S
    <2>1. AreParsed([i \in 0 .. 0 |-> <<>>], s, 0, since)
        BY DEF AreParsed
    <2> QED BY <2>1
<1>2. ASSUME NEW n \in 0 .. N - 1, n \in S PROVE n + 1 \in S
    <2>1. PICK f : AreParsed(f, s, n, since)
        BY <1>2
    <2> DEFINE top == IF Yields(s, n + 1, since) THEN Append(f[n], s[n + 1][1]) ELSE f[n]
               g == [i \in 0 .. n + 1 |-> IF i = n + 1 THEN top ELSE f[i]]
    <2>2. ASSUME NEW i \in 0 .. n + 1
          PROVE  g[i] = IF i = 0 THEN <<>>
                        ELSE IF Yields(s, i, since) THEN Append(g[i - 1], s[i][1]) ELSE g[i - 1]
        <3>1. CASE i = n + 1
            <4>1. i # 0 /\ i - 1 = n /\ n \in 0 .. n + 1 /\ n # n + 1
                BY <3>1
            <4>2. g[i - 1] = f[n] /\ g[i] = top
                BY <3>1, <4>1
            <4> HIDE DEF g
            <4> QED BY <3>1, <4>1, <4>2
        <3>2. CASE i # n + 1
            <4>1. i \in 0 .. n /\ g[i] = f[i] /\ (i # 0 => i - 1 \in 0 .. n /\ g[i - 1] = f[i - 1])
                BY <3>2
            <4>2. f[i] = IF i = 0 THEN <<>>
                         ELSE IF Yields(s, i, since) THEN Append(f[i - 1], s[i][1]) ELSE f[i - 1]
                BY <2>1, <4>1 DEF AreParsed, Yields
            <4> HIDE DEF g
            <4> QED BY <4>1, <4>2
        <3> QED BY <3>1, <3>2
    <2>3. g = [i \in 0 .. n + 1 |-> g[i]]
        OBVIOUS
    <2> HIDE DEF g
    <2>4. AreParsed(g, s, n + 1, since)
        BY <2>2, <2>3 DEF AreParsed, Yields
    <2> QED BY <2>4
<1> HIDE DEF S
<1>3. N \in S
    BY <1>1, <1>2, UpTo
<1> QED BY <1>3 DEF S

LEMMA ParsedStep ==
    ASSUME NEW s \in Seq(Tokens), NEW since
    PROVE  /\ Parsed(s, since)[0] = <<>>
           /\ \A n \in 1 .. Len(s) :
                 Parsed(s, since)[n] = IF Yields(s, n, since)
                                       THEN Append(Parsed(s, since)[n - 1], s[n][1])
                                       ELSE Parsed(s, since)[n - 1]
<1>1. Len(s) \in Nat
    OBVIOUS
<1>2. \E f : AreParsed(f, s, Len(s), since)
    BY <1>1, ParsedExist
<1>3. AreParsed(Parsed(s, since), s, Len(s), since)
    BY <1>2 DEF Parsed
<1>4. \A n \in 0 .. Len(s) :
          Parsed(s, since)[n] = IF n = 0 THEN <<>>
                                ELSE IF Yields(s, n, since)
                                THEN Append(Parsed(s, since)[n - 1], s[n][1])
                                ELSE Parsed(s, since)[n - 1]
    BY <1>3 DEF AreParsed, Yields
<1>5. 0 \in 0 .. Len(s) /\ \A n \in 1 .. Len(s) : n \in 0 .. Len(s) /\ n # 0
    BY <1>1
<1> QED BY <1>4, <1>5

LEMMA TokenTypes ==
    ASSUME NEW s \in Seq(Tokens), NEW n \in 1 .. Len(s)
    PROVE  s[n][1] \in Events /\ s[n][2] \in {"body", "eol"} /\ s[n] = <<s[n][1], s[n][2]>>
<1>1. s[n] \in Tokens
    OBVIOUS
<1> QED BY <1>1 DEF Tokens

\* What is parsed is a sequence of events, whatever was read.
LEMMA ParsedType ==
    ASSUME NEW s \in Seq(Tokens), NEW since
    PROVE  \A n \in 0 .. Len(s) : Parsed(s, since)[n] \in Seq(Events)
<1> DEFINE P(n) == Parsed(s, since)[n]
           S == {n \in Nat : n <= Len(s) => P(n) \in Seq(Events)}
<1>0. Len(s) \in Nat
    OBVIOUS
<1>1. 0 \in S
    <2>1. P(0) = <<>>
        BY ParsedStep
    <2>2. <<>> \in Seq(Events)
        OBVIOUS
    <2>3. P(0) \in Seq(Events)
        BY <2>1, <2>2, Zenon
    <2> QED BY <2>3
<1>2. ASSUME NEW n \in 0 .. Len(s) - 1, n \in S PROVE n + 1 \in S
    <2>1. n + 1 \in 1 .. Len(s) /\ n + 1 - 1 = n /\ P(n) \in Seq(Events) /\ n + 1 \in Nat
        BY <1>0, <1>2
    <2>2. s[n + 1][1] \in Events
        BY <2>1, TokenTypes
    <2>3. P(n + 1) = IF Yields(s, n + 1, since) THEN Append(P(n), s[n + 1][1]) ELSE P(n)
        BY <2>1, ParsedStep
    <2>4. \A x \in Seq(Events) : \A e \in Events : Append(x, e) \in Seq(Events)
        OBVIOUS
    <2> HIDE DEF P
    <2>5. P(n + 1) \in Seq(Events)
        BY <2>1, <2>2, <2>3, <2>4, Zenon
    <2> QED BY <2>1, <2>5
<1> HIDE DEF S
<1>3. \A n \in 0 .. Len(s) : n \in S
    BY <1>0, <1>1, <1>2, UpTo
<1> QED BY <1>3 DEF S

LEMMA AppendOfConcat ==
    ASSUME NEW S, NEW a \in Seq(S), NEW b \in Seq(S), NEW e \in S
    PROVE  Append(a \o b, e) = a \o Append(b, e)
<1>1. /\ a \o b \in Seq(S) /\ Append(b, e) \in Seq(S)
      /\ Append(a \o b, e) \in Seq(S) /\ a \o Append(b, e) \in Seq(S)
    OBVIOUS
<1>2. Len(Append(a \o b, e)) = Len(a \o Append(b, e))
    OBVIOUS
<1>3. \A i \in 1 .. Len(Append(a \o b, e)) : Append(a \o b, e)[i] = (a \o Append(b, e))[i]
    OBVIOUS
<1> QED BY <1>1, <1>2, <1>3, SeqEqual

LEMMA ParseType ==
    ASSUME NEW s \in Seq(Tokens), NEW since
    PROVE  Parse(s, since) \in Seq(Events)
BY ParsedType, ParseIsLast

\* s is empty or ends a line.
Closed(s) == s = <<>> \/ s[Len(s)][2] = "eol"

\* Lines do not reach across the end of a line.
LEMMA ParseOfConcat ==
    ASSUME NEW a \in Seq(Tokens), NEW b \in Seq(Tokens), NEW since, Closed(a)
    PROVE  Parse(a \o b, since) = Parse(a, since) \o Parse(b, since)
<1> DEFINE ab == a \o b
<1>1. /\ ab \in Seq(Tokens) /\ Len(ab) = Len(a) + Len(b)
      /\ \A i \in 1 .. Len(a) : ab[i] = a[i]
      /\ \A i \in 1 .. Len(b) : ab[Len(a) + i] = b[i]
    BY ConcatProperties
<1>2. Len(a) \in Nat /\ Len(b) \in Nat
    OBVIOUS
<1> HIDE DEF ab
<1>0. Len(ab) \in Nat /\ \A n \in 0 .. Len(a) : n \in 0 .. Len(ab)
    BY <1>1, <1>2
<1>3. \A n \in 0 .. Len(a) : Parsed(ab, since)[n] = Parsed(a, since)[n]
    <2> DEFINE S == {n \in Nat : n <= Len(a) => Parsed(ab, since)[n] = Parsed(a, since)[n]}
    <2>1. 0 \in S
        BY <1>1, ParsedStep
    <2>2. ASSUME NEW n \in 0 .. Len(a) - 1, n \in S PROVE n + 1 \in S
        <3>1. n + 1 \in 1 .. Len(a) /\ n + 1 \in 1 .. Len(ab) /\ n + 1 - 1 = n
            BY <1>1, <1>2
        <3>2. /\ ab[n + 1] = a[n + 1]
              /\ n + 1 > 1 => ab[n + 1 - 1] = a[n + 1 - 1]
              /\ n + 1 > 2 => ab[n + 1 - 2] = a[n + 1 - 2]
            <4>1. \A i \in {n + 1, n + 1 - 1, n + 1 - 2} : i >= 1 => i \in 1 .. Len(a)
                BY <1>2, <3>1
            <4>2. \A i \in {n + 1, n + 1 - 1, n + 1 - 2} : i >= 1 => ab[i] = a[i]
                BY <1>1, <4>1
            <4>3. n + 1 >= 1 /\ (n + 1 > 1 => n + 1 - 1 >= 1) /\ (n + 1 > 2 => n + 1 - 2 >= 1)
                BY <3>1
            <4> QED BY <4>2, <4>3
        <3>3. Yields(ab, n + 1, since) = Yields(a, n + 1, since)
            BY <3>1, <3>2 DEF Yields, EndsWholeLine
        <3>4. Parsed(ab, since)[n] = Parsed(a, since)[n]
            BY <2>2, <3>1
        <3>5. Parsed(ab, since)[n + 1] = Parsed(a, since)[n + 1]
            BY <1>1, <3>1, <3>2, <3>3, <3>4, ParsedStep
        <3> QED BY <3>5
    <2> HIDE DEF S
    <2>3. \A n \in 0 .. Len(a) : n \in S
        BY <1>2, <2>1, <2>2, UpTo
    <2> QED BY <2>3 DEF S
<1>4. \A n \in 0 .. Len(b) :
          Parsed(ab, since)[Len(a) + n] = Parsed(a, since)[Len(a)] \o Parsed(b, since)[n]
    <2> DEFINE P == Parsed(a, since)[Len(a)]
               S == {n \in Nat : n <= Len(b) => Parsed(ab, since)[Len(a) + n] = P \o Parsed(b, since)[n]}
    <2>0. P \in Seq(Events)
        BY <1>2, ParsedType
    <2>1. 0 \in S
        <3>1. Parsed(ab, since)[Len(a) + 0] = P
            BY <1>2, <1>3
        <3>2. Parsed(b, since)[0] = <<>>
            BY ParsedStep
        <3>3. P \o <<>> = P
            BY <2>0, ConcatEmptySeq
        <3> QED BY <3>1, <3>2, <3>3
    <2>2. ASSUME NEW n \in 0 .. Len(b) - 1, n \in S PROVE n + 1 \in S
        <3> DEFINE k == Len(a) + (n + 1)
        <3>1. n + 1 \in 1 .. Len(b) /\ k \in 1 .. Len(ab) /\ n + 1 - 1 = n /\ k - 1 = Len(a) + n
            BY <1>1, <1>2
        <3>2. ab[k] = b[n + 1] /\ b[n + 1][2] \in {"body", "eol"}
            BY <1>1, <3>1, TokenTypes
        <3>3. Yields(ab, k, since) = Yields(b, n + 1, since)
            <4>1. CASE n = 0
                <5>1. a # <<>> => ab[k - 1] = a[Len(a)] /\ a[Len(a)][2] = "eol"
                    BY <1>1, <1>2, <3>1, <4>1 DEF Closed
                <5>2. a = <<>> => k = 1
                    BY <4>1
                <5>3. ~EndsWholeLine(ab, k)
                    BY <3>1, <5>1, <5>2 DEF EndsWholeLine
                <5>4. ~EndsWholeLine(b, n + 1)
                    BY <4>1 DEF EndsWholeLine
                <5> QED BY <5>3, <5>4 DEF Yields
            <4>2. CASE n = 1
                <5>1. ab[k - 1] = b[n + 1 - 1] /\ k > 1 /\ k - 2 = Len(a)
                    BY <1>1, <1>2, <3>1, <4>2
                <5>2. a # <<>> => ab[k - 2] = a[Len(a)] /\ a[Len(a)][2] = "eol"
                    <6>1. a # <<>> => Len(a) \in 1 .. Len(a)
                        BY EmptySeq
                    <6> QED BY <1>1, <5>1, <6>1 DEF Closed
                <5>3. k > 2 => a # <<>>
                    BY <4>2
                <5>4. n + 1 > 1 /\ ~(n + 1 > 2)
                    BY <4>2
                <5>5. EndsWholeLine(ab, k) = EndsWholeLine(b, n + 1)
                    BY <3>2, <5>1, <5>2, <5>3, <5>4 DEF EndsWholeLine
                <5> QED BY <3>2, <5>5 DEF Yields
            <4>3. CASE n > 1
                <5>1. /\ ab[k - 1] = b[n + 1 - 1] /\ ab[k - 2] = b[n + 1 - 2]
                      /\ k > 2 /\ k > 1 /\ n + 1 > 1 /\ n + 1 > 2
                    <6>1. n \in 1 .. Len(b) /\ n - 1 \in 1 .. Len(b)
                        BY <4>3
                    <6>2. /\ k - 1 = Len(a) + n /\ k - 2 = Len(a) + (n - 1)
                          /\ n + 1 - 1 = n /\ n + 1 - 2 = n - 1 /\ k > 2 /\ k > 1 /\ n + 1 > 2
                        BY <1>2, <4>3
                    <6>3. ab[Len(a) + n] = b[n] /\ ab[Len(a) + (n - 1)] = b[n - 1]
                        BY <1>1, <6>1
                    <6> HIDE DEF k
                    <6>4. ab[k - 1] = b[n + 1 - 1] /\ ab[k - 2] = b[n + 1 - 2]
                        BY <6>2, <6>3
                    <6> QED BY <6>2, <6>4
                <5>2. EndsWholeLine(ab, k) = EndsWholeLine(b, n + 1)
                    BY <3>2, <5>1 DEF EndsWholeLine
                <5> QED BY <3>2, <5>2 DEF Yields
            <4> QED BY <4>1, <4>2, <4>3
        <3>4. Parsed(ab, since)[k - 1] = P \o Parsed(b, since)[n]
            <4>1. n <= Len(b)
                BY <1>2
            <4>2. Parsed(ab, since)[Len(a) + n] = P \o Parsed(b, since)[n]
                BY <2>2, <4>1
            <4>3. k - 1 = Len(a) + n
                BY <3>1
            <4> QED BY <4>2, <4>3
        <3>5. b[n + 1][1] \in Events /\ Parsed(b, since)[n] \in Seq(Events)
            BY <3>1, TokenTypes, ParsedType
        <3>6. Parsed(ab, since)[k] = IF Yields(ab, k, since) THEN Append(Parsed(ab, since)[k - 1], ab[k][1])
                                                             ELSE Parsed(ab, since)[k - 1]
            BY <1>1, <3>1, ParsedStep
        <3>7. Parsed(b, since)[n + 1] = IF Yields(b, n + 1, since)
                                        THEN Append(Parsed(b, since)[n], b[n + 1][1])
                                        ELSE Parsed(b, since)[n]
            BY <3>1, ParsedStep
        <3> HIDE DEF P, k
        <3>8. Append(P \o Parsed(b, since)[n], b[n + 1][1]) = P \o Append(Parsed(b, since)[n], b[n + 1][1])
            <4>1. \A x, y \in Seq(Events) : \A e \in Events : Append(x \o y, e) = x \o Append(y, e)
                BY AppendOfConcat
            <4> QED BY <2>0, <3>5, <4>1, Zenon
        <3>9. Parsed(ab, since)[k] = P \o Parsed(b, since)[n + 1]
            BY <3>2, <3>3, <3>4, <3>6, <3>7, <3>8
        <3> QED BY <3>9 DEF k
    <2> HIDE DEF S
    <2>3. \A n \in 0 .. Len(b) : n \in S
        BY <1>2, <2>1, <2>2, UpTo
    <2>4. \A n \in 0 .. Len(b) : n \in Nat /\ n <= Len(b)
        BY <1>2
    <2> HIDE DEF P
    <2>5. \A n \in 0 .. Len(b) : Parsed(ab, since)[Len(a) + n] = P \o Parsed(b, since)[n]
        BY <2>3, <2>4 DEF S
    <2> QED BY <2>5 DEF P
<1>5. Parsed(ab, since)[Len(ab)] = Parsed(a, since)[Len(a)] \o Parsed(b, since)[Len(b)]
    <2>1. Len(b) \in 0 .. Len(b) /\ Len(ab) = Len(a) + Len(b)
        BY <1>1, <1>2
    <2> QED BY <1>4, <2>1
<1> QED BY <1>5, ParseIsLast DEF ab

\* Without the end of a line there is no event.
LEMMA ParseOfPartial ==
    ASSUME NEW s \in Seq(Tokens), NEW since, \A i \in 1 .. Len(s) : s[i][2] # "eol"
    PROVE  Parse(s, since) = <<>>
<1> DEFINE S == {n \in Nat : n <= Len(s) => Parsed(s, since)[n] = <<>>}
<1>0. Len(s) \in Nat
    OBVIOUS
<1>1. 0 \in S
    BY ParsedStep
<1>2. ASSUME NEW n \in 0 .. Len(s) - 1, n \in S PROVE n + 1 \in S
    <2>1. n + 1 \in 1 .. Len(s) /\ n + 1 - 1 = n /\ Parsed(s, since)[n] = <<>>
        BY <1>2
    <2>2. ~Yields(s, n + 1, since)
        BY <2>1 DEF Yields, EndsWholeLine
    <2>3. Parsed(s, since)[n + 1] = <<>>
        BY <2>1, <2>2, ParsedStep
    <2> QED BY <2>3
<1> HIDE DEF S
<1>3. \A n \in 0 .. Len(s) : n \in S
    BY <1>0, <1>1, <1>2, UpTo
<1>4. Len(s) \in S
    BY <1>0, <1>3
<1> QED BY <1>0, <1>4, ParseIsLast DEF S

\* The last line of s ends at position k; after it the line is partial.
LineEndsAt(s, k) ==
    /\ k \in 0 .. Len(s)
    /\ k # 0 => s[k][2] = "eol"
    /\ \A i \in k + 1 .. Len(s) : s[i][2] # "eol"

LEMMA LastLineEnds ==
    ASSUME NEW s \in Seq(Tokens)
    PROVE  \E k : LineEndsAt(s, k)
<1> DEFINE ends == {i \in 1 .. Len(s) : s[i][2] = "eol"}
           k == CHOOSE i \in ends : \A j \in ends : j <= i
<1>0. Len(s) \in Nat
    OBVIOUS
<1>1. CASE ends = {}
    BY <1>0, <1>1 DEF LineEndsAt
<1>2. CASE ends # {}
    <2>1. ends \subseteq 0 .. Len(s)
        BY <1>0
    <2>2. \E i \in ends : \A j \in ends : j <= i
        <3> DEFINE D == {Len(s) - m : m \in ends}
        <3>1. D \subseteq Nat /\ D # {}
            BY <1>0, <1>2, <2>1
        <3>2. PICK d \in D : \A e \in D : d <= e
            BY <3>1, LeastNatural
        <3>3. PICK i \in ends : d = Len(s) - i
            BY <3>2
        <3>4. \A j \in ends : Len(s) - i <= Len(s) - j
            BY <3>2, <3>3
        <3>5. \A j \in ends : j <= i
            BY <1>0, <2>1, <3>4
        <3> QED BY <3>5
    <2>3. PICK i \in ends : \A j \in ends : j <= i
        BY <2>2
    <2>4. i \in 0 .. Len(s) /\ s[i][2] = "eol"
        BY <1>0
    <2>5. \A j \in i + 1 .. Len(s) : j \in 1 .. Len(s) /\ ~(j <= i)
        BY <1>0, <2>4
    <2>6. \A j \in i + 1 .. Len(s) : s[j][2] # "eol"
        BY <2>3, <2>5
    <2> QED BY <2>4, <2>6 DEF LineEndsAt
<1> QED BY <1>1, <1>2

\* The remainder is what follows that position.
LEMMA RemainderFollows ==
    ASSUME NEW s \in Seq(Tokens), NEW k, LineEndsAt(s, k)
    PROVE  Remainder(s) = SubSeq(s, k + 1, Len(s))
<1> DEFINE ends == {i \in 1 .. Len(s) : s[i][2] = "eol"}
           last == IF ends = {} THEN 0 ELSE CHOOSE i \in ends : \A j \in ends : j <= i
<1>0. Len(s) \in Nat /\ k \in 0 .. Len(s)
    BY DEF LineEndsAt
<1>1. \A i \in ends : i <= k
    BY <1>0 DEF LineEndsAt
<1>2. k # 0 => k \in ends
    BY <1>0 DEF LineEndsAt
<1>3. CASE k = 0
    <2>1. ends = {}
        BY <1>0, <1>1, <1>3
    <2> QED BY <1>3, <2>1 DEF Remainder
<1>4. CASE k # 0
    <2>1. \A i \in ends : (\A j \in ends : j <= i) => i = k
        BY <1>0, <1>1, <1>2, <1>4
    <2>2. (CHOOSE i \in ends : \A j \in ends : j <= i) = k
        <3> HIDE DEF ends
        <3> QED BY <1>1, <1>2, <1>4, <2>1
    <2>3. Remainder(s) = SubSeq(s, last + 1, Len(s))
        BY DEF Remainder
    <2> QED BY <1>2, <1>4, <2>2, <2>3
<1> QED BY <1>3, <1>4

\* A sequence is its whole lines and its remainder.
LEMMA LinesAndRemainder ==
    ASSUME NEW s \in Seq(Tokens)
    PROVE  /\ Remainder(s) \in Seq(Tokens)
           /\ \A i \in 1 .. Len(Remainder(s)) : Remainder(s)[i][2] # "eol"
           /\ \E h \in Seq(Tokens) : Closed(h) /\ s = h \o Remainder(s)
<1>1. PICK k : LineEndsAt(s, k)
    BY LastLineEnds
<1> DEFINE h == SubSeq(s, 1, k)
           r == SubSeq(s, k + 1, Len(s))
<1>2. Remainder(s) = r
    BY <1>1, RemainderFollows
<1>3. Len(s) \in Nat /\ k \in 0 .. Len(s) /\ k \in Nat
    BY <1>1 DEF LineEndsAt
<1>4. \A i \in 1 .. Len(s) : s[i] \in Tokens
    BY ElementOfSeq
<1>5. h \in Seq(Tokens) /\ Len(h) = k /\ \A i \in 1 .. k : h[i] = s[i]
    <2>1. \A i \in 1 .. k : s[i] \in Tokens
        BY <1>3, <1>4
    <2>2. /\ h \in Seq(Tokens) /\ Len(h) = IF 1 <= k THEN k - 1 + 1 ELSE 0
          /\ \A i \in 1 .. k - 1 + 1 : h[i] = s[1 + i - 1]
        BY <1>3, <2>1, SubSeqProperties
    <2> QED BY <1>3, <2>2
<1>6. /\ r \in Seq(Tokens) /\ Len(r) = Len(s) - k
      /\ \A i \in 1 .. Len(s) - k : r[i] = s[k + i]
    <2>1. \A i \in k + 1 .. Len(s) : s[i] \in Tokens
        BY <1>3, <1>4
    <2>2. /\ r \in Seq(Tokens) /\ Len(r) = IF k + 1 <= Len(s) THEN Len(s) - (k + 1) + 1 ELSE 0
          /\ \A i \in 1 .. Len(s) - (k + 1) + 1 : r[i] = s[k + 1 + i - 1]
        BY <1>3, <2>1, SubSeqProperties
    <2> HIDE DEF r
    <2>3. \A i \in 1 .. Len(s) - k : i \in 1 .. Len(s) - (k + 1) + 1 /\ k + 1 + i - 1 = k + i
        BY <1>3
    <2>4. Len(r) = Len(s) - k
        BY <1>3, <2>2
    <2> QED BY <2>2, <2>3, <2>4
<1> HIDE DEF h, r
<1>7. s = h \o r
    <2>1. /\ h \o r \in Seq(Tokens) /\ Len(h \o r) = Len(h) + Len(r)
          /\ \A i \in 1 .. Len(h) + Len(r) :
                (h \o r)[i] = IF i <= Len(h) THEN h[i] ELSE r[i - Len(h)]
        BY <1>5, <1>6, ConcatProperties
    <2>2. Len(h \o r) = Len(s)
        BY <1>3, <1>5, <1>6, <2>1
    <2>3. ASSUME NEW i \in 1 .. Len(s) PROVE s[i] = (h \o r)[i]
        <3>1. CASE i <= k
            BY <1>3, <1>5, <1>6, <2>1, <2>2, <3>1
        <3>2. CASE ~(i <= k)
            <4>1. i - k \in 1 .. Len(s) - k /\ k + (i - k) = i /\ i \in 1 .. Len(h) + Len(r)
                BY <1>3, <1>5, <1>6, <3>2
            <4>2. r[i - k] = s[k + (i - k)] /\ (h \o r)[i] = r[i - k]
                BY <1>5, <1>6, <2>1, <3>2, <4>1
            <4> QED BY <4>1, <4>2
        <3> QED BY <3>1, <3>2
    <2> QED BY <2>1, <2>2, <2>3, SeqEqual
<1>8. Closed(h)
    <2>1. CASE k = 0
        BY <1>5, <2>1, EmptySeq DEF Closed
    <2>2. CASE k # 0
        <3>1. h[k] = s[k] /\ s[k][2] = "eol"
            BY <1>1, <1>3, <1>5, <2>2 DEF LineEndsAt
        <3> QED BY <1>5, <3>1 DEF Closed
    <2> QED BY <2>1, <2>2
<1>9. \A i \in 1 .. Len(r) : r[i][2] # "eol"
    <2>1. \A i \in 1 .. Len(s) - k : k + i \in k + 1 .. Len(s)
        BY <1>3
    <2> QED BY <1>1, <1>6, <2>1 DEF LineEndsAt
<1> QED BY <1>2, <1>5, <1>6, <1>7, <1>8, <1>9

\* What precedes the end of a line is no part of the remainder.
LEMMA RemainderOfConcat ==
    ASSUME NEW a \in Seq(Tokens), NEW b \in Seq(Tokens), Closed(a)
    PROVE  Remainder(a \o b) = Remainder(b)
<1> DEFINE ab == a \o b
<1>1. /\ ab \in Seq(Tokens) /\ Len(ab) = Len(a) + Len(b)
      /\ \A i \in 1 .. Len(a) : ab[i] = a[i]
      /\ \A i \in 1 .. Len(b) : ab[Len(a) + i] = b[i]
    BY ConcatProperties
<1>2. Len(a) \in Nat /\ Len(b) \in Nat
    OBVIOUS
<1> HIDE DEF ab
<1>3. PICK k : LineEndsAt(b, k)
    BY LastLineEnds
<1>4. k \in 0 .. Len(b) /\ k \in Nat
    BY <1>2, <1>3 DEF LineEndsAt
<1> DEFINE j == Len(a) + k
<1>5. LineEndsAt(ab, j)
    <2>1. j \in 0 .. Len(ab)
        BY <1>1, <1>2, <1>4
    <2>2. ASSUME j # 0 PROVE ab[j][2] = "eol"
        <3>1. CASE k = 0
            <4>1. Len(a) \in 1 .. Len(a) /\ j = Len(a) /\ a # <<>>
                BY <1>2, <2>2, <3>1
            <4>2. ab[j] = a[Len(a)] /\ a[Len(a)][2] = "eol"
                BY <1>1, <4>1 DEF Closed
            <4> QED BY <4>2
        <3>2. CASE k # 0
            <4>1. k \in 1 .. Len(b)
                BY <1>2, <1>4, <3>2
            <4>2. ab[j] = b[k] /\ b[k][2] = "eol"
                BY <1>1, <1>3, <3>2, <4>1 DEF LineEndsAt
            <4> QED BY <4>2
        <3> QED BY <3>1, <3>2
    <2>3. ASSUME NEW i \in j + 1 .. Len(ab) PROVE ab[i][2] # "eol"
        <3>1. i - Len(a) \in k + 1 .. Len(b) /\ i - Len(a) \in 1 .. Len(b) /\ Len(a) + (i - Len(a)) = i
            BY <1>1, <1>2, <1>4
        <3>2. ab[Len(a) + (i - Len(a))] = b[i - Len(a)]
            BY <1>1, <3>1
        <3>3. b[i - Len(a)][2] # "eol"
            BY <1>3, <3>1 DEF LineEndsAt
        <3> QED BY <3>1, <3>2, <3>3
    <2> HIDE DEF j
    <2> QED BY <2>1, <2>2, <2>3 DEF LineEndsAt
<1> DEFINE x == SubSeq(ab, j + 1, Len(ab))
           y == SubSeq(b, k + 1, Len(b))
<1>6. Remainder(ab) = x /\ Remainder(b) = y
    BY <1>1, <1>3, <1>5, RemainderFollows
<1>7. /\ y \in Seq(Tokens) /\ Len(y) = Len(b) - k
      /\ \A i \in 1 .. Len(b) - k : y[i] = b[k + i]
    <2>1. \A i \in k + 1 .. Len(b) : b[i] \in Tokens
        BY <1>2, <1>4, ElementOfSeq
    <2>2. /\ y \in Seq(Tokens) /\ Len(y) = IF k + 1 <= Len(b) THEN Len(b) - (k + 1) + 1 ELSE 0
          /\ \A i \in 1 .. Len(b) - (k + 1) + 1 : y[i] = b[k + 1 + i - 1]
        BY <1>2, <1>4, <2>1, SubSeqProperties
    <2> HIDE DEF y
    <2>3. \A i \in 1 .. Len(b) - k : i \in 1 .. Len(b) - (k + 1) + 1 /\ k + 1 + i - 1 = k + i
        BY <1>2, <1>4
    <2>4. Len(y) = Len(b) - k
        BY <1>2, <1>4, <2>2
    <2> QED BY <2>2, <2>3, <2>4
<1>8. /\ x \in Seq(Tokens) /\ Len(x) = Len(b) - k
      /\ \A i \in 1 .. Len(b) - k : x[i] = ab[j + i]
    <2>0. j \in Nat /\ Len(ab) \in Nat /\ j <= Len(ab) /\ Len(ab) - j = Len(b) - k
        BY <1>1, <1>2, <1>4
    <2> HIDE DEF j
    <2>1. \A i \in j + 1 .. Len(ab) : ab[i] \in Tokens
        BY <1>1, <2>0, ElementOfSeq
    <2>2. /\ x \in Seq(Tokens) /\ Len(x) = IF j + 1 <= Len(ab) THEN Len(ab) - (j + 1) + 1 ELSE 0
          /\ \A i \in 1 .. Len(ab) - (j + 1) + 1 : x[i] = ab[j + 1 + i - 1]
        BY <2>0, <2>1, SubSeqProperties
    <2> HIDE DEF x
    <2>3. \A i \in 1 .. Len(b) - k : i \in 1 .. Len(ab) - (j + 1) + 1 /\ j + 1 + i - 1 = j + i
        BY <1>2, <1>4, <2>0
    <2>4. Len(x) = Len(b) - k
        BY <1>2, <1>4, <2>0, <2>2
    <2> QED BY <2>2, <2>3, <2>4
<1>9. \A i \in 1 .. Len(b) - k : x[i] = y[i]
    <2>1. ASSUME NEW i \in 1 .. Len(b) - k PROVE x[i] = y[i]
        <3>1. k + i \in 1 .. Len(b) /\ j + i = Len(a) + (k + i)
            BY <1>2, <1>4
        <3>2. ab[Len(a) + (k + i)] = b[k + i]
            BY <1>1, <3>1
        <3> HIDE DEF x, y, j
        <3> QED BY <1>7, <1>8, <3>1, <3>2
    <2> QED BY <2>1
<1>10. x = y
    <2> HIDE DEF x, y
    <2> QED BY <1>7, <1>8, <1>9, SeqEqual
<1> QED BY <1>6, <1>10 DEF ab

\* Reading in two parts, with the remainder of the first carried over to the second,
\* is reading at once.
LEMMA ReadingInParts ==
    ASSUME NEW a \in Seq(Tokens), NEW b \in Seq(Tokens), NEW since
    PROVE  /\ Parse(a \o b, since) = Parse(a, since) \o Parse(Remainder(a) \o b, since)
           /\ Remainder(a \o b) = Remainder(Remainder(a) \o b)
<1> DEFINE r == Remainder(a)
<1>1. r \in Seq(Tokens) /\ \A i \in 1 .. Len(r) : r[i][2] # "eol"
    BY LinesAndRemainder
<1>2. PICK h \in Seq(Tokens) : Closed(h) /\ a = h \o r
    BY LinesAndRemainder
<1> HIDE DEF r
<1>3. r \o b \in Seq(Tokens) /\ a \o b = h \o (r \o b)
    BY <1>1, <1>2, ConcatProperties, ConcatAssociative
<1>4. Parse(a, since) = Parse(h, since)
    <2>1. Parse(a, since) = Parse(h, since) \o Parse(r, since)
        BY <1>1, <1>2, ParseOfConcat
    <2>2. Parse(r, since) = <<>>
        BY <1>1, ParseOfPartial
    <2>3. Parse(h, since) \in Seq(Events)
        BY ParseType
    <2> QED BY <2>1, <2>2, <2>3, ConcatEmptySeq
<1>5. Parse(a \o b, since) = Parse(h, since) \o Parse(r \o b, since)
    <2>1. Parse(h \o (r \o b), since) = Parse(h, since) \o Parse(r \o b, since)
        BY <1>2, <1>3, ParseOfConcat
    <2> QED BY <1>3, <2>1
<1>6. Remainder(a \o b) = Remainder(r \o b)
    BY <1>2, <1>3, RemainderOfConcat
<1> QED BY <1>4, <1>5, <1>6 DEF r

-----------------------------------------------------------------------------
(* EventTail: the writers and the reader *)

\* A writer under way has an event in hand.
EventInHand == \A w \in Writers : wpc[w] # "idle" => wev[w] # 0

\* The first read follows an open.
FirstReadHasFile == rpc = "first" => fd # None

\* The inductive invariant.
TailInv == TailTypeOK /\ EventInHand /\ FirstReadHasFile /\ PollingLosesNothing

LEMMA TailInitial == TailInit => TailInv
<1> SUFFICES ASSUME TailInit PROVE TailInv
    OBVIOUS
<1>1. TailTypeOK
    BY EventTailAssumption DEF TailInit, TailTypeOK, InodeOrNone, EventSeqs
<1>2. EventInHand /\ FirstReadHasFile /\ PollingLosesNothing
    BY DEF TailInit, EventInHand, FirstReadHasFile, PollingLosesNothing
<1> QED BY <1>1, <1>2 DEF TailInv

\* A file that only grew, or another file, is read as before.
LEMMA GrownFileIsRead ==
    ASSUME TailInv, UNCHANGED <<fd, offset, buf, fromFd>>,
           fd # None => \/ content'[fd] = content[fd]
                        \/ \E token \in Tokens : content'[fd] = Append(content[fd], token)
    PROVE  PollingLosesNothing'
<1>1. SUFFICES ASSUME fd # None
               PROVE  /\ offset <= Len(content'[fd])
                      /\ SubSeq(content'[fd], 1, offset) = SubSeq(content[fd], 1, offset)
    BY DEF TailInv, PollingLosesNothing
<1>2. /\ content[fd] \in Seq(Tokens) /\ offset \in Nat /\ offset <= Len(content[fd])
    BY <1>1 DEF TailInv, TailTypeOK, InodeOrNone, PollingLosesNothing
<1>3. CASE content'[fd] = content[fd]
    BY <1>2, <1>3
<1>4. ASSUME NEW token \in Tokens, content'[fd] = Append(content[fd], token)
      PROVE  /\ offset <= Len(content'[fd])
             /\ SubSeq(content'[fd], 1, offset) = SubSeq(content[fd], 1, offset)
    <2> DEFINE s == content[fd]
               t == content'[fd]
    <2>1. /\ t \in Seq(Tokens) /\ Len(t) = Len(s) + 1 /\ Len(s) \in Nat
          /\ \A i \in 1 .. Len(s) : t[i] = s[i]
        BY <1>2, <1>4
    <2>2. s \in Seq(Tokens) /\ offset \in Nat /\ offset <= Len(s)
        BY <1>2
    <2> HIDE DEF s, t
    <2>3. \A i \in 1 .. offset : i \in 1 .. Len(s) /\ t[i] = s[i] /\ s[i] \in Tokens
        BY <2>1, <2>2, ElementOfSeq
    <2>4. /\ SubSeq(s, 1, offset) \in Seq(Tokens)
          /\ Len(SubSeq(s, 1, offset)) = IF 1 <= offset THEN offset - 1 + 1 ELSE 0
          /\ \A i \in 1 .. offset - 1 + 1 : SubSeq(s, 1, offset)[i] = s[1 + i - 1]
        BY <2>2, <2>3, SubSeqProperties
    <2>5. /\ SubSeq(t, 1, offset) \in Seq(Tokens)
          /\ Len(SubSeq(t, 1, offset)) = IF 1 <= offset THEN offset - 1 + 1 ELSE 0
          /\ \A i \in 1 .. offset - 1 + 1 : SubSeq(t, 1, offset)[i] = t[1 + i - 1]
        BY <2>2, <2>3, SubSeqProperties
    <2>6. \A i \in 1 .. offset : i \in 1 .. offset - 1 + 1 /\ 1 + i - 1 = i
        BY <2>2
    <2>7. Len(SubSeq(s, 1, offset)) = offset /\ Len(SubSeq(t, 1, offset)) = offset
        BY <2>2, <2>4, <2>5
    <2>8. SubSeq(t, 1, offset) = SubSeq(s, 1, offset)
        <3>1. \A i \in 1 .. offset : SubSeq(t, 1, offset)[i] = SubSeq(s, 1, offset)[i]
            BY <2>3, <2>4, <2>5, <2>6
        <3> QED BY <2>4, <2>5, <2>7, <3>1, SeqEqual
    <2>9. offset <= Len(t)
        BY <2>1, <2>2
    <2> QED BY <2>8, <2>9 DEF s, t
<1> QED BY <1>1, <1>3, <1>4

\* A read leaves what a reader of all bytes at once would have.
LEMMA ReadIsExact ==
    ASSUME TailInv, fd # None, NEW since, ReadNew(since), UNCHANGED <<content, fd>>
    PROVE  /\ offset' \in Nat /\ buf' \in Seq(Tokens)
           /\ delivered' \in Seq(Events) /\ fromFd' \in Seq(Events)
           /\ PollingLosesNothing'
<1> DEFINE c == content[fd]
           done == SubSeq(c, 1, offset)
           fresh == SubSeq(c, offset + 1, Len(c))
<1>1. /\ c \in Seq(Tokens) /\ Len(c) \in Nat /\ offset \in Nat /\ offset <= Len(c)
      /\ buf = Remainder(done) /\ fromFd = Parse(done, 0)
      /\ delivered \in Seq(Events) /\ fromFd \in Seq(Events) /\ buf \in Seq(Tokens)
    BY DEF TailInv, TailTypeOK, InodeOrNone, PollingLosesNothing, EventSeqs
<1>2. /\ buf' = Remainder(buf \o fresh) /\ offset' = offset + Len(fresh)
      /\ delivered' = delivered \o Parse(buf \o fresh, since)
      /\ fromFd' = fromFd \o Parse(buf \o fresh, 0)
      /\ content'[fd'] = c
    BY DEF ReadNew
<1> HIDE DEF c
<1>3. \A i \in 1 .. Len(c) : c[i] \in Tokens
    BY <1>1, ElementOfSeq
<1>4. done \in Seq(Tokens)
    <2>1. \A i \in 1 .. offset : c[i] \in Tokens
        BY <1>1, <1>3
    <2> QED BY <1>1, <2>1, SubSeqProperties
<1>5. fresh \in Seq(Tokens) /\ Len(fresh) = Len(c) - offset
    <2>1. \A i \in offset + 1 .. Len(c) : c[i] \in Tokens
        BY <1>1, <1>3
    <2>2. /\ fresh \in Seq(Tokens)
          /\ Len(fresh) = IF offset + 1 <= Len(c) THEN Len(c) - (offset + 1) + 1 ELSE 0
        BY <1>1, <2>1, SubSeqProperties
    <2> HIDE DEF fresh
    <2> QED BY <1>1, <2>2
<1>6. done \o fresh = c
    <2>1. 1 \in 1 .. Len(c) + 1 /\ offset \in 1 - 1 .. Len(c) /\ Len(c) \in offset .. Len(c)
        BY <1>1
    <2>2. done \o fresh = SubSeq(c, 1, Len(c))
        BY <1>1, <2>1, ConcatAdjacentSubSeq
    <2> HIDE DEF done, fresh
    <2> QED BY <1>1, <2>2, SubSeqFull
<1>7. SubSeq(c, 1, offset') = c /\ offset' = Len(c)
    <2>1. offset' = Len(c)
        <3> HIDE DEF fresh
        <3> QED BY <1>1, <1>2, <1>5
    <2> QED BY <1>1, <2>1, SubSeqFull
<1> HIDE DEF done, fresh
<1>8. /\ Parse(c, 0) = Parse(done, 0) \o Parse(buf \o fresh, 0)
      /\ Remainder(c) = Remainder(buf \o fresh)
    <2>1. /\ Parse(done \o fresh, 0) = Parse(done, 0) \o Parse(Remainder(done) \o fresh, 0)
          /\ Remainder(done \o fresh) = Remainder(Remainder(done) \o fresh)
        BY <1>4, <1>5, ReadingInParts
    <2> QED BY <1>1, <1>6, <2>1
<1>9. PollingLosesNothing'
    <2>1. fromFd' = Parse(c, 0) /\ buf' = Remainder(c)
        BY <1>1, <1>2, <1>8
    <2>2. offset' <= Len(c)
        BY <1>1, <1>7
    <2> QED BY <1>2, <1>7, <2>1, <2>2 DEF PollingLosesNothing
<1>10. buf \o fresh \in Seq(Tokens)
    BY <1>1, <1>5, ConcatProperties
<1>11. /\ buf' \in Seq(Tokens)
       /\ Parse(buf \o fresh, since) \in Seq(Events) /\ Parse(buf \o fresh, 0) \in Seq(Events)
    BY <1>2, <1>10, LinesAndRemainder, ParseType
<1>12. delivered' \in Seq(Events) /\ fromFd' \in Seq(Events)
    BY <1>1, <1>2, <1>11, ConcatProperties
<1> QED BY <1>1, <1>7, <1>9, <1>11, <1>12

\* An open file of which nothing was read, or no file at all.
LEMMA NothingRead ==
    ASSUME TailTypeOK',
           fd' # None => offset' = 0 /\ buf' = <<>> /\ fromFd' = <<>>
    PROVE  PollingLosesNothing'
<1>1. SUFFICES ASSUME fd' # None
               PROVE  /\ offset' <= Len(content'[fd'])
                      /\ fromFd' = Parse(SubSeq(content'[fd'], 1, offset'), 0)
                      /\ buf' = Remainder(SubSeq(content'[fd'], 1, offset'))
    BY DEF PollingLosesNothing
<1>2. content'[fd'] \in Seq(Tokens) /\ offset' = 0
    BY <1>1 DEF TailTypeOK, InodeOrNone
<1>3. SubSeq(content'[fd'], 1, offset') = <<>>
    BY <1>2, SubSeqEmpty
<1>4. <<>> \in Seq(Tokens) /\ Len(<<>>) = 0
    BY EmptySeq
<1>5. Parse(<<>>, 0) = <<>>
    <2>1. \A i \in 1 .. Len(<<>>) : <<>>[i][2] # "eol"
        BY <1>4
    <2> QED BY <1>4, <2>1, ParseOfPartial
<1>6. Remainder(<<>>) = <<>>
    <2>1. LineEndsAt(<<>>, 0)
        BY <1>4 DEF LineEndsAt
    <2>2. Remainder(<<>>) = SubSeq(<<>>, 0 + 1, 0)
        BY <1>4, <2>1, RemainderFollows
    <2>3. 0 < 0 + 1 /\ 0 \in Int /\ 0 + 1 \in Int
        OBVIOUS
    <2> QED BY <2>2, <2>3, SubSeqEmpty
<1>7. offset' <= Len(content'[fd'])
    BY <1>2
<1>8. fromFd' = <<>> /\ buf' = <<>>
    BY <1>1
<1> QED BY <1>3, <1>5, <1>6, <1>7, <1>8, Zenon

LEMMA TailStep == TailInv /\ [TailNext]_tailVars => TailInv'
<1> SUFFICES ASSUME TailInv, [TailNext]_tailVars PROVE TailInv'
    OBVIOUS
<1> USE DEF TailInv
<1>1. ASSUME NEW w \in Writers, Begin(w) PROVE TailInv'
    <2>1. TailTypeOK'
        BY <1>1, EventTailAssumption DEF TailTypeOK, Begin, fileVars, readerVars
    <2>2. EventInHand' /\ FirstReadHasFile'
        BY <1>1, EventTailAssumption
        DEF TailTypeOK, Begin, fileVars, readerVars, EventInHand, FirstReadHasFile
    <2>3. PollingLosesNothing'
        BY <1>1, GrownFileIsRead DEF Begin, fileVars, readerVars
    <2> QED BY <2>1, <2>2, <2>3
<1>2. ASSUME NEW w \in Writers, StatSize(w) PROVE TailInv'
    <2>1. TailTypeOK'
        BY <1>2 DEF TailTypeOK, StatSize, fileVars, readerVars
    <2>2. EventInHand' /\ FirstReadHasFile'
        BY <1>2 DEF TailTypeOK, StatSize, fileVars, readerVars, EventInHand, FirstReadHasFile
    <2>3. PollingLosesNothing'
        BY <1>2, GrownFileIsRead DEF StatSize, fileVars, readerVars
    <2> QED BY <2>1, <2>2, <2>3
<1>3. ASSUME NEW w \in Writers, Rotate(w) PROVE TailInv'
    <2>1. TailTypeOK'
        BY <1>3 DEF TailTypeOK, Rotate, InodeOrNone, readerVars
    <2>2. EventInHand' /\ FirstReadHasFile'
        BY <1>3 DEF TailTypeOK, Rotate, readerVars, EventInHand, FirstReadHasFile
    <2>3. PollingLosesNothing'
        BY <1>3, GrownFileIsRead DEF Rotate, readerVars
    <2> QED BY <2>1, <2>2, <2>3
<1>4. ASSUME NEW w \in Writers, AppendOpen(w) PROVE TailInv'
    <2>1. PICK i \in (IF active = None THEN FreeInodes ELSE {active}) :
              /\ active' = i /\ used' = used \cup {i}
              /\ content' = IF active = None THEN [content EXCEPT ![i] = <<>>] ELSE content
              /\ wfd' = [wfd EXCEPT ![w] = i]
        BY <1>4 DEF AppendOpen
    <2>2. i \in Inodes /\ i # None
        BY <2>1, EventTailAssumption DEF FreeInodes, TailTypeOK, InodeOrNone
    <2>3. TailTypeOK'
        <3>1. content' \in [Inodes -> Seq(Tokens)]
            BY <2>1, <2>2 DEF TailTypeOK
        <3> QED BY <1>4, <2>1, <2>2, <3>1 DEF TailTypeOK, AppendOpen, InodeOrNone, readerVars
    <2>4. EventInHand' /\ FirstReadHasFile'
        BY <1>4 DEF TailTypeOK, AppendOpen, readerVars, EventInHand, FirstReadHasFile
    <2>5. PollingLosesNothing'
        <3>1. fd # None => content'[fd] = content[fd]
            BY <2>1 DEF FreeInodes, TailTypeOK, InodeOrNone
        <3> QED BY <1>4, <3>1, GrownFileIsRead DEF AppendOpen, readerVars
    <2> QED BY <2>3, <2>4, <2>5
<1>5. ASSUME NEW w \in Writers, NEW kind \in {"body", "eol"}, wpc[w] \in {"write", "newline"},
             content' = [content EXCEPT ![wfd[w]] = Append(@, <<wev[w], kind>>)]
      PROVE  /\ content' \in [Inodes -> Seq(Tokens)]
             /\ UNCHANGED readerVars => PollingLosesNothing'
    <2>1. wfd[w] \in Inodes /\ <<wev[w], kind>> \in Tokens
        BY <1>5, EventTailAssumption
        DEF TailTypeOK, InodeOrNone, EventInHand, Tokens, Events
    <2>2. content' \in [Inodes -> Seq(Tokens)]
        BY <1>5, <2>1 DEF TailTypeOK
    <2>3. fd # None => \/ content'[fd] = content[fd]
                       \/ content'[fd] = Append(content[fd], <<wev[w], kind>>)
        BY <1>5, <2>1 DEF TailTypeOK, InodeOrNone
    <2> QED BY <2>1, <2>2, <2>3, GrownFileIsRead DEF readerVars
<1>6. ASSUME NEW w \in Writers, WriteBody(w) PROVE TailInv'
    <2>1. content' \in [Inodes -> Seq(Tokens)] /\ PollingLosesNothing'
        BY <1>5, <1>6 DEF WriteBody
    <2>2. TailTypeOK'
        BY <1>6, <2>1 DEF TailTypeOK, WriteBody, readerVars
    <2>3. EventInHand' /\ FirstReadHasFile'
        BY <1>6 DEF TailTypeOK, WriteBody, readerVars, EventInHand, FirstReadHasFile
    <2> QED BY <2>1, <2>2, <2>3
<1>7. ASSUME NEW w \in Writers, WriteNewline(w) PROVE TailInv'
    <2>1. content' \in [Inodes -> Seq(Tokens)] /\ PollingLosesNothing'
        BY <1>5, <1>7 DEF WriteNewline
    <2>2. TailTypeOK'
        BY <1>7, <2>1 DEF TailTypeOK, WriteNewline, readerVars, InodeOrNone
    <2>3. EventInHand' /\ FirstReadHasFile'
        BY <1>7 DEF TailTypeOK, WriteNewline, readerVars, EventInHand, FirstReadHasFile
    <2> QED BY <2>1, <2>2, <2>3
<1>8. ASSUME NEW w \in Writers, EmitFails(w) PROVE TailInv'
    <2>1. TailTypeOK'
        BY <1>8 DEF TailTypeOK, EmitFails, fileVars, readerVars, InodeOrNone
    <2>2. EventInHand' /\ FirstReadHasFile'
        BY <1>8 DEF TailTypeOK, EmitFails, fileVars, readerVars, EventInHand, FirstReadHasFile
    <2>3. PollingLosesNothing'
        BY <1>8, GrownFileIsRead DEF EmitFails, fileVars, readerVars
    <2> QED BY <2>1, <2>2, <2>3
<1>9. CASE OpenStat
    <2>1. TailTypeOK'
        BY <1>9 DEF TailTypeOK, OpenStat, fileVars, writerVars, InodeOrNone
    <2>2. EventInHand' /\ FirstReadHasFile'
        BY <1>9 DEF OpenStat, writerVars, EventInHand, FirstReadHasFile
    <2>3. PollingLosesNothing'
        BY <1>9, GrownFileIsRead DEF OpenStat, fileVars
    <2> QED BY <2>1, <2>2, <2>3
<1>10. CASE Open
    <2>1. TailTypeOK'
        <3>1. <<>> \in Seq(Tokens) /\ <<>> \in Seq(Events)
            BY EmptySeq
        <3>2. buf' \in {buf, <<>>} /\ fromFd' \in {fromFd, <<>>} /\ offset' \in {offset, 0}
            BY <1>10 DEF Open, OpenAt
        <3>3. buf' \in Seq(Tokens) /\ fromFd' \in EventSeqs /\ offset' \in Nat
            <4>1. buf \in Seq(Tokens) /\ fromFd \in EventSeqs /\ offset \in Nat /\ 0 \in Nat
                BY DEF TailTypeOK
            <4>2. <<>> \in EventSeqs
                BY <3>1 DEF EventSeqs
            <4>3. buf' \in Seq(Tokens)
                BY <3>1, <3>2, <4>1, Zenon
            <4>4. fromFd' \in EventSeqs
                BY <3>2, <4>1, <4>2, Zenon
            <4>5. offset' \in Nat
                BY <3>2, <4>1, Zenon
            <4> QED BY <4>3, <4>4, <4>5
        <3> QED BY <1>10, <3>3 DEF TailTypeOK, Open, OpenAt, fileVars, writerVars, InodeOrNone
    <2>2. EventInHand' /\ FirstReadHasFile'
        BY <1>10 DEF Open, OpenAt, writerVars, EventInHand, FirstReadHasFile
    <2>3. CASE active = None
        BY <1>10, <2>1, <2>2, <2>3, GrownFileIsRead DEF Open, fileVars
    <2>4. CASE active # None
        BY <1>10, <2>1, <2>2, <2>4, NothingRead DEF Open, OpenAt
    <2> QED BY <2>3, <2>4
<1>11. CASE FirstRead
    <2>1. fd # None /\ ReadNew(Since) /\ UNCHANGED <<content, fd>>
        BY <1>11 DEF FirstRead, FirstReadHasFile, fileVars
    <2>2. /\ offset' \in Nat /\ buf' \in Seq(Tokens)
          /\ delivered' \in Seq(Events) /\ fromFd' \in Seq(Events)
          /\ PollingLosesNothing'
        BY <2>1, ReadIsExact
    <2>3. TailTypeOK'
        BY <1>11, <2>2 DEF TailTypeOK, FirstRead, fileVars, writerVars, EventSeqs
    <2>4. EventInHand' /\ FirstReadHasFile'
        BY <1>11 DEF FirstRead, writerVars, EventInHand, FirstReadHasFile
    <2> QED BY <2>2, <2>3, <2>4
<1>12. CASE Poll
    <2>1. TailTypeOK'
        <3>1. <<>> \in Seq(Tokens) /\ <<>> \in Seq(Events)
            BY EmptySeq
        <3>2. buf' \in {buf, <<>>} /\ fromFd' \in {fromFd, <<>>} /\ offset' \in {offset, 0}
            BY <1>12 DEF Poll
        <3>3. buf' \in Seq(Tokens) /\ fromFd' \in EventSeqs /\ offset' \in Nat
            <4>1. buf \in Seq(Tokens) /\ fromFd \in EventSeqs /\ offset \in Nat /\ 0 \in Nat
                BY DEF TailTypeOK
            <4>2. <<>> \in EventSeqs
                BY <3>1 DEF EventSeqs
            <4>3. buf' \in Seq(Tokens)
                BY <3>1, <3>2, <4>1, Zenon
            <4>4. fromFd' \in EventSeqs
                BY <3>2, <4>1, <4>2, Zenon
            <4>5. offset' \in Nat
                BY <3>2, <4>1, Zenon
            <4> QED BY <4>3, <4>4, <4>5
        <3> QED BY <1>12, <3>3 DEF TailTypeOK, Poll, fileVars, writerVars, InodeOrNone
    <2>2. EventInHand' /\ FirstReadHasFile'
        BY <1>12 DEF Poll, writerVars, EventInHand, FirstReadHasFile
    <2>3. CASE active # None /\ active = current
        BY <1>12, <2>1, <2>2, <2>3, GrownFileIsRead DEF Poll, fileVars
    <2>4. CASE ~(active # None /\ active = current)
        <3>1. fd' = None
            BY <1>12, <2>4 DEF Poll
        <3> QED BY <2>1, <2>2, <3>1, NothingRead
    <2> QED BY <2>3, <2>4
<1>13. CASE Reopen
    <2>1. TailTypeOK'
        <3>1. <<>> \in Seq(Tokens) /\ <<>> \in Seq(Events)
            BY EmptySeq
        <3>2. buf' \in {buf, <<>>} /\ fromFd' \in {fromFd, <<>>} /\ offset' \in {offset, 0}
            BY <1>13 DEF Reopen, OpenAt
        <3>3. buf' \in Seq(Tokens) /\ fromFd' \in EventSeqs /\ offset' \in Nat
            <4>1. buf \in Seq(Tokens) /\ fromFd \in EventSeqs /\ offset \in Nat /\ 0 \in Nat
                BY DEF TailTypeOK
            <4>2. <<>> \in EventSeqs
                BY <3>1 DEF EventSeqs
            <4>3. buf' \in Seq(Tokens)
                BY <3>1, <3>2, <4>1, Zenon
            <4>4. fromFd' \in EventSeqs
                BY <3>2, <4>1, <4>2, Zenon
            <4>5. offset' \in Nat
                BY <3>2, <4>1, Zenon
            <4> QED BY <4>3, <4>4, <4>5
        <3> QED BY <1>13, <3>3 DEF TailTypeOK, Reopen, OpenAt, fileVars, writerVars, InodeOrNone
    <2>2. EventInHand' /\ FirstReadHasFile'
        BY <1>13 DEF Reopen, writerVars, EventInHand, FirstReadHasFile
    <2>3. CASE active = None
        BY <1>13, <2>1, <2>2, <2>3, GrownFileIsRead DEF Reopen, fileVars
    <2>4. CASE active # None
        BY <1>13, <2>1, <2>2, <2>4, NothingRead DEF Reopen, OpenAt
    <2> QED BY <2>3, <2>4
<1>14. CASE Read
    <2>1. EventInHand' /\ FirstReadHasFile'
        BY <1>14 DEF Read, writerVars, EventInHand, FirstReadHasFile
    <2>2. CASE fd = None
        <3>1. TailTypeOK'
            BY <1>14, <2>2 DEF TailTypeOK, Read, fileVars, writerVars
        <3>2. PollingLosesNothing'
            BY <1>14, <2>2, GrownFileIsRead DEF Read, fileVars
        <3> QED BY <2>1, <3>1, <3>2
    <2>3. CASE fd # None
        <3>1. ReadNew(0) /\ UNCHANGED <<content, fd>>
            BY <1>14, <2>3 DEF Read, fileVars
        <3>2. /\ offset' \in Nat /\ buf' \in Seq(Tokens)
              /\ delivered' \in Seq(Events) /\ fromFd' \in Seq(Events)
              /\ PollingLosesNothing'
            BY <2>3, <3>1, ReadIsExact
        <3>3. TailTypeOK'
            BY <1>14, <3>2 DEF TailTypeOK, Read, fileVars, writerVars, EventSeqs
        <3> QED BY <2>1, <3>2, <3>3
    <2> QED BY <2>2, <2>3
<1>15. CASE UNCHANGED tailVars
    <2>1. TailTypeOK' /\ EventInHand' /\ FirstReadHasFile'
        BY <1>15 DEF tailVars, fileVars, writerVars, readerVars, TailTypeOK, EventInHand, FirstReadHasFile
    <2>2. PollingLosesNothing'
        BY <1>15, GrownFileIsRead DEF tailVars, fileVars, readerVars
    <2> QED BY <2>1, <2>2
<1> QED BY <1>1, <1>2, <1>3, <1>4, <1>6, <1>7, <1>8, <1>9, <1>10, <1>11, <1>12, <1>13, <1>14, <1>15
        DEF TailNext, Emit, Reader

\* The event bus and the reader keep their types, and the invariants hold together.
THEOREM TailCorrect == TailSpec => []TailInv
<1>1. TailInit => TailInv
    BY TailInitial
<1>2. TailInv /\ [TailNext]_tailVars => TailInv'
    BY TailStep
<1> QED BY <1>1, <1>2, PTL DEF TailSpec

\* The types of the event bus and of the tail reader, for any number of servers.
THEOREM TailTypes == TailSpec => []TailTypeOK
<1>1. TailInv => TailTypeOK
    BY DEF TailInv
<1> QED BY <1>1, TailCorrect, PTL

\* What TailReader parsed since it opened its file is what the bytes it has read
\* say: no line is lost, repeated or made up at a poll boundary, with any number of
\* servers that append to the file, rotate it and leave torn lines behind.
THEOREM TailLosesNothing == TailSpec => []PollingLosesNothing
<1>1. TailInv => PollingLosesNothing
    BY DEF TailInv
<1> QED BY <1>1, TailCorrect, PTL
=============================================================================
