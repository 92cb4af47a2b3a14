----------------------------- MODULE AuditChain -----------------------------
(***************************************************************************)
(* The tamper-evident audit log of SchemaBrain: the AuditWriter of every   *)
(* `schemabrain serve` process, the mcp_audit table they share, and the    *)
(* walk of `schemabrain audit verify`.                                     *)
(*                                                                         *)
(* A SHA-256 digest is modelled by what it commits to: the chain hash of a *)
(* row is the sequence of canonical rows hashed into it, so two hashes are *)
(* equal exactly when they commit to the same history (collision freedom). *)
(* BadHash is a stored blob that is not 32 bytes long.                     *)
(***************************************************************************)
EXTENDS Naturals, Sequences, FiniteSets

CONSTANTS
    Procs,          \* serve processes that may open the store
    Threads,        \* threads of a process that may call AuditWriter.write
    Contents,       \* what a row may record (the 11 canonical fields besides id and time)
    BadShape,       \* row content that canonical_audit_row rejects
    BadHash,        \* a stored chain_hash of the wrong length
    NoThread,       \* the writer's lock is free
    Damage,         \* what may happen to the file behind the writer's back
    ClockStepsBack, \* whether the wall clock may be set back
    MaxRows,        \* bound: rows ever held by the table
    MaxTime         \* bound: the wall clock

\* canonical_audit_row over (id, occurred_at, the other fields).
Canonicals == Nat \X Nat \X Contents
Hashes == Seq(Canonicals)

ASSUME AuditChainAssumption ==
    /\ BadHash \notin Hashes
    /\ BadShape \notin Contents
    /\ NoThread \notin Threads
    /\ Damage \subseteq {"content", "shape", "hash"}
    /\ ClockStepsBack \in BOOLEAN
    /\ MaxRows \in Nat /\ MaxTime \in Nat

VARIABLES
    rows,     \* mcp_audit, in id order; the triggers and max(id)+1 keep ids dense
    synced,   \* how many rows a WAL checkpoint has made durable
    now,      \* the wall clock
    audit,    \* per process: "down", "on", or "off" (serve runs without audit)
    tail,     \* AuditWriter._last_chain_hash
    lock,     \* AuditWriter._lock
    pc,       \* where each thread is inside write()
    pend,     \* the row a thread is about to insert or has inserted
    acked,    \* rows returned to a caller
    written   \* history: the rows as they were inserted, and by which process

vars == <<rows, synced, now, audit, tail, lock, pc, pend, acked, written>>

Workers == Procs \X Threads

GENESIS_CHAIN_HASH == <<>>

canonical_audit_row(id, row) == <<id, row.time, row.content>>

compute_chain_hash(prev, canonical) == Append(prev, canonical)

-----------------------------------------------------------------------------
(* The writer *)

Init ==
    /\ rows = <<>> /\ synced = 0 /\ now = 0
    /\ audit = [p \in Procs |-> "down"]
    /\ tail = [p \in Procs |-> GENESIS_CHAIN_HASH]
    /\ lock = [p \in Procs |-> NoThread]
    /\ pc = [w \in Workers |-> "idle"]
    /\ pend = [w \in Workers |-> <<>>]
    /\ acked = {} /\ written = <<>>

\* SELECT chain_hash FROM mcp_audit ORDER BY id DESC LIMIT 1
StoredTail == IF rows = <<>> THEN GENESIS_CHAIN_HASH ELSE rows[Len(rows)].chain

\* serve constructs its AuditWriter, which recovers the tail.  A corrupted tail
\* raises, and so may the open itself (permissions, --no-audit): serve then
\* carries on with audit disabled.
Start(p) ==
    /\ audit[p] = "down"
    /\ \/ /\ StoredTail # BadHash
          /\ audit' = [audit EXCEPT ![p] = "on"]
          /\ tail' = [tail EXCEPT ![p] = StoredTail]
       \/ audit' = [audit EXCEPT ![p] = "off"] /\ UNCHANGED tail
    /\ UNCHANGED <<rows, synced, now, lock, pc, pend, acked, written>>

\* Fault: write() does not take the lock.
PrepareUnlocked(p, t, c) ==
    /\ audit[p] = "on" /\ pc[<<p, t>>] = "idle" /\ Len(rows) < MaxRows
    /\ LET canonical == <<Len(rows) + 1, now, c>>
       IN  pend' = [pend EXCEPT ![<<p, t>>] =
                        [id |-> Len(rows) + 1, time |-> now, content |-> c,
                         chain |-> compute_chain_hash(tail[p], canonical)]]
    /\ pc' = [pc EXCEPT ![<<p, t>>] = "insert"]
    /\ UNCHANGED <<rows, synced, now, audit, tail, lock, acked, written>>

\* write(), up to the INSERT: take the lock, read the clock and max(id), hash
\* against the cached tail.
Prepare(p, t, c) ==
    /\ audit[p] = "on" /\ lock[p] = NoThread /\ pc[<<p, t>>] = "idle"
    /\ Len(rows) < MaxRows
    /\ LET id == Len(rows) + 1
           row == [time |-> now, content |-> c]
           hash == compute_chain_hash(tail[p], canonical_audit_row(id, row))
       IN  pend' = [pend EXCEPT ![<<p, t>>] =
                        [id |-> id, time |-> now, content |-> c, chain |-> hash]]
    /\ lock' = [lock EXCEPT ![p] = t]
    /\ pc' = [pc EXCEPT ![<<p, t>>] = "insert"]
    /\ UNCHANGED <<rows, synced, now, audit, tail, acked, written>>

StoredRow(r) == [time |-> r.time, content |-> r.content, chain |-> r.chain]

\* The INSERT commits: id is the primary key, so the row must be the next one.
Commit(p, t) ==
    LET r == pend[<<p, t>>]
    IN  /\ pc[<<p, t>>] = "insert"
        /\ r.id = Len(rows) + 1
        /\ rows' = Append(rows, StoredRow(r))
        /\ written' = Append(written, [row |-> StoredRow(r), by |-> p])
        /\ pc' = [pc EXCEPT ![<<p, t>>] = "committed"]
        /\ UNCHANGED <<synced, now, audit, tail, lock, pend, acked>>

Release(p, t) ==
    /\ lock' = [lock EXCEPT ![p] = NoThread]
    /\ pc' = [pc EXCEPT ![<<p, t>>] = "idle"]
    /\ pend' = [pend EXCEPT ![<<p, t>>] = <<>>]

\* Fault: the row is returned although its INSERT failed.
InsertFailsAcks(p, t) ==
    /\ pc[<<p, t>>] = "insert"
    /\ acked' = acked \cup {pend[<<p, t>>]}
    /\ Release(p, t)
    /\ UNCHANGED <<rows, synced, now, audit, tail, written>>

\* The INSERT raises: another process took the id, the disk is full, the
\* database is locked.  _safe_audit_write logs it and the row is dropped.
InsertFails(p, t) ==
    /\ pc[<<p, t>>] = "insert"
    /\ Release(p, t)
    /\ UNCHANGED <<rows, synced, now, audit, tail, acked, written>>

\* Fault: the cached tail is left behind after a commit.
ReturnKeepsTail(p, t) ==
    /\ pc[<<p, t>>] = "committed"
    /\ acked' = acked \cup {pend[<<p, t>>]}
    /\ Release(p, t)
    /\ UNCHANGED <<rows, synced, now, audit, tail, written>>

\* write() after the commit: advance the cached tail, return the row.
Return(p, t) ==
    /\ pc[<<p, t>>] = "committed"
    /\ tail' = [tail EXCEPT ![p] = pend[<<p, t>>].chain]
    /\ acked' = acked \cup {pend[<<p, t>>]}
    /\ Release(p, t)
    /\ UNCHANGED <<rows, synced, now, audit, written>>

\* A serve process ends, at any point of a write.
Forget(P) ==
    /\ audit' = [p \in Procs |-> IF p \in P THEN "down" ELSE audit[p]]
    /\ lock' = [p \in Procs |-> IF p \in P THEN NoThread ELSE lock[p]]
    /\ pc' = [w \in Workers |-> IF w[1] \in P THEN "idle" ELSE pc[w]]
    /\ pend' = [w \in Workers |-> IF w[1] \in P THEN <<>> ELSE pend[w]]

Stop(p) ==
    /\ audit[p] # "down"
    /\ Forget({p})
    /\ UNCHANGED <<rows, synced, now, tail, acked, written>>

-----------------------------------------------------------------------------
(* The store file and the machine *)

Checkpoint ==
    /\ synced # Len(rows)
    /\ synced' = Len(rows)
    /\ UNCHANGED <<rows, now, audit, tail, lock, pc, pend, acked, written>>

\* WAL with synchronous=NORMAL: a power failure ends every process and may
\* lose the commits after the last checkpoint.
PowerLoss ==
    /\ \E n \in synced .. Len(rows) :
        /\ rows' = SubSeq(rows, 1, n)
        /\ written' = SubSeq(written, 1, n)
        /\ acked' = {r \in acked : r.id <= n}
    /\ Forget(Procs)
    /\ UNCHANGED <<synced, now, tail>>

Tick ==
    /\ now < MaxTime
    /\ now' = now + 1
    /\ UNCHANGED <<rows, synced, audit, tail, lock, pc, pend, acked, written>>

StepBack ==
    /\ ClockStepsBack /\ now > 0
    /\ now' = now - 1
    /\ UNCHANGED <<rows, synced, audit, tail, lock, pc, pend, acked, written>>

\* The file is edited behind the triggers: a row's fields (readable or not to
\* the canonicaliser) or its stored hash change.
Alter ==
    /\ \E i \in 1 .. Len(rows) :
        \/ "content" \in Damage /\ \E c \in Contents : rows' = [rows EXCEPT ![i].content = c]
        \/ "shape" \in Damage /\ rows' = [rows EXCEPT ![i].content = BadShape]
        \/ "hash" \in Damage /\ rows' = [rows EXCEPT ![i].chain = BadHash]
    /\ UNCHANGED <<synced, now, audit, tail, lock, pc, pend, acked, written>>

Next ==
    \/ \E p \in Procs : Start(p) \/ Stop(p)
    \/ \E p \in Procs, t \in Threads :
        \/ \E c \in Contents : Prepare(p, t, c)
        \/ Commit(p, t) \/ InsertFails(p, t) \/ Return(p, t)
    \/ Checkpoint \/ PowerLoss \/ Tick \/ StepBack \/ Alter

Spec == Init /\ [][Next]_vars

-----------------------------------------------------------------------------
(* `schemabrain audit verify` *)

PrevHash(i) == IF i = 1 THEN GENESIS_CHAIN_HASH ELSE rows[i - 1].chain

\* The row does not hash to what it stores, or cannot be canonicalised.
Mismatch(i) ==
    \/ rows[i].content = BadShape
    \/ /\ PrevHash(i) # BadHash
       /\ rows[i].chain # compute_chain_hash(PrevHash(i), canonical_audit_row(i, rows[i]))

\* compute_chain_hash raises on a previous hash of the wrong length, and
\* walk_chain does not catch that: it reaches row i only if no earlier row
\* ended the walk, and the row itself canonicalises.
WalkRaises(full, start) ==
    \E i \in start + 1 .. Len(rows) :
        /\ PrevHash(i) = BadHash
        /\ rows[i].content # BadShape
        /\ full \/ \A j \in start + 1 .. i - 1 : ~Mismatch(j)

\* walk_chain: the row ids reported after row `start` (0: from genesis).
walk_chain(full, start) ==
    LET bad == {i \in start + 1 .. Len(rows) : Mismatch(i)}
    IN  IF full THEN bad ELSE {i \in bad : \A j \in bad : i <= j}

\* Fault: the cursor may sit on the threshold itself.
CursorAtThreshold(threshold) ==
    LET before == {i \in 1 .. Len(rows) : rows[i].time <= threshold}
    IN  IF before = {} THEN 0 ELSE CHOOSE i \in before : \A j \in before : j <= i

\* resolve_since_cursor: the latest row strictly before the threshold, 0 if none.
resolve_since_cursor(threshold) ==
    LET before == {i \in 1 .. Len(rows) : rows[i].time < threshold}
    IN  IF before = {} THEN 0 ELSE CHOOSE i \in before : \A j \in before : j <= i

\* The exit code of _cmd_audit_verify (an exception the walk lets through also
\* ends the command with 1).
_cmd_audit_verify(full, start) ==
    IF WalkRaises(full, start) \/ walk_chain(full, start) # {} THEN 1 ELSE 0

-----------------------------------------------------------------------------
(* Properties *)

Hash32OrBad == Hashes \cup {BadHash}
Rows == [time : Nat, content : Contents \cup {BadShape}, chain : Hash32OrBad]
Pending == [id : Nat \ {0}, time : Nat, content : Contents, chain : Hashes]
Inserted == [row : [time : Nat, content : Contents, chain : Hashes], by : Procs]

\* The table, the writers' fields and the threads' locals have their types, and
\* the history has one entry per row.
TypeOK ==
    /\ rows \in Seq(Rows)
    /\ written \in Seq(Inserted) /\ Len(written) = Len(rows)
    /\ synced \in 0 .. Len(rows) /\ now \in Nat
    /\ audit \in [Procs -> {"down", "on", "off"}]
    /\ tail \in [Procs -> Hashes]
    /\ lock \in [Procs -> Threads \cup {NoThread}]
    /\ pc \in [Workers -> {"idle", "insert", "committed"}]
    /\ pend \in [Workers -> Pending \cup {<<>>}]
    /\ acked \subseteq Pending

\* The rows that are no longer what some write() inserted.
Damaged == {i \in 1 .. Len(rows) : rows[i] # written[i].row}

\* With one serve process, whatever was dropped, crashed, lost to a power
\* failure and edited on disk, `audit verify --full` reports exactly the rows
\* whose fields were altered after write() inserted them.
FullWalkIsExact == walk_chain(TRUE, 0) = Damaged

\* `audit verify --since <time>`: as long as the clock did not step back between two
\* stored rows, an altered row recorded at or after the threshold is reported
\* whenever the threshold resolves to a cursor row.
SinceWalkCoversThreshold ==
    (\A i, j \in 1 .. Len(rows) : i <= j => rows[i].time <= rows[j].time) =>
        \A threshold \in 0 .. MaxTime :
            LET cursor == resolve_since_cursor(threshold)
            IN  cursor # 0 =>
                  \A i \in Damaged : rows[i].time >= threshold => i \in walk_chain(TRUE, cursor)

\* A row handed back by write() (whose fingerprint the client is then shown) was
\* inserted exactly as returned, under the id returned.
AckedRowsAreDurable ==
    \A r \in acked : r.id <= Len(written) /\ written[r.id].row = StoredRow(r)

WrittenHash(i) == IF i = 0 THEN GENESIS_CHAIN_HASH ELSE written[i].row.chain

\* With several processes the chain breaks, damage aside, only where a row was
\* inserted by another process than the row before it.
ForksOnlyBetweenProcesses ==
    \A i \in walk_chain(TRUE, 0) :
        {i - 1, i} \cap Damaged = {} => i > 1 /\ written[i].by # written[i - 1].by

\* Inside write() a thread holds its process's lock and a complete row; after
\* the commit that row is in the table.
WritersHoldTheLock ==
    \A w \in Workers : pc[w] # "idle" =>
        lock[w[1]] = w[2] /\ pend[w] \in Pending /\ audit[w[1]] = "on"

CommittedIsWritten ==
    \A w \in Workers : pc[w] = "committed" =>
        pend[w].id <= Len(written) /\ written[pend[w].id].row = StoredRow(pend[w])

\* What every step preserves whatever the number of processes.
SharedInv == TypeOK /\ WritersHoldTheLock /\ CommittedIsWritten /\ AckedRowsAreDurable

\* The hash of every inserted row commits to all the rows up to it.
Chained ==
    \A i \in 1 .. Len(written) :
        written[i].row.chain = [j \in 1 .. i |-> canonical_audit_row(j, written[j].row)]

\* Without damaged blobs the stored hashes and times are the inserted ones.
HashesKept ==
    \A i \in 1 .. Len(rows) :
        rows[i].chain = written[i].row.chain /\ rows[i].time = written[i].row.time

\* The cached tail is the last inserted hash, but between a commit and the
\* assignment that follows it; the row committed there is the last one, and a
\* row about to be inserted extends the tail.
TailCurrent ==
    \A p \in Procs :
        audit[p] = "on" /\ (\A t \in Threads : pc[<<p, t>>] # "committed")
            => tail[p] = WrittenHash(Len(written))

CommittedIsLast ==
    \A w \in Workers : pc[w] = "committed" => pend[w].id = Len(written)

PendingExtendsTail ==
    \A w \in Workers : pc[w] = "insert" =>
        /\ tail[w[1]] = WrittenHash(Len(written))
        /\ pend[w].id = Len(written) + 1
        /\ pend[w].chain = compute_chain_hash(tail[w[1]], canonical_audit_row(pend[w].id, pend[w]))

\* What every step preserves when a single process writes.
SoloInv ==
    /\ SharedInv /\ Chained /\ HashesKept
    /\ TailCurrent /\ CommittedIsLast /\ PendingExtendsTail

\* Several processes: a row inserted right after one of the same process, and the
\* first row of all, extend the hash of the row before them.
OwnRowsLinked ==
    \A i \in 1 .. Len(written) :
        (i > 1 => written[i].by = written[i - 1].by) =>
            written[i].row.chain =
                compute_chain_hash(WrittenHash(i - 1), canonical_audit_row(i, written[i].row))

\* The last row is p's, or there is none: nobody has written behind p's back.
Undisturbed(p) == Len(written) > 0 => written[Len(written)].by = p

\* While nobody has, p's cached tail is the last inserted hash and the row p has
\* committed but not yet returned is the last one.
OwnTailCurrent ==
    \A p \in Procs :
        audit[p] = "on" /\ Undisturbed(p) /\ (\A t \in Threads : pc[<<p, t>>] # "committed")
            => tail[p] = WrittenHash(Len(written))

OwnCommitIsLast ==
    \A w \in Workers :
        pc[w] = "committed" /\ Undisturbed(w[1]) => pend[w].id = Len(written)

PendingHashesTail ==
    \A w \in Workers : pc[w] = "insert" =>
        pend[w].chain = compute_chain_hash(tail[w[1]], canonical_audit_row(pend[w].id, pend[w]))

\* A stored hash is the inserted one or a blob of the wrong length.
HashesKeptOrBad ==
    \A i \in 1 .. Len(rows) : rows[i].chain \in {written[i].row.chain, BadHash}

\* What every step preserves about the links, whatever the number of processes.
ForkInv ==
    /\ SharedInv /\ OwnRowsLinked /\ OwnTailCurrent
    /\ OwnCommitIsLast /\ PendingHashesTail /\ HashesKeptOrBad

\* The clock and the rows under way stay within the clock's bound.
ClockBounded ==
    now <= MaxTime /\ \A w \in Workers : pc[w] = "insert" => pend[w].time <= MaxTime

\* The inserted rows and the stored tail implement the append-only log.
Log == INSTANCE AuditLog WITH
    Entries <- (0 .. MaxTime) \X Contents,
    log <- [i \in 1 .. Len(written) |-> canonical_audit_row(i, written[i].row)],
    head <- StoredTail

\* With one serve process and stored hashes left alone, every step of the writers is
\* an append whose hash commits to the whole log, a suffix lost to a power failure,
\* or invisible.
ImplementsLog == Log!Spec
=============================================================================
