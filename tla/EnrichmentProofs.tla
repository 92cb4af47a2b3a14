-------------------------- MODULE EnrichmentProofs --------------------------
(***************************************************************************)
(* Proofs about EnrichmentPipeline, for any number of columns, any routing *)
(* of columns to tiers, any concurrency, cap and call price.               *)
(***************************************************************************)
EXTENDS EnrichmentPipeline, FiniteSetTheorems, SequenceTheorems, WellFoundedInduction, TLAPS

(* The inductive invariant. *)

Places == 1 .. Len(ready)

\* The step a queue entry runs is the one its task is at.
QueueFitsTasks ==
    \A i \in Places :
        LET c == ready[i][2]
        IN  /\ ready[i][1] = "start" => task[c] = "new"
            /\ ready[i][1] = "wake" => task[c] = "woken"
            /\ ready[i][1] = "resume" => task[c] = "calling" /\ thread[c] \in {"ok", "error"}
            /\ ready[i][1] = "abort" => task[c] = "failed"

QueueHasNoRepeats == \A i, j \in Places : ready[i] = ready[j] => i = j

\* The first steps of the tasks run before anything else; until then nothing was
\* recorded, so that no cap check fails and no task has failed.
StartsRunFirst ==
    /\ \A i, j \in Places : i < j /\ ready[j][1] = "start" => ready[i][1] = "start"
    /\ (\E i \in Places : ready[i][1] = "start") =>
            spent < Cap /\ \A c \in Columns : task[c] # "failed"

\* The group has been aborted, or had nothing left to abort.
Ended == ready = <<>> /\ \A c \in Columns : task[c] \in {"done", "failed", "cancelled"}

Cancelled == \E c \in Columns : task[c] = "cancelled"
Failed == \E c \in Columns : task[c] = "failed"

FailureAborts ==
    /\ Cancelled => Ended
    /\ Failed => Ended \/ \E i \in Places : ready[i][1] = "abort"

\* A semaphore's waiters are waiting tasks of its tier, each once.
WaitersWait ==
    ~Cancelled => \A t \in Tiers :
        /\ \A i \in 1 .. Len(waiters[t]) :
                task[waiters[t][i]] = "waiting" /\ Tier[waiters[t][i]] = t
        /\ \A i, j \in 1 .. Len(waiters[t]) : waiters[t][i] = waiters[t][j] => i = j

\* Only a task inside its semaphore has a call in the executor.
CallsBelongToTasks ==
    \A c \in Columns :
        /\ task[c] \in {"none", "new", "waiting", "woken"} => thread[c] = "none"
        /\ thread[c] \in {"queued", "running"} => task[c] \in {"calling", "cancelled"}

\* The tasks that hold a permit of tier t, one handed over by a release included.
Holders(t) == {c \in Columns : Tier[c] = t /\ task[c] \in {"woken", "calling"}}

PermitsAreCounted ==
    ~Cancelled => \A t \in Tiers : permits[t] + Cardinality(Holders(t)) = Concurrency[t]

\* The calls of the batch that are or may yet be charged and are not recorded: the ones
\* issued, and the ones woken tasks may issue before the first queued abort runs.
Issued == {c \in Columns : thread[c] # "none" /\ task[c] # "done"}
WokenInTime ==
    {c \in Columns : \E i \in Places : /\ ready[i] = <<"wake", c>>
                                       /\ \A j \in 1 .. i : ready[j][1] # "abort"}
LoadBounded == Cardinality(Issued \cup WokenInTime) <= N + 1

\* What may still be recorded cannot carry the total past the bound.
Calling == {c \in Columns : task[c] = "calling"}
RecordedBounded == ledger + Cardinality(Calling) * MaxCost <= Cap - 1 + N * MaxCost

\* The provider charged, beyond what the ledger records, the calls of this batch
\* that began and were not recorded: f is the running sum of their costs.
Begun == {c \in Columns : thread[c] \in {"running", "ok", "error"} /\ task[c] # "done"}
Price(c) == IF c \in Begun THEN cost[c] ELSE 0
ChargesAddUp ==
    \E f \in [0 .. Cols -> Int] :
        /\ f[0] = 0 /\ f[Cols] = billed - ledger - base
        /\ \A i \in 1 .. Cols : f[i] = f[i - 1] + Price(i)

\* A batch is entered only below the cap.
BatchInv ==
    /\ Cap > 0
    /\ QueueFitsTasks /\ QueueHasNoRepeats /\ StartsRunFirst
    /\ FailureAborts /\ WaitersWait /\ CallsBelongToTasks
    /\ PermitsAreCounted /\ LoadBounded /\ RecordedBounded /\ ChargesAddUp

TotalIsRecorded == spent = ledger /\ base >= 0

IInv ==
    /\ TypeOK /\ TotalIsRecorded /\ OvershootBounded /\ RateLimitRespected
    /\ phase = "batch" => BatchInv

-----------------------------------------------------------------------------
(* Sets of columns, queues and sums. *)

LEMMA ColumnSet ==
    ASSUME NEW S, S \subseteq Columns
    PROVE  IsFiniteSet(S) /\ Cardinality(S) \in Nat
<1>1. IsFiniteSet(Columns)
    BY EnrichmentAssumption, FS_Interval DEF Columns
<1>2. IsFiniteSet(S)
    BY <1>1, FS_Subset
<1> QED BY <1>2, FS_CardinalityType

LEMMA FewerColumns ==
    ASSUME NEW S, NEW T, S \subseteq T, T \subseteq Columns
    PROVE  Cardinality(S) <= Cardinality(T)
BY ColumnSet, FS_Subset

LEMMA OneColumnMore ==
    ASSUME NEW S, S \subseteq Columns, NEW c \in Columns
    PROVE  /\ Cardinality(S \cup {c}) <= Cardinality(S) + 1
           /\ c \notin S => Cardinality(S \cup {c}) = Cardinality(S) + 1
<1>1. IsFiniteSet(S) /\ Cardinality(S) \in Nat
    BY ColumnSet
<1>2. CASE c \in S
    <2>1. S \cup {c} = S
        BY <1>2
    <2>2. Cardinality(S \cup {c}) = Cardinality(S)
        BY <2>1
    <2> QED BY <1>1, <1>2, <2>2
<1>3. CASE c \notin S
    BY <1>1, <1>3, FS_AddElement
<1> QED BY <1>2, <1>3

LEMMA OneColumnLess ==
    ASSUME NEW S, S \subseteq Columns, NEW c \in S
    PROVE  Cardinality(S \ {c}) = Cardinality(S) - 1 /\ Cardinality(S) > 0
<1>1. IsFiniteSet(S) /\ Cardinality(S) \in Nat
    BY ColumnSet
<1>2. Cardinality(S \ {c}) = Cardinality(S) - 1
    BY <1>1, FS_RemoveElement
<1>3. Cardinality(S \ {c}) \in Nat
    BY ColumnSet
<1> QED BY <1>1, <1>2, <1>3

\* The head leaves the queue and new entries go to its end.
LEMMA QueueMoves ==
    ASSUME NEW S, NEW q \in Seq(S), q # <<>>, NEW ext \in Seq(S)
    PROVE  LET r == Tail(q) \o ext
           IN  /\ r \in Seq(S) /\ Len(q) > 0 /\ Len(r) = Len(q) - 1 + Len(ext)
               /\ \A i \in 1 .. Len(q) - 1 : r[i] = q[i + 1]
               /\ \A i \in 1 .. Len(ext) : r[Len(q) - 1 + i] = ext[i]
               /\ \A i \in Len(q) .. Len(r) : r[i] = ext[i - Len(q) + 1]
<1> DEFINE r == Tail(q) \o ext
<1>1. /\ Tail(q) \in Seq(S) /\ Len(Tail(q)) = Len(q) - 1 /\ Len(q) \in Nat /\ Len(q) > 0
      /\ \A i \in 1 .. Len(q) - 1 : Tail(q)[i] = q[i + 1]
    OBVIOUS
<1>2. /\ r \in Seq(S) /\ Len(r) = Len(q) - 1 + Len(ext) /\ Len(ext) \in Nat
      /\ \A i \in 1 .. Len(q) - 1 + Len(ext) :
            r[i] = IF i <= Len(q) - 1 THEN Tail(q)[i] ELSE ext[i - (Len(q) - 1)]
    BY <1>1, ConcatProperties
<1> HIDE DEF r
<1>3. \A i \in 1 .. Len(q) - 1 : r[i] = q[i + 1]
    <2> SUFFICES ASSUME NEW i \in 1 .. Len(q) - 1 PROVE r[i] = q[i + 1]
        OBVIOUS
    <2>1. i \in 1 .. Len(q) - 1 + Len(ext) /\ i <= Len(q) - 1
        BY <1>1, <1>2
    <2> QED BY <1>1, <1>2, <2>1
<1>4. \A i \in 1 .. Len(ext) : r[Len(q) - 1 + i] = ext[i]
    <2> SUFFICES ASSUME NEW i \in 1 .. Len(ext) PROVE r[Len(q) - 1 + i] = ext[i]
        OBVIOUS
    <2> DEFINE n == Len(q) - 1 + i
    <2>1. n \in 1 .. Len(q) - 1 + Len(ext) /\ ~(n <= Len(q) - 1) /\ n - (Len(q) - 1) = i
        BY <1>1, <1>2
    <2> HIDE DEF n
    <2>2. r[n] = ext[n - (Len(q) - 1)]
        BY <1>2, <2>1
    <2>3. r[n] = ext[i]
        BY <2>1, <2>2
    <2> QED BY <2>3 DEF n
<1>5. \A i \in Len(q) .. Len(r) : r[i] = ext[i - Len(q) + 1]
    <2> SUFFICES ASSUME NEW i \in Len(q) .. Len(r) PROVE r[i] = ext[i - Len(q) + 1]
        OBVIOUS
    <2>1. i \in 1 .. Len(q) - 1 + Len(ext) /\ ~(i <= Len(q) - 1) /\ i - (Len(q) - 1) = i - Len(q) + 1
        BY <1>1, <1>2
    <2> QED BY <1>2, <2>1
<1> QED BY <1>1, <1>2, <1>3, <1>4, <1>5 DEF r

\* Every non-empty set of numbers has a least element.
LEMMA LeastNatural ==
    ASSUME NEW S, S \subseteq Nat, S # {}
    PROVE  \E n \in S : \A m \in S : n <= m
<1> DEFINE R == {pair \in Nat \X Nat : pair[1] < pair[2]}
<1>1. IsWellFoundedOn(R, Nat)
    BY NatLessThanWellFounded DEF OpToRel
<1>2. \A x, y \in Nat : <<x, y>> \in R <=> x < y
    OBVIOUS
<1> HIDE DEF R
<1>3. PICK x \in S : \A y \in S : <<y, x>> \notin R
    BY <1>1, WFMin
<1>4. \A y \in S : y \in Nat /\ x \in Nat /\ ~(y < x)
    BY <1>2, <1>3
<1>5. \A y \in S : x <= y
    BY <1>4
<1> QED BY <1>5

\* A running sum of prices between 0 and MaxCost, none outside B, is between 0 and
\* MaxCost times the size of B.
LEMMA SumBound ==
    ASSUME NEW f \in [0 .. Cols -> Int], NEW B, B \subseteq Columns, f[0] = 0,
           \A i \in 1 .. Cols : \/ i \in B /\ f[i] - f[i - 1] \in Costs
                                \/ i \notin B /\ f[i] = f[i - 1]
    PROVE  0 <= f[Cols] /\ f[Cols] <= Cardinality(B) * MaxCost
<1> DEFINE Upto(n) == B \cap (1 .. n)
           Good(n) == 0 <= f[n] /\ f[n] <= Cardinality(Upto(n)) * MaxCost
           Bad == {n \in 0 .. Cols : ~Good(n)}
<1> USE EnrichmentAssumption
<1>1. \A n \in 0 .. Cols : Upto(n) \subseteq Columns /\ Cardinality(Upto(n)) \in Nat
    BY ColumnSet DEF Columns
<1>2. ASSUME Bad # {} PROVE FALSE
    <2>1. Bad \subseteq Nat
        OBVIOUS
    <2>2. PICK n \in Bad : \A m \in Bad : n <= m
        <3> HIDE DEF Bad
        <3> QED BY <1>2, <2>1, LeastNatural
    <2>3. n # 0
        <3>1. Upto(0) = {}
            OBVIOUS
        <3>2. Good(0)
            BY <3>1, FS_EmptySet
        <3> QED BY <3>2
    <2>4. n \in 1 .. Cols /\ n - 1 \in 0 .. Cols
        BY <2>3
    <2>5. Good(n - 1)
        <3>1. ~(n <= n - 1)
            BY <2>4
        <3> QED BY <2>2, <2>4, <3>1
    <2> DEFINE k == Cardinality(Upto(n - 1))
    <2>6. k \in Nat /\ f[n] \in Int /\ f[n - 1] \in Int /\ n \in Columns /\ Upto(n - 1) \subseteq Columns
        BY <1>1, <2>4 DEF Columns
    <2>7. CASE n \in B
        <3>1. Upto(n) = Upto(n - 1) \cup {n} /\ n \notin Upto(n - 1)
            BY <2>4, <2>7
        <3>2. Cardinality(Upto(n)) = k + 1
            <4> HIDE DEF Upto
            <4> QED BY <3>1, <2>6, OneColumnMore
        <3>3. f[n] - f[n - 1] \in Costs
            BY <2>4, <2>7
        <3>4. f[n - 1] <= k * MaxCost /\ 0 <= f[n - 1]
            BY <2>5
        <3> HIDE DEF k
        <3>5. (k + 1) * MaxCost = k * MaxCost + MaxCost /\ k * MaxCost \in Int
            BY <2>6
        <3>6. 0 <= f[n] /\ f[n] <= (k + 1) * MaxCost
            BY <2>6, <3>3, <3>4, <3>5, SMTT(30) DEF Costs
        <3>7. Good(n)
            BY <3>2, <3>6
        <3> QED BY <3>7
    <2>8. CASE n \notin B
        <3>1. Upto(n) = Upto(n - 1)
            BY <2>4, <2>8
        <3>2. f[n] = f[n - 1]
            BY <2>4, <2>8
        <3> QED BY <2>5, <3>1, <3>2
    <2> QED BY <2>7, <2>8
<1>3. Cols \in 0 .. Cols /\ Upto(Cols) = B
    <2>1. Columns = 1 .. Cols /\ Cols \in 0 .. Cols
        BY DEF Columns
    <2> QED BY <2>1
<1>4. Good(Cols)
    BY <1>2, <1>3
<1> QED BY <1>3, <1>4

-----------------------------------------------------------------------------
(* What the invariant of a batch gives. *)

\* The tasks inside a semaphore are at most N.
LEMMA HoldersBounded ==
    ASSUME TypeOK, PermitsAreCounted, ~Cancelled
    PROVE  LET H == Holders("default") \cup Holders("cryptic")
           IN  /\ H \subseteq Columns /\ Cardinality(H) <= N
               /\ \A c \in Columns : task[c] \in {"woken", "calling"} => c \in H
<1> DEFINE D == Holders("default")
           C == Holders("cryptic")
<1>1. D \subseteq Columns /\ C \subseteq Columns
    BY DEF Holders
<1>2. permits["default"] + Cardinality(D) = Concurrency["default"]
      /\ permits["cryptic"] + Cardinality(C) = Concurrency["cryptic"]
    BY DEF PermitsAreCounted, Tiers
<1>3. \A c \in Columns : task[c] \in {"woken", "calling"} => c \in D \cup C
    BY EnrichmentAssumption DEF Holders, Columns
<1> HIDE DEF D, C
<1>4. /\ IsFiniteSet(D) /\ Cardinality(D) \in Nat
      /\ IsFiniteSet(C) /\ Cardinality(C) \in Nat
      /\ Cardinality(D \cap C) \in Nat
    BY <1>1, ColumnSet
<1>5. Cardinality(D \cup C) = Cardinality(D) + Cardinality(C) - Cardinality(D \cap C)
    BY <1>4, FS_Union
<1>6. /\ permits["default"] \in Nat /\ permits["cryptic"] \in Nat
      /\ Concurrency["default"] \in Nat /\ Concurrency["cryptic"] \in Nat
    BY EnrichmentAssumption DEF TypeOK, Tiers
<1>7. Cardinality(D \cup C) <= N
    BY <1>2, <1>4, <1>5, <1>6 DEF N
<1> QED BY <1>1, <1>3, <1>7 DEF D, C

\* While the group is not aborted, the calls of a tier belong to holders of its permits.
LEMMA PermitsLimitCalls ==
    TypeOK /\ CallsBelongToTasks /\ PermitsAreCounted /\ ~Cancelled => RateLimitRespected
<1> SUFFICES ASSUME TypeOK, CallsBelongToTasks, PermitsAreCounted, ~Cancelled, NEW t \in Tiers
             PROVE  Cardinality({c \in Columns : Tier[c] = t /\ thread[c] \in {"queued", "running"}})
                        <= Concurrency[t]
    BY DEF RateLimitRespected
<1> DEFINE F == {c \in Columns : Tier[c] = t /\ thread[c] \in {"queued", "running"}}
           H == Holders(t)
<1>1. F \subseteq H
    BY DEF CallsBelongToTasks, Holders, Cancelled
<1>2. H \subseteq Columns
    BY DEF Holders
<1>3. permits[t] + Cardinality(H) = Concurrency[t] /\ permits[t] \in Nat /\ Concurrency[t] \in Nat
    BY EnrichmentAssumption DEF PermitsAreCounted, TypeOK, Tiers
<1> HIDE DEF F, H
<1>4. Cardinality(F) <= Cardinality(H) /\ Cardinality(F) \in Nat /\ Cardinality(H) \in Nat
    BY <1>1, <1>2, FewerColumns, ColumnSet
<1>5. Cardinality(F) <= Concurrency[t]
    BY <1>3, <1>4
<1> QED BY <1>5 DEF F

\* The recorded total, the calls not yet recorded and the charges not recorded bound
\* what a batch spends.
LEMMA BatchOvershoot ==
    TypeOK /\ TotalIsRecorded /\ Cap > 0 /\ LoadBounded /\ RecordedBounded /\ ChargesAddUp
        => OvershootBounded
<1> SUFFICES ASSUME TypeOK, TotalIsRecorded, Cap > 0, LoadBounded, RecordedBounded, ChargesAddUp
             PROVE  OvershootBounded
    OBVIOUS
<1>1. /\ N \in Nat /\ MaxCost \in Nat /\ Cap \in Nat /\ ledger \in Nat /\ billed \in Nat /\ base \in Nat
    BY EnrichmentAssumption DEF N, TypeOK, TotalIsRecorded
<1>2. ledger <= Cap - 1 + N * MaxCost
    <2> DEFINE k == Cardinality(Calling)
    <2>1. k \in Nat
        BY ColumnSet DEF Calling
    <2>2. ledger + k * MaxCost <= Cap - 1 + N * MaxCost
        BY DEF RecordedBounded
    <2> HIDE DEF k
    <2>3. k * MaxCost \in Nat /\ N * MaxCost \in Nat
        BY <1>1, <2>1
    <2> QED BY <1>1, <2>2, <2>3
<1>3. PICK f \in [0 .. Cols -> Int] :
        /\ f[0] = 0 /\ f[Cols] = billed - ledger - base
        /\ \A i \in 1 .. Cols : f[i] = f[i - 1] + Price(i)
    BY DEF ChargesAddUp
<1>4. \A i \in 1 .. Cols : \/ i \in Begun /\ f[i] - f[i - 1] \in Costs
                           \/ i \notin Begun /\ f[i] = f[i - 1]
    <2> SUFFICES ASSUME NEW i \in 1 .. Cols
                 PROVE  \/ i \in Begun /\ f[i] - f[i - 1] \in Costs
                        \/ i \notin Begun /\ f[i] = f[i - 1]
        OBVIOUS
    <2>1. f[i] = f[i - 1] + Price(i) /\ f[i] \in Int /\ f[i - 1] \in Int
        BY <1>3, EnrichmentAssumption
    <2>2. cost[i] \in Costs /\ cost[i] \in Int
        BY EnrichmentAssumption DEF TypeOK, Columns, Costs
    <2> QED BY <2>1, <2>2 DEF Price
<1> DEFINE k == Cardinality(Begun)
<1>5. Begun \subseteq Columns /\ Begun \subseteq Issued \cup WokenInTime /\ Issued \cup WokenInTime \subseteq Columns
    BY DEF Begun, Issued, WokenInTime
<1>6. k <= N + 1 /\ k \in Nat
    <2>1. k <= Cardinality(Issued \cup WokenInTime) /\ k \in Nat /\ Cardinality(Issued \cup WokenInTime) \in Nat
        BY <1>5, FewerColumns, ColumnSet
    <2> QED BY <1>1, <2>1 DEF LoadBounded
<1>7. 0 <= f[Cols] /\ f[Cols] <= k * MaxCost
    BY <1>3, <1>4, <1>5, SumBound
<1> HIDE DEF k
<1>8. k * MaxCost <= (N + 1) * MaxCost
    BY <1>1, <1>6
<1>9. k * MaxCost \in Nat /\ (N + 1) * MaxCost \in Nat
    BY <1>1, <1>6
<1> QED BY <1>1, <1>2, <1>3, <1>7, <1>8, <1>9 DEF OvershootBounded

\* Sums over the same calls at the same prices.
LEMMA SameCharges ==
    ASSUME ChargesAddUp, Begun' = Begun, UNCHANGED <<cost, billed, ledger, base>>
    PROVE  ChargesAddUp'
BY DEF ChargesAddUp, Price

\* No two entries of the queue are about the same task, and none about a waiting one.
LEMMA QueueColumns ==
    ASSUME TypeOK, QueueFitsTasks, QueueHasNoRepeats, NEW i \in Places
    PROVE  /\ ready[i] \in Steps \X Columns /\ ready[i][1] \in Steps /\ ready[i][2] \in Columns
           /\ ready[i] = <<ready[i][1], ready[i][2]>>
           /\ \A j \in Places : ready[j][2] = ready[i][2] => i = j
           /\ task[ready[i][2]] \notin {"waiting", "done", "cancelled"}
<1>1. \A j \in Places : /\ ready[j] \in Steps \X Columns /\ ready[j][1] \in Steps /\ ready[j][2] \in Columns
                        /\ ready[j] = <<ready[j][1], ready[j][2]>>
    BY DEF TypeOK, Places
<1>2. ASSUME NEW j \in Places, ready[j][2] = ready[i][2] PROVE i = j
    <2>1. ready[j][1] = ready[i][1]
        BY <1>1, <1>2 DEF QueueFitsTasks, Steps
    <2>2. ready[i] = ready[j]
        BY <1>1, <1>2, <2>1
    <2> QED BY <2>2 DEF QueueHasNoRepeats
<1>3. task[ready[i][2]] \notin {"waiting", "done", "cancelled"}
    BY <1>1 DEF QueueFitsTasks, Steps
<1> QED BY <1>1, <1>2, <1>3

\* A step of the loop that changes only its own task and, perhaps, wakes a waiting
\* one keeps the queue consistent.
LEMMA LoopQueue ==
    ASSUME TypeOK, QueueFitsTasks, QueueHasNoRepeats, StartsRunFirst,
           NEW c \in Columns, NEW step \in Steps, At(step, c),
           NEW ext \in Seq(Steps \X Columns), ready' = Tail(ready) \o ext,
           \A d \in Columns : d # c /\ task[d] # "waiting" =>
                task'[d] = task[d] /\ thread'[d] = thread[d],
           \A i \in 1 .. Len(ext) :
                /\ \/ ext[i][1] = "wake" /\ task'[ext[i][2]] = "woken"
                   \/ ext[i][1] = "abort" /\ task'[ext[i][2]] = "failed"
                /\ ext[i][2] = c \/ task[ext[i][2]] = "waiting",
           \A i, j \in 1 .. Len(ext) : ext[i] = ext[j] => i = j,
           step = "start" => /\ spent' = spent
                             /\ \A d \in Columns : task'[d] = "failed" => task[d] = "failed"
    PROVE  QueueFitsTasks' /\ QueueHasNoRepeats' /\ StartsRunFirst'
<1> DEFINE q == ready
           m == Len(ready)
           r == Tail(ready) \o ext
<1>1. /\ q \in Seq(Steps \X Columns) /\ q # <<>> /\ m \in Nat /\ m > 0 /\ Len(ext) \in Nat
      /\ q[1] = <<step, c>> /\ 1 \in Places /\ Places = 1 .. m
    BY DEF At, TypeOK, Places
<1>2. /\ r \in Seq(Steps \X Columns) /\ Len(r) = m - 1 + Len(ext)
      /\ \A i \in 1 .. m - 1 : r[i] = q[i + 1]
      /\ \A i \in m .. Len(r) : r[i] = ext[i - m + 1]
    BY <1>1, QueueMoves
<1> HIDE DEF r
<1>3. ready' = r /\ Places' = 1 .. Len(r) /\ Len(r) \in Nat
    BY <1>1, <1>2 DEF Places, r
<1>4. \A i \in 1 .. m - 1 : i + 1 \in Places /\ i + 1 # 1
    BY <1>1
<1>5. \A i \in m .. Len(r) : i - m + 1 \in 1 .. Len(ext)
    BY <1>1, <1>2
<1>6. \A i \in Places : i # 1 => q[i][2] # c
    BY <1>1, QueueColumns
<1>7. ASSUME NEW i \in 1 .. m - 1
      PROVE  /\ r[i] = q[i + 1] /\ r[i][2] # c /\ r[i][2] \in Columns /\ task[r[i][2]] # "waiting"
             /\ task'[r[i][2]] = task[r[i][2]] /\ thread'[r[i][2]] = thread[r[i][2]]
    <2>1. r[i] = q[i + 1] /\ i + 1 \in Places /\ i + 1 # 1
        BY <1>2, <1>4
    <2>2. q[i + 1][2] \in Columns /\ task[q[i + 1][2]] # "waiting" /\ q[i + 1][2] # c
        BY <2>1, <1>6, QueueColumns
    <2> QED BY <2>1, <2>2
<1>8. ASSUME NEW i \in m .. Len(r)
      PROVE  \E k \in 1 .. Len(ext) :
                /\ k = i - m + 1 /\ r[i] = ext[k] /\ r[i][1] \in {"wake", "abort"}
                /\ r[i][1] = "wake" => task'[r[i][2]] = "woken"
                /\ r[i][1] = "abort" => task'[r[i][2]] = "failed"
                /\ r[i][2] = c \/ task[r[i][2]] = "waiting"
    <2>1. PICK k \in 1 .. Len(ext) : k = i - m + 1 /\ r[i] = ext[k]
        BY <1>2, <1>5
    <2>2. /\ \/ ext[k][1] = "wake" /\ task'[ext[k][2]] = "woken"
             \/ ext[k][1] = "abort" /\ task'[ext[k][2]] = "failed"
          /\ ext[k][2] = c \/ task[ext[k][2]] = "waiting"
        BY Zenon
    <2>3. "wake" # "abort"
        OBVIOUS
    <2> QED BY <2>1, <2>2, <2>3, ZenonT(60)
<1>9. \A i \in 1 .. Len(r) : i \in 1 .. m - 1 \/ i \in m .. Len(r)
    BY <1>1, <1>3
<1>10. QueueFitsTasks'
    <2> SUFFICES ASSUME NEW i \in 1 .. Len(r)
                 PROVE  /\ r[i][1] = "start" => task'[r[i][2]] = "new"
                        /\ r[i][1] = "wake" => task'[r[i][2]] = "woken"
                        /\ r[i][1] = "resume" => task'[r[i][2]] = "calling" /\ thread'[r[i][2]] \in {"ok", "error"}
                        /\ r[i][1] = "abort" => task'[r[i][2]] = "failed"
        BY <1>3 DEF QueueFitsTasks
    <2>1. CASE i \in 1 .. m - 1
        <3>1. i + 1 \in Places
            BY <2>1, <1>4
        <3> QED BY <2>1, <3>1, <1>7, SMTT(30) DEF QueueFitsTasks
    <2>2. CASE i \in m .. Len(r)
        BY <2>2, <1>8
    <2> QED BY <2>1, <2>2, <1>9
<1>11. QueueHasNoRepeats'
    <2> SUFFICES ASSUME NEW i \in 1 .. Len(r), NEW j \in 1 .. Len(r), r[i] = r[j]
                 PROVE  i = j
        BY <1>3 DEF QueueHasNoRepeats
    <2>1. CASE i \in 1 .. m - 1 /\ j \in 1 .. m - 1
        <3>1. q[i + 1] = q[j + 1] /\ i + 1 \in Places /\ j + 1 \in Places
            BY <2>1, <1>4, <1>7
        <3>2. i + 1 = j + 1
            BY <3>1 DEF QueueHasNoRepeats
        <3> QED BY <3>2
    <2>2. CASE i \in m .. Len(r) /\ j \in m .. Len(r)
        <3>1. PICK k \in 1 .. Len(ext) : k = i - m + 1 /\ r[i] = ext[k]
            BY <2>2, <1>8
        <3>2. PICK l \in 1 .. Len(ext) : l = j - m + 1 /\ r[j] = ext[l]
            BY <2>2, <1>8
        <3>3. ext[k] = ext[l]
            BY <3>1, <3>2
        <3>4. k = l
            BY <3>3
        <3> QED BY <3>1, <3>2, <3>4, <1>1, <1>3
    <2>3. CASE (i \in 1 .. m - 1 /\ j \in m .. Len(r)) \/ (j \in 1 .. m - 1 /\ i \in m .. Len(r))
        <3>1. \A k \in 1 .. m - 1 : r[k][2] # c /\ task[r[k][2]] # "waiting"
            BY <1>7
        <3>2. \A k \in m .. Len(r) : r[k][2] = c \/ task[r[k][2]] = "waiting"
            BY <1>8
        <3> QED BY <2>3, <3>1, <3>2, SMTT(30)
    <2> QED BY <2>1, <2>2, <2>3, <1>9
<1>12. StartsRunFirst'
    <2>1. ASSUME NEW j \in 1 .. Len(r), r[j][1] = "start"
          PROVE  j \in 1 .. m - 1 /\ step = "start" /\ \A i \in 1 .. j : r[i][1] = "start"
        <3>1. j \in 1 .. m - 1
            BY <2>1, <1>8, <1>9
        <3>2. q[j + 1][1] = "start" /\ j + 1 \in Places
            BY <2>1, <3>1, <1>4, <1>7
        <3>3. \A k \in Places : k < j + 1 => q[k][1] = "start"
            BY <3>2 DEF StartsRunFirst
        <3>4. step = "start"
            BY <3>1, <3>3, <1>1
        <3>5. \A i \in 1 .. j : r[i][1] = "start"
            <4> SUFFICES ASSUME NEW i \in 1 .. j PROVE r[i][1] = "start"
                OBVIOUS
            <4>1. i \in 1 .. m - 1 /\ i + 1 \in Places /\ (i = j \/ i + 1 < j + 1)
                BY <3>1, <1>1
            <4> QED BY <2>1, <3>3, <4>1, <1>7
        <3> QED BY <3>1, <3>4, <3>5
    <2>2. \A i, j \in 1 .. Len(r) : i < j /\ r[j][1] = "start" => r[i][1] = "start"
        <3> SUFFICES ASSUME NEW i \in 1 .. Len(r), NEW j \in 1 .. Len(r), i < j, r[j][1] = "start"
                     PROVE  r[i][1] = "start"
            OBVIOUS
        <3>1. i \in 1 .. j
            BY <1>3
        <3> QED BY <3>1, <2>1
    <2>3. ASSUME NEW j \in 1 .. Len(r), r[j][1] = "start"
          PROVE  spent' < Cap /\ \A d \in Columns : task'[d] # "failed"
        <3>1. step = "start"
            BY <2>1, <2>3
        <3>2. spent < Cap /\ \A d \in Columns : task[d] # "failed"
            BY <3>1, <1>1 DEF StartsRunFirst
        <3> QED BY <3>1, <3>2
    <2>4. ASSUME NEW i \in Places', NEW j \in Places', i < j, ready'[j][1] = "start"
          PROVE  ready'[i][1] = "start"
        <3>1. i \in 1 .. Len(r) /\ j \in 1 .. Len(r) /\ r[j][1] = "start"
            BY <1>3, <2>4
        <3>2. r[i][1] = "start"
            BY <2>2, <2>4, <3>1, Zenon
        <3> QED BY <1>3, <3>2
    <2>5. ASSUME NEW j \in Places', ready'[j][1] = "start"
          PROVE  spent' < Cap /\ \A d \in Columns : task'[d] # "failed"
        <3>1. j \in 1 .. Len(r) /\ r[j][1] = "start"
            BY <1>3, <2>5
        <3> QED BY <2>3, <3>1
    <2> QED BY <2>4, <2>5, Zenon DEF StartsRunFirst
<1> QED BY <1>10, <1>11, <1>12

\* Until a task fails, the load is carried by the holders of permits.
LEMMA LoadOfHolders ==
    ASSUME TypeOK, QueueFitsTasks, CallsBelongToTasks, ~Cancelled, ~Failed
    PROVE  Issued \cup WokenInTime \subseteq {c \in Columns : task[c] \in {"woken", "calling"}}
<1>1. ASSUME NEW c \in Issued PROVE c \in Columns /\ task[c] = "calling"
    BY <1>1 DEF Issued, TypeOK, TaskStates, CallsBelongToTasks, Cancelled, Failed
<1>2. ASSUME NEW c \in WokenInTime PROVE c \in Columns /\ task[c] = "woken"
    <2>1. PICK i \in Places : ready[i] = <<"wake", c>>
        BY <1>2 DEF WokenInTime
    <2>2. ready[i][1] = "wake" /\ ready[i][2] = c
        BY <2>1
    <2> QED BY <1>2, <2>2 DEF QueueFitsTasks, WokenInTime
<1> QED BY <1>1, <1>2

LEMMA LoadWithoutFailure ==
    TypeOK /\ QueueFitsTasks /\ CallsBelongToTasks /\ PermitsAreCounted /\ ~Cancelled /\ ~Failed
        => LoadBounded
<1> SUFFICES ASSUME TypeOK, QueueFitsTasks, CallsBelongToTasks, PermitsAreCounted, ~Cancelled, ~Failed
             PROVE  LoadBounded
    OBVIOUS
<1> DEFINE L == Issued \cup WokenInTime
           H == Holders("default") \cup Holders("cryptic")
<1>1. H \subseteq Columns /\ Cardinality(H) <= N /\ L \subseteq H
    BY HoldersBounded, LoadOfHolders
<1> HIDE DEF L, H
<1>2. Cardinality(L) <= Cardinality(H) /\ Cardinality(L) \in Nat /\ Cardinality(H) \in Nat
    BY <1>1, FewerColumns, ColumnSet
<1>3. N \in Nat
    BY EnrichmentAssumption DEF N
<1>4. Cardinality(L) <= N + 1
    BY <1>1, <1>2, <1>3
<1> QED BY <1>4 DEF LoadBounded, L

\* Below the cap, the calls that hold a permit may all be recorded.
LEMMA RecordedBelowCap ==
    TypeOK /\ PermitsAreCounted /\ ~Cancelled /\ ledger < Cap => RecordedBounded
<1> SUFFICES ASSUME TypeOK, PermitsAreCounted, ~Cancelled, ledger < Cap PROVE RecordedBounded
    OBVIOUS
<1> DEFINE k == Cardinality(Calling)
           H == Holders("default") \cup Holders("cryptic")
<1>1. H \subseteq Columns /\ Cardinality(H) <= N /\ Calling \subseteq H
    BY HoldersBounded DEF Calling
<1> HIDE DEF H
<1>2. k <= N /\ k \in Nat /\ N \in Nat
    <2>1. k <= Cardinality(H) /\ k \in Nat /\ Cardinality(H) \in Nat
        BY <1>1, FewerColumns, ColumnSet
    <2>2. N \in Nat
        BY EnrichmentAssumption DEF N
    <2> QED BY <1>1, <2>1, <2>2
<1> HIDE DEF k
<1>3. MaxCost \in Nat /\ Cap \in Nat /\ ledger \in Nat
    BY EnrichmentAssumption DEF TypeOK
<1>4. k * MaxCost <= N * MaxCost /\ k * MaxCost \in Nat /\ N * MaxCost \in Nat
    BY <1>2, <1>3
<1>5. ledger + k * MaxCost <= Cap - 1 + N * MaxCost
    BY <1>3, <1>4
<1> QED BY <1>5 DEF RecordedBounded, k

\* Fewer calls at the same total.
LEMMA RecordedShrinks ==
    ASSUME TypeOK, RecordedBounded, Calling' \subseteq Calling, ledger' = ledger
    PROVE  RecordedBounded'
<1> DEFINE k == Cardinality(Calling)
           l == Cardinality(Calling')
<1>1. Calling \subseteq Columns
    BY DEF Calling
<1>2. l <= k /\ l \in Nat /\ k \in Nat
    BY <1>1, FewerColumns, ColumnSet
<1>3. ledger + k * MaxCost <= Cap - 1 + N * MaxCost
    BY DEF RecordedBounded
<1> HIDE DEF k, l
<1>4. MaxCost \in Nat /\ Cap \in Nat /\ ledger \in Nat /\ N \in Nat
    BY EnrichmentAssumption DEF TypeOK, N
<1>5. l * MaxCost <= k * MaxCost /\ l * MaxCost \in Nat /\ k * MaxCost \in Nat /\ N * MaxCost \in Nat
    BY <1>2, <1>4
<1>6. ledger + l * MaxCost <= Cap - 1 + N * MaxCost
    BY <1>3, <1>4, <1>5
<1> QED BY <1>6 DEF RecordedBounded, l, N

\* A smaller load.
LEMMA LoadShrinks ==
    ASSUME TypeOK, LoadBounded, (Issued \cup WokenInTime)' \subseteq Issued \cup WokenInTime
    PROVE  LoadBounded'
<1> DEFINE L == Issued \cup WokenInTime
           M == (Issued \cup WokenInTime)'
<1>1. L \subseteq Columns
    BY DEF Issued, WokenInTime
<1>2. Cardinality(M) <= Cardinality(L) /\ Cardinality(M) \in Nat /\ Cardinality(L) \in Nat
    BY <1>1, FewerColumns, ColumnSet
<1>3. N \in Nat /\ Cardinality(L) <= N + 1
    BY EnrichmentAssumption DEF N, LoadBounded
<1> HIDE DEF L, M
<1>4. Cardinality(M) <= N + 1
    BY <1>2, <1>3
<1> QED BY <1>4 DEF LoadBounded, M, N

\* A step of the loop other than an abort finds the group alive; once a failure has
\* queued an abort, nothing it queues is in time.
LEMMA LoopAlive ==
    ASSUME FailureAborts, NEW c \in Columns, NEW step, At(step, c)
    PROVE  ~Cancelled /\ ~Ended
BY DEF FailureAborts, Ended, At

LEMMA WokenShrinks ==
    ASSUME TypeOK, FailureAborts, Failed,
           NEW c \in Columns, NEW step \in Steps \ {"abort"}, At(step, c),
           NEW ext \in Seq(Steps \X Columns), ready' = Tail(ready) \o ext
    PROVE  /\ WokenInTime' \subseteq WokenInTime
           /\ \E i \in Places' : ready'[i][1] = "abort"
<1> DEFINE q == ready
           m == Len(ready)
           r == Tail(ready) \o ext
<1>1. /\ q \in Seq(Steps \X Columns) /\ q # <<>> /\ m \in Nat /\ m > 0 /\ Len(ext) \in Nat
      /\ q[1] = <<step, c>> /\ q[1][1] # "abort" /\ Places = 1 .. m
    BY DEF At, TypeOK, Places
<1>2. /\ r \in Seq(Steps \X Columns) /\ Len(r) = m - 1 + Len(ext)
      /\ \A i \in 1 .. m - 1 : r[i] = q[i + 1]
    BY <1>1, QueueMoves
<1> HIDE DEF r
<1>3. ready' = r /\ Places' = 1 .. Len(r) /\ Len(r) \in Nat
    BY <1>1, <1>2 DEF Places, r
<1>4. PICK k \in Places : q[k][1] = "abort"
    BY LoopAlive DEF FailureAborts
<1>5. k # 1 /\ k \in 2 .. m
    BY <1>1, <1>4
<1>6. r[k - 1][1] = "abort" /\ k - 1 \in 1 .. m - 1 /\ k - 1 \in 1 .. Len(r)
    <2>1. k - 1 \in 1 .. m - 1 /\ k - 1 + 1 = k /\ k - 1 \in 1 .. Len(r)
        BY <1>1, <1>2, <1>5
    <2> QED BY <1>2, <1>4, <2>1
<1>7. ASSUME NEW d \in WokenInTime' PROVE d \in WokenInTime
    <2>1. PICK i \in 1 .. Len(r) : r[i] = <<"wake", d>> /\ \A j \in 1 .. i : r[j][1] # "abort"
        BY <1>3, <1>7 DEF WokenInTime
    <2>2. i < k - 1
        BY <1>3, <1>6, <2>1
    <2>3. i \in 1 .. m - 1 /\ i + 1 \in Places
        BY <1>1, <1>6, <2>2
    <2>4. q[i + 1] = <<"wake", d>>
        BY <1>2, <2>1, <2>3
    <2>5. \A j \in 1 .. i + 1 : q[j][1] # "abort"
        <3> SUFFICES ASSUME NEW j \in 1 .. i + 1, j # 1 PROVE q[j][1] # "abort"
            BY <1>1
        <3>1. j - 1 \in 1 .. i /\ j - 1 \in 1 .. m - 1 /\ j - 1 + 1 = j
            BY <2>3
        <3>2. r[j - 1] = q[j - 1 + 1]
            BY <1>2, <3>1
        <3> QED BY <2>1, <3>1, <3>2
    <2> QED BY <1>7, <2>3, <2>4, <2>5 DEF WokenInTime
<1> QED BY <1>3, <1>6, <1>7

-----------------------------------------------------------------------------
(* The steps of a batch. *)

\* What the queue, the tasks, the semaphores and the executor keep.
LoopInv ==
    /\ QueueFitsTasks /\ QueueHasNoRepeats /\ StartsRunFirst /\ FailureAborts
    /\ WaitersWait /\ CallsBelongToTasks /\ PermitsAreCounted /\ LoadBounded

\* A release: the permit moves to the first waiter or back to the semaphore, and the
\* releasing task is done or has failed.
LEMMA ReleaseStep ==
    ASSUME TypeOK, LoopInv,
           NEW c \in Columns, NEW step \in {"wake", "resume"}, At(step, c),
           NEW next \in {<<>>, Raises(c)}, Release(c, Tail(ready), next), UNCHANGED thread
    PROVE  /\ ready' \in Seq(Steps \X Columns) /\ task' \in [Columns -> TaskStates]
           /\ permits' \in [Tiers -> Nat] /\ \A t \in Tiers : permits'[t] <= Concurrency[t]
           /\ waiters' \in [Tiers -> Seq(Columns)]
           /\ QueueFitsTasks' /\ QueueHasNoRepeats' /\ StartsRunFirst' /\ FailureAborts'
           /\ WaitersWait' /\ CallsBelongToTasks' /\ PermitsAreCounted'
           /\ TypeOK' => LoadBounded'
           /\ ~Cancelled' /\ Calling' = Calling \ {c}
           /\ task'[c] = (IF next = <<>> THEN "done" ELSE "failed")
           /\ \A d \in Columns : d # c => (task'[d] = "done" <=> task[d] = "done")
<1> USE DEF LoopInv
<1> DEFINE t == Tier[c]
           fin == IF next = <<>> THEN "done" ELSE "failed"
           S == Steps \X Columns
<1>0. /\ next \in Seq(S) /\ <<"abort", c>> \in S
      /\ \/ next = <<>> /\ Len(next) = 0 /\ fin = "done"
         \/ next = <<<<"abort", c>>>> /\ Len(next) = 1 /\ next[1] = <<"abort", c>> /\ fin = "failed"
    <2>1. <<"abort", c>> \in S
        BY DEF Steps
    <2>2. CASE next = <<>>
        BY <2>1, <2>2
    <2>3. CASE next = <<<<"abort", c>>>>
        <3>1. next # <<>> /\ Len(next) = 1 /\ next[1] = <<"abort", c>> /\ next \in Seq(S)
            BY <2>1, <2>3
        <3> QED BY <2>1, <2>3, <3>1
    <2> QED BY <2>2, <2>3 DEF Raises
<1>1. /\ ready \in Seq(S) /\ ready # <<>> /\ 1 \in Places /\ ready[1] = <<step, c>>
      /\ ready[1][1] = step /\ ready[1][2] = c /\ Tail(ready) \in Seq(S)
      /\ step \in Steps \ {"abort"} /\ t \in Tiers
    BY EnrichmentAssumption DEF At, TypeOK, Places, Steps, Columns, Tiers
<1>2. task[c] \in {"woken", "calling"} /\ ~Cancelled /\ ~Ended
    <2>1. task[c] \in {"woken", "calling"}
        BY <1>1 DEF QueueFitsTasks
    <2> QED BY <2>1, LoopAlive
<1>3. \A i \in Places : i # 1 => ready[i][1] # "start"
    BY <1>1 DEF StartsRunFirst, Places, TypeOK
<1>4. PICK W \in SUBSET Columns, ext \in Seq(S) :
        /\ ready' = Tail(ready) \o ext
        /\ \A d, e \in W : d = e
        /\ \A d \in W : task[d] = "waiting" /\ Tier[d] = t
        /\ task' = [d \in Columns |-> IF d = c THEN fin ELSE IF d \in W THEN "woken" ELSE task[d]]
        /\ \A i \in 1 .. Len(ext) : \/ ext[i][1] = "wake" /\ ext[i][2] \in W
                                    \/ ext[i] = <<"abort", c>> /\ fin = "failed"
        /\ \A i, j \in 1 .. Len(ext) : ext[i] = ext[j] => i = j
        /\ fin = "failed" => \E i \in 1 .. Len(ext) : ext[i][1] = "abort"
        /\ \/ /\ W = {} /\ waiters[t] = <<>> /\ UNCHANGED waiters
              /\ permits' = [permits EXCEPT ![t] = @ + 1]
           \/ /\ waiters[t] # <<>> /\ W = {Head(waiters[t])}
              /\ waiters' = [waiters EXCEPT ![t] = Tail(@)] /\ UNCHANGED permits
    <2>1. CASE waiters[t] = <<>>
        <3>1. /\ permits' = [permits EXCEPT ![t] = @ + 1] /\ UNCHANGED waiters
              /\ ready' = Tail(ready) \o next /\ task' = [task EXCEPT ![c] = fin]
            BY <2>1 DEF Release
        <3>2. \A i \in 1 .. Len(next) : next[i] = <<"abort", c>> /\ fin = "failed" /\ i = 1
            BY <1>0
        <3>3. fin = "failed" => \E i \in 1 .. Len(next) : next[i][1] = "abort"
            BY <1>0
        <3>4. task' = [d \in Columns |-> IF d = c THEN fin ELSE IF d \in {} THEN "woken" ELSE task[d]]
            BY <3>1 DEF TypeOK
        <3>5. next \in Seq(S)
            BY <1>0
        <3> HIDE DEF S, LoopInv
        <3> USE <3>5
        <3> WITNESS {} \in SUBSET Columns, next \in Seq(S)
        <3> QED BY <2>1, <3>1, <3>2, <3>3, <3>4, ZenonT(40)
    <2>2. CASE waiters[t] # <<>>
        <3> DEFINE w == Head(waiters[t])
                   e == <<<<"wake", w>>>> \o next
        <3>1. /\ waiters' = [waiters EXCEPT ![t] = Tail(@)] /\ UNCHANGED permits
              /\ ready' = Append(Tail(ready), <<"wake", w>>) \o next
              /\ task' = [task EXCEPT ![w] = "woken", ![c] = fin]
            BY <2>2 DEF Release
        <3>2. waiters[t] \in Seq(Columns) /\ w \in Columns /\ task[w] = "waiting" /\ Tier[w] = t /\ w # c
            BY <1>1, <1>2, <2>2 DEF TypeOK, WaitersWait
        <3>3. <<"wake", w>> \in S /\ <<<<"wake", w>>>> \in Seq(S)
            <4>1. <<"wake", w>> \in S
                BY <3>2 DEF Steps
            <4> HIDE DEF w, S
            <4> QED BY <4>1
        <3>4. ready' = Tail(ready) \o e /\ e \in Seq(S)
            <4> HIDE DEF S, w
            <4>1. Append(Tail(ready), <<"wake", w>>) = Tail(ready) \o <<<<"wake", w>>>>
                BY <1>1, <3>3, AppendIsConcat
            <4> DEFINE v == <<<<"wake", w>>>>
            <4>2. v \in Seq(S) /\ next \in Seq(S) /\ Tail(ready) \in Seq(S)
                BY <1>0, <1>1, <3>3
            <4> HIDE DEF v
            <4>3. (Tail(ready) \o v) \o next = Tail(ready) \o (v \o next) /\ v \o next \in Seq(S)
                BY <4>2, ConcatAssociative, ConcatProperties, SMTT(30)
            <4> QED BY <3>1, <4>1, <4>3 DEF v
        <3>5. /\ e[1] = <<"wake", w>> /\ Len(e) = 1 + Len(next)
              /\ \A i \in 1 .. Len(e) : i = 1 \/ (i = 2 /\ e[i] = <<"abort", c>> /\ fin = "failed")
              /\ fin = "failed" => 2 \in 1 .. Len(e) /\ e[2] = <<"abort", c>>
            <4> DEFINE v == <<<<"wake", w>>>>
            <4>1. v \in Seq(S) /\ Len(v) = 1 /\ v[1] = <<"wake", w>>
                BY <3>3
            <4>2. /\ Len(e) = 1 + Len(next)
                  /\ \A i \in 1 .. 1 + Len(next) : e[i] = IF i <= 1 THEN v[i] ELSE next[i - 1]
                <5> HIDE DEF v, S
                <5> QED BY <1>0, <4>1, ConcatProperties DEF e, v
            <4> HIDE DEF e, v
            <4> QED BY <1>0, <4>1, <4>2
        <3>6. /\ \A i \in 1 .. Len(e) : \/ e[i][1] = "wake" /\ e[i][2] \in {w}
                                        \/ e[i] = <<"abort", c>> /\ fin = "failed"
              /\ \A i, j \in 1 .. Len(e) : e[i] = e[j] => i = j
              /\ fin = "failed" => \E i \in 1 .. Len(e) : e[i][1] = "abort"
            <4> HIDE DEF e
            <4> QED BY <3>5
        <3>7. task' = [d \in Columns |-> IF d = c THEN fin ELSE IF d \in {w} THEN "woken" ELSE task[d]]
            BY <3>1, <3>2 DEF TypeOK
        <3> HIDE DEF S, LoopInv
        <3> USE <3>2, <3>4
        <3> WITNESS {w} \in SUBSET Columns, e \in Seq(S)
        <3> QED BY <2>2, <3>1, <3>2, <3>4, <3>6, <3>7
    <2> QED BY <2>1, <2>2
<1>5. /\ ready' \in Seq(S) /\ task' \in [Columns -> TaskStates]
    <2>1. ready' \in Seq(S)
        BY <1>1, <1>4, QueueMoves
    <2> QED BY <1>4, <2>1 DEF TypeOK, TaskStates
<1>6. /\ task'[c] = fin /\ c \notin W
      /\ \A d \in Columns : d # c /\ d \notin W => task'[d] = task[d]
      /\ \A d \in W : task'[d] = "woken" /\ task[d] = "waiting" /\ d # c /\ d \in Columns /\ thread[d] = "none"
    BY <1>2, <1>4 DEF CallsBelongToTasks
<1>7. waiters' \in [Tiers -> Seq(Columns)]
    <2>1. waiters[t] \in Seq(Columns) /\ (waiters[t] # <<>> => Tail(waiters[t]) \in Seq(Columns))
        BY <1>1 DEF TypeOK
    <2> QED BY <1>1, <1>4, <2>1 DEF TypeOK
<1>8. QueueFitsTasks' /\ QueueHasNoRepeats' /\ StartsRunFirst'
    <2>1. \A d \in Columns : d # c /\ task[d] # "waiting" => task'[d] = task[d] /\ thread'[d] = thread[d]
        BY <1>6
    <2>2. \A i \in 1 .. Len(ext) :
                /\ \/ ext[i][1] = "wake" /\ task'[ext[i][2]] = "woken"
                   \/ ext[i][1] = "abort" /\ task'[ext[i][2]] = "failed"
                /\ ext[i][2] = c \/ task[ext[i][2]] = "waiting"
        BY <1>4, <1>6
    <2>3. step # "start"
        OBVIOUS
    <2> QED BY <1>1, <1>4, <2>1, <2>2, <2>3, LoopQueue
<1>9. ~Cancelled' /\ Calling' = Calling \ {c}
    BY <1>2, <1>6 DEF Cancelled, Calling
<1>10. FailureAborts'
    <2>1. ASSUME Failed' PROVE \E i \in Places' : ready'[i][1] = "abort"
        <3>1. CASE Failed
            BY <1>1, <1>4, <3>1, WokenShrinks
        <3>2. CASE ~Failed
            <4>1. fin = "failed"
                BY <1>6, <2>1, <3>2 DEF Failed
            <4>2. PICK i \in 1 .. Len(ext) : ext[i][1] = "abort"
                BY <1>4, <4>1
            <4>3. Len(ready) - 1 + i \in 1 .. Len(ready') /\ ready'[Len(ready) - 1 + i] = ext[i]
                <5>1. /\ Len(ready) > 0 /\ Len(ready) \in Nat
                      /\ Len(ready') = Len(ready) - 1 + Len(ext) /\ Len(ext) \in Nat
                      /\ \A k \in 1 .. Len(ext) : ready'[Len(ready) - 1 + k] = ext[k]
                    BY <1>1, <1>4, QueueMoves
                <5> QED BY <5>1
            <4> QED BY <4>2, <4>3 DEF Places
        <3> QED BY <3>1, <3>2
    <2> QED BY <1>9, <2>1 DEF FailureAborts
<1>11. WaitersWait'
    <2> SUFFICES ASSUME NEW u \in Tiers
                 PROVE  /\ \A i \in 1 .. Len(waiters'[u]) :
                              task'[waiters'[u][i]] = "waiting" /\ Tier[waiters'[u][i]] = u
                        /\ \A i, j \in 1 .. Len(waiters'[u]) : waiters'[u][i] = waiters'[u][j] => i = j
        BY DEF WaitersWait
    <2>1. /\ waiters[u] \in Seq(Columns) /\ waiters' \in [Tiers -> Seq(Columns)]
          /\ \A i \in 1 .. Len(waiters[u]) :
                task[waiters[u][i]] = "waiting" /\ Tier[waiters[u][i]] = u /\ waiters[u][i] \in Columns
          /\ \A i, j \in 1 .. Len(waiters[u]) : waiters[u][i] = waiters[u][j] => i = j
        <3>1. waiters[u] \in Seq(Columns)
            BY DEF TypeOK
        <3>2. \A i \in 1 .. Len(waiters[u]) : waiters[u][i] \in Columns
            BY <3>1
        <3> QED BY <1>2, <1>7, <3>1, <3>2 DEF WaitersWait
    <2>2. \A d \in Columns : task[d] = "waiting" /\ d \notin W => task'[d] = "waiting"
        BY <1>2, <1>6
    <2>3. CASE u # t \/ W = {}
        <3>1. waiters'[u] = waiters[u]
            BY <1>1, <1>4, <2>3 DEF TypeOK
        <3>2. \A i \in 1 .. Len(waiters[u]) : waiters[u][i] \notin W
            BY <1>4, <2>1, <2>3
        <3> QED BY <2>1, <2>2, <3>1, <3>2
    <2>4. CASE u = t /\ W # {}
        <3>1. waiters[u] # <<>> /\ W = {Head(waiters[u])} /\ waiters'[u] = Tail(waiters[u])
            BY <1>1, <1>4, <2>4 DEF TypeOK
        <3>2. /\ Len(waiters[u]) \in Nat /\ Len(waiters[u]) > 0 /\ Head(waiters[u]) = waiters[u][1]
              /\ Len(waiters'[u]) = Len(waiters[u]) - 1
              /\ \A i \in 1 .. Len(waiters'[u]) : waiters'[u][i] = waiters[u][i + 1]
            BY <2>1, <3>1
        <3>3. \A i \in 1 .. Len(waiters'[u]) : i + 1 \in 1 .. Len(waiters[u]) /\ 1 \in 1 .. Len(waiters[u]) /\ i + 1 # 1
            BY <3>2
        <3>4. \A i \in 1 .. Len(waiters'[u]) : waiters'[u][i] \notin W
            BY <2>1, <3>1, <3>2, <3>3
        <3>5. \A i \in 1 .. Len(waiters'[u]) :
                task'[waiters'[u][i]] = "waiting" /\ Tier[waiters'[u][i]] = u
            <4> SUFFICES ASSUME NEW i \in 1 .. Len(waiters'[u])
                         PROVE  task'[waiters'[u][i]] = "waiting" /\ Tier[waiters'[u][i]] = u
                OBVIOUS
            <4>1. i + 1 \in 1 .. Len(waiters[u]) /\ waiters'[u][i] = waiters[u][i + 1]
                BY <3>2, <3>3
            <4> QED BY <2>1, <2>2, <3>4, <4>1
        <3>6. \A i, j \in 1 .. Len(waiters'[u]) : waiters'[u][i] = waiters'[u][j] => i + 1 = j + 1
            <4> SUFFICES ASSUME NEW i \in 1 .. Len(waiters'[u]), NEW j \in 1 .. Len(waiters'[u]),
                                waiters'[u][i] = waiters'[u][j]
                         PROVE  i + 1 = j + 1
                OBVIOUS
            <4>1. /\ i + 1 \in 1 .. Len(waiters[u]) /\ waiters'[u][i] = waiters[u][i + 1]
                  /\ j + 1 \in 1 .. Len(waiters[u]) /\ waiters'[u][j] = waiters[u][j + 1]
                BY <3>2, <3>3
            <4> QED BY <2>1, <4>1
        <3>7. \A i, j \in 1 .. Len(waiters'[u]) : i + 1 = j + 1 => i = j
            OBVIOUS
        <3> QED BY <3>5, <3>6, <3>7
    <2> QED BY <2>3, <2>4
<1>12. CallsBelongToTasks'
    <2>1. thread[c] \notin {"queued", "running"}
        <3>1. CASE step = "wake"
            BY <1>1, <3>1 DEF QueueFitsTasks, CallsBelongToTasks
        <3>2. CASE step = "resume"
            BY <1>1, <3>2 DEF QueueFitsTasks
        <3> QED BY <3>1, <3>2
    <2> SUFFICES ASSUME NEW d \in Columns
                 PROVE  /\ task'[d] \in {"none", "new", "waiting", "woken"} => thread[d] = "none"
                        /\ thread[d] \in {"queued", "running"} => task'[d] \in {"calling", "cancelled"}
        BY DEF CallsBelongToTasks
    <2>2. CASE d = c
        BY <1>6, <2>1, <2>2
    <2>3. CASE d \in W
        BY <1>6, <2>3
    <2>4. CASE d # c /\ d \notin W
        BY <1>6, <2>4 DEF CallsBelongToTasks
    <2> QED BY <2>2, <2>3, <2>4
<1>13. /\ permits' \in [Tiers -> Nat]
       /\ \A u \in Tiers : permits'[u] <= Concurrency[u]
       /\ PermitsAreCounted'
    <2>1. \A u \in Tiers : /\ permits[u] \in Nat /\ Concurrency[u] \in Nat
                           /\ permits[u] + Cardinality(Holders(u)) = Concurrency[u]
                           /\ Holders(u) \subseteq Columns /\ Cardinality(Holders(u)) \in Nat
        BY <1>2, ColumnSet, EnrichmentAssumption DEF PermitsAreCounted, TypeOK, Tiers, Holders
    <2>2. c \in Holders(t) /\ Holders(t)' = (Holders(t) \ {c}) \cup W /\ W \cap Holders(t) = {}
        BY <1>2, <1>4, <1>6 DEF Holders
    <2>3. \A u \in Tiers : u # t => Holders(u)' = Holders(u)
        BY <1>4, <1>6 DEF Holders
    <2>4. Cardinality(Holders(t) \ {c}) = Cardinality(Holders(t)) - 1 /\ Cardinality(Holders(t)) > 0
        BY <1>1, <2>1, <2>2, OneColumnLess
    <2>5. CASE W = {}
        <3>1. Holders(t)' = Holders(t) \ {c} /\ permits' = [permits EXCEPT ![t] = @ + 1]
            BY <1>4, <2>2, <2>5
        <3>2. Cardinality(Holders(t)') = Cardinality(Holders(t)) - 1
            BY <2>4, <3>1
        <3>3. \A u \in Tiers : u # t => permits'[u] = permits[u]
            BY <3>1 DEF TypeOK
        <3>4. permits'[t] = permits[t] + 1 /\ permits' \in [Tiers -> Nat]
            BY <1>1, <2>1, <3>1 DEF TypeOK
        <3>5. permits'[t] + Cardinality(Holders(t)') = Concurrency[t] /\ permits'[t] <= Concurrency[t]
            <4>1. /\ permits[t] \in Nat /\ Concurrency[t] \in Nat /\ Cardinality(Holders(t)) \in Nat
                  /\ permits[t] + Cardinality(Holders(t)) = Concurrency[t]
                BY <1>1, <2>1
            <4> QED BY <2>4, <3>2, <3>4, <4>1
        <3>6. \A u \in Tiers : u # t => permits'[u] + Cardinality(Holders(u)') = Concurrency[u]
                                        /\ permits'[u] <= Concurrency[u]
            BY <2>1, <2>3, <3>3
        <3> QED BY <3>4, <3>5, <3>6 DEF PermitsAreCounted
    <2>6. CASE W # {}
        <3>1. PICK w \in Columns : W = {w} /\ w \notin Holders(t)
            BY <1>4, <2>2, <2>6
        <3>2. permits' = permits
            BY <1>4, <2>6
        <3>3. Cardinality(Holders(t)') = Cardinality(Holders(t))
            <4> DEFINE R == Holders(t) \ {c}
            <4>1. R \subseteq Columns /\ w \notin R /\ Holders(t)' = R \cup {w}
                BY <1>1, <2>1, <2>2, <3>1
            <4>2. Cardinality(R) = Cardinality(Holders(t)) - 1
                BY <2>4
            <4> HIDE DEF R
            <4>3. Cardinality(R \cup {w}) = Cardinality(R) + 1
                BY <3>1, <4>1, OneColumnMore
            <4> QED BY <1>1, <2>1, <4>1, <4>2, <4>3
        <3>4. \A u \in Tiers : Cardinality(Holders(u)') = Cardinality(Holders(u))
            BY <2>3, <3>3
        <3> QED BY <2>1, <3>2, <3>4 DEF PermitsAreCounted, TypeOK
    <2> QED BY <2>5, <2>6
<1>14. ASSUME TypeOK' PROVE LoadBounded'
    <2>1. Issued' \subseteq Issued
        BY <1>2, <1>6 DEF Issued
    <2>2. CASE Failed
        <3>1. WokenInTime' \subseteq WokenInTime
            BY <1>1, <1>4, <2>2, WokenShrinks
        <3>2. (Issued \cup WokenInTime)' \subseteq Issued \cup WokenInTime
            BY <2>1, <3>1
        <3> QED BY <3>2, LoadShrinks
    <2>3. CASE ~Failed /\ fin = "done"
        <3>1. ~Failed'
            BY <1>6, <2>3 DEF Failed
        <3> QED BY <1>8, <1>9, <1>12, <1>13, <1>14, <3>1, LoadWithoutFailure, PTL
    <2>4. CASE ~Failed /\ fin = "failed"
        <3> DEFINE H == Holders("default") \cup Holders("cryptic")
                   L == (Issued \cup WokenInTime)'
        <3>1. /\ H \subseteq Columns /\ Cardinality(H) <= N
              /\ Issued \cup WokenInTime \subseteq H
              /\ \A d \in Columns : task[d] = "woken" => d \in H
            BY <1>2, <2>4, HoldersBounded, LoadOfHolders
        <3>2. \A d \in WokenInTime' : d \in Columns /\ task'[d] = "woken"
            <4> SUFFICES ASSUME NEW d \in WokenInTime' PROVE d \in Columns /\ task'[d] = "woken"
                OBVIOUS
            <4>1. PICK i \in Places' : ready'[i] = <<"wake", d>> /\ d \in Columns
                BY DEF WokenInTime
            <4>2. ready'[i][1] = "wake" /\ ready'[i][2] = d
                BY <4>1
            <4> QED BY <1>8, <4>1, <4>2 DEF QueueFitsTasks
        <3>3. L \subseteq H \cup W
            BY <1>6, <2>1, <2>4, <3>1, <3>2
        <3>4. Cardinality(H \cup W) <= N + 1
            <4>1. Cardinality(H) \in Nat /\ N \in Nat
                BY <3>1, ColumnSet, EnrichmentAssumption DEF N
            <4>2. CASE W = {}
                <5>1. H \cup W = H
                    BY <4>2
                <5>2. Cardinality(H \cup W) = Cardinality(H)
                    BY <5>1
                <5> QED BY <3>1, <4>1, <5>2
            <4>3. CASE W # {}
                <5>1. PICK w \in Columns : W = {w}
                    BY <1>4, <4>3
                <5> HIDE DEF H
                <5>2. Cardinality(H \cup {w}) <= Cardinality(H) + 1 /\ Cardinality(H \cup {w}) \in Nat
                    BY <3>1, OneColumnMore, ColumnSet
                <5> QED BY <3>1, <4>1, <5>1, <5>2
            <4> QED BY <4>2, <4>3
        <3>5. H \cup W \subseteq Columns
            BY <1>4, <3>1
        <3> HIDE DEF H, L
        <3>6. Cardinality(L) <= Cardinality(H \cup W) /\ Cardinality(L) \in Nat /\ Cardinality(H \cup W) \in Nat
            BY <3>3, <3>5, FewerColumns, ColumnSet
        <3>7. N \in Nat
            BY EnrichmentAssumption DEF N
        <3>8. Cardinality(L) <= N + 1
            BY <3>4, <3>6, <3>7
        <3> QED BY <3>8 DEF LoadBounded, L, N
    <2> QED BY <2>2, <2>3, <2>4
<1>15. \A d \in Columns : d # c => (task'[d] = "done" <=> task[d] = "done")
    BY <1>6
<1> QED BY <1>5, <1>6, <1>7, <1>8, <1>9, <1>10, <1>11, <1>12, <1>13, <1>14, <1>15

\* In a batch the bounds follow from the invariant of the batch.
LEMMA BatchSuffices ==
    TypeOK /\ TotalIsRecorded /\ BatchInv /\ RateLimitRespected => IInv
BY BatchOvershoot DEF IInv, BatchInv

\* What a step of the loop finds.
LEMMA LoopContext ==
    ASSUME IInv, NEW c \in Columns, NEW step \in Steps, At(step, c)
    PROVE  /\ TypeOK /\ TotalIsRecorded /\ BatchInv /\ LoopInv /\ RateLimitRespected
           /\ phase = "batch" /\ ~Cancelled /\ ~Ended
           /\ 1 \in Places /\ ready[1] = <<step, c>> /\ ready[1][1] = step /\ ready[1][2] = c
           /\ ready # <<>> /\ Tail(ready) \in Seq(Steps \X Columns)
           /\ Tail(ready) = Tail(ready) \o <<>> /\ Tier[c] \in Tiers
<1>1. TypeOK /\ TotalIsRecorded /\ BatchInv /\ LoopInv /\ RateLimitRespected /\ phase = "batch"
    BY DEF IInv, At, BatchInv, LoopInv
<1>2. ~Cancelled /\ ~Ended
    BY <1>1, LoopAlive DEF BatchInv
<1>3. /\ 1 \in Places /\ ready[1] = <<step, c>> /\ ready # <<>> /\ Tail(ready) \in Seq(Steps \X Columns)
    BY <1>1 DEF At, TypeOK, Places
<1>4. Tail(ready) = Tail(ready) \o <<>>
    BY <1>3, ConcatEmptySeq
<1>5. Tier[c] \in Tiers
    BY EnrichmentAssumption DEF Columns, Tiers
<1> QED BY <1>1, <1>2, <1>3, <1>4, <1>5

\* A call is issued below the cap by a task at the head of the queue: the thread is
\* queued and, but for a task that was handed its permit, a permit is taken.
LEMMA CallStep ==
    ASSUME IInv, NEW c \in Columns, NEW step \in {"start", "wake"}, At(step, c), spent < Cap,
           task' = [task EXCEPT ![c] = "calling"], thread' = [thread EXCEPT ![c] = "queued"],
           ready' = Tail(ready), step = "start" => permits[Tier[c]] # 0,
           permits' = (IF step = "start" THEN [permits EXCEPT ![Tier[c]] = @ - 1] ELSE permits),
           UNCHANGED <<waiters, phase, batches, cost, spent, ledger, billed, base>>
    PROVE  IInv'
<1>1. /\ TypeOK /\ TotalIsRecorded /\ BatchInv /\ LoopInv /\ RateLimitRespected
      /\ phase = "batch" /\ ~Cancelled /\ ~Ended
      /\ 1 \in Places /\ ready[1] = <<step, c>> /\ ready[1][1] = step /\ ready[1][2] = c
      /\ ready # <<>> /\ Tail(ready) \in Seq(Steps \X Columns)
      /\ Tail(ready) = Tail(ready) \o <<>> /\ Tier[c] \in Tiers /\ step \in Steps \ {"abort"}
    BY LoopContext DEF Steps
<1> USE DEF BatchInv
<1>2. /\ task[c] = (IF step = "start" THEN "new" ELSE "woken") /\ thread[c] = "none"
      /\ step = "start" => ~Failed
    BY <1>1 DEF QueueFitsTasks, CallsBelongToTasks, StartsRunFirst, Failed
<1>3. /\ task'[c] = "calling" /\ thread'[c] = "queued"
      /\ \A d \in Columns : d # c => task'[d] = task[d] /\ thread'[d] = thread[d]
    BY <1>1 DEF TypeOK
<1>4. permits' \in [Tiers -> Nat] /\ \A t \in Tiers : permits'[t] <= permits[t]
    BY <1>1 DEF TypeOK
<1>5. TypeOK'
    <2>1. \A t \in Tiers : permits'[t] <= Concurrency[t]
        BY <1>1, <1>4, EnrichmentAssumption DEF TypeOK, Tiers
    <2> QED BY <1>1, <1>4, <2>1 DEF TypeOK, TaskStates, ThreadStates
<1>6. TotalIsRecorded' /\ ~Cancelled' /\ (Failed' => Failed)
    BY <1>1, <1>3 DEF TotalIsRecorded, Cancelled, Failed
<1>7. QueueFitsTasks' /\ QueueHasNoRepeats' /\ StartsRunFirst'
    <2> DEFINE ext == <<>>
    <2>1. /\ ext \in Seq(Steps \X Columns) /\ 1 .. Len(ext) = {} /\ ready' = Tail(ready) \o ext
        BY <1>1
    <2>2. \A d \in Columns : task'[d] = "failed" => task[d] = "failed"
        BY <1>3
    <2> HIDE DEF ext
    <2> QED BY <1>1, <1>3, <2>1, <2>2, LoopQueue, ZenonT(40)
<1>7a. ASSUME Failed
       PROVE  WokenInTime' \subseteq WokenInTime /\ \E i \in Places' : ready'[i][1] = "abort"
    <2> DEFINE ext == <<>>
    <2>1. ext \in Seq(Steps \X Columns) /\ ready' = Tail(ready) \o ext
        BY <1>1
    <2> HIDE DEF ext
    <2> QED BY <1>1, <1>7a, <2>1, WokenShrinks
<1>8. FailureAborts'
    <2>1. ASSUME Failed' PROVE \E i \in Places' : ready'[i][1] = "abort"
        BY <1>6, <1>7a, <2>1
    <2> QED BY <1>6, <2>1 DEF FailureAborts
<1>9. WaitersWait'
    <2>1. \A t \in Tiers : \A i \in 1 .. Len(waiters[t]) :
            waiters[t][i] \in Columns /\ task[waiters[t][i]] = "waiting" /\ waiters[t][i] # c
        BY <1>1, <1>2 DEF WaitersWait, TypeOK
    <2> QED BY <1>1, <1>3, <2>1 DEF WaitersWait
<1>10. CallsBelongToTasks'
    BY <1>1, <1>3 DEF CallsBelongToTasks
<1>11. PermitsAreCounted'
    <2>1. \A t \in Tiers : /\ permits[t] \in Nat /\ Concurrency[t] \in Nat
                           /\ permits[t] + Cardinality(Holders(t)) = Concurrency[t]
                           /\ Holders(t) \subseteq Columns /\ Cardinality(Holders(t)) \in Nat
        BY <1>1, ColumnSet, EnrichmentAssumption DEF PermitsAreCounted, TypeOK, Tiers, Holders
    <2>2. \A t \in Tiers : t # Tier[c] => Holders(t)' = Holders(t) /\ permits'[t] = permits[t]
        BY <1>1, <1>3 DEF Holders, TypeOK
    <2>3. CASE step = "wake"
        <3>1. Holders(Tier[c])' = Holders(Tier[c])
            BY <1>2, <1>3, <2>3 DEF Holders
        <3> QED BY <2>1, <2>2, <2>3, <3>1 DEF PermitsAreCounted
    <2>4. CASE step = "start"
        <3>1. Holders(Tier[c])' = Holders(Tier[c]) \cup {c} /\ c \notin Holders(Tier[c])
            BY <1>2, <1>3, <2>4 DEF Holders
        <3>2. Cardinality(Holders(Tier[c])') = Cardinality(Holders(Tier[c])) + 1
            BY <1>1, <2>1, <3>1, OneColumnMore
        <3>3. permits'[Tier[c]] = permits[Tier[c]] - 1
            BY <1>1, <2>4 DEF TypeOK
        <3>4. permits'[Tier[c]] + Cardinality(Holders(Tier[c])') = Concurrency[Tier[c]]
            <4>1. /\ permits[Tier[c]] \in Nat /\ Cardinality(Holders(Tier[c])) \in Nat
                  /\ permits[Tier[c]] + Cardinality(Holders(Tier[c])) = Concurrency[Tier[c]]
                BY <1>1, <2>1
            <4> QED BY <3>2, <3>3, <4>1
        <3> QED BY <2>1, <2>2, <3>4 DEF PermitsAreCounted
    <2> QED BY <2>3, <2>4
<1>12. LoadBounded'
    <2>1. CASE Failed
        <3>1. step = "wake" /\ c \in WokenInTime
            <4>1. step = "wake"
                BY <1>2, <2>1
            <4>2. \A j \in 1 .. 1 : ready[j][1] # "abort"
                BY <1>1
            <4> QED BY <1>1, <4>1, <4>2 DEF WokenInTime
        <3>2. WokenInTime' \subseteq WokenInTime
            BY <1>7a, <2>1
        <3>3. Issued' \subseteq Issued \cup {c}
            BY <1>3 DEF Issued
        <3>4. (Issued \cup WokenInTime)' \subseteq Issued \cup WokenInTime
            BY <3>1, <3>2, <3>3
        <3> QED BY <1>1, <3>4, LoadShrinks
    <2>2. CASE ~Failed
        <3>1. ~Failed'
            BY <1>6, <2>2
        <3> QED BY <1>5, <1>6, <1>7, <1>10, <1>11, <3>1, LoadWithoutFailure, PTL
    <2> QED BY <2>1, <2>2
<1>13. RecordedBounded'
    <2>1. (ledger < Cap)'
        BY <1>1 DEF TotalIsRecorded
    <2> QED BY <1>5, <1>6, <1>11, <2>1, RecordedBelowCap, PTL
<1>14. ChargesAddUp'
    <2>1. Begun' = Begun
        BY <1>2, <1>3 DEF Begun
    <2> QED BY <1>1, <2>1, SameCharges
<1>15. RateLimitRespected'
    BY <1>5, <1>6, <1>10, <1>11, PermitsLimitCalls, PTL
<1>16. BatchInv'
    BY <1>1, <1>7, <1>8, <1>9, <1>10, <1>11, <1>12, <1>13, <1>14
<1> HIDE DEF BatchInv
<1> QED BY <1>5, <1>6, <1>15, <1>16, BatchSuffices, PTL

\* A task that finds its semaphore exhausted queues up.
LEMMA WaitStep ==
    ASSUME IInv, NEW c \in Columns, At("start", c),
           waiters' = [waiters EXCEPT ![Tier[c]] = Append(@, c)],
           task' = [task EXCEPT ![c] = "waiting"], ready' = Tail(ready),
           UNCHANGED <<permits, thread, phase, batches, cost, spent, ledger, billed, base>>
    PROVE  IInv'
<1> DEFINE step == "start"
           u == Tier[c]
<1>1. /\ TypeOK /\ TotalIsRecorded /\ BatchInv /\ LoopInv /\ RateLimitRespected
      /\ phase = "batch" /\ ~Cancelled /\ ~Ended
      /\ 1 \in Places /\ ready[1] = <<step, c>> /\ ready[1][1] = step /\ ready[1][2] = c
      /\ ready # <<>> /\ Tail(ready) \in Seq(Steps \X Columns)
      /\ Tail(ready) = Tail(ready) \o <<>> /\ Tier[c] \in Tiers /\ step \in Steps
    BY LoopContext DEF Steps
<1> USE DEF BatchInv
<1>2. task[c] = "new" /\ thread[c] = "none" /\ ~Failed
    BY <1>1 DEF QueueFitsTasks, CallsBelongToTasks, StartsRunFirst, Failed
<1>3. /\ task'[c] = "waiting" /\ \A d \in Columns : d # c => task'[d] = task[d]
    BY <1>1 DEF TypeOK
<1>4. /\ waiters[u] \in Seq(Columns) /\ waiters'[u] = Append(waiters[u], c)
      /\ waiters'[u] \in Seq(Columns) /\ waiters' \in [Tiers -> Seq(Columns)]
      /\ \A t \in Tiers : t # u => waiters'[t] = waiters[t]
    BY <1>1 DEF TypeOK
<1>5. TypeOK'
    BY <1>1, <1>4 DEF TypeOK, TaskStates
<1>6. TotalIsRecorded' /\ ~Cancelled' /\ ~Failed'
    BY <1>1, <1>2, <1>3 DEF TotalIsRecorded, Cancelled, Failed
<1>7. QueueFitsTasks' /\ QueueHasNoRepeats' /\ StartsRunFirst'
    <2> DEFINE ext == <<>>
    <2>1. /\ ext \in Seq(Steps \X Columns) /\ 1 .. Len(ext) = {} /\ ready' = Tail(ready) \o ext
        BY <1>1
    <2>2. \A d \in Columns : task'[d] = "failed" => task[d] = "failed"
        BY <1>3
    <2> HIDE DEF ext
    <2> QED BY <1>1, <1>3, <2>1, <2>2, LoopQueue
<1>8. FailureAborts'
    BY <1>6 DEF FailureAborts
<1>9. WaitersWait'
    <2>1. \A t \in Tiers : /\ waiters[t] \in Seq(Columns)
                           /\ \A i \in 1 .. Len(waiters[t]) :
                                /\ waiters[t][i] \in Columns /\ waiters[t][i] # c
                                /\ task[waiters[t][i]] = "waiting" /\ Tier[waiters[t][i]] = t
                           /\ \A i, j \in 1 .. Len(waiters[t]) : waiters[t][i] = waiters[t][j] => i = j
        BY <1>1, <1>2 DEF WaitersWait, TypeOK
    <2> SUFFICES ASSUME NEW t \in Tiers
                 PROVE  /\ \A i \in 1 .. Len(waiters'[t]) :
                              task'[waiters'[t][i]] = "waiting" /\ Tier[waiters'[t][i]] = t
                        /\ \A i, j \in 1 .. Len(waiters'[t]) : waiters'[t][i] = waiters'[t][j] => i = j
        BY DEF WaitersWait
    <2>2. CASE t # u
        BY <1>3, <1>4, <2>1, <2>2
    <2>3. CASE t = u
        <3>1. /\ Len(waiters[u]) \in Nat /\ Len(waiters'[u]) = Len(waiters[u]) + 1
              /\ waiters'[u][Len(waiters[u]) + 1] = c
              /\ \A i \in 1 .. Len(waiters[u]) : waiters'[u][i] = waiters[u][i]
            BY <1>4
        <3>2. \A i \in 1 .. Len(waiters'[u]) : i \in 1 .. Len(waiters[u]) \/ i = Len(waiters[u]) + 1
            BY <3>1
        <3> QED BY <1>1, <1>3, <2>1, <2>3, <3>1, <3>2, SMTT(30)
    <2> QED BY <2>2, <2>3
<1>10. CallsBelongToTasks'
    BY <1>1, <1>2, <1>3 DEF CallsBelongToTasks
<1>11. PermitsAreCounted'
    <2>1. \A t \in Tiers : Holders(t)' = Holders(t)
        BY <1>2, <1>3 DEF Holders
    <2> QED BY <1>1, <2>1 DEF PermitsAreCounted
<1>12. LoadBounded'
    BY <1>5, <1>6, <1>7, <1>10, <1>11, LoadWithoutFailure, PTL
<1>13. RecordedBounded'
    <2>1. Calling' \subseteq Calling
        BY <1>3 DEF Calling
    <2> QED BY <1>1, <2>1, RecordedShrinks
<1>14. ChargesAddUp'
    <2>1. Begun' = Begun
        BY <1>2, <1>3 DEF Begun
    <2> QED BY <1>1, <2>1, SameCharges
<1>15. RateLimitRespected'
    BY <1>5, <1>6, <1>10, <1>11, PermitsLimitCalls, PTL
<1>16. BatchInv'
    BY <1>1, <1>7, <1>8, <1>9, <1>10, <1>11, <1>12, <1>13, <1>14
<1> HIDE DEF BatchInv
<1> QED BY <1>5, <1>6, <1>15, <1>16, BatchSuffices, PTL

\* A task gives up its permit and fails: it was refused, or its call or the
\* recording of its cost raised.
LEMMA FailStep ==
    ASSUME IInv, NEW c \in Columns, NEW step \in {"wake", "resume"}, At(step, c),
           Release(c, Tail(ready), Raises(c)),
           UNCHANGED <<thread, phase, batches, cost, spent, ledger, billed, base>>
    PROVE  IInv'
<1>1. /\ TypeOK /\ TotalIsRecorded /\ BatchInv /\ LoopInv /\ phase = "batch"
      /\ ready[1][1] = step /\ ready[1][2] = c /\ 1 \in Places
    BY LoopContext DEF Steps
<1>2. Raises(c) # <<>>
    BY DEF Raises
<1>3. /\ ready' \in Seq(Steps \X Columns) /\ task' \in [Columns -> TaskStates]
      /\ permits' \in [Tiers -> Nat] /\ \A t \in Tiers : permits'[t] <= Concurrency[t]
      /\ waiters' \in [Tiers -> Seq(Columns)]
      /\ QueueFitsTasks' /\ QueueHasNoRepeats' /\ StartsRunFirst' /\ FailureAborts'
      /\ WaitersWait' /\ CallsBelongToTasks' /\ PermitsAreCounted'
      /\ TypeOK' => LoadBounded'
      /\ ~Cancelled' /\ Calling' = Calling \ {c}
      /\ task'[c] = "failed"
      /\ \A d \in Columns : d # c => (task'[d] = "done" <=> task[d] = "done")
    BY <1>1, <1>2, ReleaseStep
<1>4. TypeOK' /\ TotalIsRecorded'
    BY <1>1, <1>3 DEF TypeOK, TotalIsRecorded
<1>5. RecordedBounded'
    BY <1>1, <1>3, RecordedShrinks DEF BatchInv
<1>6. ChargesAddUp'
    <2>1. task[c] # "done"
        BY <1>1 DEF LoopInv, QueueFitsTasks
    <2>2. Begun' = Begun
        BY <1>3, <2>1 DEF Begun
    <2> QED BY <1>1, <2>2, SameCharges DEF BatchInv
<1>7. RateLimitRespected'
    BY <1>3, <1>4, PermitsLimitCalls, PTL
<1>8. BatchInv'
    BY <1>1, <1>3, <1>4, <1>5, <1>6 DEF BatchInv
<1> QED BY <1>4, <1>7, <1>8, BatchSuffices, PTL

\* A call's cost is recorded: it moves from the charges not recorded to the ledger.
LEMMA RecordStep ==
    ASSUME IInv, NEW c \in Columns, At("resume", c), thread[c] = "ok",
           Release(c, Tail(ready), <<>>), ledger' = ledger + cost[c], spent' = ledger',
           UNCHANGED <<thread, phase, batches, cost, billed, base>>
    PROVE  IInv'
<1>1. /\ TypeOK /\ TotalIsRecorded /\ BatchInv /\ LoopInv /\ phase = "batch"
      /\ ready[1][1] = "resume" /\ ready[1][2] = c /\ 1 \in Places
    BY LoopContext DEF Steps
<1>2. /\ ready' \in Seq(Steps \X Columns) /\ task' \in [Columns -> TaskStates]
      /\ permits' \in [Tiers -> Nat] /\ \A t \in Tiers : permits'[t] <= Concurrency[t]
      /\ waiters' \in [Tiers -> Seq(Columns)]
      /\ QueueFitsTasks' /\ QueueHasNoRepeats' /\ StartsRunFirst' /\ FailureAborts'
      /\ WaitersWait' /\ CallsBelongToTasks' /\ PermitsAreCounted'
      /\ TypeOK' => LoadBounded'
      /\ ~Cancelled' /\ Calling' = Calling \ {c}
      /\ task'[c] = "done"
      /\ \A d \in Columns : d # c => (task'[d] = "done" <=> task[d] = "done")
    BY <1>1, ReleaseStep
<1>3. task[c] = "calling" /\ c \in Calling /\ c \in Begun
    BY <1>1 DEF LoopInv, QueueFitsTasks, Calling, Begun
<1>4. cost[c] \in Nat /\ cost[c] <= MaxCost /\ ledger \in Nat /\ MaxCost \in Nat /\ Cap \in Nat /\ N \in Nat
    BY <1>1, EnrichmentAssumption DEF TypeOK, Costs, N
<1>5. TypeOK' /\ TotalIsRecorded'
    BY <1>1, <1>2, <1>4 DEF TypeOK, TotalIsRecorded
<1>6. RecordedBounded'
    <2> DEFINE k == Cardinality(Calling)
    <2>1. Cardinality(Calling') = k - 1 /\ k \in Nat
        BY <1>2, <1>3, OneColumnLess, ColumnSet DEF Calling
    <2>2. ledger + k * MaxCost <= Cap - 1 + N * MaxCost
        BY <1>1 DEF BatchInv, RecordedBounded
    <2> HIDE DEF k
    <2>3. (k - 1) * MaxCost = k * MaxCost - MaxCost /\ k * MaxCost \in Int /\ N * MaxCost \in Int
        BY <1>4, <2>1
    <2>4. ledger' + (k - 1) * MaxCost <= Cap - 1 + N * MaxCost
        BY <1>4, <2>2, <2>3
    <2> QED BY <2>1, <2>4 DEF RecordedBounded, N
<1>7. ChargesAddUp'
    <2>1. PICK f \in [0 .. Cols -> Int] :
            /\ f[0] = 0 /\ f[Cols] = billed - ledger - base
            /\ \A i \in 1 .. Cols : f[i] = f[i - 1] + Price(i)
        BY <1>1 DEF BatchInv, ChargesAddUp
    <2>2. Begun' = Begun \ {c}
        BY <1>2, <1>3 DEF Begun
    <2>3. /\ Price(c) = cost[c] /\ Price(c)' = 0
          /\ \A i \in 1 .. Cols : i # c => Price(i)' = Price(i)
        BY <1>3, <2>2 DEF Price
    <2>4. c \in 1 .. Cols /\ Cols \in Nat /\ \A i \in 1 .. Cols : Price(i) \in Int
        BY <1>1, EnrichmentAssumption DEF Columns, Price, TypeOK, Costs
    <2> DEFINE g == [i \in 0 .. Cols |-> IF i >= c THEN f[i] - cost[c] ELSE f[i]]
    <2>5. g \in [0 .. Cols -> Int] /\ g[0] = 0 /\ g[Cols] = billed - ledger' - base
        <3>1. 0 \in 0 .. Cols /\ Cols \in 0 .. Cols /\ ~(0 >= c) /\ Cols >= c
            BY <2>4
        <3>2. billed \in Nat /\ ledger \in Nat /\ base \in Int
            BY <1>1 DEF TypeOK
        <3>3. g[0] = f[0] /\ g[Cols] = f[Cols] - cost[c]
            BY <3>1
        <3>4. \A i \in 0 .. Cols : f[i] \in Int
            BY <2>1
        <3>5. g \in [0 .. Cols -> Int]
            BY <1>4, <3>4
        <3> HIDE DEF g
        <3> QED BY <1>4, <2>1, <3>2, <3>3, <3>5
    <2>6. \A i \in 1 .. Cols : g[i] = g[i - 1] + Price(i)'
        <3> SUFFICES ASSUME NEW i \in 1 .. Cols PROVE g[i] = g[i - 1] + Price(i)'
            OBVIOUS
        <3>1. /\ f[i] = f[i - 1] + Price(i) /\ f[i] \in Int /\ f[i - 1] \in Int
              /\ i - 1 \in 0 .. Cols /\ i \in 0 .. Cols
            BY <2>1, <2>4, SMTT(30)
        <3>2. /\ g[i] = IF i >= c THEN f[i] - cost[c] ELSE f[i]
              /\ g[i - 1] = IF i - 1 >= c THEN f[i - 1] - cost[c] ELSE f[i - 1]
            BY <3>1
        <3> HIDE DEF g
        <3>3. CASE i = c
            BY <1>4, <2>3, <2>4, <3>1, <3>2, <3>3
        <3>4. CASE i # c
            <4>1. i >= c <=> i - 1 >= c
                BY <2>4, <3>4
            <4>2. Price(i)' = Price(i) /\ Price(i) \in Int
                BY <2>3, <2>4, <3>4
            <4> QED BY <1>4, <3>1, <3>2, <4>1, <4>2
        <3> QED BY <3>3, <3>4
    <2> HIDE DEF g
    <2> QED BY <2>5, <2>6 DEF ChargesAddUp
<1>8. RateLimitRespected'
    BY <1>2, <1>5, PermitsLimitCalls, PTL
<1>9. BatchInv'
    BY <1>1, <1>2, <1>5, <1>6, <1>7 DEF BatchInv
<1> QED BY <1>5, <1>8, <1>9, BatchSuffices, PTL

\* A step that issues no call keeps the calls within the limit.
LEMMA FewerCalls ==
    ASSUME TypeOK, RateLimitRespected, phase = "batch",
           \A d \in Columns : thread'[d] \in {"queued", "running"} => thread[d] \in {"queued", "running"}
    PROVE  RateLimitRespected'
<1> SUFFICES ASSUME NEW t \in Tiers
             PROVE  Cardinality({d \in Columns : Tier[d] = t /\ thread'[d] \in {"queued", "running"}})
                        <= Concurrency[t]
    BY DEF RateLimitRespected
<1> DEFINE F == {d \in Columns : Tier[d] = t /\ thread[d] \in {"queued", "running"}}
           G == {d \in Columns : Tier[d] = t /\ thread'[d] \in {"queued", "running"}}
<1>1. G \subseteq F /\ F \subseteq Columns
    OBVIOUS
<1>2. Cardinality(F) <= Concurrency[t] /\ Concurrency[t] \in Nat
    BY EnrichmentAssumption DEF RateLimitRespected, Tiers
<1> HIDE DEF F, G
<1>3. Cardinality(G) <= Cardinality(F) /\ Cardinality(G) \in Nat /\ Cardinality(F) \in Nat
    BY <1>1, FewerColumns, ColumnSet
<1>4. Cardinality(G) <= Concurrency[t]
    BY <1>2, <1>3
<1> QED BY <1>4 DEF G

\* The group is aborted: nothing is left to run but the calls a worker has taken.
LEMMA AbortStep ==
    ASSUME IInv, NEW c \in Columns, Abort(c)
    PROVE  IInv'
<1>1. /\ TypeOK /\ TotalIsRecorded /\ BatchInv /\ RateLimitRespected /\ phase = "batch" /\ ~Cancelled
    BY LoopContext DEF Abort, Steps
<1> USE DEF BatchInv
<1>2. /\ ready' = <<>> /\ UNCHANGED <<phase, batches, permits, waiters, cost, spent, ledger, billed, base>>
      /\ \A d \in Columns : task'[d] = IF task[d] \in {"done", "failed"} THEN task[d] ELSE "cancelled"
      /\ task' \in [Columns -> TaskStates]
    BY <1>1 DEF Abort, TypeOK, TaskStates
<1>3. /\ thread' \in [Columns -> ThreadStates]
      /\ \A d \in Columns : thread'[d] = thread[d] \/ (thread[d] = "queued" /\ thread'[d] = "none")
    BY <1>1 DEF Abort, TypeOK, ThreadStates
<1>4. Places' = {}
    BY <1>2 DEF Places
<1>5. TypeOK' /\ TotalIsRecorded'
    BY <1>1, <1>2, <1>3 DEF TypeOK, TotalIsRecorded
<1>6. QueueFitsTasks' /\ QueueHasNoRepeats' /\ StartsRunFirst'
    BY <1>4 DEF QueueFitsTasks, QueueHasNoRepeats, StartsRunFirst
<1>7. FailureAborts'
    BY <1>2 DEF FailureAborts, Ended
<1>8. ~Cancelled' => \A d \in Columns : task'[d] = task[d]
    BY <1>2 DEF Cancelled
<1>9. WaitersWait'
    <2>1. \A t \in Tiers : \A i \in 1 .. Len(waiters[t]) : waiters[t][i] \in Columns
        BY <1>1 DEF TypeOK
    <2> QED BY <1>1, <1>2, <1>8, <2>1 DEF WaitersWait
<1>10. CallsBelongToTasks'
    BY <1>1, <1>2, <1>3 DEF CallsBelongToTasks
<1>11. PermitsAreCounted'
    <2>1. ~Cancelled' => \A t \in Tiers : Holders(t)' = Holders(t)
        BY <1>8 DEF Holders
    <2> QED BY <1>1, <1>2, <2>1 DEF PermitsAreCounted
<1>12. LoadBounded'
    <2>1. (Issued \cup WokenInTime)' \subseteq Issued \cup WokenInTime
        BY <1>2, <1>3, <1>4 DEF Issued, WokenInTime
    <2> QED BY <1>1, <2>1, LoadShrinks
<1>13. RecordedBounded'
    <2>1. Calling' \subseteq Calling
        BY <1>2 DEF Calling
    <2> QED BY <1>1, <1>2, <2>1, RecordedShrinks
<1>14. ChargesAddUp'
    <2>1. Begun' = Begun
        BY <1>2, <1>3 DEF Begun
    <2> QED BY <1>1, <1>2, <2>1, SameCharges
<1>15. RateLimitRespected'
    BY <1>1, <1>2, <1>3, FewerCalls
<1>16. BatchInv'
    BY <1>1, <1>6, <1>7, <1>9, <1>10, <1>11, <1>12, <1>13, <1>14
<1> HIDE DEF BatchInv
<1> QED BY <1>5, <1>15, <1>16, BatchSuffices, PTL

\* A worker takes a call: from here on the provider charges for it.
LEMMA BeginStep ==
    ASSUME IInv, NEW c \in Columns, CallBegins(c)
    PROVE  IInv'
<1>1. /\ TypeOK /\ TotalIsRecorded /\ BatchInv /\ RateLimitRespected /\ phase = "batch"
    BY DEF CallBegins, IInv
<1> USE DEF BatchInv
<1>2. PICK amount \in Costs : cost' = [cost EXCEPT ![c] = amount] /\ billed' = billed + amount
    BY DEF CallBegins
<1>3. /\ UNCHANGED <<phase, batches, ready, task, permits, waiters, spent, ledger, base>>
      /\ thread[c] = "queued" /\ thread' = [thread EXCEPT ![c] = "running"]
    BY DEF CallBegins, loopVars
<1>4. /\ thread'[c] = "running" /\ \A d \in Columns : d # c => thread'[d] = thread[d]
      /\ task[c] \in {"calling", "cancelled"} /\ amount \in Nat /\ amount <= MaxCost
      /\ cost'[c] = amount /\ \A d \in Columns : d # c => cost'[d] = cost[d]
    BY <1>1, <1>2, <1>3, EnrichmentAssumption DEF TypeOK, CallsBelongToTasks, Costs
<1>5. TypeOK' /\ TotalIsRecorded' /\ Places' = Places
    BY <1>1, <1>2, <1>3, <1>4 DEF TypeOK, TotalIsRecorded, ThreadStates, Places
<1>6. QueueFitsTasks' /\ QueueHasNoRepeats' /\ StartsRunFirst'
    <2>1. \A i \in Places : ready[i][2] \in Columns
        BY <1>1 DEF Places, TypeOK
    <2>2. QueueFitsTasks'
        BY <1>1, <1>3, <1>4, <1>5, <2>1 DEF QueueFitsTasks
    <2> QED BY <1>1, <1>3, <1>5, <2>2 DEF QueueHasNoRepeats, StartsRunFirst
<1>7. FailureAborts' /\ WaitersWait' /\ PermitsAreCounted'
    BY <1>1, <1>3, <1>5 DEF FailureAborts, Ended, Cancelled, Failed, WaitersWait, PermitsAreCounted, Holders
<1>8. CallsBelongToTasks'
    BY <1>1, <1>3, <1>4 DEF CallsBelongToTasks
<1>9. LoadBounded'
    <2>1. (Issued \cup WokenInTime)' \subseteq Issued \cup WokenInTime
        BY <1>3, <1>4, <1>5 DEF Issued, WokenInTime
    <2> QED BY <1>1, <2>1, LoadShrinks
<1>10. RecordedBounded'
    <2>1. Calling' \subseteq Calling
        BY <1>3 DEF Calling
    <2> QED BY <1>1, <1>3, <2>1, RecordedShrinks
<1>11. ChargesAddUp'
    <2>1. PICK f \in [0 .. Cols -> Int] :
            /\ f[0] = 0 /\ f[Cols] = billed - ledger - base
            /\ \A i \in 1 .. Cols : f[i] = f[i - 1] + Price(i)
        BY <1>1 DEF ChargesAddUp
    <2>2. Begun' = Begun \cup {c} /\ c \notin Begun
        BY <1>3, <1>4 DEF Begun
    <2>3. /\ Price(c) = 0 /\ Price(c)' = amount
          /\ \A i \in Columns : i # c => Price(i)' = Price(i)
        BY <1>4, <2>2 DEF Price
    <2>4. /\ c \in 1 .. Cols /\ Cols \in Nat /\ \A i \in 1 .. Cols : Price(i) \in Int
          /\ Columns = 1 .. Cols
        BY <1>1, EnrichmentAssumption DEF Columns, Price, TypeOK, Costs
    <2> DEFINE g == [i \in 0 .. Cols |-> IF i >= c THEN f[i] + amount ELSE f[i]]
    <2>5. g \in [0 .. Cols -> Int] /\ g[0] = 0 /\ g[Cols] = billed' - ledger - base
        <3>1. 0 \in 0 .. Cols /\ Cols \in 0 .. Cols /\ ~(0 >= c) /\ Cols >= c
            BY <2>4
        <3>2. billed \in Nat /\ ledger \in Nat /\ base \in Int
            BY <1>1 DEF TypeOK
        <3>3. g[0] = f[0] /\ g[Cols] = f[Cols] + amount
            BY <3>1
        <3>4. \A i \in 0 .. Cols : f[i] \in Int
            BY <2>1
        <3>5. g \in [0 .. Cols -> Int]
            BY <1>4, <3>4
        <3> HIDE DEF g
        <3> QED BY <1>2, <1>4, <2>1, <3>2, <3>3, <3>5
    <2>6. \A i \in 1 .. Cols : g[i] = g[i - 1] + Price(i)'
        <3> SUFFICES ASSUME NEW i \in 1 .. Cols PROVE g[i] = g[i - 1] + Price(i)'
            OBVIOUS
        <3>1. /\ f[i] = f[i - 1] + Price(i) /\ f[i] \in Int /\ f[i - 1] \in Int
              /\ i - 1 \in 0 .. Cols /\ i \in 0 .. Cols
            BY <2>1, <2>4
        <3>2. /\ g[i] = IF i >= c THEN f[i] + amount ELSE f[i]
              /\ g[i - 1] = IF i - 1 >= c THEN f[i - 1] + amount ELSE f[i - 1]
            BY <3>1
        <3> HIDE DEF g
        <3>3. CASE i = c
            BY <1>4, <2>3, <2>4, <3>1, <3>2, <3>3
        <3>4. CASE i # c
            <4>1. i >= c <=> i - 1 >= c
                BY <2>4, <3>4
            <4>2. Price(i)' = Price(i) /\ Price(i) \in Int
                BY <2>3, <2>4, <3>4
            <4> QED BY <1>4, <3>1, <3>2, <4>1, <4>2
        <3> QED BY <3>3, <3>4
    <2> HIDE DEF g
    <2> QED BY <1>3, <2>5, <2>6 DEF ChargesAddUp
<1>12. RateLimitRespected'
    BY <1>1, <1>3, <1>4, FewerCalls
<1>13. BatchInv'
    BY <1>1, <1>6, <1>7, <1>8, <1>9, <1>10, <1>11
<1> HIDE DEF BatchInv
<1> QED BY <1>5, <1>12, <1>13, BatchSuffices, PTL

\* A call ends and, unless its task was cancelled, the loop is told.
LEMMA EndStep ==
    ASSUME IInv, NEW c \in Columns, CallEnds(c)
    PROVE  IInv'
<1> DEFINE m == Len(ready)
<1>1. /\ TypeOK /\ TotalIsRecorded /\ BatchInv /\ RateLimitRespected /\ phase = "batch"
    BY DEF CallEnds, IInv
<1> USE DEF BatchInv
<1>2. PICK r \in {"ok", "error"} : thread' = [thread EXCEPT ![c] = r]
    BY DEF CallEnds
<1>3. /\ UNCHANGED <<phase, batches, task, permits, waiters, cost, spent, ledger, billed, base>>
      /\ thread[c] = "running"
      /\ ready' = IF task[c] = "calling" THEN Append(ready, <<"resume", c>>) ELSE ready
    BY DEF CallEnds
<1>4. /\ thread'[c] = r /\ (\A d \in Columns : d # c => thread'[d] = thread[d])
      /\ task[c] \in {"calling", "cancelled"}
    BY <1>1, <1>2, <1>3 DEF TypeOK, CallsBelongToTasks
<1>5. /\ ready \in Seq(Steps \X Columns) /\ <<"resume", c>> \in Steps \X Columns /\ m \in Nat
      /\ Places = 1 .. m /\ \A i \in Places : ready[i][2] \in Columns
    BY <1>1 DEF TypeOK, Steps, Places
<1>6. /\ ready' \in Seq(Steps \X Columns) /\ Places \subseteq Places'
      /\ \A i \in Places : ready'[i] = ready[i]
      /\ \A i \in Places' : i \in Places \/ (i = m + 1 /\ ready'[i] = <<"resume", c>> /\ task[c] = "calling")
    <2>1. CASE task[c] = "calling"
        <3>1. /\ ready' \in Seq(Steps \X Columns) /\ Len(ready') = m + 1 /\ ready'[m + 1] = <<"resume", c>>
              /\ \A i \in 1 .. m : ready'[i] = ready[i]
            BY <1>3, <1>5, <2>1, AppendProperties
        <3> QED BY <1>5, <2>1, <3>1 DEF Places
    <2>2. CASE task[c] # "calling"
        BY <1>3, <1>5, <2>2 DEF Places
    <2> QED BY <2>1, <2>2
<1>7. TypeOK' /\ TotalIsRecorded'
    BY <1>1, <1>2, <1>3, <1>6 DEF TypeOK, TotalIsRecorded, ThreadStates
<1>8. QueueFitsTasks'
    <2> SUFFICES ASSUME NEW i \in Places'
                 PROVE  LET d == ready'[i][2]
                        IN  /\ ready'[i][1] = "start" => task[d] = "new"
                            /\ ready'[i][1] = "wake" => task[d] = "woken"
                            /\ ready'[i][1] = "resume" => task[d] = "calling" /\ thread'[d] \in {"ok", "error"}
                            /\ ready'[i][1] = "abort" => task[d] = "failed"
        BY <1>3 DEF QueueFitsTasks
    <2>1. CASE i \in Places
        BY <1>1, <1>4, <1>5, <1>6, <2>1, SMTT(30) DEF QueueFitsTasks
    <2>2. CASE i = m + 1 /\ ready'[i] = <<"resume", c>> /\ task[c] = "calling"
        <3>1. ready'[i][1] = "resume" /\ ready'[i][2] = c
            BY <2>2
        <3> QED BY <1>4, <2>2, <3>1
    <2> QED BY <1>6, <2>1, <2>2
<1>9. QueueHasNoRepeats'
    <2>1. \A i \in Places : ready[i] # <<"resume", c>>
        BY <1>1, <1>3 DEF QueueFitsTasks
    <2>2. \A i, j \in Places' : ready'[i] = ready'[j] => i = j
        BY <1>1, <1>6, <2>1 DEF QueueHasNoRepeats
    <2> QED BY <2>2 DEF QueueHasNoRepeats
<1>10. StartsRunFirst'
    <2>1. \A i \in Places' : ready'[i][1] = "start" => i \in Places /\ ready[i][1] = "start"
        BY <1>6
    <2>2. \A i, j \in Places' : i < j /\ j \in Places => i \in Places
        BY <1>5, <1>6
    <2>3. \A i, j \in Places' : i < j /\ ready'[j][1] = "start" => ready'[i][1] = "start"
        BY <1>1, <1>6, <2>1, <2>2 DEF StartsRunFirst
    <2> QED BY <1>1, <1>3, <2>1, <2>3 DEF StartsRunFirst
<1>11. FailureAborts'
    <2>1. Ended => Ended'
        BY <1>3 DEF Ended
    <2>2. (\E i \in Places : ready[i][1] = "abort") => \E i \in Places' : ready'[i][1] = "abort"
        BY <1>6
    <2> QED BY <1>1, <1>3, <2>1, <2>2 DEF FailureAborts, Cancelled, Failed
<1>12. WaitersWait' /\ PermitsAreCounted'
    BY <1>1, <1>3 DEF Cancelled, WaitersWait, PermitsAreCounted, Holders
<1>13. CallsBelongToTasks'
    BY <1>1, <1>3, <1>4 DEF CallsBelongToTasks
<1>14. LoadBounded'
    <2>1. Issued' \subseteq Issued
        BY <1>3, <1>4 DEF Issued
    <2>2. WokenInTime' \subseteq WokenInTime
        <3> SUFFICES ASSUME NEW d \in WokenInTime' PROVE d \in WokenInTime
            OBVIOUS
        <3>1. PICK i \in Places' : ready'[i] = <<"wake", d>> /\ \A j \in 1 .. i : ready'[j][1] # "abort"
            BY DEF WokenInTime
        <3>2. i \in Places /\ \A j \in 1 .. i : j \in Places
            BY <1>5, <1>6, <3>1
        <3> QED BY <1>6, <3>1, <3>2, ZenonT(40) DEF WokenInTime
    <2>3. (Issued \cup WokenInTime)' \subseteq Issued \cup WokenInTime
        BY <2>1, <2>2
    <2> QED BY <1>1, <2>3, LoadShrinks
<1>15. RecordedBounded'
    <2>1. Calling' \subseteq Calling
        BY <1>3 DEF Calling
    <2> QED BY <1>1, <1>3, <2>1, RecordedShrinks
<1>16. ChargesAddUp'
    <2>1. Begun' = Begun
        BY <1>3, <1>4 DEF Begun
    <2> QED BY <1>1, <1>3, <2>1, SameCharges
<1>17. RateLimitRespected'
    BY <1>1, <1>3, <1>4, FewerCalls
<1>18. BatchInv'
    BY <1>1, <1>8, <1>9, <1>10, <1>11, <1>12, <1>13, <1>14, <1>15, <1>16
<1> HIDE DEF BatchInv
<1> QED BY <1>7, <1>17, <1>18, BatchSuffices, PTL

\* A batch entered below the cap starts with fresh semaphores and one task per column.
LEMMA EnterStep ==
    ASSUME IInv, EnterBatch, spent < Cap
    PROVE  IInv'
<1>1. /\ TypeOK /\ TotalIsRecorded /\ Cap \in Nat /\ Cols \in Nat /\ phase' = "batch"
      /\ batches \in Nat /\ batches' = batches + 1 /\ batches < MaxBatches
      /\ spent \in Nat /\ ledger \in Nat /\ billed \in Nat /\ ledger <= billed
      /\ UNCHANGED <<spent, ledger, billed>> /\ base' = billed - ledger
    BY EnrichmentAssumption DEF IInv, EnterBatch, TypeOK, OvershootBounded
<1>2. /\ ready' = [i \in Columns |-> <<"start", i>>]
      /\ task' = [d \in Columns |-> "new"] /\ thread' = [d \in Columns |-> "none"]
      /\ permits' = Concurrency /\ waiters' = [t \in Tiers |-> <<>>]
      /\ cost' = [d \in Columns |-> 0]
    BY <1>1 DEF EnterBatch, TypeOK
<1>3. ready' \in Seq(Steps \X Columns) /\ Len(ready') = Cols /\ Places' = 1 .. Cols
    <2>1. ready' \in [1 .. Cols -> Steps \X Columns]
        BY <1>2 DEF Columns, Steps
    <2>2. ready' \in Seq(Steps \X Columns) /\ Len(ready') = Cols
        BY <1>1, <2>1, SeqDef
    <2> QED BY <2>2 DEF Places
<1>4. TypeOK'
    <2>1. permits' \in [Tiers -> Nat] /\ \A t \in Tiers : permits'[t] <= Concurrency[t]
        BY <1>2, EnrichmentAssumption DEF Tiers
    <2>2. waiters' \in [Tiers -> Seq(Columns)] /\ cost' \in [Columns -> Costs]
        BY <1>2, EnrichmentAssumption DEF Costs
    <2>3. batches' \in 0 .. MaxBatches
        BY <1>1, EnrichmentAssumption
    <2> QED BY <1>1, <1>2, <1>3, <2>1, <2>2, <2>3 DEF TypeOK, TaskStates, ThreadStates
<1>5. TotalIsRecorded' /\ ~Cancelled' /\ ~Failed' /\ (ledger < Cap)'
    BY <1>1, <1>2 DEF TotalIsRecorded, Cancelled, Failed
<1>6. \A i \in 1 .. Cols : ready'[i] = <<"start", i>> /\ i \in Columns
    BY <1>2 DEF Columns
<1>7. QueueFitsTasks' /\ QueueHasNoRepeats' /\ StartsRunFirst'
    BY <1>1, <1>2, <1>3, <1>5, <1>6 DEF QueueFitsTasks, QueueHasNoRepeats, StartsRunFirst, Failed
<1>8. FailureAborts' /\ WaitersWait' /\ CallsBelongToTasks'
    BY <1>2, <1>5 DEF FailureAborts, WaitersWait, CallsBelongToTasks
<1>9. PermitsAreCounted'
    <2>1. \A t \in Tiers : Holders(t)' = {}
        BY <1>2 DEF Holders
    <2>2. Cardinality({}) = 0
        BY FS_EmptySet
    <2>3. \A t \in Tiers : /\ permits'[t] = Concurrency[t] /\ Concurrency[t] \in Nat
                           /\ Cardinality(Holders(t)') = 0
        BY <1>2, <2>1, <2>2, EnrichmentAssumption DEF Tiers
    <2>4. \A t \in Tiers : permits'[t] + Cardinality(Holders(t)') = Concurrency[t]
        BY <2>3
    <2> QED BY <2>4 DEF PermitsAreCounted
<1>10. LoadBounded'
    BY <1>4, <1>5, <1>7, <1>8, <1>9, LoadWithoutFailure, PTL
<1>11. RecordedBounded'
    BY <1>4, <1>5, <1>9, RecordedBelowCap, PTL
<1>12. ChargesAddUp'
    <2> DEFINE g == [i \in 0 .. Cols |-> 0]
    <2>1. \A i \in 1 .. Cols : Price(i)' = 0
        BY <1>2 DEF Price, Begun
    <2>2. g \in [0 .. Cols -> Int] /\ g[0] = 0 /\ g[Cols] = 0 /\ \A i \in 1 .. Cols : g[i] = g[i - 1] + 0
        BY <1>1
    <2>3. (billed - ledger - base)' = 0
        BY <1>1
    <2> HIDE DEF g
    <2> QED BY <2>1, <2>2, <2>3 DEF ChargesAddUp
<1>13. RateLimitRespected'
    BY <1>4, <1>5, <1>8, <1>9, PermitsLimitCalls, PTL
<1>14. BatchInv'
    BY <1>1, <1>7, <1>8, <1>9, <1>10, <1>11, <1>12 DEF BatchInv
<1> QED BY <1>4, <1>5, <1>13, <1>14, BatchSuffices, PTL

-----------------------------------------------------------------------------
(* The theorems. *)

\* Initially no process runs and nothing is spent.
LEMMA IInit == Init => IInv
<1> SUFFICES ASSUME Init PROVE IInv
    OBVIOUS
<1>1. TypeOK
    BY EnrichmentAssumption DEF Init, TypeOK, TaskStates, ThreadStates, Tiers, Costs
<1>2. N * MaxCost \in Nat /\ (N + 1) * MaxCost \in Nat /\ Cap \in Nat
    BY EnrichmentAssumption DEF N
<1>3. OvershootBounded
    BY <1>2 DEF Init, OvershootBounded
<1> QED BY <1>1, <1>3 DEF Init, IInv, TotalIsRecorded, RateLimitRespected

\* Every step of the loop, of the threads and of the processes keeps the invariant.
LEMMA IStep == IInv /\ [Next]_vars => IInv'
<1> SUFFICES ASSUME IInv, [Next]_vars PROVE IInv'
    OBVIOUS
<1>1. CASE NewPipeline \/ Return \/ ProcessEnds
    <2>1. /\ UNCHANGED <<batches, ready, task, permits, waiters, thread, cost, ledger, billed, base>>
          /\ phase' \in {"off", "between", "raised"} /\ (spent' = spent \/ spent' = ledger)
        BY <1>1 DEF NewPipeline, Return, ProcessEnds, loopVars
    <2> QED BY <2>1 DEF IInv, TypeOK, TotalIsRecorded, OvershootBounded, RateLimitRespected
<1>2. CASE EnterBatch
    <2>1. CASE spent >= Cap
        <3>1. /\ phase' = "raised" /\ UNCHANGED <<ready, task, permits, waiters, thread, cost, spent, ledger, billed>>
              /\ base' = billed - ledger /\ batches' = batches + 1 /\ batches < MaxBatches
            BY <1>2, <2>1 DEF EnterBatch, loopVars
        <3>2. /\ TypeOK' /\ TotalIsRecorded'
            BY <3>1, EnrichmentAssumption DEF IInv, TypeOK, TotalIsRecorded, OvershootBounded
        <3>3. (N + 1) * MaxCost \in Nat /\ billed \in Nat /\ ledger \in Nat
            BY EnrichmentAssumption DEF N, IInv, TypeOK
        <3>4. (billed - ledger - base)' = 0
            BY <3>1, <3>3
        <3>5. OvershootBounded'
            BY <3>1, <3>3, <3>4 DEF IInv, OvershootBounded, N
        <3> QED BY <3>1, <3>2, <3>5 DEF IInv, RateLimitRespected
    <2>2. CASE ~(spent >= Cap)
        <3>1. spent < Cap
            BY <2>2, EnrichmentAssumption DEF IInv, TypeOK
        <3> QED BY <1>2, <3>1, EnterStep
    <2> QED BY <2>1, <2>2
<1>3. ASSUME NEW c \in Columns, Start(c) PROVE IInv'
    <2>1. At("start", c) /\ "start" \in Steps
        BY <1>3 DEF Start, Steps
    <2>2. spent < Cap /\ spent \in Nat /\ Cap \in Nat
        BY <2>1, LoopContext, EnrichmentAssumption DEF BatchInv, StartsRunFirst, TypeOK
    <2>3. CASE permits[Tier[c]] = 0
        BY <1>3, <2>1, <2>3, WaitStep DEF Start
    <2>4. CASE permits[Tier[c]] # 0
        <3>1. ~(spent >= Cap)
            BY <2>2
        <3>2. /\ permits' = [permits EXCEPT ![Tier[c]] = @ - 1]
              /\ task' = [task EXCEPT ![c] = "calling"] /\ thread' = [thread EXCEPT ![c] = "queued"]
              /\ ready' = Tail(ready)
              /\ UNCHANGED <<waiters, phase, batches, cost, spent, ledger, billed, base>>
            BY <1>3, <2>4, <3>1 DEF Start
        <3> QED BY <2>1, <2>2, <2>4, <3>2, CallStep
    <2> QED BY <2>3, <2>4
<1>4. ASSUME NEW c \in Columns, Wake(c) PROVE IInv'
    <2>1. At("wake", c) /\ UNCHANGED <<phase, batches, cost, spent, ledger, billed, base>>
        BY <1>4 DEF Wake
    <2>2. CASE spent >= Cap
        <3>1. Release(c, Tail(ready), Raises(c)) /\ UNCHANGED thread
            BY <1>4, <2>2 DEF Wake, CallOrRefuse
        <3> QED BY <2>1, <3>1, FailStep
    <2>3. CASE ~(spent >= Cap)
        <3>1. spent < Cap
            BY <2>3, EnrichmentAssumption DEF IInv, TypeOK
        <3>2. /\ task' = [task EXCEPT ![c] = "calling"] /\ thread' = [thread EXCEPT ![c] = "queued"]
              /\ ready' = Tail(ready) /\ UNCHANGED <<permits, waiters>>
            BY <1>4, <2>3 DEF Wake, CallOrRefuse
        <3> QED BY <2>1, <3>1, <3>2, CallStep
    <2> QED BY <2>2, <2>3
<1>5. ASSUME NEW c \in Columns, Resume(c) PROVE IInv'
    <2>1. At("resume", c) /\ UNCHANGED <<phase, batches, thread, cost, billed, base>>
        BY <1>5 DEF Resume
    <2>2. CASE /\ thread[c] = "ok" /\ Release(c, Tail(ready), <<>>)
               /\ ledger' = ledger + cost[c] /\ spent' = ledger'
        BY <2>1, <2>2, RecordStep
    <2>3. CASE Release(c, Tail(ready), Raises(c)) /\ UNCHANGED <<spent, ledger>>
        BY <2>1, <2>3, FailStep
    <2> QED BY <1>5, <2>2, <2>3 DEF Resume
<1>6. ASSUME NEW c \in Columns, Abort(c) \/ CallBegins(c) \/ CallEnds(c) PROVE IInv'
    BY <1>6, AbortStep, BeginStep, EndStep
<1>7. CASE UNCHANGED vars
    <2>1. UNCHANGED <<phase, batches, ready, task, permits, waiters, thread, cost, spent, ledger, billed, base>>
        BY <1>7 DEF vars, loopVars
    <2>2. TypeOK' /\ TotalIsRecorded' /\ OvershootBounded' /\ RateLimitRespected'
        BY <2>1 DEF IInv, TypeOK, TotalIsRecorded, OvershootBounded, RateLimitRespected
    <2>3. ASSUME BatchInv PROVE BatchInv'
        <3>1. QueueFitsTasks' /\ QueueHasNoRepeats' /\ StartsRunFirst' /\ FailureAborts'
            BY <2>1, <2>3 DEF BatchInv, QueueFitsTasks, QueueHasNoRepeats, StartsRunFirst, FailureAborts,
                              Ended, Cancelled, Failed, Places
        <3>2. WaitersWait' /\ CallsBelongToTasks' /\ PermitsAreCounted'
            BY <2>1, <2>3 DEF BatchInv, WaitersWait, CallsBelongToTasks, Holders, PermitsAreCounted, Cancelled
        <3>3. LoadBounded' /\ RecordedBounded'
            BY <2>1, <2>3 DEF BatchInv, Issued, WokenInTime, Places, LoadBounded, Calling, RecordedBounded
        <3>4. ChargesAddUp'
            BY <2>1, <2>3 DEF BatchInv, Begun, Price, ChargesAddUp
        <3> QED BY <2>3, <3>1, <3>2, <3>3, <3>4 DEF BatchInv
    <2> QED BY <2>1, <2>2, <2>3 DEF IInv
<1> QED BY <1>1, <1>2, <1>3, <1>4, <1>5, <1>6, <1>7 DEF Next, LoopStep, ThreadStep

\* The permits, waiters, woken tasks and calls of enrich_batch, and the money they may
\* still cost, are accounted for in every state of any batch, abort and restart.
THEOREM BatchCorrect == Spec => []IInv
BY IInit, IStep, PTL DEF Spec

\* The queue, the tasks, the semaphores and the totals stay well typed, and no
\* semaphore ever holds more permits than it was made with.
THEOREM TypeCorrect == Spec => []TypeOK
<1>1. IInv => TypeOK
    BY DEF IInv
<1> QED BY <1>1, BatchCorrect, PTL

\* Recorded spend never passes the cap by more than N calls less one unit, and no batch
\* is charged for more than N + 1 calls it does not record, for any number of tables,
\* processes and kills.
THEOREM SpendBounded == Spec => []OvershootBounded
<1>1. IInv => OvershootBounded
    BY DEF IInv
<1> QED BY <1>1, BatchCorrect, PTL

\* No tier ever has more calls in the executor than its semaphore has permits, the
\* calls orphaned by an abort included.
THEOREM RateLimitHolds == Spec => []RateLimitRespected
<1>1. IInv => RateLimitRespected
    BY DEF IInv
<1> QED BY <1>1, BatchCorrect, PTL

\* A call is issued only while the recorded total is below the cap, whichever process
\* recorded it: the total a pipeline checks is the one the ledger holds.
THEOREM CapChecked == Spec => NoCallAtCap
<1>1. IInv /\ [Next]_vars => [\A c \in Columns : Started(c) => ledger < Cap]_vars
    <2> SUFFICES ASSUME IInv, Next, NEW c \in Columns, Started(c) PROVE ledger < Cap
        OBVIOUS
    <2>1. ~(spent >= Cap)
        <3>1. thread[c] # "queued" /\ thread'[c] = "queued"
            BY DEF Started
        <3>2. CASE EnterBatch
            BY <3>1, <3>2 DEF EnterBatch
        <3>3. ASSUME NEW d \in Columns, Start(d) \/ Wake(d) PROVE ~(spent >= Cap)
            BY <3>1, <3>3 DEF Start, Wake, CallOrRefuse
        <3>4. ASSUME NEW d \in Columns, Resume(d) PROVE FALSE
            BY <3>1, <3>4 DEF Resume
        <3>5. ASSUME NEW d \in Columns, Abort(d) PROVE FALSE
            BY <3>1, <3>5 DEF Abort
        <3>6. ASSUME NEW d \in Columns, CallBegins(d) \/ CallEnds(d) PROVE FALSE
            BY <3>1, <3>6 DEF CallBegins, CallEnds, IInv, TypeOK
        <3>7. CASE NewPipeline \/ Return \/ ProcessEnds
            BY <3>1, <3>7 DEF NewPipeline, Return, ProcessEnds
        <3> QED BY <3>2, <3>3, <3>4, <3>5, <3>6, <3>7 DEF Next, LoopStep, ThreadStep
    <2> QED BY <2>1, EnrichmentAssumption DEF IInv, TypeOK, TotalIsRecorded
<1> QED BY <1>1, BatchCorrect, PTL DEF Spec, NoCallAtCap
=============================================================================
