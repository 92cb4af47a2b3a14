------------------------- MODULE EnrichmentPipeline -------------------------
(***************************************************************************)
(* EnrichmentPipeline.enrich_columns_async: one asyncio task per column of *)
(* a table, a semaphore per tier, LLM calls in executor threads, a cost    *)
(* cap checked before each call and a persistent spend ledger.             *)
(*                                                                         *)
(* The event loop is the FIFO `ready`: one action runs its head to the     *)
(* next await.  Threads run beside the loop.  Amounts are in units of the  *)
(* ledger's micro-dollars.                                                 *)
(***************************************************************************)
EXTENDS Integers, Sequences, FiniteSets

CONSTANTS
    Cols,         \* the columns of a table, in task-creation order 1..n
    Tier,         \* column -> the tier _select_client routes it to
    Concurrency,  \* tier -> permits of its semaphore
    Workers,      \* threads of the loop's default executor
    Cap,          \* max_cost_usd
    MaxCost,      \* the dearest single call
    MaxBatches    \* bound: tables enriched, over all processes

ASSUME EnrichmentAssumption ==
    /\ Cols \in Nat \ {0} /\ Workers \in Nat \ {0}
    /\ Tier \in [1 .. Cols -> {"default", "cryptic"}]
    /\ Concurrency \in [{"default", "cryptic"} -> Nat \ {0}]
    /\ Cap \in Nat /\ MaxCost \in Nat /\ MaxBatches \in Nat

Columns == 1 .. Cols
Tiers == {"default", "cryptic"}
Costs == 0 .. MaxCost

VARIABLES
    phase,     \* "off" (no process), "between" tables, "batch", "raised"
    batches,   \* tables started
    ready,     \* the loop's queue of <<step, column>>
    task,      \* state of each column's task
    permits,   \* Semaphore._value of each tier
    waiters,   \* Semaphore._waiters of each tier, those not yet woken
    thread,    \* the column's call in the executor
    cost,      \* what the provider charges for it
    spent,     \* _spent_usd
    ledger,    \* cost_ledger.spent_usd_micros
    billed,    \* history: what the provider charged in all
    base       \* history: billed - ledger when the batch began

loopVars == <<ready, task, permits, waiters>>
vars == <<phase, batches, loopVars, thread, cost, spent, ledger, billed, base>>

TaskStates == {"none", "new", "waiting", "woken", "calling", "done", "failed", "cancelled"}
ThreadStates == {"none", "queued", "running", "ok", "error"}
Steps == {"start", "wake", "resume", "abort"}

Init ==
    /\ phase = "off" /\ batches = 0
    /\ ready = <<>> /\ task = [c \in Columns |-> "none"]
    /\ permits = Concurrency /\ waiters = [t \in Tiers |-> <<>>]
    /\ thread = [c \in Columns |-> "none"] /\ cost = [c \in Columns |-> 0]
    /\ spent = 0 /\ ledger = 0 /\ billed = 0 /\ base = 0

\* Fault: the total of the previous process is forgotten.
NewPipelineFromZero ==
    /\ phase = "off"
    /\ phase' = "between" /\ spent' = 0
    /\ UNCHANGED <<batches, loopVars, thread, cost, ledger, billed, base>>

-----------------------------------------------------------------------------
\* __init__: a new process takes the running total from the ledger.
NewPipeline ==
    /\ phase = "off"
    /\ phase' = "between" /\ spent' = ledger
    /\ UNCHANGED <<batches, loopVars, thread, cost, ledger, billed, base>>

\* The pre-call cap check of a batch, then fresh semaphores and one task per column.
EnterBatch ==
    /\ phase = "between" /\ batches < MaxBatches
    /\ batches' = batches + 1 /\ base' = billed - ledger
    /\ IF spent >= Cap
         THEN phase' = "raised" /\ UNCHANGED <<loopVars, thread, cost>>
         ELSE /\ phase' = "batch"
              /\ ready' = [i \in Columns |-> <<"start", i>>]
              /\ task' = [c \in Columns |-> "new"]
              /\ permits' = Concurrency /\ waiters' = [t \in Tiers |-> <<>>]
              /\ thread' = [c \in Columns |-> "none"] /\ cost' = [c \in Columns |-> 0]
    /\ UNCHANGED <<spent, ledger, billed>>

-----------------------------------------------------------------------------
(* The steps of _one, each run by the loop from the head of `ready`. *)

At(step, c) == phase = "batch" /\ ready # <<>> /\ Head(ready) = <<step, c>>

\* Fault: the permit returns to the semaphore and nobody is woken.
ReleaseSilently(c, q, next) ==
    /\ permits' = [permits EXCEPT ![Tier[c]] = @ + 1]
    /\ ready' = q \o next
    /\ task' = [task EXCEPT ![c] = IF next = <<>> THEN "done" ELSE "failed"]
    /\ UNCHANGED waiters

\* Semaphore.release by column c, on top of the queue q: the permit goes to the
\* first waiter, whose wake-up is queued, or back to the semaphore.
Release(c, q, next) ==
    LET t == Tier[c]
    IN  IF waiters[t] = <<>>
          THEN /\ permits' = [permits EXCEPT ![t] = @ + 1]
               /\ ready' = q \o next
               /\ task' = [task EXCEPT ![c] = IF next = <<>> THEN "done" ELSE "failed"]
               /\ UNCHANGED waiters
          ELSE LET w == Head(waiters[t])
               IN  /\ waiters' = [waiters EXCEPT ![t] = Tail(@)]
                   /\ ready' = Append(q, <<"wake", w>>) \o next
                   /\ task' = [task EXCEPT ![w] = "woken", ![c] = IF next = <<>> THEN "done" ELSE "failed"]
                   /\ UNCHANGED permits

\* The task ends with an exception: its done callback, TaskGroup's abort, is
\* queued behind whatever its own release queued.
Raises(c) == <<<<"abort", c>>>>

\* Fault: no cap check inside the semaphore.
CallUnchecked(c) ==
    /\ task' = [task EXCEPT ![c] = "calling"]
    /\ thread' = [thread EXCEPT ![c] = "queued"]
    /\ ready' = Tail(ready)
    /\ UNCHANGED <<permits, waiters>>

\* Inside `async with sem`: the per-task cap check, then asyncio.to_thread.
\* (`permits` is already decremented for the caller.)
CallOrRefuse(c) ==
    IF spent >= Cap
      THEN /\ Release(c, Tail(ready), Raises(c))
           /\ UNCHANGED thread
      ELSE /\ task' = [task EXCEPT ![c] = "calling"]
           /\ thread' = [thread EXCEPT ![c] = "queued"]
           /\ ready' = Tail(ready)
           /\ UNCHANGED <<permits, waiters>>

\* Fault: a call starts while the semaphore is exhausted.
StartUnbounded(c) ==
    /\ At("start", c)
    /\ CallOrRefuse(c)
    /\ UNCHANGED <<phase, batches, cost, spent, ledger, billed, base>>

\* The task's first step: take a permit and call, refuse, or queue up.  A refusal
\* gives the permit back at once; with a permit free nobody waits for it.
Start(c) ==
    /\ At("start", c)
    /\ IF permits[Tier[c]] = 0
         THEN /\ waiters' = [waiters EXCEPT ![Tier[c]] = Append(@, c)]
              /\ task' = [task EXCEPT ![c] = "waiting"]
              /\ ready' = Tail(ready)
              /\ UNCHANGED <<permits, thread>>
         ELSE IF spent >= Cap
         THEN /\ task' = [task EXCEPT ![c] = "failed"]
              /\ ready' = Tail(ready) \o Raises(c)
              /\ UNCHANGED <<permits, waiters, thread>>
         ELSE /\ permits' = [permits EXCEPT ![Tier[c]] = @ - 1]
              /\ task' = [task EXCEPT ![c] = "calling"]
              /\ thread' = [thread EXCEPT ![c] = "queued"]
              /\ ready' = Tail(ready)
              /\ UNCHANGED waiters
    /\ UNCHANGED <<phase, batches, cost, spent, ledger, billed, base>>

\* A waiter handed a permit resumes.
Wake(c) ==
    /\ At("wake", c)
    /\ CallOrRefuse(c)
    /\ UNCHANGED <<phase, batches, cost, spent, ledger, billed, base>>

\* The call returned: the permit is released, then the cost is validated and
\* recorded, in the ledger first, with no await in between.
Resume(c) ==
    /\ At("resume", c)
    /\ \/ /\ thread[c] = "ok"
          /\ Release(c, Tail(ready), <<>>)
          /\ ledger' = ledger + cost[c] /\ spent' = ledger'
       \/ \* complete raised, the cost is not a finite amount, or the ledger is locked
          /\ Release(c, Tail(ready), Raises(c))
          /\ UNCHANGED <<spent, ledger>>
    /\ UNCHANGED <<phase, batches, thread, cost, billed, base>>

\* TaskGroup._on_task_done after a failure: every unfinished task is cancelled and
\* what is left in the queue can only raise CancelledError.  A call still in the
\* executor's queue is withdrawn unless a worker takes it first.
Abort(c) ==
    /\ At("abort", c)
    /\ ready' = <<>>
    /\ task' = [d \in Columns |-> IF task[d] \in {"done", "failed"} THEN task[d] ELSE "cancelled"]
    /\ \E taken \in SUBSET {d \in Columns : thread[d] = "queued"} :
        thread' = [d \in Columns |->
            IF thread[d] = "queued" /\ d \notin taken THEN "none" ELSE thread[d]]
    /\ UNCHANGED <<phase, batches, permits, waiters, cost, spent, ledger, billed, base>>

-----------------------------------------------------------------------------
(* Executor threads: client.complete. *)

\* A worker takes a queued call; from here on the provider charges for it.
CallBegins(c) ==
    /\ phase = "batch" /\ thread[c] = "queued"
    /\ Cardinality({d \in Columns : thread[d] = "running"}) < Workers
    /\ thread' = [thread EXCEPT ![c] = "running"]
    /\ \E amount \in Costs :
        /\ cost' = [cost EXCEPT ![c] = amount]
        /\ billed' = billed + amount
    /\ UNCHANGED <<phase, batches, loopVars, spent, ledger, base>>

\* The call ends; the loop is told unless the task was cancelled meanwhile.
CallEnds(c) ==
    /\ phase = "batch" /\ thread[c] = "running"
    /\ \E r \in {"ok", "error"} : thread' = [thread EXCEPT ![c] = r]
    /\ ready' = IF task[c] = "calling" THEN Append(ready, <<"resume", c>>) ELSE ready
    /\ UNCHANGED <<phase, batches, task, permits, waiters, cost, spent, ledger, billed, base>>

\* asyncio.run returns once every task has ended and shutdown_default_executor
\* has joined the threads: with the descriptions, or with the first exception.
Return ==
    /\ phase = "batch"
    /\ \A c \in Columns : /\ task[c] \in {"done", "failed", "cancelled"}
                          /\ thread[c] \notin {"queued", "running"}
    /\ ready = <<>>
    /\ phase' = IF \A c \in Columns : task[c] = "done" THEN "between" ELSE "raised"
    /\ UNCHANGED <<batches, loopVars, thread, cost, spent, ledger, billed, base>>

\* The process ends: after an exception or the last table, or killed at any point.
ProcessEnds ==
    /\ phase # "off"
    /\ phase' = "off"
    /\ UNCHANGED <<batches, loopVars, thread, cost, spent, ledger, billed, base>>

-----------------------------------------------------------------------------
LoopStep == \E c \in Columns : Start(c) \/ Wake(c) \/ Resume(c) \/ Abort(c)
ThreadStep == \E c \in Columns : CallBegins(c) \/ CallEnds(c)

Next == NewPipeline \/ EnterBatch \/ LoopStep \/ ThreadStep \/ Return \/ ProcessEnds

\* The loop runs what is ready; a worker thread takes queued calls and the SDK's
\* timeout ends every call.  Nobody is obliged to index a table.
Spec == Init /\ [][Next]_vars /\ WF_vars(LoopStep) /\ WF_vars(ThreadStep) /\ WF_vars(Return)

-----------------------------------------------------------------------------
(* Properties *)

\* The docstring's `concurrency`, over both tiers.
N == Concurrency["default"] + Concurrency["cryptic"]

\* Every field has its type; a semaphore never holds more permits than it was made with.
TypeOK ==
    /\ phase \in {"off", "between", "batch", "raised"} /\ batches \in 0 .. MaxBatches
    /\ ready \in Seq(Steps \X Columns)
    /\ task \in [Columns -> TaskStates] /\ thread \in [Columns -> ThreadStates]
    /\ permits \in [Tiers -> Nat] /\ \A t \in Tiers : permits[t] <= Concurrency[t]
    /\ waiters \in [Tiers -> Seq(Columns)]
    /\ cost \in [Columns -> Costs]
    /\ spent \in Nat /\ ledger \in Nat /\ billed \in Nat /\ base \in Int

\* Recorded spend passes the cap by less than N calls, over any number of tables,
\* processes and crashes, and what a batch is charged beyond it is at most N + 1 calls:
\* the N in flight when it failed and the one whose own recording raised.
OvershootBounded ==
    /\ ledger <= (IF Cap = 0 THEN 0 ELSE Cap - 1 + N * MaxCost)
    /\ ledger <= billed /\ billed - ledger - base <= (N + 1) * MaxCost

\* The calls a tier has in the executor never outnumber its semaphore's permits,
\* the ones orphaned by an abort included.
RateLimitRespected ==
    phase = "batch" => \A t \in Tiers :
        Cardinality({c \in Columns : Tier[c] = t /\ thread[c] \in {"queued", "running"}}) <= Concurrency[t]

Started(c) == thread[c] # "queued" /\ thread'[c] = "queued"

\* No call is issued once the recorded total has reached the cap, whichever process
\* recorded it and whatever woke the task.
NoCallAtCap == [][\A c \in Columns : Started(c) => ledger < Cap]_vars

\* A batch comes to an end: no task waits for a permit nobody will release.
BatchEnds == phase = "batch" ~> phase # "batch"
=============================================================================
