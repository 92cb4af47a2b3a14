# Verification of SchemaBrain

SchemaBrain puts a read-only, PII-aware MCP server between an agent and a database. This
directory models the parts of it whose correctness depends on ordering, failure, concurrency or a
decision procedure that is easy to get wrong: TLA+ modules translated from `schemabrain/`, TLC
configurations that check them on small instances, and TLAPS proofs for every instance.
`PROJECT.json` maps every definition to the lines it models and lists runs, mutants, hazards,
findings and theorems.

## Inventory

| component | source | state | operations | what is hard |
|---|---|---|---|---|
| audit chain | `audit/` | `mcp_audit` rows, cached tail hash per process | write, recover tail, verify walk, time and hash cursors | cached tail versus shared table, failure between hash and commit, crash, power loss |
| Merkle proofs | `audit/merkle.py`, `dashboard/sidecar.py` | none | root, inclusion path, verify | index arithmetic for trees that are not a power of two |
| event bus and tail | `observability/bus.py`, `tail.py`, `instrument.py` | `events.jsonl`, one rotated file, reader offset, partial line | emit, rotate, poll, reopen | reader and writer interleave around a rename |
| enrichment pipeline | `enrichment/pipeline.py` | session spend, per-tier semaphores, ledger in the store | enrich a table, record spend, refuse at the cap | cap read before a slow call and used after it, cancelled siblings, restart |
| indexer | `indexer.py` | cached tables, fingerprints, descriptions, embeddings, PII tags | index, drop removed tables, diff, write | five transactions per table, crash between any two, cost cap in the middle |
| local store | `core/store.py` | one SQLite file | table, tag, override, entity, join, metric, spend, migration operations | cascades, ownership of rows, migration from older versions |
| PII firewall | `pii/`, `mcp/get_metric.py`, `semantic/` | tags, overrides, block policy | classify, propagate, refuse or run | several routes by which a column reaches a result |
| metric compiler | `semantic/compiler/` | none | resolve joins, render SQL | ambiguous paths, fan-out |
| MCP server | `mcp/server.py`, `mcp/*.py`, `observability/instrument.py` | tool registry, dependencies | twelve tools, argument check, response envelope | several SELECTs per answer while other processes write; a read that raises outside the tool's own handler |
| policy | `pii/policy*.py`, `cli.py` (`serve`, `policy`) | `pii_policy.yaml`, the sentinel a serve leaves, overrides in the store | save, boot, apply, tag, clear | file read and stat are two calls; one sentinel for all serves; check and write of an override |
| semantic layer | `entities/`, `joins/`, `metrics/`, `mining/`, `semantic/graph_projection.py`, `cli.py` | entities, joins, metrics, graph projection, example queries, a tree of YAML files | apply, suggest, export, diff, audit, mine | one transaction per definition, ownership by origin, the projection as a second write, round trip through files |
| dbt import, drift check | `imports/`, `check/` | none | import a manifest, compare with the live schema | partial import; one drift hides others |
| setup | `setup/`, `cli.py` (`init`, `doctor`, `wire`) | host configuration and its backup, `.env`, demo container | merge an entry atomically, seven stages, checks | crash and power loss around a rename, another writer of the file, re-run after a death, exit code |
| dashboard | `dashboard/` | none of its own | policy, preview, drift, overview, graph, audit pages, proof and event stream | several reads per answer while the files and the log change |
| profiler, connectors, embeddings, rendering | `profiler/`, `connectors/`, `cli_ui.py`, ... | none | I/O and formatting | nothing a state model shows |

How the parts interact. `index` (indexer, enrichment pipeline, profiler, classifier) fills the store;
`apply`, `pii` and the suggesters add what the operator decided; `serve` answers an agent from the
same SQLite file, appends to the audit chain and to the event file; `tail`, `audit verify` and the
dashboard read those two. Each command is a process of its own. They share the SQLite file and the
event file and nothing else, so in the code steps of different commands interleave at the granularity
of a statement or a transaction, or of a file-system call. A check that a `with conn:` block makes
before its first write is a step of its own: under the legacy isolation of Python's `sqlite3`
(`core/store.py:1394`) a SELECT begins no transaction. The models keep these steps and bound who
takes them: any number of processes in `AuditChain`, `Curation`, `HostConfig` and `Wizard`, any
number of serves and of terminals with policy commands in `ServePolicy`; one reader of the event file,
one `index` in `Indexer` and one call in `McpServer`, each beside other writers. `Indexer` has one
override pending at a time; `ServePolicy` is where overrides overlap.

What makes each part correct:

* audit chain: a row given back to a caller is stored as given; with one writer, verification reports
  exactly what was altered; the table is an append-only log.
* event tail: what the reader printed is what the bytes say, however polls and writes cut the lines.
* enrichment: the cost cap is overshot by a known amount, no call is issued at the cap, every batch
  ends.
* indexer: cached rows belong to the stored shape whichever transaction a run died after; repeated
  runs catch up; an operator's tag is changed by the operator only.
* metric compiler and gate: a plan is well ordered, shortest and never guessed; nothing blocked or
  unclassified is released.
* server: a column name leaves only if it was free of blocked tags at some moment of the call; an
  undisturbed call is answered as from one snapshot.
* semantic layer: dbt's entities and metrics stay dbt's, unless an import writes one between a
  command's check and its write; the graph is current after an apply; an import that
  reports success has landed; the drift check is exact; what is exported parses back to itself.
* setup: the host's file is whole after any death and keeps the other servers; nothing is replaced
  without consent or overwritten by a second run; exit code 0 means wired; doctor accepts what init
  wrote.
* dashboard: verdicts shown without a warning are enforced; proofs verify; stream and pages lose no
  row; a protected column is not stripped by an unforced command, unless its row changed between the
  command's check and its write.

## Modules

| module | models | state | actions |
|---|---|---|---|
| `AuditLog` | abstract: an append-only log and a head that commits to it | `log`, `head` | `Record`, loss of a suffix |
| `AuditChain` | `audit/writer.py`, `audit/verify.py`, `canonical.py`, start of `serve` | table rows, sync horizon, clock, per process the cached tail and lock, per thread its step in `write()` | `Start`, `Stop`, `Prepare`, `Commit`, `InsertFails`, `Return`, `Checkpoint`, `PowerLoss`, `Tick`, `StepBack`, `Alter` |
| `EventTail` | `observability/bus.py`, `tail.py` | inodes and their tokens, each writer's step, the reader's descriptor, offset and buffer | the steps of `emit` with rotation and short writes, the steps of a poll |
| `EnrichmentPipeline` | `enrichment/pipeline.py`, the spend ledger | the event loop's queue, tasks, semaphores, threads, session spend, ledger | `NewPipeline`, `EnterBatch`, `LoopStep`, `ThreadStep`, `Return`, `ProcessEnds` |
| `Indexer` | `indexer.py`, the table, tag and override operations of `core/store.py` | source schema, the store's five tables, the running `index()`, a pending override, curated entities | one action per store call, `Fail` between any two, `Ddl`, overrides, `ApplyEntity` |
| `JoinResolver` | the path search of `semantic/compiler/resolve.py` | none | operators |
| `GetMetric` | `resolve_metric_plan`, `_resolve_pii_categories`, execution | the plan being built, the columns looked up, the outcome | `Begin`, `ResolveReference`, `ResolveTime`, `Gate`, `Execute` |
| `FkPaths` | the breadth-first search of `mcp/suggest_joins.py` | none | the search, a frontier and the route to each table met, and a reference definition of distance |
| `McpServer` | the tools of `mcp/`, `instrument()`, and the writers beside them | the store's tables, columns, keys, tags, entities and joins; one call with what it has read, its reply and its audit row | one action per SELECT of a tool, `Lookup` for each tag query, `StoreRaises`, `Record`, `Reply`; the writes of `index`, `apply`, `pii` |
| `SemanticYaml` | the three YAML grammars and the dataclass checks of `core/` | none | parse and emit as operators on documents |
| `DriftCheck`, `JoinSuggester`, `DbtImport` | `check/engine.py`; `joins/suggest.py`, `joins/mining.py`; `imports/dbt.py`, `dbt_metrics.py` | none | operators |
| `Curation` | the commands of the semantic layer in `cli.py`, the store's writes with their ownership rules, the graph projection | the user's schema, the index, the layer, the projection, mined queries, the project tree, per process a job with what passed its guard and what the guard saw | one start action per command, then a step per store call or file, the origin guard (`CheckOwner`) apart from the write or delete it allows, `Die`, `Ddl`, `IndexTable` |
| `HostConfig` | `setup/config_io.py`, `env_file.py`, the install part of `init_flow.py` | the two files, whether the last rename is durable, the backup, each process's position in an install | a step per system call, `Save` by another program |
| `Doctor` | `setup/checks.py`, `doctor_flow.py`, `doctor_verify.py` | none | operators |
| `Wizard` | `setup/wizard.py`, `setup_stage.py`, `hosts.py`, `cli.py` init, wire, doctor, key | the store's rows per source, the demo container, each process's stage, job and outcomes | the stages, their prompts and writes, `Dies`, `PowerLoss` |
| `Merkle` | `audit/merkle.py` | none | root and path as recursive functions over the slices of the list, verification as one over the path |
| `ServePolicy` | `pii/policy_yaml.py`, the start of `serve`, the `policy` commands, the store's overrides | versions of the file, the sentinel, each serve's position, tags, per terminal a command in flight with what its check saw | `Save`, `Restore`, `RemoveFile`, the steps of a boot, check and write of an override or of its removal, the writes of `index` |
| `Sidecar` | `dashboard/sidecar.py` | one request with what it has read, one stream, one pager, one proof, the audit log | one action per read of a route, `AppendRow`, drop and reconnect |
| `ServerLogsProofs` | theorems about `AuditChain` and `EventTail`, the two logs a server writes | | |
| `IndexerProofs`, `EnrichmentProofs`, `GetMetricProofs`, `McpServerProofs`, `CurationProofs`, `WizardProofs`, `SidecarProofs` | theorems about the module of that name | | |
| `MC*` | constants, symmetry and the cases the runs enumerate | | |

`GetMetric` extends `JoinResolver`; `McpServer` extends `FkPaths`; `Curation` composes `SemanticYaml`,
`DriftCheck`, `JoinSuggester` and `DbtImport`; `Wizard` composes `HostConfig` and `Doctor`; `Sidecar`
composes `ServePolicy` and `Merkle`; `AuditChain` instantiates `AuditLog` as its abstract
specification. In `McpServer`, get_metric is only an outcome and the hint
of its errors: its decisions are `GetMetric`'s.

What is abstracted: a hash is the history it commits to, so hashes are equal only if histories are;
a fingerprint is the shape it hashes; a line is a body and a newline; a tag is the set of categories
(`GetMetric`), floor or other (`Indexer`), or blocked or not (`McpServer`); SQL text, descriptions,
confidence and hints are left out. In `McpServer` a reply is the set of column names it shows and
the set it masks. In `Curation` a file is the record of its keys and a definition the record of its
fields, so that a key that is missing, unknown or malformed is told apart and nothing else is; in
`HostConfig` an entry is the record of what the code compares; in `Merkle` a digest is the term it
hashes; the policy file's modification time in `ServePolicy` is the number of its version. A
definition introduced by "Fault:" is a faulty variant of the next one; `PROJECT.json` lists which
property each of them breaks. Specifications never use them.

## Runs

| run | question | bounds and why they are enough |
|---|---|---|
| `audit_solo` | Does one server keep the promises of the log? (`FullWalkIsExact`, `SinceWalkCoversThreshold`, `ImplementsLog`) | `MaxRows` 3: a row before, at and after any alteration; two threads contend for the lock; `MaxTime` 1 gives equal and descending times |
| `audit_duo` | What survives two servers and damaged blobs? (`ForksOnlyBetweenProcesses`, `AckedRowsAreDurable`) | two processes, `MaxRows` 3: a fork needs one shared row and one from each |
| `tail` | Does a reader lose or invent lines? (`PollingLosesNothing`, `ActiveEventsAreDelivered`) | `MaxTokens` 3 with lines of two tokens rotates on the second event; `MaxEvents` 4 reaches two rotations; three inodes |
| `enrich` | Is the cap kept, does a batch end? (`OvershootBounded`, `NoCallAtCap`, `RateLimitRespected`, `BatchEnds`) | four columns over two tiers with one permit each: a waiter in each tier; `Workers` 2; `Cap` 2 and `MaxCost` 2 overshoot; `MaxBatches` 2 covers a restart |
| `index` | Is the store consistent after a run died anywhere? (`CacheMatchesTable`, `TagsMatchTable`, `FinishedRunMirrorsSource`, `OperatorRowsAreTheOperators`, `StoreCatchesUp`) | two tables, two structures, `MaxDdl` 1, `MaxFailures` 1, `MaxOps` 2 (check and write of an override around a run); one override pending at a time |
| `metric` | Are plans unique and releases clean? (`JoinsAreTopological`, `NoGuessedJoin`, `PlanIsUnionOfChains`, `ReleasedIsClean`) | all graphs of up to four joins on four entities; `MaxHops` 6 as in the code |
| `server` | Do replies follow the tags, are paths shortest? (`MaskingFollowsTags`, `PathsAreShortest`, `QuietReplyIsExact`) | five tables with routes of two and three keys and `MaxHops` 3; `MaxCalls` 1, since nothing outlives a call; `MaxChanges` 2 (drop and return, tag and untag); `MaxFaults` 1; `Limit` 1 |
| `curation` | Does the layer stay consistent under every pair of commands? (`ApplyLeavesGraphCurrent`, `CheckIsExact`, `CleanImportLands`, `ExportedFilesParse`, `DbtRowsStayDbt`) | two entities on two tables with a key between them and one within a table, one metric; `MaxCommands` 2 over two processes: any command after, or in the middle of, any other; `MaxDdl` 1, `MaxDeaths` 1; trees with a good, a broken, a dbt-owned and a flagged file; initial states with an empty layer or with a tree already applied, so that a command may meet another's rows |
| `setup` | Is the host's file safe and the exit code true? (`ConfigIsWhole`, `OthersKept`, `ReplacedWithConsent`, `CuratedIsLeftAlone`, `ExitIsHonest`, `InitSatisfiesDoctor`) | command lines that differ from a plain `init` in one option each; `MaxRuns` 2 (a re-run, or a second terminal during the first), `MaxEdits` 1, `MaxDeaths` 1; four machines: empty, malformed servers, other servers only, a different entry |
| `dashboard` | Do the views say what is so? (`VerdictsAreEnforced`, `ProofVerifies`, `StreamIsGapless`, `PagesMissNothing`, `FloorSurvivesCommands`) | `MaxRows` 7: Merkle trees of every shape below eight leaves, four batches of two; `MaxSaves` 2: before and after; two serves; two terminals, whose commands may overlap between check and write. `MCDashboard` watches one reader per behaviour, since readers share nothing |
| `index_curation`, `metric_fan_out` | see Findings | the smallest instance that shows it |

`CHECK_DEADLOCK FALSE` is used where a process may stop for good or a call is over.

Fairness. `EventTail`: the reader polls for ever, `WF(Reader)`; no server has to emit.
`EnrichmentPipeline`: the event loop runs what is ready, executor threads take queued calls and the
SDK's timeout ends them, and `gather` returns. `Indexer`: a run takes its next step and the operator
runs `index` again, `WF(RunStep)`; failures and schema changes are bounded, so they stop.
The other modules state safety only: what they wait for is an operator, an agent or another
program, none of whom has to act.

## Proofs

Checked by TLAPS for every value of the constants that satisfies the named assumptions. The
assumptions say what shape a constant has (`WizardAssumption`: command lines and files are records
of the code's kinds; `PolicyAssumption`: policies and the classifier's rows are of the code's types,
and the classifier never writes an operator's row; `GetMetricAssumption`: the joins of a store are
finitely many; `ServerAssumption`: tables are ordered, a table's keys are finitely many with one row
per name, and a store a call finds keeps its own foreign keys; `CurationAssumption`,
`DocumentsAssumption` and `ManifestsAssumption`: definitions, files, answers and manifests have the
shapes their parsers and dataclasses check, and the three kinds of definition have names of their
own) and that bounds are natural numbers. None bounds how many processes, threads, columns, tables,
joins or rows there are.

`ServerLogsProofs`, about the audit chain. `AckedRowsAreDurable` is not inductive: between the commit
and the return the row is known only to the thread. `SharedInv` adds that a thread inside `write()` holds its process's lock
and a complete row, and that a committed row is in the table; it gives `TypeCorrect` and
`AckedDurable` for any number of processes and threads. `SoloInv` adds, for one process and hashes
left alone, that every inserted hash commits to all rows before it, that the cached tail is the last
inserted hash except between a commit and the assignment after it, and that the row in hand extends
the tail; from it
* `SoloWalkIsExact`: the full walk reports exactly the altered rows;
* `SoloSinceWalk`: an incremental walk that finds its cursor misses none recorded since the threshold;
* `SoloImplementsLog`: the refinement of `AuditLog`. A commit is `Record`, a power failure loses a
  suffix, every other step stutters.

With several processes the table is not that log. `ForkInv` keeps, per process, the last row it wrote
and whether another process has inserted since; `ForksBetweenProcesses` then says that two undamaged
neighbouring rows fail to link only where the writer changed.

The same module, about the event file. Parsing is a recursive function of the number of tokens read.
Three facts about it carry the reader: no line reaches across the end of another (`ParseOfConcat`), a
partial line yields no event (`ParseOfPartial`), and so what is read in two parts, the remainder of
the first carried over to the second, is what is read at once (`ReadingInParts`). `TailInv` adds to
`PollingLosesNothing` the types, that a writer under way has an event in hand (or it would append what
is no token) and that the first read follows an open. Other processes cannot spoil what was read: a
file somebody holds open only grows, and the inode of a new file is not one the reader has open.
Theorems: `TailTypes` and `TailLosesNothing`, with reuse of inode numbers or without.

`IndexerProofs`. `IndexInv` is `TypeOK`, `CacheMatchesTable`, `TagsMatchTable` and three facts about
what is in flight: `TableInHand` (at each step of a run, what the store holds of the table in hand and
its shape), `RunMirrors` (tables the run has passed equal the source while the schema rests) and
`OverrideChecked` (what a pending override saw). Without the first, a write of descriptions could be
for another shape than the row; without the second, the last step of a run says nothing about the
tables before; without the third, a downgrade could not be traced to the check that let it pass. Its
theorems are `TypeCorrect`, `CacheConsistent`, `TagsConsistent`, `FinishedMirrors` and `OperatorRows`
(the last two are action properties).

`EnrichmentProofs`, for any number of columns, workers and permits, any cap and any cost of a call.
`OvershootBounded` says nothing about money not yet spent, so `IInv` counts it: each permit is free
or held by one task (`PermitsAreCounted`, a permit handed to a woken waiter included), the calls
issued and those that woken tasks may still issue before the queued abort runs number at most the
permits plus one (`LoadBounded`), and what the ledger holds plus what the calls in flight may add stays
under the bound (`RecordedBounded`). `ChargesAddUp` ties the provider's bill to the ledger: their
difference is the running sum of the calls that began and were not recorded. The order of the loop's
queue is needed too: first steps run before everything else, and a failure has its abort queued.
Theorems: `TypeCorrect`, `SpendBounded`, `RateLimitHolds`, and the action property `CapChecked` (no call
is started once the ledger is at the cap).

`WizardProofs`, about `HostConfig` under `Wizard`, for any processes, hosts, command lines and files.
`IoInv` follows one read-change-rename: from the read on, what was read allows the change; from the
write on, the temporary file is the merge of it; a rename comes after the fsync. `WiresInv` says with
whose consent an install runs, `OutcomeInv` and `ChecksInv` what the recorded outcomes of the finished
stages are worth, `StoreInv` and `CuratesInv` what a run may have added to the rows it found. From them
`ConfigStaysWhole`, `OthersAreKept` and `ReplacementsAreAgreed` (action properties of the host's file),
`CuratedStays`, `ExitStaysHonest`, `InitPleasesDoctor` and the types (`SetupTyped`).

`SidecarProofs`, about `Sidecar` over `ServePolicy`. A verdict is right only if every read behind it
was: `Faithful` says a whole sentinel whose writer read the version it recorded names the block set in
force, `ServeOK` the same of a serve that has not written it yet, and `ViewInv` what a request has
established after each of its reads while nothing changed; together `DashboardTellsTheTruth`.
`GuardHeld` relates what the check of a command saw to the row at its write, for any number of
terminals: the row is still that, or `index` or another terminal has written it in between
(`Overtaken`), hence `FloorIsGuarded`. Rows received, on the wire and fetched are one run of ids after the
client's position (`StreamHasNoGaps`, across any drops and reconnects), and a matching row not yet
shown lies at or after the next offset, since rows are only added in front (`PagingIsComplete`).

The Merkle tree is proved by halving. A list of nodes has the root of the list of its pairs, a last
node without a partner moving up as it is (`PairedRoots`), and the path of a leaf is its sibling
followed by the path of its pair in that list (`LiftedPath`): one step of the verification walk goes
from a list to its pairs, and the walk ends at the root (`PathLeads`). Two walks from one position
to one root start from one digest (`WalksBind`), which is where collision freedom enters.
`InclusionIsExact` says, for any number of distinct leaves, that the path of a leaf verifies at its
own index and at no other; `ProofInv` keeps what a request has read of the growing log, hence
`ProofsVerify`.

`GetMetricProofs`, for any store with finitely many joins, any request and any `MaxHops`.
* `SearchIsExact`: the breadth-first search with its seen-set pruning returns exactly the simple paths
  of least length. The search is a recursive function of the depth; each claim about its layers (a layer
  holds simple paths of its length, every shorter simple path was a candidate, pruning drops no
  shortest path) is proved from a least counterexample, a natural number below which it holds, after
  unfolding the function once. That the search stops late enough rests on no simple path being longer
  than the number of entities.
* `IInv`: the plan is topologically ordered and never joins the anchor again; a bucket is inherited or
  local; at the gate, what was looked up is what the plan reads. From it `PlansAreOrdered` and
  `ReleasesAreClean`.
* `UInv` adds, without `via`, that every hop of the plan is `Settled` (the one join on the one shortest
  path to its entity), that what is left of the references is their end, and that the plan is the union
  of the chains to those handled. That needs chains to agree on prefixes: the unique shortest path to
  an entity is the prefix of any unique shortest path through it. From it `NothingIsGuessed` and
  `PlansAreUnions`.

`McpServerProofs`, for any tables, keys, entities, joins, calls and writes of other processes.
* `SearchIsShortest`: the search of `suggest_joins` over finitely many keys, one per name, returns a
  shortest walk of at most `MaxHops` keys, or none when there is none. After each turn the tables met
  are those of a ball, the frontier holds the ones not yet popped in order of distance, and every route
  is a walk as long as its table is far (`SearchInv`, kept by `Pop`); each table is popped once, so
  that the turns suffice.
* `ServerInv` has the store's references (`StoreInv`), what each tool holds and must have read at each
  place (`GotInv`, `CallInv`), that the lookups still to make are on the table they are made for, the
  quoted name of `describe_table` apart (`TodoInv`), the reply (`ReplyInv`), and that the tags of this
  moment are in the history of the call (`HistoryInv`): without the last a tag written between a lookup
  and the reply could not be told from one that was always there. From it `ServerTypes`, `ServerPaths`
  and `ServerMasking`.
* `ExactInv` is a second layer for a call nobody disturbed: what it has read is what the store still
  holds, and the names shown, the names masked and those still to be looked up are together the names
  of the answer. From it `ServerExact`.

`CurationProofs`, for any sources, trees, manifests, answers of the suggesters and any processes.
* `StoreInv`: rows are well formed and what they refer to is there (`LayerInv`), the projection is part
  of the layer (`GraphInv`), a file parses to a row that may be stored under its name or is refused
  (`TreeInv`), and a job only has such rows left to write (`JobsInv`). From it `CurationTypes`,
  `CurationCheck`, `CurationRoundTrip` (each parser undoes its emitter on every row the store may
  hold). `PassedGuard` adds that what passed a guard is still to be done and that the guard saw no row
  of dbt's, from which the action property `CurationDbtRows` follows: a row that was dbt's when the
  guard read it is kept, and one that is lost was written between guard and write.
* `CurationInv` adds, while no other process comes in between, that what a refresh has read is still
  so (`RefreshInv`), that what an import has not written yet is what is missing (`ImportInv`), and the
  same of an import that has just ended (`Landed`). From it `CurationGraph` and `CurationImport`. Its
  assumptions on trees, answers and manifests say what their parsers give, and the runs evaluate them.

Every safety property that a passing run checks is a theorem. Model-checked only is liveness under
fairness, which is out of the prover's reach: `StoreCatchesUp`, `BatchEnds`, `ActiveEventsAreDelivered`.
The `MC*` modules' own choices (which cases a run enumerates) and the two violating runs are TLC's too.
The theorems with a hypothesis of their own are `SoloWalkIsExact`, `SoloSinceWalk` and
`SoloImplementsLog` (one process, hashes left alone), which are false without it: that is what
`audit_duo` is for.

## Findings

The violating runs show, with the lines quoted in `PROJECT.json`:

* `index_curation`: re-indexing a changed table deletes the operator's entity, joins and metrics.
* `metric_fan_out`: a time dimension found over many-to-one joins may be joined over a one-to-many
  path.

Other disagreements between code and text met while modelling; where a model covers them, the
property named above excludes exactly that case and says so:

Audit, index and metrics:

* `audit/writer.py:376`: a second server that does not collide on an id forks the chain, and `audit
  verify` exits 1 with no row altered, against `docs/mechanism/audit-chain.mdx:69` and
  `docs/observability.md:205`.
* `indexer.py:397`: a run that dies between fingerprints and descriptions leaves a table that later
  runs take for unchanged and never complete; the docstring (24-40) and 358-361 have only embeddings
  missing.
* `mcp/get_metric.py:393`: an inherited time column is in the SQL and not in the tag lookup, against
  416-417.
* `observability/bus.py:128`: two servers that both found the file full rotate one after the other,
  and the second rename replaces the full `.1`; no document promises more than one server per file.

Tools:

* `mcp/describe_table.py:65,135`: the table is found by the parsed name, its tags by the name as the
  caller spelled it. A quoted name, which `mcp/_helpers.py:255` supports, finds no tag, although the
  comment at 123-126 says the key metadata follows "the same effective_block policy used for the
  column list". `mcp/suggest_joins.py:259` answers a quoted name of an indexed table with "not in the
  store".
* `mcp/describe_table.py:128`: "Source columns reuse the already-fetched pii_tags", but they are read
  again, per key.
* `mcp/describe_entity.py:86` and `mcp/resolve_join.py:190`: called unreachable because of a foreign
  key; reached when another process drops the table between two reads.
* `mcp/find_relevant_entities.py`: "at most one entity per (source, table)"; the schema has no such
  constraint.
* `list_entities`, `list_metrics` and `get_example_queries` give identities, measure columns and
  recorded SQL as stored, without the tag lookup of the other tools.
* `docs/mechanism/audit-chain.mdx:93`, `README.md:224` and `docs/reference/cli/serve.mdx:14` promise
  one audit row per call whatever the outcome; an unknown tool, an argument of the wrong type and a
  read that raises outside the tool's handler (`mcp/server.py:700`, `1534`) leave none.
* `docs/architecture.mdx:6` has the audit row before the SQL; it is written after the tool returned.
* `audit/verify.py:141`: a hash blob of the wrong length makes the forensic walk raise; the docstring
  (92-95) has it continue. `audit/verify.py:248`: a clock that stepped back hides rows from a time
  cursor, against 189-191.
* `observability/tail.py:268`: events written between the last read and a rotation are skipped,
  against ADR 0004:73-75; `tail.py:272`: a reused inode number looks like no rotation, against 273-274.
* `enrichment/pipeline.py:288`: the overshoot is that of both tiers, against 14-16; `279`: a waiter
  woken before an abort still calls, against 224-226 and 348-349.
* `indexer.py:270`: an operator's tags survive the table they are about, against 264-266.
* `semantic/compiler/resolve.py:541`: a `time_dimension` that matches nothing is ignored when there is
  one candidate, against 129-132; `423-427`: a `via` that narrows nothing is not reported.
* The structural fingerprint leaves out names and grouping of foreign keys, so a change of these alone
  counts as no change.

Semantic layer:

* `check/engine.py:427-443`: "v1 metric validator guarantees" that a metric's time dimension lies on
  its anchor, and the engine asserts it; neither `Metric.__post_init__` nor the parsers check it, and
  an UPSERT that keeps the anchor (`core/store.py:2945`) may change the time dimension, so `check`
  can die on the assertion. `CheckIsExact` is stated for sources on which it does not.
* `metrics/audit.py:58-106`: `metrics audit --fix` without a source deletes a metric of the same name
  of another source.
* `core/store.py:2608-2609`: "the outer `with conn:` block makes the read + write atomic"; the guard's
  SELECT (2622, and for metrics 2926 and 3054) runs before the write begins a transaction, so a row
  that an `import dbt` commits in between is overwritten, or deleted by `metrics audit --fix`.
  `DbtRowsStayDbt` allows exactly that case.
* `core/store.py:2748`: "No `dbt_import` join producer exists at this release"; `imports/dbt.py:1361`
  is one, and its joins are overwritten by `joins apply` and `joins suggest`. For the same reason an
  exported dbt join or metric is refused by the parser (`joins/yaml_grammar.py:394-401`);
  `ExportedFilesParse` is stated for the others.
* `core/entity.py:104-112`: `entities apply` accepts `origin: dbt_import` from a file and then
  replaces an entity dbt owns.
* `semantic/graph_projection.py:5`: the projection is not rebuilt after `import dbt` or
  `suggest --apply`, and of two overlapping rebuilds the older may write last.
* `imports/dbt.py`: two relationship tests on one column get one join name. Imported metrics keep
  `inference_method` `manually_authored`, against `core/metric.py:285`.
* `diff` may report a mismatch right after a clean `apply`, since trust fields are not in the file.

Setup:

* `setup/wizard.py:328-341`: `aborted_at`, "the outcome that caused the abort", is the first failed
  outcome; after a soft failure in stages 3 to 5 a cancel at stage 6 makes `init` exit 2 and not 0.
* `setup/wizard.py:1647`: applied entities are planned minus all write failures, those of joins
  included, so the count can be too small or negative.
* `docs/setup.md:120`: "every stage auto-skips when its work is already done"; an index that died
  partway has tables, so the re-run skips it too.
* `setup/config_io.py:16-20,121-124`: a death between the exclusive create of `.bak` and the copy
  leaves an empty `.bak` that is never replaced.
* `setup/init_flow.py:134`: keys of the entry outside the compared ones are replaced without a
  question; peek and install read the file twice; `mcpServers` that is not an object is replaced.
* A cancel prints that nothing was changed, although stages 2 to 5 wrote the store.
* `setup/wizard.py:664-675`: a source that is not Postgres "fails" the index stage; it is skipped.
* `setup/demo.py`: `wire` returns 0 when the shell-out failed, and does not catch `InitRefusal`.
* `.env` and the configuration are read and replaced without a lock: the later of two writers wins.

Policy and dashboard:

* `cli.py:3658,3719`: `serve` reads the policy before it stats it, so an edit in between is never
  flagged; `--policy-path ""` reads no file and records the default one.
* All serves share one sentinel: a second serve, one with `--pii-block` (which deletes it), or one
  that then fails to start hides the drift of the first; it also outlives its serve.
  `VerdictsAreEnforced` is therefore about the serve that wrote the sentinel the answer was based on.
* The sentinel is truncated and then written; a reader in between takes it for none.
* `dashboard/sidecar.py:1748`: "the node→entity FK guarantees the lookup hits", but nodes and entities
  are read by separate statements; the route answers 500 when `index` commits in between.
* `exists()` then parse: a policy file removed in between is an uncaught `FileNotFoundError` in the
  routes and in `serve`.
* `core/store.py:3293-3311` and `3355-3383`: the downgrade checks ("Refuse such a downgrade", "Refuse
  the clear", 3287 and 3354) are outside the transaction of the write. A row that `index` or a command
  in another terminal writes in between is replaced or removed without `--force`:
  a clear that met a protecting heuristic row deletes the override another terminal has made since.
  `FloorSurvivesCommands` and `OperatorRowsAreTheOperators` allow exactly that case.

## Not modelled

Profiler, connectors and embeddings are calls to a database or a model library and numbers; the data
dictionary, inspection, rendering and the read-only commands format what they read; the evaluation
harness scores retrieval offline; tracing is optional and only observes. The ranking of the
suggesters and the search is numeric and left open (any order), and so is the prompt. The SQL parser
behind the query log is an input of `JoinSuggester`. Of `init`, the exit code 130 of a Ctrl-C (the
run simply dies, at any step), that of `--emit-yaml` (nonzero when the files cannot be written) and
the empty answer to the prompt for the operator's own database (exit 2 before any stage) are left
out. Schema migrations run in one transaction (`core/store.py:3476-3490`), so nothing comes between
their steps. Two `index` processes at once have no promise to be checked against. The remainder of
`cli.py`, its largest uncovered file, is argument parsing and output. `PROJECT.json` lists every
component with its status.

## Plan

Every component whose state or control can go wrong is modelled and checked, and the safety of all
nine state machines is proved. What could follow:

1. liveness, should a prover with fairness be at hand: the three properties above;
2. two `index` processes on one store, once the code says what they promise;
3. reuse of inode numbers under the reader, once it compares more than the number.
