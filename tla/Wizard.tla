------------------------------- MODULE Wizard -------------------------------
(***************************************************************************)
(* `schemabrain init`, the seven stages of its wizard, `demo --wire`,      *)
(* `doctor`, and the prompt that saves an API key, over the files of       *)
(* HostConfig and a local store.  A run can die between any two writes and *)
(* be started again; two runs may overlap.                                 *)
(*                                                                         *)
(* The store is what the stages look at: the tables indexed so far and the *)
(* entities, metrics and joins by name.  Table t is the table of entity t  *)
(* and of metric t; a join is a pair of entities.                          *)
(***************************************************************************)
EXTENDS Doctor

CONSTANTS
    Tables,            \* tables of the user's database, and of the demo's
    Commands,          \* per process, its command lines: the options below
    Detected, Menu,    \* hosts found on the machine; hosts the operator may pick
    Machines,          \* what setup finds: the files, the store file, an earlier demo
    MaxRuns, MaxDeaths \* bounds

VARIABLES
    store,    \* the store file: [exists, current]
    rows,     \* per source: [tables, entities, metrics, joins, owned by dbt]
    demo,     \* the demo container: [container, fixture]
    run,      \* per process, the run it is in
    runs, deaths

vars == <<file, durable, bak, io, edits, store, rows, demo, run, runs, deaths>>

Kinds == <<"", "", "entities", "metrics", "joins">>
CuratedKinds == {"entities", "metrics", "joins"}
JoinPairs == {{a, b} : a \in Tables, b \in Tables} \ {{a} : a \in Tables}

\* Fault: a host that could not be wired does not stop the wizard.
abort_on_fail_not_wire == {1, 2, 7}

\* DEFAULT_STAGES: these stages stop the wizard when they fail.
abort_on_fail == {1, 2, 6, 7}

NoJob == [mode |-> None, todo |-> {}, joins |-> {}, planned |-> 0, applied |-> 0, failures |-> 0]
Idle == [at |-> "idle", stage |-> 0, cmd |-> None, key |-> FALSE, manifest |-> FALSE, out |-> <<>>,
         job |-> NoJob, base |-> None, seen |-> Absent, agreed |-> None, result |-> None]

Sources == {"postgres", "demo", "other"}
NoRows == [tables |-> {}, entities |-> {}, metrics |-> {}, joins |-> {}, owned |-> {}]

Init ==
    /\ HostInit
    /\ \E m \in Machines : file = m.file /\ store = m.store /\ demo = m.demo
    /\ rows = [s \in Sources |-> NoRows]
    /\ run = [p \in Procs |-> Idle]
    /\ runs = 0 /\ deaths = 0

\* Fault: credentials on the command line of the server.
build_snippet_source(cmd) == [cmd.entry EXCEPT !.urlflag = "--source"]

\* The entry for this command line: runner and pin, --url-env, store path, blocked
\* categories.  Only Cursor's has another key.
build_snippet(cmd) ==
    [cmd.entry EXCEPT !.urlflag = "--url-env", !.extra = (cmd.host = "cursor"),
                      !.pin = IF cmd.entry.command = "uvx" THEN Installed ELSE None]

-----------------------------------------------------------------------------
(* Steps of a run *)

Set(p, r) == run' = [run EXCEPT ![p] = r]
Only(p, r) == Set(p, r) /\ UNCHANGED <<file, durable, bak, io, edits, store, rows, demo, runs, deaths>>

Failing == {"failed", "cancelled"}

\* A stage's outcome is recorded; the next stage begins unless this one stops the wizard.
Outcome(r, status) ==
    [r EXCEPT !.out = Append(@, status), !.job = NoJob, !.stage = @ + 1,
              !.at = IF r.stage = 7 \/ (status \in Failing /\ r.stage \in abort_on_fail)
                     THEN "over" ELSE "enter"]

Concludes(p, status) == Only(p, Outcome(run[p], status))

At(p, at, stage) == run[p].at = at /\ run[p].stage = stage

\* One way of naming the URL, and the variable it names is set.
resolve_url_source(cmd, environ) ==
    \/ cmd.url = "positional"
    \/ cmd.url = "--url-env" /\ environ[cmd.entry.env] # None

\* Claude Desktop before the others; nothing found is `manual`.
detect_host ==
    LET order == <<"claude-desktop", "claude-code", "cursor", "windsurf">>
        found == {i \in DOMAIN order : order[i] \in Detected}
    IN  IF found = {} THEN "manual" ELSE order[CHOOSE i \in found : \A j \in found : i <= j]

Interactive(cmd) == cmd.tty /\ ~cmd.yes

effective_hosts(cmd) ==
    IF cmd.host # None THEN {cmd.host} ELSE IF Interactive(cmd) THEN Menu ELSE {detect_host}

pii_block_choices(cmd) ==
    IF cmd.entry.block # None THEN {cmd.entry.block}
    ELSE IF Interactive(cmd) THEN {"catastrophic", "all", "none"} ELSE {"catastrophic"}

Chosen(cmd, host, block) == [cmd EXCEPT !.host = host, !.entry.block = block]

\* _cmd_init up to the wizard: .env is loaded; a host nobody knows and a platform
\* without embeddings are refused; the operator is asked for a database, a host and the
\* categories to block.  `demo --wire` has its own database and store.
Begun(cmd, host, block) ==
    LET environ == load_env_file_into_environ(file.env, cmd.environ)
        asks == cmd.verb = "wire" \/ (cmd.verb = "init" /\ cmd.url = "none" /\ Interactive(cmd))
        refused == cmd.verb = "init" /\ (cmd.unfit \/ ~(asks \/ resolve_url_source(cmd, environ)))
        first == IF refused THEN "over" ELSE IF asks THEN "container"
                 ELSE IF cmd.verb = "init" THEN "enter" ELSE cmd.verb
    IN  [Idle EXCEPT !.at = first, !.stage = IF refused THEN 0 ELSE 1,
                     !.cmd = Chosen(cmd, host, block),
                     !.key = environ[KeyVar] # None,
                     !.base = {at \in Sources \X CuratedKinds : rows[at[1]][at[2]] # {}}]

Start(p) ==
    /\ run[p].at = "idle" /\ runs < MaxRuns
    /\ runs' = runs + 1
    /\ \E cmd \in Commands[p] : \E host \in effective_hosts(cmd), block \in pii_block_choices(cmd) :
         Set(p, Begun(cmd, host, block))
    /\ UNCHANGED <<file, durable, bak, io, edits, store, rows, demo, deaths>>

JsonHosts == {"claude-desktop", "cursor", "windsurf"}
Hosts == JsonHosts \cup {"claude-code", "manual"}
Verbs == {"init", "wire", "doctor", "key"}

\* The command lines once the operator has answered, and the entries they install.
Answered(cmd) ==
    {Chosen(cmd, host, block) : host \in effective_hosts(cmd), block \in pii_block_choices(cmd)}
CommandLines(p) == UNION {Answered(cmd) : cmd \in Commands[p]}
Snippets == {build_snippet(cmd) : cmd \in UNION {CommandLines(p) : p \in Procs}}

\* The configurations others wrote, and the ones a merge may leave.
SavedConfigs == Configs \cup ({m.file.config : m \in Machines} \ {Absent, Malformed, Empty})
MergedConfigs == [dict : {TRUE}, others : {{}} \cup {c.others : c \in SavedConfigs}, ours : Snippets]

EntryFields == {"command", "pin", "urlflag", "store", "block", "env", "extra"}
CmdFields == {"verb", "unfit", "url", "source", "from_dbt", "skip_index", "omit", "enrich", "environ",
              "yes", "tty", "host", "entry", "value"}

IsEntry(e) ==
    e = [command |-> e.command, pin |-> e.pin, urlflag |-> e.urlflag, store |-> e.store,
         block |-> e.block, env |-> e.env, extra |-> e.extra]

\* The values that stand for no configuration differ from every configuration, and the
\* command lines are ones argparse produces.
ASSUME WizardAssumption ==
    /\ \A c \in SavedConfigs :
         /\ c = [dict |-> c.dict, others |-> c.others, ours |-> c.ours]
         /\ c.dict \in BOOLEAN /\ (c.ours # None => IsEntry(c.ours))
    /\ {Absent, Malformed, Empty, Torn, None} \cap (SavedConfigs \cup MergedConfigs \cup Snippets) = {}
    /\ Torn \notin {Absent, Malformed, Empty} /\ Absent \notin {Malformed, Empty}
    /\ None \notin {"written", "unchanged", "raised", "store_path", "prompt"}
    /\ \A p \in Procs : \A cmd \in Commands[p] :
         /\ cmd.verb \in Verbs /\ cmd.source \in Sources /\ effective_hosts(cmd) \subseteq Hosts
         /\ IsEntry(cmd.entry) /\ DOMAIN cmd = CmdFields
    /\ \A m \in Machines :
         /\ m.file = [config |-> m.file.config, env |-> m.file.env] /\ m.file.config # Torn
         /\ m.store = [exists |-> m.store.exists, current |-> m.store.current]
    /\ MaxRuns \in Nat /\ MaxDeaths \in Nat /\ MaxEdits \in Nat

-----------------------------------------------------------------------------
(* The demo database: setup_stage.py *)

DemoFails(p) ==
    IF run[p].cmd.verb = "wire" THEN Only(p, [run[p] EXCEPT !.at = "over", !.result = "refused"])
    ELSE Only(p, [run[p] EXCEPT !.at = "by_hand"])

\* An existing container is started if need be; otherwise one is created.
DockerRun(p) ==
    /\ run[p].at = "container"
    /\ \/ /\ Set(p, [run[p] EXCEPT !.at = "ready"])
          /\ demo' = [demo EXCEPT !.container = "running"]
          /\ UNCHANGED <<file, durable, bak, io, edits, store, rows, runs, deaths>>
       \/ demo.container # "running" /\ DemoFails(p)

\* Without Docker the operator is asked for a URL of their own.
DockerMissing(p) ==
    /\ run[p].at = "container"
    /\ IF run[p].cmd.verb = "wire" THEN DemoFails(p)
       ELSE Only(p, [run[p] EXCEPT !.at = "enter", !.cmd.source = "postgres"])

\* Connections are accepted, or 30 seconds pass.
WaitForPostgres(p) ==
    /\ run[p].at = "ready"
    /\ \/ demo.container = "running" /\ Only(p, [run[p] EXCEPT !.at = "stale"])
       \/ DemoFails(p)

\* Tables, but not the ones of this release's fixture.
stale_demo_fixture == demo.container = "running" /\ demo.fixture = "old"

StaleCheck(p) ==
    /\ run[p].at = "stale"
    /\ \/ Only(p, [run[p] EXCEPT !.at = "load"])
       \/ /\ stale_demo_fixture
          /\ demo' = [container |-> "absent", fixture |-> "none"]
          /\ Set(p, [run[p] EXCEPT !.at = "container"])
          /\ UNCHANGED <<file, durable, bak, io, edits, store, rows, runs, deaths>>

AfterDemo(p) == IF run[p].cmd.verb = "wire" THEN [run[p] EXCEPT !.at = "validate", !.stage = 6]
                ELSE [run[p] EXCEPT !.at = "enter"]

\* psql against whatever answers on the port.
LoadFixture(p) ==
    /\ run[p].at = "load"
    /\ \/ /\ demo.container = "running"
          /\ demo' = [demo EXCEPT !.fixture = "saas"]
          /\ Set(p, AfterDemo(p))
          /\ UNCHANGED <<file, durable, bak, io, edits, store, rows, runs, deaths>>
       \/ DemoFails(p)

\* The commands are printed and the operator presses Enter, having run them or not.
DemoByHand(p) ==
    /\ run[p].at = "by_hand"
    /\ demo' \in {demo, [container |-> "running", fixture |-> "saas"]}
    /\ Set(p, [run[p] EXCEPT !.at = "enter"])
    /\ UNCHANGED <<file, durable, bak, io, edits, store, rows, runs, deaths>>

-----------------------------------------------------------------------------
(* Stages 1 and 2 *)

Postgres(cmd) == cmd.source # "other"
Reachable(cmd) == cmd.source = "demo" => demo.container = "running"
R(p) == rows[run[p].cmd.source]
LiveTables(cmd) == IF cmd.source = "demo" /\ demo.fixture = "none" THEN {} ELSE Tables

\* --from-dbt is an error on a missing file or another database; a manifest found in
\* the project is used for Postgres alone.
SourceCheck(p) ==
    /\ At(p, "enter", 1)
    /\ LET cmd == run[p].cmd
           bad == cmd.from_dbt = "missing" \/ (cmd.from_dbt = "given" /\ ~Postgres(cmd))
       IN  \/ Concludes(p, "failed")     \* unreachable, or not a read-only session
           \/ bad /\ Concludes(p, "failed")
           \/ /\ ~bad /\ Reachable(cmd)
              /\ Only(p, Outcome([run[p] EXCEPT !.manifest =
                            cmd.from_dbt = "given" \/ (cmd.from_dbt = "found" /\ Postgres(cmd))], "done"))

IndexStage(p) ==
    /\ At(p, "enter", 2)
    /\ LET cmd == run[p].cmd
       IN  CASE cmd.skip_index \/ ~Postgres(cmd) -> Concludes(p, "skipped")
             [] OTHER ->
                  IF store.exists /\ ~store.current THEN Concludes(p, "failed")
                  ELSE IF R(p).tables # {} THEN Concludes(p, "skipped")
                  ELSE IF cmd.enrich /\ ~run[p].key THEN Concludes(p, "failed")
                  ELSE /\ Set(p, [run[p] EXCEPT !.at = "indexing", !.job.todo = LiveTables(cmd)])
                       /\ store' = [store EXCEPT !.exists = TRUE]
                       /\ UNCHANGED <<file, durable, bak, io, edits, rows, demo, runs, deaths>>

IndexTable(p) ==
    /\ run[p].at = "indexing"
    /\ \E t \in run[p].job.todo :
         /\ rows' = [rows EXCEPT ![run[p].cmd.source].tables = @ \cup {t}]
         /\ Set(p, [run[p] EXCEPT !.job.todo = @ \ {t}])
    /\ UNCHANGED <<file, durable, bak, io, edits, store, demo, runs, deaths>>

\* The source goes away, the budget is spent, or the store cannot be written.
IndexEnds(p) ==
    /\ run[p].at = "indexing"
    /\ \/ run[p].job.todo = {} /\ Concludes(p, "done")
       \/ Concludes(p, "failed")

-----------------------------------------------------------------------------
(* Stages 3, 4 and 5: curation *)

\* _is_demo_source
is_demo_source(cmd) == cmd.source = "demo" /\ ~stale_demo_fixture

\* Fault: stage 5 counts metrics.
peek_count_metrics(p, k) == IF k = "joins" THEN R(p).metrics ELSE R(p)[k]

\* _peek_entity_count and its twins, on a store of this release.
peek_count(p, k) == R(p)[k]

\* Why a stage has nothing to do: an option, no index, another database, definitions
\* that are there already, or nothing to anchor on.
nothing_for(p, k) ==
    LET cmd == run[p].cmd
    IN  \/ k \in cmd.omit \/ cmd.skip_index \/ ~Postgres(cmd)
        \/ store.exists /\ store.current /\ peek_count(p, k) # {}

no_entities(p) == ~store.exists \/ (store.current /\ R(p).entities = {})

nothing_for_metrics(p) == nothing_for(p, "metrics") \/ no_entities(p)
nothing_for_joins(p) == nothing_for(p, "joins") \/ no_entities(p)

NothingToDo(p, k) == CASE k = "entities" -> nothing_for(p, k)
                       [] k = "metrics" -> nothing_for_metrics(p)
                       [] k = "joins" -> nothing_for_joins(p)

\* What a plan may contain.  Suggestions are about what is indexed and curated; dbt's
\* entities come from the live schema, so also for tables the index does not hold; a
\* bundled pack is always whole.
run_entity_suggestion(p) == SUBSET R(p).tables
run_metric_suggestion(p) == SUBSET R(p).entities
run_join_suggestion(p) == SUBSET {j \in JoinPairs : j \subseteq R(p).entities}
run_entities_from_dbt(p) == SUBSET LiveTables(run[p].cmd)
run_metrics_from_dbt(p) == SUBSET R(p).entities
apply_bundled_demo_yamls(k) == {IF k = "joins" THEN JoinPairs ELSE Tables}

entities_mode(p) ==
    IF is_demo_source(run[p].cmd) THEN "bundled" ELSE IF run[p].manifest THEN "dbt" ELSE "llm"

metrics_mode(p) ==
    IF is_demo_source(run[p].cmd) THEN "bundled" ELSE IF run[p].manifest THEN "dbt" ELSE "llm"

joins_mode(p) == IF is_demo_source(run[p].cmd) THEN "bundled" ELSE "evidence"

Mode(p, k) == CASE k = "entities" -> entities_mode(p)
                [] k = "metrics" -> metrics_mode(p)
                [] k = "joins" -> joins_mode(p)

Plans(p, k, mode) ==
    CASE mode = "bundled" -> apply_bundled_demo_yamls(k)
      [] mode = "dbt" -> IF k = "entities" THEN run_entities_from_dbt(p) ELSE run_metrics_from_dbt(p)
      [] mode = "llm" -> IF k = "entities" THEN run_entity_suggestion(p) ELSE run_metric_suggestion(p)
      [] mode = "evidence" -> run_join_suggestion(p)

\* Without a key or indexed tables the model is not asked.
llm_possible(p) == run[p].key /\ R(p).tables # {}

\* Ctrl-C at the prompt; without a terminal nobody is asked.
prompt_declined(p) == ~run[p].cmd.yes /\ run[p].cmd.tty

CurateSkips(p) ==
    /\ run[p].at = "enter" /\ run[p].stage \in 3..5
    /\ LET k == Kinds[run[p].stage]
       IN  \/ NothingToDo(p, k)
           \/ Mode(p, k) = "llm" /\ (~llm_possible(p) \/ prompt_declined(p))
    /\ Concludes(p, "skipped")

\* A manifest nobody can read; the model's answer, its price or the network.
CurateFails(p) ==
    /\ run[p].at = "enter" /\ run[p].stage \in 3..5
    /\ LET k == Kinds[run[p].stage]
       IN  /\ ~NothingToDo(p, k)
           /\ Mode(p, k) = "dbt" \/ (Mode(p, k) = "llm" /\ llm_possible(p)) \/ ~store.current
    /\ Concludes(p, "failed")

CuratePlans(p) ==
    /\ run[p].at = "enter" /\ run[p].stage \in 3..5
    /\ LET k == Kinds[run[p].stage]
           mode == Mode(p, k)
       IN  /\ ~NothingToDo(p, k) /\ store.current
           /\ mode = "llm" => llm_possible(p)
           /\ \E plan \in Plans(p, k, mode) :
                Only(p, [run[p] EXCEPT !.at = "write", !.job =
                    [NoJob EXCEPT !.mode = mode, !.todo = plan, !.planned = Cardinality(plan),
                     !.joins = IF mode = "dbt" /\ k = "entities"
                               THEN {j \in JoinPairs : j \subseteq plan} ELSE {}]])

\* The store's foreign keys, and dbt's ownership of what it imported.
Refused(p, k, item) ==
    \/ CASE k = "entities" -> item \notin R(p).tables
         [] k = "metrics" -> item \notin R(p).entities
         [] k = "joins" -> ~(item \subseteq R(p).entities)
    \/ run[p].job.mode = "llm" /\ <<k, item>> \in R(p).owned

\* One write of the stage's kind.  Suggestions stop at the first that is refused, and
\* so do dbt's metrics; bundled files and dbt's entities go on.
WriteOne(p) ==
    /\ run[p].at = "write"
    /\ LET k == Kinds[run[p].stage]
           j == run[p].job
           goesOn == j.mode = "bundled" \/ (j.mode = "dbt" /\ k = "entities")
       IN  \E item \in j.todo :
             IF Refused(p, k, item)
             THEN Only(p, [run[p] EXCEPT !.job.todo = IF goesOn THEN @ \ {item} ELSE {},
                                         !.job.failures = @ + 1])
             ELSE /\ rows' = [rows EXCEPT ![run[p].cmd.source][k] = @ \cup {item},
                                         ![run[p].cmd.source].owned = IF j.mode = "dbt" THEN @ \cup {<<k, item>>} ELSE @]
                  /\ Set(p, [run[p] EXCEPT !.job.todo = @ \ {item}, !.job.applied = @ + 1])
                  /\ UNCHANGED <<file, durable, bak, io, edits, store, demo, runs, deaths>>

\* dbt's joins follow its entities.
WriteDbtJoin(p) ==
    /\ run[p].at = "write" /\ run[p].job.todo = {}
    /\ \E item \in run[p].job.joins :
         IF Refused(p, "joins", item)
         THEN Only(p, [run[p] EXCEPT !.job.joins = @ \ {item}, !.job.failures = @ + 1])
         ELSE /\ rows' = [rows EXCEPT ![run[p].cmd.source].joins = @ \cup {item}]
              /\ Set(p, [run[p] EXCEPT !.job.joins = @ \ {item}])
              /\ UNCHANGED <<file, durable, bak, io, edits, store, demo, runs, deaths>>

\* dbt's importer reports failures of entities and joins in one list, and the wizard
\* takes its length from the number of planned entities.
applied_count(k, j) ==
    IF j.mode = "dbt" /\ k = "entities" THEN j.planned - j.failures ELSE j.applied

\* Nothing written fails the stage, except for joins, which may have no evidence.
entities_status(j) == IF applied_count("entities", j) = 0 THEN "failed" ELSE "done"
metrics_status(j) == IF j.applied = 0 THEN "failed" ELSE "done"
joins_status(j) ==
    IF j.applied # 0 THEN "done" ELSE IF j.mode = "evidence" THEN "skipped" ELSE "failed"

CurateEnds(p) ==
    /\ run[p].at = "write" /\ run[p].job.todo = {} /\ run[p].job.joins = {}
    /\ Concludes(p, CASE run[p].stage = 3 -> entities_status(run[p].job)
                      [] run[p].stage = 4 -> metrics_status(run[p].job)
                      [] run[p].stage = 5 -> joins_status(run[p].job))

-----------------------------------------------------------------------------
(* Stages 6 and 7 *)

\* Only Claude Desktop's entry is compared beforehand, and only without --yes.
Peek(p) ==
    /\ At(p, "enter", 6)
    /\ LET cmd == run[p].cmd
           verdict == compare_existing_claude_desktop_entry(file.config, build_snippet(cmd))
           saw == [run[p] EXCEPT !.seen = file.config]
       IN  IF cmd.host # "claude-desktop" \/ cmd.yes
           THEN Only(p, [run[p] EXCEPT !.at = "validate"])
           ELSE CASE verdict = "refused" -> Concludes(p, "failed")
                  [] verdict = "differs_store_path_only" ->
                       Only(p, [saw EXCEPT !.at = "validate", !.agreed = "store_path"])
                  [] verdict = "differs" /\ cmd.tty -> Only(p, [saw EXCEPT !.at = "ask"])
                  [] OTHER -> Only(p, [saw EXCEPT !.at = "validate"])

Answer(p) ==
    /\ run[p].at = "ask"
    /\ \/ Concludes(p, "cancelled")
       \/ Only(p, [run[p] EXCEPT !.at = "validate", !.agreed = "prompt"])

\* init() up to the host: the runner, the source once more, the store, the directory of
\* the host's configuration.  A refusal fails the stage; `demo --wire` does not catch it.
InitRefuses(p) ==
    /\ run[p].at = "validate"
    /\ IF run[p].cmd.verb = "wire" THEN Only(p, [run[p] EXCEPT !.at = "over", !.result = "raised"])
       ELSE Concludes(p, "failed")

InitPasses(p) ==
    /\ run[p].at = "validate"
    /\ Reachable(run[p].cmd) /\ (store.exists => store.current)
    /\ LET cmd == run[p].cmd
           done == [run[p] EXCEPT !.at = "collect"]
       IN  CASE cmd.host \in JsonHosts ->
                  /\ BeginInstall(p, build_snippet(cmd), cmd.yes \/ run[p].agreed # None)
                  /\ Set(p, done)
                  /\ UNCHANGED <<file, durable, bak, edits, store, rows, demo, runs, deaths>>
             [] cmd.host = "manual" -> Only(p, [done EXCEPT !.result = "printed_only"])
             [] cmd.host = "claude-code" ->
                  \E r \in {"shell_out_succeeded", "shell_out_failed"} : Only(p, [done EXCEPT !.result = r])

InstallSteps(p) ==
    /\ run[p].at = "collect"
    /\ FileStep(p)
    /\ UNCHANGED <<store, rows, demo, run, runs, deaths>>

\* An exception of the write ends the command with a traceback.
Collect(p) ==
    /\ run[p].at = "collect" /\ io[p].at \in {"idle", "over"}
    /\ LET res == IF io[p].at = "over" THEN io[p].result ELSE run[p].result
           r == [run[p] EXCEPT !.result = res]
       IN  Set(p, IF res = "raised" \/ run[p].cmd.verb # "init" THEN [r EXCEPT !.at = "over"]
                  ELSE Outcome(r, IF res = "refused" THEN "failed" ELSE "done"))
    /\ io' = [io EXCEPT ![p] = NoIo]
    /\ UNCHANGED <<file, durable, bak, edits, store, rows, demo, runs, deaths>>

\* The graph projection is rebuilt if it can be (Curation); then the hint is printed.
NextStep(p) == At(p, "enter", 7) /\ Concludes(p, "done")

\* A pasted key, saved with the operator's consent.
SaveKey(p) ==
    /\ run[p].at = "key"
    /\ BeginPersist(p, run[p].cmd.value)
    /\ Set(p, [run[p] EXCEPT !.at = "collect"])
    /\ UNCHANGED <<file, durable, bak, edits, store, rows, demo, runs, deaths>>

\* doctor: the configuration, then the store, then the source, each as it is then.
DoctorReadsConfig(p) ==
    /\ run[p].at = "doctor"
    /\ Only(p, [run[p] EXCEPT !.at = "doctor_store", !.out =
           IF run[p].cmd.host \in JsonHosts THEN host_config_checks(file.config, run[p].cmd.entry.store)
           ELSE <<"warn">>])

DoctorReadsStore(p) ==
    /\ run[p].at = "doctor_store"
    /\ LET all == UNION {rows[s].entities : s \in Sources}
           tables == UNION {rows[s].tables : s \in Sources}
       IN  Only(p, [run[p] EXCEPT !.at = "doctor_source", !.out =
               @ \o store_checks(store.exists, store.current, all, tables)])

DoctorReadsSource(p) ==
    /\ run[p].at = "doctor_source"
    /\ \E up \in {FALSE, Reachable(run[p].cmd)} :
         Only(p, [run[p] EXCEPT !.at = "over", !.out = @ \o source_checks(up, Postgres(run[p].cmd))])

Verify(p) ==
    /\ run[p].at = "doctor" /\ store.current
    /\ LET known == {s \in Sources : rows[s].tables # {}}
       IN  \E s \in IF known = {} THEN {"postgres"} ELSE known :
             Only(p, [run[p] EXCEPT !.at = "over", !.result =
                 IF verified(store.exists, rows[s].tables, rows[s].entities) THEN "verified" ELSE "unverified"])

Wizarding(p) ==
    \/ DockerMissing(p) \/ DockerRun(p) \/ WaitForPostgres(p) \/ StaleCheck(p) \/ LoadFixture(p) \/ DemoByHand(p)
    \/ SourceCheck(p) \/ IndexStage(p) \/ IndexTable(p) \/ IndexEnds(p)
    \/ CurateSkips(p) \/ CurateFails(p) \/ CuratePlans(p) \/ WriteOne(p) \/ WriteDbtJoin(p)
    \/ CurateEnds(p) \/ Peek(p) \/ Answer(p) \/ InitRefuses(p) \/ InitPasses(p)
    \/ InstallSteps(p) \/ Collect(p) \/ NextStep(p) \/ SaveKey(p)
    \/ DoctorReadsConfig(p) \/ DoctorReadsStore(p) \/ DoctorReadsSource(p) \/ Verify(p)

-----------------------------------------------------------------------------
(* The end of a run *)

Aborted(r) == r.out # <<>> /\ r.out[Len(r.out)] \in Failing /\ Len(r.out) \in abort_on_fail

\* WizardResult.aborted_at: the first failed outcome.
aborted_at(r) == CHOOSE n \in DOMAIN r.out :
                    r.out[n] \in Failing /\ \A m \in 1..(n - 1) : r.out[m] \notin Failing

\* _cmd_init and _cmd_demo.
exit_code(r) ==
    IF r.stage = 0 THEN 2
    ELSE CASE r.cmd.verb = "key" -> 0
           [] r.cmd.verb = "doctor" -> IF r.result = "unverified" THEN 2 ELSE checks_exit_code(r.out)
           [] r.cmd.verb = "wire" -> IF r.stage = 1 THEN 2 ELSE IF r.result \in {"raised", "refused"} THEN 1 ELSE 0
           [] r.cmd.verb = "init" ->
                IF r.result = "raised" THEN 1
                ELSE IF Aborted(r) THEN IF r.out[aborted_at(r)] = "cancelled" THEN 0 ELSE 2
                ELSE IF r.result = "shell_out_failed" THEN 1 ELSE 0

End(p) == run[p].at = "over" /\ Only(p, Idle)

Dies(p) ==
    /\ run[p].at # "idle" /\ deaths < MaxDeaths
    /\ deaths' = deaths + 1
    /\ Set(p, Idle) /\ io' = [io EXCEPT ![p] = NoIo]
    /\ UNCHANGED <<file, durable, bak, edits, store, rows, demo, runs>>

PowerLoss ==
    /\ deaths < MaxDeaths /\ \E p \in Procs : run[p].at # "idle"
    /\ deaths' = deaths + 1
    /\ run' = [p \in Procs |-> Idle] /\ io' = [p \in Procs |-> NoIo]
    /\ LoseUnsynced
    /\ UNCHANGED <<bak, edits, store, rows, demo, runs>>

Others == Save /\ UNCHANGED <<store, rows, demo, run, runs, deaths>>

Next == Others \/ PowerLoss \/ \E p \in Procs : Start(p) \/ Wizarding(p) \/ End(p) \/ Dies(p)

Spec == Init /\ [][Next]_vars

-----------------------------------------------------------------------------
(* Properties *)

TypeOK ==
    /\ \A s \in Sources :
         /\ rows[s].tables \subseteq Tables /\ rows[s].entities \subseteq rows[s].tables
         /\ rows[s].metrics \subseteq rows[s].entities
         /\ \A j \in rows[s].joins : j \in JoinPairs /\ j \subseteq rows[s].entities
    /\ \A p \in Procs : run[p].stage \in 0..8 /\ Len(run[p].out) <= 10
    /\ \A p \in Procs : io[p].at # "idle" => run[p].at = "collect"
    /\ runs \in 0..MaxRuns /\ deaths \in 0..MaxDeaths /\ edits \in 0..MaxEdits

\* A run that finds definitions of a kind never writes to that kind: not the stage that
\* looked, and not dbt's import, whose joins no stage looks at.
CuratedIsLeftAlone ==
    \A p \in Procs :
        run[p].at = "write" =>
            LET left == (IF run[p].job.todo = {} THEN {} ELSE {Kinds[run[p].stage]})
                        \cup (IF run[p].job.joins = {} THEN {} ELSE {"joins"})
            IN  \A k \in left : <<run[p].cmd.source, k>> \notin run[p].base

\* A run that says it went well has checked the source, wired the host and skipped
\* nothing it must not; the exit code 0 of a stopped run means the operator stopped it.
ExitIsHonest ==
    \A p \in Procs :
        run[p].at = "over" /\ run[p].cmd.verb = "init" /\ exit_code(run[p]) = 0 =>
            LET r == run[p]
            IN  IF Len(r.out) = 7
                THEN /\ r.out[1] = "done" /\ r.out[2] # "failed" /\ r.out[6] = "done"
                     /\ r.cmd.host \in JsonHosts => r.result \in {"written", "unchanged"}
                ELSE r.out[Len(r.out)] = "cancelled"

\* What init writes, doctor finds nothing wrong with.
InitSatisfiesDoctor ==
    \A p \in Procs :
        /\ run[p].at = "over" /\ run[p].result \in {"written", "unchanged"} /\ run[p].cmd.verb # "key"
        /\ ~Unreadable(file.config) /\ schemabrain_entry_in(file.config) = build_snippet(run[p].cmd)
        => checks_exit_code(host_config_checks(file.config, run[p].cmd.entry.store)) = 0

\* Another entry is replaced only by --yes, by an answer about that very entry, or when
\* nothing but its store path differs; what nobody compares, keys of other programs in
\* the entry, is outside this promise.
ReplacedWithConsent ==
    [][\A p \in Procs :
         LET old == schemabrain_entry_in(file.config)
             new == io[p].what
         IN  /\ io[p].at = "rename" /\ io[p].target = "config" /\ io'[p].result = "written"
             /\ file.config = io[p].read /\ (run[p].agreed # None => file.config = run[p].seen)
             => \/ old \in {None, new} \/ run[p].cmd.yes \/ run[p].agreed = "prompt"
                \/ /\ None \notin {old.store, new.store}
                   /\ [new EXCEPT !.store = old.store, !.extra = old.extra] = old]_vars

=============================================================================
