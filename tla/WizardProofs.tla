---------------------------- MODULE WizardProofs ----------------------------
(***************************************************************************)
(* Proofs about HostConfig and Wizard, for any number of processes and any *)
(* command lines, configurations on disk, hosts and tables.                *)
(***************************************************************************)
EXTENDS Wizard, SequenceTheorems, WellFoundedInduction, TLAPS

RunFields == {"at", "stage", "cmd", "key", "manifest", "out", "job", "base", "seen", "agreed", "result"}
JobFields == {"mode", "todo", "joins", "planned", "applied", "failures"}
IoFields == {"at", "target", "what", "yes", "read", "tmp", "synced", "result"}
RowFields == {"tables", "entities", "metrics", "joins", "owned"}

Statuses == {"done", "skipped", "failed", "cancelled"}
Verdicts == {"pass", "warn", "fail"}

-----------------------------------------------------------------------------
(* The inductive invariant: the files *)

Readable == {Absent} \cup SavedConfigs \cup MergedConfigs

FilesInv ==
    /\ file = [config |-> file.config, env |-> file.env]
    /\ file.config \in {Malformed, Empty} \cup Readable
    /\ durable = TRUE

\* One read-change-rename x: from the read on, what it read allows the change; from the
\* write on, the temporary file is the merge of it; no rename comes before its fsync.
IoInv(x) ==
    /\ DOMAIN x = IoFields
    /\ x.at \in {"idle", "seed", "read", "reserve", "copy", "write", "sync", "rename", "over"}
    /\ x.target \in {"config", "env"}
    /\ x.at \in {"seed"} => x.target = "env"
    /\ x.at \in {"reserve", "copy"} => x.target = "config"
    /\ IF x.at = "over" THEN x.result \in {"refused", "unchanged", "written", "raised"} ELSE x.result = None
    /\ x.at \in {"reserve", "copy", "write", "sync", "rename"} /\ x.target = "config" =>
            x.read \in Readable /\ ~install_refused(x.read, x)
    /\ x.at \in {"sync", "rename"} => x.tmp = Merged(x)
    /\ x.at = "rename" => x.synced = TRUE

\* What a run r may be doing to a file, and with whose consent.
WiresInv(r, x) ==
    /\ x.at # "idle" => r.at = "collect"
    /\ x.at \notin {"idle", "over"} =>
            IF x.target = "config"
            THEN x.what = build_snippet(r.cmd) /\ (x.yes => r.cmd.yes \/ r.agreed # None)
            ELSE r.cmd.verb = "key"
    /\ r.at = "collect" /\ r.cmd.verb # "key" /\ r.cmd.host \in JsonHosts => x.at # "idle"
    /\ r.agreed \in {None, "prompt", "store_path"}
    /\ r.agreed # None => r.stage >= 6 /\ (r.stage = 6 => r.at \in {"validate", "collect", "over"})
    /\ r.agreed = "store_path" =>
            /\ r.seen \in Readable
            /\ compare_existing_claude_desktop_entry(r.seen, build_snippet(r.cmd)) = "differs_store_path_only"

-----------------------------------------------------------------------------
(* The inductive invariant: a run *)

RunInv(r) ==
    /\ DOMAIN r = RunFields /\ DOMAIN r.job = JobFields
    /\ r.stage \in 0 .. 8
    /\ r.out \in Seq(Statuses \cup Verdicts)
    /\ r.at = "idle" => r.out = <<>>
    /\ r.at # "idle" =>
            /\ DOMAIN r.cmd = CmdFields /\ r.cmd.verb \in Verbs /\ r.cmd.source \in Sources
            /\ r.cmd.host \in Hosts /\ build_snippet(r.cmd) \in Snippets
    /\ r.at \in {"idle", "container", "ready", "stale", "load", "by_hand", "enter", "indexing", "write",
                 "ask", "validate", "collect", "key", "doctor", "doctor_store", "doctor_source", "over"}

\* Which command line can be at which step.
VerbInv(r) ==
    /\ r.at \in {"doctor", "doctor_store", "doctor_source"} => r.cmd.verb = "doctor"
    /\ r.at = "key" => r.cmd.verb = "key"
    /\ r.at \in {"container", "ready", "stale", "load", "validate"} => r.cmd.verb \in {"init", "wire"}
    /\ r.at \in {"by_hand", "enter", "indexing", "write", "ask"} => r.cmd.verb = "init"
    /\ r.at = "collect" => r.cmd.verb \in {"init", "wire", "key"}

\* How far `init` is: one outcome for each stage that is over.
StageInv(r) ==
    r.at # "idle" /\ r.cmd.verb = "init" =>
        /\ r.stage = 0 => r.at = "over" /\ r.out = <<>>
        /\ r.stage # 0 => Len(r.out) = r.stage - 1
        /\ r.at \in {"container", "ready", "stale", "load", "by_hand"} => r.stage = 1
        /\ r.at = "enter" => r.stage \in 1 .. 7
        /\ r.at = "indexing" => r.stage = 2
        /\ r.at = "write" => r.stage \in 3 .. 5
        /\ r.at \in {"ask", "validate", "collect"} => r.stage = 6

\* What the outcomes so far can be: a stage that stops the wizard was not passed with
\* a failure, only the sixth can be cancelled, and passing the sixth means wired.
OutcomeInv(r) ==
    r.at # "idle" /\ r.cmd.verb = "init" /\ r.stage # 0 =>
        /\ \A i \in 1 .. Len(r.out) : i \in abort_on_fail /\ r.out[i] \in Failing => r.at = "over" /\ i = Len(r.out)
        /\ \A i \in 1 .. Len(r.out) : r.out[i] = "cancelled" => i = 6
        /\ Len(r.out) >= 1 => r.out[1] \in {"done", "failed"}
        /\ Len(r.out) >= 6 => r.out[6] \in {"done", "failed", "cancelled"}
        /\ Len(r.out) >= 6 /\ r.out[6] = "done" /\ r.cmd.host \in JsonHosts => r.result \in {"written", "unchanged"}
        /\ r.at = "over" => \/ r.result = "raised" \/ r.stage = 8
                            \/ Len(r.out) \in abort_on_fail /\ r.out[Len(r.out)] \in Failing

\* The other commands record no stage outcome; doctor's checks come in three parts.
ChecksInv(r) ==
    r.at # "idle" /\ r.cmd.verb # "init" =>
        /\ r.cmd.verb # "doctor" => r.out = <<>>
        /\ Len(r.out) <= CASE r.at = "doctor" -> 0 [] r.at = "doctor_store" -> 4
                           [] r.at = "doctor_source" -> 7 [] OTHER -> 10

-----------------------------------------------------------------------------
(* The inductive invariant: the store *)

StoreInv ==
    /\ store = [exists |-> store.exists, current |-> store.current]
    /\ rows = [s \in Sources |-> rows[s]]
    /\ \A s \in Sources :
         /\ DOMAIN rows[s] = RowFields
         /\ rows[s].tables \subseteq Tables /\ rows[s].entities \subseteq rows[s].tables
         /\ rows[s].metrics \subseteq rows[s].entities
         /\ \A j \in rows[s].joins : j \in JoinPairs /\ j \subseteq rows[s].entities
         /\ rows[s].tables # {} => store.exists

\* A run r does not forget what it found, and nothing found goes away; what it is about
\* to write, it did not find.
CuratesInv(r, rs, st) ==
    /\ r.at # "idle" => \A s \in Sources, k \in CuratedKinds : <<s, k>> \in r.base => rs[s][k] # {}
    /\ r.at = "indexing" => st.exists /\ r.job.todo \subseteq Tables
    /\ r.at = "write" =>
            /\ r.job.todo # {} => <<r.cmd.source, Kinds[r.stage]>> \notin r.base
            /\ r.job.joins # {} => <<r.cmd.source, "joins">> \notin r.base
            /\ r.job.joins \subseteq JoinPairs
            /\ r.stage = 5 => r.job.todo \subseteq JoinPairs

CountsInv == runs \in 0 .. MaxRuns /\ deaths \in 0 .. MaxDeaths /\ edits \in 0 .. MaxEdits

PlaceInv(r) == RunInv(r) /\ VerbInv(r) /\ StageInv(r) /\ OutcomeInv(r) /\ ChecksInv(r)

ProcInv(r, x, rs, st) == IoInv(x) /\ WiresInv(r, x) /\ PlaceInv(r) /\ CuratesInv(r, rs, st)

IInv ==
    /\ FilesInv /\ StoreInv /\ CountsInv
    /\ run = [p \in Procs |-> run[p]] /\ io = [p \in Procs |-> io[p]]
    /\ \A p \in Procs : ProcInv(run[p], io[p], rows, store)

-----------------------------------------------------------------------------
(* Steps of one run *)

\* A step of p that keeps the shared part and p's part keeps the others' parts: they
\* depend on the store alone, and the store only grows.
LEMMA FrameStep ==
    ASSUME IInv, NEW p \in Procs, NEW r, NEW x,
           run' = [run EXCEPT ![p] = r], io' = [io EXCEPT ![p] = x],
           FilesInv', StoreInv', CountsInv', ProcInv(r, x, rows', store'),
           store.exists => store'.exists,
           \A s \in Sources, k \in CuratedKinds : rows[s][k] # {} => rows'[s][k] # {}
    PROVE  IInv'
<1>1. run' = [q \in Procs |-> run'[q]] /\ io' = [q \in Procs |-> io'[q]]
    BY DEF IInv
<1>2. \A q \in Procs : ProcInv(run'[q], io'[q], rows', store')
    <2> SUFFICES ASSUME NEW q \in Procs, q # p PROVE ProcInv(run'[q], io'[q], rows', store')
        BY DEF IInv
    <2>1. run'[q] = run[q] /\ io'[q] = io[q] /\ ProcInv(run[q], io[q], rows, store)
        BY DEF IInv
    <2>2. CuratesInv(run[q], rows', store')
        BY <2>1 DEF ProcInv, CuratesInv
    <2> QED  BY <2>1, <2>2 DEF ProcInv
<1> QED  BY <1>1, <1>2 DEF IInv

\* A step that changes nothing but where p is, and perhaps the demo's container.
LEMMA OnlyStep ==
    ASSUME IInv, NEW p \in Procs, NEW r,
           Set(p, r), UNCHANGED <<file, durable, io, edits, store, rows, runs, deaths>>,
           WiresInv(r, io[p]), PlaceInv(r), CuratesInv(r, rows, store)
    PROVE  IInv'
<1>1. /\ io' = [io EXCEPT ![p] = io[p]]
      /\ run' = [run EXCEPT ![p] = r]
    BY DEF IInv, Set
<1>2. FilesInv' /\ StoreInv' /\ CountsInv' /\ rows' = rows /\ store' = store
    BY DEF IInv, FilesInv, StoreInv, CountsInv
<1>3. ProcInv(r, io[p], rows', store')
    BY <1>2 DEF IInv, ProcInv
<1> QED  BY <1>1, <1>2, <1>3, FrameStep

\* Recording an outcome.
LEMMA OutcomeStep ==
    ASSUME NEW r, NEW status \in Statuses, PlaceInv(r),
           r.at \notin {"idle", "over"}, r.cmd.verb = "init",
           status = "cancelled" => r.stage = 6,
           r.stage = 1 => status \in {"done", "failed"},
           r.stage = 6 => status # "skipped",
           r.stage = 6 /\ status = "done" /\ r.cmd.host \in JsonHosts => r.result \in {"written", "unchanged"}
    PROVE  LET o == Outcome(r, status)
           IN  /\ PlaceInv(o) /\ o.at \in {"over", "enter"} /\ o.stage = r.stage + 1 /\ o.result = r.result
               /\ o.cmd = r.cmd /\ o.agreed = r.agreed /\ o.seen = r.seen /\ o.base = r.base
<1> DEFINE o == Outcome(r, status)
<1>1. /\ r.stage \in 1 .. 7 /\ Len(r.out) = r.stage - 1 /\ r.out \in Seq(Statuses \cup Verdicts)
      /\ DOMAIN r = RunFields
    BY DEF PlaceInv, RunInv, VerbInv, StageInv
<1>2. /\ o.out = Append(r.out, status) /\ o.stage = r.stage + 1 /\ o.job = NoJob
      /\ o.cmd = r.cmd /\ o.agreed = r.agreed /\ o.seen = r.seen /\ o.base = r.base /\ o.result = r.result
      /\ DOMAIN o = RunFields
      /\ o.at = IF r.stage = 7 \/ (status \in Failing /\ r.stage \in abort_on_fail) THEN "over" ELSE "enter"
    BY <1>1 DEF Outcome, RunFields
<1> HIDE DEF o
<1>3. /\ o.out \in Seq(Statuses \cup Verdicts) /\ Len(o.out) = r.stage
      /\ \A i \in 1 .. (r.stage - 1) : o.out[i] = r.out[i]
      /\ o.out[r.stage] = status
    BY <1>1, <1>2
<1>4. DOMAIN NoJob = JobFields
    BY DEF NoJob, JobFields
<1>5. o.at \in {"over", "enter"}
    BY <1>2
<1>6. RunInv(o)
    BY <1>1, <1>2, <1>3, <1>4, <1>5, SMTT(30) DEF RunInv, PlaceInv
<1>7. VerbInv(o) /\ ChecksInv(o)
    BY <1>2, <1>5 DEF VerbInv, ChecksInv
<1>8. StageInv(o)
    BY <1>1, <1>2, <1>3, <1>5, SMTT(30) DEF StageInv
<1>9. OutcomeInv(o)
    <2>1. \A i \in 1 .. Len(o.out) : i \in abort_on_fail /\ o.out[i] \in Failing => o.at = "over" /\ i = Len(o.out)
        BY <1>1, <1>2, <1>3 DEF PlaceInv, OutcomeInv
    <2>2. \A i \in 1 .. Len(o.out) : o.out[i] = "cancelled" => i = 6
        BY <1>1, <1>2, <1>3 DEF PlaceInv, OutcomeInv
    <2>3. Len(o.out) >= 1 => o.out[1] \in {"done", "failed"}
        BY <1>1, <1>2, <1>3 DEF PlaceInv, OutcomeInv
    <2>4. Len(o.out) >= 6 => o.out[6] \in {"done", "failed", "cancelled"}
        BY <1>1, <1>2, <1>3 DEF PlaceInv, OutcomeInv, Statuses
    <2>5. Len(o.out) >= 6 /\ o.out[6] = "done" /\ o.cmd.host \in JsonHosts => o.result \in {"written", "unchanged"}
        BY <1>1, <1>2, <1>3 DEF PlaceInv, OutcomeInv
    <2>6. o.at = "over" => o.stage = 8 \/ (Len(o.out) \in abort_on_fail /\ o.out[Len(o.out)] \in Failing)
        BY <1>1, <1>2, <1>3
    <2> QED  BY <2>1, <2>2, <2>3, <2>4, <2>5, <2>6 DEF OutcomeInv
<1> QED  BY <1>2, <1>5, <1>6, <1>7, <1>8, <1>9 DEF PlaceInv, o

LEMMA ConcludeStep ==
    ASSUME IInv, NEW p \in Procs, NEW status \in Statuses, Concludes(p, status),
           run[p].at \in {"enter", "indexing", "write", "ask", "validate"}, run[p].cmd.verb = "init",
           status = "cancelled" => run[p].stage = 6,
           run[p].stage = 1 => status \in {"done", "failed"},
           run[p].stage = 6 => status \in {"failed", "cancelled"}
    PROVE  IInv'
<1> DEFINE r == run[p]
           o == Outcome(r, status)
<1>1. PlaceInv(r) /\ WiresInv(r, io[p]) /\ CuratesInv(r, rows, store)
    BY DEF IInv, ProcInv
<1>2. /\ PlaceInv(o) /\ o.at \in {"over", "enter"} /\ o.stage = r.stage + 1 /\ r.stage \in 0 .. 8
      /\ o.cmd = r.cmd /\ o.agreed = r.agreed /\ o.seen = r.seen /\ o.base = r.base
    BY <1>1, OutcomeStep DEF PlaceInv, RunInv
<1>3. Set(p, o) /\ UNCHANGED <<file, durable, io, edits, store, rows, runs, deaths>>
    BY DEF Concludes, Only
<1> HIDE DEF o
<1>4. WiresInv(o, io[p]) /\ CuratesInv(o, rows, store)
    BY <1>1, <1>2 DEF WiresInv, CuratesInv
<1> QED  BY <1>2, <1>3, <1>4, OnlyStep

\* A run begins.
LEMMA StartStep ==
    ASSUME IInv, NEW p \in Procs, Start(p)
    PROVE  IInv'
<1>1. PICK cmd \in Commands[p] :
         \E host \in effective_hosts(cmd), block \in pii_block_choices(cmd) : Set(p, Begun(cmd, host, block))
    BY DEF Start
<1>0. PICK host \in effective_hosts(cmd), block \in pii_block_choices(cmd) : Set(p, Begun(cmd, host, block))
    BY <1>1
<1> DEFINE environ == load_env_file_into_environ(file.env, cmd.environ)
           asks == cmd.verb = "wire" \/ (cmd.verb = "init" /\ cmd.url = "none" /\ Interactive(cmd))
           refused == cmd.verb = "init" /\ (cmd.unfit \/ ~(asks \/ resolve_url_source(cmd, environ)))
           first == IF refused THEN "over" ELSE IF asks THEN "container"
                    ELSE IF cmd.verb = "init" THEN "enter" ELSE cmd.verb
           line == Chosen(cmd, host, block)
           found == {at \in Sources \X CuratedKinds : rows[at[1]][at[2]] # {}}
           r == [Idle EXCEPT !.at = first, !.stage = IF refused THEN 0 ELSE 1, !.cmd = line,
                             !.key = environ[KeyVar] # None, !.base = found]
<1>2. Set(p, r)
    BY <1>0 DEF Begun
<1>3. /\ line.verb = cmd.verb /\ line.source = cmd.source /\ line.host = host /\ DOMAIN line = CmdFields
      /\ line.verb \in Verbs /\ line.source \in Sources /\ line.host \in Hosts
    BY WizardAssumption DEF CmdFields, Chosen
<1>4. build_snippet(line) \in Snippets
    <2>1. line \in Answered(cmd)
        BY DEF Answered
    <2>2. line \in CommandLines(p)
        <3> HIDE DEF line
        <3> QED  BY <2>1 DEF CommandLines
    <2> HIDE DEF line
    <2> QED  BY <2>2 DEF Snippets
<1>5. /\ first \in {"over", "container", "enter", "doctor", "key"}
      /\ first = "over" <=> refused
      /\ first = "container" => cmd.verb \in {"init", "wire"}
      /\ first = "enter" => cmd.verb = "init"
      /\ first = "doctor" => cmd.verb = "doctor"
      /\ first = "key" => cmd.verb = "key"
    <2>1. /\ cmd.verb \in Verbs
          /\ asks => cmd.verb \in {"init", "wire"}
          /\ cmd.verb = "wire" => asks
          /\ refused => cmd.verb = "init"
        BY WizardAssumption
    <2> HIDE DEF asks, refused
    <2> QED  BY <2>1 DEF Verbs
<1>6. \A s \in Sources, k \in CuratedKinds : <<s, k>> \in found => rows[s][k] # {}
    OBVIOUS
<1>7. refused => cmd.verb = "init"
    OBVIOUS
<1> HIDE DEF environ, asks, refused, first, line, found
<1>8. /\ DOMAIN r = RunFields /\ r.at = first /\ r.stage = (IF refused THEN 0 ELSE 1) /\ r.cmd = line
      /\ r.base = found /\ r.out = <<>> /\ r.job = NoJob /\ r.agreed = None /\ r.result = None
    BY DEF Idle, RunFields
<1> HIDE DEF r
<1>9. PlaceInv(r)
    <2>1. RunInv(r)
        BY <1>3, <1>4, <1>5, <1>8 DEF RunInv, NoJob, JobFields
    <2>2. VerbInv(r) /\ ChecksInv(r)
        BY <1>3, <1>5, <1>7, <1>8 DEF VerbInv, ChecksInv
    <2>3. StageInv(r)
        BY <1>3, <1>5, <1>8 DEF StageInv
    <2>4. OutcomeInv(r)
        BY <1>5, <1>8 DEF OutcomeInv
    <2> QED  BY <2>1, <2>2, <2>3, <2>4 DEF PlaceInv
<1>10. io[p].at = "idle"
    BY DEF Start, IInv, ProcInv, WiresInv
<1>11. WiresInv(r, io[p])
    BY <1>5, <1>8, <1>10, WizardAssumption DEF WiresInv
<1>12. CuratesInv(r, rows, store)
    BY <1>5, <1>6, <1>8 DEF CuratesInv
<1>13. /\ io' = [io EXCEPT ![p] = io[p]] /\ run' = [run EXCEPT ![p] = r]
       /\ rows' = rows /\ store' = store
    BY <1>2 DEF Start, IInv, Set
<1>14. FilesInv' /\ StoreInv' /\ CountsInv'
    BY WizardAssumption DEF Start, IInv, FilesInv, StoreInv, CountsInv
<1>15. ProcInv(r, io[p], rows', store')
    BY <1>9, <1>11, <1>12, <1>13 DEF IInv, ProcInv
<1> QED  BY <1>13, <1>14, <1>15, FrameStep

\* Going on to another step of the same stage.
LEMMA MoveStep ==
    ASSUME NEW r, NEW o, PlaceInv(r), r.at \notin {"idle", "over"}, r.cmd.verb # "doctor",
           DOMAIN o = RunFields, DOMAIN o.job = JobFields,
           o.out = r.out, o.stage = r.stage, o.result = r.result \/ Len(r.out) < 6,
           o.cmd.verb = r.cmd.verb, o.cmd.host = r.cmd.host, o.cmd.source \in Sources,
           DOMAIN o.cmd = CmdFields, build_snippet(o.cmd) \in Snippets,
           o.at \in {"container", "ready", "stale", "load", "by_hand", "enter", "indexing", "write",
                     "ask", "validate", "collect"},
           VerbInv(o), StageInv(o)
    PROVE  PlaceInv(o)
<1>1. RunInv(o)
    BY DEF PlaceInv, RunInv
<1>2. OutcomeInv(o)
    BY DEF PlaceInv, OutcomeInv
<1>3. ChecksInv(o)
    BY DEF PlaceInv, ChecksInv
<1> QED  BY <1>1, <1>2, <1>3 DEF PlaceInv

\* The steps that look after the demo database.
DemoStep(p) ==
    \/ DockerMissing(p) \/ DockerRun(p) \/ WaitForPostgres(p) \/ StaleCheck(p) \/ LoadFixture(p) \/ DemoByHand(p)

LEMMA DemoKeeps ==
    ASSUME IInv, NEW p \in Procs, DemoStep(p)
    PROVE  IInv'
<1> DEFINE r == run[p]
           Moved(o) == /\ WiresInv(o, io[p]) /\ PlaceInv(o) /\ CuratesInv(o, rows, store)
           Next1(o) == Set(p, o) /\ UNCHANGED <<file, durable, io, edits, store, rows, runs, deaths>>
<1>1. /\ PlaceInv(r) /\ WiresInv(r, io[p]) /\ CuratesInv(r, rows, store)
      /\ r.at \in {"container", "ready", "stale", "load", "by_hand"}
    BY DEF IInv, ProcInv, DemoStep, DockerMissing, DockerRun, WaitForPostgres, StaleCheck, LoadFixture, DemoByHand
<1>2. /\ DOMAIN r = RunFields /\ DOMAIN r.job = JobFields /\ DOMAIN r.cmd = CmdFields
      /\ r.cmd.verb \in {"init", "wire"} /\ r.cmd.source \in Sources /\ build_snippet(r.cmd) \in Snippets
      /\ r.at = "by_hand" => r.cmd.verb = "init"
      /\ r.cmd.verb = "init" => r.stage = 1 /\ Len(r.out) = 0
      /\ r.cmd.verb = "wire" => r.out = <<>>
    BY <1>1 DEF PlaceInv, RunInv, VerbInv, StageInv, ChecksInv
<1> HIDE DEF r
\* To another of these steps, or to the first stage.
<1>3. ASSUME NEW at \in {"container", "ready", "stale", "load", "by_hand", "enter"},
             at \in {"by_hand", "enter"} => r.cmd.verb = "init",
             Next1([r EXCEPT !.at = at])
      PROVE  IInv'
    <2> DEFINE o == [r EXCEPT !.at = at]
    <2>1. /\ DOMAIN o = RunFields /\ o.at = at /\ o.job = r.job /\ o.cmd = r.cmd /\ o.out = r.out /\ o.stage = r.stage
          /\ o.result = r.result /\ o.base = r.base /\ o.agreed = r.agreed /\ o.seen = r.seen
        BY <1>2 DEF RunFields
    <2> HIDE DEF o
    <2>2. VerbInv(o) /\ StageInv(o)
        BY <1>2, <1>3, <2>1 DEF VerbInv, StageInv
    <2>3. PlaceInv(o)
        BY <1>1, <1>2, <2>1, <2>2, MoveStep
    <2>4. WiresInv(o, io[p]) /\ CuratesInv(o, rows, store)
        BY <1>1, <2>1 DEF WiresInv, CuratesInv
    <2> QED  BY <1>3, <2>3, <2>4, OnlyStep DEF o, r
\* Without Docker: another database.
<1>4. ASSUME r.cmd.verb # "wire", Next1([r EXCEPT !.at = "enter", !.cmd.source = "postgres"])
      PROVE  IInv'
    <2> DEFINE o == [r EXCEPT !.at = "enter", !.cmd.source = "postgres"]
    <2>1. /\ DOMAIN o = RunFields /\ o.at = "enter" /\ o.job = r.job /\ o.out = r.out /\ o.stage = r.stage
          /\ o.result = r.result /\ o.base = r.base /\ o.agreed = r.agreed /\ o.seen = r.seen
          /\ o.cmd = [r.cmd EXCEPT !.source = "postgres"]
        BY <1>2 DEF RunFields
    <2> HIDE DEF o
    <2>2. /\ o.cmd.verb = r.cmd.verb /\ o.cmd.host = r.cmd.host /\ o.cmd.source \in Sources
          /\ o.cmd.yes = r.cmd.yes /\ DOMAIN o.cmd = CmdFields /\ build_snippet(o.cmd) = build_snippet(r.cmd)
        BY <1>2, <2>1 DEF build_snippet, CmdFields, Sources
    <2>3. VerbInv(o) /\ StageInv(o)
        BY <1>2, <1>4, <2>1, <2>2 DEF VerbInv, StageInv
    <2>4. PlaceInv(o)
        BY <1>1, <1>2, <2>1, <2>2, <2>3, MoveStep
    <2>5. WiresInv(o, io[p]) /\ CuratesInv(o, rows, store)
        BY <1>1, <2>1, <2>2 DEF WiresInv, CuratesInv
    <2> QED  BY <1>4, <2>4, <2>5, OnlyStep DEF o, r
\* `demo --wire` gives up, or goes on to the host.
<1>5. ASSUME r.cmd.verb = "wire", Next1([r EXCEPT !.at = "over", !.result = "refused"])
      PROVE  IInv'
    <2> DEFINE o == [r EXCEPT !.at = "over", !.result = "refused"]
    <2>1. /\ DOMAIN o = RunFields /\ o.at = "over" /\ o.job = r.job /\ o.cmd = r.cmd /\ o.out = r.out /\ o.stage = r.stage
          /\ o.base = r.base /\ o.agreed = r.agreed /\ o.seen = r.seen
        BY <1>2 DEF RunFields
    <2> HIDE DEF o
    <2>2. PlaceInv(o)
        BY <1>1, <1>2, <1>5, <2>1 DEF PlaceInv, RunInv, VerbInv, StageInv, OutcomeInv, ChecksInv
    <2>3. WiresInv(o, io[p]) /\ CuratesInv(o, rows, store)
        BY <1>1, <2>1 DEF WiresInv, CuratesInv
    <2> QED  BY <1>5, <2>2, <2>3, OnlyStep DEF o, r
<1>6. ASSUME r.cmd.verb = "wire", Next1([r EXCEPT !.at = "validate", !.stage = 6])
      PROVE  IInv'
    <2> DEFINE o == [r EXCEPT !.at = "validate", !.stage = 6]
    <2>1. /\ DOMAIN o = RunFields /\ o.at = "validate" /\ o.job = r.job /\ o.cmd = r.cmd /\ o.out = r.out /\ o.stage = 6
          /\ o.base = r.base /\ o.agreed = r.agreed /\ o.seen = r.seen
        BY <1>2 DEF RunFields
    <2> HIDE DEF o
    <2>2. PlaceInv(o)
        BY <1>1, <1>2, <1>6, <2>1 DEF PlaceInv, RunInv, VerbInv, StageInv, OutcomeInv, ChecksInv
    <2>3. WiresInv(o, io[p]) /\ CuratesInv(o, rows, store)
        BY <1>1, <2>1 DEF WiresInv, CuratesInv
    <2> QED  BY <1>6, <2>2, <2>3, OnlyStep DEF o, r
<1>7. ASSUME DemoFails(p) PROVE IInv'
    BY <1>2, <1>3, <1>5, <1>7 DEF DemoFails, Only, r
<1>8. CASE DockerMissing(p)
    BY <1>4, <1>7, <1>8 DEF DockerMissing, Only, r
<1>9. CASE DockerRun(p)
    BY <1>3, <1>7, <1>9 DEF DockerRun, r
<1>10. CASE WaitForPostgres(p)
    BY <1>3, <1>7, <1>10 DEF WaitForPostgres, Only, r
<1>11. CASE StaleCheck(p)
    BY <1>3, <1>11 DEF StaleCheck, Only, r
<1>12. CASE LoadFixture(p)
    BY <1>2, <1>3, <1>6, <1>7, <1>12 DEF LoadFixture, AfterDemo, r
<1>13. CASE DemoByHand(p)
    BY <1>1, <1>2, <1>3, <1>13 DEF DemoByHand, r
<1> QED  BY <1>8, <1>9, <1>10, <1>11, <1>12, <1>13 DEF DemoStep

\* Stages 1 and 2.
IndexingStep(p) == SourceCheck(p) \/ IndexStage(p) \/ IndexTable(p) \/ IndexEnds(p)

LEMMA IndexingKeeps ==
    ASSUME IInv, NEW p \in Procs, IndexingStep(p)
    PROVE  IInv'
<1> DEFINE r == run[p]
<1>1. PlaceInv(r) /\ WiresInv(r, io[p]) /\ CuratesInv(r, rows, store) /\ IoInv(io[p])
    BY DEF IInv, ProcInv
<1>2. /\ DOMAIN r = RunFields /\ DOMAIN r.job = JobFields
      /\ r.at # "idle" =>
            /\ r.cmd.source \in Sources /\ DOMAIN r.cmd = CmdFields /\ build_snippet(r.cmd) \in Snippets
      /\ r.at \in {"enter", "indexing"} => r.cmd.verb = "init" /\ Len(r.out) = r.stage - 1
      /\ r.at = "indexing" => r.stage = 2
    BY <1>1 DEF PlaceInv, RunInv, VerbInv, StageInv
<1> HIDE DEF r
<1>3. ASSUME NEW status \in {"done", "failed", "skipped"}, Concludes(p, status), r.at \in {"enter", "indexing"},
             r.stage \in 1 .. 2, r.stage = 1 => status # "skipped"
      PROVE  IInv'
    BY <1>2, <1>3, ConcludeStep DEF r, Statuses
<1>4. CASE SourceCheck(p)
    <2>1. r.at = "enter" /\ r.stage = 1
        BY <1>4 DEF SourceCheck, At, r
    <2>2. ASSUME NEW m, Only(p, Outcome([r EXCEPT !.manifest = m], "done"))
          PROVE  IInv'
        <3> DEFINE t == [r EXCEPT !.manifest = m]
                   o == Outcome(t, "done")
        <3>1. /\ DOMAIN t = RunFields /\ t.at = r.at /\ t.stage = r.stage /\ t.cmd = r.cmd /\ t.out = r.out
              /\ t.job = r.job /\ t.base = r.base /\ t.seen = r.seen /\ t.agreed = r.agreed /\ t.result = r.result
            BY <1>2 DEF RunFields
        <3>2. Set(p, o) /\ UNCHANGED <<file, durable, io, edits, store, rows, runs, deaths>>
            BY <2>2 DEF Only
        <3> HIDE DEF t
        <3>3. PlaceInv(t)
            BY <1>1, <3>1 DEF PlaceInv, RunInv, VerbInv, StageInv, OutcomeInv, ChecksInv
        <3>4. /\ PlaceInv(o) /\ o.at \in {"over", "enter"}
              /\ o.cmd = t.cmd /\ o.agreed = t.agreed /\ o.seen = t.seen /\ o.base = t.base
            BY <1>2, <2>1, <3>1, <3>3, OutcomeStep DEF Statuses
        <3> HIDE DEF o
        <3>5. WiresInv(o, io[p]) /\ CuratesInv(o, rows, store)
            BY <1>1, <2>1, <3>1, <3>4 DEF WiresInv, CuratesInv
        <3> QED  BY <3>2, <3>4, <3>5, OnlyStep
    <2> QED  BY <1>3, <1>4, <2>1, <2>2 DEF SourceCheck, r
<1>5. CASE IndexStage(p)
    <2>1. r.at = "enter" /\ r.stage = 2
        BY <1>5 DEF IndexStage, At, r
    <2>2. ASSUME Set(p, [r EXCEPT !.at = "indexing", !.job.todo = LiveTables(r.cmd)]),
                 store' = [store EXCEPT !.exists = TRUE],
                 UNCHANGED <<file, durable, bak, io, edits, rows, demo, runs, deaths>>
          PROVE  IInv'
        <3> DEFINE o == [r EXCEPT !.at = "indexing", !.job.todo = LiveTables(r.cmd)]
        <3>1. /\ DOMAIN o = RunFields /\ o.at = "indexing" /\ o.stage = 2 /\ o.cmd = r.cmd /\ o.out = r.out
              /\ o.base = r.base /\ o.seen = r.seen /\ o.agreed = r.agreed /\ o.result = r.result
              /\ DOMAIN o.job = JobFields /\ o.job.todo \subseteq Tables
            BY <1>2, <2>1 DEF RunFields, JobFields, LiveTables
        <3> HIDE DEF o
        <3>2. VerbInv(o) /\ StageInv(o)
            BY <1>2, <2>1, <3>1 DEF VerbInv, StageInv
        <3>3. PlaceInv(o)
            BY <1>1, <1>2, <2>1, <3>1, <3>2, MoveStep
        <3>4. store' = [exists |-> TRUE, current |-> store.current] /\ rows' = rows
            BY <2>2 DEF IInv, StoreInv
        <3>5. FilesInv' /\ StoreInv' /\ CountsInv'
            BY <2>2, <3>4 DEF IInv, FilesInv, StoreInv, CountsInv
        <3>6. WiresInv(o, io[p]) /\ CuratesInv(o, rows', store')
            BY <1>1, <2>1, <3>1, <3>4 DEF WiresInv, CuratesInv
        <3>7. io' = [io EXCEPT ![p] = io[p]] /\ run' = [run EXCEPT ![p] = o]
            BY <2>2 DEF IInv, Set, o
        <3>8. ProcInv(o, io[p], rows', store')
            BY <1>1, <3>3, <3>6 DEF ProcInv
        <3> QED  BY <3>4, <3>5, <3>7, <3>8, FrameStep
    <2> QED  BY <1>3, <1>5, <2>1, <2>2 DEF IndexStage, r
<1>6. CASE IndexTable(p)
    <2>1. PICK t \in r.job.todo :
             /\ rows' = [rows EXCEPT ![r.cmd.source].tables = @ \cup {t}]
             /\ Set(p, [r EXCEPT !.job.todo = @ \ {t}])
        BY <1>6 DEF IndexTable, r
    <2> DEFINE o == [r EXCEPT !.job.todo = @ \ {t}]
    <2>2. r.at = "indexing" /\ store' = store /\ UNCHANGED <<file, durable, io, edits, runs, deaths>>
        BY <1>6 DEF IndexTable, r
    <2>3. /\ DOMAIN o = RunFields /\ o.at = "indexing" /\ o.stage = r.stage /\ o.cmd = r.cmd /\ o.out = r.out
          /\ o.base = r.base /\ o.seen = r.seen /\ o.agreed = r.agreed /\ o.result = r.result
          /\ DOMAIN o.job = JobFields /\ o.job.todo \subseteq r.job.todo
        BY <1>2, <2>2 DEF RunFields, JobFields
    <2> HIDE DEF o
    <2>4. VerbInv(o) /\ StageInv(o)
        BY <1>2, <2>2, <2>3 DEF VerbInv, StageInv
    <2>5. PlaceInv(o)
        BY <1>1, <1>2, <2>2, <2>3, <2>4, MoveStep
    <2>6. /\ store.exists /\ t \in Tables /\ r.cmd.source \in Sources
        BY <1>1, <1>2, <2>2 DEF CuratesInv
    <2>7. \A s \in Sources :
             /\ DOMAIN rows'[s] = RowFields
             /\ rows'[s].entities = rows[s].entities /\ rows'[s].metrics = rows[s].metrics
             /\ rows'[s].joins = rows[s].joins
             /\ rows[s].tables \subseteq rows'[s].tables /\ rows'[s].tables \subseteq Tables
        BY <2>1, <2>6, SMTT(30) DEF IInv, StoreInv, RowFields
    <2>8. StoreInv'
        BY <2>1, <2>2, <2>6, <2>7 DEF IInv, StoreInv
    <2>9. FilesInv' /\ CountsInv'
        BY <2>2 DEF IInv, FilesInv, CountsInv
    <2>10. \A s \in Sources, k \in CuratedKinds : rows[s][k] # {} => rows'[s][k] # {}
        BY <2>7 DEF CuratedKinds
    <2>11. WiresInv(o, io[p]) /\ CuratesInv(o, rows', store')
        BY <1>1, <2>2, <2>3, <2>10 DEF WiresInv, CuratesInv
    <2>12. io' = [io EXCEPT ![p] = io[p]] /\ run' = [run EXCEPT ![p] = o]
        BY <2>1, <2>2 DEF IInv, Set, o
    <2>13. ProcInv(o, io[p], rows', store')
        BY <1>1, <2>5, <2>11 DEF ProcInv
    <2> QED  BY <2>2, <2>8, <2>9, <2>10, <2>12, <2>13, FrameStep
<1>7. CASE IndexEnds(p)
    BY <1>2, <1>3, <1>7 DEF IndexEnds, r
<1> QED  BY <1>4, <1>5, <1>6, <1>7 DEF IndexingStep

\* Stages 3 to 5.
CuratingStep(p) ==
    CurateSkips(p) \/ CurateFails(p) \/ CuratePlans(p) \/ WriteOne(p) \/ WriteDbtJoin(p) \/ CurateEnds(p)

\* Where there are no entities there are no joins.
LEMMA NoJoinsWithoutEntities ==
    ASSUME StoreInv, NEW s \in Sources, rows[s].entities = {}
    PROVE  rows[s].joins = {}
BY DEF StoreInv, JoinPairs

\* A step that writes: the rows of one source grow by one definition.
LEMMA WriteKeeps ==
    ASSUME IInv, NEW p \in Procs, NEW o, NEW s \in Sources, NEW k \in CuratedKinds, NEW item,
           Set(p, o), UNCHANGED <<file, durable, io, edits, store, runs, deaths>>,
           rows' = [q \in Sources |-> rows'[q]],
           \A q \in Sources \ {s} : rows'[q] = rows[q],
           DOMAIN rows'[s] = RowFields,
           rows'[s][k] = rows[s][k] \cup {item},
           \A f \in {"tables", "entities", "metrics", "joins"} \ {k} : rows'[s][f] = rows[s][f],
           k = "entities" => item \in rows[s].tables,
           k = "metrics" => item \in rows[s].entities,
           k = "joins" => item \in JoinPairs /\ item \subseteq rows[s].entities,
           WiresInv(o, io[p]), PlaceInv(o), CuratesInv(o, rows, store)
    PROVE  IInv'
<1>1. StoreInv'
    <2>1. \A q \in Sources :
             /\ DOMAIN rows'[q] = RowFields
             /\ rows'[q].tables \subseteq Tables /\ rows'[q].entities \subseteq rows'[q].tables
             /\ rows'[q].metrics \subseteq rows'[q].entities
             /\ \A j \in rows'[q].joins : j \in JoinPairs /\ j \subseteq rows'[q].entities
             /\ rows'[q].tables # {} => store.exists
        <3> SUFFICES ASSUME NEW q \in Sources
                     PROVE  /\ DOMAIN rows'[q] = RowFields
                            /\ rows'[q].tables \subseteq Tables /\ rows'[q].entities \subseteq rows'[q].tables
                            /\ rows'[q].metrics \subseteq rows'[q].entities
                            /\ \A j \in rows'[q].joins : j \in JoinPairs /\ j \subseteq rows'[q].entities
                            /\ rows'[q].tables # {} => store.exists
            OBVIOUS
        <3>1. CASE q # s
            BY <3>1 DEF IInv, StoreInv
        <3>2. CASE q = s /\ k = "entities"
            <4>1. rows'[s].metrics = rows[s].metrics /\ rows'[s].joins = rows[s].joins /\ rows'[s].tables = rows[s].tables
                BY <3>2
            <4> QED  BY <3>2, <4>1 DEF IInv, StoreInv
        <3>3. CASE q = s /\ k = "metrics"
            <4>1. rows'[s].entities = rows[s].entities /\ rows'[s].joins = rows[s].joins /\ rows'[s].tables = rows[s].tables
                BY <3>3
            <4> QED  BY <3>3, <4>1 DEF IInv, StoreInv
        <3>4. CASE q = s /\ k = "joins"
            <4>1. rows'[s].entities = rows[s].entities /\ rows'[s].metrics = rows[s].metrics /\ rows'[s].tables = rows[s].tables
                BY <3>4
            <4> QED  BY <3>4, <4>1 DEF IInv, StoreInv
        <3> QED  BY <3>1, <3>2, <3>3, <3>4 DEF CuratedKinds
    <2> QED  BY <2>1 DEF IInv, StoreInv
<1>2. \A q \in Sources, m \in CuratedKinds : rows[q][m] # {} => rows'[q][m] # {}
    BY DEF CuratedKinds
<1>3. FilesInv' /\ CountsInv'
    BY DEF IInv, FilesInv, CountsInv
<1>4. CuratesInv(o, rows', store')
    BY <1>2 DEF CuratesInv
<1>5. io' = [io EXCEPT ![p] = io[p]] /\ run' = [run EXCEPT ![p] = o]
    BY DEF IInv, Set
<1>6. ProcInv(o, io[p], rows', store')
    BY <1>4 DEF IInv, ProcInv
<1> QED  BY <1>1, <1>2, <1>3, <1>5, <1>6, FrameStep

LEMMA CuratingKeeps ==
    ASSUME IInv, NEW p \in Procs, CuratingStep(p)
    PROVE  IInv'
<1> DEFINE r == run[p]
           k == Kinds[r.stage]
<1>1. PlaceInv(r) /\ WiresInv(r, io[p]) /\ CuratesInv(r, rows, store)
    BY Zenon DEF IInv, ProcInv
<1>2. /\ DOMAIN r = RunFields /\ DOMAIN r.job = JobFields
      /\ r.at \in {"enter", "write"} /\ r.stage \in 3 .. 5
      /\ r.cmd.source \in Sources /\ DOMAIN r.cmd = CmdFields /\ build_snippet(r.cmd) \in Snippets
      /\ r.cmd.verb = "init" /\ Len(r.out) = r.stage - 1
    BY <1>1, ZenonT(30) DEF PlaceInv, RunInv, VerbInv, StageInv, CuratingStep, CurateSkips, CurateFails, CuratePlans,
                WriteOne, WriteDbtJoin, CurateEnds
<1>3. /\ k \in CuratedKinds /\ (r.stage = 3 <=> k = "entities") /\ (r.stage = 4 <=> k = "metrics")
      /\ (r.stage = 5 <=> k = "joins")
    <2>1. Kinds[3] = "entities" /\ Kinds[4] = "metrics" /\ Kinds[5] = "joins"
        BY DEF Kinds
    <2>2. r.stage = 3 \/ r.stage = 4 \/ r.stage = 5
        BY <1>2
    <2> QED  BY <2>1, <2>2 DEF CuratedKinds
<1> HIDE DEF r, k
<1>4. ASSUME NEW status \in {"done", "failed", "skipped"}, Concludes(p, status)
      PROVE  IInv'
    BY <1>2, <1>4, ConcludeStep DEF r, Statuses
\* Another item done.
<1>5. ASSUME NEW o, DOMAIN o = RunFields, o.at = "write", o.stage = r.stage, o.cmd = r.cmd, o.out = r.out,
             o.base = r.base, o.seen = r.seen, o.agreed = r.agreed, o.result = r.result,
             DOMAIN o.job = JobFields,
             o.job.todo # {} => <<r.cmd.source, k>> \notin r.base,
             o.job.joins # {} => <<r.cmd.source, "joins">> \notin r.base,
             o.job.joins \subseteq JoinPairs, r.stage = 5 => o.job.todo \subseteq JoinPairs
      PROVE  WiresInv(o, io[p]) /\ PlaceInv(o) /\ CuratesInv(o, rows, store)
    <2>1. VerbInv(o) /\ StageInv(o)
        BY <1>2, <1>5 DEF VerbInv, StageInv
    <2>2. PlaceInv(o)
        BY <1>1, <1>2, <1>5, <2>1, MoveStep
    <2>3. WiresInv(o, io[p])
        BY <1>1, <1>2, <1>5 DEF WiresInv
    <2>4. CuratesInv(o, rows, store)
        BY <1>1, <1>2, <1>5 DEF CuratesInv, k
    <2> QED  BY <2>2, <2>3, <2>4
<1>6. CASE CurateSkips(p)
    BY <1>4, <1>6 DEF CurateSkips
<1>7. CASE CurateFails(p)
    BY <1>4, <1>7 DEF CurateFails
<1>8. CASE CurateEnds(p)
    <2> DEFINE status == CASE r.stage = 3 -> entities_status(r.job) [] r.stage = 4 -> metrics_status(r.job)
                           [] r.stage = 5 -> joins_status(r.job)
    <2>1. status \in {"done", "failed", "skipped"}
        BY <1>2 DEF entities_status, metrics_status, joins_status
    <2>2. Concludes(p, status)
        BY <1>8 DEF CurateEnds, r
    <2> HIDE DEF status
    <2> QED  BY <1>4, <2>1, <2>2
<1>9. CASE CuratePlans(p)
    <2> DEFINE mode == Mode(p, k)
               job(plan) == [NoJob EXCEPT !.mode = mode, !.todo = plan, !.planned = Cardinality(plan),
                                          !.joins = IF mode = "dbt" /\ k = "entities"
                                                    THEN {j \in JoinPairs : j \subseteq plan} ELSE {}]
    <2>1. /\ ~NothingToDo(p, k) /\ store.current
          /\ \E plan \in Plans(p, k, mode) : Only(p, [r EXCEPT !.at = "write", !.job = job(plan)])
        BY <1>9 DEF CuratePlans, r, k
    <2>2. PICK plan \in Plans(p, k, mode) : Only(p, [r EXCEPT !.at = "write", !.job = job(plan)])
        BY <2>1
    <2> DEFINE o == [r EXCEPT !.at = "write", !.job = job(plan)]
    <2>3. ~nothing_for(p, k)
        BY <1>3, <2>1 DEF NothingToDo, nothing_for_metrics, nothing_for_joins, CuratedKinds
    <2>4. rows[r.cmd.source][k] = {}
        <3>1. ~(store.exists /\ rows[r.cmd.source][k] # {})
            BY <2>1, <2>3 DEF nothing_for, peek_count, R, r
        <3>2. StoreInv
            BY DEF IInv
        <3>3. rows[r.cmd.source][k] # {} => rows[r.cmd.source].tables # {}
            BY <1>2, <1>3, <3>2, NoJoinsWithoutEntities DEF StoreInv, CuratedKinds
        <3> QED  BY <1>2, <3>1, <3>2, <3>3 DEF StoreInv
    <2>5. <<r.cmd.source, k>> \notin r.base
        BY <1>1, <1>2, <1>3, <2>4 DEF CuratesInv
    <2>6. k = "entities" => <<r.cmd.source, "joins">> \notin r.base
        BY <1>1, <1>2, <2>4, NoJoinsWithoutEntities DEF CuratesInv, IInv, CuratedKinds
    <2>7. k = "joins" => plan \subseteq JoinPairs
        <3> SUFFICES ASSUME k = "joins" PROVE plan \subseteq JoinPairs
            OBVIOUS
        <3>1. mode \in {"bundled", "evidence"}
            BY DEF Mode, joins_mode
        <3> HIDE DEF mode
        <3> QED  BY <3>1 DEF Plans, apply_bundled_demo_yamls, run_join_suggestion
    <2> HIDE DEF mode
    <2>8. /\ DOMAIN job(plan) = JobFields /\ job(plan).todo = plan /\ job(plan).joins \subseteq JoinPairs
          /\ job(plan).joins # {} => k = "entities"
        BY DEF NoJob, JobFields
    <2> HIDE DEF job
    <2>9. /\ DOMAIN o = RunFields /\ o.at = "write" /\ o.stage = r.stage /\ o.cmd = r.cmd /\ o.out = r.out
          /\ o.base = r.base /\ o.seen = r.seen /\ o.agreed = r.agreed /\ o.result = r.result
          /\ o.job = job(plan)
        BY <1>2 DEF RunFields
    <2>10. Set(p, o) /\ UNCHANGED <<file, durable, io, edits, store, rows, runs, deaths>>
        BY <2>2 DEF Only
    <2> HIDE DEF o
    <2>11. WiresInv(o, io[p]) /\ PlaceInv(o) /\ CuratesInv(o, rows, store)
        BY <1>3, <1>5, <2>5, <2>6, <2>7, <2>8, <2>9
    <2> QED  BY <2>10, <2>11, OnlyStep
<1>10. ASSUME r.at = "write" PROVE
         /\ r.job.todo # {} => <<r.cmd.source, k>> \notin r.base
         /\ r.job.joins # {} => <<r.cmd.source, "joins">> \notin r.base
         /\ r.job.joins \subseteq JoinPairs /\ (r.stage = 5 => r.job.todo \subseteq JoinPairs)
    BY <1>1, <1>10 DEF CuratesInv, k
<1>11. CASE WriteOne(p)
    <2> DEFINE goesOn == r.job.mode = "bundled" \/ (r.job.mode = "dbt" /\ k = "entities")
               refused(item) == [r EXCEPT !.job.todo = IF goesOn THEN @ \ {item} ELSE {}, !.job.failures = @ + 1]
               written(item) == [r EXCEPT !.job.todo = @ \ {item}, !.job.applied = @ + 1]
               grown(item) == [rows EXCEPT ![r.cmd.source][k] = @ \cup {item},
                                           ![r.cmd.source].owned = IF r.job.mode = "dbt" THEN @ \cup {<<k, item>>} ELSE @]
    <2>1. PICK item \in r.job.todo :
             IF Refused(p, k, item) THEN Only(p, refused(item))
             ELSE /\ rows' = grown(item) /\ Set(p, written(item))
                  /\ UNCHANGED <<file, durable, bak, io, edits, store, demo, runs, deaths>>
        BY <1>11, ZenonT(60) DEF WriteOne, r, k
    <2>2. r.at = "write"
        BY <1>11 DEF WriteOne, r
    <2>3. CASE Refused(p, k, item)
        <3> DEFINE o == refused(item)
        <3>1. /\ DOMAIN o = RunFields /\ o.at = "write" /\ o.stage = r.stage /\ o.cmd = r.cmd /\ o.out = r.out
              /\ o.base = r.base /\ o.seen = r.seen /\ o.agreed = r.agreed /\ o.result = r.result
              /\ DOMAIN o.job = JobFields /\ o.job.todo \subseteq r.job.todo /\ o.job.joins = r.job.joins
            BY <1>2, <2>2 DEF RunFields, JobFields
        <3>2. Set(p, o) /\ UNCHANGED <<file, durable, io, edits, store, rows, runs, deaths>>
            BY <2>1, <2>3 DEF Only
        <3> HIDE DEF o
        <3>3. WiresInv(o, io[p]) /\ PlaceInv(o) /\ CuratesInv(o, rows, store)
            BY <1>5, <1>10, <2>2, <3>1
        <3> QED  BY <3>2, <3>3, OnlyStep
    <2>4. CASE ~Refused(p, k, item)
        <3> DEFINE o == written(item)
                   s == r.cmd.source
                   row == [rows[s] EXCEPT ![k] = @ \cup {item},
                                          !.owned = IF r.job.mode = "dbt" THEN rows[s].owned \cup {<<k, item>>}
                                                                           ELSE rows[s].owned]
        <3>1. /\ DOMAIN o = RunFields /\ o.at = "write" /\ o.stage = r.stage /\ o.cmd = r.cmd /\ o.out = r.out
              /\ o.base = r.base /\ o.seen = r.seen /\ o.agreed = r.agreed /\ o.result = r.result
              /\ DOMAIN o.job = JobFields /\ o.job.todo \subseteq r.job.todo /\ o.job.joins = r.job.joins
            BY <1>2, <2>2 DEF RunFields, JobFields
        <3>2. Set(p, o) /\ UNCHANGED <<file, durable, io, edits, store, runs, deaths>> /\ rows' = grown(item)
            BY <2>1, <2>4
        <3> HIDE DEF o
        <3>3. WiresInv(o, io[p]) /\ PlaceInv(o) /\ CuratesInv(o, rows, store)
            BY <1>5, <1>10, <2>2, <3>1
        <3>4. rows = [q \in Sources |-> rows[q]] /\ DOMAIN rows[s] = RowFields /\ s \in Sources
            BY <1>2 DEF IInv, StoreInv
        <3>5. /\ rows' = [q \in Sources |-> rows'[q]]
              /\ \A q \in Sources \ {s} : rows'[q] = rows[q]
              /\ rows'[s] = row
            BY <1>3, <3>2, <3>4, ZenonT(40) DEF CuratedKinds, RowFields
        <3>6. /\ DOMAIN rows'[s] = RowFields /\ rows'[s][k] = rows[s][k] \cup {item}
              /\ \A f \in {"tables", "entities", "metrics", "joins"} \ {k} : rows'[s][f] = rows[s][f]
            BY <1>3, <3>4, <3>5 DEF CuratedKinds, RowFields
        <3>7. /\ k = "entities" => item \in rows[s].tables
              /\ k = "metrics" => item \in rows[s].entities
              /\ k = "joins" => item \in JoinPairs /\ item \subseteq rows[s].entities
            BY <1>3, <1>10, <2>1, <2>2, <2>4, ZenonT(30) DEF Refused, R, r
        <3> HIDE DEF s
        <3> QED  BY <1>3, <3>2, <3>3, <3>4, <3>5, <3>6, <3>7, WriteKeeps, ZenonT(30)
    <2> QED  BY <2>3, <2>4, Zenon
<1>12. CASE WriteDbtJoin(p)
    <2> DEFINE refused(item) == [r EXCEPT !.job.joins = @ \ {item}, !.job.failures = @ + 1]
               written(item) == [r EXCEPT !.job.joins = @ \ {item}]
    <2>1. PICK item \in r.job.joins :
             IF Refused(p, "joins", item) THEN Only(p, refused(item))
             ELSE /\ rows' = [rows EXCEPT ![r.cmd.source].joins = @ \cup {item}] /\ Set(p, written(item))
                  /\ UNCHANGED <<file, durable, bak, io, edits, store, demo, runs, deaths>>
        BY <1>12, ZenonT(30) DEF WriteDbtJoin, r
    <2>2. r.at = "write"
        BY <1>12 DEF WriteDbtJoin, r
    <2>3. CASE Refused(p, "joins", item)
        <3> DEFINE o == refused(item)
        <3>1. /\ DOMAIN o = RunFields /\ o.at = "write" /\ o.stage = r.stage /\ o.cmd = r.cmd /\ o.out = r.out
              /\ o.base = r.base /\ o.seen = r.seen /\ o.agreed = r.agreed /\ o.result = r.result
              /\ DOMAIN o.job = JobFields /\ o.job.joins \subseteq r.job.joins /\ o.job.todo = r.job.todo
            BY <1>2, <2>2 DEF RunFields, JobFields
        <3>2. Set(p, o) /\ UNCHANGED <<file, durable, io, edits, store, rows, runs, deaths>>
            BY <2>1, <2>3 DEF Only
        <3> HIDE DEF o
        <3>3. WiresInv(o, io[p]) /\ PlaceInv(o) /\ CuratesInv(o, rows, store)
            BY <1>5, <1>10, <2>2, <3>1
        <3> QED  BY <3>2, <3>3, OnlyStep
    <2>4. CASE ~Refused(p, "joins", item)
        <3> DEFINE o == written(item)
                   s == r.cmd.source
        <3>1. /\ DOMAIN o = RunFields /\ o.at = "write" /\ o.stage = r.stage /\ o.cmd = r.cmd /\ o.out = r.out
              /\ o.base = r.base /\ o.seen = r.seen /\ o.agreed = r.agreed /\ o.result = r.result
              /\ DOMAIN o.job = JobFields /\ o.job.joins \subseteq r.job.joins /\ o.job.todo = r.job.todo
            BY <1>2, <2>2 DEF RunFields, JobFields
        <3>2. /\ Set(p, o) /\ UNCHANGED <<file, durable, io, edits, store, runs, deaths>>
              /\ rows' = [rows EXCEPT ![s].joins = @ \cup {item}]
            BY <2>1, <2>4
        <3> HIDE DEF o
        <3>3. WiresInv(o, io[p]) /\ PlaceInv(o) /\ CuratesInv(o, rows, store)
            BY <1>5, <1>10, <2>2, <3>1
        <3>4. rows = [q \in Sources |-> rows[q]] /\ DOMAIN rows[s] = RowFields /\ s \in Sources
            BY <1>2 DEF IInv, StoreInv
        <3>5. /\ rows' = [q \in Sources |-> rows'[q]]
              /\ \A q \in Sources \ {s} : rows'[q] = rows[q]
              /\ rows'[s] = [rows[s] EXCEPT !.joins = rows[s].joins \cup {item}]
            BY <3>2, <3>4
        <3>6. /\ DOMAIN rows'[s] = RowFields /\ rows'[s].joins = rows[s].joins \cup {item}
              /\ \A f \in {"tables", "entities", "metrics", "joins"} \ {"joins"} : rows'[s][f] = rows[s][f]
            BY <3>4, <3>5 DEF RowFields
        <3>7. item \in JoinPairs /\ item \subseteq rows[s].entities
            BY <1>10, <2>1, <2>2, <2>4 DEF Refused, R, r
        <3> DEFINE kind == "joins"
        <3>8. /\ kind \in CuratedKinds /\ rows'[s][kind] = rows[s][kind] \cup {item}
              /\ \A f \in {"tables", "entities", "metrics", "joins"} \ {kind} : rows'[s][f] = rows[s][f]
              /\ kind = "entities" => item \in rows[s].tables
              /\ kind = "metrics" => item \in rows[s].entities
              /\ kind = "joins" => item \in JoinPairs /\ item \subseteq rows[s].entities
            BY <3>6, <3>7 DEF CuratedKinds
        <3>9. DOMAIN rows'[s] = RowFields
            BY <3>6
        <3> HIDE DEF s, kind
        <3> QED  BY <3>2, <3>3, <3>4, <3>5, <3>8, <3>9, WriteKeeps
    <2> QED  BY <2>3, <2>4, Zenon
<1> QED  BY <1>6, <1>7, <1>8, <1>9, <1>11, <1>12 DEF CuratingStep

\* One step of a read-change-rename.
LEMMA FileFrame ==
    ASSUME IInv, NEW p \in Procs, NEW y, io' = [io EXCEPT ![p] = y],
           UNCHANGED <<store, rows, run, runs, deaths, edits>>,
           FilesInv', IoInv(y), WiresInv(run[p], y)
    PROVE  IInv'
<1>1. run' = [run EXCEPT ![p] = run[p]] /\ rows' = rows /\ store' = store
    BY DEF IInv
<1>2. StoreInv' /\ CountsInv'
    BY DEF IInv, StoreInv, CountsInv
<1>3. ProcInv(run[p], y, rows', store')
    BY <1>1 DEF IInv, ProcInv
<1> QED  BY <1>1, <1>2, <1>3, FrameStep

\* The merge of something readable is a configuration that keeps its other servers.
LEMMA MergeIsMerged ==
    ASSUME NEW c \in Readable, NEW e \in Snippets
    PROVE  merge_schemabrain_entry(c, e) \in MergedConfigs
<1> DEFINE O == {{}} \cup {d.others : d \in SavedConfigs}
           others == IF c = Absent \/ ~c.dict THEN {} ELSE c.others
<1>1. others \in O
    <2>1. CASE c = Absent
        BY <2>1
    <2>2. CASE c \in SavedConfigs
        BY <2>2
    <2>3. CASE c \in MergedConfigs
        <3>1. c \in [dict : {TRUE}, others : O, ours : Snippets]
            BY <2>3 DEF MergedConfigs
        <3> HIDE DEF O
        <3>2. c.others \in O /\ c.dict = TRUE
            BY <3>1
        <3> QED  BY <3>2 DEF O
    <2> QED  BY <2>1, <2>2, <2>3 DEF Readable
<1>2. merge_schemabrain_entry(c, e) = [dict |-> TRUE, others |-> others, ours |-> e]
    BY DEF merge_schemabrain_entry
<1>3. MergedConfigs = [dict : {TRUE}, others : O, ours : Snippets]
    BY DEF MergedConfigs
<1> HIDE DEF O, others
<1> QED  BY <1>1, <1>2, <1>3

LEMMA FileKeeps ==
    ASSUME IInv, NEW p \in Procs, InstallSteps(p)
    PROVE  IInv'
<1> DEFINE r == run[p]
           x == io[p]
<1>1. PlaceInv(r) /\ WiresInv(r, x) /\ IoInv(x) /\ FilesInv /\ r.at = "collect"
    BY DEF IInv, ProcInv, InstallSteps
<1>2. build_snippet(r.cmd) \in Snippets /\ DOMAIN x = IoFields
    BY <1>1 DEF PlaceInv, RunInv, IoInv
<1>3. UNCHANGED <<store, rows, run, runs, deaths>>
    BY DEF InstallSteps
<1> HIDE DEF r, x
<1>4. ASSUME NEW y, Goes(p, y), edits' = edits, FilesInv', IoInv(y), WiresInv(r, y)
      PROVE  IInv'
    BY <1>3, <1>4, FileFrame DEF Goes, r
<1>5. ASSUME NEW result \in {"refused", "unchanged", "written", "raised"},
             Ends(p, result), edits' = edits, FilesInv'
      PROVE  IInv'
    <2> DEFINE y == [NoIo EXCEPT !.at = "over", !.result = result]
    <2>1. DOMAIN y = IoFields /\ y.at = "over" /\ y.result = result /\ y.target = "config"
        BY DEF NoIo, IoFields
    <2>2. Goes(p, y)
        BY <1>5 DEF Ends
    <2> HIDE DEF y
    <2>3. IoInv(y) /\ WiresInv(r, y)
        BY <1>1, <2>1 DEF IoInv, WiresInv
    <2> QED  BY <1>4, <1>5, <2>2, <2>3
<1>6. ASSUME UNCHANGED <<file, durable>> PROVE FilesInv'
    BY <1>1, <1>6 DEF FilesInv
<1>7. CASE SeedEnv(p)
    <2> DEFINE y == [x EXCEPT !.at = "read"]
    <2>1. /\ DOMAIN y = IoFields /\ y.at = "read" /\ y.target = x.target /\ y.result = x.result
          /\ y.what = x.what /\ y.yes = x.yes
        BY <1>2 DEF IoFields
    <2>2. Goes(p, y) /\ edits' = edits /\ x.at = "seed"
        BY <1>7 DEF SeedEnv, x
    <2> HIDE DEF y
    <2>3. FilesInv'
        BY <1>1, <1>7 DEF FilesInv, SeedEnv
    <2>4. IoInv(y) /\ WiresInv(r, y)
        BY <1>1, <2>1, <2>2 DEF IoInv, WiresInv
    <2> QED  BY <1>4, <2>2, <2>3, <2>4
<1>8. CASE ReadConfig(p)
    <2> DEFINE c == file.config
               y == [x EXCEPT !.at = "reserve", !.read = c]
    <2>1. FilesInv' /\ edits' = edits /\ x.at = "read" /\ x.target = "config"
        BY <1>6, <1>8 DEF ReadConfig, x
    <2>2. CASE install_refused(c, x) \/ schemabrain_entry_in(c) = x.what
        <3>1. Ends(p, "refused") \/ Ends(p, "unchanged")
            BY <1>8, <2>2 DEF ReadConfig, x
        <3> QED  BY <1>5, <2>1, <3>1
    <2>3. CASE ~install_refused(c, x) /\ schemabrain_entry_in(c) # x.what
        <3>1. Goes(p, y)
            BY <1>8, <2>3 DEF ReadConfig, x
        <3>2. /\ DOMAIN y = IoFields /\ y.at = "reserve" /\ y.target = x.target /\ y.result = x.result
              /\ y.what = x.what /\ y.yes = x.yes /\ y.read = c
            BY <1>2 DEF IoFields
        <3> HIDE DEF y
        <3>3. c \in Readable /\ ~install_refused(c, y)
            BY <1>1, <2>3, <3>2 DEF FilesInv, install_refused, Unreadable
        <3>4. IoInv(y) /\ WiresInv(r, y)
            BY <1>1, <2>1, <3>2, <3>3 DEF IoInv, WiresInv
        <3> QED  BY <1>4, <2>1, <3>1, <3>4
    <2> QED  BY <2>2, <2>3
<1>9. CASE ReadEnv(p)
    <2> DEFINE y == [x EXCEPT !.at = "write", !.read = file.env]
    <2>1. FilesInv' /\ edits' = edits /\ x.at = "read" /\ x.target = "env" /\ Goes(p, y)
        BY <1>6, <1>9 DEF ReadEnv, x
    <2>2. /\ DOMAIN y = IoFields /\ y.at = "write" /\ y.target = x.target /\ y.result = x.result
        BY <1>2 DEF IoFields
    <2> HIDE DEF y
    <2>3. IoInv(y) /\ WiresInv(r, y)
        BY <1>1, <2>1, <2>2 DEF IoInv, WiresInv
    <2> QED  BY <1>4, <2>1, <2>3
\* The steps that only move on.
<1>10. ASSUME NEW at \in {"copy", "write"}, x.at \in {"reserve", "copy"}, Goes(p, [x EXCEPT !.at = at]),
              edits' = edits, UNCHANGED <<file, durable>>
       PROVE  IInv'
    <2> DEFINE y == [x EXCEPT !.at = at]
    <2>1. /\ DOMAIN y = IoFields /\ y.at = at /\ y.target = x.target /\ y.result = x.result
          /\ y.what = x.what /\ y.yes = x.yes /\ y.read = x.read
        BY <1>2 DEF IoFields
    <2>2. Goes(p, y)
        BY <1>10
    <2> HIDE DEF y
    <2>3. install_refused(y.read, y) = install_refused(x.read, x)
        BY <2>1 DEF install_refused
    <2>4. IoInv(y) /\ WiresInv(r, y)
        BY <1>1, <1>10, <2>1, <2>3 DEF IoInv, WiresInv
    <2> QED  BY <1>4, <1>6, <1>10, <2>2, <2>4
<1>11. CASE ReserveBackup(p)
    <2>1. \E at \in {"copy", "write"} : Goes(p, [x EXCEPT !.at = at])
        BY <1>11 DEF ReserveBackup, x
    <2> QED  BY <1>10, <1>11, <2>1 DEF ReserveBackup, x
<1>12. CASE CopyBackup(p)
    BY <1>10, <1>12 DEF CopyBackup, x
<1>13. CASE WriteTemp(p)
    <2> DEFINE y == [x EXCEPT !.at = "sync", !.tmp = Merged(x)]
    <2>1. FilesInv' /\ edits' = edits /\ x.at = "write" /\ Goes(p, y)
        BY <1>6, <1>13 DEF WriteTemp, x
    <2>2. /\ DOMAIN y = IoFields /\ y.at = "sync" /\ y.target = x.target /\ y.result = x.result
          /\ y.what = x.what /\ y.yes = x.yes /\ y.read = x.read /\ y.tmp = Merged(x)
        BY <1>2 DEF IoFields
    <2> HIDE DEF y
    <2>3. install_refused(y.read, y) = install_refused(x.read, x) /\ Merged(y) = Merged(x)
        BY <2>2 DEF install_refused, Merged
    <2>4. IoInv(y) /\ WiresInv(r, y)
        BY <1>1, <2>1, <2>2, <2>3 DEF IoInv, WiresInv
    <2> QED  BY <1>4, <2>1, <2>4
<1>14. CASE SyncTemp(p)
    <2> DEFINE y == [x EXCEPT !.at = "rename", !.synced = TRUE]
    <2>1. FilesInv' /\ edits' = edits /\ x.at = "sync" /\ Goes(p, y)
        BY <1>6, <1>14 DEF SyncTemp, x
    <2>2. /\ DOMAIN y = IoFields /\ y.at = "rename" /\ y.target = x.target /\ y.result = x.result
          /\ y.what = x.what /\ y.yes = x.yes /\ y.read = x.read /\ y.tmp = x.tmp /\ y.synced = TRUE
        BY <1>2 DEF IoFields
    <2> HIDE DEF y
    <2>3. install_refused(y.read, y) = install_refused(x.read, x) /\ Merged(y) = Merged(x)
        BY <2>2 DEF install_refused, Merged
    <2>4. IoInv(y) /\ WiresInv(r, y)
        BY <1>1, <2>1, <2>2, <2>3 DEF IoInv, WiresInv
    <2> QED  BY <1>4, <2>1, <2>4
<1>15. CASE Rename(p)
    <2>1. /\ x.at = "rename" /\ file' = [file EXCEPT ![x.target] = x.tmp]
          /\ durable' = (IF x.target = "config" THEN x.synced ELSE durable)
          /\ Ends(p, "written") /\ edits' = edits
        BY <1>15 DEF Rename, x
    <2>2. x.tmp = Merged(x) /\ x.synced = TRUE /\ x.target \in {"config", "env"}
        BY <1>1, <2>1 DEF IoInv
    <2>3. CASE x.target = "config"
        <3>1. x.read \in Readable /\ x.what \in Snippets
            BY <1>1, <1>2, <2>1, <2>3 DEF IoInv, WiresInv
        <3>2. x.tmp \in MergedConfigs
            BY <2>2, <2>3, <3>1, MergeIsMerged DEF Merged
        <3>3. FilesInv'
            BY <1>1, <2>1, <2>2, <2>3, <3>2 DEF FilesInv, Readable
        <3> QED  BY <1>5, <2>1, <3>3
    <2>4. CASE x.target = "env"
        <3>1. FilesInv'
            BY <1>1, <2>1, <2>4 DEF FilesInv
        <3> QED  BY <1>5, <2>1, <3>1
    <2> QED  BY <2>2, <2>3, <2>4
<1>16. CASE WriteRaises(p)
    BY <1>5, <1>6, <1>16 DEF WriteRaises
<1> QED  BY <1>7, <1>8, <1>9, <1>11, <1>12, <1>13, <1>14, <1>15, <1>16 DEF InstallSteps, FileStep

\* Stages 6 and 7, the key and the end of a file operation.
WiringStep(p) ==
    Peek(p) \/ Answer(p) \/ InitRefuses(p) \/ InitPasses(p) \/ Collect(p) \/ NextStep(p) \/ SaveKey(p)

LEMMA WiringKeeps ==
    ASSUME IInv, NEW p \in Procs, WiringStep(p)
    PROVE  IInv'
<1> DEFINE r == run[p]
           x == io[p]
           Unshared == UNCHANGED <<file, durable, edits, store, rows, runs, deaths>>
<1>1. PlaceInv(r) /\ WiresInv(r, x) /\ IoInv(x) /\ CuratesInv(r, rows, store) /\ FilesInv
    BY DEF IInv, ProcInv
<1>2. /\ r.at \in {"enter", "ask", "validate", "collect", "key"}
      /\ DOMAIN r = RunFields /\ DOMAIN r.job = JobFields /\ r.stage \in 0 .. 8
      /\ DOMAIN r.cmd = CmdFields /\ r.cmd.verb \in {"init", "wire", "key"} /\ r.cmd.source \in Sources
      /\ r.cmd.host \in Hosts /\ build_snippet(r.cmd) \in Snippets
      /\ r.cmd.verb = "init" => Len(r.out) = r.stage - 1
      /\ r.cmd.verb = "init" /\ r.at \in {"ask", "validate", "collect"} => r.stage = 6
      /\ r.at \in {"enter", "ask"} => r.cmd.verb = "init"
      /\ r.at = "validate" => r.cmd.verb \in {"init", "wire"}
      /\ r.at = "key" => r.cmd.verb = "key"
      /\ r.cmd.verb # "init" => r.out = <<>>
    BY <1>1 DEF WiringStep, Peek, Answer, InitRefuses, InitPasses, Collect, NextStep, SaveKey, At,
                PlaceInv, RunInv, VerbInv, StageInv, ChecksInv
<1> HIDE DEF r, x
<1>3. Len(r.out) < 6 \/ (r.at = "enter" /\ r.stage = 7)
    BY <1>1, <1>2 DEF PlaceInv, StageInv
\* Going on, perhaps with a file operation begun or ended.
<1>4. ASSUME NEW o, NEW y, run' = [run EXCEPT ![p] = o], io' = [io EXCEPT ![p] = y], Unshared,
             PlaceInv(o), WiresInv(o, y), IoInv(y), o.base = r.base,
             o.at \in {"ask", "validate", "collect", "over", "enter"}
      PROVE  IInv'
    <2>1. rows' = rows /\ store' = store /\ FilesInv' /\ StoreInv' /\ CountsInv'
        BY <1>4 DEF IInv, FilesInv, StoreInv, CountsInv
    <2>2. CuratesInv(o, rows', store')
        BY <1>1, <1>2, <1>4, <2>1 DEF CuratesInv
    <2>3. ProcInv(o, y, rows', store')
        BY <1>4, <2>2 DEF ProcInv
    <2> QED  BY <1>4, <2>1, <2>3, FrameStep
<1>5. ASSUME NEW o, Only(p, o), PlaceInv(o), WiresInv(o, x), o.base = r.base,
             o.at \in {"ask", "validate", "collect", "over", "enter"}
      PROVE  IInv'
    <2>1. io' = [io EXCEPT ![p] = x] /\ run' = [run EXCEPT ![p] = o] /\ Unshared
        BY <1>5 DEF IInv, Only, Set, x
    <2> HIDE DEF Unshared
    <2> QED  BY <1>1, <1>4, <1>5, <2>1
<1>6. x.at = "idle" \/ r.at = "collect"
    BY <1>1 DEF WiresInv
<1>7. CASE Peek(p)
    <2> DEFINE verdict == compare_existing_claude_desktop_entry(file.config, build_snippet(r.cmd))
    <2>1. r.at = "enter" /\ r.stage = 6
        BY <1>7 DEF Peek, At, r
    <2>2. r.agreed = None
        BY <1>1, <2>1 DEF WiresInv
    <2>3. ASSUME NEW o, Only(p, o), DOMAIN o = RunFields, o.job = r.job, o.cmd = r.cmd, o.out = r.out, o.stage = r.stage,
                 o.result = r.result, o.base = r.base, o.at \in {"ask", "validate"},
                 \/ o.agreed = None
                 \/ o.agreed = "store_path" /\ o.seen = file.config /\ verdict = "differs_store_path_only" /\ o.at = "validate"
          PROVE  IInv'
        <3>1. VerbInv(o) /\ StageInv(o)
            BY <1>2, <2>1, <2>3 DEF VerbInv, StageInv
        <3>2. PlaceInv(o)
            BY <1>1, <1>2, <2>1, <2>3, <3>1, MoveStep
        <3>3. verdict = "differs_store_path_only" => file.config \in Readable
            BY <1>1 DEF compare_existing_claude_desktop_entry, Unreadable, FilesInv
        <3>4. WiresInv(o, x)
            <4> HIDE DEF verdict
            <4>1. o.agreed = "store_path" =>
                    compare_existing_claude_desktop_entry(o.seen, build_snippet(o.cmd)) = "differs_store_path_only"
                BY <2>3, WizardAssumption DEF verdict
            <4> QED  BY <1>1, <1>6, <2>1, <2>3, <3>3, <4>1, WizardAssumption DEF WiresInv
        <3> QED  BY <1>5, <2>3, <3>2, <3>4
    <2> DEFINE saw == [r EXCEPT !.seen = file.config]
               o1 == [r EXCEPT !.at = "validate"]
               o2 == [saw EXCEPT !.at = "validate", !.agreed = "store_path"]
               o3 == [saw EXCEPT !.at = "ask"]
               o4 == [saw EXCEPT !.at = "validate"]
    <2>4. \/ Only(p, o1) \/ Concludes(p, "failed")
          \/ verdict = "differs_store_path_only" /\ Only(p, o2)
          \/ Only(p, o3) \/ Only(p, o4)
        <3> HIDE DEF verdict
        <3>1. IF r.cmd.host # "claude-desktop" \/ r.cmd.yes
              THEN Only(p, o1)
              ELSE CASE verdict = "refused" -> Concludes(p, "failed")
                     [] verdict = "differs_store_path_only" -> Only(p, o2)
                     [] verdict = "differs" /\ r.cmd.tty -> Only(p, o3)
                     [] OTHER -> Only(p, o4)
            BY <1>7 DEF Peek, r, verdict
        <3> HIDE DEF o1, o2, o3, o4
        <3> QED  BY <3>1
    <2>5. ASSUME Concludes(p, "failed") PROVE IInv'
        BY <1>2, <2>1, <2>5, ConcludeStep DEF Statuses, r
    <2>6. /\ DOMAIN o1 = RunFields /\ o1.at = "validate" /\ o1.job = r.job /\ o1.cmd = r.cmd /\ o1.out = r.out
          /\ o1.stage = r.stage /\ o1.result = r.result /\ o1.base = r.base /\ o1.agreed = r.agreed
        BY <1>2 DEF RunFields
    <2>7. /\ DOMAIN o2 = RunFields /\ o2.at = "validate" /\ o2.job = r.job /\ o2.cmd = r.cmd /\ o2.out = r.out
          /\ o2.stage = r.stage /\ o2.result = r.result /\ o2.base = r.base /\ o2.agreed = "store_path"
          /\ o2.seen = file.config
        BY <1>2 DEF RunFields
    <2>8. /\ DOMAIN o3 = RunFields /\ o3.at = "ask" /\ o3.job = r.job /\ o3.cmd = r.cmd /\ o3.out = r.out
          /\ o3.stage = r.stage /\ o3.result = r.result /\ o3.base = r.base /\ o3.agreed = r.agreed
        BY <1>2 DEF RunFields
    <2>9. /\ DOMAIN o4 = RunFields /\ o4.at = "validate" /\ o4.job = r.job /\ o4.cmd = r.cmd /\ o4.out = r.out
          /\ o4.stage = r.stage /\ o4.result = r.result /\ o4.base = r.base /\ o4.agreed = r.agreed
        BY <1>2 DEF RunFields
    <2> HIDE DEF o1, o2, o3, o4, verdict
    <2> QED  BY <2>2, <2>3, <2>4, <2>5, <2>6, <2>7, <2>8, <2>9
<1>8. CASE Answer(p)
    <2> DEFINE o == [r EXCEPT !.at = "validate", !.agreed = "prompt"]
    <2>1. r.at = "ask" /\ (Concludes(p, "cancelled") \/ Only(p, o))
        BY <1>8 DEF Answer, r
    <2>2. ASSUME Concludes(p, "cancelled") PROVE IInv'
        BY <1>2, <2>1, <2>2, ConcludeStep DEF Statuses, r
    <2>3. /\ DOMAIN o = RunFields /\ o.at = "validate" /\ o.job = r.job /\ o.cmd = r.cmd /\ o.out = r.out
          /\ o.stage = r.stage /\ o.result = r.result /\ o.base = r.base /\ o.agreed = "prompt"
        BY <1>2 DEF RunFields
    <2> HIDE DEF o
    <2>4. VerbInv(o) /\ StageInv(o)
        BY <1>2, <2>1, <2>3 DEF VerbInv, StageInv
    <2>5. PlaceInv(o)
        BY <1>1, <1>2, <2>1, <2>3, <2>4, MoveStep
    <2>6. WiresInv(o, x)
        BY <1>1, <1>2, <1>6, <2>1, <2>3 DEF WiresInv
    <2> QED  BY <1>5, <2>1, <2>2, <2>3, <2>5, <2>6
<1>9. CASE InitRefuses(p)
    <2> DEFINE o == [r EXCEPT !.at = "over", !.result = "raised"]
    <2>1. r.at = "validate" /\ (IF r.cmd.verb = "wire" THEN Only(p, o) ELSE Concludes(p, "failed"))
        BY <1>9 DEF InitRefuses, r
    <2>2. CASE r.cmd.verb # "wire"
        BY <1>2, <2>1, <2>2, ConcludeStep DEF Statuses, r
    <2>3. CASE r.cmd.verb = "wire"
        <3>1. /\ DOMAIN o = RunFields /\ o.at = "over" /\ o.job = r.job /\ o.cmd = r.cmd /\ o.out = r.out
              /\ o.stage = r.stage /\ o.base = r.base /\ o.agreed = r.agreed /\ o.seen = r.seen
            BY <1>2 DEF RunFields
        <3> HIDE DEF o
        <3>2. PlaceInv(o)
            BY <1>1, <1>2, <2>3, <3>1 DEF PlaceInv, RunInv, VerbInv, StageInv, OutcomeInv, ChecksInv
        <3>3. WiresInv(o, x)
            BY <1>1, <1>2, <1>6, <2>1, <3>1 DEF WiresInv
        <3> QED  BY <1>5, <2>1, <2>3, <3>1, <3>2, <3>3
    <2> QED  BY <2>2, <2>3
<1>10. CASE InitPasses(p)
    <2> DEFINE done == [r EXCEPT !.at = "collect"]
               o(res) == [done EXCEPT !.result = res]
    <2>2. r.at = "validate" /\ x.at = "idle" /\ r.cmd.verb \in {"init", "wire"}
        BY <1>2, <1>6, <1>10 DEF InitPasses, r
    <2>3. CASE r.cmd.host \in JsonHosts
        <3> DEFINE y == [NoIo EXCEPT !.at = "read", !.what = build_snippet(r.cmd), !.yes = r.cmd.yes \/ r.agreed # None]
        <3>1. BeginInstall(p, build_snippet(r.cmd), r.cmd.yes \/ r.agreed # None) /\ Set(p, done) /\ Unshared
            BY <1>10, <2>3 DEF InitPasses, r, JsonHosts
        <3>2. io' = [io EXCEPT ![p] = y] /\ run' = [run EXCEPT ![p] = done] /\ Unshared
            BY <3>1 DEF BeginInstall, Goes, Set
        <3>3. /\ DOMAIN done = RunFields /\ done.at = "collect" /\ done.job = r.job /\ done.cmd = r.cmd /\ done.out = r.out
              /\ done.stage = r.stage /\ done.result = r.result /\ done.base = r.base /\ done.agreed = r.agreed
              /\ done.seen = r.seen
            BY <1>2 DEF RunFields
        <3>4. /\ DOMAIN y = IoFields /\ y.at = "read" /\ y.target = "config" /\ y.result = None
              /\ y.what = build_snippet(r.cmd) /\ (y.yes => r.cmd.yes \/ r.agreed # None)
            BY DEF NoIo, IoFields
        <3> HIDE DEF done, y, Unshared
        <3>5. VerbInv(done) /\ StageInv(done)
            BY <1>2, <2>2, <3>3 DEF VerbInv, StageInv
        <3>6. PlaceInv(done)
            BY <1>1, <1>2, <2>2, <3>3, <3>5, MoveStep
        <3>7. IoInv(y)
            BY <3>4 DEF IoInv
        <3>8. WiresInv(done, y)
            BY <1>1, <2>2, <3>3, <3>4 DEF WiresInv
        <3> QED  BY <1>4, <3>2, <3>3, <3>6, <3>7, <3>8
    <2>4. CASE r.cmd.host \notin JsonHosts
        <3>1. \E res \in {"printed_only", "shell_out_succeeded", "shell_out_failed"} : Only(p, o(res))
            <4>1. \/ r.cmd.host = "manual" /\ Only(p, o("printed_only"))
                  \/ r.cmd.host = "claude-code" /\ \E res \in {"shell_out_succeeded", "shell_out_failed"} : Only(p, o(res))
                BY <1>2, <1>10, <2>4 DEF InitPasses, r, Hosts, JsonHosts
            <4> HIDE DEF o
            <4> QED  BY <4>1
        <3>2. PICK res : Only(p, o(res))
            BY <3>1
        <3> DEFINE e == o(res)
        <3>3. /\ DOMAIN e = RunFields /\ e.at = "collect" /\ e.job = r.job /\ e.cmd = r.cmd /\ e.out = r.out
              /\ e.stage = r.stage /\ e.base = r.base /\ e.agreed = r.agreed
              /\ e.seen = r.seen
            BY <1>2 DEF RunFields
        <3>4. Only(p, e)
            BY <3>2
        <3> HIDE DEF e
        <3>5. VerbInv(e) /\ StageInv(e)
            BY <1>2, <2>2, <3>3 DEF VerbInv, StageInv
        <3>6. PlaceInv(e)
            BY <1>1, <1>2, <1>3, <2>2, <3>3, <3>5, MoveStep
        <3>7. WiresInv(e, x)
            BY <1>1, <2>2, <2>4, <3>3 DEF WiresInv
        <3> QED  BY <1>5, <3>3, <3>4, <3>6, <3>7
    <2> QED  BY <2>3, <2>4
<1>11. CASE Collect(p)
    <2> DEFINE res == IF x.at = "over" THEN x.result ELSE r.result
               t == [r EXCEPT !.result = res]
               status == IF res = "refused" THEN "failed" ELSE "done"
               o == IF res = "raised" \/ r.cmd.verb # "init" THEN [t EXCEPT !.at = "over"] ELSE Outcome(t, status)
    <2>1. r.at = "collect" /\ x.at \in {"idle", "over"} /\ Set(p, o) /\ io' = [io EXCEPT ![p] = NoIo] /\ Unshared
        BY <1>11 DEF Collect, r, x
    <2>2. /\ DOMAIN t = RunFields /\ t.at = "collect" /\ t.job = r.job /\ t.cmd = r.cmd /\ t.out = r.out
          /\ t.stage = r.stage /\ t.base = r.base /\ t.agreed = r.agreed /\ t.seen = r.seen /\ t.result = res
        BY <1>2, <2>1 DEF RunFields
    <2>3. r.cmd.verb = "init" /\ r.cmd.host \in JsonHosts => res \in {"refused", "unchanged", "written", "raised"}
        BY <1>1, <2>1 DEF WiresInv, IoInv
    <2> HIDE DEF t, res
    <2>4. VerbInv(t) /\ StageInv(t)
        BY <1>2, <2>1, <2>2 DEF VerbInv, StageInv
    <2>5. PlaceInv(t)
        BY <1>1, <1>2, <1>3, <2>1, <2>2, <2>4, MoveStep
    <2>6. /\ PlaceInv(o) /\ o.at \in {"over", "enter"} /\ o.stage \in {r.stage, r.stage + 1}
          /\ o.at = "enter" => o.stage = r.stage + 1
          /\ o.cmd = r.cmd /\ o.agreed = r.agreed /\ o.seen = r.seen /\ o.base = r.base
        <3>1. CASE res = "raised" \/ r.cmd.verb # "init"
            <4> DEFINE e == [t EXCEPT !.at = "over"]
            <4>1. /\ DOMAIN e = RunFields /\ e.at = "over" /\ e.job = r.job /\ e.cmd = r.cmd /\ e.out = r.out
                  /\ e.stage = r.stage /\ e.base = r.base /\ e.agreed = r.agreed /\ e.seen = r.seen /\ e.result = res
                BY <2>2 DEF RunFields
            <4>2. o = e
                BY <3>1
            <4> HIDE DEF e, o
            <4>3. RunInv(e) /\ VerbInv(e) /\ StageInv(e) /\ ChecksInv(e)
                BY <1>1, <1>2, <4>1 DEF PlaceInv, RunInv, VerbInv, StageInv, ChecksInv
            <4>4. OutcomeInv(e)
                BY <1>1, <1>2, <1>3, <2>1, <3>1, <4>1 DEF PlaceInv, OutcomeInv
            <4> QED  BY <4>1, <4>2, <4>3, <4>4 DEF PlaceInv
        <3>2. CASE res # "raised" /\ r.cmd.verb = "init"
            <4>1. o = Outcome(t, status)
                BY <3>2
            <4>2. status \in Statuses /\ status \in {"done", "failed"}
                BY DEF Statuses
            <4>3. status = "done" /\ r.cmd.host \in JsonHosts => res \in {"written", "unchanged"}
                BY <2>3, <3>2
            <4> HIDE DEF o, status
            <4> QED  BY <1>2, <2>1, <2>2, <2>5, <3>2, <4>1, <4>2, <4>3, OutcomeStep
        <3> QED  BY <3>1, <3>2
    <2> HIDE DEF o
    <2>7. DOMAIN NoIo = IoFields /\ NoIo.at = "idle" /\ NoIo.target = "config" /\ NoIo.result = None
        BY DEF NoIo, IoFields
    <2> HIDE DEF NoIo
    <2>8. IoInv(NoIo)
        BY <2>7 DEF IoInv
    <2>9. WiresInv(o, NoIo)
        BY <1>1, <1>2, <2>1, <2>6, <2>7 DEF WiresInv
    <2>10. run' = [run EXCEPT ![p] = o]
        BY <2>1 DEF Set
    <2> HIDE DEF Unshared
    <2> QED  BY <1>4, <2>1, <2>6, <2>8, <2>9, <2>10
<1>12. CASE SaveKey(p)
    <2> DEFINE o == [r EXCEPT !.at = "collect"]
               y == [NoIo EXCEPT !.at = "seed", !.target = "env", !.what = r.cmd.value]
    <2>1. r.at = "key" /\ Set(p, o) /\ BeginPersist(p, r.cmd.value) /\ Unshared
        BY <1>12 DEF SaveKey, r
    <2>2. /\ DOMAIN o = RunFields /\ o.at = "collect" /\ o.job = r.job /\ o.cmd = r.cmd /\ o.out = r.out
          /\ o.stage = r.stage /\ o.result = r.result /\ o.base = r.base /\ o.agreed = r.agreed /\ o.seen = r.seen
        BY <1>2 DEF RunFields
    <2>3. DOMAIN y = IoFields /\ y.at = "seed" /\ y.target = "env" /\ y.result = None
        BY DEF NoIo, IoFields
    <2>4. run' = [run EXCEPT ![p] = o] /\ io' = [io EXCEPT ![p] = y]
        BY <2>1 DEF Set, BeginPersist, Goes
    <2> HIDE DEF o, y, Unshared
    <2>5. VerbInv(o) /\ StageInv(o)
        BY <1>2, <2>1, <2>2 DEF VerbInv, StageInv
    <2>6. PlaceInv(o)
        BY <1>1, <1>2, <2>1, <2>2, <2>5, MoveStep
    <2>7. IoInv(y)
        BY <2>3 DEF IoInv
    <2>8. WiresInv(o, y)
        BY <1>1, <1>2, <2>1, <2>2, <2>3 DEF WiresInv
    <2> QED  BY <1>4, <2>1, <2>2, <2>4, <2>6, <2>7, <2>8
<1>13. CASE NextStep(p)
    BY <1>2, <1>13, ConcludeStep DEF NextStep, At, Statuses, r
<1> QED  BY <1>7, <1>8, <1>9, <1>10, <1>11, <1>12, <1>13 DEF WiringStep

\* The checks of doctor.
DoctorStep(p) == DoctorReadsConfig(p) \/ DoctorReadsStore(p) \/ DoctorReadsSource(p) \/ Verify(p)

LEMMA CheckLists ==
    ASSUME NEW c, NEW expected, NEW exists, NEW current, NEW count, NEW tables, NEW up, NEW pg
    PROVE  /\ host_config_checks(c, expected) \in Seq(Verdicts) /\ Len(host_config_checks(c, expected)) = 4
           /\ store_checks(exists, current, count, tables) \in Seq(Verdicts)
           /\ Len(store_checks(exists, current, count, tables)) = 3
           /\ source_checks(up, pg) \in Seq(Verdicts) /\ Len(source_checks(up, pg)) <= 3
<1>1. ASSUME NEW a \in Verdicts, NEW b \in Verdicts, NEW d \in Verdicts, NEW e \in Verdicts
      PROVE  /\ <<a, b, d, e>> \in Seq(Verdicts) /\ Len(<<a, b, d, e>>) = 4
             /\ <<a, b, d>> \in Seq(Verdicts) /\ Len(<<a, b, d>>) = 3
    OBVIOUS
<1>2. host_config_checks(c, expected) \in Seq(Verdicts) /\ Len(host_config_checks(c, expected)) = 4
    <2> DEFINE v2 == check_host_config_uses_url_env(c)
               v3 == check_host_config_version_pin_matches(c)
               v4 == check_host_config_store_path_matches(c, expected)
    <2>1. check_host_config_present(c) \in Verdicts
        BY DEF check_host_config_present, OnEntry, Verdicts
    <2>2. v2 \in Verdicts
        <3>1. (CASE schemabrain_entry_in(c).urlflag = "--source" -> "fail"
                 [] schemabrain_entry_in(c).urlflag = "--url-env" -> "pass"
                 [] OTHER -> "warn") \in Verdicts
            BY DEF Verdicts
        <3> QED  BY <3>1 DEF check_host_config_uses_url_env, OnEntry, Verdicts
    <2>3. v3 \in Verdicts
        BY DEF check_host_config_version_pin_matches, OnEntry, Verdicts
    <2>4. v4 \in Verdicts
        BY DEF check_host_config_store_path_matches, OnEntry, Verdicts
    <2>5. host_config_checks(c, expected) = <<check_host_config_present(c), v2, v3, v4>>
        BY DEF host_config_checks
    <2> HIDE DEF v2, v3, v4
    <2> QED  BY <1>1, <2>1, <2>2, <2>3, <2>4, <2>5
<1>3. store_checks(exists, current, count, tables) \in Seq(Verdicts) /\ Len(store_checks(exists, current, count, tables)) = 3
    BY <1>1 DEF store_checks, Verdicts
<1>4. source_checks(up, pg) \in Seq(Verdicts) /\ Len(source_checks(up, pg)) <= 3
    <2>1. \A v \in Verdicts : <<v>> \in Seq(Verdicts) /\ Len(<<v>>) = 1
        OBVIOUS
    <2>2. \A v, w \in Verdicts : <<v, w>> \in Seq(Verdicts) /\ Len(<<v, w>>) = 2
        OBVIOUS
    <2>3. <<>> \in Seq(Verdicts) /\ Len(<<>>) = 0
        OBVIOUS
    <2>4. \A s, t \in Seq(Verdicts) : s \o t \in Seq(Verdicts) /\ Len(s \o t) = Len(s) + Len(t)
        OBVIOUS
    <2>5. "pass" \in Verdicts /\ "warn" \in Verdicts /\ "fail" \in Verdicts
        BY DEF Verdicts
    <2> QED  BY <2>1, <2>2, <2>3, <2>4, <2>5 DEF source_checks
<1> QED  BY <1>2, <1>3, <1>4

LEMMA DoctorKeeps ==
    ASSUME IInv, NEW p \in Procs, DoctorStep(p)
    PROVE  IInv'
<1> DEFINE r == run[p]
<1>1. PlaceInv(r) /\ WiresInv(r, io[p]) /\ CuratesInv(r, rows, store)
    BY DEF IInv, ProcInv
<1>2. /\ r.at \in {"doctor", "doctor_store", "doctor_source"} /\ r.cmd.verb = "doctor"
      /\ DOMAIN r = RunFields /\ r.out \in Seq(Statuses \cup Verdicts)
      /\ r.at = "doctor" => Len(r.out) = 0
      /\ r.at = "doctor_store" => Len(r.out) <= 4
      /\ r.at = "doctor_source" => Len(r.out) <= 7
    <2>1. r.at \in {"doctor", "doctor_store", "doctor_source"}
        BY DEF DoctorStep, DoctorReadsConfig, DoctorReadsStore, DoctorReadsSource, Verify
    <2> HIDE DEF r
    <2>2. r.cmd.verb = "doctor" /\ DOMAIN r = RunFields /\ r.out \in Seq(Statuses \cup Verdicts)
        BY <1>1, <2>1 DEF PlaceInv, RunInv, VerbInv
    <2>3. /\ Len(r.out) \in Nat
          /\ Len(r.out) <= CASE r.at = "doctor" -> 0 [] r.at = "doctor_store" -> 4
                             [] r.at = "doctor_source" -> 7 [] OTHER -> 10
        BY <1>1, <2>1, <2>2 DEF PlaceInv, ChecksInv
    <2> QED  BY <2>1, <2>2, <2>3
<1> HIDE DEF r
<1>3. ASSUME NEW o, Only(p, o), DOMAIN o = RunFields, o.job = r.job, o.cmd = r.cmd, o.stage = r.stage, o.base = r.base,
             o.agreed = r.agreed, o.seen = r.seen, o.out \in Seq(Statuses \cup Verdicts),
             \/ o.at = "doctor_store" /\ Len(o.out) <= 4
             \/ o.at = "doctor_source" /\ Len(o.out) <= 7
             \/ o.at = "over" /\ Len(o.out) <= 10
      PROVE  IInv'
    <2>1. RunInv(o)
        BY <1>1, <1>2, <1>3 DEF PlaceInv, RunInv
    <2>2. VerbInv(o) /\ StageInv(o) /\ OutcomeInv(o)
        BY <1>2, <1>3 DEF VerbInv, StageInv, OutcomeInv
    <2>3. ChecksInv(o)
        BY <1>2, <1>3 DEF ChecksInv
    <2>4. WiresInv(o, io[p]) /\ CuratesInv(o, rows, store)
        BY <1>1, <1>2, <1>3 DEF WiresInv, CuratesInv
    <2> QED  BY <1>3, <2>1, <2>2, <2>3, <2>4, OnlyStep DEF PlaceInv, Only
<1>4. CASE DoctorReadsConfig(p)
    <2> DEFINE checks == IF r.cmd.host \in JsonHosts THEN host_config_checks(file.config, r.cmd.entry.store) ELSE <<"warn">>
               o == [r EXCEPT !.at = "doctor_store", !.out = checks]
    <2>1. Only(p, o)
        BY <1>4 DEF DoctorReadsConfig, r
    <2>2. checks \in Seq(Statuses \cup Verdicts) /\ Len(checks) <= 4
        <3> DEFINE h == host_config_checks(file.config, r.cmd.entry.store)
                   w == <<"warn">>
        <3>1. w \in Seq(Verdicts) /\ Len(w) \in 1 .. 4
            BY DEF Verdicts
        <3>2. h \in Seq(Verdicts) /\ Len(h) \in 1 .. 4
            BY CheckLists
        <3>3. checks = h \/ checks = w
            OBVIOUS
        <3> HIDE DEF h, w, checks, o
        <3>4. checks \in Seq(Verdicts)
            BY <3>1, <3>2, <3>3
        <3>5. Len(checks) \in 1 .. 4
            BY <3>1, <3>2, <3>3
        <3>6. \A n \in 1 .. 4 : n <= 4
            OBVIOUS
        <3>7. \A q \in Seq(Verdicts) : q \in Seq(Statuses \cup Verdicts)
            OBVIOUS
        <3> QED  BY <3>4, <3>5, <3>6, <3>7, Zenon
    <2> HIDE DEF checks
    <2>3. /\ DOMAIN o = RunFields /\ o.at = "doctor_store" /\ o.job = r.job /\ o.cmd = r.cmd /\ o.out = checks
          /\ o.stage = r.stage /\ o.base = r.base /\ o.agreed = r.agreed /\ o.seen = r.seen
        BY <1>2 DEF RunFields
    <2> HIDE DEF o
    <2> QED  BY <1>3, <2>1, <2>2, <2>3
\* Two more parts are appended.
<1>5. ASSUME NEW c \in Seq(Verdicts), NEW at,
             Only(p, [r EXCEPT !.at = at, !.out = r.out \o c]),
             \/ r.at = "doctor_store" /\ at = "doctor_source" /\ Len(c) <= 3
             \/ r.at = "doctor_source" /\ at = "over" /\ Len(c) <= 3
      PROVE  IInv'
    <2> DEFINE o == [r EXCEPT !.at = at, !.out = r.out \o c]
    <2>1. /\ DOMAIN o = RunFields /\ o.at = at /\ o.job = r.job /\ o.cmd = r.cmd /\ o.out = r.out \o c
          /\ o.stage = r.stage /\ o.base = r.base /\ o.agreed = r.agreed /\ o.seen = r.seen
        BY <1>2 DEF RunFields
    <2>2. r.out \o c \in Seq(Statuses \cup Verdicts) /\ Len(r.out \o c) = Len(r.out) + Len(c)
        BY <1>2
    <2>3. Only(p, o)
        BY <1>5
    <2>4. Len(r.out) \in Nat /\ Len(c) \in Nat
        BY <1>2
    <2> HIDE DEF o
    <2>5. \/ o.at = "doctor_source" /\ Len(o.out) <= 7
          \/ o.at = "over" /\ Len(o.out) <= 10
        BY <1>2, <1>5, <2>1, <2>2, <2>4
    <2>6. o.out \in Seq(Statuses \cup Verdicts)
        BY <2>1, <2>2
    <2> QED  BY <1>3, <2>1, <2>3, <2>5, <2>6
<1>6. CASE DoctorReadsStore(p)
    <2> DEFINE c == store_checks(store.exists, store.current, UNION {rows[s].entities : s \in Sources},
                                 UNION {rows[s].tables : s \in Sources})
    <2>1. Only(p, [r EXCEPT !.at = "doctor_source", !.out = r.out \o c]) /\ r.at = "doctor_store"
        BY <1>6 DEF DoctorReadsStore, r
    <2>2. c \in Seq(Verdicts) /\ Len(c) = 3
        BY CheckLists, Zenon
    <2> HIDE DEF c
    <2>3. Len(c) <= 3
        BY <2>2
    <2> QED  BY <1>5, <2>1, <2>2, <2>3
<1>7. CASE DoctorReadsSource(p)
    <2>1. PICK up : Only(p, [r EXCEPT !.at = "over", !.out = r.out \o source_checks(up, Postgres(r.cmd))])
        BY <1>7 DEF DoctorReadsSource, r
    <2>2. r.at = "doctor_source"
        BY <1>7 DEF DoctorReadsSource, r
    <2> DEFINE c == source_checks(up, Postgres(r.cmd))
    <2>3. c \in Seq(Verdicts) /\ Len(c) <= 3
        BY CheckLists, Zenon
    <2>4. Only(p, [r EXCEPT !.at = "over", !.out = r.out \o c])
        BY <2>1
    <2> HIDE DEF c
    <2> QED  BY <1>5, <2>2, <2>3, <2>4
<1>8. CASE Verify(p)
    <2>1. PICK res : Only(p, [r EXCEPT !.at = "over", !.result = res])
        BY <1>8 DEF Verify, r
    <2> DEFINE o == [r EXCEPT !.at = "over", !.result = res]
    <2>2. /\ DOMAIN o = RunFields /\ o.at = "over" /\ o.job = r.job /\ o.cmd = r.cmd /\ o.out = r.out
          /\ o.stage = r.stage /\ o.base = r.base /\ o.agreed = r.agreed /\ o.seen = r.seen
        BY <1>2 DEF RunFields
    <2>3. r.at = "doctor" /\ Only(p, o)
        BY <1>8, <2>1 DEF Verify, r
    <2> HIDE DEF o
    <2> QED  BY <1>2, <1>3, <2>2, <2>3
<1> QED  BY <1>4, <1>6, <1>7, <1>8 DEF DoctorStep

-----------------------------------------------------------------------------
(* The invariant is inductive *)

LEMMA IdleIsFine ==
    ASSUME NEW rs, NEW st
    PROVE  ProcInv(Idle, NoIo, rs, st) /\ WiresInv(Idle, NoIo)
<1>1. /\ DOMAIN NoIo = IoFields /\ NoIo.at = "idle" /\ NoIo.target = "config" /\ NoIo.result = None
      /\ DOMAIN Idle = RunFields /\ Idle.at = "idle" /\ Idle.stage = 0 /\ Idle.out = <<>> /\ Idle.job = NoJob
      /\ Idle.agreed = None /\ DOMAIN NoJob = JobFields
    BY DEF NoIo, IoFields, Idle, RunFields, NoJob, JobFields
<1> HIDE DEF Idle, NoIo, NoJob
<1>2. IoInv(NoIo)
    BY <1>1 DEF IoInv
<1>3. WiresInv(Idle, NoIo)
    BY <1>1, WizardAssumption DEF WiresInv
<1>4. PlaceInv(Idle) /\ CuratesInv(Idle, rs, st)
    BY <1>1 DEF PlaceInv, RunInv, VerbInv, StageInv, OutcomeInv, ChecksInv, CuratesInv
<1> QED  BY <1>2, <1>3, <1>4 DEF ProcInv

LEMMA WizardInit ==
    Init => IInv
<1> SUFFICES ASSUME Init PROVE IInv
    OBVIOUS
<1>1. PICK m \in Machines : file = m.file /\ store = m.store
    BY DEF Init
<1>2. FilesInv
    BY <1>1, WizardAssumption DEF FilesInv, Init, HostInit, Readable, SavedConfigs
<1>3. StoreInv
    <2>1. DOMAIN NoRows = RowFields /\ NoRows.tables = {} /\ NoRows.entities = {} /\ NoRows.metrics = {} /\ NoRows.joins = {}
        BY DEF NoRows, RowFields
    <2>2. rows = [s \in Sources |-> NoRows]
        BY DEF Init
    <2> HIDE DEF NoRows
    <2> QED  BY <1>1, <2>1, <2>2, WizardAssumption DEF StoreInv
<1>4. CountsInv
    BY WizardAssumption DEF CountsInv, Init, HostInit
<1>5. run = [p \in Procs |-> Idle] /\ io = [p \in Procs |-> NoIo]
    BY DEF Init, HostInit
<1>6. \A p \in Procs : ProcInv(run[p], io[p], rows, store)
    BY <1>5, IdleIsFine
<1> QED  BY <1>2, <1>3, <1>4, <1>5, <1>6 DEF IInv

LEMMA WizardStep ==
    IInv /\ [Next]_vars => IInv'
<1> SUFFICES ASSUME IInv, [Next]_vars PROVE IInv'
    OBVIOUS
<1>1. CASE UNCHANGED vars
    <2>1. FilesInv' /\ StoreInv' /\ CountsInv'
        BY <1>1 DEF IInv, vars, FilesInv, StoreInv, CountsInv
    <2> QED  BY <1>1, <2>1 DEF IInv, vars
<1>2. CASE Others
    <2>1. /\ UNCHANGED <<durable, io, store, rows, run, runs, deaths>> /\ edits' = edits + 1 /\ edits < MaxEdits
          /\ \/ file' \in {[file EXCEPT !.config = c] : c \in (Configs \cup {Malformed}) \ {file.config}}
             \/ file' \in {[file EXCEPT !.env = c] : c \in Envs \ {file.env}}
        BY <1>2 DEF Others, Save
    <2>2. FilesInv'
        <3>1. FilesInv
            BY DEF IInv
        <3>2. CASE file' \in {[file EXCEPT !.config = c] : c \in (Configs \cup {Malformed}) \ {file.config}}
            BY <2>1, <3>1, <3>2 DEF FilesInv, Readable, SavedConfigs
        <3>3. CASE file' \in {[file EXCEPT !.env = c] : c \in Envs \ {file.env}}
            BY <2>1, <3>1, <3>3 DEF FilesInv
        <3> QED  BY <2>1, <3>2, <3>3
    <2>3. StoreInv' /\ CountsInv'
        BY <2>1, WizardAssumption DEF IInv, StoreInv, CountsInv
    <2> QED  BY <2>1, <2>2, <2>3 DEF IInv
<1>3. CASE PowerLoss
    <2>1. /\ run' = [p \in Procs |-> Idle] /\ io' = [p \in Procs |-> NoIo] /\ UNCHANGED <<edits, store, rows, runs>>
          /\ deaths < MaxDeaths /\ deaths' = deaths + 1
          /\ file' = (IF durable THEN file ELSE [file EXCEPT !.config = Torn]) /\ durable' = TRUE
        BY <1>3 DEF PowerLoss, LoseUnsynced
    <2>2. FilesInv' /\ StoreInv'
        BY <2>1 DEF IInv, FilesInv, StoreInv
    <2>3. CountsInv'
        BY <2>1, WizardAssumption DEF IInv, CountsInv
    <2>4. \A p \in Procs : ProcInv(run'[p], io'[p], rows', store')
        BY <2>1, IdleIsFine
    <2> QED  BY <2>1, <2>2, <2>3, <2>4 DEF IInv
<1>4. ASSUME NEW p \in Procs, End(p) PROVE IInv'
    <2>1. io[p].at = "idle" /\ IoInv(io[p])
        BY <1>4 DEF End, IInv, ProcInv, WiresInv
    <2>2. PlaceInv(Idle) /\ CuratesInv(Idle, rows, store) /\ WiresInv(Idle, io[p])
        <3>1. ProcInv(Idle, NoIo, rows, store)
            BY IdleIsFine
        <3>2. NoIo.at = "idle"
            BY DEF NoIo
        <3> HIDE DEF NoIo, Idle
        <3> QED  BY <2>1, <3>1, <3>2 DEF ProcInv, WiresInv
    <2> QED  BY <1>4, <2>2, OnlyStep DEF End, Only
<1>5. ASSUME NEW p \in Procs, Dies(p) PROVE IInv'
    <2>1. /\ run' = [run EXCEPT ![p] = Idle] /\ io' = [io EXCEPT ![p] = NoIo]
          /\ UNCHANGED <<file, durable, edits, store, rows, runs>> /\ deaths < MaxDeaths /\ deaths' = deaths + 1
        BY <1>5 DEF Dies, Set
    <2>2. FilesInv' /\ StoreInv'
        BY <2>1 DEF IInv, FilesInv, StoreInv
    <2>3. CountsInv'
        BY <2>1, WizardAssumption DEF IInv, CountsInv
    <2>4. ProcInv(Idle, NoIo, rows', store')
        BY IdleIsFine
    <2>5. rows' = rows /\ store' = store
        BY <2>1
    <2> QED  BY <2>1, <2>2, <2>3, <2>4, <2>5, FrameStep
<1>6. ASSUME NEW p \in Procs, Wizarding(p) PROVE IInv'
    <2>1. DemoStep(p) \/ IndexingStep(p) \/ CuratingStep(p) \/ WiringStep(p) \/ InstallSteps(p) \/ DoctorStep(p)
        BY <1>6 DEF Wizarding, DemoStep, IndexingStep, CuratingStep, WiringStep, DoctorStep
    <2> QED  BY <2>1, DemoKeeps, IndexingKeeps, CuratingKeeps, WiringKeeps, FileKeeps, DoctorKeeps
<1> QED  BY <1>1, <1>2, <1>3, <1>4, <1>5, <1>6, StartStep DEF Next

\* What a run of init, demo or wire has read, asked and written at each of its stages
\* holds whatever other runs, editors, deaths and power failures do in between.
THEOREM SetupCorrect ==
    Spec => []IInv
BY WizardInit, WizardStep, PTL DEF Spec

-----------------------------------------------------------------------------
(* What follows from it *)

\* The configuration on disk is never half of one, whatever dies (config_io.py).
THEOREM ConfigStaysWhole ==
    Spec => []ConfigIsWhole
<1>1. IInv => ConfigIsWhole
    BY WizardAssumption DEF IInv, FilesInv, Readable, ConfigIsWhole
<1> QED  BY <1>1, SetupCorrect, PTL

\* Definitions and counters are of their types, and a file operation is its run's.
THEOREM SetupTyped ==
    Spec => []TypeOK
<1>1. IInv => TypeOK
    <2> SUFFICES ASSUME IInv PROVE TypeOK
        OBVIOUS
    <2>1. ASSUME NEW p \in Procs
          PROVE  run[p].stage \in 0 .. 8 /\ Len(run[p].out) <= 10 /\ (io[p].at # "idle" => run[p].at = "collect")
        <3> DEFINE r == run[p]
        <3>1. RunInv(r) /\ StageInv(r) /\ ChecksInv(r) /\ WiresInv(r, io[p])
            BY DEF IInv, ProcInv, PlaceInv
        <3> HIDE DEF r
        <3>2. r.stage \in 0 .. 8 /\ Len(r.out) \in Nat
            BY <3>1 DEF RunInv
        <3>3. CASE r.at = "idle"
            BY <3>1, <3>2, <3>3 DEF RunInv, WiresInv, r
        <3>4. CASE r.at # "idle" /\ r.cmd.verb = "init"
            BY <3>1, <3>2, <3>4 DEF StageInv, WiresInv, r
        <3>5. CASE r.at # "idle" /\ r.cmd.verb # "init"
            BY <3>1, <3>2, <3>5 DEF ChecksInv, WiresInv, r
        <3> QED  BY <3>3, <3>4, <3>5
    <2> QED  BY <2>1 DEF TypeOK, IInv, StoreInv, CountsInv
<1> QED  BY <1>1, SetupCorrect, PTL

\* A run that finds definitions of a kind writes none of that kind.
THEOREM CuratedStays ==
    Spec => []CuratedIsLeftAlone
<1>1. IInv => CuratedIsLeftAlone
    BY DEF IInv, ProcInv, CuratesInv, CuratedIsLeftAlone
<1> QED  BY <1>1, SetupCorrect, PTL

\* Every nonempty set of naturals has a least element.
LEMMA LeastNatural ==
    ASSUME NEW S, S \subseteq Nat, S # {}
    PROVE  \E n \in S : \A m \in S : n <= m
<1> DEFINE Less == {pair \in Nat \X Nat : pair[1] < pair[2]}
<1>1. IsWellFoundedOn(Less, Nat)
    BY NatLessThanWellFounded DEF OpToRel
<1>2. \A x, y \in Nat : <<x, y>> \in Less <=> x < y
    OBVIOUS
<1> HIDE DEF Less
<1>3. PICK n \in S : \A m \in S : <<m, n>> \notin Less
    BY <1>1, WFMin
<1>4. \A m \in S : m \in Nat /\ n \in Nat /\ ~(m < n)
    BY <1>2, <1>3
<1>5. \A m \in S : n <= m
    BY <1>4
<1> QED  BY <1>5

\* Exit code 0 of a run that was not stopped means the source was checked and the host
\* wired; exit code 0 of a stopped run means the operator stopped it.
THEOREM ExitStaysHonest ==
    Spec => []ExitIsHonest
<1>1. IInv => ExitIsHonest
    <2> SUFFICES ASSUME IInv, NEW p \in Procs, run[p].at = "over", run[p].cmd.verb = "init", exit_code(run[p]) = 0
                 PROVE  IF Len(run[p].out) = 7
                        THEN /\ run[p].out[1] = "done" /\ run[p].out[2] # "failed" /\ run[p].out[6] = "done"
                             /\ run[p].cmd.host \in JsonHosts => run[p].result \in {"written", "unchanged"}
                        ELSE run[p].out[Len(run[p].out)] = "cancelled"
        BY DEF ExitIsHonest
    <2> DEFINE r == run[p]
    <2>1. RunInv(r) /\ StageInv(r) /\ OutcomeInv(r) /\ r.at = "over" /\ r.cmd.verb = "init" /\ exit_code(r) = 0
        BY DEF IInv, ProcInv, PlaceInv
    <2> HIDE DEF r
    <2>2. /\ r.stage # 0 /\ r.result # "raised"
          /\ Aborted(r) => r.out[aborted_at(r)] = "cancelled"
        BY <2>1 DEF exit_code
    <2>3. Len(r.out) = r.stage - 1 /\ r.stage \in 1 .. 8 /\ r.out \in Seq(Statuses \cup Verdicts)
        BY <2>1, <2>2 DEF RunInv, StageInv
    <2>4. CASE Aborted(r)
        <3> DEFINE First(n) == r.out[n] \in Failing /\ \A m \in 1 .. (n - 1) : r.out[m] \notin Failing
                   bad == {n \in 1 .. Len(r.out) : r.out[n] \in Failing}
        <3>1. Len(r.out) \in bad
            BY <2>3, <2>4 DEF Aborted
        <3>2. PICK n \in bad : \A m \in bad : n <= m
            <4>1. bad \subseteq Nat
                BY <2>3
            <4> HIDE DEF bad
            <4> QED  BY <3>1, <4>1, LeastNatural
        <3>3. n \in DOMAIN r.out /\ First(n)
            BY <2>3, <3>2
        <3>4. aborted_at(r) \in DOMAIN r.out /\ First(aborted_at(r))
            <4>1. aborted_at(r) = CHOOSE i \in DOMAIN r.out : First(i)
                BY DEF aborted_at
            <4> HIDE DEF First
            <4> QED  BY <3>3, <4>1
        <3>5. aborted_at(r) \in 1 .. Len(r.out) /\ r.out[aborted_at(r)] = "cancelled"
            BY <2>2, <2>3, <2>4, <3>4
        <3>6. aborted_at(r) = 6 /\ Len(r.out) = 6
            BY <2>1, <2>2, <2>3, <3>5 DEF OutcomeInv, abort_on_fail, Failing
        <3>7. Len(r.out) # 7 /\ r.out[Len(r.out)] = "cancelled"
            BY <3>5, <3>6
        <3> QED  BY <3>7 DEF r
    <2>5. CASE ~Aborted(r)
        <3>1. r.stage = 8
            BY <2>1, <2>2, <2>3, <2>5 DEF OutcomeInv, Aborted, abort_on_fail
        <3>2. Len(r.out) = 7
            BY <2>3, <3>1
        <3>3. r.out[1] \notin Failing /\ r.out[2] \notin Failing /\ r.out[6] \notin Failing
            BY <2>1, <2>2, <3>2 DEF OutcomeInv, abort_on_fail
        <3>4. /\ r.out[1] \in {"done", "failed"} /\ r.out[6] \in {"done", "failed", "cancelled"}
              /\ r.out[6] = "done" /\ r.cmd.host \in JsonHosts => r.result \in {"written", "unchanged"}
            BY <2>1, <2>2, <3>2 DEF OutcomeInv
        <3> QED  BY <3>2, <3>3, <3>4 DEF Failing, r
    <2> QED  BY <2>4, <2>5
<1> QED  BY <1>1, SetupCorrect, PTL

\* An entry that init installs has all its parts and names the URL by its variable.
LEMMA SnippetIsEntry ==
    ASSUME NEW e \in Snippets
    PROVE  IsEntry(e) /\ e # None /\ e.urlflag = "--url-env"
<1>1. PICK cmd \in UNION {CommandLines(q) : q \in Procs} : e = build_snippet(cmd)
    BY DEF Snippets
<1>2. PICK q \in Procs : cmd \in CommandLines(q)
    OBVIOUS
<1>3. PICK given \in Commands[q] : cmd \in Answered(given)
    BY <1>2 DEF CommandLines
<1>4. PICK host \in effective_hosts(given), block \in pii_block_choices(given) : cmd = Chosen(given, host, block)
    BY <1>3 DEF Answered
<1>5. DOMAIN given = CmdFields /\ IsEntry(given.entry)
    BY WizardAssumption
<1>6. cmd.entry = [given.entry EXCEPT !.block = block]
    BY <1>4, <1>5 DEF Chosen, CmdFields
<1>7. IsEntry(cmd.entry)
    BY <1>5, <1>6 DEF IsEntry
<1>8. IsEntry(build_snippet(cmd)) /\ build_snippet(cmd).urlflag = "--url-env"
    <2> DEFINE d == cmd.entry
               extra == cmd.host = "cursor"
               pin == IF d.command = "uvx" THEN Installed ELSE None
               s == [d EXCEPT !.urlflag = "--url-env", !.extra = extra, !.pin = pin]
    <2>1. build_snippet(cmd) = s
        BY DEF build_snippet
    <2> HIDE DEF d, extra, pin
    <2>2. DOMAIN d = EntryFields
        BY <1>7 DEF IsEntry, EntryFields, d
    <2>3. s = [f \in EntryFields |-> s[f]]
        BY <2>2
    <2>4. s.urlflag = "--url-env"
        BY <2>2 DEF EntryFields
    <2> HIDE DEF s
    <2>5. IsEntry(s)
        BY <2>3 DEF IsEntry, EntryFields
    <2> QED  BY <2>1, <2>4, <2>5
<1> QED  BY <1>1, <1>8, WizardAssumption

\* doctor finds nothing wrong with an entry that init wrote and nobody changed since.
THEOREM InitPleasesDoctor ==
    Spec => []InitSatisfiesDoctor
<1>1. IInv => InitSatisfiesDoctor
    <2> SUFFICES ASSUME IInv, NEW p \in Procs, run[p].at = "over",
                        ~Unreadable(file.config), schemabrain_entry_in(file.config) = build_snippet(run[p].cmd)
                 PROVE  checks_exit_code(host_config_checks(file.config, run[p].cmd.entry.store)) = 0
        BY DEF InitSatisfiesDoctor
    <2> DEFINE c == file.config
               expected == run[p].cmd.entry.store
               e == build_snippet(run[p].cmd)
    <2>1. e \in Snippets
        BY DEF IInv, ProcInv, PlaceInv, RunInv
    <2>2. e # None /\ e.urlflag = "--url-env"
        BY <2>1, SnippetIsEntry
    <2>3. c # Absent
        BY <2>2 DEF schemabrain_entry_in
    <2> HIDE DEF c, expected, e
    <2>4. schemabrain_entry_in(c) = e /\ ~Unreadable(c)
        BY DEF c, e
    <2>5. /\ check_host_config_present(c) # "fail"
          /\ check_host_config_uses_url_env(c) # "fail"
          /\ check_host_config_version_pin_matches(c) # "fail"
          /\ check_host_config_store_path_matches(c, expected) # "fail"
        BY <2>2, <2>3, <2>4 DEF OnEntry, check_host_config_present, check_host_config_uses_url_env,
            check_host_config_version_pin_matches, check_host_config_store_path_matches
    <2> DEFINE checks == host_config_checks(c, expected)
    <2>6. /\ DOMAIN checks = 1 .. 4
          /\ checks[1] # "fail" /\ checks[2] # "fail" /\ checks[3] # "fail" /\ checks[4] # "fail"
        BY <2>5 DEF host_config_checks
    <2> HIDE DEF checks
    <2>7. \A i \in DOMAIN checks : checks[i] # "fail"
        BY <2>6
    <2> QED  BY <2>7 DEF checks_exit_code, checks, c, expected
<1> QED  BY <1>1, SetupCorrect, PTL

\* A file operation that is about to rename and says afterwards that it wrote has renamed.
LEMMA WrittenIsRenamed ==
    ASSUME IInv, [Next]_vars, NEW p \in Procs, io[p].at = "rename", io'[p].result = "written"
    PROVE  Rename(p)
<1>1. io[p].result = None /\ None # "written" /\ run[p].at = "collect" /\ io = [q \in Procs |-> io[q]]
    BY WizardAssumption DEF IInv, ProcInv, IoInv, WiresInv
<1>2. io' # io
    BY <1>1
<1>3. NoIo.result = None /\ ~PowerLoss
    BY <1>1 DEF NoIo, PowerLoss
<1>4. PICK q \in Procs : Wizarding(q) \/ Dies(q)
    BY <1>2, <1>3 DEF Next, vars, Others, Save, Start, End, Only
<1>5. CASE Dies(q)
    BY <1>1, <1>3, <1>5 DEF Dies
<1>6. CASE Wizarding(q)
    <2>1. ~DemoStep(q)
        BY <1>2 DEF DemoStep, DockerMissing, DockerRun, WaitForPostgres, StaleCheck, LoadFixture, DemoByHand, DemoFails, Only
    <2>2. ~IndexingStep(q)
        BY <1>2, ZenonT(30) DEF IndexingStep, SourceCheck, IndexStage, IndexTable, IndexEnds, Concludes, Only
    <2>3. ~CuratingStep(q)
        BY <1>2, ZenonT(30) DEF CuratingStep, CurateSkips, CurateFails, CuratePlans, WriteOne, WriteDbtJoin, CurateEnds, Concludes, Only
    <2>4. ~DoctorStep(q)
        BY <1>2 DEF DoctorStep, DoctorReadsConfig, DoctorReadsStore, DoctorReadsSource, Verify, Only
    <2>5. ~WiringStep(q)
        <3>1. ~Peek(q)
            BY <1>2 DEF Peek, Concludes, Only
        <3>2. ~Answer(q) /\ ~InitRefuses(q) /\ ~NextStep(q)
            BY <1>2 DEF Answer, InitRefuses, NextStep, Concludes, Only
        <3>3. ~InitPasses(q)
            <4> SUFFICES ASSUME InitPasses(q) PROVE FALSE
                OBVIOUS
            <4>1. q # p
                BY <1>1 DEF InitPasses
            <4>2. run[q].cmd.host \in Hosts
                BY DEF InitPasses, IInv, ProcInv, PlaceInv, RunInv
            <4>3. io' = io \/ \E y : io' = [io EXCEPT ![q] = y]
                BY <4>2 DEF InitPasses, BeginInstall, Goes, Only, Hosts, JsonHosts
            <4> QED  BY <1>1, <1>2, <4>1, <4>3
        <3>4. ~SaveKey(q)
            BY <1>1 DEF SaveKey, BeginPersist, Goes
        <3>5. ~Collect(q)
            BY <1>1, <1>3 DEF Collect
        <3> QED  BY <3>1, <3>2, <3>3, <3>4, <3>5 DEF WiringStep
    <2>6. FileStep(q)
        BY <1>6, <2>1, <2>2, <2>3, <2>4, <2>5 DEF Wizarding, DemoStep, IndexingStep, CuratingStep, WiringStep, DoctorStep, InstallSteps
    <2>7. q = p
        <3> SUFFICES ASSUME q # p PROVE FALSE
            OBVIOUS
        <3>1. \E y : io' = [io EXCEPT ![q] = y]
            BY <2>6 DEF FileStep, SeedEnv, ReadConfig, ReadEnv, ReserveBackup, CopyBackup, WriteTemp, SyncTemp,
                        Rename, WriteRaises, Goes, Ends
        <3> QED  BY <1>1, <3>1
    <2>8. Rename(p) \/ WriteRaises(p)
        BY <2>6, <2>7 DEF FileStep, SeedEnv, ReadConfig, ReadEnv, ReserveBackup, CopyBackup, WriteTemp, SyncTemp
    <2>9. ~WriteRaises(p)
        BY <1>1 DEF WriteRaises, Ends, Goes, NoIo
    <2> QED  BY <2>8, <2>9
<1> QED  BY <1>4, <1>5, <1>6

\* What a rename puts in place is the merge of what was read with what is installed.
LEMMA RenamedIsMerged ==
    ASSUME IInv, NEW p \in Procs, Rename(p)
    PROVE  /\ io[p].target = "config" => file'.config = merge_schemabrain_entry(io[p].read, io[p].what)
           /\ io[p].target = "env" => file'.env = persist_key(io[p].read, io[p].what)
<1>1. /\ file = [config |-> file.config, env |-> file.env]
      /\ io[p].tmp = Merged(io[p]) /\ io[p].target \in {"config", "env"}
    BY DEF IInv, FilesInv, ProcInv, IoInv, Rename
<1>2. file' = [file EXCEPT ![io[p].target] = io[p].tmp]
    BY DEF Rename
<1> QED  BY <1>1, <1>2 DEF Merged

\* A rename over the content that was read keeps every other server and variable.
THEOREM OthersAreKept ==
    Spec => OthersKept
<1>1. IInv /\ [Next]_vars =>
        [\A p \in Procs :
            io[p].at = "rename" /\ io'[p].result = "written" /\ file[io[p].target] = io[p].read =>
                IF io[p].target = "config"
                THEN file'.config.others =
                        IF file.config = Absent \/ ~file.config.dict THEN {} ELSE file.config.others
                ELSE file.env # Absent => \A v \in DOMAIN file.env \ {KeyVar} : file'.env[v] = file.env[v]]_hostVars
    <2> SUFFICES ASSUME IInv, [Next]_vars, NEW p \in Procs,
                        io[p].at = "rename", io'[p].result = "written", file[io[p].target] = io[p].read
                 PROVE  IF io[p].target = "config"
                        THEN file'.config.others =
                                IF file.config = Absent \/ ~file.config.dict THEN {} ELSE file.config.others
                        ELSE file.env # Absent => \A v \in DOMAIN file.env \ {KeyVar} : file'.env[v] = file.env[v]
        OBVIOUS
    <2>1. Rename(p)
        BY WrittenIsRenamed
    <2>2. /\ io[p].target = "config" => file'.config = merge_schemabrain_entry(io[p].read, io[p].what)
          /\ io[p].target = "env" => file'.env = persist_key(io[p].read, io[p].what)
        BY <2>1, RenamedIsMerged
    <2>3. io[p].target \in {"config", "env"}
        BY DEF IInv, ProcInv, IoInv
    <2>4. CASE io[p].target = "config"
        BY <2>2, <2>4 DEF merge_schemabrain_entry
    <2>5. CASE io[p].target = "env"
        <3> SUFFICES ASSUME file.env # Absent, NEW v \in DOMAIN file.env \ {KeyVar}
                     PROVE  file'.env[v] = file.env[v]
            BY <2>5
        <3> QED  BY <2>2, <2>5 DEF persist_key
    <2> QED  BY <2>3, <2>4, <2>5
<1> QED  BY <1>1, SetupCorrect, PTL DEF Spec, OthersKept

\* When only the store path is reported to differ, nothing else that is compared differs.
LEMMA StorePathOnly ==
    ASSUME NEW old, NEW new, IsEntry(old), IsEntry(new),
           diff_mcp_entry_fields(old, new) = {"args[--store-path]"}
    PROVE  None \notin {old.store, new.store} /\ [new EXCEPT !.store = old.store, !.extra = old.extra] = old
<1> DEFINE other == <<old.pin, old.urlflag, old.block>> # <<new.pin, new.urlflag, new.block>>
           store1 == old.store # new.store
           part1 == IF old.command # new.command THEN {"command"} ELSE {}
           part2 == IF other \/ (store1 /\ None \in {old.store, new.store}) THEN {"args"}
                    ELSE IF store1 THEN {"args[--store-path]"} ELSE {}
           part3 == IF old.env # new.env THEN {"env"} ELSE {}
<1>1. part1 \cup part2 \cup part3 = {"args[--store-path]"}
    BY DEF diff_mcp_entry_fields
<1>2. old.command = new.command
    BY <1>1
<1>3. old.env = new.env
    BY <1>1
<1>4. ~other /\ None \notin {old.store, new.store}
    <2> HIDE DEF other
    <2> QED  BY <1>1
<1>5. old.pin = new.pin /\ old.urlflag = new.urlflag /\ old.block = new.block
    BY <1>4
<1> QED  BY <1>2, <1>3, <1>4, <1>5 DEF IsEntry

\* Everything readable is a configuration, and its entry has the parts of one.
LEMMA ReadableEntry ==
    ASSUME NEW c \in Readable, schemabrain_entry_in(c) # None
    PROVE  IsEntry(schemabrain_entry_in(c))
<1>1. CASE c = Absent
    BY <1>1 DEF schemabrain_entry_in
<1>2. CASE c \in SavedConfigs
    BY <1>2, WizardAssumption DEF schemabrain_entry_in
<1>3. CASE c \in MergedConfigs
    <2>1. c.ours \in Snippets /\ c.dict = TRUE /\ c # Absent
        <3> DEFINE O == {{}} \cup {d.others : d \in SavedConfigs}
        <3>1. c \in [dict : {TRUE}, others : O, ours : Snippets]
            BY <1>3 DEF MergedConfigs
        <3>2. c # Absent
            BY <1>3, WizardAssumption
        <3> HIDE DEF O
        <3> QED  BY <3>1, <3>2
    <2> QED  BY <2>1, SnippetIsEntry DEF schemabrain_entry_in
<1> QED  BY <1>1, <1>2, <1>3 DEF Readable

\* Another entry is replaced only by --yes, by an answer about that very entry, or when
\* nothing but its store path differs.
THEOREM ReplacementsAreAgreed ==
    Spec => ReplacedWithConsent
<1> DEFINE Agreed(p) ==
             LET old == schemabrain_entry_in(file.config)
                 new == io[p].what
             IN  /\ io[p].at = "rename" /\ io[p].target = "config" /\ io'[p].result = "written"
                 /\ file.config = io[p].read /\ (run[p].agreed # None => file.config = run[p].seen)
                 => \/ old \in {None, new} \/ run[p].cmd.yes \/ run[p].agreed = "prompt"
                    \/ /\ None \notin {old.store, new.store}
                       /\ [new EXCEPT !.store = old.store, !.extra = old.extra] = old
<1>1. IInv /\ [Next]_vars => [\A p \in Procs : Agreed(p)]_vars
    <2> SUFFICES ASSUME IInv, NEW p \in Procs, io[p].at = "rename", io[p].target = "config",
                        file.config = io[p].read, run[p].agreed # None => file.config = run[p].seen,
                        schemabrain_entry_in(file.config) \notin {None, io[p].what},
                        ~run[p].cmd.yes, run[p].agreed # "prompt"
                 PROVE  LET old == schemabrain_entry_in(file.config)
                            new == io[p].what
                        IN  /\ None \notin {old.store, new.store}
                            /\ [new EXCEPT !.store = old.store, !.extra = old.extra] = old
        OBVIOUS
    <2> DEFINE c == file.config
               old == schemabrain_entry_in(c)
               new == io[p].what
    <2>1. /\ c \in Readable /\ ~install_refused(c, io[p]) /\ new = build_snippet(run[p].cmd)
          /\ io[p].yes => run[p].agreed # None
          /\ run[p].at = "collect"
        BY DEF IInv, ProcInv, IoInv, WiresInv
    <2>2. new \in Snippets
        BY <2>1 DEF IInv, ProcInv, PlaceInv, RunInv
    <2>3. run[p].agreed = "store_path"
        BY <2>1 DEF IInv, ProcInv, WiresInv, install_refused
    <2>4. compare_existing_claude_desktop_entry(c, new) = "differs_store_path_only"
        BY <2>1, <2>3, WizardAssumption DEF IInv, ProcInv, WiresInv
    <2>5. diff_mcp_entry_fields(old, new) = {"args[--store-path]"}
        BY <2>1, <2>4 DEF compare_existing_claude_desktop_entry, install_refused
    <2>6. IsEntry(old) /\ IsEntry(new)
        BY <2>1, <2>2, ReadableEntry, SnippetIsEntry
    <2> HIDE DEF c, old, new
    <2>7. None \notin {old.store, new.store} /\ [new EXCEPT !.store = old.store, !.extra = old.extra] = old
        BY <2>5, <2>6, StorePathOnly
    <2> QED  BY <2>7, SMTT(30) DEF old, new, c
<1> QED  BY <1>1, SetupCorrect, PTL DEF Spec, ReplacedWithConsent

=============================================================================
